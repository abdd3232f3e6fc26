-------------------------- MODULE ConfirmationGate --------------------------
(***************************************************************************)
(* Whether a candidate cause is confirmed, and what is left to investigate *)
(* when it is not: the causal chain (causal_chain.py), the strict gate     *)
(* (causal_confirmation.py), the claim gaps (causal_evidence_gap.py) and   *)
(* what the hypothesis engine does to a proposal before it reaches them.   *)
(***************************************************************************)
EXTENDS CausalEvidenceMatrix

EntityClaims == {"equipment", "chamber", "operation"}
RequiredClaims == {"parameter", "outcome", "mechanism", "scope"}

SearchStatuses == {"not_searched", "unresolved", "alternative_found",
                   "alternatives_eliminated"}
(* The other candidates of the round: none, none with as many supported    *)
(* claims as this one, or one with as many.                                *)
Rivals == {"none", "unequal", "equal"}
Conclusions == {"supported", "inconclusive", "insufficient_evidence"}

Statuses(m, claims) == {m[k].status : k \in claims}

-----------------------------------------------------------------------------
(* _parse_candidate: a reply of the model is refused when a candidate has  *)
(* no support, cites one item both ways or an unknown one, or is supported *)
(* by what cannot support or by knowledge no engineer confirmed.           *)
Confirmed(e) == Fact[e].type \in KnowledgeTypes => Fact[e].role = "approved"
Accepted(c, known) ==
  /\ c.for # {} /\ c.for \cap c.against = {}
  /\ c.for \cup c.against \subseteq known
  /\ \A e \in c.for : Fact[e].type \notin NonSupporting /\ Confirmed(e)

(* _llm_candidate_payload takes the same items out of the support again;...*)
Supporting(c, known) ==
  {e \in c.for \cap known : Fact[e].type \notin NonSupporting /\ Confirmed(e)}

(* Mutant: it must be about every lot of the support.                      *)
SpeaksAgainstEveryLot(e, support) ==
  /\ Fact[e].type = "negative_signal" /\ Fact[e].role # "control"
  /\ Fact[e].labels \cap LabelsOf(Of(ProcessTypes, support)) # {}
  /\ LotsOf(support) \subseteq Fact[e].lots

(* ... a signal that a parameter was normal speaks against a candidate     *)
(* built on that parameter in the same lots, cited or not.                 *)
SpeaksAgainst(e, support) ==
  LET process == Of(ProcessTypes, support)
  IN  /\ Fact[e].type = "negative_signal" /\ Fact[e].role # "control"
      /\ Fact[e].labels \cap LabelsOf(process) # {}
      /\ \/ LotsOf(support) = {} \/ Fact[e].lots = {}
         \/ Fact[e].lots \cap LotsOf(support) # {}

Admitted(c, known) ==
  LET support == Supporting(c, known)
  IN  [c EXCEPT !.for = support,
                !.against = (@ \cap known) \cup {e \in known : SpeaksAgainst(e, support)}]

-----------------------------------------------------------------------------
(* assess_causal_chain.  A plausible mechanism does not break the chain.   *)
Exposure(m) ==
  LET place == Statuses(m, EntityClaims)
      scope == m.scope.status
  IN  IF "conflicted" \in place \cup {scope} THEN "conflicted"
      ELSE IF scope = "supported" /\ "supported" \in place THEN "supported"
      ELSE IF "unavailable" \in place \cup {scope} THEN "unavailable"
      ELSE "incomplete"

Chain(m) ==
  LET stages == {Exposure(m)} \cup Statuses(m, {"parameter", "mechanism", "outcome"})
  IN  IF "conflicted" \in stages THEN "conflicting"
      ELSE IF /\ stages \cap {"incomplete", "unavailable"} = {}
              /\ Statuses(m, {"temporal", "scope"}) = {"supported"} THEN "complete"
      ELSE "incomplete"

(* _confirmation_missing_source_is_blocking: a source that is missing      *)
(* blocks when declared required, or when nothing stands in for it.        *)
ClaimsFrom(e) ==
  LET source == Fact[e].source
  IN  {k \in {"parameter", "temporal"} : source \in {"fdc", "analytics"} \/ Fact[e].field}
        \cup {k \in {"outcome"} : source \in {"defect", "wat"}}
        \cup {k \in EntityClaims \cup {"scope"} : source = "mes"}

Blocking(m, known) ==
  {e \in Of({"data_missing"}, known) :
     Fact[e].required \/ "unavailable" \in Statuses(m, ClaimsFrom(e))}

(* A claim about a place is in order unless it is conflicted, or the cause *)
(* spells an identity of the evidence without the claim being supported.   *)
InPlace(c, m, f) ==
  /\ m[f].status # "conflicted"
  /\ m[f].status # "supported" => c.mentions \cap IdsAt(f, m[f].ids) = {}

(* The checks of confirm_candidate, strict and with the chain required: of *)
(* the claims, ...                                                         *)
ClaimChecks(c, m, known) ==
  [causal_chain       |-> Chain(m) = "complete",
   data_available     |-> Blocking(m, known) = {},
   exposure           |-> Of(ExposureTypes, UNION {m[f].ids : f \in EntityClaims}) # {},
   place              |-> \A f \in EntityClaims : InPlace(c, m, f),
   required           |-> Statuses(m, RequiredClaims) = {"supported"},
   temporal           |-> m.temporal.status = "supported",
   contradiction_free |-> m.contradiction.status # "conflicted"]

(* ... and of the other candidates and the precursors.                     *)
Checks(claimChecks, search, rival, precursors) ==
  [k \in DOMAIN claimChecks \cup {"precursor_explained", "no_equal_alternative"} |->
     CASE k = "precursor_explained"  -> ~precursors
       [] k = "no_equal_alternative" -> search = "alternatives_eliminated" /\ rival # "equal"
       [] OTHER                      -> claimChecks[k]]

(* confirm_candidate.                                                      *)
Conclusion(checks, m, search, rival) ==
  IF \A k \in DOMAIN checks : checks[k] THEN "supported"
  ELSE IF search = "unresolved" /\ rival # "none" THEN "inconclusive"
  ELSE IF ~checks.data_available \/ "unavailable" \in Statuses(m, RequiredClaims)
  THEN "insufficient_evidence"
  ELSE "inconclusive"

-----------------------------------------------------------------------------
(* _CLAIM_TO_QUESTION and _CLAIM_TO_GROUPS over the capability registry:   *)
(* the actions that can contribute to a claim.                             *)
ActionsFor(k) ==
  CASE k \in EntityClaims \cup {"scope"} ->
         {"find_shared_exposure", "validate_shared_defect_pattern"}
    [] k = "parameter" -> {"inspect_fdc_spc"}
    [] k = "temporal"  -> {"inspect_fdc_spc", "find_shared_exposure"}
    [] k = "outcome"   -> {"inspect_defect_pattern", "validate_shared_defect_pattern"}
    [] k = "mechanism" -> {"inspect_fdc_spc", "validate_historical_case"}
    [] k = "contradiction" -> {"inspect_fdc_spc", "inspect_defect_pattern"}

Gap(k, l, actions) == [claim |-> k, lane |-> l, actions |-> actions]

(* build_causal_evidence_gaps: one gap per claim that is not supported. The*)
(* scope of a broad candidate has a gap per lane instead, where the process*)
(* or the outcome of a lane is not covered.                                *)
CoverageGaps(c) ==
  LET p == c.profile
      stated == p.kind \in BroadKinds /\ p.relation # "unresolved"
      lanes(types) == {l \in Lanes : stated /\ l \in Uncovered(p, types, c.for)}
  IN  {Gap("scope", l, {"inspect_fdc_spc", "run_rca_reasoning"}) : l \in lanes(ProcessTypes)}
      \cup {Gap("scope", l, {"validate_shared_defect_pattern", "run_rca_reasoning"}) :
              l \in lanes(OutcomeTypes)}

(* Mutant: a gap is what is not known yet; a conflict is final.            *)
GapsOfTheUnknown(c, m) ==
  CoverageGaps(c)
    \cup {Gap(k, NoLane, ActionsFor(k)) :
            k \in {x \in DOMAIN m \ {"control"} :
                     m[x].status \in {"incomplete", "unavailable", "plausible"}}}

Gaps(c, m) ==
  LET coverage == CoverageGaps(c)
      open == {k \in DOMAIN m \ {"control"} :
                 /\ m[k].status # "supported"
                 /\ k = "scope" => coverage = {}}
  IN  coverage \cup {Gap(k, NoLane, ActionsFor(k)) : k \in open}
=============================================================================
