-------------------------- MODULE CausalConclusion --------------------------
(***************************************************************************)
(* From the specialists' evidence to a published cause and its lots: the   *)
(* reasoning action of rca_reasoning_agent.py over the hypothesis engine,  *)
(* what supervisor.py records of its finding and what the finalizer makes  *)
(* of it.  The rounds that lead to a proposal are CausalReasoning's; here a*)
(* proposal is any candidate text with any citations.                      *)
(*                                                                         *)
(* One round is enough: the reasoning action reads the evidence, and of an *)
(* earlier round's finding only its number.                                *)
(***************************************************************************)
EXTENDS ImpactScope

CONSTANTS
  Proposals,    \* candidates the model can propose, with what they cite
  Requests,     \* what a request states: what was seen, what is unavailable
  Reports,      \* specialist findings: the agent and the evidence it brings
  Late,         \* those of them that may still come after the RCA finding
  NoFinding,
  NoResult

ASSUME InputsAreTyped ==
  /\ Proposals \subseteq Candidates
  /\ Requests \subseteq SUBSET Evidence /\ Late \subseteq Reports
  /\ \A r \in Reports : r.agent \in {"mes", "fdc", "defect_wat", "knowledge"}
                        /\ r.items \subseteq Evidence

VARIABLES
  evidence,     \* state.evidence
  impactLots,   \* state.impact_lots
  finding,      \* the authoritative RCA finding
  result        \* the impact publication of the terminal state

vars == <<evidence, impactLots, finding, result>>

Init ==
  /\ evidence \in Requests /\ impactLots = {}
  /\ finding = NoFinding /\ result = NoResult

-----------------------------------------------------------------------------
(* _record_controlled_finding of a specialist.  A MES finding sets the     *)
(* impact lots, also when a reasoning round has set them before.           *)
Report(r) ==
  /\ result = NoResult
  /\ finding # NoFinding => r \in Late
  /\ ~(r.items \subseteq evidence)
  /\ evidence' = evidence \cup r.items
  /\ impactLots' = IF r.agent = "mes" THEN ObservedLots(r.items) ELSE impactLots
  /\ UNCHANGED <<finding, result>>

(* HypothesisEngine.analyze, for one candidate and before it looks at the  *)
(* others.  The lots it reaches are RCAReasoningAgent.analyze's.           *)
Judgement(c) ==
  LET m == Matrix(c, evidence)
  IN  [candidate |-> c, matrix |-> m, gaps |-> Gaps(c, m),
       checks |-> ClaimChecks(c, m, evidence), lots |-> CandidateLots(c, evidence)]

(* The finding of RCAReasoningAgent.analyze.  Its conclusion is the gate's,*)
(* whatever the admission checks and conflicting physics said; the lots the*)
(* candidate reaches are confirmed when it is.                             *)
Finding(j, checks, conclusion) ==
  [candidate |-> j.candidate, checks |-> checks, gaps |-> j.gaps,
   conclusion |-> conclusion, lots |-> j.lots,
   confirmed |-> IF conclusion = "supported" THEN j.lots ELSE {}]

(* The reasoning action.  Any proposal may be ranked first.                *)
Reason(proposal) ==
  /\ finding = NoFinding /\ result = NoResult
  /\ Accepted(proposal, evidence)
  /\ \E j \in {Judgement(Admitted(proposal, evidence))},
       search \in SearchStatuses, rival \in Rivals, precursors \in BOOLEAN :
       LET checks == Checks(j.checks, search, rival, precursors)
       IN  finding' = Finding(j, checks, Conclusion(checks, j.matrix, search, rival))
  /\ impactLots' = finding'.confirmed \ {Source}
  /\ UNCHANGED <<evidence, result>>

(* _attach_authority_results: the finding's lots are judged again by the   *)
(* terminal conclusion, which may be weaker than the finding's.            *)
Finalize ==
  /\ finding # NoFinding /\ result = NoResult
  /\ \E conclusion \in Conclusions :
       /\ conclusion = "supported" => finding.conclusion = "supported"
       /\ result' = [conclusion |-> conclusion,
                     lots |-> IF conclusion = "supported" THEN finding.lots ELSE {}]
  /\ UNCHANGED <<evidence, impactLots, finding>>

Next == (\E r \in Reports : Report(r)) \/ (\E c \in Proposals : Reason(c)) \/ Finalize

Spec == Init /\ [][Next]_vars

-----------------------------------------------------------------------------
(* Properties.                                                             *)

Cited(types, c) == Of(types, c.for)
Names(e, c) == Fact[e].labels \cap c.labels # {}

(* A cited deviation dated inside its own window, or else inside a cited   *)
(* excursion; and one dated outside.                                       *)
WindowsFor(e, c) ==
  IF Fact[e].windows # {} THEN Fact[e].windows
  ELSE WindowsOf(Cited({"excursion_window"}, c))
InTime(e, c) == Inside(Fact[e].stamp, WindowsFor(e, c))
OutOfTime(e, c) == WindowsFor(e, c) # {} /\ Fact[e].stamp # NoStamp /\ ~InTime(e, c)

(* What may carry a mechanism: a rule, confirmed knowledge, a confirmed    *)
(* intermediate or a validated trial, about what the cause names.          *)
Explains(e, c) == Fact[e].role \in {"rule", "approved", "confirmed", "trial"} /\ Names(e, c)

(* A signal that a named parameter was normal in a lot of the cause.       *)
Refutes(e, c) ==
  /\ Fact[e].type = "negative_signal" /\ Fact[e].role # "control"
  /\ \E p \in Cited(ProcessTypes, c) :
       Fact[p].labels \cap Fact[e].labels # {} /\ Fact[p].lots \cap Fact[e].lots # {}

Grounded(c, known) ==
  /\ c.for \subseteq known
  /\ \E e \in Cited(ExposureTypes, c), f \in EntityClaims : Fact[e].at[f] # {}
  /\ \E f \in EntityClaims : c.names[f] \cap IdsAt(f, c.for) # {}
  /\ \A f \in EntityClaims :
       c.names[f] # {} => IdsAt(f, c.for) = {} \/ c.names[f] \cap IdsAt(f, c.for) # {}
  /\ \E p \in Cited(ProcessTypes, c), o \in Cited(OutcomeTypes, c) :
       Names(p, c) /\ Names(o, c)
  /\ \E p \in Cited(ProcessTypes, c) : InTime(p, c)
  /\ \A p \in Cited(ProcessTypes, c) : ~OutOfTime(p, c)
  /\ \E e \in c.for : Explains(e, c)
  /\ \A e \in known : ~Refutes(e, c)
  /\ \A e \in Of({"data_missing"}, known) : ~Fact[e].required
  /\ c.profile.kind # "lane" =>
       LET causes == LotsOf(Cited(ExposureTypes \cup ProcessTypes, c))
           effects == LotsOf(Cited(OutcomeTypes, c))
       IN  causes = {} \/ effects = {} \/ causes \cap effects # {}

(* A cause is only ever concluded on evidence that was there: an exposure  *)
(* at a place, a deviation and an outcome that it names, a deviation inside*)
(* its window and none outside, something that carries the mechanism, a lot*)
(* they share, nothing known that refutes it, no required source missing.  *)
(* The deviation in its window need not be the one the cause names, and of *)
(* evidence that names no lot nothing is asked.                            *)
SupportedIsGrounded ==
  [][/\ finding' # finding
     /\ finding'.conclusion = "supported"
     => Grounded(finding'.candidate, evidence)]_vars

(* The claims behind a check that more evidence can turn.                  *)
Behind(check) ==
  CASE check = "causal_chain"       -> EntityClaims \cup RequiredClaims \cup {"temporal"}
    [] check = "place"              -> EntityClaims
    [] check = "required"           -> RequiredClaims
    [] check = "temporal"           -> {"temporal"}
    [] check = "contradiction_free" -> {"contradiction"}
    [] OTHER                        -> {}

(* A refusal that evidence could turn leaves a gap about the very claim it *)
(* was for, with something to do other than to reason again.  Refused for  *)
(* anything else (a rival, an unexplained precursor, a missing source, no  *)
(* exposure of its own) a candidate may leave none.                        *)
RefusalHasWayForward ==
  finding # NoFinding =>
    \A k \in DOMAIN finding.checks :
      ~finding.checks[k] /\ Behind(k) # {} =>
        \E g \in finding.gaps :
          g.claim \in Behind(k) /\ g.actions \ {"run_rca_reasoning"} # {}

(* A deviation that can be the lot's and the cause's: that of a shared     *)
(* effect may be another lot's.                                            *)
DeviationOf(p, lot, c) ==
  /\ lot \in Fact[p].lots \/ BroadShared(c)
  /\ Compatible(p, c)

(* A lot whose own evidence puts it at a place of the cause, in its time   *)
(* and with its outcome.  The deviation at the place, the one in the window*)
(* and the one the cause names may be three: each check asks for one.      *)
Proven(lot, c) ==
  LET deviations == {p \in Of(ProcessTypes, evidence) : DeviationOf(p, lot, c)}
      exposures  == OfLot(lot, Of(ExposureTypes, evidence))
  IN  /\ \A f \in EntityClaims : \E x \in exposures, p \in deviations :
           Compatible(x, c) /\ Fact[x].at[f] \cap Fact[p].at[f] # {}
      /\ \E p \in deviations : Fact[p].labels \cap c.spelled # {}
      /\ \E p \in deviations : During(p, WindowsOf(evidence))
      /\ \E o \in OfLot(lot, Of(OutcomeTypes, evidence)) : Fact[o].labels \cap c.spelled # {}

(* A published lot is not the source lot, was reported as impacted, is     *)
(* proven for the concluded cause, and the cause stands to the end.        *)
PublishedLotsAreProven ==
  result # NoResult => \A lot \in result.lots :
    /\ result.conclusion = "supported" /\ finding.conclusion = "supported"
    /\ lot \in ObservedLots(evidence)
    /\ Proven(lot, finding.candidate)
=============================================================================
