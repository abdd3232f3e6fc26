----------------------- MODULE CausalConclusionProofs -----------------------
(***************************************************************************)
(* TLAPS proofs about CausalConclusion, for any evidence, lanes, proposals *)
(* and reports.                                                            *)
(*                                                                         *)
(* Most of the argument is about operators.  The first part reads off each *)
(* claim of the matrix what the evidence must have been for it to be       *)
(* supported, and the second puts these together at the gate.  The third   *)
(* says that every check that evidence could turn leaves a gap, the fourth *)
(* what the checks of a lot rest on; that evidence only grows makes it     *)
(* last until the lots are published.                                      *)
(***************************************************************************)
EXTENDS CausalConclusion, TLAPS

(* A candidate that admission has been over.                               *)
Cleared(c, known) ==
  /\ c \in Candidates
  /\ c.for \subseteq known
  /\ \A e \in c.for : Fact[e].type \notin NonSupporting /\ Confirmed(e)
  /\ \A e \in known : SpeaksAgainst(e, c.for) => e \in c.against

LEMMA AdmittedIsCleared ==
  ASSUME NEW c \in Candidates, NEW known \in SUBSET Evidence
  PROVE  Cleared(Admitted(c, known), known)
<1> DEFINE support == Supporting(c, known)
           against == (c.against \cap known) \cup {e \in known : SpeaksAgainst(e, support)}
           d == [c EXCEPT !.for = support, !.against = against]
<1>1. /\ support \subseteq known /\ against \subseteq Evidence /\ support \subseteq Evidence
      /\ \A e \in support : Fact[e].type \notin NonSupporting /\ Confirmed(e)
  BY DEF Supporting
<1>2. \A e \in known : SpeaksAgainst(e, support) => e \in against
  OBVIOUS
<1> HIDE DEF support, against
<1>3. d \in Candidates /\ d.for = support /\ d.against = against
  BY <1>1 DEF Candidates
<1>4. Admitted(c, known) = d
  BY DEF Admitted, d, support, against
<1> HIDE DEF d
<1> QED BY <1>1, <1>2, <1>3, <1>4 DEF Cleared

-----------------------------------------------------------------------------
(* What a supported claim says of the evidence.                            *)

LEMMA EntitySays ==
  ASSUME NEW f \in Fields, NEW c, NEW items
  PROVE  LET k == EntityClaim(f, c, items)
         IN  /\ k.status = "supported" => c.names[f] \cap IdsAt(f, items) # {}
             /\ k.status # "conflicted" /\ c.names[f] # {} =>
                  IdsAt(f, items) = {} \/ c.names[f] \cap IdsAt(f, items) # {}
             /\ k.ids = {e \in items : Fact[e].at[f] # {}}
<1> DEFINE typed == {e \in items : Fact[e].at[f] # {}}
           ids == IdsAt(f, typed)
<1>1. ids = IdsAt(f, items)
  BY DEF IdsAt
<1>2. typed = {} => ids = {}
  BY DEF IdsAt
<1>3. /\ EntityClaim(f, c, items).ids = typed
      /\ EntityClaim(f, c, items).status =
           IF typed = {} THEN "unavailable"
           ELSE IF c.names[f] \cap ids # {} THEN "supported"
           ELSE IF c.names[f] # {} THEN "conflicted"
           ELSE "incomplete"
  BY DEF EntityClaim, Claim
<1> HIDE DEF ids, typed
<1>4. /\ EntityClaim(f, c, items).status = "supported" => c.names[f] \cap ids # {}
      /\ EntityClaim(f, c, items).status # "conflicted" /\ c.names[f] # {} =>
           ids = {} \/ c.names[f] \cap ids # {}
  BY <1>2, <1>3
<1> QED BY <1>1, <1>3, <1>4 DEF typed

LEMMA ParameterSays ==
  ASSUME NEW c, NEW items, ParameterClaim(c, items).status = "supported"
  PROVE  \E p \in Of(ProcessTypes, items) : Names(p, c)
<1>1. Matching(c, {e \in Of(ProcessTypes, items) : Fact[e].labels # {}}) # {}
  BY DEF ParameterClaim, Claim
<1> QED BY <1>1 DEF Matching, Names

LEMMA OutcomeSays ==
  ASSUME NEW c, NEW items, OutcomeClaim(c, items).status = "supported"
  PROVE  \E o \in Of(OutcomeTypes, items) : Names(o, c)
<1>1. Matching(c, Of(OutcomeTypes, items)) # {}
  BY DEF OutcomeClaim, Claim
<1> QED BY <1>1 DEF Matching, Names

LEMMA MechanismSays ==
  ASSUME NEW c, NEW items, NEW parameter, NEW outcome,
         MechanismClaim(c, items, parameter, outcome).status = "supported"
  PROVE  \E e \in items : Explains(e, c)
<1> DEFINE inRole(r) == {e \in items : Fact[e].role = r}
<1>1. \/ \E r \in {"rule", "confirmed", "trial"} : Matching(c, inRole(r)) # {}
      \/ Matching(c, Of(KnowledgeTypes, inRole("approved"))) # {}
  BY DEF MechanismClaim, Claim
<1> QED BY <1>1 DEF Matching, Of, Explains, Names

LEMMA TemporalSays ==
  ASSUME NEW c, TemporalClaim(c.for).status = "supported"
  PROVE  /\ \E p \in Cited(ProcessTypes, c) : InTime(p, c)
         /\ \A p \in Cited(ProcessTypes, c) : ~OutOfTime(p, c)
<1> DEFINE excursions == UNION {Fact[e].windows : e \in Of({"excursion_window"}, c.for)}
           windows(e) == IF Fact[e].windows # {} THEN Fact[e].windows ELSE excursions
           dated == {e \in Of(ProcessTypes, c.for) : Fact[e].stamp # NoStamp /\ windows(e) # {}}
           aligned == {e \in dated : Inside(Fact[e].stamp, windows(e))}
           status == IF \A e \in c.for : Fact[e].stamp = NoStamp THEN "unavailable"
                     ELSE IF aligned # dated THEN "conflicted"
                     ELSE IF aligned = {} THEN "incomplete"
                     ELSE "supported"
<1>1. \A e : WindowsFor(e, c) = windows(e)
  BY DEF WindowsFor, WindowsOf, Cited
<1>2. TemporalClaim(c.for) = Claim(status, c.for)
  BY DEF TemporalClaim
<1>3. status = "supported"
  <2> HIDE DEF status
  <2> QED BY <1>2 DEF Claim
<1>4. aligned = dated /\ aligned # {}
  <2> HIDE DEF aligned, dated
  <2> QED BY <1>3
<1> HIDE DEF windows
<1>5. \E p \in Cited(ProcessTypes, c) : InTime(p, c)
  BY <1>1, <1>4 DEF InTime, Cited
<1>6. \A p \in Cited(ProcessTypes, c) : ~OutOfTime(p, c)
  BY <1>1, <1>4 DEF InTime, OutOfTime, Cited
<1> QED BY <1>5, <1>6

(* Where both sides name lots, they share one.                             *)
Share(causes, effects) == causes = {} \/ effects = {} \/ causes \cap effects # {}

LEMMA EvidenceScopeSays ==
  ASSUME NEW items \in SUBSET Evidence, NEW lanes, EvidenceScope(items, lanes) = "supported",
         NEW A \in SUBSET items, NEW B \in SUBSET items
  PROVE  Share(LotsOf(A), LotsOf(B))
<1>1. PICK l \in Lots : \A e \in items : Fact[e].lots # {} => l \in Fact[e].lots
  BY DEF EvidenceScope
<1>2. \A S \in SUBSET items : LotsOf(S) # {} => l \in LotsOf(S)
  BY <1>1 DEF LotsOf
<1> QED BY <1>2 DEF Share

LEMMA BroadScopeSays ==
  ASSUME NEW profile, NEW items, BroadScope(profile, items) = "supported"
  PROVE  Share(LotsOf(Of(ExposureTypes \cup ProcessTypes, items)), LotsOf(Of(OutcomeTypes, items)))
<1> DEFINE claimed == {f \in Fields : profile.at[f] # {}}
           inside(e) ==
             \A f \in claimed : Fact[e].at[f] = {} \/ profile.at[f] \subseteq Fact[e].at[f]
           operational == {e \in Of(ExposureTypes \cup ProcessTypes, items) : inside(e)}
           effects == LotsOf(Of(OutcomeTypes, items))
<1>1. ~(effects # {} /\ LotsOf(operational) \cap effects = {})
  BY DEF BroadScope
<1>2. LotsOf(operational) \subseteq LotsOf(Of(ExposureTypes \cup ProcessTypes, items))
  BY DEF LotsOf
<1> HIDE DEF effects, operational
<1>3. effects = {} \/ effects \cap LotsOf(Of(ExposureTypes \cup ProcessTypes, items)) # {}
  BY <1>1, <1>2
<1> QED BY <1>3 DEF Share, effects

LEMMA ScopeSays ==
  ASSUME NEW c \in Candidates, c.profile.kind # "lane",
         ScopeClaim(c, c.for).status = "supported"
  PROVE  Share(LotsOf(Cited(ExposureTypes \cup ProcessTypes, c)), LotsOf(Cited(OutcomeTypes, c)))
<1>1. /\ c.for \in SUBSET Evidence /\ c.profile.kind \in ScopeKinds
      /\ c.profile.kind = "unresolved" => c.profile.relation = "unresolved"
  BY DEF Candidates, Profiles
<1> DEFINE lanes == {Fact[e].lane : e \in c.for} \ {NoLane}
<1>2. ScopeClaim(c, c.for).status =
        IF c.profile.kind = "none" THEN EvidenceScope(c.for, lanes)
        ELSE IF c.profile.kind = "invalid" \/ c.profile.relation = "unresolved"
        THEN "incomplete"
        ELSE IF c.profile.kind \in BroadKinds THEN BroadScope(c.profile, c.for)
        ELSE LaneScope(c.profile, lanes)
  BY DEF ScopeClaim, Claim
<1> HIDE DEF lanes
<1>3. \/ EvidenceScope(c.for, lanes) = "supported"
      \/ BroadScope(c.profile, c.for) = "supported"
  BY <1>1, <1>2 DEF ScopeKinds, BroadKinds
<1>4. Cited(ExposureTypes \cup ProcessTypes, c) \in SUBSET c.for
  BY DEF Cited, Of
<1>5. Cited(OutcomeTypes, c) \in SUBSET c.for
  BY DEF Cited, Of
<1> QED BY <1>1, <1>3, <1>4, <1>5, EvidenceScopeSays, BroadScopeSays DEF Cited

-----------------------------------------------------------------------------
(* The gate.                                                               *)

Claims == EntityClaims \cup RequiredClaims \cup {"temporal", "contradiction"}

(* The claims rest on what a cleared candidate cites, all of it.           *)
LEMMA MatrixOfCleared ==
  ASSUME NEW known, NEW c, Cleared(c, known), NEW m, m = Matrix(c, known)
  PROVE  /\ DOMAIN m = Claims \cup {"control"}
         /\ \A f \in EntityClaims : m[f] = EntityClaim(f, c, c.for)
         /\ m.parameter = ParameterClaim(c, c.for)
         /\ m.outcome = OutcomeClaim(c, c.for)
         /\ m.mechanism = MechanismClaim(c, c.for, m.parameter, m.outcome)
         /\ m.scope = ScopeClaim(c, c.for)
         /\ m.temporal = TemporalClaim(c.for)
         /\ m.contradiction = ContradictionClaim(c, known)
<1>1. {e \in c.for \cap known : Fact[e].type \notin NonSupporting} = c.for
  BY DEF Cleared
<1> DEFINE p == ParameterClaim(c, c.for)
           o == OutcomeClaim(c, c.for)
           k == Claim(IF Of({"negative_signal"}, known) = {} THEN "unavailable"
                      ELSE "supported", Of({"negative_signal"}, known))
<1>2. m = [equipment |-> EntityClaim("equipment", c, c.for),
           chamber |-> EntityClaim("chamber", c, c.for),
           operation |-> EntityClaim("operation", c, c.for),
           parameter |-> p, outcome |-> o,
           scope |-> ScopeClaim(c, c.for), temporal |-> TemporalClaim(c.for),
           contradiction |-> ContradictionClaim(c, known), control |-> k,
           mechanism |-> MechanismClaim(c, c.for, p, o)]
  BY <1>1 DEF Matrix
<1> HIDE DEF p, o, k
<1>3. /\ m.parameter = p /\ m.outcome = o /\ m.scope = ScopeClaim(c, c.for)
      /\ m.temporal = TemporalClaim(c.for) /\ m.contradiction = ContradictionClaim(c, known)
      /\ m.mechanism = MechanismClaim(c, c.for, p, o)
  BY <1>2
<1>4. \A f \in EntityClaims : m[f] = EntityClaim(f, c, c.for)
  BY <1>2 DEF EntityClaims
<1>5. DOMAIN m = {"equipment", "chamber", "operation", "parameter", "outcome", "scope",
                  "temporal", "contradiction", "control", "mechanism"}
  BY <1>2
<1>6. DOMAIN m = Claims \cup {"control"}
  BY <1>5 DEF Claims, EntityClaims, RequiredClaims
<1> QED BY <1>3, <1>4, <1>6 DEF p, o

(* The chain asks for a place and for the required claims, one by one.     *)
LEMMA ChainSays ==
  ASSUME NEW m, Chain(m) = "complete"
  PROVE  \E f \in EntityClaims : m[f].status = "supported"
<1>1. Exposure(m) \notin {"conflicted", "incomplete", "unavailable"}
  BY DEF Chain
<1>2. "supported" \in Statuses(m, EntityClaims)
  BY <1>1 DEF Exposure
<1> QED BY <1>2 DEF Statuses

LEMMA GateSays ==
  ASSUME NEW known \in SUBSET Evidence, NEW c, Cleared(c, known),
         NEW m, m = Matrix(c, known),
         NEW cc, cc = ClaimChecks(c, m, known), \A k \in DOMAIN cc : cc[k]
  PROVE  Grounded(c, known)
<1>1. /\ Chain(m) = "complete"
      /\ Blocking(m, known) = {}
      /\ Of(ExposureTypes, UNION {m[f].ids : f \in EntityClaims}) # {}
      /\ \A f \in EntityClaims : InPlace(c, m, f)
      /\ Statuses(m, RequiredClaims) = {"supported"}
      /\ m.temporal.status = "supported"
      /\ m.contradiction.status # "conflicted"
  <2>1. cc.causal_chain /\ cc.data_available /\ cc.exposure /\ cc.place /\ cc.required
          /\ cc.temporal /\ cc.contradiction_free
    BY DEF ClaimChecks
  <2> QED BY <2>1 DEF ClaimChecks
<1>2. \A k \in RequiredClaims : m[k].status = "supported"
  BY <1>1 DEF Statuses
<1>3. \A f \in EntityClaims :
        LET k == m[f]
        IN  /\ k.status = "supported" => c.names[f] \cap IdsAt(f, c.for) # {}
            /\ k.status # "conflicted" /\ c.names[f] # {} =>
                 IdsAt(f, c.for) = {} \/ c.names[f] \cap IdsAt(f, c.for) # {}
            /\ k.ids = {e \in c.for : Fact[e].at[f] # {}}
  BY EntitySays, MatrixOfCleared DEF EntityClaims, Fields
<1>4. c.for \subseteq known /\ c \in Candidates
  BY DEF Cleared
<1>5. \E e \in Cited(ExposureTypes, c), f \in EntityClaims : Fact[e].at[f] # {}
  BY <1>1, <1>3 DEF Of, Cited
<1>6. \E f \in EntityClaims : c.names[f] \cap IdsAt(f, c.for) # {}
  BY <1>1, <1>3, ChainSays
<1>7. \A f \in EntityClaims :
        c.names[f] # {} => IdsAt(f, c.for) = {} \/ c.names[f] \cap IdsAt(f, c.for) # {}
  BY <1>1, <1>3 DEF InPlace
<1>8. \E p \in Cited(ProcessTypes, c), o \in Cited(OutcomeTypes, c) : Names(p, c) /\ Names(o, c)
  BY <1>2, MatrixOfCleared, ParameterSays, OutcomeSays DEF RequiredClaims, Cited
<1>9. /\ \E p \in Cited(ProcessTypes, c) : InTime(p, c)
      /\ \A p \in Cited(ProcessTypes, c) : ~OutOfTime(p, c)
  BY <1>1, MatrixOfCleared, TemporalSays
<1>10. \E e \in c.for : Explains(e, c)
  BY <1>2, MatrixOfCleared, MechanismSays DEF RequiredClaims
<1>11. \A e \in known : ~Refutes(e, c)
  <2>1. c.against = {}
    <3>1. m.contradiction = ContradictionClaim(c, known)
      BY MatrixOfCleared
    <3>2. ContradictionClaim(c, known).status # "conflicted"
      BY <1>1, <3>1
    <3> QED BY <3>2 DEF ContradictionClaim, Claim
  <2>2. \A e \in known : ~SpeaksAgainst(e, c.for)
    BY <2>1 DEF Cleared
  <2>3. ASSUME NEW e \in known, Refutes(e, c) PROVE SpeaksAgainst(e, c.for)
    <3>1. PICK p \in Of(ProcessTypes, c.for) :
            Fact[p].labels \cap Fact[e].labels # {} /\ Fact[p].lots \cap Fact[e].lots # {}
      BY <2>3 DEF Refutes, Cited
    <3>2. Fact[e].labels \cap LabelsOf(Of(ProcessTypes, c.for)) # {}
      BY <3>1 DEF LabelsOf
    <3>3. Fact[e].lots \cap LotsOf(c.for) # {}
      BY <3>1 DEF LotsOf, Of
    <3> QED BY <2>3, <3>2, <3>3 DEF Refutes, SpeaksAgainst
  <2> QED BY <2>2, <2>3
<1>12. \A e \in Of({"data_missing"}, known) : ~Fact[e].required
  BY <1>1 DEF Blocking
<1>13. c.profile.kind # "lane" =>
         LET causes == LotsOf(Cited(ExposureTypes \cup ProcessTypes, c))
             effects == LotsOf(Cited(OutcomeTypes, c))
         IN  causes = {} \/ effects = {} \/ causes \cap effects # {}
  <2>1. m.scope = ScopeClaim(c, c.for) /\ m.scope.status = "supported"
    BY <1>2, MatrixOfCleared DEF RequiredClaims
  <2> QED BY <1>4, <2>1, ScopeSays DEF Share
<1> HIDE DEF EntityClaims
<1> QED BY <1>4, <1>5, <1>6, <1>7, <1>8, <1>9, <1>10, <1>11, <1>12, <1>13 DEF Grounded

-----------------------------------------------------------------------------
(* What is left to do after a refusal.                                     *)

(* A gap that leaves something to do other than to reason again.           *)
Opens(g, k) == g.claim = k /\ g.actions \ {"run_rca_reasoning"} # {}

LEMMA OpenGap ==
  ASSUME NEW known, NEW c, Cleared(c, known), NEW m, m = Matrix(c, known),
         NEW k \in Claims, m[k].status # "supported"
  PROVE  \E g \in Gaps(c, m) : Opens(g, k)
<1> DEFINE coverage == CoverageGaps(c)
<1>1. k \in DOMAIN m \ {"control"}
  BY MatrixOfCleared DEF Claims, EntityClaims, RequiredClaims
<1>2. \A g \in coverage : Opens(g, "scope")
  BY DEF CoverageGaps, Gap, Opens
<1>3. coverage \subseteq Gaps(c, m)
  BY DEF Gaps
<1>4. CASE k = "scope" => coverage = {}
  <2>1. Gap(k, NoLane, ActionsFor(k)) \in Gaps(c, m)
    BY <1>1, <1>4 DEF Gaps
  <2>2. ActionsFor(k) \ {"run_rca_reasoning"} # {}
    BY DEF ActionsFor, Claims, EntityClaims, RequiredClaims
  <2>3. Opens(Gap(k, NoLane, ActionsFor(k)), k)
    BY <2>2 DEF Opens, Gap
  <2> QED BY <2>1, <2>3
<1> HIDE DEF coverage
<1> QED BY <1>2, <1>3, <1>4

(* Supported claims make a complete chain.                                 *)
LEMMA ChainCompletes ==
  ASSUME NEW m, \A k \in EntityClaims \cup RequiredClaims \cup {"temporal"} :
                  m[k].status = "supported"
  PROVE  Chain(m) = "complete"
<1>1. /\ Statuses(m, EntityClaims) = {"supported"} /\ m.scope.status = "supported"
      /\ Statuses(m, {"parameter", "mechanism", "outcome"}) = {"supported"}
      /\ Statuses(m, {"temporal", "scope"}) = {"supported"}
  BY DEF Statuses, EntityClaims, RequiredClaims
<1>2. Exposure(m) = "supported"
  BY <1>1 DEF Exposure
<1> QED BY <1>1, <1>2 DEF Chain

LEMMA RefusedForAClaim ==
  ASSUME NEW known, NEW c, Cleared(c, known), NEW m, m = Matrix(c, known),
         NEW k \in DOMAIN ClaimChecks(c, m, known),
         ~ClaimChecks(c, m, known)[k], Behind(k) # {}
  PROVE  \E x \in Behind(k) : x \in Claims /\ m[x].status # "supported"
<1> DEFINE cc == ClaimChecks(c, m, known)
<1>1. k \in {"causal_chain", "data_available", "exposure", "place", "required", "temporal",
             "contradiction_free"}
  BY DEF ClaimChecks
<1>2. /\ cc.causal_chain <=> Chain(m) = "complete"
      /\ cc.place <=> \A f \in EntityClaims : InPlace(c, m, f)
      /\ cc.required <=> Statuses(m, RequiredClaims) = {"supported"}
      /\ cc.temporal <=> m.temporal.status = "supported"
      /\ cc.contradiction_free <=> m.contradiction.status # "conflicted"
  BY DEF ClaimChecks
<1> HIDE DEF cc
<1>3. CASE k = "causal_chain"
  <2>1. \E x \in EntityClaims \cup RequiredClaims \cup {"temporal"} : m[x].status # "supported"
    BY <1>2, <1>3, ChainCompletes DEF cc
  <2> QED BY <1>3, <2>1 DEF Behind, Claims
<1>4. CASE k = "place"
  <2>1. \E f \in EntityClaims : m[f].status # "supported"
    BY <1>2, <1>4 DEF InPlace, cc
  <2> QED BY <1>4, <2>1 DEF Behind, Claims
<1>5. CASE k = "required"
  <2>1. \E x \in RequiredClaims : m[x].status # "supported"
    BY <1>2, <1>5 DEF Statuses, RequiredClaims, cc
  <2> QED BY <1>5, <2>1 DEF Behind, Claims
<1>6. CASE k = "temporal"
  BY <1>2, <1>6 DEF Behind, Claims, cc
<1>7. CASE k = "contradiction_free"
  BY <1>2, <1>7 DEF Behind, Claims, cc
<1>8. CASE k \in {"data_available", "exposure"}
  BY <1>8 DEF Behind
<1> QED BY <1>1, <1>3, <1>4, <1>5, <1>6, <1>7, <1>8

WayForward(checks, gaps) ==
  \A k \in DOMAIN checks :
    ~checks[k] /\ Behind(k) # {} =>
      \E g \in gaps : g.claim \in Behind(k) /\ g.actions \ {"run_rca_reasoning"} # {}

LEMMA RefusalOpensGaps ==
  ASSUME NEW known, NEW c, Cleared(c, known), NEW m, m = Matrix(c, known),
         NEW search, NEW rival, NEW precursors
  PROVE  WayForward(Checks(ClaimChecks(c, m, known), search, rival, precursors), Gaps(c, m))
<1> DEFINE cc == ClaimChecks(c, m, known)
           checks == Checks(cc, search, rival, precursors)
<1>1. {"precursor_explained", "no_equal_alternative"} \cap DOMAIN cc = {}
  BY DEF ClaimChecks
<1>2. /\ \A k \in DOMAIN cc : checks[k] = cc[k]
      /\ DOMAIN checks = DOMAIN cc \cup {"precursor_explained", "no_equal_alternative"}
  <2> HIDE DEF cc
  <2> QED BY <1>1 DEF Checks
<1> HIDE DEF checks
<1>3. ASSUME NEW k \in DOMAIN checks, ~checks[k], Behind(k) # {}
      PROVE  \E g \in Gaps(c, m) : g.claim \in Behind(k) /\ g.actions \ {"run_rca_reasoning"} # {}
  <2>1. k \in DOMAIN cc
    <3>1. Behind("precursor_explained") = {} /\ Behind("no_equal_alternative") = {}
      BY DEF Behind
    <3> QED BY <1>2, <1>3, <3>1
  <2>2. PICK x \in Behind(k) : x \in Claims /\ m[x].status # "supported"
    BY <1>2, <1>3, <2>1, RefusedForAClaim
  <2> QED BY <2>2, OpenGap DEF Opens
<1> QED BY <1>3 DEF WayForward, checks

-----------------------------------------------------------------------------
(* The lots.                                                               *)

(* Proven, on any evidence.                                                *)
ProvenOn(known, lot, c) ==
  LET deviations == {p \in Of(ProcessTypes, known) : DeviationOf(p, lot, c)}
      exposures  == OfLot(lot, Of(ExposureTypes, known))
  IN  /\ \A f \in EntityClaims : \E x \in exposures, p \in deviations :
           Compatible(x, c) /\ Fact[x].at[f] \cap Fact[p].at[f] # {}
      /\ \E p \in deviations : Fact[p].labels \cap c.spelled # {}
      /\ \E p \in deviations : During(p, WindowsOf(known))
      /\ \E o \in OfLot(lot, Of(OutcomeTypes, known)) : Fact[o].labels \cap c.spelled # {}

LEMMA ReachedIsProven ==
  ASSUME NEW known, NEW c, NEW lot, Reaches(c, lot, known)
  PROVE  ProvenOn(known, lot, c)
<1> DEFINE exposure == LotExposure(lot, c, known)
           process == LotProcess(lot, c, known)
           windows == ScopeWindows(c, known, exposure \cup process)
           dated == {e \in process : Fact[e].stamp # NoStamp}
           deviations == {p \in Of(ProcessTypes, known) : DeviationOf(p, lot, c)}
           exposures == OfLot(lot, Of(ExposureTypes, known))
<1>1. /\ \A f \in EntityClaims : IdsAt(f, exposure) \cap IdsAt(f, process) # {}
      /\ LabelsOf(process) \cap c.spelled # {}
      /\ dated # {} /\ \A e \in dated : During(e, windows)
      /\ LotOutcomes(lot, c, known) # {}
  <2> DEFINE checks == ScopeChecks(lot, c, known)
  <2>1. \A k \in DOMAIN checks : checks[k]
    BY DEF Reaches
  <2>2. /\ "place" \in DOMAIN checks /\ "parameter" \in DOMAIN checks
        /\ "temporal" \in DOMAIN checks /\ "outcome" \in DOMAIN checks
    BY DEF ScopeChecks
  <2>3. checks.place => \A f \in EntityClaims : IdsAt(f, exposure) \cap IdsAt(f, process) # {}
    BY DEF ScopeChecks
  <2>4. checks.parameter => LabelsOf(process) \cap c.spelled # {}
    BY DEF ScopeChecks
  <2>5. checks.temporal => dated # {} /\ \A e \in dated : During(e, windows)
    BY DEF ScopeChecks
  <2>6. checks.outcome => LotOutcomes(lot, c, known) # {}
    BY DEF ScopeChecks
  <2> HIDE DEF checks
  <2> QED BY <2>1, <2>2, <2>3, <2>4, <2>5, <2>6
<1>2. /\ process \subseteq deviations
      /\ exposure \subseteq exposures /\ \A x \in exposure : Compatible(x, c)
      /\ exposure \cup process \subseteq known
  BY DEF LotExposure, LotProcess, CompatibleOf, OfLot, Of, DeviationOf
<1>3. windows \subseteq WindowsOf(known)
  BY <1>2 DEF ScopeWindows, WindowsOf, CompatibleOf, Of
<1> HIDE DEF exposure, process, windows, exposures, deviations
<1>4. ASSUME NEW f \in EntityClaims
      PROVE  \E x \in exposures, p \in deviations :
               Compatible(x, c) /\ Fact[x].at[f] \cap Fact[p].at[f] # {}
  <2>1. PICK x \in exposure, p \in process : Fact[x].at[f] \cap Fact[p].at[f] # {}
    BY <1>1 DEF IdsAt
  <2> QED BY <1>2, <2>1
<1>5. \E p \in deviations : Fact[p].labels \cap c.spelled # {}
  BY <1>1, <1>2 DEF LabelsOf
<1>6. \E p \in deviations : During(p, WindowsOf(known))
  BY <1>1, <1>2, <1>3 DEF During, Inside
<1>7. \E o \in OfLot(lot, Of(OutcomeTypes, known)) : Fact[o].labels \cap c.spelled # {}
  BY <1>1 DEF LotOutcomes, OfLot
<1> QED BY <1>4, <1>5, <1>6, <1>7 DEF ProvenOn, exposures, deviations

(* More evidence takes nothing away.                                       *)
LEMMA ProvenStays ==
  ASSUME NEW known, NEW more, known \subseteq more, NEW lot, NEW c, ProvenOn(known, lot, c)
  PROVE  ProvenOn(more, lot, c)
<1>1. /\ \A types : Of(types, known) \subseteq Of(types, more)
      /\ WindowsOf(known) \subseteq WindowsOf(more)
  BY DEF Of, WindowsOf
<1>2. \A A, B : A \subseteq B => OfLot(lot, A) \subseteq OfLot(lot, B)
  BY DEF OfLot
<1>3. \A e : During(e, WindowsOf(known)) => During(e, WindowsOf(more))
  BY <1>1 DEF During, Inside
<1> DEFINE dev(s) == {p \in Of(ProcessTypes, s) : DeviationOf(p, lot, c)}
           exp(s) == OfLot(lot, Of(ExposureTypes, s))
           eff(s) == OfLot(lot, Of(OutcomeTypes, s))
<1>4. dev(known) \subseteq dev(more) /\ exp(known) \subseteq exp(more) /\ eff(known) \subseteq eff(more)
  BY <1>1, <1>2
<1>5. /\ \A f \in EntityClaims : \E x \in exp(known), p \in dev(known) :
           Compatible(x, c) /\ Fact[x].at[f] \cap Fact[p].at[f] # {}
      /\ \E p \in dev(known) : Fact[p].labels \cap c.spelled # {}
      /\ \E p \in dev(known) : During(p, WindowsOf(known))
      /\ \E o \in eff(known) : Fact[o].labels \cap c.spelled # {}
  BY DEF ProvenOn
<1> HIDE DEF dev, exp, eff
<1>6. /\ \A f \in EntityClaims : \E x \in exp(more), p \in dev(more) :
           Compatible(x, c) /\ Fact[x].at[f] \cap Fact[p].at[f] # {}
      /\ \E p \in dev(more) : Fact[p].labels \cap c.spelled # {}
      /\ \E p \in dev(more) : During(p, WindowsOf(more))
      /\ \E o \in eff(more) : Fact[o].labels \cap c.spelled # {}
  BY <1>3, <1>4, <1>5
<1> QED BY <1>6 DEF ProvenOn, dev, exp, eff

LEMMA ObservedStays ==
  ASSUME NEW known, NEW more, known \subseteq more
  PROVE  ObservedLots(known) \subseteq ObservedLots(more)
  BY DEF ObservedLots, LotsOf, Of

-----------------------------------------------------------------------------
(* The steps of the system.                                                *)

(* What a finding says is true of the evidence, also of later evidence.    *)
FindingStands ==
  /\ WayForward(finding.checks, finding.gaps)
  /\ \A lot \in finding.lots :
       lot \in ObservedLots(evidence) /\ ProvenOn(evidence, lot, finding.candidate)

ResultFollows ==
  /\ finding # NoFinding /\ result.lots \subseteq finding.lots
  /\ result.lots # {} => result.conclusion = "supported" /\ finding.conclusion = "supported"

(* The inductive invariant.                                                *)
IInv == /\ evidence \subseteq Evidence
        /\ finding # NoFinding => FindingStands
        /\ result # NoResult => ResultFollows

LEMMA InitOK ==
  ASSUME Init
  PROVE  IInv
  BY InputsAreTyped DEF Init, IInv

LEMMA ReportOK ==
  ASSUME IInv, NEW r \in Reports, Report(r)
  PROVE  IInv'
<1>1. /\ evidence \subseteq evidence' /\ evidence' \subseteq Evidence
      /\ finding' = finding /\ result' = NoResult
  BY InputsAreTyped DEF IInv, Report
<1>2. ASSUME finding # NoFinding PROVE FindingStands'
  <2>1. FindingStands
    BY <1>2 DEF IInv
  <2>2. \A lot \in finding.lots :
          lot \in ObservedLots(evidence') /\ ProvenOn(evidence', lot, finding.candidate)
    BY <1>1, <2>1, ProvenStays, ObservedStays DEF FindingStands
  <2> QED BY <1>1, <2>1, <2>2 DEF FindingStands
<1> QED BY <1>1, <1>2 DEF IInv

LEMMA ReasonOK ==
  ASSUME IInv, NEW proposal \in Proposals, Reason(proposal)
  PROVE  /\ IInv'
         /\ finding'.conclusion = "supported" => Grounded(finding'.candidate, evidence)
<1> DEFINE c == Admitted(proposal, evidence)
           m == Matrix(c, evidence)
           cc == ClaimChecks(c, m, evidence)
           lots == CandidateLots(c, evidence)
<1>1. PICK search \in SearchStatuses, rival \in Rivals, precursors \in BOOLEAN :
        LET checks == Checks(cc, search, rival, precursors)
        IN  finding' = [candidate |-> c, checks |-> checks, gaps |-> Gaps(c, m),
                        conclusion |-> Conclusion(checks, m, search, rival), lots |-> lots,
                        confirmed |-> IF Conclusion(checks, m, search, rival) = "supported"
                                      THEN lots ELSE {}]
  <2>1. PICK search \in SearchStatuses, rival \in Rivals, precursors \in BOOLEAN :
          LET j      == Judgement(Admitted(proposal, evidence))
              checks == Checks(j.checks, search, rival, precursors)
          IN  finding' = Finding(j, checks, Conclusion(checks, j.matrix, search, rival))
    BY DEF Reason
  <2>2. Judgement(Admitted(proposal, evidence))
          = [candidate |-> c, matrix |-> m, gaps |-> Gaps(c, m), checks |-> cc, lots |-> lots]
    BY DEF Judgement
  <2> HIDE DEF c, m, cc, lots
  <2>3. finding' = Finding([candidate |-> c, matrix |-> m, gaps |-> Gaps(c, m),
                            checks |-> cc, lots |-> lots],
                           Checks(cc, search, rival, precursors),
                           Conclusion(Checks(cc, search, rival, precursors), m, search, rival))
    BY <2>1, <2>2
  <2> QED BY <2>3 DEF Finding
<1> DEFINE checks == Checks(cc, search, rival, precursors)
<1>2. Cleared(c, evidence)
  BY InputsAreTyped, AdmittedIsCleared DEF IInv
<1>3. {"precursor_explained", "no_equal_alternative"} \cap DOMAIN cc = {}
  BY DEF ClaimChecks
<1> HIDE DEF c, m, cc, lots
<1>4. WayForward(checks, Gaps(c, m))
  BY <1>2, RefusalOpensGaps DEF m, cc
<1>5. \A lot \in lots : lot \in ObservedLots(evidence) /\ ProvenOn(evidence, lot, c)
  BY ReachedIsProven DEF lots, CandidateLots
<1>6. Conclusion(checks, m, search, rival) = "supported" => Grounded(c, evidence)
  <2>1. Conclusion(checks, m, search, rival) = "supported" => \A k \in DOMAIN cc : cc[k]
    <3>1. \A k \in DOMAIN cc : checks[k] = cc[k] /\ k \in DOMAIN checks
      BY <1>3 DEF Checks
    <3> HIDE DEF checks
    <3>2. Conclusion(checks, m, search, rival) = "supported" => \A k \in DOMAIN checks : checks[k]
      BY DEF Conclusion
    <3> QED BY <3>1, <3>2
  <2> HIDE DEF checks
  <2> QED BY <1>2, <2>1, GateSays DEF m, cc, IInv
<1>7. /\ finding'.candidate = c /\ finding'.checks = checks /\ finding'.gaps = Gaps(c, m)
      /\ finding'.conclusion = Conclusion(checks, m, search, rival) /\ finding'.lots = lots
  BY <1>1
<1> HIDE DEF checks
<1>8. evidence' = evidence /\ result' = result /\ result = NoResult
  BY DEF Reason
<1>9. FindingStands'
  BY <1>4, <1>5, <1>7, <1>8 DEF FindingStands
<1> QED BY <1>6, <1>7, <1>8, <1>9 DEF IInv

LEMMA FinalizeOK ==
  ASSUME IInv, Finalize
  PROVE  IInv' /\ finding' = finding
<1>1. PICK conclusion \in Conclusions :
        /\ conclusion = "supported" => finding.conclusion = "supported"
        /\ result' = [conclusion |-> conclusion,
                      lots |-> IF conclusion = "supported" THEN finding.lots ELSE {}]
  BY DEF Finalize
<1>2. finding # NoFinding /\ finding' = finding /\ evidence' = evidence
  BY DEF Finalize
<1>3. ResultFollows'
  BY <1>1, <1>2 DEF ResultFollows
<1>4. FindingStands'
  BY <1>2 DEF IInv, FindingStands
<1> QED BY <1>2, <1>3, <1>4 DEF IInv

LEMMA NextOK ==
  ASSUME IInv, [Next]_vars
  PROVE  /\ IInv'
         /\ finding' # finding /\ finding'.conclusion = "supported" =>
              Grounded(finding'.candidate, evidence)
<1>1. ASSUME NEW r \in Reports, Report(r) PROVE IInv' /\ finding' = finding
  BY <1>1, ReportOK DEF Report
<1>2. CASE UNCHANGED vars
  BY <1>2 DEF vars, IInv, FindingStands, ResultFollows
<1> QED BY <1>1, <1>2, ReasonOK, FinalizeOK DEF Next

(* Spec keeps the inductive invariant.                                     *)
THEOREM ConclusionInvariant == Spec => []IInv
<1>1. IInv /\ [Next]_vars => IInv'
  BY NextOK
<1> QED BY <1>1, InitOK, PTL DEF Spec

(* A concluded cause is grounded in the evidence of its round.             *)
THEOREM CausesAreGrounded == Spec => SupportedIsGrounded
<1>1. IInv /\ [Next]_vars =>
        [/\ finding' # finding
         /\ finding'.conclusion = "supported"
         => Grounded(finding'.candidate, evidence)]_vars
  BY NextOK
<1> QED BY <1>1, ConclusionInvariant, PTL DEF Spec, SupportedIsGrounded

(* A refused cause leaves a gap about the claim it was refused for.        *)
THEOREM RefusalsLeaveWork == Spec => []RefusalHasWayForward
<1>1. IInv => RefusalHasWayForward
  BY DEF IInv, FindingStands, WayForward, RefusalHasWayForward
<1> QED BY <1>1, ConclusionInvariant, PTL

(* Every published impact lot was reported and is proven for the cause,    *)
(* which stood to the end.                                                 *)
THEOREM PublicationIsProven == Spec => []PublishedLotsAreProven
<1>1. ASSUME NEW lot, NEW c, ProvenOn(evidence, lot, c) PROVE Proven(lot, c)
  BY <1>1 DEF ProvenOn, Proven
<1>2. IInv => PublishedLotsAreProven
  BY <1>1 DEF IInv, FindingStands, ResultFollows, PublishedLotsAreProven
<1> QED BY <1>2, ConclusionInvariant, PTL
=============================================================================
