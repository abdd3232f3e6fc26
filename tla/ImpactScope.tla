---------------------------- MODULE ImpactScope ----------------------------
(***************************************************************************)
(* Which lots a candidate cause reaches: evaluate_impact_lot_gate in       *)
(* causal_confirmation.py.  Every lot is judged on all typed evidence, not *)
(* only on what the candidate cites.                                       *)
(***************************************************************************)
EXTENDS ConfirmationGate

CONSTANT Source     \* the lot under investigation, never an impact lot

(* _compatible_with_candidate: a validated profile replaces what the text  *)
(* names, also where it leaves a field open.                               *)
Expected(c, f) ==
  IF c.profile.kind \in {"none", "invalid"} THEN c.names[f] ELSE c.profile.at[f]

Compatible(e, c) ==
  \A f \in Fields : \/ Expected(c, f) = {} \/ Fact[e].at[f] = {}
                    \/ Expected(c, f) \cap Fact[e].at[f] # {}

CompatibleOf(types, c, known) == {e \in Of(types, known) : Compatible(e, c)}
OfLot(lot, items) == {e \in items : lot \in Fact[e].lots}

(* A shared effect of a whole chamber, equipment or operation.             *)
BroadShared(c) ==
  /\ c.profile.kind \in {"chamber", "equipment", "operation"}
  /\ c.profile.relation = "shared_effect"

LotExposure(lot, c, known) == OfLot(lot, CompatibleOf(ExposureTypes, c, known))
LotProcess(lot, c, known) ==
  LET declared == CompatibleOf(ProcessTypes, c, known)
  IN  IF BroadShared(c) THEN declared ELSE OfLot(lot, declared)
(* Mutant: an outcome of any lot.                                          *)
OutcomesAnywhere(lot, c, known) ==
  {e \in Of(OutcomeTypes, known) : Fact[e].labels \cap c.spelled # {}}

LotOutcomes(lot, c, known) ==
  {e \in OfLot(lot, Of(OutcomeTypes, known)) : Fact[e].labels \cap c.spelled # {}}

WindowsOf(items) == UNION {Fact[e].windows : e \in items}
(* The excursions compatible with the candidate, whichever lot they name,  *)
(* or else the windows of the lot's own evidence.                          *)
ScopeWindows(c, known, items) ==
  LET declared == WindowsOf(CompatibleOf({"excursion_window"}, c, known))
  IN  IF declared # {} THEN declared ELSE WindowsOf(items)

Overlap(v, w) == v[1] <= w[2] /\ v[2] >= w[1]
During(e, windows) == Fact[e].stamp # NoStamp /\ Inside(Fact[e].stamp, windows)

ScopeChecks(lot, c, known) ==
  LET exposure == LotExposure(lot, c, known)
      process == LotProcess(lot, c, known)
      windows == ScopeWindows(c, known, exposure \cup process)
      directions == UNION {Fact[e].directions : e \in process}
      common(f) == IdsAt(f, exposure) \cap IdsAt(f, process)
      dated == {e \in process : Fact[e].stamp # NoStamp}
  IN  [exposure  |-> exposure # {},
       excursion |-> process # {},
       place     |-> \A f \in EntityClaims : common(f) # {},
       recipe    |-> \/ BroadShared(c) /\ c.profile.at["recipe"] = {}
                     \/ IdsAt("recipe", exposure \cup process) = {}
                     \/ common("recipe") # {},
       parameter |-> LabelsOf(process) \cap c.spelled # {},
       parameter_direction |-> \/ c.leads = {} \/ directions = {}
                               \/ c.leads \cap directions # {},
       excursion_window |-> windows # {},
       exposure_temporal |->
         \E e \in exposure : \/ During(e, windows)
                             \/ \E v \in Fact[e].windows, w \in windows : Overlap(v, w),
       temporal |-> dated # {} /\ \A e \in dated : During(e, windows),
       outcome  |-> LotOutcomes(lot, c, known) # {}]

(* _impact_data_missing_is_blocking: every rule but the first asks for a   *)
(* check that failed, so a lot whose checks hold is only blocked by a      *)
(* source declared required for the scope.                                 *)
ScopeBlocked(lot, c, known) ==
  \E e \in CompatibleOf({"data_missing"}, c, known) :
    /\ Fact[e].source \in {"mes", "fdc", "wat", "defect", "analytics"}
    /\ Fact[e].lots = {} \/ lot \in Fact[e].lots
    /\ Fact[e].requiredForScope

Reaches(c, lot, known) ==
  LET checks == ScopeChecks(lot, c, known)
  IN  /\ lot # Source
      /\ \A k \in DOMAIN checks : checks[k]
      /\ ~ScopeBlocked(lot, c, known)

(* _observed_impact_lot_ids: the lots somebody reported as impact.         *)
ObservedLots(known) == LotsOf(Of({"impact_scope"}, known)) \ {Source}

CandidateLots(c, known) == {lot \in ObservedLots(known) : Reaches(c, lot, known)}
=============================================================================
