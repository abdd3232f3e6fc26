------------------------ MODULE InvestigationPolicy ------------------------
(***************************************************************************)
(* The deterministic policy of controlled ReAct: investigation_policy.py.  *)
(* It is the planner of the controlled mode, what the loop falls back to   *)
(* when the model's planner fails, and the reference the model's planner   *)
(* compares its stops with.                                                *)
(***************************************************************************)
EXTENDS Investigation

Act(k) == [act |-> k]
Stop(g, level, reason) == [act |-> "stop", goal |-> g, level |-> level, reason |-> reason]

Levels == {"signal", "candidate", "supported", "conflicted", "inconclusive"}

GoalStatuses == {"satisfied", "blocked", "budget_exhausted"}

StopReasons == {"goal_satisfied", "critical_contradiction", "no_allowed_action",
                "budget_exhausted", "data_unavailable", "no_high_value_action"}

BudgetStop == Stop("budget_exhausted", "inconclusive", "budget_exhausted")

Has(a) == a \in FindingAgents

(* _next: an action is taken once.                                         *)
NextIs(k) == IF k \in CompletedKinds THEN Stop("blocked", "inconclusive", "no_allowed_action")
             ELSE Act(k)

(* details.status of a finding.                                            *)
LevelOf(finding) ==
  IF finding.status = "insufficient" THEN "inconclusive" ELSE finding.status

(* _shared_defect_pattern_matches needs a finding of each scope.           *)
SharedPatternMatches == goal.matching /\ {"defect", "shared"} \subseteq CompletedKinds

(* The first RCA finding is the one that is read.                          *)
RootCauseStop ==
  IF ~SharedPatternMatches THEN Stop("satisfied", "candidate", "goal_satisfied")
  ELSE Stop("satisfied", LevelOf(rcas[1]), "goal_satisfied")

(* _root_cause_next.                                                       *)
RootCauseNext ==
  IF ~Has("MES") /\ ~goal.lot THEN NextIs("exposure")
  ELSE IF ~Has("DEFECT_WAT") THEN NextIs("defect")
  ELSE IF ~Has("MES") THEN NextIs("exposure")
  ELSE IF "shared" \notin CompletedKinds THEN NextIs("shared")
  ELSE IF ~Has("FDC") THEN NextIs("fdc")
  ELSE IF ~Has("RCA_REASONING") THEN NextIs("reasoning")
  ELSE RootCauseStop

ImpactScopeNext ==
  IF ~Has("MES") THEN NextIs("exposure")
  ELSE Stop("satisfied", "signal", "goal_satisfied")

SpcCheckNext ==
  IF ~Has("MES") /\ ~goal.context THEN NextIs("exposure")
  ELSE IF ~Has("FDC") THEN NextIs("fdc")
  ELSE Stop("satisfied", "signal", "goal_satisfied")

HistoricalLookupNext ==
  IF ~(Specialists \subseteq FindingAgents) THEN RootCauseNext
  ELSE IF ~Has("KNOWLEDGE") THEN NextIs("historical")
  ELSE Stop("satisfied", "candidate", "goal_satisfied")

(* next_action, for the tool calls it is told of.  The controlled loop     *)
(* never tells it of contradictions.                                       *)
PolicyDecision(toolCalls, contradicted) ==
  IF Steps >= goal.maxSteps \/ toolCalls >= goal.maxTools THEN BudgetStop
  ELSE IF contradicted THEN Stop("blocked", "conflicted", "critical_contradiction")
  ELSE CASE goal.intent = "impact_scope"      -> ImpactScopeNext
         [] goal.intent = "spc_check"         -> SpcCheckNext
         [] goal.intent = "historical_lookup" -> HistoricalLookupNext
         [] goal.intent = "root_cause"        -> RootCauseNext
=============================================================================
