----------------------- MODULE InvestigationFinalizer -----------------------
(***************************************************************************)
(* How an investigation may end: investigation_finalizer.py over           *)
(* causal_competition_progression.py.  Whoever stops the loop proposes a   *)
(* goal status and a conclusion; once RCA reasoning has formed a candidate *)
(* competition, Python decides both from the state of the competition.     *)
(***************************************************************************)
EXTENDS InvestigationPolicy

(* What the finalizer reads of the action values it is given: the gaps of  *)
(* the options, and whether one of them is of high value.                  *)
Assessments == [gaps : SUBSET Gaps, high : BOOLEAN]

NothingAssessed == [gaps |-> {}, high |-> FALSE]

(* _formal_competition_is_applicable.                                      *)
Formal == HasRca /\ Authoritative.contest # "not_evaluated"

(* _confirmation_blocking_data_missing_evidence_ids.                       *)
ConfirmationBlocked ==
  /\ Authoritative.status = "insufficient"
  /\ \E i \in DOMAIN history : history[i].result = "missing"

(* _decision_critical_unavailable_gains: an unavailable source counts if   *)
(* its gap is one of the finding's or was assessed.                        *)
SourceBlocked(assessed) ==
  ConfirmationBlocked \/ UnavailableFor(CausalGaps \cup assessed.gaps)

(* Mutant: what a challenge left open is published as confirmed.           *)
ContestEndGenerous(assessed, exhausted) ==
  IF Authoritative.status \in {"supported", "candidate"} THEN "complete_confirmed"
  ELSE IF exhausted THEN "budget_exhausted"
  ELSE IF assessed.high THEN "active" ELSE "exhausted"

(* progress_competition with force_terminal; "active" is not terminal.     *)
ContestEnd(assessed, exhausted) ==
  CASE Authoritative.contest = "failed" -> "failed"
    [] Authoritative.contest # "failed" /\ Authoritative.status = "supported"
         -> "complete_confirmed"
    [] Authoritative.contest = "rejected" /\ Authoritative.status # "supported"
         -> "complete_rejected"
    [] Authoritative.contest = "not_required" /\ Authoritative.status # "supported"
         -> "not_required"
    [] Authoritative.contest = "open" /\ Authoritative.status # "supported"
         -> IF exhausted THEN "budget_exhausted"
            ELSE IF assessed.high THEN "active"
            ELSE IF SourceBlocked(assessed) THEN "blocked_by_missing_data"
            ELSE "exhausted"

(* The goal status, conclusion level and stop reason finalize_investigation*)
(* writes for each end.                                                    *)
Verdict(end, assessed) ==
  CASE end = "complete_confirmed" -> Stop("satisfied", "supported", "goal_satisfied")
    [] end = "budget_exhausted" -> BudgetStop
    [] end = "blocked_by_missing_data"
         -> Stop("blocked", "inconclusive", "data_unavailable")
    [] end = "not_required"
         -> Stop("blocked", "inconclusive",
                 IF /\ Authoritative.status = "insufficient"
                    /\ \E i \in DOMAIN history : SourceUnavailable(history[i])
                 THEN "data_unavailable" ELSE "no_high_value_action")
    [] end \in {"failed", "complete_rejected", "exhausted"}
         -> Stop("blocked", "inconclusive", "no_high_value_action")

(* _reconcile_questions_with_complete_evidence_groups, and what a missing  *)
(* source does to the rest.                                                *)
Settled(qs, end) ==
  [q \in Questions |->
     IF qs[q] # "open" THEN qs[q]
     ELSE IF MissingGroups(q) = {} THEN "closed"
     ELSE IF end = "blocked_by_missing_data" THEN "unavailable"
     ELSE "open"]

(* finalize_non_competition_llm_react_terminal.                            *)
WithoutCompetition(stop) ==
  IF Authoritative.status = "supported" THEN stop
  ELSE Stop("blocked", "inconclusive", "no_high_value_action")

-----------------------------------------------------------------------------
(* gate_planner_conclusion_level: what the evidence allows a planner to    *)
(* conclude.                                                               *)
Cap ==
  IF HasRca THEN LevelOf(Authoritative)
  ELSE IF history = <<>> THEN "inconclusive"
  ELSE IF \/ goal.intent = "historical_lookup" /\ Has("KNOWLEDGE")
          \/ goal.intent = "root_cause" /\ Specialists \subseteq FindingAgents
  THEN "candidate"
  ELSE "signal"

Strength == [signal |-> 1, candidate |-> 2, supported |-> 3]

(* Mutant: the planner's level is taken as it is.                          *)
GatedFreely(level) == level

Gated(level) ==
  IF Cap = "conflicted" THEN "conflicted"
  ELSE IF "inconclusive" \in {level, Cap} \/ level = "conflicted" THEN "inconclusive"
  ELSE IF Strength[level] <= Strength[Cap] THEN level ELSE Cap
=============================================================================
