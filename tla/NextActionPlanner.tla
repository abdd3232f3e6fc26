------------------------- MODULE NextActionPlanner -------------------------
(***************************************************************************)
(* The model's planner: QwenNextActionPlanner._decide, with the action     *)
(* values of investigation_decision.py.  Before the model is asked Python  *)
(* works out which actions are legal for which questions and gaps, which   *)
(* of them can still change the decision, and whether it must stop or act  *)
(* itself; afterwards it validates what the model proposed.                *)
(*                                                                         *)
(* Left out: the rules on lanes (Investigation assumes one lane), and the  *)
(* repair of a failed competition, which needs a challenge-selected gap    *)
(* that a failed competition does not have.                                *)
(***************************************************************************)
EXTENDS InvestigationPolicy

MaxActions == 8             \* MAX_CROSS_DOMAIN_ACTIONS
UnconditionalRounds == 2    \* _UNCONDITIONAL_CANDIDATE_GENERATION_ROUNDS
MaxRounds == 3              \* _MAX_CANDIDATE_GENERATION_ROUNDS
MaxQuestions == 5           \* MAX_INITIAL_QUESTIONS

-----------------------------------------------------------------------------
(* Gaps and their stages.                                                  *)

Selected(g) == g \in Authoritative.selected

(* _eligible_causal_gaps.                                                  *)
EligibleGaps == {g \in CausalGaps : Gap[g].discriminator => Selected(g)}

(* _active_causal_gaps.                                                    *)
ActiveGaps ==
  LET gaps == EligibleGaps
  IN {g \in gaps : \A f \in gaps : Gap[g].priority <= Gap[f].priority}

(* _record_matches_causal_gap_scope.                                       *)
Matches(i, g) ==
  /\ history[i].gap = g
  /\ Gap[g].scope = Anywhere \/ history[i].scope = Gap[g].scope

Tried(k, g) == {i \in DOMAIN history : Matches(i, g) /\ history[i].kind = k}

(* _actions_for_causal_gap_stage: the observation first, then one refresh  *)
(* of the reasoning.                                                       *)
StageActions(g) ==
  LET observed == Tried(Gap[g].preferred, g)
      refresh == Gap[g].refresh
  IN IF Gap[g].preferred \notin Gap[g].allowed THEN Gap[g].allowed
     ELSE IF observed = {} THEN {Gap[g].preferred}
     ELSE IF refresh \notin Gap[g].allowed THEN {}
     ELSE IF \E i \in Tried(refresh, g) : \A j \in observed : j < i THEN {}
     ELSE {refresh}

(* The gap's latest observation supports something and no later reasoning  *)
(* could use it.                                                           *)
UnconsumedObservation(g) ==
  \E i \in DOMAIN history :
    /\ Matches(i, g)
    /\ history[i].kind # "reasoning"
    /\ EvidenceGain(history[i])
    /\ \A j \in DOMAIN history :
         j > i => ~Matches(j, g) /\ history[j].kind # "reasoning"

(* Mutant: the last round is free.                                         *)
RoundAllowedFree(k, g) == k = "reasoning" => Rounds < MaxRounds

(* _reasoning_round_is_allowed.                                            *)
RoundAllowed(k, g) ==
  k = "reasoning" =>
    \/ Rounds < UnconditionalRounds
    \/ Rounds < MaxRounds /\ g \in Discriminators /\ UnconsumedObservation(g)

-----------------------------------------------------------------------------
(* Legality.                                                               *)

PrerequisitesMet(k) == Required[k] \subseteq FindingAgents

(* _legal_causal_gap_ids_by_action, as pairs.                              *)
AskedFor(g) == \E q \in Open : QuestionKind[q] = Gap[g].kind

Executable(k, g) == PrerequisitesMet(k) /\ RoundAllowed(k, g) /\ Tried(k, g) = {}

ExecutableOptions ==
  UNION {{<<k, g>> : k \in {l \in StageActions(g) : Executable(l, g)}} :
           g \in {f \in EligibleGaps : AskedFor(f)}}

(* _legal_action_targets: by the gaps' questions while there are eligible  *)
(* gaps, by the groups each question misses otherwise.                     *)
TargetsOf(k) ==
  IF EligibleGaps # {}
  THEN LET legal == {o[2] : o \in {p \in ExecutableOptions : p[1] = k}}
       IN {q \in Open : \E g \in legal : QuestionKind[q] = Gap[g].kind}
  ELSE {q \in Open : /\ k \in AllowedActions(q)
                     /\ PrerequisitesMet(k)
                     /\ ~(k = "exposure" /\ k \in CompletedKinds)
                     /\ RoundAllowed(k, NoGap)
                     /\ CanContribute(q, k)}

(* assess_action_values.  An option of ExecutableOptions has not been      *)
(* tried, so its own earlier result never counts.                          *)
GainSinceReasoning(g) ==
  \E i \in DOMAIN history :
    /\ history[i].gap = g
    /\ EvidenceGain(history[i])
    /\ \A j \in DOMAIN history : j > i => history[j].kind # "reasoning"

HighValue(k, g) ==
  /\ ToolCost[k] + spent <= goal.maxTools
  /\ g \notin Authoritative.offaxis
  /\ IF k = "reasoning" THEN GainSinceReasoning(g) ELSE g \notin Authoritative.idle

HighValueOptions == {o \in ExecutableOptions : HighValue(o[1], o[2])}

(* Those of the best priority are the options of this decision.            *)
Options ==
  LET high == HighValueOptions
  IN {o \in high : \A p \in high : Gap[o[2]].priority <= Gap[p[2]].priority}

OptionGaps(k) == {o[2] : o \in {p \in Options : p[1] = k}}

HadOptions == ExecutableOptions # {}

CompetitionFailed == HasRca /\ Authoritative.contest = "failed"

(* legal_action_targets once it has been cut to the options.               *)
LegalTargets(k) ==
  IF HadOptions /\ OptionGaps(k) = {} THEN {}
  ELSE IF k = "reasoning" /\ CompetitionFailed /\ OptionGaps(k) = {} THEN {}
  ELSE TargetsOf(k)

LegalKinds == {k \in Kinds : LegalTargets(k) # {}}

(* Mutant: a question may be closed on part of its evidence.               *)
TerminalUpdatesEarly ==
  [q \in {r \in Open : SatisfiedGroups(r) # {} \/ UnavailableLink(r)} |->
     IF SatisfiedGroups(q) # {} THEN "closed" ELSE "unavailable"]

(* _terminal_question_updates: what Python can settle.                     *)
TerminalUpdates ==
  [q \in {r \in Open : MissingGroups(r) = {} \/ UnavailableLink(r)} |->
     IF MissingGroups(q) = {} THEN "closed" ELSE "unavailable"]

NoUpdates == [q \in {} |-> "closed"]

-----------------------------------------------------------------------------
(* What Python decides by itself.                                          *)

ThirdRound == Rounds = UnconditionalRounds /\ OptionGaps("reasoning") # {}

MinOf(a, b) == IF a < b THEN a ELSE b

BudgetExhausted ==
  \/ Steps >= MinOf(goal.maxSteps, MaxActions) /\ ~ThirdRound
  \/ spent >= goal.maxTools

(* _required_unavailable_evidence_ids and a finding that waits for them.   *)
RequiredSourceGone ==
  /\ HasRca
  /\ Authoritative.status = "insufficient"
  /\ \E i \in DOMAIN history : history[i].result = "missing"
  /\ \A o \in Options : o[2] \notin Discriminators

NothingLeft(gaps) ==
  Stop("blocked", "inconclusive",
       IF UnavailableFor(gaps) THEN "data_unavailable" ELSE "no_high_value_action")

(* bounded_causal_investigation.                                           *)
Bounded ==
  \/ CompetitionFailed
  \/ \E g \in ActiveGaps : \/ Selected(g)
                           \/ Gap[g].scope # Anywhere
                           \/ \E i \in DOMAIN history : history[i].gap = g

PythonStops == \/ RequiredSourceGone
               \/ BudgetExhausted
               \/ HadOptions /\ HighValueOptions = {}
               \/ Bounded /\ LegalKinds = {}

(* The stop and the updates that go with it, in the order of the code.     *)
PythonStop ==
  IF RequiredSourceGone
  THEN [stop |-> Stop("blocked", "inconclusive", "data_unavailable"),
        updates |-> TerminalUpdates]
  ELSE IF BudgetExhausted THEN [stop |-> BudgetStop, updates |-> TerminalUpdates]
  ELSE IF HadOptions /\ HighValueOptions = {}
  THEN [stop |-> NothingLeft({o[2] : o \in ExecutableOptions}), updates |-> NoUpdates]
  ELSE [stop |-> NothingLeft(CausalGaps), updates |-> NoUpdates]

(* A single legal action for a single gap is taken without the model.      *)
PythonActs ==
  /\ ~PythonStops
  /\ \E k \in Kinds, g \in Gaps : LegalKinds = {k} /\ OptionGaps(k) = {g}

PythonAct ==
  LET k == CHOOSE l \in LegalKinds : TRUE
      g == CHOOSE f \in OptionGaps(k) : TRUE
  IN [kind |-> k, gap |-> g, scope |-> Gap[g].scope, targets |-> LegalTargets(k)]

-----------------------------------------------------------------------------
(* What the model may propose, and _validate_candidate.                    *)

(* _bind_causal_gap_scope: the only legal gap is bound to the action; one  *)
(* of several must be named by the model.                                  *)
Bind(p) ==
  LET gaps == OptionGaps(p.kind)
      bound == IF \E g \in gaps : gaps = {g} THEN CHOOSE g \in gaps : TRUE ELSE p.gap
  IN IF bound \notin gaps THEN p
     ELSE [p EXCEPT !.gap = bound,
                    !.scope = IF Gap[bound].scope = Anywhere THEN p.scope
                              ELSE Gap[bound].scope]

(* A gap must be named while the action has legal ones.                    *)
GapIsLegal(p) == IF p.gap = NoGap THEN OptionGaps(p.kind) = {}
                 ELSE p.gap \in OptionGaps(p.kind)

(* validate_action_for_questions.                                          *)
SuitsTargets(p) ==
  \A q \in p.targets : /\ p.kind \in AllowedActions(q)
                       /\ ScopeFits(p.scope, q)
                       /\ p.gap = NoGap => CanContribute(q, p.kind)

(* Mutant: only gap-bound actions are compared.                            *)
FreshLoosely(p) == p.gap # NoGap => \A i \in DOMAIN history :
  ~(history[i].kind = p.kind /\ history[i].gap = p.gap /\ history[i].scope = p.scope)

(* The scope fingerprint, the deduplication key and the single use of      *)
(* find_shared_exposure.  The code compares whole scope dicts; with one    *)
(* lane, two scopes of one action differ in the operation they name.       *)
Fresh(p) ==
  \A i \in DOMAIN history :
    history[i].kind = p.kind =>
      /\ ~(history[i].gap = p.gap /\ history[i].scope = p.scope)
      /\ p.kind = "exposure" => p.gap # NoGap

ReasoningReady == goal.intent = "root_cause" => "shared" \in CompletedKinds

ValidAct(p) ==
  /\ p.targets # {}
  /\ p.targets \subseteq LegalTargets(p.kind)
  /\ GapIsLegal(p)
  /\ SuitsTargets(p)
  /\ Fresh(p)
  /\ PrerequisitesMet(p.kind)
  /\ p.kind = "defect" /\ ~goal.lot => Has("MES")
  /\ p.kind = "reasoning" => ReasoningReady

(* PythonAct goes through the same validation, outside of any handler.     *)
PythonActIsValid == ValidAct(PythonAct)

(* review_question_updates and _protect_authoritative_causal_gap_questions:*)
(* the terminal states the model's claims can put a question in.           *)
Protected(q) == \E g \in CausalGaps : Gap[g].kind = QuestionKind[q]

Accepted(q) ==
  IF q \notin Open \/ Protected(q) THEN {}
  ELSE (IF MissingGroups(q) = {} THEN {"closed"} ELSE {})
       \cup (IF UnavailableLink(q) THEN {"unavailable"} ELSE {})

UpdateSets ==
  UNION {{u \in [s -> Terminal] : \A q \in s : u[q] \in Accepted(q)} :
           s \in SUBSET {q \in Open : Accepted(q) # {}}}

(* Mutant: a new question may reuse an id.                                 *)
NewQuestionSetsAny == SUBSET Questions

(* New questions are open, supported and within the limit.                 *)
NewQuestionSets ==
  LET absent == {q \in Questions : questions[q] = "absent"}
  IN {s \in SUBSET (absent \ Unsupported) :
        Cardinality(Questions \ absent) + Cardinality(s) <= MaxQuestions}

(* _baseline_decision: the policy's action counts only if an open question *)
(* can use it.                                                             *)
BaselineActs ==
  \E k \in Kinds :
    /\ PolicyDecision(spent, Conflicted) = Act(k)
    /\ \E q \in Open : k \in AllowedActions(q) /\ CanContribute(q, k)

ReferenceUpdates == IF BaselineActs THEN NoUpdates ELSE TerminalUpdates

(* _commit_python_goal_satisfied_transition.                               *)
Committed(reason, updates) ==
  IF reason = "goal_satisfied" /\ Open # {} /\ DOMAIN ReferenceUpdates = Open
  THEN ReferenceUpdates ELSE updates

GoalOf == [goal_satisfied |-> "satisfied", critical_contradiction |-> "blocked",
           no_allowed_action |-> "blocked", budget_exhausted |-> "budget_exhausted",
           data_unavailable |-> "blocked", no_high_value_action |-> "blocked"]

LeavesOpen(updates) == Open \ DOMAIN updates

(* _validate_candidate and _validate_reviewed_stop_boundary of a stop.     *)
(* The budget is not exhausted when the model is asked; data_unavailable   *)
(* passes with nothing accepted if something was claimed.                  *)
ValidStop(reason, updates) ==
  CASE reason = "goal_satisfied"         -> Options = {} /\ LeavesOpen(updates) = {}
    [] reason = "no_allowed_action"      -> LegalKinds = {}
    [] reason = "critical_contradiction" -> Conflicted
    [] reason = "budget_exhausted"       -> FALSE
    [] reason = "data_unavailable"       -> LeavesOpen(updates) = {} \/ updates = NoUpdates
    [] reason = "no_high_value_action"   -> TRUE
=============================================================================
