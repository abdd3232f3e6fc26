----------------------------- MODULE ReactLoop -----------------------------
(***************************************************************************)
(* The one ReAct loop of supervisor.py (_react_loop) in its two profiles.  *)
(* In llm mode Python checks the budget of model calls, decides by itself  *)
(* where it must, else asks the model's planner, validates the answer,     *)
(* dispatches a specialist and records its finding.  When the planner      *)
(* fails the loop swaps planner and profile once, keeps the state and goes *)
(* on as controlled ReAct.  Every end goes through the finalizer.          *)
(*                                                                         *)
(* The model's answers, what the specialists find and how many tool and    *)
(* model calls they make are nondeterministic.  An exception that leaves   *)
(* the loop fails the job.                                                 *)
(***************************************************************************)
EXTENDS NextActionPlanner, InvestigationFinalizer

CONSTANTS Goals,           \* goals an investigation may be given
          Modes,           \* modes that may be asked for: "llm", "controlled"
          Asked,           \* sets of questions the intent plan may ask
          Outcomes,        \* results a specialist may have
          RcaFindings,     \* findings RCA reasoning may make
          SpecialistTools, \* tool calls one specialist may make
          SpecialistCalls, \* model calls one specialist may make
          ReasoningCalls,  \* model calls one round of reasoning may make
          CallLimits       \* model calls the job may make, or Unlimited

VARIABLES requested, \* orchestration_requested_mode
          mode,      \* the active planner and profile
          pc,        \* where the loop is
          ask,       \* outputs the planner has asked for, and its one retry
          chosen,    \* the proposal being executed
          latest,    \* latest_action_value_assessments
          calls,     \* model calls left, or Unlimited
          end        \* the stop that was published, or why the job failed

loop == <<requested, mode, pc, ask, chosen, latest, calls, end>>
vars == <<investigation, loop>>

Unlimited == -1

ASSUME ReactAssumption ==
  /\ Goals \subseteq Goal
  /\ Modes \subseteq {"llm", "controlled"}
  /\ Asked \subseteq SUBSET Questions
  /\ Outcomes \subseteq Results
  /\ RcaFindings \subseteq Finding
  /\ SpecialistTools \subseteq 0..2
  /\ SpecialistCalls \subseteq Nat
  /\ ReasoningCalls \subseteq Nat
  /\ CallLimits \subseteq Nat \cup {Unlimited}

-----------------------------------------------------------------------------
ReasoningReserve == 3   \* _RCA_REASONING_MIN_REMAINING_LLM_CALLS

Proposal == [kind : Kinds, gap : Gaps \cup {NoGap}, scope : Scopes,
             updates : UNION {[s -> Terminal] : s \in SUBSET Questions},
             news : SUBSET Questions]

Propose(k, g, scope, updates, news) ==
  [kind |-> k, gap |-> g, scope |-> scope, updates |-> updates, news |-> news]

Idle == Propose("reasoning", NoGap, Anywhere, NoUpdates, {})

FirstAsk == [output |-> 1, retried |-> FALSE]

FailureCauses == {"validation", "prerequisite", "specialist", "finalization"}

(* What is published while the loop runs, or when it fails for a cause.    *)
Unfinished(cause) == Stop("in_progress", "inconclusive", cause)

Ends == [act : {"stop"}, goal : GoalStatuses \cup {"in_progress"}, level : Levels,
         reason : StopReasons \cup FailureCauses \cup {"none"}]

Limited == calls # Unlimited
CanPay(n) == Limited => n <= calls

Paid(n) == IF Limited THEN calls - n ELSE calls

(* What the planner's assessments say now.                                 *)
Assessed == [gaps |-> {o[2] : o \in ExecutableOptions}, high |-> HighValueOptions # {}]

Updated(qs, updates) ==
  [q \in Questions |-> IF q \in DOMAIN updates THEN updates[q] ELSE qs[q]]

With(qs, news) == [q \in Questions |-> IF q \in news THEN "open" ELSE qs[q]]

ToolsLeft == goal.maxTools - spent

-----------------------------------------------------------------------------
(* execute_llm_react and execute_controlled.  A question that is not       *)
(* supported starts unavailable; with no other there is nothing to do.     *)
Init ==
  /\ goal \in Goals
  /\ requested \in Modes
  /\ mode = requested
  /\ \E asked \in Asked :
       /\ questions = [q \in Questions |->
                         IF requested = "controlled" \/ q \notin asked THEN "absent"
                         ELSE IF q \in Unsupported THEN "unavailable" ELSE "open"]
       /\ IF requested = "llm" /\ asked # {} /\ asked \subseteq Unsupported
          THEN pc = "done" /\ end = Stop("blocked", "inconclusive", "data_unavailable")
          ELSE pc = "decide" /\ end = Unfinished("none")
  /\ history = <<>> /\ rcas = <<>> /\ spent = 0
  /\ ask = FirstAsk /\ chosen = Idle
  /\ latest = NothingAssessed
  /\ calls \in CallLimits

-----------------------------------------------------------------------------
(* The ends of the loop.                                                   *)

Quiet == UNCHANGED <<goal, history, rcas, spent, requested, mode, ask, calls>>

Fail(cause) ==
  /\ pc' = "failed"
  /\ end' = Unfinished(cause)
  /\ UNCHANGED questions

Finish(stop, qs) ==
  /\ pc' = "done"
  /\ end' = stop
  /\ questions' = qs

(* finalize_investigation of a formal competition; one that is still       *)
(* active raises.                                                          *)
Finalize(qs, assessed, exhausted) ==
  LET ended == ContestEnd(assessed, exhausted)
  IN IF ended = "active" THEN Fail("finalization")
     ELSE Finish(Verdict(ended, assessed), Settled(qs, ended))

(* _react_terminal in llm mode, the stop's own record included.            *)
Terminate(stop, updates, assessed) ==
  /\ IF Formal
     THEN Finalize(Updated(questions, updates), assessed,
                   stop.reason = "budget_exhausted")
     ELSE Finish([stop EXCEPT !.level = Gated(stop.level)],
                 Updated(questions, updates))
  /\ latest' = assessed
  /\ chosen' = Idle
  /\ Quiet

(* _react_terminal in controlled mode.  A satisfied stop closes whatever   *)
(* is open; if the model's planner was asked for, what RCA reasoning found *)
(* is finalized over the assessments that were last recorded.              *)
TerminateControlled(stop) ==
  LET qs == [q \in Questions |->
               IF stop.goal = "satisfied" /\ questions[q] = "open" THEN "closed"
               ELSE questions[q]]
  IN /\ IF requested = "llm" /\ HasRca
        THEN IF Formal THEN Finalize(qs, latest, FALSE)
             ELSE Finish(WithoutCompetition(stop), qs)
        ELSE Finish(stop, qs)
     /\ UNCHANGED <<latest, chosen>>
     /\ Quiet

-----------------------------------------------------------------------------
(* Deciding, in llm mode.                                                  *)

LlmTurn == mode = "llm" /\ pc = "decide"

(* preflight_termination: one call may be left unused.                     *)
LowOnCalls == Limited /\ calls <= 1

Preflight == LlmTurn /\ LowOnCalls /\ Terminate(BudgetStop, NoUpdates, latest)

PlannerStops ==
  /\ LlmTurn /\ ~LowOnCalls
  /\ PythonStops
  /\ Terminate(PythonStop.stop, PythonStop.updates, Assessed)

Choose(proposal) ==
  /\ pc' = "act"
  /\ chosen' = proposal
  /\ ask' = FirstAsk
  /\ UNCHANGED <<investigation, requested, mode, latest, end>>

(* An action Python selects is validated too; its rejection is an          *)
(* exception nobody handles.                                               *)
PlannerActs ==
  /\ LlmTurn /\ ~LowOnCalls
  /\ PythonActs
  /\ IF PythonActIsValid
     THEN /\ Choose(Propose(PythonAct.kind, PythonAct.gap, PythonAct.scope,
                            NoUpdates, {}))
          /\ UNCHANGED calls
     ELSE Fail("validation") /\ UNCHANGED <<latest, chosen>> /\ Quiet

AskModel ==
  /\ LlmTurn /\ ~LowOnCalls
  /\ ~PythonStops /\ ~PythonActs
  /\ pc' = "ask"
  /\ UNCHANGED <<investigation, requested, mode, ask, chosen, latest, calls, end>>

Asking == pc = "ask" /\ CanPay(1)

(* The model's answer is an action that passes validation.                 *)
ModelActs ==
  /\ Asking
  /\ \E k \in LegalKinds, g \in Gaps \cup {NoGap}, scope \in Scopes,
        targets \in SUBSET Open :
       LET p == Bind([kind |-> k, gap |-> g, scope |-> scope, targets |-> targets])
       IN /\ ValidAct(p)
          /\ \E updates \in UpdateSets, news \in NewQuestionSets :
               /\ DOMAIN updates \cap targets = {}
               /\ Choose(Propose(k, p.gap, p.scope, updates, news))
  /\ calls' = Paid(1)

(* It is a stop that passes validation.                                    *)
ModelStops ==
  /\ Asking
  /\ \E reason \in StopReasons, level \in Levels, claimed \in UpdateSets :
       LET updates == Committed(reason, claimed)
           stop == Stop(GoalOf[reason], level, reason)
       IN /\ ValidStop(reason, updates)
          /\ IF Formal
             THEN Finalize(Updated(questions, updates), Assessed, FALSE)
             ELSE Finish([stop EXCEPT !.level = Gated(level)],
                         Updated(questions, updates))
  /\ latest' = Assessed
  /\ ask' = FirstAsk
  /\ calls' = Paid(1)
  /\ UNCHANGED <<goal, history, rcas, spent, requested, mode, chosen>>

(* Mutant: the profile is swapped, the planner is not.                     *)
FallBackHalfway ==
  /\ pc' = "decide" /\ ask' = FirstAsk
  /\ UNCHANGED <<investigation, requested, mode, chosen, latest, end>>

(* The swap of planner and profile; the state stays.                       *)
FallBack ==
  /\ mode' = "controlled" /\ pc' = "decide" /\ ask' = FirstAsk
  /\ UNCHANGED <<investigation, requested, chosen, latest, end>>

(* Neither output of the planner was valid, or the first was not.          *)
InvalidOutput ==
  /\ Asking
  /\ calls' = Paid(1)
  /\ IF ask.output = 1
     THEN /\ ask' = [ask EXCEPT !.output = 2]
          /\ UNCHANGED <<investigation, requested, mode, pc, chosen, latest, end>>
     ELSE FallBack

(* A transient failure is retried once, over both outputs.                 *)
CallFails ==
  /\ Asking
  /\ calls' = Paid(1)
  /\ \/ /\ ~ask.retried
        /\ ask' = [ask EXCEPT !.retried = TRUE]
        /\ UNCHANGED <<investigation, requested, mode, pc, chosen, latest, end>>
     \/ FallBack

(* _react_llm_budget_terminal: the planner's own call hits the limit.      *)
OutOfCalls ==
  /\ pc = "ask" /\ ~CanPay(1)
  /\ IF Formal THEN Finalize(questions, latest, TRUE) ELSE Finish(BudgetStop, questions)
  /\ UNCHANGED <<latest, chosen>>
  /\ Quiet

-----------------------------------------------------------------------------
(* Executing, in llm mode: the gate, the dispatch, and the record of the   *)
(* finding, which comes before the record of the planner's decision: an    *)
(* action's evidence is not linked to the questions it raises.             *)

Executing(m) == pc = "act" /\ mode = m

ReserveGone == chosen.kind = "reasoning" /\ Limited /\ calls < ReasoningReserve

GateStops ==
  /\ Executing("llm") /\ ReserveGone
  /\ Terminate(BudgetStop, NoUpdates, Assessed)

(* What the dispatchers look up before they call an agent.                 *)
Needs == [defect |-> IF goal.lot THEN {} ELSE {"MES"}, shared |-> {"MES"},
          exposure |-> {}, fdc |-> {"MES"}, historical |-> Specialists,
          reasoning |-> {}]

Ready == Needs[chosen.kind] \subseteq FindingAgents

(* The lookup finds nothing, or the agent raises.                          *)
DispatchFails ==
  /\ pc = "act" /\ ~(mode = "llm" /\ ReserveGone)
  /\ Fail(IF Ready THEN "specialist" ELSE "prerequisite")
  /\ UNCHANGED <<latest, chosen>>
  /\ Quiet

(* _record_controlled_finding.                                             *)
TheRecord(result) ==
  [kind |-> chosen.kind, gap |-> chosen.gap, scope |-> chosen.scope, result |-> result,
   links |-> LinkedQuestions(chosen.kind, chosen.scope)]

(* _record_planner_outcome.                                                *)
RecordOutcome ==
  /\ questions' = With(Updated(questions, chosen.updates), chosen.news)
  /\ latest' = Assessed

Recorded(result) ==
  /\ history' = Append(history, TheRecord(result))
  /\ pc' = "decide"
  /\ chosen' = Idle
  /\ UNCHANGED <<goal, requested, mode, ask, end>>

SpecialistActs ==
  /\ Executing("llm") /\ chosen.kind # "reasoning" /\ Ready
  /\ \E result \in Outcomes, tools \in SpecialistTools, n \in SpecialistCalls :
       /\ tools <= ToolsLeft /\ CanPay(n)
       /\ spent' = spent + tools
       /\ calls' = Paid(n)
       /\ Recorded(result)
  /\ RecordOutcome
  /\ UNCHANGED rcas

ReasoningActs ==
  /\ Executing("llm") /\ chosen.kind = "reasoning" /\ ~ReserveGone
  /\ \E finding \in RcaFindings, n \in ReasoningCalls :
       /\ CanPay(n)
       /\ rcas' = Append(rcas, finding)
       /\ calls' = Paid(n)
       /\ Recorded("nothing")
  /\ RecordOutcome
  /\ UNCHANGED spent

-----------------------------------------------------------------------------
(* Controlled mode: the policy decides, a budget gate may ask it again     *)
(* with the budget used up, and the agents are called directly.            *)

(* _controlled_action_tool_cost.                                           *)
Cost(k) == IF k = "exposure" /\ ~goal.lot THEN 2 ELSE ToolCost[k]

Decision ==
  LET decision == PolicyDecision(spent, FALSE)
  IN IF decision.act # "stop" /\ Cost(decision.act) > ToolsLeft
     THEN PolicyDecision(goal.maxTools, FALSE)
     ELSE decision

ControlledTurn == mode = "controlled" /\ pc = "decide"

ControlledStops ==
  ControlledTurn /\ Decision.act = "stop" /\ TerminateControlled(Decision)

ControlledChooses ==
  /\ ControlledTurn /\ Decision.act # "stop"
  /\ Choose(Propose(Decision.act, NoGap, Anywhere, NoUpdates, {}))
  /\ UNCHANGED calls

ControlledActs ==
  /\ Executing("controlled") /\ Ready
  /\ \/ /\ chosen.kind # "reasoning"
        /\ \E result \in Outcomes : Recorded(result)
        /\ UNCHANGED rcas
     \/ /\ chosen.kind = "reasoning"
        /\ \E finding \in RcaFindings : rcas' = Append(rcas, finding)
        /\ Recorded("nothing")
  /\ spent' = spent + Cost(chosen.kind)
  /\ UNCHANGED <<questions, latest, calls>>

-----------------------------------------------------------------------------
Ended == pc \in {"done", "failed"}

Turn ==
  \/ Preflight \/ PlannerStops \/ PlannerActs \/ AskModel
  \/ InvalidOutput \/ CallFails \/ OutOfCalls
  \/ GateStops \/ SpecialistActs \/ ReasoningActs
  \/ ControlledStops \/ ControlledChooses \/ ControlledActs
  \/ DispatchFails

Next ==
  \/ Turn \/ ModelActs \/ ModelStops
  \/ Ended /\ UNCHANGED vars

(* The loop is one thread; every call it makes returns or raises.  While   *)
(* the model is asked it may always answer something invalid, so that Turn *)
(* stays enabled until the end.                                            *)
Spec == Init /\ [][Next]_vars /\ WF_vars(Turn)

-----------------------------------------------------------------------------
(* What holds of an investigation.                                         *)

(* Type invariant of RCAState and of the loop's own state.                 *)
TypeOK ==
  /\ InvestigationTypeOK
  /\ requested \in {"llm", "controlled"}
  /\ mode \in {"llm", "controlled"}
  /\ pc \in {"decide", "ask", "act", "done", "failed"}
  /\ ask \in [output : 1..2, retried : BOOLEAN]
  /\ chosen \in Proposal
  /\ latest \in Assessments
  /\ calls \in Nat \cup {Unlimited}
  /\ end \in Ends

Reasonings == {i \in DOMAIN history : history[i].kind = "reasoning"}

(* RCA reasoning runs three times at most, and a third time only for a     *)
(* discriminator (_reasoning_round_is_allowed), fallback included.         *)
RoundsEarned ==
  /\ Rounds <= MaxRounds
  /\ Rounds = MaxRounds =>
       \E i \in Reasonings : (\A j \in Reasonings : j <= i) /\ history[i].gap \in Discriminators

(* No action is taken twice for one gap and scope, whichever planner took  *)
(* it first: the fallback does not redo what the model's planner did.      *)
NoReplay ==
  \A i, j \in DOMAIN history :
    /\ history[i].kind = history[j].kind
    /\ history[i].gap = history[j].gap
    /\ history[i].scope = history[j].scope
    => i = j

(* Where the model's planner was asked for, "supported" is published only  *)
(* if the last RCA finding is supported, whoever stopped the loop.         *)
SupportedIsAuthoritative ==
  pc = "done" /\ requested = "llm" /\ end.level = "supported" =>
    HasRca /\ Authoritative.status = "supported"

(* Once a competition was formed the goal is satisfied exactly if its      *)
(* candidate is supported, whatever the planner proposed.                  *)
VerdictFollowsContest ==
  pc = "done" /\ requested = "llm" /\ Formal =>
    (end.goal = "satisfied" <=>
       Authoritative.status = "supported" /\ Authoritative.contest # "failed")

(* While the model plans, a question is closed only on all its groups of   *)
(* evidence, and given up only if a source it needed was missing.          *)
TerminalIsProven ==
  mode = "llm" /\ requested = "llm" =>
    \A q \in Questions :
      /\ questions[q] = "closed" => MissingGroups(q) = {}
      /\ questions[q] = "unavailable" =>
           \/ q \in Unsupported
           \/ UnavailableLink(q)
           \/ pc = "done" /\ end.reason = "data_unavailable"

(* A question that was settled stays as it was: no planner update, new     *)
(* question, fallback or finalizer touches it again.                       *)
SettledOnce ==
  [][\A q \in Questions : questions[q] \in Terminal => questions'[q] = questions[q]]_vars

(* Every investigation ends, published or failed.                          *)
InvestigationEnds == <>Ended

-----------------------------------------------------------------------------
(* A planner that fails hands over to the controlled path, which completes *)
(* the work (autonomous-qwen-react-spec.md: the fallback "preserves        *)
(* completed work, resumes the controlled path").                          *)
FallbackPublishes ==
  mode = "controlled" => ~(pc = "failed" /\ end.reason = "finalization")
=============================================================================
