---------------------------- MODULE ReactLoopProofs ----------------------------
(***************************************************************************)
(* TLAPS proofs about ReactLoop, for any questions, gaps, goals and budgets*)
(* and whatever the model answers and the specialists find.                *)
(*                                                                         *)
(* A turn is decided in one step and executed in another.  ChosenFits says *)
(* what the validation has established of the proposal in between; the     *)
(* history only grows, so what it shows of a question stays shown.  An     *)
(* investigation may end in six places; Concluded says what all of them    *)
(* have in common.                                                         *)
(***************************************************************************)
EXTENDS ReactLoop, FiniteSetTheorems, TLAPS

(* The proposal has not been tried, is an earned round if it reasons, and  *)
(* settles questions only on what the history shows.                       *)
Untried(k, g, scope) ==
  \A i \in DOMAIN history :
    ~(history[i].kind = k /\ history[i].gap = g /\ history[i].scope = scope)

Earned(k, g) ==
  k = "reasoning" => \/ Rounds < UnconditionalRounds
                     \/ Rounds = UnconditionalRounds /\ g \in Discriminators

Shown(q, status) ==
  /\ status = "closed" => MissingGroups(q) = {}
  /\ status = "unavailable" => UnavailableLink(q)

UpdatesFit(updates) ==
  /\ DOMAIN updates \subseteq Open
  /\ \A q \in DOMAIN updates : updates[q] \in Terminal /\ Shown(q, updates[q])

ProposalFits(p) ==
  /\ Untried(p.kind, p.gap, p.scope)
  /\ Earned(p.kind, p.gap)
  /\ UpdatesFit(p.updates)
  /\ \A q \in p.news : questions[q] = "absent"

ChosenFits == pc = "act" => ProposalFits(chosen)

ReasoningLeavesFinding == "reasoning" \in CompletedKinds => HasRca

(* The inductive invariant.                                                *)
IInv == /\ TypeOK
        /\ ReasoningLeavesFinding
        /\ ChosenFits
        /\ NoReplay
        /\ RoundsEarned
        /\ SupportedIsAuthoritative
        /\ VerdictFollowsContest
        /\ TerminalIsProven

-----------------------------------------------------------------------------
(* What the planners may decide.                                           *)

LEMMA LevelsOf ==
  ASSUME NEW f \in Finding
  PROVE  /\ LevelOf(f) \in Levels
         /\ LevelOf(f) = "supported" => f.status = "supported"
  BY DEF LevelOf, Finding, Levels

LEMMA RcaTyped ==
  ASSUME TypeOK, HasRca
  PROVE  Authoritative \in Finding /\ rcas[1] \in Finding
<1>1. rcas \in Seq(Finding) /\ rcas # <<>>
  BY DEF TypeOK, InvestigationTypeOK, HasRca
<1>2. Len(rcas) \in 1 .. Len(rcas) /\ 1 \in 1 .. Len(rcas)
  BY <1>1
<1> QED BY <1>1, <1>2 DEF Authoritative

Acts(d) == \E k \in Kinds \ CompletedKinds : d = Act(k)

Stops(d) ==
  \E g \in GoalStatuses, l \in Levels, r \in StopReasons :
    d = Stop(g, l, r) /\ (l = "supported" => HasRca)

LEMMA NextIsFits ==
  ASSUME NEW k \in Kinds
  PROVE  Acts(NextIs(k)) \/ Stops(NextIs(k))
  BY DEF NextIs, Acts, Stops, GoalStatuses, Levels, StopReasons

LEMMA RecordTyped ==
  ASSUME TypeOK, NEW i \in DOMAIN history
  PROVE  history[i] \in Record /\ history[i].kind \in Kinds
<1>1. history \in Seq(Record)
  BY DEF TypeOK, InvestigationTypeOK
<1>2. history[i] \in Record
  BY <1>1
<1> QED BY <1>2 DEF Record

LEMMA ReasoningFound ==
  ASSUME TypeOK, ReasoningLeavesFinding, Has("RCA_REASONING")
  PROVE  HasRca
<1>1. PICK i \in DOMAIN history : Agent[history[i].kind] = "RCA_REASONING"
  BY DEF Has, FindingAgents
<1>2. history[i].kind \in Kinds
  BY RecordTyped
<1>3. history[i].kind = "reasoning"
  BY <1>1, <1>2 DEF Agent, Kinds
<1> QED BY <1>1, <1>3 DEF ReasoningLeavesFinding, CompletedKinds

LEMMA RootCauseFits ==
  ASSUME TypeOK, ReasoningLeavesFinding
  PROVE  Acts(RootCauseNext) \/ Stops(RootCauseNext)
<1>1. \A k \in {"exposure", "defect", "shared", "fdc", "reasoning"} : k \in Kinds
  BY DEF Kinds
<1>2. ASSUME Has("RCA_REASONING") PROVE Stops(RootCauseStop)
  <2>1. HasRca
    BY <1>2, ReasoningFound
  <2>2. LevelOf(rcas[1]) \in Levels
    BY <2>1, RcaTyped, LevelsOf
  <2>3. "candidate" \in Levels /\ "satisfied" \in GoalStatuses /\ "goal_satisfied" \in StopReasons
    BY DEF Levels, GoalStatuses, StopReasons
  <2> QED BY <2>1, <2>2, <2>3 DEF RootCauseStop, Stops
<1> QED BY <1>1, <1>2, NextIsFits DEF RootCauseNext

LEMMA PolicyFits ==
  ASSUME TypeOK, ReasoningLeavesFinding, NEW t, NEW c
  PROVE  Acts(PolicyDecision(t, c)) \/ Stops(PolicyDecision(t, c))
<1>1. \A k \in {"exposure", "fdc", "historical"} : k \in Kinds
  BY DEF Kinds
<1>2. /\ {"signal", "candidate", "conflicted", "inconclusive"} \subseteq Levels
      /\ {"satisfied", "blocked", "budget_exhausted"} \subseteq GoalStatuses
      /\ {"goal_satisfied", "critical_contradiction", "budget_exhausted"} \subseteq StopReasons
  BY DEF Levels, GoalStatuses, StopReasons
<1>3. Stops(BudgetStop) /\ Stops(Stop("blocked", "conflicted", "critical_contradiction"))
  BY <1>2 DEF Stops, BudgetStop
<1>4. /\ Stops(Stop("satisfied", "signal", "goal_satisfied"))
      /\ Stops(Stop("satisfied", "candidate", "goal_satisfied"))
  BY <1>2 DEF Stops
<1>5. Acts(ImpactScopeNext) \/ Stops(ImpactScopeNext)
  BY <1>1, <1>4, NextIsFits DEF ImpactScopeNext
<1>6. Acts(SpcCheckNext) \/ Stops(SpcCheckNext)
  BY <1>1, <1>4, NextIsFits DEF SpcCheckNext
<1>7. Acts(HistoricalLookupNext) \/ Stops(HistoricalLookupNext)
  BY <1>1, <1>4, NextIsFits, RootCauseFits DEF HistoricalLookupNext
<1>8. goal.intent \in Intents
  BY DEF TypeOK, InvestigationTypeOK, Goal
<1> QED BY <1>3, <1>5, <1>6, <1>7, <1>8, RootCauseFits DEF PolicyDecision, Intents

LEMMA DecisionFits ==
  ASSUME TypeOK, ReasoningLeavesFinding
  PROVE  IF Decision.act = "stop" THEN Stops(Decision) ELSE Acts(Decision)
<1>1. Acts(Decision) \/ Stops(Decision)
  BY PolicyFits DEF Decision
<1>2. Acts(Decision) => Decision.act \in Kinds
  BY DEF Acts, Act
<1>3. Stops(Decision) => Decision.act = "stop"
  BY DEF Stops, Stop
<1>4. "stop" \notin Kinds
  BY DEF Kinds
<1> QED BY <1>1, <1>2, <1>3, <1>4

-----------------------------------------------------------------------------
(* What validation establishes of an action of the model's planner.        *)

LEMMA RoundsTyped == TypeOK => Rounds \in Nat
<1> SUFFICES ASSUME TypeOK PROVE Rounds \in Nat
  OBVIOUS
<1> DEFINE S == {i \in DOMAIN history : history[i].kind = "reasoning"}
<1>1. Len(history) \in Nat /\ DOMAIN history = 1 .. Len(history)
  BY DEF TypeOK, InvestigationTypeOK
<1>2. IsFiniteSet(1 .. Len(history)) /\ S \subseteq 1 .. Len(history)
  BY <1>1, FS_Interval
<1>3. IsFiniteSet(S)
  BY <1>2, FS_Subset
<1>4. Cardinality(S) \in Nat
  BY <1>3, FS_CardinalityType
<1> QED BY <1>4 DEF Rounds

LEMMA EligibleTyped == TypeOK => EligibleGaps \subseteq Gaps
<1>1. ASSUME TypeOK PROVE CausalGaps \subseteq Gaps
  <2>1. HasRca => Authoritative.gaps \subseteq Gaps
    BY <1>1, RcaTyped DEF Finding
  <2> QED BY <2>1 DEF CausalGaps
<1> QED BY <1>1 DEF EligibleGaps

LEMMA OptionIsExecutable ==
  ASSUME TypeOK, NEW k, NEW g \in OptionGaps(k)
  PROVE  g \in Gaps /\ Executable(k, g) /\ ExecutableOptions # {}
<1>1. PICK o \in ExecutableOptions : o[1] = k /\ o[2] = g
  BY DEF OptionGaps, Options, HighValueOptions
<1>2. PICK f \in EligibleGaps : \E l \in StageActions(f) : o = <<l, f>> /\ Executable(l, f)
  BY <1>1 DEF ExecutableOptions
<1> QED BY <1>1, <1>2, EligibleTyped

(* A third round is only had for a discriminator.                          *)
LEMMA ValidIsEarned ==
  ASSUME TypeOK, NEW p, ValidAct(p)
  PROVE  Earned(p.kind, p.gap)
<1> SUFFICES ASSUME p.kind = "reasoning"
             PROVE  \/ Rounds < UnconditionalRounds
                    \/ Rounds = UnconditionalRounds /\ p.gap \in Discriminators
  BY DEF Earned
<1>1. Rounds \in Nat
  BY RoundsTyped
<1>2. LegalTargets("reasoning") # {} /\ GapIsLegal(p)
  BY DEF ValidAct
<1>3. CASE p.gap \in OptionGaps("reasoning")
  <2>1. RoundAllowed("reasoning", p.gap)
    BY <1>3, OptionIsExecutable DEF Executable
  <2> QED BY <1>1, <2>1 DEF RoundAllowed, UnconditionalRounds, MaxRounds
<1>4. CASE OptionGaps("reasoning") = {}
  <2>1. ExecutableOptions = {} /\ TargetsOf("reasoning") # {}
    BY <1>2, <1>4 DEF LegalTargets, HadOptions
  <2>2. RoundAllowed("reasoning", NoGap)
    BY <2>1 DEF TargetsOf
  <2>3. NoGap \notin Discriminators
    BY InvestigationAssumption DEF Discriminators
  <2> QED BY <2>2, <2>3 DEF RoundAllowed
<1> QED BY <1>2, <1>3, <1>4 DEF GapIsLegal

LEMMA ValidIsUntried ==
  ASSUME NEW p, ValidAct(p)
  PROVE  Untried(p.kind, p.gap, p.scope)
  BY DEF ValidAct, Fresh, Untried

(* Binding a gap keeps kind and targets, and the proposal well formed.     *)
LEMMA BindTyped ==
  ASSUME TypeOK, NEW k \in Kinds, NEW g \in Gaps \cup {NoGap}, NEW scope \in Scopes,
         NEW targets
  PROVE  LET p == Bind([kind |-> k, gap |-> g, scope |-> scope, targets |-> targets])
         IN  p.kind = k /\ p.gap \in Gaps \cup {NoGap} /\ p.scope \in Scopes
<1> DEFINE p == [kind |-> k, gap |-> g, scope |-> scope, targets |-> targets]
           gaps == OptionGaps(k)
           bound == IF \E f \in gaps : gaps = {f} THEN CHOOSE f \in gaps : TRUE ELSE g
           put == IF Gap[bound].scope = Anywhere THEN scope ELSE Gap[bound].scope
<1>1. Bind(p) = IF bound \notin gaps THEN p ELSE [p EXCEPT !.gap = bound, !.scope = put]
  BY DEF Bind
<1>2. bound \in gaps => bound \in Gaps
  BY OptionIsExecutable
<1>3. \A f \in Gaps : Gap[f].scope \in Scopes
  BY InvestigationAssumption DEF GapInfo
<1>4. bound \in gaps => put \in Scopes
  BY <1>2, <1>3
<1> HIDE DEF gaps, bound, put
<1>5. CASE bound \notin gaps
  BY <1>1, <1>5
<1>6. CASE bound \in gaps
  <2>1. Bind(p) = [kind |-> k, gap |-> bound, scope |-> put, targets |-> targets]
    BY <1>1, <1>6
  <2> QED BY <1>2, <1>4, <1>6, <2>1
<1> QED BY <1>5, <1>6

-----------------------------------------------------------------------------
(* What may be done to the questions.                                      *)

AllUpdates == UNION {[s -> Terminal] : s \in SUBSET Questions}

LEMMA UpdatesTyped ==
  ASSUME NEW u, UpdatesFit(u), u = [q \in DOMAIN u |-> u[q]]
  PROVE  u \in AllUpdates
<1>1. DOMAIN u \in SUBSET Questions
  BY DEF UpdatesFit, Open
<1>2. u \in [DOMAIN u -> Terminal]
  BY DEF UpdatesFit
<1> QED BY <1>1, <1>2 DEF AllUpdates

LEMMA NoUpdatesFit == UpdatesFit(NoUpdates) /\ NoUpdates \in AllUpdates
<1>1. UpdatesFit(NoUpdates)
  BY DEF UpdatesFit, NoUpdates
<1> QED BY <1>1, UpdatesTyped DEF NoUpdates

LEMMA TerminalUpdatesFit == UpdatesFit(TerminalUpdates) /\ TerminalUpdates \in AllUpdates
<1>1. UpdatesFit(TerminalUpdates)
  BY DEF UpdatesFit, TerminalUpdates, Shown, Terminal
<1> QED BY <1>1, UpdatesTyped DEF TerminalUpdates

LEMMA ClaimedUpdatesFit ==
  ASSUME NEW u \in UpdateSets
  PROVE  UpdatesFit(u) /\ u \in AllUpdates
<1>1. PICK s \in SUBSET Open :
        u \in [s -> Terminal] /\ \A q \in s : u[q] \in Accepted(q)
  BY DEF UpdateSets
<1>2. UpdatesFit(u)
  BY <1>1 DEF UpdatesFit, Accepted, Shown
<1> QED BY <1>1, <1>2, UpdatesTyped

LEMMA CommittedFit ==
  ASSUME NEW u \in UpdateSets, NEW reason
  PROVE  UpdatesFit(Committed(reason, u))
  BY ClaimedUpdatesFit, NoUpdatesFit, TerminalUpdatesFit DEF Committed, ReferenceUpdates

(* Questions that follow: what is settled stays, and while the model plans *)
(* what is settled now is shown.                                           *)
Follows(qs) ==
  /\ qs \in [Questions -> QuestionStatus]
  /\ \A q \in Questions :
       /\ questions[q] \in Terminal => qs[q] = questions[q]
       /\ mode = "llm" /\ qs[q] # questions[q] => Shown(q, qs[q])

LEMMA QuestionsFollow == TypeOK => Follows(questions)
  BY DEF TypeOK, InvestigationTypeOK, Follows

LEMMA UpdatedFollows ==
  ASSUME TypeOK, NEW u, UpdatesFit(u)
  PROVE  Follows(Updated(questions, u))
<1>1. questions \in [Questions -> QuestionStatus]
  BY DEF TypeOK, InvestigationTypeOK
<1>2. \A q \in DOMAIN u : u[q] \in QuestionStatus /\ questions[q] = "open"
  BY DEF UpdatesFit, QuestionStatus, Open
<1>3. Updated(questions, u) \in [Questions -> QuestionStatus]
  BY <1>1, <1>2 DEF Updated
<1>4. "open" \notin Terminal
  BY DEF Terminal
<1> QED BY <1>2, <1>3, <1>4 DEF Follows, Updated, UpdatesFit

-----------------------------------------------------------------------------
(* The six ends of an investigation.                                       *)

Concluded ==
  /\ pc' \in {"done", "failed"}
  /\ end' \in Ends
  /\ pc' = "done" /\ requested = "llm" =>
       /\ end'.level = "supported" => HasRca /\ Authoritative.status = "supported"
       /\ Formal => (end'.goal = "satisfied" <=>
                       Authoritative.status = "supported" /\ Authoritative.contest # "failed")
  /\ questions' \in [Questions -> QuestionStatus]
  /\ \A q \in Questions :
       /\ questions[q] \in Terminal => questions'[q] = questions[q]
       /\ mode = "llm" /\ questions'[q] # questions[q] =>
            \/ Shown(q, questions'[q])
            \/ pc' = "done" /\ end'.reason = "data_unavailable" /\ questions'[q] # "closed"

LEMMA StopTyped ==
  ASSUME NEW g \in GoalStatuses, NEW l \in Levels, NEW r \in StopReasons
  PROVE  /\ Stop(g, l, r) \in Ends
         /\ Stop(g, l, r).goal = g /\ Stop(g, l, r).level = l /\ Stop(g, l, r).reason = r
  BY DEF Stop, Ends

LEMMA FailConcludes ==
  ASSUME TypeOK, NEW cause \in FailureCauses, Fail(cause)
  PROVE  Concluded
<1>1. pc' = "failed" /\ end' = Unfinished(cause) /\ questions' = questions
  BY DEF Fail
<1>2. Unfinished(cause) \in Ends
  BY DEF Unfinished, Stop, Ends, Levels
<1> QED BY <1>1, <1>2 DEF Concluded, TypeOK, InvestigationTypeOK

LEMMA FinishConcludes ==
  ASSUME TypeOK, NEW stop \in Ends, NEW qs, Follows(qs), Finish(stop, qs),
         requested = "llm" => /\ ~Formal
                              /\ stop.level = "supported" =>
                                   HasRca /\ Authoritative.status = "supported"
  PROVE  Concluded
<1>1. pc' = "done" /\ end' = stop /\ questions' = qs
  BY DEF Finish
<1> QED BY <1>1 DEF Concluded, Follows

(* The competition ends in a verdict that is its candidate's.              *)
LEMMA VerdictFits ==
  ASSUME TypeOK, Formal, NEW assessed, NEW exhausted, NEW ended,
         ended = ContestEnd(assessed, exhausted), ended # "active"
  PROVE  LET v == Verdict(ended, assessed)
         IN  /\ v \in Ends
             /\ v.level = "supported" => Authoritative.status = "supported"
             /\ v.goal = "satisfied" <=> /\ Authoritative.status = "supported"
                                         /\ Authoritative.contest # "failed"
             /\ ended = "blocked_by_missing_data" => v.reason = "data_unavailable"
<1>1. Authoritative \in Finding
  BY RcaTyped DEF Formal
<1>2. Authoritative.contest \in {"not_required", "open", "rejected", "failed"}
  BY <1>1 DEF Finding, Formal
<1>3. /\ ended \in {"failed", "complete_confirmed", "complete_rejected", "not_required",
                    "budget_exhausted", "blocked_by_missing_data", "exhausted"}
      /\ ended = "complete_confirmed" <=> /\ Authoritative.status = "supported"
                                          /\ Authoritative.contest # "failed"
  BY <1>2 DEF ContestEnd
<1>4. /\ {"supported", "inconclusive"} \subseteq Levels
      /\ {"satisfied", "blocked", "budget_exhausted"} \subseteq GoalStatuses
      /\ {"goal_satisfied", "budget_exhausted", "data_unavailable", "no_high_value_action"}
           \subseteq StopReasons
  BY DEF Levels, GoalStatuses, StopReasons
<1>5. CASE ended = "complete_confirmed"
  BY <1>3, <1>4, <1>5, StopTyped DEF Verdict
<1>6. CASE ended = "budget_exhausted"
  BY <1>3, <1>4, <1>6, StopTyped DEF Verdict, BudgetStop
<1>7. CASE ended = "blocked_by_missing_data"
  BY <1>3, <1>4, <1>7, StopTyped DEF Verdict
<1>8. CASE ended = "not_required"
  <2>1. \E r \in {"data_unavailable", "no_high_value_action"} :
          Verdict(ended, assessed) = Stop("blocked", "inconclusive", r)
    BY <1>8 DEF Verdict
  <2> QED BY <1>3, <1>4, <1>8, <2>1, StopTyped
<1>9. CASE ended \in {"failed", "complete_rejected", "exhausted"}
  BY <1>3, <1>4, <1>9, StopTyped DEF Verdict
<1> QED BY <1>3, <1>5, <1>6, <1>7, <1>8, <1>9
LEMMA FinalizeConcludes ==
  ASSUME TypeOK, Formal, NEW qs, Follows(qs), NEW assessed, NEW exhausted,
         Finalize(qs, assessed, exhausted)
  PROVE  Concluded
<1> DEFINE ended == ContestEnd(assessed, exhausted)
           v == Verdict(ended, assessed)
           settled == Settled(qs, ended)
<1>1. CASE ended = "active"
  <2>1. Fail("finalization")
    BY <1>1 DEF Finalize
  <2> QED BY <2>1, FailConcludes DEF FailureCauses
<1>2. CASE ended # "active"
  <2>1. Finish(v, settled)
    BY <1>2 DEF Finalize
  <2>2. pc' = "done" /\ end' = v /\ questions' = settled
    BY <2>1 DEF Finish
  <2>3. /\ v \in Ends
        /\ v.level = "supported" => Authoritative.status = "supported"
        /\ v.goal = "satisfied" <=> /\ Authoritative.status = "supported"
                                    /\ Authoritative.contest # "failed"
        /\ ended = "blocked_by_missing_data" => v.reason = "data_unavailable"
    BY <1>2, VerdictFits
  <2>4. qs \in [Questions -> QuestionStatus]
    BY DEF Follows
  <2>5. settled \in [Questions -> QuestionStatus]
    BY <2>4 DEF Settled, QuestionStatus, Terminal
  <2>6. ASSUME NEW q \in Questions
        PROVE  \/ settled[q] = qs[q]
               \/ /\ qs[q] = "open"
                  /\ \/ settled[q] = "closed" /\ MissingGroups(q) = {}
                     \/ settled[q] = "unavailable" /\ ended = "blocked_by_missing_data"
    BY DEF Settled
  <2>7. ASSUME NEW q \in Questions, questions[q] \in Terminal
        PROVE  settled[q] = questions[q]
    BY <2>6, <2>7 DEF Follows, Terminal
  <2>8. ASSUME NEW q \in Questions, mode = "llm", settled[q] # questions[q]
        PROVE  \/ Shown(q, settled[q])
               \/ v.reason = "data_unavailable" /\ settled[q] # "closed"
    <3>1. CASE settled[q] = qs[q]
      BY <2>8, <3>1 DEF Follows
    <3>2. CASE settled[q] = "closed" /\ MissingGroups(q) = {}
      BY <3>2 DEF Shown
    <3>3. CASE settled[q] = "unavailable" /\ ended = "blocked_by_missing_data"
      BY <2>3, <3>3
    <3> QED BY <2>6, <3>1, <3>2, <3>3
  <2> HIDE DEF ended, v, settled
  <2>9. HasRca
    BY DEF Formal
  <2> QED BY <2>2, <2>3, <2>5, <2>7, <2>8, <2>9 DEF Concluded
<1> QED BY <1>1, <1>2

(* The gate lets "supported" through only on a supported finding.          *)
LEMMA GatedFits ==
  ASSUME TypeOK, NEW l \in Levels
  PROVE  /\ Gated(l) \in Levels
         /\ Gated(l) = "supported" => HasRca /\ Authoritative.status = "supported"
<1>1. /\ Cap \in Levels
      /\ Cap = "supported" => HasRca /\ Authoritative.status = "supported"
  <2>1. CASE HasRca
    <3>1. Cap = LevelOf(Authoritative)
      BY <2>1 DEF Cap
    <3> QED BY <2>1, <3>1, RcaTyped, LevelsOf
  <2>2. CASE ~HasRca
    BY <2>2 DEF Cap, Levels
  <2> QED BY <2>1, <2>2
<1>2. /\ Strength["signal"] = 1 /\ Strength["candidate"] = 2 /\ Strength["supported"] = 3
  BY DEF Strength
<1>3. Gated(l) = "supported" => Cap = "supported"
  <2> SUFFICES ASSUME Gated(l) = "supported", Cap # "supported" PROVE FALSE
    OBVIOUS
  <2>1. /\ Cap # "conflicted" /\ Cap # "inconclusive"
        /\ l = "supported" /\ Strength[l] <= Strength[Cap]
    BY DEF Gated
  <2>2. Cap \in {"signal", "candidate"}
    BY <1>1, <2>1 DEF Levels
  <2> QED BY <1>2, <2>1, <2>2
<1>4. Gated(l) \in Levels
  BY <1>1 DEF Gated, Levels
<1> QED BY <1>1, <1>3, <1>4

-----------------------------------------------------------------------------
(* Types of what a turn writes.                                            *)

LEMMA IdleTyped == Idle \in Proposal
<1>1. NoUpdates \in UNION {[s -> Terminal] : s \in SUBSET Questions}
  BY NoUpdatesFit DEF AllUpdates
<1> QED BY <1>1 DEF Idle, Propose, Proposal, Kinds, Scopes

LEMMA AssessedTyped == TypeOK => Assessed \in Assessments
<1> SUFFICES ASSUME TypeOK PROVE Assessed \in Assessments
  OBVIOUS
<1>1. ASSUME NEW o \in ExecutableOptions PROVE o[2] \in Gaps
  <2>1. PICK f \in EligibleGaps : \E l \in StageActions(f) : o = <<l, f>>
    BY DEF ExecutableOptions
  <2> QED BY <2>1, EligibleTyped
<1> DEFINE gaps == {o[2] : o \in ExecutableOptions}
<1>2. gaps \in SUBSET Gaps
  BY <1>1
<1> HIDE DEF gaps
<1>3. (HighValueOptions # {}) \in BOOLEAN
  OBVIOUS
<1> QED BY <1>2, <1>3 DEF Assessed, Assessments, gaps

LEMMA PaidTyped ==
  ASSUME TypeOK, NEW n \in Nat, CanPay(n)
  PROVE  Paid(n) \in Nat \cup {Unlimited}
<1>1. calls \in Nat \cup {Unlimited}
  BY DEF TypeOK
<1>2. Limited => n <= calls
  BY DEF CanPay
<1> QED BY <1>1, <1>2 DEF Paid, Limited, Unlimited

-----------------------------------------------------------------------------
(* What a turn keeps.                                                      *)

Kept == UNCHANGED <<goal, history, rcas, spent, requested, mode>>

WritesTyped ==
  /\ ask' \in [output : 1..2, retried : BOOLEAN]
  /\ chosen' \in Proposal
  /\ latest' \in Assessments
  /\ calls' \in Nat \cup {Unlimited}

SettledStep ==
  \A q \in Questions : questions[q] \in Terminal => questions'[q] = questions[q]

Preserves == IInv' /\ SettledStep

LEMMA QuietWrites ==
  ASSUME TypeOK, Quiet, latest' \in Assessments, chosen' \in {Idle, chosen}
  PROVE  Kept /\ WritesTyped
  BY IdleTyped DEF Quiet, Kept, WritesTyped, TypeOK

LEMMA EndKeeps ==
  ASSUME IInv, pc \in {"decide", "ask", "act"}, Concluded, Kept, WritesTyped
  PROVE  Preserves
<1>1. TypeOK'
  BY DEF IInv, TypeOK, InvestigationTypeOK, Concluded, Kept, WritesTyped
<1>2. ReasoningLeavesFinding' /\ NoReplay'
  BY DEF IInv, ReasoningLeavesFinding, NoReplay, CompletedKinds, HasRca, Kept
<1>3. ChosenFits'
  BY DEF Concluded, ChosenFits
<1>4. RoundsEarned'
  BY DEF IInv, RoundsEarned, Rounds, Reasonings, Kept
<1>5. SupportedIsAuthoritative' /\ VerdictFollowsContest'
  BY DEF Concluded, Kept, SupportedIsAuthoritative, VerdictFollowsContest, Formal, HasRca,
     Authoritative
<1>6. TerminalIsProven'
  <2> SUFFICES ASSUME mode = "llm", requested = "llm", NEW q \in Questions
               PROVE  /\ questions'[q] = "closed" => MissingGroups(q) = {}
                      /\ questions'[q] = "unavailable" =>
                           \/ q \in Unsupported
                           \/ UnavailableLink(q)
                           \/ pc' = "done" /\ end'.reason = "data_unavailable"
    BY DEF TerminalIsProven, MissingGroups, SatisfiedGroups, UnavailableLink, Kept
  <2>1. CASE questions'[q] # questions[q]
    <3>1. \/ Shown(q, questions'[q])
          \/ pc' = "done" /\ end'.reason = "data_unavailable" /\ questions'[q] # "closed"
      BY <2>1 DEF Concluded
    <3> QED BY <3>1 DEF Shown
  <2>2. CASE questions'[q] = questions[q]
    BY <2>2 DEF IInv, TerminalIsProven
  <2> QED BY <2>1, <2>2
<1>7. SettledStep
  BY DEF Concluded, SettledStep
<1> QED BY <1>1, <1>2, <1>3, <1>4, <1>5, <1>6, <1>7 DEF IInv, Preserves

LEMMA WaitKeeps ==
  ASSUME IInv, pc \in {"decide", "ask"}, pc' \in {"decide", "ask"},
         mode' \in {mode, "controlled"}, WritesTyped,
         UNCHANGED <<investigation, requested, end>>
  PROVE  Preserves
<1>1. TypeOK'
  BY DEF IInv, TypeOK, InvestigationTypeOK, WritesTyped, investigation
<1>2. ReasoningLeavesFinding' /\ NoReplay'
  BY DEF IInv, ReasoningLeavesFinding, NoReplay, CompletedKinds, HasRca, investigation
<1>3. ChosenFits' /\ SupportedIsAuthoritative' /\ VerdictFollowsContest'
  BY DEF ChosenFits, SupportedIsAuthoritative, VerdictFollowsContest
<1>4. RoundsEarned'
  BY DEF IInv, RoundsEarned, Rounds, Reasonings, investigation
<1>5. TerminalIsProven'
  BY DEF IInv, TerminalIsProven, MissingGroups, SatisfiedGroups, UnavailableLink,
     investigation
<1> QED BY <1>1, <1>2, <1>3, <1>4, <1>5 DEF IInv, Preserves, SettledStep, investigation

LEMMA ChoiceKeeps ==
  ASSUME IInv, pc \in {"decide", "ask"}, NEW p \in Proposal, ProposalFits(p), Choose(p),
         calls' \in Nat \cup {Unlimited}
  PROVE  Preserves
<1> USE DEF Choose
<1>1. TypeOK'
  BY DEF IInv, TypeOK, InvestigationTypeOK, investigation, FirstAsk
<1>2. ReasoningLeavesFinding' /\ NoReplay'
  BY DEF IInv, ReasoningLeavesFinding, NoReplay, CompletedKinds, HasRca, investigation
<1>3. SupportedIsAuthoritative' /\ VerdictFollowsContest'
  BY DEF SupportedIsAuthoritative, VerdictFollowsContest
<1>4. RoundsEarned'
  BY DEF IInv, RoundsEarned, Rounds, Reasonings, investigation
<1>5. TerminalIsProven'
  BY DEF IInv, TerminalIsProven, MissingGroups, SatisfiedGroups, UnavailableLink,
     investigation
<1>6. chosen' = p /\ history' = history /\ questions' = questions
  BY DEF investigation
<1>7. Untried(p.kind, p.gap, p.scope)'
  BY <1>6 DEF ProposalFits, Untried
<1>8. (Earned(p.kind, p.gap) /\ UpdatesFit(p.updates))'
  BY <1>6 DEF ProposalFits, Earned, Rounds, UpdatesFit, Shown, MissingGroups,
     SatisfiedGroups, UnavailableLink, Open
<1>9. ChosenFits'
  BY <1>6, <1>7, <1>8 DEF ChosenFits, ProposalFits, Untried, Earned, Rounds, UpdatesFit,
     Shown, MissingGroups, SatisfiedGroups, UnavailableLink, Open
<1> QED BY <1>1, <1>2, <1>3, <1>4, <1>5, <1>6, <1>9 DEF IInv, Preserves, SettledStep
-----------------------------------------------------------------------------
(* Each end concludes.                                                     *)

LEMMA TerminateConcludes ==
  ASSUME TypeOK, NEW stop \in Ends, stop.level \in Levels, stop.act = "stop",
         NEW u, UpdatesFit(u), NEW assessed \in Assessments,
         Terminate(stop, u, assessed)
  PROVE  Concluded /\ Kept /\ WritesTyped
<1> DEFINE gated == [stop EXCEPT !.level = Gated(stop.level)]
           qs == Updated(questions, u)
<1>1. Kept /\ WritesTyped
  BY QuietWrites DEF Terminate
<1>2. Follows(qs)
  BY UpdatedFollows
<1>3. /\ Gated(stop.level) \in Levels
      /\ Gated(stop.level) = "supported" => HasRca /\ Authoritative.status = "supported"
  BY GatedFits
<1>4. gated \in Ends /\ gated.level = Gated(stop.level)
  BY <1>3 DEF Ends
<1>5. CASE Formal
  <2>1. Finalize(qs, assessed, stop.reason = "budget_exhausted")
    BY <1>5 DEF Terminate
  <2> HIDE DEF qs
  <2> QED BY <1>1, <1>2, <1>5, <2>1, FinalizeConcludes
<1>6. CASE ~Formal
  <2>1. Finish(gated, qs)
    BY <1>6 DEF Terminate
  <2> HIDE DEF gated, qs
  <2> QED BY <1>1, <1>2, <1>3, <1>4, <1>6, <2>1, FinishConcludes
<1> QED BY <1>1, <1>5, <1>6

LEMMA BudgetStopTyped == BudgetStop \in Ends /\ BudgetStop.level = "inconclusive"
  BY DEF BudgetStop, Stop, Ends, GoalStatuses, Levels, StopReasons

LEMMA NothingLeftTyped ==
  ASSUME NEW gaps
  PROVE  /\ NothingLeft(gaps) \in Ends
         /\ NothingLeft(gaps).level \in Levels
  BY DEF NothingLeft, Stop, Ends, GoalStatuses, Levels, StopReasons

LEMMA PreflightKeeps ==
  ASSUME IInv, Preflight
  PROVE  Preserves
<1>1. BudgetStop.act = "stop" /\ BudgetStop.level \in Levels
  BY DEF BudgetStop, Stop, Levels
<1>2. TypeOK /\ latest \in Assessments /\ pc = "decide"
  BY DEF IInv, TypeOK, Preflight, LlmTurn
<1>3. Concluded /\ Kept /\ WritesTyped
  BY <1>1, <1>2, BudgetStopTyped, NoUpdatesFit, TerminateConcludes DEF Preflight
<1> QED BY <1>2, <1>3, EndKeeps

LEMMA GateStopsKeeps ==
  ASSUME IInv, GateStops
  PROVE  Preserves
<1>1. BudgetStop.act = "stop" /\ BudgetStop.level \in Levels
  BY DEF BudgetStop, Stop, Levels
<1>2. TypeOK /\ pc = "act"
  BY DEF IInv, GateStops, Executing
<1>3. Assessed \in Assessments
  BY <1>2, AssessedTyped
<1>4. Concluded /\ Kept /\ WritesTyped
  BY <1>1, <1>2, <1>3, BudgetStopTyped, NoUpdatesFit, TerminateConcludes DEF GateStops
<1> QED BY <1>2, <1>4, EndKeeps

LEMMA PythonStopTyped ==
  /\ PythonStop.stop \in Ends /\ PythonStop.stop.level \in Levels
  /\ PythonStop.stop.act = "stop"
  /\ UpdatesFit(PythonStop.updates)
<1>1. \E s \in Ends, u \in {NoUpdates, TerminalUpdates} :
         /\ PythonStop = [stop |-> s, updates |-> u]
         /\ s.level \in Levels
  <2>1. /\ Stop("blocked", "inconclusive", "data_unavailable") \in Ends
        /\ Stop("blocked", "inconclusive", "data_unavailable").level \in Levels
    BY DEF Stop, Ends, GoalStatuses, Levels, StopReasons
  <2>2. BudgetStop \in Ends /\ BudgetStop.level \in Levels
    BY BudgetStopTyped DEF Levels
  <2> QED BY <2>1, <2>2, NothingLeftTyped DEF PythonStop
<1>2. \A s \in Ends : s.act = "stop"
  BY DEF Ends
<1> QED BY <1>1, <1>2, NoUpdatesFit, TerminalUpdatesFit

LEMMA PlannerStopsKeeps ==
  ASSUME IInv, PlannerStops
  PROVE  Preserves
<1>1. TypeOK /\ pc = "decide" /\ Assessed \in Assessments
  BY AssessedTyped DEF IInv, PlannerStops, LlmTurn
<1>2. Terminate(PythonStop.stop, PythonStop.updates, Assessed)
  BY DEF PlannerStops
<1>3. Concluded /\ Kept /\ WritesTyped
  BY <1>1, <1>2, PythonStopTyped, TerminateConcludes
<1> QED BY <1>1, <1>3, EndKeeps

LEMMA ModelStopsKeeps ==
  ASSUME IInv, ModelStops
  PROVE  Preserves
<1>1. TypeOK /\ pc = "ask" /\ CanPay(1) /\ Assessed \in Assessments
  BY AssessedTyped DEF IInv, ModelStops, Asking
<1>2. Kept /\ WritesTyped
  <2>1. calls' \in Nat \cup {Unlimited}
    BY <1>1, PaidTyped DEF ModelStops
  <2> QED BY <1>1, <2>1 DEF ModelStops, Kept, WritesTyped, FirstAsk, TypeOK
<1>3. Concluded
  <2>1. PICK reason \in StopReasons, level \in Levels, claimed \in UpdateSets :
          IF Formal
          THEN Finalize(Updated(questions, Committed(reason, claimed)), Assessed, FALSE)
          ELSE Finish([Stop(GoalOf[reason], level, reason) EXCEPT !.level = Gated(level)],
                      Updated(questions, Committed(reason, claimed)))
    BY DEF ModelStops
  <2> DEFINE qs == Updated(questions, Committed(reason, claimed))
             gated == [Stop(GoalOf[reason], level, reason) EXCEPT !.level = Gated(level)]
  <2>2. Follows(qs)
    BY <1>1, CommittedFit, UpdatedFollows
  <2>3. /\ Gated(level) \in Levels
        /\ Gated(level) = "supported" => HasRca /\ Authoritative.status = "supported"
    BY <1>1, GatedFits
  <2>4. GoalOf[reason] \in GoalStatuses
    BY DEF GoalOf, StopReasons, GoalStatuses
  <2>5. gated \in Ends /\ gated.level = Gated(level)
    BY <2>3, <2>4 DEF Stop, Ends
  <2> HIDE DEF qs, gated
  <2>6. CASE Formal
    <3>1. Finalize(qs, Assessed, FALSE)
      BY <2>1, <2>6 DEF qs
    <3> QED BY <1>1, <2>2, <2>6, <3>1, FinalizeConcludes
  <2>7. CASE ~Formal
    <3>1. Finish(gated, qs)
      BY <2>1, <2>7 DEF qs, gated
    <3> QED BY <1>1, <2>2, <2>3, <2>5, <2>7, <3>1, FinishConcludes
  <2> QED BY <2>6, <2>7
<1> QED BY <1>1, <1>2, <1>3, EndKeeps

LEMMA OutOfCallsKeeps ==
  ASSUME IInv, OutOfCalls
  PROVE  Preserves
<1>1. TypeOK /\ pc = "ask" /\ latest \in Assessments
  BY DEF IInv, TypeOK, OutOfCalls
<1>2. Kept /\ WritesTyped
  BY <1>1, QuietWrites DEF OutOfCalls
<1>3. Follows(questions)
  BY <1>1, QuestionsFollow
<1>4. CASE Formal
  BY <1>1, <1>2, <1>3, <1>4, FinalizeConcludes, EndKeeps DEF OutOfCalls
<1>5. CASE ~Formal
  <2>1. Finish(BudgetStop, questions)
    BY <1>5 DEF OutOfCalls
  <2>2. Concluded
    BY <1>1, <1>3, <1>5, <2>1, BudgetStopTyped, FinishConcludes
  <2> QED BY <1>1, <1>2, <2>2, EndKeeps
<1> QED BY <1>4, <1>5

LEMMA DispatchFailsKeeps ==
  ASSUME IInv, DispatchFails
  PROVE  Preserves
<1>1. TypeOK /\ pc = "act" /\ latest \in Assessments
  BY DEF IInv, TypeOK, DispatchFails
<1>2. Kept /\ WritesTyped
  BY <1>1, QuietWrites DEF DispatchFails
<1>3. PICK cause \in FailureCauses : Fail(cause)
  BY DEF DispatchFails, FailureCauses
<1> QED BY <1>1, <1>2, <1>3, FailConcludes, EndKeeps

(* A controlled end may close what is open, whatever it rests on: it is    *)
(* not the model that plans.                                               *)
LEMMA ControlledStopsKeeps ==
  ASSUME IInv, ControlledStops
  PROVE  Preserves
<1>1. TypeOK /\ pc = "decide" /\ mode = "controlled" /\ latest \in Assessments
  BY DEF IInv, TypeOK, ControlledStops, ControlledTurn
<1>2. Stops(Decision)
  BY DecisionFits DEF ControlledStops, IInv
<1>3. Decision \in Ends /\ (Decision.level = "supported" => HasRca)
  BY <1>2, StopTyped DEF Stops
<1> DEFINE stop == Decision
           qs == [q \in Questions |->
                    IF stop.goal = "satisfied" /\ questions[q] = "open" THEN "closed"
                    ELSE questions[q]]
<1>4. Follows(qs)
  <2>1. questions \in [Questions -> QuestionStatus]
    BY <1>1 DEF TypeOK, InvestigationTypeOK
  <2> QED BY <1>1, <2>1 DEF Follows, QuestionStatus, Terminal
<1>5. /\ Kept /\ WritesTyped
      /\ IF requested = "llm" /\ HasRca
         THEN IF Formal THEN Finalize(qs, latest, FALSE)
              ELSE Finish(WithoutCompetition(stop), qs)
         ELSE Finish(stop, qs)
  BY <1>1, QuietWrites DEF ControlledStops, TerminateControlled
<1> HIDE DEF stop, qs
<1>6. stop \in Ends /\ (stop.level = "supported" => HasRca)
  BY <1>3 DEF stop
<1>7. CASE requested = "llm" /\ HasRca /\ Formal
  <2>1. Finalize(qs, latest, FALSE)
    BY <1>5, <1>7
  <2>2. Concluded
    BY <1>1, <1>4, <1>7, <2>1, FinalizeConcludes
  <2> QED BY <1>1, <1>5, <2>2, EndKeeps
<1>8. CASE requested = "llm" /\ HasRca /\ ~Formal
  <2>1. Finish(WithoutCompetition(stop), qs)
    BY <1>5, <1>8
  <2>2. Stop("blocked", "inconclusive", "no_high_value_action") \in Ends
    BY DEF Stop, Ends, GoalStatuses, Levels, StopReasons
  <2>3. /\ WithoutCompetition(stop) \in Ends
        /\ WithoutCompetition(stop).level = "supported" => Authoritative.status = "supported"
    BY <1>6, <2>2 DEF WithoutCompetition, Stop
  <2>4. Concluded
    BY <1>1, <1>4, <1>8, <2>1, <2>3, FinishConcludes
  <2> QED BY <1>1, <1>5, <2>4, EndKeeps
<1>9. CASE ~(requested = "llm" /\ HasRca)
  <2>1. Finish(stop, qs)
    BY <1>5, <1>9
  <2>2. ~HasRca => ~Formal
    BY DEF Formal
  <2>3. Concluded
    BY <1>1, <1>4, <1>6, <1>9, <2>1, <2>2, FinishConcludes
  <2> QED BY <1>1, <1>5, <2>3, EndKeeps
<1> QED BY <1>7, <1>8, <1>9

-----------------------------------------------------------------------------
(* Each choice fits.                                                       *)

LEMMA FirstAskTyped == FirstAsk \in [output : 1..2, retried : BOOLEAN]
  BY DEF FirstAsk

LEMMA AskTyped ==
  ASSUME TypeOK
  PROVE  /\ [ask EXCEPT !.output = 2] \in [output : 1..2, retried : BOOLEAN]
         /\ [ask EXCEPT !.retried = TRUE] \in [output : 1..2, retried : BOOLEAN]
<1>1. ask \in [output : 1..2, retried : BOOLEAN]
  BY DEF TypeOK
<1>2. [ask EXCEPT !.output = 2] \in [output : 1..2, retried : BOOLEAN]
  BY <1>1
<1>3. [ask EXCEPT !.retried = TRUE] \in [output : 1..2, retried : BOOLEAN]
  BY <1>1
<1> QED BY <1>2, <1>3

LEMMA AskModelKeeps ==
  ASSUME IInv, AskModel
  PROVE  Preserves
<1>1. WritesTyped
  BY DEF IInv, TypeOK, AskModel, WritesTyped
<1> QED BY <1>1, WaitKeeps DEF AskModel, LlmTurn

LEMMA InvalidOutputKeeps ==
  ASSUME IInv, InvalidOutput
  PROVE  Preserves
<1>1. calls' \in Nat \cup {Unlimited}
  BY PaidTyped DEF IInv, InvalidOutput, Asking
<1>2. ask' \in [output : 1..2, retried : BOOLEAN]
  BY AskTyped, FirstAskTyped DEF IInv, InvalidOutput, FallBack
<1>3. chosen' \in Proposal /\ latest' \in Assessments
  BY DEF IInv, TypeOK, InvalidOutput, FallBack
<1>4. WritesTyped
  BY <1>1, <1>2, <1>3 DEF WritesTyped
<1> QED BY <1>4, WaitKeeps DEF InvalidOutput, Asking, FallBack

LEMMA CallFailsKeeps ==
  ASSUME IInv, CallFails
  PROVE  Preserves
<1>1. calls' \in Nat \cup {Unlimited}
  BY PaidTyped DEF IInv, CallFails, Asking
<1>2. ask' \in [output : 1..2, retried : BOOLEAN]
  BY AskTyped, FirstAskTyped DEF IInv, CallFails, FallBack
<1>3. chosen' \in Proposal /\ latest' \in Assessments
  BY DEF IInv, TypeOK, CallFails, FallBack
<1>4. WritesTyped
  BY <1>1, <1>2, <1>3 DEF WritesTyped
<1> QED BY <1>4, WaitKeeps DEF CallFails, Asking, FallBack

LEMMA ProposeFits ==
  ASSUME NEW k \in Kinds, NEW g \in Gaps \cup {NoGap}, NEW scope \in Scopes,
         NEW u \in AllUpdates, NEW news \in SUBSET Questions,
         Untried(k, g, scope), Earned(k, g), UpdatesFit(u),
         \A q \in news : questions[q] = "absent"
  PROVE  /\ Propose(k, g, scope, u, news) \in Proposal
         /\ ProposalFits(Propose(k, g, scope, u, news))
<1> DEFINE p == Propose(k, g, scope, u, news)
<1>1. p.kind = k /\ p.gap = g /\ p.scope = scope /\ p.updates = u /\ p.news = news
  BY DEF Propose
<1>2. p \in Proposal
  BY DEF Propose, Proposal, AllUpdates
<1> HIDE DEF p
<1>3. ProposalFits(p)
  BY <1>1 DEF ProposalFits
<1> QED BY <1>2, <1>3 DEF p

LEMMA PlannerActsKeeps ==
  ASSUME IInv, PlannerActs
  PROVE  Preserves
<1>1. TypeOK /\ pc = "decide" /\ latest \in Assessments
  BY DEF IInv, TypeOK, PlannerActs, LlmTurn
<1>2. CASE PythonActIsValid
  <2> DEFINE k == PythonAct.kind
             g == PythonAct.gap
             scope == PythonAct.scope
  <2>1. PICK l \in Kinds, f \in Gaps : LegalKinds = {l} /\ OptionGaps(l) = {f}
    BY DEF PlannerActs, PythonActs
  <2>2. PythonAct = [kind |-> l, gap |-> f, scope |-> Gap[f].scope,
                     targets |-> LegalTargets(l)]
    <3>1. (CHOOSE j \in LegalKinds : TRUE) = l
      BY <2>1
    <3>2. (CHOOSE j \in OptionGaps(l) : TRUE) = f
      BY <2>1
    <3> QED BY <3>1, <3>2 DEF PythonAct
  <2>3. k = l /\ g = f /\ scope = Gap[f].scope
    BY <2>2
  <2>4. scope \in Scopes
    BY <2>3, InvestigationAssumption DEF GapInfo
  <2>5. ValidAct(PythonAct)
    BY <1>2 DEF PythonActIsValid
  <2>6. Untried(k, g, scope) /\ Earned(k, g)
    BY <1>1, <2>5, ValidIsUntried, ValidIsEarned
  <2>7. Choose(Propose(k, g, scope, NoUpdates, {})) /\ calls' \in Nat \cup {Unlimited}
    BY <1>1, <1>2 DEF PlannerActs, TypeOK
  <2> HIDE DEF k, g, scope
  <2>8. /\ Propose(k, g, scope, NoUpdates, {}) \in Proposal
        /\ ProposalFits(Propose(k, g, scope, NoUpdates, {}))
    BY <2>3, <2>4, <2>6, NoUpdatesFit, ProposeFits
  <2> QED BY <1>1, <2>7, <2>8, ChoiceKeeps
<1>3. CASE ~PythonActIsValid
  <2>1. Fail("validation") /\ Kept /\ WritesTyped
    BY <1>1, <1>3, QuietWrites DEF PlannerActs
  <2>2. Concluded
    BY <1>1, <2>1, FailConcludes DEF FailureCauses
  <2> QED BY <1>1, <2>1, <2>2, EndKeeps
<1> QED BY <1>2, <1>3

LEMMA ModelActsKeeps ==
  ASSUME IInv, ModelActs
  PROVE  Preserves
<1>1. TypeOK /\ pc = "ask" /\ CanPay(1)
  BY DEF IInv, ModelActs, Asking
<1>2. calls' \in Nat \cup {Unlimited}
  BY <1>1, PaidTyped DEF ModelActs
<1>3. PICK k \in LegalKinds, g \in Gaps \cup {NoGap}, scope \in Scopes, targets \in SUBSET Open :
        LET p == Bind([kind |-> k, gap |-> g, scope |-> scope, targets |-> targets])
        IN /\ ValidAct(p)
           /\ \E updates \in UpdateSets, news \in NewQuestionSets :
                /\ DOMAIN updates \cap targets = {}
                /\ Choose(Propose(k, p.gap, p.scope, updates, news))
  BY Zenon DEF ModelActs
<1> DEFINE p == Bind([kind |-> k, gap |-> g, scope |-> scope, targets |-> targets])
<1>4. k \in Kinds
  BY DEF LegalKinds
<1>5. p.kind = k /\ p.gap \in Gaps \cup {NoGap} /\ p.scope \in Scopes
  BY <1>1, <1>4, BindTyped
<1>6. ValidAct(p)
  BY <1>3
<1>7. PICK u \in UpdateSets, news \in NewQuestionSets :
        Choose(Propose(k, p.gap, p.scope, u, news))
  BY <1>3
<1> HIDE DEF p
<1>8. Untried(k, p.gap, p.scope) /\ Earned(k, p.gap)
  BY <1>1, <1>5, <1>6, ValidIsUntried, ValidIsEarned
<1>9. news \in SUBSET Questions /\ \A q \in news : questions[q] = "absent"
  BY DEF NewQuestionSets
<1>10. UpdatesFit(u) /\ u \in AllUpdates
  BY ClaimedUpdatesFit
<1>11. /\ Propose(k, p.gap, p.scope, u, news) \in Proposal
       /\ ProposalFits(Propose(k, p.gap, p.scope, u, news))
  BY <1>4, <1>5, <1>8, <1>9, <1>10, ProposeFits
<1> QED BY <1>1, <1>2, <1>7, <1>11, ChoiceKeeps

(* The policy takes an action once, whoever took it: a first reasoning is  *)
(* within the rounds that need no discriminator.                           *)
LEMMA ControlledChoosesKeeps ==
  ASSUME IInv, ControlledChooses
  PROVE  Preserves
<1>1. TypeOK /\ pc = "decide" /\ Decision.act # "stop"
  BY DEF IInv, ControlledChooses, ControlledTurn
<1>2. Acts(Decision)
  BY <1>1, DecisionFits DEF IInv
<1>3. PICK k \in Kinds \ CompletedKinds : Decision = Act(k)
  BY <1>2 DEF Acts
<1>4. Decision.act = k
  BY <1>3 DEF Act
<1>5. Untried(k, NoGap, Anywhere)
  BY DEF Untried, CompletedKinds
<1>6. Earned(k, NoGap)
  <2>1. CASE k = "reasoning"
    <3>1. {i \in DOMAIN history : history[i].kind = "reasoning"} = {}
      BY <2>1 DEF CompletedKinds
    <3>2. Rounds = 0
      BY <3>1, FS_EmptySet DEF Rounds
    <3> QED BY <3>2 DEF Earned, UnconditionalRounds
  <2> QED BY <2>1 DEF Earned
<1>7. Anywhere \in Scopes
  BY DEF Scopes
<1>8. /\ Propose(k, NoGap, Anywhere, NoUpdates, {}) \in Proposal
      /\ ProposalFits(Propose(k, NoGap, Anywhere, NoUpdates, {}))
  BY <1>5, <1>6, <1>7, NoUpdatesFit, ProposeFits
<1>9. /\ Choose(Propose(k, NoGap, Anywhere, NoUpdates, {}))
      /\ calls' \in Nat \cup {Unlimited}
  BY <1>1, <1>4 DEF ControlledChooses, TypeOK
<1> QED BY <1>1, <1>8, <1>9, ChoiceKeeps
-----------------------------------------------------------------------------
(* What a record adds.                                                     *)

Appends(r) == r \in Record /\ history' = Append(history, r)

LEMMA AppendShape ==
  ASSUME TypeOK, NEW r, Appends(r)
  PROVE  /\ Len(history) \in Nat
         /\ DOMAIN history = 1 .. Len(history)
         /\ DOMAIN history' = DOMAIN history \cup {Len(history) + 1}
         /\ Len(history) + 1 \notin DOMAIN history
         /\ \A i \in DOMAIN history : history'[i] = history[i]
         /\ history'[Len(history) + 1] = r
         /\ history' \in Seq(Record)
  BY DEF Appends, TypeOK, InvestigationTypeOK

(* Evidence accumulates.                                                   *)
LEMMA EvidenceGrows ==
  ASSUME TypeOK, NEW r, Appends(r), NEW q \in Questions
  PROVE  /\ MissingGroups(q) = {} => MissingGroups(q)' = {}
         /\ UnavailableLink(q) => UnavailableLink(q)'
<1>1. \A i \in DOMAIN history : i \in DOMAIN history' /\ history'[i] = history[i]
  BY AppendShape
<1>2. SatisfiedGroups(q) \subseteq SatisfiedGroups(q)'
  BY <1>1 DEF SatisfiedGroups
<1>3. MissingGroups(q)' \subseteq MissingGroups(q)
  BY <1>2 DEF MissingGroups
<1>4. UnavailableLink(q) => UnavailableLink(q)'
  BY <1>1 DEF UnavailableLink
<1> QED BY <1>3, <1>4

LEMMA RoundsGrow ==
  ASSUME TypeOK, NEW r, Appends(r)
  PROVE  IF r.kind = "reasoning"
         THEN /\ Rounds' = Rounds + 1
              /\ Reasonings' = Reasonings \cup {Len(history) + 1}
         ELSE Rounds' = Rounds /\ Reasonings' = Reasonings
<1> DEFINE n == Len(history) + 1
<1>1. /\ DOMAIN history' = DOMAIN history \cup {n}
      /\ n \notin DOMAIN history
      /\ \A i \in DOMAIN history : history'[i] = history[i]
      /\ history'[n] = r
  BY AppendShape
<1>2. IsFiniteSet(Reasonings)
  <2>1. Len(history) \in Nat /\ Reasonings \subseteq 1 .. Len(history)
    BY AppendShape DEF Reasonings
  <2>2. IsFiniteSet(1 .. Len(history))
    BY <2>1, FS_Interval
  <2> QED BY <2>1, <2>2, FS_Subset
<1> HIDE DEF n
<1>3. CASE r.kind = "reasoning"
  <2>1. Reasonings' = Reasonings \cup {n}
    BY <1>1, <1>3 DEF Reasonings
  <2>2. n \notin Reasonings
    BY <1>1 DEF Reasonings
  <2>3. Cardinality(Reasonings \cup {n}) = Cardinality(Reasonings) + 1
    BY <1>2, <2>2, FS_AddElement
  <2>4. Rounds' = Cardinality(Reasonings')
    BY DEF Rounds, Reasonings
  <2>5. Rounds = Cardinality(Reasonings)
    BY DEF Rounds, Reasonings
  <2> QED BY <1>3, <2>1, <2>3, <2>4, <2>5 DEF n
<1>4. CASE r.kind # "reasoning"
  <2>1. Reasonings' = Reasonings
    BY <1>1, <1>4 DEF Reasonings
  <2>2. Rounds' = Cardinality(Reasonings') /\ Rounds = Cardinality(Reasonings)
    BY DEF Rounds, Reasonings
  <2> QED BY <1>4, <2>1, <2>2
<1> QED BY <1>3, <1>4

LEMMA RecordKeepsHistory ==
  ASSUME IInv, NEW r, Appends(r), Untried(r.kind, r.gap, r.scope), Earned(r.kind, r.gap)
  PROVE  NoReplay' /\ RoundsEarned'
<1> DEFINE n == Len(history) + 1
<1>1. /\ Len(history) \in Nat /\ DOMAIN history = 1 .. Len(history)
      /\ DOMAIN history' = DOMAIN history \cup {n}
      /\ n \notin DOMAIN history
      /\ \A i \in DOMAIN history : history'[i] = history[i]
      /\ history'[n] = r
  BY AppendShape DEF IInv
<1>2. /\ DOMAIN history' = DOMAIN history \cup {n}
      /\ n \notin DOMAIN history
      /\ \A i \in DOMAIN history : history'[i] = history[i] /\ i <= n
      /\ history'[n] = r
      /\ n \in Nat
  BY <1>1
<1>3. NoReplay'
  BY <1>2 DEF IInv, NoReplay, Untried
<1>4. Rounds \in Nat /\ Rounds <= 3
  BY RoundsTyped DEF IInv, RoundsEarned, MaxRounds
<1>5. CASE r.kind = "reasoning"
  <2>1. Rounds' = Rounds + 1 /\ Reasonings' = Reasonings \cup {n}
    BY <1>5, RoundsGrow DEF IInv
  <2>2. Rounds < 2 \/ (Rounds = 2 /\ r.gap \in Discriminators)
    BY <1>4, <1>5 DEF Earned, UnconditionalRounds
  <2>3. Rounds' <= 3
    BY <1>4, <2>1, <2>2
  <2>4. Rounds' = 3 => \A j \in Reasonings' : j <= n
    BY <1>2, <2>1 DEF Reasonings
  <2>5. Rounds' = 3 => r.gap \in Discriminators
    BY <1>4, <2>1, <2>2
  <2> QED BY <1>2, <1>3, <2>1, <2>3, <2>4, <2>5 DEF RoundsEarned, MaxRounds
<1>6. CASE r.kind # "reasoning"
  <2>1. Rounds' = Rounds /\ Reasonings' = Reasonings
    BY <1>6, RoundsGrow DEF IInv
  <2>2. \A i \in Reasonings : history'[i] = history[i]
    BY <1>2 DEF Reasonings
  <2> QED BY <1>3, <2>1, <2>2 DEF IInv, RoundsEarned
<1> QED BY <1>5, <1>6

LEMMA TheRecordTyped ==
  ASSUME TypeOK, NEW result \in Results
  PROVE  /\ TheRecord(result) \in Record
         /\ TheRecord(result).kind = chosen.kind
         /\ TheRecord(result).gap = chosen.gap
         /\ TheRecord(result).scope = chosen.scope
<1>1. /\ chosen.kind \in Kinds /\ chosen.gap \in Gaps \cup {NoGap} /\ chosen.scope \in Scopes
  BY DEF TypeOK, Proposal
<1>2. LinkedQuestions(chosen.kind, chosen.scope) \in SUBSET Questions
  BY DEF LinkedQuestions
<1> QED BY <1>1, <1>2 DEF TheRecord, Record

(* The findings go with the records: reasoning leaves one.                 *)
FindingRecorded ==
  /\ rcas' \in Seq(Finding)
  /\ HasRca \/ chosen.kind = "reasoning" => HasRca'

LEMMA FindingIsRecorded ==
  ASSUME TypeOK, \/ rcas' = rcas /\ chosen.kind # "reasoning"
                 \/ \E f \in RcaFindings : rcas' = Append(rcas, f)
  PROVE  FindingRecorded
<1>1. rcas \in Seq(Finding)
  BY DEF TypeOK, InvestigationTypeOK
<1>2. CASE rcas' = rcas /\ chosen.kind # "reasoning"
  BY <1>1, <1>2 DEF FindingRecorded, HasRca
<1>3. ASSUME NEW f \in RcaFindings, rcas' = Append(rcas, f)
      PROVE  FindingRecorded
  <2>1. f \in Finding
    BY ReactAssumption
  <2>2. rcas' \in Seq(Finding) /\ Len(rcas') = Len(rcas) + 1 /\ Len(rcas) \in Nat
    BY <1>1, <1>3, <2>1
  <2>3. rcas' # <<>>
    BY <2>2
  <2> QED BY <2>2, <2>3 DEF FindingRecorded, HasRca
<1> QED BY <1>2, <1>3

(* Questions after a record.                                               *)
LEMMA OutcomeFollows ==
  ASSUME IInv, pc = "act", RecordOutcome
  PROVE  /\ Follows(questions')
         /\ \A q \in Questions : questions'[q] \in Terminal /\ questions'[q] # questions[q]
              => Shown(q, questions'[q])
<1> DEFINE u == chosen.updates
           news == chosen.news
<1>1. /\ UpdatesFit(u)
      /\ \A q \in news : questions[q] = "absent"
  BY DEF IInv, ChosenFits, ProposalFits
<1>2. questions \in [Questions -> QuestionStatus]
  BY DEF IInv, TypeOK, InvestigationTypeOK
<1>3. questions' = [q \in Questions |-> IF q \in news THEN "open"
                                        ELSE IF q \in DOMAIN u THEN u[q] ELSE questions[q]]
  BY DEF RecordOutcome, With, Updated
<1> HIDE DEF u, news
<1>4. \A q \in DOMAIN u : questions[q] = "open" /\ u[q] \in Terminal /\ Shown(q, u[q])
  BY <1>1 DEF UpdatesFit, Open
<1>5. questions' \in [Questions -> QuestionStatus]
  BY <1>2, <1>3, <1>4 DEF QuestionStatus
<1>6. "open" \notin Terminal /\ "absent" \notin Terminal
  BY DEF Terminal
<1>7. ASSUME NEW q \in Questions, questions[q] \in Terminal
      PROVE  questions'[q] = questions[q]
  BY <1>1, <1>3, <1>4, <1>6, <1>7
<1>8. ASSUME NEW q \in Questions, questions'[q] # questions[q]
      PROVE  Shown(q, questions'[q])
  <2>1. CASE q \in news
    BY <1>3, <2>1 DEF Shown
  <2>2. CASE q \notin news
    BY <1>3, <1>4, <1>8, <2>2
  <2> QED BY <2>1, <2>2
<1> QED BY <1>5, <1>7, <1>8 DEF Follows

LEMMA RecordKeeps ==
  ASSUME IInv, pc = "act", NEW result \in Results, Recorded(result), FindingRecorded,
         Follows(questions'), spent' \in Nat, calls' \in Nat \cup {Unlimited},
         latest' \in Assessments
  PROVE  Preserves
<1> DEFINE r == TheRecord(result)
<1>1. /\ Appends(r) /\ r.kind = chosen.kind /\ r.gap = chosen.gap /\ r.scope = chosen.scope
  BY TheRecordTyped DEF IInv, Appends, Recorded
<1> HIDE DEF r
<1>2. pc' = "decide" /\ UNCHANGED <<goal, requested, mode, ask, end>> /\ chosen' = Idle
  BY DEF Recorded
<1>3. TypeOK'
  BY <1>1, <1>2, AppendShape, IdleTyped
     DEF IInv, TypeOK, InvestigationTypeOK, Follows, FindingRecorded
<1>4. NoReplay' /\ RoundsEarned'
  BY <1>1, RecordKeepsHistory DEF IInv, ChosenFits, ProposalFits
<1>5. ReasoningLeavesFinding'
  <2>1. "reasoning" \in CompletedKinds' =>
          "reasoning" \in CompletedKinds \/ chosen.kind = "reasoning"
    BY <1>1, AppendShape DEF IInv, CompletedKinds
  <2> QED BY <2>1 DEF IInv, ReasoningLeavesFinding, FindingRecorded
<1>6. ChosenFits' /\ SupportedIsAuthoritative' /\ VerdictFollowsContest'
  BY <1>2 DEF ChosenFits, SupportedIsAuthoritative, VerdictFollowsContest
<1>7. TerminalIsProven'
  <2> SUFFICES ASSUME mode = "llm", requested = "llm", NEW q \in Questions
               PROVE  /\ questions'[q] = "closed" => MissingGroups(q)' = {}
                      /\ questions'[q] = "unavailable" =>
                           q \in Unsupported \/ UnavailableLink(q)'
    BY <1>2 DEF TerminalIsProven
  <2>1. /\ questions'[q] = "closed" => MissingGroups(q) = {}
        /\ questions'[q] = "unavailable" => q \in Unsupported \/ UnavailableLink(q)
    <3>1. CASE questions'[q] = questions[q]
      BY <3>1 DEF IInv, TerminalIsProven
    <3>2. CASE questions'[q] # questions[q]
      BY <3>2 DEF Follows, Shown
    <3> QED BY <3>1, <3>2
  <2> QED BY <1>1, <2>1, EvidenceGrows DEF IInv
<1> QED BY <1>3, <1>4, <1>5, <1>6, <1>7 DEF IInv, Preserves, SettledStep, Follows

LEMMA SpecialistActsKeeps ==
  ASSUME IInv, SpecialistActs
  PROVE  Preserves
<1>1. PICK result \in Outcomes, tools \in SpecialistTools, n \in SpecialistCalls :
        CanPay(n) /\ spent' = spent + tools /\ calls' = Paid(n) /\ Recorded(result)
  BY DEF SpecialistActs
<1>2. result \in Results /\ tools \in Nat /\ n \in Nat /\ spent \in Nat
  BY ReactAssumption DEF IInv, TypeOK, InvestigationTypeOK
<1>3. spent' \in Nat /\ calls' \in Nat \cup {Unlimited}
  BY <1>1, <1>2, PaidTyped DEF IInv
<1>4. pc = "act" /\ FindingRecorded /\ RecordOutcome
  BY FindingIsRecorded DEF IInv, SpecialistActs, Executing
<1>5. latest' \in Assessments
  BY AssessedTyped DEF IInv, SpecialistActs, RecordOutcome
<1> QED BY <1>1, <1>2, <1>3, <1>4, <1>5, OutcomeFollows, RecordKeeps

LEMMA ReasoningActsKeeps ==
  ASSUME IInv, ReasoningActs
  PROVE  Preserves
<1>1. PICK finding \in RcaFindings, n \in ReasoningCalls :
        CanPay(n) /\ rcas' = Append(rcas, finding) /\ calls' = Paid(n) /\ Recorded("nothing")
  BY DEF ReasoningActs
<1>2. n \in Nat /\ spent' \in Nat
  BY ReactAssumption DEF IInv, TypeOK, InvestigationTypeOK, ReasoningActs
<1>3. calls' \in Nat \cup {Unlimited}
  BY <1>1, <1>2, PaidTyped DEF IInv
<1>4. pc = "act" /\ FindingRecorded /\ RecordOutcome
  BY <1>1, FindingIsRecorded DEF IInv, ReasoningActs, Executing
<1>5. latest' \in Assessments
  BY AssessedTyped DEF IInv, ReasoningActs, RecordOutcome
<1>6. "nothing" \in Results
  BY DEF Results
<1> QED BY <1>1, <1>2, <1>3, <1>4, <1>5, <1>6, OutcomeFollows, RecordKeeps

LEMMA CostTyped ==
  ASSUME NEW k \in Kinds
  PROVE  Cost(k) \in Nat
  BY DEF Cost, ToolCost, Kinds

LEMMA ControlledActsKeeps ==
  ASSUME IInv, ControlledActs
  PROVE  Preserves
<1>1. pc = "act" /\ chosen.kind \in Kinds
  BY DEF IInv, TypeOK, Proposal, ControlledActs, Executing
<1>2. spent' \in Nat /\ calls' \in Nat \cup {Unlimited} /\ latest' \in Assessments
  BY <1>1, CostTyped DEF IInv, TypeOK, InvestigationTypeOK, ControlledActs
<1>3. PICK result \in Results : Recorded(result)
  BY ReactAssumption DEF ControlledActs, Results
<1>4. FindingRecorded
  BY FindingIsRecorded DEF IInv, ControlledActs
<1>5. Follows(questions')
  BY QuestionsFollow DEF IInv, ControlledActs
<1> QED BY <1>1, <1>2, <1>3, <1>4, <1>5, RecordKeeps
-----------------------------------------------------------------------------
(* The theorems.                                                           *)

LEMMA InitHolds == Init => IInv
<1> SUFFICES ASSUME Init PROVE IInv
  OBVIOUS
<1>1. history = <<>> /\ rcas = <<>> /\ spent = 0
  BY DEF Init
<1>2. /\ requested \in {"llm", "controlled"} /\ mode = requested
      /\ goal \in Goal
      /\ calls \in Nat \cup {Unlimited}
      /\ latest \in Assessments
      /\ ask \in [output : 1..2, retried : BOOLEAN]
      /\ chosen \in Proposal
  BY ReactAssumption, IdleTyped, FirstAskTyped DEF Init, NothingAssessed, Assessments
<1>3. /\ questions \in [Questions -> QuestionStatus]
      /\ \A q \in Questions : /\ questions[q] # "closed"
                              /\ questions[q] = "unavailable" => q \in Unsupported
  BY DEF Init, QuestionStatus, Terminal
<1>4. /\ pc \in {"decide", "done"}
      /\ end \in Ends /\ end.level = "inconclusive"
  BY DEF Init, Unfinished, Stop, Ends, GoalStatuses, Levels, StopReasons
<1>5. <<>> \in Seq(Record) /\ <<>> \in Seq(Finding) /\ DOMAIN <<>> = {}
  OBVIOUS
<1>6. TypeOK
  BY <1>1, <1>2, <1>3, <1>4, <1>5 DEF TypeOK, InvestigationTypeOK
<1>7. Rounds = 0
  <2>1. {i \in DOMAIN history : history[i].kind = "reasoning"} = {}
    BY <1>1, <1>5
  <2> QED BY <2>1, FS_EmptySet DEF Rounds
<1>8. ReasoningLeavesFinding /\ NoReplay /\ RoundsEarned
  BY <1>1, <1>5, <1>7 DEF ReasoningLeavesFinding, CompletedKinds, NoReplay, RoundsEarned,
     MaxRounds
<1>9. ChosenFits /\ SupportedIsAuthoritative /\ VerdictFollowsContest
  BY <1>1, <1>4 DEF ChosenFits, SupportedIsAuthoritative, VerdictFollowsContest, Formal, HasRca
<1>10. TerminalIsProven
  BY <1>3 DEF TerminalIsProven
<1> QED BY <1>6, <1>8, <1>9, <1>10 DEF IInv

LEMMA StepKeeps ==
  ASSUME IInv, [Next]_vars
  PROVE  Preserves
<1>1. CASE Preflight
  BY <1>1, PreflightKeeps
<1>2. CASE PlannerStops
  BY <1>2, PlannerStopsKeeps
<1>3. CASE PlannerActs
  BY <1>3, PlannerActsKeeps
<1>4. CASE AskModel
  BY <1>4, AskModelKeeps
<1>5. CASE InvalidOutput
  BY <1>5, InvalidOutputKeeps
<1>6. CASE CallFails
  BY <1>6, CallFailsKeeps
<1>7. CASE OutOfCalls
  BY <1>7, OutOfCallsKeeps
<1>8. CASE GateStops
  BY <1>8, GateStopsKeeps
<1>9. CASE SpecialistActs
  BY <1>9, SpecialistActsKeeps
<1>10. CASE ReasoningActs
  BY <1>10, ReasoningActsKeeps
<1>11. CASE ControlledStops
  BY <1>11, ControlledStopsKeeps
<1>12. CASE ControlledChooses
  BY <1>12, ControlledChoosesKeeps
<1>13. CASE ControlledActs
  BY <1>13, ControlledActsKeeps
<1>14. CASE DispatchFails
  BY <1>14, DispatchFailsKeeps
<1>15. CASE ModelActs
  BY <1>15, ModelActsKeeps
<1>16. CASE ModelStops
  BY <1>16, ModelStopsKeeps
<1>17. CASE UNCHANGED vars
  <2>1. UNCHANGED <<goal, questions, history, rcas, spent, requested, mode, pc, ask, chosen,
                    latest, calls, end>>
    BY <1>17 DEF vars, investigation, loop
  <2>2. (TypeOK /\ ReasoningLeavesFinding /\ NoReplay /\ RoundsEarned)'
    BY <2>1 DEF IInv, TypeOK, InvestigationTypeOK, ReasoningLeavesFinding, CompletedKinds,
       HasRca, NoReplay, RoundsEarned, Rounds, Reasonings
  <2>3. ChosenFits'
    BY <2>1 DEF IInv, ChosenFits, ProposalFits, Untried, Earned, Rounds, UpdatesFit, Shown,
       MissingGroups, SatisfiedGroups, UnavailableLink, Open
  <2>4. (SupportedIsAuthoritative /\ VerdictFollowsContest /\ TerminalIsProven)'
    BY <2>1 DEF IInv, SupportedIsAuthoritative, VerdictFollowsContest, TerminalIsProven, Formal,
       HasRca, Authoritative, MissingGroups, SatisfiedGroups, UnavailableLink
  <2> QED BY <2>1, <2>2, <2>3, <2>4 DEF IInv, Preserves, SettledStep
<1> QED
  BY <1>1, <1>2, <1>3, <1>4, <1>5, <1>6, <1>7, <1>8, <1>9, <1>10, <1>11, <1>12, <1>13,
     <1>14, <1>15, <1>16, <1>17 DEF Next, Turn

(* The inductive invariant holds of every run of the loop, whichever       *)
(* planner decides.                                                        *)
THEOREM LoopInvariant == Spec => []IInv
<1>1. Init => IInv
  BY InitHolds
<1>2. IInv /\ [Next]_vars => IInv'
  BY StepKeeps DEF Preserves
<1> QED BY <1>1, <1>2, PTL DEF Spec

(* RCAState and the loop's own state stay well typed.                      *)
THEOREM LoopTypeCorrect == Spec => []TypeOK
<1>1. IInv => TypeOK
  BY DEF IInv
<1> QED BY <1>1, LoopInvariant, PTL

(* No action is executed twice for one gap and scope: not by the model's   *)
(* planner, not by the policy, and not by the policy after the fallback    *)
(* (the deduplication keys of NextActionPlanner, completed_actions of the  *)
(* policy).                                                                *)
THEOREM ActionsRunOnce == Spec => []NoReplay
<1>1. IInv => NoReplay
  BY DEF IInv
<1> QED BY <1>1, LoopInvariant, PTL

(* RCA reasoning runs three times at most, the third for a discriminator,  *)
(* whichever planner asks for it (_reasoning_round_is_allowed).            *)
THEOREM ReasoningIsBounded == Spec => []RoundsEarned
<1>1. IInv => RoundsEarned
  BY DEF IInv
<1> QED BY <1>1, LoopInvariant, PTL

(* "supported" is published only on a supported finding, from each of the  *)
(* places that end a run in which the model's planner was asked for        *)
(* (gate_planner_conclusion_level and finalize_investigation).             *)
THEOREM SupportedHasFinding == Spec => []SupportedIsAuthoritative
<1>1. IInv => SupportedIsAuthoritative
  BY DEF IInv
<1> QED BY <1>1, LoopInvariant, PTL

(* The goal counts as satisfied exactly if the competition confirmed its   *)
(* candidate (progress_competition), whoever stopped the loop and why.     *)
THEOREM VerdictIsTheContests == Spec => []VerdictFollowsContest
<1>1. IInv => VerdictFollowsContest
  BY DEF IInv
<1> QED BY <1>1, LoopInvariant, PTL

(* While the model plans, a question is settled on evidence only: its      *)
(* claims are reviewed (review_question_updates) before they are applied,  *)
(* and what they were reviewed on stays in the history.                    *)
THEOREM SettlingIsProven == Spec => []TerminalIsProven
<1>1. IInv => TerminalIsProven
  BY DEF IInv
<1> QED BY <1>1, LoopInvariant, PTL

(* A settled question is never touched again: a proposal executed a step   *)
(* after it was validated still finds its questions open and its new ones  *)
(* unused.                                                                 *)
THEOREM SettledStays == Spec => SettledOnce
<1>1. IInv /\ [Next]_vars =>
        [\A q \in Questions : questions[q] \in Terminal => questions'[q] = questions[q]]_vars
  BY StepKeeps DEF Preserves, SettledStep
<1> QED BY <1>1, LoopInvariant, PTL DEF Spec, SettledOnce
=============================================================================
