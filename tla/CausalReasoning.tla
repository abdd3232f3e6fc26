-------------------------- MODULE CausalReasoning --------------------------
(***************************************************************************)
(* Rounds of RCA reasoning in the model's mode: rca_reasoning_agent.py over*)
(* hypothesis_candidate_generator.py and causal_adversarial.py, and what   *)
(* supervisor.py makes of their finding and of MES discoveries.            *)
(*                                                                         *)
(* The provider answers anything.  A round makes its calls one after the   *)
(* other, and every optional call is weighed against those that must still *)
(* follow, so each call is a step.  Which lanes are found, which facts are *)
(* known of them and which evidence confirms a candidate is chosen freely; *)
(* when the planner may ask for another round is module ReactLoop's matter.*)
(***************************************************************************)
EXTENDS LaneChallenge

CONSTANTS CallLimit,       \* model calls of the investigation
          MaxChallenges    \* bound: challenges in one answer

ASSUME CallsAssumption == CallLimit \in Nat /\ MaxChallenges \in Nat

VARIABLES lanes,     \* state.causal_lanes
          trace,     \* state.competition_trace, of which the lanes and verdicts
          finding,   \* what the last round of reasoning concluded
          round,     \* the round in progress
          calls      \* model calls left

vars == <<lanes, trace, finding, round, calls>>

Contests == {"not_evaluated", "not_required", "pending", "active", "resolved", "failed"}

Nothing == [l \in {} |-> "unresolved"]

NoTrace == [active |-> {}, overflow |-> {}, unresolved |-> {}, eliminated |-> {},
            resolutions |-> Nothing, search |-> "not_searched",
            contest |-> "not_evaluated"]

NoFinding == [candidates |-> 0, contest |-> "not_evaluated", search |-> "not_searched",
              resolved |-> {}, supported |-> FALSE]

Between == [pc |-> "between", attempt |-> 1, requirement |-> "not_required",
            candidates |-> 0, contest |-> "not_evaluated"]

OutputAttempts == 2
MinReasoningCalls == 3

TypeOK ==
  /\ DOMAIN lanes \subseteq Lanes
  /\ \A l \in DOMAIN lanes : lanes[l] \in Lane
  /\ round \in [pc : {"between", "generate", "compare", "challenge", "ended"},
                attempt : 1..OutputAttempts, requirement : Requirements,
                candidates : 0..2, contest : Contests]
  /\ calls \in 0..CallLimit

Init ==
  /\ lanes = [l \in {} |-> {}]
  /\ trace = NoTrace
  /\ finding = NoFinding
  /\ round = Between
  /\ calls = CallLimit

-----------------------------------------------------------------------------
(* Calls.                                                                  *)

Spend == calls > 0 /\ calls' = calls - 1

(* llm_call_budget_available(required_calls=1, reserve_calls=reserve).     *)
Affordable(left, reserve) == left >= 1 + reserve

(* Whoever spends calls in a round leaves one for the planner's next turn. *)
PlannerReserve == 1

Retry == round' = [round EXCEPT !.attempt = 2]

-----------------------------------------------------------------------------
(* Discoveries.                                                            *)

(* The preflight check leaves the planner a call to decide with; it makes  *)
(* none if Python selects the only legal action.                           *)
Planned ==
  /\ round.pc = "between"
  /\ calls > 1
  /\ (Spend \/ UNCHANGED calls)

(* Mutant: results of earlier rounds survive a discovery.                  *)
TraceOfKeeping(inv) ==
  [trace EXCEPT !.active = ActiveLanes(inv), !.overflow = Searchable(inv) \ ActiveLanes(inv),
                !.eliminated = Eliminated(inv), !.unresolved = {}, !.search = "not_searched"]

TraceOf(inv) ==
  [NoTrace EXCEPT !.active = ActiveLanes(inv), !.overflow = Searchable(inv) \ ActiveLanes(inv),
                  !.eliminated = Eliminated(inv), !.contest = trace.contest]

(* The planner asks MES, and _update_causal_lane_state files what it found.*)
Discover(q) ==
  /\ Planned
  /\ LET inv == Reconciled(lanes, q)
     IN  lanes' = Snapshot(inv, ActiveLanes(inv)) /\ trace' = TraceOf(inv)
  /\ UNCHANGED <<finding, round>>

-----------------------------------------------------------------------------
(* The end of a round.                                                     *)

(* The last corrections of analyze to the state of the competition.        *)
Settled(contest, search) ==
  IF contest = "active" /\ search = "alternatives_eliminated" THEN "resolved"
  ELSE IF /\ contest = "pending"
          /\ round.requirement = "alternative_discovery_required"
          /\ search \in {"alternative_found", "unresolved"}
  THEN "active"
  ELSE contest

(* Results of earlier rounds stay for the lanes this one did not search.   *)
Merge(new, old) ==
  [l \in DOMAIN new \cup DOMAIN old |-> IF l \in DOMAIN new THEN new[l] ELSE old[l]]

(* What the round left undecided, for the planner.                         *)
Undecided(search, resolutions) ==
  IF search = "alternatives_eliminated" THEN {}
  ELSE {l \in DOMAIN resolutions :
          resolutions[l] \in {"retained", "unresolved", "non_discriminative"}}

(* _update_competition_state.  No priority changes: the lanes of the next  *)
(* round are chosen by those of this one.  Without results the challenges  *)
(* name no lane.                                                           *)
Persist(verdict, contest) ==
  LET own    == IF verdict.resolutions # Nothing THEN verdict.resolutions
                ELSE LaneResolutions({}, ActiveLanes(lanes), Eliminated(lanes))
      merged == Merge(own, trace.resolutions)
      inv    == Challenged(Retired(lanes, {l \in DOMAIN merged : merged[l] = "eliminated"}),
                           verdict.named)
      after  == Diverse(lanes, Searchable(inv))
      search == SearchStatus(verdict, merged)
  IN  /\ lanes' = Snapshot(inv, after)
      /\ trace' =
           [active |-> after, overflow |-> Searchable(inv) \ after,
            eliminated |-> Eliminated(inv), resolutions |-> merged, search |-> search,
            unresolved |-> Undecided(search, merged),
            contest |-> contest]

(* What analyze reports, and what the supervisor keeps of it.  The strict  *)
(* confirmation gate asks for much evidence (sufficient); of the           *)
(* competition it asks that the alternatives are eliminated.               *)
Conclude(n, verdict, found, contest) ==
  LET final  == Settled(contest, found)
      search == IF final = "failed" THEN "unresolved" ELSE found
  IN  /\ \E sufficient \in BOOLEAN :
           finding' = [candidates |-> n, contest |-> final, search |-> search,
                       resolved |-> verdict.resolvedAway,
                       supported |-> /\ sufficient /\ n > 0
                                     /\ search = "alternatives_eliminated"]
      /\ IF final = "not_evaluated" THEN UNCHANGED <<lanes, trace>>
         ELSE Persist(verdict, final)
      /\ round' = Between

(* Neither candidates nor lanes: nothing was challenged.                   *)
Unchallenged == Verdict({}, {}, {})

(* A search whose challenges failed or were not asked for.                 *)
Unanswered == Verdict({}, ActiveLanes(lanes), {})

-----------------------------------------------------------------------------
(* The start of a round, and the end of an investigation.                  *)

(* _rca_reasoning_round_budget_available, after the planner's own call.    *)
RoundCovered == calls' >= MinReasoningCalls

StartRound ==
  /\ Planned
  /\ RoundCovered
  /\ \E ready \in SUBSET ActiveLanes(lanes) :
       round' = [Between EXCEPT !.pc = "generate",
                                !.requirement = Requirement(lanes, ready)]
  /\ UNCHANGED <<lanes, trace, finding>>

(* The planner stops, act_gate refuses a round, or the preflight check     *)
(* stops before the planner is asked.                                      *)
Stop ==
  /\ Planned \/ (round.pc = "between" /\ UNCHANGED calls)
  /\ round' = [round EXCEPT !.pc = "ended"]
  /\ UNCHANGED <<lanes, trace, finding>>

-----------------------------------------------------------------------------
(* Candidate generation, at most two attempts.                             *)

CandidatesFailed == Conclude(0, Unchallenged, "not_searched", "failed")

(* Without typed evidence nothing is asked; the lanes are typed evidence.  *)
GenerateNothing ==
  /\ round.pc = "generate" /\ round.attempt = 1
  /\ DOMAIN lanes = {}
  /\ Conclude(0, Unchallenged, "not_searched", "not_evaluated")
  /\ UNCHANGED calls

(* The prompt exceeds its limit, or the client rejects the output: the next*)
(* attempt is made without a look at the budget.                           *)
GenerateRejected ==
  /\ round.pc = "generate"
  /\ Spend \/ UNCHANGED calls
  /\ IF round.attempt < OutputAttempts
     THEN Retry /\ UNCHANGED <<lanes, trace, finding>>
     ELSE CandidatesFailed

GenerateProviderFails ==
  /\ round.pc = "generate"
  /\ Spend
  /\ CandidatesFailed

(* Malformed output, or not one valid candidate in it.                     *)
GenerateInvalid ==
  /\ round.pc = "generate"
  /\ Spend
  /\ IF round.attempt < OutputAttempts /\ Affordable(calls', PlannerReserve)
     THEN Retry /\ UNCHANGED <<lanes, trace, finding>>
     ELSE CandidatesFailed

(* _candidate_competition_assessment; rival: the two candidates differ in  *)
(* what the requirement is about.  Its branches for scope_required and     *)
(* mixed_required are dead: no brief asks for either (see Requirement).    *)
Assessed(n, rival) ==
  CASE round.requirement = "not_required" -> "not_required"
    [] round.requirement = "alternative_discovery_required" -> "pending"
    [] round.requirement \in {"direction_required", "mechanism_required"}
         -> IF n = 2 /\ rival THEN "active" ELSE "pending"

Gap(n, rival) ==
  /\ round.requirement \in {"direction_required", "mechanism_required"}
  /\ Assessed(n, rival) = "pending"

(* Candidates that miss a rival, contradict themselves, or do not use what *)
(* a targeted investigation of an earlier candidate found.                 *)
RepairWanted(n, rival, coherent, answered) == Gap(n, rival) \/ ~coherent \/ ~answered

(* A first attempt is sent back if calls remain: for candidates that do not*)
(* cite what they rest on, and optionally for a better competition.        *)
SentBack(closed, wanted) ==
  LET challengeReserve == IF ActiveLanes(lanes) = {} THEN 0 ELSE 1
  IN  /\ round.attempt < OutputAttempts
      /\ \/ ~closed /\ Affordable(calls', PlannerReserve)
         \/ wanted /\ Affordable(calls', PlannerReserve + challengeReserve)

(* The contest of candidates that are not sent back: without the calls for *)
(* a repair that was wanted, it stays open.                                *)
ContestOf(n, rival, coherent, answered) ==
  IF round.attempt < OutputAttempts /\ RepairWanted(n, rival, coherent, answered)
  THEN IF round.requirement = "not_required" THEN "not_required" ELSE "pending"
  ELSE IF ~answered THEN "pending"
  ELSE Assessed(n, rival)

GenerateValid ==
  /\ round.pc = "generate"
  /\ Spend
  /\ \E n \in 0..2, rival, closed, coherent, answered \in BOOLEAN :
       /\ n = 0 => closed /\ coherent
       /\ ~answered => finding.candidates > 0
       /\ rival => n = 2
       /\ IF SentBack(closed, RepairWanted(n, rival, coherent, answered))
          THEN Retry /\ UNCHANGED <<lanes, trace, finding>>
          ELSE LET contest == ContestOf(n, rival, coherent, answered)
               IN  IF n = 0
                   THEN Conclude(0, Unchallenged, "not_searched", contest)
                   ELSE /\ round' = [round EXCEPT !.pc = "compare", !.attempt = 1,
                                                  !.candidates = n, !.contest = contest]
                        /\ UNCHANGED <<lanes, trace, finding>>

-----------------------------------------------------------------------------
(* Mutant: the comparison leaves a call for the challenge only.            *)
ComparisonAffordableBarely ==
  Affordable(calls, IF DOMAIN lanes = {} THEN 0 ELSE 1)

ComparisonAffordable ==
  Affordable(calls, PlannerReserve + IF DOMAIN lanes = {} THEN 0 ELSE 1)

NothingToCompare == [lane |-> NoLane, status |-> "resolved", precursor |-> FALSE]

(* Two candidates are compared if the calls allow; an error in the         *)
(* comparison is noted and forgotten.  Without any lane the round ends.    *)
Compare ==
  /\ round.pc = "compare"
  /\ IF round.candidates = 2 /\ ComparisonAffordable THEN Spend ELSE UNCHANGED calls
  /\ IF DOMAIN lanes = {}
     THEN Conclude(round.candidates, Verdict({NothingToCompare}, {}, {}),
                   "alternatives_eliminated", round.contest)
     ELSE round' = [round EXCEPT !.pc = "challenge"] /\ UNCHANGED <<lanes, trace, finding>>

-----------------------------------------------------------------------------
(* Adversarial challenge, at most two attempts.                            *)

ChallengeFailed(contest) ==
  Conclude(round.candidates, Unanswered, "unresolved", contest)

ChallengeDeferred ==
  /\ round.pc = "challenge" /\ round.attempt = 1
  /\ ~Affordable(calls, PlannerReserve)
  /\ ChallengeFailed(round.contest)
  /\ UNCHANGED calls

Challengeable ==
  round.pc = "challenge" /\ (round.attempt = 1 => Affordable(calls, PlannerReserve))

ChallengeTooLong ==
  /\ Challengeable
  /\ ChallengeFailed("failed")
  /\ UNCHANGED calls

ChallengeProviderFails ==
  /\ Challengeable
  /\ Spend
  /\ ChallengeFailed(round.contest)

(* An answer is invalid for good only after the second attempt.            *)
ChallengeInvalid ==
  /\ Challengeable
  /\ Spend
  /\ IF round.attempt < OutputAttempts /\ Affordable(calls', PlannerReserve)
     THEN Retry /\ UNCHANGED <<lanes, trace, finding>>
     ELSE ChallengeFailed(IF round.attempt < OutputAttempts THEN round.contest ELSE "failed")

(* What one answer may hold.                                               *)
Answers == {{}} \cup {{answer[i] : i \in 1..MaxChallenges} :
                        answer \in [1..MaxChallenges -> Challenge]}

ChallengeAnswered ==
  /\ Challengeable
  /\ Spend
  /\ LET active == ActiveLanes(lanes)
         valid  == ValidChallenges(active, round.candidates, round.requirement)
     IN  \E verdict \in {Verdict(cs, active, {}) : cs \in {a \in Answers : a \subseteq valid}} :
           Conclude(round.candidates, verdict, SearchStatus(verdict, verdict.resolutions),
                    round.contest)

-----------------------------------------------------------------------------
RoundStep ==
  \/ GenerateNothing \/ GenerateRejected \/ GenerateProviderFails
  \/ GenerateInvalid \/ GenerateValid
  \/ Compare
  \/ ChallengeDeferred \/ ChallengeTooLong \/ ChallengeProviderFails
  \/ ChallengeInvalid \/ ChallengeAnswered

Next ==
  \/ \E q \in Queries : Discover(q)
  \/ StartRound \/ RoundStep \/ Stop

Spec == Init /\ [][Next]_vars

-----------------------------------------------------------------------------
(* Properties.                                                             *)

(* The trace tells the truth about the inventory: every lane that may still*)
(* be searched is either worked on or waits, none that was eliminated is,  *)
(* the life of each lane agrees, and a lane has an eliminating result only *)
(* while it is eliminated.  Otherwise CompetitionTrace's own validation    *)
(* ends the investigation with an exception, or a lane is lost.            *)
InventoryAgrees ==
  /\ trace.eliminated = Eliminated(lanes)
  /\ trace.active \cup trace.overflow = Searchable(lanes)
  /\ trace.active \cap trace.overflow = {}
  /\ trace.unresolved \cap trace.eliminated = {}
  /\ \A l \in DOMAIN lanes :
       /\ lanes[l].investigation = "eliminated" <=> lanes[l].lifecycle = "eliminated"
       /\ lanes[l].lifecycle = "active" => l \in trace.active
       /\ lanes[l].lifecycle = "deferred" => l \in trace.overflow
  /\ \A l \in DOMAIN trace.resolutions :
       trace.resolutions[l] = "eliminated" <=> l \in trace.eliminated

(* A lane is eliminated only by the round whose challenges named it and    *)
(* were all resolved: never by a result of an earlier round, which new     *)
(* evidence may have overtaken.                                            *)
EliminatedByChallenge ==
  [][Eliminated(lanes') \ Eliminated(lanes) \subseteq finding'.resolved]_vars

(* An eliminated lane comes back only with evidence it did not have.       *)
ReopenedByEvidence ==
  [][\A l \in Eliminated(lanes) \ Eliminated(lanes') :
       lanes'[l].evidence # lanes[l].evidence]_vars

(* Whatever a round spends on repairs and comparisons, the planner can     *)
(* still be asked once when it ends: the purpose of every reserve_calls.   *)
PlannerCallKept ==
  [][round.pc \in {"generate", "compare", "challenge"} => calls' > 0]_vars
=============================================================================
