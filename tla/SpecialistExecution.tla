------------------------ MODULE SpecialistExecution ------------------------
(***************************************************************************)
(* How an action of an investigation is executed.  The supervisor binds it *)
(* to lots and to a process scope from the latest findings and dispatches  *)
(* it (supervisor.py); in llm mode the Specialist V2 executor then runs at *)
(* most two tools of the domain, some of them chosen by the model          *)
(* (specialist_v2.py), in controlled mode the agents run theirs            *)
(* (specialist_agents.py).  The finding's evidence is merged with the      *)
(* job's and the lanes it discovered with the inventory.                   *)
(*                                                                         *)
(* ReactLoop models who proposes actions and why: here any action that     *)
(* passes the planner's validation may come next.  RCA reasoning runs no   *)
(* tool and is left out; its gaps may be bound once there are findings to  *)
(* reason about.  Every exception fails the job.                           *)
(***************************************************************************)
EXTENDS FabTools, Integers, Sequences, FiniteSets, SequencesExt

CONSTANTS Jobs,      \* the jobs that may be given
          Gaps,      \* gaps that RCA reasoning may report, each with
          GapKind,   \*   the action it is bound to and
          GapLane,   \*   the lane it is about, or NoLane
          NoGap,
          Guesses,   \* lanes the model may name before they are known
          MaxTools,  \* max_tool_calls of the goal
          MaxActions \* bound: actions of one investigation

VARIABLES job,       \* what was asked, and what the fab's data allow
          mode,      \* "llm" or "controlled"
          done,      \* actions that were executed
          spent,     \* tool runs (tool_latencies), failed ones included
          inventory, \* causal_lanes: lane |-> its exposed lots
          finding,   \* agent |-> what its latest finding says
          evidence,  \* evidence of the job
          turn,      \* the action being executed
          pc,        \* "decide", "run", "basic" or "failed"
          cause      \* why the job failed

vars == <<job, mode, done, spent, inventory, finding, evidence, turn, pc, cause>>

Kinds == {"exposure", "fdc", "defect", "shared", "historical"}
Specialists == {"MES", "FDC", "DEFECT_WAT"}
Agents == Specialists \cup {"KNOWLEDGE"}

AgentOf == [exposure |-> "MES", fdc |-> "FDC", defect |-> "DEFECT_WAT",
            shared |-> "DEFECT_WAT", historical |-> "KNOWLEDGE"]

(* lot: driven by a lot, else by a product window with its failing lots;   *)
(* advanced: the advanced SPC tool is configured; measures: the SPC tools  *)
(* that can analyse a parameter, by lane.                                  *)
Job == [lot : BOOLEAN, failing : SUBSET Lots, advanced : BOOLEAN,
        measures : [Lanes -> SUBSET {"basic", "advanced"}]]

Action == [kind : Kinds, lane : Lanes \cup {NoLane}, gap : Gaps \cup {NoGap}]

ASSUME SpecialistAssumption ==
  /\ Jobs \subseteq Job
  /\ GapKind \in [Gaps -> Kinds]
  /\ GapLane \in [Gaps -> Lanes \cup {NoLane}]
  /\ NoGap \notin Gaps /\ Guesses \subseteq Lanes
  /\ MaxTools \in Nat /\ MaxActions \in Nat
  /\ IsFiniteSet(Lanes)
  /\ \A j \in Jobs : ~j.lot /\ j.failing # {} => j.failing \cap Through[Home] # {}

-----------------------------------------------------------------------------
Tools == FdcTools \cup {"context", "impact", "affected", "genealogy", "quality", "cases"}

(* The action, the lots and the place it is bound to, how many tools it may*)
(* run, the tools that ran, and whether the basic SPC analysis superseded  *)
(* the advanced one among them.                                            *)
Idle == [act |-> [kind |-> "exposure", lane |-> NoLane, gap |-> NoGap],
         lots |-> {}, at |-> NoLane, budget |-> 0, ran |-> <<>>, superseded |-> FALSE]

Turn == [act : Action, lots : SUBSET Lots, at : Lanes \cup {NoLane}, budget : Nat,
         ran : Seq(Tools), superseded : BOOLEAN]

(* Lots by lane, for some of the lanes.                                    *)
Inventories == UNION {[s -> SUBSET Lots] : s \in SUBSET Lanes}

Finding == [lots : SUBSET Lots, at : Lanes \cup {NoLane}, lanes : Inventories]

(* Type invariant of the job's state and of the executor's frame.          *)
TypeOK ==
  /\ job \in Jobs /\ mode \in {"llm", "controlled"}
  /\ done \subseteq Action /\ spent \in Nat
  /\ inventory \in Inventories
  /\ DOMAIN finding \subseteq Agents
  /\ finding \in [DOMAIN finding -> Finding]
  /\ evidence \subseteq Observation
  /\ turn \in Turn
  /\ pc \in {"decide", "run", "basic", "failed"}
  /\ cause \in {"none", "scope", "tool", "identity", "no fallback", "conflict"}

Init ==
  /\ job \in Jobs /\ mode \in {"llm", "controlled"}
  /\ done = {} /\ spent = 0 /\ inventory = <<>> /\ finding = <<>> /\ evidence = {}
  /\ turn = Idle /\ pc = "decide" /\ cause = "none"

Fail(why) == pc' = "failed" /\ cause' = why

-----------------------------------------------------------------------------
(* What may be dispatched.                                                 *)

ToolsLeft == MaxTools - spent
Known == DOMAIN inventory
Found(agents) == agents \subseteq DOMAIN finding

Needs == [exposure |-> {}, shared |-> {"MES"}, fdc |-> {"MES"},
          defect |-> IF job.lot THEN {} ELSE {"MES"}, historical |-> Specialists]

(* A gap about no lane in particular is not legal once there are several.  *)
Bound(a) ==
  /\ a.kind = GapKind[a.gap]
  /\ IF GapLane[a.gap] = NoLane THEN Cardinality(Known) < 2 ELSE a.lane = GapLane[a.gap]
  /\ Found(Specialists)

(* _validate_act: an action is executed once for a lane and a gap; with    *)
(* more than one lane known one of them is named, else the model may guess;*)
(* a query for exposure is not repeated but for a gap.                     *)
Valid(a) ==
  /\ a \notin done
  /\ Found(Needs[a.kind])
  /\ a.lane \in Known \/ (Cardinality(Known) < 2 /\ a.lane \in Guesses \cup {NoLane})
  /\ IF a.gap # NoGap THEN Bound(a)
     ELSE a.kind = "exposure" => \A b \in done : b.kind # "exposure"

(* A query that names a lane is bound to its place only if the gap was.    *)
QueryLane(a) == IF a.gap # NoGap /\ GapLane[a.gap] # NoLane THEN a.lane ELSE NoLane

(* _selected_lane: looked up in the latest MES finding, which carries the  *)
(* inventory (_persist_authoritative_lane_inventory).                      *)
Selected(a) == a.lane \in DOMAIN finding["MES"].lanes

SourceLots == IF job.lot THEN {Source} ELSE {}

(* The lots of the selected lane, or else what MES found.                  *)
MesLots(a) ==
  SourceLots \cup (IF Selected(a) THEN finding["MES"].lanes[a.lane] ELSE finding["MES"].lots)

ScopeLots(a) ==
  CASE a.kind = "exposure" -> {}
    [] a.kind = "defect"   -> IF job.lot THEN {Source} ELSE MesLots(a)
    [] a.kind \in {"shared", "fdc"} -> MesLots(a)
    [] a.kind = "historical" -> finding["DEFECT_WAT"].lots

(* The place: that of the selected lane, or else of the MES query.  The    *)
(* knowledge query takes over an operation only from a bound gap.          *)
ScopeAt(a) ==
  CASE a.kind = "exposure" -> QueryLane(a)
    [] a.kind = "fdc" -> IF Selected(a) THEN a.lane ELSE finding["MES"].at
    [] a.kind = "historical" ->
         IF QueryLane(a) # NoLane THEN a.lane ELSE finding["MES"].at
    [] a.kind \in {"defect", "shared"} -> NoLane

(* What the dispatch and the candidates of a domain insist on: lots, and   *)
(* for FDC a place.  A product window without failing lots has neither.    *)
HasScope(a) ==
  /\ a.kind \in {"defect", "shared", "fdc"} => ScopeLots(a) # {}
  /\ a.kind = "fdc" => ScopeAt(a) # NoLane

(* Mutant: two tools for every action, whatever is left.                   *)
TwoTools == 2

(* min(2, remaining_tool_calls).                                           *)
LocalBudget == IF ToolsLeft < 2 THEN ToolsLeft ELSE 2

(* _dispatch_llm_react.                                                    *)
Dispatch ==
  /\ mode = "llm" /\ pc = "decide" /\ ToolsLeft > 0
  /\ Cardinality(done) < MaxActions
  /\ \E a \in Action :
       /\ Valid(a)
       /\ IF HasScope(a)
          THEN /\ turn' = [Idle EXCEPT !.act = a, !.lots = ScopeLots(a),
                                       !.at = ScopeAt(a), !.budget = LocalBudget]
               /\ pc' = "run" /\ UNCHANGED cause
          ELSE Fail("scope") /\ UNCHANGED turn
  /\ UNCHANGED <<job, mode, done, spent, inventory, finding, evidence>>

-----------------------------------------------------------------------------
(* The executor's loop.                                                    *)

Ran(tool) == Contains(turn.ran, tool)

(* Positions of the tools whose results count.                             *)
Effective ==
  {i \in DOMAIN turn.ran : ~(turn.superseded /\ turn.ran[i] = "advanced")}

Left == turn.budget - Len(turn.ran)

(* Mutant: the advanced analysis is offered without room for the basic one.*)
SpcAlways ==
  IF Ran("basic") \/ Ran("advanced") THEN {}
  ELSE {"basic"} \cup (IF job.advanced THEN {"advanced"} ELSE {})

(* One SPC analysis; the advanced one if the basic one fits after it.      *)
Spc ==
  IF Ran("basic") \/ Ran("advanced") THEN {}
  ELSE {"basic"} \cup (IF Left >= 2 /\ job.advanced THEN {"advanced"} ELSE {})

(* _candidates.                                                            *)
Candidates ==
  CASE turn.act.kind = "exposure" /\ job.lot ->
         IF ~Ran("context") THEN {"context"} ELSE {"impact"} \ ToSet(turn.ran)
    [] turn.act.kind = "exposure" /\ ~job.lot ->
         IF ~Ran("affected") THEN {"affected"}
         ELSE IF job.failing = {} THEN {} ELSE {"genealogy"} \ ToSet(turn.ran)
    [] turn.act.kind = "fdc" -> ({"shift", "ooc"} \ ToSet(turn.ran)) \cup Spc
    [] turn.act.kind \in {"defect", "shared"} -> {"quality"} \ ToSet(turn.ran)
    [] turn.act.kind = "historical" -> {"cases"} \ ToSet(turn.ran)

(* Only the evidence of exposure is of more than one place.                *)
Raises(tool) ==
  \/ tool = "impact" /\ ~ImpactRuns(turn.at)
  \/ tool = "genealogy" /\ ~GenealogyRuns(turn.at, job.failing)

FindsNothing(tool) == tool = "advanced" /\ "advanced" \notin job.measures[turn.at]

(* _execute_candidate; any tool may raise.                                 *)
Execute(tool, superseding) ==
  /\ spent' = spent + 1
  /\ \/ Fail("tool") /\ UNCHANGED turn
     \/ Raises(tool) /\ Fail("identity") /\ UNCHANGED turn
     \/ /\ ~Raises(tool)
        /\ turn' = [turn EXCEPT !.ran = Append(@, tool), !.superseded = superseding]
        /\ IF ~FindsNothing(tool) THEN pc' = "run" /\ UNCHANGED cause
           ELSE IF Left > 1 THEN pc' = "basic" /\ UNCHANGED cause
           ELSE Fail("no fallback")
  /\ UNCHANGED <<job, mode, done, inventory, finding, evidence>>

(* The only candidate, or the model's choice; after two invalid answers the*)
(* deterministic one, which is a candidate too (_choose_tool).             *)
RunTool ==
  /\ pc = "run" /\ Left > 0
  /\ \E tool \in Candidates : Execute(tool, FALSE)

(* An advanced analysis of nothing is superseded by the basic one.         *)
RunBasicInstead == pc = "basic" /\ Execute("basic", TRUE)

(* The model is asked, and may finish, only where there is a choice.       *)
MayEnd ==
  \/ Left = 0 \/ Candidates = {}
  \/ Cardinality(Candidates) > 1 /\ Effective # {}
       /\ AgentOf[turn.act.kind] # "MES"

-----------------------------------------------------------------------------
(* The finding.                                                            *)

Used(tool) == \E i \in Effective : turn.ran[i] = tool
OfMes == AgentOf[turn.act.kind] = "MES"

FoundLots ==
  CASE ~OfMes -> turn.lots
    [] OfMes /\ job.lot -> IF Used("impact") THEN Exposed(turn.at) ELSE {Source}
    [] OfMes /\ ~job.lot -> job.failing

Reporting == FdcTools \cup {"impact", "genealogy", "quality", "cases"}

Report(tool) ==
  LET lane == turn.act.lane
      at == turn.at
      lots == turn.lots
  IN  CASE tool = "shift"     -> ShiftReport(lane, at, lots)
        [] tool = "ooc"       -> OocReport(lane, at)
        [] tool = "basic"     -> BasicReport(lane, at, lots, job.measures[at])
        [] tool = "advanced"  -> AdvancedReport(lane, at, lots, job.measures[at])
        [] tool = "impact"    -> ImpactReport(lane, at)
        [] tool = "genealogy" -> GenealogyReport(lane, at, FoundLots)
        [] tool = "quality"   -> QualityReport(IF turn.act.kind = "shared" THEN "shared"
                                               ELSE "quality", lane, lots)
        [] tool = "cases"     -> CasesReport(lane, at, lots)

ReportAt(i) == Report(turn.ran[i])

Reported == {i \in Effective : turn.ran[i] \in Reporting}

(* _merge_evidence: of two observations with one id the first is kept.     *)
Merged == {ReportAt(i) : i \in {k \in Reported :
             \A m \in Reported : m < k => ~SameId(ReportAt(m), ReportAt(k))}}

FoundLanes ==
  CASE Used("impact") -> LanesOf(Exposed(turn.at))
    [] Used("genealogy") /\ ~Used("impact") -> LanesOf(job.failing)
    [] ~Used("impact") /\ ~Used("genealogy") -> <<>>

FoundAt == IF FoundLanes = <<>> THEN NoLane ELSE Target(turn.at)

(* reconcile_lane_inventory: what was exposed in a lane adds up.           *)
Reconciled ==
  [l \in Known \cup DOMAIN FoundLanes |->
     (IF l \in Known THEN inventory[l] ELSE {})
       \cup (IF l \in DOMAIN FoundLanes THEN FoundLanes[l] ELSE {})]

(* Mutant: the finding keeps the lanes it discovered itself.               *)
OwnLanes == FoundLanes

(* _persist_authoritative_lane_inventory: a finding that discovers lanes   *)
(* carries the whole inventory.                                            *)
CarriedLanes == IF FoundLanes = <<>> THEN <<>> ELSE Reconciled

(* EvidenceCollection.merge refuses another payload under a known id.      *)
Conflict == \E o \in Merged, p \in evidence : SameId(o, p) /\ o # p

(* _record_controlled_finding.                                             *)
Record ==
  /\ pc = "run" /\ MayEnd
  /\ IF Conflict
     THEN Fail("conflict") /\ UNCHANGED <<done, inventory, finding, evidence>>
     ELSE /\ evidence' = evidence \cup Merged
          /\ done' = done \cup {turn.act}
          /\ inventory' = Reconciled
          /\ finding' = [a \in DOMAIN finding \cup {AgentOf[turn.act.kind]} |->
               IF a # AgentOf[turn.act.kind] THEN finding[a]
               ELSE [lots |-> FoundLots, at |-> FoundAt, lanes |-> CarriedLanes]]
          /\ pc' = "decide" /\ UNCHANGED cause
  /\ UNCHANGED <<job, mode, spent, turn>>

-----------------------------------------------------------------------------
(* Controlled mode.                                                        *)

(* The planner of an llm investigation failed for good.                    *)
FallBack ==
  /\ mode = "llm" /\ pc = "decide"
  /\ mode' = "controlled"
  /\ UNCHANGED <<job, done, spent, inventory, finding, evidence, turn, pc, cause>>

(* _controlled_action_tool_cost.                                           *)
Cost == [exposure |-> IF job.lot THEN 3 ELSE 2, fdc |-> IF job.advanced THEN 4 ELSE 3,
         defect |-> 1, shared |-> 1, historical |-> 1]

(* The tools of an agent (specialist_agents.py); an advanced SPC analysis  *)
(* of nothing is superseded.                                               *)
Superseded(a) == a.kind = "fdc" /\ job.advanced
                 /\ "advanced" \notin job.measures[finding["MES"].at]
Agenda(a) ==
  CASE a.kind = "exposure" ->
         IF job.lot THEN <<"context", "impact", "genealogy">>
         ELSE IF job.failing = {} THEN <<"affected">> ELSE <<"affected", "genealogy">>
    [] a.kind = "fdc" ->
         <<"shift", "ooc">> \o (IF job.advanced THEN <<"advanced">> ELSE <<>>)
           \o (IF Superseded(a) \/ ~job.advanced THEN <<"basic">> ELSE <<>>)
    [] a.kind \in {"defect", "shared"} -> <<"quality">>
    [] a.kind = "historical" -> <<"cases">>

ControlledLots(a) ==
  CASE a.kind = "exposure" -> {}
    [] a.kind = "defect" /\ job.lot -> {Source}
    [] a.kind \in {"fdc", "shared"} \/ (a.kind = "defect" /\ ~job.lot) -> finding["MES"].lots
    [] a.kind = "historical" -> finding["DEFECT_WAT"].lots

(* _dispatch_controlled: each kind once, for no lane, within the budget.   *)
Controlled ==
  /\ mode = "controlled" /\ pc = "decide"
  /\ Cardinality(done) < MaxActions
  /\ \E a \in Action :
       /\ a.lane = NoLane /\ a.gap = NoGap
       /\ \A b \in done : b.kind # a.kind
       /\ Found(Needs[a.kind])
       /\ Cost[a.kind] <= ToolsLeft
       /\ LET at == IF a.kind \in {"fdc", "historical"} THEN finding["MES"].at ELSE NoLane
              lots == ControlledLots(a)
          IN  IF (a.kind = "fdc" /\ at = NoLane) \/ (a.kind # "exposure" /\ lots = {})
              THEN Fail("scope") /\ UNCHANGED <<turn, spent>>
              ELSE /\ turn' = [Idle EXCEPT
                        !.act = a, !.lots = lots, !.at = at,
                        !.budget = Len(Agenda(a)), !.ran = Agenda(a),
                        !.superseded = Superseded(a)]
                   /\ spent' = spent + Len(Agenda(a))
                   /\ \/ pc' = "run" /\ UNCHANGED cause
                      \/ Fail("tool")
  /\ UNCHANGED <<job, mode, done, inventory, finding, evidence>>

Next == Dispatch \/ RunTool \/ RunBasicInstead \/ Record \/ FallBack \/ Controlled

Spec == Init /\ [][Next]_vars

-----------------------------------------------------------------------------
(* The local budget of two tools and the costs of controlled mode keep an  *)
(* investigation within max_tool_calls, and an advanced SPC analysis that  *)
(* finds nothing is never left without room for its basic replacement      *)
(* (specialist_v2.py:432, supervisor.py:2506).                             *)
BudgetSuffices == spent <= MaxTools /\ cause # "no fallback"

(* Evidence that names a lane of the inventory was measured at that lane   *)
(* and on lots exposed there, however often the exposure was queried again *)
(* in between (_selected_lane looks a lane up in the latest MES finding).  *)
LaneTruth ==
  \A o \in evidence :
    o.lane \in Known /\ o.by \in FdcTools =>
      /\ o.at = o.lane
      /\ o.lots \subseteq inventory[o.lane] \cup {Source}
=============================================================================
