----------------------- MODULE SpecialistExecutionProofs -----------------------
(***************************************************************************)
(* TLAPS proofs about SpecialistExecution, for any fab, jobs, gaps,        *)
(* guesses of the model and tool budget.                                   *)
(*                                                                         *)
(* That evidence is true of its lane hangs on the lanes a first query      *)
(* finds: if there are several, the lane of every later action is one of   *)
(* them; if there is one, no later query ever adds another, so that what   *)
(* the model guessed never becomes a lane of the inventory.                *)
(***************************************************************************)
EXTENDS SpecialistExecution, FiniteSetTheorems, SequenceTheorems, TLAPS

(* The lanes a query for exposure finds that names none.                   *)
First == DOMAIN LanesOf(IF job.lot THEN Exposed(NoLane) ELSE job.failing)

InventoryFits ==
  /\ Known # {} => Home \in First /\ First \subseteq Known
  /\ First = {Home} => Known \subseteq {Home}

(* What the latest findings say of the lanes.                              *)
FindingsFit ==
  /\ "MES" \in DOMAIN finding =>
       IF finding["MES"].at = NoLane THEN finding["MES"].lanes = <<>>
       ELSE finding["MES"].lanes = inventory /\ Known # {}
  /\ "FDC" \in DOMAIN finding => Known # {}

(* A lane that a measurement names: none, one of the inventory it was made *)
(* at, or one that is never found.                                         *)
TrueOf(lane, at, lots) ==
  \/ lane = NoLane
  \/ lane \in Known /\ at = lane /\ lots \subseteq inventory[lane] \cup {Source}
  \/ First = {Home} /\ lane # Home

EvidenceFits == \A o \in evidence : o.by \in FdcTools => TrueOf(o.lane, o.at, o.lots)

ToolsOf == [exposure |-> {"context", "impact", "affected", "genealogy"}, fdc |-> FdcTools,
            defect |-> {"quality"}, shared |-> {"quality"}, historical |-> {"cases"}]

Running == pc \in {"run", "basic"}

(* The turn that runs: its tools are the domain's, a query for exposure    *)
(* finds the source lot or the failing lots, a measurement is true.        *)
DomainFits == \A i \in DOMAIN turn.ran : turn.ran[i] \in ToolsOf[turn.act.kind]

QueryFits ==
  /\ turn.at # NoLane => Known # {}
  /\ Ran("impact") => job.lot /\ Source \in Through[Target(turn.at)]
  /\ Ran("genealogy") => Ran("impact") \/ (~job.lot /\ job.failing # {})

MeasurementFits == Known # {} /\ TrueOf(turn.act.lane, turn.at, turn.lots)

TurnFits ==
  Running => /\ DomainFits
             /\ turn.act.kind = "exposure" => QueryFits
             /\ turn.act.kind = "fdc" => MeasurementFits

(* The budget covers what the running turn may still spend.                *)
BudgetFits ==
  /\ cause # "no fallback"
  /\ Running => Len(turn.ran) <= turn.budget /\ spent + Left <= MaxTools
  /\ ~Running => spent <= MaxTools
  /\ pc = "basic" => turn.act.kind = "fdc" /\ Left >= 1

(* The inductive invariant.                                                *)
IInv == /\ TypeOK
        /\ InventoryFits
        /\ FindingsFit
        /\ EvidenceFits
        /\ TurnFits
        /\ BudgetFits

-----------------------------------------------------------------------------
(* Types.                                                                  *)

LEMMA TurnTyped ==
  ASSUME TypeOK
  PROVE  /\ turn.act \in Action /\ turn.act.kind \in Kinds
         /\ turn.act.lane \in Lanes \cup {NoLane}
         /\ turn.at \in Lanes \cup {NoLane}
         /\ turn.lots \subseteq Lots
         /\ turn.budget \in Nat /\ turn.ran \in Seq(Tools) /\ turn.superseded \in BOOLEAN
         /\ Len(turn.ran) \in Nat /\ DOMAIN turn.ran = 1 .. Len(turn.ran)
<1>1. turn \in Turn
  BY DEF TypeOK
<1>2. /\ turn.act \in Action /\ turn.at \in Lanes \cup {NoLane} /\ turn.lots \subseteq Lots
      /\ turn.budget \in Nat /\ turn.ran \in Seq(Tools)
  BY <1>1 DEF Turn
<1>3. turn.superseded \in BOOLEAN
  BY <1>1 DEF Turn
<1>4. turn.act.kind \in Kinds /\ turn.act.lane \in Lanes \cup {NoLane}
  BY <1>2 DEF Action
<1> QED BY <1>2, <1>3, <1>4

LEMMA JobTyped ==
  ASSUME TypeOK
  PROVE  job.failing \subseteq Lots /\ job.lot \in BOOLEAN
<1>1. job \in Job
  BY SpecialistAssumption DEF TypeOK
<1>2. job.failing \subseteq Lots
  BY <1>1 DEF Job
<1>3. job.lot \in BOOLEAN
  BY <1>1 DEF Job
<1> QED BY <1>2, <1>3

LEMMA InventoryTyped ==
  ASSUME NEW inv \in Inventories
  PROVE  /\ DOMAIN inv \subseteq Lanes
         /\ \A l \in DOMAIN inv : inv[l] \subseteq Lots
         /\ inv = [l \in DOMAIN inv |-> inv[l]]
  BY DEF Inventories

LEMMA InventoryIs ==
  ASSUME NEW d \in SUBSET Lanes, NEW inv \in [d -> SUBSET Lots]
  PROVE  inv \in Inventories
  BY DEF Inventories

LEMMA FindingTyped ==
  ASSUME TypeOK, NEW a \in DOMAIN finding
  PROVE  /\ finding[a].lots \subseteq Lots
         /\ finding[a].at \in Lanes \cup {NoLane}
         /\ finding[a].lanes \in Inventories
<1>1. finding[a] \in Finding
  BY DEF TypeOK
<1> QED BY <1>1 DEF Finding

LEMMA TargetTyped ==
  ASSUME NEW at \in Lanes \cup {NoLane}
  PROVE  Target(at) \in Lanes /\ Target(at) # NoLane /\ Exposed(at) \subseteq Lots
  BY ToolsAssumption DEF Target, Exposed

LEMMA LanesTyped ==
  ASSUME NEW lots \in SUBSET Lots
  PROVE  /\ LanesOf(lots) \in Inventories
         /\ DOMAIN LanesOf(lots) = {l \in Lanes : Through[l] \cap lots # {}}
<1> DEFINE d == {l \in Lanes : Through[l] \cap lots # {}}
<1>1. LanesOf(lots) = [l \in d |-> Through[l] \cap lots]
  BY DEF LanesOf
<1>2. d \in SUBSET Lanes /\ LanesOf(lots) \in [d -> SUBSET Lots]
  BY <1>1
<1> HIDE DEF d
<1>3. LanesOf(lots) \in Inventories
  BY <1>2, InventoryIs
<1>4. DOMAIN LanesOf(lots) = d
  BY <1>1
<1> QED BY <1>3, <1>4 DEF d

LEMMA EmptyInventory == <<>> \in Inventories /\ DOMAIN <<>> = {}
<1>1. <<>> \in [{} -> SUBSET Lots]
  OBVIOUS
<1> QED BY <1>1, InventoryIs

(* A query that names no lane finds Home, if it finds any.                 *)
LEMMA FirstHome ==
  ASSUME TypeOK
  PROVE  /\ job.lot \/ job.failing # {} => Home \in First
         /\ job.lot => First = DOMAIN LanesOf(Exposed(NoLane))
         /\ ~job.lot => First = DOMAIN LanesOf(job.failing)
<1>1. /\ job.lot => First = DOMAIN LanesOf(Exposed(NoLane))
      /\ ~job.lot => First = DOMAIN LanesOf(job.failing)
  BY DEF First
<1>2. CASE job.lot
  <2>1. Source \in Through[Home] \cap Exposed(NoLane) /\ Home \in Lanes
    BY ToolsAssumption DEF Exposed
  <2>2. Exposed(NoLane) \in SUBSET Lots
    BY TargetTyped
  <2> QED BY <1>1, <1>2, <2>1, <2>2, LanesTyped
<1>3. CASE ~job.lot /\ job.failing # {}
  <2>1. job.failing \cap Through[Home] # {} /\ Home \in Lanes
    BY <1>3, SpecialistAssumption, ToolsAssumption DEF TypeOK
  <2> QED BY <1>1, <1>3, <2>1, JobTyped, LanesTyped
<1> QED BY <1>1, <1>2, <1>3

-----------------------------------------------------------------------------
(* Parts that a step leaves alone.                                         *)

LEMMA StateKept ==
  ASSUME IInv, UNCHANGED <<job, inventory, finding, evidence>>
  PROVE  InventoryFits' /\ FindingsFit' /\ EvidenceFits' /\ First' = First
<1>1. First' = First
  BY DEF First
<1>2. InventoryFits'
  BY <1>1 DEF IInv, InventoryFits, Known
<1>3. FindingsFit'
  BY DEF IInv, FindingsFit, Known
<1>4. EvidenceFits'
  BY <1>1 DEF IInv, EvidenceFits, TrueOf, Known
<1> QED BY <1>1, <1>2, <1>3, <1>4

LEMMA FailKeeps ==
  ASSUME IInv, NEW why \in {"scope", "tool", "identity", "conflict"}, Fail(why),
         UNCHANGED <<job, mode, done, inventory, finding, evidence, turn>>,
         spent' \in Nat, spent' <= MaxTools
  PROVE  IInv'
<1>1. InventoryFits' /\ FindingsFit' /\ EvidenceFits'
  BY StateKept
<1>2. TypeOK'
  BY DEF IInv, TypeOK, Fail
<1>3. TurnFits' /\ BudgetFits'
  BY DEF Fail, TurnFits, BudgetFits, Running
<1> QED BY <1>1, <1>2, <1>3 DEF IInv

LEMMA SpentIsCovered ==
  ASSUME IInv
  PROVE  /\ spent \in Nat /\ spent <= MaxTools
         /\ Running => Left \in Nat /\ spent + Left <= MaxTools
<1>1. spent \in Nat /\ MaxTools \in Nat
  BY SpecialistAssumption DEF IInv, TypeOK
<1>2. CASE Running
  <2>1. Len(turn.ran) <= turn.budget /\ spent + Left <= MaxTools
    BY <1>2 DEF IInv, BudgetFits
  <2>2. Len(turn.ran) \in Nat /\ turn.budget \in Nat
    BY TurnTyped DEF IInv
  <2>3. Left \in Nat
    BY <2>1, <2>2 DEF Left
  <2> QED BY <1>1, <2>1, <2>3
<1>3. CASE ~Running
  BY <1>1, <1>3 DEF IInv, BudgetFits
<1> QED BY <1>2, <1>3
-----------------------------------------------------------------------------
(* A turn begins.                                                          *)

(* With one lane known, a first query finds no other.                      *)
LEMMA OneLaneIsHome ==
  ASSUME IInv, Known # {}, Cardinality(Known) < 2
  PROVE  Known = {Home} /\ First = {Home}
<1>1. IsFiniteSet(Known)
  <2>1. Known \subseteq Lanes
    BY InventoryTyped DEF IInv, TypeOK, Known
  <2> QED BY <2>1, SpecialistAssumption, FS_Subset
<1>2. Home \in First /\ First \subseteq Known
  BY DEF IInv, InventoryFits
<1>3. Known = {Home}
  <2> SUFFICES ASSUME NEW l \in Known, l # Home PROVE FALSE
    BY <1>2
  <2>1. {l, Home} \subseteq Known
    BY <1>2
  <2>2. Cardinality({l, Home}) <= Cardinality(Known) /\ IsFiniteSet({l, Home})
    BY <1>1, <2>1, FS_Subset
  <2>3. Cardinality({l} \cup {Home}) = Cardinality({l}) + 1
    BY FS_Singleton, FS_AddElement
  <2>4. {l, Home} = {l} \cup {Home} /\ Cardinality({l}) = 1
    BY FS_Singleton
  <2>5. Cardinality(Known) \in Nat
    BY <1>1, FS_CardinalityType
  <2> QED BY <2>2, <2>3, <2>4, <2>5
<1> QED BY <1>2, <1>3

(* The scope a measurement is bound to is true of its lane.                *)
LEMMA ScopeIsTrue ==
  ASSUME IInv, NEW a \in Action, Valid(a), HasScope(a), a.kind = "fdc"
  PROVE  Known # {} /\ TrueOf(a.lane, ScopeAt(a), ScopeLots(a))
<1>1. "MES" \in DOMAIN finding
  <2>1. Needs["fdc"] = {"MES"}
    BY DEF Needs
  <2> QED BY <2>1 DEF Valid, Found
<1>2. /\ ScopeAt(a) = IF Selected(a) THEN a.lane ELSE finding["MES"].at
      /\ ScopeLots(a) = MesLots(a)
      /\ ScopeAt(a) # NoLane
  BY DEF ScopeAt, ScopeLots, HasScope
<1>3. finding["MES"].at # NoLane
  <2> SUFFICES ASSUME finding["MES"].at = NoLane PROVE FALSE
    OBVIOUS
  <2>1. finding["MES"].lanes = <<>>
    BY <1>1 DEF IInv, FindingsFit
  <2>2. ~Selected(a)
    BY <2>1, EmptyInventory DEF Selected
  <2> QED BY <1>2, <2>2
<1>4. finding["MES"].lanes = inventory /\ Known # {}
  BY <1>1, <1>3 DEF IInv, FindingsFit
<1>5. CASE a.lane \in Known
  <2>1. Selected(a)
    BY <1>4, <1>5 DEF Selected, Known
  <2>2. ScopeAt(a) = a.lane /\ ScopeLots(a) = SourceLots \cup inventory[a.lane]
    BY <1>2, <1>4, <2>1 DEF MesLots
  <2>3. SourceLots \subseteq {Source}
    BY DEF SourceLots
  <2> QED BY <1>4, <1>5, <2>2, <2>3 DEF TrueOf
<1>6. CASE a.lane \notin Known
  <2>1. Cardinality(Known) < 2
    BY <1>6 DEF Valid
  <2>2. Known = {Home} /\ First = {Home}
    BY <1>4, <2>1, OneLaneIsHome
  <2> QED BY <1>4, <1>6, <2>2 DEF TrueOf
<1> QED BY <1>5, <1>6

LEMMA LocalBudgetFits ==
  ASSUME TypeOK, spent <= MaxTools
  PROVE  LocalBudget \in Nat /\ spent + LocalBudget <= MaxTools
<1>1. spent \in Nat /\ MaxTools \in Nat
  BY SpecialistAssumption DEF TypeOK
<1>2. ToolsLeft \in Nat /\ spent + ToolsLeft = MaxTools
  BY <1>1 DEF ToolsLeft
<1>3. LocalBudget \in Nat /\ LocalBudget <= ToolsLeft
  BY <1>2 DEF LocalBudget
<1> QED BY <1>1, <1>2, <1>3

(* The agents' lots and places are typed.                                  *)
LEMMA MesLotsTyped ==
  ASSUME TypeOK, "MES" \in DOMAIN finding, NEW a
  PROVE  MesLots(a) \subseteq Lots
<1>1. /\ finding["MES"].lots \subseteq Lots
      /\ \A l \in DOMAIN finding["MES"].lanes : finding["MES"].lanes[l] \subseteq Lots
  BY FindingTyped, InventoryTyped
<1>2. SourceLots \subseteq Lots
  BY ToolsAssumption DEF SourceLots
<1> QED BY <1>1, <1>2 DEF MesLots, Selected

LEMMA ScopeTyped ==
  ASSUME TypeOK, NEW a \in Action, Valid(a)
  PROVE  ScopeLots(a) \subseteq Lots /\ ScopeAt(a) \in Lanes \cup {NoLane}
<1>1. a.kind \in Kinds /\ a.lane \in Lanes \cup {NoLane}
  BY DEF Action
<1>2. Needs[a.kind] \subseteq DOMAIN finding
  BY DEF Valid, Found
<1>3. /\ a.kind \in {"shared", "fdc"} => "MES" \in DOMAIN finding
      /\ a.kind = "defect" /\ ~job.lot => "MES" \in DOMAIN finding
      /\ a.kind = "historical" => {"MES", "DEFECT_WAT"} \subseteq DOMAIN finding
  BY <1>2 DEF Needs, Specialists
<1>4. {Source} \subseteq Lots
  BY ToolsAssumption
<1>5. ScopeLots(a) \subseteq Lots
  BY <1>1, <1>3, <1>4, MesLotsTyped, FindingTyped DEF ScopeLots, Kinds
<1>6. QueryLane(a) \in Lanes \cup {NoLane}
  BY <1>1 DEF QueryLane
<1>7. ScopeAt(a) \in Lanes \cup {NoLane}
  BY <1>1, <1>3, <1>6, FindingTyped DEF ScopeAt, Kinds
<1> QED BY <1>5, <1>7

LEMMA IdleTyped == Idle \in Turn
<1>1. [kind |-> "exposure", lane |-> NoLane, gap |-> NoGap] \in Action
  BY DEF Action, Kinds
<1>2. <<>> \in Seq(Tools)
  OBVIOUS
<1> QED BY <1>1, <1>2 DEF Idle, Turn

LEMMA DispatchKeeps ==
  ASSUME IInv, Dispatch
  PROVE  IInv'
<1>1. PICK a \in Action :
        /\ Valid(a)
        /\ IF HasScope(a)
           THEN /\ turn' = [Idle EXCEPT !.act = a, !.lots = ScopeLots(a),
                                        !.at = ScopeAt(a), !.budget = LocalBudget]
                /\ pc' = "run" /\ UNCHANGED cause
           ELSE Fail("scope") /\ UNCHANGED turn
  BY DEF Dispatch
<1>2. UNCHANGED <<job, mode, done, spent, inventory, finding, evidence>> /\ pc = "decide"
  BY DEF Dispatch
<1>3. TypeOK /\ spent \in Nat /\ spent <= MaxTools
  BY SpentIsCovered DEF IInv
<1>4. CASE ~HasScope(a)
  BY <1>1, <1>2, <1>3, <1>4, FailKeeps
<1>5. CASE HasScope(a)
  <2>1. turn' = [act |-> a, lots |-> ScopeLots(a), at |-> ScopeAt(a), budget |-> LocalBudget,
                 ran |-> <<>>, superseded |-> FALSE]
    BY <1>1, <1>5 DEF Idle
  <2>2. pc' = "run" /\ cause' = cause
    BY <1>1, <1>5
  <2>3. LocalBudget \in Nat /\ spent + LocalBudget <= MaxTools
    BY <1>3, LocalBudgetFits
  <2>4. ScopeLots(a) \subseteq Lots /\ ScopeAt(a) \in Lanes \cup {NoLane}
    BY <1>1, <1>3, ScopeTyped
  <2>5. TypeOK'
    <3>1. turn' \in Turn
      BY <2>1, <2>3, <2>4 DEF Turn
    <3> QED BY <1>2, <1>3, <2>2, <3>1 DEF TypeOK
  <2>6. InventoryFits' /\ FindingsFit' /\ EvidenceFits' /\ First' = First
    BY <1>2, StateKept
  <2>7. turn'.ran = <<>> /\ turn'.budget = LocalBudget /\ turn'.act = a
        /\ turn'.at = ScopeAt(a) /\ turn'.lots = ScopeLots(a)
    BY <2>1
  <2>8. ~Ran("impact")' /\ ~Ran("genealogy")' /\ DomainFits'
    BY <2>7 DEF Ran, Contains, DomainFits
  <2>9. a.kind = "exposure" => QueryFits'
    <3>1. a.kind = "exposure" /\ ScopeAt(a) # NoLane => Known # {}
      <4> SUFFICES ASSUME a.kind = "exposure", ScopeAt(a) # NoLane PROVE Known # {}
        OBVIOUS
      <4>1. a.gap # NoGap
        BY DEF ScopeAt, QueryLane
      <4>2. "FDC" \in DOMAIN finding
        BY <1>1, <4>1 DEF Valid, Bound, Found, Specialists
      <4> QED BY <4>2 DEF IInv, FindingsFit
    <3> QED BY <1>2, <2>7, <2>8, <3>1 DEF QueryFits, Known
  <2>10. a.kind = "fdc" => MeasurementFits'
    BY <1>1, <1>2, <1>5, <2>6, <2>7, ScopeIsTrue DEF MeasurementFits, TrueOf, Known
  <2>11. TurnFits'
    BY <2>7, <2>8, <2>9, <2>10 DEF TurnFits
  <2>12. BudgetFits'
    <3>1. Left' = LocalBudget /\ Len(turn'.ran) = 0
      BY <2>3, <2>7 DEF Left
    <3>2. Len(turn'.ran) <= turn'.budget /\ spent' + Left' <= MaxTools
      BY <1>2, <2>3, <2>7, <3>1
    <3>3. cause' # "no fallback"
      BY <2>2 DEF IInv, BudgetFits
    <3> QED BY <2>2, <3>2, <3>3 DEF BudgetFits, Running
  <2> QED BY <2>5, <2>6, <2>11, <2>12 DEF IInv
<1> QED BY <1>4, <1>5
-----------------------------------------------------------------------------
(* A tool runs.                                                            *)

(* What is known of a tool that is about to run.                           *)
MayRun(tool) ==
  /\ tool \in ToolsOf[turn.act.kind] \cap Tools
  /\ Left >= 1
  /\ tool = "impact" => job.lot
  /\ tool = "genealogy" => ~job.lot /\ job.failing # {}
  /\ tool = "advanced" => Left >= 2

LEMMA AdvancedIsFdc ==
  ASSUME TypeOK, "advanced" \in ToolsOf[turn.act.kind]
  PROVE  turn.act.kind = "fdc"
  BY TurnTyped DEF ToolsOf, Kinds

LEMMA ExecuteKeeps ==
  ASSUME IInv, Running, NEW tool, MayRun(tool), NEW superseding \in BOOLEAN,
         Execute(tool, superseding)
  PROVE  IInv'
<1>1. UNCHANGED <<job, mode, done, inventory, finding, evidence>> /\ spent' = spent + 1
  BY DEF Execute
<1>2. /\ TypeOK /\ MaxTools \in Nat /\ spent \in Nat /\ Left \in Nat
      /\ spent + Left <= MaxTools /\ Left >= 1
  BY SpentIsCovered, SpecialistAssumption DEF IInv, MayRun
<1>3. spent' \in Nat /\ spent' <= MaxTools
  BY <1>1, <1>2
<1>4. CASE \E why \in {"tool", "identity"} : Fail(why) /\ UNCHANGED turn
  BY <1>1, <1>3, <1>4, FailKeeps
<1>5. CASE /\ ~Raises(tool)
           /\ turn' = [turn EXCEPT !.ran = Append(@, tool), !.superseded = superseding]
           /\ IF ~FindsNothing(tool) THEN pc' = "run" /\ UNCHANGED cause
              ELSE IF Left > 1 THEN pc' = "basic" /\ UNCHANGED cause
              ELSE Fail("no fallback")
  <2> DEFINE n == Len(turn.ran)
  <2>1. /\ turn \in Turn /\ turn.ran \in Seq(Tools) /\ n \in Nat /\ turn.budget \in Nat
        /\ DOMAIN turn.ran = 1 .. n
    BY <1>2, TurnTyped DEF TypeOK
  <2>2. turn' = [turn EXCEPT !.ran = Append(turn.ran, tool), !.superseded = superseding]
    BY <1>5
  <2>3. /\ turn'.act = turn.act /\ turn'.lots = turn.lots /\ turn'.at = turn.at
        /\ turn'.budget = turn.budget /\ turn'.ran = Append(turn.ran, tool)
    BY <2>1, <2>2 DEF Turn
  <2>4. tool \in Tools /\ tool \in ToolsOf[turn.act.kind]
    BY DEF MayRun
  <2>5. Append(turn.ran, tool) \in Seq(Tools)
    BY <2>1, <2>4
  <2>6. turn' \in Turn
    BY <2>1, <2>2, <2>5 DEF Turn
  <2>7. /\ Len(turn'.ran) = n + 1 /\ DOMAIN turn'.ran = 1 .. (n + 1)
        /\ turn'.ran[n + 1] = tool /\ \A i \in 1 .. n : turn'.ran[i] = turn.ran[i]
    BY <2>1, <2>3, <2>4
  <2>8. Left' = Left - 1
    BY <2>1, <2>3, <2>7 DEF Left
  <2>9. /\ pc' \in {"run", "basic"} /\ cause' = cause
        /\ pc' = "basic" => tool = "advanced" /\ Left >= 2
    <3>1. FindsNothing(tool) => tool = "advanced" /\ Left >= 2
      BY DEF FindsNothing, MayRun
    <3>2. Left >= 2 => Left > 1
      BY <1>2
    <3>3. CASE ~FindsNothing(tool)
      BY <1>5, <3>3
    <3>4. CASE FindsNothing(tool)
      <4>1. tool = "advanced" /\ Left >= 2 /\ Left > 1
        BY <3>1, <3>2, <3>4
      <4>2. pc' = "basic" /\ cause' = cause
        BY <1>5, <3>4, <4>1
      <4> QED BY <4>1, <4>2
    <3> QED BY <3>3, <3>4
  <2>10. TypeOK'
    BY <1>1, <1>2, <1>3, <2>6, <2>9 DEF TypeOK
  <2>11. InventoryFits' /\ FindingsFit' /\ EvidenceFits' /\ First' = First
    BY <1>1, StateKept
  <2>12. BudgetFits'
    <3>1. n + 1 <= turn.budget
      BY <1>2, <2>1 DEF Left
    <3>2. pc' = "basic" => turn'.act.kind = "fdc" /\ Left' >= 1
      BY <1>2, <2>3, <2>4, <2>8, <2>9, AdvancedIsFdc
    <3>3. spent' + Left' <= MaxTools
      BY <1>1, <1>2, <2>8
    <3>4. cause' # "no fallback"
      BY <2>9 DEF IInv, BudgetFits
    <3> QED BY <2>3, <2>7, <2>9, <3>1, <3>2, <3>3, <3>4 DEF BudgetFits, Running
  <2>13. DomainFits'
    <3>1. DomainFits
      BY DEF IInv, TurnFits
    <3>2. ASSUME NEW i \in 1 .. (n + 1) PROVE turn'.ran[i] \in ToolsOf[turn.act.kind]
      <4>1. CASE i = n + 1
        BY <2>4, <2>7, <4>1
      <4>2. CASE i # n + 1
        <5>1. i \in 1 .. n
          BY <2>1, <4>2
        <5> QED BY <2>1, <2>7, <3>1, <5>1 DEF DomainFits
      <4> QED BY <4>1, <4>2
    <3> QED BY <2>3, <2>7, <3>2 DEF DomainFits
  <2>14. turn.act.kind = "exposure" => QueryFits'
    <3> SUFFICES ASSUME turn.act.kind = "exposure" PROVE QueryFits'
      OBVIOUS
    <3>1. QueryFits
      BY DEF IInv, TurnFits
    <3>2. \A t : Ran(t)' => Ran(t) \/ t = tool
      <4> SUFFICES ASSUME NEW t, NEW i \in 1 .. (n + 1), turn'.ran[i] = t, t # tool
                   PROVE  \E j \in 1 .. n : turn.ran[j] = t
        BY <2>7 DEF Ran, Contains
      <4>1. i # n + 1
        BY <2>7
      <4>2. i \in 1 .. n
        BY <2>1, <4>1
      <4> QED BY <2>7, <4>2
    <3>3. \A t : Ran(t) => Ran(t)'
      <4> SUFFICES ASSUME NEW t, NEW i \in 1 .. n, turn.ran[i] = t
                   PROVE  \E j \in 1 .. (n + 1) : turn'.ran[j] = t
        BY <2>7 DEF Ran, Contains
      <4>1. i \in 1 .. (n + 1)
        BY <2>1
      <4> QED BY <2>7, <4>1
    <3>4. tool = "impact" => job.lot /\ Source \in Through[Target(turn.at)]
      BY <1>5 DEF MayRun, Raises, ImpactRuns
    <3>5. tool = "genealogy" => ~job.lot /\ job.failing # {}
      BY DEF MayRun
    <3> QED BY <1>1, <2>3, <3>1, <3>2, <3>3, <3>4, <3>5 DEF QueryFits, Known
  <2>15. turn.act.kind = "fdc" => MeasurementFits'
    BY <1>1, <2>3, <2>11 DEF IInv, TurnFits, MeasurementFits, TrueOf, Known
  <2> HIDE DEF n
  <2>16. TurnFits'
    BY <2>3, <2>13, <2>14, <2>15 DEF TurnFits
  <2> QED BY <2>10, <2>11, <2>12, <2>16 DEF IInv
<1> QED BY <1>4, <1>5 DEF Execute

LEMMA CandidateMayRun ==
  ASSUME IInv, pc = "run", Left > 0, NEW tool \in Candidates
  PROVE  MayRun(tool)
<1>1. turn.act.kind \in Kinds /\ job.lot \in BOOLEAN /\ Left \in Nat
  BY TurnTyped, JobTyped, SpentIsCovered DEF IInv, Running
<1>2. CASE turn.act.kind = "exposure" /\ job.lot
  <2>1. tool \in {"context", "impact"}
    BY <1>2 DEF Candidates
  <2> QED BY <1>1, <1>2, <2>1 DEF MayRun, ToolsOf, Tools
<1>3. CASE turn.act.kind = "exposure" /\ ~job.lot
  <2>1. tool = "affected" \/ (tool = "genealogy" /\ job.failing # {})
    BY <1>3 DEF Candidates
  <2> QED BY <1>1, <1>3, <2>1 DEF MayRun, ToolsOf, Tools
<1>4. CASE turn.act.kind = "fdc"
  <2>1. tool \in {"shift", "ooc"} \cup Spc
    BY <1>4 DEF Candidates
  <2>2. tool \in FdcTools /\ (tool = "advanced" => Left >= 2)
    BY <2>1 DEF Spc, FdcTools
  <2> QED BY <1>1, <1>4, <2>2 DEF MayRun, ToolsOf, Tools, FdcTools
<1>5. CASE turn.act.kind \in {"defect", "shared"}
  <2>1. tool = "quality"
    BY <1>5 DEF Candidates
  <2> QED BY <1>1, <1>5, <2>1 DEF MayRun, ToolsOf, Tools
<1>6. CASE turn.act.kind = "historical"
  <2>1. tool = "cases"
    BY <1>6 DEF Candidates
  <2> QED BY <1>1, <1>6, <2>1 DEF MayRun, ToolsOf, Tools
<1> QED BY <1>1, <1>2, <1>3, <1>4, <1>5, <1>6 DEF Kinds

LEMMA RunToolKeeps ==
  ASSUME IInv, RunTool
  PROVE  IInv'
<1>1. PICK tool \in Candidates : Execute(tool, FALSE)
  BY DEF RunTool
<1>2. pc = "run" /\ Left > 0 /\ Running
  BY DEF RunTool, Running
<1> QED BY <1>1, <1>2, CandidateMayRun, ExecuteKeeps

LEMMA RunBasicInsteadKeeps ==
  ASSUME IInv, RunBasicInstead
  PROVE  IInv'
<1>1. Running /\ Execute("basic", TRUE)
  BY DEF RunBasicInstead, Running
<1>2. turn.act.kind = "fdc" /\ Left >= 1
  BY DEF RunBasicInstead, IInv, BudgetFits
<1>3. MayRun("basic")
  BY <1>2 DEF MayRun, ToolsOf, FdcTools, Tools
<1> QED BY <1>1, <1>3, ExecuteKeeps
-----------------------------------------------------------------------------
(* A finding is recorded.                                                  *)

LEMMA UsedTools ==
  ASSUME IInv, pc = "run", NEW t
  PROVE  /\ Used(t) => t \in ToolsOf[turn.act.kind] /\ Ran(t)
         /\ Ran(t) /\ t # "advanced" => Used(t)
<1>1. DomainFits /\ DOMAIN turn.ran = 1 .. Len(turn.ran)
  BY TurnTyped DEF IInv, TurnFits, Running
<1>2. Effective \subseteq DOMAIN turn.ran
  BY DEF Effective
<1>3. \A i \in DOMAIN turn.ran : turn.ran[i] # "advanced" => i \in Effective
  BY DEF Effective
<1>4. Used(t) => t \in ToolsOf[turn.act.kind] /\ Ran(t)
  BY <1>1, <1>2 DEF Used, Ran, Contains, DomainFits
<1>5. Ran(t) /\ t # "advanced" => Used(t)
  BY <1>1, <1>3 DEF Used, Ran, Contains
<1> QED BY <1>4, <1>5

LEMMA QueryToolsQuery ==
  ASSUME TypeOK, NEW t \in {"impact", "genealogy"}, t \in ToolsOf[turn.act.kind]
  PROVE  turn.act.kind = "exposure"
  BY TurnTyped DEF ToolsOf, Kinds, FdcTools

(* Only a query for exposure discovers lanes; the first one those of First,*)
(* and while these are Home alone so does every other.                     *)
FoundFits ==
  /\ FoundLanes \in Inventories
  /\ FoundLanes # <<>> =>
       /\ turn.act.kind = "exposure"
       /\ Home \in First
       /\ DOMAIN FoundLanes # {}
       /\ Known = {} => DOMAIN FoundLanes = First
       /\ First = {Home} => DOMAIN FoundLanes = {Home}

LEMMA FoundLanesFit ==
  ASSUME IInv, pc = "run"
  PROVE  FoundFits
<1>1. TypeOK /\ turn.at \in Lanes \cup {NoLane}
  BY TurnTyped DEF IInv
<1>2. CASE Used("impact")
  <2>1. turn.act.kind = "exposure" /\ Ran("impact")
    BY <1>1, <1>2, UsedTools, QueryToolsQuery
  <2>2. job.lot /\ Source \in Through[Target(turn.at)] /\ (turn.at # NoLane => Known # {})
    BY <2>1 DEF IInv, TurnFits, Running, QueryFits
  <2>3. FoundLanes = LanesOf(Exposed(turn.at))
    BY <1>2 DEF FoundLanes
  <2>4. Exposed(turn.at) \in SUBSET Lots /\ Exposed(NoLane) \in SUBSET Lots
        /\ Target(turn.at) \in Lanes
    BY <1>1, TargetTyped
  <2>5. /\ FoundLanes \in Inventories
        /\ DOMAIN FoundLanes = {l \in Lanes : Through[l] \cap Exposed(turn.at) # {}}
        /\ First = {l \in Lanes : Through[l] \cap Exposed(NoLane) # {}}
        /\ First = DOMAIN LanesOf(Exposed(NoLane))
        /\ Home \in First
    BY <1>1, <2>2, <2>3, <2>4, LanesTyped, FirstHome
  <2>6. Source \in Exposed(turn.at) /\ Source \in Exposed(NoLane)
    BY DEF Exposed
  <2>7. Target(turn.at) \in DOMAIN FoundLanes /\ Target(turn.at) \in First
    BY <2>2, <2>4, <2>5, <2>6
  <2>8. Known = {} => DOMAIN FoundLanes = First
    BY <2>2, <2>3, <2>5
  <2>9. First = {Home} => DOMAIN FoundLanes = First
    <3>1. First = {Home} => Target(turn.at) = Target(NoLane)
      BY <2>7 DEF Target
    <3>2. First = {Home} => Exposed(turn.at) = Exposed(NoLane)
      BY <3>1 DEF Exposed
    <3> QED BY <2>5, <3>2
  <2> QED BY <2>1, <2>5, <2>7, <2>8, <2>9 DEF FoundFits
<1>3. CASE Used("genealogy") /\ ~Used("impact")
  <2>1. turn.act.kind = "exposure" /\ Ran("genealogy") /\ ~Ran("impact")
    BY <1>1, <1>3, UsedTools, QueryToolsQuery
  <2>2. ~job.lot /\ job.failing # {}
    BY <2>1 DEF IInv, TurnFits, Running, QueryFits
  <2>3. FoundLanes = LanesOf(job.failing)
    BY <1>3 DEF FoundLanes
  <2>4. FoundLanes \in Inventories /\ DOMAIN FoundLanes = First /\ Home \in First
    BY <1>1, <2>2, <2>3, JobTyped, LanesTyped, FirstHome
  <2> QED BY <2>1, <2>4 DEF FoundFits
<1>4. CASE ~Used("impact") /\ ~Used("genealogy")
  <2>1. FoundLanes = <<>>
    BY <1>4 DEF FoundLanes
  <2> QED BY <2>1, EmptyInventory DEF FoundFits
<1> QED BY <1>2, <1>3, <1>4

LEMMA ReconciledFits ==
  ASSUME TypeOK, FoundFits
  PROVE  /\ Reconciled \in Inventories
         /\ DOMAIN Reconciled = Known \cup DOMAIN FoundLanes
         /\ \A l \in Known : inventory[l] \subseteq Reconciled[l]
         /\ FoundLanes = <<>> => Reconciled = inventory
<1> DEFINE d == Known \cup DOMAIN FoundLanes
           part(l) == (IF l \in Known THEN inventory[l] ELSE {})
                        \cup (IF l \in DOMAIN FoundLanes THEN FoundLanes[l] ELSE {})
<1>1. Reconciled = [l \in d |-> part(l)]
  BY DEF Reconciled
<1>2. /\ Known \subseteq Lanes /\ \A l \in Known : inventory[l] \subseteq Lots
      /\ inventory = [l \in Known |-> inventory[l]]
      /\ DOMAIN FoundLanes \subseteq Lanes
      /\ \A l \in DOMAIN FoundLanes : FoundLanes[l] \subseteq Lots
  BY InventoryTyped DEF TypeOK, FoundFits, Known
<1>3. d \in SUBSET Lanes /\ \A l \in d : part(l) \in SUBSET Lots
  BY <1>2
<1>4. \A l \in Known : l \in d /\ inventory[l] \subseteq part(l)
  OBVIOUS
<1>5. FoundLanes = <<>> => d = Known /\ \A l \in Known : part(l) = inventory[l]
  BY EmptyInventory
<1> HIDE DEF d, part
<1>6. Reconciled \in [d -> SUBSET Lots]
  BY <1>1, <1>3
<1>7. Reconciled \in Inventories
  BY <1>3, <1>6, InventoryIs
<1>8. FoundLanes = <<>> => Reconciled = inventory
  BY <1>1, <1>2, <1>5
<1>9. DOMAIN Reconciled = Known \cup DOMAIN FoundLanes
  BY <1>1 DEF d
<1> QED BY <1>1, <1>4, <1>7, <1>8, <1>9

LEMMA FoundLotsTyped ==
  ASSUME TypeOK
  PROVE  FoundLots \subseteq Lots
<1>1. /\ turn.lots \subseteq Lots /\ job.failing \subseteq Lots /\ job.lot \in BOOLEAN
      /\ Exposed(turn.at) \subseteq Lots /\ {Source} \subseteq Lots
  BY TurnTyped, JobTyped, TargetTyped, ToolsAssumption
<1>2. FoundLots \in {turn.lots, job.failing, Exposed(turn.at), {Source}}
  BY <1>1 DEF FoundLots
<1> QED BY <1>1, <1>2

(* A report is an observation; one of an FDC tool is of the turn's scope.  *)
LEMMA ReportsFit ==
  ASSUME IInv, pc = "run", NEW o \in Merged
  PROVE  /\ o \in Observation
         /\ o.by \in FdcTools => /\ turn.act.kind = "fdc"
                                 /\ o.lane = turn.act.lane /\ o.at = turn.at
                                 /\ o.lots \subseteq turn.lots
<1>1. PICK i \in Reported : o = Report(turn.ran[i])
  BY DEF Merged, ReportAt
<1> DEFINE t == turn.ran[i]
<1>2. t \in Reporting /\ t \in ToolsOf[turn.act.kind]
  <2>1. i \in DOMAIN turn.ran /\ turn.ran[i] \in Reporting
    BY DEF Reported, Effective
  <2>2. DomainFits
    BY DEF IInv, TurnFits, Running
  <2> QED BY <2>1, <2>2 DEF DomainFits
<1>3. o = Report(t)
  BY <1>1
<1> HIDE DEF t
<1>4. /\ TypeOK /\ turn.act.kind \in Kinds
      /\ turn.act.lane \in Lanes \cup {NoLane} /\ turn.at \in Lanes \cup {NoLane}
      /\ turn.lots \in SUBSET Lots /\ FoundLots \in SUBSET Lots
      /\ Target(turn.at) \in Lanes \cup {NoLane} /\ Exposed(turn.at) \in SUBSET Lots
      /\ {} \in SUBSET Lots /\ NoLane \in Lanes \cup {NoLane}
  BY TurnTyped, TargetTyped, FoundLotsTyped DEF IInv
<1>5. ASSUME NEW name \in Names, NEW at \in Lanes \cup {NoLane}, NEW lots \in SUBSET Lots,
             NEW by \in FdcTools \cup OtherTools,
             o = Observe(name, turn.act.lane, at, lots, by)
      PROVE  /\ o \in Observation
             /\ o.by = by /\ o.lane = turn.act.lane /\ o.at = at /\ o.lots = lots
  BY <1>4, <1>5 DEF Observe, Observation
<1>6. CASE t \in FdcTools
  <2>1. turn.act.kind = "fdc"
    BY <1>2, <1>4, <1>6 DEF ToolsOf, Kinds, FdcTools
  <2>2. \E name \in Names, lots \in SUBSET turn.lots :
          o = Observe(name, turn.act.lane, turn.at, lots, t)
    <3>1. CASE t = "ooc"
      BY <1>3, <3>1 DEF Report, OocReport, Names
    <3>2. CASE t = "shift"
      BY <1>3, <3>2 DEF Report, ShiftReport, Names
    <3>3. CASE t = "basic"
      BY <1>3, <3>3 DEF Report, BasicReport, Names
    <3>4. CASE t = "advanced"
      BY <1>3, <3>4 DEF Report, AdvancedReport, Names
    <3> QED BY <1>6, <3>1, <3>2, <3>3, <3>4 DEF FdcTools
  <2>3. PICK name \in Names, lots \in SUBSET turn.lots :
          o = Observe(name, turn.act.lane, turn.at, lots, t)
    BY <2>2
  <2>4. lots \in SUBSET Lots
    BY <1>4
  <2>5. /\ o \in Observation
        /\ o.by = t /\ o.lane = turn.act.lane /\ o.at = turn.at /\ o.lots = lots
    BY <1>4, <1>5, <1>6, <2>3, <2>4
  <2> QED BY <2>1, <2>5
<1>7. CASE t \notin FdcTools
  <2>1. t \in {"impact", "genealogy", "quality", "cases"}
    BY <1>2, <1>7 DEF Reporting
  <2>2. \E name \in Names, at \in Lanes \cup {NoLane}, lots \in SUBSET Lots, by \in OtherTools :
          o = Observe(name, turn.act.lane, at, lots, by)
    <3>1. CASE t = "impact"
      BY <1>3, <1>4, <3>1 DEF Report, ImpactReport, Names, OtherTools
    <3>2. CASE t = "genealogy"
      BY <1>3, <1>4, <3>2 DEF Report, GenealogyReport, Names, OtherTools
    <3>3. CASE t = "quality"
      BY <1>3, <1>4, <3>3 DEF Report, QualityReport, Names, OtherTools
    <3>4. CASE t = "cases"
      BY <1>3, <1>4, <3>4 DEF Report, CasesReport, Names, OtherTools
    <3> QED BY <2>1, <3>1, <3>2, <3>3, <3>4
  <2>3. PICK name \in Names, at \in Lanes \cup {NoLane}, lots \in SUBSET Lots, by \in OtherTools :
          o = Observe(name, turn.act.lane, at, lots, by)
    BY <2>2
  <2>4. o \in Observation /\ o.by = by
    BY <1>5, <2>3
  <2>5. by \notin FdcTools
    BY DEF OtherTools, FdcTools
  <2> QED BY <2>4, <2>5
<1> QED BY <1>6, <1>7

(* What is true of a lane stays true while the inventory grows.            *)
LEMMA TrueLasts ==
  ASSUME First' = First, Known \subseteq Known',
         \A l \in Known : inventory[l] \subseteq inventory'[l],
         NEW lane, NEW at, NEW lots, TrueOf(lane, at, lots)
  PROVE  TrueOf(lane, at, lots)'
  BY DEF TrueOf

LEMMA RecordKeeps ==
  ASSUME IInv, Record
  PROVE  IInv'
<1>1. /\ pc = "run" /\ UNCHANGED <<job, mode, spent, turn>>
      /\ TypeOK /\ spent \in Nat /\ spent <= MaxTools
  BY SpentIsCovered DEF IInv, Record
<1>2. CASE Conflict
  BY <1>1, <1>2, FailKeeps DEF Record
<1>3. CASE ~Conflict
  <2> DEFINE agent == AgentOf[turn.act.kind]
             new == [lots |-> FoundLots, at |-> FoundAt, lanes |-> CarriedLanes]
  <2>1. /\ evidence' = evidence \cup Merged /\ done' = done \cup {turn.act}
        /\ inventory' = Reconciled
        /\ finding' = [a \in DOMAIN finding \cup {agent} |->
                         IF a # agent THEN finding[a] ELSE new]
        /\ pc' = "decide" /\ cause' = cause
    BY <1>3 DEF Record
  <2>2. turn.act \in Action /\ turn.act.kind \in Kinds /\ turn.at \in Lanes \cup {NoLane}
    BY <1>1, TurnTyped
  <2>3. agent \in Agents /\ (agent = "MES" <=> turn.act.kind = "exposure")
        /\ (agent = "FDC" <=> turn.act.kind = "fdc")
    BY <2>2 DEF AgentOf, Kinds, Agents, Specialists
  <2>4. FoundFits
    BY <1>1, FoundLanesFit
  <2>5. /\ Reconciled \in Inventories
        /\ DOMAIN Reconciled = Known \cup DOMAIN FoundLanes
        /\ \A l \in Known : inventory[l] \subseteq Reconciled[l]
        /\ FoundLanes = <<>> => Reconciled = inventory
    BY <1>1, <2>4, ReconciledFits
  <2>6. /\ First' = First /\ Known' = Known \cup DOMAIN FoundLanes
        /\ \A l \in Known : inventory[l] \subseteq inventory'[l]
    BY <1>1, <2>1, <2>5 DEF First, Known
  <2>7. /\ FoundLanes = <<>> => FoundAt = NoLane /\ CarriedLanes = <<>>
        /\ FoundLanes # <<>> => /\ FoundAt \in Lanes /\ FoundAt # NoLane
                                /\ CarriedLanes = inventory'
    BY <2>1, <2>2, TargetTyped DEF FoundAt, CarriedLanes
  <2>8. new \in Finding
    BY <1>1, <2>1, <2>5, <2>7, FoundLotsTyped, EmptyInventory DEF Finding
  <2>9. new.at = FoundAt /\ new.lanes = CarriedLanes
    OBVIOUS
  <2>10. \A o \in Merged : o \in Observation
    BY <1>1, ReportsFit
  <2> HIDE DEF new, agent
  <2>11. TypeOK'
    <3>1. finding' \in [DOMAIN finding \cup {agent} -> Finding]
      BY <1>1, <2>1, <2>8 DEF TypeOK
    <3>2. DOMAIN finding' = DOMAIN finding \cup {agent}
      BY <2>1
    <3>3. finding' \in [DOMAIN finding' -> Finding] /\ DOMAIN finding' \subseteq Agents
      BY <1>1, <2>3, <3>1, <3>2 DEF TypeOK
    <3> QED BY <1>1, <2>1, <2>2, <2>5, <2>10, <3>3 DEF TypeOK
  <2>12. InventoryFits'
    <3>1. Known' # {} => Home \in First /\ First \subseteq Known'
      <4>1. CASE Known # {}
        BY <2>6, <4>1 DEF IInv, InventoryFits
      <4>2. CASE Known = {}
        BY <2>4, <2>6, <4>2, EmptyInventory DEF FoundFits
      <4> QED BY <4>1, <4>2
    <3>2. First = {Home} => Known' \subseteq {Home}
      BY <2>4, <2>6, EmptyInventory DEF FoundFits, IInv, InventoryFits
    <3> QED BY <2>6, <3>1, <3>2 DEF InventoryFits
  <2>13. FindingsFit'
    <3>1. CASE agent = "MES"
      <4>1. finding'["MES"] = new
        BY <2>1, <3>1
      <4>2. FoundLanes # <<>> => Known' # {}
        BY <2>4, <2>6 DEF FoundFits
      <4>3. "FDC" \in DOMAIN finding' => Known' # {}
        BY <2>1, <2>6, <3>1 DEF IInv, FindingsFit
      <4> QED BY <2>7, <2>9, <4>1, <4>2, <4>3 DEF FindingsFit
    <3>2. CASE agent # "MES"
      <4>1. FoundLanes = <<>>
        BY <2>3, <2>4, <3>2 DEF FoundFits
      <4>2. inventory' = inventory /\ Known' = Known
        BY <2>1, <2>5, <2>6, <4>1, EmptyInventory
      <4>3. "MES" \in DOMAIN finding' =>
              "MES" \in DOMAIN finding /\ finding'["MES"] = finding["MES"]
        BY <2>1, <3>2
      <4>4. "FDC" \in DOMAIN finding' => "FDC" \in DOMAIN finding \/ turn.act.kind = "fdc"
        BY <2>1, <2>3
      <4>5. turn.act.kind = "fdc" => Known # {}
        BY <1>1 DEF IInv, TurnFits, Running, MeasurementFits
      <4> QED BY <4>2, <4>3, <4>4, <4>5 DEF IInv, FindingsFit
    <3> QED BY <3>1, <3>2
  <2>14. EvidenceFits'
    <3> SUFFICES ASSUME NEW o \in evidence', o.by \in FdcTools
                 PROVE  TrueOf(o.lane, o.at, o.lots)'
      BY DEF EvidenceFits
    <3>1. TrueOf(o.lane, o.at, o.lots)
      <4>1. CASE o \in evidence
        BY <4>1 DEF IInv, EvidenceFits
      <4>2. CASE o \in Merged
        <5>1. /\ turn.act.kind = "fdc" /\ o.lane = turn.act.lane /\ o.at = turn.at
              /\ o.lots \subseteq turn.lots
          BY <1>1, <4>2, ReportsFit
        <5>2. TrueOf(turn.act.lane, turn.at, turn.lots)
          BY <1>1, <5>1 DEF IInv, TurnFits, Running, MeasurementFits
        <5> QED BY <5>1, <5>2 DEF TrueOf
      <4> QED BY <2>1, <4>1, <4>2
    <3> QED BY <2>6, <3>1, TrueLasts
  <2>15. TurnFits' /\ BudgetFits'
    BY <1>1, <2>1 DEF IInv, TurnFits, BudgetFits, Running
  <2> QED BY <2>11, <2>12, <2>13, <2>14, <2>15 DEF IInv
<1> QED BY <1>2, <1>3-----------------------------------------------------------------------------
(* Controlled mode.                                                        *)

LEMMA FallBackKeeps ==
  ASSUME IInv, FallBack
  PROVE  IInv'
<1>1. /\ UNCHANGED <<job, done, spent, inventory, finding, evidence, turn, pc, cause>>
      /\ mode' = "controlled"
  BY DEF FallBack
<1>2. InventoryFits' /\ FindingsFit' /\ EvidenceFits'
  BY <1>1, StateKept
<1>3. TypeOK'
  BY <1>1 DEF IInv, TypeOK
<1>4. TurnFits'
  <2>1. /\ TrueOf(turn.act.lane, turn.at, turn.lots)'
             = TrueOf(turn.act.lane, turn.at, turn.lots)
        /\ Known' = Known
    BY <1>1 DEF TrueOf, Known, First
  <2> QED BY <1>1, <2>1 DEF IInv, TurnFits, Running, DomainFits, QueryFits, MeasurementFits,
                            Ran, Contains
<1>5. BudgetFits'
  BY <1>1 DEF IInv, BudgetFits, Running, Left
<1> QED BY <1>2, <1>3, <1>4, <1>5 DEF IInv

(* The agents run tools of their domain, no more than were accounted for.  *)
LEMMA AgendaFits ==
  ASSUME TypeOK, NEW a \in Action
  PROVE  /\ Agenda(a) \in Seq(Tools)
         /\ \A i \in DOMAIN Agenda(a) : Agenda(a)[i] \in ToolsOf[a.kind]
         /\ Len(Agenda(a)) \in Nat /\ Cost[a.kind] \in Nat
         /\ Len(Agenda(a)) <= Cost[a.kind]
<1>1. a.kind \in Kinds
  BY DEF Action
<1>2. CASE a.kind = "exposure"
  <2>1. Cost[a.kind] = IF job.lot THEN 3 ELSE 2
    BY <1>2 DEF Cost
  <2>2. CASE job.lot
    <3>1. Agenda(a) = <<"context", "impact", "genealogy">>
      BY <1>2, <2>2 DEF Agenda
    <3> QED BY <1>2, <2>1, <2>2, <3>1 DEF Tools, ToolsOf
  <2>3. CASE ~job.lot /\ job.failing = {}
    <3>1. Agenda(a) = <<"affected">>
      BY <1>2, <2>3 DEF Agenda
    <3> QED BY <1>2, <2>1, <2>3, <3>1 DEF Tools, ToolsOf
  <2>4. CASE ~job.lot /\ job.failing # {}
    <3>1. Agenda(a) = <<"affected", "genealogy">>
      BY <1>2, <2>4 DEF Agenda
    <3> QED BY <1>2, <2>1, <2>4, <3>1 DEF Tools, ToolsOf
  <2> QED BY <2>2, <2>3, <2>4
<1>3. CASE a.kind = "fdc"
  <2> DEFINE x == IF job.advanced THEN <<"advanced">> ELSE <<>>
             y == IF Superseded(a) \/ ~job.advanced THEN <<"basic">> ELSE <<>>
             s == <<"shift", "ooc">>
  <2>1. Agenda(a) = (s \o x) \o y
    BY <1>3 DEF Agenda
  <2>2. /\ s \in Seq(FdcTools) /\ Len(s) = 2
        /\ x \in Seq(FdcTools) /\ Len(x) = IF job.advanced THEN 1 ELSE 0
        /\ y \in Seq(FdcTools) /\ (Len(y) = 0 \/ Len(y) = 1) /\ (~job.advanced => Len(y) = 1)
    <3>1. s \in Seq(FdcTools) /\ Len(s) = 2
      BY DEF FdcTools
    <3>2. /\ <<"advanced">> \in Seq(FdcTools) /\ Len(<<"advanced">>) = 1
          /\ <<"basic">> \in Seq(FdcTools) /\ Len(<<"basic">>) = 1
          /\ <<>> \in Seq(FdcTools) /\ Len(<<>>) = 0
      BY DEF FdcTools
    <3> QED BY <3>1, <3>2
  <2> HIDE DEF s, x, y
  <2>3. s \o x \in Seq(FdcTools) /\ Len(s \o x) = Len(s) + Len(x)
    BY <2>2, ConcatProperties
  <2>4. Agenda(a) \in Seq(FdcTools) /\ Len(Agenda(a)) = Len(s) + Len(x) + Len(y)
    BY <2>1, <2>2, <2>3, ConcatProperties
  <2>5. Cost[a.kind] = IF job.advanced THEN 4 ELSE 3
    BY <1>3 DEF Cost
  <2>6. FdcTools \subseteq Tools /\ ToolsOf[a.kind] = FdcTools
    BY <1>3 DEF Tools, ToolsOf
  <2>7. /\ Agenda(a) \in Seq(Tools)
        /\ \A i \in DOMAIN Agenda(a) : Agenda(a)[i] \in FdcTools
    BY <2>4, <2>6
  <2>8. Len(Agenda(a)) \in Nat /\ Cost[a.kind] \in Nat /\ Len(Agenda(a)) <= Cost[a.kind]
    <3>1. CASE job.advanced
      <4>1. Len(s) = 2 /\ Len(x) = 1
        BY <2>2, <3>1
      <4>2. Cost[a.kind] = 4
        BY <2>5, <3>1
      <4>3. CASE Len(y) = 0
        BY <2>4, <4>1, <4>2, <4>3
      <4>4. CASE Len(y) = 1
        BY <2>4, <4>1, <4>2, <4>4
      <4> QED BY <2>2, <4>3, <4>4
    <3>2. CASE ~job.advanced
      <4>1. Len(s) = 2 /\ Len(x) = 0 /\ Len(y) = 1
        BY <2>2, <3>2
      <4>2. Cost[a.kind] = 3
        BY <2>5, <3>2
      <4> QED BY <2>4, <4>1, <4>2
    <3> QED BY <3>1, <3>2
  <2> QED BY <2>6, <2>7, <2>8
<1>4. CASE a.kind \in {"defect", "shared"}
  <2>1. Agenda(a) = <<"quality">> /\ Cost[a.kind] = 1 /\ ToolsOf[a.kind] = {"quality"}
    BY <1>4 DEF Agenda, Cost, ToolsOf
  <2> QED BY <2>1 DEF Tools
<1>5. CASE a.kind = "historical"
  <2>1. Agenda(a) = <<"cases">> /\ Cost[a.kind] = 1 /\ ToolsOf[a.kind] = {"cases"}
    BY <1>5 DEF Agenda, Cost, ToolsOf
  <2> QED BY <2>1 DEF Tools
<1> QED BY <1>1, <1>2, <1>3, <1>4, <1>5 DEF Kinds

LEMMA ControlledLotsTyped ==
  ASSUME TypeOK, NEW a \in Action, Found(Needs[a.kind])
  PROVE  ControlledLots(a) \subseteq Lots
<1>1. a.kind \in Kinds
  BY DEF Action
<1>2. /\ a.kind \in {"shared", "fdc"} => "MES" \in DOMAIN finding
      /\ a.kind = "defect" /\ ~job.lot => "MES" \in DOMAIN finding
      /\ a.kind = "historical" => "DEFECT_WAT" \in DOMAIN finding
  BY DEF Found, Needs, Specialists
<1>3. {Source} \subseteq Lots
  BY ToolsAssumption
<1> QED BY <1>1, <1>2, <1>3, FindingTyped DEF ControlledLots, Kinds
LEMMA ControlledKeeps ==
  ASSUME IInv, Controlled
  PROVE  IInv'
<1> DEFINE At(a) == IF a.kind \in {"fdc", "historical"} THEN finding["MES"].at ELSE NoLane
           NoScope(a) == \/ a.kind = "fdc" /\ At(a) = NoLane
                         \/ a.kind # "exposure" /\ ControlledLots(a) = {}
<1>1. PICK a \in Action :
        /\ a.lane = NoLane
        /\ Found(Needs[a.kind])
        /\ Cost[a.kind] <= ToolsLeft
        /\ IF NoScope(a)
           THEN Fail("scope") /\ UNCHANGED <<turn, spent>>
           ELSE /\ turn' = [Idle EXCEPT
                     !.act = a, !.lots = ControlledLots(a), !.at = At(a),
                     !.budget = Len(Agenda(a)), !.ran = Agenda(a),
                     !.superseded = Superseded(a)]
                /\ spent' = spent + Len(Agenda(a))
                /\ \/ pc' = "run" /\ UNCHANGED cause
                   \/ Fail("tool")
  BY DEF Controlled
<1>2. UNCHANGED <<job, mode, done, inventory, finding, evidence>>
  BY DEF Controlled
<1>3. TypeOK /\ spent \in Nat /\ spent <= MaxTools /\ MaxTools \in Nat
  BY SpentIsCovered, SpecialistAssumption DEF IInv
<1>4. CASE NoScope(a)
  <2>1. Fail("scope") /\ UNCHANGED <<turn, spent>>
    BY <1>1, <1>4
  <2> QED BY <1>2, <1>3, <2>1, FailKeeps
<1>5. CASE ~NoScope(a)
  <2> DEFINE s == Agenda(a)
  <2>1. turn' = [act |-> a, lots |-> ControlledLots(a), at |-> At(a), budget |-> Len(s),
                 ran |-> s, superseded |-> Superseded(a)]
    BY <1>1, <1>5 DEF Idle
  <2>2. spent' = spent + Len(s) /\ ((pc' = "run" /\ cause' = cause) \/ Fail("tool"))
    BY <1>1, <1>5
  <2>3. /\ s \in Seq(Tools) /\ \A i \in DOMAIN s : s[i] \in ToolsOf[a.kind]
        /\ Len(s) \in Nat /\ Cost[a.kind] \in Nat /\ Len(s) <= Cost[a.kind]
    BY <1>3, AgendaFits
  <2>4. "MES" \in DOMAIN finding \/ a.kind \notin {"fdc", "historical"}
    BY <1>1 DEF Found, Needs, Specialists
  <2>5. At(a) \in Lanes \cup {NoLane} /\ ControlledLots(a) \subseteq Lots
    BY <1>1, <1>3, <2>4, FindingTyped, ControlledLotsTyped
  <2>6. Superseded(a) \in BOOLEAN
    BY DEF Superseded
  <2> HIDE DEF s, At
  <2>7. turn' \in Turn
    BY <2>1, <2>3, <2>5, <2>6 DEF Turn
  <2>8. spent' \in Nat /\ spent' <= MaxTools
    <3>1. Cost[a.kind] <= MaxTools - spent
      BY <1>1 DEF ToolsLeft
    <3> QED BY <1>3, <2>2, <2>3, <3>1
  <2>9. /\ pc' \in {"run", "failed"} /\ cause' \in {cause, "tool"}
    BY <2>2 DEF Fail
  <2>10. TypeOK'
    BY <1>2, <1>3, <2>7, <2>8, <2>9 DEF TypeOK
  <2>11. InventoryFits' /\ FindingsFit' /\ EvidenceFits'
    BY <1>2, StateKept
  <2>12. /\ turn'.act = a /\ turn'.lots = ControlledLots(a) /\ turn'.at = At(a)
         /\ turn'.ran = s /\ turn'.budget = Len(s)
    BY <2>1
  <2>13. DomainFits'
    BY <2>3, <2>12 DEF DomainFits
  <2>14. a.kind = "exposure" => QueryFits'
    <3> SUFFICES ASSUME a.kind = "exposure" PROVE QueryFits'
      OBVIOUS
    <3>1. turn'.at = NoLane /\ Source \in Through[Target(NoLane)]
      BY <2>12, ToolsAssumption DEF At, Target
    <3>2. CASE job.lot
      <4>1. turn'.ran = <<"context", "impact", "genealogy">>
        BY <2>12, <3>2 DEF s, Agenda
      <4>2. Ran("impact")'
        <5>1. turn'.ran[2] = "impact" /\ 2 \in DOMAIN turn'.ran
          BY <4>1
        <5> QED BY <5>1 DEF Ran, Contains
      <4> QED BY <1>2, <3>1, <3>2, <4>2 DEF QueryFits
    <3>3. CASE ~job.lot
      <4>1. turn'.ran = IF job.failing = {} THEN <<"affected">>
                                            ELSE <<"affected", "genealogy">>
        BY <2>12, <3>3 DEF s, Agenda
      <4>2. ~Ran("impact")' /\ (Ran("genealogy")' => job.failing # {})
        BY <4>1 DEF Ran, Contains
      <4> QED BY <1>2, <3>1, <3>3, <4>2 DEF QueryFits
    <3> QED BY <3>2, <3>3
  <2>15. a.kind = "fdc" => MeasurementFits'
    <3> SUFFICES ASSUME a.kind = "fdc" PROVE MeasurementFits'
      OBVIOUS
    <3>1. "MES" \in DOMAIN finding /\ finding["MES"].at # NoLane
      BY <1>5, <2>4 DEF At
    <3>2. Known # {}
      BY <3>1 DEF IInv, FindingsFit
    <3>3. turn'.act.lane = NoLane
      BY <1>1, <2>12
    <3> QED BY <1>2, <3>2, <3>3 DEF MeasurementFits, TrueOf, Known
  <2>16. TurnFits'
    BY <2>12, <2>13, <2>14, <2>15 DEF TurnFits
  <2>17. BudgetFits'
    <3>1. Left' = 0 /\ Len(turn'.ran) <= turn'.budget
      BY <2>3, <2>12 DEF Left
    <3>2. cause' # "no fallback"
      BY <2>9 DEF IInv, BudgetFits
    <3>3. spent' + Left' <= MaxTools
      BY <2>8, <3>1
    <3>4. pc' # "basic"
      BY <2>9
    <3> QED BY <2>8, <3>1, <3>2, <3>3, <3>4 DEF BudgetFits
  <2> QED BY <2>10, <2>11, <2>16, <2>17 DEF IInv
<1> QED BY <1>4, <1>5
-----------------------------------------------------------------------------
(* The invariant holds.                                                    *)

LEMMA InitHolds == Init => IInv
<1> SUFFICES ASSUME Init PROVE IInv
  OBVIOUS
<1>1. Known = {} /\ DOMAIN finding = {}
  BY EmptyInventory DEF Init, Known
<1>2. TypeOK
  <2>1. finding \in [DOMAIN finding -> Finding] /\ DOMAIN finding \subseteq Agents
    BY <1>1 DEF Init
  <2> QED BY <2>1, EmptyInventory, IdleTyped DEF Init, TypeOK
<1>3. InventoryFits /\ FindingsFit /\ EvidenceFits
  BY <1>1 DEF Init, InventoryFits, FindingsFit, EvidenceFits
<1>4. TurnFits
  BY DEF Init, TurnFits, Running
<1>5. BudgetFits
  BY SpecialistAssumption DEF Init, BudgetFits, Running
<1> QED BY <1>2, <1>3, <1>4, <1>5 DEF IInv

LEMMA StutterKeeps ==
  ASSUME IInv, UNCHANGED vars
  PROVE  IInv'
<1>1. UNCHANGED <<job, mode, done, spent, inventory, finding, evidence, turn, pc, cause>>
  BY DEF vars
<1>2. InventoryFits' /\ FindingsFit' /\ EvidenceFits'
  BY <1>1, StateKept
<1>3. TypeOK'
  BY <1>1 DEF IInv, TypeOK
<1>4. TurnFits'
  <2>1. TrueOf(turn.act.lane, turn.at, turn.lots)' = TrueOf(turn.act.lane, turn.at, turn.lots)
        /\ Known' = Known
    BY <1>1 DEF TrueOf, Known, First
  <2> QED BY <1>1, <2>1 DEF IInv, TurnFits, Running, DomainFits, QueryFits, MeasurementFits,
                            Ran, Contains
<1>5. BudgetFits'
  BY <1>1 DEF IInv, BudgetFits, Running, Left
<1> QED BY <1>2, <1>3, <1>4, <1>5 DEF IInv

LEMMA NextKeeps == IInv /\ [Next]_vars => IInv'
<1> SUFFICES ASSUME IInv, [Next]_vars PROVE IInv'
  OBVIOUS
<1>1. CASE Dispatch
  BY <1>1, DispatchKeeps
<1>2. CASE RunTool
  BY <1>2, RunToolKeeps
<1>3. CASE RunBasicInstead
  BY <1>3, RunBasicInsteadKeeps
<1>4. CASE Record
  BY <1>4, RecordKeeps
<1>5. CASE FallBack
  BY <1>5, FallBackKeeps
<1>6. CASE Controlled
  BY <1>6, ControlledKeeps
<1>7. CASE UNCHANGED vars
  BY <1>7, StutterKeeps
<1> QED BY <1>1, <1>2, <1>3, <1>4, <1>5, <1>6, <1>7 DEF Next

-----------------------------------------------------------------------------
(* What it gives.                                                          *)

(* However the supervisor, the model and the agents take turns, the        *)
(* inventory, the latest findings, the evidence and the running turn agree *)
(* on which lanes there are and on what a measurement is of.               *)
THEOREM SpecialistInvariant == Spec => []IInv
  BY InitHolds, NextKeeps, PTL DEF Spec

(* Turns, findings, the inventory and the evidence keep their types.       *)
THEOREM SpecialistTypeCorrect == Spec => []TypeOK
<1>1. IInv => TypeOK
  BY DEF IInv
<1> QED BY <1>1, SpecialistInvariant, PTL

(* The local budget of specialist_v2.py and the costs of controlled mode   *)
(* keep an investigation within max_tool_calls, and an advanced analysis   *)
(* is never without room for its basic replacement.                        *)
THEOREM BudgetIsEnough == Spec => []BudgetSuffices
<1>1. IInv => BudgetSuffices
  BY SpentIsCovered DEF IInv, BudgetFits, BudgetSuffices
<1> QED BY <1>1, SpecialistInvariant, PTL

(* A measurement that names a lane of the inventory was made there, on lots*)
(* exposed there, for every fab and however often exposure is queried again*)
(* (_selected_lane, _persist_authoritative_lane_inventory, supervisor.py). *)
THEOREM MeasurementsAreTrue == Spec => []LaneTruth
<1>1. IInv => LaneTruth
  <2> SUFFICES ASSUME IInv, NEW o \in evidence, o.lane \in Known, o.by \in FdcTools
               PROVE  o.at = o.lane /\ o.lots \subseteq inventory[o.lane] \cup {Source}
    BY DEF LaneTruth
  <2>1. TrueOf(o.lane, o.at, o.lots)
    BY DEF IInv, EvidenceFits
  <2>2. o.lane # NoLane
    BY InventoryTyped, ToolsAssumption DEF IInv, TypeOK, Known
  <2>3. ~(First = {Home} /\ o.lane # Home)
    BY DEF IInv, InventoryFits
  <2> QED BY <2>1, <2>2, <2>3 DEF TrueOf
<1> QED BY <1>1, SpecialistInvariant, PTL
=============================================================================
