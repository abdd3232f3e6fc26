------------------------ MODULE CausalReasoningProofs ------------------------
(***************************************************************************)
(* TLAPS proofs about CausalReasoning, for any lanes, directions, recipes, *)
(* queries and priorities, any active limit and any budget of model calls. *)
(*                                                                         *)
(* The lanes change in two ways only: a discovery reconciles the inventory *)
(* and starts a new trace, and the end of a round persists a verdict.  The *)
(* first part says what the operators of CausalLanes and LaneChallenge do  *)
(* to an inventory, the second that both changes keep inventory and trace  *)
(* in agreement, the third counts the calls a round can still need.        *)
(***************************************************************************)
EXTENDS CausalReasoning, FiniteSetTheorems, TLAPS

LaneOK(lane) == /\ lane \in Lane
                /\ lane.investigation = "eliminated" <=> lane.lifecycle = "eliminated"

Inventory(inv) == /\ DOMAIN inv \subseteq Lanes
                  /\ IsFiniteSet(DOMAIN inv)
                  /\ \A l \in DOMAIN inv : LaneOK(inv[l])

(* The calls that the steps left in a round can need, and the planner's.   *)
CallsKept ==
  /\ round.pc = "generate"  => calls >= 4 - round.attempt
  /\ round.pc = "compare"   => calls >= 1 /\ round.attempt = 1
  /\ round.pc = "challenge" => calls >= round.attempt

-----------------------------------------------------------------------------
(* The choice of the active lanes.                                         *)

LEMMA DiverseIsOpen ==
  ASSUME NEW inv, NEW open
  PROVE  Diverse(inv, open) \subseteq open
<1>1. \A S, n : FirstOf(inv, S, n) \subseteq S
  BY DEF FirstOf
<1> QED BY <1>1 DEF Diverse

(* The choice depends on the priorities only.                              *)
LEMMA DiverseByPriority ==
  ASSUME NEW a, NEW b, NEW open, \A l \in open : a[l].priority = b[l].priority
  PROVE  Diverse(a, open) = Diverse(b, open)
<1>1. ASSUME NEW S \in SUBSET open, NEW n PROVE FirstOf(a, S, n) = FirstOf(b, S, n)
  <2>1. ASSUME NEW l \in S PROVE {k \in S : Before(a, k, l)} = {k \in S : Before(b, k, l)}
    BY DEF Before
  <2> QED BY <2>1 DEF FirstOf
<1>2. \A S, n : FirstOf(a, S, n) \subseteq S /\ FirstOf(b, S, n) \subseteq S
  BY DEF FirstOf
<1> DEFINE primary  == FirstOf(a, open, 1)
           others   == {l \in open : \A p \in primary : Direction[l] # Direction[p]}
           siblings == {l \in open : \A p \in primary : /\ Direction[l] = Direction[p]
                                                        /\ Recipe[l] # Recipe[p]}
           Add(inv, chosen, S, n) ==
             chosen \cup FirstOf(inv, S \ chosen, Min({n, ActiveLimit - Cardinality(chosen)}))
<1>3. primary = FirstOf(b, open, 1)
  BY <1>1
<1>4. ASSUME NEW S \in SUBSET open, NEW chosen, NEW n
      PROVE  Add(a, chosen, S, n) = Add(b, chosen, S, n)
  <2>1. S \ chosen \in SUBSET open
    OBVIOUS
  <2> QED BY <1>1, <2>1
<1> HIDE DEF Add
<1>5. /\ others \in SUBSET open /\ siblings \in SUBSET open
      /\ Add(a, primary, others, 1) = Add(b, primary, others, 1)
      /\ Add(a, Add(b, primary, others, 1), siblings, 1)
           = Add(b, Add(b, primary, others, 1), siblings, 1)
      /\ Add(a, Add(b, Add(b, primary, others, 1), siblings, 1), open, ActiveLimit)
           = Add(b, Add(b, Add(b, primary, others, 1), siblings, 1), open, ActiveLimit)
  BY <1>4
<1>6. Diverse(a, open) = IF Cardinality(open) <= ActiveLimit THEN open
                         ELSE Add(a, Add(a, Add(a, primary, others, 1), siblings, 1),
                                  open, ActiveLimit)
  BY DEF Diverse, Add
<1>7. Diverse(b, open) = IF Cardinality(open) <= ActiveLimit THEN open
                         ELSE Add(b, Add(b, Add(b, primary, others, 1), siblings, 1),
                                  open, ActiveLimit)
  BY <1>3 DEF Diverse, Add
<1> QED BY <1>5, <1>6, <1>7

-----------------------------------------------------------------------------
(* What the operations on an inventory keep.                               *)

(* Same lanes, same order of choice.                                       *)
SameLanes(a, b) == /\ DOMAIN a = DOMAIN b
                   /\ \A l \in DOMAIN a : a[l].priority = b[l].priority

LEMMA SearchableOrEliminated ==
  ASSUME NEW inv, Inventory(inv)
  PROVE  /\ Searchable(inv) \subseteq DOMAIN inv
         /\ Searchable(inv) = DOMAIN inv \ Eliminated(inv)
         /\ Eliminated(inv) \subseteq DOMAIN inv
         /\ \A l \in DOMAIN inv : inv[l].lifecycle = "eliminated" <=> l \in Eliminated(inv)
  BY DEF Inventory, LaneOK, Searchable, IsSearchable, Eliminated

LEMMA MaxOfTwo ==
  ASSUME NEW a \in Nat, NEW b \in Nat
  PROVE  Max({a, b}) \in Nat
<1>1. PICK m \in {a, b} : \A y \in {a, b} : m >= y
  <2>1. CASE a >= b
    BY <2>1
  <2>2. CASE b >= a
    BY <2>2
  <2> QED BY <2>1, <2>2
<1>2. Max({a, b}) \in {a, b}
  BY <1>1 DEF Max
<1> QED BY <1>2

LEMMA NewLaneOK ==
  ASSUME NEW q \in Queries, NEW l \in DOMAIN Score[q]
  PROVE  LaneOK(NewLane(q, l)) /\ NewLane(q, l).investigation # "eliminated"
<1>1. Score[q][l] \in Nat
  BY LanesAssumption
<1> QED BY <1>1 DEF NewLane, LaneOK, Lane, Investigations, Lifecycles

(* A merge keeps an eliminated lane eliminated unless the query is new.    *)
LEMMA MergedOK ==
  ASSUME NEW q \in Queries, NEW l \in DOMAIN Score[q], NEW lane, LaneOK(lane)
  PROVE  /\ LaneOK(Merged(lane, q, l))
         /\ Merged(lane, q, l).investigation = "eliminated" => lane.investigation = "eliminated"
         /\ lane.investigation = "eliminated" /\ Merged(lane, q, l).investigation # "eliminated"
              => Merged(lane, q, l).evidence # lane.evidence
<1>1. Score[q][l] \in Nat /\ lane \in Lane /\ lane.priority \in Nat
  BY LanesAssumption DEF LaneOK, Lane
<1> DEFINE m == Max({lane.priority, Score[q][l]})
           e == lane.evidence \cup {q}
           x == [lane EXCEPT !.evidence = e, !.priority = m]
           r == [x EXCEPT !.investigation = "evidence_collected", !.lifecycle = "created"]
<1>2. m \in Nat /\ e \in SUBSET Queries
  BY <1>1, MaxOfTwo DEF Lane
<1> HIDE DEF m, e
<1>3. /\ x \in Lane /\ x.investigation = lane.investigation
      /\ x.lifecycle = lane.lifecycle /\ x.evidence = e
  BY <1>1, <1>2 DEF Lane
<1> HIDE DEF x
<1>4. /\ r \in Lane /\ r.investigation = "evidence_collected" /\ r.lifecycle = "created"
      /\ r.evidence = e
  BY <1>3 DEF Lane, Investigations, Lifecycles
<1>5. Extended(lane, q, l) = x /\ Reopened(x) = r
  BY DEF Extended, Reopened, x, r, m, e
<1> HIDE DEF r
<1>6. Merged(lane, q, l) = IF lane.investigation = "eliminated" /\ q \notin lane.evidence
                           THEN r ELSE x
  BY <1>5 DEF Merged
<1>7. q \notin lane.evidence => e # lane.evidence
  BY DEF e
<1> QED BY <1>3, <1>4, <1>6, <1>7 DEF LaneOK

LEMMA ReconciledOK ==
  ASSUME NEW inv, Inventory(inv), NEW q \in Queries, NEW new, new = Reconciled(inv, q)
  PROVE  /\ Inventory(new)
         /\ DOMAIN inv \subseteq DOMAIN new
         /\ Eliminated(new) \subseteq Eliminated(inv)
         /\ \A l \in Eliminated(inv) \ Eliminated(new) : new[l].evidence # inv[l].evidence
<1>1. /\ DOMAIN new = DOMAIN inv \cup DOMAIN Score[q]
      /\ \A l \in DOMAIN new :
           new[l] = IF l \notin DOMAIN inv THEN NewLane(q, l)
                    ELSE IF l \in DOMAIN Score[q] THEN Merged(inv[l], q, l)
                    ELSE inv[l]
  BY DEF Reconciled
<1>2. DOMAIN new \subseteq Lanes /\ IsFiniteSet(DOMAIN new)
  <2>1. /\ DOMAIN Score[q] \subseteq Lanes /\ IsFiniteSet(DOMAIN Score[q])
        /\ DOMAIN inv \subseteq Lanes /\ IsFiniteSet(DOMAIN inv)
    BY LanesAssumption DEF Inventory
  <2> DEFINE A == DOMAIN inv
             B == DOMAIN Score[q]
  <2>2. /\ DOMAIN new = A \cup B /\ A \subseteq Lanes /\ B \subseteq Lanes
        /\ IsFiniteSet(A) /\ IsFiniteSet(B)
    BY <1>1, <2>1
  <2> HIDE DEF A, B
  <2>3. IsFiniteSet(A \cup B)
    BY <2>2, FS_Union
  <2> QED BY <2>2, <2>3
<1>3. ASSUME NEW l \in DOMAIN new
      PROVE  /\ LaneOK(new[l])
             /\ l \notin DOMAIN inv => new[l].investigation # "eliminated"
             /\ l \in DOMAIN inv =>
                  /\ new[l].investigation = "eliminated" => inv[l].investigation = "eliminated"
                  /\ inv[l].investigation = "eliminated" /\ new[l].investigation # "eliminated"
                       => new[l].evidence # inv[l].evidence
  <2>1. CASE l \notin DOMAIN inv
    BY <1>1, <2>1, NewLaneOK
  <2>2. CASE l \in DOMAIN inv /\ l \in DOMAIN Score[q]
    BY <1>1, <2>2, MergedOK DEF Inventory
  <2>3. CASE l \in DOMAIN inv /\ l \notin DOMAIN Score[q]
    BY <1>1, <2>3 DEF Inventory
  <2> QED BY <2>1, <2>2, <2>3
<1> QED BY <1>1, <1>2, <1>3 DEF Inventory, Eliminated

LEMMA SnapshotOK ==
  ASSUME NEW inv, Inventory(inv), NEW active, NEW new, new = Snapshot(inv, active)
  PROVE  /\ Inventory(new) /\ SameLanes(new, inv)
         /\ Searchable(new) = Searchable(inv) /\ Eliminated(new) = Eliminated(inv)
         /\ \A l \in DOMAIN new : /\ new[l].evidence = inv[l].evidence
                                  /\ new[l].lifecycle = "active" => l \in active
                                  /\ new[l].lifecycle = "deferred" =>
                                       l \in Searchable(inv) \ active
<1>1. DOMAIN new = DOMAIN inv
  BY DEF Snapshot
<1>2. ASSUME NEW l \in DOMAIN inv
      PROVE  /\ LaneOK(new[l]) /\ new[l].investigation = inv[l].investigation
             /\ new[l].evidence = inv[l].evidence /\ new[l].priority = inv[l].priority
             /\ new[l].lifecycle = "active" => l \in active
             /\ new[l].lifecycle = "deferred" => l \in Searchable(inv) \ active
  <2>1. inv[l] \in Lane /\ LaneOK(inv[l])
    BY DEF Inventory, LaneOK
  <2>2. CASE ~IsSearchable(inv[l]) \/ inv[l].lifecycle = "challenged"
    <3>1. new[l] = inv[l]
      BY <2>2 DEF Snapshot
    <3> QED BY <2>1, <2>2, <3>1 DEF LaneOK, IsSearchable
  <2>3. CASE IsSearchable(inv[l]) /\ inv[l].lifecycle # "challenged"
    <3> DEFINE c == IF l \in active THEN "active" ELSE "deferred"
    <3>1. new[l] = [inv[l] EXCEPT !.lifecycle = c] /\ c \in {"active", "deferred"}
      BY <2>3 DEF Snapshot
    <3>2. /\ new[l] \in Lane /\ new[l].investigation = inv[l].investigation
          /\ new[l].evidence = inv[l].evidence /\ new[l].priority = inv[l].priority
          /\ new[l].lifecycle = c
      BY <2>1, <3>1 DEF Lane, Lifecycles
    <3> QED BY <2>1, <2>3, <3>2 DEF LaneOK, IsSearchable, Searchable
  <2> QED BY <2>2, <2>3
<1>3. Inventory(new)
  BY <1>1, <1>2 DEF Inventory
<1>4. Eliminated(new) = Eliminated(inv)
  BY <1>1, <1>2 DEF Eliminated
<1>5. Searchable(new) = Searchable(inv)
  BY <1>1, <1>3, <1>4, SearchableOrEliminated
<1> QED BY <1>1, <1>2, <1>3, <1>4, <1>5 DEF SameLanes

LEMMA RetiredOK ==
  ASSUME NEW inv, Inventory(inv), NEW S, S \subseteq DOMAIN inv,
         NEW new, new = Retired(inv, S)
  PROVE  /\ Inventory(new) /\ SameLanes(new, inv)
         /\ Eliminated(new) = Eliminated(inv) \cup S
<1>1. DOMAIN new = DOMAIN inv
  BY DEF Retired
<1>2. ASSUME NEW l \in DOMAIN inv
      PROVE  /\ LaneOK(new[l]) /\ new[l].priority = inv[l].priority
             /\ new[l].investigation = IF l \in S THEN "eliminated" ELSE inv[l].investigation
  <2>1. inv[l] \in Lane /\ LaneOK(inv[l])
    BY DEF Inventory, LaneOK
  <2>2. CASE l \in S
    <3>1. new[l] = [inv[l] EXCEPT !.investigation = "eliminated", !.lifecycle = "eliminated"]
      BY <2>2 DEF Retired
    <3> QED BY <2>1, <2>2, <3>1 DEF LaneOK, Lane, Investigations, Lifecycles
  <2>3. CASE l \notin S
    BY <2>1, <2>3 DEF Retired
  <2> QED BY <2>2, <2>3
<1> QED BY <1>1, <1>2 DEF Inventory, SameLanes, Eliminated

LEMMA ChallengedOK ==
  ASSUME NEW inv, Inventory(inv), NEW S, NEW new, new = Challenged(inv, S)
  PROVE  /\ Inventory(new) /\ SameLanes(new, inv)
         /\ Eliminated(new) = Eliminated(inv)
<1>1. DOMAIN new = DOMAIN inv
  BY DEF Challenged
<1>2. ASSUME NEW l \in DOMAIN inv
      PROVE  /\ LaneOK(new[l]) /\ new[l].priority = inv[l].priority
             /\ new[l].investigation = inv[l].investigation
  <2>1. inv[l] \in Lane /\ LaneOK(inv[l])
    BY DEF Inventory, LaneOK
  <2>2. CASE l \in S /\ IsSearchable(inv[l])
    <3>1. new[l] = [inv[l] EXCEPT !.lifecycle = "challenged"]
      BY <2>2 DEF Challenged
    <3> QED BY <2>1, <2>2, <3>1 DEF LaneOK, Lane, Lifecycles, IsSearchable
  <2>3. CASE ~(l \in S /\ IsSearchable(inv[l]))
    BY <2>1, <2>3 DEF Challenged
  <2> QED BY <2>2, <2>3
<1> QED BY <1>1, <1>2 DEF Inventory, SameLanes, Eliminated

-----------------------------------------------------------------------------
(* The results of challenges.                                              *)

LEMMA LaneResultOK ==
  ASSUME NEW cs, NEW eliminated, NEW l
  PROVE  /\ LaneResult(cs, eliminated, l) \in Resolutions
         /\ LaneResult(cs, eliminated, l) = "eliminated" =>
              l \in eliminated \/ StatusesOn(cs, l) = {"resolved"}
         /\ l \in eliminated /\ "blocked" \notin StatusesOn(cs, l) =>
              LaneResult(cs, eliminated, l) = "eliminated"
  BY DEF LaneResult, Resolutions

(* A lane is eliminated by the challenges that name it or it was before.   *)
ResultsFit(r, cs, active, eliminated) ==
  /\ DOMAIN r = active \cup eliminated \cup Named(cs)
  /\ \A l \in DOMAIN r :
       /\ r[l] \in Resolutions
       /\ r[l] = "eliminated" => l \in eliminated \/ l \in ResolvedAway(cs)
       /\ l \in eliminated /\ "blocked" \notin StatusesOn(cs, l) => r[l] = "eliminated"

LEMMA ResolutionsOK ==
  ASSUME NEW cs, NEW active, NEW eliminated, active \subseteq Lanes, eliminated \subseteq Lanes
  PROVE  ResultsFit(LaneResolutions(cs, active, eliminated), cs, active, eliminated)
<1> DEFINE r == LaneResolutions(cs, active, eliminated)
           D == active \cup eliminated \cup Named(cs)
           result == [l \in D |-> LaneResult(cs, eliminated, l)]
           live == {l \in D : result[l] \notin {"eliminated", "blocked"}}
           sole(l) == /\ live = {l} /\ result[l] = "unresolved"
                      /\ \E k \in D : result[k] = "eliminated"
<1>1. r = [l \in D |-> IF sole(l) THEN "retained" ELSE result[l]]
  BY DEF LaneResolutions
<1>2. DOMAIN r = D /\ \A l \in D : r[l] = result[l] \/ (r[l] = "retained" /\ result[l] = "unresolved")
  BY <1>1
<1> HIDE DEF r
<1>3. ASSUME NEW l \in D
      PROVE  /\ result[l] \in Resolutions
             /\ result[l] = "eliminated" => l \in eliminated \/ StatusesOn(cs, l) = {"resolved"}
             /\ l \in eliminated /\ "blocked" \notin StatusesOn(cs, l) => result[l] = "eliminated"
  BY LaneResultOK
<1>4. ASSUME NEW l \in D, StatusesOn(cs, l) = {"resolved"} PROVE l \in ResolvedAway(cs)
  <2>1. \E c \in cs : c.lane = l
    BY <1>4 DEF StatusesOn
  <2>2. l # NoLane
    BY LanesAssumption DEF NoLane, Named
  <2> QED BY <1>4, <2>1, <2>2 DEF ResolvedAway, Named
<1> HIDE DEF D, result
<1>5. ASSUME NEW l \in D
      PROVE  /\ r[l] \in Resolutions
             /\ r[l] = "eliminated" => l \in eliminated \/ l \in ResolvedAway(cs)
             /\ l \in eliminated /\ "blocked" \notin StatusesOn(cs, l) => r[l] = "eliminated"
  BY <1>2, <1>3, <1>4, <1>5 DEF Resolutions
<1> QED BY <1>2, <1>5 DEF D, r, ResultsFit

(* A verdict speaks of active lanes and eliminates the resolved ones.      *)
VerdictOK(verdict) ==
  /\ DOMAIN verdict.resolutions \subseteq ActiveLanes(lanes)
  /\ \A l \in DOMAIN verdict.resolutions :
       verdict.resolutions[l] = "eliminated" => l \in verdict.resolvedAway

LEMMA ActiveAreOpen ==
  ASSUME NEW inv, Inventory(inv)
  PROVE  /\ ActiveLanes(inv) \subseteq Searchable(inv)
         /\ ActiveLanes(inv) \subseteq DOMAIN inv /\ ActiveLanes(inv) \subseteq Lanes
         /\ ActiveLanes(inv) \cap Eliminated(inv) = {}
  BY DiverseIsOpen, SearchableOrEliminated DEF ActiveLanes, Inventory

LEMMA VerdictIsOK ==
  ASSUME Inventory(lanes), NEW cs, NEW active, active \subseteq ActiveLanes(lanes),
         Named(cs) \subseteq active
  PROVE  VerdictOK(Verdict(cs, active, {}))
<1> DEFINE r == LaneResolutions(cs, active, {})
<1>1. active \subseteq Lanes
  BY ActiveAreOpen
<1>2. ResultsFit(r, cs, active, {})
  BY <1>1, ResolutionsOK
<1>3. /\ Verdict(cs, active, {}).resolutions = r
      /\ Verdict(cs, active, {}).resolvedAway = ResolvedAway(cs)
  BY DEF Verdict
<1> HIDE DEF r
<1> QED BY <1>2, <1>3 DEF VerdictOK, ResultsFit

-----------------------------------------------------------------------------
(* The two changes of the lanes.                                           *)

(* What the lanes and the trace satisfy together, and what a change of the *)
(* lanes may do.                                                           *)
LanesInv == /\ Inventory(lanes)
            /\ InventoryAgrees
            /\ trace.active = ActiveLanes(lanes)

LanesStep(resolved) ==
  /\ Eliminated(lanes') \ Eliminated(lanes) \subseteq resolved
  /\ \A l \in Eliminated(lanes) \ Eliminated(lanes') : lanes'[l].evidence # lanes[l].evidence

(* The active lanes of a snapshot are those it was taken with.             *)
LEMMA SameActive ==
  ASSUME NEW a, NEW b, Inventory(a), SameLanes(a, b), NEW S, S = Searchable(a)
  PROVE  ActiveLanes(a) = Diverse(b, S)
<1>1. \A l \in S : a[l].priority = b[l].priority
  BY SearchableOrEliminated DEF SameLanes
<1> QED BY <1>1, DiverseByPriority DEF ActiveLanes

LEMMA DiscoverOK ==
  ASSUME LanesInv, NEW q \in Queries, Discover(q)
  PROVE  LanesInv' /\ LanesStep({})
<1> DEFINE inv == Reconciled(lanes, q)
<1>1. /\ Inventory(inv) /\ Eliminated(inv) \subseteq Eliminated(lanes)
      /\ \A l \in Eliminated(lanes) \ Eliminated(inv) : inv[l].evidence # lanes[l].evidence
      /\ DOMAIN lanes \subseteq DOMAIN inv
  BY ReconciledOK DEF LanesInv
<1>2. lanes' = Snapshot(inv, ActiveLanes(inv)) /\ trace' = TraceOf(inv)
  BY DEF Discover
<1> HIDE DEF inv
<1>3. /\ Inventory(lanes') /\ SameLanes(lanes', inv)
      /\ Searchable(lanes') = Searchable(inv) /\ Eliminated(lanes') = Eliminated(inv)
      /\ \A l \in DOMAIN lanes' : /\ lanes'[l].evidence = inv[l].evidence
                                  /\ lanes'[l].lifecycle = "active" => l \in ActiveLanes(inv)
                                  /\ lanes'[l].lifecycle = "deferred" =>
                                       l \in Searchable(inv) \ ActiveLanes(inv)
  BY <1>1, <1>2, SnapshotOK
<1>4. ActiveLanes(lanes') = ActiveLanes(inv)
  BY <1>3, SameActive DEF ActiveLanes
<1>5. /\ trace'.active = ActiveLanes(inv)
      /\ trace'.overflow = Searchable(inv) \ ActiveLanes(inv)
      /\ trace'.eliminated = Eliminated(inv) /\ trace'.unresolved = {}
      /\ DOMAIN trace'.resolutions = {}
  BY <1>2 DEF TraceOf, NoTrace, Nothing
<1>6. ActiveLanes(inv) \subseteq Searchable(inv)
  BY <1>1, ActiveAreOpen
<1>7. \A l \in DOMAIN lanes' :
        lanes'[l].investigation = "eliminated" <=> lanes'[l].lifecycle = "eliminated"
  BY <1>3 DEF Inventory, LaneOK
<1>8. InventoryAgrees'
  BY <1>3, <1>5, <1>6, <1>7 DEF InventoryAgrees
<1>9. LanesStep({})
  BY <1>1, <1>3, SearchableOrEliminated DEF LanesStep, SameLanes, LanesInv
<1> QED BY <1>3, <1>4, <1>5, <1>8, <1>9 DEF LanesInv

LEMMA PersistOK ==
  ASSUME LanesInv, NEW verdict, VerdictOK(verdict), NEW contest, Persist(verdict, contest)
  PROVE  LanesInv' /\ LanesStep(verdict.resolvedAway)
<1> DEFINE own    == IF verdict.resolutions # Nothing THEN verdict.resolutions
                     ELSE LaneResolutions({}, ActiveLanes(lanes), Eliminated(lanes))
           merged == Merge(own, trace.resolutions)
           gone   == {l \in DOMAIN merged : merged[l] = "eliminated"}
           rest   == Retired(lanes, gone)
           inv    == Challenged(rest, verdict.named)
           after  == Diverse(lanes, Searchable(inv))
           search == SearchStatus(verdict, merged)
           open   == Undecided(search, merged)
<1>1. /\ Inventory(lanes) /\ InventoryAgrees
      /\ ActiveLanes(lanes) \subseteq DOMAIN lanes
      /\ ActiveLanes(lanes) \cap Eliminated(lanes) = {}
      /\ Eliminated(lanes) \subseteq DOMAIN lanes /\ DOMAIN lanes \subseteq Lanes
  BY ActiveAreOpen, SearchableOrEliminated DEF LanesInv, Inventory
<1>2. /\ lanes' = Snapshot(inv, after)
      /\ trace' = [active |-> after, overflow |-> Searchable(inv) \ after,
                   eliminated |-> Eliminated(inv), resolutions |-> merged,
                   search |-> search, unresolved |-> open, contest |-> contest]
  BY DEF Persist
<1>3. /\ DOMAIN own \subseteq ActiveLanes(lanes) \cup Eliminated(lanes)
      /\ \A l \in DOMAIN own :
           /\ own[l] = "eliminated" => l \in verdict.resolvedAway \cup Eliminated(lanes)
           /\ l \in Eliminated(lanes) => own[l] = "eliminated"
      /\ \A l \in DOMAIN verdict.resolutions :
           l \in DOMAIN own /\ own[l] = verdict.resolutions[l]
  <2>1. CASE verdict.resolutions # Nothing
    BY <1>1, <2>1 DEF VerdictOK
  <2>2. CASE verdict.resolutions = Nothing
    <3> DEFINE r == LaneResolutions({}, ActiveLanes(lanes), Eliminated(lanes))
    <3>1. Named({}) = {} /\ ResolvedAway({}) = {} /\ \A l : StatusesOn({}, l) = {}
      BY DEF Named, ResolvedAway, StatusesOn
    <3>2. ActiveLanes(lanes) \subseteq Lanes /\ Eliminated(lanes) \subseteq Lanes
      BY <1>1
    <3>3. ResultsFit(r, {}, ActiveLanes(lanes), Eliminated(lanes))
      BY <3>2, ResolutionsOK
    <3>4. own = r /\ DOMAIN verdict.resolutions = {}
      BY <2>2 DEF Nothing
    <3> HIDE DEF r
    <3> QED BY <3>1, <3>3, <3>4 DEF ResultsFit
  <2> QED BY <2>1, <2>2
<1> HIDE DEF own
<1>4. /\ DOMAIN merged = DOMAIN own \cup DOMAIN trace.resolutions
      /\ \A l \in DOMAIN merged :
           merged[l] = IF l \in DOMAIN own THEN own[l] ELSE trace.resolutions[l]
  BY DEF Merge
<1> HIDE DEF merged
<1>5. \A l \in DOMAIN trace.resolutions :
        trace.resolutions[l] = "eliminated" <=> l \in Eliminated(lanes)
  BY <1>1 DEF InventoryAgrees
<1>6. /\ gone \subseteq DOMAIN lanes
      /\ gone \subseteq verdict.resolvedAway \cup Eliminated(lanes)
      /\ \A l \in DOMAIN merged : l \in Eliminated(lanes) => l \in gone
      /\ \A l \in DOMAIN verdict.resolutions :
           l \in gone <=> verdict.resolutions[l] = "eliminated"
  BY <1>1, <1>3, <1>4, <1>5
<1>7. \A l \in DOMAIN merged : merged[l] = "eliminated" <=> l \in gone
  OBVIOUS
<1> HIDE DEF gone
<1>8. Inventory(rest) /\ SameLanes(rest, lanes) /\ Eliminated(rest) = Eliminated(lanes) \cup gone
  BY <1>1, <1>6, RetiredOK
<1> HIDE DEF rest
<1>9. /\ Inventory(inv) /\ SameLanes(inv, rest)
      /\ Eliminated(inv) = Eliminated(lanes) \cup gone
  BY <1>8, ChallengedOK
<1> HIDE DEF inv
<1>10. after \subseteq Searchable(inv)
  BY DiverseIsOpen
<1>11. open \cap Eliminated(inv) = {}
  BY <1>6, <1>7, <1>9 DEF Undecided
<1>12. \A l \in DOMAIN merged : merged[l] = "eliminated" <=> l \in Eliminated(inv)
  BY <1>6, <1>7, <1>9
<1> HIDE DEF search, open
<1>13. /\ Inventory(lanes') /\ SameLanes(lanes', inv)
       /\ Searchable(lanes') = Searchable(inv) /\ Eliminated(lanes') = Eliminated(inv)
       /\ \A l \in DOMAIN lanes' : /\ lanes'[l].evidence = inv[l].evidence
                                   /\ lanes'[l].lifecycle = "active" => l \in after
                                   /\ lanes'[l].lifecycle = "deferred" =>
                                        l \in Searchable(inv) \ after
  BY <1>2, <1>9, SnapshotOK
<1>14. SameLanes(lanes', lanes)
  BY <1>8, <1>9, <1>13 DEF SameLanes
<1>15. ActiveLanes(lanes') = after
  BY <1>13, <1>14, SameActive
<1> HIDE DEF after
<1>16. /\ trace'.active = after /\ trace'.overflow = Searchable(inv) \ after
       /\ trace'.eliminated = Eliminated(inv) /\ trace'.unresolved = open
       /\ trace'.resolutions = merged
  BY <1>2
<1>17. \A l \in DOMAIN lanes' :
         lanes'[l].investigation = "eliminated" <=> lanes'[l].lifecycle = "eliminated"
  BY <1>13 DEF Inventory, LaneOK
<1>18. InventoryAgrees'
  BY <1>10, <1>11, <1>12, <1>13, <1>16, <1>17 DEF InventoryAgrees
<1>19. LanesStep(verdict.resolvedAway)
  BY <1>6, <1>9, <1>13 DEF LanesStep
<1> QED BY <1>13, <1>15, <1>16, <1>18, <1>19 DEF LanesInv

-----------------------------------------------------------------------------
(* How a step of the system changes lanes, trace and finding.              *)

LanesOK == LanesInv' /\ LanesStep(finding'.resolved)

LEMMA LanesStay ==
  ASSUME LanesInv, UNCHANGED <<lanes, trace, finding>>
  PROVE  LanesOK
<1>1. LanesInv'
  BY DEF LanesInv, Inventory, InventoryAgrees, ActiveLanes
<1> QED BY <1>1 DEF LanesOK, LanesStep

LEMMA ConcludeOK ==
  ASSUME LanesInv, NEW n, NEW verdict, NEW found, NEW contest, VerdictOK(verdict),
         Conclude(n, verdict, found, contest)
  PROVE  LanesOK /\ round' = Between
<1> DEFINE final == Settled(contest, found)
<1>1. /\ finding'.resolved = verdict.resolvedAway /\ round' = Between
      /\ IF final = "not_evaluated" THEN UNCHANGED <<lanes, trace>>
         ELSE Persist(verdict, final)
  BY DEF Conclude
<1> HIDE DEF final
<1>2. CASE final = "not_evaluated"
  <2>1. LanesInv'
    BY <1>1, <1>2 DEF LanesInv, Inventory, InventoryAgrees, ActiveLanes
  <2>2. LanesStep(finding'.resolved)
    BY <1>1, <1>2 DEF LanesStep
  <2> QED BY <1>1, <2>1, <2>2 DEF LanesOK
<1>3. CASE final # "not_evaluated"
  BY <1>1, <1>3, PersistOK DEF LanesOK
<1> QED BY <1>2, <1>3

(* A conclusion without challenges that were answered.                     *)
LEMMA ConcludeOpen ==
  ASSUME LanesInv, NEW n, NEW contest, NEW found,
         NEW active \in {{}, ActiveLanes(lanes)},
         Conclude(n, Verdict({}, active, {}), found, contest)
  PROVE  LanesOK /\ round' = Between
<1>1. VerdictOK(Verdict({}, active, {}))
  BY VerdictIsOK DEF LanesInv, Named
<1> QED BY <1>1, ConcludeOK

-----------------------------------------------------------------------------
(* The lanes, action by action.                                            *)

LEMMA BetweenRoundsLanes ==
  ASSUME LanesInv,
         (\E q \in Queries : Discover(q)) \/ StartRound \/ Stop
  PROVE  LanesOK
<1>1. ASSUME NEW q \in Queries, Discover(q) PROVE LanesOK
  <2>1. LanesInv' /\ LanesStep({}) /\ finding' = finding
    BY <1>1, DiscoverOK DEF Discover
  <2> QED BY <2>1 DEF LanesOK, LanesStep
<1>2. CASE StartRound \/ Stop
  BY <1>2, LanesStay DEF StartRound, Stop
<1> QED BY <1>1, <1>2

LEMMA CandidatesFailedLanes ==
  ASSUME LanesInv, CandidatesFailed
  PROVE  LanesOK /\ round' = Between
  BY ConcludeOpen DEF CandidatesFailed, Unchallenged

LEMMA GenerateLanes ==
  ASSUME LanesInv,
         \/ GenerateNothing \/ GenerateRejected \/ GenerateProviderFails
         \/ GenerateInvalid \/ GenerateValid
  PROVE  LanesOK
<1>1. CASE UNCHANGED <<lanes, trace, finding>>
  BY <1>1, LanesStay
<1>2. CASE CandidatesFailed
  BY <1>2, CandidatesFailedLanes
<1>3. ASSUME NEW contest, Conclude(0, Unchallenged, "not_searched", contest)
      PROVE  LanesOK
  BY <1>3, ConcludeOpen DEF Unchallenged
<1>4. CASE GenerateNothing
  BY <1>3, <1>4 DEF GenerateNothing
<1>5. CASE GenerateRejected
  BY <1>1, <1>2, <1>5 DEF GenerateRejected
<1>6. CASE GenerateProviderFails
  BY <1>2, <1>6 DEF GenerateProviderFails
<1>7. CASE GenerateInvalid
  BY <1>1, <1>2, <1>7 DEF GenerateInvalid
<1>8. CASE GenerateValid
  <2>1. PICK n \in 0..2, rival, closed, coherent, answered \in BOOLEAN :
          /\ n = 0 => closed /\ coherent
          /\ ~answered => finding.candidates > 0
          /\ rival => n = 2
          /\ IF SentBack(closed, RepairWanted(n, rival, coherent, answered))
             THEN Retry /\ UNCHANGED <<lanes, trace, finding>>
             ELSE LET contest == ContestOf(n, rival, coherent, answered)
                  IN  IF n = 0
                      THEN Conclude(0, Unchallenged, "not_searched", contest)
                      ELSE /\ round' = [round EXCEPT !.pc = "compare", !.attempt = 1,
                                                     !.candidates = n, !.contest = contest]
                           /\ UNCHANGED <<lanes, trace, finding>>
    BY <1>8 DEF GenerateValid
  <2> QED BY <1>1, <1>3, <2>1
<1> QED BY <1>4, <1>5, <1>6, <1>7, <1>8

LEMMA CompareLanes ==
  ASSUME LanesInv, Compare
  PROVE  LanesOK
<1>1. CASE UNCHANGED <<lanes, trace, finding>>
  BY <1>1, LanesStay
<1>2. CASE /\ DOMAIN lanes = {}
           /\ Conclude(round.candidates, Verdict({NothingToCompare}, {}, {}),
                       "alternatives_eliminated", round.contest)
  <2>1. Named({NothingToCompare}) = {}
    BY DEF Named, NothingToCompare
  <2>2. VerdictOK(Verdict({NothingToCompare}, {}, {}))
    BY <2>1, VerdictIsOK DEF LanesInv
  <2> QED BY <1>2, <2>2, ConcludeOK
<1> QED BY <1>1, <1>2 DEF Compare

LEMMA ChallengeLanes ==
  ASSUME LanesInv,
         \/ ChallengeDeferred \/ ChallengeTooLong \/ ChallengeProviderFails
         \/ ChallengeInvalid \/ ChallengeAnswered
  PROVE  LanesOK
<1>1. CASE UNCHANGED <<lanes, trace, finding>>
  BY <1>1, LanesStay
<1>2. ASSUME NEW contest, ChallengeFailed(contest) PROVE LanesOK
  BY <1>2, ConcludeOpen DEF ChallengeFailed, Unanswered
<1>3. CASE ChallengeAnswered
  <2> DEFINE active == ActiveLanes(lanes)
             valid  == ValidChallenges(active, round.candidates, round.requirement)
  <2>1. PICK cs \in {a \in Answers : a \subseteq valid} :
          Conclude(round.candidates, Verdict(cs, active, {}),
                   SearchStatus(Verdict(cs, active, {}), Verdict(cs, active, {}).resolutions),
                   round.contest)
    BY <1>3 DEF ChallengeAnswered
  <2>2. Named(cs) \subseteq active
    BY <2>1 DEF ValidChallenges, Named
  <2>3. VerdictOK(Verdict(cs, active, {}))
    BY <2>2, VerdictIsOK DEF LanesInv
  <2> QED BY <2>1, <2>3, ConcludeOK
<1> QED BY <1>1, <1>2, <1>3
        DEF ChallengeDeferred, ChallengeTooLong, ChallengeProviderFails, ChallengeInvalid

-----------------------------------------------------------------------------
(* The round and its calls, action by action.                              *)

RoundOK == /\ round \in [pc : {"between", "generate", "compare", "challenge", "ended"},
                         attempt : 1..OutputAttempts, requirement : Requirements,
                         candidates : 0..2, contest : Contests]
           /\ calls \in 0..CallLimit
           /\ CallsKept

(* What a step of a round makes of it.                                     *)
RoundStepOK == RoundOK' /\ calls' > 0

LEMMA RoundEnds ==
  ASSUME NEW n, NEW verdict, NEW found, NEW contest, Conclude(n, verdict, found, contest)
  PROVE  round' = Between
  BY DEF Conclude

LEMMA BetweenOK ==
  ASSUME round' = Between, calls' \in 0..CallLimit
  PROVE  RoundOK'
  BY DEF RoundOK, CallsKept, Between, OutputAttempts, Requirements, Contests

(* A second attempt.                                                       *)
LEMMA RetryOK ==
  ASSUME RoundOK, Retry, calls' \in 0..CallLimit,
         round.pc = "generate" \/ round.pc = "challenge", calls' >= 2
  PROVE  RoundOK'
<1>1. /\ round'.pc = round.pc /\ round'.attempt = 2
      /\ round' \in [pc : {"between", "generate", "compare", "challenge", "ended"},
                      attempt : 1..OutputAttempts, requirement : Requirements,
                      candidates : 0..2, contest : Contests]
  BY DEF RoundOK, Retry, OutputAttempts
<1> QED BY <1>1, CallsAssumption DEF RoundOK, CallsKept

LEMMA BetweenRoundsRound ==
  ASSUME RoundOK, (\E q \in Queries : Discover(q)) \/ StartRound \/ Stop
  PROVE  RoundOK' /\ round.pc = "between"
<1>1. calls \in Nat /\ CallLimit \in Nat /\ calls <= CallLimit
  BY CallsAssumption DEF RoundOK
<1>2. Planned => calls' \in 0..CallLimit /\ round.pc = "between"
  BY <1>1 DEF Planned, Spend
<1>3. ASSUME NEW q \in Queries, Discover(q) PROVE RoundOK' /\ round.pc = "between"
  <2>1. Planned /\ round' = round
    BY <1>3 DEF Discover
  <2> QED BY <1>2, <2>1 DEF RoundOK, CallsKept
<1>4. CASE StartRound
  <2>1. PICK ready \in SUBSET ActiveLanes(lanes) :
          round' = [Between EXCEPT !.pc = "generate",
                                   !.requirement = Requirement(lanes, ready)]
    BY <1>4 DEF StartRound
  <2>2. Planned /\ calls' >= 3
    BY <1>4 DEF StartRound, RoundCovered, MinReasoningCalls
  <2>3. Requirement(lanes, ready) \in Requirements
    BY DEF Requirement, Requirements
  <2>4. /\ round'.pc = "generate" /\ round'.attempt = 1
        /\ round' \in [pc : {"between", "generate", "compare", "challenge", "ended"},
                        attempt : 1..OutputAttempts, requirement : Requirements,
                        candidates : 0..2, contest : Contests]
    <3>1. round' = [pc |-> "generate", attempt |-> 1, requirement |-> Requirement(lanes, ready),
                    candidates |-> 0, contest |-> "not_evaluated"]
      BY <2>1 DEF Between
    <3> HIDE DEF Requirements
    <3> QED BY <2>3, <3>1 DEF OutputAttempts, Contests
  <2> QED BY <1>2, <2>2, <2>4 DEF RoundOK, CallsKept
<1>5. CASE Stop
  <2>1. calls' \in 0..CallLimit /\ round.pc = "between"
    BY <1>1, <1>2, <1>5 DEF Stop
  <2>2. /\ round'.pc = "ended"
        /\ round' \in [pc : {"between", "generate", "compare", "challenge", "ended"},
                        attempt : 1..OutputAttempts, requirement : Requirements,
                        candidates : 0..2, contest : Contests]
    BY <1>5 DEF Stop, RoundOK
  <2> QED BY <2>1, <2>2 DEF RoundOK, CallsKept
<1> QED BY <1>3, <1>4, <1>5

LEMMA GenerateRound ==
  ASSUME RoundOK,
         \/ GenerateNothing \/ GenerateRejected \/ GenerateProviderFails
         \/ GenerateInvalid \/ GenerateValid
  PROVE  RoundStepOK
<1>1. /\ calls \in Nat /\ CallLimit \in Nat /\ calls <= CallLimit
      /\ round.attempt \in {1, 2}
  BY CallsAssumption DEF RoundOK, OutputAttempts
<1>2. round.pc = "generate"
  BY DEF GenerateNothing, GenerateRejected, GenerateProviderFails, GenerateInvalid,
         GenerateValid
<1>3. calls >= 4 - round.attempt
  BY <1>2 DEF RoundOK, CallsKept
<1>4. (Spend \/ UNCHANGED calls) =>
        /\ calls' \in 0..CallLimit /\ calls' > 0
        /\ round.attempt < OutputAttempts => calls' >= 2
  BY <1>1, <1>3 DEF Spend, OutputAttempts
<1>5. CandidatesFailed => round' = Between
  BY RoundEnds DEF CandidatesFailed
<1>6. ASSUME Spend \/ UNCHANGED calls, round' = Between PROVE RoundStepOK
  BY <1>4, <1>6, BetweenOK DEF RoundStepOK
<1>7. ASSUME Spend \/ UNCHANGED calls, round.attempt < OutputAttempts, Retry
      PROVE  RoundStepOK
  BY <1>2, <1>4, <1>7, RetryOK DEF RoundStepOK
<1>8. CASE GenerateNothing
  BY <1>6, <1>8, RoundEnds DEF GenerateNothing
<1>9. CASE GenerateRejected
  BY <1>5, <1>6, <1>7, <1>9 DEF GenerateRejected
<1>10. CASE GenerateProviderFails
  BY <1>5, <1>6, <1>10 DEF GenerateProviderFails
<1>11. CASE GenerateInvalid
  BY <1>5, <1>6, <1>7, <1>11 DEF GenerateInvalid
<1>12. CASE GenerateValid
  <2>1. PICK n \in 0..2, rival, closed, coherent, answered \in BOOLEAN :
          /\ n = 0 => closed /\ coherent
          /\ ~answered => finding.candidates > 0
          /\ rival => n = 2
          /\ IF SentBack(closed, RepairWanted(n, rival, coherent, answered))
             THEN Retry /\ UNCHANGED <<lanes, trace, finding>>
             ELSE LET contest == ContestOf(n, rival, coherent, answered)
                  IN  IF n = 0
                      THEN Conclude(0, Unchallenged, "not_searched", contest)
                      ELSE /\ round' = [round EXCEPT !.pc = "compare", !.attempt = 1,
                                                     !.candidates = n, !.contest = contest]
                           /\ UNCHANGED <<lanes, trace, finding>>
    BY <1>12 DEF GenerateValid
  <2>2. Spend
    BY <1>12 DEF GenerateValid
  <2> DEFINE back    == SentBack(closed, RepairWanted(n, rival, coherent, answered))
             contest == ContestOf(n, rival, coherent, answered)
  <2>3. back => round.attempt < OutputAttempts
    BY DEF SentBack
  <2>4. contest \in Contests
    <3>1. Assessed(n, rival) \in {"not_required", "pending", "active"}
      <4>1. round.requirement \in Requirements
        BY DEF RoundOK
      <4>2. CASE round.requirement = "not_required"
        BY <4>2 DEF Assessed
      <4>3. CASE round.requirement = "alternative_discovery_required"
        BY <4>3 DEF Assessed
      <4>4. CASE round.requirement \in {"direction_required", "mechanism_required"}
        BY <4>4 DEF Assessed
      <4> QED BY <4>1, <4>2, <4>3, <4>4 DEF Requirements
    <3>2. contest \in {"not_required", "pending", Assessed(n, rival)}
      BY DEF ContestOf
    <3> QED BY <3>1, <3>2 DEF Contests
  <2> HIDE DEF back, contest
  <2>5. CASE back
    BY <1>7, <2>1, <2>2, <2>3, <2>5 DEF back
  <2>6. CASE ~back /\ n = 0
    BY <1>6, <2>1, <2>2, <2>6, RoundEnds DEF back
  <2>7. CASE ~back /\ n # 0
    <3>1. round' = [round EXCEPT !.pc = "compare", !.attempt = 1,
                                 !.candidates = n, !.contest = contest]
      BY <2>1, <2>7 DEF back, contest
    <3>2. /\ round'.pc = "compare" /\ round'.attempt = 1
          /\ round' \in [pc : {"between", "generate", "compare", "challenge", "ended"},
                          attempt : 1..OutputAttempts, requirement : Requirements,
                          candidates : 0..2, contest : Contests]
      <4>1. n \in 0..2
        BY <2>1
      <4>2. 1 \in 1..OutputAttempts
        BY DEF OutputAttempts
      <4>3. round \in [pc : {"between", "generate", "compare", "challenge", "ended"},
                       attempt : 1..OutputAttempts, requirement : Requirements,
                       candidates : 0..2, contest : Contests]
        BY DEF RoundOK
      <4> HIDE DEF Contests, Requirements, OutputAttempts
      <4> QED BY <2>4, <3>1, <4>1, <4>2, <4>3
    <3> QED BY <1>4, <2>2, <2>4, <3>2 DEF RoundStepOK, RoundOK, CallsKept
  <2> QED BY <2>5, <2>6, <2>7
<1> QED BY <1>8, <1>9, <1>10, <1>11, <1>12

LEMMA CompareRound ==
  ASSUME RoundOK, Compare
  PROVE  RoundStepOK
<1>1. /\ calls \in Nat /\ CallLimit \in Nat /\ calls <= CallLimit
      /\ round.pc = "compare" /\ round.attempt = 1 /\ calls >= 1
  BY CallsAssumption DEF RoundOK, Compare, CallsKept
<1>2. calls' \in 0..CallLimit /\ calls' > 0
  <2>1. CASE UNCHANGED calls
    BY <1>1, <2>1
  <2>2. CASE ComparisonAffordable /\ Spend
    BY <1>1, <2>2 DEF ComparisonAffordable, Affordable, PlannerReserve, Spend
  <2> QED BY <2>1, <2>2 DEF Compare
<1>3. CASE round' = Between
  BY <1>2, <1>3, BetweenOK DEF RoundStepOK
<1>4. CASE round' = [round EXCEPT !.pc = "challenge"]
  <2>1. /\ round'.pc = "challenge" /\ round'.attempt = 1
        /\ round' \in [pc : {"between", "generate", "compare", "challenge", "ended"},
                        attempt : 1..OutputAttempts, requirement : Requirements,
                        candidates : 0..2, contest : Contests]
    BY <1>1, <1>4 DEF RoundOK
  <2> QED BY <1>1, <1>2, <2>1 DEF RoundStepOK, RoundOK, CallsKept
<1> QED BY <1>3, <1>4, RoundEnds DEF Compare

LEMMA ChallengeRound ==
  ASSUME RoundOK,
         \/ ChallengeDeferred \/ ChallengeTooLong \/ ChallengeProviderFails
         \/ ChallengeInvalid \/ ChallengeAnswered
  PROVE  RoundStepOK
<1>1. /\ calls \in Nat /\ CallLimit \in Nat /\ calls <= CallLimit
      /\ round.attempt \in {1, 2}
  BY CallsAssumption DEF RoundOK, OutputAttempts
<1>2. round.pc = "challenge"
  BY DEF ChallengeDeferred, ChallengeTooLong, ChallengeProviderFails, ChallengeInvalid,
         ChallengeAnswered, Challengeable
<1>3. calls >= round.attempt
  BY <1>2 DEF RoundOK, CallsKept
<1>4. Challengeable => calls >= 2
  BY <1>1, <1>3 DEF Challengeable, Affordable, PlannerReserve
<1>5. UNCHANGED calls => calls' \in 0..CallLimit /\ calls' > 0
  BY <1>1, <1>3
<1>6. Challengeable /\ Spend => calls' \in 0..CallLimit /\ calls' > 0
  BY <1>1, <1>4 DEF Spend
<1>7. ASSUME NEW contest PROVE ChallengeFailed(contest) => round' = Between
  BY RoundEnds DEF ChallengeFailed
<1>8. CASE round' = Between
  <2>1. UNCHANGED calls \/ (Challengeable /\ Spend)
    BY DEF ChallengeDeferred, ChallengeTooLong, ChallengeProviderFails, ChallengeInvalid,
           ChallengeAnswered
  <2> QED BY <1>5, <1>6, <1>8, <2>1, BetweenOK DEF RoundStepOK
<1>9. CASE ChallengeDeferred \/ ChallengeTooLong \/ ChallengeProviderFails
  BY <1>7, <1>8, <1>9 DEF ChallengeDeferred, ChallengeTooLong, ChallengeProviderFails
<1>10. CASE ChallengeInvalid
  <2>1. CASE Retry /\ Affordable(calls', PlannerReserve)
    <3>1. calls' \in 0..CallLimit /\ calls' > 0 /\ calls' >= 2
      BY <1>6, <1>10, <2>1 DEF ChallengeInvalid, Affordable, PlannerReserve
    <3> QED BY <1>2, <2>1, <3>1, RetryOK DEF RoundStepOK
  <2> QED BY <1>7, <1>8, <1>10, <2>1 DEF ChallengeInvalid
<1>11. CASE ChallengeAnswered
  BY <1>8, <1>11, RoundEnds DEF ChallengeAnswered
<1> QED BY <1>9, <1>10, <1>11

-----------------------------------------------------------------------------
(* The inductive invariant: inventory and trace agree, the trace names the *)
(* lanes a round works on, and the calls that may still be needed are left.*)

IInv == LanesInv /\ RoundOK

LEMMA InitOK ==
  ASSUME Init
  PROVE  IInv
<1>1. /\ DOMAIN lanes = {} /\ IsFiniteSet(DOMAIN lanes)
      /\ Searchable(lanes) = {} /\ Eliminated(lanes) = {}
  BY FS_EmptySet DEF Init, Searchable, Eliminated
<1>2. /\ trace.active = {} /\ trace.overflow = {} /\ trace.eliminated = {}
      /\ trace.unresolved = {} /\ DOMAIN trace.resolutions = {}
  BY DEF Init, NoTrace, Nothing
<1>3. ActiveLanes(lanes) = {}
  BY <1>1, DiverseIsOpen DEF ActiveLanes
<1>4. LanesInv
  BY <1>1, <1>2, <1>3 DEF LanesInv, Inventory, InventoryAgrees
<1>5. RoundOK
  BY CallsAssumption
  DEF Init, RoundOK, CallsKept, Between, OutputAttempts, Requirements, Contests
<1> QED BY <1>4, <1>5 DEF IInv

LEMMA NextOK ==
  ASSUME IInv, Next
  PROVE  /\ IInv' /\ LanesOK
         /\ round.pc \in {"generate", "compare", "challenge"} => calls' > 0
<1>1. LanesInv /\ RoundOK
  BY DEF IInv, RoundOK
<1>2. CASE (\E q \in Queries : Discover(q)) \/ StartRound \/ Stop
  BY <1>1, <1>2, BetweenRoundsLanes, BetweenRoundsRound DEF IInv, LanesOK
<1>3. CASE \/ GenerateNothing \/ GenerateRejected \/ GenerateProviderFails
           \/ GenerateInvalid \/ GenerateValid
  BY <1>1, <1>3, GenerateLanes, GenerateRound DEF IInv, LanesOK, RoundStepOK
<1>4. CASE Compare
  BY <1>1, <1>4, CompareLanes, CompareRound DEF IInv, LanesOK, RoundStepOK
<1>5. CASE \/ ChallengeDeferred \/ ChallengeTooLong \/ ChallengeProviderFails
           \/ ChallengeInvalid \/ ChallengeAnswered
  BY <1>1, <1>5, ChallengeLanes, ChallengeRound DEF IInv, LanesOK, RoundStepOK
<1> QED BY <1>2, <1>3, <1>4, <1>5 DEF Next, RoundStep

(* Spec keeps the inductive invariant.                                     *)
THEOREM RoundsInvariant == Spec => []IInv
<1>1. IInv /\ UNCHANGED vars => IInv'
  <2>1. ASSUME IInv, UNCHANGED vars PROVE LanesInv' /\ RoundOK'
    <3>1. LanesInv'
      BY <2>1, LanesStay DEF IInv, vars, LanesOK
    <3>2. RoundOK'
      BY <2>1 DEF IInv, vars, RoundOK, CallsKept
    <3> QED BY <3>1, <3>2
  <2> QED BY <2>1 DEF IInv
<1> QED BY <1>1, InitOK, NextOK, PTL DEF Spec

(* Every lane is a process scope in a legal state, a round has a legal     *)
(* shape, and the calls left are between zero and the limit.               *)
THEOREM RoundsTypeCorrect == Spec => []TypeOK
<1>1. IInv => TypeOK
  BY DEF IInv, LanesInv, Inventory, LaneOK, RoundOK, TypeOK
<1> QED BY <1>1, RoundsInvariant, PTL

(* The competition trace tells the truth about the inventory of lanes.     *)
THEOREM InventoryIsTrue == Spec => []InventoryAgrees
<1>1. IInv => InventoryAgrees
  BY DEF IInv, LanesInv
<1> QED BY <1>1, RoundsInvariant, PTL

(* A lane is eliminated only by the round whose challenges resolved it     *)
(* away, never by what an earlier round left in the trace.                 *)
THEOREM EliminationIsEarned == Spec => EliminatedByChallenge
<1>1. IInv /\ [Next]_vars =>
        [Eliminated(lanes') \ Eliminated(lanes) \subseteq finding'.resolved]_vars
  BY NextOK DEF LanesOK, LanesStep
<1> QED BY <1>1, RoundsInvariant, PTL DEF Spec, EliminatedByChallenge

(* A discovery reopens an eliminated lane only with evidence it lacked.    *)
THEOREM ReopeningNeedsEvidence == Spec => ReopenedByEvidence
<1>1. IInv /\ [Next]_vars =>
        [\A l \in Eliminated(lanes) \ Eliminated(lanes') :
           lanes'[l].evidence # lanes[l].evidence]_vars
  BY NextOK DEF LanesOK, LanesStep
<1> QED BY <1>1, RoundsInvariant, PTL DEF Spec, ReopenedByEvidence

(* No round spends the call that the planner needs after it.               *)
THEOREM PlannerIsKept == Spec => PlannerCallKept
<1>1. IInv /\ [Next]_vars =>
        [round.pc \in {"generate", "compare", "challenge"} => calls' > 0]_vars
  BY NextOK
<1> QED BY <1>1, RoundsInvariant, PTL DEF Spec, PlannerCallKept
=============================================================================
