---------------------------- MODULE CausalLanes ----------------------------
(***************************************************************************)
(* The inventory of causal lanes: causal_lane_lifecycle.py and the lane    *)
(* choice of causal_competition.py, over the lanes that MES queries find   *)
(* (tool_layer.py).  A lane is a concrete process scope, so two queries    *)
(* that find one scope find one lane; each binds evidence of its own to it.*)
(* Nothing in the program blocks a lane: the status "blocked" is left out, *)
(* and so are the audit counters and the history of transitions.           *)
(***************************************************************************)
EXTENDS Integers, FiniteSets, FiniteSetsExt

CONSTANTS Lanes,        \* process scopes, numbered in the order of their ids
          Direction,    \* lane |-> operation, equipment, chamber, parameters
          Recipe,       \* lane |-> recipe
          Queries,      \* MES queries, by the scope they ask for
          Score,        \* query |-> the lanes it finds, with their priority
          ActiveLimit   \* lanes a round of reasoning works on: 3 in the code

ASSUME LanesAssumption ==
  /\ Lanes \subseteq Nat
  /\ \A q \in Queries :
       /\ DOMAIN Score[q] \subseteq Lanes /\ DOMAIN Score[q] # {}
       /\ IsFiniteSet(DOMAIN Score[q])
       /\ \A l \in DOMAIN Score[q] : Score[q][l] \in Nat
  /\ ActiveLimit \in Nat \ {0}

Investigations == {"evidence_collected", "eliminated"}
Lifecycles == {"created", "active", "deferred", "challenged", "eliminated"}

Lane == [investigation : Investigations, lifecycle : Lifecycles,
         evidence : SUBSET Queries, priority : Nat]

-----------------------------------------------------------------------------
(* An inventory inv is a function on the lanes discovered so far.          *)

(* lane_is_searchable.                                                     *)
IsSearchable(lane) == lane.investigation # "eliminated" /\ lane.lifecycle # "eliminated"

Searchable(inv) == {l \in DOMAIN inv : IsSearchable(inv[l])}

Eliminated(inv) == {l \in DOMAIN inv : inv[l].investigation = "eliminated"}

Before(inv, k, l) ==
  \/ inv[k].priority > inv[l].priority
  \/ inv[k].priority = inv[l].priority /\ k < l

(* The first n lanes of S.                                                 *)
FirstOf(inv, S, n) == {l \in S : Cardinality({k \in S : Before(inv, k, l)}) < n}

(* select_diverse_lane_ids among the open lanes: the one of highest        *)
(* priority, one of another direction, a sibling of the first that differs *)
(* in its recipe, then the next ones.                                      *)
Diverse(inv, open) ==
  LET primary  == FirstOf(inv, open, 1)
      others   == {l \in open : \A p \in primary : Direction[l] # Direction[p]}
      siblings == {l \in open : \A p \in primary : /\ Direction[l] = Direction[p]
                                                   /\ Recipe[l] # Recipe[p]}
      Add(chosen, S, n) ==
        chosen \cup FirstOf(inv, S \ chosen, Min({n, ActiveLimit - Cardinality(chosen)}))
  IN  IF Cardinality(open) <= ActiveLimit THEN open
      ELSE Add(Add(Add(primary, others, 1), siblings, 1), open, ActiveLimit)

ActiveLanes(inv) == Diverse(inv, Searchable(inv))

-----------------------------------------------------------------------------
NewLane(q, l) == [investigation |-> "evidence_collected", lifecycle |-> "created",
                  evidence |-> {q}, priority |-> Score[q][l]]

(* What every new discovery of a lane adds to it.                          *)
Extended(lane, q, l) ==
  [lane EXCEPT !.evidence = @ \cup {q}, !.priority = Max({@, Score[q][l]})]

Reopened(lane) ==
  [lane EXCEPT !.investigation = "evidence_collected", !.lifecycle = "created"]

(* Mutant: finding a lane again reopens it, whatever it brings.            *)
MergedAlways(lane, q, l) ==
  IF lane.investigation = "eliminated" THEN Reopened(Extended(lane, q, l))
  ELSE Extended(lane, q, l)

(* merge_lane_discovery: an eliminated lane is reopened by evidence that it*)
(* did not have.                                                           *)
Merged(lane, q, l) ==
  IF lane.investigation = "eliminated" /\ q \notin lane.evidence
  THEN Reopened(Extended(lane, q, l))
  ELSE Extended(lane, q, l)

(* reconcile_lane_inventory.                                               *)
Reconciled(inv, q) ==
  [l \in DOMAIN inv \cup DOMAIN Score[q] |->
     IF l \notin DOMAIN inv THEN NewLane(q, l)
     ELSE IF l \in DOMAIN Score[q] THEN Merged(inv[l], q, l)
     ELSE inv[l]]

(* Mutant: a lane that is active stays so until it is challenged.          *)
SnapshotSticky(inv, active) ==
  [l \in DOMAIN inv |->
     IF ~IsSearchable(inv[l]) \/ inv[l].lifecycle \in {"challenged", "active"} THEN inv[l]
     ELSE [inv[l] EXCEPT !.lifecycle = IF l \in active THEN "active" ELSE "deferred"]]

(* apply_active_lane_snapshot.                                             *)
Snapshot(inv, active) ==
  [l \in DOMAIN inv |->
     IF ~IsSearchable(inv[l]) \/ inv[l].lifecycle = "challenged" THEN inv[l]
     ELSE [inv[l] EXCEPT !.lifecycle = IF l \in active THEN "active" ELSE "deferred"]]

(* transition_lane, as a round of reasoning calls it.                      *)
Retired(inv, S) ==
  [l \in DOMAIN inv |->
     IF l \in S
     THEN [inv[l] EXCEPT !.investigation = "eliminated", !.lifecycle = "eliminated"]
     ELSE inv[l]]

(* mark_lanes_challenged.                                                  *)
Challenged(inv, S) ==
  [l \in DOMAIN inv |->
     IF l \in S /\ IsSearchable(inv[l]) THEN [inv[l] EXCEPT !.lifecycle = "challenged"]
     ELSE inv[l]]

-----------------------------------------------------------------------------
Requirements == {"direction_required", "mechanism_required",
                 "alternative_discovery_required", "not_required"}

(* build_candidate_competition_brief: what the active lanes call for.      *)
(* ready: the lanes whose process excursion and outcome are known; every   *)
(* lane has the evidence of its exposure.                                  *)
Requirement(inv, ready) ==
  LET active   == ActiveLanes(inv)
      eligible == {Direction[l] : l \in active \cap ready}
  IN  IF Cardinality(eligible) > 1 THEN "direction_required"
      ELSE IF eligible # {} THEN "mechanism_required"
      ELSE IF \E k, l \in active : Direction[k] # Direction[l] \/ Recipe[k] # Recipe[l]
      THEN "alternative_discovery_required"
      ELSE "not_required"
=============================================================================
