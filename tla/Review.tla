------------------------------- MODULE Review -------------------------------
(***************************************************************************)
(* What both approval services promise: a submitted item is decided by     *)
(* different people, each of whom decides once; one rejection is final,    *)
(* the second approval publishes.  MemoryApproval and KnowledgeIngestion   *)
(* implement it.                                                           *)
(***************************************************************************)
CONSTANTS Items, People

VARIABLES status, \* of each item
          votes   \* the decisions recorded on each item

reviewVars == <<status, votes>>

-----------------------------------------------------------------------------
ReviewInit == /\ status = [i \in Items |-> "absent"]
              /\ votes  = [i \in Items |-> {}]

Submit(i) ==
  /\ status[i] = "absent"
  /\ status' = [status EXCEPT ![i] = "pending"]
  /\ UNCHANGED votes

Vote(i, who, decision, outcome) ==
  /\ status[i] = "pending"
  /\ \A v \in votes[i] : v.who # who
  /\ votes'  = [votes EXCEPT ![i] = @ \cup {[who |-> who, decision |-> decision]}]
  /\ status' = [status EXCEPT ![i] = outcome]

Reject(i, who) == Vote(i, who, "reject", "rejected")

(* Nobody has rejected a pending item, so any earlier vote is an approval. *)
Approve(i, who) ==
  Vote(i, who, "approve", IF votes[i] = {} THEN "pending" ELSE "published")

ReviewNext ==
  \E i \in Items : \/ Submit(i)
                   \/ \E who \in People : Reject(i, who) \/ Approve(i, who)

ReviewSpec == ReviewInit /\ [][ReviewNext]_reviewVars
=============================================================================
