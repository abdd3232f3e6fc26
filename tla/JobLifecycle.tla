---------------------------- MODULE JobLifecycle ----------------------------
(***************************************************************************)
(* What the asynchronous queue promises about one Job, whoever moves it:   *)
(* the transition table _ALLOWED_TRANSITIONS of store.py, the attempt      *)
(* budget, and the immutability of terminal states.  Several Jobs may move *)
(* in one step, because recover_stale_leases settles a batch of Jobs in a  *)
(* single transaction.                                                     *)
(***************************************************************************)
EXTENDS Integers

CONSTANTS Jobs,         \* the Jobs clients submit
          MaxAttempts   \* max_attempts of every queue record

VARIABLES status,       \* the public status of each Job, "absent" before POST
          attempts      \* how often a Worker started the Job

vars == <<status, attempts>>

Terminal == {"completed", "failed", "cancelled"}

AllowedTransitions ==
  [ absent           |-> {"queued"},
    queued           |-> {"running", "cancelled"},
    running          |-> {"completed", "failed", "retry_wait", "cancel_requested"},
    retry_wait       |-> {"running", "cancelled"},
    cancel_requested |-> {"cancelled"},
    completed        |-> {},
    failed           |-> {},
    cancelled        |-> {} ]

Statuses == DOMAIN AllowedTransitions

-----------------------------------------------------------------------------

Init == /\ status   = [j \in Jobs |-> "absent"]
        /\ attempts = [j \in Jobs |-> 0]

(* One Job moves along the table.  Only a start spends an attempt, and a   *)
(* Job is sent back to wait only while it has one left.                    *)
Move(j) ==
  /\ status'[j] \in AllowedTransitions[status[j]]
  /\ IF status'[j] = "running"
     THEN attempts[j] < MaxAttempts /\ attempts'[j] = attempts[j] + 1
     ELSE attempts'[j] = attempts[j]
  /\ status'[j] = "retry_wait" => attempts[j] < MaxAttempts

Stay(j) == status'[j] = status[j] /\ attempts'[j] = attempts[j]

Next == /\ status'   \in [Jobs -> Statuses]
        /\ attempts' \in [Jobs -> 0 .. MaxAttempts]
        /\ \A j \in Jobs : Move(j) \/ Stay(j)

Spec == Init /\ [][Next]_vars
=============================================================================
