------------------------------ MODULE JobStore ------------------------------
(***************************************************************************)
(* The durable RCA job queue, PostgresRCAJobStore of                       *)
(* backend/yield_rca_api/store.py.  Its three tables are the variables:    *)
(* rca_job_state (row), rca_job_attempt (ledger), rca_job_event (log).     *)
(* Every public method is one transaction under the row lock of its Job,   *)
(* hence one action.  The client is the most general one: any Worker may   *)
(* call any method on any Job at any time; QueueWorker.tla restricts it to *)
(* the calls worker.py makes.                                              *)
(*                                                                         *)
(* Time is relative.  row[j].lease and row[j].wait are the seconds left    *)
(* until lease_expires_at and next_attempt_at; Tick decreases them.  A     *)
(* method samples its timestamp in Python, on its own host and before it   *)
(* gets the row lock, so the stamp d it uses is off the true time by up to *)
(* MaxSkew in either direction: a lease is expired at the stamp when       *)
(* lease <= d, and a lease granted at the stamp has LeaseSeconds + d left. *)
(***************************************************************************)
EXTENDS Integers, Sequences, FiniteSets

CONSTANTS Jobs,          \* job ids, each a fresh uuid of POST /rca/jobs
          Workers,       \* worker ids, unique per Worker process
          None,          \* SQL NULL in lease_owner
          MaxAttempts,   \* max_attempts of a queue record (3 in production)
          LeaseSeconds,  \* length of a lease
          Backoffs,      \* retry_after_seconds a caller may pass
          MaxSkew,       \* bound on clock skew plus lock wait
          MaxProgress    \* bound on progress events per Job

ASSUME StoreAssumption ==
  /\ None \notin Workers
  /\ MaxAttempts  \in Nat \ {0}
  /\ LeaseSeconds \in Nat \ {0}
  /\ Backoffs \subseteq Nat
  /\ MaxSkew \in Nat
  /\ MaxProgress \in Nat

VARIABLES row, ledger, log

vars == <<row, ledger, log>>

-----------------------------------------------------------------------------
(* The data of the three tables.                                           *)

Terminal == {"completed", "failed", "cancelled"}
Waiting  == {"queued", "retry_wait"}
Leased   == {"running", "cancel_requested"}
Statuses == {"absent"} \cup Waiting \cup Leased \cup Terminal

Stamps == -MaxSkew .. MaxSkew
Past   == -MaxSkew            \* no stamp can tell earlier instants apart

(* Which execution the stored RCAState payload comes from: the accepted    *)
(* request, the partial state of a failed attempt, or a finished Workflow. *)
Payload == [kind : {"accepted", "partial", "final"}, attempt : Nat]
Accepted == [kind |-> "accepted", attempt |-> 0]

Row == [status          : Statuses,
        attempts        : Nat,
        owner           : Workers \cup {None},
        lease           : Int,
        wait            : Int,
        cancelRequested : BOOLEAN,
        completedAt     : BOOLEAN,
        payload         : Payload]

AttemptStatus == {"running", "completed", "failed", "cancelled", "abandoned"}
Attempt == [worker : Workers, status : AttemptStatus]

(* A lifecycle event carries the new status and the attempt number, 0 when *)
(* the payload has none.  A progress event has no status; its attempt is   *)
(* the execution that emitted it, which the table itself does not record.  *)
Event == [type : {"queued", "started", "completed", "cancelled", "failed",
                  "retry_scheduled", "cancel_requested", "lease_recovered",
                  "progress"},
          status  : Statuses \cup {"none"},
          attempt : Nat]

Absent == [status |-> "absent", attempts |-> 0, owner |-> None,
           lease |-> Past, wait |-> Past, cancelRequested |-> FALSE,
           completedAt |-> FALSE, payload |-> Accepted]

Ev(type, status, n) == [type |-> type, status |-> status, attempt |-> n]

LogEvent(j, e) == log' = [log EXCEPT ![j] = Append(@, e)]

(* The UPDATE statements, on one row r.                                    *)
Started(r, w, d) == [r EXCEPT !.status   = "running",
                              !.attempts = @ + 1,
                              !.owner    = w,
                              !.lease    = LeaseSeconds + d,
                              !.wait     = Past]

Renewed(r, d) == [r EXCEPT !.lease = LeaseSeconds + d]

(* Mutant: lease_owner survives the end of the attempt.                    *)
ReleasedKeepsOwner(r, s, wait, payload) ==
  [r EXCEPT !.status = s, !.lease = Past, !.wait = wait,
            !.completedAt = s \in Terminal, !.payload = payload]

Released(r, s, wait, payload) == [r EXCEPT !.status      = s,
                                           !.owner       = None,
                                           !.lease       = Past,
                                           !.wait        = wait,
                                           !.completedAt = s \in Terminal,
                                           !.payload     = payload]

CancelledNow(r) == [r EXCEPT !.status          = "cancelled",
                             !.cancelRequested = TRUE,
                             !.completedAt     = TRUE,
                             !.wait            = Past]

CancelNoted(r) == [r EXCEPT !.status          = "cancel_requested",
                            !.cancelRequested = TRUE]

(* ... and on the attempts l of one Job.                                   *)
OpenAttempt(l, w) == Append(l, [worker |-> w, status |-> "running"])

(* Mutant: the UPDATE of rca_job_attempt has no attempt_number condition.  *)
CloseEveryAttempt(l, n, s) == [k \in DOMAIN l |-> [l[k] EXCEPT !.status = s]]

CloseAttempt(l, n, s) == [l EXCEPT ![n] = [@ EXCEPT !.status = s]]

(* Mutant: the lease check forgets who asks.                               *)
LeaseHeldByAnyone(w, j, d) == row[j].owner # None /\ row[j].lease > d

(* The lease check at the head of complete, fail_attempt, heartbeat and    *)
(* record_progress_event.                                                  *)
HoldsLease(w, j, d) == row[j].owner = w /\ row[j].lease > d

(* Mutants: a Job waiting for a retry is never claimed; a Job with a       *)
(* requested cancellation is never recovered.                              *)
EligibleWhenQueued(j, d)  == row[j].status = "queued" /\ row[j].wait <= d
StaleWhenRunning(j, d)    == row[j].status = "running" /\ row[j].lease <= d

Eligible(j, d) == row[j].status \in Waiting /\ row[j].wait <= d

Stale(j, d) == row[j].status \in Leased /\ row[j].lease <= d

(* The execution(s) of Job j that Worker w claimed; what w can report.     *)
AttemptsOf(w, j) == {n \in DOMAIN ledger[j] : ledger[j][n].worker = w}

-----------------------------------------------------------------------------
Init == /\ row    = [j \in Jobs |-> Absent]
        /\ ledger = [j \in Jobs |-> <<>>]
        /\ log    = [j \in Jobs |-> <<>>]

Enqueue(j) ==
  /\ row[j].status = "absent"
  /\ row' = [row EXCEPT ![j].status = "queued"]
  /\ LogEvent(j, Ev("queued", "queued", 0))
  /\ UNCHANGED ledger

(* ORDER BY priority, created_at ... FOR UPDATE SKIP LOCKED LIMIT 1: rows  *)
(* other transactions hold are skipped, so any eligible row can be first.  *)
ClaimNext(w, j, d) ==
  /\ Eligible(j, d)
  /\ row'    = [row EXCEPT ![j] = Started(@, w, d)]
  /\ ledger' = [ledger EXCEPT ![j] = OpenAttempt(@, w)]
  /\ LogEvent(j, Ev("started", "running", row[j].attempts + 1))

Heartbeat(w, j, d) ==
  /\ HoldsLease(w, j, d)
  /\ row[j].status \in Leased
  /\ row' = [row EXCEPT ![j] = Renewed(@, d)]
  /\ UNCHANGED <<ledger, log>>

(* Mutant: progress is written whoever holds the lease.                    *)
RecordProgressUnchecked(w, j, n, d) ==
  /\ row[j].status \in Leased
  /\ LogEvent(j, Ev("progress", "none", n))
  /\ UNCHANGED <<row, ledger>>

RecordProgress(w, j, n, d) ==
  /\ HoldsLease(w, j, d)
  /\ row[j].status \in Leased
  /\ LogEvent(j, Ev("progress", "none", n))
  /\ UNCHANGED <<row, ledger>>

(* The end of an attempt: lease, attempt and event in one transaction.     *)
Settle(j, status, wait, payload, closed, event) ==
  /\ row'    = [row EXCEPT ![j] = Released(@, status, wait, payload)]
  /\ ledger' = [ledger EXCEPT ![j] = CloseAttempt(@, row[j].attempts, closed)]
  /\ LogEvent(j, Ev(event, status, row[j].attempts))

(* Mutant: a cancelled Job keeps the result.                               *)
CompleteKeepsResult(w, j, n, d) ==
  /\ HoldsLease(w, j, d)
  /\ LET final == [kind |-> "final", attempt |-> n]
     IN \/ /\ row[j].status = "cancel_requested"
           /\ Settle(j, "cancelled", row[j].wait, final, "cancelled", "cancelled")
        \/ /\ row[j].status = "running"
           /\ Settle(j, "completed", row[j].wait, final, "completed", "completed")

(* Worker w commits the finished Workflow of attempt n; a requested        *)
(* cancellation keeps the stored state and discards the result.            *)
Complete(w, j, n, d) ==
  /\ HoldsLease(w, j, d)
  /\ \/ /\ row[j].status = "cancel_requested"
        /\ Settle(j, "cancelled", row[j].wait, row[j].payload,
                  "cancelled", "cancelled")
     \/ /\ row[j].status = "running"
        /\ Settle(j, "completed", row[j].wait, [kind |-> "final", attempt |-> n],
                  "completed", "completed")

CanRetry(j) == row[j].attempts < MaxAttempts

(* Mutant: a failure does not look for a requested cancellation.           *)
FailAttemptBlind(w, j, retryable, backoff, n, d) ==
  /\ HoldsLease(w, j, d)
  /\ IF retryable /\ CanRetry(j)
     THEN Settle(j, "retry_wait", backoff + d, row[j].payload,
                 "failed", "retry_scheduled")
     ELSE Settle(j, "failed", Past, row[j].payload, "failed", "failed")

(* Worker w reports a failure, with the partial state of attempt n or with *)
(* no state (n = 0).                                                       *)
FailAttempt(w, j, retryable, backoff, n, d) ==
  LET payload == IF n = 0 THEN row[j].payload
                 ELSE [kind |-> "partial", attempt |-> n]
  IN /\ HoldsLease(w, j, d)
     /\ \/ /\ row[j].status = "cancel_requested"
           /\ Settle(j, "cancelled", Past, payload, "cancelled", "cancelled")
        \/ /\ row[j].status # "cancel_requested"
           /\ retryable /\ CanRetry(j)
           /\ Settle(j, "retry_wait", backoff + d, payload,
                     "failed", "retry_scheduled")
        \/ /\ row[j].status # "cancel_requested"
           /\ ~(retryable /\ CanRetry(j))
           /\ Settle(j, "failed", Past, payload, "failed", "failed")

(* Mutant: every Job that is not running is taken for a waiting one.       *)
RequestCancelAnyway(j) ==
  /\ row[j].status \notin {"absent", "running", "cancel_requested", "cancelled"}
  /\ row' = [row EXCEPT ![j] = CancelledNow(@)]
  /\ LogEvent(j, Ev("cancelled", "cancelled", 0))
  /\ UNCHANGED ledger

(* A waiting Job is cancelled at once, a running one when its attempt      *)
(* ends.  A repeated request and one for a terminal Job change nothing.    *)
RequestCancel(j) ==
  /\ \/ /\ row[j].status \in Waiting
        /\ row' = [row EXCEPT ![j] = CancelledNow(@)]
        /\ LogEvent(j, Ev("cancelled", "cancelled", 0))
     \/ /\ row[j].status = "running"
        /\ row' = [row EXCEPT ![j] = CancelNoted(@)]
        /\ LogEvent(j, Ev("cancel_requested", "cancel_requested", 0))
  /\ UNCHANGED ledger

(* Mutants: recovery forgets a requested cancellation; its event always    *)
(* announces a retry.                                                      *)
AfterExpiryRetry(j) == IF CanRetry(j) THEN "retry_wait" ELSE "failed"
RecoveryAnnouncesRetry(j) == Ev("lease_recovered", "retry_wait", row[j].attempts)

(* One transaction settles the batch S of expired leases it could lock     *)
(* (SKIP LOCKED, LIMIT 100).                                               *)
AfterExpiry(j) == IF row[j].status = "cancel_requested" THEN "cancelled"
                  ELSE IF CanRetry(j) THEN "retry_wait" ELSE "failed"

Recovered(j, backoff, d) ==
  Released(row[j], AfterExpiry(j),
           IF AfterExpiry(j) = "retry_wait" THEN backoff + d ELSE Past,
           row[j].payload)

RecoveryEvent(j) ==
  Ev(IF AfterExpiry(j) = "cancelled" THEN "cancelled" ELSE "lease_recovered",
     AfterExpiry(j), row[j].attempts)

RecoverStaleLeases(S, backoff, d) ==
  /\ S # {}
  /\ \A j \in S : Stale(j, d)
  /\ row'    = [j \in Jobs |-> IF j \in S THEN Recovered(j, backoff, d)
                               ELSE row[j]]
  /\ ledger' = [j \in Jobs |->
                  IF j \in S
                  THEN CloseAttempt(ledger[j], row[j].attempts, "abandoned")
                  ELSE ledger[j]]
  /\ log'    = [j \in Jobs |-> IF j \in S THEN Append(log[j], RecoveryEvent(j))
                               ELSE log[j]]

Sooner(t) == IF t > Past THEN t - 1 ELSE t

Elapsed(r) == [r EXCEPT !.lease = Sooner(@), !.wait = Sooner(@)]

Tick == /\ row' = [j \in Jobs |-> Elapsed(row[j])]
        /\ UNCHANGED <<ledger, log>>

-----------------------------------------------------------------------------
ProgressEvents(j) == {i \in DOMAIN log[j] : log[j][i].type = "progress"}

Call(w, j, d) ==
  \/ ClaimNext(w, j, d)
  \/ Heartbeat(w, j, d)
  \/ \E n \in AttemptsOf(w, j) :
       /\ Cardinality(ProgressEvents(j)) < MaxProgress
       /\ RecordProgress(w, j, n, d)
  \/ \E n \in AttemptsOf(w, j) : Complete(w, j, n, d)
  \/ \E retryable \in BOOLEAN, backoff \in Backoffs, n \in AttemptsOf(w, j) \cup {0} :
       FailAttempt(w, j, retryable, backoff, n, d)

Next ==
  \/ \E j \in Jobs : Enqueue(j)
  \/ \E w \in Workers, j \in Jobs, d \in Stamps : Call(w, j, d)
  \/ \E j \in Jobs : RequestCancel(j)
  \/ \E S \in SUBSET Jobs, backoff \in Backoffs, d \in Stamps :
       RecoverStaleLeases(S, backoff, d)
  \/ Tick

Spec == Init /\ [][Next]_vars

-----------------------------------------------------------------------------
(* Properties.                                                             *)

(* The rows of the three tables have the columns the schema gives them.    *)
TypeOK == /\ row    \in [Jobs -> Row]
          /\ ledger \in [Jobs -> Seq(Attempt)]
          /\ log    \in [Jobs -> Seq(Event)]

(* The attempt table agrees with the job row: one numbered attempt per     *)
(* start, never more than max_attempts, all but the last one closed, and   *)
(* the last one open exactly while the Job is leased, by the Worker that   *)
(* holds the lease.  The six methods of store.py write the two tables by   *)
(* separate statements keyed by attempt_count.                             *)
LedgerMatches(r, l) ==
  /\ Len(l) = r.attempts
  /\ r.attempts <= MaxAttempts
  /\ \A n \in DOMAIN l :
       l[n].status = "running" <=> r.status \in Leased /\ n = r.attempts
  /\ r.status \in Leased => r.attempts > 0 /\ l[r.attempts].worker = r.owner
  /\ r.owner # None <=> r.status \in Leased

LedgerAgrees == \A j \in Jobs : LedgerMatches(row[j], ledger[j])

(* A waiting Job can always be started: a Job sent to retry_wait has an    *)
(* attempt left, so the budget test of fail_attempt and recovery is the    *)
(* only one claim_next needs.                                              *)
WaitingHasBudget ==
  \A j \in Jobs : row[j].status \in Waiting => row[j].attempts < MaxAttempts

(* An accepted cancellation is never lost: whatever the active attempt     *)
(* does afterwards, the Job can only end up cancelled; and a Job is        *)
(* cancelled only because someone asked (the assertion cancel_rca_job      *)
(* makes on cancel_requested_at).                                          *)
CancellationWins ==
  \A j \in Jobs :
    row[j].cancelRequested <=> row[j].status \in {"cancel_requested", "cancelled"}

(* The last lifecycle event a client can read is the status of the row,    *)
(* so a client that follows events only never disagrees with one that      *)
(* polls; nothing follows a terminal event, and completed_at is set with   *)
(* it.                                                                     *)
LifecycleEvents(g) == {i \in DOMAIN g : g[i].type # "progress"}

LogMatches(r, g) ==
  IF r.status = "absent" THEN g = <<>>
  ELSE \E i \in LifecycleEvents(g) :
         /\ \A k \in LifecycleEvents(g) : k <= i
         /\ g[i].status = r.status
         /\ r.status \in Terminal => i = Len(g)
         /\ r.completedAt <=> g[i].status \in Terminal

LogAgrees == \A j \in Jobs : LogMatches(row[j], log[j])

(* Only a completed Job exposes a finished Workflow result.                *)
ResultOnlyWhenCompleted ==
  \A j \in Jobs : row[j].payload.kind = "final" <=> row[j].status = "completed"

(* "completed, failed, and cancelled are immutable terminal states": no    *)
(* method touches the row, the attempts or the events of a finished Job.   *)
TerminalIsFinal ==
  [][\A j \in Jobs : row[j].status \in Terminal =>
       /\ row'[j]    = row[j]
       /\ ledger'[j] = ledger[j]
       /\ log'[j]    = log[j]]_vars

(* The three tables only grow: a closed attempt is never reopened or       *)
(* rewritten, and events already streamed to a client are never changed.   *)
HistoryIsStable ==
  [][\A j \in Jobs :
       /\ \A n \in DOMAIN ledger[j] :
            ledger[j][n].status # "running" => ledger'[j][n] = ledger[j][n]
       /\ \A i \in DOMAIN log[j] : log'[j][i] = log[j][i]]_vars

(* The store implements the documented Job lifecycle, although most of its *)
(* methods never call validate_job_transition.                             *)
Lifecycles == INSTANCE JobLifecycle
                WITH status   <- [j \in Jobs |-> row[j].status],
                     attempts <- [j \in Jobs |-> row[j].attempts]

ImplementsLifecycle == Lifecycles!Spec
=============================================================================
