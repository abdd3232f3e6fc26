----------------------------- MODULE QueueWorker ----------------------------
(***************************************************************************)
(* The Worker processes of backend/yield_rca_api/worker.py running against *)
(* the queue of JobStore.tla, with the clients of the HTTP API.  A Worker  *)
(* runs one Job at a time: recover or claim, execute the Workflow while a  *)
(* heartbeat thread renews the lease, commit or report the failure, hand   *)
(* the committed result to the memory service.  Every database call can    *)
(* fail before or after its commit, a Worker can crash anywhere and is     *)
(* restarted, and a lease can expire under a Worker that is still running. *)
(***************************************************************************)
EXTENDS JobStore

CONSTANTS RetryBase,       \* retry_base_seconds
          MaxCrashes,      \* bound on crashes of Worker processes
          JoinMayTimeOut   \* may heartbeat.join(timeout) return too early?

Backoff(n) == RetryBase * 2 ^ (n - 1)

ASSUME WorkerAssumption ==
  /\ None \notin Jobs
  /\ RetryBase \in Backoffs
  /\ \A n \in 1 .. MaxAttempts : Backoff(n) \in Backoffs
  /\ MaxCrashes \in Nat
  /\ JoinMayTimeOut \in BOOLEAN

VARIABLES worker,      \* the run_once frame of each Worker process
          orphans,     \* Jobs whose heartbeat thread outlived its run_once
          candidates,  \* Jobs with a memory candidate
          crashes

workerVars == <<worker, orphans, candidates, crashes>>
sysVars    == <<vars, workerVars>>

-----------------------------------------------------------------------------
(* Where run_once is: executing the Workflow, about to call complete, in   *)
(* the exception handler about to call fail_attempt, or past the commit.   *)
Active == {"working", "committing", "failing", "posting"}

Frame == [pc        : Active \cup {"idle", "down"},
          job       : Jobs \cup {None},
          attempt   : Nat,          \* record.attempt_count of the claim
          lost      : BOOLEAN,      \* the lease_lost event
          beating   : BOOLEAN,      \* the heartbeat thread still loops
          retryable : BOOLEAN,      \* what classify_worker_error returned
          partial   : Nat]          \* attempt whose state the error carries

NoJob(pc) == [pc |-> pc, job |-> None, attempt |-> 0, lost |-> FALSE,
              beating |-> FALSE, retryable |-> FALSE, partial |-> 0]

At(w, pc) == worker[w].pc = pc

Set(w, frame) == worker' = [worker EXCEPT ![w] = frame]

(* Enter the exception handler of run_once.                                *)
Raise(w, retryable, partial) ==
  Set(w, [worker[w] EXCEPT !.pc = "failing", !.retryable = retryable,
                           !.partial = partial])

(* The finally clause of run_once: the heartbeat thread is told to stop    *)
(* and joined with a timeout; a thread stuck in its database call survives *)
(* the join.                                                               *)
EndRun(w) ==
  /\ Set(w, NoJob("idle"))
  /\ \/ UNCHANGED orphans
     \/ /\ JoinMayTimeOut /\ worker[w].beating
        /\ orphans' = [orphans EXCEPT ![w] = @ \cup {worker[w].job}]

-----------------------------------------------------------------------------
SysInit == /\ Init
           /\ worker     = [w \in Workers |-> NoJob("idle")]
           /\ orphans    = [w \in Workers |-> {}]
           /\ candidates = {}
           /\ crashes    = 0

(* POST /rca/jobs and POST /rca/jobs/{id}/cancel.                          *)
Submit(j) == Enqueue(j) /\ UNCHANGED workerVars
Cancel(j) == RequestCancel(j) /\ UNCHANGED workerVars

(* run_forever, between two calls of run_once.                             *)
Recover(w, S, d) ==
  /\ At(w, "idle")
  /\ RecoverStaleLeases(S, RetryBase, d)
  /\ UNCHANGED workerVars

(* Mutant: a Worker that lost its lease claims again while the Workflow of *)
(* its last claim still runs.                                              *)
ClaimAfterLoss(w, j, d) ==
  /\ ClaimNext(w, j, d)
  /\ \/ /\ At(w, "idle")
        /\ Set(w, [NoJob("working") EXCEPT !.job = j, !.beating = TRUE,
                                           !.attempt = row[j].attempts + 1])
     \/ worker[w].lost /\ UNCHANGED worker
  /\ UNCHANGED <<orphans, candidates, crashes>>

Claim(w, j, d) ==
  /\ At(w, "idle")
  /\ ClaimNext(w, j, d)
  /\ \/ Set(w, [NoJob("working") EXCEPT !.job = j, !.beating = TRUE,
                                        !.attempt = row[j].attempts + 1])
     \/ UNCHANGED worker    \* committed, but the connection broke: run_once raises
  /\ UNCHANGED <<orphans, candidates, crashes>>

(* The heartbeat thread renews the lease, or gives up for good: the lease  *)
(* is gone, or some database call of the loop raised, lease or no lease.   *)
Renew(w, d) ==
  /\ worker[w].beating
  /\ Heartbeat(w, worker[w].job, d)
  /\ UNCHANGED workerVars

StopBeating(w) ==
  /\ worker[w].beating
  /\ Set(w, [worker[w] EXCEPT !.beating = FALSE, !.lost = TRUE])
  /\ UNCHANGED <<vars, orphans, candidates, crashes>>

(* A heartbeat thread that survived the join finishes its one call; its    *)
(* lease_lost event is no longer read by anyone.                           *)
LateHeartbeat(w, j, d) ==
  /\ j \in orphans[w]
  /\ orphans' = [orphans EXCEPT ![w] = @ \ {j}]
  /\ Heartbeat(w, j, d) \/ UNCHANGED vars
  /\ UNCHANGED <<worker, candidates, crashes>>

(* The Workflow emits a public progress event.                             *)
Progress(w, d) ==
  /\ At(w, "working")
  /\ Cardinality(ProgressEvents(worker[w].job)) < MaxProgress
  /\ RecordProgress(w, worker[w].job, worker[w].attempt, d)
  /\ UNCHANGED workerVars

(* The first event, before workflow.run, is refused: JobLeaseLostError     *)
(* reaches run_once, which discards the attempt.                           *)
ProgressRefused(w, d) ==
  /\ At(w, "working")
  /\ ~HoldsLease(w, worker[w].job, d)
  /\ EndRun(w)
  /\ UNCHANGED <<vars, candidates, crashes>>

(* The Workflow, or a later progress event inside it, raises.  The error   *)
(* may carry the partial state of this attempt.                            *)
WorkflowFails(w, retryable, partial) ==
  /\ At(w, "working")
  /\ Raise(w, retryable, partial)
  /\ UNCHANGED <<vars, orphans, candidates, crashes>>

(* The Workflow returns; a lost lease is noticed here or not at all.       *)
WorkflowReturns(w) ==
  /\ At(w, "working")
  /\ IF worker[w].lost THEN EndRun(w)
     ELSE /\ Set(w, [worker[w] EXCEPT !.pc = "committing"])
          /\ UNCHANGED orphans
  /\ UNCHANGED <<vars, candidates, crashes>>

(* Mutant: run_once does not look at the status complete returned.         *)
CommitThenPost(w, d) ==
  /\ At(w, "committing")
  /\ Complete(w, worker[w].job, worker[w].attempt, d)
  /\ Set(w, [worker[w] EXCEPT !.pc = "posting"])
  /\ UNCHANGED <<orphans, candidates, crashes>>

(* store.complete succeeds: a completed Job goes on to the memory service, *)
(* a cancelled one is done.  If only the reply is lost, run_once takes the *)
(* committed result for a failure.                                         *)
Commit(w, d) ==
  /\ At(w, "committing")
  /\ Complete(w, worker[w].job, worker[w].attempt, d)
  /\ \/ /\ row'[worker[w].job].status = "completed"
        /\ Set(w, [worker[w] EXCEPT !.pc = "posting"])
        /\ UNCHANGED orphans
     \/ row'[worker[w].job].status = "cancelled" /\ EndRun(w)
     \/ Raise(w, FALSE, 0) /\ UNCHANGED orphans
  /\ UNCHANGED <<candidates, crashes>>

(* store.complete refuses (lease lost: discard the result) or fails.       *)
CommitFails(w, d) ==
  /\ At(w, "committing")
  /\ \/ ~HoldsLease(w, worker[w].job, d) /\ EndRun(w)
     \/ Raise(w, FALSE, 0) /\ UNCHANGED orphans
  /\ UNCHANGED <<vars, candidates, crashes>>

(* store.fail_attempt succeeds, or is refused or fails: then lease         *)
(* recovery decides.                                                       *)
ReportFailure(w, d) ==
  /\ At(w, "failing")
  /\ \/ FailAttempt(w, worker[w].job, worker[w].retryable,
                    Backoff(worker[w].attempt), worker[w].partial, d)
     \/ UNCHANGED vars
  /\ EndRun(w)
  /\ UNCHANGED <<candidates, crashes>>

(* memory_service.create_from_state; ineligible results and errors are     *)
(* swallowed.                                                              *)
PostCommit(w) ==
  /\ At(w, "posting")
  /\ candidates' \in {candidates, candidates \cup {worker[w].job}}
  /\ EndRun(w)
  /\ UNCHANGED <<vars, crashes>>

(* The process dies, at any point, and the container is restarted.         *)
Crash(w) ==
  /\ ~At(w, "down")
  /\ crashes < MaxCrashes
  /\ crashes' = crashes + 1
  /\ Set(w, NoJob("down"))
  /\ orphans' = [orphans EXCEPT ![w] = {}]
  /\ UNCHANGED <<vars, candidates>>

Restart(w) ==
  /\ At(w, "down")
  /\ Set(w, NoJob("idle"))
  /\ UNCHANGED <<vars, orphans, candidates, crashes>>

TimePasses == Tick /\ UNCHANGED workerVars

-----------------------------------------------------------------------------
Recovers(w) == \E S \in SUBSET Jobs, d \in Stamps : Recover(w, S, d)
Claims(w)   == \E j \in Jobs, d \in Stamps : Claim(w, j, d)

(* The steps of run_once between the claim and its end.                    *)
Advance(w) ==
  \/ \E retryable \in BOOLEAN, partial \in {0, worker[w].attempt} :
       WorkflowFails(w, retryable, partial)
  \/ WorkflowReturns(w)
  \/ \E d \in Stamps : \/ ProgressRefused(w, d)
                       \/ Commit(w, d)
                       \/ CommitFails(w, d)
                       \/ ReportFailure(w, d)
  \/ PostCommit(w)

Background(w) ==
  \/ StopBeating(w)
  \/ \E d \in Stamps : \/ Renew(w, d)
                       \/ Progress(w, d)
                       \/ \E j \in Jobs : LateHeartbeat(w, j, d)
  \/ Crash(w)

SysNext ==
  \/ \E j \in Jobs : Submit(j) \/ Cancel(j)
  \/ \E w \in Workers : \/ Recovers(w)
                        \/ Claims(w)
                        \/ Advance(w)
                        \/ Background(w)
                        \/ Restart(w)
  \/ TimePasses

SysSpec == SysInit /\ [][SysNext]_sysVars

(* Time passes, a started run_once comes to its end (LLM and tool calls    *)
(* are bounded by timeouts), some Worker keeps looping through recovery    *)
(* and claims, and compose restarts what crashed.                          *)
Fairness ==
  /\ WF_sysVars(TimePasses)
  /\ WF_sysVars(\E w \in Workers : Recovers(w))
  /\ WF_sysVars(\E w \in Workers : Claims(w))
  /\ \A w \in Workers : WF_sysVars(Advance(w)) /\ WF_sysVars(Restart(w))

FairSpec == SysSpec /\ Fairness

-----------------------------------------------------------------------------
(* Properties.                                                             *)

(* The local state of the Worker processes has its declared shape.         *)
FrameOK == /\ worker \in [Workers -> Frame]
           /\ orphans \in [Workers -> SUBSET Jobs]
           /\ candidates \subseteq Jobs
           /\ crashes \in Nat
           /\ \A w \in Workers :
                IF worker[w].pc \in Active THEN worker[w].job \in Jobs
                ELSE worker[w] = NoJob(worker[w].pc)

(* A Worker that still holds the lease of the Job it runs runs the current *)
(* attempt of that Job.  The store fences by worker id alone, so this is   *)
(* what keeps an older execution of the same Worker from passing the lease *)
(* check of a newer one.                                                   *)
LeaseMeansCurrent ==
  \A w \in Workers :
    LET j == worker[w].job
    IN worker[w].pc \in Active =>
         /\ worker[w].attempt \in AttemptsOf(w, j)
         /\ worker[w].partial \in {0, worker[w].attempt}
         /\ row[j].owner = w => worker[w].attempt = row[j].attempts

(* "prevent a late Worker from overwriting a recovered Job": the result of *)
(* a completed Job was computed by its last attempt, never by an abandoned *)
(* one, and a partial state never comes from an attempt not yet made.      *)
LastAttemptWins ==
  \A j \in Jobs :
    /\ row[j].payload.kind = "final" => row[j].payload.attempt = row[j].attempts
    /\ row[j].payload.attempt <= row[j].attempts

(* Each progress event in the public stream was emitted by the attempt     *)
(* whose job_started event is the latest before it, although the event row *)
(* names no attempt.                                                       *)
ProgressIsAttributable ==
  \A j \in Jobs : \A i \in ProgressEvents(j) :
    \E k \in 1 .. i - 1 :
      /\ log[j][k].type = "started"
      /\ log[j][k].attempt = log[j][i].attempt
      /\ \A m \in k + 1 .. i - 1 : log[j][m].type # "started"

(* Only the committed result reaches the memory service, from one Worker,  *)
(* and never the result of a cancelled or failed Job.                      *)
MemoryFollowsCommit ==
  /\ \A j \in candidates : row[j].status = "completed"
  /\ \A w \in Workers : At(w, "posting") =>
       /\ row[worker[w].job].status = "completed"
       /\ row[worker[w].job].payload = [kind |-> "final", attempt |-> worker[w].attempt]
       /\ ledger[worker[w].job][worker[w].attempt].worker = w

(* Every accepted Job reaches a terminal status, through crashes, lost     *)
(* leases, failed commits and retries.                                     *)
EveryJobEnds ==
  \A j \in Jobs : row[j].status = "queued" ~> row[j].status \in Terminal

(* An accepted cancellation takes effect, also when the Worker that runs   *)
(* the Job never notices it or dies.                                       *)
CancellationEnds ==
  \A j \in Jobs : row[j].cancelRequested ~> row[j].status = "cancelled"
=============================================================================
