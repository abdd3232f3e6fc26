# Verification of YieldMind-RCA: the asynchronous investigation system

YieldMind-RCA answers yield questions of a semiconductor fab.  A browser page
submits a question; an HTTP API accepts it as a *Job* in a PostgreSQL queue; a
*Worker* process claims the Job, runs a multi-agent investigation (planner,
specialists, hypothesis engine, LLM calls) and commits its result; a memory
service turns a supported conclusion into a *candidate* that two engineers may
approve as fab knowledge.

This directory holds TLA+ models of that system, TLC runs that check them on small
instances, and TLAPS proofs about them for every value of their constants.  Paths
below are relative to the repository, which the machine-readable index
`PROJECT.json` prefixes with `src/`.

## 1. Inventory

| component | code | state it keeps | operations |
|---|---|---|---|
| durable job queue | `backend/yield_rca_api/store.py`, migration `011` | tables `rca_job_state`, `rca_job_attempt`, `rca_job_event`, `rca_worker_heartbeat` | enqueue, claim_next, heartbeat, record_progress_event, complete, fail_attempt, request_cancel, recover_stale_leases, reads |
| queue worker | `backend/yield_rca_api/worker.py` | one `run_once` frame, one heartbeat thread per process | recover, claim, execute, commit or report, hand over to memory |
| HTTP endpoints, event stream | `backend/yield_rca_api/app.py` | none but the generator of each open SSE response | submit, cancel, read, stream |
| browser job page | `frontend/src/App.tsx`, `api.ts` | shown status and events, EventSource, timer, local storage | submit, cancel, refresh, poll, stream, reload |
| idempotent submission | `app.py`, `store.py` | unique key on `idempotency_key`, request hash | POST, retry of a POST |
| memory approval | `backend/yield_rca_api/memory.py`, `core/.../memory_models.py` | candidates, approvals, published cases and documents, index updates, audit rows | create, decide, publish |
| inline execution adapter | `app.py` (`execute_jobs_inline`) | a Job that is executed inside its POST | create, save |
| model selection | `model_selection.py`, `result_identity.py` | immutable snapshot of the runtime configuration | freeze, resolve, verify identity |
| LLM gateway, providers | `llm_gateway.py`, `model_runtime.py`, `providers/` | none between calls | one structured call with retries |
| supervisor, ReAct loop | `supervisor.py`, `workflow.py`, `investigation_policy.py` | RCAState of one investigation, budgets, decision trace | decide, act, observe, fall back, stop |
| next action planner | `next_action_planner.py`, `intent_planner.py` | none | propose and validate one decision |
| causal lanes, competition | `causal_lane_lifecycle.py`, `causal_competition*.py` | status and history of competing causal explanations | open, support, contradict, close, progress |
| causal confirmation gate | `causal_confirmation.py`, `investigation_finalizer.py` | none | decide whether a cause may be called confirmed |
| hypotheses, evidence | `hypothesis_engine.py`, `evidence_*.py`, `causal_evidence_*.py` | records inside RCAState | build, score, select |
| specialists, tools | `specialist_*.py`, `tool_layer.py`, `spc_engine.py`, `evidence_builder.py`, `evidence_collection.py` | the tools one action has run; findings and evidence in RCAState | bind an action to a scope, choose and run tools, build evidence, merge it |
| knowledge ingestion | `knowledge_ingestion.py`, `knowledge_store.py`, migration `007` | candidates with staged chunks, approvals, active documents and chunks | upload, decide, publish |
| retrieval, reranking | `hybrid_retrieval.py`, `reranking.py` | none | rank |
| audit, observability | `audit.py`, `observability.py` | append-only sinks | record |
| report generation | `report_generator.py`, `triage_*.py` | none | format |
| evaluation, benchmarks | `autonomous_evaluation.py`, `tools/`, `scripts/` | result files | batch runs |

**How they interact.**  API, Workers and page never talk to each other directly.
The API and all Workers share the PostgreSQL tables; each public method of the
store is one transaction that locks the row of its Job.  Inside a Worker, the main
thread and the heartbeat thread share two `Event` objects (`stop`, `lease_lost`).
The Workflow calls back into the store (`record_progress_event`) from inside the
investigation.  The page reads the Job by polling and by the event stream, whose
generator polls the database on the server.

**What is hard.**
* A lease can expire under a Worker that is still computing; another Worker then
  starts the next attempt of the same Job.  The only fence is the worker id and the
  lease time, evaluated on the Worker's own clock.
* A cancellation can arrive at any moment of an attempt, which may then complete,
  fail or lose its lease.
* Every database call may fail before or after its commit, so the caller does not
  know what happened; a process may die anywhere.
* The three tables are written by separate statements of six methods.
* The page gets answers of concurrent requests out of order, over connections that
  break, from a server that reads events and status in two transactions.
* An investigation has two planners.  The model's planner may fail at any decision, and
  the deterministic one takes over in the middle of what the other began; four places
  may end an investigation, each on its own reading of the evidence.
* Uploads are compared with what is pending or active by one statement and stored by
  another, while two services publish into one index.

**What makes the components correct** is listed with the modules below and, per
place in the code, under "hazards" in `PROJECT.json`.

## 2. The modules

```
JobLifecycle      what the queue promises about a Job     (abstract)
   ^ refined by
JobStore          the three tables and the eight methods
   ^ extended by                     ^ extended by
QueueWorker       Worker processes   EventStream          SSE generator + EventSource
                                        ^ extended by
                                     JobView              the browser page
   <-- JobQueueProofs (the store and both its clients)
```

```
Submission        POST /rca/jobs with an Idempotency-Key  <-- SubmissionProofs

Review            what both approval services promise     (abstract)
   ^ refined by                     ^ refined by
MemoryApproval    cases              KnowledgeIngestion   uploaded documents
   <-- MemoryApprovalProofs             <-- KnowledgeIngestionProofs

Investigation     the state of an investigation and its static registries
   ^ extended by
InvestigationPolicy      the deterministic policy
   ^ extended by                          ^ extended by
NextActionPlanner  the model's planner    InvestigationFinalizer  how it may end
   ^ extended by                          ^ extended by
   +--------------- ReactLoop ------------+     the loop of supervisor.py
                                                          <-- ReactLoopProofs

FabTools          the tools over a fab's history
   ^ extended by
SpecialistExecution   scope, tools, evidence of an action <-- SpecialistExecutionProofs

CausalLanes       the inventory of causal lanes
   ^ extended by
LaneChallenge     what challenges make of the lanes
   ^ extended by
CausalReasoning   rounds of RCA reasoning                 <-- CausalReasoningProofs

CausalEvidenceMatrix   typed evidence, and what it says of a candidate's claims
   ^ extended by
ConfirmationGate       admission, checks, conclusion and gaps of a candidate
   ^ extended by
ImpactScope            the checks of one impact lot
   ^ extended by
CausalConclusion       evidence, finding, published lots  <-- CausalConclusionProofs
```

The `MC*` modules only bring the models to TLC; each `.cfg` is one run.

### JobLifecycle
The abstract specification: the transition table `_ALLOWED_TRANSITIONS` of
`store.py`, in which a start costs one of `MaxAttempts` attempts, a Job goes back to
waiting only while one is left, and the three terminal states have no successor.
Several Jobs may move in one step (batch recovery).  In the code only
`request_cancel` and `save` call `validate_job_transition`; that the other methods
respect the table is therefore a statement worth checking, not a definition.

### JobStore
`row`, `ledger` and `log` are the three tables.  One action per method: `Enqueue`,
`ClaimNext`, `Heartbeat`, `RecordProgress`, `Complete`, `FailAttempt`,
`RequestCancel`, `RecoverStaleLeases`.  A method whose guard fails returns or raises
in the code without a write; that is a stutter here and no action of its own.  The
client is the most general one: any Worker may call any method on any Job, with any
attempt it ever claimed.

* *Time* is relative: `lease` and `wait` are the seconds left until
  `lease_expires_at` and `next_attempt_at`, and `Tick` decreases them.  Methods take
  their timestamp in Python, on their own host, before the row lock is granted, so the
  stamp `d` is off the true time by up to `MaxSkew` either way.  Instants earlier than
  any stamp can tell apart are one value, `Past`; this keeps time finite without
  bounding the number of ticks.
* *Ordering of claims.*  `ORDER BY priority, created_at ... FOR UPDATE SKIP LOCKED
  LIMIT 1` lets a claim skip rows other transactions hold, so `ClaimNext` may take any
  eligible Job.
* *The stored state* is abstracted to where it comes from: the accepted request, the
  partial state of attempt n, or the finished Workflow of attempt n.
* *A progress event* carries the attempt that emitted it.  The table has no such
  column; the model keeps it so that attribution can be stated.
* Left out: request, request hash and idempotency key (module Submission), error and
  checkpoint columns (no branch reads them), `record_worker_heartbeat` (a write-only
  table), and `create`/`save` (inline adapter).  Recovery takes at most 100 rows in the
  code; in the model it takes any subset of the expired ones, which includes that.

`InMemoryRCAJobStore` is a second implementation used by tests only; the model
follows `PostgresRCAJobStore`.

### QueueWorker
`worker[w]` is the `run_once` frame of a process: where it is (`working`,
`committing`, `failing`, `posting`), the Job and attempt number of its claim, whether
the heartbeat thread still loops, whether it set `lease_lost`, and what the exception
handler holds.  The actions follow `run_once` and `run_forever` in order:
`Recover`, `Claim`, then `WorkflowReturns` / `WorkflowFails` / `ProgressRefused`,
`Commit` / `CommitFails`, `ReportFailure`, `PostCommit`; the heartbeat thread is
`Renew` / `StopBeating`.

Failures: the answer of a committed claim or commit may be lost; every call may fail
without effect; a process may crash anywhere (`MaxCrashes`) and compose restarts it;
`heartbeat.join` may time out while the thread is inside its database call, which
leaves an `orphans` entry whose one call happens later.  Audit, metrics and usage
records are left out: their errors are swallowed and nothing reads them.

### EventStream
The generator `event_stream` alternates `SendEvents` (one transaction) and
`CheckStatus` (another); the EventSource receives events in order, loses what is on
the wire when the connection is cut, and reconnects with `Last-Event-ID`.

### JobView
The page: `view` is the shown status, `requests` and `answers` are the refreshes in
flight.  An answer is the status at the moment the server read the row, and answers
are applied in any order.  `Apply` includes the React effect that closes or opens
stream and timer when `rcaJobActive` changes.  `Reload` starts over from the URL.
Queue and Workers move on by any step of `JobStore`, which is more than real Workers
do, so what holds here holds with them.

### Submission
`stored` is the part of `rca_job_state` that submission is about: the idempotency key
and the request of each Job.  A call of `create_rca_job` is `Begin` (draw an id), then
`Insert` (the transaction of `_insert` commits) or `Collide` (the unique index refuses
it), and after a collision `Look` (`_get_by_idempotency_key` and the comparison of the
request hashes, in a second transaction).  `Insert` may commit and still fail for the
caller; `Fail` ends a call without effect at any point; and every answer may be lost on
its way (`Reply`), so the client posts again.  `heard` records the answers that
arrived, with two fields only the model knows: the id the call drew for itself, and
for a conflict the Job it conflicts with.

The module stands beside `JobStore` instead of on top of it: no later step writes
`idempotency_key` or `request_hash` and no row is deleted, so what happens to a Job
after its insertion cannot matter here, and `JobStore.Enqueue` is the same insertion
seen from the queue.  That uuids do not repeat and that SHA-256 tells requests apart is
assumed.  The refusal of malformed requests, before anything is stored, is left out.

### MemoryApproval
`row`, `approvals`, `library` and `audit` are the tables a decision writes:
`memory_candidate`, `memory_approval`, the published case with its document, chunks and
index record (one insertion in the code, so one variable: the decisions they cite), and
the candidate's part of `audit_event`.  Since `job_id` is unique a Job stands for its
candidate.

A handler of `POST .../approvals` goes through `Decide` (normalize the engineer id),
`Load` (`SELECT ... FOR UPDATE` and the approvals) and `Commit` (what `_apply_decision`
makes of *what was loaded*, and the five writes), or `Abort`.  The row lock is the
guard of `Load`: nobody else is loaded on the candidate.  The `RLock` of
`MemoryApprovalService` covers one process only and is left out; the two unique
indexes stay, as `Admitted`.  A reader takes no lock; its two statements are
`ReadCandidate` and `ReadApprovals`, and under READ COMMITTED decisions may fall
between them.  Whether a result is eligible, and what the document says besides the
decisions, is left out; `gated` is whether it recommends a recipe change.

### Review
The abstract specification of both approval services: an item is submitted, different
people vote on it once each, one rejection ends it and the second approval publishes
it.  `MemoryApproval` maps it from status, approvals *and* library (a published row
without its case would be `torn`), `KnowledgeIngestion` from status, approvals and
documents.  The Process Engineer rule is what `MemoryApproval` adds.

### KnowledgeIngestion
`upload[k]` is the call that handles one upload (its candidate id is fresh, so it names
the candidate), `row` and `approvals` are the candidate tables, `published` the
candidates with a `knowledge_document`, and `foreign` the contents of the other active
documents: built-in ones, and the cases `memory.py` publishes under the same unique
index (`PublishCase`).  `Check` and `Insert` are the SELECT and the INSERT of
`create_candidate`; at isolation level READ COMMITTED anything may happen between
them.  `Decide`, `Load`, `Commit` and `Abort` are as in `MemoryApproval`.  A content is
its hash; parsing and chunking are done before anything is stored.

### Investigation, InvestigationPolicy
The part of `RCAState` the loop decides on: the goal with the facts at hand, the status
of each question, the action history (an action's kind, gap, scope, result and the
questions its evidence was linked to), the findings of RCA reasoning, and the tool calls
spent.  Around it stand the static registries: which specialist an action runs and
what it needs, its tool cost, and per kind of question the evidence groups that close
it and the actions that fill them.  `InvestigationPolicy` is `investigation_policy.py`:
the next action for each intent, as a function of findings and completed actions.

### NextActionPlanner
`QwenNextActionPlanner._decide` around the model: which actions are legal for which
question or causal gap, the stages of a gap (observation, then one refresh of the
reasoning), the rule that limits rounds of reasoning, which options are of high value,
when Python stops or acts without the model, and the validation of what the model
proposes.  The model's answer is *any* action or stop that passes validation, or an
invalid one.

### InvestigationFinalizer
`progress_competition` and `finalize_investigation`: what the state of the candidate
competition lets an investigation end as, and the cap on what a planner may conclude
without a competition.

### ReactLoop
`_react_loop` in its two profiles.  A turn in llm mode is `Preflight`, then
`PlannerStops` / `PlannerActs` (Python decides) or `AskModel`, answered by `ModelActs`,
`ModelStops`, `InvalidOutput` (two outputs), `CallFails` (one retry over both) or
`OutOfCalls`; then `GateStops` or the dispatch, whose record comes before that of the
planner's decision.  `FallBack` swaps planner and profile and keeps the state.  A turn
in controlled mode is `ControlledChooses` and `ControlledActs`, or `ControlledStops`.
An exception no handler treats (`Fail`) ends the investigation as failed.

* *Nondeterministic*: the model's answers, what a specialist finds (supports, source
  unavailable, evidence missing, nothing), what RCA reasoning concludes, and the tool
  and model calls each takes.
* *Left out*: the rules on several causal lanes (lane ids appear in no scope), the
  repair of a failed competition, which needs a gap its challenge selected and a
  failed one has none, prompts, and the text of findings and reports.
* *Fairness of `ModelActs` and `ModelStops`* is not needed: the model may always answer
  something invalid, so `Turn`, all other actions, stays enabled until the end.

### FabTools, SpecialistExecution
`FabTools` is `tool_layer.py` over a fixed fab: which lots ran through a lane
(`Through`), which of them its abnormal window exposed (`Excursion`), and where the
lane is (`Place`).  What a tool reports is a function of the scope it is called with, so
an observation is that scope under the id `evidence_builder.py` gives it.
`SpecialistExecution` is one action after another: `Dispatch` binds it to lots and a
place from the latest findings, `RunTool` and `RunBasicInstead` are the loop of the
Specialist V2 executor, `Record` merges evidence and lanes; `Controlled` runs an agent's
fixed agenda after `FallBack`.  `finding` is the latest finding of each specialist,
`inventory` the lanes of the job, `turn` the executor's frame.  The executor's list of
effective results is the tools that ran without a superseded advanced SPC analysis, so
`turn` keeps whether there is one and `Effective` the positions that count.

* *Nondeterministic*: which valid action comes next (`ReactLoop` models why), and which
  candidate tool, since the model's answer and the deterministic choice after invalid
  answers are both candidates; any tool may raise, and the fallback may come anywhere.
* *Left out*: RCA reasoning, which runs no tool; the statistics; evidence whose id names
  its query, which cannot collide; equipment keys the model adds to a scope of its own.
* `Guesses` are the lanes the model may name before they are known: the planner checks
  lane ids only once several are known (`next_action_planner.py:2871`), so `LaneTruth`
  speaks of lanes in the inventory only.

### CausalLanes, LaneChallenge
`CausalLanes` is the inventory that `causal_lane_lifecycle.py` keeps: a function from
the process scopes found so far to their two statuses, evidence and priority, and the
operators that merge a discovery into it, choose the active lanes, retire or challenge
lanes, and say what kind of competition the active lanes call for.  `LaneChallenge` is
the part of `causal_adversarial.py` that turns an answer of the challenging model into
one result per lane, and those into the status of the search.  Statuses no code assigns
(a blocked or a merged lane), audit counters and the history of transitions are left
out.

### CausalReasoning
`lanes` and `trace` are `state.causal_lanes` and `state.competition_trace`, `finding`
is what the last round concluded, `round` the frame of `rca_reasoning_agent.py` and
`calls` the model calls left.  `Discover` is an MES query with all that follows it.
A round is `StartRound`, one step per model call (`Generate...`, `Compare`,
`Challenge...`, each with its failures, its one repair and the weighing of the calls
that must still follow), and `Conclude`, which derives the finding and writes inventory
and trace in one step, as `_update_competition_state` does.

* *Nondeterministic*: which query is made, which facts are known of a lane (`ready`),
  how many candidates an answer holds and whether they are valid, coherent and rivals,
  the challenges, and whether the evidence satisfies the rest of the confirmation gate
  (`sufficient`).
* *Beside `ReactLoop`, not under it*: the loop follows one lane and takes what a round
  concludes as a free choice; this module follows the lanes and takes what the planner
  asks for as a free choice.  Both keep the count of model calls.

### CausalEvidenceMatrix, ConfirmationGate, ImpactScope, CausalConclusion
From typed evidence to a published cause.  `CausalEvidenceMatrix` is the module of that
name: for each claim of a candidate (its place, parameter, outcome, mechanism, scope,
time, contradictions) the evidence that decides it and whether the claim is supported,
conflicted, incomplete or unavailable.  `ConfirmationGate` is what the hypothesis engine
makes of it: which citations are admitted, the strict checks of `confirm_candidate`, the
causal chain, the conclusion, and the gaps of `derive_causal_evidence_gaps`.
`ImpactScope` is `evaluate_impact_lot_gate`, the checks one lot has to pass.  All three
are operators over a fixed set of evidence; `CausalConclusion` is the state machine
above them: `evidence` and `impactLots` of the job, the authoritative `finding` and the
terminal `result`.  `Report` records a specialist's finding, `Reason` is the reasoning
action with the engine, `Finalize` judges the finding's lots by the terminal conclusion.

* *Text is abstracted to labels.*  The code compares tokens of a candidate's text with
  names in the evidence in four ways that do not agree (identifiers it names, tokens it
  mentions, labels that match whole, terms of a hint list); a candidate has a set for
  each (`names`, `mentions`, `labels`, `spelled`, `terms`, `hints`, `tends`).  Which of
  them hold together is left to the instance.
* *Nondeterministic*: which proposal is ranked first, the status of the search for
  alternatives, rivals of equal confidence, unexplained precursors, and a terminal
  conclusion weaker than the finding's.
* *Left out*: the non-strict gate of the deterministic planner, the ranking of several
  candidates, gaps that discriminate between two of them, scores.
* `CausalReasoning` leaves free what is computed here (`sufficient`), and the rounds that
  lead to a proposal are left free here.

## 3. Runs

| run | bounds | what it shows |
|---|---|---|
| `queue` | 2 Jobs, 2 Workers, 2 attempts, lease 1, backoff 0/1, clocks off by up to 1, 1 progress event; symmetric | the three tables agree, the lifecycle is implemented, history is never rewritten, and a cancelled Job has no result |
| `worker` | 1 Job, 2 Workers, 2 attempts, 1 crash, orphan heartbeats, 2 progress events; fair | no late result, late event or uncommitted result gets through; the Job ends, and an accepted cancellation takes effect |
| `page` | 1 Job, 1 attempt, 2 refreshes in flight, 2 failures or reloads | the page has every event up to the last it has, a terminal status on it is true, and the page settles on it |
| `submission` | 3 calls at a time, 4 Job ids, 2 keys or none, 2 requests; symmetric | an accepted request is stored under its key, and no two answers about one key disagree |
| `memory` | 1 candidate, 3 engineers with 4 spellings, 2 decisions in progress, 1 reader | the rules of a review are kept; tables, trail and views agree |
| `knowledge` | 3 uploads of 2 contents, one of them built in, 2 engineers with 3 spellings, 2 decisions in progress | the rules of a review are kept, also when the index of active contents refuses a publication |
| `react` | root-cause goal, 2 discriminators of one priority, 1 question and 1 that may be added, 8 steps, 8 tool calls, 7 model calls or any number, 4 findings, both modes | no replay, verdicts follow the competition, a supported end rests on the latest finding, what is settled stays settled, and the investigation ends |
| `react_scopes` | root-cause or impact goal, questions about an operation, 1 unsupported, 1 claim gap, 4 findings (disputed and failed ones too), no limit on model calls | a third round of reasoning is earned |
| `react_fallback` | as `react`, no limit on model calls | violation, see section 6 |
| `rounds` | 3 lanes of 2 directions and 2 recipes, 2 of them active, 2 queries, 5 model calls, 2 challenges in an answer | inventory and trace agree, only what a round resolved is eliminated, only new evidence reopens it, a call is left for the planner |
| `conclusion` | 3 lots, 2 lanes, 13 items of evidence in 6 reports (one may come late), 2 requests, 3 candidate texts with each of the 255 sets of citations | a supported cause is grounded, a refusal leaves a way forward, published lots are proven |
| `specialist` | 3 lanes at 2 places, 4 lots, 3 gaps, 7 tool calls, 5 actions; a lot with advanced SPC or a product window with one failing lot or none | tool calls stay within the budget and leave room for what replaces one; evidence that names a lane was measured there, on its lots |

**Why the bounds are enough.**  Two Workers are needed and sufficient for one to hold
a lease the other lost; the fence compares one owner with one caller.  Two attempts
give one retry and an exhausted budget.  A lease of one tick can be live, live at one
clock and expired at another (with skew), or expired.  Two Jobs are needed only where
one step touches several (batch recovery).  Two progress events let one be emitted
before and one after a change of attempt.  Two cuts let a reconnect be cut again.  Two
refreshes in flight let an older answer overtake a newer one.

Three engineers are the two who decide and one who comes too late; a second spelling
makes one of them look like two; candidates of `MemoryApproval` share nothing, so one is
enough.  Uploads share their content: three are one that is active, one that is
pending and one that was compared before.  Three concurrent POSTs are a holder, a
repeat and a conflicting one; the fourth id lets one of them be posted again.

In `react` eight steps are the production limit.  Two gaps of one priority are what
makes the model choose; the results "supports" and "missing" are those the finalizer
and the stages of a gap tell apart.  Eight tool calls are spent before the steps are,
so both budgets run out; seven model calls run out in every part of a turn.

In `rounds` three lanes are two that are worked on and one that waits, and the two
queries rank them differently, so that a lane in work may have to wait; either brings
evidence an eliminated lane did not have.  Five calls are two rounds, or one with every
repair; two challenges may name two lanes, or disagree about one.

In `conclusion` the source lot and one other share the excursion in one chamber, a third
only passed the tool, and a late deviation of another chamber is the decoy; each kind of
evidence occurs at least once, so that each claim can be supported, refuted or left
open, and the three texts name the right chamber in two ways or the wrong one.  A report
may come after the finding, since the planner may ask for one more.

In `specialist` lanes 1 and 2 are at one place and lane 3 is elsewhere, so a query bound
to a place may stay there or leave it; a query for lane 2 widens what is known of
lane 1, which makes the difference between a latest and a first finding.  Five actions
are one of each specialist and two more for gaps; seven tool calls run out in the last.

Deadlock checking is on in every run but `submission`, `knowledge`, `specialist`,
`rounds` and `conclusion`, where it is off because ids, uploads, tool calls or model
calls are used up in the end, the job has failed, or its result is published.
Elsewhere time, or a client, can always go on; an ended investigation stutters.

**Fairness.**
* `QueueWorker`: time passes; some Worker keeps recovering and claiming (the
  `run_forever` loop catches every exception and loops on); each claimed attempt comes
  to its end, because every LLM and tool call has a timeout and the ReAct loop has a
  step budget; a crashed container is restarted (`restart: unless-stopped` in
  `compose.yaml`).  Nothing is assumed about the heartbeat, about success of any call,
  or about clients.  `Claim` and `Recover` are fair for *some* Worker, not for each.
* `JobView`: the three-second timer fires while the page shows an active Job, and a
  call that does not fail is answered.  Nothing is assumed of the stream.
* `ReactLoop`: the loop is one thread that takes its next step; every call it makes has
  a timeout, so it returns or raises.

**Bounds on counters**: `MaxProgress` (progress events of a Job), `MaxCrashes`,
`MaxDrops` (failures of the network or reloads), `MaxInFlight` (refreshes),
`MaxChallenges` (challenges in one answer of the model), `MaxActions` (actions of
`SpecialistExecution`).  The attempt count, the history
of an investigation and its model calls (`CallLimit`) are bounded by the code.

## 4. Proofs

Every property of the passing runs that is not about fairness is proved, with its type
invariant, in one module of proofs per component.

`JobQueueProofs.tla` proves of the store, for any sets of Jobs and Workers, any attempt budget,
lease length, set of backoffs and clock skew, that `Spec` of `JobStore` implies
`TypeOK`, `LedgerAgrees`, `LogAgrees`, `WaitingHasBudget`, `CancellationWins`,
`ResultOnlyWhenCompleted`, the action properties `TerminalIsFinal` and
`HistoryIsStable`, and the refinement `ImplementsLifecycle`.  The only assumption is
`StoreAssumption` on the constants.

*The inductive invariant* `IInv` says of each Job separately (`JobOK`) that its row
is well formed (`RowInv`), that row and attempts match (`LedgerMatches`, the property
itself) and that row and events match (`LogMatches`).  None of the properties is
inductive alone: that a retry does not exceed the budget needs that a waiting Job has
an attempt left; that closing `attempt_count` closes the open attempt needs that
the last attempt, and only it, is open; that a finished row is never touched needs
that its lease and delay are spent (`lease = Past`, `wait = Past` outside the
statuses that use them), or else time alone would still change it.

*The argument.*  Lemmas `StartedOK`, `ReleasedOK`, `CancelledNowOK`, ... show that
each UPDATE statement preserves the invariant of its Job.  `NextSteps` decomposes a
step of the store into one kind of change per Job (`JobStep`): a method changes one
Job and leaves the others, batch recovery and the passing of time change several.
From there, invariants, action properties and the refinement are each a case split
over the ten kinds.

`SubmissionProofs.tla` proves the four invariants of `Submission` for any number of
calls, ids, keys and requests; it needs no assumption on the constants.  The inductive
invariant rests on `AnswersTrue`: what an answer said of a row is true of the row
now.  It is kept because rows are only added (`InsertOK`), and only under a key nobody
holds.  `RepeatsAgree` speaks of two answers and follows from `AnswersTrue`, applied to
each, with `OneJobPerKey`, which is what the unique index keeps.  `TypeOK` has to say
that a call in progress has an id of its own that is not yet a Job's, or else its
insertion could overwrite a row.

`MemoryApprovalProofs.tla` proves eight properties of `MemoryApproval`, those the run
`memory` checks and the ones they rest on, for any
candidates, engineers, spellings, handlers and readers, from `MemoryAssumption`
(normalizing an id twice is normalizing it once).  `JobInv` says of one candidate that
row, decisions, library and trail agree; `DecisionOK` shows that a decision applied to
what the tables hold preserves it, and `LoadedIsCurrent`, the consequence of the row
lock, that what was loaded is what the tables hold.  `ViewInv` is about readers: a
final status they have read is still the status, and what they read after it is all
there will ever be.

It also proves the refinement `ImplementsReview`: of the steps of a handler only
`Commit` is one of the review, and under the row lock it is the one the review has for
the decision; everything else is a stutter.

`KnowledgeIngestionProofs.tla` proves `ImplementsReview` for uploads.  The refinement
needs the agreement of upload, row, decisions and document of each candidate
(`ItemInv`), and what the row lock gives a handler (`CallsInv`).  That no content is
active twice is the unique index itself, a guard of both publications, and no result.

The second half of `JobQueueProofs.tla` is about the two clients of the queue.  Each of
their steps is written as a step of `JobStore` or leaves the tables alone, so every
theorem about the store, which is proved for the most general client, holds with them
(the lemmas `WorkersUseStore` and `PageUsesStore`, which carry it over and say nothing
more).

* *The Workers.*  Any number of Jobs, Workers, crashes and orphan heartbeats.  A step of
  the system is `Legal` (a step of the store), keeps each Job `Fenced` (a payload only
  from the owner and for the current attempt, a progress event only for the attempt
  started last) and moves each frame by `FrameStep`.  Each action is shown to be all
  three; that the invariant `SysIInv` is kept is then a matter of one Job and one frame.
  The heart of it is `FrameFits`: while the row still names the Worker as its owner, the
  attempt in its frame is the row's.  It is kept because the only step that gives a row
  an owner starts a new attempt and puts it into the frame of the same Worker
  (`HolderKept`), and the steps that release a row clear the owner.
* *The page.*  `StreamFits` says that the page shows a prefix of the events, the
  EventSource stands within it, and an open connection carries exactly what lies between
  the EventSource and the generator; `ViewFits`, that a terminal status the page shows,
  or is about to be told, is the Job's.  The second part of `ViewFits` is what makes
  `TerminalViewIsTrue` inductive: answers overtake each other, so the page is only safe
  because no answer *on its way* is wrong.  Both last since the queue takes back neither
  an event nor a terminal status (`QueueKeeps`), and this is a consequence of the
  store's own invariant: a finished row has neither lease nor delay that time could
  change.

`CausalReasoningProofs.tla` proves the four properties of `rounds` for any lanes,
directions, recipes, queries, active limit and budget of calls.  `Inventory` and the
agreement with the trace make the first part of the invariant; `CallsKept`, that the
calls left cover what each step of a round may still need and one for the planner, the
second.  The lanes change in two ways only, by a discovery and by the end of a round
(`LanesStep`), and the three properties of lanes are read off those two.  That the
choice of the active lanes depends on priorities alone (`DiverseByPriority`) is needed
because a round works on a snapshot of the lanes, and the trace is compared with what
became of them.

`CausalConclusionProofs.tla` proves the three properties of `conclusion` for any
evidence, lots, lanes, candidates and reports.  Most of it is about operators: what the
evidence must have been for each claim of the matrix to be supported (`EntitySays`,
`ParameterSays`, ...), what the gate's checks add (`GateSays`), that each check that
evidence can turn opens a gap about its own claim with an action that fetches it
(`OpenGap`, `RefusalOpensGaps`), and what each check of a lot rests on
(`ReachedIsProven`).  The rest is that evidence only grows, so a proof lasts until the
lots are published, also when another specialist reports after the finding.

`ReactLoopProofs.tla` proves the six safety properties of the loop, `SettledOnce`
among them, for any questions, gaps, goals and budgets, and whatever the model answers
and the specialists find.  `ActionsRunOnce`, `SupportedHasFinding` and the rest are about
a loop that decides in one step and executes in another, with the fallback, a
cancellation or the end possibly in between.  The invariant therefore carries
`ChosenFits`: what was established when a proposal was validated (it has not been tried,
its round of reasoning is earned, the questions it settles are open and shown by the
history) still holds when it is executed, since nothing but the execution itself adds to
the history or settles a question.  `ReasoningLeavesFinding`, that reasoning was
recorded with a finding, is what the deterministic policy's conclusion rests on.  The
loop may end in six places; `Concluded` says once what each of them leaves
(`FinalizeConcludes`, `FailConcludes`, `FinishConcludes`, `TerminateConcludes`), and the
conclusions of the two verdicts are read off it.

`SpecialistExecutionProofs.tla` proves `BudgetSuffices` and `LaneTruth` for any fab, jobs,
gaps, guesses of the model and tool budget, from `ToolsAssumption` (a Source lot that ran
through Home) and `SpecialistAssumption` (a product window's failing lots include one of
Home; a fab has finitely many lanes).

* *The budget.*  `BudgetFits` says that a running turn never has more left than the
  investigation, and that a replacement by the basic analysis has room.  In controlled
  mode the lemma `AgendaFits` compares what the agents run with what the supervisor
  accounts for it.
* *True measurements.*  `LaneTruth` is not inductive: it forbids nothing of a lane that
  is not in the inventory yet, and a lane the model guessed could later be found.
  `EvidenceFits` closes this.  A measurement names no lane; or a lane of the inventory,
  where it was made; or a lane that is never found.  The third is possible only while
  one lane is known, since with several the planner insists on a known one; and that
  lane is `Home`, and if a query that names no lane finds `Home` alone (`First`), so does
  every later one (`InventoryFits`).  That the scope of an FDC check is that of its lane
  needs the latest MES finding to carry the whole inventory, or nothing (`FindingsFit`):
  a query that discovers no lanes leaves a finding without a place, and the FDC check
  is refused.

*What proving changed.*  Two statements that TLC had found true on its instance were
false in general, and are now as strong as the code makes them:

* `SupportedIsGrounded` asked for a lot that causes and outcomes share.  Evidence that
  names no lot passes the scope claim (`causal_evidence_matrix.py:1933`), so the
  statement asks for a common lot only when both name some.
* `PublishedLotsAreProven` asked for one deviation at the place, in the window and with
  the parameter of the cause.  Each check of a lot asks for a deviation of its own, so
  the three may differ.

A third, that a cause is confirmed only while exactly one lane is left, is not stated at
all: the code confirms without any lane left, and beside displaced ones (section 6).

*Only model-checked*: liveness (`EveryJobEnds`, `CancellationEnds`, `ViewConverges`,
`InvestigationEnds`), since the prover has no rule for fairness.

## 5. Mutants

Each property has a mutant in a module it depends on: a definition with a
plausible slip of the code (a lease check that forgets who asks, an UPDATE without
its `attempt_number` condition, an off-by-one in the budget, a stream that resumes from
now).  With the mutant in place the property's run fails.

## 6. Where code and documents disagree

1. **A fallback may fail in the finalizer** (`react_fallback`).
   `docs/autonomous-qwen-react-spec.md` says a mid-loop planner fallback preserves
   completed work and resumes the controlled path.  The finalizer reads action-value
   assessments that only the model's planner records; after the fallback they describe
   a state several actions old, and while one of them is of high value
   `finalize_investigation` raises instead of publishing the controlled stop.

**Divergences without a run.**  These were met while modelling.  TLC reaches each in the
model as it stands; the number of runs is kept small, so none has one.

* A search may be settled with no lane left.  A comment in `causal_adversarial.py:1059`
  says that eliminating every lane is not confirmation of a winner and leaves the search
  unresolved until a lane is retained.  The next round has no active lane to challenge,
  and its search ends as "alternatives eliminated" once every challenge it got is
  resolved (line 1074), although no lane is retained (`CausalReasoning`).
* A cause may be confirmed while the record of another lane says "retained" or
  "unresolved".  The comment at `causal_adversarial.py:1064` requires every other lane to
  be explicitly eliminated, and the docstring of that function calls an unresolved
  challenge a live competition.  A discovery may displace a lane in work by one of
  higher priority.  The displaced lane waits; the trace keeps its result
  (`supervisor.py:602`), but the next round considers active lanes only and may confirm
  one of them.  It takes four lanes to see (`CausalReasoning`; a round works on three).
* A comment at `causal_confirmation.py:287` calls the comparison of alternatives
  diagnostic and not a hard gate; in the strict mode of the line below it is one.
* The generator of the event stream reads the events, then the status (`app.py`); a Job
  that ends in between makes it return with the terminal event unsent, while
  `docs/async-job-queue.md` says the stream closes after a terminal event.  The browser
  recovers, since an EventSource reconnects with `Last-Event-ID` (`page`,
  `ViewConverges`); a client that reads one response to its end does not see how the
  Job ended.
* Content that is active can be stored again.  `docs/knowledge-ingestion-lookup.md` says
  duplicate pending or confirmed content is rejected, but `create_candidate` compares in
  one statement and inserts in another, and the indexes behind it compare pending with
  pending and active with active only.  The candidate's second approval then violates
  the index of the active documents at an INSERT without a handler: it can be rejected,
  but never published (`KnowledgeIngestion`).
* A query for exposure that is bound to a lane, the preferred action of an exposure gap
  (`tests/contract/test_causal_reasoning_batch252_contracts.py:186`), fails as soon as an
  exposed lot ran elsewhere too: `find_impact_lots` reports the lanes of every operation
  of the lots (`tool_layer.py:1081`), and `EvidenceBuilder` refuses evidence of another
  place (`evidence_builder.py:71`).  `SpecialistExecution` fails with cause "identity".
* A second FDC check of one lane whose lots were widened in between, or one with advanced
  SPC after a basic one, reports another payload under the same id, which
  `EvidenceCollection.merge` refuses (`evidence_collection.py:33`); the docstring at
  `evidence_builder.py:30` says scoped ids keep differing payloads apart.
  `SpecialistExecution` fails with cause "conflict".
* A first answer with valid candidates is sent back for an optional repair and lost if
  the second one fails (`hypothesis_candidate_generator.py`), whose own comment at line
  3764 calls the repair optional once a valid candidate survives.
* `hypothesis_engine.py:1350` overwrites the check for conflicting physics, and the
  admission checks, with the status of the confirmation in strict mode;
  `docs/evaluation.md:92` says such a cause is returned as inconclusive
  (`CausalConclusion.Finding`).
* Lanes that wait never count against "alternatives eliminated".  A contract test
  states this on purpose (`test_causal_reasoning_batch263_contracts.py:290`).
* `fail_attempt` of a cancelled Job stores the partial state the exception carries
  (`store.py:1317`); `docs/async-job-queue.md:116` says the result of the running
  attempt is discarded at the commit boundary.  `complete` does discard it.
* The Worker creates memory candidates without recording `MEMORY_CANDIDATE_CREATED`
  (`worker.py:402`), which `docs/memory-approval.md:102` lists.
* The step limit is waived for a third round of reasoning
  (`next_action_planner.py:1691`), but an observation of the same priority may be taken
  instead; the prompt (`next_action_planner_v1.md:185`) allows only the refresh.
* The one legal action Python selects for a gap may be refused by its own validator,
  outside of every handler (`next_action_planner.py:1955`).
* A satisfied controlled stop closes all open questions, whatever their evidence
  (`supervisor.py:944`); `question-action-evidence-gating-spec.md:338` requires their
  groups.
* For `spc_check` with known equipment the policy chooses the FDC check without an MES
  finding (`investigation_policy.py:196`), and the dispatcher raises
  (`supervisor.py:1143`).
* The reserve of three model calls is to leave one for planning (`supervisor.py:172`);
  the next preflight stops when one is left (`supervisor.py:1921`).

**What no document speaks about**, and a reader of the confirmation gate may want to
know.  The properties of `CausalConclusion` are stated so as to allow for each.

* The deviation dated inside its window need not be the one the candidate names, and
  evidence without a date is ignored by the lot's window check
  (`causal_evidence_matrix.py:742`).
* A candidate whose profile claims a lane may join a deviation and an outcome that share
  no lot; the exposure it must cite may be at another place than the cause.
* A refusal for lack of exposure, for an equal rival, for an unexplained precursor or for
  a missing required source leaves no gap, so nothing tells the planner what to do.
* A MES finding that comes after the reasoning overwrites `state.impact_lots` with the
  lots it observed, and the report prints those (`report_generator.py:280`), also after a
  terminal conclusion weaker than the finding's.

## 7. Not modelled, and why

* *Several causal lanes in the loop*: `CausalReasoning` has their lifecycle, but their
  competition for the planner's next action is assumed away by one lane in `ReactLoop`;
  with two, its instances leave TLC's reach.
* *What the tools compute* (SPC, scores, embeddings) is floating-point or text; the loop
  takes it as a free choice, so what holds of the loop holds whatever they find.  What
  RCA reasoning concludes is a free choice of the loop too, and a function of the
  evidence in `CausalConclusion`.
* *One structured LLM call* with its retries is sequential; its outcome and its cost are
  free choices of `ReactLoop`, and whether its failure is retryable is one of
  `QueueWorker`.
* *Execution of a fixed TaskPlan* (`Supervisor.execute`) is a straight line of agents.
* *Rendering, formatting, prompts, audit and metrics sinks, evaluation programs*: no
  property of the system depends on them.
* *In-memory and inline adapters* are test doubles of the modelled ones.
* *Page navigation between Jobs* (`popstate`) and the report and memory panels are left
  out of `JobView`, which follows one Job.  That the page may ask for a memory
  candidate before the Worker made it, and that a crash after the commit loses the
  candidate, follows from the code without a model: nothing asks or tries again.

## 8. What could come next

1. **Lanes**: a second lane in `NextActionPlanner`, with the lane actions of
   `causal_competition.py`.
2. **Composition** of QueueWorker and ReactLoop: an investigation that ends with its
   lease, and the retry that starts it again.
