--------------------------- MODULE JobQueueProofs ---------------------------
(***************************************************************************)
(* TLAPS proofs about the job queue and its clients, for any sets of Jobs  *)
(* and Workers, any attempt budget, lease length, backoffs and clock skew. *)
(*                                                                         *)
(* The store (JobStore), under the most general client.  The argument is   *)
(* per Job: JobInv relates one row to the attempts of its Job, and each    *)
(* UPDATE of store.py preserves it (the lemmas XxxOK).  A step of the store*)
(* changes one Job by such an update, or a batch of Jobs by the same one,  *)
(* and leaves the others alone.                                            *)
(*                                                                         *)
(* The clients.  Each makes only calls the store model allows, so that     *)
(* what is shown of the store holds with it, and adds what is true of the  *)
(* client itself.                                                          *)
(*                                                                         *)
(* The Workers (QueueWorker): they use the store as it expects to be used, *)
(* and what they leave in it was computed by the attempt it is attributed  *)
(* to.  Of each Job, Fenced says what a step of the system can do to it    *)
(* that a step of the store alone could not rule out.  Of each Worker,     *)
(* FrameStep says how its run_once frame moves.  Every action is both, and *)
(* together with NextSteps they preserve the inductive invariant SysIInv.  *)
(*                                                                         *)
(* The page (EventStream, JobView): it shows the events without gaps, and  *)
(* a terminal status on it is true.  The queue takes back neither an event *)
(* nor a terminal status (QueueKeeps), so what was on its way to the page  *)
(* when the queue moved on is still true when it arrives.                  *)
(***************************************************************************)
EXTENDS QueueWorker, JobView, SequenceTheorems, TLAPS

-----------------------------------------------------------------------------
(* The store.                                                              *)

(* What is true of one Job: the columns of its row agree with each other   *)
(* (a lease is running only for a leased Job, a delay only for a waiting   *)
(* one: otherwise time alone would still change a finished row), with its  *)
(* attempts and with its events.                                           *)
RowInv(r) ==
  /\ r.status \in Waiting => r.attempts < MaxAttempts
  /\ r.status = "absent" => r.attempts = 0
  /\ r.cancelRequested <=> r.status \in {"cancel_requested", "cancelled"}
  /\ r.payload.kind = "final" <=> r.status = "completed"
  /\ r.completedAt <=> r.status \in Terminal
  /\ r.status \notin Leased => r.lease = Past
  /\ r.status \notin Waiting => r.wait = Past

JobInv(r, l) == /\ r \in Row
                /\ l \in Seq(Attempt)
                /\ LedgerMatches(r, l)
                /\ RowInv(r)

JobOK(r, l, g) == /\ JobInv(r, l)
                  /\ g \in Seq(Event)
                  /\ LogMatches(r, g)

(* The inductive invariant.                                                *)
Tables == /\ row    = [j \in Jobs |-> row[j]]
          /\ ledger = [j \in Jobs |-> ledger[j]]
          /\ log    = [j \in Jobs |-> log[j]]

IInv == /\ Tables
        /\ \A j \in Jobs : JobOK(row[j], ledger[j], log[j])

-----------------------------------------------------------------------------
(* The columns of an updated row.                                          *)

LEMMA StampsAreIntegers == Stamps \subseteq Int /\ Past \in Int
  BY StoreAssumption DEF Stamps, Past

LEMMA RowColumns ==
  ASSUME NEW r \in Row
  PROVE  /\ r.status \in Statuses
         /\ r.attempts \in Nat
         /\ r.owner \in Workers \cup {None}
         /\ r.lease \in Int
         /\ r.wait \in Int
         /\ r.cancelRequested \in BOOLEAN
         /\ r.completedAt \in BOOLEAN
         /\ r.payload \in Payload
  BY DEF Row

LEMMA StartedColumns ==
  ASSUME NEW r \in Row, NEW w \in Workers, NEW d \in Int,
         NEW s, s = Started(r, w, d)
  PROVE  /\ s \in Row /\ s.status = "running" /\ s.attempts = r.attempts + 1
         /\ s.owner = w /\ s.cancelRequested = r.cancelRequested
         /\ s.completedAt = r.completedAt /\ s.payload = r.payload
         /\ s.wait = Past
<1> DEFINE n == r.attempts + 1
           t == LeaseSeconds + d
<1>1. n \in Nat /\ t \in Int /\ Past \in Int
  BY StoreAssumption, StampsAreIntegers DEF Row
<1> HIDE DEF n, t
<1>2. LET z == [r EXCEPT !.status = "running", !.attempts = n,
                         !.owner = w, !.lease = t, !.wait = Past]
      IN /\ z \in Row /\ z.status = "running" /\ z.attempts = n
         /\ z.owner = w /\ z.cancelRequested = r.cancelRequested
         /\ z.completedAt = r.completedAt /\ z.payload = r.payload
         /\ z.wait = Past
  BY <1>1 DEF Row, Statuses, Leased
<1> QED BY <1>2 DEF Started, n, t

LEMMA ReleasedColumns ==
  ASSUME NEW r \in Row, NEW s \in Statuses, NEW wait \in Int, NEW p \in Payload,
         NEW q, q = Released(r, s, wait, p)
  PROVE  /\ q \in Row /\ q.status = s /\ q.attempts = r.attempts
         /\ q.owner = None /\ q.cancelRequested = r.cancelRequested
         /\ q.completedAt <=> s \in Terminal
         /\ q.payload = p /\ q.lease = Past /\ q.wait = wait
<1> DEFINE b == s \in Terminal
<1>1. b \in BOOLEAN
  OBVIOUS
<1> HIDE DEF b
<1>2. LET z == [r EXCEPT !.status = s, !.owner = None, !.lease = Past,
                         !.wait = wait, !.completedAt = b, !.payload = p]
      IN /\ z \in Row /\ z.status = s /\ z.attempts = r.attempts
         /\ z.owner = None /\ z.cancelRequested = r.cancelRequested
         /\ (z.completedAt <=> b) /\ z.payload = p
         /\ z.lease = Past /\ z.wait = wait
  BY <1>1, StampsAreIntegers DEF Row
<1> QED BY <1>2 DEF Released, b

-----------------------------------------------------------------------------
(* Each UPDATE preserves the invariant of its Job.                         *)

LEMMA StartedOK ==
  ASSUME NEW r, NEW l, JobInv(r, l), r.status \in Waiting,
         NEW w \in Workers, NEW d \in Int
  PROVE  JobInv(Started(r, w, d), OpenAttempt(l, w))
<1> DEFINE s == Started(r, w, d)
           m == OpenAttempt(l, w)
<1>1. r \in Row /\ l \in Seq(Attempt) /\ LedgerMatches(r, l) /\ RowInv(r)
  BY DEF JobInv
<1>2. /\ s \in Row /\ s.status = "running" /\ s.attempts = r.attempts + 1
      /\ s.owner = w /\ s.cancelRequested = r.cancelRequested
      /\ s.completedAt = r.completedAt /\ s.payload = r.payload
      /\ s.wait = Past
  BY <1>1, StartedColumns
<1>3. [worker |-> w, status |-> "running"] \in Attempt
  BY DEF Attempt, AttemptStatus
<1>4. /\ m \in Seq(Attempt) /\ Len(m) = Len(l) + 1
      /\ \A n \in DOMAIN l : m[n] = l[n]
      /\ m[Len(l) + 1] = [worker |-> w, status |-> "running"]
      /\ DOMAIN m = 1 .. Len(l) + 1 /\ DOMAIN l = 1 .. Len(l)
  BY <1>1, <1>3 DEF OpenAttempt
<1> HIDE DEF s, m
<1>5. LedgerMatches(s, m)
  <2>1. Len(m) = s.attempts /\ s.attempts <= MaxAttempts /\ s.attempts > 0
    BY <1>1, <1>2, <1>4, StoreAssumption, RowColumns DEF LedgerMatches, RowInv
  <2>2. ASSUME NEW n \in DOMAIN m
        PROVE  m[n].status = "running" <=> n = s.attempts
    <3>1. CASE n = Len(l) + 1
      BY <3>1, <1>1, <1>2, <1>4 DEF LedgerMatches
    <3>2. CASE n \in DOMAIN l
      BY <3>2, <1>1, <1>2, <1>4, RowColumns DEF LedgerMatches, Waiting, Leased
    <3> QED BY <3>1, <3>2, <1>1, <1>4
  <2>3. m[s.attempts].worker = s.owner
    BY <1>1, <1>2, <1>4 DEF LedgerMatches
  <2> QED BY <2>1, <2>2, <2>3, <1>2, StoreAssumption DEF LedgerMatches, Leased
<1>6. RowInv(s)
  BY <1>1, <1>2 DEF RowInv, Waiting, Terminal, Leased
<1> QED BY <1>2, <1>4, <1>5, <1>6 DEF JobInv, s, m

LEMMA ReleasedOK ==
  ASSUME NEW r, NEW l, JobInv(r, l), r.status \in Leased,
         NEW s \in {"completed", "cancelled", "retry_wait", "failed"},
         NEW wait \in Int, NEW p \in Payload,
         NEW closed \in AttemptStatus \ {"running"},
         s = "cancelled" <=> r.status = "cancel_requested",
         s = "retry_wait" => r.attempts < MaxAttempts,
         s # "retry_wait" => wait = Past,
         p.kind = "final" <=> s = "completed"
  PROVE  JobInv(Released(r, s, wait, p), CloseAttempt(l, r.attempts, closed))
<1> DEFINE q == Released(r, s, wait, p)
           m == CloseAttempt(l, r.attempts, closed)
           a == [l[r.attempts] EXCEPT !.status = closed]
<1>1. r \in Row /\ l \in Seq(Attempt) /\ LedgerMatches(r, l) /\ RowInv(r)
  BY DEF JobInv
<1>2. s \in Statuses
  BY DEF Statuses, Waiting, Terminal
<1>3. /\ q \in Row /\ q.status = s /\ q.attempts = r.attempts /\ q.owner = None
      /\ q.cancelRequested = r.cancelRequested
      /\ q.completedAt <=> s \in Terminal
      /\ q.payload = p /\ q.lease = Past /\ q.wait = wait
  BY <1>1, <1>2, ReleasedColumns
<1>4. r.attempts \in DOMAIN l /\ l[r.attempts] \in Attempt /\ r.attempts \in Nat
  BY <1>1, RowColumns DEF LedgerMatches
<1>5. a \in Attempt /\ a.status = closed
  BY <1>4 DEF Attempt
<1>6. m = [l EXCEPT ![r.attempts] = a]
  BY DEF CloseAttempt
<1> HIDE DEF q, m, a
<1>7. /\ m \in Seq(Attempt) /\ Len(m) = Len(l) /\ DOMAIN m = DOMAIN l
      /\ m[r.attempts].status # "running"
      /\ \A n \in DOMAIN l : n # r.attempts => m[n] = l[n]
  BY <1>1, <1>4, <1>5, <1>6
<1>8. LedgerMatches(q, m)
  <2>1. ASSUME NEW n \in DOMAIN m PROVE m[n].status # "running"
    BY <2>1, <1>1, <1>7 DEF LedgerMatches
  <2> QED BY <2>1, <1>1, <1>3, <1>7 DEF LedgerMatches, Leased
<1>9. RowInv(q)
  BY <1>1, <1>3 DEF RowInv, Waiting, Terminal, Leased
<1> QED BY <1>3, <1>7, <1>8, <1>9 DEF JobInv, q, m

(* Updates that leave the attempts alone and agree on what JobInv sees.    *)
LEMMA SameLedgerOK ==
  ASSUME NEW r, NEW l, JobInv(r, l), NEW q \in Row,
         q.attempts = r.attempts, q.owner = r.owner,
         q.status \in Leased <=> r.status \in Leased, RowInv(q)
  PROVE  JobInv(q, l)
<1>1. l \in Seq(Attempt) /\ LedgerMatches(r, l)
  BY DEF JobInv
<1>2. LedgerMatches(q, l)
  BY <1>1 DEF LedgerMatches
<1> QED BY <1>1, <1>2 DEF JobInv

LEMMA ElapsedOK ==
  ASSUME NEW r, NEW l, JobInv(r, l)
  PROVE  /\ JobInv(Elapsed(r), l)
         /\ Elapsed(r).status = r.status
         /\ Elapsed(r).attempts = r.attempts
         /\ Elapsed(r).completedAt = r.completedAt
         /\ r.status \in Terminal => Elapsed(r) = r
<1> DEFINE t == Sooner(r.lease)
           u == Sooner(r.wait)
           q == [r EXCEPT !.lease = t, !.wait = u]
<1>1. r \in Row /\ RowInv(r) /\ r.lease \in Int /\ r.wait \in Int
  BY RowColumns DEF JobInv
<1>2. /\ t \in Int /\ u \in Int
      /\ r.lease = Past => t = r.lease
      /\ r.wait = Past => u = r.wait
  BY <1>1, StampsAreIntegers DEF Sooner
<1> HIDE DEF t, u
<1>3. /\ q \in Row /\ q.status = r.status /\ q.attempts = r.attempts
      /\ q.owner = r.owner /\ q.cancelRequested = r.cancelRequested
      /\ q.completedAt = r.completedAt /\ q.payload = r.payload
      /\ q.lease = t /\ q.wait = u
  BY <1>1, <1>2 DEF Row
<1>4. r.status \in Terminal => q = r
  <2>1. r.status \in Terminal => t = r.lease /\ u = r.wait
    BY <1>1, <1>2 DEF RowInv, Terminal, Leased, Waiting
  <2>2. [r EXCEPT !.lease = r.lease, !.wait = r.wait] = r
    BY <1>1 DEF Row
  <2> QED BY <2>1, <2>2
<1> HIDE DEF q
<1>5. RowInv(q)
  BY <1>1, <1>2, <1>3 DEF RowInv
<1>6. JobInv(q, l)
  BY <1>3, <1>5, SameLedgerOK
<1>7. q = Elapsed(r)
  BY DEF q, t, u, Elapsed
<1> QED BY <1>3, <1>4, <1>6, <1>7

LEMMA RenewedOK ==
  ASSUME NEW r, NEW l, JobInv(r, l), r.status \in Leased, NEW d \in Int
  PROVE  /\ JobInv(Renewed(r, d), l)
         /\ Renewed(r, d).status = r.status
         /\ Renewed(r, d).attempts = r.attempts
         /\ Renewed(r, d).completedAt = r.completedAt
<1> DEFINE t == LeaseSeconds + d
           q == [r EXCEPT !.lease = t]
<1>1. r \in Row /\ RowInv(r) /\ t \in Int
  BY StoreAssumption DEF JobInv
<1> HIDE DEF t
<1>2. /\ q \in Row /\ q.status = r.status /\ q.attempts = r.attempts
      /\ q.owner = r.owner /\ q.cancelRequested = r.cancelRequested
      /\ q.completedAt = r.completedAt /\ q.payload = r.payload
      /\ q.wait = r.wait
  BY <1>1 DEF Row
<1> HIDE DEF q
<1>3. RowInv(q)
  BY <1>1, <1>2 DEF RowInv
<1>4. JobInv(q, l)
  BY <1>2, <1>3, SameLedgerOK
<1>5. q = Renewed(r, d)
  BY DEF q, t, Renewed
<1> QED BY <1>2, <1>4, <1>5

LEMMA CancelledNowOK ==
  ASSUME NEW r, NEW l, JobInv(r, l), r.status \in Waiting
  PROVE  JobInv(CancelledNow(r), l)
<1> DEFINE q == CancelledNow(r)
<1>1. r \in Row /\ RowInv(r)
  BY DEF JobInv
<1>2. /\ q \in Row /\ q.status = "cancelled" /\ q.attempts = r.attempts
      /\ q.owner = r.owner /\ q.cancelRequested = TRUE
      /\ q.completedAt = TRUE /\ q.payload = r.payload
      /\ q.lease = r.lease /\ q.wait = Past
  BY <1>1, StampsAreIntegers DEF CancelledNow, Row, Statuses, Terminal
<1> HIDE DEF q
<1>3. RowInv(q)
  BY <1>1, <1>2 DEF RowInv, Waiting, Terminal, Leased
<1>4. JobInv(q, l)
  BY <1>2, <1>3, SameLedgerOK DEF Waiting, Leased
<1> QED BY <1>4 DEF q

LEMMA CancelNotedOK ==
  ASSUME NEW r, NEW l, JobInv(r, l), r.status = "running"
  PROVE  JobInv(CancelNoted(r), l)
<1> DEFINE q == CancelNoted(r)
<1>1. r \in Row /\ RowInv(r)
  BY DEF JobInv
<1>2. /\ q \in Row /\ q.status = "cancel_requested" /\ q.attempts = r.attempts
      /\ q.owner = r.owner /\ q.cancelRequested = TRUE
      /\ q.completedAt = r.completedAt /\ q.payload = r.payload
      /\ q.lease = r.lease /\ q.wait = r.wait
  BY <1>1 DEF CancelNoted, Row, Statuses, Leased
<1> HIDE DEF q
<1>3. RowInv(q)
  BY <1>1, <1>2 DEF RowInv, Waiting, Terminal, Leased
<1>4. JobInv(q, l)
  BY <1>2, <1>3, SameLedgerOK DEF Leased
<1> QED BY <1>4 DEF q

LEMMA QueuedOK ==
  ASSUME NEW r, NEW l, JobInv(r, l), r.status = "absent"
  PROVE  JobInv([r EXCEPT !.status = "queued"], l)
<1> DEFINE q == [r EXCEPT !.status = "queued"]
<1>1. r \in Row /\ RowInv(r)
  BY DEF JobInv
<1>2. /\ q \in Row /\ q.status = "queued" /\ q.attempts = r.attempts
      /\ q.owner = r.owner /\ q.cancelRequested = r.cancelRequested
      /\ q.completedAt = r.completedAt /\ q.payload = r.payload
      /\ q.lease = r.lease /\ q.wait = r.wait
  BY <1>1 DEF Row, Statuses, Waiting
<1> HIDE DEF q
<1>3. RowInv(q)
  BY <1>1, <1>2, StoreAssumption DEF RowInv, Waiting, Terminal, Leased
<1>4. JobInv(q, l)
  BY <1>2, <1>3, SameLedgerOK DEF Leased
<1> QED BY <1>4 DEF q

-----------------------------------------------------------------------------
(* What one method does to the events of a Job.                            *)

LEMMA LifecycleEventOK ==
  ASSUME NEW g \in Seq(Event), NEW e \in Event, e.type # "progress",
         NEW r, r.status = e.status, r.status # "absent",
         r.completedAt <=> r.status \in Terminal
  PROVE  Append(g, e) \in Seq(Event) /\ LogMatches(r, Append(g, e))
<1> DEFINE h == Append(g, e)
           i == Len(g) + 1
<1>1. /\ h \in Seq(Event) /\ Len(h) = i /\ h[i] = e /\ DOMAIN h = 1 .. i
      /\ i \in Nat /\ i > 0
  OBVIOUS
<1> HIDE DEF h, i
<1>2. i \in LifecycleEvents(h)
  BY <1>1 DEF LifecycleEvents
<1>3. \A k \in LifecycleEvents(h) : k <= i
  BY <1>1 DEF LifecycleEvents
<1>4. LogMatches(r, h)
  BY <1>1, <1>2, <1>3 DEF LogMatches
<1> QED BY <1>1, <1>4 DEF h

LEMMA ProgressEventOK ==
  ASSUME NEW g \in Seq(Event), NEW e \in Event, e.type = "progress",
         NEW r, r.status \in Leased, LogMatches(r, g)
  PROVE  Append(g, e) \in Seq(Event) /\ LogMatches(r, Append(g, e))
<1> DEFINE h == Append(g, e)
<1>1. /\ h \in Seq(Event) /\ Len(h) = Len(g) + 1 /\ h[Len(g) + 1] = e
      /\ \A k \in DOMAIN g : h[k] = g[k]
      /\ DOMAIN g = 1 .. Len(g) /\ DOMAIN h = 1 .. Len(g) + 1 /\ Len(g) \in Nat
  OBVIOUS
<1> HIDE DEF h
<1>2. LifecycleEvents(h) = LifecycleEvents(g)
  BY <1>1 DEF LifecycleEvents
<1>3. \A k \in LifecycleEvents(g) : h[k] = g[k]
  BY <1>1 DEF LifecycleEvents
<1>4. LogMatches(r, h)
  BY <1>2, <1>3 DEF LogMatches, Leased, Terminal
<1> QED BY <1>1, <1>4 DEF h

LEMMA SameLogOK ==
  ASSUME NEW g, NEW r, LogMatches(r, g),
         NEW q, q.status = r.status, q.completedAt = r.completedAt
  PROVE  LogMatches(q, g)
  BY DEF LogMatches

-----------------------------------------------------------------------------
(* What a step of the store can be for one Job.                            *)

Untouched(j) == row'[j] = row[j] /\ ledger'[j] = ledger[j] /\ log'[j] = log[j]

Logs(j, e) == log'[j] = Append(log[j], e)

Queues(j) == /\ row[j].status = "absent"
             /\ row'[j] = [row[j] EXCEPT !.status = "queued"]
             /\ ledger'[j] = ledger[j]
             /\ Logs(j, Ev("queued", "queued", 0))

Starts(j) == \E w \in Workers, d \in Int :
               /\ row[j].status \in Waiting
               /\ row'[j] = Started(row[j], w, d)
               /\ ledger'[j] = OpenAttempt(ledger[j], w)
               /\ Logs(j, Ev("started", "running", row[j].attempts + 1))

Renews(j) == \E d \in Int :
               /\ row[j].status \in Leased
               /\ row'[j] = Renewed(row[j], d)
               /\ ledger'[j] = ledger[j]
               /\ log'[j] = log[j]

Reports(j) == \E n \in Nat :
                /\ row[j].status \in Leased
                /\ row'[j] = row[j]
                /\ ledger'[j] = ledger[j]
                /\ Logs(j, Ev("progress", "none", n))

EndsAs(j, s, wait, p, closed, type) ==
  /\ row[j].status \in Leased
  /\ s = "cancelled" <=> row[j].status = "cancel_requested"
  /\ s = "retry_wait" => row[j].attempts < MaxAttempts
  /\ s # "retry_wait" => wait = Past
  /\ p.kind = "final" <=> s = "completed"
  /\ row'[j] = Released(row[j], s, wait, p)
  /\ ledger'[j] = CloseAttempt(ledger[j], row[j].attempts, closed)
  /\ Logs(j, Ev(type, s, row[j].attempts))

Outcomes   == {"completed", "cancelled", "retry_wait", "failed"}
EventTypes == {"completed", "cancelled", "failed", "retry_scheduled",
               "lease_recovered"}

Ends(j) == \E s \in Outcomes, wait \in Int, p \in Payload,
              closed \in AttemptStatus \ {"running"}, type \in EventTypes :
             EndsAs(j, s, wait, p, closed, type)

CancelsNow(j) == /\ row[j].status \in Waiting
                 /\ row'[j] = CancelledNow(row[j])
                 /\ ledger'[j] = ledger[j]
                 /\ Logs(j, Ev("cancelled", "cancelled", 0))

NotesCancel(j) == /\ row[j].status = "running"
                  /\ row'[j] = CancelNoted(row[j])
                  /\ ledger'[j] = ledger[j]
                  /\ Logs(j, Ev("cancel_requested", "cancel_requested", 0))

Elapses(j) == /\ row'[j] = Elapsed(row[j])
              /\ ledger'[j] = ledger[j]
              /\ log'[j] = log[j]

JobStep(j) == \/ Untouched(j) \/ Queues(j) \/ Starts(j) \/ Renews(j)
              \/ Reports(j) \/ Ends(j) \/ CancelsNow(j) \/ NotesCancel(j)
              \/ Elapses(j)

-----------------------------------------------------------------------------
(* A step for one Job preserves what is true of that Job.                  *)

LEMMA EventTyped ==
  ASSUME NEW type \in EventTypes \cup {"queued", "started", "cancel_requested",
                                       "progress"},
         NEW s \in Statuses \cup {"none"}, NEW n \in Nat
  PROVE  /\ Ev(type, s, n) \in Event
         /\ Ev(type, s, n).type = type
         /\ Ev(type, s, n).status = s
  BY DEF Ev, Event, EventTypes

(* A method that moves the Job and writes the event of its new status.     *)
LEMMA MovedOK ==
  ASSUME NEW r, NEW l, NEW g \in Seq(Event), JobInv(r, l),
         NEW s, r.status = s, s # "absent",
         NEW type \in EventTypes \cup {"queued", "started", "cancel_requested"},
         NEW n \in Nat
  PROVE  JobOK(r, l, Append(g, Ev(type, s, n)))
<1> DEFINE e == Ev(type, s, n)
<1>1. s \in Statuses /\ RowInv(r)
  BY RowColumns DEF JobInv
<1>2. e \in Event /\ e.type # "progress" /\ e.status = s
  BY <1>1, EventTyped DEF EventTypes
<1> HIDE DEF e
<1>3. Append(g, e) \in Seq(Event) /\ LogMatches(r, Append(g, e))
  BY <1>1, <1>2, LifecycleEventOK DEF RowInv
<1> QED BY <1>3 DEF JobOK, e

LEMMA JobStepOK ==
  ASSUME NEW j \in Jobs, JobOK(row[j], ledger[j], log[j]), JobStep(j)
  PROVE  JobOK(row'[j], ledger'[j], log'[j])
<1>1. /\ JobInv(row[j], ledger[j]) /\ log[j] \in Seq(Event)
      /\ LogMatches(row[j], log[j])
      /\ row[j] \in Row /\ row[j].attempts \in Nat
  BY RowColumns DEF JobOK, JobInv
<1>2. CASE Untouched(j)
  BY <1>2 DEF Untouched
<1>3. CASE Queues(j)
  <2>1. row'[j].status = "queued"
    BY <1>1, <1>3 DEF Queues, Row
  <2>2. JobInv(row'[j], ledger'[j])
    BY <1>1, <1>3, QueuedOK DEF Queues
  <2>3. log'[j] = Append(log[j], Ev("queued", "queued", 0))
    BY <1>3 DEF Queues, Logs
  <2> QED BY <1>1, <2>1, <2>2, <2>3, MovedOK
<1>4. CASE Starts(j)
  <2>1. PICK w \in Workers, d \in Int :
          /\ row[j].status \in Waiting
          /\ row'[j] = Started(row[j], w, d)
          /\ ledger'[j] = OpenAttempt(ledger[j], w)
          /\ Logs(j, Ev("started", "running", row[j].attempts + 1))
    BY <1>4 DEF Starts
  <2>2. row'[j].status = "running"
    BY <1>1, <2>1 DEF Started, Row
  <2>3. JobInv(row'[j], ledger'[j])
    BY <1>1, <2>1, StartedOK
  <2>4. row[j].attempts + 1 \in Nat
    BY <1>1
  <2> QED BY <1>1, <2>1, <2>2, <2>3, <2>4, MovedOK DEF Logs
<1>5. CASE Renews(j)
  BY <1>1, <1>5, RenewedOK, SameLogOK DEF Renews, JobOK
<1>6. CASE Reports(j)
  <2>1. PICK n \in Nat : /\ row[j].status \in Leased
                         /\ row'[j] = row[j]
                         /\ ledger'[j] = ledger[j]
                         /\ Logs(j, Ev("progress", "none", n))
    BY <1>6 DEF Reports
  <2>2. Ev("progress", "none", n) \in Event /\ Ev("progress", "none", n).type = "progress"
    BY DEF Ev, Event
  <2> QED BY <1>1, <2>1, <2>2, ProgressEventOK DEF Logs, JobOK
<1>7. CASE Ends(j)
  <2>1. PICK s \in Outcomes, wait \in Int, p \in Payload,
             closed \in AttemptStatus \ {"running"}, type \in EventTypes :
          EndsAs(j, s, wait, p, closed, type)
    BY <1>7 DEF Ends
  <2>2. s \in Statuses
    BY DEF Outcomes, Statuses, Waiting, Terminal
  <2>3. row'[j].status = s
    BY <1>1, <2>1, <2>2, ReleasedColumns DEF EndsAs
  <2>4. JobInv(row'[j], ledger'[j])
    BY <1>1, <2>1, ReleasedOK DEF EndsAs, Outcomes
  <2> QED BY <1>1, <2>1, <2>3, <2>4, MovedOK DEF EndsAs, Outcomes, Logs
<1>8. CASE CancelsNow(j)
  <2>1. row'[j].status = "cancelled"
    BY <1>1, <1>8 DEF CancelsNow, CancelledNow, Row
  <2>2. JobInv(row'[j], ledger'[j])
    BY <1>1, <1>8, CancelledNowOK DEF CancelsNow
  <2> QED BY <1>1, <1>8, <2>1, <2>2, MovedOK DEF CancelsNow, Logs, EventTypes
<1>9. CASE NotesCancel(j)
  <2>1. row'[j].status = "cancel_requested"
    BY <1>1, <1>9 DEF NotesCancel, CancelNoted, Row
  <2>2. JobInv(row'[j], ledger'[j])
    BY <1>1, <1>9, CancelNotedOK DEF NotesCancel
  <2> QED BY <1>1, <1>9, <2>1, <2>2, MovedOK DEF NotesCancel, Logs
<1>10. CASE Elapses(j)
  BY <1>1, <1>10, ElapsedOK, SameLogOK DEF Elapses, JobOK
<1> QED BY <1>2, <1>3, <1>4, <1>5, <1>6, <1>7, <1>8, <1>9, <1>10 DEF JobStep

-----------------------------------------------------------------------------
(* Every action is a JobStep for every Job.                                *)

(* A method on Job j leaves the other Jobs alone.                          *)
LEMMA OneJob ==
  ASSUME NEW j \in Jobs, Tables, JobStep(j), NEW r, NEW l, NEW g,
         row' = [row EXCEPT ![j] = r],
         ledger' = [ledger EXCEPT ![j] = l],
         log' = [log EXCEPT ![j] = g]
  PROVE  Tables' /\ \A k \in Jobs : JobStep(k)
<1>1. Tables'
  BY DEF Tables
<1>2. ASSUME NEW k \in Jobs, k # j PROVE Untouched(k)
  BY <1>2 DEF Tables, Untouched
<1> QED BY <1>1, <1>2 DEF JobStep

LEMMA NoChange ==
  ASSUME NEW j \in Jobs, Tables
  PROVE  /\ row    = [row EXCEPT ![j] = row[j]]
         /\ ledger = [ledger EXCEPT ![j] = ledger[j]]
         /\ log    = [log EXCEPT ![j] = log[j]]
  BY DEF Tables

LEMMA SettleEnds ==
  ASSUME NEW j \in Jobs, Tables, JobOK(row[j], ledger[j], log[j]),
         row[j].status \in Leased,
         NEW s \in Outcomes, NEW wait \in Int, NEW p \in Payload,
         NEW closed \in AttemptStatus \ {"running"}, NEW type \in EventTypes,
         s = "cancelled" <=> row[j].status = "cancel_requested",
         s = "retry_wait" => row[j].attempts < MaxAttempts,
         s # "retry_wait" => wait = Past,
         p.kind = "final" <=> s = "completed",
         Settle(j, s, wait, p, closed, type)
  PROVE  Tables' /\ \A k \in Jobs : JobStep(k)
<1>1. /\ row'[j] = Released(row[j], s, wait, p)
      /\ ledger'[j] = CloseAttempt(ledger[j], row[j].attempts, closed)
      /\ log'[j] = Append(log[j], Ev(type, s, row[j].attempts))
  BY DEF Settle, LogEvent, Tables
<1>2. EndsAs(j, s, wait, p, closed, type)
  BY <1>1 DEF EndsAs, Logs
<1>3. JobStep(j)
  BY <1>2 DEF Ends, JobStep
<1>4. /\ row'    = [row EXCEPT ![j] = Released(row[j], s, wait, p)]
      /\ ledger' = [ledger EXCEPT ![j] =
                       CloseAttempt(ledger[j], row[j].attempts, closed)]
      /\ log'    = [log EXCEPT ![j] = Append(log[j], Ev(type, s, row[j].attempts))]
  BY DEF Settle, LogEvent
<1> QED BY <1>3, <1>4, OneJob

(* Who passes the lease check of a method works on a leased Job.           *)
LEMMA HolderIsLeased ==
  ASSUME NEW w \in Workers, NEW j \in Jobs, NEW d,
         JobOK(row[j], ledger[j], log[j]), HoldsLease(w, j, d)
  PROVE  row[j].status \in Leased
  BY StoreAssumption DEF JobOK, JobInv, LedgerMatches, HoldsLease

LEMMA CallSteps ==
  ASSUME IInv, NEW w \in Workers, NEW j \in Jobs, NEW d \in Stamps, Call(w, j, d)
  PROVE  Tables' /\ \A k \in Jobs : JobStep(k)
<1>1. /\ Tables /\ JobOK(row[j], ledger[j], log[j]) /\ RowInv(row[j])
      /\ row[j] \in Row /\ row[j].status \in Statuses /\ row[j].attempts \in Nat
      /\ row[j].payload \in Payload /\ row[j].wait \in Int /\ d \in Int
      /\ DOMAIN ledger[j] \subseteq Nat
  BY StampsAreIntegers, RowColumns DEF IInv, JobOK, JobInv
<1>2. CASE ClaimNext(w, j, d)
  <2>1. Starts(j)
    BY <1>1, <1>2 DEF ClaimNext, Eligible, LogEvent, Tables, Starts, Logs
  <2>2. JobStep(j)
    BY <2>1 DEF JobStep
  <2>3. /\ row'    = [row EXCEPT ![j] = Started(row[j], w, d)]
        /\ ledger' = [ledger EXCEPT ![j] = OpenAttempt(ledger[j], w)]
        /\ log'    = [log EXCEPT ![j] =
                         Append(log[j], Ev("started", "running", row[j].attempts + 1))]
    BY <1>2 DEF ClaimNext, LogEvent
  <2> QED BY <1>1, <2>2, <2>3, OneJob
<1>3. CASE Heartbeat(w, j, d)
  <2>1. Renews(j)
    BY <1>1, <1>3 DEF Heartbeat, Tables, Renews
  <2>2. ledger' = [ledger EXCEPT ![j] = ledger[j]] /\ log' = [log EXCEPT ![j] = log[j]]
    BY <1>1, <1>3, NoChange DEF Heartbeat
  <2>3. row' = [row EXCEPT ![j] = Renewed(row[j], d)]
    BY <1>3 DEF Heartbeat
  <2>4. JobStep(j)
    BY <2>1 DEF JobStep
  <2> QED BY <1>1, <2>2, <2>3, <2>4, OneJob
<1>4. ASSUME NEW n \in AttemptsOf(w, j), RecordProgress(w, j, n, d)
      PROVE  Tables' /\ \A k \in Jobs : JobStep(k)
  <2>1. n \in Nat
    BY <1>1 DEF AttemptsOf
  <2>2. Reports(j)
    BY <1>1, <1>4, <2>1 DEF RecordProgress, LogEvent, Tables, Reports, Logs
  <2>3. row' = [row EXCEPT ![j] = row[j]] /\ ledger' = [ledger EXCEPT ![j] = ledger[j]]
    BY <1>1, <1>4, NoChange DEF RecordProgress
  <2>4. JobStep(j)
    BY <2>2 DEF JobStep
  <2>5. log' = [log EXCEPT ![j] = Append(log[j], Ev("progress", "none", n))]
    BY <1>4 DEF RecordProgress, LogEvent
  <2> QED BY <1>1, <2>3, <2>4, <2>5, OneJob
<1>5. ASSUME NEW n \in AttemptsOf(w, j), Complete(w, j, n, d)
      PROVE  Tables' /\ \A k \in Jobs : JobStep(k)
  <2>1. n \in Nat /\ row[j].status \in Leased
    BY <1>1, <1>5, HolderIsLeased DEF AttemptsOf, Complete
  <2>2. row[j].wait = Past /\ row[j].payload.kind # "final"
    BY <1>1, <2>1 DEF RowInv, Leased, Waiting
  <2>3. CASE /\ row[j].status = "cancel_requested"
             /\ Settle(j, "cancelled", row[j].wait, row[j].payload,
                       "cancelled", "cancelled")
    BY <1>1, <2>1, <2>2, <2>3, SettleEnds DEF Outcomes, EventTypes, AttemptStatus
  <2>4. CASE /\ row[j].status = "running"
             /\ Settle(j, "completed", row[j].wait,
                       [kind |-> "final", attempt |-> n],
                       "completed", "completed")
    <3>1. [kind |-> "final", attempt |-> n] \in Payload
      BY <2>1 DEF Payload
    <3> QED BY <1>1, <2>1, <2>2, <2>4, <3>1, SettleEnds
            DEF Outcomes, EventTypes, AttemptStatus
  <2> QED BY <1>5, <2>3, <2>4 DEF Complete
<1>6. ASSUME NEW retryable \in BOOLEAN, NEW backoff \in Backoffs,
             NEW n \in AttemptsOf(w, j) \cup {0},
             FailAttempt(w, j, retryable, backoff, n, d)
      PROVE  Tables' /\ \A k \in Jobs : JobStep(k)
  <2> DEFINE payload == IF n = 0 THEN row[j].payload
                        ELSE [kind |-> "partial", attempt |-> n]
  <2>1. /\ n \in Nat /\ row[j].status \in Leased /\ backoff + d \in Int
        /\ Past \in Int
    BY <1>1, <1>6, HolderIsLeased, StoreAssumption, StampsAreIntegers
    DEF AttemptsOf, FailAttempt
  <2>2. payload \in Payload /\ payload.kind # "final"
    BY <1>1, <2>1 DEF RowInv, Leased, Payload
  <2>3. \/ /\ row[j].status = "cancel_requested"
           /\ Settle(j, "cancelled", Past, payload, "cancelled", "cancelled")
        \/ /\ row[j].status # "cancel_requested"
           /\ retryable /\ CanRetry(j)
           /\ Settle(j, "retry_wait", backoff + d, payload,
                     "failed", "retry_scheduled")
        \/ /\ row[j].status # "cancel_requested"
           /\ ~(retryable /\ CanRetry(j))
           /\ Settle(j, "failed", Past, payload, "failed", "failed")
    BY <1>6 DEF FailAttempt
  <2> HIDE DEF payload
  <2> QED BY <1>1, <2>1, <2>2, <2>3, SettleEnds
          DEF Outcomes, EventTypes, AttemptStatus, CanRetry
<1> QED BY <1>2, <1>3, <1>4, <1>5, <1>6 DEF Call

LEMMA NextSteps ==
  ASSUME IInv, [Next]_vars
  PROVE  Tables' /\ \A k \in Jobs : JobStep(k)
<1>1. Tables /\ \A k \in Jobs : JobOK(row[k], ledger[k], log[k])
  BY DEF IInv
<1>2. ASSUME NEW j \in Jobs, Enqueue(j)
      PROVE  Tables' /\ \A k \in Jobs : JobStep(k)
  <2>1. Queues(j)
    BY <1>1, <1>2 DEF Enqueue, Queues, LogEvent, Logs, Tables
  <2>2. ledger' = [ledger EXCEPT ![j] = ledger[j]]
    BY <1>1, <1>2, NoChange DEF Enqueue
  <2>3. row' = [row EXCEPT ![j] = [row[j] EXCEPT !.status = "queued"]]
    BY <1>2 DEF Enqueue
  <2>4. log' = [log EXCEPT ![j] = Append(log[j], Ev("queued", "queued", 0))]
    BY <1>2 DEF Enqueue, LogEvent
  <2>5. JobStep(j)
    BY <2>1 DEF JobStep
  <2> QED BY <1>1, <2>2, <2>3, <2>4, <2>5, OneJob
<1>3. ASSUME NEW w \in Workers, NEW j \in Jobs, NEW d \in Stamps, Call(w, j, d)
      PROVE  Tables' /\ \A k \in Jobs : JobStep(k)
  BY <1>3, CallSteps
<1>4. ASSUME NEW j \in Jobs, RequestCancel(j)
      PROVE  Tables' /\ \A k \in Jobs : JobStep(k)
  <2>1. ledger' = [ledger EXCEPT ![j] = ledger[j]]
    BY <1>1, <1>4, NoChange DEF RequestCancel
  <2>2. CASE /\ row[j].status \in Waiting
             /\ row' = [row EXCEPT ![j] = CancelledNow(@)]
             /\ LogEvent(j, Ev("cancelled", "cancelled", 0))
    <3>1. CancelsNow(j)
      BY <1>1, <1>4, <2>2 DEF RequestCancel, CancelsNow, LogEvent, Logs, Tables
    <3>2. JobStep(j)
      BY <3>1 DEF JobStep
    <3>3. /\ row' = [row EXCEPT ![j] = CancelledNow(row[j])]
          /\ log' = [log EXCEPT ![j] = Append(log[j], Ev("cancelled", "cancelled", 0))]
      BY <2>2 DEF LogEvent
    <3> QED BY <1>1, <2>1, <3>2, <3>3, OneJob
  <2>3. CASE /\ row[j].status = "running"
             /\ row' = [row EXCEPT ![j] = CancelNoted(@)]
             /\ LogEvent(j, Ev("cancel_requested", "cancel_requested", 0))
    <3>1. NotesCancel(j)
      BY <1>1, <1>4, <2>3 DEF RequestCancel, NotesCancel, LogEvent, Logs, Tables
    <3>2. JobStep(j)
      BY <3>1 DEF JobStep
    <3>3. /\ row' = [row EXCEPT ![j] = CancelNoted(row[j])]
          /\ log' = [log EXCEPT ![j] = Append(log[j], Ev("cancel_requested", "cancel_requested", 0))]
      BY <2>3 DEF LogEvent
    <3> QED BY <1>1, <2>1, <3>2, <3>3, OneJob
  <2> QED BY <1>4, <2>2, <2>3 DEF RequestCancel
<1>5. ASSUME NEW S \in SUBSET Jobs, NEW backoff \in Backoffs, NEW d \in Stamps,
             RecoverStaleLeases(S, backoff, d)
      PROVE  Tables' /\ \A k \in Jobs : JobStep(k)
  <2>1. Tables'
    BY <1>5 DEF RecoverStaleLeases, Tables
  <2>2. ASSUME NEW k \in Jobs, k \notin S PROVE Untouched(k)
    BY <1>5, <2>2 DEF RecoverStaleLeases, Untouched
  <2>3. ASSUME NEW k \in S PROVE Ends(k)
    <3> DEFINE s == AfterExpiry(k)
               wait == IF s = "retry_wait" THEN backoff + d ELSE Past
               type == IF s = "cancelled" THEN "cancelled" ELSE "lease_recovered"
    <3>1. /\ k \in Jobs /\ RowInv(row[k]) /\ row[k].status \in Leased
          /\ row[k].payload \in Payload
      BY <1>1, <1>5, RowColumns DEF JobOK, JobInv, RecoverStaleLeases, Stale
    <3>2. /\ s \in Outcomes /\ s # "completed"
          /\ s = "cancelled" <=> row[k].status = "cancel_requested"
          /\ s = "retry_wait" => row[k].attempts < MaxAttempts
      BY DEF AfterExpiry, Outcomes, CanRetry
    <3>3. wait \in Int /\ (s # "retry_wait" => wait = Past)
      BY StampsAreIntegers, StoreAssumption
    <3>4. type \in EventTypes /\ "abandoned" \in AttemptStatus \ {"running"}
      BY DEF EventTypes, AttemptStatus
    <3>5. row[k].payload.kind # "final"
      BY <3>1 DEF RowInv, Leased
    <3>6. /\ row'[k] = Released(row[k], s, wait, row[k].payload)
          /\ ledger'[k] = CloseAttempt(ledger[k], row[k].attempts, "abandoned")
          /\ log'[k] = Append(log[k], Ev(type, s, row[k].attempts))
      BY <1>5, <3>1 DEF RecoverStaleLeases, Recovered, RecoveryEvent
    <3> HIDE DEF s, wait, type
    <3>7. EndsAs(k, s, wait, row[k].payload, "abandoned", type)
      BY <3>1, <3>2, <3>3, <3>5, <3>6 DEF EndsAs, Logs
    <3> QED BY <3>1, <3>2, <3>3, <3>4, <3>7 DEF Ends
  <2> QED BY <2>1, <2>2, <2>3 DEF JobStep
<1>6. CASE Tick
  BY <1>1, <1>6 DEF Tick, Tables, JobStep, Elapses
<1>7. CASE UNCHANGED vars
  BY <1>1, <1>7 DEF vars, Tables, JobStep, Untouched
<1> QED BY <1>2, <1>3, <1>4, <1>5, <1>6, <1>7 DEF Next

-----------------------------------------------------------------------------
(* The invariant, and what follows from it.                                *)

LEMMA InitOK == Init => IInv
<1> SUFFICES ASSUME Init PROVE IInv
  OBVIOUS
<1>1. Tables
  BY DEF Init, Tables
<1>2. ASSUME NEW j \in Jobs PROVE JobOK(row[j], ledger[j], log[j])
  <2>1. row[j] = Absent /\ ledger[j] = <<>> /\ log[j] = <<>>
    BY DEF Init
  <2>2. /\ Absent \in Row /\ Absent.status = "absent" /\ Absent.attempts = 0
        /\ Absent.owner = None /\ Absent.payload.kind = "accepted"
        /\ Absent.cancelRequested = FALSE /\ Absent.completedAt = FALSE
        /\ Absent.lease = Past /\ Absent.wait = Past
    BY StampsAreIntegers DEF Absent, Accepted, Payload, Row, Statuses
  <2>3. RowInv(Absent)
    BY <2>2 DEF RowInv, Waiting, Terminal
  <2>4. LedgerMatches(Absent, <<>>)
    BY <2>2, StoreAssumption DEF LedgerMatches, Leased
  <2>5. LogMatches(Absent, <<>>)
    BY <2>2 DEF LogMatches
  <2> QED BY <2>1, <2>2, <2>3, <2>4, <2>5 DEF JobOK, JobInv
<1> QED BY <1>1, <1>2 DEF IInv

LEMMA NextOK == IInv /\ [Next]_vars => IInv'
<1> SUFFICES ASSUME IInv, [Next]_vars PROVE IInv'
  OBVIOUS
<1>1. Tables' /\ \A k \in Jobs : JobStep(k)
  BY NextSteps
<1>2. ASSUME NEW k \in Jobs PROVE JobOK(row'[k], ledger'[k], log'[k])
  BY <1>1, JobStepOK DEF IInv
<1> QED BY <1>1, <1>2 DEF IInv

(* Spec keeps the inductive invariant.                                     *)
THEOREM Invariant == Spec => []IInv
  BY InitOK, NextOK, PTL DEF Spec

(* The tables have their columns in every reachable state.                 *)
THEOREM TypeCorrect == Spec => []TypeOK
<1>1. IInv => TypeOK
  <2> SUFFICES ASSUME IInv PROVE TypeOK
    OBVIOUS
  <2>1. \A j \in Jobs : /\ row[j] \in Row
                        /\ ledger[j] \in Seq(Attempt)
                        /\ log[j] \in Seq(Event)
    BY DEF IInv, JobOK, JobInv
  <2> QED BY <2>1 DEF IInv, Tables, TypeOK
<1> QED BY <1>1, Invariant, PTL

(* Attempts, lease and status agree, within the attempt budget.            *)
THEOREM LedgerIsCorrect == Spec => []LedgerAgrees
<1>1. IInv => LedgerAgrees
  BY DEF IInv, JobOK, JobInv, LedgerAgrees
<1> QED BY <1>1, Invariant, PTL

(* The events tell the status of every Job.                                *)
THEOREM LogIsCorrect == Spec => []LogAgrees
<1>1. IInv => LogAgrees
  BY DEF IInv, JobOK, LogAgrees
<1> QED BY <1>1, Invariant, PTL

(* A Job that waits has an attempt left.                                   *)
THEOREM WaitingCanStart == Spec => []WaitingHasBudget
<1>1. IInv => WaitingHasBudget
  BY DEF IInv, JobOK, JobInv, RowInv, WaitingHasBudget
<1> QED BY <1>1, Invariant, PTL

(* Cancellation is never lost and never invented.                          *)
THEOREM CancellationIsKept == Spec => []CancellationWins
<1>1. IInv => CancellationWins
  BY DEF IInv, JobOK, JobInv, RowInv, CancellationWins
<1> QED BY <1>1, Invariant, PTL

(* Only a completed Job has a finished result.                             *)
THEOREM ResultIsGuarded == Spec => []ResultOnlyWhenCompleted
<1>1. IInv => ResultOnlyWhenCompleted
  BY DEF IInv, JobOK, JobInv, RowInv, ResultOnlyWhenCompleted
<1> QED BY <1>1, Invariant, PTL

-----------------------------------------------------------------------------
(* What a step may never do.                                               *)

(* A finished Job never changes again, in any of the three tables: the     *)
(* lease and the retry delay of its row are spent, so that not even time   *)
(* changes it.                                                             *)
THEOREM FinishedIsFinal == Spec => TerminalIsFinal
<1> DEFINE Frozen(j) == row[j].status \in Terminal =>
                          /\ row'[j]    = row[j]
                          /\ ledger'[j] = ledger[j]
                          /\ log'[j]    = log[j]
<1>1. ASSUME IInv, [Next]_vars, NEW j \in Jobs PROVE Frozen(j)
  <2> SUFFICES ASSUME row[j].status \in Terminal
               PROVE  Untouched(j)
    BY DEF Untouched
  <2>1. JobStep(j) /\ JobInv(row[j], ledger[j])
    BY <1>1, NextSteps DEF IInv, JobOK
  <2>2. Untouched(j) \/ Elapses(j)
    BY <2>1 DEF JobStep, Queues, Starts, Renews, Reports, Ends, EndsAs,
                CancelsNow, NotesCancel, Terminal, Waiting, Leased
  <2>3. Elapsed(row[j]) = row[j]
    BY <2>1, ElapsedOK
  <2> QED BY <2>2, <2>3 DEF Elapses, Untouched
<1>2. IInv /\ [Next]_vars => [\A j \in Jobs : Frozen(j)]_vars
  BY <1>1
<1> QED BY <1>2, Invariant, PTL DEF Spec, TerminalIsFinal

(* Closed attempts and written events are never rewritten.                 *)
THEOREM HistoryIsKept == Spec => HistoryIsStable
<1> DEFINE Kept(j) ==
      /\ \A n \in DOMAIN ledger[j] :
           ledger[j][n].status # "running" => ledger'[j][n] = ledger[j][n]
      /\ \A i \in DOMAIN log[j] : log'[j][i] = log[j][i]
<1>1. ASSUME IInv, [Next]_vars, NEW j \in Jobs PROVE Kept(j)
  <2>1. /\ JobStep(j) /\ ledger[j] \in Seq(Attempt) /\ log[j] \in Seq(Event)
        /\ LedgerMatches(row[j], ledger[j])
    BY <1>1, NextSteps DEF IInv, JobOK, JobInv
  <2>2. \A i \in DOMAIN log[j] : log'[j][i] = log[j][i]
    <3>1. log'[j] = log[j] \/ \E e : Logs(j, e)
      BY <2>1 DEF JobStep, Untouched, Queues, Starts, Renews, Reports, Ends,
                  EndsAs, CancelsNow, NotesCancel, Elapses
    <3> QED BY <2>1, <3>1 DEF Logs
  <2>3. \A n \in DOMAIN ledger[j] :
          ledger[j][n].status # "running" => ledger'[j][n] = ledger[j][n]
    <3>1. CASE ledger'[j] = ledger[j]
      BY <3>1
    <3>2. CASE Starts(j)
      BY <2>1, <3>2 DEF Starts, OpenAttempt
    <3>3. CASE Ends(j)
      <4>1. PICK closed : ledger'[j] = CloseAttempt(ledger[j], row[j].attempts, closed)
        BY <3>3 DEF Ends, EndsAs
      <4>2. row[j].status \in Leased
        BY <3>3 DEF Ends, EndsAs
      <4>3. ASSUME NEW n \in DOMAIN ledger[j], ledger[j][n].status # "running"
            PROVE  n # row[j].attempts
        BY <2>1, <4>2, <4>3 DEF LedgerMatches
      <4> QED BY <4>1, <4>3 DEF CloseAttempt
    <3> QED BY <2>1, <3>1, <3>2, <3>3
            DEF JobStep, Untouched, Queues, Renews, Reports, CancelsNow,
                NotesCancel, Elapses
  <2> QED BY <2>2, <2>3
<1>2. IInv /\ [Next]_vars => [\A j \in Jobs : Kept(j)]_vars
  BY <1>1
<1> QED BY <1>2, Invariant, PTL DEF Spec, HistoryIsStable

-----------------------------------------------------------------------------
(* The store implements the documented lifecycle of a Job.                 *)

LEMMA JobStepMoves ==
  ASSUME IInv, IInv', NEW j \in Jobs, JobStep(j)
  PROVE  Lifecycles!Move(j) \/ Lifecycles!Stay(j)
<1> DEFINE old == row[j].status
           new == row'[j].status
           m   == row[j].attempts
           n   == row'[j].attempts
<1>1. /\ row[j] \in Row /\ m \in Nat /\ JobInv(row[j], ledger[j])
      /\ row'[j] \in Row /\ n \in Nat /\ n <= MaxAttempts
      /\ RowInv(row[j]) /\ RowInv(row'[j])
  BY RowColumns DEF IInv, JobOK, JobInv, LedgerMatches
<1>2. \/ new = old /\ n = m
      \/ old = "absent" /\ new = "queued" /\ n = m
      \/ old \in Waiting /\ new = "running" /\ n = m + 1
      \/ /\ old \in Leased /\ new \in Outcomes /\ n = m
         /\ new = "cancelled" <=> old = "cancel_requested"
      \/ old \in Waiting /\ new = "cancelled" /\ n = m
      \/ old = "running" /\ new = "cancel_requested" /\ n = m
  <2>1. CASE Untouched(j) \/ Renews(j) \/ Reports(j) \/ Elapses(j)
    BY <1>1, <2>1, RenewedOK, ElapsedOK DEF Untouched, Renews, Reports, Elapses
  <2>2. CASE Queues(j)
    BY <1>1, <2>2 DEF Queues, Row
  <2>3. CASE Starts(j)
    <3>1. PICK w \in Workers, d \in Int :
            row[j].status \in Waiting /\ row'[j] = Started(row[j], w, d)
      BY <2>3 DEF Starts
    <3>2. new = "running" /\ n = m + 1
      BY <1>1, <3>1 DEF Started, Row
    <3> QED BY <3>1, <3>2
  <2>4. CASE Ends(j)
    <3>1. PICK s \in Outcomes, wait \in Int, p \in Payload,
               closed \in AttemptStatus \ {"running"}, type \in EventTypes :
            EndsAs(j, s, wait, p, closed, type)
      BY <2>4 DEF Ends
    <3>2. s \in Statuses
      BY DEF Outcomes, Statuses, Waiting, Terminal
    <3>3. new = s /\ n = m
      BY <1>1, <3>1, <3>2, ReleasedColumns DEF EndsAs
    <3> QED BY <3>1, <3>3 DEF EndsAs
  <2>5. CASE CancelsNow(j)
    BY <1>1, <2>5 DEF CancelsNow, CancelledNow, Row
  <2>6. CASE NotesCancel(j)
    BY <1>1, <2>6 DEF NotesCancel, CancelNoted, Row
  <2> QED BY <2>1, <2>2, <2>3, <2>4, <2>5, <2>6 DEF JobStep
<1>3. new = "running" /\ n = m + 1 => m < MaxAttempts
  BY <1>1, StoreAssumption
<1>4. new = "retry_wait" => n < MaxAttempts
  BY <1>1 DEF RowInv, Waiting
<1> HIDE DEF old, new, m, n
<1>5. \/ /\ new \in Lifecycles!AllowedTransitions[old]
         /\ IF new = "running" THEN m < MaxAttempts /\ n = m + 1 ELSE n = m
         /\ new = "retry_wait" => m < MaxAttempts
      \/ new = old /\ n = m
  BY <1>2, <1>3, <1>4
  DEF Lifecycles!AllowedTransitions, Waiting, Leased, Outcomes
<1> QED BY <1>5 DEF Lifecycles!Move, Lifecycles!Stay, old, new, m, n

(* The three tables implement JobLifecycle: every method of the store,     *)
(* the batch of lease recovery included, is a legal move of each Job.      *)
THEOREM StoreImplementsLifecycle == Spec => ImplementsLifecycle
<1>1. Init => Lifecycles!Init
  BY DEF Init, Absent, Lifecycles!Init
<1>2. IInv /\ IInv' /\ [Next]_vars => Lifecycles!Next
  <2> SUFFICES ASSUME IInv, IInv', [Next]_vars PROVE Lifecycles!Next
    OBVIOUS
  <2>1. \A j \in Jobs : Lifecycles!Move(j) \/ Lifecycles!Stay(j)
    BY NextSteps, JobStepMoves
  <2>2. ASSUME NEW j \in Jobs
        PROVE  /\ row'[j].status \in Lifecycles!Statuses
               /\ row'[j].attempts \in 0 .. MaxAttempts
    <3>1. row'[j] \in Row /\ row'[j].attempts <= MaxAttempts
      BY DEF IInv, JobOK, JobInv, LedgerMatches
    <3>2. row'[j].status \in Statuses /\ row'[j].attempts \in Nat
      BY <3>1, RowColumns
    <3> QED BY <3>1, <3>2, StoreAssumption
            DEF Lifecycles!Statuses, Lifecycles!AllowedTransitions,
                Statuses, Waiting, Leased, Terminal
  <2> QED BY <2>1, <2>2 DEF Lifecycles!Next
<1> QED BY <1>1, <1>2, Invariant, PTL DEF Spec, ImplementsLifecycle, Lifecycles!Spec

-----------------------------------------------------------------------------
(* The Workers.                                                            *)

Busy(w) == worker[w].pc \in Active

Shaped(f) == IF f.pc \in Active THEN f.job \in Jobs ELSE f = NoJob(f.pc)

(* The execution of a frame is one the Worker claimed, the current one     *)
(* while the lease is its own, and the committed one once it posts.        *)
FrameFits(w, f) ==
  f.pc \in Active =>
    /\ f.attempt \in AttemptsOf(w, f.job)
    /\ f.partial \in {0, f.attempt}
    /\ row[f.job].owner = w => f.attempt = row[f.job].attempts
    /\ f.pc = "posting" =>
         /\ row[f.job].status = "completed"
         /\ row[f.job].payload = [kind |-> "final", attempt |-> f.attempt]

PayloadFits(r) == /\ r.payload.kind = "final" => r.payload.attempt = r.attempts
                  /\ r.payload.attempt <= r.attempts

(* The latest start before position i of the events g is that of attempt n. *)
LastStart(g, n, i) ==
  \E k \in 1 .. i - 1 : /\ g[k].type = "started"
                        /\ g[k].attempt = n
                        /\ \A m \in k + 1 .. i - 1 : g[m].type # "started"

Attributed(g) ==
  \A i \in DOMAIN g : g[i].type = "progress" => LastStart(g, g[i].attempt, i)

EventsFit(r, g) == /\ Attributed(g)
                   /\ r.status \in Leased => LastStart(g, r.attempts, Len(g) + 1)

(* The inductive invariant.                                                *)
SysIInv == /\ IInv
           /\ FrameOK
           /\ \A w \in Workers : FrameFits(w, worker[w])
           /\ \A j \in Jobs : PayloadFits(row[j]) /\ EventsFit(row[j], log[j])
           /\ \A j \in candidates : row[j].status = "completed"

-----------------------------------------------------------------------------
(* The events of one Job.                                                  *)

LEMMA AppendFacts ==
  ASSUME NEW g \in Seq(Event), NEW e \in Event, NEW h, h = Append(g, e)
  PROVE  /\ h \in Seq(Event) /\ Len(h) = Len(g) + 1 /\ Len(g) \in Nat
         /\ DOMAIN g = 1 .. Len(g) /\ DOMAIN h = 1 .. Len(g) + 1
         /\ h[Len(g) + 1] = e
         /\ \A k \in 1 .. Len(g) : h[k] = g[k]
  OBVIOUS

LEMMA LastStartKept ==
  ASSUME NEW g \in Seq(Event), NEW e \in Event, NEW n,
         NEW i \in 1 .. Len(g) + 1, LastStart(g, n, i)
  PROVE  LastStart(Append(g, e), n, i)
<1> DEFINE h == Append(g, e)
<1>1. Len(g) \in Nat /\ \A k \in 1 .. Len(g) : h[k] = g[k]
  BY AppendFacts
<1> HIDE DEF h
<1>2. PICK k \in 1 .. i - 1 : /\ g[k].type = "started"
                              /\ g[k].attempt = n
                              /\ \A m \in k + 1 .. i - 1 : g[m].type # "started"
  BY DEF LastStart
<1>3. k \in 1 .. Len(g) /\ \A m \in k + 1 .. i - 1 : m \in 1 .. Len(g)
  BY <1>1
<1>4. LastStart(h, n, i)
  BY <1>1, <1>2, <1>3 DEF LastStart
<1> QED BY <1>4 DEF h

LEMMA LastStartGrows ==
  ASSUME NEW g \in Seq(Event), NEW e \in Event, NEW n,
         LastStart(g, n, Len(g) + 1), e.type # "started"
  PROVE  LastStart(Append(g, e), n, Len(g) + 2)
<1> DEFINE h == Append(g, e)
<1>1. Len(g) \in Nat /\ h[Len(g) + 1] = e
  BY AppendFacts
<1>2. LastStart(h, n, Len(g) + 1)
  BY <1>1, LastStartKept
<1> HIDE DEF h
<1>3. PICK k \in 1 .. Len(g) :
        /\ h[k].type = "started" /\ h[k].attempt = n
        /\ \A m \in k + 1 .. Len(g) : h[m].type # "started"
  BY <1>1, <1>2 DEF LastStart
<1>4. \A m \in k + 1 .. Len(g) + 1 : m \in k + 1 .. Len(g) \/ m = Len(g) + 1
  BY <1>1
<1>5. LastStart(h, n, Len(g) + 2)
  BY <1>1, <1>3, <1>4 DEF LastStart
<1> QED BY <1>5 DEF h

LEMMA LastStartNew ==
  ASSUME NEW g \in Seq(Event), NEW e \in Event, e.type = "started"
  PROVE  LastStart(Append(g, e), e.attempt, Len(g) + 2)
<1> DEFINE h == Append(g, e)
<1>1. Len(g) \in Nat /\ h[Len(g) + 1] = e
  BY AppendFacts
<1> HIDE DEF h
<1>2. LastStart(h, e.attempt, Len(g) + 2)
  BY <1>1 DEF LastStart
<1> QED BY <1>2 DEF h

LEMMA AttributedGrows ==
  ASSUME NEW g \in Seq(Event), NEW e \in Event, Attributed(g),
         e.type = "progress" => LastStart(g, e.attempt, Len(g) + 1)
  PROVE  Attributed(Append(g, e))
<1> DEFINE h == Append(g, e)
<1>1. /\ Len(g) \in Nat /\ DOMAIN g = 1 .. Len(g) /\ DOMAIN h = 1 .. Len(g) + 1
      /\ h[Len(g) + 1] = e /\ \A k \in 1 .. Len(g) : h[k] = g[k]
  BY AppendFacts
<1>2. \A n, i : i \in 1 .. Len(g) + 1 /\ LastStart(g, n, i) => LastStart(h, n, i)
  BY LastStartKept
<1> HIDE DEF h
<1>3. ASSUME NEW i \in DOMAIN h, h[i].type = "progress"
      PROVE  LastStart(h, h[i].attempt, i)
  <2>1. CASE i = Len(g) + 1
    BY <1>1, <1>2, <1>3, <2>1
  <2>2. CASE i \in 1 .. Len(g)
    BY <1>1, <1>2, <1>3, <2>2 DEF Attributed
  <2> QED BY <1>1, <2>1, <2>2
<1>4. Attributed(h)
  BY <1>3 DEF Attributed
<1> QED BY <1>4 DEF h

-----------------------------------------------------------------------------
(* What a step of the system can do to one Job, beyond JobStep.            *)

(* Only a Worker that runs nothing can start an attempt, a payload comes   *)
(* from the current attempt, and so does a progress event.                 *)
Fenced(k) ==
  /\ \/ Len(ledger'[k]) = Len(ledger[k])
     \/ \E v \in Workers : ~Busy(v) /\ row'[k].owner = v
  /\ \/ row'[k].payload = row[k].payload
     \/ row'[k].payload.attempt = row[k].attempts
  /\ \/ log'[k] = log[k]
     \/ \E e \in Event : /\ Logs(k, e)
                         /\ e.type = "progress" => e.attempt = row[k].attempts

(* The facts about a Job that the lemmas below need.                       *)
LEMMA JobFacts ==
  ASSUME IInv, NEW j \in Jobs
  PROVE  /\ Tables /\ JobInv(row[j], ledger[j]) /\ RowInv(row[j])
         /\ row[j] \in Row /\ row[j].attempts \in Nat /\ row[j].status \in Statuses
         /\ row[j].payload \in Payload
         /\ ledger[j] \in Seq(Attempt) /\ LedgerMatches(row[j], ledger[j])
         /\ log[j] \in Seq(Event)
  BY RowColumns DEF IInv, JobOK, JobInv

(* Only a start adds an attempt, and it leaves the payload alone.          *)
LEMMA StartsOrNot ==
  ASSUME IInv, NEW j \in Jobs, JobStep(j)
  PROVE  \/ /\ Starts(j) /\ Len(ledger'[j]) = Len(ledger[j]) + 1
            /\ row'[j].payload = row[j].payload
         \/ ~Starts(j) /\ Len(ledger'[j]) = Len(ledger[j])
<1>1. row[j] \in Row /\ ledger[j] \in Seq(Attempt)
  BY JobFacts
<1>2. CASE Starts(j)
  <2>1. PICK w \in Workers, d \in Int :
          /\ row'[j] = Started(row[j], w, d)
          /\ ledger'[j] = OpenAttempt(ledger[j], w)
    BY <1>2 DEF Starts
  <2>2. row'[j].payload = row[j].payload
    BY <1>1, <2>1 DEF Started, Row
  <2>3. Len(ledger'[j]) = Len(ledger[j]) + 1
    BY <1>1, <2>1 DEF OpenAttempt
  <2> QED BY <1>2, <2>2, <2>3
<1>3. CASE ~Starts(j)
  <2>1. CASE Ends(j)
    <3>1. PICK closed : ledger'[j] = CloseAttempt(ledger[j], row[j].attempts, closed)
      BY <2>1 DEF Ends, EndsAs
    <3> QED BY <1>1, <1>3, <3>1 DEF CloseAttempt
  <2>2. CASE ledger'[j] = ledger[j]
    BY <1>3, <2>2
  <2> QED BY <1>3, <2>1, <2>2
          DEF JobStep, Untouched, Queues, Renews, Reports, CancelsNow,
              NotesCancel, Elapses
<1> QED BY <1>2, <1>3

(* A step keeps the attempts of a Job and who made them.                   *)
LEMMA AttemptsKept ==
  ASSUME IInv, NEW j \in Jobs, JobStep(j), NEW w \in Workers, NEW n \in AttemptsOf(w, j)
  PROVE  n \in AttemptsOf(w, j)'
<1>1. /\ ledger[j] \in Seq(Attempt) /\ n \in DOMAIN ledger[j]
      /\ ledger[j][n].worker = w /\ LedgerMatches(row[j], ledger[j])
      /\ row[j].attempts \in Nat
  BY JobFacts DEF AttemptsOf
<1>2. CASE ledger'[j] = ledger[j]
  BY <1>1, <1>2 DEF AttemptsOf
<1>3. CASE Starts(j)
  BY <1>1, <1>3 DEF Starts, OpenAttempt, AttemptsOf
<1>4. CASE Ends(j)
  <2>1. PICK closed : ledger'[j] = CloseAttempt(ledger[j], row[j].attempts, closed)
    BY <1>4 DEF Ends, EndsAs
  <2>2. DOMAIN ledger'[j] = DOMAIN ledger[j]
    BY <2>1 DEF CloseAttempt
  <2>3. ledger'[j][n].worker = w
    <3>1. ledger[j][n] \in Attempt
      BY <1>1
    <3>2. CASE n = row[j].attempts
      BY <1>1, <2>1, <3>1, <3>2 DEF CloseAttempt, Attempt
    <3>3. CASE n # row[j].attempts
      BY <1>1, <2>1, <3>3 DEF CloseAttempt
    <3> QED BY <3>2, <3>3
  <2> QED BY <1>1, <2>2, <2>3 DEF AttemptsOf
<1> QED BY <1>2, <1>3, <1>4
        DEF JobStep, Untouched, Queues, Renews, Reports, CancelsNow, NotesCancel,
            Elapses

(* Whoever holds the lease after a step that started no attempt held it    *)
(* before, on the same attempt.                                            *)
LEMMA HolderKept ==
  ASSUME IInv, IInv', NEW j \in Jobs, JobStep(j), Len(ledger'[j]) = Len(ledger[j])
  PROVE  /\ row'[j].attempts = row[j].attempts
         /\ row'[j].owner \in {None, row[j].owner}
         /\ row'[j].status \in Leased => row[j].status \in Leased
<1>1. /\ row[j] \in Row /\ LedgerMatches(row[j], ledger[j])
      /\ ledger[j] \in Seq(Attempt) /\ row[j].attempts \in Nat
  BY JobFacts
<1>2. /\ row'[j] \in Row /\ LedgerMatches(row'[j], ledger'[j])
      /\ row'[j].status \in Leased <=> row'[j].owner # None
  BY DEF IInv, JobOK, JobInv, LedgerMatches
<1>3. row'[j].attempts = row[j].attempts
  BY <1>1, <1>2 DEF LedgerMatches
<1>4. ~Starts(j)
  BY <1>1, StartsOrNot
<1>5. row'[j].owner \in {None, row[j].owner}
  <2>1. CASE Ends(j)
    <3>1. PICK s \in Outcomes, wait \in Int, p \in Payload :
            row'[j] = Released(row[j], s, wait, p)
      BY <2>1 DEF Ends, EndsAs
    <3> QED BY <1>1, <3>1 DEF Released, Row
  <2>2. CASE CancelsNow(j) \/ NotesCancel(j) \/ Queues(j)
    BY <1>1, <2>2 DEF CancelsNow, NotesCancel, Queues, CancelledNow, CancelNoted, Row
  <2>3. CASE Untouched(j) \/ Renews(j) \/ Reports(j) \/ Elapses(j)
    BY <1>1, <2>3 DEF Untouched, Renews, Reports, Elapses, Renewed, Elapsed, Row
  <2> QED BY <1>4, <2>1, <2>2, <2>3 DEF JobStep
<1> QED BY <1>1, <1>2, <1>3, <1>5 DEF LedgerMatches

(* A finished Job stands still.                                            *)
LEMMA FinishedStands ==
  ASSUME IInv, NEW j \in Jobs, JobStep(j), row[j].status \in Terminal
  PROVE  Untouched(j)
<1>1. JobInv(row[j], ledger[j])
  BY JobFacts
<1>2. Untouched(j) \/ Elapses(j)
  BY DEF JobStep, Queues, Starts, Renews, Reports, Ends, EndsAs,
         CancelsNow, NotesCancel, Terminal, Waiting, Leased
<1>3. Elapsed(row[j]) = row[j]
  BY <1>1, ElapsedOK
<1> QED BY <1>2, <1>3 DEF Elapses, Untouched

(* The payload of a Job stays attributed to an attempt that was made, a    *)
(* final one to the last.                                                  *)
LEMMA PayloadStep ==
  ASSUME IInv, IInv', NEW j \in Jobs, JobStep(j), Fenced(j), PayloadFits(row[j])
  PROVE  PayloadFits(row'[j])
<1>1. /\ RowInv(row[j]) /\ row[j].payload \in Payload /\ row[j].attempts \in Nat
      /\ LedgerMatches(row[j], ledger[j]) /\ ledger[j] \in Seq(Attempt)
  BY JobFacts
<1>2. LedgerMatches(row'[j], ledger'[j]) /\ row'[j].attempts \in Nat
  BY RowColumns DEF IInv, JobOK, JobInv
<1>3. row'[j].attempts = row[j].attempts \/ row'[j].attempts = row[j].attempts + 1
  BY <1>1, <1>2, StartsOrNot DEF LedgerMatches
<1>4. CASE row[j].payload.kind = "final"
  <2>1. Untouched(j)
    BY <1>1, <1>4, FinishedStands DEF RowInv, Terminal
  <2> QED BY <2>1 DEF Untouched
<1>5. CASE row[j].payload.kind # "final" /\ row'[j].payload = row[j].payload
  BY <1>1, <1>2, <1>3, <1>5 DEF PayloadFits, Payload
<1>6. CASE /\ row[j].payload.kind # "final" /\ row'[j].payload # row[j].payload
           /\ row'[j].payload.attempt = row[j].attempts
  <2>1. Len(ledger'[j]) = Len(ledger[j])
    BY <1>6, StartsOrNot
  <2>2. row'[j].attempts = row[j].attempts
    BY <2>1, HolderKept
  <2> QED BY <1>1, <1>6, <2>2 DEF PayloadFits
<1> QED BY <1>4, <1>5, <1>6 DEF Fenced

(* The events of a Job stay attributable.                                  *)
LEMMA EventsStep ==
  ASSUME IInv, IInv', NEW j \in Jobs, JobStep(j), Fenced(j),
         EventsFit(row[j], log[j])
  PROVE  EventsFit(row'[j], log'[j])
<1>1. /\ log[j] \in Seq(Event) /\ row[j] \in Row /\ row[j].attempts \in Nat
      /\ Attributed(log[j])
      /\ row[j].status \in Leased => LastStart(log[j], row[j].attempts, Len(log[j]) + 1)
  BY JobFacts DEF EventsFit
<1>2. CASE log'[j] = log[j]
  <2>1. ~Starts(j)
    BY <1>1, <1>2, AppendFacts DEF Starts, Logs, Ev, Event
  <2>2. Len(ledger'[j]) = Len(ledger[j])
    BY <2>1, StartsOrNot
  <2> QED BY <1>1, <1>2, <2>2, HolderKept DEF EventsFit
<1>3. CASE Starts(j)
  <2> DEFINE e == Ev("started", "running", row[j].attempts + 1)
  <2>1. Logs(j, e) /\ Len(ledger'[j]) = Len(ledger[j]) + 1
    BY <1>3, StartsOrNot DEF Starts
  <2>2. row'[j].attempts = row[j].attempts + 1
    <3>1. PICK w \in Workers, d \in Int : row'[j] = Started(row[j], w, d)
      BY <1>3 DEF Starts
    <3> QED BY <1>1, <3>1 DEF Started, Row
  <2>3. e \in Event /\ e.type = "started" /\ e.attempt = row'[j].attempts
    BY <1>1, <2>2 DEF Ev, Event, Statuses, Leased
  <2> HIDE DEF e
  <2>4. Attributed(log'[j])
    BY <1>1, <2>1, <2>3, AttributedGrows DEF Logs
  <2>5. LastStart(log'[j], row'[j].attempts, Len(log'[j]) + 1)
    BY <1>1, <2>1, <2>3, LastStartNew, AppendFacts DEF Logs
  <2> QED BY <2>4, <2>5 DEF EventsFit
<1>4. ASSUME NEW e \in Event, Logs(j, e), ~Starts(j),
             e.type = "progress" => e.attempt = row[j].attempts
      PROVE  EventsFit(row'[j], log'[j])
  <2>1. e.type # "started" /\ (e.type = "progress" => row[j].status \in Leased)
    <3>1. PICK f \in Event :
            /\ log'[j] = Append(log[j], f) /\ f.type # "started"
            /\ f.type = "progress" => row[j].status \in Leased
      <4>1. CASE Reports(j)
        <5>1. PICK n \in Nat :
                row[j].status \in Leased /\ Logs(j, Ev("progress", "none", n))
          BY <4>1 DEF Reports
        <5>2. Ev("progress", "none", n) \in Event /\ Ev("progress", "none", n).type = "progress"
          BY DEF Ev, Event
        <5> QED BY <5>1, <5>2 DEF Logs
      <4>2. CASE Ends(j)
        <5>1. PICK s \in Outcomes, type \in EventTypes : Logs(j, Ev(type, s, row[j].attempts))
          BY <4>2 DEF Ends, EndsAs
        <5>2. /\ Ev(type, s, row[j].attempts) \in Event
              /\ Ev(type, s, row[j].attempts).type = type
          <6>1. s \in Statuses
            BY DEF Outcomes, Statuses, Waiting, Terminal
          <6>2. Ev(type, s, row[j].attempts).type = type
            BY DEF Ev
          <6> QED BY <1>1, <6>1, <6>2, EventTyped
        <5> QED BY <5>1, <5>2 DEF Logs, EventTypes
      <4>3. CASE Queues(j) \/ CancelsNow(j) \/ NotesCancel(j)
        <5>1. \E type \in {"queued", "cancelled", "cancel_requested"} :
                Logs(j, Ev(type, type, 0))
          BY <4>3 DEF Queues, CancelsNow, NotesCancel
        <5>2. \A type \in {"queued", "cancelled", "cancel_requested"} :
                Ev(type, type, 0) \in Event /\ Ev(type, type, 0).type = type
          BY DEF Ev, Event, Statuses, Waiting, Leased, Terminal
        <5> QED BY <5>1, <5>2 DEF Logs
      <4>4. CASE Untouched(j) \/ Renews(j) \/ Elapses(j)
        BY <1>1, <1>4, <4>4, AppendFacts DEF Untouched, Renews, Elapses, Logs
      <4> QED BY <1>4, <4>1, <4>2, <4>3, <4>4 DEF JobStep
    <3>2. e = f
      <4>1. log'[j][Len(log[j]) + 1] = e
        BY <1>1, <1>4, AppendFacts DEF Logs
      <4>2. log'[j][Len(log[j]) + 1] = f
        BY <1>1, <3>1, AppendFacts
      <4> QED BY <4>1, <4>2
    <3> QED BY <3>1, <3>2
  <2>2. Attributed(log'[j])
    BY <1>1, <1>4, <2>1, AttributedGrows DEF Logs
  <2>3. Len(ledger'[j]) = Len(ledger[j])
    BY <1>4, StartsOrNot
  <2>4. ASSUME row'[j].status \in Leased
        PROVE  LastStart(log'[j], row'[j].attempts, Len(log'[j]) + 1)
    <3>1. row[j].status \in Leased /\ row'[j].attempts = row[j].attempts
      BY <2>3, <2>4, HolderKept
    <3>2. LastStart(log'[j], row[j].attempts, Len(log[j]) + 2)
      BY <1>1, <1>4, <2>1, <3>1, LastStartGrows DEF Logs
    <3>3. Len(log'[j]) + 1 = Len(log[j]) + 2
      BY <1>1, <1>4, AppendFacts DEF Logs
    <3> QED BY <3>1, <3>2, <3>3
  <2> QED BY <2>2, <2>4 DEF EventsFit
<1> QED BY <1>2, <1>3, <1>4 DEF Fenced

-----------------------------------------------------------------------------
(* How a step of the system moves the frame of one Worker.                 *)

Goes(w) == /\ Busy(w) /\ worker'[w].pc \in Active
           /\ worker'[w].job = worker[w].job
           /\ worker'[w].attempt = worker[w].attempt
           /\ worker'[w].partial \in {worker[w].partial, 0, worker[w].attempt}
           /\ worker'[w].pc = "posting" =>
                \/ worker[w].pc = "posting"
                \/ /\ row'[worker[w].job].status = "completed"
                   /\ row'[worker[w].job].payload =
                        [kind |-> "final", attempt |-> worker[w].attempt]

Takes(w) == \E j \in Jobs :
              /\ worker'[w].pc = "working"
              /\ worker'[w].job = j
              /\ worker'[w].attempt = row'[j].attempts
              /\ worker'[w].partial = 0
              /\ row'[j].status = "running" /\ row'[j].owner = w

Rests(w) == worker'[w].pc \notin Active

FrameStep(w) == Goes(w) \/ Takes(w) \/ Rests(w)

LEMMA FrameStepOK ==
  ASSUME IInv, IInv', FrameOK, \A k \in Jobs : JobStep(k) /\ Fenced(k),
         NEW w \in Workers, FrameFits(w, worker[w]), FrameStep(w)
  PROVE  FrameFits(w, worker[w])'
<1> SUFFICES ASSUME worker'[w].pc \in Active PROVE FrameFits(w, worker[w])'
  BY DEF FrameFits
<1>1. CASE Goes(w)
  <2>0. PICK j \in Jobs, n \in Nat : j = worker[w].job /\ n = worker[w].attempt
    BY <1>1 DEF Goes, Busy, FrameOK, Frame
  <2>1. /\ JobStep(j) /\ Fenced(j) /\ n \in AttemptsOf(w, j)
        /\ worker[w].partial \in {0, n}
        /\ row[j].owner = w => n = row[j].attempts
        /\ worker[w].pc = "posting" =>
             /\ row[j].status = "completed"
             /\ row[j].payload = [kind |-> "final", attempt |-> n]
    BY <1>1, <2>0 DEF Goes, Busy, FrameFits
  <2>2. /\ worker'[w].job = j /\ worker'[w].attempt = n
        /\ worker'[w].partial \in {0, n}
        /\ worker'[w].pc = "posting" =>
                \/ worker[w].pc = "posting"
                \/ /\ row'[j].status = "completed"
                   /\ row'[j].payload = [kind |-> "final", attempt |-> n]
    BY <1>1, <2>0, <2>1 DEF Goes
  <2>3. Busy(w)
    BY <1>1 DEF Goes
  <2>4. n \in AttemptsOf(w, j)'
    BY <2>1, AttemptsKept
  <2>5. ASSUME row'[j].owner = w PROVE n = row'[j].attempts
    <3>1. Len(ledger'[j]) = Len(ledger[j])
      BY <2>1, <2>3, <2>5 DEF Fenced
    <3> QED BY <2>1, <2>5, <3>1, HolderKept, StoreAssumption
  <2>6. ASSUME worker'[w].pc = "posting"
        PROVE  /\ row'[j].status = "completed"
               /\ row'[j].payload = [kind |-> "final", attempt |-> n]
    <3>1. CASE worker[w].pc = "posting"
      BY <2>1, <3>1, FinishedStands DEF Terminal, Untouched
    <3> QED BY <2>2, <2>6, <3>1
  <2> QED BY <2>2, <2>4, <2>5, <2>6 DEF FrameFits
<1>2. CASE Takes(w)
  <2>1. PICK j \in Jobs : /\ worker'[w].pc = "working"
                          /\ worker'[w].job = j
                          /\ worker'[w].attempt = row'[j].attempts
                          /\ worker'[w].partial = 0
                          /\ row'[j].status = "running" /\ row'[j].owner = w
    BY <1>2 DEF Takes
  <2>2. /\ LedgerMatches(row'[j], ledger'[j]) /\ row'[j].attempts \in Nat
        /\ ledger'[j] \in Seq(Attempt)
    BY RowColumns DEF IInv, JobOK, JobInv
  <2>3. row'[j].attempts \in AttemptsOf(w, j)'
    BY <2>1, <2>2 DEF LedgerMatches, AttemptsOf, Leased
  <2> QED BY <2>1, <2>3 DEF FrameFits
<1> QED BY <1>1, <1>2 DEF FrameStep, Rests

(* Setting the frame of one Worker.                                        *)
LEMMA SetFrame ==
  ASSUME FrameOK, NEW w \in Workers, NEW f \in Frame, Shaped(f), Set(w, f)
  PROVE  /\ worker' \in [Workers -> Frame]
         /\ \A v \in Workers : Shaped(worker'[v])
         /\ worker'[w] = f
         /\ \A v \in Workers \ {w} : worker'[v] = worker[v]
  BY DEF FrameOK, Shaped, Set

LEMMA SameFrame ==
  ASSUME NEW w \in Workers, worker'[w] = worker[w]
  PROVE  FrameStep(w)
  BY DEF FrameStep, Goes, Rests, Busy

LEMMA RestingFrame ==
  ASSUME NEW pc \in {"idle", "down"}
  PROVE  NoJob(pc) \in Frame /\ Shaped(NoJob(pc)) /\ NoJob(pc).pc \notin Active
  BY DEF NoJob, Frame, Shaped, Active

-----------------------------------------------------------------------------
(* The calls of the store that the Workers make are fenced.                *)

AllFenced == \A k \in Jobs : Fenced(k)

LEMMA NoCallFenced ==
  ASSUME UNCHANGED vars
  PROVE  AllFenced
  BY DEF AllFenced, Fenced, vars

LEMMA OneJobFenced ==
  ASSUME Tables, NEW j \in Jobs, Fenced(j), NEW r, NEW l, NEW g,
         row' = [row EXCEPT ![j] = r],
         ledger' = [ledger EXCEPT ![j] = l],
         log' = [log EXCEPT ![j] = g]
  PROVE  AllFenced
<1>1. ASSUME NEW k \in Jobs, k # j PROVE Fenced(k)
  BY <1>1 DEF Fenced, Tables
<1> QED BY <1>1 DEF AllFenced

LEMMA ClaimFenced ==
  ASSUME IInv, NEW w \in Workers, NEW j \in Jobs, NEW d \in Stamps,
         ~Busy(w), ClaimNext(w, j, d)
  PROVE  /\ AllFenced
         /\ row'[j].status = "running" /\ row'[j].owner = w
         /\ row'[j].attempts = row[j].attempts + 1
<1> DEFINE s == Started(row[j], w, d)
           e == Ev("started", "running", row[j].attempts + 1)
<1>1. /\ Tables /\ row[j] \in Row /\ row[j].attempts \in Nat /\ d \in Int
  BY JobFacts, StampsAreIntegers
<1>2. /\ s.status = "running" /\ s.owner = w /\ s.payload = row[j].payload
      /\ s.attempts = row[j].attempts + 1
  BY <1>1 DEF Started, Row
<1>3. e \in Event /\ e.type = "started"
  BY <1>1 DEF Ev, Event, Statuses, Leased
<1>4. /\ row' = [row EXCEPT ![j] = s]
      /\ ledger' = [ledger EXCEPT ![j] = OpenAttempt(ledger[j], w)]
      /\ log' = [log EXCEPT ![j] = Append(log[j], e)]
  BY DEF ClaimNext, LogEvent
<1> HIDE DEF s, e
<1>5. row'[j] = s /\ Logs(j, e)
  BY <1>1, <1>4 DEF Tables, Logs
<1>6. Fenced(j)
  BY <1>2, <1>3, <1>5 DEF Fenced
<1> QED BY <1>1, <1>2, <1>4, <1>5, <1>6, OneJobFenced

LEMMA HeartbeatFenced ==
  ASSUME IInv, NEW w \in Workers, NEW j \in Jobs, NEW d \in Stamps, Heartbeat(w, j, d)
  PROVE  AllFenced
<1>1. Tables /\ row[j] \in Row
  BY JobFacts
<1>2. /\ row' = [row EXCEPT ![j] = Renewed(row[j], d)]
      /\ ledger' = [ledger EXCEPT ![j] = ledger[j]]
      /\ log' = [log EXCEPT ![j] = log[j]]
  BY <1>1, NoChange DEF Heartbeat
<1>3. Renewed(row[j], d).payload = row[j].payload
  BY <1>1 DEF Renewed, Row
<1>4. Fenced(j)
  BY <1>1, <1>2, <1>3 DEF Fenced, Tables
<1> QED BY <1>1, <1>2, <1>4, OneJobFenced

LEMMA ProgressFenced ==
  ASSUME IInv, NEW w \in Workers, NEW j \in Jobs, NEW d \in Stamps,
         RecordProgress(w, j, row[j].attempts, d)
  PROVE  AllFenced
<1> DEFINE e == Ev("progress", "none", row[j].attempts)
<1>1. Tables /\ row[j].attempts \in Nat
  BY JobFacts
<1>2. e \in Event /\ e.attempt = row[j].attempts
  BY <1>1 DEF Ev, Event
<1>3. /\ row' = [row EXCEPT ![j] = row[j]]
      /\ ledger' = [ledger EXCEPT ![j] = ledger[j]]
      /\ log' = [log EXCEPT ![j] = Append(log[j], e)]
  BY <1>1, NoChange DEF RecordProgress, LogEvent
<1> HIDE DEF e
<1>4. Fenced(j)
  BY <1>1, <1>2, <1>3 DEF Fenced, Tables, Logs
<1> QED BY <1>1, <1>3, <1>4, OneJobFenced

LEMMA SettleFenced ==
  ASSUME IInv, NEW j \in Jobs, NEW s \in Outcomes, NEW wait, NEW p, NEW closed,
         NEW type \in EventTypes,
         p = row[j].payload \/ p.attempt = row[j].attempts,
         Settle(j, s, wait, p, closed, type)
  PROVE  AllFenced
<1> DEFINE e == Ev(type, s, row[j].attempts)
           q == Released(row[j], s, wait, p)
           l == CloseAttempt(ledger[j], row[j].attempts, closed)
<1>1. /\ Tables /\ row[j] \in Row /\ row[j].attempts \in Nat
      /\ ledger[j] \in Seq(Attempt)
  BY JobFacts
<1>2. e \in Event /\ e.type # "progress"
  BY <1>1, EventTyped DEF Outcomes, Statuses, Waiting, Terminal, EventTypes
<1>3. q.payload = p /\ Len(l) = Len(ledger[j])
  BY <1>1 DEF Released, Row, CloseAttempt
<1>4. /\ row' = [row EXCEPT ![j] = q] /\ ledger' = [ledger EXCEPT ![j] = l]
      /\ log' = [log EXCEPT ![j] = Append(log[j], e)]
  BY DEF Settle, LogEvent
<1> HIDE DEF e, q, l
<1>5. Fenced(j)
  BY <1>1, <1>2, <1>3, <1>4 DEF Fenced, Tables, Logs
<1> QED BY <1>1, <1>4, <1>5, OneJobFenced

LEMMA CompleteFenced ==
  ASSUME IInv, NEW w \in Workers, NEW j \in Jobs, NEW d \in Stamps,
         Complete(w, j, row[j].attempts, d)
  PROVE  /\ AllFenced
         /\ row'[j].status = "completed" =>
              row'[j].payload = [kind |-> "final", attempt |-> row[j].attempts]
<1> DEFINE final == [kind |-> "final", attempt |-> row[j].attempts]
<1>1. Tables /\ row[j] \in Row /\ final.attempt = row[j].attempts
  BY JobFacts
<1> HIDE DEF final
<1>2. CASE Settle(j, "cancelled", row[j].wait, row[j].payload, "cancelled", "cancelled")
  <2>1. row'[j].status = "cancelled"
    BY <1>1, <1>2 DEF Settle, Released, Row, Tables
  <2> QED BY <1>2, <2>1, SettleFenced DEF Outcomes, EventTypes
<1>3. CASE Settle(j, "completed", row[j].wait, final, "completed", "completed")
  <2>1. row'[j].payload = final
    BY <1>1, <1>3 DEF Settle, Released, Row, Tables
  <2> QED BY <1>1, <1>3, <2>1, SettleFenced DEF Outcomes, EventTypes, final
<1> QED BY <1>2, <1>3 DEF Complete, final

LEMMA FailFenced ==
  ASSUME IInv, NEW w \in Workers, NEW j \in Jobs, NEW d \in Stamps,
         NEW retryable, NEW backoff, NEW n \in {0, row[j].attempts},
         FailAttempt(w, j, retryable, backoff, n, d)
  PROVE  AllFenced
<1> DEFINE p == IF n = 0 THEN row[j].payload ELSE [kind |-> "partial", attempt |-> n]
<1>1. p = row[j].payload \/ p.attempt = row[j].attempts
  OBVIOUS
<1>2. \/ Settle(j, "cancelled", Past, p, "cancelled", "cancelled")
      \/ Settle(j, "retry_wait", backoff + d, p, "failed", "retry_scheduled")
      \/ Settle(j, "failed", Past, p, "failed", "failed")
  BY DEF FailAttempt
<1> HIDE DEF p
<1> QED BY <1>1, <1>2, SettleFenced DEF Outcomes, EventTypes

LEMMA RecoverFenced ==
  ASSUME IInv, NEW S \in SUBSET Jobs, NEW backoff \in Backoffs, NEW d \in Stamps,
         RecoverStaleLeases(S, backoff, d)
  PROVE  AllFenced
<1>1. ASSUME NEW k \in Jobs, k \notin S PROVE Fenced(k)
  BY <1>1 DEF RecoverStaleLeases, Fenced
<1>2. ASSUME NEW k \in S PROVE Fenced(k)
  <2> DEFINE e == RecoveryEvent(k)
  <2>1. /\ row[k] \in Row /\ row[k].attempts \in Nat /\ ledger[k] \in Seq(Attempt)
    BY JobFacts
  <2>2. e \in Event /\ e.type # "progress"
    BY <2>1 DEF RecoveryEvent, AfterExpiry, Ev, Event, Statuses, Waiting, Terminal
  <2>3. row'[k].payload = row[k].payload
    BY <2>1 DEF RecoverStaleLeases, Recovered, Released, Row
  <2>4. Len(ledger'[k]) = Len(ledger[k])
    BY <2>1 DEF RecoverStaleLeases, CloseAttempt
  <2>5. Logs(k, e)
    BY DEF RecoverStaleLeases, Logs
  <2> QED BY <2>2, <2>3, <2>4, <2>5 DEF Fenced
<1> QED BY <1>1, <1>2 DEF AllFenced

LEMMA ClientFenced ==
  ASSUME IInv, NEW j \in Jobs, Enqueue(j) \/ RequestCancel(j)
  PROVE  AllFenced
<1>1. Tables /\ row[j] \in Row
  BY JobFacts
<1> DEFINE Types == {"queued", "cancelled", "cancel_requested"}
           Writes(r, type) ==
             /\ row' = [row EXCEPT ![j] = r]
             /\ log' = [log EXCEPT ![j] = Append(log[j], Ev(type, type, 0))]
             /\ ledger' = ledger
           queued == [row[j] EXCEPT !.status = "queued"]
           now    == CancelledNow(row[j])
           noted  == CancelNoted(row[j])
<1>2. \/ Writes(queued, "queued")
      \/ Writes(now, "cancelled")
      \/ Writes(noted, "cancel_requested")
  BY DEF Enqueue, RequestCancel, LogEvent
<1>3. PICK r \in {queued, now, noted}, type \in Types :
        Writes(r, type) /\ r.payload = row[j].payload
  <2>1. /\ queued.payload = row[j].payload
        /\ now.payload = row[j].payload
        /\ noted.payload = row[j].payload
    BY <1>1 DEF CancelledNow, CancelNoted, Row
  <2> HIDE DEF Writes, queued, now, noted
  <2> QED BY <1>2, <2>1
<1>4. Ev(type, type, 0) \in Event /\ Ev(type, type, 0).type # "progress"
  BY DEF Ev, Event, Statuses, Waiting, Leased, Terminal
<1>5. ledger' = [ledger EXCEPT ![j] = ledger[j]]
  BY <1>1, <1>3, NoChange
<1>6. Fenced(j)
  BY <1>1, <1>3, <1>4 DEF Fenced, Tables, Logs
<1> QED BY <1>1, <1>3, <1>5, <1>6, OneJobFenced

LEMMA TickFenced ==
  ASSUME IInv, Tick
  PROVE  AllFenced
<1>1. ASSUME NEW k \in Jobs PROVE Fenced(k)
  <2>1. row[k] \in Row
    BY JobFacts
  <2>2. row'[k].payload = row[k].payload
    BY <2>1 DEF Tick, Elapsed, Row
  <2> QED BY <2>2 DEF Tick, Fenced
<1> QED BY <1>1 DEF AllFenced

-----------------------------------------------------------------------------
(* Every action of the system calls the store legally, is fenced, and      *)
(* moves the frames as described.                                          *)

CandidateStep ==
  \A j \in candidates' : j \in candidates \/ \E w \in Workers : /\ At(w, "posting")
                                                               /\ worker[w].job = j

FramesMove == FrameOK' /\ (\A v \in Workers : FrameStep(v)) /\ CandidateStep

Legal == [Next]_vars /\ AllFenced /\ FramesMove

LEMMA BusyFacts ==
  ASSUME SysIInv, NEW w \in Workers, Busy(w)
  PROVE  /\ worker[w] \in Frame /\ worker[w].job \in Jobs /\ worker[w].attempt \in Nat
         /\ worker[w].attempt \in AttemptsOf(w, worker[w].job)
         /\ worker[w].attempt \in 1 .. MaxAttempts
         /\ worker[w].partial \in {0, worker[w].attempt}
         /\ \A d : HoldsLease(w, worker[w].job, d) =>
                     worker[w].attempt = row[worker[w].job].attempts
<1>1. /\ worker[w] \in Frame /\ worker[w].job \in Jobs /\ worker[w].attempt \in Nat
  BY DEF SysIInv, FrameOK, Busy, Frame
<1>2. /\ worker[w].attempt \in AttemptsOf(w, worker[w].job)
      /\ worker[w].partial \in {0, worker[w].attempt}
      /\ row[worker[w].job].owner = w => worker[w].attempt = row[worker[w].job].attempts
  BY DEF SysIInv, FrameFits, Busy
<1>3. PICK j \in Jobs : j = worker[w].job
  BY <1>1
<1>4. /\ ledger[j] \in Seq(Attempt) /\ LedgerMatches(row[j], ledger[j])
      /\ row[j].attempts \in Nat
  BY JobFacts DEF SysIInv
<1>5. worker[w].attempt \in 1 .. MaxAttempts
  BY <1>1, <1>2, <1>3, <1>4, StoreAssumption DEF AttemptsOf, LedgerMatches
<1> QED BY <1>1, <1>2, <1>5 DEF HoldsLease

LEMMA QuietWorkers ==
  ASSUME FrameOK, UNCHANGED workerVars
  PROVE  FramesMove
<1>1. FrameOK'
  BY DEF FrameOK, workerVars
<1>2. \A v \in Workers : FrameStep(v)
  BY SameFrame DEF workerVars
<1> QED BY <1>1, <1>2 DEF FramesMove, CandidateStep, workerVars

LEMMA OneFrame ==
  ASSUME FrameOK, NEW w \in Workers, NEW f \in Frame, Shaped(f), Set(w, f),
         worker'[w] = f => FrameStep(w),
         orphans' \in [Workers -> SUBSET Jobs], candidates' \subseteq Jobs,
         crashes' \in Nat, CandidateStep
  PROVE  FramesMove
<1>1. /\ worker' \in [Workers -> Frame]
      /\ \A v \in Workers : Shaped(worker'[v])
      /\ worker'[w] = f
      /\ \A v \in Workers \ {w} : worker'[v] = worker[v]
  BY SetFrame
<1>2. FrameOK'
  BY <1>1 DEF FrameOK, Shaped
<1>3. \A v \in Workers : FrameStep(v)
  BY <1>1, SameFrame
<1> QED BY <1>2, <1>3 DEF FramesMove

(* run_once ends.                                                          *)
LEMMA EndRunMoves ==
  ASSUME FrameOK, NEW w \in Workers, EndRun(w),
         candidates' \subseteq Jobs, crashes' \in Nat, CandidateStep
  PROVE  FramesMove
<1>1. /\ Set(w, NoJob("idle"))
      /\ NoJob("idle") \in Frame /\ Shaped(NoJob("idle"))
      /\ NoJob("idle").pc \notin Active
  BY RestingFrame DEF EndRun
<1>2. worker[w].beating => worker[w].job \in Jobs
  BY DEF FrameOK, NoJob
<1>3. orphans' \in [Workers -> SUBSET Jobs]
  BY <1>2 DEF EndRun, FrameOK
<1>4. worker'[w] = NoJob("idle") => FrameStep(w)
  BY <1>1 DEF FrameStep, Rests
<1> QED BY <1>1, <1>3, <1>4, OneFrame

(* run_once goes on with the same execution.                               *)
LEMMA GoOn ==
  ASSUME FrameOK, NEW w \in Workers, Busy(w), NEW f \in Frame, Set(w, f),
         f.pc \in Active, f.job = worker[w].job, f.attempt = worker[w].attempt,
         f.partial \in {worker[w].partial, 0, worker[w].attempt},
         f.pc = "posting" =>
           /\ row'[worker[w].job].status = "completed"
           /\ row'[worker[w].job].payload =
                [kind |-> "final", attempt |-> worker[w].attempt],
         UNCHANGED <<orphans, candidates, crashes>>
  PROVE  FramesMove
<1>1. Shaped(f)
  BY DEF FrameOK, Busy, Shaped
<1>2. worker'[w] = f => FrameStep(w)
  BY DEF FrameStep, Goes
<1>3. /\ orphans' \in [Workers -> SUBSET Jobs] /\ candidates' \subseteq Jobs
      /\ crashes' \in Nat /\ CandidateStep
  BY DEF FrameOK, CandidateStep
<1> QED BY <1>1, <1>2, <1>3, OneFrame

(* run_once enters its exception handler.                                  *)
LEMMA RaiseMoves ==
  ASSUME SysIInv, NEW w \in Workers, Busy(w), NEW retryable \in BOOLEAN,
         NEW partial \in {0, worker[w].attempt}, Raise(w, retryable, partial),
         UNCHANGED <<orphans, candidates, crashes>>
  PROVE  FramesMove
<1> DEFINE f == [worker[w] EXCEPT !.pc = "failing", !.retryable = retryable,
                                  !.partial = partial]
<1>1. worker[w] \in Frame /\ partial \in Nat /\ FrameOK
  BY BusyFacts DEF SysIInv
<1>2. /\ f \in Frame /\ f.pc = "failing" /\ f.job = worker[w].job
      /\ f.attempt = worker[w].attempt /\ f.partial = partial
  BY <1>1 DEF Frame, Active
<1>3. Set(w, f)
  BY DEF Raise
<1> HIDE DEF f
<1> QED BY <1>1, <1>2, <1>3, GoOn DEF Active

(* A step that does not call the store.                                    *)
LEMMA NoCall ==
  ASSUME UNCHANGED vars, FramesMove
  PROVE  Legal
  BY NoCallFenced DEF Legal

LEMMA ClientsAndTime ==
  ASSUME SysIInv,
         \/ \E j \in Jobs : Submit(j) \/ Cancel(j)
         \/ TimePasses
  PROVE  Legal
<1>1. /\ UNCHANGED workerVars
      /\ Tick \/ \E j \in Jobs : Enqueue(j) \/ RequestCancel(j)
  BY DEF Submit, Cancel, TimePasses
<1>2. Next
  BY <1>1 DEF Next
<1>3. AllFenced
  BY <1>1, ClientFenced, TickFenced DEF SysIInv
<1> QED BY <1>1, <1>2, <1>3, QuietWorkers DEF Legal, SysIInv

LEMMA RecoverLegal ==
  ASSUME SysIInv, NEW w \in Workers, Recovers(w)
  PROVE  Legal
<1>1. PICK S \in SUBSET Jobs, d \in Stamps : Recover(w, S, d)
  BY DEF Recovers
<1>2. RecoverStaleLeases(S, RetryBase, d) /\ UNCHANGED workerVars
  BY <1>1 DEF Recover
<1>3. Next /\ AllFenced
  BY <1>2, RecoverFenced, WorkerAssumption DEF Next, SysIInv
<1> QED BY <1>2, <1>3, QuietWorkers DEF Legal, SysIInv

LEMMA ClaimLegal ==
  ASSUME SysIInv, NEW w \in Workers, Claims(w)
  PROVE  Legal
<1>1. PICK j \in Jobs, d \in Stamps : Claim(w, j, d)
  BY DEF Claims
<1> DEFINE n == row[j].attempts + 1
           f == [NoJob("working") EXCEPT !.job = j, !.beating = TRUE, !.attempt = n]
<1>2. ClaimNext(w, j, d) /\ ~Busy(w) /\ UNCHANGED <<orphans, candidates, crashes>>
  BY <1>1 DEF Claim, At, Busy, Active
<1>3. Next
  BY <1>2 DEF Next, Call
<1>4. /\ AllFenced /\ row'[j].status = "running" /\ row'[j].owner = w
      /\ row'[j].attempts = n /\ n \in Nat
  BY <1>2, ClaimFenced, JobFacts DEF SysIInv
<1>5. CASE Set(w, f)
  <2>1. /\ f \in Frame /\ f.pc = "working" /\ f.job = j /\ f.attempt = n
        /\ f.partial = 0
    BY <1>4 DEF NoJob, Frame, Active
  <2> HIDE DEF f, n
  <2>2. Shaped(f)
    BY <2>1 DEF Shaped, Active
  <2>3. worker'[w] = f => FrameStep(w)
    BY <1>4, <2>1 DEF FrameStep, Takes
  <2>4. /\ FrameOK /\ orphans' \in [Workers -> SUBSET Jobs] /\ candidates' \subseteq Jobs
        /\ crashes' \in Nat /\ CandidateStep
    BY <1>2 DEF SysIInv, FrameOK, CandidateStep
  <2>5. FramesMove
    BY <1>5, <2>1, <2>2, <2>3, <2>4, OneFrame
  <2> QED BY <1>3, <1>4, <2>5 DEF Legal
<1>6. CASE UNCHANGED worker
  <2>1. UNCHANGED workerVars
    BY <1>2, <1>6 DEF workerVars
  <2> QED BY <1>3, <1>4, <2>1, QuietWorkers DEF Legal, SysIInv
<1> QED BY <1>1, <1>5, <1>6 DEF Claim

LEMMA WorkflowLegal ==
  ASSUME SysIInv, NEW w \in Workers,
         \/ \E retryable \in BOOLEAN, partial \in {0, worker[w].attempt} :
              WorkflowFails(w, retryable, partial)
         \/ WorkflowReturns(w)
         \/ \E d \in Stamps : ProgressRefused(w, d)
  PROVE  Legal
<1>1. /\ FrameOK /\ candidates' = candidates /\ crashes' = crashes /\ UNCHANGED vars
      /\ At(w, "working")
  BY DEF SysIInv, WorkflowFails, WorkflowReturns, ProgressRefused
<1>2. Busy(w) /\ worker[w] \in Frame
  BY <1>1, BusyFacts DEF At, Busy, Active
<1>3. candidates' \subseteq Jobs /\ crashes' \in Nat /\ CandidateStep
  BY <1>1 DEF FrameOK, CandidateStep
<1>4. CASE EndRun(w)
  BY <1>1, <1>3, <1>4, EndRunMoves, NoCall
<1>5. ASSUME NEW retryable \in BOOLEAN, NEW partial \in {0, worker[w].attempt},
             WorkflowFails(w, retryable, partial)
      PROVE  Legal
  <2>1. Raise(w, retryable, partial) /\ UNCHANGED <<orphans, candidates, crashes>>
    BY <1>5 DEF WorkflowFails
  <2> QED BY <1>1, <1>2, <2>1, RaiseMoves, NoCall
<1>6. CASE WorkflowReturns(w) /\ ~worker[w].lost
  <2> DEFINE f == [worker[w] EXCEPT !.pc = "committing"]
  <2>1. /\ f \in Frame /\ f.pc = "committing" /\ f.job = worker[w].job
        /\ f.attempt = worker[w].attempt /\ f.partial = worker[w].partial
    BY <1>2 DEF Frame, Active
  <2>2. Set(w, f) /\ UNCHANGED <<orphans, candidates, crashes>>
    BY <1>6 DEF WorkflowReturns
  <2> HIDE DEF f
  <2> QED BY <1>1, <1>2, <2>1, <2>2, GoOn, NoCall DEF Active
<1> QED BY <1>4, <1>5, <1>6 DEF WorkflowReturns, ProgressRefused

LEMMA CommitLegal ==
  ASSUME SysIInv, NEW w \in Workers, NEW d \in Stamps, Commit(w, d)
  PROVE  Legal
<1>1. /\ Busy(w) /\ FrameOK /\ IInv /\ candidates' = candidates /\ crashes' = crashes
  BY DEF SysIInv, Commit, At, Busy, Active
<1>2. PICK j \in Jobs, n \in Nat :
        /\ j = worker[w].job /\ n = worker[w].attempt
        /\ n \in AttemptsOf(w, j)
        /\ \A t : HoldsLease(w, j, t) => n = row[j].attempts
  BY <1>1, BusyFacts
<1>3. Complete(w, j, n, d)
  BY <1>2 DEF Commit
<1>4. n = row[j].attempts
  BY <1>2, <1>3 DEF Complete
<1>5. Next
  BY <1>2, <1>3 DEF Next, Call
<1>6. /\ AllFenced
      /\ row'[j].status = "completed" =>
           row'[j].payload = [kind |-> "final", attempt |-> n]
  BY <1>1, <1>3, <1>4, CompleteFenced
<1>7. candidates' \subseteq Jobs /\ crashes' \in Nat /\ CandidateStep
  BY <1>1 DEF FrameOK, CandidateStep
<1>8. CASE /\ row'[j].status = "completed"
           /\ Set(w, [worker[w] EXCEPT !.pc = "posting"]) /\ UNCHANGED orphans
  <2> DEFINE f == [worker[w] EXCEPT !.pc = "posting"]
  <2>1. /\ f \in Frame /\ f.pc = "posting" /\ f.job = worker[w].job
        /\ f.attempt = worker[w].attempt /\ f.partial = worker[w].partial
    BY <1>1, BusyFacts DEF Frame, Active
  <2>2. Set(w, f) /\ UNCHANGED <<orphans, candidates, crashes>>
    BY <1>1, <1>8
  <2> HIDE DEF f
  <2>3. FramesMove
    BY <1>1, <1>2, <1>6, <1>8, <2>1, <2>2, GoOn DEF Active
  <2> QED BY <1>5, <1>6, <2>3 DEF Legal
<1>9. CASE EndRun(w)
  BY <1>1, <1>5, <1>6, <1>7, <1>9, EndRunMoves DEF Legal
<1>10. CASE Raise(w, FALSE, 0) /\ UNCHANGED orphans
  <2>1. FramesMove
    BY <1>1, <1>10, RaiseMoves
  <2> QED BY <1>5, <1>6, <2>1 DEF Legal
<1> QED BY <1>2, <1>8, <1>9, <1>10 DEF Commit

LEMMA FailureLegal ==
  ASSUME SysIInv, NEW w \in Workers, NEW d \in Stamps,
         CommitFails(w, d) \/ ReportFailure(w, d)
  PROVE  Legal
<1>1. /\ Busy(w) /\ FrameOK /\ IInv /\ candidates' = candidates /\ crashes' = crashes
  BY DEF SysIInv, CommitFails, ReportFailure, At, Busy, Active
<1>2. candidates' \subseteq Jobs /\ crashes' \in Nat /\ CandidateStep
  BY <1>1 DEF FrameOK, CandidateStep
<1>3. CASE CommitFails(w, d)
  <2>1. CASE EndRun(w)
    BY <1>1, <1>2, <1>3, <2>1, EndRunMoves, NoCall DEF CommitFails
  <2>2. CASE Raise(w, FALSE, 0) /\ UNCHANGED orphans
    BY <1>1, <1>3, <2>2, RaiseMoves, NoCall DEF CommitFails
  <2> QED BY <1>3, <2>1, <2>2 DEF CommitFails
<1>4. CASE ReportFailure(w, d)
  <2>1. FramesMove
    BY <1>1, <1>2, <1>4, EndRunMoves DEF ReportFailure
  <2>2. CASE UNCHANGED vars
    BY <2>1, <2>2, NoCall
  <2>3. CASE FailAttempt(w, worker[w].job, worker[w].retryable,
                         Backoff(worker[w].attempt), worker[w].partial, d)
    <3>1. PICK j \in Jobs, retryable \in BOOLEAN, backoff \in Backoffs, n \in Nat :
            /\ j = worker[w].job /\ retryable = worker[w].retryable
            /\ backoff = Backoff(worker[w].attempt) /\ n = worker[w].partial
      <4>1. worker[w].retryable \in BOOLEAN /\ worker[w].partial \in Nat
        BY <1>1, BusyFacts DEF Frame
      <4>2. Backoff(worker[w].attempt) \in Backoffs
        BY <1>1, BusyFacts, WorkerAssumption
      <4> QED BY <1>1, <4>1, <4>2, BusyFacts
    <3>2. FailAttempt(w, j, retryable, backoff, n, d)
      BY <2>3, <3>1
    <3>3. n \in {0, row[j].attempts} /\ n \in AttemptsOf(w, j) \cup {0}
      <4>1. HoldsLease(w, j, d)
        BY <3>2 DEF FailAttempt
      <4> QED BY <1>1, <3>1, <4>1, BusyFacts
    <3>4. Next
      BY <3>2, <3>3 DEF Next, Call
    <3>5. AllFenced
      BY <1>1, <3>2, <3>3, FailFenced
    <3> QED BY <2>1, <3>4, <3>5 DEF Legal
  <2> QED BY <1>4, <2>2, <2>3 DEF ReportFailure
<1> QED BY <1>3, <1>4

LEMMA PostLegal ==
  ASSUME SysIInv, NEW w \in Workers, PostCommit(w)
  PROVE  Legal
<1>1. /\ Busy(w) /\ FrameOK /\ crashes' = crashes /\ UNCHANGED vars /\ EndRun(w)
      /\ candidates' \in {candidates, candidates \cup {worker[w].job}}
      /\ At(w, "posting")
  BY DEF SysIInv, PostCommit, At, Busy, Active
<1>2. worker[w].job \in Jobs
  BY <1>1, BusyFacts
<1>3. candidates' \subseteq Jobs /\ crashes' \in Nat /\ CandidateStep
  BY <1>1, <1>2 DEF FrameOK, CandidateStep
<1> QED BY <1>1, <1>3, EndRunMoves, NoCall

LEMMA HeartbeatLegal ==
  ASSUME SysIInv, NEW w \in Workers, NEW d \in Stamps,
         \/ Renew(w, d)
         \/ \E j \in Jobs : LateHeartbeat(w, j, d)
  PROVE  Legal
<1>1. FrameOK /\ IInv
  BY DEF SysIInv
<1>2. PICK j \in Jobs : Heartbeat(w, j, d) \/ UNCHANGED vars
  <2>1. worker[w].beating => worker[w].job \in Jobs
    BY <1>1 DEF FrameOK, NoJob
  <2> QED BY <2>1 DEF Renew, LateHeartbeat
<1>3. [Next]_vars /\ AllFenced
  BY <1>1, <1>2, HeartbeatFenced, NoCallFenced DEF Next, Call
<1>4. FramesMove
  <2>1. CASE UNCHANGED workerVars
    BY <1>1, <2>1, QuietWorkers
  <2>2. CASE /\ orphans' \in [Workers -> SUBSET Jobs]
             /\ UNCHANGED <<worker, candidates, crashes>>
    <3>1. FrameOK'
      BY <1>1, <2>2 DEF FrameOK
    <3>2. \A v \in Workers : FrameStep(v)
      BY <2>2, SameFrame
    <3> QED BY <2>2, <3>1, <3>2 DEF FramesMove, CandidateStep
  <2>3. ASSUME NEW k \in Jobs, LateHeartbeat(w, k, d)
        PROVE  orphans' \in [Workers -> SUBSET Jobs]
    BY <1>1, <2>3 DEF FrameOK, LateHeartbeat
  <2> QED BY <2>1, <2>2, <2>3 DEF Renew, LateHeartbeat
<1> QED BY <1>3, <1>4 DEF Legal

LEMMA ProgressLegal ==
  ASSUME SysIInv, NEW w \in Workers, NEW d \in Stamps, Progress(w, d)
  PROVE  Legal
<1>1. /\ Busy(w) /\ FrameOK /\ IInv /\ UNCHANGED workerVars
  BY DEF SysIInv, Progress, At, Busy, Active
<1>2. PICK j \in Jobs, n \in Nat :
        /\ j = worker[w].job /\ n = worker[w].attempt
        /\ n \in AttemptsOf(w, j)
        /\ \A t : HoldsLease(w, j, t) => n = row[j].attempts
  BY <1>1, BusyFacts
<1>3. RecordProgress(w, j, n, d) /\ Cardinality(ProgressEvents(j)) < MaxProgress
  BY <1>2 DEF Progress
<1>4. n = row[j].attempts
  BY <1>2, <1>3 DEF RecordProgress
<1>5. Next
  BY <1>2, <1>3 DEF Next, Call
<1>6. AllFenced
  BY <1>1, <1>3, <1>4, ProgressFenced
<1> QED BY <1>1, <1>5, <1>6, QuietWorkers DEF Legal

LEMMA ProcessLegal ==
  ASSUME SysIInv, NEW w \in Workers, StopBeating(w) \/ Crash(w) \/ Restart(w)
  PROVE  Legal
<1>1. /\ FrameOK /\ candidates' = candidates /\ UNCHANGED vars /\ crashes \in Nat
      /\ crashes' \in Nat
  BY DEF SysIInv, FrameOK, StopBeating, Crash, Restart
<1>2. candidates' \subseteq Jobs /\ CandidateStep
  BY <1>1 DEF FrameOK, CandidateStep
<1>3. CASE StopBeating(w)
  <2> DEFINE f == [worker[w] EXCEPT !.beating = FALSE, !.lost = TRUE]
  <2>1. Busy(w) /\ worker[w] \in Frame
    BY <1>1, <1>3 DEF StopBeating, FrameOK, NoJob, Busy
  <2>2. /\ f \in Frame /\ f.pc = worker[w].pc /\ f.job = worker[w].job
        /\ f.attempt = worker[w].attempt /\ f.partial = worker[w].partial
    BY <2>1 DEF Frame
  <2>3. Set(w, f) /\ UNCHANGED <<orphans, candidates, crashes>>
    BY <1>3 DEF StopBeating
  <2> HIDE DEF f
  <2>4. Shaped(f) /\ orphans' \in [Workers -> SUBSET Jobs]
    BY <1>1, <2>1, <2>2, <2>3 DEF FrameOK, Shaped, Busy
  <2>5. worker'[w] = f => FrameStep(w)
    BY <2>1, <2>2 DEF FrameStep, Goes, Busy
  <2> QED BY <1>1, <1>2, <2>2, <2>3, <2>4, <2>5, OneFrame, NoCall
<1>4. CASE Crash(w) \/ Restart(w)
  <2>1. PICK pc \in {"idle", "down"} : Set(w, NoJob(pc))
    BY <1>4 DEF Crash, Restart
  <2>2. orphans' \in [Workers -> SUBSET Jobs]
    BY <1>1, <1>4 DEF Crash, Restart, FrameOK
  <2>3. NoJob(pc) \in Frame /\ Shaped(NoJob(pc)) /\ NoJob(pc).pc \notin Active
    BY RestingFrame
  <2>4. worker'[w] = NoJob(pc) => FrameStep(w)
    BY <2>3 DEF FrameStep, Rests
  <2> QED BY <1>1, <1>2, <2>1, <2>2, <2>3, <2>4, OneFrame, NoCall
<1> QED BY <1>3, <1>4

LEMMA SysNextLegal ==
  ASSUME SysIInv, [SysNext]_sysVars
  PROVE  Legal
<1>1. CASE UNCHANGED sysVars
  BY <1>1, QuietWorkers, NoCall DEF sysVars, SysIInv
<1>2. CASE (\E j \in Jobs : Submit(j) \/ Cancel(j)) \/ TimePasses
  BY <1>2, ClientsAndTime
<1>3. ASSUME NEW w \in Workers, Recovers(w) \/ Claims(w) PROVE Legal
  BY <1>3, RecoverLegal, ClaimLegal
<1>4. ASSUME NEW w \in Workers, Advance(w) PROVE Legal
  BY <1>4, WorkflowLegal, CommitLegal, FailureLegal, PostLegal DEF Advance
<1>5. ASSUME NEW w \in Workers, Background(w) \/ Restart(w) PROVE Legal
  BY <1>5, HeartbeatLegal, ProgressLegal, ProcessLegal DEF Background
<1> QED BY <1>1, <1>2, <1>3, <1>4, <1>5 DEF SysNext

-----------------------------------------------------------------------------
(* The invariant.                                                          *)

LEMMA SysInitOK == SysInit => SysIInv
<1> SUFFICES ASSUME SysInit PROVE SysIInv
  OBVIOUS
<1>1. /\ Init /\ worker = [w \in Workers |-> NoJob("idle")]
      /\ orphans = [w \in Workers |-> {}] /\ candidates = {} /\ crashes = 0
  BY DEF SysInit
<1>2. IInv
  BY <1>1, InitOK
<1>3. NoJob("idle") \in Frame /\ NoJob("idle").pc = "idle" /\ "idle" \notin Active
  BY DEF NoJob, Frame, Active
<1>4. FrameOK
  BY <1>1, <1>3 DEF FrameOK
<1>5. \A w \in Workers : FrameFits(w, worker[w])
  BY <1>1, <1>3 DEF FrameFits
<1>6. ASSUME NEW j \in Jobs PROVE PayloadFits(row[j]) /\ EventsFit(row[j], log[j])
  <2>1. row[j] = Absent /\ log[j] = <<>>
    BY <1>1 DEF Init
  <2> QED BY <2>1 DEF PayloadFits, EventsFit, Attributed, Absent, Accepted, Leased
<1> QED BY <1>1, <1>2, <1>4, <1>5, <1>6 DEF SysIInv

LEMMA SysNextOK == SysIInv /\ [SysNext]_sysVars => SysIInv'
<1> SUFFICES ASSUME SysIInv, [SysNext]_sysVars PROVE SysIInv'
  OBVIOUS
<1>1. [Next]_vars /\ AllFenced /\ FramesMove
  BY SysNextLegal DEF Legal
<1>2. IInv /\ IInv' /\ \A k \in Jobs : JobStep(k) /\ Fenced(k)
  BY <1>1, NextOK, NextSteps DEF SysIInv, AllFenced
<1>3. \A j \in Jobs : PayloadFits(row[j])'
  BY <1>2, PayloadStep DEF SysIInv, PayloadFits
<1>4. \A j \in Jobs : EventsFit(row'[j], log'[j])
  BY <1>2, EventsStep DEF SysIInv
<1>5. \A w \in Workers : FrameFits(w, worker[w])'
  BY <1>1, <1>2, FrameStepOK DEF SysIInv, FramesMove
<1>6. ASSUME NEW j \in candidates' PROVE row'[j].status = "completed"
  <2>1. row[j].status = "completed" /\ j \in Jobs
    <3>1. CASE j \in candidates
      BY <3>1 DEF SysIInv, FrameOK
    <3>2. CASE \E w \in Workers : At(w, "posting") /\ worker[w].job = j
      BY <3>2 DEF SysIInv, FrameOK, FrameFits, At, Active
    <3> QED BY <1>1, <3>1, <3>2 DEF FramesMove, CandidateStep
  <2>2. Untouched(j)
    BY <1>2, <2>1, FinishedStands DEF Terminal
  <2> QED BY <2>1, <2>2 DEF Untouched
<1> QED BY <1>1, <1>2, <1>3, <1>4, <1>5, <1>6 DEF SysIInv, FramesMove

(* The system keeps the inductive invariant.                               *)
THEOREM SysInvariant == SysSpec => []SysIInv
  BY SysInitOK, SysNextOK, PTL DEF SysSpec

(* The local state of the Worker processes has its declared shape.         *)
THEOREM FramesAreCorrect == SysSpec => []FrameOK
<1>1. SysIInv => FrameOK
  BY DEF SysIInv
<1> QED BY <1>1, SysInvariant, PTL

(* Every step of QueueWorker is written as a step of the store or leaves   *)
(* the tables alone; so what is proved of JobStore holds of the system.    *)
LEMMA WorkersUseStore == SysSpec => Spec
<1>1. SysInit => Init
  BY DEF SysInit
<1>2. SysIInv /\ [SysNext]_sysVars => [Next]_vars
  BY SysNextLegal DEF Legal
<1> QED BY <1>1, <1>2, SysInvariant, PTL DEF SysSpec, Spec

(* A Worker that still holds the lease runs the current attempt.           *)
THEOREM LeaseFences == SysSpec => []LeaseMeansCurrent
<1>1. SysIInv => LeaseMeansCurrent
  BY DEF SysIInv, FrameFits, LeaseMeansCurrent
<1> QED BY <1>1, SysInvariant, PTL

(* No abandoned attempt overwrites a recovered Job.                        *)
THEOREM LateWorkersLose == SysSpec => []LastAttemptWins
<1>1. SysIInv => LastAttemptWins
  BY DEF SysIInv, PayloadFits, LastAttemptWins
<1> QED BY <1>1, SysInvariant, PTL

(* Every progress event belongs to the attempt started last before it.     *)
THEOREM ProgressHasAnAttempt == SysSpec => []ProgressIsAttributable
<1>1. SysIInv => ProgressIsAttributable
  BY DEF SysIInv, EventsFit, Attributed, LastStart, ProgressIsAttributable,
         ProgressEvents
<1> QED BY <1>1, SysInvariant, PTL

(* The memory service gets committed results only, each from the Worker    *)
(* that committed it.                                                      *)
THEOREM MemoryIsCommitted == SysSpec => []MemoryFollowsCommit
<1>1. SysIInv => MemoryFollowsCommit
  BY DEF SysIInv, FrameFits, At, Active, AttemptsOf, MemoryFollowsCommit
<1> QED BY <1>1, SysInvariant, PTL

-----------------------------------------------------------------------------
(* The page.                                                               *)

(* The ids of the events after a, up to b.                                 *)
Between(a, b) == [i \in 1 .. b - a |-> a + i]

(* The stream stands on the events of the table: the page shows a prefix   *)
(* of them, the EventSource stands within it, and an open connection       *)
(* carries what lies between EventSource and generator.                    *)
StreamFits ==
  /\ cursor \in Nat /\ lastId \in Nat
  /\ source # "open" => server = "off"
  /\ \E n \in Nat : n <= Len(Events) /\ shown = 1 .. n /\ lastId <= n
  /\ source = "open" => /\ lastId <= cursor /\ cursor <= Len(Events)
                        /\ wire = Between(lastId, cursor)

(* A terminal status the page shows, or is about to be told, is true.      *)
ViewFits ==
  /\ answers \in [Statuses -> Nat]
  /\ \A s \in Terminal : view = s \/ answers[s] > 0 => row[Watched].status = s

PageIInv == IInv /\ StreamFits /\ ViewFits

LEMMA WatchedEvents == IInv => Len(Events) \in Nat /\ Events \in Seq(Event)
  BY StreamAssumption DEF IInv, JobOK, JobInv, LogMatches, Events

(* The queue never takes an event back, nor a terminal status.             *)
LEMMA QueueKeeps ==
  ASSUME IInv, [Next]_vars
  PROVE  /\ IInv'
         /\ Len(Events)' \in Nat /\ Len(Events) <= Len(Events)'
         /\ row[Watched].status \in Terminal => row'[Watched].status = row[Watched].status
<1>1. JobStep(Watched) /\ Watched \in Jobs
  BY NextSteps, StreamAssumption
<1>2. Len(log[Watched]) \in Nat /\ log[Watched] \in Seq(Event)
  BY WatchedEvents DEF Events
<1>3. log'[Watched] = log[Watched] \/ \E e : Logs(Watched, e)
  BY <1>1 DEF JobStep, Untouched, Queues, Starts, Renews, Reports, Ends,
              EndsAs, CancelsNow, NotesCancel, Elapses
<1>4. Len(log'[Watched]) \in Nat /\ Len(log[Watched]) <= Len(log'[Watched])
  BY <1>2, <1>3 DEF Logs
<1>5. row[Watched].status \in Terminal => Untouched(Watched)
  <2> SUFFICES ASSUME row[Watched].status \in Terminal PROVE Untouched(Watched)
    OBVIOUS
  <2>1. Untouched(Watched) \/ Elapses(Watched)
    BY <1>1 DEF JobStep, Queues, Starts, Renews, Reports, Ends, EndsAs,
                CancelsNow, NotesCancel, Terminal, Waiting, Leased
  <2>2. Elapsed(row[Watched]) = row[Watched]
    BY <1>1, ElapsedOK DEF IInv, JobOK
  <2> QED BY <2>1, <2>2 DEF Elapses, Untouched
<1> QED BY <1>4, <1>5, NextOK DEF Events, Untouched

(* More of the events: reading on, receiving, and standing still.          *)
LEMMA BetweenOn ==
  ASSUME NEW a \in Nat, NEW b \in Nat, NEW c \in Nat, a <= b, b <= c
  PROVE  Between(a, b) \o Between(b, c) = Between(a, c)
<1>1. Between(a, b) \in Seq(Nat) /\ Len(Between(a, b)) = b - a
  BY DEF Between
<1>2. Between(b, c) \in Seq(Nat) /\ Len(Between(b, c)) = c - b
  BY DEF Between
<1>3. Between(a, c) \in Seq(Nat) /\ Len(Between(a, c)) = c - a
  BY DEF Between
<1>4. ASSUME NEW i \in 1 .. c - a
      PROVE  (Between(a, b) \o Between(b, c))[i] = Between(a, c)[i]
  BY <1>1, <1>2 DEF Between
<1>5. /\ Between(a, b) \o Between(b, c) \in Seq(Nat)
      /\ Len(Between(a, b) \o Between(b, c)) = c - a
  BY <1>1, <1>2
<1> QED BY <1>3, <1>4, <1>5, SeqEqual

LEMMA BetweenNext ==
  ASSUME NEW a \in Nat, NEW b \in Nat, Between(a, b) # <<>>
  PROVE  /\ a + 1 <= b
         /\ Head(Between(a, b)) = a + 1
         /\ Tail(Between(a, b)) = Between(a + 1, b)
<1>1. Between(a, b) \in Seq(Nat)
  BY DEF Between
<1>2. a + 1 <= b
  <2> SUFFICES ASSUME b <= a PROVE FALSE
    OBVIOUS
  <2>1. Len(Between(a, b)) = 0
    BY DEF Between
  <2> QED BY <1>1, <2>1
<1>3. Len(Between(a, b)) = b - a
  BY <1>2 DEF Between
<1>4. Between(a + 1, b) \in Seq(Nat) /\ Len(Between(a + 1, b)) = b - (a + 1)
  BY <1>2 DEF Between
<1>5. \A i \in 1 .. b - (a + 1) : Tail(Between(a, b))[i] = Between(a + 1, b)[i]
  BY <1>1, <1>2, <1>3 DEF Between
<1>6. Tail(Between(a, b)) \in Seq(Nat) /\ Len(Tail(Between(a, b))) = b - (a + 1)
  BY <1>1, <1>2, <1>3
<1>7. Head(Between(a, b)) = a + 1
  BY <1>2 DEF Between
<1>8. Tail(Between(a, b)) = Between(a + 1, b)
  BY <1>4, <1>5, <1>6, SeqEqual
<1> QED BY <1>2, <1>7, <1>8

-----------------------------------------------------------------------------
(* Where the stream stands after a step.                                   *)

(* The queue moves on and the stream does not.                             *)
LEMMA StreamWaits ==
  ASSUME StreamFits, Len(Events) \in Nat, Len(Events)' \in Nat,
         Len(Events) <= Len(Events)', UNCHANGED streamVars
  PROVE  StreamFits'
<1>1. /\ source' = source /\ server' = server /\ cursor' = cursor /\ wire' = wire
      /\ lastId' = lastId /\ shown' = shown
  BY DEF streamVars, connection
<1>2. Between(lastId', cursor') = Between(lastId, cursor)
  BY <1>1
<1>3. PICK n \in Nat : n <= Len(Events) /\ shown = 1 .. n /\ lastId <= n
  BY DEF StreamFits
<1>4. n <= Len(Events)' /\ shown' = 1 .. n /\ lastId' <= n
  BY <1>1, <1>3
<1>5. source = "open" => /\ lastId <= cursor /\ cursor <= Len(Events)'
                         /\ wire = Between(lastId, cursor)
  BY DEF StreamFits
<1> QED BY <1>1, <1>2, <1>4, <1>5 DEF StreamFits

(* A connection is given up, or asked for.                                 *)
LEMMA StreamCloses ==
  ASSUME StreamFits, Len(Events) \in Nat, Len(Events)' \in Nat,
         Len(Events) <= Len(Events)', NEW state, state # "open", NoConnection(state),
         \/ lastId' \in {0, lastId} /\ shown' = shown
         \/ lastId' = 0 /\ shown' = {}
  PROVE  StreamFits'
<1>1. source' = state /\ server' = "off" /\ cursor' = 0
  BY DEF NoConnection
<1>2. PICK n \in Nat : n <= Len(Events) /\ shown = 1 .. n /\ lastId <= n
  BY DEF StreamFits
<1>3. lastId' \in Nat
  BY DEF StreamFits
<1>4. \E k \in Nat : k <= Len(Events)' /\ shown' = 1 .. k /\ lastId' <= k
  <2>1. CASE lastId' \in {0, lastId} /\ shown' = shown
    BY <1>2, <1>3, <2>1
  <2>2. CASE lastId' = 0 /\ shown' = {}
    <3>1. {} = 1 .. 0
      OBVIOUS
    <3> QED BY <2>2, <3>1
  <2> QED BY <2>1, <2>2
<1> QED BY <1>1, <1>3, <1>4 DEF StreamFits

LEMMA ConnectOK ==
  ASSUME StreamFits, Len(Events) \in Nat, Events' = Events, Connect
  PROVE  StreamFits'
<1>1. /\ source' = "open" /\ server' = "list" /\ cursor' = lastId /\ wire' = <<>>
      /\ lastId' = lastId /\ shown' = shown
  BY DEF Connect
<1>2. lastId \in Nat /\ \E n \in Nat : n <= Len(Events) /\ shown = 1 .. n /\ lastId <= n
  BY DEF StreamFits
<1>3. Between(lastId, lastId) = <<>>
  <2>1. Between(lastId, lastId) \in Seq(Nat) /\ Len(Between(lastId, lastId)) = 0
    BY <1>2 DEF Between
  <2> QED BY <2>1
<1>4. Between(lastId', cursor') = <<>>
  BY <1>1, <1>3
<1> QED BY <1>1, <1>2, <1>4 DEF StreamFits

LEMMA SendEventsOK ==
  ASSUME StreamFits, Len(Events) \in Nat, Events' = Events, SendEvents
  PROVE  StreamFits'
<1>1. /\ source = "open" /\ lastId \in Nat /\ cursor \in Nat
      /\ lastId <= cursor /\ cursor <= Len(Events) /\ wire = Between(lastId, cursor)
  BY DEF StreamFits, SendEvents
<1>2. /\ cursor' = Len(Events) /\ wire' = wire \o Between(cursor, Len(Events))
      /\ source' = source /\ lastId' = lastId /\ shown' = shown
  BY <1>1 DEF SendEvents, Between
<1>3. wire' = Between(lastId, Len(Events))
  BY <1>1, <1>2, BetweenOn
<1>4. Between(lastId', cursor') = Between(lastId, Len(Events))
  BY <1>2
<1>5. \E n \in Nat : n <= Len(Events) /\ shown = 1 .. n /\ lastId <= n
  BY DEF StreamFits
<1> QED BY <1>1, <1>2, <1>3, <1>4, <1>5 DEF StreamFits

LEMMA CheckStatusOK ==
  ASSUME StreamFits, Events' = Events, CheckStatus
  PROVE  StreamFits'
<1>1. source = "open"
  BY DEF StreamFits, CheckStatus
<1>2. /\ source' = source /\ cursor' = cursor /\ wire' = wire
      /\ lastId' = lastId /\ shown' = shown
  BY DEF CheckStatus
<1>3. Between(lastId', cursor') = Between(lastId, cursor)
  BY <1>2
<1> QED BY <1>1, <1>2, <1>3 DEF StreamFits

LEMMA ReceiveOK ==
  ASSUME StreamFits, Len(Events) \in Nat, Events' = Events, Receive
  PROVE  StreamFits'
<1>1. /\ source = "open" /\ lastId \in Nat /\ cursor \in Nat
      /\ lastId <= cursor /\ cursor <= Len(Events) /\ wire = Between(lastId, cursor)
      /\ wire # <<>>
  BY DEF StreamFits, Receive
<1>2. /\ lastId + 1 <= cursor /\ Head(wire) = lastId + 1
      /\ Tail(wire) = Between(lastId + 1, cursor)
  BY <1>1, BetweenNext
<1>3. /\ source' = source /\ server' = server /\ cursor' = cursor
      /\ lastId' = lastId + 1 /\ wire' = Between(lastId + 1, cursor)
      /\ shown' = shown \cup {lastId + 1}
  BY <1>2 DEF Receive
<1>4. Between(lastId', cursor') = Between(lastId + 1, cursor)
  BY <1>3
<1>5. PICK n \in Nat : n <= Len(Events) /\ shown = 1 .. n /\ lastId <= n
  BY DEF StreamFits
<1>6. \E k \in Nat : k <= Len(Events) /\ shown' = 1 .. k /\ lastId' <= k
  <2>1. CASE lastId = n
    <3>1. shown' = 1 .. n + 1
      BY <1>3, <1>5, <2>1
    <3> QED BY <1>1, <1>2, <1>3, <2>1, <3>1
  <2>2. CASE lastId < n
    <3>1. shown' = 1 .. n
      BY <1>1, <1>3, <1>5, <2>2
    <3> QED BY <1>1, <1>3, <1>5, <2>2, <3>1
  <2> QED BY <1>1, <1>5, <2>1, <2>2
<1> QED BY <1>1, <1>2, <1>3, <1>4, <1>6 DEF StreamFits

-----------------------------------------------------------------------------
(* What the page shows after a step.                                       *)

(* Nothing the page was told changes, or it is forgotten, while the queue  *)
(* moves on.                                                               *)
LEMMA ViewWaits ==
  ASSUME ViewFits, row[Watched].status \in Terminal
                     => row'[Watched].status = row[Watched].status,
         view' = view \/ view' \notin Terminal,
         answers' = answers \/ answers' = [s \in Statuses |-> 0]
  PROVE  ViewFits'
<1>1. answers' \in [Statuses -> Nat]
  BY DEF ViewFits
<1>2. ASSUME NEW s \in Terminal, view' = s \/ answers'[s] > 0
      PROVE  row'[Watched].status = s
  <2>1. s \in Statuses
    BY DEF Statuses
  <2>2. view = s \/ answers[s] > 0
    BY <1>2, <2>1
  <2> QED BY <2>2 DEF ViewFits
<1> QED BY <1>1, <1>2 DEF ViewFits

(* The server answers with the status of the Job.                          *)
LEMMA ViewAnswered ==
  ASSUME ViewFits, row'[Watched].status \in Statuses,
         row[Watched].status \in Terminal => row'[Watched].status = row[Watched].status,
         view' = view,
         answers' = [answers EXCEPT ![row'[Watched].status] = @ + 1]
  PROVE  ViewFits'
<1> DEFINE t == row'[Watched].status
<1>1. t \in Statuses /\ answers \in [Statuses -> Nat]
  BY DEF ViewFits
<1>2. answers' = [answers EXCEPT ![t] = answers[t] + 1]
  OBVIOUS
<1> HIDE DEF t
<1>3. answers' \in [Statuses -> Nat]
  BY <1>1, <1>2
<1>4. ASSUME NEW s \in Terminal, view' = s \/ answers'[s] > 0
      PROVE  t = s
  <2> SUFFICES ASSUME t # s PROVE FALSE
    OBVIOUS
  <2>1. s \in Statuses /\ answers'[s] = answers[s]
    BY <1>1, <1>2 DEF Statuses
  <2>2. row[Watched].status = s
    BY <1>4, <2>1 DEF ViewFits
  <2> QED BY <1>4, <2>2 DEF t
<1> QED BY <1>3, <1>4 DEF ViewFits, t

(* The page shows an answer, however old.                                  *)
LEMMA ViewApplies ==
  ASSUME ViewFits, row' = row, NEW s \in Statuses, Apply(s)
  PROVE  ViewFits'
<1>1. /\ answers \in [Statuses -> Nat] /\ answers[s] > 0 /\ view' = s
      /\ answers' = [answers EXCEPT ![s] = answers[s] - 1]
  BY DEF ViewFits, Apply
<1>2. answers' \in [Statuses -> Nat]
  BY <1>1
<1>3. ASSUME NEW t \in Terminal, view' = t \/ answers'[t] > 0
      PROVE  answers[t] > 0
  <2>1. t \in Statuses
    BY DEF Statuses
  <2> QED BY <1>1, <1>3, <2>1
<1> QED BY <1>2, <1>3 DEF ViewFits

-----------------------------------------------------------------------------
(* The page with the queue behind it.                                      *)

(* Every step of the system is a step of the queue.                        *)
LEMMA PageMovesQueue ==
  ASSUME [PageNext]_allVars
  PROVE  [Next]_vars
<1>1. CASE SubmitJob
  <2>1. Next
    BY <1>1, StreamAssumption DEF SubmitJob, Next
  <2> QED BY <2>1
<1>2. CASE PressCancel
  <2>1. CASE RequestCancel(Watched)
    BY <2>1, StreamAssumption DEF Next
  <2> QED BY <1>2, <2>1 DEF PressCancel
<1>3. CASE \/ QueueMoves \/ StreamMoves \/ ReceiveEvent \/ Poll \/ ReadJob
           \/ RefreshFails \/ Reload \/ UNCHANGED allVars
  BY <1>3 DEF QueueMoves, StreamMoves, ReceiveEvent, Poll, ReadJob, RefreshFails,
              Reload, allVars
<1>4. CASE \E s \in Statuses : Apply(s)
  BY <1>4 DEF Apply
<1> QED BY <1>1, <1>2, <1>3, <1>4 DEF PageNext

LEMMA PageInitOK == PageInit => PageIInv
<1> SUFFICES ASSUME PageInit PROVE PageIInv
  OBVIOUS
<1>1. IInv
  BY InitOK DEF PageInit
<1>2. StreamFits
  <2>1. source = "none" /\ server = "off" /\ lastId = 0 /\ cursor = 0 /\ shown = {}
    BY DEF PageInit, StreamInit
  <2>2. {} = 1 .. 0 /\ Len(Events) \in Nat
    BY <1>1, WatchedEvents
  <2> QED BY <2>1, <2>2 DEF StreamFits
<1>3. ViewFits
  <2>1. view = "none" /\ answers = [s \in Statuses |-> 0]
    BY DEF PageInit
  <2>2. \A s \in Terminal : s \in Statuses /\ s # "none"
    BY DEF Terminal, Statuses
  <2> QED BY <2>1, <2>2 DEF ViewFits
<1> QED BY <1>1, <1>2, <1>3 DEF PageIInv

LEMMA PageNextOK == PageIInv /\ [PageNext]_allVars => PageIInv'
<1> SUFFICES ASSUME PageIInv, [PageNext]_allVars PROVE PageIInv'
  OBVIOUS
<1>1. [Next]_vars
  BY PageMovesQueue
<1>2. IInv /\ StreamFits /\ ViewFits
  BY DEF PageIInv
<1>3. /\ IInv'
      /\ Len(Events) \in Nat /\ Len(Events)' \in Nat /\ Len(Events) <= Len(Events)'
      /\ row[Watched].status \in Terminal => row'[Watched].status = row[Watched].status
  BY <1>1, <1>2, QueueKeeps, WatchedEvents
<1>4. row'[Watched].status \in Statuses
  BY <1>3, RowColumns, StreamAssumption DEF IInv, JobOK, JobInv
<1>5. CASE SubmitJob
  <2>1. /\ NoConnection("connecting") /\ lastId' = lastId /\ shown' = shown
        /\ view' = "queued" /\ answers' = answers
    BY <1>5 DEF SubmitJob
  <2>2. StreamFits'
    BY <1>2, <1>3, <2>1, StreamCloses
  <2>3. "queued" \notin Terminal
    BY DEF Terminal
  <2>4. ViewFits'
    BY <1>2, <1>3, <2>1, <2>3, ViewWaits
  <2> QED BY <1>3, <2>2, <2>4 DEF PageIInv
<1>6. CASE PressCancel
  <2>1. /\ UNCHANGED streamVars /\ view' = view
        /\ answers' = [answers EXCEPT ![row'[Watched].status] = @ + 1]
    BY <1>6 DEF PressCancel
  <2>2. StreamFits' /\ ViewFits'
    BY <1>2, <1>3, <1>4, <2>1, StreamWaits, ViewAnswered
  <2> QED BY <1>3, <2>2 DEF PageIInv
<1>7. CASE QueueMoves \/ Poll \/ UNCHANGED allVars
  <2>1. UNCHANGED streamVars /\ view' = view /\ answers' = answers
    BY <1>7 DEF QueueMoves, Poll, allVars, pageVars
  <2>2. StreamFits' /\ ViewFits'
    BY <1>2, <1>3, <2>1, StreamWaits, ViewWaits
  <2> QED BY <1>3, <2>2 DEF PageIInv
<1>8. CASE StreamMoves
  <2>1. /\ Events' = Events /\ view' = view /\ answers' = answers
        /\ Connect \/ SendEvents \/ CheckStatus \/ EndOfStream \/ Drop \/ Refused
    BY <1>8 DEF StreamMoves, vars, pageVars, Events
  <2>2. ASSUME EndOfStream \/ Drop \/ Refused PROVE StreamFits'
    <3>1. PICK state \in {"connecting", "dead"} : NoConnection(state)
      BY <2>2 DEF EndOfStream, Drop, Refused
    <3>2. lastId' = lastId /\ shown' = shown
      BY <2>2 DEF EndOfStream, Drop, Refused
    <3> QED BY <1>2, <1>3, <3>1, <3>2, StreamCloses
  <2>3. StreamFits'
    BY <1>2, <1>3, <2>1, <2>2, ConnectOK, SendEventsOK, CheckStatusOK
  <2>4. ViewFits'
    BY <1>2, <1>3, <2>1, ViewWaits
  <2> QED BY <1>3, <2>3, <2>4 DEF PageIInv
<1>9. CASE ReceiveEvent
  <2>1. Receive /\ Events' = Events /\ view' = view /\ answers' = answers
    BY <1>9 DEF ReceiveEvent, vars, Events
  <2>2. StreamFits' /\ ViewFits'
    BY <1>2, <1>3, <2>1, ReceiveOK, ViewWaits
  <2> QED BY <1>3, <2>2 DEF PageIInv
<1>10. CASE ReadJob
  <2>1. /\ UNCHANGED streamVars /\ view' = view /\ row' = row
        /\ answers' = [answers EXCEPT ![row'[Watched].status] = @ + 1]
    BY <1>10 DEF ReadJob, vars
  <2>2. StreamFits' /\ ViewFits'
    BY <1>2, <1>3, <1>4, <2>1, StreamWaits, ViewAnswered
  <2> QED BY <1>3, <2>2 DEF PageIInv
<1>11. CASE RefreshFails
  <2>1. /\ source' = source /\ server' = server /\ cursor' = cursor /\ wire' = wire
        /\ lastId' = lastId /\ shown' = shown /\ answers' = answers /\ Events' = Events
        /\ view' = view \/ view' = "lost"
    BY <1>11 DEF RefreshFails, connection, vars, Events
  <2>2. "lost" \notin Terminal
    BY DEF Terminal
  <2>3. Between(lastId', cursor') = Between(lastId, cursor)
    BY <2>1
  <2>4. StreamFits'
    BY <1>2, <2>1, <2>3 DEF StreamFits
  <2>5. ViewFits'
    BY <1>2, <1>3, <2>1, <2>2, ViewWaits
  <2> QED BY <1>3, <2>4, <2>5 DEF PageIInv
<1>12. CASE Reload
  <2>1. /\ NoConnection("none") /\ lastId' = 0 /\ shown' = {}
        /\ view' = "loading" /\ answers' = [s \in Statuses |-> 0]
    BY <1>12 DEF Reload
  <2>2. "loading" \notin Terminal
    BY DEF Terminal
  <2>3. StreamFits'
    BY <1>2, <1>3, <2>1, StreamCloses
  <2>4. ViewFits'
    BY <1>2, <1>3, <2>1, <2>2, ViewWaits
  <2> QED BY <1>3, <2>3, <2>4 DEF PageIInv
<1>13. ASSUME NEW s \in Statuses, Apply(s) PROVE PageIInv'
  <2>1. row' = row /\ Events' = Events /\ shown' = shown
    BY <1>13 DEF Apply, vars, Events
  <2>2. ViewFits'
    BY <1>2, <1>13, <2>1, ViewApplies
  <2>3. ASSUME s \in ActiveView <=> view \in ActiveView PROVE StreamFits'
    <3>1. /\ source' = source /\ server' = server /\ cursor' = cursor /\ wire' = wire
          /\ lastId' = lastId
      BY <1>13, <2>3 DEF Apply, connection
    <3>2. Between(lastId', cursor') = Between(lastId, cursor)
      BY <3>1
    <3> QED BY <1>2, <2>1, <3>1, <3>2 DEF StreamFits
  <2>4. ASSUME ~(s \in ActiveView <=> view \in ActiveView) PROVE StreamFits'
    <3>1. PICK state \in {"connecting", "none"} : NoConnection(state)
      BY <1>13, <2>4 DEF Apply
    <3>2. lastId' = 0
      BY <1>13, <2>4 DEF Apply
    <3> QED BY <1>2, <1>3, <2>1, <3>1, <3>2, StreamCloses
  <2> QED BY <1>3, <2>2, <2>3, <2>4 DEF PageIInv
<1> QED BY <1>5, <1>6, <1>7, <1>8, <1>9, <1>10, <1>11, <1>12, <1>13 DEF PageNext

(* PageSpec keeps the inductive invariant.                                 *)
THEOREM PageInvariant == PageSpec => []PageIInv
  BY PageInitOK, PageNextOK, PTL DEF PageSpec

(* What the page shows of the events has no gaps.                          *)
THEOREM EventsHaveNoGaps == PageSpec => []NoGaps
<1>1. PageIInv => NoGaps
  <2> SUFFICES ASSUME PageIInv PROVE NoGaps
    OBVIOUS
  <2>1. Len(Events) \in Nat /\ StreamFits
    BY WatchedEvents DEF PageIInv
  <2>2. PICK n \in Nat : n <= Len(Events) /\ shown = 1 .. n /\ lastId <= n
    BY <2>1 DEF StreamFits
  <2>3. lastId = 0 \/ lastId \in shown
    BY <2>1, <2>2 DEF StreamFits
  <2>4. source = "open" => wire = [i \in 1 .. cursor - lastId |-> lastId + i]
    BY <2>1 DEF StreamFits, Between
  <2> QED BY <2>1, <2>2, <2>3, <2>4 DEF NoGaps
<1> QED BY <1>1, PageInvariant, PTL

(* A terminal status on the page is true, whatever answers are late.       *)
THEOREM ViewIsTrue == PageSpec => []TerminalViewIsTrue
<1>1. PageIInv => TerminalViewIsTrue
  BY DEF PageIInv, ViewFits, TerminalViewIsTrue
<1> QED BY <1>1, PageInvariant, PTL

(* PageSpec lets the queue move by the steps of JobStore only, so what is  *)
(* proved of JobStore holds with the page.                                 *)
LEMMA PageUsesStore == PageSpec => Spec
<1>1. PageInit => Init
  BY DEF PageInit
<1>2. [PageNext]_allVars => [Next]_vars
  BY PageMovesQueue
<1> QED BY <1>1, <1>2, PTL DEF PageSpec, Spec
=============================================================================
