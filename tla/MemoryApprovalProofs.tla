------------------------ MODULE MemoryApprovalProofs ------------------------
(***************************************************************************)
(* TLAPS proofs about MemoryApproval, for any candidates, engineers,       *)
(* spellings of their ids, handlers and readers.                           *)
(*                                                                         *)
(* JobInv says of one candidate that row, decisions, library and trail     *)
(* agree.  A decision preserves it (DecisionOK) because it is applied to   *)
(* what the tables hold (LoadedIsCurrent, from the row lock).              *)
(***************************************************************************)
EXTENDS MemoryApproval, TLAPS

LibraryFits(r, s, l) == /\ l # {} <=> r.status = "published"
                        /\ l # {} => l = s

Distinct(s) == \A a, b \in s : a.engineer = b.engineer => a = b

JobInv(r, s, l, t) == /\ Distinct(s)
                      /\ StatusFits(r, s)
                      /\ LibraryFits(r, s, l)
                      /\ TrailFits(t, r, s)

JobsInv == \A j \in Jobs : JobInv(row[j], approvals[j], library[j], audit[j])

(* What a reader has was once true, and a final status still is.  With it  *)
(* come all decisions, because it was read before them.                    *)
ViewInv ==
  \A r \in Readers : view[r].pc \in {"half", "shown"} =>
    LET v == view[r]
    IN /\ v.job \in Jobs
       /\ v.row.status \in Terminal => v.row = row[v.job]
       /\ v.pc = "shown" => /\ v.approvals \subseteq approvals[v.job]
                            /\ v.row.status \in Terminal =>
                                 v.approvals = approvals[v.job]

(* The inductive invariant.                                                *)
IInv == TypeOK /\ LoadedIsCurrent /\ JobsInv /\ ViewInv

-----------------------------------------------------------------------------
(* Normalizing an engineer id again changes nothing.                       *)
LEMMA Normalized ==
  /\ \A n \in Names : Engineer[n] \in Engineers
  /\ \A e \in Engineers : Engineer[e] = e
  BY MemoryAssumption DEF Engineers

LEMMA PcDistinguishes ==
  /\ Idle.pc = "idle"
  /\ \A c \in Called : c.pc = "called"
  /\ \A c \in Loaded : c.pc = "loaded"
  /\ Blank.pc = "blank"
  /\ \A v \in Shown : v.pc \in {"half", "shown"}
  BY DEF Idle, Called, Loaded, Blank, Shown

LEMMA LoadedCall ==
  ASSUME TypeOK, NEW h \in Handlers, call[h].pc = "loaded"
  PROVE  /\ call[h] \in Loaded
         /\ call[h].job \in Jobs
         /\ call[h].approval \in Approval
         /\ call[h].row \in Row
         /\ call[h].approvals \in SUBSET Approval
<1>1. call[h] \in Loaded
  BY PcDistinguishes DEF TypeOK
<1> QED BY <1>1 DEF Loaded

LEMMA CalledCall ==
  ASSUME TypeOK, NEW h \in Handlers, call[h].pc = "called"
  PROVE  /\ call[h].job \in Jobs
         /\ call[h].approval \in Approval
<1>1. call[h] \in Called
  BY PcDistinguishes DEF TypeOK
<1> QED BY <1>1 DEF Called

LEMMA ReadingView ==
  ASSUME TypeOK, NEW r \in Readers, view[r].pc \in {"half", "shown"}
  PROVE  /\ view[r] \in Shown
         /\ view[r].job \in Jobs
         /\ view[r].row \in Row
         /\ view[r].approvals \in SUBSET Approval
<1>1. view[r] \in Shown
  BY PcDistinguishes DEF TypeOK
<1> QED BY <1>1 DEF Shown

-----------------------------------------------------------------------------
(* A candidate that waits has an all-approving record without an outcome.  *)
LEMMA TrailOfWaiting ==
  ASSUME NEW t \in Seq(Event), NEW r \in Row, NEW s \in SUBSET Approval,
         TrailFits(t, r, s), r.status \in {"absent", "pending"}
  PROVE  \A i \in DOMAIN t : t[i].action = "recorded"
<1> SUFFICES ASSUME NEW i \in DOMAIN t, t[i].action # "recorded"
             PROVE  FALSE
  OBVIOUS
<1>1. t[i].action = r.status
  BY DEF TrailFits
<1>2. t[i] \in Event
  OBVIOUS
<1> QED BY <1>1, <1>2 DEF Event, Terminal

LEMMA CreatedOK ==
  ASSUME NEW r \in Row, NEW s \in SUBSET Approval, NEW l, NEW t \in Seq(Event),
         JobInv(r, s, l, t), r.status = "absent", NEW gated \in BOOLEAN,
         NEW q, q = [status |-> "pending", gated |-> gated]
  PROVE  JobInv(q, s, l, t)
<1>1. q.status = "pending"
  OBVIOUS
<1>2. s = {} /\ Distinct(s) /\ LibraryFits(r, s, l) /\ TrailFits(t, r, s)
  BY DEF JobInv, StatusFits
<1>3. StatusFits(q, s)
  BY <1>1, <1>2 DEF StatusFits, Approved, TwoIn, Terminal
<1>4. LibraryFits(q, s, l)
  BY <1>1, <1>2 DEF LibraryFits
<1>5. TrailFits(t, q, s)
  <2>1. \A i \in DOMAIN t : t[i].action = "recorded"
    BY <1>2, TrailOfWaiting
  <2> QED BY <2>1, <1>1, <1>2 DEF TrailFits, Terminal
<1> QED BY <1>2, <1>3, <1>4, <1>5 DEF JobInv

(* The trail after a decision of an engineer who has not decided before.   *)
LEMMA AuditedOK ==
  ASSUME NEW t \in Seq(Event), NEW r \in Row, NEW s \in SUBSET Approval,
         TrailFits(t, r, s), r.status = "pending",
         NEW c, c.approval \in Approval,
         \A b \in s : b.engineer # c.approval.engineer,
         NEW q \in Row, q.status \in {"pending"} \cup Terminal
  PROVE  /\ t \o AuditOf(c, q.status) \in Seq(Event)
         /\ TrailFits(t \o AuditOf(c, q.status), q, s \cup {c.approval})
<1> DEFINE a == c.approval
           A == AuditOf(c, q.status)
           u == t \o A
           n == Len(t)
<1>1. /\ A \in Seq(Event)
      /\ A[1] = [action |-> "recorded", actor |-> a.engineer]
      /\ q.status \notin Terminal => Len(A) = 1
      /\ q.status \in Terminal =>
           Len(A) = 2 /\ A[2] = [action |-> q.status, actor |-> a.engineer]
  <2>1. a.engineer \in Engineers
    BY DEF Approval
  <2>2. CASE q.status \in Terminal
    BY <2>1, <2>2 DEF AuditOf, Event
  <2>3. CASE q.status \notin Terminal
    BY <2>1, <2>3 DEF AuditOf, Event
  <2> QED BY <2>2, <2>3
<1> HIDE DEF A
<1>2. /\ u \in Seq(Event) /\ n \in Nat /\ Len(u) = n + Len(A)
      /\ DOMAIN t = 1 .. n /\ DOMAIN u = 1 .. n + Len(A)
      /\ \A i \in 1 .. n : u[i] = t[i]
      /\ u[n + 1] = A[1]
      /\ Len(A) = 2 => u[n + 2] = A[2]
  BY <1>1
<1> HIDE DEF u, n
<1>3. \A i \in 1 .. n : t[i].action = "recorded"
  BY <1>2, TrailOfWaiting
<1>4. /\ u[n + 1].action = "recorded"
      /\ u[n + 1].actor = a.engineer
      /\ q.status \notin Terminal => DOMAIN u = 1 .. n + 1
      /\ q.status \in Terminal =>
           /\ DOMAIN u = 1 .. n + 2
           /\ u[n + 2].action = q.status /\ u[n + 2].actor = a.engineer
  <2>1. u[n + 1].action = "recorded" /\ u[n + 1].actor = a.engineer
    BY <1>1, <1>2
  <2>2. CASE q.status \notin Terminal
    BY <1>1, <1>2, <2>1, <2>2
  <2>3. CASE q.status \in Terminal
    <3>1. u[n + 2] = [action |-> q.status, actor |-> a.engineer]
      BY <1>1, <1>2, <2>3
    <3>2. DOMAIN u = 1 .. n + 2
      BY <1>1, <1>2, <2>3
    <3> QED BY <2>1, <2>3, <3>1, <3>2
  <2> QED BY <2>2, <2>3
<1>5. {i \in DOMAIN u : u[i].action = "recorded"} = 1 .. n + 1
  <2>1. \A i \in 1 .. n + 1 : i \in DOMAIN u /\ u[i].action = "recorded"
    <3> SUFFICES ASSUME NEW i \in 1 .. n + 1
                 PROVE  i \in DOMAIN u /\ u[i].action = "recorded"
      OBVIOUS
    <3>1. CASE i = n + 1
      BY <1>2, <1>4, <3>1
    <3>2. CASE i \in 1 .. n
      BY <1>2, <1>3, <1>4, <3>2
    <3> QED BY <1>2, <3>1, <3>2
  <2>2. \A i \in DOMAIN u : u[i].action = "recorded" => i \in 1 .. n + 1
    <3> SUFFICES ASSUME NEW i \in DOMAIN u, i \notin 1 .. n + 1
                 PROVE  u[i].action # "recorded"
      OBVIOUS
    <3>1. q.status \in Terminal /\ i = n + 2
      BY <1>2, <1>4
    <3> QED BY <1>4, <3>1 DEF Terminal
  <2> QED BY <2>1, <2>2
<1>6. {i \in DOMAIN t : t[i].action = "recorded"} = 1 .. n
  BY <1>2, <1>3
<1>7. /\ {t[i].actor : i \in 1 .. n} = {b.engineer : b \in s}
      /\ \A i, k \in 1 .. n : t[i].actor = t[k].actor => i = k
  BY <1>6 DEF TrailFits
<1>8. \A i \in 1 .. n : t[i].actor # a.engineer
  <2>1. \A i \in 1 .. n : \E b \in s : t[i].actor = b.engineer
    BY <1>7
  <2> QED BY <2>1
<1>9. \A i \in 1 .. n + 1 : i = n + 1 \/ i \in 1 .. n
  BY <1>2
<1>10. {u[i].actor : i \in 1 .. n + 1} = {b.engineer : b \in s \cup {a}}
  <2>1. \A i \in 1 .. n + 1 : \E b \in s \cup {a} : u[i].actor = b.engineer
    <3>1. \A i \in 1 .. n : \E b \in s : t[i].actor = b.engineer
      BY <1>7
    <3> QED BY <1>2, <1>4, <1>9, <3>1
  <2>2. \A b \in s : \E i \in 1 .. n : t[i].actor = b.engineer
    BY <1>7
  <2>3. \A b \in s \cup {a} : \E i \in 1 .. n + 1 : u[i].actor = b.engineer
    BY <1>2, <1>4, <2>2
  <2> QED BY <2>1, <2>3
<1>11. \A i, k \in 1 .. n + 1 : u[i].actor = u[k].actor => i = k
  <2>1. \A i \in 1 .. n : u[i].actor = t[i].actor /\ u[i].actor # a.engineer
    BY <1>2, <1>8
  <2> QED BY <1>4, <1>7, <1>9, <2>1
<1>12. \A i \in DOMAIN u \ (1 .. n + 1) :
         /\ i = Len(u) /\ i - 1 \in 1 .. n + 1
         /\ u[i].action = q.status /\ u[i].actor = u[i - 1].actor
  <2> SUFFICES ASSUME NEW i \in DOMAIN u \ (1 .. n + 1)
               PROVE  /\ i = Len(u) /\ i - 1 \in 1 .. n + 1
                      /\ u[i].action = q.status /\ u[i].actor = u[i - 1].actor
    OBVIOUS
  <2>1. q.status \in Terminal /\ i = n + 2 /\ Len(u) = n + 2 /\ i - 1 = n + 1
    BY <1>1, <1>2, <1>4
  <2> QED BY <1>2, <1>4, <2>1
<1>13. q.status \in Terminal => \E i \in DOMAIN u : u[i].action = q.status
  BY <1>2, <1>4
<1>14. TrailFits(u, q, s \cup {a})
  BY <1>5, <1>10, <1>11, <1>12, <1>13 DEF TrailFits
<1> QED BY <1>2, <1>14 DEF u, A

(* One more decision on a waiting candidate, applied to its own record.    *)
LEMMA DecisionOK ==
  ASSUME NEW r \in Row, NEW s \in SUBSET Approval, NEW l, NEW t \in Seq(Event),
         JobInv(r, s, l, t),
         NEW c, c.row = r, c.approvals = s, c.approval \in Approval,
         ~Refused(c),
         NEW q, q = [r EXCEPT !.status = StatusAfter(c)],
         NEW m, m = IF StatusAfter(c) = "published"
                    THEN c.approvals \cup {c.approval} ELSE l
  PROVE  /\ q \in Row
         /\ t \o AuditOf(c, StatusAfter(c)) \in Seq(Event)
         /\ JobInv(q, s \cup {c.approval}, m, t \o AuditOf(c, StatusAfter(c)))
<1> DEFINE a == c.approval
           z == s \cup {a}
<1>1. /\ r.status = "pending"
      /\ \A b \in s : b.engineer # a.engineer
      /\ ~LacksProcessEngineer(c)
  BY DEF Refused
<1>2. a \notin s /\ a \in Approval /\ z \in SUBSET Approval
  BY <1>1
<1>3. s = Approved(s) /\ ~TwoIn(s) /\ Distinct(s)
      /\ LibraryFits(r, s, l) /\ TrailFits(t, r, s)
  BY <1>1 DEF JobInv, StatusFits
<1>4. StatusAfter(c) \in {"pending", "published", "rejected"}
  BY DEF StatusAfter
<1>5. q \in Row /\ q.status = StatusAfter(c) /\ q.gated = r.gated
  BY <1>4 DEF Row, Terminal
<1>6. Distinct(z)
  BY <1>1, <1>3 DEF Distinct
<1>7. l = {}
  BY <1>1, <1>3 DEF LibraryFits
<1>8. StatusFits(q, z)
  <2>1. CASE a.decision = "reject"
    <3>1. q.status = "rejected"
      BY <1>5, <2>1 DEF StatusAfter
    <3>2. z \ {a} = s
      BY <1>2
    <3>3. Approved(z) = s
      BY <1>3, <2>1 DEF Approved
    <3>4. \E b \in z : /\ b.decision = "reject" /\ ~TwoIn(z \ {b})
                       /\ z \ {b} = Approved(z)
      BY <1>3, <2>1, <3>2, <3>3
    <3> QED BY <3>1, <3>4 DEF StatusFits
  <2>2. CASE a.decision # "reject"
    <3>1. a.decision = "approve"
      BY <2>2, <1>2 DEF Approval
    <3>2. z = Approved(z)
      BY <1>3, <3>1 DEF Approved
    <3>3. CASE TwoIn(z)
      <4>1. q.status = "published"
        BY <1>5, <2>2, <3>2, <3>3 DEF StatusAfter
      <4>2. PICK b \in s : TRUE
        BY <3>3 DEF TwoIn
      <4>3. s = {b}
        BY <1>3 DEF TwoIn
      <4>4. z = {b, a} /\ b # a
        BY <1>2, <4>3
      <4>5. r.gated => \E d \in z : d.role = "process_engineer"
        BY <1>1, <1>5, <3>2, <4>1 DEF LacksProcessEngineer
      <4> QED BY <1>5, <3>2, <4>1, <4>4, <4>5 DEF StatusFits
    <3>4. CASE ~TwoIn(z)
      <4>1. q.status = "pending"
        BY <1>5, <2>2, <3>2, <3>4 DEF StatusAfter
      <4> QED BY <3>2, <3>4, <4>1 DEF StatusFits
    <3> QED BY <3>3, <3>4
  <2> QED BY <2>1, <2>2
<1>9. LibraryFits(q, z, m)
  BY <1>5, <1>7 DEF LibraryFits
<1>10. /\ t \o AuditOf(c, q.status) \in Seq(Event)
       /\ TrailFits(t \o AuditOf(c, q.status), q, z)
  <2>1. q.status \in {"pending"} \cup Terminal
    BY <1>4, <1>5 DEF Terminal
  <2> QED BY <1>1, <1>2, <1>3, <1>5, <2>1, AuditedOK
<1> QED BY <1>5, <1>6, <1>8, <1>9, <1>10 DEF JobInv

-----------------------------------------------------------------------------
(* Steps that touch no table.                                              *)

TablesKept == UNCHANGED tables

LEMMA TablesKeptOK ==
  ASSUME IInv, TablesKept
  PROVE  /\ JobsInv'
         /\ row' \in [Jobs -> Row]
         /\ approvals' \in [Jobs -> SUBSET Approval]
         /\ library' \in [Jobs -> SUBSET Approval]
         /\ audit' \in [Jobs -> Seq(Event)]
  BY DEF IInv, TablesKept, tables, JobsInv, TypeOK

LEMMA DecideOK ==
  ASSUME IInv, NEW h \in Handlers, NEW j \in Jobs, NEW n \in Names,
         NEW role \in Roles, NEW d \in {"approve", "reject"},
         Decide(h, j, n, role, d)
  PROVE  IInv'
<1> DEFINE c == [pc |-> "called", job |-> j,
                 approval |-> [engineer |-> Engineer[n], role |-> role,
                               decision |-> d]]
<1>1. c \in Called /\ c.pc = "called"
  BY Normalized DEF Called, Approval
<1>2. call' = [call EXCEPT ![h] = c] /\ TablesKept /\ view' = view
  BY DEF Decide, TablesKept
<1> HIDE DEF c
<1>3. /\ call' \in [Handlers -> {Idle} \cup Called \cup Loaded]
      /\ \A g \in Handlers : call'[g].pc = "loaded" => call'[g] = call[g]
  BY <1>1, <1>2 DEF IInv, TypeOK
<1>4. TypeOK'
  BY <1>2, <1>3, TablesKeptOK DEF IInv, TypeOK
<1>5. LoadedIsCurrent'
  BY <1>2, <1>3 DEF IInv, LoadedIsCurrent, TablesKept, tables
<1>6. ViewInv'
  BY <1>2 DEF IInv, ViewInv, TablesKept, tables
<1> QED BY <1>2, <1>4, <1>5, <1>6, TablesKeptOK DEF IInv

LEMMA LoadOK ==
  ASSUME IInv, NEW h \in Handlers, Load(h)
  PROVE  IInv'
<1> DEFINE k == call[h].job
           c == [pc |-> "loaded", job |-> k, approval |-> call[h].approval,
                 row |-> row[k], approvals |-> approvals[k]]
<1>1. call[h].pc = "called" /\ ~Locked(k) /\ TablesKept /\ view' = view
  BY DEF Load, TablesKept
<1>2. k \in Jobs /\ call[h].approval \in Approval
  BY <1>1, CalledCall DEF IInv
<1>3. c \in Loaded
  BY <1>2 DEF Loaded, IInv, TypeOK
<1>4. /\ c.pc = "loaded" /\ c.job = k /\ c.row = row[k]
      /\ c.approvals = approvals[k] /\ row[k].status # "absent"
  BY DEF Load
<1>5. call' = [call EXCEPT ![h] = c]
  BY DEF Load
<1>6. \A g \in Handlers : call[g].pc = "loaded" => call[g].job # k
  BY <1>1 DEF Locked
<1> HIDE DEF k, c
<1>7. /\ call' \in [Handlers -> {Idle} \cup Called \cup Loaded]
      /\ call'[h] = c
      /\ \A g \in Handlers \ {h} : call'[g] = call[g]
  BY <1>3, <1>5 DEF IInv, TypeOK
<1>8. TypeOK'
  BY <1>1, <1>7, TablesKeptOK DEF IInv, TypeOK
<1>9. LoadedIsCurrent'
  <2> SUFFICES ASSUME NEW g \in Handlers, call'[g].pc = "loaded"
               PROVE  /\ call'[g].row = row[call'[g].job]
                      /\ call'[g].row.status # "absent"
                      /\ call'[g].approvals = approvals[call'[g].job]
                      /\ \A f \in Handlers \ {g} :
                           call'[f].pc = "loaded" => call'[f].job # call'[g].job
    BY <1>1 DEF LoadedIsCurrent, TablesKept, tables
  <2>1. CASE g = h
    BY <2>1, <1>4, <1>6, <1>7
  <2>2. CASE g # h
    <3>1. call'[g] = call[g]
      BY <1>7, <2>2
    <3>2. \A f \in Handlers \ {g} :
            call'[f].pc = "loaded" => call'[f].job # call[g].job
      BY <1>4, <1>6, <1>7, <3>1 DEF IInv, LoadedIsCurrent
    <3> QED BY <3>1, <3>2 DEF IInv, LoadedIsCurrent
  <2> QED BY <2>1, <2>2
<1>10. ViewInv'
  BY <1>1 DEF IInv, ViewInv, TablesKept, tables
<1> QED BY <1>1, <1>8, <1>9, <1>10, TablesKeptOK DEF IInv

LEMMA AbortOK ==
  ASSUME IInv, NEW h \in Handlers, Abort(h)
  PROVE  IInv'
<1>1. call' = [call EXCEPT ![h] = Idle] /\ TablesKept /\ view' = view
  BY DEF Abort, TablesKept
<1>2. /\ call' \in [Handlers -> {Idle} \cup Called \cup Loaded]
      /\ \A g \in Handlers : call'[g].pc = "loaded" => call'[g] = call[g]
  BY <1>1, PcDistinguishes DEF IInv, TypeOK
<1>3. TypeOK'
  BY <1>1, <1>2, TablesKeptOK DEF IInv, TypeOK
<1>4. LoadedIsCurrent'
  BY <1>1, <1>2 DEF IInv, LoadedIsCurrent, TablesKept, tables
<1>5. ViewInv'
  BY <1>1 DEF IInv, ViewInv, TablesKept, tables
<1> QED BY <1>1, <1>3, <1>4, <1>5, TablesKeptOK DEF IInv

(* The two statements of a reader.                                         *)
LEMMA ReadOK ==
  ASSUME IInv, NEW r \in Readers, NEW v \in Shown,
         TablesKept, call' = call, view' = [view EXCEPT ![r] = v],
         v.row.status \in Terminal => v.row = row[v.job],
         v.pc = "shown" => v.approvals = approvals[v.job]
  PROVE  IInv'
<1>1. /\ view' \in [Readers -> {Blank} \cup Shown]
      /\ view'[r] = v
      /\ \A p \in Readers \ {r} : view'[p] = view[p]
  BY DEF IInv, TypeOK
<1>2. TypeOK'
  BY <1>1, TablesKeptOK DEF IInv, TypeOK
<1>3. LoadedIsCurrent'
  BY DEF IInv, LoadedIsCurrent, TablesKept, tables
<1>4. v.job \in Jobs
  BY DEF Shown
<1>5. ViewInv'
  BY <1>1, <1>4 DEF IInv, ViewInv, TablesKept, tables
<1> QED BY <1>2, <1>3, <1>5, TablesKeptOK DEF IInv

LEMMA ReadCandidateOK ==
  ASSUME IInv, NEW r \in Readers, NEW j \in Jobs, ReadCandidate(r, j)
  PROVE  IInv'
<1> DEFINE v == [pc |-> "half", job |-> j, row |-> row[j], approvals |-> {}]
<1>1. v \in Shown /\ v.pc = "half" /\ v.row = row[v.job]
  BY DEF Shown, IInv, TypeOK
<1>2. TablesKept /\ call' = call /\ view' = [view EXCEPT ![r] = v]
  BY DEF ReadCandidate, TablesKept
<1> HIDE DEF v
<1> QED BY <1>1, <1>2, ReadOK

LEMMA ReadApprovalsOK ==
  ASSUME IInv, NEW r \in Readers, ReadApprovals(r)
  PROVE  IInv'
<1> DEFINE v == [view[r] EXCEPT !.pc = "shown",
                                !.approvals = approvals[view[r].job]]
<1>1. view[r].pc = "half" /\ view[r] \in Shown /\ view[r].job \in Jobs
  BY ReadingView DEF IInv, ReadApprovals
<1>2. approvals[view[r].job] \in SUBSET Approval
  BY <1>1 DEF IInv, TypeOK
<1>3. /\ v \in Shown /\ v.job = view[r].job /\ v.row = view[r].row
      /\ v.approvals = approvals[v.job]
  BY <1>1, <1>2 DEF Shown
<1>4. v.row.status \in Terminal => v.row = row[v.job]
  BY <1>1, <1>3 DEF IInv, ViewInv
<1>5. TablesKept /\ call' = call /\ view' = [view EXCEPT ![r] = v]
  <2>1. view' = [view EXCEPT ![r].pc = "shown",
                             ![r].approvals = approvals[view[r].job]]
        /\ TablesKept /\ call' = call
    BY DEF ReadApprovals, TablesKept
  <2> QED BY <2>1, <1>1 DEF IInv, TypeOK
<1> HIDE DEF v
<1> QED BY <1>3, <1>4, <1>5, ReadOK

-----------------------------------------------------------------------------
(* Steps that touch the tables of one waiting candidate.                   *)
LEMMA WrittenView ==
  ASSUME IInv, NEW j \in Jobs, row[j].status \notin Terminal,
         \A k \in Jobs \ {j} : row'[k] = row[k] /\ approvals'[k] = approvals[k],
         approvals[j] \subseteq approvals'[j],
         view' = view
  PROVE  ViewInv'
<1> SUFFICES ASSUME NEW r \in Readers, view[r].pc \in {"half", "shown"}
             PROVE  LET v == view[r]
                    IN /\ v.job \in Jobs
                       /\ v.row.status \in Terminal => v.row = row'[v.job]
                       /\ v.pc = "shown" =>
                            /\ v.approvals \subseteq approvals'[v.job]
                            /\ v.row.status \in Terminal =>
                                 v.approvals = approvals'[v.job]
  BY DEF ViewInv
<1>1. CASE view[r].job = j
  BY <1>1 DEF IInv, ViewInv
<1>2. CASE view[r].job # j
  BY <1>2 DEF IInv, ViewInv
<1> QED BY <1>1, <1>2

LEMMA CreateOK ==
  ASSUME IInv, NEW j \in Jobs, NEW gated \in BOOLEAN, Create(j, gated)
  PROVE  IInv'
<1> DEFINE q == [status |-> "pending", gated |-> gated]
<1>1. /\ row[j].status = "absent"
      /\ row' = [row EXCEPT ![j] = q]
      /\ UNCHANGED <<approvals, library, audit, call, view>>
  BY DEF Create
<1>2. TypeOK /\ JobInv(row[j], approvals[j], library[j], audit[j])
  BY DEF IInv, JobsInv
<1>3. JobInv(q, approvals[j], library[j], audit[j])
  BY <1>1, <1>2, CreatedOK DEF TypeOK
<1>4. q \in Row
  BY DEF Row
<1> HIDE DEF q
<1>5. /\ row' \in [Jobs -> Row] /\ row'[j] = q
      /\ \A k \in Jobs \ {j} : row'[k] = row[k]
  BY <1>1, <1>2, <1>4 DEF TypeOK
<1>6. TypeOK'
  BY <1>1, <1>2, <1>5 DEF TypeOK
<1>7. JobsInv'
  BY <1>1, <1>3, <1>5 DEF IInv, JobsInv
<1>8. LoadedIsCurrent'
  <2>1. \A h \in Handlers : call[h].pc = "loaded" => call[h].row.status # "absent"
    BY DEF IInv, LoadedIsCurrent
  <2> QED BY <1>1, <1>5, <2>1 DEF IInv, LoadedIsCurrent
<1>9. ViewInv'
  BY <1>1, <1>5, WrittenView DEF Terminal
<1> QED BY <1>6, <1>7, <1>8, <1>9 DEF IInv

LEMMA CommitEffect ==
  ASSUME IInv, NEW h \in Handlers, Commit(h)
  PROVE  LET j == call[h].job
         IN /\ j \in Jobs
            /\ row[j].status = "pending"
            /\ TypeOK'
            /\ JobInv(row'[j], approvals'[j], library'[j], audit'[j])
            /\ approvals[j] \subseteq approvals'[j]
            /\ \A k \in Jobs \ {j} : /\ row'[k] = row[k]
                                     /\ approvals'[k] = approvals[k]
                                     /\ library'[k] = library[k]
                                     /\ audit'[k] = audit[k]
            /\ \A g \in Handlers :
                 call'[g].pc = "loaded" => g # h /\ call'[g] = call[g]
<1> DEFINE c == call[h]
           j == c.job
           s == StatusAfter(c)
           q == [row[j] EXCEPT !.status = s]
           m == IF s = "published" THEN c.approvals \cup {c.approval}
                ELSE library[j]
           t == audit[j] \o AuditOf(c, s)
<1>1. TypeOK /\ c.pc = "loaded" /\ ~Refused(c)
  BY DEF IInv, Commit
<1>2. j \in Jobs /\ c.approval \in Approval /\ c.approvals \in SUBSET Approval
  BY <1>1, LoadedCall
<1>3. c.row = row[j] /\ c.approvals = approvals[j]
  BY <1>1 DEF IInv, LoadedIsCurrent
<1>4. JobInv(row[j], approvals[j], library[j], audit[j])
  BY <1>2 DEF IInv, JobsInv
<1>5. /\ row[j] \in Row /\ approvals[j] \in SUBSET Approval
      /\ library[j] \in SUBSET Approval /\ audit[j] \in Seq(Event)
  BY <1>1, <1>2 DEF TypeOK
<1>6. /\ q \in Row
      /\ t \in Seq(Event)
      /\ JobInv(q, approvals[j] \cup {c.approval}, m, t)
  BY <1>1, <1>2, <1>3, <1>4, <1>5, DecisionOK
<1>7. m \in SUBSET Approval
  BY <1>2, <1>5
<1>8. /\ row' = [row EXCEPT ![j] = q]
      /\ approvals' = [approvals EXCEPT ![j] = approvals[j] \cup {c.approval}]
      /\ library' = [library EXCEPT ![j] = m]
      /\ audit' = [audit EXCEPT ![j] = t]
      /\ call' = [call EXCEPT ![h] = Idle]
      /\ view' = view
  BY <1>1, <1>2 DEF Commit, TypeOK
<1>9. row[j].status = "pending"
  BY <1>1, <1>3 DEF Refused
<1> HIDE DEF c, j, q, m, t
<1>10. /\ row' \in [Jobs -> Row] /\ row'[j] = q
       /\ approvals' \in [Jobs -> SUBSET Approval]
       /\ approvals'[j] = approvals[j] \cup {c.approval}
       /\ library' \in [Jobs -> SUBSET Approval] /\ library'[j] = m
       /\ audit' \in [Jobs -> Seq(Event)] /\ audit'[j] = t
       /\ \A k \in Jobs \ {j} : /\ row'[k] = row[k]
                                /\ approvals'[k] = approvals[k]
                                /\ library'[k] = library[k]
                                /\ audit'[k] = audit[k]
  BY <1>1, <1>2, <1>5, <1>6, <1>7, <1>8 DEF TypeOK
<1>11. /\ call' \in [Handlers -> {Idle} \cup Called \cup Loaded]
       /\ \A g \in Handlers :
            call'[g].pc = "loaded" => g # h /\ call'[g] = call[g]
  BY <1>1, <1>8, PcDistinguishes DEF TypeOK
<1>12. TypeOK'
  BY <1>1, <1>8, <1>10, <1>11 DEF TypeOK
<1> QED BY <1>2, <1>6, <1>9, <1>10, <1>11, <1>12 DEF j, c

LEMMA CommitOK ==
  ASSUME IInv, NEW h \in Handlers, Commit(h)
  PROVE  IInv'
<1> DEFINE j == call[h].job
<1>1. /\ j \in Jobs
      /\ row[j].status = "pending"
      /\ TypeOK'
      /\ JobInv(row'[j], approvals'[j], library'[j], audit'[j])
      /\ approvals[j] \subseteq approvals'[j]
      /\ \A k \in Jobs \ {j} : /\ row'[k] = row[k]
                               /\ approvals'[k] = approvals[k]
                               /\ library'[k] = library[k]
                               /\ audit'[k] = audit[k]
      /\ \A g \in Handlers :
           call'[g].pc = "loaded" => g # h /\ call'[g] = call[g]
  BY CommitEffect
<1>2. call[h].pc = "loaded" /\ view' = view
  BY DEF Commit
<1>3. \A g \in Handlers \ {h} : call[g].pc = "loaded" => call[g].job # j
  BY <1>2 DEF IInv, LoadedIsCurrent
<1> HIDE DEF j
<1>4. JobsInv'
  BY <1>1 DEF IInv, JobsInv
<1>5. LoadedIsCurrent'
  <2> SUFFICES ASSUME NEW g \in Handlers, call'[g].pc = "loaded"
               PROVE  /\ call'[g].row = row'[call'[g].job]
                      /\ call'[g].row.status # "absent"
                      /\ call'[g].approvals = approvals'[call'[g].job]
                      /\ \A f \in Handlers \ {g} :
                           call'[f].pc = "loaded" => call'[f].job # call'[g].job
    BY DEF LoadedIsCurrent
  <2>1. g # h /\ call'[g] = call[g] /\ call[g].pc = "loaded"
    BY <1>1
  <2>2. call[g].job \in Jobs \ {j}
    BY <1>3, <2>1, LoadedCall DEF IInv
  <2>3. /\ call[g].row = row[call[g].job] /\ call[g].row.status # "absent"
        /\ call[g].approvals = approvals[call[g].job]
        /\ \A f \in Handlers \ {g} :
             call[f].pc = "loaded" => call[f].job # call[g].job
    BY <2>1 DEF IInv, LoadedIsCurrent
  <2> QED BY <1>1, <2>1, <2>2, <2>3
<1>6. ViewInv'
  BY <1>1, <1>2, WrittenView DEF Terminal
<1> QED BY <1>1, <1>4, <1>5, <1>6 DEF IInv

-----------------------------------------------------------------------------
LEMMA MemoryInductive == IInv /\ [Next]_vars => IInv'
<1> SUFFICES ASSUME IInv, [Next]_vars
             PROVE  IInv'
  OBVIOUS
<1>1. CASE UNCHANGED vars
  BY <1>1 DEF vars, tables, IInv, TypeOK, LoadedIsCurrent, JobsInv, ViewInv
<1>2. CASE \E j \in Jobs, gated \in BOOLEAN : Create(j, gated)
  BY <1>2, CreateOK
<1>3. CASE \E h \in Handlers, j \in Jobs, n \in Names, role \in Roles,
             d \in {"approve", "reject"} : Decide(h, j, n, role, d)
  BY <1>3, DecideOK
<1>4. CASE \E h \in Handlers : Load(h)
  BY <1>4, LoadOK
<1>5. CASE \E h \in Handlers : Commit(h)
  BY <1>5, CommitOK
<1>6. CASE \E h \in Handlers : Abort(h)
  BY <1>6, AbortOK
<1>7. CASE \E r \in Readers, j \in Jobs : ReadCandidate(r, j)
  BY <1>7, ReadCandidateOK
<1>8. CASE \E r \in Readers : ReadApprovals(r)
  BY <1>8, ReadApprovalsOK
<1> QED BY <1>1, <1>2, <1>3, <1>4, <1>5, <1>6, <1>7, <1>8 DEF Next

LEMMA MemoryInitially == Init => IInv
<1> SUFFICES ASSUME Init
             PROVE  IInv
  OBVIOUS
<1>1. \A j \in Jobs : /\ row[j] = [status |-> "absent", gated |-> FALSE]
                      /\ approvals[j] = {} /\ library[j] = {}
                      /\ audit[j] = <<>>
  BY DEF Init
<1>2. TypeOK
  BY DEF Init, TypeOK, Row
<1>3. JobsInv
  <2> SUFFICES ASSUME NEW j \in Jobs
               PROVE  JobInv(row[j], approvals[j], library[j], audit[j])
    BY DEF JobsInv
  <2>1. Distinct({}) /\ Approved({}) = {} /\ ~TwoIn({})
    BY DEF Distinct, Approved, TwoIn
  <2>2. StatusFits(row[j], {}) /\ LibraryFits(row[j], {}, {})
    BY <1>1, <2>1 DEF StatusFits, LibraryFits
  <2>3. DOMAIN audit[j] = {} /\ row[j].status \notin Terminal
    BY <1>1 DEF Terminal
  <2>4. TrailFits(audit[j], row[j], {})
    BY <2>3 DEF TrailFits
  <2> QED BY <1>1, <2>1, <2>2, <2>4 DEF JobInv
<1>4. LoadedIsCurrent /\ ViewInv
  BY PcDistinguishes DEF Init, LoadedIsCurrent, ViewInv
<1> QED BY <1>2, <1>3, <1>4 DEF IInv

LEMMA MemoryInvariance == Spec => []IInv
  BY MemoryInitially, MemoryInductive, PTL DEF Spec

-----------------------------------------------------------------------------
(* Tables, calls and views keep their columns.                             *)
THEOREM MemoryTypeCorrect == Spec => []TypeOK
<1>1. IInv => TypeOK
  BY DEF IInv
<1> QED BY MemoryInvariance, <1>1, PTL

(* A decision is applied to the candidate as it is.                        *)
THEOREM DecisionsAreCurrent == Spec => []LoadedIsCurrent
<1>1. IInv => LoadedIsCurrent
  BY DEF IInv
<1> QED BY MemoryInvariance, <1>1, PTL

(* One engineer decides once, under whatever spelling.                     *)
THEOREM EngineersDecideOnce == Spec => []OneDecisionEach
<1>1. IInv => OneDecisionEach
  <2> SUFFICES ASSUME IInv, NEW j \in Jobs,
                      NEW a \in approvals[j], NEW b \in approvals[j],
                      Engineer[a.engineer] = Engineer[b.engineer]
               PROVE  a = b
    BY DEF OneDecisionEach
  <2>1. a.engineer \in Engineers /\ b.engineer \in Engineers
    BY DEF IInv, TypeOK, Approval
  <2> QED BY <2>1, Normalized DEF IInv, JobsInv, JobInv, Distinct
<1> QED BY MemoryInvariance, <1>1, PTL

(* Status and decisions of a candidate agree.                              *)
THEOREM StatusIsEarned == Spec => []StatusFollowsDecisions
<1>1. IInv => StatusFollowsDecisions
  BY DEF IInv, JobsInv, JobInv, StatusFollowsDecisions
<1> QED BY MemoryInvariance, <1>1, PTL

(* Nothing enters the library without two people, and the right ones.      *)
THEOREM DualControl == Spec => []LibraryIsApproved
<1>1. IInv => LibraryIsApproved
  <2> SUFFICES ASSUME IInv, NEW j \in Jobs
               PROVE  /\ library[j] # {} <=> row[j].status = "published"
                      /\ library[j] # {} =>
                           /\ library[j] = approvals[j]
                           /\ \E a, b \in library[j] :
                                /\ Engineer[a.engineer] # Engineer[b.engineer]
                                /\ {a, b} = Approved(library[j])
                                /\ row[j].gated =>
                                     "process_engineer" \in {a.role, b.role}
    BY DEF LibraryIsApproved
  <2>1. /\ Distinct(approvals[j]) /\ StatusFits(row[j], approvals[j])
        /\ LibraryFits(row[j], approvals[j], library[j])
        /\ approvals[j] \subseteq Approval
    BY DEF IInv, JobsInv, JobInv, TypeOK
  <2>2. ASSUME library[j] # {}
        PROVE  /\ library[j] = approvals[j]
               /\ \E a, b \in library[j] :
                    /\ Engineer[a.engineer] # Engineer[b.engineer]
                    /\ {a, b} = Approved(library[j])
                    /\ row[j].gated => "process_engineer" \in {a.role, b.role}
    <3>1. library[j] = approvals[j] /\ row[j].status = "published"
      BY <2>1, <2>2 DEF LibraryFits
    <3>2. PICK a \in approvals[j], b \in approvals[j] :
            a # b /\ approvals[j] = {a, b}
      BY <2>1, <3>1 DEF StatusFits
    <3>3. a.engineer # b.engineer
      BY <2>1, <3>2 DEF Distinct
    <3>4. Engineer[a.engineer] # Engineer[b.engineer]
      BY <2>1, <3>3, Normalized DEF Approval
    <3>5. /\ approvals[j] = Approved(approvals[j])
          /\ row[j].gated => \E d \in approvals[j] : d.role = "process_engineer"
      BY <2>1, <3>1 DEF StatusFits
    <3> QED BY <3>1, <3>2, <3>4, <3>5
  <2> QED BY <2>1, <2>2 DEF LibraryFits
<1> QED BY MemoryInvariance, <1>1, PTL

(* A terminal candidate is never changed again.                            *)
THEOREM TerminalStays == Spec => TerminalIsUntouched
<1> DEFINE Keep == \A j \in Jobs : row[j].status \in Terminal =>
                     /\ row'[j] = row[j]
                     /\ approvals'[j] = approvals[j]
                     /\ library'[j] = library[j]
                     /\ audit'[j] = audit[j]
<1>1. IInv /\ [Next]_vars => [Keep]_vars
  <2> SUFFICES ASSUME IInv, Next, NEW j \in Jobs, row[j].status \in Terminal
               PROVE  /\ row'[j] = row[j]
                      /\ approvals'[j] = approvals[j]
                      /\ library'[j] = library[j]
                      /\ audit'[j] = audit[j]
    OBVIOUS
  <2>1. CASE \E k \in Jobs, gated \in BOOLEAN : Create(k, gated)
    BY <2>1 DEF Create, Terminal, IInv, TypeOK
  <2>2. CASE \E h \in Handlers : Commit(h)
    BY <2>2, CommitEffect DEF Terminal
  <2>3. CASE TablesKept
    BY <2>3 DEF TablesKept, tables
  <2> QED BY <2>1, <2>2, <2>3
          DEF Next, TablesKept, Decide, Load, Abort, ReadCandidate, ReadApprovals
<1> QED BY MemoryInvariance, <1>1, PTL DEF Spec, TerminalIsUntouched

(* The audit trail of a candidate is its history.                          *)
THEOREM TrailIsComplete == Spec => []TrailAgrees
<1>1. IInv => TrailAgrees
  BY DEF IInv, JobsInv, JobInv, TrailAgrees
<1> QED BY MemoryInvariance, <1>1, PTL

(* A reader sees no outcome without the decisions behind it.               *)
THEOREM ReadersAreNotMisled == Spec => []ViewIsSound
<1>1. IInv => ViewIsSound
  BY DEF IInv, ViewInv, JobsInv, JobInv, ViewIsSound
<1> QED BY MemoryInvariance, <1>1, PTL

-----------------------------------------------------------------------------
(* The refinement.  Row and library agree, so no candidate is torn, and a  *)
(* vote is a decision without its role.                                    *)
ShownStatus == [j \in Jobs |-> IF (row[j].status = "published") # (library[j] # {})
                               THEN "torn" ELSE row[j].status]
Votes(s) == {[who |-> a.engineer, decision |-> a.decision] : a \in s}
ShownVotes == [j \in Jobs |-> Votes(approvals[j])]

LEMMA ShownStatusIsStatus == IInv => ShownStatus = [j \in Jobs |-> row[j].status]
<1> SUFFICES ASSUME IInv
             PROVE  ShownStatus = [j \in Jobs |-> row[j].status]
  OBVIOUS
<1>1. \A j \in Jobs : (row[j].status = "published") = (library[j] # {})
  BY DEF IInv, JobsInv, JobInv, LibraryFits
<1> QED BY <1>1 DEF ShownStatus

(* A decision is a vote of somebody who has not voted, with the outcome a  *)
(* review gives it.                                                        *)
LEMMA CommitVotes ==
  ASSUME IInv, NEW h \in Handlers, Commit(h)
  PROVE  \E j \in Jobs, a \in Approval :
           /\ row[j].status = "pending"
           /\ \A b \in approvals[j] : b.engineer # a.engineer
           /\ row' = [row EXCEPT ![j].status =
                        IF a.decision = "reject" THEN "rejected"
                        ELSE IF approvals[j] = {} THEN "pending" ELSE "published"]
           /\ approvals' = [approvals EXCEPT ![j] = approvals[j] \cup {a}]
<1> DEFINE c == call[h]
           j == c.job
           a == c.approval
           z == approvals[j] \cup {a}
<1>1. c.pc = "loaded" /\ ~Refused(c)
  BY DEF Commit
<1>2. j \in Jobs /\ a \in Approval
  BY <1>1, LoadedCall DEF IInv
<1>3. c.row = row[j] /\ c.approvals = approvals[j]
  BY <1>1 DEF IInv, LoadedIsCurrent
<1>4. /\ row[j].status = "pending"
      /\ \A b \in approvals[j] : b.engineer # a.engineer
  BY <1>1, <1>3 DEF Refused
<1>5. approvals[j] = Approved(approvals[j]) /\ a \notin approvals[j]
  BY <1>2, <1>4 DEF IInv, JobsInv, JobInv, StatusFits
<1>6. StatusAfter(c) = IF a.decision = "reject" THEN "rejected"
                       ELSE IF approvals[j] = {} THEN "pending" ELSE "published"
  <2>1. CASE a.decision = "reject"
    BY <2>1 DEF StatusAfter
  <2>2. CASE a.decision # "reject"
    <3>1. a.decision = "approve"
      BY <2>2, <1>2 DEF Approval
    <3>2. Approved(z) = z
      BY <1>5, <3>1 DEF Approved
    <3>3. TwoIn(z) <=> approvals[j] # {}
      BY <1>5 DEF TwoIn
    <3>4. StatusAfter(c) = IF TwoIn(z) THEN "published" ELSE "pending"
      BY <1>3, <2>2, <3>2 DEF StatusAfter
    <3> QED BY <2>2, <3>3, <3>4
  <2> QED BY <2>1, <2>2
<1>7. /\ row' = [row EXCEPT ![j].status = StatusAfter(c)]
      /\ approvals' = [approvals EXCEPT ![j] = approvals[j] \cup {a}]
  BY <1>2 DEF Commit, IInv, TypeOK
<1> HIDE DEF c, j, a
<1> QED BY <1>2, <1>4, <1>6, <1>7

LEMMA ReviewStep ==
  ASSUME IInv, IInv', [Next]_vars
  PROVE  [R!ReviewNext]_R!reviewVars
<1>1. /\ ShownStatus = [j \in Jobs |-> row[j].status]
      /\ ShownStatus' = [j \in Jobs |-> row'[j].status]
  <2>1. ShownStatus = [j \in Jobs |-> row[j].status]
    BY ShownStatusIsStatus
  <2>2. (ShownStatus = [j \in Jobs |-> row[j].status])'
    BY ShownStatusIsStatus, PTL
  <2> QED BY <2>1, <2>2
<1>2. ASSUME row' = row, approvals' = approvals
      PROVE  UNCHANGED R!reviewVars
  <2>1. ShownStatus' = ShownStatus
    BY <1>1, <1>2
  <2>2. ShownVotes' = ShownVotes
    BY <1>2 DEF ShownVotes, Votes
  <2> QED BY <2>1, <2>2 DEF R!reviewVars, ShownStatus, ShownVotes, Votes
<1>3. ASSUME NEW j \in Jobs, NEW gated \in BOOLEAN, Create(j, gated)
      PROVE  R!ReviewNext
  <2>1. /\ row[j].status = "absent"
        /\ row' = [row EXCEPT ![j] = [status |-> "pending", gated |-> gated]]
        /\ approvals' = approvals
    BY <1>3 DEF Create
  <2>2. ShownStatus[j] = "absent"
    BY <1>1, <2>1
  <2>3. ShownStatus' = [ShownStatus EXCEPT ![j] = "pending"]
    BY <1>1, <2>1 DEF IInv, TypeOK
  <2>4. ShownVotes' = ShownVotes
    BY <2>1 DEF ShownVotes, Votes
  <2>5. R!Submit(j)
    BY <2>2, <2>3, <2>4 DEF R!Submit, ShownStatus, ShownVotes, Votes
  <2> QED BY <2>5 DEF R!ReviewNext
<1>4. ASSUME NEW h \in Handlers, Commit(h)
      PROVE  R!ReviewNext
  <2>1. PICK j \in Jobs, a \in Approval :
          /\ row[j].status = "pending"
          /\ \A b \in approvals[j] : b.engineer # a.engineer
          /\ row' = [row EXCEPT ![j].status =
                       IF a.decision = "reject" THEN "rejected"
                       ELSE IF approvals[j] = {} THEN "pending" ELSE "published"]
          /\ approvals' = [approvals EXCEPT ![j] = approvals[j] \cup {a}]
    BY <1>4, CommitVotes
  <2> DEFINE s == IF a.decision = "reject" THEN "rejected"
                  ELSE IF approvals[j] = {} THEN "pending" ELSE "published"
             v == [who |-> a.engineer, decision |-> a.decision]
  <2>2. ShownStatus[j] = "pending"
    BY <1>1, <2>1
  <2>3. ShownStatus' = [ShownStatus EXCEPT ![j] = s]
    <3>1. row' = [row EXCEPT ![j].status = s]
      BY <2>1
    <3> HIDE DEF s
    <3>2. \A k \in Jobs : row'[k].status = IF k = j THEN s ELSE row[k].status
      BY <3>1 DEF IInv, TypeOK, Row
    <3> QED BY <1>1, <3>2
  <2>4. ShownVotes' = [ShownVotes EXCEPT ![j] = ShownVotes[j] \cup {v}]
    <3>1. Votes(approvals[j] \cup {a}) = Votes(approvals[j]) \cup {v}
      BY DEF Votes
    <3>2. \A k \in Jobs : Votes(approvals'[k]) = IF k = j THEN Votes(approvals[j]) \cup {v}
                                                 ELSE Votes(approvals[k])
      BY <2>1, <3>1 DEF IInv, TypeOK
    <3>3. ShownVotes' = [k \in Jobs |-> Votes(approvals'[k])]
      BY DEF ShownVotes, Votes
    <3> QED BY <3>2, <3>3 DEF ShownVotes
  <2>5. \A w \in ShownVotes[j] : w.who # a.engineer
    BY <2>1 DEF ShownVotes, Votes
  <2>6. ShownVotes[j] = {} <=> approvals[j] = {}
    BY DEF ShownVotes, Votes
  <2>7. a.engineer \in Engineers /\ a.decision \in {"approve", "reject"}
    BY DEF Approval
  <2>8. CASE a.decision = "reject"
    <3>1. R!Reject(j, a.engineer)
      BY <2>2, <2>3, <2>4, <2>5, <2>8
      DEF R!Reject, R!Vote, ShownStatus, ShownVotes, Votes
    <3> QED BY <3>1, <2>7 DEF R!ReviewNext
  <2>9. CASE a.decision = "approve"
    <3>1. s = IF ShownVotes[j] = {} THEN "pending" ELSE "published"
      BY <2>6, <2>9
    <3>2. R!Approve(j, a.engineer)
      BY <2>2, <2>3, <2>4, <2>5, <2>9, <3>1
      DEF R!Approve, R!Vote, ShownStatus, ShownVotes, Votes
    <3> QED BY <3>2, <2>7 DEF R!ReviewNext
  <2> QED BY <2>7, <2>8, <2>9
<1>5. CASE UNCHANGED <<row, approvals>>
  BY <1>5, <1>2
<1> QED BY <1>3, <1>4, <1>5
        DEF Next, vars, tables, Decide, Load, Abort, ReadCandidate, ReadApprovals

(* The approval of cases follows the rules of a review.                    *)
THEOREM MemoryImplementsReview == Spec => ImplementsReview
<1>1. Init => R!ReviewInit
  BY DEF Init, R!ReviewInit
<1>2. IInv /\ IInv' /\ [Next]_vars => [R!ReviewNext]_R!reviewVars
  BY ReviewStep
<1> QED BY MemoryInvariance, <1>1, <1>2, PTL DEF Spec, ImplementsReview, R!ReviewSpec
=============================================================================
