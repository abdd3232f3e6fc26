----------------------- MODULE KnowledgeIngestionProofs -----------------------
(***************************************************************************)
(* TLAPS proofs about KnowledgeIngestion, for any uploads, contents,       *)
(* engineers, spellings of their ids and handlers.                         *)
(*                                                                         *)
(* ItemInv says of one candidate that its upload, row, decisions and       *)
(* document agree; CallsInv that a handler under the row lock decides on   *)
(* what the tables hold.  The rules of a review need both.                 *)
(***************************************************************************)
EXTENDS KnowledgeIngestion, TLAPS

ItemInv(u, r, v, p) ==
  /\ r = "absent" <=> u.pc # "stored"
  /\ r = "absent" => v = {}
  /\ r = "pending" => \A a \in v : a.decision = "approve"
  /\ r = "published" <=> p

ItemsInv ==
  \A k \in Candidates : ItemInv(upload[k], row[k], approvals[k], k \in published)

CallsInv ==
  \A h \in Handlers : call[h].pc \in {"called", "loaded"} =>
    LET c == call[h]
    IN  /\ row[c.candidate] # "absent"
        /\ c.pc = "loaded" =>
             /\ c.status = row[c.candidate]
             /\ c.approvals = approvals[c.candidate]
             /\ \A g \in Handlers \ {h} :
                  call[g].pc = "loaded" => call[g].candidate # c.candidate

(* The inductive invariant.                                                *)
IInv == KnowledgeTypeOK /\ ItemsInv /\ CallsInv

-----------------------------------------------------------------------------
LEMMA PcDistinguishes ==
  /\ Idle.pc = "idle"
  /\ \A c \in Called : c.pc = "called"
  /\ \A c \in Loaded : c.pc = "loaded"
  BY DEF Idle, Called, Loaded

LEMMA LoadedCall ==
  ASSUME KnowledgeTypeOK, NEW h \in Handlers, call[h].pc = "loaded"
  PROVE  /\ call[h].candidate \in Candidates
         /\ call[h].approval \in Approval
         /\ call[h].approvals \in SUBSET Approval
         /\ call[h].status \in Statuses
<1>1. call[h] \in Loaded
  BY PcDistinguishes DEF KnowledgeTypeOK
<1> QED BY <1>1 DEF Loaded

LEMMA CalledCall ==
  ASSUME KnowledgeTypeOK, NEW h \in Handlers, call[h].pc = "called"
  PROVE  /\ call[h].candidate \in Candidates
         /\ call[h].approval \in Approval
<1>1. call[h] \in Called
  BY PcDistinguishes DEF KnowledgeTypeOK
<1> QED BY <1>1 DEF Called

LEMMA EngineersAreNamed == \A n \in Names : Engineer[n] \in Engineers
  BY DEF Engineers

(* A step of an upload.                                                    *)
LEMMA UploadStep ==
  ASSUME KnowledgeTypeOK, NEW k \in Candidates,
         NEW pc \in {"new", "checked", "stored", "refused"},
         upload' = [upload EXCEPT ![k].pc = pc]
  PROVE  /\ upload' \in [Candidates -> Upload]
         /\ upload'[k].pc = pc
         /\ \A l \in Candidates \ {k} : upload'[l] = upload[l]
  BY DEF KnowledgeTypeOK, Upload

-----------------------------------------------------------------------------
LEMMA UploadKeepsTables ==
  ASSUME IInv, NEW k \in Candidates, NEW pc \in {"checked", "refused"},
         upload[k].pc \in {"new", "checked"},
         upload' = [upload EXCEPT ![k].pc = pc],
         UNCHANGED <<tables, call>>
  PROVE  IInv'
<1>1. /\ upload' \in [Candidates -> Upload]
      /\ upload'[k].pc = pc
      /\ \A l \in Candidates \ {k} : upload'[l] = upload[l]
  BY UploadStep DEF IInv
<1>2. KnowledgeTypeOK'
  BY <1>1 DEF IInv, KnowledgeTypeOK, tables
<1>4. ItemsInv'
  <2> SUFFICES ASSUME NEW l \in Candidates
               PROVE  ItemInv(upload'[l], row[l], approvals[l], l \in published)
    BY DEF ItemsInv, tables
  <2>1. ItemInv(upload[l], row[l], approvals[l], l \in published)
    BY DEF IInv, ItemsInv
  <2>2. upload'[l].pc # "stored" <=> upload[l].pc # "stored"
    BY <1>1
  <2> QED BY <2>1, <2>2 DEF ItemInv
<1>5. CallsInv'
  BY DEF IInv, CallsInv, tables
<1> QED BY <1>2, <1>4, <1>5 DEF IInv

LEMMA CheckOK ==
  ASSUME IInv, NEW k \in Candidates, Check(k)
  PROVE  IInv'
<1>1. PICK pc \in {"checked", "refused"} : upload' = [upload EXCEPT ![k].pc = pc]
  BY DEF Check
<1> QED BY <1>1, UploadKeepsTables DEF Check

LEMMA LoseOK ==
  ASSUME IInv, NEW k \in Candidates, Lose(k)
  PROVE  IInv'
  BY UploadKeepsTables DEF Lose

LEMMA InsertOK ==
  ASSUME IInv, NEW k \in Candidates, Insert(k)
  PROVE  IInv'
<1>1. CASE Content(k) \in PendingContents
  BY <1>1, UploadKeepsTables DEF Insert, tables
<1>2. CASE Content(k) \notin PendingContents
  <2>1. /\ upload[k].pc = "checked"
        /\ upload' = [upload EXCEPT ![k].pc = "stored"]
        /\ row' = [row EXCEPT ![k] = "pending"]
        /\ UNCHANGED <<approvals, published, foreign, call>>
    BY <1>2 DEF Insert
  <2>2. /\ upload' \in [Candidates -> Upload]
        /\ upload'[k].pc = "stored"
        /\ \A l \in Candidates \ {k} : upload'[l] = upload[l]
    BY <2>1, UploadStep DEF IInv
  <2>3. /\ row' \in [Candidates -> Statuses] /\ row'[k] = "pending"
        /\ \A l \in Candidates \ {k} : row'[l] = row[l]
    BY <2>1 DEF IInv, KnowledgeTypeOK, Statuses
  <2>4. ItemInv(upload[k], row[k], approvals[k], k \in published)
    BY DEF IInv, ItemsInv
  <2>5. row[k] = "absent" /\ approvals[k] = {} /\ k \notin published
    BY <2>1, <2>4 DEF ItemInv
  <2>6. KnowledgeTypeOK'
    BY <2>1, <2>2, <2>3 DEF IInv, KnowledgeTypeOK
  <2>8. ItemsInv'
    <3> SUFFICES ASSUME NEW l \in Candidates
                 PROVE  ItemInv(upload'[l], row'[l], approvals[l], l \in published)
      BY <2>1 DEF ItemsInv
    <3>1. CASE l = k
      BY <3>1, <2>2, <2>3, <2>5 DEF ItemInv
    <3>2. CASE l # k
      BY <3>2, <2>2, <2>3 DEF IInv, ItemsInv
    <3> QED BY <3>1, <3>2
  <2>9. CallsInv'
    <3>1. \A h \in Handlers : call[h].pc \in {"called", "loaded"} =>
            /\ call[h].candidate \in Candidates \ {k}
            /\ row'[call[h].candidate] = row[call[h].candidate]
      BY <2>3, <2>5, LoadedCall, CalledCall DEF IInv, CallsInv
    <3> QED BY <2>1, <3>1 DEF IInv, CallsInv
  <2> QED BY <2>6, <2>8, <2>9 DEF IInv
<1> QED BY <1>1, <1>2

-----------------------------------------------------------------------------
(* The steps of a decision that leave uploads and tables alone.            *)
LEMMA HandlerStep ==
  ASSUME IInv, NEW h \in Handlers, NEW c \in {Idle} \cup Called \cup Loaded,
         call' = [call EXCEPT ![h] = c],
         UNCHANGED <<upload, tables>>
  PROVE  /\ call'[h] = c
         /\ \A g \in Handlers \ {h} : call'[g] = call[g]
         /\ KnowledgeTypeOK' /\ ItemsInv'
<1>1. call'[h] = c /\ \A g \in Handlers \ {h} : call'[g] = call[g]
  BY DEF IInv, KnowledgeTypeOK
<1>2. call' \in [Handlers -> {Idle} \cup Called \cup Loaded]
  BY DEF IInv, KnowledgeTypeOK
<1>3. KnowledgeTypeOK'
  BY <1>2 DEF IInv, KnowledgeTypeOK, tables
<1>4. ItemsInv'
  BY DEF IInv, ItemsInv, tables
<1> QED BY <1>1, <1>3, <1>4

LEMMA DecideOK ==
  ASSUME IInv, NEW h \in Handlers, NEW k \in Candidates, NEW n \in Names,
         NEW d \in Decisions, Decide(h, k, n, d)
  PROVE  IInv'
<1> DEFINE c == [pc |-> "called", candidate |-> k,
                 approval |-> [who |-> Engineer[n], decision |-> d]]
<1>1. /\ row[k] # "absent"
      /\ call' = [call EXCEPT ![h] = c]
      /\ UNCHANGED <<upload, tables>>
  BY DEF Decide
<1>2. c \in Called
  BY EngineersAreNamed DEF Called, Approval
<1>3. c.pc = "called" /\ c.candidate = k
  OBVIOUS
<1> HIDE DEF c
<1>4. /\ call'[h] = c
      /\ \A g \in Handlers \ {h} : call'[g] = call[g]
      /\ KnowledgeTypeOK' /\ ItemsInv'
  BY <1>1, <1>2, HandlerStep
<1>5. \A g \in Handlers : call'[g].pc = "loaded" => call'[g] = call[g]
  BY <1>3, <1>4
<1>6. CallsInv'
  <2> SUFFICES ASSUME NEW g \in Handlers, call'[g].pc \in {"called", "loaded"}
               PROVE  /\ row[call'[g].candidate] # "absent"
                      /\ call'[g].pc = "loaded" =>
                           /\ call'[g].status = row[call'[g].candidate]
                           /\ call'[g].approvals = approvals[call'[g].candidate]
                           /\ \A f \in Handlers \ {g} : call'[f].pc = "loaded" =>
                                call'[f].candidate # call'[g].candidate
    BY <1>1 DEF CallsInv, tables
  <2>1. CASE g = h
    BY <2>1, <1>1, <1>3, <1>4
  <2>2. CASE g # h
    BY <2>2, <1>4, <1>5 DEF IInv, CallsInv
  <2> QED BY <2>1, <2>2
<1> QED BY <1>4, <1>6 DEF IInv

LEMMA LoadOK ==
  ASSUME IInv, NEW h \in Handlers, Load(h)
  PROVE  IInv'
<1> DEFINE k == call[h].candidate
           c == [pc |-> "loaded", candidate |-> k, approval |-> call[h].approval,
                 status |-> row[k], approvals |-> approvals[k]]
<1>1. /\ call[h].pc = "called" /\ ~Locked(k)
      /\ call' = [call EXCEPT ![h] = c]
      /\ UNCHANGED <<upload, tables>>
  BY DEF Load
<1>2. k \in Candidates /\ call[h].approval \in Approval
  BY <1>1, CalledCall DEF IInv
<1>3. c \in Loaded
  BY <1>2 DEF Loaded, IInv, KnowledgeTypeOK
<1>4. /\ c.pc = "loaded" /\ c.candidate = k /\ c.status = row[k]
      /\ c.approvals = approvals[k]
  OBVIOUS
<1>5. row[k] # "absent"
  BY <1>1 DEF IInv, CallsInv
<1>6. \A g \in Handlers : call[g].pc = "loaded" => call[g].candidate # k
  BY <1>1 DEF Locked
<1> HIDE DEF k, c
<1>7. /\ call'[h] = c
      /\ \A g \in Handlers \ {h} : call'[g] = call[g]
      /\ KnowledgeTypeOK' /\ ItemsInv'
  BY <1>1, <1>3, HandlerStep
<1>8. CallsInv'
  <2> SUFFICES ASSUME NEW g \in Handlers, call'[g].pc \in {"called", "loaded"}
               PROVE  /\ row[call'[g].candidate] # "absent"
                      /\ call'[g].pc = "loaded" =>
                           /\ call'[g].status = row[call'[g].candidate]
                           /\ call'[g].approvals = approvals[call'[g].candidate]
                           /\ \A f \in Handlers \ {g} : call'[f].pc = "loaded" =>
                                call'[f].candidate # call'[g].candidate
    BY <1>1 DEF CallsInv, tables
  <2>1. CASE g = h
    BY <2>1, <1>4, <1>5, <1>6, <1>7
  <2>2. CASE g # h
    <3>1. call'[g] = call[g]
      BY <1>7, <2>2
    <3>2. call[g].pc = "loaded" => \A f \in Handlers \ {g} :
            call'[f].pc = "loaded" => call'[f].candidate # call[g].candidate
      BY <1>4, <1>6, <1>7 DEF IInv, CallsInv
    <3> QED BY <3>1, <3>2 DEF IInv, CallsInv
  <2> QED BY <2>1, <2>2
<1> QED BY <1>7, <1>8 DEF IInv

LEMMA AbortOK ==
  ASSUME IInv, NEW h \in Handlers, Abort(h)
  PROVE  IInv'
<1>1. call' = [call EXCEPT ![h] = Idle] /\ UNCHANGED <<upload, tables>>
  BY DEF Abort
<1>2. /\ call'[h] = Idle
      /\ \A g \in Handlers \ {h} : call'[g] = call[g]
      /\ KnowledgeTypeOK' /\ ItemsInv'
  BY <1>1, HandlerStep
<1>3. \A g \in Handlers : call'[g].pc \in {"called", "loaded"} => call'[g] = call[g]
  BY <1>2, PcDistinguishes
<1>4. CallsInv'
  BY <1>1, <1>3 DEF IInv, CallsInv, tables
<1> QED BY <1>2, <1>4 DEF IInv

-----------------------------------------------------------------------------
(* A pending candidate has only approvals.  A decision of somebody who has *)
(* not decided is recorded, and the outcome is that of a review.           *)
LEMMA CommitEffect ==
  ASSUME IInv, NEW h \in Handlers, Commit(h)
  PROVE  LET c == call[h]
             k == c.candidate
         IN  /\ k \in Candidates /\ c.approval \in Approval
             /\ row[k] = "pending" /\ k \notin published
             /\ \A a \in approvals[k] : a.who # c.approval.who
             /\ \A a \in approvals[k] : a.decision = "approve"
             /\ StatusAfter(c) = IF c.approval.decision = "reject" THEN "rejected"
                                 ELSE IF approvals[k] = {} THEN "pending"
                                 ELSE "published"
             /\ StatusAfter(c) = "published" => Content(k) \notin ActiveContents
             /\ row' = [row EXCEPT ![k] = StatusAfter(c)]
             /\ approvals' = [approvals EXCEPT ![k] = approvals[k] \cup {c.approval}]
             /\ published' = IF StatusAfter(c) = "published" THEN published \cup {k}
                             ELSE published
             /\ call' = [call EXCEPT ![h] = Idle]
             /\ UNCHANGED <<upload, foreign>>
<1> DEFINE c == call[h]
           k == c.candidate
<1>1. c.pc = "loaded" /\ ~Refused(c) /\ Admitted(c)
  BY DEF Commit
<1>2. k \in Candidates /\ c.approval \in Approval
  BY <1>1, LoadedCall DEF IInv
<1>3. c.status = row[k] /\ c.approvals = approvals[k]
  BY <1>1 DEF IInv, CallsInv
<1>4. row[k] = "pending" /\ \A a \in approvals[k] : a.who # c.approval.who
  BY <1>1, <1>3 DEF Refused
<1>5. k \notin published /\ \A a \in approvals[k] : a.decision = "approve"
  BY <1>2, <1>4 DEF IInv, ItemsInv, ItemInv
<1>6. StatusAfter(c) = IF c.approval.decision = "reject" THEN "rejected"
                       ELSE IF approvals[k] = {} THEN "pending" ELSE "published"
  BY <1>3, <1>5 DEF StatusAfter
<1>7. StatusAfter(c) = "published" => Content(k) \notin ActiveContents
  BY <1>1 DEF Admitted
<1>8. /\ row' = [row EXCEPT ![k] = StatusAfter(c)]
      /\ approvals' = [approvals EXCEPT ![k] = approvals[k] \cup {c.approval}]
      /\ published' = IF StatusAfter(c) = "published" THEN published \cup {k}
                      ELSE published
      /\ call' = [call EXCEPT ![h] = Idle]
      /\ UNCHANGED <<upload, foreign>>
  BY <1>2 DEF Commit, IInv, KnowledgeTypeOK
<1> QED BY <1>2, <1>4, <1>5, <1>6, <1>7, <1>8

LEMMA CommitOK ==
  ASSUME IInv, NEW h \in Handlers, Commit(h)
  PROVE  IInv'
<1> DEFINE c == call[h]
           k == c.candidate
           s == StatusAfter(c)
           a == c.approval
<1>1. /\ k \in Candidates /\ a \in Approval
      /\ row[k] = "pending" /\ k \notin published
      /\ \A b \in approvals[k] : b.decision = "approve"
      /\ s = IF a.decision = "reject" THEN "rejected"
             ELSE IF approvals[k] = {} THEN "pending" ELSE "published"
      /\ s = "published" => Content(k) \notin ActiveContents
      /\ row' = [row EXCEPT ![k] = s]
      /\ approvals' = [approvals EXCEPT ![k] = approvals[k] \cup {a}]
      /\ published' = IF s = "published" THEN published \cup {k} ELSE published
      /\ call' = [call EXCEPT ![h] = Idle]
      /\ UNCHANGED <<upload, foreign>>
  BY CommitEffect
<1>2. \A g \in Handlers \ {h} : call[g].pc = "loaded" => call[g].candidate # k
  BY DEF Commit, IInv, CallsInv
<1> HIDE DEF c, k, s, a
<1>3. a.decision \in Decisions /\ s \in {"pending", "published", "rejected"}
  BY <1>1 DEF Approval
<1>4. /\ row' \in [Candidates -> Statuses] /\ row'[k] = s
      /\ \A l \in Candidates \ {k} : row'[l] = row[l]
  BY <1>1, <1>3 DEF IInv, KnowledgeTypeOK, Statuses
<1>5. /\ approvals' \in [Candidates -> SUBSET Approval]
      /\ approvals'[k] = approvals[k] \cup {a}
      /\ \A l \in Candidates \ {k} : approvals'[l] = approvals[l]
  BY <1>1 DEF IInv, KnowledgeTypeOK
<1>6. /\ call' \in [Handlers -> {Idle} \cup Called \cup Loaded]
      /\ \A g \in Handlers : call'[g].pc \in {"called", "loaded"} =>
           g # h /\ call'[g] = call[g]
  BY <1>1, PcDistinguishes DEF IInv, KnowledgeTypeOK
<1>7. KnowledgeTypeOK'
  BY <1>1, <1>4, <1>5, <1>6 DEF IInv, KnowledgeTypeOK
<1>9. ItemsInv'
  <2> SUFFICES ASSUME NEW l \in Candidates
               PROVE  ItemInv(upload[l], row'[l], approvals'[l], l \in published')
    BY <1>1 DEF ItemsInv
  <2>1. ItemInv(upload[l], row[l], approvals[l], l \in published)
    BY DEF IInv, ItemsInv
  <2>2. CASE l # k
    <3>1. l \in published' <=> l \in published
      BY <2>2, <1>1
    <3> QED BY <2>1, <2>2, <3>1, <1>4, <1>5 DEF ItemInv
  <2>3. CASE l = k
    <3>1. upload[k].pc = "stored"
      BY <2>1, <2>3, <1>1 DEF ItemInv
    <3>2. k \in published' <=> s = "published"
      BY <1>1
    <3>3. s = "pending" => a.decision = "approve"
      BY <1>1, <1>3 DEF Decisions
    <3> QED BY <2>3, <3>1, <3>2, <3>3, <1>1, <1>3, <1>4, <1>5 DEF ItemInv
  <2> QED BY <2>2, <2>3
<1>10. CallsInv'
  <2> SUFFICES ASSUME NEW g \in Handlers, call'[g].pc \in {"called", "loaded"}
               PROVE  /\ row'[call'[g].candidate] # "absent"
                      /\ call'[g].pc = "loaded" =>
                           /\ call'[g].status = row'[call'[g].candidate]
                           /\ call'[g].approvals = approvals'[call'[g].candidate]
                           /\ \A f \in Handlers \ {g} : call'[f].pc = "loaded" =>
                                call'[f].candidate # call'[g].candidate
    BY DEF CallsInv
  <2>1. g # h /\ call'[g] = call[g] /\ call[g].candidate \in Candidates
    BY <1>6, LoadedCall, CalledCall DEF IInv
  <2>2. /\ row[call[g].candidate] # "absent"
        /\ call[g].pc = "loaded" =>
             /\ call[g].status = row[call[g].candidate]
             /\ call[g].approvals = approvals[call[g].candidate]
             /\ \A f \in Handlers \ {g} : call[f].pc = "loaded" =>
                  call[f].candidate # call[g].candidate
    BY <2>1 DEF IInv, CallsInv
  <2>3. row'[call[g].candidate] # "absent"
    BY <2>1, <2>2, <1>3, <1>4
  <2>4. ASSUME call[g].pc = "loaded"
        PROVE  /\ call[g].status = row'[call[g].candidate]
               /\ call[g].approvals = approvals'[call[g].candidate]
               /\ \A f \in Handlers \ {g} : call'[f].pc = "loaded" =>
                    call'[f].candidate # call[g].candidate
    <3>1. call[g].candidate # k
      BY <2>1, <2>4, <1>2
    <3> QED BY <3>1, <2>1, <2>2, <2>4, <1>4, <1>5, <1>6
  <2> QED BY <2>1, <2>3, <2>4
<1> QED BY <1>7, <1>9, <1>10 DEF IInv

LEMMA PublishCaseOK ==
  ASSUME IInv, NEW content \in Contents, PublishCase(content)
  PROVE  IInv'
  BY DEF PublishCase, IInv, KnowledgeTypeOK, ItemsInv, CallsInv

-----------------------------------------------------------------------------
LEMMA KnowledgeInitially == Init => IInv
<1> SUFFICES ASSUME Init
             PROVE  IInv
  OBVIOUS
<1>1. \A k \in Candidates : upload[k] \in [pc : {"new"}, content : Contents]
  BY DEF Init
<1>2. \A k \in Candidates : upload[k] \in Upload /\ upload[k].pc = "new"
  BY <1>1 DEF Upload
<1>3. KnowledgeTypeOK
  BY <1>2, KnowledgeAssumption DEF Init, KnowledgeTypeOK, Statuses
<1>4. ItemsInv
  BY <1>2 DEF Init, ItemsInv, ItemInv
<1>5. CallsInv
  BY PcDistinguishes DEF Init, CallsInv
<1> QED BY <1>3, <1>4, <1>5 DEF IInv

LEMMA KnowledgeInductive == IInv /\ [Next]_vars => IInv'
<1> SUFFICES ASSUME IInv, [Next]_vars
             PROVE  IInv'
  OBVIOUS
<1>1. CASE UNCHANGED vars
  BY <1>1 DEF vars, tables, IInv, KnowledgeTypeOK, ItemsInv, CallsInv
<1>2. CASE \E k \in Candidates : Check(k) \/ Insert(k) \/ Lose(k)
  BY <1>2, CheckOK, InsertOK, LoseOK
<1>3. CASE \E h \in Handlers, k \in Candidates, n \in Names, d \in Decisions :
             Decide(h, k, n, d)
  BY <1>3, DecideOK
<1>4. CASE \E h \in Handlers : Load(h) \/ Commit(h) \/ Abort(h)
  BY <1>4, LoadOK, CommitOK, AbortOK
<1>5. CASE \E content \in Contents : PublishCase(content)
  BY <1>5, PublishCaseOK
<1> QED BY <1>1, <1>2, <1>3, <1>4, <1>5 DEF Next

LEMMA KnowledgeInvariance == Spec => []IInv
  BY KnowledgeInitially, KnowledgeInductive, PTL DEF Spec

-----------------------------------------------------------------------------
(* Tables and calls keep their columns.                                    *)
THEOREM KnowledgeTypeCorrect == Spec => []KnowledgeTypeOK
<1>1. IInv => KnowledgeTypeOK
  BY DEF IInv
<1> QED BY KnowledgeInvariance, <1>1, PTL

-----------------------------------------------------------------------------
(* The refinement.  A published row has its document, so the mapping shows *)
(* the rows as they are.                                                   *)
Shown == [k \in Candidates |-> IF row[k] = "published" /\ k \notin published
                               THEN "lost" ELSE row[k]]

LEMMA ShownIsRow == IInv => Shown = row
<1> SUFFICES ASSUME IInv
             PROVE  Shown = row
  OBVIOUS
<1>1. \A k \in Candidates : row[k] = "published" => k \in published
  BY DEF IInv, ItemsInv, ItemInv
<1>2. Shown = [k \in Candidates |-> row[k]]
  BY <1>1 DEF Shown
<1> QED BY <1>2 DEF IInv, KnowledgeTypeOK

(* Every step is a submission, a vote, or nothing to a review.             *)
LEMMA ReviewStep ==
  ASSUME IInv, IInv', [Next]_vars
  PROVE  [R!ReviewNext]_R!reviewVars
<1>1. Shown = row /\ Shown' = row'
  <2>1. Shown = row
    BY ShownIsRow
  <2>2. (Shown = row)'
    BY ShownIsRow, PTL
  <2> QED BY <2>1, <2>2
<1>2. ASSUME row' = row, approvals' = approvals
      PROVE  UNCHANGED R!reviewVars
  BY <1>1, <1>2 DEF R!reviewVars, Shown
<1>3. ASSUME NEW k \in Candidates, Insert(k)
      PROVE  [R!ReviewNext]_R!reviewVars
  <2>1. CASE row' = row
    BY <2>1, <1>2, <1>3 DEF Insert
  <2>2. CASE row' # row
    <3>1. row[k] = "absent"
      BY <2>2, <1>3 DEF Insert, IInv, ItemsInv, ItemInv
    <3>2. row' = [row EXCEPT ![k] = "pending"] /\ approvals' = approvals
      BY <2>2, <1>3 DEF Insert
    <3>3. R!Submit(k)
      BY <3>1, <3>2, <1>1 DEF R!Submit, Shown
    <3> QED BY <3>3 DEF R!ReviewNext
  <2> QED BY <2>1, <2>2
<1>4. ASSUME NEW h \in Handlers, Commit(h)
      PROVE  R!ReviewNext
  <2>1. PICK k \in Candidates, a \in Approval :
          /\ row[k] = "pending"
          /\ \A b \in approvals[k] : b.who # a.who
          /\ row' = [row EXCEPT ![k] =
                       IF a.decision = "reject" THEN "rejected"
                       ELSE IF approvals[k] = {} THEN "pending" ELSE "published"]
          /\ approvals' = [approvals EXCEPT ![k] = approvals[k] \cup {a}]
    BY <1>4, CommitEffect
  <2>2. /\ a.who \in Engineers /\ a.decision \in {"approve", "reject"}
        /\ a = [who |-> a.who, decision |-> a.decision]
    BY <2>1 DEF Approval, Decisions
  <2>3. CASE a.decision = "reject"
    <3>1. R!Reject(k, a.who)
      BY <2>1, <2>2, <2>3, <1>1 DEF R!Reject, R!Vote, Shown
    <3> QED BY <3>1, <2>2 DEF R!ReviewNext
  <2>4. CASE a.decision = "approve"
    <3>1. R!Approve(k, a.who)
      BY <2>1, <2>2, <2>4, <1>1 DEF R!Approve, R!Vote, Shown
    <3> QED BY <3>1, <2>2 DEF R!ReviewNext
  <2> QED BY <2>2, <2>3, <2>4
<1>5. CASE UNCHANGED <<row, approvals>>
  BY <1>5, <1>2
<1> QED BY <1>3, <1>4, <1>5
        DEF Next, vars, tables, Check, Lose, Decide, Load, Abort, PublishCase

(* The approval of uploads follows the rules of a review.                  *)
THEOREM KnowledgeImplementsReview == Spec => ImplementsReview
<1>1. Init => R!ReviewInit
  BY DEF Init, R!ReviewInit
<1>2. IInv /\ IInv' /\ [Next]_vars => [R!ReviewNext]_R!reviewVars
  BY ReviewStep
<1> QED BY KnowledgeInvariance, <1>1, <1>2, PTL DEF Spec, ImplementsReview, R!ReviewSpec
=============================================================================
