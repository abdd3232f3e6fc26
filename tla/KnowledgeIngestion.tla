------------------------- MODULE KnowledgeIngestion -------------------------
(***************************************************************************)
(* Uploaded knowledge: knowledge_ingestion.py with PostgresKnowledgeStore. *)
(* An upload becomes a candidate unless its content is pending or active   *)
(* already; two engineers publish it as a document with its chunks.  API   *)
(* processes work concurrently: create_candidate looks for a duplicate by  *)
(* one statement and inserts by another, commit_approval decides on what   *)
(* it read under the lock of the row.  Two partial unique indexes stand    *)
(* behind both, and memory.py publishes its cases under one of them.       *)
(*                                                                         *)
(* A content is its SHA-256; a document stands for its chunks, which are   *)
(* written in the same transaction.                                        *)
(***************************************************************************)
EXTENDS Integers, FiniteSets

CONSTANTS Candidates, \* an upload has a fresh candidate id, which names it
          Contents,
          Seeded,     \* contents of built-in documents
          Names,      \* engineer ids as they are typed into a request
          Engineer,   \* what strip().upper() makes of them
          Handlers    \* threads of API processes that handle a decision

ASSUME KnowledgeAssumption ==
  /\ Seeded \subseteq Contents
  /\ Engineer \in [Names -> Names]
  /\ \A n \in Names : Engineer[Engineer[n]] = Engineer[n]

VARIABLES upload,    \* the call that handles each upload
          row,       \* status in knowledge_ingestion_candidate
          approvals, \* knowledge_ingestion_approval, per candidate
          published, \* candidates with a knowledge_document
          foreign,   \* contents of the other active documents
          call       \* the decision each thread is working on

tables == <<row, approvals, published, foreign>>
vars   == <<upload, tables, call>>

-----------------------------------------------------------------------------
Engineers == {Engineer[n] : n \in Names}
Decisions == {"approve", "reject"}

Approval == [who : Engineers, decision : Decisions]

Statuses == {"absent", "pending", "published", "rejected"}

Upload == [pc : {"new", "checked", "stored", "refused"}, content : Contents]

Idle   == [pc |-> "idle"]
Called == [pc : {"called"}, candidate : Candidates, approval : Approval]
Loaded == [pc : {"loaded"}, candidate : Candidates, approval : Approval,
           status : Statuses, approvals : SUBSET Approval]

Content(k) == upload[k].content

PendingContents == {Content(k) : k \in {c \in Candidates : row[c] = "pending"}}
ActiveContents  == foreign \cup {Content(k) : k \in published}

-----------------------------------------------------------------------------
Init == /\ upload \in [Candidates -> [pc : {"new"}, content : Contents]]
        /\ row       = [k \in Candidates |-> "absent"]
        /\ approvals = [k \in Candidates |-> {}]
        /\ published = {}
        /\ foreign   = Seeded
        /\ call      = [h \in Handlers |-> Idle]

(* create_candidate, the SELECT: a duplicate is refused.                   *)
Check(k) ==
  /\ upload[k].pc = "new"
  /\ upload' = [upload EXCEPT ![k].pc =
                  IF Content(k) \in PendingContents \cup ActiveContents
                  THEN "refused" ELSE "checked"]
  /\ UNCHANGED <<tables, call>>

(* Its INSERT: idx_knowledge_pending_content_sha256 decides.               *)
Insert(k) ==
  /\ upload[k].pc = "checked"
  /\ IF Content(k) \in PendingContents
     THEN /\ upload' = [upload EXCEPT ![k].pc = "refused"]
          /\ UNCHANGED row
     ELSE /\ upload' = [upload EXCEPT ![k].pc = "stored"]
          /\ row' = [row EXCEPT ![k] = "pending"]
  /\ UNCHANGED <<approvals, published, foreign, call>>

(* A statement fails or the process dies.                                  *)
Lose(k) ==
  /\ upload[k].pc = "checked"
  /\ upload' = [upload EXCEPT ![k].pc = "refused"]
  /\ UNCHANGED <<tables, call>>

-----------------------------------------------------------------------------
(* KnowledgeIngestionService.decide, up to commit_approval; it looks the   *)
(* candidate up first.                                                     *)
Decide(h, k, name, decision) ==
  /\ call[h] = Idle
  /\ row[k] # "absent"
  /\ call' = [call EXCEPT ![h] =
                [pc |-> "called", candidate |-> k,
                 approval |-> [who |-> Engineer[name], decision |-> decision]]]
  /\ UNCHANGED <<upload, tables>>

Locked(k) == \E h \in Handlers : call[h].pc = "loaded" /\ call[h].candidate = k

(* Mutant: SELECT without FOR UPDATE.                                      *)
LoadUnlocked(h) ==
  LET c == call[h]
  IN /\ c.pc = "called"
     /\ call' = [call EXCEPT ![h] =
                   [pc |-> "loaded", candidate |-> c.candidate,
                    approval |-> c.approval, status |-> row[c.candidate],
                    approvals |-> approvals[c.candidate]]]
     /\ UNCHANGED <<upload, tables>>

(* SELECT ... FOR UPDATE; the approvals are read after it.                 *)
Load(h) ==
  LET c == call[h]
  IN /\ c.pc = "called"
     /\ ~Locked(c.candidate)
     /\ call' = [call EXCEPT ![h] =
                   [pc |-> "loaded", candidate |-> c.candidate,
                    approval |-> c.approval, status |-> row[c.candidate],
                    approvals |-> approvals[c.candidate]]]
     /\ UNCHANGED <<upload, tables>>

(* _publication: the status with one more decision.                        *)
StatusAfter(c) ==
  IF c.approval.decision = "reject" THEN "rejected"
  ELSE IF \E a \in c.approvals : a.decision = "approve" THEN "published"
  ELSE "pending"

Refused(c) ==
  \/ c.status # "pending"
  \/ \E a \in c.approvals : a.who = c.approval.who

(* Unique indexes on (candidate, engineer) and on the content of the       *)
(* active documents, idx_knowledge_active_content_sha256.                  *)
Admitted(c) ==
  /\ \A a \in approvals[c.candidate] : a.who # c.approval.who
  /\ StatusAfter(c) = "published" => Content(c.candidate) \notin ActiveContents

Commit(h) ==
  LET c == call[h]
      k == c.candidate
  IN /\ c.pc = "loaded"
     /\ ~Refused(c) /\ Admitted(c)
     /\ row'       = [row EXCEPT ![k] = StatusAfter(c)]
     /\ approvals' = [approvals EXCEPT ![k] = @ \cup {c.approval}]
     /\ published' = IF StatusAfter(c) = "published" THEN published \cup {k}
                     ELSE published
     /\ call'      = [call EXCEPT ![h] = Idle]
     /\ UNCHANGED <<upload, foreign>>

(* The decision is refused, an index refuses it, a statement fails, or the *)
(* process dies: the transaction is rolled back.                           *)
Abort(h) ==
  /\ call[h] # Idle
  /\ call' = [call EXCEPT ![h] = Idle]
  /\ UNCHANGED <<upload, tables>>

(* memory.py publishes an approved case, under the same index.             *)
PublishCase(content) ==
  /\ content \notin ActiveContents
  /\ foreign' = foreign \cup {content}
  /\ UNCHANGED <<upload, row, approvals, published, call>>

-----------------------------------------------------------------------------
Next ==
  \/ \E k \in Candidates : Check(k) \/ Insert(k) \/ Lose(k)
  \/ \E h \in Handlers :
       \/ \E k \in Candidates, n \in Names, d \in Decisions : Decide(h, k, n, d)
       \/ Load(h) \/ Commit(h) \/ Abort(h)
  \/ \E content \in Contents : PublishCase(content)

Spec == Init /\ [][Next]_vars

-----------------------------------------------------------------------------
(* Properties.                                                             *)

(* Type invariant of the tables and the calls.                             *)
KnowledgeTypeOK ==
  /\ upload \in [Candidates -> Upload]
  /\ row \in [Candidates -> Statuses]
  /\ approvals \in [Candidates -> SUBSET Approval]
  /\ published \subseteq Candidates
  /\ foreign \subseteq Contents
  /\ call \in [Handlers -> {Idle} \cup Called \cup Loaded]

(* Decisions follow the rules of a review, the outcome reaches the active  *)
(* index exactly when they call for it, and nobody decides on what         *)
(* somebody else is changing.                                              *)
R == INSTANCE Review WITH
       Items <- Candidates, People <- Engineers, votes <- approvals,
       status <- [k \in Candidates |->
                    IF row[k] = "published" /\ k \notin published THEN "lost"
                    ELSE row[k]]

ImplementsReview == R!ReviewSpec
=============================================================================
