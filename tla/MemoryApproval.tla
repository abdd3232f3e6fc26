--------------------------- MODULE MemoryApproval ---------------------------
(***************************************************************************)
(* Approval of memory candidates: memory.py with PostgresMemoryStore.  A   *)
(* completed Job leaves at most one candidate; engineers approve or reject *)
(* it over HTTP, and the second approval publishes it as a case and a      *)
(* knowledge document.  API processes handle decisions concurrently; each  *)
(* decision is a transaction that locks the candidate's row, decides on    *)
(* what it read, and writes five tables.  A reader takes no lock and reads *)
(* the row and the approvals by two statements.                            *)
(***************************************************************************)
EXTENDS Integers, Sequences

CONSTANTS Jobs,      \* a Job has at most one candidate, so it stands for it
          Names,     \* engineer ids as they are typed into a request
          Engineer,  \* what strip().upper() makes of them
          Handlers,  \* threads of API processes that handle a decision
          Readers    \* clients that read a candidate

ASSUME MemoryAssumption ==
  /\ Engineer \in [Names -> Names]
  /\ \A n \in Names : Engineer[Engineer[n]] = Engineer[n]

VARIABLES row,        \* memory_candidate
          approvals,  \* memory_approval, per candidate
          library,    \* decisions cited by the published case and document
          audit,      \* audit_event, per candidate
          call,       \* the decision each thread is working on
          view        \* the candidate as each reader has it

tables == <<row, approvals, library, audit>>
vars   == <<tables, call, view>>

-----------------------------------------------------------------------------
Terminal == {"published", "rejected"}
Engineers == {Engineer[n] : n \in Names}

Roles == {"process_engineer", "other"}

(* gated is requires_process_engineer_approval.                            *)
Row == [status : {"absent", "pending"} \cup Terminal, gated : BOOLEAN]

Approval == [engineer : Engineers, role : Roles, decision : {"approve", "reject"}]

Event == [action : {"created", "recorded"} \cup Terminal, actor : Engineers]

Idle == [pc |-> "idle"]
Called == [pc : {"called"}, job : Jobs, approval : Approval]
Loaded == [pc : {"loaded"}, job : Jobs, approval : Approval,
           row : Row, approvals : SUBSET Approval]

Blank == [pc |-> "blank"]
Shown == [pc : {"half", "shown"}, job : Jobs, row : Row,
          approvals : SUBSET Approval]

Approved(s) == {a \in s : a.decision = "approve"}

TwoIn(s) == \E a, b \in s : a # b

-----------------------------------------------------------------------------
Init == /\ row       = [j \in Jobs |-> [status |-> "absent", gated |-> FALSE]]
        /\ approvals = [j \in Jobs |-> {}]
        /\ library   = [j \in Jobs |-> {}]
        /\ audit     = [j \in Jobs |-> <<>>]
        /\ call      = [h \in Handlers |-> Idle]
        /\ view      = [r \in Readers |-> Blank]

(* create_from_state, called by the Worker after its commit; the INSERT    *)
(* does nothing if the Job has a candidate.                                *)
Create(j, gated) ==
  /\ row[j].status = "absent"
  /\ row' = [row EXCEPT ![j] = [status |-> "pending", gated |-> gated]]
  /\ UNCHANGED <<approvals, library, audit, call, view>>

-----------------------------------------------------------------------------
(* Decisions.                                                              *)

(* decide, up to commit_decision.                                          *)
Decide(h, j, name, role, decision) ==
  /\ call[h] = Idle
  /\ call' = [call EXCEPT ![h] =
                [pc |-> "called", job |-> j,
                 approval |-> [engineer |-> Engineer[name], role |-> role,
                               decision |-> decision]]]
  /\ UNCHANGED <<tables, view>>

Locked(j) == \E h \in Handlers : call[h].pc = "loaded" /\ call[h].job = j

(* Mutant: SELECT without FOR UPDATE.                                      *)
LoadUnlocked(h) ==
  LET c == call[h]
  IN /\ c.pc = "called"
     /\ row[c.job].status # "absent"
     /\ call' = [call EXCEPT ![h] =
                   [pc |-> "loaded", job |-> c.job, approval |-> c.approval,
                    row |-> row[c.job], approvals |-> approvals[c.job]]]
     /\ UNCHANGED <<tables, view>>

(* SELECT ... FOR UPDATE returns the row, once no other transaction has    *)
(* it; the approvals are read after that.                                  *)
Load(h) ==
  LET c == call[h]
  IN /\ c.pc = "called"
     /\ row[c.job].status # "absent"
     /\ ~Locked(c.job)
     /\ call' = [call EXCEPT ![h] =
                   [pc |-> "loaded", job |-> c.job, approval |-> c.approval,
                    row |-> row[c.job], approvals |-> approvals[c.job]]]
     /\ UNCHANGED <<tables, view>>

(* Mutant: one approval is enough.                                         *)
StatusAfterOne(c) ==
  IF c.approval.decision = "reject" THEN "rejected" ELSE "published"

(* _apply_decision: the status of the candidate with one more decision.    *)
StatusAfter(c) ==
  LET all == c.approvals \cup {c.approval}
  IN IF c.approval.decision = "reject" THEN "rejected"
     ELSE IF TwoIn(Approved(all)) THEN "published" ELSE "pending"

LacksProcessEngineer(c) ==
  /\ c.row.gated
  /\ StatusAfter(c) = "published"
  /\ \A a \in Approved(c.approvals \cup {c.approval}) : a.role # "process_engineer"

(* Mutant: the Process Engineer is not asked for.                          *)
RefusedUngated(c) ==
  \/ c.row.status # "pending"
  \/ \E a \in c.approvals : a.engineer = c.approval.engineer

(* What _apply_decision raises on, seen in the rows it was given.          *)
Refused(c) ==
  \/ c.row.status # "pending"
  \/ \E a \in c.approvals : a.engineer = c.approval.engineer
  \/ LacksProcessEngineer(c)

(* Unique indexes on (candidate, engineer) and on the case's candidate.    *)
Admitted(c, status) ==
  /\ \A a \in approvals[c.job] : a.engineer # c.approval.engineer
  /\ status = "published" => library[c.job] = {}

(* Mutant: the outcome is audited before the decision that led to it.      *)
AuditOfOutcomeFirst(c, status) ==
  LET actor == c.approval.engineer
  IN (IF status \in Terminal THEN <<[action |-> status, actor |-> actor]>> ELSE <<>>)
     \o <<[action |-> "recorded", actor |-> actor]>>

AuditOf(c, status) ==
  LET actor == c.approval.engineer
  IN <<[action |-> "recorded", actor |-> actor]>>
     \o IF status \in Terminal THEN <<[action |-> status, actor |-> actor]>> ELSE <<>>

(* commit_decision commits.  The answer may be lost; a client that asks    *)
(* again is a call of its own.                                             *)
Commit(h) ==
  LET c == call[h]
      status == StatusAfter(c)
  IN /\ c.pc = "loaded"
     /\ ~Refused(c)
     /\ Admitted(c, status)
     /\ row'       = [row EXCEPT ![c.job].status = status]
     /\ approvals' = [approvals EXCEPT ![c.job] = @ \cup {c.approval}]
     /\ library'   = [library EXCEPT ![c.job] =
                        IF status = "published" THEN c.approvals \cup {c.approval}
                        ELSE @]
     /\ audit'     = [audit EXCEPT ![c.job] = @ \o AuditOf(c, status)]
     /\ call'      = [call EXCEPT ![h] = Idle]
     /\ UNCHANGED view

(* The candidate does not exist, the decision is refused, a statement      *)
(* fails, or the process dies: the transaction is rolled back.             *)
Abort(h) ==
  /\ call[h] # Idle
  /\ call' = [call EXCEPT ![h] = Idle]
  /\ UNCHANGED <<tables, view>>

-----------------------------------------------------------------------------
(* _read_candidate: the two statements of get and get_by_job.              *)
ReadCandidate(r, j) ==
  /\ row[j].status # "absent"
  /\ view' = [view EXCEPT ![r] = [pc |-> "half", job |-> j, row |-> row[j],
                                  approvals |-> {}]]
  /\ UNCHANGED <<tables, call>>

(* Mutant: decisions other than approvals are filtered out.                *)
ReadApprovalsOnly(r) ==
  /\ view[r].pc = "half"
  /\ view' = [view EXCEPT ![r].pc = "shown",
                          ![r].approvals = Approved(approvals[view[r].job])]
  /\ UNCHANGED <<tables, call>>

ReadApprovals(r) ==
  /\ view[r].pc = "half"
  /\ view' = [view EXCEPT ![r].pc = "shown",
                          ![r].approvals = approvals[view[r].job]]
  /\ UNCHANGED <<tables, call>>

-----------------------------------------------------------------------------
Next ==
  \/ \E j \in Jobs, gated \in BOOLEAN : Create(j, gated)
  \/ \E h \in Handlers :
       \/ \E j \in Jobs, n \in Names, role \in Roles, d \in {"approve", "reject"} :
            Decide(h, j, n, role, d)
       \/ Load(h)
       \/ Commit(h)
       \/ Abort(h)
  \/ \E r \in Readers : \/ \E j \in Jobs : ReadCandidate(r, j)
                        \/ ReadApprovals(r)

Spec == Init /\ [][Next]_vars

-----------------------------------------------------------------------------
(* Properties.                                                             *)

(* Tables, calls and views have their columns; a stored engineer id is a   *)
(* normalized one.                                                         *)
TypeOK == /\ row \in [Jobs -> Row]
          /\ approvals \in [Jobs -> SUBSET Approval]
          /\ library \in [Jobs -> SUBSET Approval]
          /\ audit \in [Jobs -> Seq(Event)]
          /\ call \in [Handlers -> {Idle} \cup Called \cup Loaded]
          /\ view \in [Readers -> {Blank} \cup Shown]

(* A decision is applied to what the tables say when it is written, not    *)
(* only when they were read: nobody else decides in between.               *)
LoadedIsCurrent ==
  \A h \in Handlers : call[h].pc = "loaded" =>
    LET c == call[h]
    IN /\ c.row = row[c.job] /\ c.row.status # "absent"
       /\ c.approvals = approvals[c.job]
       /\ \A g \in Handlers \ {h} :
            call[g].pc = "loaded" => call[g].job # c.job

(* "One engineer can submit only one decision for a candidate", however    *)
(* the id is spelled and whichever role is claimed.                        *)
OneDecisionEach ==
  \A j \in Jobs : \A a, b \in approvals[j] :
    Engineer[a.engineer] = Engineer[b.engineer] => a = b

(* The status is the one the decisions call for: one rejection is final,   *)
(* two approvals publish, and no decision is recorded without its effect.  *)
StatusFits(r, s) ==
  /\ r.status = "absent" => s = {}
  /\ r.status \in {"absent", "pending"} => s = Approved(s) /\ ~TwoIn(s)
  /\ r.status = "rejected" => \E a \in s : /\ a.decision = "reject"
                                           /\ ~TwoIn(s \ {a})
                                           /\ s \ {a} = Approved(s)
  /\ r.status = "published" =>
       /\ s = Approved(s)
       /\ \E a, b \in s : a # b /\ s = {a, b}
       /\ r.gated => \E a \in s : a.role = "process_engineer"

StatusFollowsDecisions == \A j \in Jobs : StatusFits(row[j], approvals[j])

(* "Two independent engineer decisions": what is in the library has been   *)
(* approved by two different people, one of them a Process Engineer where  *)
(* recipes are concerned, and cites exactly the decisions on record.       *)
LibraryIsApproved ==
  \A j \in Jobs :
    /\ library[j] # {} <=> row[j].status = "published"
    /\ library[j] # {} =>
         /\ library[j] = approvals[j]
         /\ \E a, b \in library[j] :
              /\ Engineer[a.engineer] # Engineer[b.engineer]
              /\ {a, b} = Approved(library[j])
              /\ row[j].gated => "process_engineer" \in {a.role, b.role}

(* "A rejection immediately makes the candidate terminal": nothing is      *)
(* decided, published or audited after the end, by whatever call was in    *)
(* progress.                                                               *)
TerminalIsUntouched ==
  [][\A j \in Jobs : row[j].status \in Terminal =>
       /\ row'[j] = row[j]
       /\ approvals'[j] = approvals[j]
       /\ library'[j] = library[j]
       /\ audit'[j] = audit[j]]_vars

(* The audit trail of a candidate tells its decisions, each once, and ends *)
(* with its outcome, signed by the engineer who brought it about.          *)
TrailFits(t, r, s) ==
  LET recorded == {i \in DOMAIN t : t[i].action = "recorded"}
  IN /\ {t[i].actor : i \in recorded} = {a.engineer : a \in s}
     /\ \A i, k \in recorded : t[i].actor = t[k].actor => i = k
     /\ \A i \in DOMAIN t \ recorded :
          /\ i = Len(t) /\ i - 1 \in recorded
          /\ t[i].action = r.status
          /\ t[i].actor = t[i - 1].actor
     /\ r.status \in Terminal => \E i \in DOMAIN t : t[i].action = r.status

TrailAgrees == \A j \in Jobs : TrailFits(audit[j], row[j], approvals[j])

(* A reader's row and approvals come from two statements, and decisions    *)
(* may fall between them.  Still nobody is shown a published candidate     *)
(* without the approvals that published it, or a rejected one without its  *)
(* rejection, or a decision that was not made.                             *)
ViewIsSound ==
  \A r \in Readers : view[r].pc = "shown" =>
    LET v == view[r]
    IN /\ v.approvals \subseteq approvals[v.job]
       /\ v.row.status \in Terminal => /\ v.row = row[v.job]
                                       /\ StatusFits(v.row, v.approvals)

(* The five tables together keep the rules of a review, whoever holds      *)
(* which role: votes are counted once per person, and an outcome is in     *)
(* force, which for an approved case means in the library, as soon as the  *)
(* votes call for it.                                                      *)
R == INSTANCE Review WITH
       Items <- Jobs, People <- Engineers,
       votes <- [j \in Jobs |-> {[who |-> a.engineer, decision |-> a.decision] :
                                   a \in approvals[j]}],
       status <- [j \in Jobs |->
                    IF (row[j].status = "published") # (library[j] # {})
                    THEN "torn" ELSE row[j].status]

ImplementsReview == R!ReviewSpec
=============================================================================
