----------------------------- MODULE Submission -----------------------------
(***************************************************************************)
(* Idempotent submission: POST /rca/jobs with an optional Idempotency-Key. *)
(* create_rca_job gives every call a fresh Job id and enqueue inserts the  *)
(* Job; the unique index on idempotency_key refuses a second Job for a key *)
(* and enqueue then looks up, in a transaction of its own, the Job that    *)
(* holds it.  Calls run concurrently, a client that heard nothing posts    *)
(* again, database calls fail, and API processes die.                      *)
(***************************************************************************)
EXTENDS Integers, Sequences

CONSTANTS Calls,    \* handler threads
          Ids,      \* Job ids; uuid4 never repeats one
          Keys,     \* Idempotency-Keys
          NoKey,    \* the header is absent
          Bodies    \* normalized requests; a request hash stands for its body

ASSUME SubmissionAssumption == NoKey \notin Keys

VARIABLES stored,   \* Job id |-> idempotency key and request of its row
          used,     \* Job ids given out
          call,     \* the POST each thread is working on
          heard     \* answers that reached a client

vars == <<stored, used, call, heard>>

-----------------------------------------------------------------------------
AnyKey == Keys \cup {NoKey}

Row  == [key : AnyKey, body : Bodies]
Post == [pc : {"insert", "look"}, key : AnyKey, body : Bodies, id : Ids]
Idle == [pc |-> "idle"]

(* own is the id the call drew for itself, job the one it was told.        *)
Answer == [kind : {"accepted", "conflict", "failed"},
           key : AnyKey, body : Bodies, own : Ids, job : Ids]

Jobs == DOMAIN stored

RowOf(p) == [key |-> p.key, body |-> p.body]

Holders(key) == {i \in Jobs : key # NoKey /\ stored[i].key = key}

-----------------------------------------------------------------------------
Init == /\ stored = [i \in {} |-> [key |-> NoKey]]
        /\ used   = {}
        /\ call   = [c \in Calls |-> Idle]
        /\ heard  = {}

(* The head of create_rca_job, up to the call of enqueue.                  *)
Begin(c, key, body, id) ==
  /\ call[c] = Idle
  /\ id \notin used
  /\ used' = used \cup {id}
  /\ call' = [call EXCEPT ![c] = [pc |-> "insert", key |-> key,
                                  body |-> body, id |-> id]]
  /\ UNCHANGED <<stored, heard>>

(* The call ends with an answer, which may never reach the client.         *)
Reply(c, kind, job) ==
  /\ call' = [call EXCEPT ![c] = Idle]
  /\ heard' \in {heard, heard \cup {[kind |-> kind, key |-> call[c].key,
                                    body |-> call[c].body,
                                    own |-> call[c].id, job |-> job]}}

(* The INSERT commits.  If only its acknowledgement is lost, the call      *)
(* fails although the Job exists.                                          *)
Insert(c) ==
  /\ call[c].pc = "insert"
  /\ Holders(call[c].key) = {}
  /\ stored' = [i \in Jobs \cup {call[c].id} |->
                  IF i = call[c].id THEN RowOf(call[c]) ELSE stored[i]]
  /\ \/ Reply(c, "accepted", call[c].id)
     \/ Reply(c, "failed", call[c].id)
  /\ UNCHANGED used

(* The INSERT meets a row with its key: UniqueViolation.                   *)
Collide(c) ==
  /\ call[c].pc = "insert"
  /\ Holders(call[c].key) # {}
  /\ call' = [call EXCEPT ![c].pc = "look"]
  /\ UNCHANGED <<stored, used, heard>>

(* Mutants: every collision is a conflict; the request hash is not         *)
(* compared.                                                               *)
LookAndRefuse(c) ==
  /\ call[c].pc = "look"
  /\ \E i \in Holders(call[c].key) : Reply(c, "conflict", i)
  /\ UNCHANGED <<stored, used>>

LookAtKeyOnly(c) ==
  /\ call[c].pc = "look"
  /\ \E i \in Holders(call[c].key) : Reply(c, "accepted", i)
  /\ UNCHANGED <<stored, used>>

(* _get_by_idempotency_key, in the handler of UniqueViolation.             *)
Look(c) ==
  /\ call[c].pc = "look"
  /\ \E i \in Holders(call[c].key) :
       \/ stored[i].body = call[c].body /\ Reply(c, "accepted", i)
       \/ stored[i].body # call[c].body /\ Reply(c, "conflict", i)
  /\ UNCHANGED <<stored, used>>

(* A database call fails without effect, or the process dies.              *)
Fail(c) ==
  /\ call[c] # Idle
  /\ Reply(c, "failed", call[c].id)
  /\ UNCHANGED <<stored, used>>

Next == \E c \in Calls :
          \/ \E key \in AnyKey, body \in Bodies, id \in Ids :
               Begin(c, key, body, id)
          \/ Insert(c)
          \/ Collide(c)
          \/ Look(c)
          \/ Fail(c)

Spec == Init /\ [][Next]_vars

-----------------------------------------------------------------------------
(* Properties.                                                             *)

(* Rows, calls and answers have their shape; the id of a call in progress  *)
(* is its own and not yet that of a Job.                                   *)
TypeOK == /\ Jobs \subseteq used
          /\ \A i \in Jobs : stored[i] \in Row
          /\ used \subseteq Ids
          /\ call \in [Calls -> Post \cup {Idle}]
          /\ \A c \in Calls : call[c] # Idle => call[c].id \in used \ Jobs
          /\ \A c, d \in Calls : call[c] # Idle /\ call[d] # Idle /\ c # d
                                  => call[c].id # call[d].id
          /\ heard \subseteq Answer

(* A call that was refused by the index finds the Job that refused it: the *)
(* answer "job already exists" of enqueue, which no client can act on, is  *)
(* never given.                                                            *)
LookupFinds ==
  \A c \in Calls : call[c] # Idle /\ call[c].pc = "look"
                    => Holders(call[c].key) # {}

(* "Same key and same normalized request: return the original Job": every  *)
(* accepted answer names a persisted Job of exactly that key and request,  *)
(* and a POST without a key is answered with the Job it created itself.    *)
AcceptedMeansStored ==
  \A h \in heard : h.kind = "accepted" =>
    /\ h.job \in Jobs
    /\ stored[h.job] = RowOf(h)
    /\ h.key = NoKey => h.job = h.own

(* A client that repeats a POST, because its first answer was lost or      *)
(* because it is impatient, is never told two different things: the same   *)
(* key and request never get two Jobs, nor a Job once and a conflict       *)
(* another time.                                                           *)
RepeatsAgree ==
  \A g, h \in heard :
    /\ g.key = h.key /\ g.key # NoKey
    /\ g.kind # "failed" /\ h.kind # "failed"
    => /\ g.job = h.job
       /\ g.body = h.body => g.kind = h.kind
       /\ g.kind = "accepted" /\ g.body # h.body => h.kind = "conflict"
=============================================================================
