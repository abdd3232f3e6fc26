-------------------------- MODULE SubmissionProofs --------------------------
(***************************************************************************)
(* TLAPS proofs about Submission, for any number of concurrent calls, any  *)
(* ids, keys and requests.                                                 *)
(*                                                                         *)
(* Rows are only added, and only under a key nobody holds; so what an      *)
(* answer said of a row stays true.  That is AnswersTrue, from which the   *)
(* agreement of any two answers follows.                                   *)
(***************************************************************************)
EXTENDS Submission, TLAPS

(* What an answer says is true of the stored rows.                         *)
True(h) ==
  /\ h.kind = "accepted" =>
       /\ h.job \in Jobs
       /\ stored[h.job] = RowOf(h)
       /\ h.key = NoKey => h.job = h.own
  /\ h.kind = "conflict" =>
       /\ h.job \in Jobs
       /\ h.key # NoKey
       /\ stored[h.job].key = h.key
       /\ stored[h.job].body # h.body

AnswersTrue == \A h \in heard : True(h)

(* What the unique index on idempotency_key keeps, the agreement of two    *)
(* answers rests on it.                                                    *)
OneJobPerKey ==
  \A i, j \in Jobs : stored[i].key = stored[j].key /\ stored[i].key # NoKey => i = j

IInv == TypeOK /\ OneJobPerKey /\ LookupFinds /\ AnswersTrue

-----------------------------------------------------------------------------
LEMMA PostFields ==
  ASSUME TypeOK, NEW c \in Calls, call[c] # Idle
  PROVE  /\ call[c] \in Post
         /\ call[c].pc \in {"insert", "look"}
         /\ call[c].key \in AnyKey
         /\ call[c].body \in Bodies
         /\ call[c].id \in Ids
         /\ call[c].id \in used
         /\ call[c].id \notin Jobs
         /\ RowOf(call[c]) \in Row
         /\ RowOf(call[c]).key = call[c].key
         /\ RowOf(call[c]).body = call[c].body
<1>1. call[c] \in Post
  BY DEF TypeOK
<1> QED BY <1>1 DEF TypeOK, Post, RowOf, Row

(* A guard on the program counter excludes an idle thread.                 *)
LEMMA IdleHasItsPc ==
  ASSUME NEW c, call[c].pc \in {"insert", "look"}
  PROVE  call[c] # Idle
  BY DEF Idle

(* The effect of an answer on calls and answers, whatever happens to rows. *)
LEMMA ReplyEffect ==
  ASSUME TypeOK, NEW c \in Calls, call[c] # Idle,
         NEW kind \in {"accepted", "conflict", "failed"}, NEW job \in Ids,
         Reply(c, kind, job)
  PROVE  /\ call' \in [Calls -> Post \cup {Idle}]
         /\ call'[c] = Idle
         /\ \A d \in Calls \ {c} : call'[d] = call[d]
         /\ heard' \subseteq Answer
         /\ \A h \in heard' : \/ h \in heard
                              \/ /\ h.kind = kind /\ h.job = job
                                 /\ h.key = call[c].key
                                 /\ h.body = call[c].body
                                 /\ h.own = call[c].id
<1> DEFINE a == [kind |-> kind, key |-> call[c].key, body |-> call[c].body,
                 own |-> call[c].id, job |-> job]
<1>1. a \in Answer
  BY PostFields DEF Answer
<1>2. heard' \in {heard, heard \cup {a}}
  BY DEF Reply
<1>3. /\ a.kind = kind /\ a.job = job /\ a.key = call[c].key
      /\ a.body = call[c].body /\ a.own = call[c].id
  OBVIOUS
<1> HIDE DEF a
<1>4. /\ heard' \subseteq Answer
      /\ \A h \in heard' : h \in heard \/ h = a
  BY <1>1, <1>2 DEF TypeOK
<1>5. call' = [call EXCEPT ![c] = Idle] /\ call \in [Calls -> Post \cup {Idle}]
  BY DEF Reply, TypeOK
<1> QED BY <1>3, <1>4, <1>5

-----------------------------------------------------------------------------
(* A call that ends without a change to the rows keeps the invariant if    *)
(* its answer is true.                                                     *)
LEMMA AnswerOK ==
  ASSUME IInv, NEW c \in Calls, call[c] # Idle,
         NEW kind \in {"accepted", "conflict", "failed"}, NEW job \in Ids,
         Reply(c, kind, job), UNCHANGED <<stored, used>>,
         kind = "accepted" => /\ job \in Jobs
                              /\ stored[job].key = call[c].key
                              /\ stored[job].body = call[c].body
                              /\ call[c].key # NoKey,
         kind = "conflict" => /\ job \in Jobs
                              /\ call[c].key # NoKey
                              /\ stored[job].key = call[c].key
                              /\ stored[job].body # call[c].body
  PROVE  IInv'
<1>1. TypeOK /\ OneJobPerKey /\ LookupFinds /\ AnswersTrue
  BY DEF IInv
<1>2. /\ call' \in [Calls -> Post \cup {Idle}]
      /\ call'[c] = Idle
      /\ \A d \in Calls \ {c} : call'[d] = call[d]
      /\ heard' \subseteq Answer
      /\ \A h \in heard' : \/ h \in heard
                           \/ /\ h.kind = kind /\ h.job = job
                              /\ h.key = call[c].key
                              /\ h.body = call[c].body
                              /\ h.own = call[c].id
  BY <1>1, ReplyEffect
<1>3. TypeOK'
  BY <1>1, <1>2 DEF TypeOK, Jobs
<1>4. OneJobPerKey'
  BY <1>1 DEF OneJobPerKey, Jobs
<1>5. LookupFinds'
  BY <1>1, <1>2 DEF LookupFinds, Holders, Jobs
<1>6. AnswersTrue'
  <2> SUFFICES ASSUME NEW h \in heard'
               PROVE  True(h)'
    BY DEF AnswersTrue
  <2>1. CASE h \in heard
    BY <2>1, <1>1 DEF AnswersTrue, True, Jobs
  <2>2. CASE /\ h.kind = kind /\ h.job = job /\ h.key = call[c].key
             /\ h.body = call[c].body /\ h.own = call[c].id
    <3>1. kind = "accepted" => stored[job] = RowOf(h)
      <4> HAVE kind = "accepted"
      <4>1. stored[job] \in Row
        BY <1>1 DEF TypeOK
      <4> QED BY <4>1, <2>2 DEF Row, RowOf
    <3> QED BY <2>2, <3>1 DEF True, Jobs, RowOf
  <2> QED BY <1>2, <2>1, <2>2
<1> QED BY <1>3, <1>4, <1>5, <1>6 DEF IInv

LEMMA BeginOK ==
  ASSUME IInv, NEW c \in Calls, NEW key \in AnyKey, NEW body \in Bodies,
         NEW id \in Ids, Begin(c, key, body, id)
  PROVE  IInv'
<1> DEFINE p == [pc |-> "insert", key |-> key, body |-> body, id |-> id]
<1>1. TypeOK /\ OneJobPerKey /\ LookupFinds /\ AnswersTrue
  BY DEF IInv
<1>2. p \in Post /\ p.id = id /\ p.pc = "insert"
  BY DEF Post
<1>3. /\ id \notin used /\ used' = used \cup {id}
      /\ call' = [call EXCEPT ![c] = p]
      /\ UNCHANGED <<stored, heard>>
  BY DEF Begin
<1> HIDE DEF p
<1>4. /\ call' \in [Calls -> Post \cup {Idle}]
      /\ call'[c] = p
      /\ \A d \in Calls \ {c} : call'[d] = call[d]
  BY <1>1, <1>2, <1>3 DEF TypeOK
<1>5. TypeOK'
  <2>1. Jobs' \subseteq used' /\ (\A i \in Jobs' : stored'[i] \in Row)
        /\ used' \subseteq Ids /\ heard' \subseteq Answer
    BY <1>1, <1>3 DEF TypeOK, Jobs
  <2>2. \A d \in Calls : call'[d] # Idle => call'[d].id \in used' \ Jobs'
    BY <1>1, <1>2, <1>3, <1>4 DEF TypeOK, Jobs
  <2>3. \A d, e \in Calls : call'[d] # Idle /\ call'[e] # Idle /\ d # e
                            => call'[d].id # call'[e].id
    BY <1>1, <1>2, <1>3, <1>4 DEF TypeOK
  <2> QED BY <1>4, <2>1, <2>2, <2>3 DEF TypeOK
<1>6. OneJobPerKey'
  BY <1>1, <1>3 DEF OneJobPerKey, Jobs
<1>7. LookupFinds'
  BY <1>1, <1>2, <1>3, <1>4 DEF LookupFinds, Holders, Jobs
<1>8. AnswersTrue'
  BY <1>1, <1>3 DEF AnswersTrue, True, Jobs
<1> QED BY <1>5, <1>6, <1>7, <1>8 DEF IInv

(* The only step that writes a row: the index admits it, and the rows that *)
(* earlier answers speak of are left alone.                                *)
LEMMA InsertOK ==
  ASSUME IInv, NEW c \in Calls, Insert(c)
  PROVE  IInv'
<1> DEFINE n == call[c].id
<1>1. TypeOK /\ OneJobPerKey /\ LookupFinds /\ AnswersTrue
  BY DEF IInv
<1>2. call[c].pc = "insert" /\ call[c] # Idle
  BY IdleHasItsPc DEF Insert
<1>3. /\ call[c].key \in AnyKey /\ call[c].body \in Bodies
      /\ n \in Ids /\ n \in used /\ n \notin Jobs
      /\ RowOf(call[c]) \in Row
      /\ RowOf(call[c]).key = call[c].key
  BY <1>1, <1>2, PostFields
<1>4. /\ Jobs' = Jobs \cup {n}
      /\ stored'[n] = RowOf(call[c])
      /\ \A i \in Jobs : stored'[i] = stored[i]
      /\ used' = used
  BY <1>3 DEF Insert, Jobs
<1>5. PICK kind \in {"accepted", "failed"} : Reply(c, kind, n)
  BY DEF Insert
<1>6. /\ call' \in [Calls -> Post \cup {Idle}]
      /\ call'[c] = Idle
      /\ \A d \in Calls \ {c} : call'[d] = call[d]
      /\ heard' \subseteq Answer
      /\ \A h \in heard' : \/ h \in heard
                           \/ /\ h.kind = kind /\ h.job = n
                              /\ h.key = call[c].key
                              /\ h.body = call[c].body
                              /\ h.own = n
  BY <1>1, <1>2, <1>3, <1>5, ReplyEffect
<1>7. \A i \in Jobs : stored[i].key = call[c].key => call[c].key = NoKey
  BY DEF Insert, Holders
<1> HIDE DEF n
<1>8. TypeOK'
  <2>1. \A d \in Calls : call'[d] # Idle => call'[d].id \in used' \ Jobs'
    <3> SUFFICES ASSUME NEW d \in Calls, call'[d] # Idle
                 PROVE  call'[d].id \in used' \ Jobs'
      OBVIOUS
    <3>1. d # c /\ call'[d] = call[d]
      BY <1>6
    <3>2. call[d].id # n
      BY <1>1, <1>2, <3>1 DEF TypeOK, n
    <3> QED BY <1>1, <1>4, <3>1, <3>2 DEF TypeOK
  <2>2. \A d, e \in Calls : call'[d] # Idle /\ call'[e] # Idle /\ d # e
                            => call'[d].id # call'[e].id
    BY <1>1, <1>6 DEF TypeOK
  <2>3. Jobs' \subseteq used' /\ used' \subseteq Ids
        /\ \A i \in Jobs' : stored'[i] \in Row
    BY <1>1, <1>3, <1>4 DEF TypeOK
  <2> QED BY <1>6, <2>1, <2>2, <2>3 DEF TypeOK
<1>9. OneJobPerKey'
  BY <1>1, <1>3, <1>4, <1>7 DEF OneJobPerKey
<1>10. LookupFinds'
  <2> SUFFICES ASSUME NEW d \in Calls, call'[d] # Idle, call'[d].pc = "look"
               PROVE  Holders(call[d].key)' # {} /\ call'[d] = call[d]
    BY DEF LookupFinds, Holders
  <2>1. call'[d] = call[d]
    BY <1>6
  <2>2. PICK i \in Jobs : call[d].key # NoKey /\ stored[i].key = call[d].key
    BY <1>1, <2>1 DEF LookupFinds, Holders
  <2>3. i \in Jobs' /\ stored'[i].key = call'[d].key /\ call'[d].key # NoKey
    BY <1>4, <2>1, <2>2
  <2> QED BY <2>1, <2>3 DEF Holders
<1>11. AnswersTrue'
  <2> SUFFICES ASSUME NEW h \in heard'
               PROVE  True(h)'
    BY DEF AnswersTrue
  <2>1. CASE h \in heard
    BY <2>1, <1>1, <1>4 DEF AnswersTrue, True, RowOf
  <2>2. CASE /\ h.kind = kind /\ h.job = n /\ h.key = call[c].key
             /\ h.body = call[c].body /\ h.own = n
    <3>1. RowOf(call[c]) = RowOf(h)
      BY <2>2 DEF RowOf
    <3> QED BY <2>2, <3>1, <1>4 DEF True, RowOf
  <2> QED BY <1>6, <2>1, <2>2
<1> QED BY <1>8, <1>9, <1>10, <1>11 DEF IInv

LEMMA CollideOK ==
  ASSUME IInv, NEW c \in Calls, Collide(c)
  PROVE  IInv'
<1> DEFINE p == [call[c] EXCEPT !.pc = "look"]
<1>1. TypeOK /\ OneJobPerKey /\ LookupFinds /\ AnswersTrue
  BY DEF IInv
<1>2. call[c] # Idle
  BY IdleHasItsPc DEF Collide
<1>3. call[c] \in Post
  BY <1>1, <1>2, PostFields
<1>4. p \in Post /\ p.id = call[c].id /\ p.key = call[c].key
  BY <1>3 DEF Post
<1>5. Holders(p.key) # {} /\ UNCHANGED <<stored, used, heard>>
  BY <1>4 DEF Collide
<1>6. call' = [call EXCEPT ![c] = p]
  BY DEF Collide
<1> HIDE DEF p
<1>7. /\ call' \in [Calls -> Post \cup {Idle}]
      /\ call'[c] = p
      /\ \A d \in Calls \ {c} : call'[d] = call[d]
  BY <1>1, <1>4, <1>6 DEF TypeOK
<1>8. TypeOK'
  <2>1. \A d \in Calls : /\ call'[d] # Idle => call[d] # Idle
                         /\ call'[d] # Idle => call'[d].id = call[d].id
    BY <1>2, <1>4, <1>7
  <2> QED BY <1>1, <1>5, <1>7, <2>1 DEF TypeOK, Jobs
<1>9. OneJobPerKey' /\ AnswersTrue'
  BY <1>1, <1>5 DEF OneJobPerKey, AnswersTrue, True, Jobs
<1>10. LookupFinds'
  BY <1>1, <1>5, <1>7 DEF LookupFinds, Holders, Jobs
<1> QED BY <1>8, <1>9, <1>10 DEF IInv

LEMMA LookOK ==
  ASSUME IInv, NEW c \in Calls, Look(c)
  PROVE  IInv'
<1>1. call[c] # Idle
  BY IdleHasItsPc DEF Look
<1>2. PICK i \in Holders(call[c].key) :
        \/ stored[i].body = call[c].body /\ Reply(c, "accepted", i)
        \/ stored[i].body # call[c].body /\ Reply(c, "conflict", i)
  BY DEF Look
<1>3. i \in Jobs /\ call[c].key # NoKey /\ stored[i].key = call[c].key
  BY DEF Holders
<1>4. i \in Ids /\ UNCHANGED <<stored, used>>
  BY <1>3 DEF IInv, TypeOK, Look
<1>5. CASE stored[i].body = call[c].body /\ Reply(c, "accepted", i)
  BY <1>1, <1>3, <1>4, <1>5, AnswerOK
<1>6. CASE stored[i].body # call[c].body /\ Reply(c, "conflict", i)
  BY <1>1, <1>3, <1>4, <1>6, AnswerOK
<1> QED BY <1>2, <1>5, <1>6

LEMMA FailOK ==
  ASSUME IInv, NEW c \in Calls, Fail(c)
  PROVE  IInv'
<1>1. call[c].id \in Ids
  BY PostFields DEF IInv, Fail
<1> QED BY <1>1, AnswerOK DEF Fail

LEMMA Inductive == IInv /\ [Next]_vars => IInv'
<1> SUFFICES ASSUME IInv, [Next]_vars
             PROVE  IInv'
  OBVIOUS
<1>1. CASE UNCHANGED vars
  BY <1>1 DEF vars, IInv, TypeOK, OneJobPerKey, LookupFinds, AnswersTrue, True,
              Jobs, Holders
<1>2. CASE Next
  <2>1. PICK c \in Calls :
          \/ \E key \in AnyKey, body \in Bodies, id \in Ids :
               Begin(c, key, body, id)
          \/ Insert(c) \/ Collide(c) \/ Look(c) \/ Fail(c)
    BY <1>2 DEF Next
  <2>2. CASE \E key \in AnyKey, body \in Bodies, id \in Ids :
               Begin(c, key, body, id)
    BY <2>2, BeginOK
  <2>3. CASE Insert(c)
    BY <2>3, InsertOK
  <2>4. CASE Collide(c)
    BY <2>4, CollideOK
  <2>5. CASE Look(c)
    BY <2>5, LookOK
  <2>6. CASE Fail(c)
    BY <2>6, FailOK
  <2> QED BY <2>1, <2>2, <2>3, <2>4, <2>5, <2>6
<1> QED BY <1>1, <1>2

LEMMA Initially == Init => IInv
<1> SUFFICES ASSUME Init
             PROVE  IInv
  OBVIOUS
<1>1. Jobs = {}
  BY DEF Init, Jobs
<1> QED BY <1>1 DEF Init, IInv, TypeOK, OneJobPerKey, LookupFinds, AnswersTrue, Idle

LEMMA Invariance == Spec => []IInv
  BY Initially, Inductive, PTL DEF Spec

-----------------------------------------------------------------------------
(* Ids, rows, calls and answers keep their shape and calls their own ids.  *)
THEOREM SubmissionTypeCorrect == Spec => []TypeOK
<1>1. IInv => TypeOK
  BY DEF IInv
<1> QED BY Invariance, <1>1, PTL

(* The branch of enqueue for a collision without a holder is dead.         *)
THEOREM CollisionHasAHolder == Spec => []LookupFinds
<1>1. IInv => LookupFinds
  BY DEF IInv
<1> QED BY Invariance, <1>1, PTL

(* Every accepted answer names a stored Job of its key and request.        *)
THEOREM AcceptedIsStored == Spec => []AcceptedMeansStored
<1>1. IInv => AcceptedMeansStored
  BY DEF IInv, AnswersTrue, True, AcceptedMeansStored
<1> QED BY Invariance, <1>1, PTL

(* Two answers about one key never disagree.                               *)
THEOREM AnswersAgree == Spec => []RepeatsAgree
<1>1. IInv => RepeatsAgree
  <2> SUFFICES ASSUME IInv, NEW g \in heard, NEW h \in heard,
                      g.key = h.key, g.key # NoKey,
                      g.kind # "failed", h.kind # "failed"
               PROVE  /\ g.job = h.job
                      /\ g.body = h.body => g.kind = h.kind
                      /\ g.kind = "accepted" /\ g.body # h.body
                         => h.kind = "conflict"
    BY DEF RepeatsAgree
  <2>1. /\ g.kind \in {"accepted", "conflict"}
        /\ h.kind \in {"accepted", "conflict"}
    BY DEF IInv, TypeOK, Answer
  <2>2. \A a \in {g, h} :
          /\ a.job \in Jobs
          /\ stored[a.job].key = a.key
          /\ a.kind = "accepted" <=> stored[a.job].body = a.body
    <3> SUFFICES ASSUME NEW a \in heard, a.kind \in {"accepted", "conflict"}
                 PROVE  /\ a.job \in Jobs
                        /\ stored[a.job].key = a.key
                        /\ a.kind = "accepted" <=> stored[a.job].body = a.body
      BY <2>1
    <3>1. True(a)
      BY DEF IInv, AnswersTrue
    <3>2. CASE a.kind = "accepted"
      BY <3>1, <3>2 DEF True, RowOf
    <3>3. CASE a.kind = "conflict"
      BY <3>1, <3>3 DEF True
    <3> QED BY <3>2, <3>3
  <2>3. g.job = h.job
    BY <2>2 DEF IInv, OneJobPerKey
  <2> QED BY <2>1, <2>2, <2>3
<1> QED BY Invariance, <1>1, PTL
=============================================================================
