------------------------- MODULE Transactions_proofs -------------------------
(***************************************************************************)
(* Proofs about Transactions for any requests, databases and bounds.       *)
(***************************************************************************)
EXTENDS Transactions, SequenceTheorems, TLAPS

-----------------------------------------------------------------------------
(* Types.                                                                  *)

\* A frame belongs to an attempt of its request on its database, and backs
\* off only when an attempt is left; a request has one frame per database.
FramesOK ==
    \A r \in Requests : \A i \in DOMAIN stack[r] :
        /\ stack[r][i].id \in DOMAIN attempts
        /\ attempts[stack[r][i].id].by = r
        /\ attempts[stack[r][i].id].db = stack[r][i].db
        /\ stack[r][i].number <= MaxAttempts[r]
        /\ stack[r][i].pc = "backoff" => stack[r][i].number < MaxAttempts[r]
        /\ \A j \in DOMAIN stack[r] : stack[r][i].db = stack[r][j].db => i = j

Types ==
    /\ stack \in [Requests -> Seq(Frame)]
    /\ phase \in [Requests -> {"new", "running", "over"}]
    /\ thrown \in [Requests -> Errors]
    /\ nested \in [Requests -> Nat]
    /\ tail \in [Databases -> Nat]
    /\ resolved \subseteq DOMAIN attempts
    /\ attempts \in Seq(Attempt)
    /\ FramesOK

LEMMA TypesOK == Types => TypeOK
BY DEF Types, TypeOK, FramesOK

LEMMA Replaced ==
    ASSUME NEW S, NEW s \in Seq(S), NEW i \in 1..Len(s), NEW x \in S
    PROVE  LET t == [s EXCEPT ![i] = x]
           IN  /\ t \in Seq(S) /\ Len(t) = Len(s) /\ DOMAIN t = DOMAIN s
               /\ t[i] = x /\ \A j \in DOMAIN s \ {i} : t[j] = s[j]
OBVIOUS

LEMMA TopFrame ==
    ASSUME Types, NEW r \in Requests, Depth(r) > 0
    PROVE  /\ Depth(r) \in DOMAIN stack[r] /\ Depth(r) \in Nat
           /\ Top(r) \in Frame /\ Top(r).id \in DOMAIN attempts
           /\ attempts[Top(r).id].by = r
           /\ attempts[Top(r).id].db = Top(r).db
           /\ Top(r).number <= MaxAttempts[r]
           /\ Top(r).pc = "backoff" => Top(r).number < MaxAttempts[r]
<1>1. stack[r] \in Seq(Frame) /\ Depth(r) \in Nat
  BY DEF Types, Depth
<1>2. Depth(r) \in DOMAIN stack[r]
  BY <1>1 DEF Depth
<1>3. Top(r) \in Frame
  BY <1>1, <1>2 DEF Top, Depth
<1> QED BY <1>1, <1>2, <1>3 DEF Types, FramesOK, Top

\* An attempt changes and keeps its owner.
LEMMA AttemptChanges ==
    ASSUME Types, NEW i \in DOMAIN attempts, NEW a \in Attempt,
           a.by = attempts[i].by, a.db = attempts[i].db,
           attempts' = [attempts EXCEPT ![i] = a]
    PROVE  /\ attempts' \in Seq(Attempt) /\ DOMAIN attempts' = DOMAIN attempts
           /\ Len(attempts') = Len(attempts)
           /\ attempts'[i] = a
           /\ \A j \in DOMAIN attempts \ {i} : attempts'[j] = attempts[j]
           /\ \A j \in DOMAIN attempts : /\ attempts'[j].by = attempts[j].by
                                         /\ attempts'[j].db = attempts[j].db
<1>1. attempts \in Seq(Attempt) /\ i \in 1..Len(attempts)
  BY DEF Types
<1>2. /\ attempts' \in Seq(Attempt) /\ DOMAIN attempts' = DOMAIN attempts
      /\ Len(attempts') = Len(attempts) /\ attempts'[i] = a
      /\ \A j \in DOMAIN attempts \ {i} : attempts'[j] = attempts[j]
  BY <1>1, Replaced
<1> QED BY <1>2

\* Every frame stays, but that frame k of r becomes f; or f comes with it.
Becomes(r, k, f) ==
    \A q \in Requests : \A i \in DOMAIN stack'[q] :
        /\ i \in DOMAIN stack[q]
        /\ \/ stack'[q][i] = stack[q][i] /\ <<q, i>> # <<r, k>>
           \/ q = r /\ i = k /\ stack'[q][i] = f
Comes(f) ==
    \A q \in Requests : \A i \in DOMAIN stack'[q] :
        \/ i \in DOMAIN stack[q] /\ stack'[q][i] = stack[q][i]
        \/ stack'[q][i] = f

\* The attempts keep their owners and one frame changes.
LEMMA FrameChanges ==
    ASSUME Types, NEW r \in Requests, NEW k \in DOMAIN stack[r], NEW f \in Frame,
           f.db = stack[r][k].db, f.id = stack[r][k].id,
           f.number = stack[r][k].number,
           f.pc = "backoff" => f.number < MaxAttempts[r],
           stack' = [stack EXCEPT ![r][k] = f],
           DOMAIN attempts' = DOMAIN attempts,
           \A j \in DOMAIN attempts : /\ attempts'[j].by = attempts[j].by
                                      /\ attempts'[j].db = attempts[j].db
    PROVE  /\ stack' \in [Requests -> Seq(Frame)] /\ FramesOK'
           /\ Becomes(r, k, f)
<1>1. /\ stack \in [Requests -> Seq(Frame)] /\ FramesOK
      /\ stack[r] \in Seq(Frame) /\ k \in 1..Len(stack[r])
  BY DEF Types
<1>2. stack' = [stack EXCEPT ![r] = [stack[r] EXCEPT ![k] = f]]
  BY <1>1
<1>3. /\ stack'[r] \in Seq(Frame) /\ DOMAIN stack'[r] = DOMAIN stack[r]
      /\ stack'[r][k] = f
      /\ \A j \in DOMAIN stack[r] \ {k} : stack'[r][j] = stack[r][j]
  BY <1>1, <1>2, Replaced
<1>4. \A q \in Requests \ {r} : stack'[q] = stack[q]
  BY <1>1, <1>2
<1>5. stack' \in [Requests -> Seq(Frame)]
  BY <1>1, <1>2, <1>3
<1>6. ASSUME NEW q \in Requests, NEW i \in DOMAIN stack'[q]
      PROVE  /\ i \in DOMAIN stack[q]
             /\ stack'[q][i].id = stack[q][i].id
             /\ stack'[q][i].db = stack[q][i].db
             /\ stack'[q][i].number = stack[q][i].number
             /\ stack'[q][i].pc = "backoff" =>
                    stack'[q][i].number < MaxAttempts[q]
  <2>1. CASE q # r
    BY <1>1, <1>4, <2>1 DEF FramesOK
  <2>2. CASE q = r /\ i # k
    BY <1>1, <1>3, <2>2 DEF FramesOK
  <2>3. CASE q = r /\ i = k
    BY <1>1, <1>3, <2>3
  <2> QED BY <2>1, <2>2, <2>3
<1>7. ASSUME NEW q \in Requests, NEW i \in DOMAIN stack'[q]
      PROVE  /\ stack'[q][i].id \in DOMAIN attempts'
             /\ attempts'[stack'[q][i].id].by = q
             /\ attempts'[stack'[q][i].id].db = stack'[q][i].db
             /\ stack'[q][i].number <= MaxAttempts[q]
             /\ stack'[q][i].pc = "backoff" =>
                    stack'[q][i].number < MaxAttempts[q]
             /\ \A j \in DOMAIN stack'[q] :
                    stack'[q][i].db = stack'[q][j].db => i = j
  <2>1. /\ stack[q][i].id \in DOMAIN attempts
        /\ attempts[stack[q][i].id].by = q
        /\ attempts[stack[q][i].id].db = stack[q][i].db
        /\ stack[q][i].number <= MaxAttempts[q]
        /\ \A j \in DOMAIN stack[q] : stack[q][i].db = stack[q][j].db => i = j
    BY <1>1, <1>6 DEF FramesOK
  <2> QED BY <1>6, <1>7, <2>1
<1>8. ASSUME NEW q \in Requests, NEW i \in DOMAIN stack'[q]
      PROVE  /\ i \in DOMAIN stack[q]
             /\ \/ stack'[q][i] = stack[q][i] /\ <<q, i>> # <<r, k>>
                \/ q = r /\ i = k /\ stack'[q][i] = f
  BY <1>3, <1>4, <1>8
<1> QED BY <1>5, <1>7, <1>8 DEF FramesOK, Becomes

\* A new attempt at the end of the history.
LEMMA AttemptJoins ==
    ASSUME Types, NEW r \in Requests, NEW d \in Databases, NewAttempt(r, d)
    PROVE  LET n == Len(attempts) + 1 IN
           /\ n \in Nat \ {0} /\ n \notin DOMAIN attempts
           /\ attempts' \in Seq(Attempt) /\ DOMAIN attempts' = 1..n
           /\ DOMAIN attempts = 1..(n - 1)
           /\ \A j \in DOMAIN attempts : attempts'[j] = attempts[j]
           /\ attempts'[n].by = r /\ attempts'[n].db = d
           /\ attempts'[n].outcome = "waiting"
           /\ tail' \in [Databases -> Nat]
<1> DEFINE a == [db |-> d, by |-> r, outcome |-> "waiting", dueCommit |-> 0,
                 dueUndo |-> 0, ranCommit |-> 0, ranUndo |-> 0]
<1>1. attempts \in Seq(Attempt) /\ tail \in [Databases -> Nat]
  BY DEF Types
<1>2. a \in Attempt /\ a.db = d /\ a.by = r /\ a.outcome = "waiting"
  BY DEF Attempt
<1>3. attempts' = Append(attempts, a)
  BY DEF NewAttempt
<1> HIDE DEF a
<1>4. /\ Len(attempts) \in Nat /\ DOMAIN attempts = 1..Len(attempts)
      /\ attempts' \in Seq(Attempt) /\ Len(attempts') = Len(attempts) + 1
      /\ DOMAIN attempts' = 1..(Len(attempts) + 1)
      /\ attempts'[Len(attempts) + 1] = a
      /\ \A j \in 1..Len(attempts) : attempts'[j] = attempts[j]
  BY <1>1, <1>2, <1>3
<1>5. tail' \in [Databases -> Nat]
  BY <1>1, <1>4 DEF NewAttempt
<1> QED BY <1>2, <1>4, <1>5

LEMMA FrameType ==
    ASSUME Types, NEW d \in Databases, NEW number \in Nat \ {0}
    PROVE  LET f == NewFrame(d, number) IN
           /\ f \in Frame /\ f.db = d /\ f.number = number
           /\ f.id = Len(attempts) + 1 /\ f.pc = "queued"
           /\ f.previous = IF d \in Queued THEN tail[d] ELSE 0
<1>1. /\ Len(attempts) \in Nat /\ tail \in [Databases -> Nat]
      /\ <<>> \in Seq(Nat)
  BY DEF Types
<1> QED BY <1>1 DEF NewFrame, Frame, Stages, Errors

\* A frame on a fresh attempt takes the place of the top or comes upon it:
\* it is the k-th of r, and those below it stay and are on other databases.
Joins(r, d, f, k) ==
    /\ stack' \in [Requests -> Seq(Frame)]
    /\ \A q \in Requests \ {r} : stack'[q] = stack[q]
    /\ DOMAIN stack'[r] = 1..k /\ stack'[r][k] = f
    /\ \A i \in 1..(k - 1) : /\ i \in DOMAIN stack[r]
                            /\ stack'[r][i] = stack[r][i]
                            /\ stack[r][i].db # d

LEMMA FrameJoins ==
    ASSUME Types, NEW r \in Requests, NEW d \in Databases, NewAttempt(r, d),
           NEW f \in Frame, f.db = d, f.id = Len(attempts) + 1,
           f.pc = "queued", f.number <= MaxAttempts[r],
           NEW k \in Nat \ {0}, Joins(r, d, f, k)
    PROVE  /\ FramesOK'
           /\ Comes(f)
<1> DEFINE t == stack'[r]
<1>1. /\ stack \in [Requests -> Seq(Frame)] /\ FramesOK
      /\ DOMAIN stack[r] = 1..Len(stack[r]) /\ Len(stack[r]) \in Nat
      /\ DOMAIN t = 1..k /\ stack' \in [Requests -> Seq(Frame)]
      /\ \A i, j \in DOMAIN stack[r] : stack[r][i].db = stack[r][j].db => i = j
  BY DEF Types, FramesOK, Joins
<1>2. /\ stack'[r] = t /\ t[k] = f
      /\ \A q \in Requests \ {r} : stack'[q] = stack[q]
      /\ \A i \in 1..(k - 1) : /\ i \in DOMAIN stack[r] /\ t[i] = stack[r][i]
                              /\ stack[r][i].db # d
  BY DEF Joins
<1> HIDE DEF t
<1>3. ASSUME NEW q \in Requests, NEW i \in DOMAIN stack'[q]
      PROVE  /\ stack'[q][i].id \in DOMAIN attempts'
             /\ attempts'[stack'[q][i].id].by = q
             /\ attempts'[stack'[q][i].id].db = stack'[q][i].db
             /\ stack'[q][i].number <= MaxAttempts[q]
             /\ stack'[q][i].pc = "backoff" =>
                    stack'[q][i].number < MaxAttempts[q]
             /\ \A j \in DOMAIN stack'[q] :
                    stack'[q][i].db = stack'[q][j].db => i = j
  <2>1. /\ DOMAIN attempts \subseteq DOMAIN attempts'
        /\ \A j \in DOMAIN attempts : attempts'[j] = attempts[j]
        /\ f.id \in DOMAIN attempts'
        /\ attempts'[f.id].by = r /\ attempts'[f.id].db = d
    BY AttemptJoins
  <2>2. CASE q # r
    BY <1>1, <1>2, <1>3, <2>1, <2>2 DEF FramesOK
  <2>3. CASE q = r /\ i = k
    BY <1>1, <1>2, <2>1, <2>3
  <2>4. CASE q = r /\ i # k
    <3>1. i \in 1..(k - 1) /\ i \in DOMAIN stack[r] /\ t[i] = stack[r][i]
      BY <1>1, <1>2, <1>3, <2>4
    <3>2. /\ stack[r][i].id \in DOMAIN attempts
          /\ attempts[stack[r][i].id].by = r
          /\ attempts[stack[r][i].id].db = stack[r][i].db
          /\ stack[r][i].number <= MaxAttempts[r]
          /\ stack[r][i].pc = "backoff" => stack[r][i].number < MaxAttempts[r]
      BY <1>1, <3>1 DEF FramesOK
    <3>3. ASSUME NEW j \in DOMAIN t, t[i].db = t[j].db
          PROVE  i = j
      <4>1. CASE j = k
        BY <1>2, <3>1, <3>3, <4>1
      <4>2. CASE j # k
        <5>1. j \in 1..(k - 1) /\ j \in DOMAIN stack[r] /\ t[j] = stack[r][j]
          BY <1>1, <1>2, <4>2, <3>3
        <5> QED BY <1>1, <3>1, <3>3, <5>1
      <4> QED BY <4>1, <4>2
    <3> QED BY <1>2, <2>1, <2>4, <3>1, <3>2, <3>3
  <2> QED BY <2>2, <2>3, <2>4
<1>4. ASSUME NEW q \in Requests, NEW i \in DOMAIN stack'[q]
      PROVE  \/ i \in DOMAIN stack[q] /\ stack'[q][i] = stack[q][i]
             \/ stack'[q][i] = f
  <2>1. CASE q = r
    BY <1>1, <1>2, <1>4, <2>1
  <2> QED BY <1>2, <1>4, <2>1
<1> QED BY <1>2, <1>3, <1>4 DEF FramesOK, Comes

\* The top frame leaves.
LEMMA TopLeaves ==
    ASSUME Types, NEW r \in Requests, Depth(r) > 0, NEW e \in Errors,
           Return(r, e), UNCHANGED <<nested, tail, resolved, attempts>>
    PROVE  Types' /\ \A q \in Requests : \A i \in DOMAIN stack'[q] :
                        i \in DOMAIN stack[q] /\ stack'[q][i] = stack[q][i]
<1>1. /\ stack \in [Requests -> Seq(Frame)] /\ FramesOK
      /\ stack[r] \in Seq(Frame) /\ Len(stack[r]) \in Nat /\ Len(stack[r]) > 0
  BY DEF Types, Depth
<1> DEFINE t == SubSeq(stack[r], 1, Len(stack[r]) - 1)
<1>2. /\ t \in Seq(Frame) /\ DOMAIN t = 1..(Len(stack[r]) - 1)
      /\ \A i \in DOMAIN t : i \in DOMAIN stack[r] /\ t[i] = stack[r][i]
  BY <1>1
<1>3. stack' = [stack EXCEPT ![r] = t]
  BY <1>1 DEF Return
<1> HIDE DEF t
<1>4. /\ stack' \in [Requests -> Seq(Frame)]
      /\ \A q \in Requests : \A i \in DOMAIN stack'[q] :
            i \in DOMAIN stack[q] /\ stack'[q][i] = stack[q][i]
  BY <1>1, <1>2, <1>3
<1>5. FramesOK'
  BY <1>1, <1>4 DEF FramesOK
<1>6. /\ phase' \in [Requests -> {"new", "running", "over"}]
      /\ thrown' \in [Requests -> Errors]
  BY DEF Return, Types, Errors
<1> QED BY <1>4, <1>5, <1>6 DEF Types

-----------------------------------------------------------------------------
(* The queue of a client.                                                  *)

\* Promises are released in the order in which they joined.
ResolvedInOrder ==
    \A i \in resolved : \A j \in DOMAIN attempts :
        /\ attempts[i].db \in Queued /\ attempts[j].db = attempts[i].db
        /\ j < i
        => j \in resolved

\* The tail is the last promise, and gone only when all are released.
TailIsLast ==
    \A d \in Queued :
        /\ tail[d] = 0 => \A j \in DOMAIN attempts :
                             attempts[j].db = d => j \in resolved
        /\ tail[d] # 0 => /\ tail[d] \in DOMAIN attempts
                          /\ attempts[tail[d]].db = d
                          /\ \A j \in DOMAIN attempts :
                                attempts[j].db = d => j <= tail[d]

\* What a frame waits for covers all that joined before it.
Waits(f) ==
    /\ attempts[f.id].outcome = "waiting"
    /\ f.db \in Queued =>
         /\ f.previous = 0 => \A j \in DOMAIN attempts :
              attempts[j].db = f.db /\ j < f.id => j \in resolved
         /\ f.previous # 0 =>
              /\ f.previous \in DOMAIN attempts
              /\ attempts[f.previous].db = f.db
              /\ \A j \in DOMAIN attempts :
                    attempts[j].db = f.db /\ j < f.id => j <= f.previous
FramesKnow ==
    \A r \in Requests : \A i \in DOMAIN stack[r] :
        /\ stack[r][i].pc = "queued" => Waits(stack[r][i])
        /\ stack[r][i].pc = "body" => attempts[stack[r][i].id].outcome = "open"

\* An attempt that is not over is not released, and one that has begun comes
\* after all that joined before it.
Unreleased ==
    \A i \in DOMAIN attempts :
        attempts[i].outcome \in {"waiting", "open"} => i \notin resolved
OpenIsNext ==
    \A i, j \in DOMAIN attempts :
        /\ attempts[i].outcome = "open" /\ attempts[i].db \in Queued
        /\ attempts[j].db = attempts[i].db /\ j < i
        => j \in resolved

QueueInv == /\ ResolvedInOrder /\ TailIsLast /\ FramesKnow
            /\ Unreleased /\ OpenIsNext

LEMMA OneIsOpen == Types /\ QueueInv => NoOverlap
<1> SUFFICES ASSUME Types, QueueInv,
                    NEW i \in DOMAIN attempts, NEW j \in DOMAIN attempts,
                    attempts[i].db = attempts[j].db, attempts[i].db \in Queued,
                    attempts[i].outcome = "open", attempts[j].outcome = "open"
             PROVE  i = j
  BY DEF NoOverlap
<1>1. i \in Nat /\ j \in Nat
  BY DEF Types
<1>2. ~(i < j) /\ ~(j < i)
  BY DEF QueueInv, OpenIsNext, Unreleased
<1> QED BY <1>1, <1>2

\* Steps that end or begin no attempt.
LEMMA QueueQuiet ==
    ASSUME Types, QueueInv, UNCHANGED <<tail, resolved>>,
           DOMAIN attempts' = DOMAIN attempts,
           \A j \in DOMAIN attempts :
               /\ attempts'[j].db = attempts[j].db
               /\ attempts'[j].outcome = attempts[j].outcome,
           \A q \in Requests : \A i \in DOMAIN stack'[q] :
               /\ i \in DOMAIN stack[q]
               /\ stack'[q][i].pc \in {"queued", "body"} =>
                    /\ stack'[q][i].pc = stack[q][i].pc
                    /\ stack'[q][i].id = stack[q][i].id
                    /\ stack'[q][i].db = stack[q][i].db
                    /\ stack'[q][i].previous = stack[q][i].previous
    PROVE  QueueInv'
<1>1. ResolvedInOrder' /\ TailIsLast' /\ Unreleased' /\ OpenIsNext'
  <2>1. resolved \subseteq DOMAIN attempts
    BY DEF Types
  <2>2. ResolvedInOrder'
    BY <2>1 DEF QueueInv, ResolvedInOrder
  <2>3. TailIsLast'
    BY DEF QueueInv, TailIsLast
  <2>4. Unreleased' /\ OpenIsNext'
    BY DEF QueueInv, Unreleased, OpenIsNext
  <2> QED BY <2>2, <2>3, <2>4
<1>2. ASSUME NEW q \in Requests, NEW i \in DOMAIN stack'[q]
      PROVE  /\ stack'[q][i].pc = "queued" => Waits(stack[q][i])'
             /\ stack'[q][i].pc = "body" =>
                  attempts'[stack'[q][i].id].outcome = "open"
  <2>1. stack[q][i].id \in DOMAIN attempts
    BY <1>2 DEF Types, FramesOK
  <2>2. CASE stack'[q][i].pc = "queued"
    <3>1. Waits(stack[q][i])
      BY <1>2, <2>2 DEF QueueInv, FramesKnow
    <3> QED BY <1>2, <2>1, <2>2, <3>1 DEF Waits
  <2>3. CASE stack'[q][i].pc = "body"
    BY <1>2, <2>1, <2>3 DEF QueueInv, FramesKnow
  <2> QED BY <2>2, <2>3
<1> QED BY <1>1, <1>2 DEF QueueInv, FramesKnow

\* An attempt joins the queue of its client.
LEMMA QueueJoins ==
    ASSUME Types, QueueInv, NEW r \in Requests, NEW d \in Databases,
           NewAttempt(r, d), resolved' = resolved,
           NEW f, f.db = d, f.id = Len(attempts) + 1, f.pc = "queued",
           f.previous = IF d \in Queued THEN tail[d] ELSE 0,
           Comes(f)
    PROVE  QueueInv'
<1> DEFINE n == Len(attempts) + 1
<1>1. /\ n \in Nat \ {0} /\ n \notin DOMAIN attempts
      /\ DOMAIN attempts' = DOMAIN attempts \cup {n}
      /\ DOMAIN attempts = 1..(n - 1)
      /\ \A j \in DOMAIN attempts : attempts'[j] = attempts[j]
      /\ attempts'[n].db = d /\ attempts'[n].outcome = "waiting"
  <2>1. n \in Nat \ {0} /\ n - 1 = Len(attempts) /\ n \notin DOMAIN attempts
    BY DEF Types
  <2>2. DOMAIN attempts' = 1..n /\ DOMAIN attempts = 1..(n - 1)
    BY AttemptJoins
  <2>3. 1..n = 1..(n - 1) \cup {n}
    BY <2>1
  <2> QED BY <2>1, <2>2, <2>3, AttemptJoins
<1>2. /\ resolved \subseteq DOMAIN attempts /\ tail \in [Databases -> Nat]
      /\ Queued \subseteq Databases
  BY DatabasesAssumption DEF Types
<1>3. tail' = IF d \in Queued THEN [tail EXCEPT ![d] = n] ELSE tail
  BY DEF NewAttempt
<1>4. f.id = n
  OBVIOUS
<1> HIDE DEF n
<1>5. ResolvedInOrder'
  BY <1>1, <1>2 DEF QueueInv, ResolvedInOrder
<1>6. TailIsLast'
  <2>1. ASSUME NEW e \in Queued, e # d
        PROVE  /\ tail'[e] = 0 => \A j \in DOMAIN attempts' :
                                    attempts'[j].db = e => j \in resolved'
               /\ tail'[e] # 0 => /\ tail'[e] \in DOMAIN attempts'
                                 /\ attempts'[tail'[e]].db = e
                                 /\ \A j \in DOMAIN attempts' :
                                       attempts'[j].db = e => j <= tail'[e]
    <3>1. tail'[e] = tail[e]
      BY <1>2, <1>3, <2>1
    <3> QED BY <1>1, <2>1, <3>1 DEF QueueInv, TailIsLast
  <2>2. ASSUME d \in Queued
        PROVE  /\ tail'[d] = n
               /\ \A j \in DOMAIN attempts' : j <= n
    BY <1>1, <1>2, <1>3, <2>2
  <2> QED BY <1>1, <2>1, <2>2 DEF TailIsLast
<1>7. Unreleased' /\ OpenIsNext'
  BY <1>1, <1>2 DEF QueueInv, Unreleased, OpenIsNext
<1>8. ASSUME NEW q \in Requests, NEW i \in DOMAIN stack'[q]
      PROVE  /\ stack'[q][i].pc = "queued" => Waits(stack[q][i])'
             /\ stack'[q][i].pc = "body" =>
                  attempts'[stack'[q][i].id].outcome = "open"
  <2>1. CASE i \in DOMAIN stack[q] /\ stack'[q][i] = stack[q][i]
    <3>1. stack[q][i].id \in DOMAIN attempts
      BY <2>1 DEF Types, FramesOK
    <3>2. CASE stack[q][i].pc = "queued"
      <4>1. Waits(stack[q][i])
        BY <2>1, <3>2 DEF QueueInv, FramesKnow
      <4> QED BY <1>1, <2>1, <3>1, <3>2, <4>1 DEF Waits
    <3>3. CASE stack[q][i].pc = "body"
      BY <1>1, <2>1, <3>1, <3>3 DEF QueueInv, FramesKnow
    <3> QED BY <2>1, <3>2, <3>3
  <2>2. CASE stack'[q][i] = f
    <3>1. CASE d \notin Queued
      BY <1>1, <1>4, <2>2, <3>1 DEF Waits
    <3>2. CASE d \in Queued
      <4>1. f.previous = tail[d]
        BY <3>2
      <4>2. CASE tail[d] = 0
        BY <1>1, <1>4, <2>2, <4>1, <4>2, <3>2 DEF Waits, QueueInv, TailIsLast
      <4>3. CASE tail[d] # 0
        BY <1>1, <1>4, <2>2, <4>1, <4>3, <3>2 DEF Waits, QueueInv, TailIsLast
      <4> QED BY <4>2, <4>3
    <3> QED BY <3>1, <3>2
  <2> QED BY <1>8, <2>1, <2>2 DEF Comes
<1> QED BY <1>5, <1>6, <1>7, <1>8 DEF QueueInv, FramesKnow

\* The promise in front of a frame is released and its transaction begins.
LEMMA QueueBegins ==
    ASSUME Types, QueueInv, UNCHANGED <<tail, resolved>>,
           NEW r \in Requests, Depth(r) > 0, Top(r).pc = "queued",
           Top(r).previous \in resolved \cup {0},
           DOMAIN attempts' = DOMAIN attempts,
           \A j \in DOMAIN attempts : attempts'[j].db = attempts[j].db,
           \A j \in DOMAIN attempts \ {Top(r).id} : attempts'[j] = attempts[j],
           attempts'[Top(r).id].outcome = "open",
           NEW f, f.id = Top(r).id, f.pc = "body",
           Becomes(r, Depth(r), f)
    PROVE  QueueInv'
<1> DEFINE m == Top(r).id
<1>1. /\ m \in DOMAIN attempts /\ attempts[m].db = Top(r).db
      /\ attempts[m].by = r /\ Depth(r) \in DOMAIN stack[r]
  BY TopFrame
<1>2. /\ resolved \subseteq DOMAIN attempts /\ DOMAIN attempts \subseteq Nat
  BY DEF Types
<1>3. Waits(Top(r))
  BY <1>1 DEF QueueInv, FramesKnow, Top
<1>4. \A j \in DOMAIN attempts :
         /\ attempts[m].db \in Queued /\ attempts[j].db = attempts[m].db
         /\ j < m
         => j \in resolved
  <2> SUFFICES ASSUME NEW j \in DOMAIN attempts, attempts[m].db \in Queued,
                      attempts[j].db = attempts[m].db, j < m
               PROVE  j \in resolved
    OBVIOUS
  <2>1. CASE Top(r).previous = 0
    BY <1>1, <1>3, <2>1 DEF Waits
  <2>2. CASE Top(r).previous # 0
    <3>1. /\ Top(r).previous \in resolved /\ j <= Top(r).previous
          /\ attempts[Top(r).previous].db = attempts[m].db
      BY <1>1, <1>3, <2>2 DEF Waits
    <3>2. CASE j = Top(r).previous
      BY <3>1, <3>2
    <3>3. CASE j < Top(r).previous
      BY <3>1, <3>3 DEF QueueInv, ResolvedInOrder
    <3> QED BY <1>2, <3>1, <3>2, <3>3
  <2> QED BY <2>1, <2>2
<1>5. m \notin resolved
  BY <1>1, <1>3 DEF Waits, QueueInv, Unreleased
<1>6. ResolvedInOrder' /\ TailIsLast'
  <2>1. ResolvedInOrder'
    BY <1>2 DEF QueueInv, ResolvedInOrder
  <2>2. TailIsLast'
    BY DEF QueueInv, TailIsLast
  <2> QED BY <2>1, <2>2
<1>7. Unreleased'
  BY <1>5 DEF QueueInv, Unreleased
<1>8. OpenIsNext'
  BY <1>1, <1>4 DEF QueueInv, OpenIsNext
<1>9. ASSUME NEW q \in Requests, NEW i \in DOMAIN stack'[q]
      PROVE  /\ stack'[q][i].pc = "queued" => Waits(stack[q][i])'
             /\ stack'[q][i].pc = "body" =>
                  attempts'[stack'[q][i].id].outcome = "open"
  <2>1. CASE stack'[q][i] = stack[q][i] /\ <<q, i>> # <<r, Depth(r)>>
    <3>1. i \in DOMAIN stack[q] /\ stack[q][i].id \in DOMAIN attempts
      BY <1>9 DEF Types, FramesOK, Becomes
    <3>2. stack[q][i].id # m
      BY <1>1, <2>1, <3>1 DEF Types, FramesOK, Top
    <3>3. attempts'[stack[q][i].id] = attempts[stack[q][i].id]
      BY <3>1, <3>2
    <3>4. CASE stack[q][i].pc = "queued"
      <4>1. Waits(stack[q][i])
        BY <3>1, <3>4 DEF QueueInv, FramesKnow
      <4> QED BY <2>1, <3>1, <3>3, <3>4, <4>1 DEF Waits
    <3>5. CASE stack[q][i].pc = "body"
      BY <2>1, <3>1, <3>3, <3>5 DEF QueueInv, FramesKnow
    <3> QED BY <2>1, <3>4, <3>5
  <2>2. CASE stack'[q][i] = f
    BY <2>2
  <2> QED BY <1>9, <2>1, <2>2 DEF Becomes
<1> QED BY <1>6, <1>7, <1>8, <1>9 DEF QueueInv, FramesKnow

\* A transaction ends and releases its promise.
LEMMA QueueReleases ==
    ASSUME Types, QueueInv,
           NEW r \in Requests, Depth(r) > 0, Top(r).pc = "body", Release(Top(r)),
           DOMAIN attempts' = DOMAIN attempts,
           \A j \in DOMAIN attempts : attempts'[j].db = attempts[j].db,
           \A j \in DOMAIN attempts \ {Top(r).id} : attempts'[j] = attempts[j],
           attempts'[Top(r).id].outcome \in {"committed", "undone"},
           NEW f, f.pc \in {"flushing", "undoing"},
           Becomes(r, Depth(r), f)
    PROVE  QueueInv'
<1> DEFINE m == Top(r).id
<1>1. /\ m \in DOMAIN attempts /\ attempts[m].db = Top(r).db
      /\ attempts[m].by = r /\ Depth(r) \in DOMAIN stack[r]
      /\ Top(r).db \in Databases
  BY TopFrame DEF Frame
<1>2. /\ resolved \subseteq DOMAIN attempts /\ DOMAIN attempts = 1..Len(attempts)
      /\ Len(attempts) \in Nat
      /\ tail \in [Databases -> Nat] /\ Queued \subseteq Databases
  BY DatabasesAssumption DEF Types
<1>3. resolved' = resolved \cup {m}
  BY DEF Release
<1>4. attempts[m].outcome = "open"
  BY <1>1 DEF QueueInv, FramesKnow, Top
<1>5. ResolvedInOrder'
  BY <1>1, <1>2, <1>3, <1>4 DEF QueueInv, ResolvedInOrder, OpenIsNext
<1>6. TailIsLast'
  <2>1. ASSUME NEW e \in Queued, tail'[e] = tail[e]
        PROVE  /\ tail'[e] = 0 => \A j \in DOMAIN attempts' :
                                    attempts'[j].db = e => j \in resolved'
               /\ tail'[e] # 0 => /\ tail'[e] \in DOMAIN attempts'
                                 /\ attempts'[tail'[e]].db = e
                                 /\ \A j \in DOMAIN attempts' :
                                       attempts'[j].db = e => j <= tail'[e]
    BY <1>3, <2>1 DEF QueueInv, TailIsLast
  <2>2. ASSUME NEW e \in Queued, tail'[e] # tail[e]
        PROVE  /\ tail'[e] = 0 /\ e = attempts[m].db /\ tail[e] = m
    BY <1>1, <1>2, <2>2 DEF Release
  <2>3. ASSUME NEW e \in Queued, tail'[e] # tail[e],
               NEW j \in DOMAIN attempts', attempts'[j].db = e
        PROVE  j \in resolved'
    <3>1. tail[e] = m /\ e = attempts[m].db /\ m # 0
      BY <1>1, <1>2, <2>2, <2>3
    <3>2. j <= m /\ attempts[j].db = attempts[m].db
      BY <2>3, <3>1 DEF QueueInv, TailIsLast
    <3>3. j < m => j \in resolved
      BY <1>1, <1>4, <2>3, <3>1, <3>2 DEF QueueInv, OpenIsNext
    <3> QED BY <1>1, <1>2, <1>3, <2>3, <3>2, <3>3
  <2> QED BY <2>1, <2>2, <2>3 DEF TailIsLast
<1>7. Unreleased'
  BY <1>3 DEF QueueInv, Unreleased
<1>8. OpenIsNext'
  BY <1>3 DEF QueueInv, OpenIsNext
<1>9. ASSUME NEW q \in Requests, NEW i \in DOMAIN stack'[q]
      PROVE  /\ stack'[q][i].pc = "queued" => Waits(stack[q][i])'
             /\ stack'[q][i].pc = "body" =>
                  attempts'[stack'[q][i].id].outcome = "open"
  <2>1. CASE stack'[q][i] = stack[q][i] /\ <<q, i>> # <<r, Depth(r)>>
    <3>1. i \in DOMAIN stack[q] /\ stack[q][i].id \in DOMAIN attempts
      BY <1>9 DEF Types, FramesOK, Becomes
    <3>2. stack[q][i].id # m
      BY <1>1, <2>1, <3>1 DEF Types, FramesOK, Top
    <3>3. attempts'[stack[q][i].id] = attempts[stack[q][i].id]
      BY <3>1, <3>2
    <3>4. CASE stack[q][i].pc = "queued"
      <4>1. Waits(stack[q][i])
        BY <3>1, <3>4 DEF QueueInv, FramesKnow
      <4> QED BY <1>3, <2>1, <3>1, <3>3, <3>4, <4>1 DEF Waits
    <3>5. CASE stack[q][i].pc = "body"
      BY <2>1, <3>1, <3>3, <3>5 DEF QueueInv, FramesKnow
    <3> QED BY <2>1, <3>4, <3>5
  <2>2. CASE stack'[q][i] = f
    BY <2>2
  <2> QED BY <1>9, <2>1, <2>2 DEF Becomes
<1> QED BY <1>5, <1>6, <1>7, <1>8, <1>9 DEF QueueInv, FramesKnow

\* The top frame changes.
LEMMA TopChanges ==
    ASSUME Types, NEW r \in Requests, Depth(r) > 0, NEW f \in Frame,
           f.db = Top(r).db, f.id = Top(r).id, f.number = Top(r).number,
           f.pc = "backoff" => f.number < MaxAttempts[r],
           SetTop(r, f),
           DOMAIN attempts' = DOMAIN attempts,
           \A j \in DOMAIN attempts : /\ attempts'[j].by = attempts[j].by
                                      /\ attempts'[j].db = attempts[j].db
    PROVE  /\ stack' \in [Requests -> Seq(Frame)] /\ FramesOK'
           /\ Becomes(r, Depth(r), f)
<1>1. Depth(r) \in DOMAIN stack[r]
  BY TopFrame
<1>2. stack' = [stack EXCEPT ![r][Depth(r)] = f]
  BY DEF SetTop
<1> QED BY <1>1, <1>2, FrameChanges DEF Top

-----------------------------------------------------------------------------
(* Every step keeps types and queue.                                       *)

Kept == Types' /\ QueueInv'

LEMMA RunKeeps ==
    ASSUME Types, QueueInv, NEW r \in Requests, Run(r)
    PROVE  Kept
<1>1. PICK d \in Roots :
         /\ phase' = [phase EXCEPT ![r] = "running"]
         /\ stack' = [stack EXCEPT ![r] = <<NewFrame(d, 1)>>]
         /\ NewAttempt(r, d)
         /\ UNCHANGED <<thrown, nested, resolved>>
  BY DEF Run
<1> DEFINE f == NewFrame(d, 1)
<1>2. /\ d \in Databases /\ MaxAttempts[r] \in Nat \ {0}
      /\ stack \in [Requests -> Seq(Frame)]
  BY DatabasesAssumption, BoundsAssumption DEF Types
<1>3. /\ f \in Frame /\ f.db = d /\ f.number = 1
      /\ f.id = Len(attempts) + 1 /\ f.pc = "queued"
      /\ f.previous = IF d \in Queued THEN tail[d] ELSE 0
  BY <1>2, FrameType
<1> HIDE DEF f
<1>4. stack' = [stack EXCEPT ![r] = <<f>>]
  BY <1>1 DEF f
<1>5. /\ stack' \in [Requests -> Seq(Frame)]
      /\ \A q \in Requests \ {r} : stack'[q] = stack[q]
      /\ DOMAIN stack'[r] = 1..1 /\ stack'[r][1] = f
  BY <1>2, <1>3, <1>4
<1>6. /\ FramesOK'
      /\ Comes(f)
  <2>1. 1 \in Nat \ {0} /\ f.number <= MaxAttempts[r] /\ 1..(1 - 1) = {}
    BY <1>2, <1>3
  <2>2. Joins(r, d, f, 1)
    BY <1>5, <2>1 DEF Joins
  <2> QED BY <1>1, <1>2, <1>3, <2>1, <2>2, FrameJoins
<1>7. QueueInv'
  BY <1>1, <1>2, <1>3, <1>6, QueueJoins
<1>8. /\ attempts' \in Seq(Attempt) /\ tail' \in [Databases -> Nat]
      /\ DOMAIN attempts \subseteq DOMAIN attempts'
  BY <1>1, <1>2, AttemptJoins
<1> QED BY <1>1, <1>5, <1>6, <1>7, <1>8 DEF Kept, Types

LEMMA RunInsideKeeps ==
    ASSUME Types, QueueInv, NEW r \in Requests, RunInside(r)
    PROVE  Kept
<1>1. PICK d \in Databases :
         /\ ~Active(r, d)
         /\ nested' = [nested EXCEPT ![r] = @ + 1]
         /\ stack' = [stack EXCEPT ![r] = Append(@, NewFrame(d, 1))]
         /\ NewAttempt(r, d)
         /\ UNCHANGED <<phase, thrown, resolved>>
  BY DEF RunInside
<1> DEFINE f == NewFrame(d, 1)
           t == Append(stack[r], f)
           k == Len(stack[r]) + 1
<1>2. /\ MaxAttempts[r] \in Nat \ {0} /\ stack[r] \in Seq(Frame)
      /\ stack \in [Requests -> Seq(Frame)]
  BY BoundsAssumption DEF Types
<1>3. /\ f \in Frame /\ f.db = d /\ f.number = 1
      /\ f.id = Len(attempts) + 1 /\ f.pc = "queued"
      /\ f.previous = IF d \in Queued THEN tail[d] ELSE 0
  BY FrameType
<1>4. stack' = [stack EXCEPT ![r] = t]
  BY <1>1 DEF Types
<1> HIDE DEF f
<1>5. /\ t \in Seq(Frame) /\ DOMAIN t = 1..k /\ t[k] = f /\ k \in Nat \ {0}
      /\ \A i \in 1..(k - 1) : i \in DOMAIN stack[r] /\ t[i] = stack[r][i]
  BY <1>2, <1>3
<1>6. \A i \in 1..(k - 1) : stack[r][i].db # d
  BY <1>1, <1>5 DEF Active
<1> HIDE DEF t, k
<1>7. /\ stack' \in [Requests -> Seq(Frame)] /\ stack'[r] = t
      /\ \A q \in Requests \ {r} : stack'[q] = stack[q]
  BY <1>2, <1>4, <1>5
<1>8. /\ FramesOK'
      /\ Comes(f)
  <2>1. f.number <= MaxAttempts[r]
    BY <1>2, <1>3
  <2>2. Joins(r, d, f, k)
    BY <1>5, <1>6, <1>7 DEF Joins
  <2> QED BY <1>1, <1>3, <1>5, <2>1, <2>2, FrameJoins
<1>9. QueueInv'
  BY <1>1, <1>3, <1>8, QueueJoins
<1>10. /\ attempts' \in Seq(Attempt) /\ tail' \in [Databases -> Nat]
       /\ DOMAIN attempts \subseteq DOMAIN attempts'
  BY <1>1, AttemptJoins
<1> QED BY <1>1, <1>7, <1>8, <1>9, <1>10 DEF Kept, Types

LEMMA RetryKeeps ==
    ASSUME Types, QueueInv, NEW r \in Requests, Retry(r)
    PROVE  Kept
<1> DEFINE d == Top(r).db
           f == NewFrame(d, Top(r).number + 1)
           k == Depth(r)
           t == [stack[r] EXCEPT ![k] = f]
<1>1. /\ Depth(r) > 0 /\ Top(r).pc = "backoff"
      /\ SetTop(r, f) /\ NewAttempt(r, d)
      /\ UNCHANGED <<phase, thrown, nested, resolved>>
  BY DEF Retry
<1>2. /\ d \in Databases /\ Top(r).number \in Nat /\ MaxAttempts[r] \in Nat
      /\ Top(r).number < MaxAttempts[r] /\ k \in DOMAIN stack[r]
      /\ stack[r] \in Seq(Frame) /\ k \in Nat \ {0} /\ stack[r][k].db = d
      /\ DOMAIN stack[r] = 1..k /\ stack \in [Requests -> Seq(Frame)]
  <2>1. /\ Top(r) \in Frame /\ k \in DOMAIN stack[r] /\ k \in Nat
        /\ Top(r).number < MaxAttempts[r]
    BY <1>1, TopFrame
  <2>2. d \in Databases /\ Top(r).number \in Nat
    BY <2>1 DEF Frame
  <2>3. stack \in [Requests -> Seq(Frame)] /\ DOMAIN stack[r] = 1..k
    BY DEF Types, Depth
  <2> QED BY <1>1, <2>1, <2>2, <2>3, BoundsAssumption DEF Top
<1>3. /\ f \in Frame /\ f.db = d /\ f.number = Top(r).number + 1
      /\ f.id = Len(attempts) + 1 /\ f.pc = "queued"
      /\ f.previous = IF d \in Queued THEN tail[d] ELSE 0
  <2>1. Top(r).number + 1 \in Nat \ {0}
    BY <1>2
  <2> QED BY <1>2, <2>1, FrameType
<1> HIDE DEF f
<1>4. stack' = [stack EXCEPT ![r] = t]
  BY <1>1 DEF SetTop, Types
<1>5. /\ t \in Seq(Frame) /\ DOMAIN t = 1..k /\ t[k] = f
      /\ \A i \in DOMAIN stack[r] \ {k} : t[i] = stack[r][i]
  BY <1>2, <1>3, Replaced
<1>6. \A i \in 1..(k - 1) : /\ i \in DOMAIN stack[r] /\ t[i] = stack[r][i]
                            /\ stack[r][i].db # d
  <2>1. \A i \in 1..(k - 1) : i \in DOMAIN stack[r] /\ i # k
    BY <1>2
  <2> QED BY <1>2, <1>5, <2>1 DEF Types, FramesOK
<1> HIDE DEF t, k, d
<1>7. /\ stack' \in [Requests -> Seq(Frame)] /\ stack'[r] = t
      /\ \A q \in Requests \ {r} : stack'[q] = stack[q]
  BY <1>2, <1>4, <1>5
<1>8. /\ FramesOK'
      /\ Comes(f)
  <2>1. f.number <= MaxAttempts[r]
    BY <1>2, <1>3
  <2>2. Joins(r, d, f, k)
    BY <1>5, <1>6, <1>7 DEF Joins
  <2> QED BY <1>1, <1>2, <1>3, <2>1, <2>2, FrameJoins
<1>9. QueueInv'
  BY <1>1, <1>2, <1>3, <1>8, QueueJoins
<1>10. /\ attempts' \in Seq(Attempt) /\ tail' \in [Databases -> Nat]
       /\ DOMAIN attempts \subseteq DOMAIN attempts'
  BY <1>1, <1>2, AttemptJoins
<1> QED BY <1>1, <1>7, <1>8, <1>9, <1>10 DEF Kept, Types

LEMMA BeginKeeps ==
    ASSUME Types, QueueInv, NEW r \in Requests, Begin(r)
    PROVE  Kept
<1> DEFINE f == [Top(r) EXCEPT !.pc = "body"]
           m == Top(r).id
           a == [attempts[m] EXCEPT !.outcome = "open"]
<1>1. /\ Depth(r) > 0 /\ Top(r).pc = "queued"
      /\ Top(r).previous \in resolved \cup {0}
      /\ SetTop(r, f)
      /\ attempts' = [attempts EXCEPT ![m].outcome = "open"]
      /\ UNCHANGED <<phase, thrown, nested, tail, resolved>>
  BY DEF Begin
<1>2. Top(r) \in Frame /\ m \in DOMAIN attempts /\ attempts[m] \in Attempt
  BY <1>1, TopFrame DEF Types
<1>3. /\ f \in Frame /\ f.db = Top(r).db /\ f.id = m /\ f.pc = "body"
      /\ f.number = Top(r).number
  BY <1>2 DEF Frame, Stages
<1>4. /\ a \in Attempt /\ a.by = attempts[m].by /\ a.db = attempts[m].db
      /\ a.outcome = "open"
  BY <1>2 DEF Attempt
<1>5. attempts' = [attempts EXCEPT ![m] = a]
  BY <1>1, <1>2
<1> HIDE DEF f, a
<1>6. /\ attempts' \in Seq(Attempt) /\ DOMAIN attempts' = DOMAIN attempts
      /\ attempts'[m] = a
      /\ \A j \in DOMAIN attempts \ {m} : attempts'[j] = attempts[j]
      /\ \A j \in DOMAIN attempts : /\ attempts'[j].by = attempts[j].by
                                    /\ attempts'[j].db = attempts[j].db
  BY <1>2, <1>4, <1>5, AttemptChanges
<1>7. /\ stack' \in [Requests -> Seq(Frame)] /\ FramesOK'
      /\ Becomes(r, Depth(r), f)
  BY <1>1, <1>3, <1>6, TopChanges
<1>8. QueueInv'
  BY <1>1, <1>3, <1>4, <1>6, <1>7, QueueBegins
<1> QED BY <1>1, <1>6, <1>7, <1>8 DEF Kept, Types

\* A transaction ends with the outcome o and its frame goes on as f.
Ends(r, f, o) ==
    /\ f.db = Top(r).db /\ f.id = Top(r).id /\ f.number = Top(r).number
    /\ f.pc \in {"flushing", "undoing"}
    /\ SetTop(r, f) /\ Release(Top(r))
    /\ attempts' = [attempts EXCEPT ![Top(r).id].outcome = o]

LEMMA EndKeeps ==
    ASSUME Types, QueueInv, NEW r \in Requests,
           Depth(r) > 0, Top(r).pc = "body",
           NEW o \in {"committed", "undone"}, NEW f \in Frame, Ends(r, f, o),
           phase' = phase, thrown' \in [Requests -> Errors], nested' = nested
    PROVE  Kept
<1> DEFINE m == Top(r).id
           a == [attempts[m] EXCEPT !.outcome = o]
<1>0. /\ f.db = Top(r).db /\ f.id = Top(r).id /\ f.number = Top(r).number
      /\ f.pc \in {"flushing", "undoing"}
      /\ SetTop(r, f) /\ Release(Top(r))
      /\ attempts' = [attempts EXCEPT ![Top(r).id].outcome = o]
  BY DEF Ends
<1>1. /\ Top(r) \in Frame /\ m \in DOMAIN attempts /\ attempts[m] \in Attempt
      /\ Top(r).db \in Databases
  <2>1. Top(r) \in Frame /\ m \in DOMAIN attempts
    BY TopFrame
  <2>2. attempts[m] \in Attempt
    BY <2>1 DEF Types
  <2> QED BY <2>1, <2>2 DEF Frame
<1>2. /\ a \in Attempt /\ a.by = attempts[m].by /\ a.db = attempts[m].db
      /\ a.outcome = o
  BY <1>1 DEF Attempt
<1>3. attempts' = [attempts EXCEPT ![m] = a]
  BY <1>0, <1>1
<1> HIDE DEF a
<1>4. /\ attempts' \in Seq(Attempt) /\ DOMAIN attempts' = DOMAIN attempts
      /\ attempts'[m] = a
      /\ \A j \in DOMAIN attempts \ {m} : attempts'[j] = attempts[j]
      /\ \A j \in DOMAIN attempts : /\ attempts'[j].by = attempts[j].by
                                    /\ attempts'[j].db = attempts[j].db
  BY <1>1, <1>2, <1>3, AttemptChanges
<1>5. /\ stack' \in [Requests -> Seq(Frame)] /\ FramesOK'
      /\ Becomes(r, Depth(r), f)
  BY <1>0, <1>4, TopChanges
<1>6. QueueInv'
  BY <1>0, <1>2, <1>4, <1>5, QueueReleases
<1>7. /\ tail' \in [Databases -> Nat] /\ resolved' \subseteq DOMAIN attempts'
  BY <1>0, <1>1, <1>4 DEF Release, Types
<1> QED BY <1>4, <1>5, <1>6, <1>7 DEF Kept, Types

LEMMA CommitKeeps ==
    ASSUME Types, QueueInv, NEW r \in Requests, Commit(r)
    PROVE  Kept
<1> DEFINE f == [Top(r) EXCEPT !.pc = "flushing"]
<1>1. /\ Depth(r) > 0 /\ Top(r).pc = "body" /\ SetTop(r, f)
      /\ Release(Top(r))
      /\ attempts' = [attempts EXCEPT ![Top(r).id].outcome = "committed"]
      /\ UNCHANGED <<phase, thrown, nested>>
  BY DEF Commit, InBody
<1>2. Top(r) \in Frame /\ thrown' \in [Requests -> Errors]
  BY <1>1, TopFrame DEF Types
<1>3. /\ f \in Frame /\ f.db = Top(r).db /\ f.id = Top(r).id
      /\ f.pc = "flushing" /\ f.number = Top(r).number
  BY <1>2 DEF Frame, Stages
<1>4. Ends(r, f, "committed")
  BY <1>1, <1>3 DEF Ends
<1> HIDE DEF f
<1> QED BY <1>1, <1>2, <1>3, <1>4, EndKeeps

LEMMA RollBackKeeps ==
    ASSUME Types, QueueInv, NEW r \in Requests, RollBack(r)
    PROVE  Kept
<1>1. PICK e \in Errors \ {"none"} :
         /\ Depth(r) > 0 /\ Top(r).pc = "body"
         /\ SetTop(r, [Top(r) EXCEPT !.pc = "undoing", !.error = e])
         /\ attempts' = [attempts EXCEPT ![Top(r).id].outcome = "undone"]
         /\ Release(Top(r))
         /\ thrown' = [thrown EXCEPT ![r] = "none"]
         /\ UNCHANGED <<phase, nested>>
  BY DEF RollBack
<1> DEFINE f == [Top(r) EXCEPT !.pc = "undoing", !.error = e]
<1>2. Top(r) \in Frame /\ thrown' \in [Requests -> Errors]
  BY <1>1, TopFrame DEF Types, Errors
<1>3. /\ f \in Frame /\ f.db = Top(r).db /\ f.id = Top(r).id
      /\ f.pc = "undoing" /\ f.number = Top(r).number
  BY <1>2 DEF Frame, Stages
<1>4. Ends(r, f, "undone")
  BY <1>1, <1>3 DEF Ends
<1> HIDE DEF f
<1> QED BY <1>1, <1>2, <1>3, <1>4, EndKeeps

\* An attempt counts a callback; its owner and its outcome stay.
Counts ==
    /\ attempts' \in Seq(Attempt) /\ DOMAIN attempts' = DOMAIN attempts
    /\ \A j \in DOMAIN attempts : /\ attempts'[j].by = attempts[j].by
                                  /\ attempts'[j].db = attempts[j].db
                                  /\ attempts'[j].outcome = attempts[j].outcome

LEMMA OneCounts ==
    ASSUME Types, NEW m \in Nat, NEW a,
           m \in DOMAIN attempts => /\ a \in Attempt /\ a.by = attempts[m].by
                                   /\ a.db = attempts[m].db
                                   /\ a.outcome = attempts[m].outcome,
           attempts' = [attempts EXCEPT ![m] = a]
    PROVE  Counts
<1>1. CASE m \in DOMAIN attempts
  BY <1>1, AttemptChanges DEF Counts
<1>2. CASE m \notin DOMAIN attempts
  <2>1. attempts \in Seq(Attempt)
    BY DEF Types
  <2>2. attempts' = attempts
    BY <1>2, <2>1
  <2> QED BY <2>1, <2>2 DEF Counts
<1> QED BY <1>1, <1>2

\* Frame k of r becomes f and neither begins nor ends anything.
Goes(r, k, f) ==
    /\ f.db = stack[r][k].db /\ f.id = stack[r][k].id
    /\ f.number = stack[r][k].number /\ f.previous = stack[r][k].previous
    /\ \/ f.pc = stack[r][k].pc
       \/ f.pc = "backoff" /\ f.number < MaxAttempts[r]
    /\ stack' = [stack EXCEPT ![r][k] = f]

LEMMA GoesKeeps ==
    ASSUME Types, QueueInv, Counts, NEW r \in Requests,
           NEW k \in DOMAIN stack[r], NEW f \in Frame, Goes(r, k, f),
           UNCHANGED <<phase, thrown, nested, tail, resolved>>
    PROVE  Kept
<1>1. f.pc = "backoff" => f.number < MaxAttempts[r]
  BY DEF Goes, Types, FramesOK
<1>2. stack' \in [Requests -> Seq(Frame)] /\ FramesOK' /\ Becomes(r, k, f)
  BY <1>1, FrameChanges DEF Goes, Counts
<1>3. \A q \in Requests : \A i \in DOMAIN stack'[q] :
         /\ i \in DOMAIN stack[q]
         /\ stack'[q][i].pc \in {"queued", "body"} =>
              /\ stack'[q][i].pc = stack[q][i].pc
              /\ stack'[q][i].id = stack[q][i].id
              /\ stack'[q][i].db = stack[q][i].db
              /\ stack'[q][i].previous = stack[q][i].previous
  BY <1>2 DEF Becomes, Goes
<1>4. QueueInv'
  BY <1>3, QueueQuiet DEF Counts
<1> QED BY <1>2, <1>4 DEF Kept, Types, Counts

LEMMA AfterCommitKeeps ==
    ASSUME Types, QueueInv, NEW r \in Requests, AfterCommit(r)
    PROVE  Kept
<1>1. PICK k \in DOMAIN stack[r] :
         /\ stack' = [stack EXCEPT ![r][k].callbacks = Append(@, stack[r][k].id)]
         /\ attempts' = [attempts EXCEPT ![stack[r][k].id].dueCommit = @ + 1]
         /\ UNCHANGED <<phase, thrown, nested, tail, resolved>>
  BY DEF AfterCommit
<1> DEFINE g == stack[r][k]
           f == [g EXCEPT !.callbacks = Append(@, g.id)]
           b == attempts[g.id]
           a == [b EXCEPT !.dueCommit = @ + 1]
<1>2. /\ g \in Frame /\ g.id \in DOMAIN attempts /\ g.id \in Nat
      /\ b \in Attempt /\ stack \in [Requests -> Seq(Frame)]
  BY DEF Types, FramesOK
<1>3. /\ stack' = [stack EXCEPT ![r][k] = f]
      /\ attempts' = [attempts EXCEPT ![g.id] = a]
  BY <1>1, <1>2
<1>4. /\ f \in Frame /\ f.db = g.db /\ f.id = g.id /\ f.number = g.number
      /\ f.previous = g.previous /\ f.pc = g.pc
  <2> HIDE DEF g
  <2>1. g.callbacks \in Seq(Nat) /\ g.id \in Nat
    BY <1>2 DEF Frame
  <2>2. Append(g.callbacks, g.id) \in Seq(Nat)
    BY <2>1
  <2> QED BY <1>2, <2>2 DEF Frame
<1>5. Goes(r, k, f)
  BY <1>3, <1>4 DEF Goes
<1>6. a \in Attempt /\ a.by = b.by /\ a.db = b.db /\ a.outcome = b.outcome
  <2> HIDE DEF b
  <2>1. b.dueCommit + 1 \in Nat
    BY <1>2 DEF Attempt
  <2> QED BY <1>2, <2>1 DEF Attempt
<1> HIDE DEF a, f
<1>7. Counts
  BY <1>2, <1>3, <1>6, OneCounts
<1> QED BY <1>1, <1>4, <1>5, <1>7, GoesKeeps

LEMMA AfterRollbackKeeps ==
    ASSUME Types, QueueInv, NEW r \in Requests, AfterRollback(r)
    PROVE  Kept
<1>1. PICK k \in DOMAIN stack[r] :
         /\ stack' = [stack EXCEPT ![r][k].undo = Append(@, stack[r][k].id)]
         /\ attempts' = [attempts EXCEPT ![stack[r][k].id].dueUndo = @ + 1]
         /\ UNCHANGED <<phase, thrown, nested, tail, resolved>>
  BY DEF AfterRollback
<1> DEFINE g == stack[r][k]
           f == [g EXCEPT !.undo = Append(@, g.id)]
           b == attempts[g.id]
           a == [b EXCEPT !.dueUndo = @ + 1]
<1>2. /\ g \in Frame /\ g.id \in DOMAIN attempts /\ g.id \in Nat
      /\ b \in Attempt /\ stack \in [Requests -> Seq(Frame)]
  BY DEF Types, FramesOK
<1>3. /\ stack' = [stack EXCEPT ![r][k] = f]
      /\ attempts' = [attempts EXCEPT ![g.id] = a]
  BY <1>1, <1>2
<1>4. /\ f \in Frame /\ f.db = g.db /\ f.id = g.id /\ f.number = g.number
      /\ f.previous = g.previous /\ f.pc = g.pc
  <2> HIDE DEF g
  <2>1. g.undo \in Seq(Nat) /\ g.id \in Nat
    BY <1>2 DEF Frame
  <2>2. Append(g.undo, g.id) \in Seq(Nat)
    BY <2>1
  <2> QED BY <1>2, <2>2 DEF Frame
<1>5. Goes(r, k, f)
  BY <1>3, <1>4 DEF Goes
<1>6. a \in Attempt /\ a.by = b.by /\ a.db = b.db /\ a.outcome = b.outcome
  <2> HIDE DEF b
  <2>1. b.dueUndo + 1 \in Nat
    BY <1>2 DEF Attempt
  <2> QED BY <1>2, <2>1 DEF Attempt
<1> HIDE DEF a, f
<1>7. Counts
  BY <1>2, <1>3, <1>6, OneCounts
<1> QED BY <1>1, <1>4, <1>5, <1>7, GoesKeeps

LEMMA RunCallbackKeeps ==
    ASSUME Types, QueueInv, NEW r \in Requests, RunCallback(r)
    PROVE  Kept
<1>1. PICK e \in {"none", "fatal", "late"} :
         /\ Depth(r) > 0 /\ Top(r).pc = "flushing" /\ Top(r).callbacks # <<>>
         /\ SetTop(r, [Top(r) EXCEPT !.callbacks = Tail(@),
                                     !.failure = First(Top(r), e)])
         /\ attempts' = [attempts EXCEPT ![Head(Top(r).callbacks)].ranCommit = @ + 1]
         /\ UNCHANGED <<phase, thrown, nested, tail, resolved>>
  BY DEF RunCallback
<1> DEFINE g == Top(r)
           f == [g EXCEPT !.callbacks = Tail(@), !.failure = First(g, e)]
           m == Head(g.callbacks)
           b == attempts[m]
           a == [b EXCEPT !.ranCommit = @ + 1]
           k == Depth(r)
<1>2. g \in Frame /\ k \in DOMAIN stack[r] /\ g = stack[r][k]
  BY <1>1, TopFrame DEF Top
<1>3. /\ m \in Nat /\ f \in Frame
      /\ f.db = g.db /\ f.id = g.id /\ f.number = g.number
      /\ f.previous = g.previous /\ f.pc = g.pc
  <2>1. g.callbacks # <<>>
    BY <1>1
  <2> HIDE DEF g
  <2>2. g.callbacks \in Seq(Nat) /\ g.failure \in Errors
    BY <1>2 DEF Frame
  <2>3. m \in Nat /\ Tail(g.callbacks) \in Seq(Nat)
    BY <2>1, <2>2
  <2>4. First(g, e) \in Errors
    BY <2>2 DEF First, Errors
  <2> QED BY <1>2, <2>3, <2>4 DEF Frame
<1>4. stack' = [stack EXCEPT ![r][k] = f]
  BY <1>1 DEF SetTop
<1>5. attempts' = [attempts EXCEPT ![m] = a]
  BY <1>1
<1>6. Goes(r, k, f)
  <2> HIDE DEF f, k
  <2> QED BY <1>2, <1>3, <1>4 DEF Goes
<1>7. m \in DOMAIN attempts =>
        a \in Attempt /\ a.by = b.by /\ a.db = b.db /\ a.outcome = b.outcome
  <2>1. SUFFICES ASSUME m \in DOMAIN attempts
                 PROVE  /\ a \in Attempt /\ a.by = b.by /\ a.db = b.db
                        /\ a.outcome = b.outcome
    OBVIOUS
  <2>2. b \in Attempt
    BY <2>1 DEF Types
  <2> HIDE DEF b
  <2>3. b.ranCommit + 1 \in Nat
    BY <2>2 DEF Attempt
  <2> QED BY <2>2, <2>3 DEF Attempt
<1> HIDE DEF a, f, m, k
<1>8. Counts
  BY <1>3, <1>5, <1>7, OneCounts
<1> QED BY <1>1, <1>2, <1>3, <1>6, <1>8, GoesKeeps

LEMMA RunUndoKeeps ==
    ASSUME Types, QueueInv, NEW r \in Requests, RunUndo(r)
    PROVE  Kept
<1>1. PICK e \in {"none", "retriable", "fatal"} :
         /\ Depth(r) > 0 /\ Top(r).pc = "undoing" /\ Top(r).undo # <<>>
         /\ SetTop(r, [Top(r) EXCEPT !.undo = Tail(@),
                                     !.failure = First(Top(r), e)])
         /\ attempts' = [attempts EXCEPT ![Head(Top(r).undo)].ranUndo = @ + 1]
         /\ UNCHANGED <<phase, thrown, nested, tail, resolved>>
  BY DEF RunUndo
<1> DEFINE g == Top(r)
           f == [g EXCEPT !.undo = Tail(@), !.failure = First(g, e)]
           m == Head(g.undo)
           b == attempts[m]
           a == [b EXCEPT !.ranUndo = @ + 1]
           k == Depth(r)
<1>2. g \in Frame /\ k \in DOMAIN stack[r] /\ g = stack[r][k]
  BY <1>1, TopFrame DEF Top
<1>3. /\ m \in Nat /\ f \in Frame
      /\ f.db = g.db /\ f.id = g.id /\ f.number = g.number
      /\ f.previous = g.previous /\ f.pc = g.pc
  <2>1. g.undo # <<>>
    BY <1>1
  <2> HIDE DEF g
  <2>2. g.undo \in Seq(Nat) /\ g.failure \in Errors
    BY <1>2 DEF Frame
  <2>3. m \in Nat /\ Tail(g.undo) \in Seq(Nat)
    BY <2>1, <2>2
  <2>4. First(g, e) \in Errors
    BY <2>2 DEF First, Errors
  <2> QED BY <1>2, <2>3, <2>4 DEF Frame
<1>4. stack' = [stack EXCEPT ![r][k] = f]
  BY <1>1 DEF SetTop
<1>5. attempts' = [attempts EXCEPT ![m] = a]
  BY <1>1
<1>6. Goes(r, k, f)
  <2> HIDE DEF f, k
  <2> QED BY <1>2, <1>3, <1>4 DEF Goes
<1>7. m \in DOMAIN attempts =>
        a \in Attempt /\ a.by = b.by /\ a.db = b.db /\ a.outcome = b.outcome
  <2>1. SUFFICES ASSUME m \in DOMAIN attempts
                 PROVE  /\ a \in Attempt /\ a.by = b.by /\ a.db = b.db
                        /\ a.outcome = b.outcome
    OBVIOUS
  <2>2. b \in Attempt
    BY <2>1 DEF Types
  <2> HIDE DEF b
  <2>3. b.ranUndo + 1 \in Nat
    BY <2>2 DEF Attempt
  <2> QED BY <2>2, <2>3 DEF Attempt
<1> HIDE DEF a, f, m, k
<1>8. Counts
  BY <1>3, <1>5, <1>7, OneCounts
<1> QED BY <1>1, <1>2, <1>3, <1>6, <1>8, GoesKeeps

LEMMA BackOffKeeps ==
    ASSUME Types, QueueInv, NEW r \in Requests, BackOff(r)
    PROVE  Kept
<1> DEFINE g == Top(r)
           f == [g EXCEPT !.pc = "backoff"]
           k == Depth(r)
<1>1. /\ k > 0 /\ g.number < MaxAttempts[r]
      /\ stack' = [stack EXCEPT ![r][k] = f]
      /\ UNCHANGED <<phase, thrown, nested, tail, resolved, attempts>>
  BY DEF BackOff, MayRetry, SetTop
<1>2. g \in Frame /\ k \in DOMAIN stack[r] /\ g = stack[r][k]
  BY <1>1, TopFrame DEF Top
<1>3. /\ f \in Frame /\ f.db = g.db /\ f.id = g.id /\ f.number = g.number
      /\ f.previous = g.previous /\ f.pc = "backoff"
  <2> HIDE DEF g
  <2> QED BY <1>2 DEF Frame, Stages
<1>4. Goes(r, k, f)
  <2> HIDE DEF f, k
  <2> QED BY <1>1, <1>2, <1>3 DEF Goes
<1>5. Counts
  BY <1>1 DEF Counts, Types
<1> HIDE DEF f, k
<1> QED BY <1>1, <1>2, <1>3, <1>4, <1>5, GoesKeeps

LEMMA ReturnKeeps ==
    ASSUME Types, QueueInv, NEW r \in Requests, Depth(r) > 0,
           NEW e \in Errors, Return(r, e),
           UNCHANGED <<nested, tail, resolved, attempts>>
    PROVE  Kept
<1>1. Types' /\ \A q \in Requests : \A i \in DOMAIN stack'[q] :
                    i \in DOMAIN stack[q] /\ stack'[q][i] = stack[q][i]
  BY TopLeaves
<1>2. QueueInv'
  BY <1>1, QueueQuiet
<1> QED BY <1>1, <1>2 DEF Kept

LEMMA CommittedKeeps ==
    ASSUME Types, QueueInv, NEW r \in Requests, Committed(r)
    PROVE  Kept
<1>1. /\ Depth(r) > 0 /\ Return(r, Top(r).failure)
      /\ UNCHANGED <<nested, tail, resolved, attempts>>
  BY DEF Committed
<1>2. Top(r).failure \in Errors
  BY <1>1, TopFrame DEF Frame
<1> QED BY <1>1, <1>2, ReturnKeeps

LEMMA GiveUpKeeps ==
    ASSUME Types, QueueInv, NEW r \in Requests, GiveUp(r)
    PROVE  Kept
<1>1. /\ Depth(r) > 0 /\ Return(r, First(Top(r), Top(r).error))
      /\ UNCHANGED <<nested, tail, resolved, attempts>>
  BY DEF GiveUp
<1>2. First(Top(r), Top(r).error) \in Errors
  BY <1>1, TopFrame DEF Frame, First
<1> QED BY <1>1, <1>2, ReturnKeeps

LEMMA CatchKeeps ==
    ASSUME Types, QueueInv, NEW r \in Requests, Catch(r)
    PROVE  Kept
<1>1. /\ thrown' = [thrown EXCEPT ![r] = "none"]
      /\ UNCHANGED <<stack, phase, nested, tail, resolved, attempts>>
  BY DEF Catch
<1>2. Types'
  BY <1>1 DEF Types, FramesOK, Errors
<1>3. QueueInv'
  BY <1>1, QueueQuiet
<1> QED BY <1>2, <1>3 DEF Kept

LEMMA StepKeeps ==
    ASSUME Types, QueueInv, [Next]_vars
    PROVE  Kept
<1>1. CASE UNCHANGED vars
  <2>1. UNCHANGED <<stack, phase, thrown, nested, tail, resolved, attempts>>
    BY <1>1 DEF vars
  <2>2. Types'
    BY <2>1 DEF Types, FramesOK
  <2>3. QueueInv'
    BY <2>1, QueueQuiet
  <2> QED BY <2>2, <2>3 DEF Kept
<1>2. ASSUME NEW r \in Requests,
             \/ Run(r) \/ RunInside(r) \/ AfterCommit(r) \/ AfterRollback(r)
             \/ Advance(r)
      PROVE  Kept
  <2>1. CASE Run(r) \/ RunInside(r) \/ AfterCommit(r) \/ AfterRollback(r)
    BY <2>1, RunKeeps, RunInsideKeeps, AfterCommitKeeps, AfterRollbackKeeps
  <2>2. CASE Begin(r) \/ Commit(r) \/ RollBack(r) \/ Catch(r)
    BY <2>2, BeginKeeps, CommitKeeps, RollBackKeeps, CatchKeeps
  <2>3. CASE RunCallback(r) \/ RunUndo(r) \/ Committed(r)
    BY <2>3, RunCallbackKeeps, RunUndoKeeps, CommittedKeeps
  <2>4. CASE GiveUp(r) \/ BackOff(r) \/ Retry(r)
    BY <2>4, GiveUpKeeps, BackOffKeeps, RetryKeeps
  <2> QED BY <1>2, <2>1, <2>2, <2>3, <2>4 DEF Advance
<1> QED BY <1>1, <1>2 DEF Next, Over

LEMMA Started == Init => Types /\ QueueInv
<1> SUFFICES ASSUME Init PROVE Types /\ QueueInv
  OBVIOUS
<1>1. /\ stack = [r \in Requests |-> <<>>] /\ attempts = <<>>
      /\ tail = [d \in Databases |-> 0] /\ resolved = {}
  BY DEF Init
<1>2. Types
  BY DEF Init, Types, FramesOK, Errors
<1>3. DOMAIN attempts = {} /\ \A r \in Requests : DOMAIN stack[r] = {}
  BY <1>1
<1>4. TailIsLast
  <2>1. \A d \in Queued : tail[d] = 0
    BY <1>1, DatabasesAssumption
  <2> QED BY <1>3, <2>1 DEF TailIsLast
<1>5. ResolvedInOrder /\ FramesKnow /\ Unreleased /\ OpenIsNext
  BY <1>1, <1>3 DEF ResolvedInOrder, FramesKnow, Unreleased, OpenIsNext
<1> QED BY <1>2, <1>4, <1>5 DEF QueueInv

-----------------------------------------------------------------------------
(* The callbacks of an attempt.                                            *)

\* What the frame f of an attempt a has yet to run.
Owes(f, a) ==
    /\ \A i \in DOMAIN f.callbacks : f.callbacks[i] = f.id
    /\ \A i \in DOMAIN f.undo : f.undo[i] = f.id
    /\ a.dueCommit = a.ranCommit + Len(f.callbacks)
    /\ a.dueUndo = a.ranUndo + Len(f.undo)
    /\ f.pc = "flushing" => a.outcome = "committed"
    /\ f.pc \in {"undoing", "backoff"} => a.outcome = "undone"
    /\ f.pc = "backoff" => f.undo = <<>>

\* What an attempt has run fits its outcome.
Fits(a) ==
    /\ a.ranCommit > 0 => a.outcome = "committed"
    /\ a.ranUndo > 0 => a.outcome = "undone"
    /\ a.ranCommit <= a.dueCommit /\ a.ranUndo <= a.dueUndo

\* An attempt that is over has run what its outcome owes.
Settled(a) == \/ a.outcome = "committed" /\ a.ranCommit = a.dueCommit
              \/ a.outcome = "undone" /\ a.ranUndo = a.dueUndo

FramesOwe == \A r \in Requests : \A i \in DOMAIN stack[r] :
                Owes(stack[r][i], attempts[stack[r][i].id])
AttemptsFit == \A i \in DOMAIN attempts : Fits(attempts[i])
Running(i) == \E k \in DOMAIN stack[attempts[i].by] :
                 stack[attempts[i].by][k].id = i
OthersSettled == \A i \in DOMAIN attempts : Running(i) \/ Settled(attempts[i])

\* Only the innermost run of a request waits for its next attempt.
TopWaits == \A r \in Requests : \A i \in DOMAIN stack[r] :
               i # Depth(r) => stack[r][i].pc # "backoff"

\* A request commits on the database of its outermost run once: before it
\* runs it has no attempts; while it runs, only its bottom frame may be on a
\* committed attempt there.
NothingNew == \A r \in Requests : phase[r] = "new" =>
                 \A i \in DOMAIN attempts : attempts[i].by # r
AtHome(r, i) ==
    attempts[i].by = r =>
      /\ Outermost(i) => attempts[i].db = stack[r][1].db
      /\ attempts[i].db = stack[r][1].db /\ i # stack[r][1].id
           => attempts[i].outcome # "committed"
HomeKept == \A r \in Requests : Depth(r) > 0 =>
               \A i \in DOMAIN attempts : AtHome(r, i)
Once(r) == \A i, j \in DOMAIN attempts :
    /\ Outermost(i) /\ attempts[i].by = r /\ attempts[j].by = r
    /\ attempts[i].db = attempts[j].db
    /\ attempts[i].outcome = "committed" /\ attempts[j].outcome = "committed"
    => i = j
DoneOnce == \A r \in Requests : Depth(r) = 0 => Once(r)
HomeInv == NothingNew /\ HomeKept /\ DoneOnce

CallInv == FramesOwe /\ AttemptsFit /\ OthersSettled /\ TopWaits /\ HomeInv

LEMMA CallInvSays == CallInv => CallbacksMatchOutcome /\ CallbacksAllRun
<1> SUFFICES ASSUME CallInv PROVE CallbacksMatchOutcome /\ CallbacksAllRun
  OBVIOUS
<1>1. CallbacksMatchOutcome
  BY DEF CallInv, AttemptsFit, Fits, CallbacksMatchOutcome
<1>2. CallbacksAllRun
  BY DEF CallInv, OthersSettled, Settled, Running, CallbacksAllRun
<1> QED BY <1>1, <1>2

LEMMA AtHomeOnce ==
    ASSUME NEW r \in Requests, \A i \in DOMAIN attempts : AtHome(r, i)
    PROVE  Once(r)
BY DEF AtHome, Once

LEMMA HomeSays == Types /\ HomeInv => CommitsOnce
<1> SUFFICES ASSUME Types, HomeInv PROVE CommitsOnce
  OBVIOUS
<1>1. \A r \in Requests : Depth(r) \in Nat
  BY DEF Types, Depth
<1>2. \A r \in Requests : Once(r)
  BY <1>1, AtHomeOnce DEF HomeInv, HomeKept, DoneOnce
<1>3. \A i \in DOMAIN attempts : attempts[i].by \in Requests
  <2>1. \A i \in DOMAIN attempts : attempts[i] \in Attempt
    BY DEF Types
  <2> QED BY <2>1 DEF Attempt
<1> QED BY <1>2, <1>3 DEF CommitsOnce, Once

\* Later attempts change nothing about which database was the first.
LEMMA OutermostStays ==
    ASSUME NEW m \in Nat, NEW n \in Nat, m <= n,
           DOMAIN attempts = 1..m, DOMAIN attempts' = 1..n,
           \A j \in DOMAIN attempts : /\ attempts'[j].by = attempts[j].by
                                      /\ attempts'[j].db = attempts[j].db,
           NEW i \in DOMAIN attempts, Outermost(i)'
    PROVE  Outermost(i)
<1>1. PICK k \in DOMAIN attempts' :
         /\ attempts'[k].by = attempts'[i].by /\ attempts'[k].db = attempts'[i].db
         /\ \A l \in 1..(k - 1) : attempts'[l].by # attempts'[i].by
  BY DEF Outermost
<1>2. k <= i
  BY <1>1
<1>3. k \in DOMAIN attempts /\ \A l \in 1..(k - 1) : l \in DOMAIN attempts
  BY <1>2
<1> QED BY <1>1, <1>3 DEF Outermost

LEMMA OneFrameEach ==
    ASSUME Types, NEW q \in Requests, NEW r \in Requests,
           NEW i \in DOMAIN stack[q], NEW k \in DOMAIN stack[r],
           stack[q][i].id = stack[r][k].id
    PROVE  q = r /\ i = k
<1>1. /\ attempts[stack[q][i].id].by = q /\ attempts[stack[r][k].id].by = r
      /\ attempts[stack[q][i].id].db = stack[q][i].db
      /\ attempts[stack[r][k].id].db = stack[r][k].db
      /\ \A j \in DOMAIN stack[q] : stack[q][i].db = stack[q][j].db => i = j
  BY DEF Types, FramesOK
<1> QED BY <1>1

LEMMA AttemptType ==
    ASSUME Types, NEW j \in DOMAIN attempts
    PROVE  /\ attempts[j] \in Attempt /\ attempts[j].by \in Requests
           /\ attempts[j].outcome \in {"waiting", "open", "committed", "undone"}
           /\ attempts[j].dueCommit \in Nat /\ attempts[j].dueUndo \in Nat
           /\ attempts[j].ranCommit \in Nat /\ attempts[j].ranUndo \in Nat
<1>1. attempts[j] \in Attempt
  BY DEF Types
<1> QED BY <1>1 DEF Attempt

\* Frame k of r becomes f and its attempt becomes a.
Works(r, k, f, a) ==
    /\ k = Depth(r) \/ f.pc = stack[r][k].pc
    /\ f.db = stack[r][k].db /\ phase' = phase
    /\ k = Depth(r) \/ a.outcome = attempts[f.id].outcome
    /\ f.id = stack[r][k].id /\ a.by = r /\ a.db = attempts[f.id].db
    /\ stack' = [stack EXCEPT ![r][k] = f]
    /\ attempts' = [attempts EXCEPT ![f.id] = a]

LEMMA WorksKeeps ==
    ASSUME Types, CallInv, NEW r \in Requests, NEW k \in DOMAIN stack[r],
           NEW f \in Frame, NEW a \in Attempt, Works(r, k, f, a),
           Owes(f, a), Fits(a)
    PROVE  CallInv'
<1> DEFINE m == f.id
<1>1. /\ m \in DOMAIN attempts /\ attempts[m].by = r /\ m = stack[r][k].id
      /\ a.by = attempts[m].by /\ a.db = attempts[m].db
      /\ stack \in [Requests -> Seq(Frame)] /\ stack[r] \in Seq(Frame)
  BY DEF Types, FramesOK, Works
<1>2. /\ DOMAIN attempts' = DOMAIN attempts /\ attempts'[m] = a
      /\ \A j \in DOMAIN attempts \ {m} : attempts'[j] = attempts[j]
      /\ \A j \in DOMAIN attempts : attempts'[j].by = attempts[j].by
  BY <1>1, AttemptChanges DEF Works
<1> DEFINE t == [stack[r] EXCEPT ![k] = f]
<1>3. /\ stack' = [stack EXCEPT ![r] = t] /\ DOMAIN t = DOMAIN stack[r]
      /\ t[k] = f /\ \A i \in DOMAIN stack[r] \ {k} : t[i] = stack[r][i]
  BY <1>1, Replaced DEF Works
<1> HIDE DEF t
<1>4. /\ \A q \in Requests : DOMAIN stack'[q] = DOMAIN stack[q]
      /\ \A q \in Requests : \A i \in DOMAIN stack[q] :
            \/ q = r /\ i = k /\ stack'[q][i] = f
            \/ stack'[q][i] = stack[q][i] /\ stack[q][i].id # m
  BY <1>1, <1>3, OneFrameEach
<1>5. FramesOwe'
  <2> SUFFICES ASSUME NEW q \in Requests, NEW i \in DOMAIN stack'[q]
               PROVE  Owes(stack'[q][i], attempts'[stack'[q][i].id])
    BY DEF FramesOwe
  <2>1. CASE stack'[q][i] = f
    BY <1>2, <2>1
  <2>2. CASE stack'[q][i] = stack[q][i] /\ stack[q][i].id # m
    <3>1. i \in DOMAIN stack[q] /\ stack[q][i].id \in DOMAIN attempts
      BY <1>4 DEF Types, FramesOK
    <3>2. attempts'[stack'[q][i].id] = attempts[stack[q][i].id]
      BY <1>2, <2>2, <3>1
    <3> QED BY <2>2, <3>1, <3>2 DEF CallInv, FramesOwe
  <2> QED BY <1>4, <2>1, <2>2
<1>6. AttemptsFit'
  BY <1>2 DEF CallInv, AttemptsFit
<1>7. OthersSettled'
  <2> SUFFICES ASSUME NEW j \in DOMAIN attempts
               PROVE  Running(j)' \/ Settled(attempts'[j])
    BY <1>2 DEF OthersSettled
  <2>1. attempts[j].by \in Requests /\ attempts'[j].by = attempts[j].by
    BY <1>2, AttemptType
  <2>2. \A q \in Requests : \A i \in DOMAIN stack[q] :
           stack'[q][i].id = stack[q][i].id
    BY <1>1, <1>4
  <2>3. Running(j) => Running(j)'
    BY <1>4, <2>1, <2>2 DEF Running
  <2>4. Running(m)
    BY <1>1 DEF Running
  <2>5. j # m /\ Settled(attempts[j]) => Settled(attempts'[j])
    BY <1>2
  <2> QED BY <2>3, <2>4, <2>5 DEF CallInv, OthersSettled
<1>8. TopWaits'
  <2>1. \A q \in Requests : Depth(q)' = Depth(q)
    <3>1. \A q \in Requests : /\ stack'[q] \in Seq(Frame) /\ stack[q] \in Seq(Frame)
                              /\ DOMAIN stack'[q] = DOMAIN stack[q]
      BY <1>1, <1>3, <1>4, Replaced DEF t
    <3> QED BY <3>1 DEF Depth
  <2> QED BY <1>4, <2>1 DEF TopWaits, CallInv, Works
<1>9. HomeInv'
  <2>1. \A q \in Requests : Depth(q)' = Depth(q) /\ Depth(q) \in Nat
    <3>1. \A q \in Requests : /\ stack'[q] \in Seq(Frame) /\ stack[q] \in Seq(Frame)
                              /\ DOMAIN stack'[q] = DOMAIN stack[q]
      BY <1>1, <1>3, <1>4, Replaced DEF t
    <3> QED BY <3>1 DEF Depth
  <2>2. \A q \in Requests : \A i \in DOMAIN stack[q] :
           /\ stack'[q][i].id = stack[q][i].id
           /\ stack'[q][i].db = stack[q][i].db
    BY <1>1, <1>4 DEF Works
  <2>3. \A j \in DOMAIN attempts : /\ attempts'[j].by = attempts[j].by
                                   /\ attempts'[j].db = attempts[j].db
                                   /\ Outermost(j)' => Outermost(j)
    <3>1. \A j \in DOMAIN attempts : /\ attempts'[j].by = attempts[j].by
                                     /\ attempts'[j].db = attempts[j].db
      BY <1>1, <1>2
    <3>2. Len(attempts) \in Nat /\ DOMAIN attempts = 1..Len(attempts)
      BY DEF Types
    <3>3. ASSUME NEW j \in DOMAIN attempts, Outermost(j)'
          PROVE  Outermost(j)
      <4>1. Len(attempts) <= Len(attempts) /\ DOMAIN attempts' = 1..Len(attempts)
        BY <1>2, <3>2
      <4> QED BY <3>1, <3>2, <3>3, <4>1, OutermostStays
    <3> QED BY <3>1, <3>3
  <2>4. \A j \in DOMAIN attempts :
           attempts'[j].outcome = attempts[j].outcome \/ (j = m /\ k = Depth(r))
    BY <1>2 DEF Works
  <2>5. NothingNew'
    BY <1>2, <2>3 DEF Works, CallInv, HomeInv, NothingNew
  <2>6. HomeKept'
    <3> SUFFICES ASSUME NEW q \in Requests, Depth(q) > 0,
                        NEW i \in DOMAIN attempts
                 PROVE  AtHome(q, i)'
      BY <1>2, <2>1 DEF HomeKept
    <3>1. /\ AtHome(q, i) /\ 1 \in DOMAIN stack[q]
          /\ stack'[q][1].id = stack[q][1].id /\ stack'[q][1].db = stack[q][1].db
      <4>1. 1 \in DOMAIN stack[q]
        BY <2>1 DEF Types, Depth
      <4> QED BY <2>2, <4>1 DEF CallInv, HomeInv, HomeKept
    <3>2. CASE attempts'[i].outcome = attempts[i].outcome
      BY <2>3, <3>1, <3>2 DEF AtHome
    <3>3. CASE i = m /\ k = Depth(r)
      <4>1. attempts[i].by = r /\ attempts[i].db = stack[r][k].db
        BY <1>1, <3>3 DEF Types, FramesOK
      <4>2. q = r /\ attempts[i].db = stack[q][1].db => i = stack[q][1].id
        BY <1>1, <3>1, <3>3, <4>1 DEF Types, FramesOK
      <4> QED BY <2>3, <3>1, <4>1, <4>2 DEF AtHome
    <3> QED BY <2>4, <3>2, <3>3
  <2>7. DoneOnce'
    <3> SUFFICES ASSUME NEW q \in Requests, Depth(q) = 0
                 PROVE  Once(q)'
      BY <2>1 DEF DoneOnce
    <3>1. Once(q)
      BY DEF CallInv, HomeInv, DoneOnce
    <3>2. q # r
      BY <1>1 DEF Depth
    <3>3. \A j \in DOMAIN attempts :
             attempts[j].by = q => attempts'[j].outcome = attempts[j].outcome
      BY <1>1, <1>2, <3>2
    <3> QED BY <1>2, <2>3, <3>1, <3>3 DEF Once
  <2> QED BY <2>5, <2>6, <2>7 DEF HomeInv
<1> QED BY <1>5, <1>6, <1>7, <1>8, <1>9 DEF CallInv

\* The request of a new attempt has none before, or its bottom frame stays,
\* or it is the bottom frame that is repeated.
LEMMA JoinHome ==
    ASSUME Types, CallInv, NEW r \in Requests, NEW d \in Databases,
           NewAttempt(r, d), phase'[r] # "new",
           \A q \in Requests \ {r} :
               stack'[q] = stack[q] /\ phase'[q] = phase[q],
           Depth(r)' > 0,
           \/ phase[r] = "new" /\ stack'[r][1].db = d
           \/ Depth(r) > 0 /\ stack'[r][1] = stack[r][1]
           \/ /\ Depth(r) > 0 /\ stack[r][1].pc = "backoff"
              /\ stack'[r][1].db = stack[r][1].db
    PROVE  HomeInv'
<1>0. PICK n \in Nat \ {0} : n = Len(attempts) + 1 /\ DOMAIN attempts = 1..(n - 1)
  <2>1. Len(attempts) \in Nat /\ DOMAIN attempts = 1..Len(attempts)
    BY DEF Types
  <2>2. /\ Len(attempts) + 1 \in Nat \ {0}
        /\ DOMAIN attempts = 1..((Len(attempts) + 1) - 1)
    BY <2>1
  <2> QED BY <2>2
<1>1. /\ DOMAIN attempts' = 1..n /\ attempts'[n].by = r /\ attempts'[n].db = d
      /\ attempts'[n].outcome = "waiting"
      /\ \A j \in DOMAIN attempts : attempts'[j] = attempts[j]
  BY <1>0, AttemptJoins
<1>2. \A j \in DOMAIN attempts' : j \in DOMAIN attempts \/ j = n
  BY <1>0, <1>1
<1>3. ASSUME NEW j \in DOMAIN attempts, Outermost(j)'
      PROVE  Outermost(j)
  <2>1. n - 1 \in Nat /\ n - 1 <= n
    OBVIOUS
  <2> QED BY <1>0, <1>1, <1>3, <2>1, OutermostStays
<1>4. Depth(r) > 0 =>
        /\ 1 \in DOMAIN stack[r] /\ stack[r][1].id \in DOMAIN attempts
        /\ attempts[stack[r][1].id].by = r
  <2>1. Depth(r) > 0 => 1 \in DOMAIN stack[r]
    BY DEF Types, Depth
  <2> QED BY <2>1 DEF Types, FramesOK
<1>5. NothingNew'
  <2> SUFFICES ASSUME NEW q \in Requests, phase'[q] = "new",
                      NEW i \in DOMAIN attempts'
               PROVE  attempts'[i].by # q
    BY DEF NothingNew
  <2>1. q # r /\ phase[q] = "new"
    OBVIOUS
  <2> QED BY <1>1, <1>2, <2>1 DEF CallInv, HomeInv, NothingNew
<1>6. ASSUME NEW q \in Requests \ {r}, Depth(q)' > 0, NEW i \in DOMAIN attempts'
      PROVE  AtHome(q, i)'
  <2>1. stack'[q] = stack[q] /\ Depth(q) > 0
    BY <1>6 DEF Depth
  <2>2. CASE i = n
    BY <1>1, <2>2 DEF AtHome
  <2>3. CASE i \in DOMAIN attempts
    <3>1. AtHome(q, i) /\ attempts'[i] = attempts[i]
      BY <1>1, <2>1, <2>3 DEF CallInv, HomeInv, HomeKept
    <3> QED BY <1>3, <2>1, <2>3, <3>1 DEF AtHome
  <2> QED BY <1>2, <1>6, <2>2, <2>3
<1>7. ASSUME NEW i \in DOMAIN attempts
      PROVE  AtHome(r, i)'
  <2>1. attempts'[i] = attempts[i]
    BY <1>1
  <2>2. CASE phase[r] = "new"
    BY <2>1, <2>2 DEF CallInv, HomeInv, NothingNew, AtHome
  <2>3. CASE Depth(r) > 0 /\ stack'[r][1] = stack[r][1]
    <3>1. AtHome(r, i)
      BY <2>3 DEF CallInv, HomeInv, HomeKept
    <3> QED BY <1>3, <2>1, <2>3, <3>1 DEF AtHome
  <2>4. CASE /\ Depth(r) > 0 /\ stack[r][1].pc = "backoff"
             /\ stack'[r][1].db = stack[r][1].db
    <3>1. AtHome(r, i)
      BY <2>4 DEF CallInv, HomeInv, HomeKept
    <3>2. attempts[stack[r][1].id].outcome = "undone"
      <4>1. Owes(stack[r][1], attempts[stack[r][1].id])
        BY <1>4, <2>4 DEF CallInv, FramesOwe
      <4> QED BY <2>4, <4>1 DEF Owes
    <3> QED BY <1>3, <2>1, <2>4, <3>1, <3>2 DEF AtHome
  <2> QED BY <2>2, <2>3, <2>4
<1>8. AtHome(r, n)'
  <2> SUFFICES ASSUME Outermost(n)', Depth(r) > 0,
                      stack'[r][1].db = stack[r][1].db
               PROVE  d = stack'[r][1].db
    BY <1>1 DEF AtHome
  <2>1. PICK k \in DOMAIN attempts' :
           /\ attempts'[k].by = r /\ attempts'[k].db = d
           /\ \A l \in 1..(k - 1) : attempts'[l].by # r
    BY <1>1 DEF Outermost
  <2>2. k \in DOMAIN attempts
    <3> DEFINE m == stack[r][1].id
    <3>1. m \in DOMAIN attempts /\ attempts'[m].by = r
      BY <1>1, <1>4
    <3> HIDE DEF m
    <3>2. ~(m \in 1..(k - 1)) /\ m \in 1..(n - 1) /\ k \in 1..n
      BY <1>0, <1>1, <2>1, <3>1
    <3>3. k \in 1..(n - 1)
      BY <3>2
    <3> QED BY <1>0, <3>3
  <2>3. Outermost(k)
    <3>1. \A l \in 1..(k - 1) : l \in DOMAIN attempts
      BY <1>0, <2>2
    <3> QED BY <1>1, <2>1, <2>2, <3>1 DEF Outermost
  <2>4. AtHome(r, k)
    BY <2>2 DEF CallInv, HomeInv, HomeKept
  <2> QED BY <1>1, <2>1, <2>2, <2>3, <2>4 DEF AtHome
<1>9. HomeKept'
  BY <1>2, <1>6, <1>7, <1>8 DEF HomeKept
<1>10. DoneOnce'
  <2> SUFFICES ASSUME NEW q \in Requests, Depth(q)' = 0
               PROVE  Once(q)'
    BY DEF DoneOnce
  <2>1. q # r
    OBVIOUS
  <2>2. Once(q)
    BY <2>1 DEF Depth, CallInv, HomeInv, DoneOnce
  <2> QED BY <1>1, <1>2, <1>3, <2>1, <2>2 DEF Once
<1> QED BY <1>5, <1>9, <1>10 DEF HomeInv

\* A new attempt comes with a frame; the frame below or in its place is k's.
LEMMA JoinKeeps ==
    ASSUME Types, CallInv, NEW r \in Requests, NEW d \in Databases,
           NewAttempt(r, d), NEW number \in Nat \ {0},
           NEW f, f = NewFrame(d, number), Comes(f),
           \E k \in DOMAIN stack'[r] : stack'[r][k] = f, TopWaits', HomeInv',
           \A q \in Requests : \A i \in DOMAIN stack[q] :
               \/ i \in DOMAIN stack'[q] /\ stack'[q][i] = stack[q][i]
               \/ stack[q][i].pc = "backoff"
    PROVE  CallInv'
<1>0. PICK n \in Nat \ {0} : n = Len(attempts) + 1 /\ DOMAIN attempts = 1..(n - 1)
  <2>1. Len(attempts) \in Nat /\ DOMAIN attempts = 1..Len(attempts)
    BY DEF Types
  <2>2. /\ Len(attempts) + 1 \in Nat \ {0}
        /\ DOMAIN attempts = 1..((Len(attempts) + 1) - 1)
    BY <2>1
  <2> QED BY <2>2
<1>1. /\ n \notin DOMAIN attempts
      /\ DOMAIN attempts' = DOMAIN attempts \cup {n}
      /\ \A j \in DOMAIN attempts : attempts'[j] = attempts[j]
      /\ attempts'[n].by = r
  <2>1. /\ DOMAIN attempts' = 1..n /\ attempts'[n].by = r
        /\ \A j \in DOMAIN attempts : attempts'[j] = attempts[j]
    BY <1>0, AttemptJoins
  <2>2. 1..n = 1..(n - 1) \cup {n} /\ n \notin 1..(n - 1)
    OBVIOUS
  <2> QED BY <1>0, <2>1, <2>2
<1>2. attempts'[n] = [db |-> d, by |-> r, outcome |-> "waiting", dueCommit |-> 0,
                      dueUndo |-> 0, ranCommit |-> 0, ranUndo |-> 0]
  BY <1>0 DEF NewAttempt, Types
<1>3. f.id = n /\ f.callbacks = <<>> /\ f.undo = <<>> /\ f.pc = "queued"
  BY <1>0 DEF NewFrame
<1>4. Owes(f, attempts'[n]) /\ Fits(attempts'[n])
  BY <1>2, <1>3 DEF Owes, Fits
<1>5. FramesOwe'
  <2> SUFFICES ASSUME NEW q \in Requests, NEW i \in DOMAIN stack'[q]
               PROVE  Owes(stack'[q][i], attempts'[stack'[q][i].id])
    BY DEF FramesOwe
  <2>1. CASE stack'[q][i] = f
    BY <1>3, <1>4, <2>1
  <2>2. CASE i \in DOMAIN stack[q] /\ stack'[q][i] = stack[q][i]
    BY <1>1, <2>2 DEF CallInv, FramesOwe, Types, FramesOK
  <2> QED BY <2>1, <2>2 DEF Comes
<1>6. AttemptsFit'
  BY <1>1, <1>4 DEF CallInv, AttemptsFit
<1>7. OthersSettled'
  <2>1. Running(n)'
    BY <1>1, <1>3 DEF Running
  <2>2. ASSUME NEW j \in DOMAIN attempts
        PROVE  Running(j)' \/ Settled(attempts'[j])
    <3>1. attempts'[j] = attempts[j] /\ attempts[j].by \in Requests
      BY <1>1, AttemptType
    <3>2. CASE Settled(attempts[j])
      BY <3>1, <3>2
    <3>3. CASE Running(j)
      <4>1. PICK i \in DOMAIN stack[attempts[j].by] :
               stack[attempts[j].by][i].id = j
        BY <3>3 DEF Running
      <4>2. CASE /\ i \in DOMAIN stack'[attempts[j].by]
                 /\ stack'[attempts[j].by][i] = stack[attempts[j].by][i]
        BY <3>1, <4>1, <4>2 DEF Running
      <4>3. CASE stack[attempts[j].by][i].pc = "backoff"
        <5>1. Owes(stack[attempts[j].by][i], attempts[j])
          BY <3>1, <4>1 DEF CallInv, FramesOwe
        <5>2. /\ attempts[j].outcome = "undone"
              /\ attempts[j].dueUndo = attempts[j].ranUndo + 0
          BY <4>3, <5>1 DEF Owes
        <5>3. attempts[j].ranUndo \in Nat
          BY AttemptType
        <5> QED BY <3>1, <5>2, <5>3 DEF Settled
      <4> QED BY <3>1, <4>2, <4>3
    <3> QED BY <3>2, <3>3 DEF CallInv, OthersSettled
  <2> QED BY <1>1, <2>1, <2>2 DEF OthersSettled
<1> QED BY <1>5, <1>6, <1>7 DEF CallInv

LEMMA AfterCommitOwes ==
    ASSUME Types, CallInv, NEW r \in Requests, AfterCommit(r)
    PROVE  CallInv'
<1>1. PICK k \in DOMAIN stack[r] :
         /\ stack' = [stack EXCEPT ![r][k].callbacks = Append(@, stack[r][k].id)]
         /\ attempts' = [attempts EXCEPT ![stack[r][k].id].dueCommit = @ + 1]
         /\ phase' = phase
  BY DEF AfterCommit
<1> DEFINE g == stack[r][k]
           f == [g EXCEPT !.callbacks = Append(@, g.id)]
           b == attempts[g.id]
           a == [b EXCEPT !.dueCommit = @ + 1]
<1>2. /\ g \in Frame /\ g.id \in DOMAIN attempts /\ b \in Attempt /\ b.by = r
      /\ stack \in [Requests -> Seq(Frame)] /\ Owes(g, b) /\ Fits(b)
  BY DEF Types, FramesOK, CallInv, FramesOwe, AttemptsFit
<1>3. /\ stack' = [stack EXCEPT ![r][k] = f]
      /\ attempts' = [attempts EXCEPT ![g.id] = a]
  BY <1>1, <1>2
<1>4. /\ f.id = g.id /\ f.pc = g.pc /\ f.db = g.db
      /\ a.by = b.by /\ a.db = b.db /\ a.outcome = b.outcome
  BY <1>2 DEF Frame, Attempt
<1>5. Works(r, k, f, a)
  BY <1>1, <1>2, <1>3, <1>4 DEF Works
<1>6. f \in Frame /\ a \in Attempt /\ Owes(f, a) /\ Fits(a)
  <2> HIDE DEF g, b
  <2>1. /\ g.callbacks \in Seq(Nat) /\ g.id \in Nat
        /\ b.dueCommit \in Nat /\ b.ranCommit \in Nat
    BY <1>2 DEF Frame, Attempt
  <2> DEFINE l == Append(g.callbacks, g.id)
             n == b.dueCommit + 1
  <2>2. /\ l \in Seq(Nat) /\ Len(l) = Len(g.callbacks) + 1 /\ Len(g.callbacks) \in Nat
        /\ \A i \in DOMAIN l : (i \in DOMAIN g.callbacks /\ l[i] = g.callbacks[i]) \/ l[i] = g.id
    BY <2>1
  <2>3. \A i \in DOMAIN l : l[i] = g.id
    BY <1>2, <2>2 DEF Owes
  <2>4. n \in Nat /\ n = b.ranCommit + Len(l) /\ b.ranCommit <= n
    BY <1>2, <2>1, <2>2 DEF Owes
  <2>5. f = [g EXCEPT !.callbacks = l] /\ a = [b EXCEPT !.dueCommit = n]
    OBVIOUS
  <2> HIDE DEF l, n, f, a
  <2>6. f \in Frame /\ f.id = g.id /\ f.callbacks = l /\ f.undo = g.undo /\ f.pc = g.pc
    BY <1>2, <2>2, <2>5 DEF Frame
  <2>7. /\ a \in Attempt /\ a.outcome = b.outcome /\ a.dueCommit = n
        /\ a.dueUndo = b.dueUndo
        /\ a.ranCommit = b.ranCommit /\ a.ranUndo = b.ranUndo
    BY <1>2, <2>4, <2>5 DEF Attempt
  <2>8. Owes(f, a)
    <3>1. Owes(g, b)
      BY <1>2
    <3> QED BY <2>3, <2>4, <2>6, <2>7, <3>1 DEF Owes
  <2>9. Fits(a)
    BY <1>2, <2>4, <2>7 DEF Fits
  <2> QED BY <2>6, <2>7, <2>8, <2>9
<1> HIDE DEF f, a
<1> QED BY <1>5, <1>6, WorksKeeps

LEMMA AfterRollbackOwes ==
    ASSUME Types, CallInv, NEW r \in Requests, AfterRollback(r)
    PROVE  CallInv'
<1>1. PICK k \in DOMAIN stack[r] :
         /\ InBody(r)
         /\ stack' = [stack EXCEPT ![r][k].undo = Append(@, stack[r][k].id)]
         /\ attempts' = [attempts EXCEPT ![stack[r][k].id].dueUndo = @ + 1]
         /\ phase' = phase
  BY DEF AfterRollback
<1> DEFINE g == stack[r][k]
           f == [g EXCEPT !.undo = Append(@, g.id)]
           b == attempts[g.id]
           a == [b EXCEPT !.dueUndo = @ + 1]
<1>2. /\ g \in Frame /\ g.id \in DOMAIN attempts /\ b \in Attempt /\ b.by = r
      /\ stack \in [Requests -> Seq(Frame)] /\ Owes(g, b) /\ Fits(b)
  BY DEF Types, FramesOK, CallInv, FramesOwe, AttemptsFit
<1>3. /\ stack' = [stack EXCEPT ![r][k] = f]
      /\ attempts' = [attempts EXCEPT ![g.id] = a]
  BY <1>1, <1>2
<1>4. /\ f.id = g.id /\ f.pc = g.pc /\ f.db = g.db
      /\ a.by = b.by /\ a.db = b.db /\ a.outcome = b.outcome
  BY <1>2 DEF Frame, Attempt
<1>5. Works(r, k, f, a)
  BY <1>1, <1>2, <1>3, <1>4 DEF Works
<1>b. g.pc # "backoff"
  BY <1>1 DEF CallInv, TopWaits, InBody, Top
<1>6. f \in Frame /\ a \in Attempt /\ Owes(f, a) /\ Fits(a)
  <2> HIDE DEF g, b
  <2>1. /\ g.undo \in Seq(Nat) /\ g.id \in Nat
        /\ b.dueUndo \in Nat /\ b.ranUndo \in Nat
    BY <1>2 DEF Frame, Attempt
  <2> DEFINE l == Append(g.undo, g.id)
             n == b.dueUndo + 1
  <2>2. /\ l \in Seq(Nat) /\ Len(l) = Len(g.undo) + 1 /\ Len(g.undo) \in Nat
        /\ \A i \in DOMAIN l : (i \in DOMAIN g.undo /\ l[i] = g.undo[i]) \/ l[i] = g.id
    BY <2>1
  <2>3. \A i \in DOMAIN l : l[i] = g.id
    BY <1>2, <2>2 DEF Owes
  <2>4. n \in Nat /\ n = b.ranUndo + Len(l) /\ b.ranUndo <= n
    BY <1>2, <2>1, <2>2 DEF Owes
  <2>5. f = [g EXCEPT !.undo = l] /\ a = [b EXCEPT !.dueUndo = n]
    OBVIOUS
  <2> HIDE DEF l, n, f, a
  <2>6. f \in Frame /\ f.id = g.id /\ f.undo = l /\ f.callbacks = g.callbacks /\ f.pc = g.pc
    BY <1>2, <2>2, <2>5 DEF Frame
  <2>7. /\ a \in Attempt /\ a.outcome = b.outcome /\ a.dueUndo = n
        /\ a.dueCommit = b.dueCommit
        /\ a.ranCommit = b.ranCommit /\ a.ranUndo = b.ranUndo
    BY <1>2, <2>4, <2>5 DEF Attempt
  <2>8. Owes(f, a)
    <3>1. Owes(g, b)
      BY <1>2
    <3> QED BY <1>b, <2>3, <2>4, <2>6, <2>7, <3>1 DEF Owes
  <2>9. Fits(a)
    BY <1>2, <2>4, <2>7 DEF Fits
  <2> QED BY <2>6, <2>7, <2>8, <2>9
<1> HIDE DEF f, a
<1> QED BY <1>5, <1>6, WorksKeeps

LEMMA RunCallbackOwes ==
    ASSUME Types, CallInv, NEW r \in Requests, RunCallback(r)
    PROVE  CallInv'
<1>1. PICK e \in {"none", "fatal", "late"} :
         /\ Depth(r) > 0 /\ Top(r).pc = "flushing" /\ Top(r).callbacks # <<>>
         /\ SetTop(r, [Top(r) EXCEPT !.callbacks = Tail(@),
                                     !.failure = First(Top(r), e)])
         /\ attempts' = [attempts EXCEPT ![Head(Top(r).callbacks)].ranCommit = @ + 1]
         /\ phase' = phase
  BY DEF RunCallback
<1> DEFINE k == Depth(r)
           g == stack[r][k]
           f == [g EXCEPT !.callbacks = Tail(@), !.failure = First(g, e)]
           b == attempts[g.id]
           a == [b EXCEPT !.ranCommit = @ + 1]
<1>2. /\ k \in DOMAIN stack[r] /\ g = Top(r) /\ g.pc = "flushing" /\ g.callbacks # <<>>
      /\ g \in Frame /\ g.id \in DOMAIN attempts /\ b \in Attempt /\ b.by = r
      /\ stack \in [Requests -> Seq(Frame)] /\ Owes(g, b) /\ Fits(b)
  <2>1. k \in DOMAIN stack[r] /\ g = Top(r)
    BY <1>1, TopFrame DEF Top
  <2> QED BY <1>1, <2>1 DEF Types, FramesOK, CallInv, FramesOwe, AttemptsFit
<1> DEFINE l == Tail(g.callbacks)
           x == First(g, e)
<1>3. /\ Head(g.callbacks) = g.id /\ l \in Seq(Nat) /\ Len(l) \in Nat
      /\ Len(g.callbacks) = Len(l) + 1
      /\ \A i \in DOMAIN l : l[i] = g.id
  <2> HIDE DEF g
  <2>1. g.callbacks \in Seq(Nat) /\ g.callbacks # <<>>
    BY <1>2 DEF Frame
  <2>2. /\ Head(g.callbacks) = g.callbacks[1] /\ 1 \in DOMAIN g.callbacks
        /\ l \in Seq(Nat) /\ Len(l) \in Nat /\ Len(g.callbacks) = Len(l) + 1
        /\ \A i \in DOMAIN l : i + 1 \in DOMAIN g.callbacks /\ l[i] = g.callbacks[i + 1]
    BY <2>1
  <2> QED BY <1>2, <2>2 DEF Owes
<1>4. /\ stack' = [stack EXCEPT ![r][k] = f]
      /\ attempts' = [attempts EXCEPT ![g.id] = a]
  BY <1>1, <1>2, <1>3 DEF SetTop
<1>5. x \in Errors
  BY <1>2 DEF First, Frame, Errors
<1>6. f = [g EXCEPT !.callbacks = l, !.failure = x]
  OBVIOUS
<1>k. k = Depth(r) /\ g = stack[r][k] /\ b = attempts[g.id]
  OBVIOUS
<1> HIDE DEF g, l, x, f, k
<1>7. /\ f \in Frame /\ f.db = g.db /\ f.id = g.id /\ f.callbacks = l /\ f.undo = g.undo
      /\ f.pc = "flushing"
  BY <1>2, <1>3, <1>5, <1>6 DEF Frame
<1> DEFINE n == b.ranCommit + 1
<1>8. /\ n \in Nat /\ b.dueCommit = n + Len(l) /\ n <= b.dueCommit /\ n > 0
      /\ b.outcome = "committed"
  <2>1. b.ranCommit \in Nat /\ b.dueCommit \in Nat
    BY <1>2 DEF Attempt
  <2> HIDE DEF b
  <2>2. b.dueCommit = b.ranCommit + (Len(l) + 1) /\ b.outcome = "committed"
    BY <1>2, <1>3 DEF Owes
  <2>3. /\ b.ranCommit + 1 \in Nat /\ b.dueCommit = (b.ranCommit + 1) + Len(l)
        /\ b.ranCommit + 1 <= b.dueCommit /\ b.ranCommit + 1 > 0
    <3> DEFINE ran == b.ranCommit
               due == b.dueCommit
               left == Len(l)
    <3>1. ran \in Nat /\ due \in Nat /\ left \in Nat /\ due = ran + (left + 1)
      BY <1>3, <2>1, <2>2
    <3> HIDE DEF ran, due, left
    <3>2. /\ ran + 1 \in Nat /\ due = (ran + 1) + left
          /\ ran + 1 <= due /\ ran + 1 > 0
      BY <3>1
    <3> QED BY <3>2 DEF ran, due, left
  <2> QED BY <2>2, <2>3
<1>9. a = [b EXCEPT !.ranCommit = n]
  OBVIOUS
<1> HIDE DEF b, a, n
<1>10. /\ a \in Attempt /\ a.by = b.by /\ a.db = b.db /\ a.outcome = b.outcome
       /\ a.ranCommit = n /\ a.ranUndo = b.ranUndo
       /\ a.dueCommit = b.dueCommit /\ a.dueUndo = b.dueUndo
  BY <1>2, <1>8, <1>9 DEF Attempt
<1>11. Owes(f, a) /\ Fits(a)
  BY <1>2, <1>3, <1>7, <1>8, <1>10 DEF Owes, Fits
<1>12. Works(r, k, f, a)
  BY <1>1, <1>2, <1>4, <1>7, <1>10, <1>k DEF Works
<1> QED BY <1>2, <1>7, <1>10, <1>11, <1>12, WorksKeeps

LEMMA RunUndoOwes ==
    ASSUME Types, CallInv, NEW r \in Requests, RunUndo(r)
    PROVE  CallInv'
<1>1. PICK e \in {"none", "retriable", "fatal"} :
         /\ Depth(r) > 0 /\ Top(r).pc = "undoing" /\ Top(r).undo # <<>>
         /\ SetTop(r, [Top(r) EXCEPT !.undo = Tail(@),
                                     !.failure = First(Top(r), e)])
         /\ attempts' = [attempts EXCEPT ![Head(Top(r).undo)].ranUndo = @ + 1]
         /\ phase' = phase
  BY DEF RunUndo
<1> DEFINE k == Depth(r)
           g == stack[r][k]
           f == [g EXCEPT !.undo = Tail(@), !.failure = First(g, e)]
           b == attempts[g.id]
           a == [b EXCEPT !.ranUndo = @ + 1]
<1>2. /\ k \in DOMAIN stack[r] /\ g = Top(r) /\ g.pc = "undoing" /\ g.undo # <<>>
      /\ g \in Frame /\ g.id \in DOMAIN attempts /\ b \in Attempt /\ b.by = r
      /\ stack \in [Requests -> Seq(Frame)] /\ Owes(g, b) /\ Fits(b)
  <2>1. k \in DOMAIN stack[r] /\ g = Top(r)
    BY <1>1, TopFrame DEF Top
  <2> QED BY <1>1, <2>1 DEF Types, FramesOK, CallInv, FramesOwe, AttemptsFit
<1> DEFINE l == Tail(g.undo)
           x == First(g, e)
<1>3. /\ Head(g.undo) = g.id /\ l \in Seq(Nat) /\ Len(l) \in Nat
      /\ Len(g.undo) = Len(l) + 1
      /\ \A i \in DOMAIN l : l[i] = g.id
  <2> HIDE DEF g
  <2>1. g.undo \in Seq(Nat) /\ g.undo # <<>>
    BY <1>2 DEF Frame
  <2>2. /\ Head(g.undo) = g.undo[1] /\ 1 \in DOMAIN g.undo
        /\ l \in Seq(Nat) /\ Len(l) \in Nat /\ Len(g.undo) = Len(l) + 1
        /\ \A i \in DOMAIN l : i + 1 \in DOMAIN g.undo /\ l[i] = g.undo[i + 1]
    BY <2>1
  <2> QED BY <1>2, <2>2 DEF Owes
<1>4. /\ stack' = [stack EXCEPT ![r][k] = f]
      /\ attempts' = [attempts EXCEPT ![g.id] = a]
  BY <1>1, <1>2, <1>3 DEF SetTop
<1>5. x \in Errors
  BY <1>2 DEF First, Frame, Errors
<1>6. f = [g EXCEPT !.undo = l, !.failure = x]
  OBVIOUS
<1>k. k = Depth(r) /\ g = stack[r][k] /\ b = attempts[g.id]
  OBVIOUS
<1> HIDE DEF g, l, x, f, k
<1>7. /\ f \in Frame /\ f.db = g.db /\ f.id = g.id /\ f.undo = l /\ f.callbacks = g.callbacks
      /\ f.pc = "undoing"
  BY <1>2, <1>3, <1>5, <1>6 DEF Frame
<1> DEFINE n == b.ranUndo + 1
<1>8. /\ n \in Nat /\ b.dueUndo = n + Len(l) /\ n <= b.dueUndo /\ n > 0
      /\ b.outcome = "undone"
  <2>1. b.ranUndo \in Nat /\ b.dueUndo \in Nat
    BY <1>2 DEF Attempt
  <2> HIDE DEF b
  <2>2. b.dueUndo = b.ranUndo + (Len(l) + 1) /\ b.outcome = "undone"
    BY <1>2, <1>3 DEF Owes
  <2>3. /\ b.ranUndo + 1 \in Nat /\ b.dueUndo = (b.ranUndo + 1) + Len(l)
        /\ b.ranUndo + 1 <= b.dueUndo /\ b.ranUndo + 1 > 0
    <3> DEFINE ran == b.ranUndo
               due == b.dueUndo
               left == Len(l)
    <3>1. ran \in Nat /\ due \in Nat /\ left \in Nat /\ due = ran + (left + 1)
      BY <1>3, <2>1, <2>2
    <3> HIDE DEF ran, due, left
    <3>2. /\ ran + 1 \in Nat /\ due = (ran + 1) + left
          /\ ran + 1 <= due /\ ran + 1 > 0
      BY <3>1
    <3> QED BY <3>2 DEF ran, due, left
  <2> QED BY <2>2, <2>3
<1>9. a = [b EXCEPT !.ranUndo = n]
  OBVIOUS
<1> HIDE DEF b, a, n
<1>10. /\ a \in Attempt /\ a.by = b.by /\ a.db = b.db /\ a.outcome = b.outcome
       /\ a.ranUndo = n /\ a.ranCommit = b.ranCommit
       /\ a.dueCommit = b.dueCommit /\ a.dueUndo = b.dueUndo
  BY <1>2, <1>8, <1>9 DEF Attempt
<1>11. Owes(f, a) /\ Fits(a)
  BY <1>2, <1>3, <1>7, <1>8, <1>10 DEF Owes, Fits
<1>12. Works(r, k, f, a)
  BY <1>1, <1>2, <1>4, <1>7, <1>10, <1>k DEF Works
<1> QED BY <1>2, <1>7, <1>10, <1>11, <1>12, WorksKeeps

\* The attempt of the innermost run, which has run nothing, begins or ends.
LEMMA OutcomeOwes ==
    ASSUME Types, CallInv, NEW r \in Requests, Depth(r) > 0,
           attempts[Top(r).id].outcome \in {"waiting", "open"},
           NEW o \in {"open", "committed", "undone"},
           NEW f \in Frame, f.id = Top(r).id, f.db = Top(r).db, phase' = phase,
           f.callbacks = Top(r).callbacks, f.undo = Top(r).undo,
           \/ f.pc = "body"
           \/ f.pc = "flushing" /\ o = "committed"
           \/ f.pc = "undoing" /\ o = "undone",
           SetTop(r, f),
           attempts' = [attempts EXCEPT ![Top(r).id].outcome = o]
    PROVE  CallInv'
<1> DEFINE k == Depth(r)
           g == stack[r][k]
           b == attempts[g.id]
           a == [b EXCEPT !.outcome = o]
<1>1. /\ k \in DOMAIN stack[r] /\ g = Top(r)
      /\ g \in Frame /\ g.id \in DOMAIN attempts /\ b \in Attempt /\ b.by = r
      /\ stack \in [Requests -> Seq(Frame)] /\ Owes(g, b) /\ Fits(b)
  <2>1. k \in DOMAIN stack[r] /\ g = Top(r)
    BY TopFrame DEF Top
  <2> QED BY <2>1 DEF Types, FramesOK, CallInv, FramesOwe, AttemptsFit
<1>2. /\ stack' = [stack EXCEPT ![r][k] = f]
      /\ attempts' = [attempts EXCEPT ![g.id] = a]
  BY <1>1 DEF SetTop
<1>3. /\ f.id = g.id /\ f.callbacks = g.callbacks /\ f.undo = g.undo
      /\ f.db = g.db /\ b.outcome \in {"waiting", "open"}
  BY <1>1
<1>k. k = Depth(r) /\ g = stack[r][k] /\ b = attempts[g.id]
  OBVIOUS
<1> HIDE DEF g, k
<1>4. b.ranCommit \in Nat /\ b.ranUndo \in Nat
  BY <1>1 DEF Attempt
<1>5. b.ranCommit = 0 /\ b.ranUndo = 0
  BY <1>1, <1>3, <1>4 DEF Fits
<1>6. a = [b EXCEPT !.outcome = o]
  OBVIOUS
<1> HIDE DEF b, a
<1>7. /\ a \in Attempt /\ a.by = b.by /\ a.db = b.db /\ a.outcome = o
      /\ a.ranCommit = b.ranCommit /\ a.ranUndo = b.ranUndo
      /\ a.dueCommit = b.dueCommit /\ a.dueUndo = b.dueUndo
  BY <1>1, <1>6 DEF Attempt
<1>8. Owes(f, a) /\ Fits(a)
  BY <1>1, <1>3, <1>5, <1>7 DEF Owes, Fits
<1>9. Works(r, k, f, a)
  BY <1>1, <1>2, <1>3, <1>7, <1>k DEF Works
<1> QED BY <1>1, <1>7, <1>8, <1>9, WorksKeeps

LEMMA BeginOwes ==
    ASSUME Types, QueueInv, CallInv, NEW r \in Requests, Begin(r)
    PROVE  CallInv'
<1> DEFINE f == [Top(r) EXCEPT !.pc = "body"]
<1>1. /\ Depth(r) > 0 /\ Top(r).pc = "queued" /\ SetTop(r, f)
      /\ attempts' = [attempts EXCEPT ![Top(r).id].outcome = "open"]
      /\ phase' = phase
  BY DEF Begin
<1>2. /\ Top(r) \in Frame
      /\ attempts[Top(r).id].outcome \in {"waiting", "open"}
  BY <1>1, TopFrame DEF QueueInv, FramesKnow, Waits, Top
<1>3. /\ f \in Frame /\ f.db = Top(r).db /\ f.id = Top(r).id /\ f.pc = "body"
      /\ f.callbacks = Top(r).callbacks /\ f.undo = Top(r).undo
  BY <1>2 DEF Frame, Stages
<1> HIDE DEF f
<1> QED BY <1>1, <1>2, <1>3, OutcomeOwes

LEMMA CommitOwes ==
    ASSUME Types, QueueInv, CallInv, NEW r \in Requests, Commit(r)
    PROVE  CallInv'
<1> DEFINE f == [Top(r) EXCEPT !.pc = "flushing"]
<1>1. /\ Depth(r) > 0 /\ Top(r).pc = "body" /\ SetTop(r, f)
      /\ attempts' = [attempts EXCEPT ![Top(r).id].outcome = "committed"]
      /\ phase' = phase
  BY DEF Commit, InBody
<1>2. /\ Top(r) \in Frame
      /\ attempts[Top(r).id].outcome \in {"waiting", "open"}
  BY <1>1, TopFrame DEF QueueInv, FramesKnow, Top
<1>3. /\ f \in Frame /\ f.db = Top(r).db /\ f.id = Top(r).id /\ f.pc = "flushing"
      /\ f.callbacks = Top(r).callbacks /\ f.undo = Top(r).undo
  BY <1>2 DEF Frame, Stages
<1> HIDE DEF f
<1> QED BY <1>1, <1>2, <1>3, OutcomeOwes

LEMMA RollBackOwes ==
    ASSUME Types, QueueInv, CallInv, NEW r \in Requests, RollBack(r)
    PROVE  CallInv'
<1>1. PICK e \in Errors \ {"none"} :
         /\ Depth(r) > 0 /\ Top(r).pc = "body"
         /\ SetTop(r, [Top(r) EXCEPT !.pc = "undoing", !.error = e])
         /\ attempts' = [attempts EXCEPT ![Top(r).id].outcome = "undone"]
         /\ phase' = phase
  BY DEF RollBack
<1> DEFINE f == [Top(r) EXCEPT !.pc = "undoing", !.error = e]
<1>2. /\ Top(r) \in Frame
      /\ attempts[Top(r).id].outcome \in {"waiting", "open"}
  BY <1>1, TopFrame DEF QueueInv, FramesKnow, Top
<1>3. /\ f \in Frame /\ f.db = Top(r).db /\ f.id = Top(r).id /\ f.pc = "undoing"
      /\ f.callbacks = Top(r).callbacks /\ f.undo = Top(r).undo
  BY <1>2 DEF Frame, Stages
<1>4. SetTop(r, f)
  BY <1>1
<1> HIDE DEF f
<1> QED BY <1>1, <1>2, <1>3, <1>4, OutcomeOwes

LEMMA BackOffOwes ==
    ASSUME Types, CallInv, NEW r \in Requests, BackOff(r)
    PROVE  CallInv'
<1> DEFINE k == Depth(r)
           g == stack[r][k]
           f == [g EXCEPT !.pc = "backoff"]
           a == attempts[g.id]
<1>1. /\ k > 0 /\ Top(r).pc = "undoing" /\ Top(r).undo = <<>>
      /\ stack' = [stack EXCEPT ![r][k] = f] /\ attempts' = attempts
      /\ phase' = phase
  BY DEF BackOff, SetTop, Top
<1>2. /\ k \in DOMAIN stack[r] /\ g = Top(r) /\ g.pc = "undoing" /\ g.undo = <<>>
      /\ g \in Frame /\ g.id \in DOMAIN attempts /\ a \in Attempt /\ a.by = r
      /\ Owes(g, a) /\ Fits(a)
  <2>1. k \in DOMAIN stack[r] /\ g = Top(r)
    BY <1>1, TopFrame DEF Top
  <2> QED BY <1>1, <2>1 DEF Types, FramesOK, CallInv, FramesOwe, AttemptsFit
<1>3. attempts' = [attempts EXCEPT ![g.id] = a] /\ attempts \in Seq(Attempt)
  BY <1>1 DEF Types
<1>4. k = Depth(r) /\ g = stack[r][k] /\ a = attempts[g.id]
  OBVIOUS
<1>5. f = [g EXCEPT !.pc = "backoff"]
  OBVIOUS
<1> HIDE DEF f, a, g, k
<1>6. /\ f \in Frame /\ f.db = g.db /\ f.id = g.id /\ f.pc = "backoff"
      /\ f.callbacks = g.callbacks /\ f.undo = g.undo
  BY <1>2, <1>5 DEF Frame, Stages
<1>7. Owes(f, a)
  BY <1>2, <1>6 DEF Owes
<1>8. Works(r, k, f, a)
  BY <1>1, <1>2, <1>3, <1>4, <1>6 DEF Works
<1> QED BY <1>2, <1>6, <1>7, <1>8, WorksKeeps

\* A request that has not begun has no frames.
Fresh == \A r \in Requests : phase[r] = "new" => Depth(r) = 0

LEMMA RunOwes ==
    ASSUME Types, CallInv, NEW r \in Requests, Run(r), Depth(r) = 0
    PROVE  CallInv'
<1>1. PICK d \in Roots :
         /\ stack' = [stack EXCEPT ![r] = <<NewFrame(d, 1)>>] /\ NewAttempt(r, d)
         /\ phase[r] = "new" /\ phase' = [phase EXCEPT ![r] = "running"]
  BY DEF Run
<1>0. PICK f : f = NewFrame(d, 1)
  OBVIOUS
<1>2. d \in Databases /\ f.pc = "queued" /\ f.db = d /\ DOMAIN stack[r] = {}
      /\ stack \in [Requests -> Seq(Frame)]
  BY <1>0, DatabasesAssumption DEF NewFrame, Types, Depth
<1>3. /\ stack' = [stack EXCEPT ![r] = <<f>>] /\ stack'[r] = <<f>>
      /\ \A q \in Requests \ {r} : stack'[q] = stack[q]
  BY <1>0, <1>1, <1>2
<1>4. /\ DOMAIN stack'[r] = 1..1 /\ stack'[r][1] = f /\ 1 \in DOMAIN stack'[r]
  BY <1>3
<1>5. Comes(f)
  BY <1>3, <1>4 DEF Comes
<1>6. TopWaits'
  <2>1. \A q \in Requests \ {r} : Depth(q)' = Depth(q)
    BY <1>3 DEF Depth
  <2> QED BY <1>2, <1>3, <1>4, <2>1 DEF CallInv, TopWaits
<1>7. \A q \in Requests : \A i \in DOMAIN stack[q] :
         i \in DOMAIN stack'[q] /\ stack'[q][i] = stack[q][i]
  BY <1>2, <1>3
<1>8. HomeInv'
  <2>1. phase'[r] # "new" /\ \A q \in Requests \ {r} : phase'[q] = phase[q]
    BY <1>1 DEF Types
  <2>2. Depth(r)' > 0 /\ stack'[r][1].db = d
    BY <1>2, <1>3, <1>4 DEF Depth
  <2> QED BY <1>1, <1>2, <1>3, <2>1, <2>2, JoinHome
<1> QED BY <1>0, <1>1, <1>2, <1>4, <1>5, <1>6, <1>7, <1>8, JoinKeeps

LEMMA RunInsideOwes ==
    ASSUME Types, CallInv, Fresh, NEW r \in Requests, RunInside(r)
    PROVE  CallInv'
<1>1. PICK d \in Databases :
         /\ InBody(r) /\ NewAttempt(r, d) /\ phase' = phase
         /\ stack' = [stack EXCEPT ![r] = Append(@, NewFrame(d, 1))]
  BY DEF RunInside
<1>0. PICK f : f = NewFrame(d, 1)
  OBVIOUS
<1>2. /\ f.pc = "queued" /\ stack[r] \in Seq(Frame) /\ f \in Frame
      /\ stack \in [Requests -> Seq(Frame)]
  BY <1>0, FrameType DEF Types
<1>3. /\ stack'[r] = Append(stack[r], f)
      /\ \A q \in Requests \ {r} : stack'[q] = stack[q]
  BY <1>0, <1>1, <1>2
<1>4. /\ DOMAIN stack'[r] = 1..(Depth(r) + 1) /\ stack'[r][Depth(r) + 1] = f
      /\ Depth(r) \in Nat /\ Depth(r)' = Depth(r) + 1
      /\ \A i \in DOMAIN stack[r] :
            i \in DOMAIN stack'[r] /\ stack'[r][i] = stack[r][i]
      /\ DOMAIN stack[r] = 1..Depth(r) /\ Depth(r) + 1 \in DOMAIN stack'[r]
  BY <1>2, <1>3 DEF Depth
<1>5. \A i \in DOMAIN stack'[r] : i \in DOMAIN stack[r] \/ i = Depth(r) + 1
  BY <1>4
<1>6. Comes(f)
  BY <1>3, <1>4, <1>5 DEF Comes
<1>7. TopWaits'
  <2>1. \A q \in Requests \ {r} : Depth(q)' = Depth(q)
    BY <1>3 DEF Depth
  <2>2. \A i \in DOMAIN stack[r] : stack[r][i].pc # "backoff"
    BY <1>1 DEF InBody, Top, CallInv, TopWaits
  <2> QED BY <1>2, <1>3, <1>4, <1>5, <2>1, <2>2 DEF CallInv, TopWaits
<1>8. \A q \in Requests : \A i \in DOMAIN stack[q] :
         i \in DOMAIN stack'[q] /\ stack'[q][i] = stack[q][i]
  BY <1>3, <1>4
<1>9. HomeInv'
  <2>1. Depth(r) > 0 /\ Depth(r)' > 0 /\ stack'[r][1] = stack[r][1]
    BY <1>1, <1>4 DEF InBody
  <2>2. phase[r] # "new"
    BY <1>1 DEF Fresh, InBody
  <2> QED BY <1>1, <1>3, <2>1, <2>2, JoinHome
<1> QED BY <1>0, <1>1, <1>4, <1>6, <1>7, <1>8, <1>9, JoinKeeps

LEMMA RetryOwes ==
    ASSUME Types, CallInv, Fresh, NEW r \in Requests, Retry(r)
    PROVE  CallInv'
<1>1. /\ Depth(r) > 0 /\ Top(r).pc = "backoff" /\ NewAttempt(r, Top(r).db)
      /\ SetTop(r, NewFrame(Top(r).db, Top(r).number + 1)) /\ phase' = phase
  BY DEF Retry
<1>2. PICK d, number, f, k :
         /\ d = Top(r).db /\ number = Top(r).number + 1
         /\ f = NewFrame(d, number) /\ k = Depth(r)
  OBVIOUS
<1>3. /\ d \in Databases /\ number \in Nat \ {0} /\ k \in DOMAIN stack[r]
      /\ k \in 1..Len(stack[r]) /\ stack[r] \in Seq(Frame) /\ f \in Frame
      /\ stack \in [Requests -> Seq(Frame)] /\ stack[r][k].pc = "backoff"
      /\ f.pc = "queued"
  <2>1. Top(r) \in Frame /\ k \in DOMAIN stack[r]
    BY <1>1, <1>2, TopFrame
  <2>2. Top(r).db \in Databases /\ Top(r).number \in Nat
    BY <2>1 DEF Frame
  <2>3. d \in Databases /\ number \in Nat \ {0}
    BY <1>2, <2>2
  <2> QED BY <1>1, <1>2, <2>1, <2>3, FrameType DEF Types, Top
<1> DEFINE t == [stack[r] EXCEPT ![k] = f]
<1>4. /\ t \in Seq(Frame) /\ Len(t) = Len(stack[r]) /\ DOMAIN t = DOMAIN stack[r]
      /\ t[k] = f /\ \A i \in DOMAIN stack[r] \ {k} : t[i] = stack[r][i]
  BY <1>3, Replaced
<1>5. stack' = [stack EXCEPT ![r] = t]
  BY <1>1, <1>2 DEF SetTop
<1> HIDE DEF t
<1>6. stack'[r] = t /\ \A q \in Requests \ {r} : stack'[q] = stack[q]
  BY <1>3, <1>5
<1>7. Comes(f)
  BY <1>4, <1>6 DEF Comes
<1>8. TopWaits'
  <2>1. \A q \in Requests : Depth(q)' = Depth(q)
    BY <1>4, <1>6 DEF Depth
  <2>2. \A i \in DOMAIN stack'[r] :
           i # Depth(r) => stack'[r][i].pc # "backoff"
    BY <1>2, <1>4, <1>6 DEF CallInv, TopWaits
  <2> QED BY <1>6, <2>1, <2>2 DEF CallInv, TopWaits
<1>9. \A q \in Requests : \A i \in DOMAIN stack[q] :
         \/ i \in DOMAIN stack'[q] /\ stack'[q][i] = stack[q][i]
         \/ stack[q][i].pc = "backoff"
  BY <1>3, <1>4, <1>6
<1>10. HomeInv'
  <2>1. Depth(r)' > 0 /\ 1 \in DOMAIN stack[r] /\ phase[r] # "new"
    BY <1>1, <1>3, <1>4, <1>6 DEF Fresh, Depth
  <2>2. CASE k = 1
    <3>1. stack[r][1].pc = "backoff" /\ stack'[r][1].db = stack[r][1].db
      BY <1>2, <1>3, <1>4, <1>6, <2>2 DEF NewFrame, Top
    <3> QED BY <1>1, <1>2, <1>3, <1>6, <2>1, <3>1, JoinHome
  <2>3. CASE k # 1
    <3>1. stack'[r][1] = stack[r][1]
      BY <1>4, <1>6, <2>1, <2>3
    <3> QED BY <1>1, <1>2, <1>3, <1>6, <2>1, <3>1, JoinHome
  <2> QED BY <2>2, <2>3
<1> QED BY <1>1, <1>2, <1>3, <1>4, <1>6, <1>7, <1>8, <1>9, <1>10, JoinKeeps

LEMMA ReturnOwes ==
    ASSUME Types, CallInv, NEW r \in Requests, Depth(r) > 0,
           NEW e, Return(r, e), attempts' = attempts,
           Settled(attempts[Top(r).id])
    PROVE  CallInv'
<1>1. /\ stack \in [Requests -> Seq(Frame)] /\ stack[r] \in Seq(Frame)
      /\ Depth(r) \in Nat /\ Depth(r) = Len(stack[r])
      /\ stack' = [stack EXCEPT ![r] = SubSeq(stack[r], 1, Len(stack[r]) - 1)]
  BY DEF Types, Depth, Return
<1>2. /\ stack'[r] = SubSeq(stack[r], 1, Len(stack[r]) - 1)
      /\ \A q \in Requests \ {r} : stack'[q] = stack[q]
  BY <1>1
<1>3. /\ DOMAIN stack[r] = 1..Depth(r) /\ DOMAIN stack'[r] = 1..(Depth(r) - 1)
      /\ \A i \in DOMAIN stack'[r] : stack'[r][i] = stack[r][i]
  BY <1>1, <1>2
<1>4. \A q \in Requests : \A i \in DOMAIN stack'[q] :
         /\ i \in DOMAIN stack[q] /\ stack'[q][i] = stack[q][i]
         /\ q = r => i # Depth(r)
  BY <1>1, <1>2, <1>3
<1>5. \A q \in Requests : \A i \in DOMAIN stack[q] :
         \/ i \in DOMAIN stack'[q] /\ stack'[q][i] = stack[q][i]
         \/ q = r /\ i = Depth(r)
  BY <1>1, <1>2, <1>3
<1>6. FramesOwe' /\ AttemptsFit'
  BY <1>4 DEF CallInv, FramesOwe, AttemptsFit
<1>7. TopWaits'
  <2>1. \A q \in Requests \ {r} : Depth(q)' = Depth(q)
    BY <1>2 DEF Depth
  <2> QED BY <1>4, <2>1 DEF CallInv, TopWaits
<1>8. OthersSettled'
  <2> SUFFICES ASSUME NEW j \in DOMAIN attempts
               PROVE  Running(j)' \/ Settled(attempts[j])
    BY DEF OthersSettled
  <2>1. attempts[j].by \in Requests
    BY AttemptType
  <2>2. CASE Running(j)
    <3>1. PICK i \in DOMAIN stack[attempts[j].by] :
             stack[attempts[j].by][i].id = j
      BY <2>2 DEF Running
    <3>2. CASE /\ i \in DOMAIN stack'[attempts[j].by]
               /\ stack'[attempts[j].by][i] = stack[attempts[j].by][i]
      BY <3>1, <3>2 DEF Running
    <3>3. CASE attempts[j].by = r /\ i = Depth(r)
      BY <3>1, <3>3 DEF Top
    <3> QED BY <1>5, <2>1, <3>1, <3>2, <3>3
  <2> QED BY <2>2 DEF CallInv, OthersSettled
<1>9. HomeInv'
  <2>1. \A q \in Requests : phase'[q] = phase[q] \/ phase'[q] = "over"
    BY DEF Return, Types
  <2>2. NothingNew'
    BY <2>1 DEF CallInv, HomeInv, NothingNew
  <2>3. \A i : Outermost(i)' => Outermost(i)
    BY DEF Outermost
  <2>4. \A q \in Requests : /\ Depth(q) \in Nat /\ Depth(q)' \in Nat
                            /\ Depth(q)' > 0 => 1 \in DOMAIN stack'[q]
                            /\ Depth(q) > 0 \/ Depth(q)' = Depth(q)
    BY <1>1, <1>2 DEF Types, Depth
  <2>5. HomeKept'
    <3> SUFFICES ASSUME NEW q \in Requests, Depth(q)' > 0,
                        NEW i \in DOMAIN attempts
                 PROVE  AtHome(q, i)'
      BY DEF HomeKept
    <3>1. /\ stack'[q][1] = stack[q][1] /\ Depth(q) > 0
      BY <1>4, <2>4
    <3>2. AtHome(q, i)
      BY <3>1 DEF CallInv, HomeInv, HomeKept
    <3> QED BY <2>3, <3>1, <3>2 DEF AtHome
  <2>6. DoneOnce'
    <3> SUFFICES ASSUME NEW q \in Requests PROVE Once(q)'
      BY DEF DoneOnce
    <3>1. Once(q)
      BY <2>4, AtHomeOnce DEF CallInv, HomeInv, HomeKept, DoneOnce
    <3> QED BY <2>3, <3>1 DEF Once
  <2> QED BY <2>2, <2>5, <2>6 DEF HomeInv
<1> QED BY <1>6, <1>7, <1>8, <1>9 DEF CallInv

LEMMA CommittedOwes ==
    ASSUME Types, CallInv, NEW r \in Requests, Committed(r)
    PROVE  CallInv'
<1>1. /\ Depth(r) > 0 /\ Top(r).pc = "flushing" /\ Top(r).callbacks = <<>>
      /\ Return(r, Top(r).failure) /\ attempts' = attempts
  BY DEF Committed
<1> DEFINE a == attempts[Top(r).id]
<1>2. Owes(Top(r), a) /\ a.ranCommit \in Nat
  BY <1>1, TopFrame, AttemptType DEF CallInv, FramesOwe, Top
<1> HIDE DEF a
<1>3. a.outcome = "committed" /\ a.dueCommit = a.ranCommit + 0
  BY <1>1, <1>2 DEF Owes
<1>4. Settled(a)
  BY <1>2, <1>3 DEF Settled
<1> QED BY <1>1, <1>4, ReturnOwes DEF a

LEMMA GiveUpOwes ==
    ASSUME Types, CallInv, NEW r \in Requests, GiveUp(r)
    PROVE  CallInv'
<1>1. /\ Depth(r) > 0 /\ Top(r).pc = "undoing" /\ Top(r).undo = <<>>
      /\ Return(r, First(Top(r), Top(r).error)) /\ attempts' = attempts
  BY DEF GiveUp
<1> DEFINE a == attempts[Top(r).id]
<1>2. Owes(Top(r), a) /\ a.ranUndo \in Nat
  BY <1>1, TopFrame, AttemptType DEF CallInv, FramesOwe, Top
<1> HIDE DEF a
<1>3. a.outcome = "undone" /\ a.dueUndo = a.ranUndo + 0
  BY <1>1, <1>2 DEF Owes
<1>4. Settled(a)
  BY <1>2, <1>3 DEF Settled
<1> QED BY <1>1, <1>4, ReturnOwes DEF a

LEMMA CallQuiet ==
    ASSUME CallInv, UNCHANGED <<stack, phase, attempts>>
    PROVE  CallInv'
BY DEF CallInv, FramesOwe, AttemptsFit, OthersSettled, Running, TopWaits, Depth,
       HomeInv, NothingNew, HomeKept, DoneOnce, AtHome, Once, Outermost

LEMMA OnlyTop ==
    ASSUME Types, NEW r \in Requests, NEW x, SetTop(r, x)
    PROVE  \A q \in Requests \ {r} : stack'[q] = stack[q]
BY DEF SetTop, Types

LEMMA FreshKeeps ==
    ASSUME Types, Fresh, Next
    PROVE  Fresh'
<1>1. ASSUME NEW r \in Requests, Depth(r) > 0,
             \A q \in Requests \ {r} :
                stack'[q] = stack[q] /\ phase'[q] = phase[q],
             phase'[r] \in {phase[r], "over"}
      PROVE  Fresh'
  <2>1. Depth(r) \in Nat
    BY DEF Types, Depth
  <2>2. phase'[r] # "new"
    BY <1>1, <2>1 DEF Fresh
  <2> QED BY <1>1, <2>2 DEF Fresh, Depth
<1>2. ASSUME NEW r \in Requests, NEW x, SetTop(r, x), Depth(r) > 0, phase' = phase
      PROVE  Fresh'
  BY <1>1, <1>2, OnlyTop
<1>3. ASSUME UNCHANGED <<stack, phase>>
      PROVE  Fresh'
  BY <1>3 DEF Fresh, Depth
<1>4. ASSUME NEW r \in Requests, Run(r)
      PROVE  Fresh'
  <2>1. PICK f : /\ stack' = [stack EXCEPT ![r] = f]
                 /\ phase' = [phase EXCEPT ![r] = "running"]
    BY <1>4 DEF Run
  <2>2. phase'[r] # "new" /\ \A q \in Requests \ {r} :
           stack'[q] = stack[q] /\ phase'[q] = phase[q]
    BY <2>1 DEF Types
  <2> QED BY <2>2 DEF Fresh, Depth
<1>5. ASSUME NEW r \in Requests, RunInside(r)
      PROVE  Fresh'
  <2>1. PICK t : /\ stack' = [stack EXCEPT ![r] = t] /\ phase' = phase
                 /\ Depth(r) > 0
    BY <1>5 DEF RunInside, InBody
  <2>2. \A q \in Requests \ {r} : stack'[q] = stack[q] /\ phase'[q] = phase[q]
    BY <2>1 DEF Types
  <2> QED BY <1>1, <2>1, <2>2
<1>6. ASSUME NEW r \in Requests, AfterCommit(r) \/ AfterRollback(r)
      PROVE  Fresh'
  <2>1. Depth(r) > 0 /\ phase' = phase
    BY <1>6 DEF AfterCommit, AfterRollback, InBody
  <2>2. CASE AfterCommit(r)
    <3>1. PICK i, x : stack' = [stack EXCEPT ![r][i].callbacks = x]
      BY <2>2 DEF AfterCommit
    <3>2. \A q \in Requests \ {r} : stack'[q] = stack[q]
      BY <3>1 DEF Types
    <3> QED BY <1>1, <2>1, <3>2
  <2>3. CASE AfterRollback(r)
    <3>1. PICK i, x : stack' = [stack EXCEPT ![r][i].undo = x]
      BY <2>3 DEF AfterRollback
    <3>2. \A q \in Requests \ {r} : stack'[q] = stack[q]
      BY <3>1 DEF Types
    <3> QED BY <1>1, <2>1, <3>2
  <2> QED BY <1>6, <2>2, <2>3
<1>7. ASSUME NEW r \in Requests,
             \/ Begin(r) \/ Commit(r) \/ RollBack(r)
             \/ RunCallback(r) \/ RunUndo(r) \/ BackOff(r) \/ Retry(r)
      PROVE  Fresh'
  <2>1. phase' = phase /\ Depth(r) > 0
    BY <1>7 DEF Begin, Commit, RollBack, RunCallback, RunUndo, BackOff, Retry,
                InBody
  <2>2. \E x : SetTop(r, x)
    BY <1>7 DEF Begin, Commit, RollBack, RunCallback, RunUndo, BackOff, Retry
  <2> QED BY <1>2, <2>1, <2>2
<1>8. ASSUME NEW r \in Requests, Committed(r) \/ GiveUp(r)
      PROVE  Fresh'
  <2>1. PICK e : Return(r, e) /\ Depth(r) > 0
    BY <1>8 DEF Committed, GiveUp
  <2>2. PICK x, t : /\ stack' = [stack EXCEPT ![r] = t]
                    /\ phase' = [phase EXCEPT ![r] = x]
                    /\ x \in {phase[r], "over"}
    BY <2>1 DEF Return
  <2>3. /\ \A q \in Requests \ {r} : stack'[q] = stack[q] /\ phase'[q] = phase[q]
        /\ phase'[r] \in {phase[r], "over"}
    BY <2>2 DEF Types
  <2> QED BY <1>1, <2>1, <2>3
<1>9. ASSUME NEW r \in Requests, Catch(r)
      PROVE  Fresh'
  BY <1>3, <1>9 DEF Catch
<1>10. CASE Over
  BY <1>3, <1>10 DEF Over, vars
<1> QED BY <1>4, <1>5, <1>6, <1>7, <1>8, <1>9, <1>10 DEF Next, Advance

LEMMA StepOwes ==
    ASSUME Types, QueueInv, CallInv, Fresh, [Next]_vars
    PROVE  CallInv' /\ Fresh'
<1>1. CASE UNCHANGED vars
  <2>1. UNCHANGED <<stack, phase, attempts>>
    BY <1>1 DEF vars
  <2> QED BY <2>1, CallQuiet DEF Fresh, Depth
<1>2. ASSUME NEW r \in Requests,
             \/ Run(r) \/ RunInside(r) \/ AfterCommit(r) \/ AfterRollback(r)
             \/ Advance(r)
      PROVE  CallInv'
  <2>1. CASE Run(r)
    BY <2>1, RunOwes DEF Run, Fresh
  <2>2. CASE RunInside(r) \/ AfterCommit(r) \/ AfterRollback(r)
    BY <2>2, RunInsideOwes, AfterCommitOwes, AfterRollbackOwes
  <2>3. CASE Begin(r) \/ Commit(r) \/ RollBack(r)
    BY <2>3, BeginOwes, CommitOwes, RollBackOwes
  <2>4. CASE RunCallback(r) \/ RunUndo(r) \/ Committed(r)
    BY <2>4, RunCallbackOwes, RunUndoOwes, CommittedOwes
  <2>5. CASE GiveUp(r) \/ BackOff(r) \/ Retry(r)
    BY <2>5, GiveUpOwes, BackOffOwes, RetryOwes
  <2>6. CASE Catch(r)
    BY <2>6, CallQuiet DEF Catch
  <2> QED BY <1>2, <2>1, <2>2, <2>3, <2>4, <2>5, <2>6 DEF Advance
<1>3. CASE Next
  <2>1. Fresh'
    BY <1>3, FreshKeeps
  <2>2. CASE Over
    BY <1>1, <2>2 DEF Over
  <2> QED BY <1>2, <1>3, <2>1, <2>2 DEF Next
<1> QED BY <1>1, <1>3

LEMMA StartedOwing == Init => CallInv /\ Fresh
<1> SUFFICES ASSUME Init PROVE CallInv /\ Fresh
  OBVIOUS
<1>1. stack = [r \in Requests |-> <<>>] /\ attempts = <<>>
  BY DEF Init
<1>2. DOMAIN attempts = {} /\ \A r \in Requests : DOMAIN stack[r] = {}
  BY <1>1
<1>3. Fresh
  BY <1>1 DEF Fresh, Depth
<1>4. HomeInv
  BY <1>1, <1>2 DEF HomeInv, NothingNew, HomeKept, DoneOnce, Once, Depth
<1> QED BY <1>2, <1>3, <1>4
    DEF CallInv, FramesOwe, AttemptsFit, OthersSettled, TopWaits

IInv == Types /\ QueueInv /\ CallInv /\ Fresh

LEMMA Invariant == Spec => []IInv
<1>1. Init => IInv
  BY Started, StartedOwing DEF IInv
<1>2. IInv /\ [Next]_vars => IInv'
  BY StepKeeps, StepOwes DEF IInv, Kept
<1> QED BY <1>1, <1>2, PTL DEF Spec

-----------------------------------------------------------------------------
(* Theorems.                                                               *)

\* Types and stacks: a frame is on an attempt of its own request and
\* database, no request runs on one database twice, and no run makes more
\* attempts than its options allow (run, executeWithRetries).
THEOREM TypeCorrect == Spec => []TypeOK
<1>1. IInv => TypeOK
  BY TypesOK DEF IInv
<1> QED BY <1>1, Invariant, PTL

\* On one SQLite client the transactions of independent callers never
\* overlap, for any number of callers, databases, retries, inner runs and
\* callbacks (executeAsyncSqliteTransaction).
THEOREM ClientsTakeTurns == Spec => []NoOverlap
<1>1. IInv => NoOverlap
  BY OneIsOpen DEF IInv
<1> QED BY <1>1, Invariant, PTL

\* A commit callback runs only for the attempt that committed and a rollback
\* callback only for one that was rolled back, each at most once, however
\* many retries and inner runs there are (executeWithRetries, flushCallbacks).
THEOREM CallbacksFit == Spec => []CallbacksMatchOutcome
<1>1. IInv => CallbacksMatchOutcome
  BY CallInvSays DEF IInv
<1> QED BY <1>1, Invariant, PTL

\* An attempt that is over has run every callback its outcome owes, failing
\* callbacks or not (flushCallbacks, executeWithRetries).
THEOREM CallbacksComplete == Spec => []CallbacksAllRun
<1>1. IInv => CallbacksAllRun
  BY CallInvSays DEF IInv
<1> QED BY <1>1, Invariant, PTL

\* The outermost run of a request commits at most once, however often it and
\* the runs inside it are retried and whatever their callbacks do (run,
\* executeWithRetries).
THEOREM OutermostCommitsOnce == Spec => []CommitsOnce
<1>1. IInv => CommitsOnce
  BY HomeSays DEF IInv, CallInv
<1> QED BY <1>1, Invariant, PTL

=============================================================================
