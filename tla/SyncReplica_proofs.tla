------------------------- MODULE SyncReplica_proofs -------------------------
(***************************************************************************)
(* Proofs about SyncReplica, for any operations, records and callers and   *)
(* every value of the bounds.                                              *)
(***************************************************************************)
EXTENDS SyncReplica, TLAPS, WellFoundedInduction

USE DepAssumption, TargetAssumption, SentinelAssumption,
    ServerBoundsAssumption, TombstoneAssumption, ClientBoundsAssumption

-----------------------------------------------------------------------------
(* Positions of the journal.                                               *)

\* A set of numbers with an upper bound has a greatest element.
LEMMA GreatestExists ==
    ASSUME NEW n \in Nat, NEW W \in SUBSET (0..n), W # {}
    PROVE  \E i \in W : \A j \in W : j <= i
<1> DEFINE T == {m \in Nat : n - m \in W}
           R == {p \in Nat \X Nat : p[1] < p[2]}
<1>1. R = OpToRel(<, Nat)
  BY DEF OpToRel
<1>2. IsWellFoundedOn(R, Nat)
  BY <1>1, NatLessThanWellFounded
<1>3. T # {}
  <2>1. PICK i \in W : TRUE
    OBVIOUS
  <2>2. i \in 0..n
    OBVIOUS
  <2>3. n - i \in Nat /\ n - (n - i) = i
    BY <2>2
  <2> QED BY <2>1, <2>3
<1>4. T \subseteq Nat
  OBVIOUS
<1> HIDE DEF T
<1>5. PICK m \in T : \A k \in T : ~(<<k, m>> \in R)
  BY <1>2, <1>3, <1>4, WFMin
<1>6. m \in Nat /\ n - m \in W
  BY <1>5 DEF T
<1>7. ASSUME NEW j \in W PROVE j <= n - m
  <2>1. j \in 0..n /\ n - j \in Nat /\ n - (n - j) = j
    OBVIOUS
  <2>2. n - j \in T
    BY <2>1 DEF T
  <2>3. ~(n - j < m)
    BY <1>5, <1>6, <2>1, <2>2
  <2> QED BY <1>6, <2>1, <2>3
<1> QED BY <1>6, <1>7

\* LastWrite is a position, or 0.
LEMMA LastWriteType ==
    ASSUME journal \in Seq(Entry), NEW n, NEW k
    PROVE  /\ LastWrite(n, k) \in 0..Len(journal)
           /\ LastWrite(n, k) # 0 => LastWrite(n, k) \in DOMAIN journal
<1> DEFINE W == {i \in DOMAIN journal : i <= n /\ journal[i].key = k}
<1>1. Len(journal) \in Nat /\ DOMAIN journal = 1..Len(journal)
  OBVIOUS
<1>2. CASE W = {}
  BY <1>1, <1>2 DEF LastWrite
<1>3. CASE W # {}
  <2>1. W \in SUBSET (0..Len(journal))
    BY <1>1
  <2>2. \E i \in W : \A j \in W : j <= i
    <3> HIDE DEF W
    <3> QED BY <1>1, <1>3, <2>1, GreatestExists
  <2>3. LastWrite(n, k) = CHOOSE i \in W : \A j \in W : j <= i
    BY <1>3 DEF LastWrite
  <2>4. LastWrite(n, k) \in W
    <3> HIDE DEF W
    <3> QED BY <2>2, <2>3
  <2> QED BY <1>1, <2>4
<1> QED BY <1>2, <1>3

\* Find is the position of the operation, or 0.
LEMMA FindType ==
    ASSUME journal \in Seq(Entry), NEW o
    PROVE  /\ Find(o) \in 0..Len(journal)
           /\ Find(o) # 0 => /\ Find(o) \in DOMAIN journal
                             /\ journal[Find(o)].op = o
           /\ Find(o) = 0 => \A i \in DOMAIN journal : journal[i].op # o
<1>1. Len(journal) \in Nat /\ DOMAIN journal = 1..Len(journal)
  OBVIOUS
<1>2. CASE \E i \in DOMAIN journal : journal[i].op = o
  <2>1. Find(o) \in DOMAIN journal /\ journal[Find(o)].op = o
    BY <1>2 DEF Find
  <2> QED BY <1>1, <2>1
<1>3. CASE ~\E i \in DOMAIN journal : journal[i].op = o
  BY <1>1, <1>3 DEF Find
<1> QED BY <1>2, <1>3

-----------------------------------------------------------------------------
(* The server's half of the type invariant.                                *)

LEMMA ReplyTypes ==
    /\ NoReply \in Reply
    /\ NotFound \in Reply
    /\ Retry \in Reply
    /\ \A b \in BOOLEAN : Stop(b) \in Reply
    /\ \A n \in Nat, x \in Outcomes : Known(n, x) \in Reply
BY DEF NoReply, NotFound, Retry, Stop, Known, Reply, Outcomes

\* An answer keeps requests and replies well typed.
LEMMA AnswerType ==
    ASSUME ServerTypeOK, NEW q \in requests, NEW a \in Reply, Answer(q, a)
    PROVE  requests' \subseteq Request /\ reply' \in [Callers -> Reply]
<1>1. q \in Request
  BY DEF ServerTypeOK
<1>2. q.from \in Callers \cup {NoCaller}
  BY <1>1 DEF Request
<1> QED BY <1>2 DEF ServerTypeOK, Answer

LEMMA ServeType ==
    ASSUME ServerTypeOK, NEW q \in requests, Serve(q)
    PROVE  ServerTypeOK'
<1>1. q \in Request
  BY DEF ServerTypeOK
<1>2. q.op \in Ops /\ q.epoch \in Nat
  BY <1>1 DEF Request
<1>3. CASE Authorize(q)
  <2>1. CASE q.epoch = epoch
    <3>1. [q EXCEPT !.stage = "authorized", !.gen = generation] \in Request
      BY <1>1 DEF Request, ServerTypeOK
    <3> QED BY <1>3, <2>1, <3>1 DEF Authorize, ServerTypeOK
  <2>2. CASE q.epoch # epoch
    BY <1>3, <2>2, AnswerType, ReplyTypes DEF Authorize, ServerTypeOK
  <2> QED BY <2>1, <2>2
<1>4. CASE Forbid(q)
  BY <1>4, AnswerType, ReplyTypes DEF Forbid, ServerTypeOK
<1>5. CASE RightsChanged(q)
  <2>1. Stop(q.epoch = epoch) \in Reply
    BY ReplyTypes
  <2> QED BY <1>5, <2>1, AnswerType DEF RightsChanged, ServerTypeOK
<1>6. CASE AnswerKnown(q)
  <2> DEFINE i == Find(q.op)
             a == IF journal[i].epoch = q.epoch
                  THEN Known(i, journal[i].outcome) ELSE Stop(FALSE)
  <2>1. i \in Nat /\ journal[i] \in Entry
    <3>1. i \in DOMAIN journal
      BY <1>6, FindType DEF AnswerKnown, ServerTypeOK
    <3> QED BY <3>1 DEF ServerTypeOK
  <2>2. journal[i].outcome \in Outcomes
    BY <2>1 DEF Entry
  <2>3. a \in Reply
    BY <2>1, <2>2, ReplyTypes
  <2>4. Answer(q, a)
    BY <1>6 DEF AnswerKnown
  <2> HIDE DEF a
  <2>5. requests' \subseteq Request /\ reply' \in [Callers -> Reply]
    BY <2>3, <2>4, AnswerType
  <2> QED BY <1>6, <2>5 DEF AnswerKnown, ServerTypeOK
<1>7. CASE AnswerUnknown(q)
  BY <1>7, AnswerType, ReplyTypes DEF AnswerUnknown, ServerTypeOK
<1>8. CASE AnswerExpired(q)
  BY <1>8, AnswerType, ReplyTypes DEF AnswerExpired, ServerTypeOK
<1>9. CASE DependencyMissing(q)
  <2>1. Stop(FALSE) \in Reply /\ Retry \in Reply
    BY ReplyTypes
  <2>2. PICK a \in Reply : Answer(q, a)
    BY <1>9, <2>1 DEF DependencyMissing
  <2>3. requests' \subseteq Request /\ reply' \in [Callers -> Reply]
    BY <2>2, AnswerType
  <2> QED BY <1>9, <2>3 DEF DependencyMissing, ServerTypeOK
<1>10. ASSUME NEW outcome \in Outcomes, Apply(q, outcome)
       PROVE  ServerTypeOK'
  <2>1. Known(Len(journal) + 1, outcome) \in Reply
    BY ReplyTypes DEF ServerTypeOK
  <2>2. requests' \subseteq Request /\ reply' \in [Callers -> Reply]
    BY <1>10, <2>1, AnswerType DEF Apply
  <2>3. journal' \in Seq(Entry)
    <3>1. [op |-> q.op, outcome |-> outcome, epoch |-> q.epoch,
           key |-> IF outcome = "acknowledged" THEN Target[q.op] ELSE NoKey,
           deleted |-> FALSE] \in Entry
      BY <1>2 DEF Entry
    <3> QED BY <1>10, <3>1 DEF Apply, ServerTypeOK
  <2>4. verdicts' \in [Ops -> Seq(Outcomes)]
    BY <1>2, <1>10 DEF Apply, ServerTypeOK
  <2> QED BY <1>10, <2>2, <2>3, <2>4 DEF Apply, ServerTypeOK
<1> QED BY <1>3, <1>4, <1>5, <1>6, <1>7, <1>8, <1>9, <1>10 DEF Serve

LEMMA ServerType ==
    ASSUME ServerTypeOK, ServerNext
    PROVE  ServerTypeOK'
<1>1. ASSUME NEW k \in Keys, NEW deleted \in BOOLEAN, OtherWrite(k, deleted)
      PROVE  ServerTypeOK'
  <2>1. [op |-> NoOp, outcome |-> "acknowledged", epoch |-> epoch,
         key |-> k, deleted |-> deleted] \in Entry
    BY DEF Entry, Outcomes, ServerTypeOK
  <2>2. journal' \in Seq(Entry)
    BY <1>1, <2>1 DEF OtherWrite, ServerTypeOK
  <2> QED BY <1>1, <2>2 DEF OtherWrite, ServerTypeOK
<1>2. CASE ChangeRights
  BY <1>2 DEF ChangeRights, ServerTypeOK
<1>3. ASSUME NEW n \in 0..Len(journal), Restore(n)
      PROVE  ServerTypeOK'
  <2>1. journal' \in Seq(Entry)
    BY <1>3 DEF Restore, ServerTypeOK
  <2> QED BY <1>3, <2>1 DEF Restore, ServerTypeOK
<1> QED BY <1>1, <1>2, <1>3, ServeType DEF ServerNext

-----------------------------------------------------------------------------
(* Dependencies first.                                                     *)

\* Only a decision appends an operation, and restores keep a prefix.
LEMMA DependenciesServer ==
    ASSUME ServerTypeOK, DependenciesFirst, ServerNext
    PROVE  DependenciesFirst'
<1> DEFINE Good(j, i) ==
             \A d \in Dep[j[i].op] :
                 \E h \in 1..(i - 1) :
                     /\ j[h].op = d
                     /\ j[h].outcome = "acknowledged"
                     /\ j[h].epoch = j[i].epoch
<1>1. \A i \in DOMAIN journal : journal[i].op \in Ops => Good(journal, i)
  BY DEF DependenciesFirst
<1>2. Len(journal) \in Nat /\ DOMAIN journal = 1..Len(journal)
      /\ journal \in Seq(Entry)
  BY DEF ServerTypeOK
<1>3. ASSUME NEW q \in requests, NEW outcome \in Outcomes, Apply(q, outcome)
      PROVE  DependenciesFirst'
  <2> DEFINE e == [op |-> q.op, outcome |-> outcome, epoch |-> q.epoch,
                   key |-> IF outcome = "acknowledged" THEN Target[q.op]
                           ELSE NoKey,
                   deleted |-> FALSE]
  <2>1. journal' = Append(journal, e)
    BY <1>3 DEF Apply
  <2>2. q.op \in Ops /\ e.op = q.op /\ e.epoch = q.epoch
    BY DEF ServerTypeOK, Request
  <2>3. \A d \in Dep[q.op] : \E h \in 1..Len(journal) :
          /\ journal[h].op = d
          /\ journal[h].outcome = "acknowledged"
          /\ journal[h].epoch = q.epoch
    <3> TAKE d \in Dep[q.op]
    <3>1. Satisfied(d, q.epoch)
      BY <1>3 DEF Apply
    <3> QED BY <1>2, <3>1, FindType DEF Satisfied
  <2> HIDE DEF e
  <2>4. /\ DOMAIN journal' = 1..(Len(journal) + 1)
        /\ journal'[Len(journal) + 1] = e
        /\ \A i \in 1..Len(journal) : journal'[i] = journal[i]
    BY <1>2, <2>1
  <2>5. ASSUME NEW i \in DOMAIN journal', journal'[i].op \in Ops,
               NEW d \in Dep[journal'[i].op]
        PROVE  \E h \in 1..(i - 1) :
                 /\ journal'[h].op = d
                 /\ journal'[h].outcome = "acknowledged"
                 /\ journal'[h].epoch = journal'[i].epoch
    <3>1. CASE i = Len(journal) + 1
      BY <1>2, <2>2, <2>3, <2>4, <2>5, <3>1
    <3>2. CASE i \in 1..Len(journal)
      <4>1. journal'[i] = journal[i]
        BY <2>4, <3>2
      <4>2. PICK h \in 1..(i - 1) :
              /\ journal[h].op = d
              /\ journal[h].outcome = "acknowledged"
              /\ journal[h].epoch = journal[i].epoch
        BY <1>1, <1>2, <2>5, <3>2, <4>1
      <4>3. h \in 1..Len(journal)
        BY <1>2, <3>2
      <4> QED BY <2>4, <4>1, <4>2, <4>3
    <3> QED BY <1>2, <2>4, <3>1, <3>2
  <2> QED BY <2>5 DEF DependenciesFirst
<1>4. ASSUME NEW k \in Keys, NEW deleted \in BOOLEAN, OtherWrite(k, deleted)
      PROVE  DependenciesFirst'
  <2> DEFINE e == [op |-> NoOp, outcome |-> "acknowledged", epoch |-> epoch,
                   key |-> k, deleted |-> deleted]
  <2>1. journal' = Append(journal, e) /\ e.op \notin Ops
    BY <1>4 DEF OtherWrite
  <2> HIDE DEF e
  <2>2. /\ DOMAIN journal' = 1..(Len(journal) + 1)
        /\ journal'[Len(journal) + 1] = e
        /\ \A i \in 1..Len(journal) : journal'[i] = journal[i]
    BY <1>2, <2>1
  <2>3. ASSUME NEW i \in DOMAIN journal', journal'[i].op \in Ops,
               NEW d \in Dep[journal'[i].op]
        PROVE  \E h \in 1..(i - 1) :
                 /\ journal'[h].op = d
                 /\ journal'[h].outcome = "acknowledged"
                 /\ journal'[h].epoch = journal'[i].epoch
    <3>1. i \in 1..Len(journal) /\ journal'[i] = journal[i]
      BY <1>2, <2>1, <2>2, <2>3
    <3>2. PICK h \in 1..(i - 1) :
            /\ journal[h].op = d
            /\ journal[h].outcome = "acknowledged"
            /\ journal[h].epoch = journal[i].epoch
      BY <1>1, <1>2, <2>3, <3>1
    <3>3. h \in 1..Len(journal)
      BY <1>2, <3>1
    <3> QED BY <2>2, <3>1, <3>2, <3>3
  <2> QED BY <2>3 DEF DependenciesFirst
<1>5. ASSUME NEW n \in 0..Len(journal), Restore(n)
      PROVE  DependenciesFirst'
  <2>1. /\ DOMAIN journal' = 1..n
        /\ \A i \in 1..n : journal'[i] = journal[i]
    BY <1>2, <1>5 DEF Restore
  <2>2. ASSUME NEW i \in DOMAIN journal', journal'[i].op \in Ops,
               NEW d \in Dep[journal'[i].op]
        PROVE  \E h \in 1..(i - 1) :
                 /\ journal'[h].op = d
                 /\ journal'[h].outcome = "acknowledged"
                 /\ journal'[h].epoch = journal'[i].epoch
    <3>1. i \in 1..n /\ i \in 1..Len(journal) /\ journal'[i] = journal[i]
      BY <1>2, <2>1, <2>2
    <3>2. PICK h \in 1..(i - 1) :
            /\ journal[h].op = d
            /\ journal[h].outcome = "acknowledged"
            /\ journal[h].epoch = journal[i].epoch
      BY <1>1, <1>2, <2>2, <3>1
    <3>3. h \in 1..n
      BY <1>2, <3>1
    <3> QED BY <2>1, <3>1, <3>2, <3>3
  <2> QED BY <2>2 DEF DependenciesFirst
<1>6. CASE journal' = journal
  BY <1>6 DEF DependenciesFirst
<1>7. ASSUME NEW q \in requests, Serve(q)
      PROVE  DependenciesFirst'
  BY <1>3, <1>6, <1>7 DEF Serve, Authorize, Forbid, RightsChanged,
     AnswerKnown, AnswerUnknown, AnswerExpired, DependencyMissing
<1> QED BY <1>4, <1>5, <1>6, <1>7 DEF ServerNext, ChangeRights

-----------------------------------------------------------------------------
(* The client's half of the type invariant.                                *)

RowsOK ==
    /\ outbox \in [Ops -> Row]
    /\ \A o \in Ops : outbox[o].state \in {"sending", "uncertain"} =>
                        outbox[o].sent
TasksOK ==
    /\ task \in [Callers -> Task]
    /\ \A t \in Callers :
          task[t].at \in Syncing \ {"loop"} => task[t].op \in task[t].due
    /\ \A s, t \in Callers :
          task[s].at \in Syncing /\ task[t].at \in Syncing => s = t
RestOK ==
    /\ policy \in Context
    /\ runtime \in [ready: BOOLEAN, ctx: Context, fence: Nat, cursor: Nat,
                    revision: Nat]
    /\ download \in Nat
    /\ records \in [Keys -> Record]
    /\ cap \in [Callers -> [ctx: Context, fence: Nat]]
    /\ approved \in [Ops -> Nat]
    /\ count \in [fences: Nat, downloads: Nat, locks: Nat, faults: Nat]

LEMMA TypeSplit == TypeOK <=> ServerTypeOK /\ RowsOK /\ TasksOK /\ RestOK
BY DEF TypeOK, RowsOK, TasksOK, RestOK

LEMMA TypeJoin ==
    ASSUME ServerTypeOK', RowsOK', TasksOK', RestOK'
    PROVE  TypeOK'
BY DEF TypeOK, RowsOK, TasksOK, RestOK

\* The parts that a step leaves alone.
LEMMA ServerStays == ServerTypeOK /\ UNCHANGED serverVars => ServerTypeOK'
BY DEF ServerTypeOK, serverVars

LEMMA RowsStay == RowsOK /\ UNCHANGED outbox => RowsOK'
BY DEF RowsOK

LEMMA TasksStay == TasksOK /\ UNCHANGED task => TasksOK'
BY DEF TasksOK

LEMMA RestStays ==
    /\ RestOK
    /\ UNCHANGED <<policy, runtime, download, records, cap, approved, count>>
    => RestOK'
BY DEF RestOK

\* Values that stand for nothing are well typed.
LEMMA NothingTypes ==
    /\ NoContext \in Context
    /\ NoTicket \in Ticket
    /\ NoRow \in Row
    /\ NoRecords \in [Keys -> Record]
    /\ Absent \in Record
    /\ Resting \in Task
    /\ Resting.at = "idle"
    /\ ServerTypeOK => Here \in Context
<1>1. NoContext \in Context /\ Absent \in Record
  BY DEF NoContext, Context, Absent, Record
<1>2. NoTicket \in Ticket
  BY <1>1 DEF NoTicket, Ticket, NoFence
<1>3. NoRow \in Row
  BY DEF NoRow, Row, States
<1>4. NoRecords \in [Keys -> Record]
  BY <1>1 DEF NoRecords
<1>5. Resting \in Task
  BY <1>2, <1>4 DEF Resting, Task
<1>6. Resting.at = "idle"
  BY DEF Resting
<1>7. ServerTypeOK => Here \in Context
  BY DEF ServerTypeOK, Here, Context
<1> QED BY <1>1, <1>2, <1>3, <1>4, <1>5, <1>6, <1>7

\* A caller moves to a well-formed task, and starts to send only if nobody
\* else does.
LEMMA TaskStep ==
    ASSUME TasksOK, NEW t \in Callers, NEW q \in Task,
           task' = [task EXCEPT ![t] = q],
           q.at \in Syncing \ {"loop"} => q.op \in q.due,
           q.at \in Syncing =>
               \/ task[t].at \in Syncing
               \/ \A s \in Callers : task[s].at \notin Syncing
    PROVE  TasksOK'
<1>1. /\ task' \in [Callers -> Task]
      /\ task'[t] = q
      /\ \A s \in Callers \ {t} : task'[s] = task[s]
  BY DEF TasksOK
<1> QED BY <1>1 DEF TasksOK

LEMMA RestStep ==
    ASSUME TasksOK, NEW t \in Callers, Rest(t)
    PROVE  TasksOK'
BY NothingTypes, TaskStep DEF Rest, Syncing

LEMMA MoveStep ==
    ASSUME TasksOK, NEW t \in Callers, NEW step \in Syncing,
           task[t].at \in Syncing \ {"loop"}, Move(t, step)
    PROVE  TasksOK'
<1> DEFINE q == [task[t] EXCEPT !.at = step]
<1>1. task[t] \in Task
  BY DEF TasksOK
<1>2. q \in Task /\ q.op = task[t].op /\ q.due = task[t].due
  BY <1>1 DEF Task
<1>3. task' = [task EXCEPT ![t] = q]
  BY DEF Move
<1>4. q.op \in q.due
  BY <1>2 DEF TasksOK
<1> HIDE DEF q
<1> QED BY <1>2, <1>3, <1>4, TaskStep

LEMMA DoneStep ==
    ASSUME TasksOK, NEW t \in Callers, NEW o, task[t].at \in Syncing,
           Done(t, o)
    PROVE  TasksOK'
<1> DEFINE rest == task[t].due \ {o}
           q == IF rest = {} THEN Resting
                ELSE [task[t] EXCEPT !.at = "loop", !.due = rest, !.op = NoOp]
<1>1. task[t] \in Task
  BY DEF TasksOK
<1>2. q \in Task /\ q.at \in {"idle", "loop"}
  <2>1. CASE rest = {}
    BY <2>1, NothingTypes
  <2>2. CASE rest # {}
    BY <1>1, <2>2 DEF Task, Syncing
  <2> QED BY <2>1, <2>2
<1>3. task' = [task EXCEPT ![t] = q]
  BY DEF Done
<1> HIDE DEF q
<1> QED BY <1>2, <1>3, TaskStep DEF Syncing

\* A new fence and the counters.
LEMMA DrawType ==
    ASSUME RestOK, NEW fields \in [fences: Nat, downloads: Nat, locks: Nat,
                                   faults: Nat], Draw(fields)
    PROVE  /\ count' \in [fences: Nat, downloads: Nat, locks: Nat,
                          faults: Nat]
           /\ NewFence \in Nat
BY DEF RestOK, Draw, NewFence

LEMMA AskType ==
    ASSUME ServerTypeOK, RowsOK, NEW t \in Callers, NEW o \in Ops,
           NEW kind \in {"lookup", "push"}, Ask(t, kind, o)
    PROVE  requests' \subseteq Request
<1>1. outbox[o].epoch \in Nat
  BY DEF RowsOK, Row
<1>2. [from |-> t, kind |-> kind, op |-> o, epoch |-> outbox[o].epoch,
       stage |-> "sent", gen |-> 0] \in Request
  BY <1>1 DEF Request
<1> QED BY <1>2 DEF Ask, ServerTypeOK

LEMMA HeardType ==
    ASSUME ServerTypeOK, NEW t \in Callers, Heard(t)
    PROVE  reply' \in [Callers -> Reply]
BY ReplyTypes DEF ServerTypeOK, Heard

LEMMA OrphanType ==
    ASSUME ServerTypeOK, NEW t \in Callers, Orphan(t)
    PROVE  requests' \subseteq Request /\ reply' \in [Callers -> Reply]
<1>1. ASSUME NEW q \in requests
      PROVE  [q EXCEPT !.from = NoCaller] \in Request
  <2>1. q \in Request
    BY DEF ServerTypeOK
  <2> QED BY <2>1 DEF Request
<1>2. requests' \subseteq Request
  BY <1>1 DEF ServerTypeOK, Orphan
<1> QED BY <1>2, ReplyTypes DEF ServerTypeOK, Orphan

\* The rows after a step that replaces one of them.
LEMMA RowStep ==
    ASSUME RowsOK, NEW o \in Ops, NEW row \in Row,
           outbox' = [outbox EXCEPT ![o] = row],
           row.state \in {"sending", "uncertain"} => row.sent
    PROVE  RowsOK'
<1>1. /\ outbox' \in [Ops -> Row]
      /\ outbox'[o] = row
      /\ \A p \in Ops \ {o} : outbox'[p] = outbox[p]
  BY DEF RowsOK
<1> QED BY <1>1 DEF RowsOK

LEMMA NewerType ==
    ASSUME NEW old \in Record, NEW new \in Record
    PROVE  Newer(old, new) \in Record
BY DEF Newer

\* The runtime after a commit of data.
LEMMA CommitRuntimeType ==
    ASSUME RestOK, NEW n \in Nat
    PROVE  [runtime EXCEPT !.cursor = n, !.revision = @ + 1]
               \in [ready: BOOLEAN, ctx: Context, fence: Nat, cursor: Nat,
                    revision: Nat]
<1> DEFINE S == [ready: BOOLEAN, ctx: Context, fence: Nat, cursor: Nat,
                 revision: Nat]
           r == [runtime EXCEPT !.cursor = n]
<1>1. r \in S /\ r.revision = runtime.revision
  BY DEF RestOK
<1>2. r.revision + 1 \in Nat
  BY <1>1
<1>3. [r EXCEPT !.revision = r.revision + 1] \in S
  <2> HIDE DEF r
  <2> QED BY <1>1, <1>2
<1> QED BY <1>1, <1>3

LEMMA SnapshotType ==
    ASSUME ServerTypeOK
    PROVE  Snapshot \in [Keys -> Record]
<1>1. ASSUME NEW k \in Keys, LastWrite(Len(journal), k) # 0
      PROVE  /\ LastWrite(Len(journal), k) \in Nat
             /\ journal[LastWrite(Len(journal), k)].deleted \in BOOLEAN
  <2>1. LastWrite(Len(journal), k) \in DOMAIN journal
    BY <1>1, LastWriteType DEF ServerTypeOK
  <2>2. journal[LastWrite(Len(journal), k)] \in Entry
    BY <2>1 DEF ServerTypeOK
  <2> QED BY <2>1, <2>2 DEF Entry, ServerTypeOK
<1>2. ASSUME NEW k \in Keys
      PROVE  (LET p == LastWrite(Len(journal), k) IN
              IF p = 0 \/ (journal[p].deleted /\ ~KeepsTombstones)
              THEN Absent
              ELSE [rev |-> p, deleted |-> journal[p].deleted]) \in Record
  BY <1>1, NothingTypes DEF Record
<1> QED BY <1>2 DEF Snapshot

-----------------------------------------------------------------------------
(* Type correctness of each step of the client.                            *)

LEMMA ReplicaType ==
    ASSUME TypeOK, NEW t \in Callers, Replicate(t)
    PROVE  TypeOK'
<1> USE DEF rowVars, callVars
<1>1. ServerTypeOK /\ RowsOK /\ TasksOK /\ RestOK /\ task[t] \in Task
  BY TypeSplit DEF TasksOK
<1>2. CASE Capture(t)
  <2>1. cap' \in [Callers -> [ctx: Context, fence: Nat]]
    BY <1>1, <1>2 DEF Capture, RestOK
  <2>2. RestOK'
    BY <1>1, <1>2, <2>1 DEF Capture, RestOK
  <2> QED BY <1>1, <1>2, <2>2, ServerStays, RowsStay, TasksStay, TypeJoin
       DEF Capture
<1>3. CASE BeginSnapshot(t)
  <2> DEFINE q == [Resting EXCEPT !.at = "fetch",
            !.ticket = [ctx |-> policy, fence |-> NewFence,
                        under |-> runtime.fence,
                        revision |-> runtime.revision]]
  <2>1. /\ NewFence \in Nat
        /\ count' \in [fences: Nat, downloads: Nat, locks: Nat, faults: Nat]
    <3>1. [count EXCEPT !.downloads = @ + 1]
             \in [fences: Nat, downloads: Nat, locks: Nat, faults: Nat]
      BY <1>1 DEF RestOK
    <3> QED BY <1>1, <1>3, <3>1, DrawType DEF BeginSnapshot
  <2>2. q \in Task /\ q.at = "fetch"
    <3>1. [ctx |-> policy, fence |-> NewFence, under |-> runtime.fence,
           revision |-> runtime.revision] \in Ticket
      BY <1>1, <2>1 DEF RestOK, Ticket
    <3> QED BY <3>1, NothingTypes DEF Task
  <2>3. task' = [task EXCEPT ![t] = q]
    BY <1>3 DEF BeginSnapshot
  <2> HIDE DEF q
  <2>4. TasksOK'
    BY <1>1, <2>2, <2>3, TaskStep DEF Syncing
  <2>5. RestOK'
    BY <1>1, <1>3, <2>1 DEF BeginSnapshot, RestOK
  <2> QED BY <1>1, <1>3, <2>4, <2>5, ServerStays, RowsStay, TypeJoin
       DEF BeginSnapshot
<1>4. CASE StageSnapshot(t)
  <2> DEFINE q == [task[t] EXCEPT !.at = "activate",
                       !.recs = Snapshot, !.to = Len(journal)]
  <2>1. q \in Task /\ q.at = "activate"
    <3>1. Snapshot \in [Keys -> Record] /\ Len(journal) \in Nat
      BY <1>1, SnapshotType DEF ServerTypeOK
    <3> QED BY <1>1, <3>1 DEF Task
  <2>2. TasksOK'
    <3>1. CASE Rest(t)
      BY <1>1, <3>1, RestStep
    <3>2. CASE task' = [task EXCEPT ![t] = q]
      <4> HIDE DEF q
      <4> QED BY <1>1, <2>1, <3>2, TaskStep DEF Syncing
    <3> QED BY <1>4, <3>1, <3>2 DEF StageSnapshot
  <2> QED BY <1>1, <1>4, <2>2, ServerStays, RowsStay, RestStays, TypeJoin
       DEF StageSnapshot
<1>5. CASE ActivateSnapshot(t)
  <2>1. TasksOK'
    BY <1>1, <1>5, RestStep DEF ActivateSnapshot
  <2>2. task[t].ticket \in Ticket
    BY <1>1 DEF Task
  <2>3. ASSUME NEW o \in Ops
        PROVE  LET r == Quarantined(outbox[o], task[t].ticket.ctx) IN
               /\ r \in Row
               /\ r.state \in {"sending", "uncertain"} => r.sent
    <3> DEFINE c == task[t].ticket.ctx
               r == Quarantined(outbox[o], c)
    <3>1. outbox[o] \in Row
      BY <1>1 DEF RowsOK
    <3>2. CASE r = outbox[o]
      BY <1>1, <3>1, <3>2 DEF RowsOK
    <3>3. CASE r = [outbox[o] EXCEPT !.state = "quarantined",
                     !.resumable = outbox[o].epoch = c.epoch]
      <4>1. (outbox[o].epoch = c.epoch) \in BOOLEAN
        OBVIOUS
      <4>2. r \in Row /\ r.state = "quarantined"
        BY <3>1, <3>3, <4>1 DEF Row, States
      <4> QED BY <4>2
    <3> QED BY <3>2, <3>3 DEF Quarantined
  <2>4. RowsOK'
    <3>1. CASE outbox' = [o \in Ops |->
                            Quarantined(outbox[o], task[t].ticket.ctx)]
      BY <2>3, <3>1 DEF RowsOK
    <3>2. CASE outbox' = outbox
      BY <1>1, <3>2 DEF RowsOK
    <3> QED BY <1>5, <3>1, <3>2 DEF ActivateSnapshot
  <2>5. RestOK'
    <3>1. CASE UNCHANGED <<records, runtime, download, cap, count>>
      BY <1>1, <1>5, <3>1 DEF ActivateSnapshot, RestOK
    <3>2. CASE /\ records' = task[t].recs
               /\ runtime' = [ready |-> TRUE, ctx |-> task[t].ticket.ctx,
                     fence |-> NewFence, cursor |-> task[t].to,
                     revision |-> task[t].ticket.revision + 1]
               /\ download' = NoFence
               /\ cap' = [cap EXCEPT ![t] =
                     [ctx |-> task[t].ticket.ctx, fence |-> NewFence]]
               /\ Draw(count)
      <4>1. /\ NewFence \in Nat
            /\ count' \in [fences: Nat, downloads: Nat, locks: Nat,
                           faults: Nat]
        BY <1>1, <3>2, DrawType DEF RestOK
      <4>2. /\ task[t].ticket.ctx \in Context
            /\ task[t].ticket.revision \in Nat
            /\ task[t].to \in Nat /\ task[t].recs \in [Keys -> Record]
        BY <1>1, <2>2 DEF Task, Ticket
      <4>3. cap' \in [Callers -> [ctx: Context, fence: Nat]]
        BY <1>1, <3>2, <4>1, <4>2 DEF RestOK
      <4> QED BY <1>1, <1>5, <3>2, <4>1, <4>2, <4>3
           DEF RestOK, ActivateSnapshot, NoFence
    <3> QED BY <1>5, <3>1, <3>2 DEF ActivateSnapshot
  <2> QED BY <1>1, <1>5, <2>1, <2>4, <2>5, ServerStays, TypeJoin
       DEF ActivateSnapshot
<1>6. CASE FetchChanges(t)
  <2> DEFINE r == [k \in Keys |->
               LET p == LastWrite(Len(journal), k) IN
               IF p > runtime.cursor
               THEN [rev |-> p, deleted |-> journal[p].deleted]
               ELSE Absent]
             q == [Resting EXCEPT !.at = "changes", !.from = runtime.cursor,
                     !.to = Len(journal), !.recs = r]
  <2>1. runtime.cursor \in Nat /\ Len(journal) \in Nat
    BY <1>1 DEF RestOK, ServerTypeOK
  <2>2. r \in [Keys -> Record]
    <3>1. ASSUME NEW k \in Keys, LastWrite(Len(journal), k) > runtime.cursor
          PROVE  [rev |-> LastWrite(Len(journal), k),
                  deleted |-> journal[LastWrite(Len(journal), k)].deleted]
                     \in Record
      <4> DEFINE p == LastWrite(Len(journal), k)
      <4>1. p \in Nat /\ p # 0
        BY <1>1, <2>1, <3>1, LastWriteType DEF ServerTypeOK
      <4>2. p \in DOMAIN journal
        BY <1>1, <4>1, LastWriteType DEF ServerTypeOK
      <4>3. journal[p] \in Entry
        BY <1>1, <4>2 DEF ServerTypeOK
      <4> QED BY <4>1, <4>3 DEF Entry, Record
    <3> QED BY <3>1, NothingTypes
  <2> HIDE DEF r
  <2>3. q \in Task /\ q.at = "changes"
    BY <2>1, <2>2, NothingTypes DEF Task
  <2>4. task' = [task EXCEPT ![t] = q]
    BY <1>6 DEF FetchChanges, r
  <2> HIDE DEF q
  <2>5. TasksOK'
    BY <1>1, <2>3, <2>4, TaskStep DEF Syncing
  <2> QED BY <1>1, <1>6, <2>5, ServerStays, RowsStay, RestStays, TypeJoin
       DEF FetchChanges
<1>7. CASE ApplyChanges(t)
  <2>1. TasksOK'
    BY <1>1, <1>7, RestStep DEF ApplyChanges
  <2>2. task[t].recs \in [Keys -> Record] /\ task[t].to \in Nat
    BY <1>1 DEF Task
  <2>3. RestOK'
    <3>1. \A k \in Keys : Newer(records[k], task[t].recs[k]) \in Record
      BY <1>1, <2>2, NewerType DEF RestOK
    <3> DEFINE new == [k \in Keys |-> Newer(records[k], task[t].recs[k])]
    <3>2. new \in [Keys -> Record]
      BY <3>1
    <3> HIDE DEF new
    <3>3. CASE UNCHANGED <<records, runtime>>
      BY <1>1, <1>7, <3>3, RestStays DEF ApplyChanges
    <3>4. CASE /\ records' = new
               /\ runtime' = [runtime EXCEPT !.cursor = task[t].to,
                                             !.revision = @ + 1]
      <4>1. runtime' \in [ready: BOOLEAN, ctx: Context, fence: Nat,
                          cursor: Nat, revision: Nat]
        BY <1>1, <2>2, <3>4, CommitRuntimeType DEF RestOK
      <4>2. UNCHANGED <<policy, download, cap, approved, count>>
        BY <1>7 DEF ApplyChanges
      <4> QED BY <1>1, <3>2, <3>4, <4>1, <4>2 DEF RestOK
    <3> QED BY <1>7, <3>3, <3>4 DEF ApplyChanges, new
  <2> QED BY <1>1, <1>7, <2>1, <2>3, ServerStays, RowsStay, TypeJoin
       DEF ApplyChanges
<1> QED BY <1>2, <1>3, <1>4, <1>5, <1>6, <1>7 DEF Replicate

LEMMA OutboxType ==
    ASSUME TypeOK, NEW t \in Callers, NEW o \in Ops,
           Enqueue(t, o) \/ Cancel(t, o) \/ Resume(t, o)
    PROVE  TypeOK'
<1> USE DEF callVars
<1>1. ServerTypeOK /\ RowsOK /\ TasksOK /\ RestOK /\ outbox[o] \in Row
  BY TypeSplit DEF RowsOK
<1>2. cap[t].ctx.epoch \in Nat /\ cap[t].ctx.gen \in Nat
  BY <1>1 DEF RestOK, Context
<1>3. approved' \in [Ops -> Nat] => RestOK'
  BY <1>1 DEF RestOK, Enqueue, Cancel, Resume
<1>4. CASE Enqueue(t, o)
  <2> DEFINE row == [NoRow EXCEPT !.state = "pending",
                       !.epoch = cap[t].ctx.epoch, !.gen = cap[t].ctx.gen]
  <2>1. row \in Row /\ row.state = "pending"
    BY <1>2 DEF NoRow, Row, States
  <2>2. outbox' = [outbox EXCEPT ![o] = row]
    BY <1>4 DEF Enqueue
  <2> HIDE DEF row
  <2>3. RowsOK'
    BY <1>1, <2>1, <2>2, RowStep
  <2>4. approved' \in [Ops -> Nat]
    BY <1>1, <1>2, <1>4 DEF Enqueue, RestOK
  <2> QED BY <1>1, <1>3, <1>4, <2>3, <2>4, ServerStays, TasksStay, TypeJoin
       DEF Enqueue
<1>5. CASE Cancel(t, o)
  <2> DEFINE row == [outbox[o] EXCEPT !.state = "cancelled"]
  <2>1. row \in Row /\ row.state = "cancelled"
    BY <1>1 DEF Row, States
  <2>2. outbox' = [outbox EXCEPT ![o] = row]
    BY <1>5 DEF Cancel
  <2> HIDE DEF row
  <2>3. RowsOK'
    BY <1>1, <2>1, <2>2, RowStep
  <2>4. approved' \in [Ops -> Nat]
    BY <1>1, <1>5 DEF Cancel, RestOK
  <2> QED BY <1>1, <1>3, <1>5, <2>3, <2>4, ServerStays, TasksStay, TypeJoin
       DEF Cancel
<1>6. CASE Resume(t, o)
  <2> DEFINE row == [outbox[o] EXCEPT !.state = Resumed(o)]
  <2>1. /\ row \in Row
        /\ row.state \in {"sending", "uncertain"} => row.sent
    BY <1>1 DEF Row, States, Resumed
  <2>2. outbox' = [outbox EXCEPT ![o] = row]
    BY <1>6 DEF Resume
  <2> HIDE DEF row
  <2>3. RowsOK'
    BY <1>1, <2>1, <2>2, RowStep
  <2>4. approved' \in [Ops -> Nat]
    BY <1>1, <1>2, <1>6 DEF Resume, RestOK
  <2> QED BY <1>1, <1>3, <1>6, <2>3, <2>4, ServerStays, TasksStay, TypeJoin
       DEF Resume
<1> QED BY <1>4, <1>5, <1>6

\* A caller that starts, or goes to the next row.
LEMMA SendingType ==
    ASSUME TypeOK, NEW t \in Callers,
           \/ \E due \in SUBSET Ops : StartSync(t, due)
           \/ \E o \in Ops : \/ SkipRow(t, o)
                            \/ SendRow(t, o)
                            \/ AbandonSync(t, o)
    PROVE  TypeOK'
<1> USE DEF rowVars, At
<1>1. ServerTypeOK /\ RowsOK /\ TasksOK /\ RestOK
      /\ task[t] \in Task
  BY TypeSplit DEF TasksOK
<1>2. ASSUME NEW due \in SUBSET Ops, StartSync(t, due)
      PROVE  TypeOK'
  <2> DEFINE known == {p \in due : \/ outbox[p].sent
                                   \/ outbox[p].state # "pending"}
             q == [Resting EXCEPT !.at = "loop", !.due = due, !.known = known]
  <2>1. q \in Task /\ q.at = "loop"
    <3>1. known \in SUBSET Ops
      OBVIOUS
    <3> HIDE DEF known
    <3> QED BY <3>1, NothingTypes DEF Task, Syncing
  <2>2. task' = [task EXCEPT ![t] = q]
    BY <1>2 DEF StartSync
  <2> HIDE DEF q
  <2>3. TasksOK'
    BY <1>1, <1>2, <2>1, <2>2, TaskStep DEF StartSync
  <2> QED BY <1>1, <1>2, <2>3, ServerStays, RowsStay, RestStays, TypeJoin
       DEF StartSync
<1>3. ASSUME NEW o \in Ops, SkipRow(t, o)
      PROVE  TypeOK'
  <2>1. TasksOK'
    BY <1>1, <1>3, DoneStep DEF SkipRow, Syncing
  <2> QED BY <1>1, <1>3, <2>1, ServerStays, RowsStay, RestStays, TypeJoin
       DEF SkipRow
<1>4. ASSUME NEW o \in Ops, SendRow(t, o)
      PROVE  TypeOK'
  <2> DEFINE row == [outbox[o] EXCEPT !.state = "sending", !.sent = TRUE]
             q == [task[t] EXCEPT !.at = "await", !.op = o]
  <2>1. row \in Row /\ row.sent
    BY <1>1 DEF Row, States, RowsOK
  <2>2. outbox' = [outbox EXCEPT ![o] = row]
    BY <1>4 DEF SendRow
  <2>3. q \in Task /\ q.at = "await" /\ q.op = o /\ q.due = task[t].due
    BY <1>1 DEF Task, Syncing
  <2>4. task' = [task EXCEPT ![t] = q]
    BY <1>4 DEF SendRow
  <2> HIDE DEF row, q
  <2>5. RowsOK'
    BY <1>1, <2>1, <2>2, RowStep
  <2>6. TasksOK'
    BY <1>1, <1>4, <2>3, <2>4, TaskStep DEF SendRow, Syncing
  <2>7. requests' \subseteq Request
    BY <1>1, <1>4, AskType DEF SendRow
  <2>8. ServerTypeOK'
    BY <1>1, <1>4, <2>7 DEF SendRow, ServerTypeOK
  <2> QED BY <1>1, <1>4, <2>5, <2>6, <2>8, RestStays, TypeJoin DEF SendRow
<1>5. ASSUME NEW o \in Ops, AbandonSync(t, o)
      PROVE  TypeOK'
  <2>1. TasksOK'
    BY <1>1, <1>5, RestStep DEF AbandonSync
  <2> QED BY <1>1, <1>5, <2>1, ServerStays, RowsStay, RestStays, TypeJoin
       DEF AbandonSync
<1> QED BY <1>2, <1>3, <1>4, <1>5

\* A caller that waits for the server, or writes down what it heard.
LEMMA AnswerStepType ==
    ASSUME TypeOK, NEW t \in Callers,
           \/ PushAfterLookup(t) \/ ApplyReceipt(t) \/ HearError(t)
           \/ MarkUncertain(t) \/ Quarantine(t)
    PROVE  TypeOK'
<1> USE DEF rowVars, callVars, clientVars, At, Got
<1> DEFINE o == task[t].op
<1>1. ServerTypeOK /\ RowsOK /\ TasksOK /\ RestOK
      /\ task[t] \in Task /\ reply[t] \in Reply
  BY TypeSplit DEF TasksOK, ServerTypeOK
<1>2. /\ task[t].at \in Syncing \ {"loop"}
      /\ o \in Ops
      /\ outbox[o] \in Row
  <2>1. task[t].at \in Syncing \ {"loop"}
    BY DEF PushAfterLookup, ApplyReceipt, HearError, MarkUncertain,
           Quarantine, Syncing
  <2>2. o \in task[t].due /\ task[t].due \subseteq Ops
    BY <1>1, <2>1 DEF TasksOK, Task
  <2> QED BY <1>1, <2>1, <2>2 DEF RowsOK
<1>3. CASE PushAfterLookup(t)
  <2>1. requests' \subseteq Request
    BY <1>1, <1>2, <1>3, AskType DEF PushAfterLookup
  <2>2. reply' \in [Callers -> Reply]
    BY <1>1, <1>3, HeardType DEF PushAfterLookup
  <2>3. ServerTypeOK'
    BY <1>1, <1>3, <2>1, <2>2 DEF PushAfterLookup, ServerTypeOK
  <2> QED BY <1>1, <1>3, <2>3, RowsStay, TasksStay, RestStays, TypeJoin
       DEF PushAfterLookup
<1>4. CASE ApplyReceipt(t)
  <2> DEFINE a == reply[t]
  <2>1. ServerTypeOK'
    <3>1. reply' \in [Callers -> Reply]
      BY <1>1, <1>4, HeardType DEF ApplyReceipt
    <3> QED BY <1>1, <1>4, <3>1 DEF ApplyReceipt, ServerTypeOK
  <2>2. a.outcome \in Outcomes /\ a.pos \in Nat
    BY <1>1 DEF Reply
  <2>3. CASE Current(t) /\ outbox[o].state \in {"sending", "uncertain"}
    <3> DEFINE row == [outbox[o] EXCEPT !.state = a.outcome]
    <3>1. row \in Row /\ row.state \in Outcomes
      BY <1>2, <2>2 DEF Row, States, Outcomes
    <3>2. outbox' = [outbox EXCEPT ![o] = row]
      BY <1>4, <2>3 DEF ApplyReceipt
    <3> HIDE DEF row
    <3>3. RowsOK'
      BY <1>1, <1>2, <3>1, <3>2, RowStep DEF Outcomes
    <3>4. TasksOK'
      <4>1. Done(t, o)
        BY <1>4, <2>3 DEF ApplyReceipt
      <4> HIDE DEF o
      <4> QED BY <1>1, <1>2, <4>1, DoneStep
    <3>5. RestOK'
      <4>1. CASE UNCHANGED <<records, runtime>>
        BY <1>1, <1>4, <4>1, RestStays DEF ApplyReceipt
      <4> DEFINE new == [records EXCEPT ![Target[o]] =
                    Newer(@, [rev |-> a.pos, deleted |-> FALSE])]
      <4>2. CASE Committed(new)
        <5>1. Target[o] \in Keys
          BY <1>2
        <5>2. [rev |-> a.pos, deleted |-> FALSE] \in Record
          BY <2>2 DEF Record
        <5>3. Newer(records[Target[o]], [rev |-> a.pos, deleted |-> FALSE])
                 \in Record
          BY <1>1, <5>1, <5>2, NewerType DEF RestOK
        <5>4. new \in [Keys -> Record]
          BY <1>1, <5>1, <5>3 DEF RestOK
        <5>5. runtime' \in [ready: BOOLEAN, ctx: Context, fence: Nat,
                            cursor: Nat, revision: Nat]
          BY <1>1, <4>2 DEF Committed, RestOK
        <5>6. records' = new
          BY <4>2 DEF Committed
        <5>7. UNCHANGED <<policy, download, cap, approved, count>>
          BY <1>4 DEF ApplyReceipt
        <5> HIDE DEF new
        <5> QED BY <1>1, <5>4, <5>5, <5>6, <5>7 DEF RestOK
      <4> QED BY <1>4, <2>3, <4>1, <4>2 DEF ApplyReceipt
    <3> QED BY <2>1, <3>3, <3>4, <3>5, TypeJoin
  <2>4. CASE ~(Current(t) /\ outbox[o].state \in {"sending", "uncertain"})
    <3> DEFINE q == IF runtime.ready /\ runtime.fence = cap[t].fence
                        /\ policy # runtime.ctx
                    THEN [task[t] EXCEPT !.at = "stop", !.resumable = TRUE]
                    ELSE [task[t] EXCEPT !.at = "unsure"]
    <3>1. task' = [task EXCEPT ![t] = q]
      BY <1>4, <2>4 DEF ApplyReceipt
    <3>2. q \in Task /\ q.at \in Syncing /\ q.op = o /\ q.due = task[t].due
      BY <1>1 DEF Task, Syncing
    <3>3. o \in task[t].due
      BY <1>1, <1>2 DEF TasksOK
    <3> HIDE DEF q
    <3>4. TasksOK'
      BY <1>1, <1>2, <3>1, <3>2, <3>3, TaskStep
    <3>5. UNCHANGED <<outbox, records, runtime, policy, download, cap,
                      approved, count>>
      BY <1>4, <2>4 DEF ApplyReceipt
    <3> QED BY <1>1, <2>1, <3>4, <3>5, RowsStay, RestStays, TypeJoin
  <2> QED BY <2>3, <2>4
<1>5. CASE HearError(t)
  <2>1. reply' \in [Callers -> Reply]
    BY <1>1, <1>5, HeardType DEF HearError
  <2>2. ServerTypeOK'
    BY <1>1, <1>5, <2>1 DEF HearError, ServerTypeOK
  <2> DEFINE at == IF reply[t].kind = "stop" THEN "stop" ELSE "unsure"
             q == [task[t] EXCEPT !.at = at, !.resumable = reply[t].resumable]
  <2>3. q \in Task /\ q.at \in Syncing /\ q.op = o /\ q.due = task[t].due
    BY <1>1 DEF Task, Syncing, Reply
  <2>4. task' = [task EXCEPT ![t] = q]
    BY <1>5 DEF HearError
  <2>5. o \in task[t].due
    BY <1>1, <1>2 DEF TasksOK
  <2> HIDE DEF q
  <2>6. TasksOK'
    BY <1>1, <1>2, <2>3, <2>4, <2>5, TaskStep
  <2> QED BY <1>1, <1>5, <2>2, <2>6, RowsStay, RestStays, TypeJoin
       DEF HearError
<1>6. ASSUME MarkUncertain(t) \/ Quarantine(t)
      PROVE  TypeOK'
  <2>1. TasksOK'
    BY <1>1, <1>6, RestStep DEF MarkUncertain, Quarantine
  <2>2. CASE outbox' = outbox
    BY <1>1, <1>6, <2>1, <2>2, ServerStays, RowsStay, RestStays, TypeJoin
       DEF MarkUncertain, Quarantine
  <2>3. CASE /\ outbox[o].state = "sending"
             /\ outbox' = [outbox EXCEPT ![o] =
                             [outbox[o] EXCEPT !.state = "uncertain"]]
    <3> DEFINE new == [outbox[o] EXCEPT !.state = "uncertain"]
    <3>1. new \in Row /\ new.sent
      BY <1>1, <1>2, <2>3 DEF Row, States, RowsOK
    <3>2. outbox' = [outbox EXCEPT ![o] = new]
      BY <2>3
    <3> HIDE DEF new
    <3>3. RowsOK'
      BY <1>1, <1>2, <3>1, <3>2, RowStep
    <3> QED BY <1>1, <1>6, <2>1, <3>3, ServerStays, RestStays, TypeJoin
         DEF MarkUncertain, Quarantine
  <2>4. CASE outbox' = [outbox EXCEPT ![o] =
                          [outbox[o] EXCEPT !.state = "quarantined",
                                            !.resumable = task[t].resumable]]
    <3> DEFINE new == [outbox[o] EXCEPT !.state = "quarantined",
                                        !.resumable = task[t].resumable]
    <3>1. new \in Row /\ new.state = "quarantined"
      BY <1>1, <1>2 DEF Row, States, Task
    <3>2. outbox' = [outbox EXCEPT ![o] = new]
      BY <2>4
    <3> HIDE DEF new
    <3>3. RowsOK'
      BY <1>1, <1>2, <3>1, <3>2, RowStep
    <3> QED BY <1>1, <1>6, <2>1, <3>3, ServerStays, RestStays, TypeJoin
         DEF MarkUncertain, Quarantine
  <2> QED BY <1>6, <2>2, <2>3, <2>4 DEF MarkUncertain, Quarantine
<1> QED BY <1>3, <1>4, <1>5, <1>6

LEMMA FaultType ==
    ASSUME TypeOK, NEW t \in Callers, LoseAnswer(t) \/ Crash(t)
    PROVE  TypeOK'
<1> USE DEF rowVars
<1>1. ServerTypeOK /\ RowsOK /\ TasksOK /\ RestOK
  BY TypeSplit
<1>2. requests' \subseteq Request /\ reply' \in [Callers -> Reply]
  BY <1>1, OrphanType DEF LoseAnswer, Crash
<1>3. ServerTypeOK'
  BY <1>1, <1>2 DEF LoseAnswer, Crash, ServerTypeOK
<1>4. count' \in [fences: Nat, downloads: Nat, locks: Nat, faults: Nat]
  BY <1>1 DEF LoseAnswer, Crash, Fault, RestOK
<1>5. CASE LoseAnswer(t)
  <2>1. TasksOK'
    BY <1>1, <1>5, MoveStep DEF LoseAnswer, At, Syncing
  <2>2. RestOK'
    BY <1>1, <1>4, <1>5 DEF LoseAnswer, RestOK
  <2> QED BY <1>1, <1>3, <1>5, <2>1, <2>2, RowsStay, TypeJoin DEF LoseAnswer
<1>6. CASE Crash(t)
  <2>1. TasksOK'
    BY <1>1, <1>6, RestStep DEF Crash
  <2>2. [ctx |-> NoContext, fence |-> NoFence] \in [ctx: Context, fence: Nat]
    BY NothingTypes DEF NoFence
  <2>3. cap' \in [Callers -> [ctx: Context, fence: Nat]]
    BY <1>1, <1>6, <2>2 DEF Crash, RestOK
  <2>4. RestOK'
    BY <1>1, <1>4, <1>6, <2>3 DEF Crash, RestOK
  <2> QED BY <1>1, <1>3, <1>6, <2>1, <2>4, RowsStay, TypeJoin DEF Crash
<1> QED BY <1>5, <1>6

LEMMA AccessType ==
    ASSUME TypeOK, Grant \/ Revoke \/ Lock
    PROVE  TypeOK'
<1> USE DEF rowVars, callVars
<1>1. ServerTypeOK /\ RowsOK /\ TasksOK /\ RestOK
  BY TypeSplit
<1>2. ASSUME Grant \/ Revoke
      PROVE  TypeOK'
  <2>1. policy' \in Context
    BY <1>1, <1>2, NothingTypes DEF Grant, Revoke
  <2>2. RestOK'
    BY <1>1, <1>2, <2>1 DEF Grant, Revoke, RestOK
  <2> QED BY <1>1, <1>2, <2>2, ServerStays, RowsStay, TasksStay, TypeJoin
       DEF Grant, Revoke
<1>3. CASE Lock
  <2>1. [count EXCEPT !.locks = @ + 1]
           \in [fences: Nat, downloads: Nat, locks: Nat, faults: Nat]
    BY <1>1 DEF RestOK
  <2>2. /\ count' \in [fences: Nat, downloads: Nat, locks: Nat, faults: Nat]
        /\ NewFence \in Nat
    BY <1>1, <1>3, <2>1, DrawType DEF Lock
  <2>3. RestOK'
    BY <1>1, <1>3, <2>2 DEF Lock, RestOK
  <2> QED BY <1>1, <1>3, <2>3, ServerStays, RowsStay, TasksStay, TypeJoin
       DEF Lock
<1> QED BY <1>2, <1>3

LEMMA TypeInit == Init => TypeOK
<1> SUFFICES ASSUME Init PROVE TypeOK
  OBVIOUS
<1>1. ServerTypeOK
  BY ReplyTypes DEF Init, ServerInit, ServerTypeOK
<1>2. RowsOK
  BY NothingTypes DEF Init, RowsOK, NoRow
<1>3. TasksOK
  BY NothingTypes DEF Init, TasksOK, Syncing
<1>4. RestOK
  BY <1>1, NothingTypes DEF Init, RestOK, NoFence
<1> QED BY <1>1, <1>2, <1>3, <1>4, TypeSplit

LEMMA TypeNext == TypeOK /\ [Next]_vars => TypeOK'
<1> SUFFICES ASSUME TypeOK, [Next]_vars PROVE TypeOK'
  OBVIOUS
<1>1. ServerTypeOK /\ RowsOK /\ TasksOK /\ RestOK
  BY TypeSplit
<1>2. CASE ServerNext /\ UNCHANGED clientVars
  BY <1>1, <1>2, ServerType, RowsStay, TasksStay, RestStays, TypeJoin
     DEF clientVars, rowVars, callVars
<1>3. CASE ClientNext
  <2>1. ASSUME NEW t \in Callers, Synchronize(t)
        PROVE  TypeOK'
    BY <2>1, SendingType, AnswerStepType DEF Synchronize
  <2> QED BY <1>3, <2>1, AccessType, ReplicaType, OutboxType, FaultType
       DEF ClientNext
<1>4. CASE UNCHANGED vars
  BY <1>1, <1>4, ServerStays, RowsStay, TasksStay, RestStays, TypeJoin
     DEF vars, clientVars, rowVars, callVars
<1> QED BY <1>2, <1>3, <1>4 DEF Next, Quiet

\* Type correctness: what is recorded of rows, callers, requests and answers
\* is well formed, a row under way was recorded as sent, and at most one
\* caller sends at a time (client.ts, synchronizeReplica and its Web Lock).
THEOREM TypeCorrect == Spec => []TypeOK
BY TypeInit, TypeNext, PTL DEF Spec

-----------------------------------------------------------------------------
\* Only the server writes the journal.
LEMMA JournalOfServer ==
    ASSUME [Next]_vars, ~(ServerNext /\ UNCHANGED clientVars)
    PROVE  journal' = journal
<1>1. CASE Grant \/ Revoke \/ Lock
  BY <1>1 DEF Grant, Revoke, Lock, serverVars
<1>2. ASSUME NEW t \in Callers, Replicate(t)
      PROVE  journal' = journal
  BY <1>2 DEF Replicate, Capture, BeginSnapshot, StageSnapshot,
     ActivateSnapshot, FetchChanges, ApplyChanges, serverVars
<1>3. ASSUME NEW t \in Callers, Synchronize(t)
      PROVE  journal' = journal
  BY <1>3 DEF Synchronize, StartSync, SkipRow, SendRow, AbandonSync,
     PushAfterLookup, ApplyReceipt, HearError, MarkUncertain, Quarantine,
     serverVars
<1>4. ASSUME NEW t \in Callers, NEW o \in Ops,
             Enqueue(t, o) \/ Cancel(t, o) \/ Resume(t, o)
      PROVE  journal' = journal
  BY <1>4 DEF Enqueue, Cancel, Resume, serverVars
<1>5. ASSUME NEW t \in Callers, LoseAnswer(t) \/ Crash(t)
      PROVE  journal' = journal
  BY <1>5 DEF LoseAnswer, Crash
<1>6. CASE UNCHANGED vars
  BY <1>6 DEF vars, serverVars
<1> QED BY <1>1, <1>2, <1>3, <1>4, <1>5, <1>6 DEF Next, ClientNext, Quiet

\* No operation is decided before all its dependencies are acknowledged in
\* the same epoch, however messages are lost and delayed, tabs die and the
\* server is restored (server.ts, applyOperation).
THEOREM DependenciesInOrder == Spec => []DependenciesFirst
<1>1. Init => DependenciesFirst
  BY DEF Init, ServerInit, DependenciesFirst
<1>2. TypeOK /\ DependenciesFirst /\ [Next]_vars => DependenciesFirst'
  <2> SUFFICES ASSUME TypeOK, DependenciesFirst, [Next]_vars
               PROVE  DependenciesFirst'
    OBVIOUS
  <2>1. CASE ServerNext /\ UNCHANGED clientVars
    BY <2>1, TypeSplit, DependenciesServer
  <2>2. CASE ~(ServerNext /\ UNCHANGED clientVars)
    BY <2>2, JournalOfServer DEF DependenciesFirst
  <2> QED BY <2>1, <2>2
<1> QED BY <1>1, <1>2, TypeCorrect, PTL DEF Spec

-----------------------------------------------------------------------------
(* Rights.                                                                 *)

\* Rights only grow, and the access row never falls behind an approval: the
\* rights a row was approved under lie between those it was captured under
\* and those of the access row.
ApprovalsOK ==
    \A o \in Ops :
        /\ outbox[o].gen <= approved[o]
        /\ approved[o] <= generation
        /\ policy # NoContext => approved[o] <= policy.gen
TicketsOK ==
    \A t \in Callers :
        task[t].at \in {"fetch", "activate"} => task[t].ticket.ctx # NoContext
RightsOK ==
    /\ OnlyApprovedIsSent
    /\ ApprovalsOK
    /\ policy.gen <= generation
    /\ runtime.ready => runtime.ctx # NoContext
    /\ TicketsOK

\* The values that RightsOK compares.
LEMMA RightsTypes ==
    ASSUME TypeOK
    PROVE  /\ generation \in Nat
           /\ policy \in Context /\ policy.gen \in Nat
           /\ runtime.ctx \in Context /\ runtime.ctx.gen \in Nat
           /\ approved \in [Ops -> Nat]
           /\ outbox \in [Ops -> Row]
           /\ \A o \in Ops : outbox[o].gen \in Nat
           /\ \A t \in Callers : task[t] \in Task
BY DEF TypeOK, ServerTypeOK, Context, Row

\* A step that approves nothing, moves neither the access row nor the
\* context of the runtime, makes no row sendable and takes no ticket.
LEMMA RightsStep ==
    ASSUME TypeOK, RightsOK,
           generation' \in Nat, generation' >= generation,
           policy' = policy, approved' = approved,
           runtime'.ctx = runtime.ctx, runtime'.ready => runtime.ready,
           \A o \in Ops : /\ outbox'[o].gen = outbox[o].gen
                          /\ outbox'[o].epoch = outbox[o].epoch
                          /\ outbox'[o].state \in Sendable =>
                               outbox[o].state \in Sendable,
           \A t \in Callers : task'[t].at \in {"fetch", "activate"} =>
                                 /\ task[t].at \in {"fetch", "activate"}
                                 /\ task'[t].ticket = task[t].ticket
    PROVE  RightsOK'
<1>1. OnlyApprovedIsSent'
  BY DEF RightsOK, OnlyApprovedIsSent
<1>2. ApprovalsOK'
  BY RightsTypes DEF RightsOK, ApprovalsOK
<1>3. policy'.gen <= generation'
  BY RightsTypes DEF RightsOK
<1>4. TicketsOK'
  BY DEF RightsOK, TicketsOK
<1> QED BY <1>1, <1>2, <1>3, <1>4 DEF RightsOK

\* Replacing the task of one caller by one that holds no ticket.
LEMMA Ticketless ==
    ASSUME TypeOK, NEW t \in Callers, NEW q, task' = [task EXCEPT ![t] = q],
           q.at \notin {"fetch", "activate"}
    PROVE  \A s \in Callers : task'[s].at \in {"fetch", "activate"} =>
                                 /\ task[s].at \in {"fetch", "activate"}
                                 /\ task'[s].ticket = task[s].ticket
BY DEF TypeOK

LEMMA RestTicketless ==
    ASSUME TypeOK, NEW t \in Callers, Rest(t)
    PROVE  \A s \in Callers : task'[s].at \in {"fetch", "activate"} =>
                                 /\ task[s].at \in {"fetch", "activate"}
                                 /\ task'[s].ticket = task[s].ticket
BY NothingTypes, Ticketless DEF Rest

LEMMA DoneTicketless ==
    ASSUME TypeOK, NEW t \in Callers, NEW o, Done(t, o)
    PROVE  \A s \in Callers : task'[s].at \in {"fetch", "activate"} =>
                                 /\ task[s].at \in {"fetch", "activate"}
                                 /\ task'[s].ticket = task[s].ticket
<1> DEFINE rest == task[t].due \ {o}
           q == IF rest = {} THEN Resting
                ELSE [task[t] EXCEPT !.at = "loop", !.due = rest, !.op = NoOp]
<1>1. task[t] \in Task
  BY DEF TypeOK
<1>2. q.at \notin {"fetch", "activate"}
  BY <1>1, NothingTypes DEF Task
<1>3. task' = [task EXCEPT ![t] = q]
  BY DEF Done
<1> HIDE DEF q
<1> QED BY <1>2, <1>3, Ticketless

LEMMA RightsServer ==
    ASSUME TypeOK, RightsOK, ServerNext, UNCHANGED clientVars
    PROVE  RightsOK'
<1>1. generation' = generation \/ generation' = generation + 1
  <2>1. ASSUME NEW q \in requests, Serve(q)
        PROVE  generation' = generation
    BY <2>1 DEF Serve, Authorize, Forbid, RightsChanged, AnswerKnown,
       AnswerUnknown, AnswerExpired, DependencyMissing, Apply
  <2>2. ASSUME NEW k \in Keys, NEW deleted \in BOOLEAN,
               OtherWrite(k, deleted)
        PROVE  generation' = generation
    BY <2>2 DEF OtherWrite
  <2>3. ASSUME NEW n \in 0..Len(journal), Restore(n)
        PROVE  generation' = generation
    BY <2>3 DEF Restore
  <2> QED BY <2>1, <2>2, <2>3 DEF ServerNext, ChangeRights
<1>2. generation' \in Nat /\ generation' >= generation
  BY <1>1, RightsTypes
<1> QED BY <1>2, RightsStep DEF clientVars, rowVars, callVars

LEMMA RightsAccess ==
    ASSUME TypeOK, RightsOK, Grant \/ Revoke \/ Lock
    PROVE  RightsOK'
<1> USE DEF serverVars, rowVars, callVars
<1>1. CASE Grant
  <2>1. policy'.gen = generation /\ generation' = generation
    BY <1>1 DEF Grant, Here
  <2>2. ApprovalsOK'
    BY <1>1, <2>1 DEF Grant, RightsOK, ApprovalsOK
  <2> QED BY <1>1, <2>1, <2>2, RightsTypes
       DEF Grant, RightsOK, OnlyApprovedIsSent, TicketsOK
<1>2. CASE Revoke
  <2>1. policy' = NoContext /\ policy'.gen = 0 /\ generation' = generation
    BY <1>2 DEF Revoke, NoContext
  <2>2. ApprovalsOK'
    BY <1>2, <2>1 DEF Revoke, RightsOK, ApprovalsOK
  <2> QED BY <1>2, <2>1, <2>2, RightsTypes
       DEF Revoke, RightsOK, OnlyApprovedIsSent, TicketsOK
<1>3. CASE Lock
  <2>1. runtime'.ctx = runtime.ctx /\ ~runtime'.ready
    BY <1>3 DEF Lock, TypeOK
  <2> QED BY <1>3, <2>1, RightsTypes, RightsStep DEF Lock
<1> QED BY <1>1, <1>2, <1>3

LEMMA RightsReplica ==
    ASSUME TypeOK, RightsOK, NEW t \in Callers, Replicate(t)
    PROVE  RightsOK'
<1> USE DEF serverVars, rowVars, callVars, At
<1>1. CASE Capture(t)
  BY <1>1, RightsTypes, RightsStep DEF Capture
<1>2. CASE BeginSnapshot(t)
  <2>1. /\ task'[t].ticket.ctx = policy
        /\ \A s \in Callers \ {t} : task'[s] = task[s]
    BY <1>2 DEF BeginSnapshot, TypeOK, Resting
  <2>2. TicketsOK'
    BY <1>2, <2>1 DEF BeginSnapshot, TicketsOK, RightsOK
  <2> QED BY <1>2, <2>2
       DEF BeginSnapshot, RightsOK, OnlyApprovedIsSent, ApprovalsOK
<1>3. CASE StageSnapshot(t)
  <2>1. \A s \in Callers : task'[s].at \in {"fetch", "activate"} =>
                                 /\ task[s].at \in {"fetch", "activate"}
                                 /\ task'[s].ticket = task[s].ticket
    <3>1. CASE Rest(t)
      BY <3>1, RestTicketless
    <3> DEFINE q == [task[t] EXCEPT !.at = "activate",
                       !.recs = Snapshot, !.to = Len(journal)]
    <3>2. CASE task' = [task EXCEPT ![t] = q]
      <4>1. q.ticket = task[t].ticket
        BY RightsTypes DEF Task
      <4> HIDE DEF q
      <4>2. task'[t] = q /\ \A s \in Callers \ {t} : task'[s] = task[s]
        BY <3>2 DEF TypeOK
      <4> QED BY <1>3, <4>1, <4>2 DEF StageSnapshot
    <3> QED BY <1>3, <3>1, <3>2 DEF StageSnapshot
  <2> QED BY <1>3, <2>1, RightsTypes, RightsStep DEF StageSnapshot
<1>4. CASE ActivateSnapshot(t)
  <2> DEFINE c == task[t].ticket.ctx
  <2>1. CASE UNCHANGED <<records, outbox, runtime, download, cap, count>>
    <3>1. Rest(t)
      BY <1>4 DEF ActivateSnapshot
    <3> QED BY <1>4, <2>1, <3>1, RestTicketless, RightsTypes, RightsStep
         DEF ActivateSnapshot
  <2>2. CASE /\ policy = c
             /\ outbox' = [o \in Ops |-> Quarantined(outbox[o], c)]
             /\ runtime' = [ready |-> TRUE, ctx |-> c, fence |-> NewFence,
                            cursor |-> task[t].to,
                            revision |-> task[t].ticket.revision + 1]
    <3>1. c # NoContext
      BY <1>4 DEF ActivateSnapshot, RightsOK, TicketsOK
    <3>2. runtime'.ctx = policy /\ policy # NoContext
      BY <2>2, <3>1
    <3>3. UNCHANGED <<policy, generation, approved>>
      BY <1>4 DEF ActivateSnapshot
    <3>4. ASSUME NEW o \in Ops
          PROVE  /\ outbox'[o].gen = outbox[o].gen
                 /\ outbox'[o].state \in Sendable =>
                      /\ outbox'[o].epoch = c.epoch
                      /\ outbox[o].gen = c.gen
      <4>1. outbox'[o] = Quarantined(outbox[o], c) /\ outbox[o] \in Row
        BY <2>2, RightsTypes
      <4> HIDE DEF c
      <4>2. CASE /\ outbox[o].state \notin Final \cup {"none"}
                 /\ outbox[o].epoch # c.epoch \/ outbox[o].gen # c.gen
        <5>1. outbox'[o] = [outbox[o] EXCEPT !.state = "quarantined",
                              !.resumable = outbox[o].epoch = c.epoch]
          BY <4>1, <4>2 DEF Quarantined
        <5>2. /\ outbox'[o].gen = outbox[o].gen
              /\ outbox'[o].state = "quarantined"
          BY <4>1, <5>1 DEF Row
        <5> QED BY <5>2 DEF Sendable
      <4>3. CASE ~(/\ outbox[o].state \notin Final \cup {"none"}
                   /\ outbox[o].epoch # c.epoch \/ outbox[o].gen # c.gen)
        <5>1. outbox'[o] = outbox[o]
          BY <4>1, <4>3 DEF Quarantined
        <5> QED BY <4>3, <5>1 DEF Sendable, Final
      <4> QED BY <4>2, <4>3
    <3>5. ApprovalsOK'
      BY <3>3, <3>4 DEF RightsOK, ApprovalsOK
    <3>6. OnlyApprovedIsSent'
      <4>1. ASSUME NEW o \in Ops, outbox'[o].state \in Sendable
            PROVE  approved[o] = policy.gen /\ outbox'[o].epoch = policy.epoch
        <5>1. /\ outbox[o].gen <= approved[o]
              /\ approved[o] <= policy.gen
              /\ outbox[o].gen = policy.gen
              /\ outbox'[o].epoch = policy.epoch
          BY <2>2, <3>2, <3>4, <4>1 DEF RightsOK, ApprovalsOK
        <5> QED BY <5>1, RightsTypes
      <4> QED BY <3>2, <3>3, <4>1 DEF OnlyApprovedIsSent
    <3>7. TicketsOK'
      <4>1. Rest(t)
        BY <1>4 DEF ActivateSnapshot
      <4> QED BY <4>1, RestTicketless DEF RightsOK, TicketsOK
    <3> QED BY <3>2, <3>3, <3>5, <3>6, <3>7 DEF RightsOK
  <2> QED BY <1>4, <2>1, <2>2 DEF ActivateSnapshot
<1>5. CASE FetchChanges(t)
  <2>1. PICK r : task' = [task EXCEPT ![t] = [Resting EXCEPT !.at = "changes",
                   !.from = runtime.cursor, !.to = Len(journal), !.recs = r]]
    BY <1>5 DEF FetchChanges
  <2> DEFINE q == [Resting EXCEPT !.at = "changes",
                   !.from = runtime.cursor, !.to = Len(journal), !.recs = r]
  <2>2. q.at \notin {"fetch", "activate"}
    BY DEF Resting
  <2> HIDE DEF q
  <2>3. \A s \in Callers : task'[s].at \in {"fetch", "activate"} =>
                                 /\ task[s].at \in {"fetch", "activate"}
                                 /\ task'[s].ticket = task[s].ticket
    BY <2>1, <2>2, Ticketless DEF q
  <2> QED BY <1>5, <2>3, RightsTypes, RightsStep DEF FetchChanges
<1>6. CASE ApplyChanges(t)
  <2>1. runtime'.ctx = runtime.ctx /\ runtime'.ready = runtime.ready
    BY <1>6 DEF ApplyChanges, TypeOK
  <2>2. Rest(t)
    BY <1>6 DEF ApplyChanges
  <2> QED BY <1>6, <2>1, <2>2, RestTicketless, RightsTypes, RightsStep
       DEF ApplyChanges
<1> QED BY <1>1, <1>2, <1>3, <1>4, <1>5, <1>6 DEF Replicate

LEMMA RightsOutbox ==
    ASSUME TypeOK, RightsOK, NEW t \in Callers, NEW o \in Ops,
           Enqueue(t, o) \/ Cancel(t, o) \/ Resume(t, o)
    PROVE  RightsOK'
<1> USE DEF serverVars, callVars
<1>1. /\ runtime.ready /\ cap[t].ctx = runtime.ctx /\ policy = runtime.ctx
      /\ policy # NoContext
  BY DEF Enqueue, Cancel, Resume, Current, RightsOK
<1>2. outbox[o] \in Row
  BY RightsTypes
<1>3. CASE Cancel(t, o)
  <2> DEFINE row == [outbox[o] EXCEPT !.state = "cancelled"]
  <2>1. /\ row.gen = outbox[o].gen /\ row.epoch = outbox[o].epoch
        /\ row.state \notin Sendable
    BY <1>2 DEF Row, Sendable
  <2>2. outbox' = [outbox EXCEPT ![o] = row]
    BY <1>3 DEF Cancel
  <2> HIDE DEF row
  <2>3. \A p \in Ops : /\ outbox'[p].gen = outbox[p].gen
                       /\ outbox'[p].epoch = outbox[p].epoch
                       /\ outbox'[p].state \in Sendable =>
                            outbox[p].state \in Sendable
    BY <2>1, <2>2, RightsTypes
  <2> QED BY <1>3, <2>3, RightsTypes, RightsStep DEF Cancel
<1>4. ASSUME NEW row,
             outbox' = [outbox EXCEPT ![o] = row],
             approved' = [approved EXCEPT ![o] = cap[t].ctx.gen],
             row.epoch = cap[t].ctx.epoch, row.gen <= cap[t].ctx.gen,
             UNCHANGED <<generation, policy, runtime, task>>
      PROVE  RightsOK'
  <2>1. /\ outbox'[o] = row /\ approved'[o] = policy.gen
        /\ \A p \in Ops \ {o} : /\ outbox'[p] = outbox[p]
                                /\ approved'[p] = approved[p]
    BY <1>1, <1>4, RightsTypes
  <2>2. OnlyApprovedIsSent'
    BY <1>1, <1>4, <2>1 DEF RightsOK, OnlyApprovedIsSent
  <2>3. ApprovalsOK'
    BY <1>1, <1>4, <2>1, RightsTypes DEF RightsOK, ApprovalsOK
  <2> QED BY <1>4, <2>2, <2>3 DEF RightsOK, TicketsOK
<1>5. CASE Enqueue(t, o)
  <2> DEFINE row == [NoRow EXCEPT !.state = "pending",
                       !.epoch = cap[t].ctx.epoch, !.gen = cap[t].ctx.gen]
  <2>1. row.epoch = cap[t].ctx.epoch /\ row.gen <= cap[t].ctx.gen
    BY <1>1, RightsTypes DEF NoRow
  <2> QED BY <1>4, <1>5, <2>1 DEF Enqueue
<1>6. CASE Resume(t, o)
  <2> DEFINE row == [outbox[o] EXCEPT !.state = Resumed(o)]
  <2>1. row.epoch = outbox[o].epoch /\ row.gen = outbox[o].gen
    BY <1>2 DEF Row
  <2>2. /\ outbox[o].epoch = cap[t].ctx.epoch
        /\ outbox' = [outbox EXCEPT ![o] = row]
    BY <1>6 DEF Resume
  <2>3. outbox[o].gen <= approved[o] /\ approved[o] <= policy.gen
    BY <1>1 DEF RightsOK, ApprovalsOK
  <2>4. row.gen <= cap[t].ctx.gen
    BY <1>1, <2>1, <2>3, RightsTypes
  <2> HIDE DEF row
  <2> QED BY <1>4, <1>6, <2>1, <2>2, <2>4 DEF Resume
<1> QED BY <1>3, <1>5, <1>6

LEMMA RightsSending ==
    ASSUME TypeOK, RightsOK, NEW t \in Callers, Synchronize(t)
    PROVE  RightsOK'
<1> USE DEF serverVars, rowVars, callVars, clientVars, At, Got
<1> DEFINE Same(p) == /\ outbox'[p].gen = outbox[p].gen
                      /\ outbox'[p].epoch = outbox[p].epoch
                      /\ outbox'[p].state \in Sendable =>
                           outbox[p].state \in Sendable
           Held == \A s \in Callers :
                     task'[s].at \in {"fetch", "activate"} =>
                                 /\ task[s].at \in {"fetch", "activate"}
                                 /\ task'[s].ticket = task[s].ticket
<1>1. ASSUME UNCHANGED <<generation, policy, approved>>,
             runtime'.ctx = runtime.ctx, runtime'.ready = runtime.ready,
             \A p \in Ops : Same(p), Held
      PROVE  RightsOK'
  BY <1>1, RightsTypes, RightsStep
<1>3. ASSUME NEW o \in Ops, NEW row,
             outbox' = [outbox EXCEPT ![o] = row],
             row.gen = outbox[o].gen, row.epoch = outbox[o].epoch,
             row.state \in Sendable => outbox[o].state \in Sendable
      PROVE  \A p \in Ops : Same(p)
  BY <1>3, RightsTypes
<1>4. task[t] \in Task /\ reply[t] \in Reply
  BY RightsTypes DEF TypeOK, ServerTypeOK
<1>5. ASSUME task[t].at \in Syncing \ {"loop"}
      PROVE  task[t].op \in Ops /\ outbox[task[t].op] \in Row
  <2>1. task[t].op \in task[t].due /\ task[t].due \subseteq Ops
    BY <1>4, <1>5 DEF TypeOK, Task
  <2> QED BY <2>1, RightsTypes
<1>6. CASE \E due \in SUBSET Ops : StartSync(t, due)
  <2>1. PICK due \in SUBSET Ops : StartSync(t, due)
    BY <1>6
  <2>2. PICK known : task' = [task EXCEPT ![t] =
           [Resting EXCEPT !.at = "loop", !.due = due, !.known = known]]
    BY <2>1 DEF StartSync
  <2> DEFINE q == [Resting EXCEPT !.at = "loop", !.due = due,
                                  !.known = known]
  <2>3. q.at = "loop"
    BY DEF Resting
  <2> HIDE DEF q
  <2>4. Held
    BY <2>2, <2>3, Ticketless DEF q
  <2> HIDE DEF Held
  <2> QED BY <1>1, <2>1, <2>4 DEF StartSync
<1>7. ASSUME NEW o \in Ops, SkipRow(t, o)
      PROVE  RightsOK'
  <2>1. Held
    BY <1>7, DoneTicketless DEF SkipRow
  <2> HIDE DEF Held
  <2> QED BY <1>1, <1>7, <2>1 DEF SkipRow
<1>8. ASSUME NEW o \in Ops, SendRow(t, o)
      PROVE  RightsOK'
  <2> DEFINE row == [outbox[o] EXCEPT !.state = "sending", !.sent = TRUE]
             q == [task[t] EXCEPT !.at = "await", !.op = o]
  <2>1. /\ row.gen = outbox[o].gen /\ row.epoch = outbox[o].epoch
        /\ outbox[o].state \in Sendable
    BY <1>8, RightsTypes DEF SendRow, Ship, Row
  <2>2. q.at = "await"
    BY <1>4 DEF Task
  <2>3. outbox' = [outbox EXCEPT ![o] = row] /\ task' = [task EXCEPT ![t] = q]
    BY <1>8 DEF SendRow
  <2> HIDE DEF row, q
  <2>4. \A p \in Ops : Same(p)
    BY <1>3, <2>1, <2>3
  <2>5. Held
    BY <2>2, <2>3, Ticketless
  <2> HIDE DEF Held, Same
  <2> QED BY <1>1, <1>8, <2>4, <2>5 DEF SendRow
<1>9. ASSUME NEW o \in Ops, AbandonSync(t, o)
      PROVE  RightsOK'
  <2>1. Held
    BY <1>9, RestTicketless DEF AbandonSync
  <2> HIDE DEF Held
  <2> QED BY <1>1, <1>9, <2>1 DEF AbandonSync
<1>10. CASE PushAfterLookup(t)
  BY <1>1, <1>10 DEF PushAfterLookup
<1>11. CASE ApplyReceipt(t)
  <2> DEFINE o == task[t].op
             row == [outbox[o] EXCEPT !.state = reply[t].outcome]
  <2>1. o \in Ops /\ outbox[o] \in Row
    BY <1>5, <1>11 DEF ApplyReceipt, Syncing
  <2>2. /\ row.gen = outbox[o].gen /\ row.epoch = outbox[o].epoch
        /\ row.state \notin Sendable
    BY <1>4, <2>1 DEF Row, Reply, Outcomes, Sendable
  <2>3. \A p \in Ops : Same(p)
    <3>1. outbox' = outbox \/ outbox' = [outbox EXCEPT ![o] = row]
      BY <1>11 DEF ApplyReceipt
    <3> HIDE DEF row, o
    <3> QED BY <1>3, <2>1, <2>2, <3>1
  <2>4. runtime'.ctx = runtime.ctx /\ runtime'.ready = runtime.ready
    BY <1>11 DEF ApplyReceipt, Committed, TypeOK
  <2>5. Held
    <3>1. CASE Done(t, o)
      BY <3>1, DoneTicketless
    <3> DEFINE q == IF runtime.ready /\ runtime.fence = cap[t].fence
                        /\ policy # runtime.ctx
                     THEN [task[t] EXCEPT !.at = "stop", !.resumable = TRUE]
                     ELSE [task[t] EXCEPT !.at = "unsure"]
    <3>2. CASE task' = [task EXCEPT ![t] = q]
      <4>1. q.at \in {"stop", "unsure"}
        BY <1>4 DEF Task
      <4> HIDE DEF q
      <4> QED BY <3>2, <4>1, Ticketless
    <3> QED BY <1>11, <3>1, <3>2 DEF ApplyReceipt
  <2> HIDE DEF Held, Same
  <2> QED BY <1>1, <1>11, <2>3, <2>4, <2>5 DEF ApplyReceipt
<1>12. CASE HearError(t)
  <2> DEFINE at == IF reply[t].kind = "stop" THEN "stop" ELSE "unsure"
             q == [task[t] EXCEPT !.at = at, !.resumable = reply[t].resumable]
  <2>1. q.at \in {"stop", "unsure"}
    BY <1>4 DEF Task
  <2>2. task' = [task EXCEPT ![t] = q]
    BY <1>12 DEF HearError
  <2> HIDE DEF q
  <2>3. Held
    BY <2>1, <2>2, Ticketless
  <2> HIDE DEF Held
  <2> QED BY <1>1, <1>12, <2>3 DEF HearError
<1>13. ASSUME MarkUncertain(t) \/ Quarantine(t)
       PROVE  RightsOK'
  <2> DEFINE o == task[t].op
             unsure == [outbox[o] EXCEPT !.state = "uncertain"]
             stopped == [outbox[o] EXCEPT !.state = "quarantined",
                                          !.resumable = task[t].resumable]
  <2>1. o \in Ops /\ outbox[o] \in Row
    BY <1>5, <1>13 DEF MarkUncertain, Quarantine, Syncing
  <2>2. /\ unsure.gen = outbox[o].gen /\ unsure.epoch = outbox[o].epoch
        /\ stopped.gen = outbox[o].gen /\ stopped.epoch = outbox[o].epoch
        /\ stopped.state \notin Sendable
    BY <2>1 DEF Row, Sendable
  <2>3. \A p \in Ops : Same(p)
    <3>1. \/ outbox' = outbox
          \/ /\ outbox[o].state \in Sendable
             /\ outbox' = [outbox EXCEPT ![o] = unsure]
          \/ outbox' = [outbox EXCEPT ![o] = stopped]
      BY <1>13 DEF MarkUncertain, Quarantine, Sendable
    <3> HIDE DEF unsure, stopped, o
    <3> QED BY <1>3, <2>1, <2>2, <3>1
  <2>4. Held
    BY <1>13, RestTicketless DEF MarkUncertain, Quarantine
  <2> HIDE DEF Held, Same
  <2> QED BY <1>1, <1>13, <2>3, <2>4 DEF MarkUncertain, Quarantine
<1> QED BY <1>6, <1>7, <1>8, <1>9, <1>10, <1>11, <1>12, <1>13
     DEF Synchronize

LEMMA RightsFaults ==
    ASSUME TypeOK, RightsOK, NEW t \in Callers, LoseAnswer(t) \/ Crash(t)
    PROVE  RightsOK'
<1> USE DEF rowVars
<1>1. \A s \in Callers : task'[s].at \in {"fetch", "activate"} =>
                           /\ task[s].at \in {"fetch", "activate"}
                           /\ task'[s].ticket = task[s].ticket
  <2>1. CASE Crash(t)
    BY <2>1, RestTicketless DEF Crash
  <2>2. CASE LoseAnswer(t)
    <3> DEFINE q == [task[t] EXCEPT !.at = "unsure"]
    <3>1. q.at = "unsure"
      BY RightsTypes DEF Task
    <3>2. task' = [task EXCEPT ![t] = q]
      BY <2>2 DEF LoseAnswer, Move
    <3> HIDE DEF q
    <3> QED BY <3>1, <3>2, Ticketless
  <2> QED BY <2>1, <2>2
<1> QED BY <1>1, RightsTypes, RightsStep DEF LoseAnswer, Crash

LEMMA RightsInit == Init => RightsOK
<1> SUFFICES ASSUME Init PROVE RightsOK
  OBVIOUS
<1>1. policy.gen = 1 /\ generation = 1 /\ runtime.ready = FALSE
  BY DEF Init, ServerInit, Here
<1>2. \A o \in Ops : /\ outbox[o].state = "none" /\ outbox[o].gen = 0
                     /\ approved[o] = 0
  BY DEF Init, NoRow
<1>3. \A t \in Callers : task[t].at = "idle"
  BY NothingTypes DEF Init
<1> QED BY <1>1, <1>2, <1>3
     DEF RightsOK, OnlyApprovedIsSent, ApprovalsOK, TicketsOK, Sendable

LEMMA RightsNext == TypeOK /\ RightsOK /\ [Next]_vars => RightsOK'
<1> SUFFICES ASSUME TypeOK, RightsOK, [Next]_vars PROVE RightsOK'
  OBVIOUS
<1>1. CASE ServerNext /\ UNCHANGED clientVars
  BY <1>1, RightsServer
<1>2. CASE ClientNext
  BY <1>2, RightsAccess, RightsReplica, RightsOutbox, RightsSending,
     RightsFaults DEF ClientNext
<1>3. CASE UNCHANGED vars
  BY <1>3, RightsTypes, RightsStep
     DEF vars, serverVars, clientVars, rowVars, callVars
<1> QED BY <1>1, <1>2, <1>3 DEF Next, Quiet

\* Nothing leaves under rights or in an epoch that nobody approved it for,
\* whatever snapshots, changes of rights and resumptions happen meanwhile
\* (client.ts, activateSnapshot and resume).
THEOREM ApprovedOnly == Spec => []OnlyApprovedIsSent
<1>1. RightsOK => OnlyApprovedIsSent
  BY DEF RightsOK
<1> QED BY <1>1, RightsInit, RightsNext, TypeCorrect, PTL DEF Spec

-----------------------------------------------------------------------------
(* What each step of a client leaves alone.                                *)

LEMMA Values ==
    ASSUME TypeOK
    PROVE  /\ epoch \in Nat
           /\ journal \in Seq(Entry)
           /\ requests \subseteq Request
           /\ reply \in [Callers -> Reply]
           /\ verdicts \in [Ops -> Seq(Outcomes)]
           /\ policy \in Context /\ policy.epoch \in Nat
           /\ runtime \in [ready: BOOLEAN, ctx: Context, fence: Nat,
                            cursor: Nat, revision: Nat]
           /\ runtime.ctx.epoch \in Nat
           /\ records \in [Keys -> Record]
           /\ outbox \in [Ops -> Row]
           /\ \A o \in Ops : /\ outbox[o].epoch \in Nat
                             /\ outbox[o].sent \in BOOLEAN
           /\ cap \in [Callers -> [ctx: Context, fence: Nat]]
           /\ \A t \in Callers : cap[t].ctx.epoch \in Nat
           /\ task \in [Callers -> Task]
           /\ count \in [fences: Nat, downloads: Nat, locks: Nat, faults: Nat]
BY DEF TypeOK, ServerTypeOK, Context, Row

\* The row a caller works on.
LEMMA RowAtWork ==
    ASSUME TypeOK, NEW t \in Callers, task[t].at \in Syncing \ {"loop"}
    PROVE  task[t].op \in Ops /\ outbox[task[t].op] \in Row
<1>1. task[t] \in Task
  BY Values
<1>2. task[t].op \in task[t].due /\ task[t].due \subseteq Ops
  BY <1>1 DEF TypeOK, Task
<1> QED BY <1>2, Values

LEMMA RestEffect ==
    ASSUME TypeOK, NEW t \in Callers, Rest(t)
    PROVE  /\ task'[t].at = "idle"
           /\ \A s \in Callers \ {t} : task'[s] = task[s]
BY NothingTypes, Values DEF Rest

LEMMA DoneEffect ==
    ASSUME TypeOK, NEW t \in Callers, NEW o, Done(t, o)
    PROVE  /\ task'[t].at \in {"idle", "loop"}
           /\ \A s \in Callers \ {t} : task'[s] = task[s]
<1> DEFINE rest == task[t].due \ {o}
           q == IF rest = {} THEN Resting
                ELSE [task[t] EXCEPT !.at = "loop", !.due = rest, !.op = NoOp]
<1>1. task[t] \in Task
  BY Values
<1>2. q.at \in {"idle", "loop"}
  BY <1>1, NothingTypes DEF Task
<1>3. task' = [task EXCEPT ![t] = q]
  BY DEF Done
<1> HIDE DEF q
<1> QED BY <1>2, <1>3, Values

\* A step of synchronizeReplica keeps the epochs of all rows and whatever is
\* not about the caller, its row and its exchange.
LEMMA SyncEffect ==
    ASSUME TypeOK, NEW t \in Callers, Synchronize(t)
    PROVE  /\ UNCHANGED <<epoch, journal, verdicts, policy, cap, count>>
           /\ runtime'.ctx = runtime.ctx /\ runtime'.ready = runtime.ready
           /\ runtime'.fence = runtime.fence
           /\ runtime'.cursor = runtime.cursor
           /\ task[t].at \in Syncing \cup {"idle"}
           /\ task'[t].at \in Syncing \cup {"idle"}
           /\ \A s \in Callers \ {t} : task'[s] = task[s]
           /\ \A o \in Ops : outbox'[o].epoch = outbox[o].epoch
<1> USE DEF serverVars, rowVars, callVars, clientVars, At, Got
<1> DEFINE Server == UNCHANGED <<epoch, journal, verdicts, policy, cap, count>>
           Runtime == /\ runtime'.ctx = runtime.ctx
                      /\ runtime'.ready = runtime.ready
                      /\ runtime'.fence = runtime.fence
                      /\ runtime'.cursor = runtime.cursor
           Steps == /\ task[t].at \in Syncing \cup {"idle"}
                    /\ task'[t].at \in Syncing \cup {"idle"}
                    /\ \A s \in Callers \ {t} : task'[s] = task[s]
           Epochs == \A o \in Ops : outbox'[o].epoch = outbox[o].epoch
<1> SUFFICES Server /\ Runtime /\ Steps /\ Epochs
  OBVIOUS
<1>0. task[t] \in Task /\ reply[t] \in Reply
  BY Values
<1>1. ASSUME NEW q, task' = [task EXCEPT ![t] = q],
             task[t].at \in Syncing \cup {"idle"},
             q.at \in Syncing \cup {"idle"}
      PROVE  Steps
  BY <1>1, Values
<1>2. ASSUME NEW o \in Ops, NEW row, outbox' = [outbox EXCEPT ![o] = row],
             row.epoch = outbox[o].epoch
      PROVE  Epochs
  BY <1>2, Values
<1>3. ASSUME NEW due \in SUBSET Ops, StartSync(t, due)
      PROVE  Server /\ Runtime /\ Steps /\ Epochs
  <2>1. PICK known : task' = [task EXCEPT ![t] =
           [Resting EXCEPT !.at = "loop", !.due = due, !.known = known]]
    BY <1>3 DEF StartSync
  <2> DEFINE q == [Resting EXCEPT !.at = "loop", !.due = due,
                                  !.known = known]
  <2>2. q.at = "loop"
    BY DEF Resting
  <2> HIDE DEF q
  <2>3. Steps
    BY <1>1, <1>3, <2>1, <2>2 DEF q, StartSync, Syncing
  <2> QED BY <1>3, <2>3 DEF StartSync
<1>4. ASSUME NEW o \in Ops, SkipRow(t, o)
      PROVE  Server /\ Runtime /\ Steps /\ Epochs
  BY <1>4, DoneEffect DEF SkipRow, Syncing
<1>5. ASSUME NEW o \in Ops, SendRow(t, o)
      PROVE  Server /\ Runtime /\ Steps /\ Epochs
  <2> DEFINE row == [outbox[o] EXCEPT !.state = "sending", !.sent = TRUE]
             q == [task[t] EXCEPT !.at = "await", !.op = o]
  <2>1. row.epoch = outbox[o].epoch
    BY Values DEF Row
  <2>2. q.at = "await"
    BY <1>0 DEF Task
  <2>3. outbox' = [outbox EXCEPT ![o] = row] /\ task' = [task EXCEPT ![t] = q]
    BY <1>5 DEF SendRow
  <2> HIDE DEF row, q
  <2>4. Epochs
    BY <1>2, <2>1, <2>3
  <2>5. Steps
    BY <1>1, <1>5, <2>2, <2>3 DEF SendRow, Syncing
  <2> QED BY <1>5, <2>4, <2>5 DEF SendRow
<1>6. ASSUME NEW o \in Ops, AbandonSync(t, o)
      PROVE  Server /\ Runtime /\ Steps /\ Epochs
  BY <1>6, RestEffect DEF AbandonSync, Syncing
<1>7. CASE PushAfterLookup(t)
  BY <1>7 DEF PushAfterLookup, Syncing
<1>8. CASE ApplyReceipt(t)
  <2> DEFINE o == task[t].op
             row == [outbox[o] EXCEPT !.state = reply[t].outcome]
             q == IF runtime.ready /\ runtime.fence = cap[t].fence
                        /\ policy # runtime.ctx
                     THEN [task[t] EXCEPT !.at = "stop", !.resumable = TRUE]
                     ELSE [task[t] EXCEPT !.at = "unsure"]
  <2>1. o \in Ops /\ outbox[o] \in Row
    BY <1>8, RowAtWork DEF ApplyReceipt, Syncing
  <2>2. row.epoch = outbox[o].epoch
    BY <2>1 DEF Row
  <2>3. outbox' = outbox \/ outbox' = [outbox EXCEPT ![o] = row]
    BY <1>8 DEF ApplyReceipt
  <2>4. Done(t, o) \/ task' = [task EXCEPT ![t] = q]
    BY <1>8 DEF ApplyReceipt
  <2>5. q.at \in {"stop", "unsure"}
    BY <1>0 DEF Task
  <2>6. Runtime
    BY <1>8, Values DEF ApplyReceipt, Committed
  <2>7. Server
    BY <1>8 DEF ApplyReceipt
  <2>8. task[t].at = "await"
    BY <1>8 DEF ApplyReceipt
  <2> HIDE DEF row, q, o
  <2>9. Epochs
    BY <1>2, <2>1, <2>2, <2>3
  <2>10. Steps
    BY <1>1, <2>4, <2>5, <2>8, DoneEffect DEF Syncing
  <2> QED BY <2>6, <2>7, <2>9, <2>10
<1>9. CASE HearError(t)
  <2> DEFINE at == IF reply[t].kind = "stop" THEN "stop" ELSE "unsure"
             q == [task[t] EXCEPT !.at = at, !.resumable = reply[t].resumable]
  <2>1. q.at \in {"stop", "unsure"}
    BY <1>0 DEF Task
  <2>2. task' = [task EXCEPT ![t] = q]
    BY <1>9 DEF HearError
  <2> HIDE DEF q
  <2>3. Steps
    BY <1>1, <1>9, <2>1, <2>2 DEF HearError, Syncing
  <2> QED BY <1>9, <2>3 DEF HearError
<1>10. CASE MarkUncertain(t) \/ Quarantine(t)
  <2> DEFINE o == task[t].op
             unsure == [outbox[o] EXCEPT !.state = "uncertain"]
             stopped == [outbox[o] EXCEPT !.state = "quarantined",
                                          !.resumable = task[t].resumable]
  <2>1. o \in Ops /\ outbox[o] \in Row
    BY <1>10, RowAtWork DEF MarkUncertain, Quarantine, Syncing
  <2>2. unsure.epoch = outbox[o].epoch /\ stopped.epoch = outbox[o].epoch
    BY <2>1 DEF Row
  <2>3. \/ outbox' = outbox
        \/ outbox' = [outbox EXCEPT ![o] = unsure]
        \/ outbox' = [outbox EXCEPT ![o] = stopped]
    BY <1>10 DEF MarkUncertain, Quarantine
  <2>4. Steps
    BY <1>10, RestEffect DEF MarkUncertain, Quarantine, Syncing
  <2> HIDE DEF unsure, stopped, o
  <2>5. Epochs
    BY <1>2, <2>1, <2>2, <2>3
  <2> QED BY <1>10, <2>4, <2>5 DEF MarkUncertain, Quarantine
<1> QED BY <1>3, <1>4, <1>5, <1>6, <1>7, <1>8, <1>9, <1>10 DEF Synchronize

\* A lost answer or a caller that dies.
LEMMA FaultEffect ==
    ASSUME TypeOK, NEW t \in Callers, LoseAnswer(t) \/ Crash(t)
    PROVE  /\ UNCHANGED <<epoch, journal, verdicts, policy, runtime, records,
                          outbox>>
           /\ count'.fences = count.fences
           /\ task'[t].at \in {"unsure", "idle"}
           /\ task'[t].at = "unsure" =>
                  task[t].at = "await" /\ task'[t].op = task[t].op
           /\ \A s \in Callers \ {t} : task'[s] = task[s]
           /\ \A s \in Callers \ {t} : cap'[s] = cap[s]
           /\ cap'[t].ctx \in {cap[t].ctx, NoContext}
<1>1. count'.fences = count.fences
  BY Values DEF LoseAnswer, Crash, Fault
<1>2. CASE LoseAnswer(t)
  <2> DEFINE q == [task[t] EXCEPT !.at = "unsure"]
  <2>1. q.at = "unsure" /\ q.op = task[t].op
    BY Values DEF Task
  <2>2. task' = [task EXCEPT ![t] = q]
    BY <1>2 DEF LoseAnswer, Move
  <2> HIDE DEF q
  <2> QED BY <1>1, <1>2, <2>1, <2>2, Values DEF LoseAnswer, rowVars, At
<1>3. CASE Crash(t)
  <2>1. cap'[t].ctx = NoContext
        /\ \A s \in Callers \ {t} : cap'[s] = cap[s]
    BY <1>3, Values DEF Crash
  <2> QED BY <1>1, <1>3, <2>1, RestEffect DEF Crash, rowVars
<1> QED BY <1>2, <1>3

\* A caller that prepares, stages, activates or applies data.
LEMMA ReplicaEffect ==
    ASSUME TypeOK, NEW t \in Callers, Replicate(t)
    PROVE  /\ UNCHANGED <<serverVars, policy>>
           /\ task[t].at \notin Syncing /\ task'[t].at \notin Syncing
           /\ \A s \in Callers \ {t} : task'[s] = task[s]
           /\ outbox' # outbox => ActivateSnapshot(t)
<1> USE DEF serverVars, rowVars, callVars, At
<1>1. CASE Capture(t)
  BY <1>1 DEF Capture, Syncing
<1>2. CASE BeginSnapshot(t)
  <2>1. PICK k : task' = [task EXCEPT ![t] =
                            [Resting EXCEPT !.at = "fetch", !.ticket = k]]
    BY <1>2 DEF BeginSnapshot
  <2>2. task'[t].at = "fetch" /\ \A s \in Callers \ {t} : task'[s] = task[s]
    BY <2>1, Values DEF Resting
  <2> QED BY <1>2, <2>2 DEF BeginSnapshot, Syncing
<1>3. CASE StageSnapshot(t)
  <2>1. CASE Rest(t)
    BY <1>3, <2>1, RestEffect DEF StageSnapshot, Syncing
  <2>2. CASE task' = [task EXCEPT ![t] = [@ EXCEPT !.at = "activate",
                        !.recs = Snapshot, !.to = Len(journal)]]
    <3>1. /\ task'[t].at = "activate"
          /\ \A s \in Callers \ {t} : task'[s] = task[s]
      BY <2>2, Values DEF Task
    <3> QED BY <1>3, <3>1 DEF StageSnapshot, Syncing
  <2> QED BY <1>3, <2>1, <2>2 DEF StageSnapshot
<1>4. CASE ActivateSnapshot(t)
  BY <1>4, RestEffect DEF ActivateSnapshot, Syncing
<1>5. CASE FetchChanges(t)
  <2>1. PICK r : task' = [task EXCEPT ![t] = [Resting EXCEPT !.at = "changes",
                   !.from = runtime.cursor, !.to = Len(journal), !.recs = r]]
    BY <1>5 DEF FetchChanges
  <2>2. /\ task'[t].at = "changes"
        /\ \A s \in Callers \ {t} : task'[s] = task[s]
    BY <2>1, Values DEF Resting
  <2> QED BY <1>5, <2>2 DEF FetchChanges, Syncing
<1>6. CASE ApplyChanges(t)
  BY <1>6, RestEffect DEF ApplyChanges, Syncing
<1> QED BY <1>1, <1>2, <1>3, <1>4, <1>5, <1>6 DEF Replicate

\* What an activation does to a row.
LEMMA QuarantinedRow ==
    ASSUME NEW row \in Row, NEW ctx \in Context
    PROVE  /\ Quarantined(row, ctx).epoch = row.epoch
           /\ Quarantined(row, ctx).sent = row.sent
           /\ Quarantined(row, ctx).gen = row.gen
           /\ \/ Quarantined(row, ctx).state = row.state
              \/ /\ row.state \notin Final \cup {"none"}
                 /\ Quarantined(row, ctx).state = "quarantined"
<1>1. CASE Quarantined(row, ctx) = row
  BY <1>1
<1>2. CASE /\ row.state \notin Final \cup {"none"}
           /\ Quarantined(row, ctx) =
                [row EXCEPT !.state = "quarantined",
                            !.resumable = row.epoch = ctx.epoch]
  <2> DEFINE b == row.epoch = ctx.epoch
  <2>1. Quarantined(row, ctx) =
          [row EXCEPT !.state = "quarantined", !.resumable = b]
    BY <1>2
  <2> HIDE DEF b
  <2> QED BY <1>2, <2>1 DEF Row
<1> QED BY <1>1, <1>2 DEF Quarantined

-----------------------------------------------------------------------------
(* Epochs.                                                                 *)

Ticketed(t) == task[t].at \in {"fetch", "activate"}

\* No client has seen an epoch before the server rotated to it, and the
\* runtime of the scope never runs ahead of the access row.
EpochsOK ==
    /\ policy.epoch <= epoch
    /\ policy # NoContext => runtime.ctx.epoch <= policy.epoch
    /\ runtime.ctx.epoch <= epoch
    /\ \A o \in Ops : outbox[o].epoch <= runtime.ctx.epoch
    /\ \A t \in Callers : cap[t].ctx.epoch <= epoch
    /\ \A t \in Callers : Ticketed(t) => task[t].ticket.ctx.epoch <= epoch
    /\ 1 <= epoch
    /\ runtime.fence = NoFence => ~runtime.ready /\ runtime.ctx = NoContext

-----------------------------------------------------------------------------
(* The ledger.                                                             *)

Engaged == {"await", "unsure", "stop"}

\* A row that was never sent, or was withdrawn before it was sent.
RowsUnsent ==
    \A o \in Ops : outbox[o].state \in {"none", "cancelled"} => ~outbox[o].sent

\* Whoever asked about a row asked after it was recorded as sent.
RequestsMatch ==
    \A q \in requests :
        outbox[q.op].sent /\ outbox[q.op].epoch = q.epoch

\* A caller waits for one answer, about the row it works on.
OneExchange ==
    /\ \A q \in requests :
          q.from \in Callers =>
             /\ task[q.from].at = "await"
             /\ task[q.from].op = q.op
             /\ reply[q.from].kind = "none"
    /\ \A p, q \in requests : p.from = q.from /\ p.from \in Callers => p = q
    /\ \A t \in Callers : reply[t].kind # "none" => task[t].at = "await"

\* The row a caller works on was sent and has no outcome yet.
EngagedRows ==
    \A t \in Callers :
        task[t].at \in Engaged =>
            /\ outbox[task[t].op].sent
            /\ outbox[task[t].op].state
                  \in {"sending", "uncertain", "quarantined"}

\* What was decided is found in the journal while its epoch lasts, and
\* nothing is believed that was not decided.
DecidedOnce ==
    \A o \in Ops :
        verdicts[o] # <<>> =>
            /\ outbox[o].sent
            /\ outbox[o].epoch = epoch =>
                 \E i \in DOMAIN journal : journal[i].op = o
JournalDecided ==
    \A i \in DOMAIN journal :
        journal[i].op \in Ops =>
            verdicts[journal[i].op] = <<journal[i].outcome>>
BelievedDecided ==
    \A o \in Ops :
        outbox[o].state \in {"acknowledged", "refused"} =>
            verdicts[o] = <<outbox[o].state>>
KnownDecided ==
    \A t \in Callers :
        reply[t].kind = "known" =>
            verdicts[task[t].op] = <<reply[t].outcome>>

ExchangeInv == RowsUnsent /\ RequestsMatch /\ OneExchange /\ EngagedRows
VerdictInv == DecidedOnce /\ JournalDecided /\ BelievedDecided /\ KnownDecided
LedgerInv == EpochsOK /\ ExchangeInv /\ VerdictInv

-----------------------------------------------------------------------------
(* Epochs only grow.                                                       *)

LEMMA EpochsStep ==
    ASSUME TypeOK, EpochsOK, epoch' \in Nat, epoch <= epoch',
           policy' = policy, runtime'.ctx = runtime.ctx,
           runtime'.fence = runtime.fence, runtime'.ready = runtime.ready,
           \A o \in Ops : outbox'[o].epoch = outbox[o].epoch,
           \A t \in Callers :
              /\ cap'[t].ctx \in {cap[t].ctx, NoContext}
              /\ Ticketed(t)' => /\ Ticketed(t)
                                 /\ task'[t].ticket = task[t].ticket
    PROVE  EpochsOK'
<1>1. \A t \in Callers : Ticketed(t) => task[t].ticket.ctx.epoch \in Nat
  BY Values DEF Task, Ticket, Context
<1>0. \A n \in Nat : n <= epoch => n <= epoch'
  BY Values
<1>2. ASSUME NEW t \in Callers PROVE cap'[t].ctx.epoch <= epoch'
  <2>1. NoContext.epoch = 0
    BY DEF NoContext
  <2>2. CASE cap'[t].ctx = NoContext
    BY <2>1, <2>2
  <2>3. CASE cap'[t].ctx = cap[t].ctx
    <3>1. cap[t].ctx.epoch \in Nat /\ cap[t].ctx.epoch <= epoch
      BY Values DEF EpochsOK
    <3> QED BY <1>0, <2>3, <3>1
  <2> QED BY <2>2, <2>3
<1>3. ASSUME NEW t \in Callers, Ticketed(t)'
      PROVE  task'[t].ticket.ctx.epoch <= epoch'
  <2>1. task[t].ticket.ctx.epoch \in Nat /\ task[t].ticket.ctx.epoch <= epoch
    BY <1>1, <1>3 DEF EpochsOK
  <2> QED BY <1>0, <1>3, <2>1
<1>4. policy.epoch <= epoch' /\ runtime.ctx.epoch <= epoch' /\ 1 <= epoch'
  BY Values DEF EpochsOK
<1> QED BY <1>2, <1>3, <1>4, Values DEF EpochsOK

LEMMA EpochsStays ==
    ASSUME TypeOK, EpochsOK, epoch' = epoch, policy' = policy,
           runtime'.ctx = runtime.ctx, runtime'.fence = runtime.fence,
           runtime'.ready = runtime.ready,
           \A o \in Ops : outbox'[o].epoch = outbox[o].epoch,
           \A t \in Callers :
              /\ cap'[t].ctx \in {cap[t].ctx, NoContext}
              /\ Ticketed(t)' => /\ Ticketed(t)
                                 /\ task'[t].ticket = task[t].ticket
    PROVE  EpochsOK'
<1>1. epoch' \in Nat /\ epoch <= epoch'
  BY Values
<1> QED BY <1>1, EpochsStep

LEMMA EpochOfServer ==
    ASSUME TypeOK, ServerNext
    PROVE  epoch' \in {epoch, epoch + 1}
<1>1. ASSUME NEW q \in requests, Serve(q) PROVE epoch' = epoch
  BY <1>1 DEF Serve, Authorize, Forbid, RightsChanged, AnswerKnown,
     AnswerUnknown, AnswerExpired, DependencyMissing, Apply
<1> QED BY <1>1 DEF ServerNext, OtherWrite, ChangeRights, Restore

LEMMA EpochsReplica ==
    ASSUME TypeOK, RightsOK, EpochsOK, NEW t \in Callers, Replicate(t)
    PROVE  EpochsOK'
<1> USE DEF serverVars, rowVars, callVars, At
<1>0. /\ \A s \in Callers \ {t} : task'[s] = task[s]
      /\ epoch' = epoch /\ policy' = policy
  BY ReplicaEffect
<1>1. CASE Capture(t)
  <2>1. \A s \in Callers : cap'[s].ctx \in {cap[s].ctx, runtime.ctx}
    BY <1>1, Values DEF Capture
  <2>2. UNCHANGED <<runtime, outbox, task>>
    BY <1>1 DEF Capture
  <2>3. \A s \in Callers : cap'[s].ctx.epoch <= epoch'
    BY <1>0, <2>1 DEF EpochsOK
  <2>4. \A s \in Callers : Ticketed(s)' => task'[s].ticket.ctx.epoch <= epoch'
    BY <1>0, <2>2 DEF EpochsOK, Ticketed
  <2> QED BY <1>0, <2>2, <2>3, <2>4 DEF EpochsOK
<1>2. CASE BeginSnapshot(t)
  <2>1. UNCHANGED <<runtime, outbox, cap>>
    BY <1>2 DEF BeginSnapshot
  <2>2. task'[t].ticket.ctx = policy
    BY <1>2, Values DEF BeginSnapshot, Resting
  <2>3. \A s \in Callers : Ticketed(s)' => task'[s].ticket.ctx.epoch <= epoch'
    BY <1>0, <2>2 DEF EpochsOK, Ticketed
  <2> QED BY <1>0, <2>1, <2>3 DEF EpochsOK
<1>3. CASE StageSnapshot(t)
  <2>1. UNCHANGED <<runtime, outbox, cap>>
    BY <1>3 DEF StageSnapshot
  <2>2. \/ task'[t].ticket = task[t].ticket /\ Ticketed(t)
        \/ task'[t].at = "idle"
    <3>1. CASE Rest(t)
      BY <3>1, RestEffect
    <3>2. CASE task' = [task EXCEPT ![t] = [@ EXCEPT !.at = "activate",
                          !.recs = Snapshot, !.to = Len(journal)]]
      BY <1>3, <3>2, Values DEF StageSnapshot, Ticketed, Task
    <3> QED BY <1>3, <3>1, <3>2 DEF StageSnapshot
  <2>3. \A s \in Callers :
          /\ cap'[s].ctx \in {cap[s].ctx, NoContext}
          /\ Ticketed(s)' => /\ Ticketed(s)
                             /\ task'[s].ticket = task[s].ticket
    BY <1>0, <2>1, <2>2 DEF Ticketed
  <2> QED BY <1>0, <2>1, <2>3, EpochsStays
<1>4. CASE ActivateSnapshot(t)
  <2>0. /\ task'[t].at = "idle" /\ task[t].at = "activate"
        /\ task[t].ticket.ctx \in Context
    BY <1>4, RestEffect, Values DEF ActivateSnapshot, Task, Ticket
  <2>1. CASE UNCHANGED <<runtime, outbox, cap>>
    <3>1. \A s \in Callers :
            /\ cap'[s].ctx \in {cap[s].ctx, NoContext}
            /\ Ticketed(s)' => /\ Ticketed(s)
                               /\ task'[s].ticket = task[s].ticket
      BY <1>0, <2>0, <2>1 DEF Ticketed
    <3> QED BY <1>0, <2>1, <3>1, EpochsStays
  <2>2. CASE LET k == task[t].ticket IN
             /\ policy = k.ctx
             /\ outbox' = [o \in Ops |-> Quarantined(outbox[o], k.ctx)]
             /\ runtime' = [ready |-> TRUE, ctx |-> k.ctx, fence |-> NewFence,
                            cursor |-> task[t].to,
                            revision |-> k.revision + 1]
             /\ cap' = [cap EXCEPT ![t] = [ctx |-> k.ctx, fence |-> NewFence]]
    <3>1. policy # NoContext
      BY <2>0, <2>2 DEF RightsOK, TicketsOK
    <3>2. runtime'.ctx = policy /\ runtime'.fence # NoFence
      BY <2>2, Values DEF NewFence, NoFence
    <3>3. \A o \in Ops : outbox'[o].epoch = outbox[o].epoch
      BY <2>0, <2>2, QuarantinedRow, Values
    <3>4. ASSUME NEW o \in Ops PROVE outbox'[o].epoch <= runtime'.ctx.epoch
      <4>1. /\ outbox[o].epoch <= runtime.ctx.epoch
            /\ runtime.ctx.epoch <= policy.epoch
        BY <3>1 DEF EpochsOK
      <4>2. \A a, b, c \in Nat : a <= b /\ b <= c => a <= c
        OBVIOUS
      <4>3. outbox[o].epoch <= policy.epoch
        BY <4>1, <4>2, Values
      <4> QED BY <3>2, <3>3, <4>3
    <3>5. \A s \in Callers : cap'[s].ctx \in {cap[s].ctx, policy}
      BY <2>2, Values
    <3>6. \A s \in Callers : cap'[s].ctx.epoch <= epoch'
      BY <1>0, <3>5 DEF EpochsOK
    <3>7. \A s \in Callers : Ticketed(s)' => task'[s].ticket.ctx.epoch <= epoch'
      BY <1>0, <2>0 DEF EpochsOK, Ticketed
    <3> QED BY <1>0, <3>1, <3>2, <3>4, <3>6, <3>7, Values DEF EpochsOK
  <2> QED BY <1>4, <2>1, <2>2 DEF ActivateSnapshot
<1>5. CASE FetchChanges(t) \/ ApplyChanges(t)
  <2>1. /\ UNCHANGED <<outbox, cap>> /\ runtime'.ctx = runtime.ctx
        /\ runtime'.fence = runtime.fence /\ runtime'.ready = runtime.ready
    BY <1>5, Values DEF FetchChanges, ApplyChanges
  <2>2. task'[t].at \in {"idle", "changes"}
    <3>1. CASE ApplyChanges(t)
      BY <3>1, RestEffect DEF ApplyChanges
    <3>2. CASE FetchChanges(t)
      <4>1. PICK r : task' = [task EXCEPT ![t] =
                 [Resting EXCEPT !.at = "changes", !.from = runtime.cursor,
                                 !.to = Len(journal), !.recs = r]]
        BY <3>2 DEF FetchChanges
      <4> QED BY <4>1, Values DEF Resting
    <3> QED BY <1>5, <3>1, <3>2
  <2>3. \A s \in Callers :
          /\ cap'[s].ctx \in {cap[s].ctx, NoContext}
          /\ Ticketed(s)' => /\ Ticketed(s)
                             /\ task'[s].ticket = task[s].ticket
    BY <1>0, <2>1, <2>2 DEF Ticketed
  <2> QED BY <1>0, <2>1, <2>3, EpochsStays
<1> QED BY <1>1, <1>2, <1>3, <1>4, <1>5 DEF Replicate

LEMMA EpochsNext ==
    ASSUME TypeOK, RightsOK, EpochsOK, [Next]_vars
    PROVE  EpochsOK'
<1>0. /\ epoch \in Nat
      /\ \A t \in Callers : cap[t].ctx \in {cap[t].ctx, NoContext}
  BY Values
<1>1. CASE ServerNext /\ UNCHANGED clientVars
  <2>1. epoch' \in Nat /\ epoch <= epoch'
    BY <1>0, <1>1, EpochOfServer
  <2> QED BY <1>0, <1>1, <2>1, EpochsStep
          DEF clientVars, rowVars, callVars, Ticketed
<1>2. CASE UNCHANGED vars
  BY <1>0, <1>2, EpochsStep
     DEF vars, serverVars, clientVars, rowVars, callVars, Ticketed
<1>3. CASE Grant \/ Revoke
  <2>1. /\ policy' \in {Here, NoContext}
        /\ UNCHANGED <<epoch, runtime, outbox, cap, task>>
    BY <1>3 DEF Grant, Revoke, serverVars, rowVars, callVars
  <2>2. /\ policy'.epoch <= epoch
        /\ policy' # NoContext => policy'.epoch = epoch
    BY <1>0, <2>1 DEF Here, NoContext
  <2> QED BY <2>1, <2>2 DEF EpochsOK, Ticketed
<1>4. CASE Lock
  <2>1. /\ UNCHANGED <<epoch, policy, outbox, cap, task>>
        /\ runtime'.ctx = runtime.ctx /\ runtime'.fence # NoFence
    BY <1>4, Values DEF Lock, serverVars, rowVars, NewFence, NoFence
  <2> QED BY <2>1 DEF EpochsOK, Ticketed
<1>5. ASSUME NEW t \in Callers, Synchronize(t) PROVE EpochsOK'
  BY <1>0, <1>5, SyncEffect, EpochsStep DEF Ticketed, Syncing
<1>6. ASSUME NEW t \in Callers, LoseAnswer(t) \/ Crash(t) PROVE EpochsOK'
  BY <1>0, <1>6, FaultEffect, EpochsStep DEF Ticketed
<1>7. ASSUME NEW t \in Callers, NEW o \in Ops,
             Enqueue(t, o) \/ Cancel(t, o) \/ Resume(t, o)
      PROVE  EpochsOK'
  <2>1. UNCHANGED <<epoch, policy, runtime, cap, task>>
    BY <1>7 DEF Enqueue, Cancel, Resume, serverVars, callVars
  <2>2. \A p \in Ops : outbox'[p].epoch \in {outbox[p].epoch, runtime.ctx.epoch}
    <3>1. CASE Enqueue(t, o)
      BY <3>1, Values DEF Enqueue, Current, NoRow
    <3>2. CASE Cancel(t, o) \/ Resume(t, o)
      <4>1. outbox[o] \in Row
        BY Values
      <4>2. \E state : outbox' = [outbox EXCEPT ![o] =
                                    [outbox[o] EXCEPT !.state = state]]
        BY <3>2 DEF Cancel, Resume
      <4>3. \A p \in Ops : outbox'[p].epoch = outbox[p].epoch
        BY <4>1, <4>2, Values DEF Row
      <4> QED BY <4>3
    <3> QED BY <1>7, <3>1, <3>2
  <2>3. \A p \in Ops : outbox'[p].epoch <= runtime'.ctx.epoch
    <3>1. \A n \in Nat : n <= n
      OBVIOUS
    <3> QED BY <2>1, <2>2, <3>1, Values DEF EpochsOK
  <2> QED BY <2>1, <2>3 DEF EpochsOK, Ticketed
<1> QED BY <1>1, <1>2, <1>3, <1>4, <1>5, <1>6, <1>7, EpochsReplica
        DEF Next, ClientNext, Quiet

-----------------------------------------------------------------------------
(* Steps without an exchange.                                              *)

Working == {"sending", "uncertain", "quarantined"}
RowCalm(o) ==
    /\ outbox'[o].sent = outbox[o].sent
    /\ outbox[o].sent => outbox'[o].epoch = outbox[o].epoch
    /\ outbox'[o].state \in {"none", "cancelled"} => ~outbox[o].sent
    /\ outbox[o].sent /\ outbox[o].state \in Working =>
          outbox'[o].state \in Working
    /\ outbox'[o].state \in {"acknowledged", "refused"} =>
          outbox'[o].state = outbox[o].state
TaskCalm(t) ==
    \/ task'[t].at = task[t].at /\ task'[t].op = task[t].op
    \/ task[t].at # "await" /\ task'[t].at \notin Engaged
Calm ==
    /\ UNCHANGED <<epoch, journal, requests, reply, verdicts>>
    /\ \A o \in Ops : RowCalm(o)
    /\ \A t \in Callers : TaskCalm(t)

LEMMA CalmStep ==
    ASSUME TypeOK, LedgerInv, Calm
    PROVE  ExchangeInv' /\ VerdictInv'
<1> USE DEF Calm, LedgerInv, ExchangeInv, VerdictInv
<1>1. \A t \in Callers : task'[t].at \in Engaged =>
                           /\ task[t].at \in Engaged
                           /\ task'[t].op = task[t].op
                           /\ task[t].op \in Ops
  BY RowAtWork DEF TaskCalm, Engaged, Syncing
<1>2. \A t \in Callers : task[t].at = "await" =>
                           /\ task'[t].at = "await"
                           /\ task'[t].op = task[t].op
  BY DEF TaskCalm, Engaged
<1>3. RowsUnsent'
  BY DEF RowCalm, RowsUnsent
<1>4. RequestsMatch'
  <2>1. \A q \in requests : q.op \in Ops
    BY Values DEF Request
  <2> QED BY <2>1 DEF RowCalm, RequestsMatch
<1>5. OneExchange'
  BY <1>2 DEF OneExchange
<1>6. EngagedRows'
  BY <1>1 DEF RowCalm, EngagedRows, Working
<1>7. DecidedOnce'
  BY DEF RowCalm, DecidedOnce
<1>8. JournalDecided'
  BY DEF JournalDecided
<1>9. BelievedDecided'
  BY DEF RowCalm, BelievedDecided
<1>10. KnownDecided'
  BY <1>2 DEF KnownDecided, OneExchange
<1> QED BY <1>3, <1>4, <1>5, <1>6, <1>7, <1>8, <1>9, <1>10

\* A row that stays is calm.
LEMMA SameRowCalm ==
    ASSUME TypeOK, LedgerInv, NEW o \in Ops, outbox'[o] = outbox[o]
    PROVE  RowCalm(o)
<1>1. outbox[o].state \in {"none", "cancelled"} => ~outbox[o].sent
  BY DEF LedgerInv, ExchangeInv, RowsUnsent
<1> QED BY <1>1 DEF RowCalm

\* A row that only changes its state.
LEMMA StateCalm ==
    ASSUME TypeOK, LedgerInv, NEW o \in Ops, NEW row,
           outbox' = [outbox EXCEPT ![o] = row],
           row.sent = outbox[o].sent, row.epoch = outbox[o].epoch,
           \/ row.state \in {"pending", "uncertain", "quarantined"}
           \/ row.state = "cancelled" /\ ~outbox[o].sent,
           outbox[o].sent => row.state # "pending"
    PROVE  \A p \in Ops : RowCalm(p)
<1>1. /\ outbox'[o] = row
      /\ \A p \in Ops \ {o} : outbox'[p] = outbox[p]
  BY Values
<1>2. RowCalm(o)
  BY <1>1 DEF RowCalm, Working
<1> QED BY <1>1, <1>2, SameRowCalm

LEMMA CalmHost ==
    ASSUME TypeOK, LedgerInv, NEW t \in Callers, NEW o \in Ops,
           Enqueue(t, o) \/ Cancel(t, o) \/ Resume(t, o)
    PROVE  Calm
<1>0. /\ UNCHANGED <<epoch, journal, requests, reply, verdicts>>
      /\ task' = task
  BY DEF Enqueue, Cancel, Resume, serverVars, callVars
<1>1. outbox[o] \in Row
  BY Values
<1>2. CASE Enqueue(t, o)
  <2>1. ~outbox[o].sent /\ outbox[o].state = "none"
    BY <1>2 DEF Enqueue, LedgerInv, ExchangeInv, RowsUnsent
  <2>2. /\ outbox'[o].sent = FALSE /\ outbox'[o].state = "pending"
        /\ \A p \in Ops \ {o} : outbox'[p] = outbox[p]
    BY <1>2, Values DEF Enqueue, NoRow
  <2>3. RowCalm(o)
    BY <2>1, <2>2, Values DEF RowCalm
  <2>4. \A p \in Ops \ {o} : RowCalm(p)
    BY <2>2, SameRowCalm
  <2> QED BY <1>0, <2>3, <2>4 DEF Calm, TaskCalm
<1>3. CASE Cancel(t, o)
  <2> DEFINE row == [outbox[o] EXCEPT !.state = "cancelled"]
  <2>1. /\ row.sent = outbox[o].sent /\ row.epoch = outbox[o].epoch
        /\ row.state = "cancelled"
    BY <1>1 DEF Row
  <2>2. outbox' = [outbox EXCEPT ![o] = row] /\ ~outbox[o].sent
    BY <1>3 DEF Cancel, Cancellable
  <2> HIDE DEF row
  <2>3. \A p \in Ops : RowCalm(p)
    BY <2>1, <2>2, StateCalm
  <2> QED BY <1>0, <2>3 DEF Calm, TaskCalm
<1>4. CASE Resume(t, o)
  <2> DEFINE row == [outbox[o] EXCEPT !.state = Resumed(o)]
  <2>1. /\ row.sent = outbox[o].sent /\ row.epoch = outbox[o].epoch
        /\ row.state = Resumed(o)
    BY <1>1 DEF Row
  <2>2. outbox' = [outbox EXCEPT ![o] = row]
    BY <1>4 DEF Resume
  <2>3. /\ Resumed(o) \in {"pending", "uncertain"}
        /\ outbox[o].sent => Resumed(o) # "pending"
    BY DEF Resumed
  <2> HIDE DEF row
  <2>4. \A p \in Ops : RowCalm(p)
    BY <2>1, <2>2, <2>3, StateCalm
  <2> QED BY <1>0, <2>4 DEF Calm, TaskCalm
<1> QED BY <1>2, <1>3, <1>4

LEMMA CalmReplica ==
    ASSUME TypeOK, LedgerInv, NEW t \in Callers, Replicate(t)
    PROVE  Calm
<1>0. /\ UNCHANGED serverVars
      /\ task[t].at \notin Syncing /\ task'[t].at \notin Syncing
      /\ \A s \in Callers \ {t} : task'[s] = task[s]
      /\ outbox' # outbox => ActivateSnapshot(t)
  BY ReplicaEffect
<1>1. \A s \in Callers : TaskCalm(s)
  BY <1>0 DEF TaskCalm, Engaged, Syncing
<1>2. ASSUME NEW o \in Ops PROVE RowCalm(o)
  <2>1. CASE outbox' = outbox
    BY <2>1, SameRowCalm DEF RowCalm
  <2>2. CASE outbox' # outbox
    <3> DEFINE c == task[t].ticket.ctx
    <3>1. c \in Context
      BY Values DEF Task, Ticket
    <3>2. outbox' = [p \in Ops |-> Quarantined(outbox[p], c)]
      BY <1>0, <2>2 DEF ActivateSnapshot
    <3>3. outbox[o] \in Row
      BY Values
    <3> HIDE DEF c
    <3>4. /\ outbox'[o].epoch = outbox[o].epoch
          /\ outbox'[o].sent = outbox[o].sent
          /\ \/ outbox'[o].state = outbox[o].state
             \/ /\ outbox[o].state \notin Final \cup {"none"}
                /\ outbox'[o].state = "quarantined"
      BY <3>1, <3>2, <3>3, QuarantinedRow
    <3>5. outbox[o].state \in {"none", "cancelled"} => ~outbox[o].sent
      BY DEF LedgerInv, ExchangeInv, RowsUnsent
    <3> QED BY <3>4, <3>5 DEF RowCalm, Working, Final
  <2> QED BY <2>1, <2>2
<1> QED BY <1>0, <1>1, <1>2 DEF Calm, serverVars

LEMMA CalmSync ==
    ASSUME TypeOK, LedgerInv, NEW t \in Callers,
           \/ \E due \in SUBSET Ops : StartSync(t, due)
           \/ \E o \in Ops : SkipRow(t, o) \/ AbandonSync(t, o)
           \/ MarkUncertain(t) \/ Quarantine(t)
    PROVE  Calm
<1> USE DEF At, serverVars, rowVars
<1>0. Synchronize(t)
  BY DEF Synchronize
<1>1. /\ UNCHANGED <<epoch, journal, requests, reply, verdicts>>
      /\ \A s \in Callers \ {t} : task'[s] = task[s]
      /\ task[t].at # "await"
  BY <1>0, SyncEffect
     DEF StartSync, SkipRow, AbandonSync, MarkUncertain, Quarantine
<1>2. task'[t].at \notin Engaged
  <2>1. ASSUME NEW due \in SUBSET Ops, StartSync(t, due)
        PROVE  task'[t].at = "loop"
    <3>1. PICK known : task' = [task EXCEPT ![t] =
             [Resting EXCEPT !.at = "loop", !.due = due, !.known = known]]
      BY <2>1 DEF StartSync
    <3> QED BY <3>1, Values DEF Resting
  <2> QED BY <2>1, RestEffect, DoneEffect
          DEF SkipRow, AbandonSync, MarkUncertain, Quarantine, Engaged
<1>3. \A s \in Callers : TaskCalm(s)
  BY <1>1, <1>2 DEF TaskCalm
<1>4. CASE outbox' = outbox
  BY <1>1, <1>3, <1>4, SameRowCalm DEF Calm, RowCalm
<1>5. CASE MarkUncertain(t) \/ Quarantine(t)
  <2> DEFINE o == task[t].op
             unsure == [outbox[o] EXCEPT !.state = "uncertain"]
             stopped == [outbox[o] EXCEPT !.state = "quarantined",
                                          !.resumable = task[t].resumable]
  <2>1. o \in Ops /\ outbox[o] \in Row
    BY <1>5, RowAtWork DEF MarkUncertain, Quarantine, Syncing
  <2>2. /\ unsure.epoch = outbox[o].epoch /\ unsure.sent = outbox[o].sent
        /\ unsure.state = "uncertain"
        /\ stopped.epoch = outbox[o].epoch /\ stopped.sent = outbox[o].sent
        /\ stopped.state = "quarantined"
    BY <2>1 DEF Row
  <2>3. \/ outbox' = outbox
        \/ outbox' = [outbox EXCEPT ![o] = unsure]
        \/ outbox' = [outbox EXCEPT ![o] = stopped]
    BY <1>5 DEF MarkUncertain, Quarantine
  <2> HIDE DEF unsure, stopped, o
  <2>4. CASE outbox' # outbox
    <3>1. \A p \in Ops : RowCalm(p)
      BY <2>1, <2>2, <2>3, <2>4, StateCalm
    <3> QED BY <1>1, <1>3, <3>1 DEF Calm
  <2> QED BY <1>4, <2>4
<1> QED BY <1>4, <1>5 DEF StartSync, SkipRow, AbandonSync

-----------------------------------------------------------------------------
(* Steps of an exchange.                                                   *)

\* Nobody else is engaged while a caller sends.
LEMMA OneEngaged ==
    ASSUME TypeOK, NEW t \in Callers, task[t].at \in Syncing
    PROVE  \A s \in Callers \ {t} : task[s].at \notin Syncing
BY DEF TypeOK

LEMMA LedgerSendRow ==
    ASSUME TypeOK, LedgerInv, NEW t \in Callers, NEW o \in Ops, SendRow(t, o)
    PROVE  ExchangeInv' /\ VerdictInv'
<1> USE DEF LedgerInv, ExchangeInv, VerdictInv, At
<1> DEFINE row == [outbox[o] EXCEPT !.state = "sending", !.sent = TRUE]
           q == [task[t] EXCEPT !.at = "await", !.op = o]
<1>1. outbox[o] \in Row /\ task[t] \in Task
  BY Values
<1>2. /\ row.sent = TRUE /\ row.state = "sending"
      /\ row.epoch = outbox[o].epoch
      /\ q.at = "await" /\ q.op = o
  BY <1>1 DEF Row, Task
<1>3. /\ outbox' = [outbox EXCEPT ![o] = row] /\ task' = [task EXCEPT ![t] = q]
      /\ UNCHANGED <<epoch, journal, reply, verdicts>>
      /\ task[t].at = "loop"
  BY DEF SendRow
<1> HIDE DEF row, q
<1>4. /\ outbox'[o] = row /\ \A p \in Ops \ {o} : outbox'[p] = outbox[p]
      /\ task'[t] = q /\ \A s \in Callers \ {t} : task'[s] = task[s]
  BY <1>3, Values
<1>5. PICK n : /\ requests' = requests \cup {n}
               /\ n.from = t /\ n.op = o /\ n.epoch = outbox[o].epoch
  <2> DEFINE kind == IF o \in task[t].known THEN "lookup" ELSE "push"
             n == [from |-> t, kind |-> kind, op |-> o,
                   epoch |-> outbox[o].epoch, stage |-> "sent", gen |-> 0]
  <2>1. requests' = requests \cup {n}
    BY DEF SendRow, Ask
  <2>2. n.from = t /\ n.op = o /\ n.epoch = outbox[o].epoch
    OBVIOUS
  <2> HIDE DEF n
  <2> QED BY <2>1, <2>2
<1>6. reply[t].kind = "none" /\ \A r \in requests : r.from # t
  BY <1>3 DEF OneExchange
<1>7. \A s \in Callers \ {t} : task[s].at \notin Syncing
  BY <1>3, OneEngaged DEF Syncing
<1>8. \A r \in requests : r.op \in Ops
  BY Values DEF Request
<1>9. RowsUnsent'
  BY <1>2, <1>4 DEF RowsUnsent
<1>10. RequestsMatch'
  BY <1>2, <1>4, <1>5, <1>8 DEF RequestsMatch
<1>11. OneExchange'
  BY <1>2, <1>3, <1>4, <1>5, <1>6 DEF OneExchange
<1>12. EngagedRows'
  BY <1>2, <1>4, <1>7 DEF EngagedRows, Engaged, Syncing
<1>13. DecidedOnce'
  BY <1>2, <1>3, <1>4 DEF DecidedOnce
<1>14. JournalDecided'
  BY <1>3 DEF JournalDecided
<1>15. BelievedDecided'
  BY <1>2, <1>3, <1>4 DEF BelievedDecided
<1>16. KnownDecided'
  BY <1>3, <1>4, <1>6 DEF KnownDecided
<1> QED BY <1>9, <1>10, <1>11, <1>12, <1>13, <1>14, <1>15, <1>16

LEMMA LedgerPush ==
    ASSUME TypeOK, LedgerInv, NEW t \in Callers, PushAfterLookup(t)
    PROVE  ExchangeInv' /\ VerdictInv'
<1> USE DEF LedgerInv, ExchangeInv, VerdictInv, At, Got
<1>1. /\ UNCHANGED <<epoch, journal, verdicts, outbox, task>>
      /\ task[t].at = "await" /\ reply[t].kind = "not_found"
      /\ reply' = [reply EXCEPT ![t] = NoReply]
  BY DEF PushAfterLookup, clientVars, rowVars, callVars, Heard
<1>2. /\ reply'[t].kind = "none"
      /\ \A s \in Callers \ {t} : reply'[s] = reply[s]
  BY <1>1, Values DEF NoReply
<1>3. task[t].op \in Ops
  BY <1>1, RowAtWork DEF Syncing
<1>4. PICK n : /\ requests' = requests \cup {n} /\ n.from = t
               /\ n.op = task[t].op /\ n.epoch = outbox[task[t].op].epoch
  <2> DEFINE n == [from |-> t, kind |-> "push", op |-> task[t].op,
                   epoch |-> outbox[task[t].op].epoch, stage |-> "sent",
                   gen |-> 0]
  <2>1. requests' = requests \cup {n}
    BY DEF PushAfterLookup, Ask
  <2>2. /\ n.from = t
        /\ n.op = task[t].op /\ n.epoch = outbox[task[t].op].epoch
    OBVIOUS
  <2> HIDE DEF n
  <2> QED BY <2>1, <2>2
<1>5. \A r \in requests : r.from # t
  BY <1>1 DEF OneExchange
<1>6. outbox[task[t].op].sent
  BY <1>1 DEF EngagedRows, Engaged
<1>7. RowsUnsent' /\ EngagedRows' /\ DecidedOnce' /\ JournalDecided'
      /\ BelievedDecided'
  BY <1>1 DEF RowsUnsent, EngagedRows, DecidedOnce, JournalDecided,
              BelievedDecided
<1>8. RequestsMatch'
  BY <1>1, <1>4, <1>6 DEF RequestsMatch
<1>9. OneExchange'
  BY <1>1, <1>2, <1>4, <1>5 DEF OneExchange
<1>10. KnownDecided'
  BY <1>1, <1>2 DEF KnownDecided
<1> QED BY <1>7, <1>8, <1>9, <1>10

\* The caller heard its answer: it has no request under way.
LEMMA LedgerHeard ==
    ASSUME TypeOK, LedgerInv, NEW t \in Callers, Heard(t),
           task[t].at = "await", reply[t].kind # "none",
           UNCHANGED <<epoch, journal, requests, verdicts>>,
           \A s \in Callers \ {t} : task'[s] = task[s],
           RowsUnsent', EngagedRows', BelievedDecided',
           \A o \in Ops : /\ outbox'[o].sent = outbox[o].sent
                          /\ outbox'[o].epoch = outbox[o].epoch
    PROVE  ExchangeInv' /\ VerdictInv'
<1> USE DEF LedgerInv, ExchangeInv, VerdictInv
<1>1. /\ reply'[t].kind = "none"
      /\ \A s \in Callers \ {t} : reply'[s] = reply[s]
  BY Values DEF NoReply, Heard
<1>2. \A r \in requests : r.from # t /\ r.op \in Ops
  BY Values DEF OneExchange, Request
<1>3. RequestsMatch'
  BY <1>2 DEF RequestsMatch
<1>4. OneExchange'
  BY <1>1, <1>2 DEF OneExchange
<1>5. DecidedOnce' /\ JournalDecided'
  BY DEF DecidedOnce, JournalDecided
<1>6. KnownDecided'
  BY <1>1 DEF KnownDecided
<1> QED BY <1>3, <1>4, <1>5, <1>6

LEMMA LedgerReceipt ==
    ASSUME TypeOK, LedgerInv, NEW t \in Callers, ApplyReceipt(t)
    PROVE  ExchangeInv' /\ VerdictInv'
<1> USE DEF At, Got
<1> DEFINE o == task[t].op
           row == [outbox[o] EXCEPT !.state = reply[t].outcome]
           q == IF runtime.ready /\ runtime.fence = cap[t].fence
                        /\ policy # runtime.ctx
                     THEN [task[t] EXCEPT !.at = "stop", !.resumable = TRUE]
                     ELSE [task[t] EXCEPT !.at = "unsure"]
<1>1. /\ UNCHANGED <<epoch, journal, requests, verdicts>> /\ Heard(t)
      /\ task[t].at = "await" /\ reply[t].kind = "known"
  BY DEF ApplyReceipt
<1>2. o \in Ops /\ outbox[o] \in Row /\ reply[t].outcome \in Outcomes
      /\ task[t] \in Task
  BY <1>1, RowAtWork, Values DEF Syncing, Reply
<1>3. /\ row.sent = outbox[o].sent /\ row.epoch = outbox[o].epoch
      /\ row.state = reply[t].outcome
  BY <1>2 DEF Row
<1>4. verdicts[o] = <<reply[t].outcome>> /\ outbox[o].sent
      /\ outbox[o].state \in Working
  BY <1>1 DEF LedgerInv, ExchangeInv, VerdictInv, KnownDecided, EngagedRows,
              Engaged, Working
<1>5. /\ q.at \in {"stop", "unsure"} /\ q.op = o
  BY <1>2 DEF Task
<1>6. \/ outbox' = [outbox EXCEPT ![o] = row] /\ Done(t, o)
      \/ outbox' = outbox /\ task' = [task EXCEPT ![t] = q]
  BY DEF ApplyReceipt
<1> HIDE DEF row, q, o
<1>7. \A s \in Callers \ {t} : task'[s] = task[s]
  BY <1>6, DoneEffect, Values
<1>8. /\ outbox'[o] \in {outbox[o], row}
      /\ \A p \in Ops \ {o} : outbox'[p] = outbox[p]
  BY <1>2, <1>6, Values
<1>9. RowsUnsent'
  BY <1>2, <1>3, <1>8
     DEF LedgerInv, ExchangeInv, RowsUnsent, Outcomes
<1>10. BelievedDecided'
  BY <1>1, <1>3, <1>4, <1>8 DEF LedgerInv, VerdictInv, BelievedDecided
<1>11. \A s \in Callers \ {t} : task[s].at \notin Syncing
  BY <1>1, OneEngaged DEF Syncing
<1>12. EngagedRows'
  <2>1. CASE Done(t, o)
    BY <1>7, <1>11, <2>1, DoneEffect DEF EngagedRows, Engaged, Syncing
  <2>2. CASE outbox' = outbox /\ task' = [task EXCEPT ![t] = q]
    <3>1. task'[t].op = o
      BY <1>5, <2>2, Values
    <3> QED BY <1>4, <1>7, <1>11, <2>2, <3>1
            DEF EngagedRows, Engaged, Syncing, Working
  <2> QED BY <1>6, <2>1, <2>2
<1> QED BY <1>1, <1>3, <1>7, <1>8, <1>9, <1>10, <1>12, LedgerHeard

LEMMA LedgerError ==
    ASSUME TypeOK, LedgerInv, NEW t \in Callers, HearError(t)
    PROVE  ExchangeInv' /\ VerdictInv'
<1> USE DEF At, rowVars
<1> DEFINE at == IF reply[t].kind = "stop" THEN "stop" ELSE "unsure"
           q == [task[t] EXCEPT !.at = at, !.resumable = reply[t].resumable]
<1>1. /\ UNCHANGED <<epoch, journal, requests, verdicts, outbox>> /\ Heard(t)
      /\ task[t].at = "await" /\ reply[t].kind # "none"
      /\ task' = [task EXCEPT ![t] = q]
  BY DEF HearError
<1>2. q.at \in {"stop", "unsure"} /\ q.op = task[t].op
  BY Values DEF Task
<1> HIDE DEF q
<1>3. /\ task'[t].at \in {"stop", "unsure"} /\ task'[t].op = task[t].op
      /\ \A s \in Callers \ {t} : task'[s] = task[s]
  BY <1>1, <1>2, Values
<1>4. EngagedRows'
  BY <1>1, <1>3 DEF LedgerInv, ExchangeInv, EngagedRows, Engaged
<1>5. RowsUnsent' /\ BelievedDecided'
  BY <1>1 DEF LedgerInv, ExchangeInv, VerdictInv, RowsUnsent, BelievedDecided
<1> QED BY <1>1, <1>3, <1>4, <1>5, LedgerHeard

\* Nobody waits any more; pushes under way stay.
LEMMA LedgerFault ==
    ASSUME TypeOK, LedgerInv, NEW t \in Callers, LoseAnswer(t) \/ Crash(t)
    PROVE  ExchangeInv' /\ VerdictInv'
<1> USE DEF LedgerInv, ExchangeInv, VerdictInv
<1>1. /\ UNCHANGED <<epoch, journal, verdicts, outbox>> /\ Orphan(t)
      /\ task'[t].at \in {"unsure", "idle"}
      /\ task'[t].at = "unsure" =>
             task[t].at = "await" /\ task'[t].op = task[t].op
      /\ \A s \in Callers \ {t} : task'[s] = task[s]
  BY FaultEffect DEF LoseAnswer, Crash
<1>2. /\ reply'[t].kind = "none"
      /\ \A s \in Callers \ {t} : reply'[s] = reply[s]
  BY <1>1, Values DEF NoReply, Orphan
<1>3. ASSUME NEW r \in requests'
      PROVE  \/ r \in requests /\ r.from # t
             \/ /\ r.from = NoCaller
                /\ \E p \in requests : r.op = p.op /\ r.epoch = p.epoch
  <2>1. CASE r \in requests /\ r.from # t
    BY <2>1
  <2>2. ASSUME NEW p \in requests, r = [p EXCEPT !.from = NoCaller]
        PROVE  r.from = NoCaller /\ r.op = p.op /\ r.epoch = p.epoch
    BY <2>2, Values DEF Request
  <2> QED BY <1>1, <2>1, <2>2 DEF Orphan
<1>4. RowsUnsent' /\ DecidedOnce' /\ JournalDecided' /\ BelievedDecided'
  BY <1>1 DEF RowsUnsent, DecidedOnce, JournalDecided, BelievedDecided
<1>5. RequestsMatch'
  BY <1>1, <1>3 DEF RequestsMatch
<1>6. OneExchange'
  BY <1>1, <1>2, <1>3, SentinelAssumption DEF OneExchange
<1>7. EngagedRows'
  BY <1>1 DEF EngagedRows, Engaged
<1>8. KnownDecided'
  BY <1>1, <1>2 DEF KnownDecided
<1> QED BY <1>4, <1>5, <1>6, <1>7, <1>8

-----------------------------------------------------------------------------
(* Steps of the server.                                                    *)

\* An answer ends its request.
LEMMA AnswerExchange ==
    ASSUME TypeOK, ExchangeInv, NEW q \in requests, NEW a \in Reply,
           Answer(q, a), UNCHANGED <<outbox, task>>
    PROVE  /\ ExchangeInv'
           /\ \A t \in Callers :
                 \/ reply'[t] = reply[t]
                 \/ reply'[t] = a /\ task'[t].op = q.op
<1> USE DEF ExchangeInv
<1>1. q \in Request /\ q.from \in Callers \cup {NoCaller}
  BY Values DEF Request
<1>2. requests' = requests \ {q}
  BY DEF Answer
<1>3. \A t \in Callers : t # q.from => reply'[t] = reply[t]
  BY Values DEF Answer
<1>4. q.from \in Callers =>
        /\ reply'[q.from] = a /\ task[q.from].op = q.op
        /\ task[q.from].at = "await"
        /\ \A r \in requests' : r.from # q.from
  BY <1>2, Values, SentinelAssumption DEF Answer, OneExchange
<1>5. RowsUnsent' /\ EngagedRows'
  BY DEF RowsUnsent, EngagedRows
<1>6. RequestsMatch'
  BY <1>2 DEF RequestsMatch
<1>7. OneExchange'
  BY <1>1, <1>2, <1>3, <1>4 DEF OneExchange
<1> QED BY <1>3, <1>4, <1>5, <1>6, <1>7

\* An answer that decides nothing tells only what was decided.
LEMMA LedgerAnswer ==
    ASSUME TypeOK, LedgerInv, NEW q \in requests, NEW a \in Reply,
           Answer(q, a),
           UNCHANGED <<outbox, task, epoch, journal, verdicts>>,
           a.kind = "known" => verdicts[q.op] = <<a.outcome>>
    PROVE  ExchangeInv' /\ VerdictInv'
<1> USE DEF LedgerInv, VerdictInv
<1>1. /\ ExchangeInv'
      /\ \A t \in Callers :
            \/ reply'[t] = reply[t]
            \/ reply'[t] = a /\ task'[t].op = q.op
  BY AnswerExchange
<1>2. DecidedOnce' /\ JournalDecided' /\ BelievedDecided'
  BY DEF DecidedOnce, JournalDecided, BelievedDecided
<1>3. KnownDecided'
  BY <1>1 DEF KnownDecided
<1> QED BY <1>1, <1>2, <1>3

\* Journals of the server, and what a longer or shorter one holds.
LEMMA JournalDomain ==
    ASSUME TypeOK
    PROVE  Len(journal) \in Nat /\ DOMAIN journal = 1..Len(journal)
BY Values

LEMMA Appended ==
    ASSUME TypeOK, NEW e \in Entry, journal' = Append(journal, e)
    PROVE  /\ Len(journal') = Len(journal) + 1
           /\ DOMAIN journal' = 1..(Len(journal) + 1)
           /\ journal'[Len(journal) + 1] = e
           /\ \A i \in DOMAIN journal :
                 i \in DOMAIN journal' /\ journal'[i] = journal[i]
           /\ \A i \in DOMAIN journal' :
                 i \in DOMAIN journal \/ i = Len(journal) + 1
BY Values

LEMMA CutShort ==
    ASSUME TypeOK, NEW n \in 0..Len(journal), journal' = SubSeq(journal, 1, n)
    PROVE  \A i \in DOMAIN journal' :
              i \in DOMAIN journal /\ journal'[i] = journal[i]
BY Values

\* The operation a served request decides has no outcome yet.
LEMMA Undecided ==
    ASSUME TypeOK, LedgerInv, NEW q \in requests, q.epoch = epoch,
           Find(q.op) = 0
    PROVE  /\ q.op \in Ops /\ outbox[q.op].sent /\ outbox[q.op].epoch = epoch
           /\ verdicts[q.op] = <<>>
<1>1. q.op \in Ops
  BY Values DEF Request
<1>2. outbox[q.op].sent /\ outbox[q.op].epoch = epoch
  BY DEF LedgerInv, ExchangeInv, RequestsMatch
<1>3. \A i \in DOMAIN journal : journal[i].op # q.op
  BY FindType, Values
<1> QED BY <1>1, <1>2, <1>3 DEF LedgerInv, VerdictInv, DecidedOnce

\* A decision: the journal has the position, the history the outcome.
LEMMA Decision ==
    ASSUME TypeOK, LedgerInv, NEW q \in requests, NEW outcome \in Outcomes,
           Apply(q, outcome)
    PROVE  /\ q.op \in Ops /\ q.epoch = epoch
           /\ verdicts[q.op] = <<>>
           /\ verdicts' = [verdicts EXCEPT ![q.op] = <<outcome>>]
           /\ \E e \in Entry :
                 /\ journal' = Append(journal, e)
                 /\ e.op = q.op /\ e.outcome = outcome /\ e.epoch = epoch
                 /\ outcome = "acknowledged" => e.key = Target[q.op]
<1>1. q.epoch = epoch /\ Find(q.op) = 0
  BY DEF Apply, Enter, Admitted
<1>2. q.op \in Ops /\ verdicts[q.op] = <<>>
  BY <1>1, Undecided
<1>3. Append(<<>>, outcome) = <<outcome>>
  OBVIOUS
<1>4. verdicts' = [verdicts EXCEPT ![q.op] = <<outcome>>]
  <2>1. verdicts' = [verdicts EXCEPT ![q.op] = Append(verdicts[q.op], outcome)]
    BY DEF Apply
  <2> QED BY <1>2, <1>3, <2>1
<1>5. PICK key : /\ key = IF outcome = "acknowledged" THEN Target[q.op]
                                                      ELSE NoKey
                 /\ journal' = Append(journal,
                      [op |-> q.op, outcome |-> outcome, epoch |-> q.epoch,
                       key |-> key, deleted |-> FALSE])
  BY DEF Apply
<1> DEFINE e == [op |-> q.op, outcome |-> outcome, epoch |-> q.epoch,
                 key |-> key, deleted |-> FALSE]
<1>6. key \in Keys \cup {NoKey}
  BY <1>2, <1>5
<1>7. e \in Entry
  BY <1>1, <1>2, <1>6, Values DEF Entry
<1>8. /\ e.op = q.op /\ e.outcome = outcome /\ e.epoch = epoch
      /\ outcome = "acknowledged" => e.key = Target[q.op]
  BY <1>1, <1>5
<1> HIDE DEF e
<1> QED BY <1>1, <1>2, <1>4, <1>5, <1>7, <1>8 DEF e

LEMMA LedgerApply ==
    ASSUME TypeOK, LedgerInv, NEW q \in requests, NEW outcome \in Outcomes,
           Apply(q, outcome), UNCHANGED <<outbox, task>>
    PROVE  ExchangeInv' /\ VerdictInv'
<1> DEFINE o == q.op
<1>1. PICK e \in Entry : /\ journal' = Append(journal, e)
                         /\ e.op = o /\ e.outcome = outcome
  BY Decision
<1>2. /\ o \in Ops /\ verdicts[o] = <<>> /\ q.epoch = epoch
      /\ verdicts' = [verdicts EXCEPT ![o] = <<outcome>>]
  BY Decision
<1>3. /\ verdicts'[o] = <<outcome>>
      /\ \A p \in Ops \ {o} : verdicts'[p] = verdicts[p]
  BY <1>2, Values
<1>4. PICK a \in Reply : a = Known(Len(journal) + 1, outcome)
  BY ReplyTypes, JournalDomain
<1>5. Answer(q, a) /\ a.outcome = outcome
  BY <1>4 DEF Apply, Known, NoReply
<1>6. /\ ExchangeInv'
      /\ \A t \in Callers :
            \/ reply'[t] = reply[t]
            \/ reply'[t] = a /\ task'[t].op = q.op
  BY <1>5, AnswerExchange DEF LedgerInv
<1>7. /\ outbox[o].sent /\ epoch' = epoch
      /\ \A i \in DOMAIN journal : journal[i].op # o
  BY FindType, Undecided, Values DEF Apply, Enter, Admitted
<1>8. /\ DOMAIN journal' = 1..(Len(journal) + 1)
      /\ Len(journal) + 1 \in DOMAIN journal'
      /\ journal'[Len(journal) + 1] = e
      /\ \A i \in DOMAIN journal :
            i \in DOMAIN journal' /\ journal'[i] = journal[i]
      /\ \A i \in DOMAIN journal' :
            i \in DOMAIN journal \/ i = Len(journal) + 1
  BY <1>1, Appended, JournalDomain
<1> HIDE DEF o
<1>9. DecidedOnce'
  <2> SUFFICES ASSUME NEW p \in Ops, verdicts'[p] # <<>>
               PROVE  /\ outbox[p].sent
                      /\ outbox[p].epoch = epoch =>
                           \E i \in DOMAIN journal' : journal'[i].op = p
    BY <1>7 DEF DecidedOnce
  <2>1. CASE p = o
    BY <1>1, <1>7, <1>8, <2>1
  <2>2. CASE p # o
    <3>1. /\ outbox[p].sent
          /\ outbox[p].epoch = epoch =>
               \E i \in DOMAIN journal : journal[i].op = p
      BY <1>3, <2>2 DEF LedgerInv, VerdictInv, DecidedOnce
    <3> QED BY <1>8, <3>1
  <2> QED BY <2>1, <2>2
<1>10. JournalDecided'
  <2> SUFFICES ASSUME NEW i \in DOMAIN journal', journal'[i].op \in Ops
               PROVE  verdicts'[journal'[i].op] = <<journal'[i].outcome>>
    BY DEF JournalDecided
  <2>1. CASE i \in DOMAIN journal
    BY <1>3, <1>7, <1>8, <2>1 DEF LedgerInv, VerdictInv, JournalDecided
  <2>2. CASE i = Len(journal) + 1
    BY <1>1, <1>3, <1>8, <2>2
  <2> QED BY <1>8, <2>1, <2>2
<1>11. BelievedDecided'
  <2> SUFFICES ASSUME NEW p \in Ops,
                      outbox[p].state \in {"acknowledged", "refused"}
               PROVE  verdicts'[p] = <<outbox[p].state>>
    BY DEF BelievedDecided
  <2>1. verdicts[p] = <<outbox[p].state>>
    BY DEF LedgerInv, VerdictInv, BelievedDecided
  <2>2. verdicts[p] # <<>>
    BY <2>1
  <2> QED BY <1>2, <1>3, <2>1, <2>2
<1>12. KnownDecided'
  <2> SUFFICES ASSUME NEW t \in Callers, reply'[t].kind = "known"
               PROVE  verdicts'[task[t].op] = <<reply'[t].outcome>>
    BY DEF KnownDecided
  <2>1. CASE reply'[t] = a /\ task[t].op = o
    BY <1>3, <1>5, <2>1
  <2>2. CASE reply'[t] = reply[t]
    <3>1. verdicts[task[t].op] = <<reply[t].outcome>>
      BY <2>2 DEF LedgerInv, VerdictInv, KnownDecided
    <3>2. verdicts[task[t].op] # <<>>
      BY <3>1
    <3>3. task[t].op \in Ops
      <4>1. task[t].at = "await"
        BY <2>2 DEF LedgerInv, ExchangeInv, OneExchange
      <4> QED BY <4>1, RowAtWork DEF Syncing
    <3> QED BY <1>2, <1>3, <2>2, <3>1, <3>2, <3>3
  <2> QED BY <1>6, <2>1, <2>2 DEF o
<1> QED BY <1>6, <1>9, <1>10, <1>11, <1>12 DEF VerdictInv

\* A request that passes authorize is still the same request.
LEMMA LedgerAuthorize ==
    ASSUME TypeOK, LedgerInv, NEW q \in requests, Authorize(q),
           UNCHANGED <<outbox, task>>
    PROVE  ExchangeInv' /\ VerdictInv'
<1> USE DEF LedgerInv, ExchangeInv, VerdictInv
<1>1. UNCHANGED <<epoch, journal, verdicts>>
  BY DEF Authorize
<1>2. CASE q.epoch # epoch
  <2>1. Stop(FALSE) \in Reply /\ Stop(FALSE).kind = "stop"
    BY ReplyTypes DEF Stop, NoReply
  <2> QED BY <1>1, <1>2, <2>1, LedgerAnswer DEF Authorize
<1>3. CASE q.epoch = epoch
  <2> DEFINE n == [q EXCEPT !.stage = "authorized", !.gen = generation]
  <2>1. q \in Request
    BY Values
  <2>2. n.from = q.from /\ n.op = q.op /\ n.epoch = q.epoch
    BY <2>1 DEF Request
  <2>3. requests' = (requests \ {q}) \cup {n} /\ reply' = reply
    BY <1>3 DEF Authorize
  <2> HIDE DEF n
  <2>4. RowsUnsent' /\ EngagedRows' /\ DecidedOnce' /\ JournalDecided'
        /\ BelievedDecided' /\ KnownDecided'
    BY <1>1, <2>3 DEF RowsUnsent, EngagedRows, DecidedOnce, JournalDecided,
                      BelievedDecided, KnownDecided
  <2>5. RequestsMatch'
    BY <2>2, <2>3 DEF RequestsMatch
  <2>6. OneExchange'
    BY <2>2, <2>3 DEF OneExchange
  <2> QED BY <2>4, <2>5, <2>6
<1> QED BY <1>2, <1>3

LEMMA LedgerServe ==
    ASSUME TypeOK, LedgerInv, NEW q \in requests, Serve(q),
           UNCHANGED <<outbox, task>>
    PROVE  ExchangeInv' /\ VerdictInv'
<1> DEFINE Told(a) == /\ a \in Reply /\ Answer(q, a)
                      /\ UNCHANGED <<epoch, journal, verdicts>>
                      /\ a.kind = "known" => verdicts[q.op] = <<a.outcome>>
<1>1. ASSUME NEW a, Told(a) PROVE ExchangeInv' /\ VerdictInv'
  BY <1>1, LedgerAnswer
<1>2. \A b \in BOOLEAN : Stop(b) \in Reply /\ Stop(b).kind # "known"
  BY ReplyTypes DEF Stop, NoReply
<1>3. /\ NotFound \in Reply /\ NotFound.kind # "known"
      /\ Retry \in Reply /\ Retry.kind # "known"
  BY ReplyTypes DEF NotFound, Retry, NoReply
<1>4. CASE Forbid(q)
  BY <1>2, <1>4, <1>1 DEF Forbid
<1>5. CASE RightsChanged(q)
  <2>1. PICK b \in BOOLEAN : b = (q.epoch = epoch)
    OBVIOUS
  <2>2. Answer(q, Stop(b))
    BY <1>5, <2>1 DEF RightsChanged
  <2> QED BY <1>2, <1>5, <1>1, <2>2 DEF RightsChanged
<1>6. CASE AnswerKnown(q)
  <2> DEFINE i == Find(q.op)
             a == IF journal[i].epoch = q.epoch
                  THEN Known(i, journal[i].outcome) ELSE Stop(FALSE)
  <2>1. /\ Answer(q, a) /\ i # 0
        /\ UNCHANGED <<epoch, journal, verdicts>>
    BY <1>6 DEF AnswerKnown
  <2>2. q.op \in Ops
    BY Values DEF Request
  <2>3. /\ i \in DOMAIN journal /\ journal[i].op = q.op
        /\ journal[i] \in Entry
    BY <2>1, FindType, Values
  <2>4. verdicts[q.op] = <<journal[i].outcome>>
    <3> HIDE DEF i, a
    <3> QED BY <2>2, <2>3 DEF LedgerInv, VerdictInv, JournalDecided
  <2>5. i \in Nat /\ journal[i].outcome \in Outcomes
    BY <2>3, JournalDomain DEF Entry
  <2>6. a \in Reply /\ (a.kind = "known" => a.outcome = journal[i].outcome)
    <3>1. Known(i, journal[i].outcome) \in Reply
      BY <2>5, ReplyTypes
    <3>2. Known(i, journal[i].outcome).outcome = journal[i].outcome
      BY DEF Known, NoReply
    <3> HIDE DEF i
    <3> QED BY <1>2, <3>1, <3>2
  <2> HIDE DEF a, i
  <2> QED BY <1>1, <2>1, <2>4, <2>6
<1>7. CASE AnswerUnknown(q)
  BY <1>3, <1>7, <1>1 DEF AnswerUnknown
<1>8. CASE AnswerExpired(q)
  BY <1>2, <1>8, <1>1 DEF AnswerExpired
<1>9. CASE DependencyMissing(q)
  <2>1. Answer(q, Stop(FALSE)) \/ Answer(q, Retry)
    BY <1>9 DEF DependencyMissing
  <2> QED BY <1>2, <1>3, <1>9, <1>1, <2>1 DEF DependencyMissing
<1>10. ASSUME NEW outcome \in Outcomes, Apply(q, outcome)
       PROVE  ExchangeInv' /\ VerdictInv'
  BY <1>10, LedgerApply
<1> HIDE DEF Told
<1> QED BY <1>4, <1>5, <1>6, <1>7, <1>8, <1>9, <1>10, LedgerAuthorize
        DEF Serve

\* A write of another device is no operation; a restore forgets the end of
\* the journal, but no row is of the new epoch yet.
LEMMA LedgerServer ==
    ASSUME TypeOK, LedgerInv, ServerNext, UNCHANGED clientVars
    PROVE  ExchangeInv' /\ VerdictInv'
<1> USE DEF LedgerInv, ExchangeInv, VerdictInv
<1>0. UNCHANGED <<outbox, task>>
  BY DEF clientVars, rowVars, callVars
<1>1. ASSUME UNCHANGED <<requests, reply, verdicts>>,
             \A o \in Ops :
                /\ verdicts[o] # <<>> /\ outbox[o].epoch = epoch'
                => \E i \in DOMAIN journal' : journal'[i].op = o,
             \A i \in DOMAIN journal' :
                journal'[i].op \in Ops =>
                    i \in DOMAIN journal /\ journal'[i] = journal[i]
      PROVE  ExchangeInv' /\ VerdictInv'
  <2>1. ExchangeInv'
    BY <1>0, <1>1 DEF RowsUnsent, RequestsMatch, OneExchange, EngagedRows
  <2>2. DecidedOnce'
    BY <1>0, <1>1 DEF DecidedOnce
  <2>3. JournalDecided'
    BY <1>1 DEF JournalDecided
  <2>4. BelievedDecided' /\ KnownDecided'
    BY <1>0, <1>1 DEF BelievedDecided, KnownDecided
  <2> QED BY <2>1, <2>2, <2>3, <2>4
<1>2. ASSUME NEW k \in Keys, NEW deleted \in BOOLEAN, OtherWrite(k, deleted)
      PROVE  ExchangeInv' /\ VerdictInv'
  <2> DEFINE e == [op |-> NoOp, outcome |-> "acknowledged", epoch |-> epoch,
                   key |-> k, deleted |-> deleted]
  <2>1. /\ journal' = Append(journal, e)
        /\ UNCHANGED <<epoch, requests, reply, verdicts>>
    BY <1>2 DEF OtherWrite
  <2>2. e \in Entry /\ e.op = NoOp
    BY Values DEF Entry, Outcomes
  <2> HIDE DEF e
  <2>3. /\ \A i \in DOMAIN journal :
              i \in DOMAIN journal' /\ journal'[i] = journal[i]
        /\ \A i \in DOMAIN journal' :
              journal'[i].op \in Ops => i \in DOMAIN journal
    BY <2>1, <2>2, Appended, SentinelAssumption
  <2>4. \A o \in Ops :
           verdicts[o] # <<>> /\ outbox[o].epoch = epoch
           => \E i \in DOMAIN journal' : journal'[i].op = o
    BY <2>3 DEF DecidedOnce
  <2> QED BY <1>1, <2>1, <2>3, <2>4
<1>3. CASE ChangeRights
  <2>1. UNCHANGED <<epoch, journal, requests, reply, verdicts>>
    BY <1>3 DEF ChangeRights
  <2>2. \A o \in Ops :
           verdicts[o] # <<>> /\ outbox[o].epoch = epoch
           => \E i \in DOMAIN journal : journal[i].op = o
    BY DEF DecidedOnce
  <2> QED BY <1>1, <2>1, <2>2
<1>4. ASSUME NEW n \in 0..Len(journal), Restore(n)
      PROVE  ExchangeInv' /\ VerdictInv'
  <2>1. /\ journal' = SubSeq(journal, 1, n) /\ epoch' = epoch + 1
        /\ UNCHANGED <<requests, reply, verdicts>>
    BY <1>4 DEF Restore
  <2>2. \A i \in DOMAIN journal' :
           i \in DOMAIN journal /\ journal'[i] = journal[i]
    BY <2>1, CutShort
  <2>3. ASSUME NEW o \in Ops PROVE outbox[o].epoch # epoch'
    <3>1. /\ outbox[o].epoch \in Nat /\ outbox[o].epoch <= runtime.ctx.epoch
          /\ runtime.ctx.epoch \in Nat /\ runtime.ctx.epoch <= epoch
          /\ epoch \in Nat
      BY Values DEF EpochsOK
    <3>2. \A a, b, c \in Nat : a <= b /\ b <= c => a # c + 1
      OBVIOUS
    <3> QED BY <2>1, <3>1, <3>2
  <2> QED BY <1>1, <2>1, <2>2, <2>3
<1> QED BY <1>0, <1>2, <1>3, <1>4, LedgerServe DEF ServerNext

LEMMA LedgerInit == Init => LedgerInv
<1> SUFFICES ASSUME Init PROVE LedgerInv
  OBVIOUS
<1>1. /\ epoch = 1 /\ journal = <<>> /\ requests = {}
      /\ policy = [epoch |-> 1, gen |-> 1]
      /\ runtime.ready = FALSE /\ runtime.ctx = NoContext
      /\ runtime.fence = NoFence
  BY DEF Init, ServerInit, Here
<1>2. NoContext.epoch = 0
  BY DEF NoContext
<1>3. \A o \in Ops : /\ outbox[o].state = "none" /\ outbox[o].epoch = 0
                     /\ outbox[o].sent = FALSE /\ verdicts[o] = <<>>
  BY DEF Init, ServerInit, NoRow
<1>4. \A t \in Callers : /\ task[t].at = "idle" /\ reply[t].kind = "none"
                         /\ cap[t].ctx = NoContext
  BY NothingTypes DEF Init, ServerInit, NoReply
<1>5. EpochsOK
  BY <1>1, <1>2, <1>3, <1>4 DEF EpochsOK, Ticketed
<1>6. ExchangeInv
  BY <1>1, <1>3, <1>4 DEF ExchangeInv, RowsUnsent, RequestsMatch, OneExchange,
                          EngagedRows, Engaged
<1>7. VerdictInv
  BY <1>1, <1>3, <1>4 DEF VerdictInv, DecidedOnce, JournalDecided,
                          BelievedDecided, KnownDecided
<1> QED BY <1>5, <1>6, <1>7 DEF LedgerInv

\* The steps of the clients that ask, hear, decide and believe nothing.
LEMMA CalmRest ==
    ASSUME TypeOK, LedgerInv, Grant \/ Revoke \/ Lock \/ UNCHANGED vars
    PROVE  Calm
<1>1. /\ UNCHANGED <<epoch, journal, requests, reply, verdicts>>
      /\ outbox' = outbox /\ task' = task
  BY DEF Grant, Revoke, Lock, vars, serverVars, clientVars, rowVars, callVars
<1>2. \A o \in Ops : RowCalm(o)
  BY <1>1, SameRowCalm
<1>3. \A t \in Callers : TaskCalm(t)
  BY <1>1 DEF TaskCalm
<1> QED BY <1>1, <1>2, <1>3 DEF Calm

LEMMA LedgerNext ==
    ASSUME TypeOK, RightsOK, LedgerInv, [Next]_vars
    PROVE  LedgerInv'
<1>1. EpochsOK'
  BY EpochsNext DEF LedgerInv
<1>2. CASE ServerNext /\ UNCHANGED clientVars
  BY <1>1, <1>2, LedgerServer DEF LedgerInv
<1>3. CASE Calm
  BY <1>1, <1>3, CalmStep DEF LedgerInv
<1>4. ASSUME NEW t \in Callers, Replicate(t) \/ Synchronize(t)
                                \/ LoseAnswer(t) \/ Crash(t)
      PROVE  LedgerInv'
  BY <1>1, <1>3, <1>4, CalmReplica, CalmSync, LedgerSendRow, LedgerPush,
     LedgerReceipt, LedgerError, LedgerFault DEF LedgerInv, Synchronize
<1>5. ASSUME NEW t \in Callers, NEW o \in Ops,
             Enqueue(t, o) \/ Cancel(t, o) \/ Resume(t, o)
      PROVE  Calm
  BY <1>5, CalmHost
<1> QED BY <1>2, <1>3, <1>4, <1>5, CalmRest DEF Next, ClientNext, Quiet

-----------------------------------------------------------------------------
(* The ledger is implemented.                                              *)

Views == [o \in Ops |-> View(o)]
Settled == {"acknowledged", "refused", "cancelled"}

LEMMA ViewValues ==
    ASSUME NEW o
    PROVE  /\ outbox[o].state \notin Settled => View(o) = "open"
           /\ outbox[o].state \in {"acknowledged", "refused"} =>
                 View(o) = outbox[o].state
           /\ outbox[o].state = "cancelled" => View(o) = "withdrawn"
BY DEF View, Settled

LEMMA NextView ==
    ASSUME NEW o
    PROVE  /\ outbox'[o].state \notin Settled => View(o)' = "open"
           /\ outbox'[o].state \in {"acknowledged", "refused"} =>
                 View(o)' = outbox'[o].state
           /\ outbox'[o].state = "cancelled" => View(o)' = "withdrawn"
BY DEF View, Settled

\* A step that replaces one row.
LEMMA OneView ==
    ASSUME TypeOK, NEW o \in Ops, NEW row, NEW v,
           outbox' = [outbox EXCEPT ![o] = row],
           \/ row.state \notin Settled /\ v = "open"
           \/ row.state \in {"acknowledged", "refused"} /\ v = row.state
           \/ row.state = "cancelled" /\ v = "withdrawn"
    PROVE  Views' = [Views EXCEPT ![o] = v]
<1>1. outbox'[o] = row /\ \A p \in Ops \ {o} : outbox'[p] = outbox[p]
  BY Values
<1>2. View(o)' = v
  BY <1>1, NextView
<1>3. \A p \in Ops \ {o} : View(p)' = View(p)
  BY <1>1 DEF View
<1> QED BY <1>2, <1>3 DEF Views

LEMMA SameViews == outbox' = outbox => Views' = Views
BY DEF Views, View

\* A step that replaces an open row by an open row.
LEMMA StillOpen ==
    ASSUME TypeOK, NEW o \in Ops, NEW row, outbox' = [outbox EXCEPT ![o] = row],
           outbox[o].state \notin Settled, row.state \notin Settled
    PROVE  Views' = Views
<1>1. Views' = [Views EXCEPT ![o] = "open"]
  BY OneView
<1>2. View(o) = "open"
  BY ViewValues
<1> QED BY <1>1, <1>2 DEF Views

\* What a client step shows of the ledger: nothing, except what it learns
\* and what it withdraws.
LEMMA HostViews ==
    ASSUME TypeOK, LedgerInv, NEW t \in Callers, NEW o \in Ops,
           Enqueue(t, o) \/ Resume(t, o)
    PROVE  Views' = Views
<1>1. outbox[o] \in Row
  BY Values
<1>2. CASE Enqueue(t, o)
  <2> DEFINE row == [NoRow EXCEPT !.state = "pending",
                        !.epoch = cap[t].ctx.epoch, !.gen = cap[t].ctx.gen]
  <2>1. row.state = "pending"
    BY DEF NoRow
  <2>2. outbox' = [outbox EXCEPT ![o] = row] /\ outbox[o].state = "none"
    BY <1>2 DEF Enqueue
  <2> HIDE DEF row
  <2> QED BY <2>1, <2>2, StillOpen DEF Settled
<1>3. CASE Resume(t, o)
  <2> DEFINE row == [outbox[o] EXCEPT !.state = Resumed(o)]
  <2>1. row.state \in {"uncertain", "pending"}
    BY <1>1 DEF Row, Resumed
  <2>2. outbox' = [outbox EXCEPT ![o] = row]
        /\ outbox[o].state = "quarantined"
    BY <1>3 DEF Resume
  <2> HIDE DEF row
  <2> QED BY <2>1, <2>2, StillOpen DEF Settled
<1> QED BY <1>2, <1>3

LEMMA CancelViews ==
    ASSUME TypeOK, LedgerInv, NEW t \in Callers, NEW o \in Ops, Cancel(t, o)
    PROVE  /\ View(o) = "open" /\ verdicts[o] = <<>>
           /\ Views' = [Views EXCEPT ![o] = "withdrawn"]
<1> DEFINE row == [outbox[o] EXCEPT !.state = "cancelled"]
<1>1. row.state = "cancelled"
  BY Values DEF Row
<1>2. /\ outbox' = [outbox EXCEPT ![o] = row]
      /\ ~outbox[o].sent /\ outbox[o].state \in {"pending", "blocked"}
  BY DEF Cancel, Cancellable
<1>3. verdicts[o] = <<>>
  BY <1>2 DEF LedgerInv, VerdictInv, DecidedOnce
<1> HIDE DEF row
<1>4. View(o) = "open"
  BY <1>2, ViewValues DEF Settled
<1> QED BY <1>1, <1>2, <1>3, <1>4, OneView

LEMMA ReplicaViews ==
    ASSUME TypeOK, NEW t \in Callers, Replicate(t)
    PROVE  Views' = Views
<1>1. CASE outbox' = outbox
  BY <1>1, SameViews
<1>2. CASE outbox' # outbox
  <2>1. ActivateSnapshot(t)
    BY <1>2, ReplicaEffect
  <2>2. PICK c \in Context :
          outbox' = [o \in Ops |-> Quarantined(outbox[o], c)]
    <3>1. task[t].ticket.ctx \in Context
      BY Values DEF Task, Ticket
    <3> QED BY <1>2, <2>1, <3>1 DEF ActivateSnapshot
  <2>3. ASSUME NEW o \in Ops PROVE View(o)' = View(o)
    <3>1. outbox[o] \in Row /\ outbox'[o] = Quarantined(outbox[o], c)
      BY <2>2, Values
    <3>2. \/ outbox'[o].state = outbox[o].state
          \/ /\ outbox[o].state \notin Final \cup {"none"}
             /\ outbox'[o].state = "quarantined"
      BY <3>1, QuarantinedRow
    <3>3. CASE outbox'[o].state = outbox[o].state
      BY <3>3, ViewValues, NextView DEF Settled
    <3>4. CASE /\ outbox[o].state \notin Settled
               /\ outbox'[o].state = "quarantined"
      BY <3>4, ViewValues, NextView DEF Settled
    <3> QED BY <3>2, <3>3, <3>4 DEF Final, Settled
  <2> QED BY <2>3 DEF Views
<1> QED BY <1>1, <1>2

LEMMA SyncViews ==
    ASSUME TypeOK, LedgerInv, NEW t \in Callers, Synchronize(t)
    PROVE  \/ Views' = Views
           \/ \E o \in Ops :
                /\ View(o) = "open" /\ verdicts[o] # <<>>
                /\ Views' = [Views EXCEPT ![o] = Head(verdicts[o])]
<1> USE DEF At, Got, rowVars, clientVars
<1>1. ASSUME NEW o \in Ops, SendRow(t, o) PROVE Views' = Views
  <2> DEFINE row == [outbox[o] EXCEPT !.state = "sending", !.sent = TRUE]
  <2>1. row.state = "sending"
    BY Values DEF Row
  <2>2. outbox' = [outbox EXCEPT ![o] = row] /\ outbox[o].state \in Sendable
    BY <1>1 DEF SendRow, Ship
  <2> HIDE DEF row
  <2> QED BY <2>1, <2>2, StillOpen DEF Sendable, Settled
<1>2. CASE MarkUncertain(t) \/ Quarantine(t)
  <2> DEFINE o == task[t].op
             unsure == [outbox[o] EXCEPT !.state = "uncertain"]
             stopped == [outbox[o] EXCEPT !.state = "quarantined",
                                          !.resumable = task[t].resumable]
  <2>1. o \in Ops /\ outbox[o] \in Row /\ outbox[o].state \in Working
    BY <1>2, RowAtWork
       DEF MarkUncertain, Quarantine, Syncing, LedgerInv, ExchangeInv,
           EngagedRows, Engaged, Working
  <2>2. unsure.state = "uncertain" /\ stopped.state = "quarantined"
    BY <2>1 DEF Row
  <2>3. \/ outbox' = outbox
        \/ outbox' = [outbox EXCEPT ![o] = unsure]
        \/ outbox' = [outbox EXCEPT ![o] = stopped]
    BY <1>2 DEF MarkUncertain, Quarantine
  <2> HIDE DEF unsure, stopped, o
  <2> QED BY <2>1, <2>2, <2>3, StillOpen, SameViews DEF Working, Settled
<1>3. CASE ApplyReceipt(t)
  <2>1. CASE outbox' = outbox
    BY <2>1, SameViews
  <2> DEFINE o == task[t].op
             row == [outbox[o] EXCEPT !.state = reply[t].outcome]
  <2>2. CASE outbox' = [outbox EXCEPT ![o] = row]
    <3>1. task[t].at = "await" /\ reply[t].kind = "known"
      BY <1>3 DEF ApplyReceipt
    <3>2. o \in Ops /\ outbox[o] \in Row /\ reply[t].outcome \in Outcomes
      BY <3>1, RowAtWork, Values DEF Syncing, Reply
    <3>3. row.state = reply[t].outcome
      BY <3>2 DEF Row
    <3>4. /\ verdicts[o] = <<reply[t].outcome>>
          /\ outbox[o].state \in Working
      BY <3>1 DEF LedgerInv, ExchangeInv, VerdictInv, KnownDecided,
                  EngagedRows, Engaged, Working
    <3>5. verdicts[o] # <<>> /\ Head(verdicts[o]) = reply[t].outcome
      BY <3>4
    <3> HIDE DEF row, o
    <3>6. outbox[o].state \notin Settled /\ View(o) = "open"
      BY <3>4, ViewValues DEF Working, Settled
    <3>7. CASE reply[t].outcome = "blocked"
      BY <2>2, <3>2, <3>3, <3>6, <3>7, StillOpen DEF Settled
    <3>8. CASE reply[t].outcome \in {"acknowledged", "refused"}
      <4>1. Views' = [Views EXCEPT ![o] = Head(verdicts[o])]
        BY <2>2, <3>2, <3>3, <3>5, <3>8, OneView
      <4> QED BY <3>2, <3>5, <3>6, <4>1
    <3> QED BY <3>2, <3>7, <3>8 DEF Outcomes
  <2> QED BY <1>3, <2>1, <2>2 DEF ApplyReceipt
<1> QED BY <1>1, <1>2, <1>3, SameViews
        DEF Synchronize, StartSync, SkipRow, AbandonSync, PushAfterLookup,
            HearError

\* An operation that is decided was not withdrawn, its outcome was not
\* learned before, and everything it depends on was acknowledged.
LEMMA DecideViews ==
    ASSUME TypeOK, LedgerInv, NEW q \in requests, NEW outcome \in Outcomes,
           Apply(q, outcome)
    PROVE  /\ q.op \in Ops /\ verdicts[q.op] = <<>> /\ View(q.op) = "open"
           /\ \A d \in Dep[q.op] : verdicts[d] = <<"acknowledged">>
           /\ verdicts' = [verdicts EXCEPT ![q.op] = <<outcome>>]
<1> DEFINE o == q.op
<1>1. /\ o \in Ops /\ verdicts[o] = <<>>
      /\ verdicts' = [verdicts EXCEPT ![o] = <<outcome>>]
  BY Decision
<1>2. outbox[o].sent
  BY Undecided DEF Apply, Enter, Admitted
<1>3. outbox[o].state \notin Settled
  <2>1. outbox[o].state # "cancelled"
    BY <1>1, <1>2 DEF LedgerInv, ExchangeInv, RowsUnsent
  <2>2. outbox[o].state \in {"acknowledged", "refused"} =>
          verdicts[o] = <<outbox[o].state>>
    BY <1>1 DEF LedgerInv, VerdictInv, BelievedDecided
  <2>3. <<outbox[o].state>> # <<>>
    OBVIOUS
  <2> QED BY <1>1, <2>1, <2>2, <2>3 DEF Settled
<1>4. ASSUME NEW d \in Dep[o] PROVE verdicts[d] = <<"acknowledged">>
  <2>1. d \in Ops
    BY <1>1, DepAssumption
  <2>2. Find(d) # 0 /\ journal[Find(d)].outcome = "acknowledged"
    BY DEF Apply, Satisfied
  <2>3. Find(d) \in DOMAIN journal /\ journal[Find(d)].op = d
    BY <2>2, FindType, Values
  <2> QED BY <2>1, <2>2, <2>3 DEF LedgerInv, VerdictInv, JournalDecided
<1> QED BY <1>1, <1>3, <1>4, ViewValues

LEMMA LedgerStarts == Init => Ledger!Init
BY DEF Init, ServerInit, Ledger!Init, View, NoRow

LEMMA LedgerSteps ==
    ASSUME TypeOK, LedgerInv, [Next]_vars
    PROVE  [Ledger!Next]_<<verdicts, Views>>
<1>1. ASSUME NEW q \in requests, Serve(q), UNCHANGED clientVars
      PROVE  [Ledger!Next]_<<verdicts, Views>>
  <2>0. Views' = Views
    BY <1>1, SameViews DEF clientVars, rowVars
  <2>1. ASSUME NEW outcome \in Outcomes, Apply(q, outcome)
        PROVE  Ledger!Next
    <3>1. PICK o \in Ops :
            /\ verdicts[o] = <<>> /\ View(o) = "open"
            /\ \A d \in Dep[o] : verdicts[d] = <<"acknowledged">>
            /\ verdicts' = [verdicts EXCEPT ![o] = <<outcome>>]
      BY <2>1, DecideViews
    <3>2. Ledger!Decide(o, outcome)
      BY <2>0, <3>1 DEF Ledger!Decide, Views
    <3> QED BY <3>2 DEF Ledger!Next, Outcomes
  <2>2. (\A outcome \in Outcomes : ~Apply(q, outcome)) => verdicts' = verdicts
    BY <1>1 DEF Serve, Authorize, Forbid, RightsChanged, AnswerKnown,
                AnswerUnknown, AnswerExpired, DependencyMissing
  <2> QED BY <2>0, <2>1, <2>2
<1>2. CASE ServerNext /\ UNCHANGED clientVars /\ UNCHANGED verdicts
  BY <1>2, SameViews DEF clientVars, rowVars
<1>3. CASE Grant \/ Revoke \/ Lock \/ UNCHANGED vars
  <2>1. UNCHANGED <<verdicts, outbox>>
    BY <1>3 DEF Grant, Revoke, Lock, vars, serverVars, clientVars, rowVars
  <2> QED BY <2>1, SameViews
<1>4. ASSUME NEW t \in Callers, Synchronize(t)
      PROVE  [Ledger!Next]_<<verdicts, Views>>
  <2>1. verdicts' = verdicts
    BY <1>4, SyncEffect
  <2>2. ASSUME NEW o \in Ops, View(o) = "open", verdicts[o] # <<>>,
               Views' = [Views EXCEPT ![o] = Head(verdicts[o])]
        PROVE  Ledger!Next
    <3>1. Ledger!Learn(o)
      BY <2>1, <2>2 DEF Ledger!Learn, Views
    <3> QED BY <3>1 DEF Ledger!Next
  <2> QED BY <1>4, <2>1, <2>2, SyncViews
<1>5. ASSUME NEW t \in Callers, NEW o \in Ops, Cancel(t, o)
      PROVE  Ledger!Next
  <2>1. verdicts' = verdicts
    BY <1>5 DEF Cancel, serverVars
  <2>2. Ledger!Withdraw(o)
    BY <1>5, <2>1, CancelViews DEF Ledger!Withdraw, Views
  <2> QED BY <2>2 DEF Ledger!Next
<1>6. ASSUME NEW t \in Callers, NEW o \in Ops,
             Enqueue(t, o) \/ Resume(t, o)
      PROVE  UNCHANGED <<verdicts, Views>>
  <2>1. verdicts' = verdicts
    BY <1>6 DEF Enqueue, Resume, serverVars
  <2> QED BY <1>6, <2>1, HostViews
<1>7. ASSUME NEW t \in Callers, Replicate(t)
      PROVE  UNCHANGED <<verdicts, Views>>
  BY <1>7, ReplicaEffect, ReplicaViews DEF serverVars
<1>8. ASSUME NEW t \in Callers, LoseAnswer(t) \/ Crash(t)
      PROVE  UNCHANGED <<verdicts, Views>>
  BY <1>8, FaultEffect, SameViews
<1>9. CASE ServerNext /\ UNCHANGED clientVars
  BY <1>1, <1>2, <1>9 DEF ServerNext, OtherWrite, ChangeRights, Restore
<1> QED BY <1>3, <1>4, <1>5, <1>6, <1>7, <1>8, <1>9
        DEF Next, ClientNext, Quiet

\* Synchronization implements the ledger: an operation is decided at most
\* once, after the operations it depends on were acknowledged; the client
\* only believes what was decided; what it withdrew is never decided
\* (server.ts, applyOperation; client.ts, applyReceipt and cancel).
THEOREM LedgerImplemented == Spec => ImplementsLedger
<1>1. Init => RightsOK /\ LedgerInv
  BY RightsInit, LedgerInit
<1>2. TypeOK /\ RightsOK /\ LedgerInv /\ [Next]_vars
        => RightsOK' /\ LedgerInv'
  BY RightsNext, LedgerNext
<1>3. Init => Ledger!Init
  BY LedgerStarts
<1>4. TypeOK /\ LedgerInv /\ [Next]_vars => [Ledger!Next]_<<verdicts, Views>>
  BY LedgerSteps
<1> QED BY <1>1, <1>2, <1>3, <1>4, TypeCorrect, PTL
        DEF Spec, ImplementsLedger, Ledger!Spec, Views

-----------------------------------------------------------------------------
(* Data: what the replica holds, and what is on its way to it.             *)

\* Revision r of record k is a position that wrote it, and no position up to
\* n wrote it later.
Written(r, k) == r # 0 => r \in DOMAIN journal /\ journal[r].key = k
Covers(r, n, k) ==
    \A i \in DOMAIN journal : i <= n /\ journal[i].key = k => i <= r

\* An operation holds one position, of the record it wrote.
JournalOK ==
    /\ \A i, j \in DOMAIN journal :
          journal[i].op \in Ops /\ journal[i].op = journal[j].op => i = j
    /\ \A i \in DOMAIN journal :
          journal[i].op \in Ops /\ journal[i].outcome = "acknowledged"
          => journal[i].key = Target[journal[i].op]

\* An answer names the position of the operation.
KnownPosition ==
    \A t \in Callers :
        /\ reply[t].kind = "known"
        /\ outbox[task[t].op].epoch = epoch
        => /\ reply[t].pos \in DOMAIN journal
           /\ journal[reply[t].pos].op = task[t].op

\* What a caller carries was read from the journal of the epoch.
SnapshotOf(t) ==
    task[t].at = "activate" /\ task[t].ticket.ctx.epoch = epoch =>
        /\ task[t].to <= Len(journal)
        /\ \A k \in Keys : /\ Written(task[t].recs[k].rev, k)
                           /\ Covers(task[t].recs[k].rev, task[t].to, k)
ChangesOf(t) ==
    task[t].at = "changes" =>
        /\ task[t].from <= task[t].to
        /\ cap[t].ctx.epoch = epoch =>
             /\ task[t].to <= Len(journal)
             /\ \A k \in Keys :
                  /\ Written(task[t].recs[k].rev, k)
                  /\ \A i \in DOMAIN journal :
                       /\ task[t].from < i /\ i <= task[t].to
                       /\ journal[i].key = k
                       => i <= task[t].recs[k].rev

\* A ticket was taken under the runtime or under an earlier one, and a
\* staged snapshot is not behind a replica that was left alone since.
TicketOf(t) ==
    Ticketed(t) =>
        /\ task[t].ticket.under <= runtime.fence
        /\ task[t].ticket.under = runtime.fence =>
              task[t].ticket.revision <= runtime.revision
StagedOf(t) ==
    /\ task[t].at = "activate"
    /\ UntouchedSince(task[t].ticket)
    /\ task[t].ticket.ctx.epoch = runtime.ctx.epoch
    => /\ runtime.cursor <= task[t].to
       /\ \A k \in Keys : records[k].rev <= task[t].recs[k].rev

CallersOK ==
    \A t \in Callers :
        SnapshotOf(t) /\ ChangesOf(t) /\ TicketOf(t) /\ StagedOf(t)

\* The replica holds positions of its records up to the end of the journal,
\* none older than the last one before the cursor, and what acknowledged
\* operations wrote.
ReplicaOK ==
    runtime.ctx.epoch = epoch =>
        /\ runtime.cursor <= Len(journal)
        /\ \A k \in Keys : /\ Written(records[k].rev, k)
                           /\ Covers(records[k].rev, runtime.cursor, k)
AcknowledgedHeld ==
    runtime.ctx.epoch = epoch =>
        \A o \in Ops :
            outbox[o].state = "acknowledged" /\ outbox[o].epoch = epoch =>
                \A i \in DOMAIN journal :
                    journal[i].op = o => i <= records[Target[o]].rev

DataInv ==
    /\ JournalOK /\ KnownPosition
    /\ runtime.fence <= count.fences
    /\ CallersOK
    /\ ReplicaOK /\ AcknowledgedHeld

LEMMA DataValues ==
    ASSUME TypeOK
    PROVE  /\ Len(journal) \in Nat /\ DOMAIN journal = 1..Len(journal)
           /\ \A i \in DOMAIN journal : i \in Nat /\ journal[i] \in Entry
           /\ runtime.fence \in Nat /\ runtime.cursor \in Nat
           /\ runtime.revision \in Nat /\ runtime.ctx.epoch \in Nat
           /\ epoch \in Nat /\ count.fences \in Nat
           /\ \A k \in Keys : records[k] \in Record /\ records[k].rev \in Nat
           /\ \A t \in Callers :
                /\ task[t] \in Task
                /\ task[t].from \in Nat /\ task[t].to \in Nat
                /\ task[t].ticket \in Ticket
                /\ task[t].ticket.ctx \in Context
                /\ task[t].ticket.ctx.epoch \in Nat
                /\ task[t].ticket.under \in Nat
                /\ task[t].ticket.revision \in Nat
                /\ \A k \in Keys : /\ task[t].recs[k] \in Record
                                   /\ task[t].recs[k].rev \in Nat
<1>1. /\ journal \in Seq(Entry) /\ epoch \in Nat
      /\ records \in [Keys -> Record] /\ task \in [Callers -> Task]
      /\ runtime \in [ready: BOOLEAN, ctx: Context, fence: Nat,
                       cursor: Nat, revision: Nat]
      /\ count \in [fences: Nat, downloads: Nat, locks: Nat, faults: Nat]
  BY Values
<1>2. /\ Len(journal) \in Nat /\ DOMAIN journal = 1..Len(journal)
      /\ \A i \in DOMAIN journal : i \in Nat /\ journal[i] \in Entry
  BY <1>1
<1>3. ASSUME NEW t \in Callers
      PROVE  /\ task[t] \in Task
             /\ task[t].from \in Nat /\ task[t].to \in Nat
             /\ task[t].ticket \in Ticket
             /\ task[t].recs \in [Keys -> Record]
  BY <1>1 DEF Task
<1>4. \A k \in Ticket : /\ k.ctx \in Context /\ k.ctx.epoch \in Nat
                        /\ k.under \in Nat /\ k.revision \in Nat
  BY DEF Ticket, Context
<1>5. \A r \in [Keys -> Record], k \in Keys :
        r[k] \in Record /\ r[k].rev \in Nat
  BY DEF Record
<1>6. /\ runtime.fence \in Nat /\ runtime.cursor \in Nat
      /\ runtime.revision \in Nat /\ runtime.ctx.epoch \in Nat
  BY <1>1, Values
<1> QED BY <1>1, <1>2, <1>3, <1>4, <1>5, <1>6

\* The last write of a record, and the position of an operation.
LEMMA LastWriteIs ==
    ASSUME TypeOK, NEW n \in Nat, NEW k
    PROVE  /\ LastWrite(n, k) \in Nat /\ LastWrite(n, k) <= n
           /\ Written(LastWrite(n, k), k) /\ Covers(LastWrite(n, k), n, k)
<1> DEFINE W == {i \in DOMAIN journal : i <= n /\ journal[i].key = k}
<1>1. CASE W = {}
  BY <1>1 DEF LastWrite, Written, Covers
<1>2. CASE W # {}
  <2>1. W \in SUBSET (0..Len(journal))
    BY DataValues
  <2>2. PICK m \in W : \A j \in W : j <= m
    <3> HIDE DEF W
    <3> QED BY <1>2, <2>1, DataValues, GreatestExists
  <2>3. LastWrite(n, k) = CHOOSE i \in W : \A j \in W : j <= i
    BY <1>2 DEF LastWrite
  <2>4. LastWrite(n, k) \in W /\ \A j \in W : j <= LastWrite(n, k)
    <3> HIDE DEF W
    <3> QED BY <2>2, <2>3
  <2> QED BY <2>4, DataValues DEF Written, Covers
<1> QED BY <1>1, <1>2

-----------------------------------------------------------------------------
(* Callers that carry what they carried.                                   *)

Kept(t) ==
    \/ task'[t].at \notin {"fetch", "activate", "changes"}
    \/ task'[t] = task[t] /\ cap'[t].ctx = cap[t].ctx

LEMMA KeptCarry ==
    ASSUME NEW t \in Callers, Kept(t), DataInv, UNCHANGED <<epoch, journal>>
    PROVE  SnapshotOf(t)' /\ ChangesOf(t)'
BY DEF Kept, DataInv, CallersOK, SnapshotOf, ChangesOf, Written, Covers

LEMMA KeptTicket ==
    ASSUME NEW t \in Callers, Kept(t), DataInv,
           runtime'.fence = runtime.fence,
           runtime'.revision = runtime.revision,
           runtime'.ctx = runtime.ctx, runtime'.cursor = runtime.cursor,
           records' = records
    PROVE  TicketOf(t)' /\ StagedOf(t)'
BY DEF Kept, DataInv, CallersOK, TicketOf, StagedOf, Ticketed, UntouchedSince

\* A new fence, or a new revision, outdates every ticket.
LEMMA DrawnTicket ==
    ASSUME TypeOK, NEW t \in Callers, Kept(t), DataInv,
           runtime'.fence = NewFence
    PROVE  TicketOf(t)' /\ StagedOf(t)'
<1>1. ASSUME Ticketed(t)' PROVE task'[t].ticket.under < runtime'.fence
  <2>1. Ticketed(t) /\ task'[t] = task[t]
    BY <1>1 DEF Kept, Ticketed
  <2>2. /\ task[t].ticket.under <= runtime.fence
        /\ runtime.fence <= count.fences
    BY <2>1 DEF DataInv, CallersOK, TicketOf
  <2>3. \A a, b, c \in Nat : a <= b /\ b <= c => a < c + 1
    OBVIOUS
  <2> QED BY <2>1, <2>2, <2>3, DataValues DEF NewFence
<1>2. runtime'.fence \in Nat
  BY DataValues DEF NewFence
<1>3. Ticketed(t)' => task'[t].ticket.under \in Nat
  BY DataValues DEF Kept, Ticketed
<1> QED BY <1>1, <1>2, <1>3 DEF TicketOf, StagedOf, Ticketed, UntouchedSince

LEMMA CommittedTicket ==
    ASSUME TypeOK, NEW t \in Callers, Kept(t), DataInv,
           runtime'.fence = runtime.fence,
           runtime'.revision = runtime.revision + 1
    PROVE  TicketOf(t)' /\ StagedOf(t)'
<1>1. ASSUME Ticketed(t)'
      PROVE  /\ task'[t].ticket.under <= runtime'.fence
             /\ task'[t].ticket.under = runtime'.fence =>
                   task'[t].ticket.revision < runtime'.revision
  <2>1. Ticketed(t) /\ task'[t] = task[t]
    BY <1>1 DEF Kept, Ticketed
  <2>2. /\ task[t].ticket.under <= runtime.fence
        /\ task[t].ticket.under = runtime.fence =>
              task[t].ticket.revision <= runtime.revision
    BY <2>1 DEF DataInv, CallersOK, TicketOf
  <2> QED BY <2>1, <2>2, DataValues
<1>2. runtime'.revision \in Nat
  BY DataValues
<1>3. Ticketed(t)' => task'[t].ticket.revision \in Nat
  BY DataValues DEF Kept, Ticketed
<1> QED BY <1>1, <1>2, <1>3 DEF TicketOf, StagedOf, Ticketed, UntouchedSince

\* An answer that was under way before still names its position.
LEMMA KnownKept ==
    ASSUME TypeOK, LedgerInv, DataInv, UNCHANGED <<epoch, journal>>,
           \A o \in Ops : outbox[o].sent =>
                            outbox'[o].epoch = outbox[o].epoch,
           \A t \in Callers :
              reply'[t].kind = "known" =>
                 /\ reply'[t] = reply[t]
                 /\ task[t].at = "await" => task'[t].op = task[t].op
    PROVE  KnownPosition'
<1> SUFFICES ASSUME NEW t \in Callers, reply'[t].kind = "known",
                    outbox'[task'[t].op].epoch = epoch'
             PROVE  /\ reply'[t].pos \in DOMAIN journal'
                    /\ journal'[reply'[t].pos].op = task'[t].op
  BY DEF KnownPosition
<1>1. reply'[t] = reply[t] /\ reply[t].kind = "known"
  OBVIOUS
<1>2. task[t].at = "await"
  BY <1>1 DEF LedgerInv, ExchangeInv, OneExchange
<1>3. task[t].op \in Ops /\ outbox[task[t].op].sent
  BY <1>2, RowAtWork
     DEF Syncing, LedgerInv, ExchangeInv, EngagedRows, Engaged
<1>4. outbox[task[t].op].epoch = epoch
  BY <1>2, <1>3
<1> QED BY <1>1, <1>2, <1>4 DEF DataInv, KnownPosition

\* The replica is left alone: no row becomes acknowledged.
LEMMA DataLeft ==
    ASSUME TypeOK, LedgerInv, DataInv, UNCHANGED <<epoch, journal, records>>,
           runtime'.ctx = runtime.ctx, runtime'.cursor = runtime.cursor,
           \A o \in Ops : outbox'[o].state = "acknowledged" =>
                            /\ outbox[o].state = "acknowledged"
                            /\ outbox'[o].epoch = outbox[o].epoch
    PROVE  JournalOK' /\ ReplicaOK' /\ AcknowledgedHeld'
BY DEF DataInv, JournalOK, ReplicaOK, AcknowledgedHeld, Written, Covers

-----------------------------------------------------------------------------
(* Steps of the server.                                                    *)

\* A longer journal covers what it covered up to its old end.
LEMMA Longer ==
    ASSUME TypeOK, NEW e \in Entry, journal' = Append(journal, e)
    PROVE  /\ \A r, k : Written(r, k) => Written(r, k)'
           /\ \A r, k, n : n <= Len(journal) /\ n \in Nat /\ Covers(r, n, k)
                            => Covers(r, n, k)'
           /\ \A n \in Nat : n <= Len(journal) => n <= Len(journal')
<1>1. /\ Len(journal') = Len(journal) + 1
      /\ \A i \in DOMAIN journal :
            i \in DOMAIN journal' /\ journal'[i] = journal[i]
      /\ \A i \in DOMAIN journal' :
            i \in DOMAIN journal \/ i = Len(journal) + 1
  BY Appended
<1>2. \A n \in Nat : n <= Len(journal) => ~(Len(journal) + 1 <= n)
  BY DataValues
<1>3. ASSUME NEW r, NEW k, Written(r, k) PROVE Written(r, k)'
  BY <1>1, <1>3 DEF Written
<1>4. ASSUME NEW r, NEW k, NEW n \in Nat, n <= Len(journal), Covers(r, n, k)
      PROVE  Covers(r, n, k)'
  BY <1>1, <1>2, <1>4 DEF Covers
<1>5. \A n \in Nat : n <= Len(journal) => n <= Len(journal')
  BY <1>1, DataValues
<1> QED BY <1>3, <1>4, <1>5

\* A position is added, and neither clients nor answers change.
LEMMA DataAppend ==
    ASSUME TypeOK, LedgerInv, DataInv, NEW e \in Entry,
           journal' = Append(journal, e), epoch' = epoch,
           UNCHANGED <<runtime, records, outbox, cap, task, count>>,
           e.op \in Ops =>
              /\ \A i \in DOMAIN journal : journal[i].op # e.op
              /\ outbox[e.op].state # "acknowledged"
              /\ e.outcome = "acknowledged" => e.key = Target[e.op]
    PROVE  JournalOK' /\ CallersOK' /\ ReplicaOK' /\ AcknowledgedHeld'
<1>1. /\ journal'[Len(journal) + 1] = e
      /\ \A i \in DOMAIN journal :
            i \in DOMAIN journal' /\ journal'[i] = journal[i]
      /\ \A i \in DOMAIN journal' :
            i \in DOMAIN journal \/ i = Len(journal) + 1
  BY Appended
<1>2. \A n \in Nat : n <= Len(journal) => ~(Len(journal) + 1 <= n)
  BY DataValues
<1>3. JournalOK'
  BY <1>1 DEF DataInv, JournalOK
<1>4. ASSUME NEW t \in Callers
      PROVE  SnapshotOf(t)' /\ ChangesOf(t)' /\ TicketOf(t)' /\ StagedOf(t)'
  <2>1. SnapshotOf(t)'
    <3>1. SnapshotOf(t) /\ task[t].to \in Nat
      BY DataValues DEF DataInv, CallersOK
    <3> SUFFICES ASSUME task[t].at = "activate",
                        task[t].ticket.ctx.epoch = epoch
                 PROVE  /\ task[t].to <= Len(journal')
                        /\ \A k \in Keys :
                              /\ Written(task[t].recs[k].rev, k)'
                              /\ Covers(task[t].recs[k].rev, task[t].to, k)'
      BY DEF SnapshotOf
    <3>2. PICK n \in Nat : n = task[t].to
      BY <3>1
    <3>3. ASSUME NEW k \in Keys
          PROVE  /\ Written(task[t].recs[k].rev, k)'
                 /\ Covers(task[t].recs[k].rev, task[t].to, k)'
      <4>1. PICK r : r = task[t].recs[k].rev
        OBVIOUS
      <4>2. Written(r, k) /\ Covers(r, n, k) /\ n <= Len(journal)
        BY <3>1, <3>2, <4>1 DEF SnapshotOf
      <4>3. Written(r, k)' /\ Covers(r, n, k)'
        BY <3>2, <4>2, Longer
      <4> QED BY <3>2, <4>1, <4>3 DEF Written, Covers
    <3> QED BY <3>1, <3>3, Longer DEF SnapshotOf
  <2>2. ChangesOf(t)'
    <3>1. ChangesOf(t) /\ task[t].to \in Nat
      BY DataValues DEF DataInv, CallersOK
    <3> SUFFICES ASSUME task[t].at = "changes", cap[t].ctx.epoch = epoch
                 PROVE  /\ task[t].to <= Len(journal')
                        /\ \A k \in Keys :
                             /\ Written(task[t].recs[k].rev, k)'
                             /\ \A i \in DOMAIN journal' :
                                  /\ task[t].from < i /\ i <= task[t].to
                                  /\ journal'[i].key = k
                                  => i <= task[t].recs[k].rev
      BY <3>1 DEF ChangesOf
    <3>2. task[t].to <= Len(journal)
      BY <3>1 DEF ChangesOf
    <3>3. \A i \in DOMAIN journal' : i <= task[t].to => i \in DOMAIN journal
      BY <1>1, <1>2, <3>1, <3>2
    <3> QED BY <1>1, <3>1, <3>2, <3>3, Longer DEF ChangesOf, Written
  <2>3. TicketOf(t)' /\ StagedOf(t)'
    BY DEF DataInv, CallersOK, TicketOf, StagedOf, Ticketed, UntouchedSince
  <2> QED BY <2>1, <2>2, <2>3
<1>5. ReplicaOK'
  <2> SUFFICES ASSUME runtime.ctx.epoch = epoch
               PROVE  /\ runtime.cursor <= Len(journal')
                      /\ \A k \in Keys :
                           /\ Written(records[k].rev, k)'
                           /\ Covers(records[k].rev, runtime.cursor, k)'
    BY DEF ReplicaOK
  <2>1. PICK n \in Nat : n = runtime.cursor
    BY DataValues
  <2>2. n <= Len(journal)
    BY <2>1 DEF DataInv, ReplicaOK
  <2>3. ASSUME NEW k \in Keys
        PROVE  /\ Written(records[k].rev, k)'
               /\ Covers(records[k].rev, runtime.cursor, k)'
    <3>1. PICK r : r = records[k].rev
      OBVIOUS
    <3>2. Written(r, k) /\ Covers(r, n, k)
      BY <2>1, <3>1 DEF DataInv, ReplicaOK
    <3>3. Written(r, k)' /\ Covers(r, n, k)'
      BY <2>2, <3>2, Longer
    <3> QED BY <2>1, <3>1, <3>3 DEF Written, Covers
  <2> QED BY <2>1, <2>2, <2>3, Longer
<1>6. AcknowledgedHeld'
  BY <1>1 DEF DataInv, AcknowledgedHeld
<1> QED BY <1>3, <1>4, <1>5, <1>6 DEF CallersOK

\* Answers that decide nothing name the position they found.
LEMMA DataAnswer ==
    ASSUME TypeOK, LedgerInv, DataInv, NEW q \in requests, NEW a \in Reply,
           Answer(q, a), UNCHANGED <<epoch, journal, outbox, task>>,
           a.kind = "known" => /\ a.pos \in DOMAIN journal
                               /\ journal[a.pos].op = q.op
    PROVE  KnownPosition'
<1>1. \A t \in Callers :
         \/ reply'[t] = reply[t]
         \/ reply'[t] = a /\ task'[t].op = q.op
  BY AnswerExchange DEF LedgerInv
<1> QED BY <1>1 DEF DataInv, KnownPosition

LEMMA DataServe ==
    ASSUME TypeOK, LedgerInv, DataInv, NEW q \in requests, Serve(q),
           \A outcome \in Outcomes : ~Apply(q, outcome),
           UNCHANGED clientVars
    PROVE  UNCHANGED <<epoch, journal>> /\ KnownPosition'
<1>0. UNCHANGED <<outbox, task>>
  BY DEF clientVars, rowVars, callVars
<1>1. UNCHANGED <<epoch, journal>>
  BY DEF Serve, Authorize, Forbid, RightsChanged, AnswerKnown,
         AnswerUnknown, AnswerExpired, DependencyMissing
<1>2. \A b \in BOOLEAN : Stop(b) \in Reply /\ Stop(b).kind # "known"
  BY ReplyTypes DEF Stop, NoReply
<1>3. /\ NotFound \in Reply /\ NotFound.kind # "known"
      /\ Retry \in Reply /\ Retry.kind # "known"
  BY ReplyTypes DEF NotFound, Retry, NoReply
<1> DEFINE Told(a) == a \in Reply /\ a.kind # "known" /\ Answer(q, a)
<1>4. ASSUME NEW a, Told(a) PROVE KnownPosition'
  BY <1>0, <1>1, <1>4, DataAnswer
<1>5. CASE AnswerKnown(q)
  <2> DEFINE i == Find(q.op)
             a == IF journal[i].epoch = q.epoch
                  THEN Known(i, journal[i].outcome) ELSE Stop(FALSE)
  <2>1. Answer(q, a) /\ i # 0
    BY <1>5 DEF AnswerKnown
  <2>2. i \in DOMAIN journal /\ journal[i].op = q.op /\ journal[i] \in Entry
    BY <2>1, FindType, Values
  <2>3. i \in Nat /\ journal[i].outcome \in Outcomes
    BY <2>2, JournalDomain DEF Entry
  <2>4. /\ Known(i, journal[i].outcome) \in Reply
        /\ Known(i, journal[i].outcome).pos = i
    BY <2>3, ReplyTypes DEF Known, NoReply
  <2>5. a \in Reply /\ (a.kind = "known" => a.pos = i)
    <3> HIDE DEF i
    <3> QED BY <1>2, <2>4
  <2> HIDE DEF a, i
  <2> QED BY <1>0, <1>1, <2>1, <2>2, <2>5, DataAnswer
<1>6. CASE UNCHANGED reply
  BY <1>0, <1>1, <1>6 DEF DataInv, KnownPosition
<1>7. CASE RightsChanged(q)
  <2>1. PICK b \in BOOLEAN : b = (q.epoch = epoch)
    OBVIOUS
  <2>2. Told(Stop(b))
    BY <1>2, <1>7, <2>1 DEF RightsChanged
  <2> HIDE DEF Told
  <2> QED BY <1>1, <1>4, <2>2
<1>8. CASE Authorize(q) \/ Forbid(q) \/ AnswerUnknown(q) \/ AnswerExpired(q)
           \/ DependencyMissing(q)
  <2>1. \/ UNCHANGED reply
        \/ \E b \in BOOLEAN : Told(Stop(b))
        \/ Told(NotFound) \/ Told(Retry)
    BY <1>2, <1>3, <1>8 DEF Authorize, Forbid, AnswerUnknown, AnswerExpired,
                DependencyMissing
  <2> HIDE DEF Told
  <2> QED BY <1>1, <1>4, <1>6, <2>1
<1> QED BY <1>1, <1>5, <1>7, <1>8 DEF Serve

LEMMA DataApply ==
    ASSUME TypeOK, LedgerInv, DataInv, NEW q \in requests,
           NEW outcome \in Outcomes, Apply(q, outcome), UNCHANGED clientVars
    PROVE  DataInv'
<1>0. UNCHANGED <<runtime, records, outbox, cap, task, count>>
  BY DEF clientVars, rowVars, callVars
<1> DEFINE o == q.op
<1>1. PICK e \in Entry :
         /\ journal' = Append(journal, e)
         /\ e.op = o /\ e.outcome = outcome
         /\ outcome = "acknowledged" => e.key = Target[o]
  BY Decision
<1>2. /\ o \in Ops /\ verdicts[o] = <<>> /\ epoch' = epoch
      /\ \A i \in DOMAIN journal : journal[i].op # o
  BY Decision, FindType, Values DEF Apply
<1>3. outbox[o].state # "acknowledged"
  <2>1. <<"acknowledged">> # <<>>
    OBVIOUS
  <2>2. outbox[o].state = "acknowledged" => verdicts[o] = <<"acknowledged">>
    BY <1>2 DEF LedgerInv, VerdictInv, BelievedDecided
  <2> QED BY <1>2, <2>1, <2>2
<1>4. JournalOK' /\ CallersOK' /\ ReplicaOK' /\ AcknowledgedHeld'
  BY <1>0, <1>1, <1>2, <1>3, DataAppend
<1>5. PICK a \in Reply : a = Known(Len(journal) + 1, outcome)
  BY ReplyTypes, JournalDomain
<1>6. Answer(q, a) /\ a.pos = Len(journal) + 1
  BY <1>5 DEF Apply, Known, NoReply
<1>7. \A t \in Callers :
         \/ reply'[t] = reply[t]
         \/ reply'[t] = a /\ task'[t].op = o
  BY <1>0, <1>6, AnswerExchange DEF LedgerInv
<1>8. /\ Len(journal) + 1 \in DOMAIN journal'
      /\ journal'[Len(journal) + 1] = e
      /\ \A i \in DOMAIN journal :
            i \in DOMAIN journal' /\ journal'[i] = journal[i]
  BY <1>1, Appended, JournalDomain
<1> HIDE DEF o
<1>9. KnownPosition'
  BY <1>0, <1>1, <1>2, <1>6, <1>7, <1>8 DEF DataInv, KnownPosition
<1> QED BY <1>0, <1>4, <1>9 DEF DataInv

LEMMA DataServer ==
    ASSUME TypeOK, LedgerInv, DataInv, ServerNext, UNCHANGED clientVars
    PROVE  DataInv'
<1>0. UNCHANGED <<runtime, records, outbox, cap, task, count>>
  BY DEF clientVars, rowVars, callVars
<1>1. ASSUME UNCHANGED <<epoch, journal>>, KnownPosition'
      PROVE  DataInv'
  <2>1. ASSUME NEW t \in Callers
        PROVE  /\ SnapshotOf(t)' /\ ChangesOf(t)'
               /\ TicketOf(t)' /\ StagedOf(t)'
    BY <1>0, <1>1, KeptCarry, KeptTicket DEF Kept
  <2>2. JournalOK' /\ ReplicaOK' /\ AcknowledgedHeld'
    BY <1>0, <1>1, DataLeft
  <2> QED BY <1>0, <1>1, <2>1, <2>2 DEF DataInv, CallersOK
<1>2. ASSUME NEW q \in requests, Serve(q) PROVE DataInv'
  BY <1>1, <1>2, DataServe, DataApply
<1>3. ASSUME NEW k \in Keys, NEW deleted \in BOOLEAN, OtherWrite(k, deleted)
      PROVE  DataInv'
  <2> DEFINE e == [op |-> NoOp, outcome |-> "acknowledged", epoch |-> epoch,
                   key |-> k, deleted |-> deleted]
  <2>1. journal' = Append(journal, e) /\ UNCHANGED <<epoch, reply>>
    BY <1>3 DEF OtherWrite
  <2>2. e \in Entry /\ e.op = NoOp
    BY Values DEF Entry, Outcomes
  <2> HIDE DEF e
  <2>3. JournalOK' /\ CallersOK' /\ ReplicaOK' /\ AcknowledgedHeld'
    BY <1>0, <2>1, <2>2, DataAppend, SentinelAssumption
  <2>4. \A i \in DOMAIN journal :
           i \in DOMAIN journal' /\ journal'[i] = journal[i]
    BY <2>1, <2>2, Appended
  <2>5. KnownPosition'
    BY <1>0, <2>1, <2>4 DEF DataInv, KnownPosition
  <2> QED BY <1>0, <2>3, <2>5 DEF DataInv
<1>4. CASE ChangeRights
  <2>1. UNCHANGED <<epoch, journal, reply>>
    BY <1>4 DEF ChangeRights
  <2> QED BY <1>0, <1>1, <2>1 DEF DataInv, KnownPosition
<1>5. ASSUME NEW n \in 0..Len(journal), Restore(n) PROVE DataInv'
  <2>1. /\ journal' = SubSeq(journal, 1, n) /\ epoch' = epoch + 1
        /\ UNCHANGED reply
    BY <1>5 DEF Restore
  <2>2. \A i \in DOMAIN journal' :
           i \in DOMAIN journal /\ journal'[i] = journal[i]
    BY <2>1, CutShort
  <2>3. \A n1 \in Nat : n1 <= epoch => n1 # epoch'
    BY <2>1, DataValues
  <2>4. /\ runtime.ctx.epoch # epoch'
        /\ \A t \in Callers : cap[t].ctx.epoch # epoch'
        /\ \A t \in Callers :
              Ticketed(t) => task[t].ticket.ctx.epoch # epoch'
    BY <2>3, DataValues, Values DEF LedgerInv, EpochsOK
  <2>5. ASSUME NEW o \in Ops PROVE outbox[o].epoch # epoch'
    <3>1. /\ outbox[o].epoch \in Nat /\ outbox[o].epoch <= runtime.ctx.epoch
          /\ runtime.ctx.epoch \in Nat /\ runtime.ctx.epoch <= epoch
          /\ epoch \in Nat
      BY Values DEF LedgerInv, EpochsOK
    <3>2. \A a, b, c \in Nat : a <= b /\ b <= c => a # c + 1
      OBVIOUS
    <3> QED BY <2>1, <3>1, <3>2
  <2>6. JournalOK'
    BY <2>2 DEF DataInv, JournalOK
  <2>7. KnownPosition'
    <3>1. ASSUME NEW t \in Callers, reply[t].kind = "known"
          PROVE  task[t].op \in Ops
      <4>1. task[t].at = "await"
        BY <3>1 DEF LedgerInv, ExchangeInv, OneExchange
      <4> QED BY <4>1, RowAtWork DEF Syncing
    <3> QED BY <1>0, <2>1, <2>5, <3>1 DEF KnownPosition
  <2>8. ASSUME NEW t \in Callers
        PROVE  /\ SnapshotOf(t)' /\ ChangesOf(t)'
               /\ TicketOf(t)' /\ StagedOf(t)'
    <3>1. TicketOf(t)' /\ StagedOf(t)'
      BY <1>0 DEF DataInv, CallersOK, TicketOf, StagedOf, Ticketed,
                  UntouchedSince
    <3>2. SnapshotOf(t)'
      BY <1>0, <2>4 DEF SnapshotOf, Ticketed
    <3>3. ChangesOf(t)'
      BY <1>0, <2>4 DEF DataInv, CallersOK, ChangesOf
    <3> QED BY <3>1, <3>2, <3>3
  <2>9. ReplicaOK' /\ AcknowledgedHeld'
    BY <1>0, <2>4 DEF ReplicaOK, AcknowledgedHeld
  <2> QED BY <1>0, <2>6, <2>7, <2>8, <2>9 DEF DataInv, CallersOK
<1> QED BY <1>2, <1>3, <1>4, <1>5 DEF ServerNext

-----------------------------------------------------------------------------
(* Steps that leave the replica alone.                                     *)

ReplicaKept ==
    /\ runtime'.ctx = runtime.ctx /\ runtime'.cursor = runtime.cursor
    /\ runtime'.fence = runtime.fence
    /\ runtime'.revision = runtime.revision
    /\ records' = records

LEMMA DataQuiet ==
    ASSUME TypeOK, LedgerInv, DataInv, UNCHANGED <<epoch, journal>>,
           ReplicaKept, count'.fences = count.fences, KnownPosition',
           \A t \in Callers : Kept(t),
           \A o \in Ops : outbox'[o].state = "acknowledged" =>
                            /\ outbox[o].state = "acknowledged"
                            /\ outbox'[o].epoch = outbox[o].epoch
    PROVE  DataInv'
<1>1. ASSUME NEW t \in Callers
      PROVE  SnapshotOf(t)' /\ ChangesOf(t)' /\ TicketOf(t)' /\ StagedOf(t)'
  BY KeptCarry, KeptTicket DEF ReplicaKept
<1>2. JournalOK' /\ ReplicaOK' /\ AcknowledgedHeld'
  BY DataLeft DEF ReplicaKept
<1>3. runtime'.fence <= count'.fences
  BY DEF ReplicaKept, DataInv
<1> QED BY <1>1, <1>2, <1>3 DEF DataInv, CallersOK

\* A row that is believed acknowledged was sent.
LEMMA AcknowledgedSent ==
    ASSUME TypeOK, LedgerInv, NEW o \in Ops, outbox[o].state = "acknowledged"
    PROVE  outbox[o].sent
<1>1. verdicts[o] = <<"acknowledged">>
  BY DEF LedgerInv, VerdictInv, BelievedDecided
<1>2. verdicts[o] # <<>>
  BY <1>1
<1> QED BY <1>2 DEF LedgerInv, VerdictInv, DecidedOnce

LEMMA CalmRows ==
    ASSUME TypeOK, LedgerInv, DataInv, Calm
    PROVE  /\ UNCHANGED <<epoch, journal>>
           /\ KnownPosition'
           /\ \A o \in Ops : outbox'[o].state = "acknowledged" =>
                               /\ outbox[o].state = "acknowledged"
                               /\ outbox'[o].epoch = outbox[o].epoch
<1>1. UNCHANGED <<epoch, journal, reply>>
  BY DEF Calm
<1>2. \A t \in Callers : task[t].at = "await" => task'[t].op = task[t].op
  BY DEF Calm, TaskCalm
<1>3. \A o \in Ops : outbox[o].sent => outbox'[o].epoch = outbox[o].epoch
  BY DEF Calm, RowCalm
<1>4. KnownPosition'
  BY <1>1, <1>2, <1>3, KnownKept
<1>5. ASSUME NEW o \in Ops, outbox'[o].state = "acknowledged"
      PROVE  /\ outbox[o].state = "acknowledged"
             /\ outbox'[o].epoch = outbox[o].epoch
  <2>1. outbox[o].state = "acknowledged"
    BY <1>5 DEF Calm, RowCalm
  <2> QED BY <1>3, <2>1, AcknowledgedSent
<1> QED BY <1>1, <1>4, <1>5

LEMMA DataCalm ==
    ASSUME TypeOK, LedgerInv, DataInv, Calm, ReplicaKept,
           count'.fences = count.fences, \A t \in Callers : Kept(t)
    PROVE  DataInv'
BY CalmRows, DataQuiet

LEMMA DataHost ==
    ASSUME TypeOK, LedgerInv, DataInv,
           \/ Grant \/ Revoke \/ UNCHANGED vars
           \/ \E t \in Callers, o \in Ops :
                Enqueue(t, o) \/ Cancel(t, o) \/ Resume(t, o)
    PROVE  DataInv'
<1>1. Calm
  BY CalmHost, CalmRest
<1>2. UNCHANGED <<runtime, records, task, cap, count>>
  BY DEF Grant, Revoke, Enqueue, Cancel, Resume, vars, clientVars, callVars
<1> QED BY <1>1, <1>2, DataCalm DEF ReplicaKept, Kept

LEMMA DataLock ==
    ASSUME TypeOK, LedgerInv, DataInv, Lock
    PROVE  DataInv'
<1>1. Calm
  BY CalmRest
<1>2. /\ UNCHANGED <<records, task, cap>>
      /\ runtime'.ctx = runtime.ctx /\ runtime'.cursor = runtime.cursor
      /\ runtime'.fence = NewFence /\ count'.fences = NewFence
  <2>1. runtime' = [runtime EXCEPT !.ready = FALSE, !.fence = NewFence]
    BY DEF Lock
  <2>2. count'.fences = count.fences + 1
    <3> DEFINE c == [count EXCEPT !.locks = @ + 1]
    <3>1. count \in [fences: Nat, downloads: Nat, locks: Nat, faults: Nat]
      BY Values
    <3>2. c \in [fences: Nat, downloads: Nat, locks: Nat, faults: Nat]
          /\ c.fences = count.fences
      BY <3>1
    <3>3. count' = [c EXCEPT !.fences = @ + 1]
      BY DEF Lock, Draw
    <3> HIDE DEF c
    <3> QED BY <3>2, <3>3
  <2> QED BY <2>1, <2>2, Values DEF Lock, NewFence
<1>3. ASSUME NEW t \in Callers
      PROVE  SnapshotOf(t)' /\ ChangesOf(t)' /\ TicketOf(t)' /\ StagedOf(t)'
  BY <1>1, <1>2, KeptCarry, DrawnTicket, CalmRows DEF Kept
<1>4. JournalOK' /\ ReplicaOK' /\ AcknowledgedHeld'
  BY <1>1, <1>2, CalmRows, DataLeft
<1>5. runtime'.fence <= count'.fences
  BY <1>2, DataValues DEF NewFence
<1> QED BY <1>1, <1>3, <1>4, <1>5, CalmRows DEF DataInv, CallersOK

\* What the other callers of a step of synchronizeReplica and of a fault see.
LEMMA DataFault ==
    ASSUME TypeOK, LedgerInv, DataInv, NEW t \in Callers,
           LoseAnswer(t) \/ Crash(t)
    PROVE  DataInv'
<1>1. /\ UNCHANGED <<epoch, journal, runtime, records, outbox>>
      /\ count'.fences = count.fences
      /\ task'[t].at \in {"unsure", "idle"}
      /\ \A s \in Callers \ {t} : task'[s] = task[s] /\ cap'[s] = cap[s]
  BY FaultEffect
<1>2. /\ reply'[t].kind # "known"
      /\ \A s \in Callers \ {t} : reply'[s] = reply[s]
  <2>1. Orphan(t)
    BY DEF LoseAnswer, Crash
  <2>2. reply' = [reply EXCEPT ![t] = NoReply]
    BY <2>1 DEF Orphan
  <2> QED BY <2>2, Values DEF NoReply
<1>3. KnownPosition'
  BY <1>1, <1>2, KnownKept
<1>4. \A s \in Callers : Kept(s)
  BY <1>1 DEF Kept
<1> QED BY <1>1, <1>3, <1>4, DataQuiet DEF ReplicaKept

LEMMA SyncReply ==
    ASSUME TypeOK, LedgerInv, NEW t \in Callers, Synchronize(t)
    PROVE  /\ \A s \in Callers \ {t} : reply'[s] = reply[s]
           /\ reply'[t].kind # "known"
<1> USE DEF At, Got
<1>1. CASE PushAfterLookup(t) \/ ApplyReceipt(t) \/ HearError(t)
  <2>1. Heard(t)
    BY <1>1 DEF PushAfterLookup, ApplyReceipt, HearError
  <2> QED BY <2>1, Values DEF Heard, NoReply
<1>2. CASE reply' = reply /\ task[t].at # "await"
  BY <1>2 DEF LedgerInv, ExchangeInv, OneExchange
<1> QED BY <1>1, <1>2
        DEF Synchronize, StartSync, SkipRow, SendRow, AbandonSync,
            MarkUncertain, Quarantine, serverVars

LEMMA SyncKept ==
    ASSUME TypeOK, LedgerInv, DataInv, NEW t \in Callers, Synchronize(t)
    PROVE  /\ UNCHANGED <<epoch, journal>> /\ count'.fences = count.fences
           /\ \A s \in Callers : Kept(s)
           /\ KnownPosition'
<1>1. /\ UNCHANGED <<epoch, journal, cap, count>>
      /\ task'[t].at \in Syncing \cup {"idle"}
      /\ \A s \in Callers \ {t} : task'[s] = task[s]
      /\ \A o \in Ops : outbox'[o].epoch = outbox[o].epoch
  BY SyncEffect
<1>2. KnownPosition'
  BY <1>1, SyncReply, KnownKept
<1> QED BY <1>1, <1>2 DEF Kept, Syncing

\* An acknowledgement writes its record under a new revision.
LEMMA DataReceipt ==
    ASSUME TypeOK, RightsOK, LedgerInv, DataInv, NEW t \in Callers,
           ApplyReceipt(t), reply[t].outcome = "acknowledged",
           outbox' # outbox
    PROVE  DataInv' /\ \A k \in Keys : records[k].rev <= records'[k].rev
<1> USE DEF At, Got
<1> DEFINE o == task[t].op
           pos == reply[t].pos
           row == [outbox[o] EXCEPT !.state = reply[t].outcome]
           new == Newer(records[Target[o]], [rev |-> pos, deleted |-> FALSE])
<1>0. Synchronize(t)
  BY DEF Synchronize
<1>1. /\ task[t].at = "await" /\ reply[t].kind = "known"
      /\ outbox[o].state \in {"sending", "uncertain"}
      /\ outbox' = [outbox EXCEPT ![o] = row]
      /\ records' = [records EXCEPT ![Target[o]] = new]
      /\ runtime' = [runtime EXCEPT !.revision = @ + 1]
  BY DEF ApplyReceipt, Committed
<1>2. o \in Ops /\ outbox[o] \in Row /\ Target[o] \in Keys /\ pos \in Nat
  BY <1>1, RowAtWork, Values, TargetAssumption DEF Syncing, Reply
<1>3. /\ runtime'.ctx = runtime.ctx /\ runtime'.cursor = runtime.cursor
      /\ runtime'.fence = runtime.fence
      /\ runtime'.revision = runtime.revision + 1
  BY <1>1, Values
<1>4. /\ new.rev \in {records[Target[o]].rev, pos}
      /\ records[Target[o]].rev <= new.rev /\ pos <= new.rev
  BY <1>2, DataValues DEF Newer
<1>5. runtime.ctx.epoch = epoch =>
        /\ outbox[o].epoch = epoch /\ outbox[o].sent
        /\ pos \in DOMAIN journal /\ journal[pos].op = o
        /\ journal[pos].key = Target[o]
  <2> SUFFICES ASSUME runtime.ctx.epoch = epoch
               PROVE  /\ outbox[o].epoch = epoch /\ outbox[o].sent
                      /\ pos \in DOMAIN journal /\ journal[pos].op = o
                      /\ journal[pos].key = Target[o]
    OBVIOUS
  <2>1. outbox[o].epoch = epoch
    BY <1>1, <1>2 DEF RightsOK, OnlyApprovedIsSent, Sendable
  <2>2. pos \in DOMAIN journal /\ journal[pos].op = o
    BY <1>1, <2>1 DEF DataInv, KnownPosition
  <2>3. verdicts[o] = <<journal[pos].outcome>>
    BY <1>2, <2>2 DEF LedgerInv, VerdictInv, JournalDecided
  <2>4. verdicts[o] = <<reply[t].outcome>>
    BY <1>1 DEF LedgerInv, VerdictInv, KnownDecided
  <2>5. journal[pos].outcome = "acknowledged"
    BY <2>3, <2>4
  <2>6. outbox[o].sent
    BY <1>1 DEF LedgerInv, ExchangeInv, EngagedRows, Engaged
  <2> QED BY <1>2, <2>1, <2>2, <2>5, <2>6 DEF DataInv, JournalOK
<1>6. row.epoch = outbox[o].epoch
  BY <1>2 DEF Row
<1> HIDE DEF o, pos, row, new
<1>7. /\ outbox'[o] = row /\ \A p \in Ops \ {o} : outbox'[p] = outbox[p]
      /\ records'[Target[o]] = new
      /\ \A k \in Keys \ {Target[o]} : records'[k] = records[k]
  BY <1>1, <1>2, Values
<1>8. \A k \in Keys : /\ records[k].rev \in Nat /\ records'[k].rev \in Nat
                      /\ records[k].rev <= records'[k].rev
  BY <1>2, <1>4, <1>7, DataValues
<1>9. ASSUME NEW s \in Callers
      PROVE  SnapshotOf(s)' /\ ChangesOf(s)' /\ TicketOf(s)' /\ StagedOf(s)'
  BY <1>0, <1>3, SyncKept, KeptCarry, CommittedTicket
<1>10. UNCHANGED <<epoch, journal>> /\ count'.fences = count.fences
       /\ KnownPosition'
  BY <1>0, SyncKept
<1>11. JournalOK' /\ runtime'.fence <= count'.fences
  BY <1>3, <1>10 DEF DataInv, JournalOK
<1>12. ReplicaOK'
  <2> SUFFICES ASSUME runtime.ctx.epoch = epoch, NEW k \in Keys
               PROVE  Written(records'[k].rev, k)
                      /\ Covers(records'[k].rev, runtime.cursor, k)
    BY <1>3, <1>10 DEF DataInv, ReplicaOK, Written, Covers
  <2>1. Written(records[k].rev, k) /\ Covers(records[k].rev, runtime.cursor, k)
    BY DEF DataInv, ReplicaOK
  <2>2. Written(records'[k].rev, k)
    BY <1>4, <1>5, <1>7, <2>1 DEF Written
  <2>3. Covers(records'[k].rev, runtime.cursor, k)
    <3>1. \A a, b, c \in Nat : a <= b /\ b <= c => a <= c
      OBVIOUS
    <3> QED BY <1>8, <2>1, <3>1, DataValues DEF Covers
  <2> QED BY <2>2, <2>3
<1>13. AcknowledgedHeld'
  <2> SUFFICES ASSUME runtime.ctx.epoch = epoch, NEW p \in Ops,
                      outbox'[p].state = "acknowledged",
                      outbox'[p].epoch = epoch,
                      NEW i \in DOMAIN journal, journal[i].op = p
               PROVE  i <= records'[Target[p]].rev
    BY <1>3, <1>10 DEF AcknowledgedHeld
  <2>1. CASE p = o
    <3>1. i = pos
      BY <1>2, <1>5, <2>1 DEF DataInv, JournalOK
    <3> QED BY <1>4, <1>7, <2>1, <3>1
  <2>2. CASE p # o
    <3>1. i <= records[Target[p]].rev /\ Target[p] \in Keys /\ i \in Nat
      BY <1>7, <2>2, DataValues, TargetAssumption DEF DataInv, AcknowledgedHeld
    <3>2. \A a, b, c \in Nat : a <= b /\ b <= c => a <= c
      OBVIOUS
    <3> QED BY <1>8, <3>1, <3>2
  <2> QED BY <2>1, <2>2
<1> QED BY <1>8, <1>9, <1>10, <1>11, <1>12, <1>13 DEF DataInv, CallersOK

LEMMA DataSync ==
    ASSUME TypeOK, RightsOK, LedgerInv, DataInv, NEW t \in Callers,
           Synchronize(t)
    PROVE  /\ DataInv'
           /\ runtime'.cursor = runtime.cursor
           /\ \A k \in Keys : records[k].rev <= records'[k].rev
<1> USE DEF At, Got, serverVars, rowVars, clientVars
<1>0. /\ runtime'.ctx = runtime.ctx /\ runtime'.cursor = runtime.cursor
      /\ runtime'.fence = runtime.fence
      /\ \A o \in Ops : outbox'[o].epoch = outbox[o].epoch
  BY SyncEffect
<1>1. ASSUME UNCHANGED <<records, runtime>>,
             \A o \in Ops : outbox'[o].state = "acknowledged" =>
                              outbox[o].state = "acknowledged"
      PROVE  DataInv' /\ \A k \in Keys : records[k].rev <= records'[k].rev
  BY <1>0, <1>1, SyncKept, DataQuiet, DataValues DEF ReplicaKept
<1>2. CASE ApplyReceipt(t) /\ outbox' # outbox
  <2>1. CASE reply[t].outcome = "acknowledged"
    BY <1>0, <1>2, <2>1, DataReceipt
  <2>2. CASE reply[t].outcome # "acknowledged"
    <3> DEFINE row == [outbox[task[t].op] EXCEPT !.state = reply[t].outcome]
    <3>1. task[t].op \in Ops /\ outbox[task[t].op] \in Row
      BY <1>2, RowAtWork DEF ApplyReceipt, Syncing
    <3>2. row.state = reply[t].outcome
      BY <3>1 DEF Row
    <3>3. outbox' = [outbox EXCEPT ![task[t].op] = row]
          /\ UNCHANGED <<records, runtime>>
      BY <1>2, <2>2 DEF ApplyReceipt
    <3> HIDE DEF row
    <3>4. \A o \in Ops : outbox'[o].state = "acknowledged" =>
                           outbox[o].state = "acknowledged"
      BY <2>2, <3>1, <3>2, <3>3, Values
    <3> QED BY <1>0, <1>1, <3>3, <3>4
  <2> QED BY <2>1, <2>2
<1>3. CASE ApplyReceipt(t) /\ outbox' = outbox
  <2>1. CASE UNCHANGED <<records, runtime>>
    BY <1>0, <1>1, <1>3, <2>1
  <2>2. CASE ~UNCHANGED <<records, runtime>>
    <3>1. /\ outbox[task[t].op].state \in {"sending", "uncertain"}
          /\ reply[t].outcome = "acknowledged"
          /\ outbox' = [outbox EXCEPT ![task[t].op].state = "acknowledged"]
          /\ task[t].at = "await"
      BY <1>3, <2>2 DEF ApplyReceipt
    <3>2. task[t].op \in Ops
      BY <3>1, RowAtWork DEF Syncing
    <3>3. outbox'[task[t].op].state = "acknowledged"
      BY <3>1, <3>2, Values DEF Row
    <3> QED BY <1>3, <3>1, <3>3
  <2> QED BY <2>1, <2>2
<1>4. ASSUME NEW o \in Ops, SendRow(t, o)
      PROVE  DataInv' /\ \A k \in Keys : records[k].rev <= records'[k].rev
  <2> DEFINE row == [outbox[o] EXCEPT !.state = "sending", !.sent = TRUE]
  <2>1. row.state = "sending"
    BY Values DEF Row
  <2>2. outbox' = [outbox EXCEPT ![o] = row] /\ UNCHANGED <<records, runtime>>
    BY <1>4 DEF SendRow
  <2> HIDE DEF row
  <2> QED BY <1>1, <2>1, <2>2, Values
<1>5. CASE PushAfterLookup(t) \/ HearError(t)
  BY <1>1, <1>5 DEF PushAfterLookup, HearError
<1>6. ASSUME \/ \E due \in SUBSET Ops : StartSync(t, due)
             \/ \E o \in Ops : SkipRow(t, o) \/ AbandonSync(t, o)
             \/ MarkUncertain(t) \/ Quarantine(t)
      PROVE  DataInv' /\ \A k \in Keys : records[k].rev <= records'[k].rev
  <2>1. UNCHANGED <<records, runtime>>
    BY <1>6 DEF StartSync, SkipRow, AbandonSync, MarkUncertain, Quarantine
  <2>2. Calm
    BY <1>6, CalmSync
  <2> QED BY <1>1, <2>1, <2>2 DEF Calm, RowCalm
<1> QED BY <1>0, <1>2, <1>3, <1>4, <1>5, <1>6 DEF Synchronize

-----------------------------------------------------------------------------
(* Snapshots and changes.                                                  *)

Forward ==
    runtime'.ctx.epoch = runtime.ctx.epoch =>
        /\ runtime.cursor <= runtime'.cursor
        /\ \A k \in Keys : records[k].rev <= records'[k].rev

LEMMA SameForward ==
    ASSUME TypeOK, runtime'.cursor = runtime.cursor, records' = records
    PROVE  Forward
BY DataValues DEF Forward

\* A step of a caller that leaves the replica alone, but may take up
\* something to carry.
LEMMA DataCarry ==
    ASSUME TypeOK, LedgerInv, DataInv, Calm, NEW t \in Callers,
           UNCHANGED <<runtime, records>>,
           count.fences <= count'.fences, count'.fences \in Nat,
           \A s \in Callers \ {t} : Kept(s),
           SnapshotOf(t)', ChangesOf(t)', TicketOf(t)', StagedOf(t)'
    PROVE  DataInv'
<1>1. ASSUME NEW s \in Callers \ {t}
      PROVE  SnapshotOf(s)' /\ ChangesOf(s)' /\ TicketOf(s)' /\ StagedOf(s)'
  BY CalmRows, KeptCarry, KeptTicket
<1>2. JournalOK' /\ ReplicaOK' /\ AcknowledgedHeld' /\ KnownPosition'
  BY CalmRows, DataLeft
<1>3. runtime'.fence <= count'.fences
  <2>1. \A a, b, c \in Nat : a <= b /\ b <= c => a <= c
    OBVIOUS
  <2> QED BY <2>1, DataValues DEF DataInv
<1> QED BY <1>1, <1>2, <1>3 DEF DataInv, CallersOK

LEMMA DataBegin ==
    ASSUME TypeOK, LedgerInv, DataInv, NEW t \in Callers, BeginSnapshot(t)
    PROVE  DataInv' /\ Forward
<1> USE DEF serverVars, rowVars
<1>0. Replicate(t)
  BY DEF Replicate
<1>1. Calm /\ \A s \in Callers \ {t} : task'[s] = task[s]
  BY <1>0, CalmReplica, ReplicaEffect
<1>2. UNCHANGED <<runtime, records, cap>>
  BY DEF BeginSnapshot
<1>3. count'.fences = count.fences + 1
  <2> DEFINE c == [count EXCEPT !.downloads = @ + 1]
  <2>1. count \in [fences: Nat, downloads: Nat, locks: Nat, faults: Nat]
    BY Values
  <2>2. c \in [fences: Nat, downloads: Nat, locks: Nat, faults: Nat]
        /\ c.fences = count.fences
    BY <2>1
  <2>3. count' = [c EXCEPT !.fences = @ + 1]
    BY DEF BeginSnapshot, Draw
  <2> HIDE DEF c
  <2> QED BY <2>2, <2>3
<1>4. /\ task'[t].at = "fetch" /\ task'[t].ticket.under = runtime.fence
      /\ task'[t].ticket.revision = runtime.revision
  BY Values DEF BeginSnapshot, Resting
<1>5. SnapshotOf(t)' /\ ChangesOf(t)' /\ TicketOf(t)' /\ StagedOf(t)'
  BY <1>2, <1>4, DataValues DEF SnapshotOf, ChangesOf, TicketOf, StagedOf
<1>6. count.fences <= count'.fences /\ count'.fences \in Nat
  BY <1>3, DataValues
<1> QED BY <1>1, <1>2, <1>5, <1>6, DataCarry, SameForward DEF Kept

\* What the host read at the end of the journal is the latest of each record.
LEMMA SnapshotIs ==
    ASSUME KeepsTombstones, TypeOK, NEW k \in Keys
    PROVE  /\ Written(Snapshot[k].rev, k)
           /\ Covers(Snapshot[k].rev, Len(journal), k)
<1>1. PICK n \in Nat : n = Len(journal)
  BY DataValues
<1>2. Snapshot[k].rev = LastWrite(n, k)
  BY <1>1 DEF Snapshot, Absent
<1>3. /\ Written(LastWrite(n, k), k) /\ Covers(LastWrite(n, k), n, k)
  BY LastWriteIs
<1> QED BY <1>1, <1>2, <1>3

LEMMA DataStage ==
    ASSUME KeepsTombstones, TypeOK, LedgerInv, DataInv, NEW t \in Callers,
           StageSnapshot(t)
    PROVE  DataInv' /\ Forward
<1> USE DEF serverVars, rowVars, At
<1>0. Replicate(t)
  BY DEF Replicate
<1>1. /\ Calm /\ UNCHANGED <<epoch, journal>>
      /\ \A s \in Callers \ {t} : task'[s] = task[s]
  BY <1>0, CalmReplica, ReplicaEffect
<1>2. UNCHANGED <<runtime, records, cap, count>>
  BY DEF StageSnapshot
<1>3. count.fences <= count'.fences /\ count'.fences \in Nat
  BY <1>2, DataValues
<1>4. CASE Rest(t)
  <2>1. task'[t].at = "idle"
    BY <1>4, RestEffect
  <2>2. SnapshotOf(t)' /\ ChangesOf(t)' /\ TicketOf(t)' /\ StagedOf(t)'
    BY <2>1 DEF SnapshotOf, ChangesOf, TicketOf, StagedOf, Ticketed
  <2> QED BY <1>1, <1>2, <1>3, <2>2, DataCarry, SameForward DEF Kept
<1>5. CASE /\ Here = task[t].ticket.ctx
           /\ task' = [task EXCEPT ![t] = [@ EXCEPT !.at = "activate",
                         !.recs = Snapshot, !.to = Len(journal)]]
  <2>1. /\ task'[t].at = "activate" /\ task'[t].recs = Snapshot
        /\ task'[t].to = Len(journal) /\ task'[t].ticket = task[t].ticket
    BY <1>5, Values DEF Task
  <2>2. task[t].ticket.ctx.epoch = epoch /\ Ticketed(t)
    BY <1>5 DEF StageSnapshot, Here, Ticketed
  <2>3. SnapshotOf(t)'
    BY <1>1, <2>1, SnapshotIs, DataValues DEF SnapshotOf, Written, Covers
  <2>4. ChangesOf(t)' /\ TicketOf(t)'
    BY <1>2, <2>1, <2>2
       DEF ChangesOf, DataInv, CallersOK, TicketOf, Ticketed
  <2>5. StagedOf(t)'
    <3> SUFFICES ASSUME runtime.ctx.epoch = epoch
                 PROVE  /\ runtime.cursor <= Len(journal)
                        /\ \A k \in Keys : records[k].rev <= Snapshot[k].rev
      BY <1>2, <2>1, <2>2 DEF StagedOf
    <3>1. ASSUME NEW k \in Keys PROVE records[k].rev <= Snapshot[k].rev
      <4>1. CASE records[k].rev = 0
        <5>1. Snapshot[k].rev \in Nat
          <6>1. PICK n \in Nat : n = Len(journal)
            BY DataValues
          <6> QED BY <6>1, LastWriteIs DEF Snapshot, Absent
        <5> QED BY <4>1, <5>1
      <4>2. CASE records[k].rev # 0
        <5>1. /\ records[k].rev \in DOMAIN journal
              /\ journal[records[k].rev].key = k
          BY <4>2 DEF DataInv, ReplicaOK, Written
        <5>2. records[k].rev <= Len(journal)
          BY <5>1, DataValues
        <5> QED BY <5>1, <5>2, SnapshotIs DEF Covers
      <4> QED BY <4>1, <4>2
    <3> QED BY <3>1 DEF DataInv, ReplicaOK
  <2> QED BY <1>1, <1>2, <1>3, <2>3, <2>4, <2>5, DataCarry, SameForward
          DEF Kept
<1> QED BY <1>4, <1>5 DEF StageSnapshot

LEMMA DataFetch ==
    ASSUME TypeOK, LedgerInv, DataInv, NEW t \in Callers, FetchChanges(t)
    PROVE  DataInv' /\ Forward
<1> USE DEF serverVars, rowVars, At
<1>0. Replicate(t)
  BY DEF Replicate
<1>1. /\ Calm /\ UNCHANGED <<epoch, journal>>
      /\ \A s \in Callers \ {t} : task'[s] = task[s]
  BY <1>0, CalmReplica, ReplicaEffect
<1>2. UNCHANGED <<runtime, records, cap, count>>
      /\ runtime.cursor < Len(journal)
  BY DEF FetchChanges
<1>3. count.fences <= count'.fences /\ count'.fences \in Nat
  BY <1>2, DataValues
<1>4. PICK r : /\ r = [k \in Keys |->
                    LET p == LastWrite(Len(journal), k) IN
                    IF p > runtime.cursor
                    THEN [rev |-> p, deleted |-> journal[p].deleted]
                    ELSE Absent]
               /\ task' = [task EXCEPT ![t] =
                    [Resting EXCEPT !.at = "changes", !.from = runtime.cursor,
                                    !.to = Len(journal), !.recs = r]]
  BY DEF FetchChanges
<1>5. /\ task'[t].at = "changes" /\ task'[t].from = runtime.cursor
      /\ task'[t].to = Len(journal) /\ task'[t].recs = r
  BY <1>4, Values DEF Resting
<1>6. ASSUME NEW k \in Keys
      PROVE  /\ Written(r[k].rev, k)
             /\ \A i \in DOMAIN journal :
                  /\ runtime.cursor < i /\ i <= Len(journal)
                  /\ journal[i].key = k
                  => i <= r[k].rev
  <2>1. PICK n \in Nat : n = Len(journal)
    BY DataValues
  <2>2. PICK p : p = LastWrite(n, k)
    OBVIOUS
  <2>3. p \in Nat /\ Written(p, k) /\ Covers(p, n, k)
    BY <2>2, LastWriteIs
  <2>4. r[k].rev = IF p > runtime.cursor THEN p ELSE 0
    BY <1>4, <2>1, <2>2 DEF Absent
  <2>5. CASE p > runtime.cursor
    BY <2>1, <2>3, <2>4, <2>5 DEF Covers
  <2>6. CASE ~(p > runtime.cursor)
    <3>1. \A i \in DOMAIN journal :
             i <= Len(journal) /\ journal[i].key = k => ~(runtime.cursor < i)
      BY <2>1, <2>3, <2>6, DataValues DEF Covers
    <3> QED BY <2>4, <2>6, <3>1 DEF Written
  <2> QED BY <2>5, <2>6
<1>7. ChangesOf(t)'
  BY <1>1, <1>2, <1>5, <1>6, DataValues DEF ChangesOf, Written
<1>8. SnapshotOf(t)' /\ TicketOf(t)' /\ StagedOf(t)'
  BY <1>5 DEF SnapshotOf, TicketOf, StagedOf, Ticketed
<1> QED BY <1>1, <1>2, <1>3, <1>7, <1>8, DataCarry, SameForward DEF Kept

LEMMA DataChanges ==
    ASSUME TypeOK, LedgerInv, DataInv, NEW t \in Callers, ApplyChanges(t)
    PROVE  DataInv' /\ Forward
<1> USE DEF serverVars, rowVars, At
<1>0. Replicate(t)
  BY DEF Replicate
<1>1. /\ Calm /\ UNCHANGED <<epoch, journal>>
      /\ \A s \in Callers \ {t} : task'[s] = task[s]
  BY <1>0, CalmReplica, ReplicaEffect
<1>2. /\ UNCHANGED <<cap, count, outbox>> /\ task'[t].at = "idle"
      /\ task[t].at = "changes"
  BY RestEffect DEF ApplyChanges
<1>3. \A s \in Callers : Kept(s)
  BY <1>1, <1>2 DEF Kept
<1>4. CASE UNCHANGED <<records, runtime>>
  BY <1>1, <1>2, <1>3, <1>4, DataCalm, SameForward DEF ReplicaKept
<1>5. CASE /\ Current(t) /\ Follows(task[t].from)
           /\ records' = [k \in Keys |-> Newer(records[k], task[t].recs[k])]
           /\ runtime' = [runtime EXCEPT !.cursor = task[t].to,
                                         !.revision = @ + 1]
  <2>1. /\ runtime'.ctx = runtime.ctx /\ runtime'.fence = runtime.fence
        /\ runtime'.cursor = task[t].to
        /\ runtime'.revision = runtime.revision + 1
    BY <1>5, Values
  <2>2. /\ runtime.cursor = task[t].from /\ task[t].from <= task[t].to
        /\ runtime.ctx = cap[t].ctx
    BY <1>2, <1>5 DEF Current, Follows, DataInv, CallersOK, ChangesOf
  <2>3. \A k \in Keys :
          /\ records'[k].rev \in {records[k].rev, task[t].recs[k].rev}
          /\ records[k].rev <= records'[k].rev
          /\ task[t].recs[k].rev <= records'[k].rev
          /\ records'[k].rev \in Nat
    <3>1. \A old, new \in Record :
            /\ Newer(old, new).rev \in {old.rev, new.rev}
            /\ old.rev <= Newer(old, new).rev
            /\ new.rev <= Newer(old, new).rev
            /\ Newer(old, new).rev \in Nat
      BY DEF Newer, Record
    <3>2. \A k \in Keys :
            records'[k] = Newer(records[k], task[t].recs[k])
      BY <1>5
    <3> QED BY <3>1, <3>2, DataValues
  <2>4. Forward
    BY <2>1, <2>2, <2>3 DEF Forward
  <2>5. ASSUME NEW s \in Callers
        PROVE  SnapshotOf(s)' /\ ChangesOf(s)' /\ TicketOf(s)' /\ StagedOf(s)'
    BY <1>1, <1>3, <2>1, KeptCarry, CommittedTicket
  <2>6. runtime.ctx.epoch = epoch =>
          /\ task[t].to <= Len(journal)
          /\ \A k \in Keys :
               /\ Written(task[t].recs[k].rev, k)
               /\ \A i \in DOMAIN journal :
                    /\ task[t].from < i /\ i <= task[t].to
                    /\ journal[i].key = k
                    => i <= task[t].recs[k].rev
    BY <1>2, <2>2 DEF DataInv, CallersOK, ChangesOf
  <2>7. \A a, b, c \in Nat : a <= b /\ b <= c => a <= c
    OBVIOUS
  <2>8. ReplicaOK'
    <3> SUFFICES ASSUME runtime.ctx.epoch = epoch, NEW k \in Keys
                 PROVE  /\ Written(records'[k].rev, k)
                        /\ Covers(records'[k].rev, task[t].to, k)
      BY <1>1, <2>1, <2>6 DEF ReplicaOK, Written, Covers
    <3>1. /\ Written(records[k].rev, k)
          /\ Covers(records[k].rev, runtime.cursor, k)
      BY DEF DataInv, ReplicaOK
    <3>2. Written(records'[k].rev, k)
      BY <2>3, <2>6, <3>1 DEF Written
    <3>3. ASSUME NEW i \in DOMAIN journal, i <= task[t].to, journal[i].key = k
          PROVE  i <= records'[k].rev
      <4>0. i \in Nat /\ task[t].from \in Nat /\ records[k].rev \in Nat
            /\ task[t].recs[k].rev \in Nat
        BY DataValues
      <4>1. CASE i <= task[t].from
        BY <2>2, <2>3, <2>7, <3>1, <3>3, <4>0, <4>1 DEF Covers
      <4>2. CASE task[t].from < i
        BY <2>3, <2>6, <2>7, <3>3, <4>0, <4>2
      <4> QED BY <4>0, <4>1, <4>2
    <3> QED BY <3>2, <3>3 DEF Covers
  <2>9. AcknowledgedHeld'
    <3> SUFFICES ASSUME runtime.ctx.epoch = epoch, NEW p \in Ops,
                        outbox[p].state = "acknowledged",
                        outbox[p].epoch = epoch,
                        NEW i \in DOMAIN journal, journal[i].op = p
                 PROVE  i <= records'[Target[p]].rev
      BY <1>1, <1>2, <2>1 DEF AcknowledgedHeld
    <3>1. i <= records[Target[p]].rev /\ Target[p] \in Keys
      BY TargetAssumption DEF DataInv, AcknowledgedHeld
    <3> QED BY <2>3, <2>7, <3>1, DataValues
  <2>10. JournalOK' /\ KnownPosition' /\ runtime'.fence <= count'.fences
    BY <1>1, <1>2, <2>1, CalmRows DEF DataInv, JournalOK
  <2> QED BY <2>4, <2>5, <2>8, <2>9, <2>10 DEF DataInv, CallersOK
<1> QED BY <1>4, <1>5 DEF ApplyChanges

\* A snapshot replaces the replica it was staged for, and no other.
LEMMA DataActivate ==
    ASSUME TypeOK, LedgerInv, DataInv, NEW t \in Callers, ActivateSnapshot(t)
    PROVE  DataInv' /\ (runtime.fence # NoFence => Forward)
<1> USE DEF serverVars, rowVars, At
<1>0. Replicate(t)
  BY DEF Replicate
<1>1. /\ Calm /\ UNCHANGED <<epoch, journal>>
      /\ \A s \in Callers \ {t} : task'[s] = task[s]
  BY <1>0, CalmReplica, ReplicaEffect
<1>2. task'[t].at = "idle" /\ task[t].at = "activate"
  BY RestEffect DEF ActivateSnapshot
<1>3. CASE UNCHANGED <<records, outbox, runtime, cap, count>>
  <2>1. \A s \in Callers : Kept(s)
    BY <1>1, <1>2, <1>3 DEF Kept
  <2> QED BY <1>1, <1>3, <2>1, DataCalm, SameForward DEF ReplicaKept
<1> DEFINE k == task[t].ticket
<1>4. CASE /\ UntouchedSince(k)
           /\ records' = task[t].recs
           /\ runtime' = [ready |-> TRUE, ctx |-> k.ctx, fence |-> NewFence,
                          cursor |-> task[t].to, revision |-> k.revision + 1]
           /\ cap' = [cap EXCEPT ![t] = [ctx |-> k.ctx, fence |-> NewFence]]
           /\ Draw(count)
  <2>1. /\ runtime'.ctx = k.ctx /\ runtime'.fence = NewFence
        /\ runtime'.cursor = task[t].to
    BY <1>4
  <2>2. \A s \in Callers \ {t} : cap'[s] = cap[s]
    BY <1>4, Values
  <2>3. count'.fences = NewFence
    BY <1>4, Values DEF Draw, NewFence
  <2>4. \A s \in Callers : Kept(s)
    BY <1>1, <1>2, <2>2 DEF Kept
  <2>5. ASSUME NEW s \in Callers
        PROVE  SnapshotOf(s)' /\ ChangesOf(s)' /\ TicketOf(s)' /\ StagedOf(s)'
    BY <1>1, <2>1, <2>4, KeptCarry, DrawnTicket
  <2>6. k.ctx.epoch = runtime.ctx.epoch =>
          /\ runtime.cursor <= task[t].to
          /\ \A j \in Keys : records[j].rev <= task[t].recs[j].rev
    BY <1>2, <1>4 DEF DataInv, CallersOK, StagedOf
  <2>7. Forward
    BY <1>4, <2>1, <2>6 DEF Forward
  <2>8. ReplicaOK'
    <3>1. k.ctx.epoch = epoch =>
            /\ task[t].to <= Len(journal)
            /\ \A j \in Keys : /\ Written(task[t].recs[j].rev, j)
                               /\ Covers(task[t].recs[j].rev, task[t].to, j)
      BY <1>2 DEF DataInv, CallersOK, SnapshotOf
    <3> QED BY <1>1, <1>4, <2>1, <3>1 DEF ReplicaOK, Written, Covers
  <2>9. AcknowledgedHeld'
    <3> SUFFICES ASSUME k.ctx.epoch = epoch, NEW p \in Ops,
                        outbox'[p].state = "acknowledged",
                        outbox'[p].epoch = epoch,
                        NEW i \in DOMAIN journal, journal[i].op = p
                 PROVE  i <= task[t].recs[Target[p]].rev
      BY <1>1, <1>4, <2>1 DEF AcknowledgedHeld
    <3>1. outbox[p].state = "acknowledged" /\ outbox[p].epoch = epoch
      BY <1>1, CalmRows
    <3>2. runtime.ctx.epoch = epoch
      <4>1. /\ outbox[p].epoch <= runtime.ctx.epoch
            /\ runtime.ctx.epoch <= epoch
        BY DEF LedgerInv, EpochsOK
      <4> QED BY <3>1, <4>1, DataValues
    <3>3. /\ i <= records[Target[p]].rev /\ Target[p] \in Keys
      BY <3>1, <3>2, TargetAssumption DEF DataInv, AcknowledgedHeld
    <3>4. records[Target[p]].rev <= task[t].recs[Target[p]].rev
      BY <2>6, <3>2, <3>3
    <3>5. \A a, b, c \in Nat : a <= b /\ b <= c => a <= c
      OBVIOUS
    <3> QED BY <3>3, <3>4, <3>5, DataValues
  <2>10. JournalOK' /\ KnownPosition' /\ runtime'.fence <= count'.fences
    BY <1>1, <2>1, <2>3, CalmRows, DataValues DEF DataInv, JournalOK, NewFence
  <2> QED BY <2>5, <2>7, <2>8, <2>9, <2>10 DEF DataInv, CallersOK
<1> QED BY <1>3, <1>4 DEF ActivateSnapshot

LEMMA DataReplica ==
    ASSUME KeepsTombstones, TypeOK, LedgerInv, DataInv, NEW t \in Callers,
           Replicate(t)
    PROVE  DataInv' /\ (runtime.fence # NoFence => Forward)
<1>1. CASE Capture(t)
  <2>1. Calm /\ \A s \in Callers \ {t} : task'[s] = task[s]
    BY <1>1, CalmReplica, ReplicaEffect DEF Replicate
  <2>2. UNCHANGED <<runtime, records, count>> /\ task[t].at = "idle"
        /\ task' = task /\ \A s \in Callers \ {t} : cap'[s] = cap[s]
    BY <1>1, Values DEF Capture, At
  <2>3. \A s \in Callers : Kept(s)
    BY <2>1, <2>2 DEF Kept
  <2> QED BY <2>1, <2>2, <2>3, DataCalm, SameForward DEF ReplicaKept
<1> QED BY <1>1, DataBegin, DataStage, DataFetch, DataChanges, DataActivate
        DEF Replicate

LEMMA DataInit == Init => DataInv
<1> SUFFICES ASSUME Init PROVE DataInv
  OBVIOUS
<1>1. /\ journal = <<>> /\ epoch = 1 /\ runtime.fence = 0 /\ count.fences = 0
      /\ runtime.ctx.epoch = 0
  BY DEF Init, ServerInit, NoFence, NoContext
<1>2. \A t \in Callers : task[t].at = "idle" /\ reply[t].kind = "none"
  BY NothingTypes DEF Init, ServerInit, NoReply
<1>3. DOMAIN journal = {}
  BY <1>1
<1>4. JournalOK /\ KnownPosition /\ ReplicaOK /\ AcknowledgedHeld
  BY <1>1, <1>2, <1>3
     DEF JournalOK, KnownPosition, ReplicaOK, AcknowledgedHeld
<1>5. CallersOK
  BY <1>2 DEF CallersOK, SnapshotOf, ChangesOf, TicketOf, StagedOf, Ticketed
<1> QED BY <1>1, <1>4, <1>5 DEF DataInv

LEMMA DataNext ==
    ASSUME KeepsTombstones, TypeOK, RightsOK, LedgerInv, DataInv, [Next]_vars
    PROVE  DataInv' /\ (runtime.fence # NoFence => Forward)
<1>1. CASE ServerNext /\ UNCHANGED clientVars
  BY <1>1, DataServer, SameForward DEF clientVars
<1>2. CASE \/ Grant \/ Revoke \/ UNCHANGED vars
           \/ \E t \in Callers, o \in Ops :
                Enqueue(t, o) \/ Cancel(t, o) \/ Resume(t, o)
  <2>1. UNCHANGED <<runtime, records>>
    BY <1>2 DEF Grant, Revoke, Enqueue, Cancel, Resume, vars, clientVars
  <2> QED BY <1>2, <2>1, DataHost, SameForward
<1>3. CASE Lock
  <2>1. runtime'.cursor = runtime.cursor /\ records' = records
    BY <1>3, Values DEF Lock
  <2> QED BY <1>3, <2>1, DataLock, SameForward
<1>4. ASSUME NEW t \in Callers, Synchronize(t)
      PROVE  DataInv' /\ Forward
  BY <1>4, DataSync, DataValues DEF Forward
<1>5. ASSUME NEW t \in Callers, LoseAnswer(t) \/ Crash(t)
      PROVE  DataInv' /\ Forward
  <2>1. UNCHANGED <<runtime, records>>
    BY <1>5, FaultEffect
  <2> QED BY <1>5, <2>1, DataFault, SameForward
<1> QED BY <1>1, <1>2, <1>3, <1>4, <1>5, DataReplica DEF Next, ClientNext, Quiet

LEMMA DataHolds ==
    ASSUME KeepsTombstones
    PROVE  Spec => [](TypeOK /\ RightsOK /\ LedgerInv /\ DataInv)
<1>1. Init => RightsOK /\ LedgerInv /\ DataInv
  BY RightsInit, LedgerInit, DataInit
<1>2. TypeOK /\ RightsOK /\ LedgerInv /\ DataInv /\ [Next]_vars
        => RightsOK' /\ LedgerInv' /\ DataInv'
  BY RightsNext, LedgerNext, DataNext
<1> QED BY <1>1, <1>2, TypeCorrect, PTL DEF Spec

LEMMA CoversHeld ==
    ASSUME TypeOK, DataInv
    PROVE  CoversCursor
<1> SUFFICES ASSUME SameEpoch, NEW k \in Keys
             PROVE  records[k].rev >= LastWrite(runtime.cursor, k)
  BY DEF CoversCursor, NotBehind
<1>1. PICK n \in Nat : n = runtime.cursor
  BY DataValues
<1>2. PICK p : p = LastWrite(n, k)
  OBVIOUS
<1>3. p \in Nat /\ p <= n /\ Written(p, k)
  BY <1>2, LastWriteIs
<1>4. Covers(records[k].rev, n, k)
  BY <1>1 DEF SameEpoch, DataInv, ReplicaOK
<1>5. p <= records[k].rev
  BY <1>3, <1>4, DataValues DEF Written, Covers
<1> QED BY <1>1, <1>2, <1>3, <1>5, DataValues

\* Snapshots, change groups and receipts together leave no gap: the replica
\* holds everything the server had committed up to its cursor, if the host's
\* snapshots list deleted records (client.ts, activateSnapshot, applyChanges
\* and applyReceipt).
THEOREM CursorCovered ==
    ASSUME KeepsTombstones
    PROVE  Spec => []CoversCursor
<1>1. TypeOK /\ DataInv => CoversCursor
  BY CoversHeld
<1> QED BY <1>1, DataHolds, PTL

\* Higher revisions and tombstones win, if the host's snapshots list deleted
\* records: a record the server had deleted by the cursor does not come back
\* by an answer that is older than the deletion (client.ts, applyReceipt).
THEOREM TombstonesHold ==
    ASSUME KeepsTombstones
    PROVE  Spec => []TombstonesWin
<1>1. TypeOK /\ DataInv => TombstonesWin
  BY CoversHeld DEF CoversCursor, NotBehind, TombstonesWin
<1> QED BY <1>1, DataHolds, PTL

\* No download takes back what an acknowledged operation wrote, if the
\* host's snapshots list deleted records (client.ts, applyReceipt and
\* activateSnapshot).
THEOREM AcknowledgedRemains ==
    ASSUME KeepsTombstones
    PROVE  Spec => []AcknowledgedStays
<1>1. TypeOK /\ DataInv => AcknowledgedStays
  <2> SUFFICES ASSUME TypeOK, DataInv, SameEpoch, NEW o \in Ops,
                      outbox[o].state = "acknowledged",
                      outbox[o].epoch = epoch
               PROVE  records[Target[o]].rev >= Find(o)
    BY DEF AcknowledgedStays
  <2>1. /\ Find(o) \in Nat
        /\ Find(o) # 0 => Find(o) \in DOMAIN journal /\ journal[Find(o)].op = o
    BY FindType, DataValues, Values
  <2>2. Target[o] \in Keys /\ records[Target[o]].rev \in Nat
    BY DataValues, TargetAssumption
  <2>3. Find(o) # 0 => Find(o) <= records[Target[o]].rev
    BY <2>1 DEF SameEpoch, DataInv, AcknowledgedHeld
  <2> QED BY <2>1, <2>2, <2>3
<1> QED BY <1>1, DataHolds, PTL

\* Within an epoch no step takes the cursor or a record back, if the host's
\* snapshots list deleted records (client.ts, activateSnapshot, applyChanges
\* and applyReceipt).
THEOREM NothingRegresses ==
    ASSUME KeepsTombstones
    PROVE  Spec => NoRegression
<1>1. TypeOK /\ TypeOK' /\ RightsOK /\ LedgerInv /\ DataInv /\ [Next]_vars =>
        [ runtime.fence # NoFence /\ runtime'.ctx.epoch = runtime.ctx.epoch =>
            /\ runtime'.cursor >= runtime.cursor
            /\ \A k \in Keys :
                 \/ records'[k].rev >= records[k].rev
                 \/ records'[k] = Absent /\ GoneAt(runtime'.cursor, k) ]_vars
  <2> SUFFICES ASSUME TypeOK, TypeOK', RightsOK, LedgerInv, DataInv,
                      [Next]_vars, runtime.fence # NoFence,
                      runtime'.ctx.epoch = runtime.ctx.epoch
               PROVE  /\ runtime'.cursor >= runtime.cursor
                      /\ \A k \in Keys : records'[k].rev >= records[k].rev
    OBVIOUS
  <2>1. /\ runtime.cursor <= runtime'.cursor
        /\ \A k \in Keys : records[k].rev <= records'[k].rev
    BY DataNext DEF Forward
  <2>2. /\ runtime.cursor \in Nat /\ runtime'.cursor \in Nat
        /\ \A k \in Keys : records[k].rev \in Nat /\ records'[k].rev \in Nat
    BY DEF TypeOK, Record
  <2> QED BY <2>1, <2>2
<1> QED BY <1>1, DataHolds, TypeCorrect, PTL DEF Spec, NoRegression

=============================================================================
