----------------------------- MODULE SyncServer -----------------------------
(***************************************************************************)
(* The server half of najm-database synchronization: operations that       *)
(* arrive over a network that loses and delays messages are decided once,  *)
(* in one serialized transaction each (src/packages/najm-database/src/sync,*)
(* server.ts, pg.ts and captureSql.ts).                                    *)
(*                                                                         *)
(* One installation, one account, one scope, one device.  The position     *)
(* that acquireSyncOrder hands out serves as the revision of the record    *)
(* written there: both grow in the same order for every record.            *)
(***************************************************************************)
EXTENDS Naturals, Sequences

CONSTANTS
    Ops,          \* operation ids; an id is sealed with its payload
    Dep,          \* [Ops -> SUBSET Ops], the dependencies of an operation
    Keys,         \* records
    Target,       \* [Ops -> Keys], the record an operation writes
    Callers,      \* chains of awaits in the tabs and workers of one browser
    NoOp, NoKey, NoCaller,
    MaxWrites,    \* bound: writes of other devices
    MaxRights,    \* bound: changes of the account's rights
    MaxRestores   \* bound: maintenance that rotates the epoch

ASSUME DepAssumption == Dep \in [Ops -> SUBSET Ops]
ASSUME TargetAssumption == Target \in [Ops -> Keys]
ASSUME SentinelAssumption ==
    NoOp \notin Ops /\ NoKey \notin Keys /\ NoCaller \notin Callers
ASSUME ServerBoundsAssumption ==
    MaxWrites \in Nat /\ MaxRights \in Nat /\ MaxRestores \in Nat

VARIABLES
    epoch,       \* sync_installations.epoch
    generation,  \* authorization generation that authorize resolves
    journal,     \* committed positions: sync_operations and sync_changes
    requests,    \* operations on their way or being served
    reply,       \* answer under way to each caller
    verdicts,    \* history: every decision ever committed, per operation
    writes       \* writes of other devices so far

serverVars == <<epoch, generation, journal, requests, reply, verdicts, writes>>

Outcomes == {"acknowledged", "refused", "blocked"}
Entry == [op: Ops \cup {NoOp}, key: Keys \cup {NoKey}, outcome: Outcomes,
          deleted: BOOLEAN, epoch: Nat]

Request == [from: Callers \cup {NoCaller}, kind: {"lookup", "push"},
            op: Ops, epoch: Nat, stage: {"sent", "authorized"}, gen: Nat]

NoReply == [kind |-> "none", pos |-> 0, outcome |-> "refused",
            resumable |-> FALSE]
Known(pos, outcome) ==
    [NoReply EXCEPT !.kind = "known", !.pos = pos, !.outcome = outcome]
NotFound == [NoReply EXCEPT !.kind = "not_found"]
Retry == [NoReply EXCEPT !.kind = "retry"]

\* An error the client does not repeat by itself: it may resume a refusal of
\* rights (AUTHORIZATION_CHANGED, RESOURCE_FORBIDDEN) but not a changed epoch
\* or an expired identity.
Stop(resumable) ==
    [NoReply EXCEPT !.kind = "stop", !.resumable = resumable]

Reply == [kind: {"none", "known", "not_found", "retry", "stop"}, pos: Nat,
          outcome: Outcomes, resumable: BOOLEAN]

ServerTypeOK ==
    /\ epoch \in Nat
    /\ generation \in Nat
    /\ journal \in Seq(Entry)
    /\ requests \subseteq Request
    /\ reply \in [Callers -> Reply]
    /\ verdicts \in [Ops -> Seq(Outcomes)]
    /\ writes \in Nat

ServerInit ==
    /\ epoch = 1
    /\ generation = 1
    /\ journal = <<>>
    /\ requests = {}
    /\ reply = [t \in Callers |-> NoReply]
    /\ verdicts = [o \in Ops |-> <<>>]
    /\ writes = 0

-----------------------------------------------------------------------------
\* find: the position that holds the operation's durable result, or 0.
Find(o) ==
    IF \E i \in DOMAIN journal : journal[i].op = o
    THEN CHOOSE i \in DOMAIN journal : journal[i].op = o
    ELSE 0

\* The last of the first n positions that wrote record k, or 0.
LastWrite(n, k) ==
    LET W == {i \in DOMAIN journal : i <= n /\ journal[i].key = k}
    IN  IF W = {} THEN 0 ELSE CHOOSE i \in W : \A j \in W : j <= i

\* A caller that has gone, or has given up, gets no answer.
Answer(q, a) ==
    /\ requests' = requests \ {q}
    /\ reply' = IF q.from = NoCaller THEN reply
                ELSE [reply EXCEPT ![q.from] = a]

\* authorize resolves the current context of the actor, and the operation
\* has to belong to it...
Authorize(q) ==
    /\ q.stage = "sent"
    /\ IF q.epoch = epoch
       THEN /\ requests' = (requests \ {q}) \cup
                  {[q EXCEPT !.stage = "authorized", !.gen = generation]}
            /\ UNCHANGED reply
       ELSE Answer(q, Stop(FALSE))
    /\ UNCHANGED <<epoch, generation, journal, verdicts, writes>>

\* ...or the actor has no right to it.
Forbid(q) ==
    /\ q.stage = "sent"
    /\ Answer(q, Stop(TRUE))
    /\ UNCHANGED <<epoch, generation, journal, verdicts, writes>>

-----------------------------------------------------------------------------
(* The transaction.  acquireSyncOrder takes the installation's counter row *)
(* first and holds it until the commit, so transactions are serial and     *)
(* each is one step.                                                       *)

Admitted(q) == q.epoch = epoch /\ q.gen = generation

Enter(q) == q.stage = "authorized" /\ Admitted(q)

RightsChanged(q) ==
    /\ q.stage = "authorized"
    /\ ~Admitted(q)
    /\ Answer(q, Stop(q.epoch = epoch))
    /\ UNCHANGED <<epoch, generation, journal, verdicts, writes>>

\* A duplicate, or a lookup of an operation that was decided.
AnswerKnown(q) ==
    LET i == Find(q.op) IN
    /\ Enter(q)
    /\ i # 0
    /\ Answer(q, IF journal[i].epoch = q.epoch
                 THEN Known(i, journal[i].outcome) ELSE Stop(FALSE))
    /\ UNCHANGED <<epoch, generation, journal, verdicts, writes>>

AnswerUnknown(q) ==
    /\ Enter(q)
    /\ q.kind = "lookup"
    /\ Find(q.op) = 0
    /\ Answer(q, NotFound)
    /\ UNCHANGED <<epoch, generation, journal, verdicts, writes>>

\* A host that prunes old results answers a lookup with expired.
AnswerExpired(q) ==
    /\ Enter(q)
    /\ q.kind = "lookup"
    /\ Answer(q, Stop(FALSE))
    /\ UNCHANGED <<epoch, generation, journal, verdicts, writes>>

\* Mutant: the client's own order of sending is relied on.
SatisfiedBlindly(d, e) == d \in Ops /\ e \in Nat
Satisfied(d, e) ==
    LET i == Find(d) IN
    /\ i # 0
    /\ journal[i].epoch = e
    /\ journal[i].outcome = "acknowledged"

\* No durable refusal: the dependency may become known later.  The result of
\* a dependency of another epoch is an error of its own.
DependencyMissing(q) ==
    /\ Enter(q)
    /\ q.kind = "push"
    /\ Find(q.op) = 0
    /\ \E d \in Dep[q.op] :
         /\ ~Satisfied(d, q.epoch)
         /\ Answer(q, IF Find(d) # 0 /\ journal[Find(d)].epoch # q.epoch
                      THEN Stop(FALSE) ELSE Retry)
    /\ UNCHANGED <<epoch, generation, journal, verdicts, writes>>

\* The domain applies the operation or refuses it in a savepoint, and the
\* outcome commits with its effects.
Apply(q, outcome) ==
    /\ Enter(q)
    /\ q.kind = "push"
    /\ Find(q.op) = 0
    /\ \A d \in Dep[q.op] : Satisfied(d, q.epoch)
    /\ journal' = Append(journal,
         [op |-> q.op, outcome |-> outcome, epoch |-> q.epoch,
          key |-> IF outcome = "acknowledged" THEN Target[q.op] ELSE NoKey,
          deleted |-> FALSE])
    /\ verdicts' = [verdicts EXCEPT ![q.op] = Append(@, outcome)]
    /\ Answer(q, Known(Len(journal) + 1, outcome))
    /\ UNCHANGED <<epoch, generation, writes>>

Serve(q) ==
    \/ Authorize(q) \/ Forbid(q) \/ RightsChanged(q)
    \/ AnswerKnown(q) \/ AnswerUnknown(q) \/ AnswerExpired(q)
    \/ DependencyMissing(q)
    \/ \E outcome \in Outcomes : Apply(q, outcome)

-----------------------------------------------------------------------------
(* What happens around the operations.                                     *)

\* Another device writes or deletes a record; the capture triggers publish
\* it at the position of its transaction.
OtherWrite(k, deleted) ==
    LET p == LastWrite(Len(journal), k) IN
    /\ writes < MaxWrites
    /\ deleted => p # 0 /\ ~journal[p].deleted
    /\ journal' = Append(journal,
         [op |-> NoOp, outcome |-> "acknowledged", epoch |-> epoch,
          key |-> k, deleted |-> deleted])
    /\ writes' = writes + 1
    /\ UNCHANGED <<epoch, generation, requests, reply, verdicts>>

ChangeRights ==
    /\ generation <= MaxRights
    /\ generation' = generation + 1
    /\ UNCHANGED <<epoch, journal, requests, reply, verdicts, writes>>

\* Maintenance goes back to an earlier state and rotates the epoch.
Restore(n) ==
    /\ epoch <= MaxRestores
    /\ epoch' = epoch + 1
    /\ journal' = SubSeq(journal, 1, n)
    /\ UNCHANGED <<generation, requests, reply, verdicts, writes>>

ServerNext ==
    \/ \E q \in requests : Serve(q)
    \/ \E k \in Keys, deleted \in BOOLEAN : OtherWrite(k, deleted)
    \/ ChangeRights
    \/ \E n \in 0..Len(journal) : Restore(n)

-----------------------------------------------------------------------------
\* An operation is decided only after all its dependencies were
\* acknowledged, in the same epoch and at an earlier position, whatever the
\* client believes (applyOperation).
DependenciesFirst ==
    \A i \in DOMAIN journal :
        journal[i].op \in Ops =>
            \A d \in Dep[journal[i].op] :
                \E h \in 1..(i - 1) :
                    /\ journal[h].op = d
                    /\ journal[h].outcome = "acknowledged"
                    /\ journal[h].epoch = journal[i].epoch

=============================================================================
