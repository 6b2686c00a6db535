---------------------------- MODULE SyncReplica -----------------------------
(***************************************************************************)
(* The browser half of najm-database synchronization: a durable replica    *)
(* and outbox shared by several callers (tabs, workers), each a chain of   *)
(* awaits that works with a runtime it captured earlier                    *)
(* (src/packages/najm-database/src/sync/client.ts).  Every IndexedDB       *)
(* transaction is one step; the server is SyncServer.                      *)
(***************************************************************************)
EXTENDS SyncServer, FiniteSets

CONSTANTS
    KeepsTombstones,  \* do the host's snapshots list deleted records?
    Workload,         \* bound: what the host asks for
    MaxDownloads,     \* bound: snapshot reservations
    MaxLocks,         \* bound: times the host locks the replica
    MaxFaults         \* bound: lost answers and callers that die

ASSUME TombstoneAssumption == KeepsTombstones \in BOOLEAN
ASSUME ClientBoundsAssumption ==
    MaxDownloads \in Nat /\ MaxLocks \in Nat /\ MaxFaults \in Nat

VARIABLES
    policy,    \* the durable access row: the context it allows
    runtime,   \* the runtime row of the scope
    download,  \* the reservation row: fence of the latest ticket
    records,   \* the confirmed records
    outbox,    \* one row per operation
    cap,       \* the runtime each caller has captured
    task,      \* what each caller is doing
    approved,  \* history: rights under which a row was captured or resumed
    count      \* fences drawn, downloads, locks and faults so far

rowVars == <<outbox, approved>>
callVars == <<cap, task, count>>
clientVars == <<policy, runtime, download, records, rowVars, callVars>>
vars == <<serverVars, clientVars>>

NoFence == 0
NoContext == [epoch |-> 0, gen |-> 0]
Here == [epoch |-> epoch, gen |-> generation]

Absent == [rev |-> 0, deleted |-> FALSE]
NoRecords == [k \in Keys |-> Absent]
NoTicket == [ctx |-> NoContext, fence |-> NoFence, under |-> NoFence,
             revision |-> 0]

\* A row that was never added, and a caller with nothing to do.
NoRow == [state |-> "none", sent |-> FALSE, epoch |-> 0, gen |-> 0,
          resumable |-> FALSE]
Resting == [at |-> "idle", op |-> NoOp, due |-> {}, known |-> {},
            resumable |-> FALSE, ticket |-> NoTicket, from |-> 0, to |-> 0,
            recs |-> NoRecords]

States == {"none", "pending", "sending", "uncertain", "acknowledged",
           "refused", "blocked", "quarantined", "cancelled"}
Sendable == {"pending", "sending", "uncertain"}
Final == {"acknowledged", "cancelled", "refused"}
Syncing == {"loop", "await", "unsure", "stop"}

Context == [epoch: Nat, gen: Nat]
Record == [rev: Nat, deleted: BOOLEAN]
Ticket == [ctx: Context, fence: Nat, under: Nat, revision: Nat]
Row == [state: States, sent: BOOLEAN, epoch: Nat, gen: Nat,
        resumable: BOOLEAN]
Task == [at: Syncing \cup {"idle", "fetch", "activate", "changes"},
         op: Ops \cup {NoOp}, due: SUBSET Ops, known: SUBSET Ops,
         resumable: BOOLEAN, ticket: Ticket, from: Nat, to: Nat,
         recs: [Keys -> Record]]

\* A row is recorded as sent before anything leaves, and one caller sends.
TypeOK ==
    /\ ServerTypeOK
    /\ policy \in Context
    /\ runtime \in [ready: BOOLEAN, ctx: Context, fence: Nat, cursor: Nat,
                    revision: Nat]
    /\ download \in Nat
    /\ records \in [Keys -> Record]
    /\ outbox \in [Ops -> Row]
    /\ \A o \in Ops : outbox[o].state \in {"sending", "uncertain"} =>
                        outbox[o].sent
    /\ cap \in [Callers -> [ctx: Context, fence: Nat]]
    /\ task \in [Callers -> Task]
    /\ \A t \in Callers :
          task[t].at \in Syncing \ {"loop"} => task[t].op \in task[t].due
    /\ \A s, t \in Callers :
          task[s].at \in Syncing /\ task[t].at \in Syncing => s = t
    /\ approved \in [Ops -> Nat]
    /\ count \in [fences: Nat, downloads: Nat, locks: Nat, faults: Nat]

Init ==
    /\ ServerInit
    /\ policy = Here
    /\ runtime = [ready |-> FALSE, ctx |-> NoContext, fence |-> NoFence,
                  cursor |-> 0, revision |-> 0]
    /\ download = NoFence
    /\ records = NoRecords
    /\ outbox = [o \in Ops |-> NoRow]
    /\ cap = [t \in Callers |-> [ctx |-> NoContext, fence |-> NoFence]]
    /\ task = [t \in Callers |-> Resting]
    /\ approved = [o \in Ops |-> 0]
    /\ count = [fences |-> 0, downloads |-> 0, locks |-> 0, faults |-> 0]

-----------------------------------------------------------------------------
(* What the transactions share.                                            *)

\* current: the runtime the caller captured is still the one in place, and
\* the access row allows it.
Current(t) ==
    /\ runtime.ready
    /\ runtime.fence = cap[t].fence
    /\ runtime.ctx = cap[t].ctx
    /\ policy = runtime.ctx

At(t, step) == task[t].at = step
Rest(t) == task' = [task EXCEPT ![t] = Resting]
Move(t, step) == task' = [task EXCEPT ![t].at = step]
Draw(fields) == count' = [fields EXCEPT !.fences = @ + 1]
NewFence == count.fences + 1

\* Mutant: put, whatever revision is there.
Newest(old, new) == IF new.rev > 0 THEN new ELSE old

\* putIfNewer of fast-idb.
Newer(old, new) == IF new.rev > old.rev THEN new ELSE old

-----------------------------------------------------------------------------
(* Access, and the runtime of the scope.                                   *)

\* The host renews the durable access row online, or revokes it.
Grant ==
    /\ policy' = Here
    /\ UNCHANGED <<serverVars, runtime, download, records, rowVars, callVars>>

Revoke ==
    /\ "revoke" \in Workload
    /\ policy' = NoContext
    /\ UNCHANGED <<serverVars, runtime, download, records, rowVars, callVars>>

\* capture
Capture(t) ==
    /\ At(t, "idle")
    /\ runtime.ready
    /\ policy = runtime.ctx
    /\ cap' = [cap EXCEPT ![t] = [ctx |-> runtime.ctx,
                                  fence |-> runtime.fence]]
    /\ UNCHANGED <<serverVars, policy, runtime, download, records, rowVars,
                   task, count>>

\* lock keeps records, cursor and outbox.
Lock ==
    /\ count.locks < MaxLocks
    /\ runtime.fence # NoFence
    /\ runtime' = [runtime EXCEPT !.ready = FALSE, !.fence = NewFence]
    /\ Draw([count EXCEPT !.locks = @ + 1])
    /\ UNCHANGED <<serverVars, policy, download, records, rowVars, cap, task>>

-----------------------------------------------------------------------------
(* Snapshots.                                                              *)

\* beginSnapshot, before the request; a newer ticket replaces an older one.
BeginSnapshot(t) ==
    /\ At(t, "idle")
    /\ count.downloads < MaxDownloads
    /\ policy # NoContext
    /\ download' = NewFence
    /\ task' = [task EXCEPT ![t] =
         [Resting EXCEPT !.at = "fetch",
            !.ticket = [ctx |-> policy, fence |-> NewFence,
                        under |-> runtime.fence,
                        revision |-> runtime.revision]]]
    /\ Draw([count EXCEPT !.downloads = @ + 1])
    /\ UNCHANGED <<serverVars, policy, runtime, records, rowVars, cap>>

\* The host's snapshot: the records of the scope at the latest position.
Snapshot ==
    [k \in Keys |->
        LET p == LastWrite(Len(journal), k) IN
        IF p = 0 \/ (journal[p].deleted /\ ~KeepsTombstones)
        THEN Absent
        ELSE [rev |-> p, deleted |-> journal[p].deleted]]

\* The server authorizes the context of the ticket, and stageSnapshotPage
\* keeps the pages as long as the reservation stands.
StageSnapshot(t) ==
    LET k == task[t].ticket IN
    /\ At(t, "fetch")
    /\ IF Here = k.ctx /\ download = k.fence /\ policy = k.ctx
       THEN task' = [task EXCEPT ![t] = [@ EXCEPT !.at = "activate",
                       !.recs = Snapshot, !.to = Len(journal)]]
       ELSE Rest(t)
    /\ UNCHANGED <<serverVars, policy, runtime, download, records, rowVars,
                   cap, count>>

\* Mutant: data committed since the reservation does not matter.
UntouchedSinceFence(k) == runtime.fence = k.under
UntouchedSince(k) ==
    runtime.fence = k.under /\ runtime.revision = k.revision

\* Mutant: only rows that are not under way are quarantined.
QuarantinedQuietly(row, ctx) ==
    IF row.state = "pending" /\ (row.epoch # ctx.epoch \/ row.gen # ctx.gen)
    THEN [row EXCEPT !.state = "quarantined",
                     !.resumable = row.epoch = ctx.epoch]
    ELSE row

\* Undecided rows of another epoch or of other rights wait for a review.
Quarantined(row, ctx) ==
    IF /\ row.state \notin Final \cup {"none"}
       /\ row.epoch # ctx.epoch \/ row.gen # ctx.gen
    THEN [row EXCEPT !.state = "quarantined",
                     !.resumable = row.epoch = ctx.epoch]
    ELSE row

ActivateSnapshot(t) ==
    LET k == task[t].ticket IN
    /\ At(t, "activate")
    /\ IF policy = k.ctx /\ download = k.fence /\ UntouchedSince(k)
       THEN /\ records' = task[t].recs
            /\ outbox' = [o \in Ops |-> Quarantined(outbox[o], k.ctx)]
            /\ runtime' = [ready |-> TRUE, ctx |-> k.ctx, fence |-> NewFence,
                           cursor |-> task[t].to,
                           revision |-> k.revision + 1]
            /\ download' = NoFence
            /\ cap' = [cap EXCEPT ![t] = [ctx |-> k.ctx, fence |-> NewFence]]
            /\ Draw(count)
       ELSE UNCHANGED <<records, outbox, runtime, download, cap, count>>
    /\ Rest(t)
    /\ UNCHANGED <<serverVars, policy, approved>>

-----------------------------------------------------------------------------
(* Changes.                                                                *)

\* The host fetches the changes after the cursor it captured.
FetchChanges(t) ==
    /\ "changes" \in Workload
    /\ At(t, "idle")
    /\ Current(t)
    /\ Here = cap[t].ctx
    /\ runtime.cursor < Len(journal)
    /\ task' = [task EXCEPT ![t] =
         [Resting EXCEPT !.at = "changes", !.from = runtime.cursor,
            !.to = Len(journal),
            !.recs = [k \in Keys |->
               LET p == LastWrite(Len(journal), k) IN
               IF p > runtime.cursor
               THEN [rev |-> p, deleted |-> journal[p].deleted]
               ELSE Absent]]]
    /\ UNCHANGED <<serverVars, policy, runtime, download, records, rowVars,
                   cap, count>>

\* Mutant: any group is applied, whatever cursor it starts from.
FollowsAny(from) == from \in Nat
Follows(from) == runtime.cursor = from

ApplyChanges(t) ==
    /\ At(t, "changes")
    /\ IF Current(t) /\ Follows(task[t].from)
       THEN /\ records' = [k \in Keys |-> Newer(records[k], task[t].recs[k])]
            /\ runtime' = [runtime EXCEPT !.cursor = task[t].to,
                                          !.revision = @ + 1]
       ELSE UNCHANGED <<records, runtime>>
    /\ Rest(t)
    /\ UNCHANGED <<serverVars, policy, download, rowVars, cap, count>>

-----------------------------------------------------------------------------
(* The outbox as the host uses it.                                         *)

Enqueue(t, o) ==
    /\ "enqueue" \in Workload
    /\ Current(t)
    /\ outbox[o].state = "none"
    /\ \A d \in Dep[o] : outbox[d].state # "none"
    /\ outbox' = [outbox EXCEPT ![o] =
         [NoRow EXCEPT !.state = "pending", !.epoch = cap[t].ctx.epoch,
                       !.gen = cap[t].ctx.gen]]
    /\ approved' = [approved EXCEPT ![o] = cap[t].ctx.gen]
    /\ UNCHANGED <<serverVars, policy, runtime, download, records, callVars>>

\* Mutant: a row can be cancelled although it was sent.
CancellableSent(o) == outbox[o].state \in {"pending", "uncertain", "blocked"}
Cancellable(o) ==
    /\ ~outbox[o].sent
    /\ outbox[o].state \in {"pending", "blocked"}

Cancel(t, o) ==
    /\ "cancel" \in Workload
    /\ Current(t)
    /\ outbox[o].epoch = cap[t].ctx.epoch
    /\ Cancellable(o)
    /\ \A c \in Ops : o \in Dep[c] => outbox[c].state \in {"none", "cancelled"}
    /\ outbox' = [outbox EXCEPT ![o].state = "cancelled"]
    /\ UNCHANGED <<serverVars, policy, runtime, download, records, approved,
                   callVars>>

Resumed(o) == IF outbox[o].sent THEN "uncertain" ELSE "pending"

Resume(t, o) ==
    /\ "resume" \in Workload
    /\ Current(t)
    /\ outbox[o].state = "quarantined"
    /\ outbox[o].epoch = cap[t].ctx.epoch
    /\ outbox[o].resumable
    /\ outbox' = [outbox EXCEPT ![o].state = Resumed(o)]
    /\ approved' = [approved EXCEPT ![o] = cap[t].ctx.gen]
    /\ UNCHANGED <<serverVars, policy, runtime, download, records, callVars>>

-----------------------------------------------------------------------------
(* synchronizeReplica.  The Web Lock admits one caller; the rows it works  *)
(* on, and whether they were sent before, are read once at the start.      *)

StartSync(t, due) ==
    /\ At(t, "idle")
    /\ \A s \in Callers : task[s].at \notin Syncing
    /\ Current(t)
    /\ due # {}
    /\ \A o \in due : outbox[o].state \in Sendable
    /\ task' = [task EXCEPT ![t] =
         [Resting EXCEPT !.at = "loop", !.due = due,
            !.known = {o \in due : \/ outbox[o].sent
                                   \/ outbox[o].state # "pending"}]]
    /\ UNCHANGED <<serverVars, policy, runtime, download, records, rowVars,
                   cap, count>>

\* The answered or skipped row is done; after the last one the lock is free.
Done(t, o) ==
    LET rest == task[t].due \ {o} IN
    task' = [task EXCEPT ![t] =
        IF rest = {} THEN Resting
        ELSE [@ EXCEPT !.at = "loop", !.due = rest, !.op = NoOp]]

Ready(o) == \A d \in Dep[o] : outbox[d].state = "acknowledged"

SkipRow(t, o) ==
    /\ At(t, "loop")
    /\ o \in task[t].due
    /\ Current(t)
    /\ ~Ready(o)
    /\ Done(t, o)
    /\ UNCHANGED <<serverVars, policy, runtime, download, records, rowVars,
                   cap, count>>

Ask(t, kind, o) ==
    requests' = requests \cup
        {[from |-> t, kind |-> kind, op |-> o, epoch |-> outbox[o].epoch,
          stage |-> "sent", gen |-> 0]}

Ship(t, o) ==
    Current(t) /\ outbox[o].state \in Sendable
               /\ outbox[o].epoch = cap[t].ctx.epoch

\* Mutant: the time of the first sending is not recorded.
SendRowUndated(t, o) ==
    /\ At(t, "loop")
    /\ o \in task[t].due
    /\ Ready(o)
    /\ Ship(t, o)
    /\ outbox' = [outbox EXCEPT ![o].state = "sending"]
    /\ Ask(t, IF o \in task[t].known THEN "lookup" ELSE "push", o)
    /\ task' = [task EXCEPT ![t] = [@ EXCEPT !.at = "await", !.op = o]]
    /\ UNCHANGED <<epoch, generation, journal, reply, verdicts, writes,
                   policy, runtime, download, records, approved, cap, count>>

\* markSending, then the request: a lookup first if it was sent before.
SendRow(t, o) ==
    /\ At(t, "loop")
    /\ o \in task[t].due
    /\ Ready(o)
    /\ Ship(t, o)
    /\ outbox' = [outbox EXCEPT ![o] =
                    [@ EXCEPT !.state = "sending", !.sent = TRUE]]
    /\ Ask(t, IF o \in task[t].known THEN "lookup" ELSE "push", o)
    /\ task' = [task EXCEPT ![t] = [@ EXCEPT !.at = "await", !.op = o]]
    /\ UNCHANGED <<epoch, generation, journal, reply, verdicts, writes,
                   policy, runtime, download, records, approved, cap, count>>

\* The read or markSending throws.
AbandonSync(t, o) ==
    /\ At(t, "loop")
    /\ o \in task[t].due
    /\ ~Current(t) \/ (Ready(o) /\ ~Ship(t, o))
    /\ Rest(t)
    /\ UNCHANGED <<serverVars, policy, runtime, download, records, rowVars,
                   cap, count>>

Got(t, kind) == At(t, "await") /\ reply[t].kind = kind
Heard(t) == reply' = [reply EXCEPT ![t] = NoReply]

PushAfterLookup(t) ==
    /\ Got(t, "not_found")
    /\ Ask(t, "push", task[t].op)
    /\ Heard(t)
    /\ UNCHANGED <<epoch, generation, journal, verdicts, writes, clientVars>>

\* Mutant: the data revision of the runtime stays.
CommittedQuietly(new) == runtime' = runtime /\ records' = new
Committed(new) ==
    /\ records' = new
    /\ runtime' = [runtime EXCEPT !.revision = @ + 1]

\* applyReceipt.  A stale runtime leaves the row unsure, a revoked access
\* stops it.
ApplyReceipt(t) ==
    LET o == task[t].op
        a == reply[t]
    IN  /\ Got(t, "known")
        /\ IF Current(t) /\ outbox[o].state \in {"sending", "uncertain"}
           THEN /\ outbox' = [outbox EXCEPT ![o].state = a.outcome]
                /\ IF a.outcome = "acknowledged"
                   THEN Committed([records EXCEPT ![Target[o]] =
                          Newer(@, [rev |-> a.pos, deleted |-> FALSE])])
                   ELSE UNCHANGED <<records, runtime>>
                /\ Done(t, o)
           ELSE /\ UNCHANGED <<outbox, records, runtime>>
                /\ task' = [task EXCEPT ![t] =
                     IF runtime.ready /\ runtime.fence = cap[t].fence
                        /\ policy # runtime.ctx
                     THEN [@ EXCEPT !.at = "stop", !.resumable = TRUE]
                     ELSE [@ EXCEPT !.at = "unsure"]]
        /\ Heard(t)
        /\ UNCHANGED <<epoch, generation, journal, requests, verdicts, writes,
                       policy, download, approved, cap, count>>

\* An error answer: quarantine its codes, and repeat any other later.
HearError(t) ==
    /\ At(t, "await")
    /\ reply[t].kind \in {"stop", "retry"}
    /\ task' = [task EXCEPT ![t] =
         [@ EXCEPT !.at = IF reply[t].kind = "stop" THEN "stop" ELSE "unsure",
                   !.resumable = reply[t].resumable]]
    /\ Heard(t)
    /\ UNCHANGED <<epoch, generation, journal, requests, verdicts, writes,
                   policy, runtime, download, records, rowVars, cap, count>>

MarkUncertain(t) ==
    LET o == task[t].op IN
    /\ At(t, "unsure")
    /\ outbox' = IF Current(t) /\ outbox[o].state = "sending"
                 THEN [outbox EXCEPT ![o].state = "uncertain"] ELSE outbox
    /\ Rest(t)
    /\ UNCHANGED <<serverVars, policy, runtime, download, records, approved,
                   cap, count>>

Quarantine(t) ==
    LET o == task[t].op IN
    /\ At(t, "stop")
    /\ outbox' = IF Current(t) /\ outbox[o].state # "acknowledged"
                 THEN [outbox EXCEPT ![o] =
                        [@ EXCEPT !.state = "quarantined",
                                  !.resumable = task[t].resumable]]
                 ELSE outbox
    /\ Rest(t)
    /\ UNCHANGED <<serverVars, policy, runtime, download, records, approved,
                   cap, count>>

-----------------------------------------------------------------------------
(* Faults.                                                                 *)

\* Nobody waits for the request any more; a push may still be served.
Orphan(t) ==
    /\ requests' = {q \in requests : q.from # t} \cup
         {[q EXCEPT !.from = NoCaller] :
            q \in {p \in requests : p.from = t /\ p.kind = "push"}}
    /\ reply' = [reply EXCEPT ![t] = NoReply]

Fault ==
    /\ count.faults < MaxFaults
    /\ count' = [count EXCEPT !.faults = @ + 1]

\* The request or its answer is lost, or takes too long.
LoseAnswer(t) ==
    /\ At(t, "await")
    /\ Fault
    /\ Orphan(t)
    /\ Move(t, "unsure")
    /\ UNCHANGED <<epoch, generation, journal, verdicts, writes, policy,
                   runtime, download, records, rowVars, cap>>

\* A tab or worker closes; the browser gives its Web Lock to the next.
Crash(t) ==
    /\ ~At(t, "idle")
    /\ Fault
    /\ Orphan(t)
    /\ Rest(t)
    /\ cap' = [cap EXCEPT ![t] = [ctx |-> NoContext, fence |-> NoFence]]
    /\ UNCHANGED <<epoch, generation, journal, verdicts, writes, policy,
                   runtime, download, records, rowVars>>

Quiet ==
    /\ requests = {}
    /\ \A t \in Callers : At(t, "idle")
    /\ UNCHANGED vars

-----------------------------------------------------------------------------
Replicate(t) ==
    \/ Capture(t)
    \/ BeginSnapshot(t) \/ StageSnapshot(t) \/ ActivateSnapshot(t)
    \/ FetchChanges(t) \/ ApplyChanges(t)

Synchronize(t) ==
    \/ \E due \in SUBSET Ops : StartSync(t, due)
    \/ \E o \in Ops : SkipRow(t, o) \/ SendRow(t, o) \/ AbandonSync(t, o)
    \/ PushAfterLookup(t) \/ ApplyReceipt(t) \/ HearError(t)
    \/ MarkUncertain(t) \/ Quarantine(t)

ClientNext ==
    \/ Grant \/ Revoke \/ Lock
    \/ \E t \in Callers :
         \/ Replicate(t) \/ Synchronize(t)
         \/ \E o \in Ops : Enqueue(t, o) \/ Cancel(t, o) \/ Resume(t, o)
         \/ LoseAnswer(t) \/ Crash(t)

Next ==
    \/ ServerNext /\ UNCHANGED clientVars
    \/ ClientNext
    \/ Quiet

Spec == Init /\ [][Next]_vars

-----------------------------------------------------------------------------
(* What has to hold.                                                       *)

\* Record k is deleted at position n of the server.
GoneAt(n, k) ==
    LET p == LastWrite(n, k) IN p # 0 /\ journal[p].deleted

\* What the replica holds of a record is not behind position n.
NotBehind(n, k) ==
    \/ records[k].rev >= LastWrite(n, k)
    \/ records[k] = Absent /\ GoneAt(n, k)

SameEpoch == runtime.fence # NoFence /\ runtime.ctx.epoch = epoch

\* The replica holds everything the server had committed up to its cursor:
\* no change is skipped by snapshots, change groups and receipts together,
\* and a higher revision or tombstone wins (README, Local replica).
CoversCursor ==
    SameEpoch => \A k \in Keys : NotBehind(runtime.cursor, k)

\* A record the server had deleted by the cursor does not come back by an
\* answer that is older than the deletion (README: higher revisions and
\* tombstones win).
TombstonesWin ==
    SameEpoch =>
        \A k \in Keys :
            GoneAt(runtime.cursor, k) =>
                \/ records[k] = Absent
                \/ records[k].rev >= LastWrite(runtime.cursor, k)

\* What an operation wrote stays visible once it is acknowledged: a snapshot
\* that was requested before the receipt does not replace it afterwards
\* (README: a receipt commit during a download invalidates its activation).
AcknowledgedStays ==
    SameEpoch =>
        \A o \in Ops :
            /\ outbox[o].state = "acknowledged"
            /\ outbox[o].epoch = epoch
            =>
            \/ records[Target[o]].rev >= Find(o)
            \/ records[Target[o]] = Absent /\ GoneAt(runtime.cursor, Target[o])

\* Within an epoch neither the cursor nor a record ever goes back.
NoRegression ==
    [][ runtime.fence # NoFence /\ runtime'.ctx.epoch = runtime.ctx.epoch =>
          /\ runtime'.cursor >= runtime.cursor
          /\ \A k \in Keys :
               \/ records'[k].rev >= records[k].rev
               \/ records'[k] = Absent /\ GoneAt(runtime'.cursor, k) ]_vars

\* A row that may be sent was captured, or resumed by an explicit decision,
\* under the epoch and the rights the replica now has (README: membership
\* and epoch rebootstrap quarantines original commands).
OnlyApprovedIsSent ==
    \A o \in Ops :
        outbox[o].state \in Sendable =>
            /\ approved[o] = runtime.ctx.gen
            /\ outbox[o].epoch = runtime.ctx.epoch

\* What the client believes of each operation, in the abstract ledger.
View(o) ==
    CASE outbox[o].state \in {"acknowledged", "refused"} -> outbox[o].state
      [] outbox[o].state = "cancelled" -> "withdrawn"
      [] OTHER -> "open"

Ledger ==
    INSTANCE OperationLedger WITH
        decisions <- verdicts,
        view <- [o \in Ops |-> View(o)]
ImplementsLedger == Ledger!Spec

=============================================================================
