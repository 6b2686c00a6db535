---------------------------- MODULE Transactions ----------------------------
(***************************************************************************)
(* TransactionService of najm-database (src/packages/najm-database/src):   *)
(* attempts and retries of a run, runs on a second database inside it, the *)
(* callbacks an attempt owes to its commit or its rollback, and the queue  *)
(* of promises that serializes transactions on one SQLite client.          *)
(*                                                                         *)
(* A run on a database that is already active joins its transaction and    *)
(* keeps no state but a depth; it is part of the body.                     *)
(***************************************************************************)
EXTENDS Naturals, Sequences, FiniteSets, SequencesExt

CONSTANTS
    Requests,     \* independent asynchronous callers of run
    Databases,
    Queued,       \* databases on a synchronous SQLite client, one each
    Roots,        \* databases of outermost runs
    Within,       \* <<d, e>>: the body of a run on d may run on e
    MaxAttempts,  \* options.retries + 1 of each request's runs
    MaxWork       \* bound: inner runs and callbacks of each request

ASSUME DatabasesAssumption ==
    /\ Queued \subseteq Databases /\ Roots \subseteq Databases
    /\ Within \subseteq Databases \X Databases
ASSUME BoundsAssumption ==
    /\ MaxAttempts \in [Requests -> Nat \ {0}]
    /\ MaxWork \in [Requests -> Nat]

VARIABLES
    stack,     \* active runs of each request, innermost last
    phase,     \* whether a request has not begun, runs or is over
    thrown,    \* error an inner run has thrown into the body around it
    nested,    \* inner runs each request has begun
    tail,      \* SQLITE_TRANSACTIONS: last promise in the queue, 0 when none
    resolved,  \* promises of the queue that were released
    attempts   \* history: database, caller and outcome of every attempt,
               \* and callbacks registered with it and run

vars == <<stack, phase, thrown, nested, tail, resolved, attempts>>

\* A late error is a retriable one that a commit callback raised.
Errors == {"none", "retriable", "fatal", "late"}
Stages == {"queued", "body", "flushing", "undoing", "backoff"}

\* callbacks and undo hold, for each callback in the list, the attempt that
\* registered it.
Frame == [db: Databases, number: Nat \ {0}, id: Nat \ {0},
          previous: Nat, pc: Stages, error: Errors, failure: Errors,
          callbacks: Seq(Nat), undo: Seq(Nat)]

Attempt == [db: Databases, by: Requests,
            outcome: {"waiting", "open", "committed", "undone"},
            dueCommit: Nat, dueUndo: Nat, ranCommit: Nat, ranUndo: Nat]

TypeOK ==
    /\ stack \in [Requests -> Seq(Frame)]
    /\ phase \in [Requests -> {"new", "running", "over"}]
    /\ thrown \in [Requests -> Errors]
    /\ nested \in [Requests -> Nat]
    /\ tail \in [Databases -> Nat]
    /\ resolved \subseteq DOMAIN attempts
    /\ attempts \in Seq(Attempt)
    /\ \A r \in Requests : \A i \in DOMAIN stack[r] :
           /\ stack[r][i].id \in DOMAIN attempts
           /\ attempts[stack[r][i].id].by = r
           /\ stack[r][i].number <= MaxAttempts[r]
           /\ attempts[stack[r][i].id].db = stack[r][i].db
           /\ \A j \in DOMAIN stack[r] :
                  stack[r][i].db = stack[r][j].db => i = j

Init ==
    /\ stack = [r \in Requests |-> <<>>]
    /\ phase = [r \in Requests |-> "new"]
    /\ thrown = [r \in Requests |-> "none"]
    /\ nested = [r \in Requests |-> 0]
    /\ tail = [d \in Databases |-> 0]
    /\ resolved = {}
    /\ attempts = <<>>

Depth(r) == Len(stack[r])
Top(r) == stack[r][Depth(r)]
SetTop(r, frame) == stack' = [stack EXCEPT ![r][Depth(r)] = frame]
Active(r, d) == \E i \in DOMAIN stack[r] : stack[r][i].db = d

\* Inner runs a request has begun and callbacks it has registered.
Work(r) == nested[r] + FoldSeq(
    LAMBDA a, n : IF a.by = r THEN n + a.dueCommit + a.dueUndo ELSE n, 0, attempts)

\* The body of the innermost run is executing.
InBody(r) == Depth(r) > 0 /\ Top(r).pc = "body" /\ thrown[r] = "none"

\* executeTransaction: the attempt joins the queue of its client.
NewAttempt(r, d) ==
    /\ attempts' = Append(attempts,
           [db |-> d, by |-> r, outcome |-> "waiting", dueCommit |-> 0,
            dueUndo |-> 0, ranCommit |-> 0, ranUndo |-> 0])
    /\ tail' = IF d \in Queued THEN [tail EXCEPT ![d] = Len(attempts) + 1]
                               ELSE tail

NewFrame(d, number) ==
    [db |-> d, number |-> number, id |-> Len(attempts) + 1,
     previous |-> IF d \in Queued THEN tail[d] ELSE 0,
     pc |-> "queued", error |-> "none", failure |-> "none",
     callbacks |-> <<>>, undo |-> <<>>]

\* Mutant: the queue is forgotten whoever is last in it.
ReleaseForgets(frame) ==
    /\ resolved' = resolved \cup {frame.id}
    /\ tail' = [tail EXCEPT ![frame.db] = 0]

\* The finally block of executeAsyncSqliteTransaction.
Release(frame) ==
    /\ resolved' = resolved \cup {frame.id}
    /\ tail' = IF tail[frame.db] = frame.id
               THEN [tail EXCEPT ![frame.db] = 0] ELSE tail

\* run returns or throws e: the body around it goes on or gets the error.
Return(r, e) ==
    /\ stack' = [stack EXCEPT ![r] = SubSeq(@, 1, Len(@) - 1)]
    /\ thrown' = [thrown EXCEPT ![r] = IF Depth(r) > 1 THEN e ELSE "none"]
    /\ phase' = [phase EXCEPT ![r] = IF Depth(r) > 1 THEN @ ELSE "over"]

-----------------------------------------------------------------------------

Run(r) == \E d \in Roots :
    /\ phase[r] = "new"
    /\ phase' = [phase EXCEPT ![r] = "running"]
    /\ stack' = [stack EXCEPT ![r] = <<NewFrame(d, 1)>>]
    /\ NewAttempt(r, d)
    /\ UNCHANGED <<thrown, nested, resolved>>

\* Mutant: a run on an active database opens a second transaction.
RunInsideAgain(r) == \E d \in Databases :
    /\ InBody(r)
    /\ Work(r) < MaxWork[r]
    /\ nested' = [nested EXCEPT ![r] = @ + 1]
    /\ stack' = [stack EXCEPT ![r] = Append(@, NewFrame(d, 1))]
    /\ NewAttempt(r, d)
    /\ UNCHANGED <<phase, thrown, resolved>>

\* A run on a database that is not active in this context.
RunInside(r) == \E d \in Databases :
    /\ InBody(r)
    /\ <<Top(r).db, d>> \in Within
    /\ ~Active(r, d)
    /\ Work(r) < MaxWork[r]
    /\ nested' = [nested EXCEPT ![r] = @ + 1]
    /\ stack' = [stack EXCEPT ![r] = Append(@, NewFrame(d, 1))]
    /\ NewAttempt(r, d)
    /\ UNCHANGED <<phase, thrown, resolved>>

Begin(r) ==
    /\ Depth(r) > 0 /\ Top(r).pc = "queued"
    /\ Top(r).previous \in resolved \cup {0}
    /\ SetTop(r, [Top(r) EXCEPT !.pc = "body"])
    /\ attempts' = [attempts EXCEPT ![Top(r).id].outcome = "open"]
    /\ UNCHANGED <<phase, thrown, nested, tail, resolved>>

\* afterCommit and afterRollback reach the run of their database, whichever
\* run's body they are called in.
AfterCommit(r) == \E i \in DOMAIN stack[r] :
    /\ InBody(r)
    /\ Work(r) < MaxWork[r]
    /\ stack' = [stack EXCEPT ![r][i].callbacks = Append(@, stack[r][i].id)]
    /\ attempts' = [attempts EXCEPT ![stack[r][i].id].dueCommit = @ + 1]
    /\ UNCHANGED <<phase, thrown, nested, tail, resolved>>

AfterRollback(r) == \E i \in DOMAIN stack[r] :
    /\ InBody(r)
    /\ Work(r) < MaxWork[r]
    /\ stack' = [stack EXCEPT ![r][i].undo = Append(@, stack[r][i].id)]
    /\ attempts' = [attempts EXCEPT ![stack[r][i].id].dueUndo = @ + 1]
    /\ UNCHANGED <<phase, thrown, nested, tail, resolved>>

Commit(r) ==
    /\ InBody(r)
    /\ SetTop(r, [Top(r) EXCEPT !.pc = "flushing"])
    /\ attempts' = [attempts EXCEPT ![Top(r).id].outcome = "committed"]
    /\ Release(Top(r))
    /\ UNCHANGED <<phase, thrown, nested>>

\* Mutant: a failing transaction leaves its promise pending.
RollBackUnreleased(r) == \E e \in Errors \ {"none"} :
    /\ Depth(r) > 0 /\ Top(r).pc = "body"
    /\ thrown[r] = e \/ (thrown[r] = "none" /\ e # "late")
    /\ SetTop(r, [Top(r) EXCEPT !.pc = "undoing", !.error = e])
    /\ attempts' = [attempts EXCEPT ![Top(r).id].outcome = "undone"]
    /\ thrown' = [thrown EXCEPT ![r] = "none"]
    /\ UNCHANGED <<phase, nested, tail, resolved>>

\* beforeTransaction, the body, the commit or an inner run throws: the
\* database rolls back.
RollBack(r) == \E e \in Errors \ {"none"} :
    /\ Depth(r) > 0 /\ Top(r).pc = "body"
    /\ thrown[r] = e \/ (thrown[r] = "none" /\ e # "late")
    /\ SetTop(r, [Top(r) EXCEPT !.pc = "undoing", !.error = e])
    /\ attempts' = [attempts EXCEPT ![Top(r).id].outcome = "undone"]
    /\ Release(Top(r))
    /\ thrown' = [thrown EXCEPT ![r] = "none"]
    /\ UNCHANGED <<phase, nested>>

\* The body catches what an inner run threw.
Catch(r) ==
    /\ thrown[r] # "none"
    /\ thrown' = [thrown EXCEPT ![r] = "none"]
    /\ UNCHANGED <<stack, phase, nested, tail, resolved, attempts>>

First(frame, e) == IF frame.failure = "none" THEN e ELSE frame.failure

\* Mutant: the first failing callback ends the flush.
RunCallbackStops(r) == \E e \in {"none", "fatal", "late"} :
    /\ Depth(r) > 0 /\ Top(r).pc = "flushing" /\ Top(r).callbacks # <<>>
    /\ SetTop(r, [Top(r) EXCEPT !.callbacks = IF e = "none" THEN Tail(@) ELSE <<>>,
                                !.failure = First(Top(r), e)])
    /\ attempts' = [attempts EXCEPT ![Head(Top(r).callbacks)].ranCommit = @ + 1]
    /\ UNCHANGED <<phase, thrown, nested, tail, resolved>>

\* flushCallbacks: every callback runs, the first failure is thrown at the end.
RunCallback(r) == \E e \in {"none", "fatal", "late"} :
    /\ Depth(r) > 0 /\ Top(r).pc = "flushing" /\ Top(r).callbacks # <<>>
    /\ SetTop(r, [Top(r) EXCEPT !.callbacks = Tail(@),
                                !.failure = First(Top(r), e)])
    /\ attempts' = [attempts EXCEPT ![Head(Top(r).callbacks)].ranCommit = @ + 1]
    /\ UNCHANGED <<phase, thrown, nested, tail, resolved>>

RunUndo(r) == \E e \in {"none", "retriable", "fatal"} :
    /\ Depth(r) > 0 /\ Top(r).pc = "undoing" /\ Top(r).undo # <<>>
    /\ SetTop(r, [Top(r) EXCEPT !.undo = Tail(@),
                                !.failure = First(Top(r), e)])
    /\ attempts' = [attempts EXCEPT ![Head(Top(r).undo)].ranUndo = @ + 1]
    /\ UNCHANGED <<phase, thrown, nested, tail, resolved>>

\* Mutant: the flush of a commit is inside the retry loop.
CommittedRetries(r) ==
    /\ Depth(r) > 0 /\ Top(r).pc = "flushing" /\ Top(r).callbacks = <<>>
    /\ IF Top(r).failure = "late" /\ Top(r).number < MaxAttempts[r]
       THEN SetTop(r, [Top(r) EXCEPT !.pc = "backoff"]) /\ UNCHANGED <<phase, thrown>>
       ELSE Return(r, Top(r).failure)
    /\ UNCHANGED <<nested, tail, resolved, attempts>>

\* run returns; a failed callback makes it throw although it has committed.
Committed(r) ==
    /\ Depth(r) > 0 /\ Top(r).pc = "flushing" /\ Top(r).callbacks = <<>>
    /\ Return(r, Top(r).failure)
    /\ UNCHANGED <<nested, tail, resolved, attempts>>

\* A failed rollback callback ends the loop with its own error.
MayRetry(r) ==
    /\ Top(r).failure = "none" /\ Top(r).error \in {"retriable", "late"}
    /\ Top(r).number < MaxAttempts[r]

GiveUp(r) ==
    /\ Depth(r) > 0 /\ Top(r).pc = "undoing" /\ Top(r).undo = <<>>
    /\ ~MayRetry(r)
    /\ Return(r, First(Top(r), Top(r).error))
    /\ UNCHANGED <<nested, tail, resolved, attempts>>

BackOff(r) ==
    /\ Depth(r) > 0 /\ Top(r).pc = "undoing" /\ Top(r).undo = <<>>
    /\ MayRetry(r)
    /\ SetTop(r, [Top(r) EXCEPT !.pc = "backoff"])
    /\ UNCHANGED <<phase, thrown, nested, tail, resolved, attempts>>

\* Mutant: the lists of callbacks are not emptied.
RetryKeepsCallbacks(r) ==
    /\ Depth(r) > 0 /\ Top(r).pc = "backoff"
    /\ SetTop(r, [NewFrame(Top(r).db, Top(r).number + 1)
                      EXCEPT !.callbacks = Top(r).callbacks])
    /\ NewAttempt(r, Top(r).db)
    /\ UNCHANGED <<phase, thrown, nested, resolved>>

Retry(r) ==
    /\ Depth(r) > 0 /\ Top(r).pc = "backoff"
    /\ SetTop(r, NewFrame(Top(r).db, Top(r).number + 1))
    /\ NewAttempt(r, Top(r).db)
    /\ UNCHANGED <<phase, thrown, nested, resolved>>

Advance(r) ==
    \/ Begin(r) \/ Commit(r) \/ RollBack(r) \/ Catch(r)
    \/ RunCallback(r) \/ RunUndo(r) \/ Committed(r)
    \/ GiveUp(r) \/ BackOff(r) \/ Retry(r)

Over == (\A r \in Requests : phase[r] = "over") /\ UNCHANGED vars

Next ==
    \/ \E r \in Requests :
           Run(r) \/ RunInside(r) \/ AfterCommit(r) \/ AfterRollback(r)
           \/ Advance(r)
    \/ Over

Spec == Init /\ [][Next]_vars

\* Promises that resolve are resumed, databases answer, bodies and callbacks
\* come to an end.
FairSpec == Spec /\ \A r \in Requests : WF_vars(Advance(r))

-----------------------------------------------------------------------------
(* Properties. *)

\* A commit callback runs only for the attempt that committed, a rollback
\* callback only for one that was rolled back, and none runs twice: callbacks
\* of a failed attempt never fire on the commit of its retry
\* (executeWithRetries, flushCallbacks).
CallbacksMatchOutcome ==
    \A i \in DOMAIN attempts : LET a == attempts[i] IN
        /\ a.ranCommit > 0 => a.outcome = "committed"
        /\ a.ranUndo > 0 => a.outcome = "undone"
        /\ a.ranCommit <= a.dueCommit /\ a.ranUndo <= a.dueUndo

\* When an attempt is over, every callback its outcome owes has run, failing
\* callbacks or not, and before the next attempt of that run begins.
CallbacksAllRun ==
    \A i \in DOMAIN attempts : LET a == attempts[i] IN
        (\A k \in DOMAIN stack[a.by] : stack[a.by][k].id # i) =>
            \/ a.outcome = "committed" /\ a.ranCommit = a.dueCommit
            \/ a.outcome = "undone" /\ a.ranUndo = a.dueUndo

\* On one SQLite client transactions of independent callers never overlap,
\* whatever fails and however often it is retried.
NoOverlap ==
    \A i, j \in DOMAIN attempts :
        /\ attempts[i].db = attempts[j].db /\ attempts[i].db \in Queued
        /\ attempts[i].outcome = "open" /\ attempts[j].outcome = "open"
        => i = j

\* An attempt on the database of the outermost run of its request.
Outermost(i) == \E k \in DOMAIN attempts :
    /\ attempts[k].by = attempts[i].by /\ attempts[k].db = attempts[i].db
    /\ \A l \in 1..(k - 1) : attempts[l].by # attempts[i].by

\* The outermost run of a request commits at most once: neither a failing
\* callback, of that run or of one inside it, nor a failing rollback sends a
\* committed attempt through the retry loop (run, executeWithRetries).
CommitsOnce ==
    \A i, j \in DOMAIN attempts :
        /\ Outermost(i)
        /\ attempts[i].by = attempts[j].by /\ attempts[i].db = attempts[j].db
        /\ attempts[i].outcome = "committed"
        /\ attempts[j].outcome = "committed"
        => i = j

\* "A callback failure must never enter the database retry loop": no attempt
\* is repeated because of an error that a commit callback raised.
CallbackFailureNotRetried ==
    \A r \in Requests : \A i \in DOMAIN stack[r] :
        stack[r][i].pc = "backoff" => stack[r][i].error # "late"

\* Every run ends: no failure leaves the queue of a client blocked.
RunsFinish == \A r \in Requests : (phase[r] = "running") ~> (phase[r] = "over")

=============================================================================
