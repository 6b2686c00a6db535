----------------------------- MODULE OfflineReads -----------------------------
(***************************************************************************)
(* Offline copies of one installation of najm-offline: the selection       *)
(* pointer in localStorage, one database per account (access row, one copy *)
(* per year scope), and the tabs that renew, edit, lock, switch accounts   *)
(* and read.  Every fence of the code is a fresh UUID that is only ever    *)
(* compared with the current one, so a fence somebody captured is a flag:  *)
(* whether it still is the current one.                                    *)
(***************************************************************************)
EXTENDS Naturals, FiniteSets

CONSTANTS Tabs, Accounts, Years, Generations,
          None,                  \* nobody is selected or signed in
          Refused,               \* the server grants nothing to this account
          Readers,               \* bound: the tabs that read from copies
          MaxEdits, MaxLocks, MaxSwitches, MaxRights, MaxOffers, MaxExpiries,
          MaxCrashes             \* bounds

ASSUME SentinelsAreNew == None \notin Accounts /\ Refused \notin Generations
ASSUME BoundsAreNumbers == MaxEdits \in Nat /\ MaxLocks \in Nat /\ MaxSwitches \in Nat

VARIABLES
  selected,    \* the account in the pointer; its fence is the one flags refer to
  row,         \* the access row of each account
  copy,        \* the replica's runtime and records of each account and year
  rights,      \* the authorization generation the server computes
  offered,     \* the years the server puts into a grant
  user,        \* the account signed in in each tab
  forced,      \* the renewal queue's refresh flag of each tab
  job,         \* what each worker of a tab is waiting for
  count        \* bounds

vars == <<selected, row, copy, rights, offered, user, forced, job, count>>
server == <<rights, offered>>

\* A tab renews, reads, edits, locks and switches accounts at the same time: the
\* renewal queue runs one renewal, nothing waits for an edit, a lock or a switch,
\* and the read is any of those under way.
Workers ==
  Tabs \X (({"renewal", "read"} \X {0}) \union ({"edit"} \X (1..MaxEdits))
           \union ({"lock"} \X (1..MaxLocks)) \union ({"switch"} \X (1..MaxSwitches)))
Renewal(t) == <<t, <<"renewal", 0>>>>
Reader(t) == <<t, <<"read", 0>>>>
\* Who does the edit, lock or switch that the step at hand counts.
Doer(t, what, counted) == <<t, <<what, count[counted] + 1>>>>
TabOf(p) == p[1]

NoGrant == [gen |-> Refused, years |-> {}]
Grants == [gen : Generations, years : SUBSET Years]
NoRow == [status |-> "none", bound |-> FALSE, grant |-> NoGrant, after |-> FALSE]
NoCopy == [ready |-> FALSE, gen |-> Refused,
           fresh |-> FALSE,      \* history: no edit began since the snapshot
           saved |-> FALSE,      \* history: no write was committed since the snapshot
           dropped |-> FALSE]    \* history: since its download a grant left the year out
\* An edit can vouch for the copies the account's grant names: the others it
\* does not lock.
Vouched(c) == c.fresh \/ c.dropped
Idle == [at |-> "idle", of |-> None, year |-> None, grant |-> NoGrant,
         current |-> FALSE,      \* the captured pointer and epoch still are the current ones
         token |-> FALSE,        \* the access token still matches the row
         ticket |-> FALSE,       \* reservation and runtime fence still are this download's
         after |-> FALSE,        \* history: no lock began since the request
         fresh |-> FALSE,        \* history: of the snapshot, or Vouched of the copy read
         saved |-> FALSE]        \* history: no write was committed since the snapshot

Init ==
  /\ selected = None
  /\ row = [u \in Accounts |-> NoRow]
  /\ copy = [u \in Accounts |-> [y \in Years |-> NoCopy]]
  /\ rights \in [Accounts -> Generations] /\ offered = Years
  /\ user = [t \in Tabs |-> None]
  /\ forced = [t \in Tabs |-> FALSE]
  /\ job = [p \in Workers |-> Idle]
  /\ count = [edits |-> 0, locks |-> 0, switches |-> 0, rights |-> 0,
              offers |-> 0, expiries |-> 0, crashes |-> 0]

Tick(what, max) == count[what] < max /\ count' = [count EXCEPT ![what] = @ + 1]

-----------------------------------------------------------------------------
\* Fences

\* Mutant: the pointer moves and keeps its fence.
KeepBinding(rows) == rows
\* A new pointer fence: no row is bound to it, and nothing captured is current.
Unbind(rows) == [u \in Accounts |-> [rows[u] EXCEPT !.bound = FALSE]]
Stale(jobs) == [p \in Workers |-> [jobs[p] EXCEPT !.current = FALSE]]
\* A new fence of the access row of u: tokens no longer match.
Outdate(jobs, u) ==
  [p \in Workers |-> IF jobs[p].of = u THEN [jobs[p] EXCEPT !.token = FALSE] ELSE jobs[p]]
\* A new fence of the copies of u in the years Y, or a new reservation.
Overtake(jobs, u, Y) ==
  [p \in Workers |-> IF jobs[p].of = u /\ jobs[p].year \in Y
                     THEN [jobs[p] EXCEPT !.ticket = FALSE] ELSE jobs[p]]
LockCopies(copies, u, Y) ==
  [copies EXCEPT ![u] = [y \in Years |-> IF y \in Y THEN [@[y] EXCEPT !.ready = FALSE] ELSE @[y]]]

\* A lock of the account u began: grants asked for before it do not count.
Before(u) == [row EXCEPT ![u].after = FALSE]
Checked == {"checked", "served"}
NotAfter(jobs, u) ==
  [p \in Workers |-> IF jobs[p].of = u /\ jobs[p].at \notin Checked THEN [jobs[p] EXCEPT !.after = FALSE] ELSE jobs[p]]

\* permitsReplica and the binding to the selection, read inside every transaction.
CanAccess(u, gen, y) ==
  row[u].status = "available" /\ row[u].bound /\ row[u].grant.gen = gen /\ y \in row[u].grant.years
Usable(u, y) == copy[u][y].ready /\ CanAccess(u, copy[u][y].gen, y)

Locked(r) == [r EXCEPT !.status = "locked"]

-----------------------------------------------------------------------------
\* Renewals

\* The selection, the token and the pointer are captured, then a grant is asked for.
RenewStart(t) ==
  /\ job[Renewal(t)].at = "idle"
  /\ user[t] # None /\ selected = user[t]
  /\ job' = [job EXCEPT ![Renewal(t)] =
       [Idle EXCEPT !.at = "asking", !.of = selected, !.current = TRUE, !.token = TRUE, !.after = TRUE]]
  /\ UNCHANGED <<selected, row, copy, server, user, forced, count>>

ServerGrant(p) ==
  /\ job[p].at = "asking"
  /\ job' = [job EXCEPT ![p] =
       IF rights[job[p].of] = Refused THEN [@ EXCEPT !.at = "refused"]
       ELSE [@ EXCEPT !.at = "granted", !.grant = [gen |-> rights[job[p].of], years |-> offered]]]
  /\ UNCHANGED <<selected, row, copy, server, user, forced, count>>

\* Mutant: nothing is retired.
NothingUnbound(u) == FALSE
\* retireUnboundScopes: before a new binding the copies of the old grant are locked.
Unbound(u) == row[u].grant # NoGrant /\ ~row[u].bound
Retire(p) ==
  LET u == job[p].of
      Y == row[u].grant.years
      next == [job EXCEPT ![p].at = "enrolling"]
  IN /\ job[p].at = "granted" /\ job[p].current
     /\ IF Unbound(u)
        THEN /\ copy' = LockCopies(copy, u, Y) /\ job' = Overtake(next, u, Y)
             /\ forced' = [forced EXCEPT ![TabOf(p)] = TRUE]
        ELSE job' = next /\ UNCHANGED <<copy, forced>>
     /\ UNCHANGED <<selected, row, server, user, count>>

\* Mutant: a view binds whatever fence is current.
BindsAnyFence(p) == TRUE
\* access.enroll: the token must match, and only the selection's view may bind.
Binds(p) == job[p].current
\* History: the copies of u a grant of the years Y leaves behind.
LeaveOut(u, Y) ==
  [copy EXCEPT ![u] = [y \in Years |-> IF y \in Y THEN @[y] ELSE [@[y] EXCEPT !.dropped = TRUE]]]
Enroll(p) ==
  LET u == job[p].of IN
  /\ job[p].at = "enrolling" /\ job[p].token
  /\ IF Binds(p)
     THEN /\ row' = [row EXCEPT ![u] = [status |-> "available", bound |-> TRUE,
                                        grant |-> job[p].grant, after |-> job[p].after]]
          /\ job' = [Outdate(job, u) EXCEPT ![p].at = "enrolled"]
          /\ copy' = LeaveOut(u, job[p].grant.years)
          /\ UNCHANGED forced
     ELSE /\ forced' = [forced EXCEPT ![TabOf(p)] = TRUE]
          /\ job' = [job EXCEPT ![p] = Idle] /\ UNCHANGED <<row, copy>>
  /\ UNCHANGED <<selected, server, user, count>>

\* Mutant: only the refresh flag asks for a download.
NeededIfForced(p, y) == forced[TabOf(p)]
\* The document's year is downloaded when it is forced, missing or old.
Needed(p, y) == forced[TabOf(p)] \/ ~Usable(job[p].of, y) \/ copy[job[p].of][y].gen # job[p].grant.gen
Choose(p, y) ==
  /\ job[p].at = "enrolled" /\ job[p].current
  /\ forced' = [forced EXCEPT ![TabOf(p)] = FALSE]
  /\ \/ /\ y \in job[p].grant.years
        /\ job' = [job EXCEPT ![p].at = "reserving", ![p].year = y]
     \/ /\ y \notin job[p].grant.years \/ ~Needed(p, y)
        /\ job' = [job EXCEPT ![p] = Idle]
  /\ UNCHANGED <<selected, row, copy, server, user, count>>

\* beginSnapshot: a reservation overtakes every older one.
Reserve(p) ==
  LET u == job[p].of  y == job[p].year IN
  /\ job[p].at = "reserving" /\ CanAccess(u, job[p].grant.gen, y)
  /\ job' = [Overtake(job, u, {y}) EXCEPT ![p].at = "downloading", ![p].ticket = TRUE]
  /\ UNCHANGED <<selected, row, copy, server, user, forced, count>>
ReserveFails(p) ==
  /\ job[p].at = "reserving" /\ ~CanAccess(job[p].of, job[p].grant.gen, job[p].year)
  /\ forced' = [forced EXCEPT ![TabOf(p)] = @ \/ selected # None]
  /\ job' = [job EXCEPT ![p] = Idle]
  /\ UNCHANGED <<selected, row, copy, server, user, count>>

\* createSnapshot reads one database state, for the generation of the grant only.
ServerSnapshot(p) ==
  /\ job[p].at = "downloading"
  /\ job' = [job EXCEPT ![p] =
       IF rights[job[p].of] = job[p].grant.gen
       THEN [@ EXCEPT !.at = "downloaded", !.fresh = TRUE, !.saved = TRUE]
       ELSE [@ EXCEPT !.at = "refused"]]
  /\ UNCHANGED <<selected, row, copy, server, user, forced, count>>

\* activateSnapshot replaces the copy in one transaction.
Activate(p) ==
  LET u == job[p].of  y == job[p].year  gen == job[p].grant.gen IN
  /\ job[p].at = "downloaded" /\ job[p].current
  /\ IF CanAccess(u, gen, y) /\ job[p].ticket
     THEN /\ copy' = [copy EXCEPT ![u][y] =
               [ready |-> TRUE, gen |-> gen, fresh |-> job[p].fresh, saved |-> job[p].saved,
                dropped |-> FALSE]]
          /\ job' = [Overtake(job, u, {y}) EXCEPT ![p] = Idle]
          /\ UNCHANGED forced
     ELSE /\ forced' = [forced EXCEPT ![TabOf(p)] = TRUE]
          /\ job' = [job EXCEPT ![p] = Idle] /\ UNCHANGED copy
  /\ UNCHANGED <<selected, row, server, user, count>>

\* The checks after each await that end a renewal without an error.
GiveUp(p) ==
  /\ \/ job[p].at \in {"granted", "enrolled", "downloaded"} /\ ~job[p].current
     \/ job[p].at = "enrolling" /\ ~job[p].token
  /\ job' = [job EXCEPT ![p] = Idle]
  /\ UNCHANGED <<selected, row, copy, server, user, forced, count>>

\* No answer: the next renewal downloads.
RenewFails(p) ==
  /\ job[p].at \in {"asking", "downloading"}
  /\ Tick("crashes", MaxCrashes)
  /\ forced' = [forced EXCEPT ![TabOf(p)] = TRUE]
  /\ job' = [job EXCEPT ![p] = Idle]
  /\ UNCHANGED <<selected, row, copy, server, user>>

-----------------------------------------------------------------------------
\* Locks

\* lockOffline up to its first await: a deny fence for the selected account.
Fence(p, jobs) ==
  /\ row' = Unbind(IF selected = None THEN row ELSE Before(selected))
  /\ job' = [Stale(NotAfter(jobs, selected)) EXCEPT ![p] = [Idle EXCEPT !.at = "capturing"]]

\* A refused request locks what is there; the next renewal downloads.
RenewRefused(p) ==
  /\ job[p].at = "refused"
  /\ forced' = [forced EXCEPT ![TabOf(p)] = TRUE]
  /\ IF job[p].current /\ row[job[p].of].grant # NoGrant
     THEN Fence(p, job)
     ELSE job' = [job EXCEPT ![p] = Idle] /\ UNCHANGED row
  /\ UNCHANGED <<selected, copy, server, user, count>>

\* The session is refused in a tab, or a local request is answered 401 or 403.
LockOffline(t) ==
  /\ Tick("locks", MaxLocks)
  /\ Fence(Doer(t, "lock", "locks"), job)
  /\ UNCHANGED <<selected, copy, server, user, forced>>

\* access.capture of the database selected now.
CaptureLock(p) ==
  /\ job[p].at = "capturing"
  /\ job' = [job EXCEPT ![p] = IF selected = None THEN Idle
                               ELSE [@ EXCEPT !.at = "locking", !.of = selected, !.token = TRUE]]
  /\ UNCHANGED <<selected, row, copy, server, user, forced, count>>

\* access.lock: a row enrolled since the capture is left alone.
LockRow(p) ==
  LET u == job[p].of IN
  /\ job[p].at = "locking"
  /\ IF job[p].token
     THEN /\ row' = [row EXCEPT ![u] = Locked(@)]
          /\ job' = [Outdate(job, u) EXCEPT ![p] = Idle]
     ELSE job' = [job EXCEPT ![p] = Idle] /\ UNCHANGED row
  /\ UNCHANGED <<selected, copy, server, user, forced, count>>

\* Time passes the grant's end; whoever looks next writes the lock.
Expire(u) ==
  /\ row[u].status = "available"
  /\ Tick("expiries", MaxExpiries)
  /\ row' = [row EXCEPT ![u] = Locked(@)]
  /\ job' = Outdate(job, u)
  /\ UNCHANGED <<selected, copy, server, user, forced>>

-----------------------------------------------------------------------------
\* Accounts: the client signs in, changes or logs out, and selectAccount moves the
\* pointer before it locks the previous account, which nothing waits for.

\* epoch++ in the tab.
LoseContext(jobs, t) ==
  [p \in Workers |-> IF TabOf(p) = t THEN [jobs[p] EXCEPT !.current = FALSE] ELSE jobs[p]]
SelectAccount(t, u) ==
  /\ user[t] # u
  /\ Tick("switches", MaxSwitches)
  /\ user' = [user EXCEPT ![t] = u]
  /\ selected' = u
  /\ IF selected = u THEN UNCHANGED row
     ELSE row' = Unbind(IF selected = None THEN row ELSE Before(selected))
  /\ job' = IF selected = u THEN LoseContext(job, t)
            ELSE IF selected = None THEN Stale(job)
            ELSE [Stale(NotAfter(job, selected)) EXCEPT ![Doer(t, "switch", "switches")] =
                    [Idle EXCEPT !.at = "leaving", !.of = selected]]
  /\ UNCHANGED <<copy, server, forced>>

Leave(p) ==
  /\ job[p].at = "leaving"
  /\ job' = [job EXCEPT ![p].at = "locking", ![p].token = TRUE]
  /\ UNCHANGED <<selected, row, copy, server, user, forced, count>>

-----------------------------------------------------------------------------
\* Edits

\* invalidateReads up to its first await.
Outrun(jobs) ==
  [p \in Workers |-> IF jobs[p].at \notin Checked THEN [jobs[p] EXCEPT !.fresh = FALSE] ELSE jobs[p]]
EditBegin(t) ==
  /\ user[t] # None
  /\ Tick("edits", MaxEdits)
  /\ copy' = [u \in Accounts |-> [y \in Years |-> [copy[u][y] EXCEPT !.fresh = FALSE]]]
  /\ row' = Unbind(row)
  /\ job' = [Stale(Outrun(job)) EXCEPT ![Doer(t, "edit", "edits")] = [Idle EXCEPT !.at = "fencing"]]
  /\ UNCHANGED <<selected, server, user, forced>>

\* The copies the row's grant names are locked; then the write is sent.
EditLocks(p) ==
  LET u == selected
      Y == IF u = None THEN {} ELSE row[u].grant.years
      next == [job EXCEPT ![p].at = "sending"]
  IN /\ job[p].at = "fencing"
     /\ copy' = IF u = None THEN copy ELSE LockCopies(copy, u, Y)
     /\ job' = IF u = None THEN next ELSE Overtake(next, u, Y)
     /\ UNCHANGED <<selected, row, server, user, forced, count>>

ServerWrites(p) ==
  /\ job[p].at = "sending"
  /\ copy' = [u \in Accounts |-> [y \in Years |-> [copy[u][y] EXCEPT !.saved = FALSE]]]
  /\ job' = [[q \in Workers |-> [job[q] EXCEPT !.saved = FALSE]] EXCEPT ![p].at = "answering"]
  /\ UNCHANGED <<selected, row, server, user, forced, count>>

\* mutationComplete schedules a replacement.
EditAnswered(p) ==
  /\ job[p].at = "answering"
  /\ forced' = [forced EXCEPT ![TabOf(p)] = TRUE]
  /\ job' = [job EXCEPT ![p] = Idle]
  /\ UNCHANGED <<selected, row, copy, server, user, count>>

\* The write fails, or its answer is lost.
EditLost(p) ==
  /\ job[p].at \in {"sending", "answering"}
  /\ job' = [job EXCEPT ![p] = Idle]
  /\ UNCHANGED <<selected, row, copy, server, user, forced, count>>

-----------------------------------------------------------------------------
\* Reads from a copy during an outage

ReadStart(t) ==
  /\ t \in Readers /\ job[Reader(t)].at = "idle"
  /\ user[t] # None /\ selected = user[t]
  /\ job' = [job EXCEPT ![Reader(t)] = [Idle EXCEPT !.at = "reading", !.of = selected, !.current = TRUE]]
  /\ UNCHANGED <<selected, row, copy, server, user, forced, count>>

\* The row is read and authorizes the request.
Authorize(p, y) ==
  LET u == job[p].of IN
  /\ job[p].at = "reading"
  /\ job' = [job EXCEPT ![p] =
       IF row[u].status = "available" /\ y \in row[u].grant.years
       THEN [@ EXCEPT !.at = "authorized", !.token = TRUE, !.year = y, !.grant = row[u].grant,
                      !.after = row[u].after]
       ELSE Idle]
  /\ UNCHANGED <<selected, row, copy, server, user, forced, count>>

\* replica.capture and replica.read.
ReadCopy(p) ==
  LET u == job[p].of  c == copy[u][job[p].year] IN
  /\ job[p].at = "authorized"
  /\ job' = [job EXCEPT ![p] =
       IF c.ready /\ c.gen = job[p].grant.gen /\ CanAccess(u, c.gen, job[p].year)
       THEN [@ EXCEPT !.at = "copied", !.fresh = Vouched(c)]
       ELSE Idle]
  /\ UNCHANGED <<selected, row, copy, server, user, forced, count>>

\* Mutant: the pointer is not compared again.
CurrentOnce(p) == TRUE
\* The context is checked again; then, across an await, the token.
StillCurrent(p) == job[p].current
Recheck(p) ==
  /\ job[p].at = "copied"
  /\ job' = [job EXCEPT ![p] = IF StillCurrent(p) /\ user[TabOf(p)] = job[p].of
                               THEN [@ EXCEPT !.at = "checked"] ELSE Idle]
  /\ UNCHANGED <<selected, row, copy, server, user, forced, count>>
Serve(p) ==
  /\ job[p].at = "checked"
  /\ job' = [job EXCEPT ![p] = IF job[p].token THEN [@ EXCEPT !.at = "served"] ELSE Idle]
  /\ UNCHANGED <<selected, row, copy, server, user, forced, count>>
ReadEnds(p) ==
  /\ job[p].at = "served"
  /\ job' = [job EXCEPT ![p] = Idle]
  /\ UNCHANGED <<selected, row, copy, server, user, forced, count>>
-----------------------------------------------------------------------------
\* Environment

ChangeRights(u) ==
  /\ Tick("rights", MaxRights)
  /\ \E g \in (Generations \union {Refused}) \ {rights[u]} : rights' = [rights EXCEPT ![u] = g]
  /\ UNCHANGED <<selected, row, copy, offered, user, forced, job>>
ChangeOffer ==
  /\ Tick("offers", MaxOffers)
  /\ \E Y \in (SUBSET Years) \ {offered} : offered' = Y
  /\ UNCHANGED <<selected, row, copy, rights, user, forced, job>>

\* A tab closes or reloads: localStorage and IndexedDB stay.
Crash(t) ==
  /\ user[t] # None \/ \E p \in Workers : TabOf(p) = t /\ job[p].at # "idle"
  /\ Tick("crashes", MaxCrashes)
  /\ user' = [user EXCEPT ![t] = None]
  /\ forced' = [forced EXCEPT ![t] = FALSE]
  /\ job' = [p \in Workers |-> IF TabOf(p) = t THEN Idle ELSE job[p]]
  /\ UNCHANGED <<selected, row, copy, server>>

RenewStep(p) ==
  \/ ServerGrant(p) \/ Retire(p) \/ Enroll(p) \/ (\E y \in Years : Choose(p, y))
  \/ Reserve(p) \/ ReserveFails(p) \/ ServerSnapshot(p) \/ Activate(p) \/ GiveUp(p)
  \/ RenewRefused(p)
LockStep(p) == CaptureLock(p) \/ LockRow(p) \/ Leave(p)
EditStep(p) == EditLocks(p) \/ ServerWrites(p) \/ EditAnswered(p) \/ EditLost(p)
ReadStep(p) ==
  (\E y \in Years : Authorize(p, y)) \/ ReadCopy(p) \/ Recheck(p) \/ Serve(p) \/ ReadEnds(p)
Step(p) == RenewStep(p) \/ LockStep(p) \/ EditStep(p) \/ ReadStep(p)

Next ==
  \/ \E t \in Tabs : RenewStart(t) \/ LockOffline(t) \/ EditBegin(t) \/ ReadStart(t) \/ Crash(t)
                      \/ \E u \in Accounts \union {None} : SelectAccount(t, u)
  \/ \E p \in Workers : Step(p) \/ RenewFails(p)
  \/ \E u \in Accounts : Expire(u) \/ ChangeRights(u)
  \/ ChangeOffer

Spec == Init /\ [][Next]_vars

\* Timers keep starting renewals in an open tab; storage and the server answer.
FairSpec ==
  /\ Spec
  /\ \A t \in Tabs : WF_vars(RenewStart(t))
  /\ \A p \in Workers : WF_vars(RenewStep(p)) /\ WF_vars(LockStep(p)) /\ WF_vars(EditStep(p))

-----------------------------------------------------------------------------
Stages == {"idle", "asking", "granted", "refused", "enrolling", "enrolled", "reserving",
           "downloading", "downloaded", "capturing", "locking", "leaving", "fencing", "sending",
           "answering", "reading", "authorized", "copied"} \union Checked

\* Types; and the row bound to the selection is the selected account's, however
\* switches, renewals and edits of several tabs interleave.
TypeOK ==
  /\ selected \in Accounts \union {None}
  /\ row \in [Accounts -> [status : {"none", "available", "locked"}, bound : BOOLEAN,
                           grant : Grants \union {NoGrant}, after : BOOLEAN]]
  /\ copy \in [Accounts -> [Years -> [ready : BOOLEAN, gen : Generations \union {Refused},
                                      fresh : BOOLEAN, saved : BOOLEAN, dropped : BOOLEAN]]]
  /\ \A u \in Accounts : row[u].bound => selected = u
  /\ rights \in [Accounts -> Generations \union {Refused}] /\ offered \subseteq Years
  /\ user \in [Tabs -> Accounts \union {None}] /\ forced \in [Tabs -> BOOLEAN]
  /\ job \in [Workers -> [at : Stages, of : Accounts \union {None}, year : Years \union {None},
                          grant : Grants \union {NoGrant}, current : BOOLEAN, token : BOOLEAN,
                          ticket : BOOLEAN, after : BOOLEAN, fresh : BOOLEAN, saved : BOOLEAN]]

\* A copy that could be read was downloaded after the last edit began, also when
\* the tab that began the edit died before it locked anything, unless the server
\* has since granted the account other years and left the copy's out: an edit
\* locks the years of the grant only (invalidateReads, retireUnboundScopes).
NoCopyFromBeforeEdit ==
  \A u \in Accounts, y \in Years : Usable(u, y) => Vouched(copy[u][y])

\* runtime.ts:157-160 without that exception, which a changing offer contradicts.
NoCopyFromBeforeAnyEdit ==
  \A u \in Accounts, y \in Years : Usable(u, y) => copy[u][y].fresh

\* Access that could be used comes from a grant asked for after the last lock or
\* account switch began (lockOffline, selectAccount): none in flight restores it.
LockHolds ==
  \A u \in Accounts : row[u].status = "available" /\ row[u].bound => row[u].after

\* A read answered from a copy shows, as of its last check of the context (local,
\* isCurrent), a copy no edit had outrun, but for those NoCopyFromBeforeEdit
\* excepts, and access no lock and no switch of account in any tab had outrun.
\* What begins during the await behind that check
\* (access.isCurrent) it may miss: the tab's own account may have changed by then.
ServedReadsAreCurrent ==
  \A t \in Tabs : job[Reader(t)].at = "served" => job[Reader(t)].fresh /\ job[Reader(t)].after

\* A write under way, or answered and waiting for its replacement.
Editing ==
  \/ \E p \in Workers : job[p].at \in {"fencing", "sending", "answering"}
  \/ \E t \in Tabs : forced[t]
\* runtime.ts:157-160: a write, even one whose response is lost, leaves copies unusable
\* until a replacement downloads, so copies readable afterwards contain it.
SavedDataIsInCopies ==
  ~Editing => \A u \in Accounts, y \in Years : Usable(u, y) => copy[u][y].saved

\* With one tab open, a signed-in account that keeps its rights can always read
\* a copy again: no edit, lock, expiry or crash disables copies for good.
CopiesReturn ==
  \A t \in Tabs, u \in Accounts, y \in Years :
    <>[](user[t] = u /\ selected = u /\ rights[u] # Refused /\ y \in offered) => []<>Usable(u, y)
=============================================================================
