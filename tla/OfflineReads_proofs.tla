------------------------ MODULE OfflineReads_proofs ------------------------
(***************************************************************************)
(* Proofs about OfflineReads for any tabs, accounts, years and bounds,     *)
(* however the server changes rights and the years on offer.               *)
(***************************************************************************)
EXTENDS OfflineReads, TLAPS

RowType == [status : {"none", "available", "locked"}, bound : BOOLEAN,
            grant : Grants \union {NoGrant}, after : BOOLEAN]
CopyType == [ready : BOOLEAN, gen : Generations \union {Refused},
             fresh : BOOLEAN, saved : BOOLEAN, dropped : BOOLEAN]
JobType == [at : Stages, of : Accounts \union {None}, year : Years \union {None},
            grant : Grants \union {NoGrant}, current : BOOLEAN, token : BOOLEAN,
            ticket : BOOLEAN, after : BOOLEAN, fresh : BOOLEAN, saved : BOOLEAN]
Bounds == {"edits", "locks", "switches", "rights", "offers", "expiries", "crashes"}

Base ==
  /\ selected \in Accounts \union {None}
  /\ row \in [Accounts -> RowType]
  /\ copy \in [Accounts -> [Years -> CopyType]]
  /\ rights \in [Accounts -> Generations \union {Refused}] /\ offered \subseteq Years
  /\ user \in [Tabs -> Accounts \union {None}] /\ forced \in [Tabs -> BOOLEAN]
  /\ job \in [Workers -> JobType]
  /\ count \in [Bounds -> Nat]

\* Stages of a job that is about no account.
Unowned == {"idle", "capturing", "fencing", "sending", "answering"}

\* What a job captured holds as long as its pointer or token is current.
JobOK(p, j) ==
  /\ j \in JobType
  /\ j.current => j.of = selected /\ j.of \in Accounts
  /\ j.at \in {"asking", "granted", "enrolling"} /\ j.current => j.after
  /\ j.at \notin Unowned => j.of \in Accounts

\* The same of what it knows of the copies.
Known(p, j) ==
  /\ j.at = "enrolling" /\ j.current =>
       \A y \in Years : copy[j.of][y].ready => Vouched(copy[j.of][y])
  /\ j.at = "downloaded" /\ j.current => j.fresh
  /\ j.at \in {"authorized", "copied"} /\ j.token
       /\ row[j.of].bound /\ row[j.of].status = "available" => j.after
  /\ j.at = "copied" /\ j.token /\ j.current => j.after /\ j.fresh
  /\ j.at = "checked" /\ j.token => j.after /\ j.fresh
  /\ j.at = "served" => j.after /\ j.fresh

\* Only the selected account's row is bound, to a grant no lock has outrun.
RowOK(u) ==
  /\ row[u].bound => selected = u
  /\ row[u].status = "available" /\ row[u].bound => row[u].after

\* A copy no grant has left out is one the account's grant names, and an edit has
\* outrun it only where the row is not bound.
CopyOK(u) ==
  \A y \in Years : copy[u][y].ready /\ ~copy[u][y].dropped =>
     /\ y \in row[u].grant.years
     /\ ~copy[u][y].fresh => ~row[u].bound

Good(p, j) == JobOK(p, j) /\ Known(p, j)
Rows == \A u \in Accounts : RowOK(u) /\ CopyOK(u)

IInv == Base /\ Rows /\ \A p \in Workers : Good(p, job[p])

LEMMA Grant ==
  /\ NoGrant.years = {} /\ NoGrant.gen = Refused
  /\ \A g \in Grants \union {NoGrant} : g.years \subseteq Years
  /\ NoGrant \in Grants \union {NoGrant}
BY DEF NoGrant, Grants

LEMMA IInvSays == IInv => TypeOK /\ LockHolds
<1> SUFFICES ASSUME IInv PROVE TypeOK /\ LockHolds
  OBVIOUS
<1>1. Base /\ Rows
  BY DEF IInv
<1>3. TypeOK
  BY <1>1 DEF TypeOK, Base, Rows, RowOK, RowType, CopyType, JobType
<1>4. LockHolds
  BY <1>1 DEF LockHolds, Rows, RowOK
<1> QED BY <1>3, <1>4

LEMMA CopiesSay ==
  ASSUME IInv
  PROVE  NoCopyFromBeforeEdit /\ ServedReadsAreCurrent
<1>1. Rows /\ \A u \in Accounts : CopyOK(u)
  BY DEF IInv, Rows
<1>2. NoCopyFromBeforeEdit
  BY <1>1 DEF NoCopyFromBeforeEdit, Usable, CanAccess, CopyOK, Vouched
<1>3. \A t \in Tabs : Reader(t) \in Workers
  BY DEF Reader, Workers
<1>4. \A t \in Tabs : Known(Reader(t), job[Reader(t)])
  BY <1>3 DEF IInv, Good
<1>5. ServedReadsAreCurrent
  BY <1>3, <1>4 DEF ServedReadsAreCurrent, Known, Checked
<1> QED BY <1>2, <1>5

LEMMA IdleIsGood == \A p : Good(p, Idle)
<1>1. Idle \in JobType
  BY Grant DEF Idle, JobType, Stages
<1> QED BY <1>1 DEF Good, JobOK, Known, Idle, Checked, Unowned

LEMMA Ticks ==
  ASSUME count \in [Bounds -> Nat], NEW b \in Bounds, NEW max, Tick(b, max)
  PROVE  count' \in [Bounds -> Nat]
BY DEF Tick

\* Who does a counted edit, lock or switch is one of the workers.
LEMMA Doers ==
  ASSUME count \in [Bounds -> Nat], NEW t \in Tabs
  PROVE  /\ Tick("edits", MaxEdits) => Doer(t, "edit", "edits") \in Workers
         /\ Tick("locks", MaxLocks) => Doer(t, "lock", "locks") \in Workers
         /\ Tick("switches", MaxSwitches) => Doer(t, "switch", "switches") \in Workers
<1>1. \A b \in {"edits", "locks", "switches"} : count[b] \in Nat
  BY DEF Bounds
<1>2. ASSUME NEW n \in Nat, NEW m \in Nat, n < m PROVE n + 1 \in 1..m
  BY <1>2
<1>3. ASSUME Tick("edits", MaxEdits) PROVE count["edits"] + 1 \in 1..MaxEdits
  BY <1>1, <1>2, <1>3, BoundsAreNumbers DEF Tick
<1>4. ASSUME Tick("locks", MaxLocks) PROVE count["locks"] + 1 \in 1..MaxLocks
  BY <1>1, <1>2, <1>4, BoundsAreNumbers DEF Tick
<1>5. ASSUME Tick("switches", MaxSwitches) PROVE count["switches"] + 1 \in 1..MaxSwitches
  BY <1>1, <1>2, <1>5, BoundsAreNumbers DEF Tick
<1> QED BY <1>3, <1>4, <1>5 DEF Doer, Workers

LEMMA Started == Init => IInv
<1> SUFFICES ASSUME Init PROVE IInv
  OBVIOUS
<1>1. count \in [Bounds -> Nat]
  BY DEF Init, Bounds
<1>6. Idle \in JobType
  BY IdleIsGood DEF Good, JobOK
<1>2. NoRow \in RowType /\ NoCopy \in CopyType
  BY Grant DEF NoRow, NoCopy, RowType, CopyType
<1>3. Base
  BY <1>1, <1>2, <1>6 DEF Init, Base
<1>4. Rows
  BY Grant DEF Init, Rows, RowOK, CopyOK, NoRow, NoCopy
<1>5. \A p \in Workers : Good(p, job[p])
  BY IdleIsGood DEF Init
<1> QED BY <1>3, <1>4, <1>5 DEF IInv

-----------------------------------------------------------------------------
(* Steps of one job.                                                       *)

Still == UNCHANGED <<selected, row, copy, rights, offered, user>>

LEMMA OneJob ==
  ASSUME IInv, NEW p \in Workers, NEW j, Good(p, j),
         job' = [job EXCEPT ![p] = j], Still,
         forced' \in [Tabs -> BOOLEAN], count' \in [Bounds -> Nat]
  PROVE  IInv'
<1>1. job \in [Workers -> JobType] /\ j \in JobType
  BY DEF IInv, Base, Good, JobOK
<1>2. /\ job' \in [Workers -> JobType] /\ job'[p] = j
      /\ \A q \in Workers \ {p} : job'[q] = job[q]
  BY <1>1
<1>3. Base'
  BY <1>2 DEF IInv, Base, Still
<1>4. Rows'
  BY DEF IInv, Rows, RowOK, CopyOK, Still
<1>5. ASSUME NEW q \in Workers PROVE Good(q, job[q])'
  <2>1. CASE q = p
    BY <1>2, <2>1 DEF Good, JobOK, Known, Still
  <2>2. CASE q # p
    BY <1>2, <2>2 DEF IInv, Good, JobOK, Known, Still
  <2> QED BY <2>1, <2>2
<1> QED BY <1>3, <1>4, <1>5 DEF IInv

\* The job p goes idle.
LEMMA GoesIdle ==
  ASSUME IInv, NEW p \in Workers, job' = [job EXCEPT ![p] = Idle], Still,
         forced' \in [Tabs -> BOOLEAN], count' \in [Bounds -> Nat]
  PROVE  IInv'
BY OneJob, IdleIsGood

\* What a job, its row and its account are before a step.
LEMMA Before1 ==
  ASSUME IInv, NEW p \in Workers
  PROVE  /\ Base /\ Good(p, job[p]) /\ JobOK(p, job[p]) /\ job[p] \in JobType
         /\ job[p].of \in Accounts \union {None}
         /\ p[1] \in Tabs /\ TabOf(p) = p[1] /\ count \in [Bounds -> Nat]
         /\ forced \in [Tabs -> BOOLEAN]
<1>1. Good(p, job[p]) /\ Base
  BY DEF IInv
<1> QED BY <1>1 DEF Good, JobOK, JobType, Base, Workers, TabOf

\* The job p moves on to a stage of which nothing is known.
Quiet == {"idle", "refused", "reserving", "downloading", "locking", "sending", "answering",
          "enrolled", "capturing", "leaving", "fencing"}
LEMMA Moves ==
  ASSUME NEW p, NEW j \in JobType, j.at \in Quiet, j.at \notin Unowned => j.of \in Accounts,
         j.current => j.of = selected /\ j.of \in Accounts
  PROVE  Good(p, j)
BY DEF Good, JobOK, Known, Quiet, Checked, Unowned

LEMMA RenewStartKeeps ==
  ASSUME IInv, NEW t \in Tabs, RenewStart(t)
  PROVE  IInv'
<1> DEFINE p == Renewal(t)
<1>0. p \in Workers
  BY DEF Renewal, Workers
<1>1. PICK j : /\ j = [Idle EXCEPT !.at = "asking", !.of = selected, !.current = TRUE,
                                    !.token = TRUE, !.after = TRUE]
               /\ job' = [job EXCEPT ![p] = j]
  BY DEF RenewStart
<1>2. Still /\ forced' = forced /\ count' = count /\ selected \in Accounts
  BY DEF RenewStart, Still, server, IInv, Base
<1>3. /\ j.at = "asking" /\ j.of = selected /\ j.after = TRUE /\ j \in JobType
  BY <1>1, <1>2, IdleIsGood DEF Idle, Good, JobOK, JobType, Stages
<1>4. Good(p, j)
  BY <1>2, <1>3 DEF Good, JobOK, Known, Checked, Unowned
<1> QED BY <1>0, <1>1, <1>2, <1>4, OneJob, Before1

LEMMA ReadStartKeeps ==
  ASSUME IInv, NEW t \in Tabs, ReadStart(t)
  PROVE  IInv'
<1> DEFINE p == Reader(t)
<1>0. p \in Workers
  BY DEF Reader, Workers
<1>1. PICK j : /\ j = [Idle EXCEPT !.at = "reading", !.of = selected, !.current = TRUE]
               /\ job' = [job EXCEPT ![p] = j]
  BY DEF ReadStart
<1>2. Still /\ forced' = forced /\ count' = count /\ selected \in Accounts
  BY DEF ReadStart, Still, server, IInv, Base
<1>3. /\ j.at = "reading" /\ j.of = selected /\ j \in JobType
  BY <1>1, <1>2, IdleIsGood DEF Idle, Good, JobOK, JobType, Stages
<1> HIDE DEF p
<1>4. Good(p, j)
  BY <1>0, <1>2, <1>3 DEF Good, JobOK, Known, Checked, Unowned
<1> QED BY <1>0, <1>1, <1>2, <1>4, OneJob, Before1

LEMMA ServerGrantKeeps ==
  ASSUME IInv, NEW p \in Workers, ServerGrant(p)
  PROVE  IInv'
<1> DEFINE u == job[p].of
<1>1. /\ Still /\ forced' = forced /\ count' = count /\ job[p].at = "asking"
      /\ u \in Accounts
  BY Before1 DEF ServerGrant, Still, server, JobOK, Unowned
<1>2. CASE rights[u] = Refused
  <2>1. PICK j : j = [job[p] EXCEPT !.at = "refused"] /\ job' = [job EXCEPT ![p] = j]
    BY <1>2, Before1 DEF ServerGrant, Base
  <2>2. j \in JobType /\ j.at = "refused" /\ j.current = job[p].current /\ j.of = u
    BY <2>1, Before1 DEF JobType, Stages
  <2>3. Good(p, j)
    BY <1>1, <2>2, Before1, Moves DEF JobOK, Quiet
  <2> QED BY <1>1, <2>1, <2>3, OneJob, Before1
<1>3. CASE rights[u] # Refused
  <2>1. PICK g : g = [gen |-> rights[u], years |-> offered]
    OBVIOUS
  <2>2. PICK j : /\ j = [job[p] EXCEPT !.at = "granted", !.grant = g]
                 /\ job' = [job EXCEPT ![p] = j]
    BY <1>3, <2>1, Before1 DEF ServerGrant, Base
  <2>3. g \in Grants /\ g.years = offered
    BY <1>1, <1>3, <2>1, Before1 DEF Grants, Base
  <2>4. /\ j \in JobType /\ j.at = "granted" /\ j.current = job[p].current
        /\ j.of = u /\ j.grant = g /\ j.after = job[p].after
    BY <2>2, <2>3, Before1 DEF JobType, Stages
  <2>5. Good(p, j)
    BY <1>1, <2>3, <2>4, Before1
       DEF Good, JobOK, Known, Base, Checked, Unowned
  <2> QED BY <1>1, <2>2, <2>5, OneJob, Before1
<1> QED BY <1>2, <1>3

LEMMA GoingIdleKeeps ==
  ASSUME IInv, NEW p \in Workers,
         GiveUp(p) \/ ReserveFails(p) \/ RenewFails(p) \/ EditAnswered(p)
         \/ EditLost(p) \/ ReadEnds(p)
  PROVE  IInv'
<1>1. job' = [job EXCEPT ![p] = Idle] /\ Still
  BY DEF GiveUp, ReserveFails, RenewFails, EditAnswered, EditLost, ReadEnds, Still, server
<1>2. forced' \in [Tabs -> BOOLEAN]
  BY Before1 DEF GiveUp, ReserveFails, RenewFails, EditAnswered, EditLost, ReadEnds, Base
<1>3. count' \in [Bounds -> Nat]
  BY Before1, Ticks
     DEF GiveUp, ReserveFails, RenewFails, EditAnswered, EditLost, ReadEnds, Bounds
<1> QED BY <1>1, <1>2, <1>3, GoesIdle

LEMMA ChooseKeeps ==
  ASSUME IInv, NEW p \in Workers, NEW y \in Years, Choose(p, y)
  PROVE  IInv'
<1>1. /\ Still /\ count' = count /\ job[p].at = "enrolled"
      /\ forced' = [forced EXCEPT ![TabOf(p)] = FALSE]
  BY DEF Choose, Still, server
<1>2. forced' \in [Tabs -> BOOLEAN]
  BY <1>1, Before1
<1>3. CASE job' = [job EXCEPT ![p].at = "reserving", ![p].year = y]
  <2>1. PICK j : /\ j = [job[p] EXCEPT !.at = "reserving", !.year = y]
                 /\ job' = [job EXCEPT ![p] = j]
    BY <1>3, Before1 DEF Base
  <2>2. j \in JobType /\ j.at = "reserving" /\ j.current = job[p].current /\ j.of = job[p].of
    BY <2>1, Before1 DEF JobType, Stages
  <2>3. Good(p, j)
    BY <1>1, <2>2, Before1, Moves DEF JobOK, Quiet, Unowned
  <2> QED BY <1>1, <1>2, <2>1, <2>3, OneJob, Before1
<1>4. CASE job' = [job EXCEPT ![p] = Idle]
  BY <1>1, <1>2, <1>4, GoesIdle, Before1
<1> QED BY <1>3, <1>4 DEF Choose

LEMMA ServerSnapshotKeeps ==
  ASSUME IInv, NEW p \in Workers, ServerSnapshot(p)
  PROVE  IInv'
<1>1. /\ Still /\ forced' = forced /\ count' = count /\ job[p].at = "downloading"
  BY DEF ServerSnapshot, Still, server
<1>2. PICK j : /\ job' = [job EXCEPT ![p] = j]
               /\ \/ j = [job[p] EXCEPT !.at = "downloaded", !.fresh = TRUE, !.saved = TRUE]
                  \/ j = [job[p] EXCEPT !.at = "refused"]
  BY Before1 DEF ServerSnapshot, Base
<1>3. /\ j \in JobType /\ j.current = job[p].current /\ j.of = job[p].of
      /\ \/ j.at = "downloaded" /\ j.fresh
         \/ j.at = "refused"
  BY <1>2, Before1 DEF JobType, Stages
<1>4. Good(p, j)
  BY <1>1, <1>3, Before1 DEF Good, JobOK, Known, Checked, Unowned
<1> QED BY <1>1, <1>2, <1>4, OneJob, Before1

LEMMA CaptureLockKeeps ==
  ASSUME IInv, NEW p \in Workers, CaptureLock(p)
  PROVE  IInv'
<1>1. /\ Still /\ forced' = forced /\ count' = count /\ job[p].at = "capturing"
  BY DEF CaptureLock, Still, server
<1>2. CASE selected = None
  BY <1>1, <1>2, GoesIdle, Before1 DEF CaptureLock
<1>3. CASE selected # None
  <2>1. PICK j : /\ job' = [job EXCEPT ![p] = j]
                 /\ j = [job[p] EXCEPT !.at = "locking", !.of = selected, !.token = TRUE]
    BY <1>3, Before1 DEF CaptureLock, Base
  <2>a. selected \in Accounts
    BY <1>3, Before1 DEF Base
  <2>2. j \in JobType /\ j.at = "locking" /\ j.of = selected /\ selected \in Accounts
    BY <2>a, <2>1, Before1 DEF JobType, Stages
  <2>3. Good(p, j)
    BY <2>2, Moves DEF Quiet
  <2> QED BY <1>1, <2>1, <2>3, OneJob, Before1
<1> QED BY <1>2, <1>3

LEMMA LeaveKeeps ==
  ASSUME IInv, NEW p \in Workers, Leave(p)
  PROVE  IInv'
<1>1. /\ Still /\ forced' = forced /\ count' = count /\ job[p].at = "leaving"
  BY DEF Leave, Still, server
<1>2. PICK j : /\ job' = [job EXCEPT ![p] = j]
               /\ j = [job[p] EXCEPT !.at = "locking", !.token = TRUE]
  BY Before1 DEF Leave, Base
<1>3. j \in JobType /\ j.at = "locking" /\ j.of = job[p].of /\ j.current = job[p].current
  BY <1>2, Before1 DEF JobType, Stages
<1>4. Good(p, j)
  BY <1>1, <1>3, Before1, Moves DEF Quiet, JobOK, Unowned
<1> QED BY <1>1, <1>2, <1>4, OneJob, Before1

LEMMA AuthorizeKeeps ==
  ASSUME IInv, NEW p \in Workers, NEW y \in Years, Authorize(p, y)
  PROVE  IInv'
<1> DEFINE u == job[p].of
<1>1. /\ Still /\ forced' = forced /\ count' = count /\ job[p].at = "reading"
      /\ u \in Accounts /\ row[u] \in RowType /\ RowOK(u)
  BY Before1 DEF Authorize, Still, server, JobOK, Unowned, IInv, Base, Rows
<1>2. CASE row[u].status = "available" /\ y \in row[u].grant.years
  <2>1. PICK j : /\ job' = [job EXCEPT ![p] = j]
                 /\ j = [job[p] EXCEPT !.at = "authorized", !.token = TRUE, !.year = y,
                                       !.grant = row[u].grant, !.after = row[u].after]
    BY <1>2, Before1 DEF Authorize, Base
  <2>2. PICK g, a : /\ g = row[u].grant /\ a = row[u].after
                    /\ g \in Grants \union {NoGrant} /\ a \in BOOLEAN
    BY <1>1 DEF RowType
  <2>3. /\ j \in JobType /\ j.at = "authorized" /\ j.of = u /\ j.current = job[p].current
        /\ j.after = row[u].after
    BY <2>1, <2>2, Before1 DEF JobType, Stages
  <2>4. Good(p, j)
    BY <1>1, <2>3, Before1
       DEF Good, JobOK, Known, RowOK, Checked, Unowned
  <2> QED BY <1>1, <2>1, <2>4, OneJob, Before1
<1>3. CASE ~(row[u].status = "available" /\ y \in row[u].grant.years)
  BY <1>1, <1>3, GoesIdle, Before1 DEF Authorize
<1> QED BY <1>2, <1>3

LEMMA ReadCopyKeeps ==
  ASSUME IInv, NEW p \in Workers, ReadCopy(p)
  PROVE  IInv'
<1> DEFINE u == job[p].of
           y == job[p].year
           c == copy[u][y]
<1>1. /\ Still /\ forced' = forced /\ count' = count /\ job[p].at = "authorized"
      /\ u \in Accounts /\ row[u] \in RowType /\ RowOK(u)
      /\ CopyOK(u)
  BY Before1 DEF ReadCopy, Still, server, JobOK, Unowned, IInv, Base, Rows
<1>2. CASE c.ready /\ c.gen = job[p].grant.gen /\ CanAccess(u, c.gen, y)
  <2>1. PICK j : /\ job' = [job EXCEPT ![p] = j]
                 /\ j = [job[p] EXCEPT !.at = "copied", !.fresh = Vouched(c)]
    BY <1>2, Before1 DEF ReadCopy, Base
  <2>2. /\ y \in Years /\ c \in CopyType /\ row[u].bound
        /\ row[u].status = "available"
    BY <1>1, <1>2, Grant, Before1 DEF CanAccess, RowType, Base
  <2>3. PICK f \in BOOLEAN : f = Vouched(c)
    BY <2>2 DEF CopyType, Vouched
  <2>4. /\ j \in JobType /\ j.at = "copied" /\ j.of = u /\ j.current = job[p].current
        /\ j.after = job[p].after /\ j.token = job[p].token /\ j.fresh = Vouched(c)
    BY <2>1, <2>3, Before1 DEF JobType, Stages
  <2>5. JobOK(p, j)
    BY <1>1, <2>4, Before1 DEF JobOK, Checked, Unowned
  <2>6. Known(p, j)
    <3>1. Vouched(c)
      BY <1>1, <1>2, <2>2 DEF CopyOK, Vouched
    <3>2. Known(p, job[p])
      BY Before1 DEF Good
    <3> QED BY <1>1, <2>2, <2>4, <3>1, <3>2 DEF Known, Checked
  <2> QED BY <1>1, <2>1, <2>5, <2>6, OneJob, Before1 DEF Good
<1>3. CASE ~(c.ready /\ c.gen = job[p].grant.gen /\ CanAccess(u, c.gen, y))
  BY <1>1, <1>3, GoesIdle, Before1 DEF ReadCopy
<1> QED BY <1>2, <1>3

LEMMA RecheckKeeps ==
  ASSUME IInv, NEW p \in Workers, Recheck(p)
  PROVE  IInv'
<1>1. /\ Still /\ forced' = forced /\ count' = count /\ job[p].at = "copied"
  BY DEF Recheck, Still, server
<1>2. CASE job[p].current /\ user[TabOf(p)] = job[p].of
  <2>1. PICK j : job' = [job EXCEPT ![p] = j] /\ j = [job[p] EXCEPT !.at = "checked"]
    BY <1>2, Before1 DEF Recheck, StillCurrent, Base
  <2>2. /\ j \in JobType /\ j.at = "checked" /\ j.of = job[p].of
        /\ j.current = job[p].current /\ j.fresh = job[p].fresh
        /\ j.after = job[p].after /\ j.token = job[p].token
    BY <2>1, Before1 DEF JobType, Stages, Checked
  <2>3. Good(p, j)
    BY <1>1, <1>2, <2>2, Before1 DEF Good, JobOK, Known, Checked, Unowned
  <2> QED BY <1>1, <2>1, <2>3, OneJob, Before1
<1>3. CASE ~(job[p].current /\ user[TabOf(p)] = job[p].of)
  BY <1>1, <1>3, GoesIdle, Before1 DEF Recheck, StillCurrent
<1> QED BY <1>2, <1>3

LEMMA ServeKeeps ==
  ASSUME IInv, NEW p \in Workers, Serve(p)
  PROVE  IInv'
<1>1. /\ Still /\ forced' = forced /\ count' = count /\ job[p].at = "checked"
  BY DEF Serve, Still, server
<1>2. CASE job[p].token
  <2>1. PICK j : job' = [job EXCEPT ![p] = j] /\ j = [job[p] EXCEPT !.at = "served"]
    BY <1>2, Before1 DEF Serve, Base
  <2>2. /\ j \in JobType /\ j.at = "served" /\ j.of = job[p].of
        /\ j.current = job[p].current /\ j.fresh = job[p].fresh
        /\ j.after = job[p].after
    BY <2>1, Before1 DEF JobType, Stages, Checked
  <2>3. Good(p, j)
    BY <1>1, <1>2, <2>2, Before1 DEF Good, JobOK, Known, Checked, Unowned
  <2> QED BY <1>1, <2>1, <2>3, OneJob, Before1
<1>3. CASE ~job[p].token
  BY <1>1, <1>3, GoesIdle, Before1 DEF Serve
<1> QED BY <1>2, <1>3

-----------------------------------------------------------------------------
(* Fences.                                                                 *)

LEMMA OutdateSays ==
  ASSUME NEW jobs \in [Workers -> JobType], NEW u
  PROVE  /\ Outdate(jobs, u) \in [Workers -> JobType]
         /\ \A q \in Workers : LET i == jobs[q] j == Outdate(jobs, u)[q] IN
              /\ j.at = i.at /\ j.of = i.of /\ j.grant = i.grant /\ j.after = i.after
              /\ j.fresh = i.fresh /\ j.current = i.current
              /\ j.token => i.token /\ i.of # u
<1>1. ASSUME NEW q \in Workers
      PROVE  LET i == jobs[q] j == Outdate(jobs, u)[q] IN
              /\ j \in JobType
              /\ j.at = i.at /\ j.of = i.of /\ j.grant = i.grant /\ j.after = i.after
              /\ j.fresh = i.fresh /\ j.current = i.current
              /\ j.token => i.token /\ i.of # u
  BY DEF Outdate, JobType
<1>2. Outdate(jobs, u) = [q \in Workers |-> Outdate(jobs, u)[q]]
  BY DEF Outdate
<1> QED BY <1>1, <1>2

LEMMA OvertakeSays ==
  ASSUME NEW jobs \in [Workers -> JobType], NEW u, NEW Y
  PROVE  /\ Overtake(jobs, u, Y) \in [Workers -> JobType]
         /\ \A q \in Workers : LET i == jobs[q] j == Overtake(jobs, u, Y)[q] IN
              /\ j.at = i.at /\ j.of = i.of /\ j.grant = i.grant /\ j.after = i.after
              /\ j.fresh = i.fresh /\ j.current = i.current /\ j.token = i.token
<1>1. ASSUME NEW q \in Workers
      PROVE  LET i == jobs[q] j == Overtake(jobs, u, Y)[q] IN
              /\ j \in JobType
              /\ j.at = i.at /\ j.of = i.of /\ j.grant = i.grant /\ j.after = i.after
              /\ j.fresh = i.fresh /\ j.current = i.current /\ j.token = i.token
  BY DEF Overtake, JobType
<1>2. Overtake(jobs, u, Y) = [q \in Workers |-> Overtake(jobs, u, Y)[q]]
  BY DEF Overtake
<1> QED BY <1>1, <1>2

LEMMA LockCopiesSays ==
  ASSUME copy \in [Accounts -> [Years -> CopyType]], NEW u \in Accounts, NEW Y,
         NEW c, c = LockCopies(copy, u, Y)
  PROVE  /\ c \in [Accounts -> [Years -> CopyType]]
         /\ \A v \in Accounts, y \in Years :
              /\ c[v][y].fresh = copy[v][y].fresh /\ c[v][y].dropped = copy[v][y].dropped
              /\ c[v][y].ready => copy[v][y].ready /\ ~(v = u /\ y \in Y)
<1> DEFINE d == [y \in Years |-> IF y \in Y THEN [copy[u][y] EXCEPT !.ready = FALSE]
                                 ELSE copy[u][y]]
<1>1. c = [copy EXCEPT ![u] = d]
  BY DEF LockCopies
<1>2. ASSUME NEW y \in Years
      PROVE  /\ d[y] \in CopyType /\ d[y].fresh = copy[u][y].fresh
             /\ d[y].dropped = copy[u][y].dropped
             /\ d[y].ready => copy[u][y].ready /\ y \notin Y
  <2>1. copy[u][y] \in CopyType
    OBVIOUS
  <2> QED BY <2>1 DEF CopyType
<1>3. d \in [Years -> CopyType]
  BY <1>2
<1> HIDE DEF d
<1> QED BY <1>1, <1>2, <1>3

LEMMA LeaveOutSays ==
  ASSUME copy \in [Accounts -> [Years -> CopyType]], NEW u \in Accounts, NEW Y,
         NEW c, c = LeaveOut(u, Y)
  PROVE  /\ c \in [Accounts -> [Years -> CopyType]]
         /\ \A v \in Accounts \ {u} : c[v] = copy[v]
         /\ \A y \in Y \intersect Years : c[u][y] = copy[u][y]
         /\ \A y \in Years \ Y : c[u][y].dropped /\ c[u][y].ready = copy[u][y].ready
<1> DEFINE d == [y \in Years |-> IF y \in Y THEN copy[u][y]
                                 ELSE [copy[u][y] EXCEPT !.dropped = TRUE]]
<1>1. c = [copy EXCEPT ![u] = d]
  BY DEF LeaveOut
<1>2. ASSUME NEW y \in Years
      PROVE  /\ d[y] \in CopyType
             /\ y \in Y => d[y] = copy[u][y]
             /\ y \notin Y => d[y].dropped = TRUE /\ d[y].ready = copy[u][y].ready
  <2>1. copy[u][y] \in CopyType
    OBVIOUS
  <2> QED BY <2>1 DEF CopyType
<1>3. d \in [Years -> CopyType]
  BY <1>2
<1> HIDE DEF d
<1> QED BY <1>1, <1>2, <1>3

\* A job goes on: it keeps its stage and account and gains no flag.
Onward(i, j) ==
  /\ j \in JobType /\ j.at = i.at /\ j.of = i.of /\ j.grant = i.grant
  /\ j.after = i.after /\ j.fresh = i.fresh
  /\ j.current => i.current
  /\ j.token => i.token
  /\ j.token /\ i.of \in Accounts
       /\ row'[i.of].bound /\ row'[i.of].status = "available"
       => row[i.of].bound /\ row[i.of].status = "available"

\* No copy becomes readable but one an edit can vouch for.
CopiesOnward == \A u \in Accounts, y \in Years : copy'[u][y].ready =>
  \/ Vouched(copy'[u][y])
  \/ /\ copy[u][y].ready /\ copy'[u][y].fresh = copy[u][y].fresh
     /\ copy'[u][y].dropped = copy[u][y].dropped

LEMMA GoesOnward ==
  ASSUME IInv, NEW q \in Workers, Onward(job[q], job'[q]), CopiesOnward,
         selected' = selected
  PROVE  Good(q, job[q])'
<1>1. PICK i, j : i = job[q] /\ j = job'[q]
  OBVIOUS
<1>2. Good(q, i) /\ Onward(i, j)
  BY <1>1 DEF IInv
<1>3. JobOK(q, j)'
  BY <1>2 DEF Good, JobOK, Onward
<1>4. Known(q, j)'
  <2>1. /\ Known(q, i)
        /\ i.at \notin Unowned => i.of \in Accounts
        /\ i.current => i.of \in Accounts
    BY <1>2 DEF Good, JobOK
  <2>2. /\ j.at = i.at /\ j.of = i.of /\ j.grant = i.grant
        /\ j.after = i.after /\ j.fresh = i.fresh
        /\ j.current => i.current
        /\ j.token => i.token
    BY <1>2 DEF Onward
  <2>3. ASSUME j.at = "enrolling", j.current, NEW y \in Years, copy'[j.of][y].ready
        PROVE  Vouched(copy'[j.of][y])
    <3>1. j.of \in Accounts /\ (copy[j.of][y].ready => Vouched(copy[j.of][y]))
      BY <2>1, <2>2, <2>3 DEF Known
    <3> QED BY <2>3, <3>1 DEF CopiesOnward, Vouched
  <2>4. j.at \in {"authorized", "copied"} /\ j.token
          /\ row'[j.of].bound /\ row'[j.of].status = "available" => j.after
    <3>1. j.at \in {"authorized", "copied"} => i.of \in Accounts
      BY <2>1, <2>2 DEF Unowned
    <3> QED BY <1>2, <2>1, <2>2, <3>1 DEF Onward, Known
  <2>5. /\ j.at = "copied" /\ j.token /\ j.current => j.after /\ j.fresh
        /\ j.at = "checked" /\ j.token => j.after /\ j.fresh
        /\ j.at = "served" => j.after /\ j.fresh
        /\ j.at = "downloaded" /\ j.current => j.fresh
    BY <2>1, <2>2 DEF Known
  <2> QED BY <2>3, <2>4, <2>5 DEF Known, Vouched
<1> QED BY <1>1, <1>3, <1>4 DEF Good

\* All rows are unbound and no capture is current any more.
Fenced(i, j) ==
  /\ j \in JobType /\ j.at = i.at /\ j.of = i.of /\ j.grant = i.grant /\ ~j.current
  /\ j.token => i.token
  /\ i.at \in Checked => j.after = i.after /\ j.fresh = i.fresh

LEMMA GoesFenced ==
  ASSUME IInv, NEW q \in Workers, Fenced(job[q], job'[q]),
         \A u \in Accounts : ~row'[u].bound
  PROVE  Good(q, job[q])'
<1> DEFINE i == job[q]
<1>1. PICK j : j = job'[q]
  OBVIOUS
<1>2. Good(q, i) /\ Fenced(i, j)
  BY <1>1 DEF IInv
<1> HIDE DEF i
<1>4. JobOK(q, j)'
  BY <1>2 DEF Good, JobOK, Fenced
<1>5. Known(q, j)'
  BY <1>2 DEF Good, JobOK, Known, Fenced, Unowned, Checked
<1> QED BY <1>1, <1>4, <1>5 DEF Good

\* The rows stay as they are.
LEMMA RowsStay ==
  ASSUME IInv, selected' = selected, row' = row,
         \A u \in Accounts, y \in Years :
            copy'[u][y].ready => /\ copy[u][y].ready /\ copy'[u][y].fresh = copy[u][y].fresh
                                /\ copy'[u][y].dropped = copy[u][y].dropped
  PROVE  Rows' /\ CopiesOnward
BY DEF IInv, Rows, RowOK, CopyOK, CopiesOnward

-----------------------------------------------------------------------------
(* Steps that move a fence.                                                *)

\* The stage of one job and flags of others change.
LEMMA Stages1 ==
  ASSUME NEW i \in JobType, NEW a \in Stages, NEW j, j = [i EXCEPT !.at = a]
  PROVE  /\ j \in JobType /\ j.at = a /\ j.of = i.of /\ j.grant = i.grant
         /\ j.after = i.after /\ j.fresh = i.fresh /\ j.current = i.current
         /\ j.token = i.token
BY DEF JobType

LEMMA RetireKeeps ==
  ASSUME IInv, NEW p \in Workers, Retire(p)
  PROVE  IInv'
<1> DEFINE u == job[p].of
           Y == row[u].grant.years
           next == [job EXCEPT ![p].at = "enrolling"]
<1>1. /\ job[p].at = "granted" /\ job[p].current /\ u \in Accounts /\ u = selected
      /\ UNCHANGED <<selected, row, rights, offered, user, count>>
      /\ job[p].after /\ Base
  BY Before1 DEF Retire, server, JobOK
<1>2. /\ next \in [Workers -> JobType] /\ next[p].at = "enrolling"
      /\ next[p].of = u /\ next[p].grant = job[p].grant /\ next[p].after = job[p].after
      /\ next[p].current = job[p].current
      /\ \A q \in Workers \ {p} : next[q] = job[q]
  <2>1. PICK j : j = [job[p] EXCEPT !.at = "enrolling"]
    OBVIOUS
  <2>2. j \in JobType /\ j.at = "enrolling" /\ j.of = u /\ j.grant = job[p].grant
        /\ j.after = job[p].after /\ j.current = job[p].current
    BY <2>1, Stages1, Before1 DEF Stages
  <2>3. next = [job EXCEPT ![p] = j] /\ job \in [Workers -> JobType]
    BY <1>1, <2>1 DEF Base
  <2> HIDE DEF next
  <2> QED BY <2>2, <2>3
<1>3. /\ copy' \in [Accounts -> [Years -> CopyType]]
      /\ \A v \in Accounts, y \in Years :
           /\ copy'[v][y].fresh = copy[v][y].fresh
           /\ copy'[v][y].dropped = copy[v][y].dropped
           /\ copy'[v][y].ready => copy[v][y].ready
           /\ copy'[v][y].ready /\ v = u /\ Unbound(u) => y \notin Y
  <2>1. CASE Unbound(u)
    <3>1. copy' = LockCopies(copy, u, Y)
      BY <2>1 DEF Retire
    <3> QED BY <1>1, <3>1, LockCopiesSays DEF Base
  <2>2. CASE ~Unbound(u)
    BY <1>1, <2>2 DEF Retire, Base
  <2> QED BY <2>1, <2>2
<1>4. /\ forced' \in [Tabs -> BOOLEAN]
      /\ job' = next \/ job' = Overtake(next, u, Y)
  BY Before1 DEF Retire, Base
<1> HIDE DEF next
<1>5. /\ job' \in [Workers -> JobType]
      /\ \A q \in Workers :
           /\ job'[q].at = next[q].at /\ job'[q].of = next[q].of
           /\ job'[q].grant = next[q].grant /\ job'[q].after = next[q].after
           /\ job'[q].fresh = next[q].fresh /\ job'[q].current = next[q].current
           /\ job'[q].token = next[q].token
  BY <1>2, <1>4, OvertakeSays
<1>6. Rows' /\ CopiesOnward
  BY <1>1, <1>3, RowsStay
<1>7. Base'
  BY <1>1, <1>3, <1>4, <1>5 DEF Base
<1>8. ASSUME NEW q \in Workers \ {p} PROVE Good(q, job[q])'
  <2>1. Onward(job[q], job'[q])
    BY <1>1, <1>2, <1>5 DEF Onward
  <2> QED BY <1>1, <1>6, <2>1, GoesOnward
<1>9. Good(p, job[p])'
  <2>1. PICK j : j = job'[p]
    OBVIOUS
  <2>2. /\ j \in JobType /\ j.at = "enrolling" /\ j.of = u /\ j.grant = job[p].grant
        /\ j.after = job[p].after /\ j.current = job[p].current
    BY <1>2, <1>5, <2>1
  <2>3. JobOK(p, j)'
    BY <1>1, <2>2 DEF JobOK, Checked, Unowned
  <2>4. Known(p, j)'
    <3>1. CopyOK(u)
      BY <1>1 DEF IInv, Rows
    <3>2. ASSUME NEW y \in Years, copy'[u][y].ready PROVE Vouched(copy'[u][y])
      <4>1. /\ copy[u][y].ready /\ copy'[u][y].fresh = copy[u][y].fresh
            /\ copy'[u][y].dropped = copy[u][y].dropped
            /\ Unbound(u) => y \notin Y
        BY <1>1, <1>3, <3>2
      <4>2. SUFFICES ASSUME ~copy[u][y].dropped PROVE copy[u][y].fresh
        BY <4>1 DEF Vouched
      <4>3. y \in row[u].grant.years /\ (~copy[u][y].fresh => ~row[u].bound)
        BY <3>1, <4>1, <4>2 DEF CopyOK
      <4>4. row[u].bound
        BY <4>1, <4>3, Grant DEF Unbound
      <4> QED BY <4>3, <4>4
    <3> QED BY <2>2, <3>2 DEF Known, Checked, Vouched
  <2> QED BY <2>1, <2>3, <2>4 DEF Good
<1> QED BY <1>6, <1>7, <1>8, <1>9 DEF IInv

LEMMA EnrollKeeps ==
  ASSUME IInv, NEW p \in Workers, Enroll(p)
  PROVE  IInv'
<1> DEFINE u == job[p].of
<1>1. /\ job[p].at = "enrolling" /\ u \in Accounts
      /\ UNCHANGED <<selected, rights, offered, user, count>>
      /\ Base /\ job[p] \in JobType
  BY Before1 DEF Enroll, server, JobOK, Unowned
<1>2. CASE ~Binds(p)
  <2>1. /\ job' = [job EXCEPT ![p] = Idle] /\ Still /\ count' = count
        /\ forced' = [forced EXCEPT ![TabOf(p)] = TRUE]
    BY <1>1, <1>2 DEF Enroll, Still, server
  <2> QED BY <2>1, GoesIdle, Before1
<1>3. CASE Binds(p)
  <2>1. PICK r : /\ r = [status |-> "available", bound |-> TRUE,
                         grant |-> job[p].grant, after |-> job[p].after]
                 /\ row' = [row EXCEPT ![u] = r]
    BY <1>3 DEF Enroll
  <2>2. PICK jobs : jobs = Outdate(job, u)
    OBVIOUS
  <2>3. job' = [jobs EXCEPT ![p].at = "enrolled"] /\ forced' = forced
    BY <1>3, <2>2 DEF Enroll
  <2>4. /\ r \in RowType /\ r.status = "available" /\ r.bound = TRUE
        /\ r.grant = job[p].grant /\ r.after = job[p].after
    BY <1>1, <2>1 DEF RowType, JobType
  <2>5. /\ row' \in [Accounts -> RowType] /\ row'[u] = r
        /\ \A v \in Accounts \ {u} : row'[v] = row[v]
    BY <1>1, <2>1, <2>4 DEF Base
  <2>6. /\ jobs \in [Workers -> JobType]
        /\ \A q \in Workers :
             /\ jobs[q].at = job[q].at /\ jobs[q].of = job[q].of
             /\ jobs[q].grant = job[q].grant /\ jobs[q].after = job[q].after
             /\ jobs[q].fresh = job[q].fresh /\ jobs[q].current = job[q].current
             /\ jobs[q].token => job[q].token /\ job[q].of # u
    BY <1>1, <2>2, OutdateSays DEF Base
  <2>7. PICK j : j = [jobs[p] EXCEPT !.at = "enrolled"]
    OBVIOUS
  <2>8. /\ j \in JobType /\ j.at = "enrolled" /\ j.of = u
        /\ j.current = job[p].current
    <3>1. jobs[p] \in JobType /\ "enrolled" \in Stages
      BY <2>6 DEF Stages
    <3> QED BY <2>6, <2>7, <3>1, Stages1
  <2>9. /\ job' \in [Workers -> JobType] /\ job'[p] = j
        /\ \A q \in Workers \ {p} : job'[q] = jobs[q]
    <3>1. job' = [jobs EXCEPT ![p] = j]
      BY <2>3, <2>7
    <3> QED BY <2>6, <2>8, <3>1
  <2>10. selected = u /\ job[p].after
    BY <1>1, <1>3, Before1 DEF Binds, JobOK
  <2>15. /\ copy' \in [Accounts -> [Years -> CopyType]]
         /\ \A v \in Accounts \ {u} : copy'[v] = copy[v]
         /\ \A y \in job[p].grant.years \intersect Years : copy'[u][y] = copy[u][y]
         /\ \A y \in Years \ job[p].grant.years :
               copy'[u][y].dropped /\ copy'[u][y].ready = copy[u][y].ready
    <3>1. copy' = LeaveOut(u, job[p].grant.years)
      BY <1>3 DEF Enroll
    <3> QED BY <1>1, <3>1, LeaveOutSays DEF Base
  <2>11. Rows'
    <3> SUFFICES ASSUME NEW v \in Accounts PROVE RowOK(v)' /\ CopyOK(v)'
      BY DEF Rows
    <3>1. CASE v # u
      BY <1>1, <2>5, <2>15, <3>1 DEF IInv, Rows, RowOK, CopyOK
    <3>2. CASE v = u
      <4>0. row'[v] = r /\ selected' = v
        BY <1>1, <2>5, <2>10, <3>2
      <4>1. RowOK(v)'
        BY <2>4, <2>10, <4>0 DEF RowOK
      <4>2. ASSUME NEW y \in Years, copy'[v][y].ready, ~copy'[v][y].dropped
            PROVE  y \in r.grant.years /\ copy'[v][y].fresh
        <5>1. \A z \in Years : copy[u][z].ready => Vouched(copy[u][z])
          BY <1>1, <1>3, Before1 DEF Good, Known, Binds
        <5>2. y \in r.grant.years /\ copy'[v][y] = copy[u][y]
          BY <2>4, <2>15, <3>2, <4>2
        <5> QED BY <4>2, <5>1, <5>2 DEF Vouched
      <4>3. CopyOK(v)'
        BY <4>0, <4>2 DEF CopyOK
      <4> QED BY <4>1, <4>3
    <3> QED BY <3>1, <3>2
  <2>12. Base'
    BY <1>1, <2>3, <2>5, <2>9, <2>15 DEF Base
  <2>13. ASSUME NEW q \in Workers \ {p} PROVE Good(q, job[q])'
    <3>1. Onward(job[q], job'[q])
      BY <2>5, <2>6, <2>9 DEF Onward
    <3>2. CopiesOnward
      BY <2>15 DEF CopiesOnward, Vouched
    <3> QED BY <1>1, <3>1, <3>2, GoesOnward
  <2>14. Good(p, job[p])'
    <3>1. JobOK(p, j)'
      BY <1>1, <2>8, <2>10 DEF JobOK, Checked, Unowned
    <3>2. Known(p, j)'
      BY <2>8 DEF Known, Checked
    <3> QED BY <2>9, <3>1, <3>2 DEF Good
  <2> QED BY <2>11, <2>12, <2>13, <2>14 DEF IInv
<1> QED BY <1>2, <1>3

\* The same with flags that a fence has cleared, after the step.
LEMMA MovesNext ==
  ASSUME NEW p, NEW j \in JobType, j.at \in Quiet, j.at \notin Unowned => j.of \in Accounts,
         j.current => j.of = selected' /\ j.of \in Accounts
  PROVE  Good(p, j)'
BY DEF Good, JobOK, Known, Quiet, Checked, Unowned

LEMMA IdleNext == \A p : Good(p, Idle)'
<1>1. Idle \in JobType
  BY Grant DEF Idle, JobType, Stages
<1> QED BY <1>1 DEF Good, JobOK, Known, Idle, Checked, Unowned

LEMMA ReserveKeeps ==
  ASSUME IInv, NEW p \in Workers, Reserve(p)
  PROVE  IInv'
<1> DEFINE u == job[p].of
           y == job[p].year
<1>1. /\ job[p].at = "reserving" /\ Still /\ forced' = forced /\ count' = count
      /\ Base /\ u \in Accounts
  BY Before1 DEF Reserve, Still, server, JobOK, Unowned
<1>2. PICK jobs : jobs = Overtake(job, u, {y})
  OBVIOUS
<1>3. /\ jobs \in [Workers -> JobType]
      /\ \A q \in Workers :
           /\ jobs[q].at = job[q].at /\ jobs[q].of = job[q].of
           /\ jobs[q].grant = job[q].grant /\ jobs[q].after = job[q].after
           /\ jobs[q].fresh = job[q].fresh /\ jobs[q].current = job[q].current
           /\ jobs[q].token = job[q].token
  BY <1>1, <1>2, OvertakeSays DEF Base
<1>4. PICK j : /\ j = [jobs[p] EXCEPT !.at = "downloading", !.ticket = TRUE]
               /\ job' = [jobs EXCEPT ![p] = j]
  BY <1>2, <1>3 DEF Reserve
<1>5. j \in JobType /\ j.at = "downloading" /\ j.of = u /\ j.current = job[p].current
  <2>1. jobs[p] \in JobType
    BY <1>3
  <2> QED BY <1>3, <1>4, <2>1 DEF JobType, Stages
<1>6. Good(p, j)'
  <2>1. j.current => j.of = selected' /\ j.of \in Accounts
    BY <1>1, <1>5, Before1 DEF JobOK, Still
  <2> QED BY <1>1, <1>5, <2>1, MovesNext DEF Quiet
<1>7. /\ job' \in [Workers -> JobType] /\ job'[p] = j
      /\ \A q \in Workers \ {p} : job'[q] = jobs[q]
  BY <1>3, <1>4, <1>5
<1>8. Rows' /\ CopiesOnward
  BY <1>1, RowsStay DEF Still
<1>9. ASSUME NEW q \in Workers \ {p} PROVE Good(q, job[q])'
  <2>1. Onward(job[q], job'[q])
    BY <1>1, <1>3, <1>7 DEF Onward, Still
  <2> QED BY <1>1, <1>8, <2>1, GoesOnward DEF Still
<1>10. Base'
  BY <1>1, <1>7 DEF Base, Still
<1> QED BY <1>6, <1>7, <1>8, <1>9, <1>10 DEF IInv, Good, JobOK, Known

LEMMA ActivateKeeps ==
  ASSUME IInv, NEW p \in Workers, Activate(p)
  PROVE  IInv'
<1> DEFINE u == job[p].of
           y == job[p].year
           gen == job[p].grant.gen
<1>1. /\ job[p].at = "downloaded" /\ job[p].current /\ u \in Accounts
      /\ UNCHANGED <<selected, row, rights, offered, user, count>>
      /\ Base /\ Good(p, job[p]) /\ job[p] \in JobType
  BY Before1 DEF Activate, server, JobOK
<1>2. CASE ~(CanAccess(u, gen, y) /\ job[p].ticket)
  <2>1. /\ job' = [job EXCEPT ![p] = Idle] /\ Still /\ count' = count
        /\ forced' = [forced EXCEPT ![TabOf(p)] = TRUE]
    BY <1>1, <1>2 DEF Activate, Still
  <2> QED BY <2>1, GoesIdle, Before1
<1>3. CASE CanAccess(u, gen, y) /\ job[p].ticket
  <2>1. PICK c : /\ c = [ready |-> TRUE, gen |-> gen, fresh |-> job[p].fresh,
                         saved |-> job[p].saved, dropped |-> FALSE]
                 /\ copy' = [copy EXCEPT ![u][y] = c]
    BY <1>3 DEF Activate
  <2>2. row[u] \in RowType /\ row[u].grant \in Grants \union {NoGrant}
    BY <1>1 DEF Base, RowType
  <2>3. y \in Years /\ y \in row[u].grant.years
    BY <1>3, <2>2, Grant DEF CanAccess
  <2>4. c \in CopyType /\ c.ready /\ c.fresh = job[p].fresh
    <3>1. gen \in Generations \union {Refused}
      BY <1>1 DEF JobType, Grants, NoGrant
    <3> QED BY <1>1, <2>1, <3>1 DEF CopyType, JobType
  <2>5. /\ copy' \in [Accounts -> [Years -> CopyType]] /\ copy'[u][y] = c
        /\ \A v \in Accounts, z \in Years :
              v # u \/ z # y => copy'[v][z] = copy[v][z]
    BY <1>1, <2>1, <2>3, <2>4 DEF Base
  <2>6. PICK jobs : jobs = Overtake(job, u, {y})
    OBVIOUS
  <2>7. /\ jobs \in [Workers -> JobType]
        /\ \A q \in Workers :
             /\ jobs[q].at = job[q].at /\ jobs[q].of = job[q].of
             /\ jobs[q].grant = job[q].grant /\ jobs[q].after = job[q].after
             /\ jobs[q].fresh = job[q].fresh /\ jobs[q].current = job[q].current
             /\ jobs[q].token = job[q].token
    BY <1>1, <2>6, OvertakeSays DEF Base
  <2>8. job' = [jobs EXCEPT ![p] = Idle] /\ forced' = forced
    BY <1>3, <2>6 DEF Activate
  <2>9. /\ job' \in [Workers -> JobType] /\ job'[p] = Idle
        /\ \A q \in Workers \ {p} : job'[q] = jobs[q]
    BY <2>7, <2>8, IdleIsGood DEF Good, JobOK
  <2>10. job[p].fresh
    BY <1>1 DEF Good, Known
  <2>11. CopiesOnward
    BY <2>4, <2>5, <2>10 DEF CopiesOnward, Vouched
  <2>12. ASSUME NEW v \in Accounts PROVE RowOK(v)' /\ CopyOK(v)'
    <3>1. RowOK(v) /\ CopyOK(v)
      BY DEF IInv, Rows
    <3>2. RowOK(v)'
      BY <1>1, <3>1 DEF RowOK
    <3>3. ASSUME NEW z \in Years, copy'[v][z].ready, ~copy'[v][z].dropped
          PROVE  /\ z \in row[v].grant.years
                 /\ ~copy'[v][z].fresh => ~row[v].bound
      <4>1. CASE v = u /\ z = y
        BY <2>3, <2>4, <2>5, <2>10, <3>1, <3>3, <4>1 DEF CopyOK
      <4>2. CASE ~(v = u /\ z = y)
        BY <2>5, <3>1, <3>3, <4>2 DEF CopyOK
      <4> QED BY <4>1, <4>2
    <3>4. CopyOK(v)'
      BY <1>1, <3>1, <3>3 DEF CopyOK
    <3> QED BY <3>2, <3>4
  <2>13. ASSUME NEW q \in Workers \ {p} PROVE Good(q, job[q])'
    <3>1. Onward(job[q], job'[q])
      BY <1>1, <2>7, <2>9 DEF Onward
    <3> QED BY <1>1, <2>11, <3>1, GoesOnward
  <2>14. Base'
    BY <1>1, <2>5, <2>8, <2>9 DEF Base
  <2>15. Good(p, job[p])'
    BY <2>9, IdleNext DEF Good, JobOK, Known
  <2> QED BY <2>12, <2>13, <2>14, <2>15 DEF IInv, Rows
<1> QED BY <1>2, <1>3

-----------------------------------------------------------------------------
(* Locks.                                                                  *)

\* Rows that keep their grants and lose their binding.
Freed(rows) ==
  /\ rows \in [Accounts -> RowType]
  /\ \A u \in Accounts : ~rows[u].bound /\ rows[u].grant = row[u].grant

LEMMA UnbindSays ==
  ASSUME row \in [Accounts -> RowType], NEW rows \in [Accounts -> RowType],
         \A u \in Accounts : rows[u].grant = row[u].grant
  PROVE  Freed(Unbind(rows))
<1>1. ASSUME NEW u \in Accounts
      PROVE  /\ [rows[u] EXCEPT !.bound = FALSE] \in RowType
             /\ [rows[u] EXCEPT !.bound = FALSE].bound = FALSE
             /\ [rows[u] EXCEPT !.bound = FALSE].grant = row[u].grant
  <2>1. rows[u] \in RowType
    OBVIOUS
  <2> QED BY <2>1 DEF RowType
<1> QED BY <1>1 DEF Freed, Unbind

LEMMA LeaveSays ==
  ASSUME row \in [Accounts -> RowType], selected \in Accounts \union {None}
  PROVE  Freed(Unbind(IF selected = None THEN row ELSE Before(selected)))
<1>1. CASE selected = None
  BY <1>1, UnbindSays
<1>2. CASE selected # None
  <2>1. PICK r : r = [row[selected] EXCEPT !.after = FALSE]
    OBVIOUS
  <2>2. row[selected] \in RowType /\ selected \in Accounts
    BY <1>2
  <2>3. r \in RowType /\ r.grant = row[selected].grant
    BY <2>1, <2>2 DEF RowType
  <2>4. Before(selected) = [row EXCEPT ![selected] = r]
    BY <2>1 DEF Before
  <2>5. /\ Before(selected) \in [Accounts -> RowType]
        /\ \A u \in Accounts : Before(selected)[u].grant = row[u].grant
    BY <2>2, <2>3, <2>4
  <2> QED BY <1>2, <2>5, UnbindSays
<1> QED BY <1>1, <1>2

\* No copy becomes readable, and none is left out.
NoneReadied == \A u \in Accounts, y \in Years :
  copy'[u][y].ready => copy[u][y].ready /\ copy'[u][y].dropped = copy[u][y].dropped

LEMMA FreedRows ==
  ASSUME IInv, Freed(row'), NoneReadied
  PROVE  Rows'
<1> SUFFICES ASSUME NEW u \in Accounts PROVE RowOK(u)' /\ CopyOK(u)'
  BY DEF Rows
<1>1. RowOK(u)'
  BY DEF Freed, RowOK
<1>2. CopyOK(u)
  BY DEF IInv, Rows
<1>3. CopyOK(u)'
  BY <1>2 DEF Freed, CopyOK, NoneReadied
<1> QED BY <1>1, <1>3

\* A fence over jobs that keep all but some of what is known of them.
LEMMA StaleSays ==
  ASSUME NEW jobs \in [Workers -> JobType]
  PROVE  /\ Stale(jobs) \in [Workers -> JobType]
         /\ \A q \in Workers : LET i == jobs[q] j == Stale(jobs)[q] IN
              /\ j.at = i.at /\ j.of = i.of /\ j.grant = i.grant /\ j.after = i.after
              /\ j.fresh = i.fresh /\ ~j.current /\ j.token = i.token
<1>1. ASSUME NEW q \in Workers
      PROVE  LET i == jobs[q] j == Stale(jobs)[q] IN
              /\ j \in JobType
              /\ j.at = i.at /\ j.of = i.of /\ j.grant = i.grant /\ j.after = i.after
              /\ j.fresh = i.fresh /\ ~j.current /\ j.token = i.token
  BY DEF Stale, JobType
<1>2. Stale(jobs) = [q \in Workers |-> Stale(jobs)[q]]
  BY DEF Stale
<1> QED BY <1>1, <1>2

LEMMA NotAfterSays ==
  ASSUME NEW jobs \in [Workers -> JobType], NEW u
  PROVE  /\ NotAfter(jobs, u) \in [Workers -> JobType]
         /\ \A q \in Workers : LET i == jobs[q] j == NotAfter(jobs, u)[q] IN
              /\ j.at = i.at /\ j.of = i.of /\ j.grant = i.grant /\ j.fresh = i.fresh
              /\ j.token = i.token /\ (i.at \in Checked => j.after = i.after)
<1>1. ASSUME NEW q \in Workers
      PROVE  LET i == jobs[q] j == NotAfter(jobs, u)[q] IN
              /\ j \in JobType
              /\ j.at = i.at /\ j.of = i.of /\ j.grant = i.grant /\ j.fresh = i.fresh
              /\ j.token = i.token /\ (i.at \in Checked => j.after = i.after)
  BY DEF NotAfter, JobType
<1>2. NotAfter(jobs, u) = [q \in Workers |-> NotAfter(jobs, u)[q]]
  BY DEF NotAfter
<1> QED BY <1>1, <1>2

LEMMA OutrunSays ==
  ASSUME NEW jobs \in [Workers -> JobType]
  PROVE  /\ Outrun(jobs) \in [Workers -> JobType]
         /\ \A q \in Workers : LET i == jobs[q] j == Outrun(jobs)[q] IN
              /\ j.at = i.at /\ j.of = i.of /\ j.grant = i.grant /\ j.after = i.after
              /\ j.token = i.token /\ (i.at \in Checked => j.fresh = i.fresh)
<1>1. ASSUME NEW q \in Workers
      PROVE  LET i == jobs[q] j == Outrun(jobs)[q] IN
              /\ j \in JobType
              /\ j.at = i.at /\ j.of = i.of /\ j.grant = i.grant /\ j.after = i.after
              /\ j.token = i.token /\ (i.at \in Checked => j.fresh = i.fresh)
  BY DEF Outrun, JobType
<1>2. Outrun(jobs) = [q \in Workers |-> Outrun(jobs)[q]]
  BY DEF Outrun
<1> QED BY <1>1, <1>2

\* A new fence: every row is freed, every job is fenced, p begins with j.
LEMMA AllFenced ==
  ASSUME IInv, NEW p \in Workers, NEW j, Good(p, j)', NEW jobs,
         jobs \in [Workers -> JobType], job' = [jobs EXCEPT ![p] = j],
         \A q \in Workers \ {p} : Fenced(job[q], jobs[q]),
         Freed(row'), Base', NoneReadied
  PROVE  IInv'
<1>1. job'[p] = j /\ \A q \in Workers \ {p} : job'[q] = jobs[q]
  OBVIOUS
<1>2. Rows'
  BY FreedRows
<1>3. ASSUME NEW q \in Workers \ {p} PROVE Good(q, job[q])'
  <2>1. Fenced(job[q], job'[q])
    BY <1>1
  <2> QED BY <2>1, GoesFenced DEF Freed
<1>4. Good(p, job[p])'
  BY <1>1 DEF Good, JobOK, Known
<1> QED BY <1>2, <1>3, <1>4 DEF IInv

LEMMA FenceKeeps ==
  ASSUME IInv, NEW p \in Workers, Fence(p, job),
         UNCHANGED <<selected, copy, rights, offered, user>>,
         forced' \in [Tabs -> BOOLEAN], count' \in [Bounds -> Nat]
  PROVE  IInv'
<1>1. Base
  BY DEF IInv
<1>2. PICK jobs, j : /\ jobs = Stale(NotAfter(job, selected))
                     /\ j = [Idle EXCEPT !.at = "capturing"]
                     /\ job' = [jobs EXCEPT ![p] = j]
  BY DEF Fence
<1>3. PICK after : after = NotAfter(job, selected)
  OBVIOUS
<1>4. /\ after \in [Workers -> JobType]
      /\ \A q \in Workers :
           /\ after[q].at = job[q].at /\ after[q].of = job[q].of
           /\ after[q].grant = job[q].grant /\ after[q].fresh = job[q].fresh
           /\ after[q].token = job[q].token
           /\ job[q].at \in Checked => after[q].after = job[q].after
  BY <1>1, <1>3, NotAfterSays DEF Base
<1>5. /\ jobs \in [Workers -> JobType]
      /\ \A q \in Workers :
           /\ jobs[q].at = after[q].at /\ jobs[q].of = after[q].of
           /\ jobs[q].grant = after[q].grant /\ jobs[q].after = after[q].after
           /\ jobs[q].fresh = after[q].fresh /\ ~jobs[q].current
           /\ jobs[q].token = after[q].token
  BY <1>2, <1>3, <1>4, StaleSays
<1>6. \A q \in Workers \ {p} : Fenced(job[q], jobs[q])
  BY <1>4, <1>5 DEF Fenced
<1>7. /\ j \in JobType /\ j.at = "capturing" /\ ~j.current
      /\ Good(p, j)'
  <2>1. Idle \in JobType /\ Idle.current = FALSE /\ "capturing" \in Stages
    BY IdleIsGood DEF Good, JobOK, Idle, Stages
  <2>2. j \in JobType /\ j.at = "capturing" /\ ~j.current
    BY <1>2, <2>1, Stages1
  <2> QED BY <2>2, MovesNext DEF Quiet, Unowned
<1>8. Freed(row')
  BY <1>1, LeaveSays DEF Fence, Base
<1>9. job' \in [Workers -> JobType]
  BY <1>2, <1>5, <1>7
<1>10. Base'
  BY <1>1, <1>8, <1>9 DEF Base, Freed
<1>11. NoneReadied
  BY DEF NoneReadied
<1> QED BY <1>2, <1>5, <1>6, <1>7, <1>8, <1>10, <1>11, AllFenced

LEMMA LockOfflineKeeps ==
  ASSUME IInv, NEW t \in Tabs, LockOffline(t)
  PROVE  IInv'
<1>1. Doer(t, "lock", "locks") \in Workers
  BY Doers DEF LockOffline, IInv, Base
<1>2. count' \in [Bounds -> Nat] /\ forced' \in [Tabs -> BOOLEAN]
  BY <1>1, Before1, Ticks DEF LockOffline, Bounds
<1> QED BY <1>1, <1>2, FenceKeeps DEF LockOffline, server

LEMMA RenewRefusedKeeps ==
  ASSUME IInv, NEW p \in Workers, RenewRefused(p)
  PROVE  IInv'
<1>1. count' \in [Bounds -> Nat] /\ forced' \in [Tabs -> BOOLEAN]
  BY Before1 DEF RenewRefused
<1>2. CASE job[p].current /\ row[job[p].of].grant # NoGrant
  BY <1>1, <1>2, FenceKeeps DEF RenewRefused, server
<1>3. CASE ~(job[p].current /\ row[job[p].of].grant # NoGrant)
  BY <1>1, <1>3, GoesIdle DEF RenewRefused, server, Still
<1> QED BY <1>2, <1>3

LEMMA EditBeginKeeps ==
  ASSUME IInv, NEW t \in Tabs, EditBegin(t)
  PROVE  IInv'
<1>0. PICK p \in Workers : p = Doer(t, "edit", "edits")
  BY Doers DEF EditBegin, IInv, Base
<1>1. /\ Base /\ count' \in [Bounds -> Nat]
      /\ UNCHANGED <<selected, rights, offered, user, forced>>
  BY Before1, Ticks DEF EditBegin, Bounds, server
<1>2. PICK jobs, j : /\ jobs = Stale(Outrun(job))
                     /\ j = [Idle EXCEPT !.at = "fencing"]
                     /\ job' = [jobs EXCEPT ![p] = j]
  BY <1>0 DEF EditBegin
<1>3. PICK outrun : outrun = Outrun(job)
  OBVIOUS
<1>4. /\ outrun \in [Workers -> JobType]
      /\ \A q \in Workers :
           /\ outrun[q].at = job[q].at /\ outrun[q].of = job[q].of
           /\ outrun[q].grant = job[q].grant /\ outrun[q].after = job[q].after
           /\ outrun[q].token = job[q].token
           /\ job[q].at \in Checked => outrun[q].fresh = job[q].fresh
  BY <1>1, <1>3, OutrunSays DEF Base
<1>5. /\ jobs \in [Workers -> JobType]
      /\ \A q \in Workers :
           /\ jobs[q].at = outrun[q].at /\ jobs[q].of = outrun[q].of
           /\ jobs[q].grant = outrun[q].grant /\ jobs[q].after = outrun[q].after
           /\ jobs[q].fresh = outrun[q].fresh /\ ~jobs[q].current
           /\ jobs[q].token = outrun[q].token
  BY <1>2, <1>3, <1>4, StaleSays
<1>6. \A q \in Workers \ {p} : Fenced(job[q], jobs[q])
  BY <1>4, <1>5 DEF Fenced
<1>7. j \in JobType /\ Good(p, j)'
  <2>1. Idle \in JobType /\ Idle.current = FALSE /\ "fencing" \in Stages
    BY IdleIsGood DEF Good, JobOK, Idle, Stages
  <2>2. j \in JobType /\ j.at = "fencing" /\ ~j.current
    BY <1>2, <2>1, Stages1
  <2> QED BY <2>2, MovesNext DEF Quiet, Unowned
<1>8. Freed(row')
  BY <1>1, UnbindSays DEF EditBegin, Base
<1>9. job' \in [Workers -> JobType]
  BY <1>1, <1>2, <1>5, <1>7
<1>11. /\ copy' \in [Accounts -> [Years -> CopyType]]
       /\ NoneReadied
  <2>1. ASSUME NEW u \in Accounts, NEW y \in Years
        PROVE  /\ [copy[u][y] EXCEPT !.fresh = FALSE] \in CopyType
               /\ [copy[u][y] EXCEPT !.fresh = FALSE].ready = copy[u][y].ready
               /\ [copy[u][y] EXCEPT !.fresh = FALSE].dropped = copy[u][y].dropped
    <3>1. copy[u][y] \in CopyType
      BY <1>1 DEF Base
    <3> QED BY <3>1 DEF CopyType
  <2> QED BY <2>1 DEF EditBegin, NoneReadied
<1>10. Base'
  BY <1>1, <1>8, <1>9, <1>11 DEF Base, Freed
<1> QED BY <1>1, <1>2, <1>5, <1>6, <1>7, <1>8, <1>10, <1>11, AllFenced

LEMMA LockedSays ==
  ASSUME row \in [Accounts -> RowType], NEW u \in Accounts,
         row' = [row EXCEPT ![u] = Locked(@)]
  PROVE  /\ row' \in [Accounts -> RowType] /\ row'[u].status = "locked"
         /\ \A v \in Accounts : /\ v # u => row'[v] = row[v]
                                /\ row'[v].grant = row[v].grant
                                /\ row'[v].bound = row[v].bound
<1>1. PICK r : r = Locked(row[u])
  OBVIOUS
<1>2. row[u] \in RowType /\ row' = [row EXCEPT ![u] = r]
  BY <1>1
<1>3. r \in RowType /\ r.status = "locked" /\ r.grant = row[u].grant /\ r.bound = row[u].bound
  BY <1>1, <1>2 DEF Locked, RowType
<1> QED BY <1>2, <1>3

\* The row of u is locked: no token of its jobs matches any more.
LEMMA LockedStep ==
  ASSUME IInv, NEW u \in Accounts, row' = [row EXCEPT ![u] = Locked(@)],
         UNCHANGED <<selected, copy, rights, offered, user, forced>>,
         count' \in [Bounds -> Nat], job' \in [Workers -> JobType]
  PROVE  /\ Rows' /\ Base'
         /\ \A q \in Workers : job'[q] = Outdate(job, u)[q] => Good(q, job[q])'
<1>1. Base
  BY DEF IInv
<1>2. /\ row' \in [Accounts -> RowType] /\ row'[u].status = "locked"
      /\ \A v \in Accounts : /\ v # u => row'[v] = row[v]
                             /\ row'[v].grant = row[v].grant
                             /\ row'[v].bound = row[v].bound
  BY <1>1, LockedSays DEF Base
<1>3. Base'
  BY <1>1, <1>2 DEF Base
<1>4. ASSUME NEW v \in Accounts PROVE RowOK(v)' /\ CopyOK(v)'
  <2>1. RowOK(v) /\ CopyOK(v)
    BY DEF IInv, Rows
  <2>2. RowOK(v)'
    <3>1. CASE v = u
      BY <1>2, <2>1, <3>1 DEF RowOK
    <3>2. CASE v # u
      BY <1>2, <2>1, <3>2 DEF RowOK
    <3> QED BY <3>1, <3>2
  <2>3. CopyOK(v)'
    BY <1>2, <2>1 DEF CopyOK
  <2> QED BY <2>2, <2>3
<1>5. ASSUME NEW q \in Workers, job'[q] = Outdate(job, u)[q]
      PROVE  Good(q, job[q])'
  <2>1. PICK j : j = Outdate(job, u)[q]
    OBVIOUS
  <2>2. /\ j \in JobType /\ j.at = job[q].at /\ j.of = job[q].of /\ j.grant = job[q].grant
        /\ j.after = job[q].after /\ j.fresh = job[q].fresh /\ j.current = job[q].current
        /\ j.token => job[q].token /\ job[q].of # u
    BY <1>1, <2>1, OutdateSays DEF Base
  <2>3. Onward(job[q], job'[q])
    BY <1>2, <1>5, <2>1, <2>2 DEF Onward
  <2>4. CopiesOnward
    BY DEF CopiesOnward
  <2> QED BY <2>3, <2>4, GoesOnward
<1> QED BY <1>3, <1>4, <1>5 DEF Rows

LEMMA LockRowKeeps ==
  ASSUME IInv, NEW p \in Workers, LockRow(p)
  PROVE  IInv'
<1> DEFINE u == job[p].of
<1>1. /\ Base /\ u \in Accounts /\ UNCHANGED <<selected, copy, rights, offered, user, forced>>
      /\ forced' \in [Tabs -> BOOLEAN] /\ count' \in [Bounds -> Nat]
  BY Before1 DEF LockRow, server, JobOK, Unowned
<1>2. CASE ~job[p].token
  BY <1>1, <1>2, GoesIdle DEF LockRow, Still
<1>3. CASE job[p].token
  <2>1. PICK jobs : jobs = Outdate(job, u)
    OBVIOUS
  <2>2. jobs \in [Workers -> JobType]
    BY <1>1, <2>1, OutdateSays DEF Base
  <2>3. job' = [jobs EXCEPT ![p] = Idle] /\ row' = [row EXCEPT ![u] = Locked(@)]
    BY <1>3, <2>1 DEF LockRow
  <2>4. /\ job' \in [Workers -> JobType] /\ job'[p] = Idle
        /\ \A q \in Workers \ {p} : job'[q] = jobs[q]
    BY <2>2, <2>3, IdleIsGood DEF Good, JobOK
  <2> HIDE DEF u
  <2>5. /\ Rows' /\ Base'
        /\ \A q \in Workers : job'[q] = Outdate(job, u)[q] => Good(q, job[q])'
    BY <1>1, <2>3, <2>4, LockedStep
  <2>6. Good(p, job[p])'
    BY <2>4, IdleNext DEF Good, JobOK, Known
  <2>7. \A q \in Workers : Good(q, job[q])'
    BY <2>1, <2>4, <2>5, <2>6
  <2> QED BY <2>5, <2>7 DEF IInv
<1> QED BY <1>2, <1>3

LEMMA ExpireKeeps ==
  ASSUME IInv, NEW u \in Accounts, Expire(u)
  PROVE  IInv'
<1>1. Base /\ count \in [Bounds -> Nat]
  BY DEF IInv, Base
<1>2. /\ UNCHANGED <<selected, copy, rights, offered, user, forced>>
      /\ count' \in [Bounds -> Nat] /\ row' = [row EXCEPT ![u] = Locked(@)]
      /\ job' = Outdate(job, u)
  BY <1>1, Ticks DEF Expire, server, Bounds
<1>3. job' \in [Workers -> JobType]
  BY <1>1, <1>2, OutdateSays DEF Base
<1> QED BY <1>2, <1>3, LockedStep DEF IInv

LEMMA LoseContextSays ==
  ASSUME NEW jobs \in [Workers -> JobType], NEW t
  PROVE  /\ LoseContext(jobs, t) \in [Workers -> JobType]
         /\ \A q \in Workers : LET i == jobs[q] j == LoseContext(jobs, t)[q] IN
              /\ j.at = i.at /\ j.of = i.of /\ j.grant = i.grant /\ j.after = i.after
              /\ j.fresh = i.fresh /\ j.token = i.token /\ (j.current => i.current)
<1>1. ASSUME NEW q \in Workers
      PROVE  LET i == jobs[q] j == LoseContext(jobs, t)[q] IN
              /\ j \in JobType
              /\ j.at = i.at /\ j.of = i.of /\ j.grant = i.grant /\ j.after = i.after
              /\ j.fresh = i.fresh /\ j.token = i.token /\ (j.current => i.current)
  BY DEF LoseContext, JobType
<1>2. LoseContext(jobs, t) = [q \in Workers |-> LoseContext(jobs, t)[q]]
  BY DEF LoseContext
<1> QED BY <1>1, <1>2

LEMMA SelectAccountKeeps ==
  ASSUME IInv, NEW t \in Tabs, NEW u \in Accounts \union {None}, SelectAccount(t, u)
  PROVE  IInv'
<1>0. PICK p \in Workers : p = Doer(t, "switch", "switches")
  BY Doers DEF SelectAccount, IInv, Base
<1>1. /\ Base /\ count' \in [Bounds -> Nat]
      /\ UNCHANGED <<copy, rights, offered, forced>>
      /\ selected' = u /\ user' = [user EXCEPT ![t] = u]
  <2>1. Base /\ count \in [Bounds -> Nat]
    BY DEF IInv, Base
  <2> QED BY <2>1, Ticks DEF SelectAccount, Bounds, server
<1>2. user' \in [Tabs -> Accounts \union {None}]
  BY <1>1 DEF Base
<1>4. CASE selected = u
  <2>1. row' = row /\ job' = LoseContext(job, t)
    BY <1>4 DEF SelectAccount
  <2>2. /\ job' \in [Workers -> JobType]
        /\ \A q \in Workers :
             /\ job'[q].at = job[q].at /\ job'[q].of = job[q].of
             /\ job'[q].grant = job[q].grant /\ job'[q].after = job[q].after
             /\ job'[q].fresh = job[q].fresh /\ job'[q].token = job[q].token
             /\ job'[q].current => job[q].current
    BY <1>1, <2>1, LoseContextSays DEF Base
  <2>3. Base'
    BY <1>1, <1>2, <2>1, <2>2 DEF Base
  <2>4. Rows' /\ CopiesOnward
    BY <1>1, <1>4, <2>1, RowsStay
  <2>5. ASSUME NEW q \in Workers PROVE Good(q, job[q])'
    <3>1. Onward(job[q], job'[q])
      BY <2>1, <2>2 DEF Onward
    <3> QED BY <1>1, <1>4, <2>4, <3>1, GoesOnward
  <2> QED BY <2>3, <2>4, <2>5 DEF IInv
<1>5. ASSUME selected # u, job' \in [Workers -> JobType]
      PROVE  Rows' /\ Base' /\ (\A v \in Accounts : ~row'[v].bound)
  <2>1. Freed(row')
    BY <1>1, <1>5, LeaveSays DEF SelectAccount, Base
  <2>2. Base'
    BY <1>1, <1>2, <1>5, <2>1 DEF Base, Freed
  <2>3. Rows'
    BY <1>1, <2>1, FreedRows DEF NoneReadied
  <2> QED BY <2>1, <2>2, <2>3 DEF Freed
<1>6. CASE selected # u /\ selected = None
  <2>1. job' = Stale(job)
    BY <1>6 DEF SelectAccount
  <2>2. /\ job' \in [Workers -> JobType]
        /\ \A q \in Workers :
             /\ job'[q].at = job[q].at /\ job'[q].of = job[q].of
             /\ job'[q].grant = job[q].grant /\ job'[q].after = job[q].after
             /\ job'[q].fresh = job[q].fresh /\ ~job'[q].current
             /\ job'[q].token = job[q].token
    BY <1>1, <2>1, StaleSays DEF Base
  <2>3. ASSUME NEW q \in Workers PROVE Good(q, job[q])'
    <3>1. Fenced(job[q], job'[q])
      BY <2>2 DEF Fenced
    <3> QED BY <1>5, <1>6, <2>2, <3>1, GoesFenced
  <2> QED BY <1>5, <1>6, <2>2, <2>3 DEF IInv
<1>7. CASE selected # u /\ selected # None
  <2>1. PICK jobs, j : /\ jobs = Stale(NotAfter(job, selected))
                       /\ j = [Idle EXCEPT !.at = "leaving", !.of = selected]
                       /\ job' = [jobs EXCEPT ![p] = j]
    BY <1>0, <1>7 DEF SelectAccount
  <2>2. PICK after : after = NotAfter(job, selected)
    OBVIOUS
  <2>3. /\ after \in [Workers -> JobType]
        /\ \A q \in Workers :
             /\ after[q].at = job[q].at /\ after[q].of = job[q].of
             /\ after[q].grant = job[q].grant /\ after[q].fresh = job[q].fresh
             /\ after[q].token = job[q].token
             /\ job[q].at \in Checked => after[q].after = job[q].after
    BY <1>1, <2>2, NotAfterSays DEF Base
  <2>4. /\ jobs \in [Workers -> JobType]
        /\ \A q \in Workers :
             /\ jobs[q].at = after[q].at /\ jobs[q].of = after[q].of
             /\ jobs[q].grant = after[q].grant /\ jobs[q].after = after[q].after
             /\ jobs[q].fresh = after[q].fresh /\ ~jobs[q].current
             /\ jobs[q].token = after[q].token
    BY <2>1, <2>2, <2>3, StaleSays
  <2>5. \A q \in Workers \ {p} : Fenced(job[q], jobs[q])
    BY <2>3, <2>4 DEF Fenced
  <2>6. selected \in Accounts
    BY <1>1, <1>7 DEF Base
  <2>7. j \in JobType /\ j.at = "leaving" /\ j.of = selected /\ ~j.current
    <3>1. Idle \in JobType /\ Idle.current = FALSE /\ "leaving" \in Stages
      BY IdleIsGood DEF Good, JobOK, Idle, Stages
    <3> QED BY <2>1, <2>6, <3>1 DEF JobType
  <2>8. Good(p, j)'
    BY <2>6, <2>7, MovesNext DEF Quiet
  <2>9. Freed(row')
    BY <1>1, <1>7, LeaveSays DEF SelectAccount, Base
  <2>10. job' \in [Workers -> JobType]
    BY <2>1, <2>4, <2>7
  <2>11. Base' /\ NoneReadied
    BY <1>1, <1>5, <1>7, <2>10 DEF NoneReadied
  <2> QED BY <1>1, <2>1, <2>4, <2>5, <2>8, <2>9, <2>11, AllFenced
<1> QED BY <1>4, <1>6, <1>7

LEMMA CrashKeeps ==
  ASSUME IInv, NEW t \in Tabs, Crash(t)
  PROVE  IInv'
<1>1. /\ Base /\ UNCHANGED <<selected, row, copy, rights, offered>>
      /\ user' = [user EXCEPT ![t] = None] /\ forced' = [forced EXCEPT ![t] = FALSE]
      /\ job' = [q \in Workers |-> IF q[1] = t THEN Idle ELSE job[q]]
      /\ count' \in [Bounds -> Nat]
  <2>1. Base /\ count \in [Bounds -> Nat]
    BY DEF IInv, Base
  <2> QED BY <2>1, Ticks DEF Crash, server, TabOf, Bounds
<1>2. job' \in [Workers -> JobType]
  BY <1>1, IdleIsGood DEF Base, Good, JobOK
<1>3. Base'
  BY <1>1, <1>2 DEF Base
<1>4. Rows' /\ CopiesOnward
  BY <1>1, RowsStay
<1>5. ASSUME NEW q \in Workers PROVE Good(q, job[q])'
  <2>1. CASE q[1] = t
    <3>1. job'[q] = Idle
      BY <1>1, <2>1
    <3> QED BY <3>1, IdleNext DEF Good, JobOK, Known
  <2>2. CASE q[1] # t
    <3>1. job'[q] = job[q] /\ job[q] \in JobType
      BY <1>1, <2>2 DEF Base
    <3>2. Onward(job[q], job'[q])
      BY <1>1, <3>1 DEF Onward
    <3> QED BY <1>1, <1>4, <3>1, <3>2, GoesOnward
  <2> QED BY <2>1, <2>2
<1> QED BY <1>3, <1>4, <1>5 DEF IInv

LEMMA EditLocksKeeps ==
  ASSUME IInv, NEW p \in Workers, EditLocks(p)
  PROVE  IInv'
<1> DEFINE u == selected
           Y == IF u = None THEN {} ELSE row[u].grant.years
           next == [job EXCEPT ![p].at = "sending"]
<1>1. /\ job[p].at = "fencing" /\ Base /\ job[p] \in JobType
      /\ UNCHANGED <<selected, row, rights, offered, user, forced, count>>
  BY Before1 DEF EditLocks, server
<1>2. /\ next \in [Workers -> JobType] /\ next[p].at = "sending"
      /\ next[p].of = job[p].of /\ next[p].current = job[p].current
      /\ \A q \in Workers \ {p} : next[q] = job[q]
  <2>1. PICK j : j = [job[p] EXCEPT !.at = "sending"]
    OBVIOUS
  <2>2. "sending" \in Stages
    BY DEF Stages
  <2>3. j \in JobType /\ j.at = "sending" /\ j.of = job[p].of /\ j.current = job[p].current
    BY <1>1, <2>1, <2>2, Stages1
  <2>4. next = [job EXCEPT ![p] = j] /\ job \in [Workers -> JobType]
    BY <1>1, <2>1 DEF Base
  <2> HIDE DEF next
  <2> QED BY <2>3, <2>4
<1>3. /\ copy' \in [Accounts -> [Years -> CopyType]]
      /\ \A v \in Accounts, y \in Years :
           copy'[v][y].ready => /\ copy[v][y].ready /\ copy'[v][y].fresh = copy[v][y].fresh
                               /\ copy'[v][y].dropped = copy[v][y].dropped
  <2>1. CASE u = None
    BY <1>1, <2>1 DEF EditLocks, Base
  <2>2. CASE u # None
    <3>1. copy' = LockCopies(copy, u, Y) /\ u \in Accounts
      BY <1>1, <2>2 DEF EditLocks, Base
    <3> QED BY <1>1, <3>1, LockCopiesSays DEF Base
  <2> QED BY <2>1, <2>2
<1>4. job' = next \/ job' = Overtake(next, u, Y)
  BY DEF EditLocks
<1> HIDE DEF next
<1>5. /\ job' \in [Workers -> JobType]
      /\ \A q \in Workers :
           /\ job'[q].at = next[q].at /\ job'[q].of = next[q].of
           /\ job'[q].grant = next[q].grant /\ job'[q].after = next[q].after
           /\ job'[q].fresh = next[q].fresh /\ job'[q].current = next[q].current
           /\ job'[q].token = next[q].token
  BY <1>2, <1>4, OvertakeSays
<1>6. Rows' /\ CopiesOnward
  BY <1>1, <1>3, RowsStay
<1>7. Base'
  BY <1>1, <1>3, <1>5 DEF Base
<1>8. ASSUME NEW q \in Workers \ {p} PROVE Good(q, job[q])'
  <2>1. Onward(job[q], job'[q])
    BY <1>1, <1>2, <1>5 DEF Onward
  <2> QED BY <1>1, <1>6, <2>1, GoesOnward
<1>9. Good(p, job[p])'
  <2>1. PICK j : j = job'[p]
    OBVIOUS
  <2>2. j \in JobType /\ j.at = "sending" /\ j.of = job[p].of /\ j.current = job[p].current
    BY <1>2, <1>5, <2>1
  <2>3. j.current => j.of = selected' /\ j.of \in Accounts
    BY <1>1, <2>2, Before1 DEF JobOK
  <2>4. Good(p, j)'
    BY <2>2, <2>3, MovesNext DEF Quiet, Unowned
  <2> QED BY <2>1, <2>4 DEF Good, JobOK, Known
<1> QED BY <1>6, <1>7, <1>8, <1>9 DEF IInv

LEMMA ServerWritesKeeps ==
  ASSUME IInv, NEW p \in Workers, ServerWrites(p)
  PROVE  IInv'
<1>1. /\ job[p].at = "sending" /\ Base
      /\ UNCHANGED <<selected, row, rights, offered, user, forced, count>>
  BY Before1 DEF ServerWrites, server
<1>2. PICK jobs : jobs = [q \in Workers |-> [job[q] EXCEPT !.saved = FALSE]]
  OBVIOUS
<1>3. /\ jobs \in [Workers -> JobType]
      /\ \A q \in Workers :
           /\ jobs[q].at = job[q].at /\ jobs[q].of = job[q].of
           /\ jobs[q].grant = job[q].grant /\ jobs[q].after = job[q].after
           /\ jobs[q].fresh = job[q].fresh /\ jobs[q].current = job[q].current
           /\ jobs[q].token = job[q].token
  <2> SUFFICES ASSUME NEW q \in Workers
               PROVE  /\ jobs[q] \in JobType
                      /\ jobs[q].at = job[q].at /\ jobs[q].of = job[q].of
                      /\ jobs[q].grant = job[q].grant /\ jobs[q].after = job[q].after
                      /\ jobs[q].fresh = job[q].fresh /\ jobs[q].current = job[q].current
                      /\ jobs[q].token = job[q].token
    BY <1>2
  <2>1. job[q] \in JobType
    BY <1>1 DEF Base
  <2> QED BY <1>2, <2>1 DEF JobType
<1>4. PICK j : j = [jobs[p] EXCEPT !.at = "answering"] /\ job' = [jobs EXCEPT ![p] = j]
  BY <1>2, <1>3 DEF ServerWrites
<1>5. j \in JobType /\ j.at = "answering" /\ j.of = job[p].of /\ j.current = job[p].current
  <2>1. jobs[p] \in JobType /\ "answering" \in Stages
    BY <1>3 DEF Stages
  <2> QED BY <1>3, <1>4, <2>1, Stages1
<1>6. Good(p, j)'
  <2>1. j.current => j.of = selected' /\ j.of \in Accounts
    BY <1>1, <1>5, Before1 DEF JobOK
  <2> QED BY <1>5, <2>1, MovesNext DEF Quiet, Unowned
<1>7. /\ job' \in [Workers -> JobType] /\ job'[p] = j
      /\ \A q \in Workers \ {p} : job'[q] = jobs[q]
  BY <1>3, <1>4, <1>5
<1>8. /\ copy' \in [Accounts -> [Years -> CopyType]]
      /\ \A v \in Accounts, y \in Years :
           copy'[v][y].ready => /\ copy[v][y].ready /\ copy'[v][y].fresh = copy[v][y].fresh
                               /\ copy'[v][y].dropped = copy[v][y].dropped
  <2>1. ASSUME NEW v \in Accounts, NEW y \in Years
        PROVE  /\ [copy[v][y] EXCEPT !.saved = FALSE] \in CopyType
               /\ [copy[v][y] EXCEPT !.saved = FALSE].ready = copy[v][y].ready
               /\ [copy[v][y] EXCEPT !.saved = FALSE].fresh = copy[v][y].fresh
               /\ [copy[v][y] EXCEPT !.saved = FALSE].dropped = copy[v][y].dropped
    <3>1. copy[v][y] \in CopyType
      BY <1>1 DEF Base
    <3> QED BY <3>1 DEF CopyType
  <2> QED BY <2>1 DEF ServerWrites
<1>9. Rows' /\ CopiesOnward
  BY <1>1, <1>8, RowsStay
<1>10. ASSUME NEW q \in Workers \ {p} PROVE Good(q, job[q])'
  <2>1. Onward(job[q], job'[q])
    BY <1>1, <1>3, <1>7 DEF Onward
  <2> QED BY <1>1, <1>9, <2>1, GoesOnward
<1>11. Base'
  BY <1>1, <1>7, <1>8 DEF Base
<1> QED BY <1>6, <1>7, <1>9, <1>10, <1>11 DEF IInv, Good, JobOK, Known

\* Nothing changes but the server's view of rights and years, and counters.
LEMMA Untouched ==
  ASSUME IInv, UNCHANGED <<selected, row, copy, user, job>>, Base'
  PROVE  IInv'
<1>1. Rows'
  BY RowsStay
<1>2. ASSUME NEW q \in Workers PROVE Good(q, job[q])'
  BY DEF IInv, Good, JobOK, Known
<1> QED BY <1>1, <1>2 DEF IInv

LEMMA ChangeRightsKeeps ==
  ASSUME IInv, NEW u \in Accounts, ChangeRights(u)
  PROVE  IInv'
<1>1. Base
  BY DEF IInv
<1>2. /\ UNCHANGED <<selected, row, copy, offered, user, forced, job>>
      /\ count' \in [Bounds -> Nat]
  BY <1>1, Ticks DEF ChangeRights, Base, Bounds
<1>3. PICK g \in Generations \union {Refused} : rights' = [rights EXCEPT ![u] = g]
  BY DEF ChangeRights
<1>4. Base'
  BY <1>1, <1>2, <1>3 DEF Base
<1> QED BY <1>2, <1>4, Untouched

LEMMA ChangeOfferKeeps ==
  ASSUME IInv, ChangeOffer
  PROVE  IInv'
<1>1. Base
  BY DEF IInv
<1>2. /\ UNCHANGED <<selected, row, copy, rights, user, forced, job>>
      /\ count' \in [Bounds -> Nat] /\ offered' \subseteq Years
  BY <1>1, Ticks DEF ChangeOffer, Base, Bounds
<1>3. Base'
  BY <1>1, <1>2 DEF Base
<1> QED BY <1>2, <1>3, Untouched

LEMMA NextKeeps == IInv /\ [Next]_vars => IInv'
<1> SUFFICES ASSUME IInv, [Next]_vars PROVE IInv'
  OBVIOUS
<1>1. ASSUME NEW t \in Tabs,
             \/ RenewStart(t) \/ LockOffline(t) \/ EditBegin(t) \/ ReadStart(t) \/ Crash(t)
             \/ \E u \in Accounts \union {None} : SelectAccount(t, u)
      PROVE  IInv'
  BY <1>1, RenewStartKeeps, LockOfflineKeeps, EditBeginKeeps, ReadStartKeeps, CrashKeeps,
     SelectAccountKeeps
<1>2. ASSUME NEW p \in Workers, RenewStep(p) PROVE IInv'
  BY <1>2, ServerGrantKeeps, RetireKeeps, EnrollKeeps, ChooseKeeps, ReserveKeeps,
     ServerSnapshotKeeps, ActivateKeeps, RenewRefusedKeeps, GoingIdleKeeps DEF RenewStep
<1>3. ASSUME NEW p \in Workers, LockStep(p) PROVE IInv'
  BY <1>3, CaptureLockKeeps, LockRowKeeps, LeaveKeeps DEF LockStep
<1>4. ASSUME NEW p \in Workers, EditStep(p) PROVE IInv'
  BY <1>4, EditLocksKeeps, ServerWritesKeeps, GoingIdleKeeps DEF EditStep
<1>5. ASSUME NEW p \in Workers, ReadStep(p) PROVE IInv'
  BY <1>5, AuthorizeKeeps, ReadCopyKeeps, RecheckKeeps, ServeKeeps, GoingIdleKeeps DEF ReadStep
<1>6. ASSUME NEW p \in Workers, RenewFails(p) PROVE IInv'
  BY <1>6, GoingIdleKeeps
<1>7. ASSUME NEW u \in Accounts, Expire(u) \/ ChangeRights(u) PROVE IInv'
  BY <1>7, ExpireKeeps, ChangeRightsKeeps
<1>8. CASE ChangeOffer
  BY <1>8, ChangeOfferKeeps
<1>9. CASE UNCHANGED vars
  <2>1. Base'
    BY <1>9 DEF IInv, Base, vars
  <2> QED BY <1>9, <2>1, Untouched DEF vars
<1> QED BY <1>1, <1>2, <1>3, <1>4, <1>5, <1>6, <1>7, <1>8, <1>9 DEF Next, Step

-----------------------------------------------------------------------------

\* Types, and the row bound to the selection is the selected account's
\* (selectAccount, enroll).
THEOREM TypeCorrect == Spec => []TypeOK
<1>1. Init => IInv
  BY Started
<1>2. IInv /\ [Next]_vars => IInv'
  BY NextKeeps
<1>3. IInv => TypeOK
  BY IInvSays
<1> QED BY <1>1, <1>2, <1>3, PTL DEF Spec

\* No grant that was asked for before a lock or a switch of accounts gives
\* access afterwards (lockOffline, selectAccount, access.enroll).
THEOREM LocksHold == Spec => []LockHolds
<1>1. Init => IInv
  BY Started
<1>2. IInv /\ [Next]_vars => IInv'
  BY NextKeeps
<1>3. IInv => LockHolds
  BY IInvSays
<1> QED BY <1>1, <1>2, <1>3, PTL DEF Spec

\* No copy from before the last edit can be read, whoever edits and dies
\* (invalidateReads, retireUnboundScopes), but one that a later grant of its
\* account has left out; however the server changes the years it grants.
THEOREM EditsOutrunCopies == Spec => []NoCopyFromBeforeEdit
<1>1. Init => IInv
  BY Started
<1>2. IInv /\ [Next]_vars => IInv'
  BY NextKeeps
<1>3. IInv => NoCopyFromBeforeEdit
  BY CopiesSay
<1> QED BY <1>1, <1>2, <1>3, PTL DEF Spec

\* A read is served from a copy no edit had outrun (with the same exception) and
\* from access no lock and no switch had outrun when it last checked its context
\* (local, isCurrent), whatever the tab's own account does in the meantime.
THEOREM ReadsAreCurrent == Spec => []ServedReadsAreCurrent
<1>1. Init => IInv
  BY Started
<1>2. IInv /\ [Next]_vars => IInv'
  BY NextKeeps
<1>3. IInv => ServedReadsAreCurrent
  BY CopiesSay
<1> QED BY <1>1, <1>2, <1>3, PTL DEF Spec
=============================================================================
