-------------------------- MODULE SessionFamilies --------------------------
(***************************************************************************)
(* Session families of najm-auth: the durable row of a session, the cache  *)
(* markers that vouch for or revoke it, and the requests that move between *)
(* the two.  Every await of the code is a step here, so requests           *)
(* interleave exactly where the server lets them.                          *)
(*                                                                         *)
(* The code is TokenService, TokenRepository, SessionInvalidationService   *)
(* and AuthSessionService (src/packages/najm-auth/src).                    *)
(*                                                                         *)
(* A family is one browser session.  Its refresh tokens are numbered: a    *)
(* login issues token 1 and each rotation replaces token n by token n + 1, *)
(* which the server can rebuild from token n.                              *)
(***************************************************************************)
EXTENDS Naturals, FiniteSets

CONSTANTS
    Users,
    Families,    \* family identifiers: fresh random ids, never reused
    OwnerOf,     \* [Families -> Users], fixed when the id is drawn
    Requests,    \* slots for requests being served at the same time
    NoUser, NoFamily,
    Workload,    \* bound: the operations clients ask for
    MaxToken,    \* bound: a refresh token with this number is not presented
    MaxChanges,  \* bound: account changes and fallback logouts that start
    MaxLosses,   \* bound: times the cache loses keys
    MaxDeaths,   \* bound: requests that die half way
    MaxLapses    \* bound: rows whose expiry passes

ASSUME OwnerAssumption == OwnerOf \in [Families -> Users]
ASSUME NoFamilyAssumption == NoFamily \notin Families
ASSUME NoUserAssumption == NoUser \notin Users
ASSUME BoundsAssumption ==
    /\ MaxToken \in Nat
    /\ MaxChanges \in Nat
    /\ MaxLosses \in Nat
    /\ MaxDeaths \in Nat
    /\ MaxLapses \in Nat

VARIABLES
    account,   \* the user record: revision of role, permissions, status...
    row,       \* the refresh-token row of each family
    closed,    \* tokens up to this number are past the 120 second grace
    lapsed,    \* families whose row is past its expiresAt
    live,      \* families with a liveness marker in the cache
    marked,    \* families with a revocation marker in the cache
    version,   \* session version of each user, 0 without a key
    intx,      \* users with an open transaction on their record
    locked,    \* rows an open transaction has revoked but not committed
    req,       \* the request served in each slot
    dead,      \* slots whose request died and never finishes
    creds,     \* access tokens and session snapshots handed to a client
    held,      \* refresh tokens handed to a client
    born,      \* session version the login of a family captured
    barrier,   \* version of the latest finished full invalidation
    count      \* changes, cache losses and expiries so far

cacheVars == <<live, marked, version>>
rowVars   == <<row, lapsed, born>>
dbVars    == <<account, row, lapsed, intx, locked, born>>
handVars  == <<creds, held>>
vars == <<account, row, closed, lapsed, live, marked, version, intx, locked,
          req, dead, creds, held, born, barrier, count>>

NoToken == 0
NoRow   == [token |-> NoToken, prev |-> NoToken]

Idle == [op |-> "none", pc |-> "idle", user |-> NoUser, fam |-> NoFamily,
         tok |-> NoToken, seen |-> NoRow, ver |-> 0, claims |-> 0,
         todo |-> {}, clear |-> {}, full |-> FALSE, tx |-> FALSE,
         off |-> FALSE]

Ops == {"none", "login", "refresh", "serve", "recover", "logout",
        "invalidate"}
Steps == {"idle", "read", "allowed", "account", "sweep", "version", "claims",
          "assert", "write", "reread", "live", "check", "withdraw",
          "assert2", "lastlogin", "marks", "tomb", "incr", "revokeAll",
          "commit"}

Seen == [token: Nat, prev: Nat]
Request ==
    [op: Ops, pc: Steps, user: Users \cup {NoUser},
     fam: Families \cup {NoFamily}, tok: Nat, seen: Seen, ver: Nat,
     claims: Nat, todo: SUBSET Families, clear: SUBSET Families,
     full: BOOLEAN, tx: BOOLEAN, off: BOOLEAN]
FamilyOps == {"login", "refresh", "serve", "recover", "logout"}
UserSteps == {"incr", "revokeAll", "marks", "commit"}

\* A free slot has no operation; a request works on a family of its user, or
\* on all families of a user; it has families to mark only while it marks.
WellFormed(q) ==
    /\ q.op = "none" <=> q.pc = "idle"
    /\ q.op \in FamilyOps => /\ q.fam \in Families
                             /\ q.user = OwnerOf[q.fam]
                             /\ q.pc \notin UserSteps \ {"marks"}
                             /\ ~q.tx
    /\ q.op = "invalidate" => /\ q.fam = NoFamily
                              /\ q.user \in Users
                              /\ q.pc \in UserSteps
    /\ q.pc # "marks" => q.todo = {} /\ q.clear = {}

Credential == [family: Families, version: Nat, claims: Nat]
Status == {"unused", "active", "revoked", "deleted"}

TypeOK ==
    /\ account \in [Users -> [claims: Nat, active: BOOLEAN]]
    /\ row \in [Families -> [status: Status, token: Nat, prev: Nat]]
    /\ closed \in [Families -> Nat]
    /\ lapsed \subseteq Families
    /\ live \subseteq Families
    /\ marked \subseteq Families
    /\ version \in [Users -> Nat]
    /\ intx \subseteq Users
    /\ locked \subseteq Families
    /\ req \in [Requests -> Request]
    /\ \A r \in Requests : WellFormed(req[r])
    /\ dead \subseteq Requests
    /\ creds \subseteq Credential
    /\ held \in [Families -> SUBSET Nat]
    /\ born \in [Families -> Nat]
    /\ barrier \in [Users -> Nat]
    /\ count \in [changes: Nat, losses: Nat, lapses: Nat]

Init ==
    /\ account = [u \in Users |-> [claims |-> 0, active |-> TRUE]]
    /\ row = [f \in Families |->
                [status |-> "unused", token |-> NoToken, prev |-> NoToken]]
    /\ closed = [f \in Families |-> 0]
    /\ lapsed = {} /\ live = {} /\ marked = {}
    /\ version = [u \in Users |-> 0]
    /\ intx = {} /\ locked = {}
    /\ req = [r \in Requests |-> Idle]
    /\ dead = {}
    /\ creds = {}
    /\ held = [f \in Families |-> {}]
    /\ born = [f \in Families |-> 0]
    /\ barrier = [u \in Users |-> 0]
    /\ count = [changes |-> 0, losses |-> 0, lapses |-> 0]

-----------------------------------------------------------------------------
(* Lookups the requests share.                                             *)

At(r, step) == r \notin dead /\ req[r].pc = step
Become(r, q) == req' = [req EXCEPT ![r] = q]
Goto(r, step) == Become(r, [req[r] EXCEPT !.pc = step])
Finish(r) == Become(r, Idle)

FamiliesOf(u) == {f \in Families : OwnerOf[f] = u}

\* getByFamily sees committed rows with status active and nothing else.
Visible(f) ==
    IF row[f].status = "active"
    THEN [token |-> row[f].token, prev |-> row[f].prev]
    ELSE NoRow

\* withinGraceWindow, judged at the moment it is called.
WithinGrace(stored, tok, f) ==
    stored.prev # NoToken /\ tok = stored.prev /\ tok > closed[f]

\* verifyAccessToken, and the same test of a session snapshot: one batched
\* read of the version and of both family markers.
Verifies(c) ==
    /\ c.family \in live
    /\ c.family \notin marked
    /\ c.version = version[OwnerOf[c.family]]

\* Begin revokeFamily for the request's own family.
BeginRevoke(r) ==
    Become(r, [req[r] EXCEPT !.pc = "marks", !.todo = {req[r].fam}])

\* A request begins in a free slot.
Begin(r, rec) ==
    /\ r \notin dead
    /\ req[r].op = "none"
    /\ Become(r, rec)

-----------------------------------------------------------------------------
(* Requests begin.                                                         *)

\* AuthSessionService.establish, after the password was verified.  The id
\* drawn for the family is fresh.
StartLogin(r, f) ==
    /\ "login" \in Workload
    /\ row[f].status = "unused"
    /\ \A q \in Requests : req[q].fam # f
    /\ Begin(r, [Idle EXCEPT !.op = "login", !.pc = "version",
                             !.user = OwnerOf[f], !.fam = f])
    /\ UNCHANGED <<dbVars, cacheVars, closed, dead, handVars, barrier, count>>

\* POST /auth/refresh (op "refresh") or a recovery of the signed session (op
\* "recover"): a client presents a refresh token it was handed.  The JWT of a
\* lapsed family fails verification and changes nothing.
StartRefresh(r, op, f, tok) ==
    /\ op \in Workload
    /\ tok \in held[f]
    /\ tok < MaxToken
    /\ f \notin lapsed
    /\ Begin(r, [Idle EXCEPT !.op = op, !.pc = "read", !.user = OwnerOf[f],
                             !.fam = f, !.tok = tok])
    /\ UNCHANGED <<dbVars, cacheVars, closed, dead, handVars, barrier, count>>

\* logout resolves its family from a bearer that verifies or else from a
\* refresh cookie that matches the row...
ResolvesFamily(f) ==
    \/ \E c \in creds : c.family = f /\ Verifies(c)
    \/ \E tok \in held[f] :
         /\ f \notin lapsed
         /\ Visible(f) # NoRow
         /\ tok = Visible(f).token \/ WithinGrace(Visible(f), tok, f)

StartLogout(r, f) ==
    /\ "logout" \in Workload
    /\ ResolvesFamily(f)
    /\ Begin(r, [Idle EXCEPT !.op = "logout", !.pc = "marks",
                             !.user = OwnerOf[f], !.fam = f, !.todo = {f}])
    /\ UNCHANGED <<dbVars, cacheVars, closed, dead, handVars, barrier, count>>

\* ...and ends every session of the user when neither names one.
StartLogoutAll(r, u) ==
    /\ "logout" \in Workload
    /\ count.changes < MaxChanges
    /\ Begin(r, [Idle EXCEPT !.op = "invalidate", !.pc = "incr",
                             !.user = u, !.full = TRUE])
    /\ count' = [count EXCEPT !.changes = @ + 1]
    /\ UNCHANGED <<dbVars, cacheVars, closed, dead, handVars, barrier>>

Edited(u, off) ==
    [claims |-> account[u].claims + 1,
     active |-> account[u].active /\ ~off]

\* A change of a user's security state (full: role, status, password...) or
\* of the permissions of its role (not full), committed on its own and
\* followed by the invalidation.
StartChange(r, u, full, off) ==
    /\ "change" \in Workload
    /\ count.changes < MaxChanges
    /\ u \notin intx
    /\ off => full
    /\ Begin(r, [Idle EXCEPT !.op = "invalidate", !.pc = "incr",
                             !.user = u, !.full = full])
    /\ account' = [account EXCEPT ![u] = Edited(u, off)]
    /\ count' = [count EXCEPT !.changes = @ + 1]
    /\ UNCHANGED <<rowVars, cacheVars, closed, intx, locked, dead, handVars,
                   barrier>>

\* The same change inside a transaction of the caller: the write stays
\* invisible until Commit while the invalidation already runs.
StartChangeInTx(r, u, full, off) ==
    /\ "change" \in Workload
    /\ count.changes < MaxChanges
    /\ u \notin intx
    /\ off => full
    /\ Begin(r, [Idle EXCEPT !.op = "invalidate", !.pc = "incr", !.user = u,
                             !.full = full, !.tx = TRUE, !.off = off])
    /\ intx' = intx \cup {u}
    /\ count' = [count EXCEPT !.changes = @ + 1]
    /\ UNCHANGED <<account, rowVars, cacheVars, closed, locked, dead,
                   handVars, barrier>>

-----------------------------------------------------------------------------
(* refreshTokens and recoverSessionFromCookie up to the credential.        *)

ReadRow(r) ==
    /\ At(r, "read")
    /\ Become(r, [req[r] EXCEPT !.seen = Visible(req[r].fam),
                                !.pc = "allowed"])
    /\ UNCHANGED <<dbVars, cacheVars, closed, dead, handVars, barrier, count>>

\* assertRefreshFamilyAllowed, then the test of the row read before it.  The
\* recovery also matches the presented token here; it never revokes.
CheckAllowed(r) ==
    LET q == req[r] IN
    /\ At(r, "allowed")
    /\ IF q.fam \in marked \/ q.seen = NoRow
       THEN Finish(r)
       ELSE IF q.op = "refresh"
       THEN Goto(r, "account")
       ELSE IF q.tok = q.seen.token \/ WithinGrace(q.seen, q.tok, q.fam)
       THEN Goto(r, "version")
       ELSE Finish(r)
    /\ UNCHANGED <<dbVars, cacheVars, closed, dead, handVars, barrier, count>>

\* getAuthRecordById of a login.
LoginAccount(r) ==
    /\ At(r, "account")
    /\ req[r].op = "login"
    /\ IF account[req[r].user].active THEN Goto(r, "sweep") ELSE Finish(r)
    /\ UNCHANGED <<dbVars, cacheVars, closed, dead, handVars, barrier, count>>

\* deleteExpiredSessions, which a failure of the delete does not disturb.
SweepExpired(r) ==
    /\ At(r, "sweep")
    /\ Goto(r, "claims")
    /\ \/ row' = [f \in Families |->
                    IF /\ f \in lapsed \ locked
                       /\ row[f].status \in {"active", "revoked"}
                    THEN [row[f] EXCEPT !.status = "deleted"]
                    ELSE row[f]]
       \/ row' = row
    /\ UNCHANGED <<account, lapsed, born, intx, locked, cacheVars, closed,
                   dead, handVars, barrier, count>>

\* Mutant: a token another request has just replaced is taken for stolen.
RefreshAccountUnserved(r) ==
    LET q == req[r] IN
    /\ At(r, "account")
    /\ q.op = "refresh"
    /\ IF account[q.user].active /\ q.tok = q.seen.token
       THEN Goto(r, "version")
       ELSE BeginRevoke(r)
    /\ UNCHANGED <<dbVars, cacheVars, closed, dead, handVars, barrier, count>>

\* requireActiveRefreshUser, and the choice refreshTokens makes next: rotate
\* the current token, serve the one just replaced, or revoke on reuse.
RefreshAccount(r) ==
    LET q == req[r] IN
    /\ At(r, "account")
    /\ q.op = "refresh"
    /\ IF ~account[q.user].active
       THEN BeginRevoke(r)
       ELSE IF q.tok = q.seen.token
       THEN Goto(r, "version")
       ELSE IF WithinGrace(q.seen, q.tok, q.fam)
       THEN Become(r, [q EXCEPT !.op = "serve", !.pc = "version"])
       ELSE BeginRevoke(r)
    /\ UNCHANGED <<dbVars, cacheVars, closed, dead, handVars, barrier, count>>

\* A recovery reads the record it answers with in the same lookup.
RecoverAccount(r) ==
    LET q == req[r] IN
    /\ At(r, "account")
    /\ q.op = "recover"
    /\ IF account[q.user].active
       THEN Become(r, [q EXCEPT !.claims = account[q.user].claims,
                                !.pc = "assert2"])
       ELSE BeginRevoke(r)
    /\ UNCHANGED <<dbVars, cacheVars, closed, dead, handVars, barrier, count>>

ReadVersion(r) ==
    LET q == req[r] IN
    /\ At(r, "version")
    /\ Become(r, [q EXCEPT !.ver = version[q.user],
                           !.pc = IF q.op \in {"login", "recover"}
                                  THEN "account" ELSE "claims"])
    /\ UNCHANGED <<dbVars, cacheVars, closed, dead, handVars, barrier, count>>

\* getRoleAndPermissions.
ReadClaims(r) ==
    /\ At(r, "claims")
    /\ Become(r, [req[r] EXCEPT !.claims = account[req[r].user].claims,
                                !.pc = "assert"])
    /\ UNCHANGED <<dbVars, cacheVars, closed, dead, handVars, barrier, count>>

\* The first assertSessionVersion, before anything is written.
AssertBeforeWrite(r) ==
    LET q == req[r] IN
    /\ At(r, "assert")
    /\ IF version[q.user] # q.ver THEN Finish(r)
       ELSE IF q.op = "serve" THEN Goto(r, "live")
       ELSE Goto(r, "write")
    /\ UNCHANGED <<dbVars, cacheVars, closed, dead, handVars, barrier, count>>

-----------------------------------------------------------------------------
(* The durable row.                                                        *)

\* storeRefreshToken of a fresh family: the upsert inserts.
InsertRow(r) ==
    LET q == req[r] IN
    /\ At(r, "write")
    /\ q.op = "login"
    /\ row' = [row EXCEPT ![q.fam] =
                 [status |-> "active", token |-> 1, prev |-> NoToken]]
    /\ born' = [born EXCEPT ![q.fam] = q.ver]
    /\ Goto(r, "live")
    /\ UNCHANGED <<account, lapsed, intx, locked, cacheVars, closed, dead,
                   handVars, barrier, count>>

\* Mutant: the update forgets that a revoked row cannot rotate.
CanRotateRevoked(f, expected) == row[f].token = expected

\* rotateRefreshToken: compare-and-swap on the hash and on status active.
CanRotate(f, expected) ==
    row[f].status = "active" /\ row[f].token = expected

RotateRow(r) ==
    LET q == req[r] IN
    /\ At(r, "write")
    /\ q.op = "refresh"
    /\ q.fam \notin locked
    /\ IF CanRotate(q.fam, q.seen.token)
       THEN /\ row' = [row EXCEPT ![q.fam] =
                         [@ EXCEPT !.token = q.tok + 1,
                                   !.prev = q.seen.token]]
            /\ lapsed' = lapsed \ {q.fam}
            /\ Goto(r, "live")
       ELSE /\ Goto(r, "reread")
            /\ UNCHANGED <<row, lapsed>>
    /\ UNCHANGED <<account, born, intx, locked, cacheVars, closed, dead,
                   handVars, barrier, count>>

\* The rotation lost: another request's token is served if this one was
\* replaced just now, and otherwise the request fails without revoking.
RereadRow(r) ==
    LET q == req[r] IN
    /\ At(r, "reread")
    /\ IF WithinGrace(Visible(q.fam), q.tok, q.fam)
       THEN Become(r, [q EXCEPT !.op = "serve", !.pc = "version",
                                !.seen = Visible(q.fam)])
       ELSE Finish(r)
    /\ UNCHANGED <<dbVars, cacheVars, closed, dead, handVars, barrier, count>>

-----------------------------------------------------------------------------
(* markFamilyIssued: write the marker, then let a revocation win.          *)

SetLive(r) ==
    /\ At(r, "live")
    /\ live' = live \cup {req[r].fam}
    /\ Goto(r, "check")
    /\ UNCHANGED <<dbVars, marked, version, closed, dead, handVars, barrier,
                   count>>

\* Mutant: the issuer never looks for a revocation.
CheckRevokedSkipped(r) ==
    /\ At(r, "check")
    /\ Goto(r, "assert2")
    /\ UNCHANGED <<dbVars, cacheVars, closed, dead, handVars, barrier, count>>

CheckRevoked(r) ==
    /\ At(r, "check")
    /\ IF req[r].fam \in marked THEN Goto(r, "withdraw")
       ELSE Goto(r, "assert2")
    /\ UNCHANGED <<dbVars, cacheVars, closed, dead, handVars, barrier, count>>

WithdrawLive(r) ==
    /\ At(r, "withdraw")
    /\ live' = live \ {req[r].fam}
    /\ Finish(r)
    /\ UNCHANGED <<dbVars, marked, version, closed, dead, handVars, barrier,
                   count>>

\* What the response carries.  A recovery hands out no refresh token.
Respond(r) ==
    LET q == req[r] IN
    /\ creds' = creds \cup
         {[family |-> q.fam, version |-> q.ver, claims |-> q.claims]}
    /\ held' = IF q.op = "recover" THEN held
               ELSE [held EXCEPT ![q.fam] = @ \cup {q.tok + 1}]
    /\ Finish(r)

\* Mutant: a login that finds a newer version leaves its row behind.
AssertAfterWriteKeepsRow(r) ==
    LET q == req[r] IN
    /\ At(r, "assert2")
    /\ IF version[q.user] # q.ver
       THEN Finish(r) /\ UNCHANGED handVars
       ELSE IF q.op = "login"
       THEN Goto(r, "lastlogin") /\ UNCHANGED handVars
       ELSE Respond(r)
    /\ UNCHANGED <<dbVars, cacheVars, closed, dead, barrier, count>>

\* The assertSessionVersion after the row and the marker were written.  For
\* a login it revokes the family it has just created.
AssertAfterWrite(r) ==
    LET q == req[r] IN
    /\ At(r, "assert2")
    /\ IF version[q.user] # q.ver
       THEN /\ IF q.op = "login" THEN BeginRevoke(r) ELSE Finish(r)
            /\ UNCHANGED handVars
       ELSE IF q.op = "login"
       THEN Goto(r, "lastlogin") /\ UNCHANGED handVars
       ELSE Respond(r)
    /\ UNCHANGED <<dbVars, cacheVars, closed, dead, barrier, count>>

\* updateLastLogin can yield to an account change as well.
AssertAfterLastLogin(r) ==
    LET q == req[r] IN
    /\ At(r, "lastlogin")
    /\ IF version[q.user] # q.ver
       THEN BeginRevoke(r) /\ UNCHANGED handVars
       ELSE Respond(r)
    /\ UNCHANGED <<dbVars, cacheVars, closed, dead, barrier, count>>

-----------------------------------------------------------------------------
(* Revocation.                                                             *)

\* markFamilyRevoked, first half: the marker goes up before liveness goes
\* down.  Several families are marked in parallel (Promise.all).
MarkRevoked(r, f) ==
    /\ At(r, "marks")
    /\ f \in req[r].todo
    /\ marked' = marked \cup {f}
    /\ Become(r, [req[r] EXCEPT !.todo = @ \ {f},
                                !.clear = @ \cup {f}])
    /\ UNCHANGED <<dbVars, live, version, closed, dead, handVars, barrier,
                   count>>

\* markFamilyRevoked, second half.
ClearLive(r, f) ==
    /\ At(r, "marks")
    /\ f \in req[r].clear
    /\ live' = live \ {f}
    /\ Become(r, [req[r] EXCEPT !.clear = @ \ {f}])
    /\ UNCHANGED <<dbVars, marked, version, closed, dead, handVars, barrier,
                   count>>

\* Mutant: the marks are not awaited.
MarkedNotAwaited(r) == At(r, "marks")

Marked(r) == At(r, "marks") /\ req[r].todo = {} /\ req[r].clear = {}

\* revokeFamily goes on to the durable row.
MarksDoneFamily(r) ==
    /\ Marked(r)
    /\ req[r].op # "invalidate"
    /\ Goto(r, "tomb")
    /\ UNCHANGED <<dbVars, cacheVars, closed, dead, handVars, barrier, count>>

\* Mutant: an upsert, which brings a swept row back.
TombstonedUpsert(F) ==
    [f \in Families |->
        IF f \in F
        THEN [row[f] EXCEPT !.status = "revoked", !.prev = NoToken]
        ELSE row[f]]

Tombstoned(F) ==
    [f \in Families |->
        IF f \in F /\ row[f].status = "active"
        THEN [row[f] EXCEPT !.status = "revoked", !.prev = NoToken]
        ELSE row[f]]

\* TokenRepository.revokeFamily.
Tombstone(r) ==
    /\ At(r, "tomb")
    /\ req[r].fam \notin locked
    /\ row' = Tombstoned({req[r].fam})
    /\ Finish(r)
    /\ UNCHANGED <<account, lapsed, born, intx, locked, cacheVars, closed,
                   dead, handVars, barrier, count>>

\* invalidateAccessTokensNow: the version is bumped atomically.
Bump(r) ==
    LET u == req[r].user IN
    /\ At(r, "incr")
    /\ version' = [version EXCEPT ![u] = @ + 1]
    /\ Become(r, [req[r] EXCEPT !.ver = version[u] + 1,
                                !.pc = IF req[r].full THEN "revokeAll"
                                       ELSE "marks"])
    /\ UNCHANGED <<dbVars, live, marked, closed, dead, handVars, barrier,
                   count>>

\* Mutant: the revoked families are not marked.
RevokeAllRowsUnmarked(r) ==
    LET u == req[r].user
        F == {f \in FamiliesOf(u) : row[f].status = "active"}
    IN  /\ At(r, "revokeAll")
        /\ F \cap locked = {}
        /\ Goto(r, "marks")
        /\ IF req[r].tx
           THEN locked' = locked \cup F /\ UNCHANGED row
           ELSE row' = Tombstoned(F) /\ UNCHANGED locked
        /\ UNCHANGED <<account, lapsed, born, intx, cacheVars, closed, dead,
                       handVars, barrier, count>>

\* TokenRepository.revokeAllForUser.  Inside a transaction the rows are
\* locked and still visible to others until the commit.
RevokeAllRows(r) ==
    LET u == req[r].user
        F == {f \in FamiliesOf(u) : row[f].status = "active"}
    IN  /\ At(r, "revokeAll")
        /\ F \cap locked = {}
        /\ Become(r, [req[r] EXCEPT !.todo = F, !.pc = "marks"])
        /\ IF req[r].tx
           THEN locked' = locked \cup F /\ UNCHANGED row
           ELSE row' = Tombstoned(F) /\ UNCHANGED locked
        /\ UNCHANGED <<account, lapsed, born, intx, cacheVars, closed, dead,
                       handVars, barrier, count>>

MarksDoneAll(r) ==
    LET q == req[r] IN
    /\ Marked(r)
    /\ q.op = "invalidate"
    /\ IF q.tx
       THEN Goto(r, "commit") /\ UNCHANGED barrier
       ELSE /\ Finish(r)
            /\ barrier' = IF q.full /\ q.ver > barrier[q.user]
                          THEN [barrier EXCEPT ![q.user] = q.ver]
                          ELSE barrier
    /\ UNCHANGED <<dbVars, cacheVars, closed, dead, handVars, count>>

\* Mutants: the invalidation is not repeated after the transaction; the
\* transaction keeps its row locks.
CloseTxOnce(r) ==
    LET u == req[r].user IN
    /\ intx' = intx \ {u}
    /\ locked' = locked \ FamiliesOf(u)
    /\ Finish(r)
CloseTxLeaks(r) ==
    LET u == req[r].user IN
    /\ intx' = intx \ {u}
    /\ locked' = locked
    /\ Become(r, [req[r] EXCEPT !.pc = "incr", !.tx = FALSE])

\* The transaction ends, and afterCommit or afterRollback repeats the whole
\* invalidation outside it.
CloseTx(r) ==
    LET u == req[r].user IN
    /\ intx' = intx \ {u}
    /\ locked' = locked \ FamiliesOf(u)
    /\ Become(r, [req[r] EXCEPT !.pc = "incr", !.tx = FALSE])

Commit(r) ==
    LET u == req[r].user IN
    /\ At(r, "commit")
    /\ account' = [account EXCEPT ![u] = Edited(u, req[r].off)]
    /\ row' = Tombstoned(locked \cap FamiliesOf(u))
    /\ CloseTx(r)
    /\ UNCHANGED <<lapsed, born, cacheVars, closed, dead, handVars, barrier,
                   count>>

Rollback(r) ==
    /\ At(r, "commit")
    /\ CloseTx(r)
    /\ UNCHANGED <<account, rowVars, cacheVars, closed, dead, handVars,
                   barrier, count>>

-----------------------------------------------------------------------------
(* The environment.                                                        *)

\* previousValidUntil of the oldest replaced token passes.
GraceElapses(f) ==
    /\ closed[f] + 1 < row[f].token
    /\ closed' = [closed EXCEPT ![f] = @ + 1]
    /\ UNCHANGED <<dbVars, cacheVars, req, dead, handVars, barrier, count>>

\* expiresAt of the row passes, and with it every refresh JWT of the family.
Lapse(f) ==
    /\ row[f].status \in {"active", "revoked"}
    /\ f \notin lapsed
    /\ count.lapses < MaxLapses
    /\ lapsed' = lapsed \cup {f}
    /\ count' = [count EXCEPT !.lapses = @ + 1]
    /\ UNCHANGED <<account, row, born, intx, locked, cacheVars, closed, req,
                   dead, handVars, barrier>>

\* The cache loses keys: a restart of the memory driver loses all of them,
\* eviction at capacity a single one.
LoseKeys(lostLive, lostMarks, lostVersions) ==
    /\ count.losses < MaxLosses
    /\ live' = live \ lostLive
    /\ marked' = marked \ lostMarks
    /\ version' = [u \in Users |-> IF u \in lostVersions THEN 0
                                   ELSE version[u]]
    /\ count' = [count EXCEPT !.losses = @ + 1]
    /\ UNCHANGED <<dbVars, closed, req, dead, handVars, barrier>>

LoseCache ==
    \/ LoseKeys(Families, Families, Users)
    \/ \E f \in live : LoseKeys({f}, {}, {})
    \/ \E f \in marked : LoseKeys({}, {f}, {})
    \/ \E u \in Users : LoseKeys({}, {}, {u})

\* A request dies between two steps.  The database rolls its transaction
\* back; no callback of TransactionService runs.
Die(r) ==
    LET q == req[r] IN
    /\ Cardinality(dead) < MaxDeaths
    /\ r \notin dead
    /\ q.op # "none"
    /\ dead' = dead \cup {r}
    /\ IF q.tx
       THEN /\ intx' = intx \ {q.user}
            /\ locked' = locked \ FamiliesOf(q.user)
       ELSE UNCHANGED <<intx, locked>>
    /\ UNCHANGED <<account, rowVars, cacheVars, closed, req, handVars,
                   barrier, count>>

\* Nothing is being served and nobody asks for anything.
Quiet ==
    /\ \A r \in Requests \ dead : req[r].op = "none"
    /\ UNCHANGED vars

-----------------------------------------------------------------------------
Start(r) ==
    \/ \E f \in Families :
         \/ StartLogin(r, f)
         \/ StartLogout(r, f)
         \/ \E op \in {"refresh", "recover"}, tok \in held[f] :
              StartRefresh(r, op, f, tok)
    \/ \E u \in Users :
         \/ StartLogoutAll(r, u)
         \/ \E full, off \in BOOLEAN :
              \/ StartChange(r, u, full, off)
              \/ StartChangeInTx(r, u, full, off)

Issue(r) ==
    \/ ReadRow(r) \/ CheckAllowed(r)
    \/ LoginAccount(r) \/ SweepExpired(r)
    \/ RefreshAccount(r) \/ RecoverAccount(r)
    \/ ReadVersion(r) \/ ReadClaims(r) \/ AssertBeforeWrite(r)
    \/ InsertRow(r) \/ RotateRow(r) \/ RereadRow(r)
    \/ SetLive(r) \/ CheckRevoked(r) \/ WithdrawLive(r)
    \/ AssertAfterWrite(r) \/ AssertAfterLastLogin(r)

Revoke(r) ==
    \/ \E f \in Families : MarkRevoked(r, f) \/ ClearLive(r, f)
    \/ MarksDoneFamily(r) \/ Tombstone(r)
    \/ Bump(r) \/ RevokeAllRows(r) \/ MarksDoneAll(r)
    \/ Commit(r) \/ Rollback(r)

Progress(r) == Issue(r) \/ Revoke(r)

Environment ==
    \/ \E f \in Families : GraceElapses(f) \/ Lapse(f)
    \/ LoseCache
    \/ \E r \in Requests : Die(r)

Next ==
    \/ \E r \in Requests : Start(r) \/ Progress(r)
    \/ Environment
    \/ Quiet

Spec == Init /\ [][Next]_vars

\* The event loop keeps serving every request that has not died; nothing is
\* assumed of clients, of time, or of the cache.
FairSpec == Spec /\ \A r \in Requests : WF_vars(Progress(r))

-----------------------------------------------------------------------------
(* What has to hold.                                                       *)

\* A request that will still take down the liveness marker of f: an issuer
\* that has yet to look for a revocation, or a revoker.
Clears(q, f) ==
    \/ q.fam = f /\ q.pc \in {"check", "withdraw"}
    \/ f \in q.clear

WillClear(f) == \E r \in Requests : Clears(req[r], f)

WillMark(f) == \E r \in Requests : f \in req[r].todo

WillBump(u) ==
    \E r \in Requests :
        /\ req[r].op = "invalidate" /\ req[r].user = u
        /\ req[r].pc = "incr" /\ ~req[r].tx

\* Every interleaving of markFamilyIssued with markFamilyRevoked converges
\* on revoked: the two markers coexist only while a request that will
\* delete the liveness marker is under way (SessionInvalidationService).
RevocationConverges ==
    \A f \in marked \cap live : WillClear(f)

\* As long as the cache keeps its keys, a family whose row is revoked is not
\* live once the requests working on it are over, whether the marker or the
\* row was written first and whatever was being issued meanwhile.
RevokedRowIsNotLive ==
    count.losses = 0 =>
        \A f \in live :
            row[f].status = "revoked" => WillClear(f) \/ WillMark(f)

\* Losing the cache cannot make a logged-out family look valid again
\* (SessionInvalidationService, on the liveness marker): once its row is
\* revoked and nobody works on it, no credential of the family verifies.
LoggedOutStaysOut ==
    \A c \in creds :
        LET f == c.family IN
        /\ row[f].status = "revoked"
        /\ \A r \in Requests : req[r].fam # f /\ f \notin req[r].todo
        => ~Verifies(c)

\* A credential that verifies never carries the role or permissions of an
\* earlier revision of the account, from the moment the change has bumped
\* the session version; a transaction bumps again after its commit because
\* a session issued before it saw the old record (invalidateUser).
VerifiedClaimsAreCurrent ==
    count.losses = 0 =>
        \A c \in creds :
            LET u == OwnerOf[c.family] IN
            Verifies(c) => c.claims = account[u].claims \/ WillBump(u)

\* A login that captured its session version before a full invalidation
\* leaves no row behind that a refresh would accept (active, family not
\* marked), not even when the row was inserted after revokeAllForUser had
\* run (assertSessionVersion with issuedFamily).
NoSessionFromBeforeInvalidation ==
    count.losses = 0 =>
        \A f \in Families :
            /\ row[f].status = "active"
            /\ f \notin marked
            /\ born[f] < barrier[OwnerOf[f]]
            =>
                \E r \in Requests : req[r].op = "login" /\ req[r].fam = f

\* The newest refresh token handed to a client is the current one of its
\* active row or the one that row replaced...
NewestInReach(f) ==
    row[f].status = "active" /\ held[f] # {} =>
        \E tok \in held[f] \cap {row[f].token, row[f].prev} :
            \A other \in held[f] : other <= tok

\* ...and a refresh revokes the family of an active account only if its token
\* is past the grace window or two rotations behind.  So a client that lost the
\* answer to a rotation, or lost a race to one, and retries within the window
\* is served and never taken for a thief (refreshTokens, withinGraceWindow,
\* serveReplacedToken).
Outrun(q) ==
    q.tok <= closed[q.fam] \/ q.tok + 1 < row[q.fam].token
LostAnswersRecover ==
    /\ \A f \in Families : NewestInReach(f)
    /\ \A r \in Requests :
          LET q == req[r] IN
          /\ q.op = "refresh" /\ q.pc \in {"marks", "tomb"}
          /\ account[q.user].active
          => Outrun(q)

\* Only reuse after the grace window, or of a token the family never issued,
\* revokes the family (TokenService, on refreshTokens).
OnlyLateReuseRevokes ==
    \A r \in Requests :
        /\ req[r].op = "refresh"
        /\ req[r].pc = "marks"
        /\ account[req[r].user].active
        => req[r].tok <= closed[req[r].fam]

\* A request always finishes: no wait for a locked row is for ever.
RequestsFinish ==
    \A r \in Requests :
        req[r].op # "none" ~> req[r].op = "none" \/ r \in dead

\* The rows implement the abstract registry of sessions.
Registry ==
    INSTANCE SessionRegistry WITH
        state <- [f \in Families |-> row[f].status],
        token <- [f \in Families |-> row[f].token]
ImplementsRegistry == Registry!Spec

=============================================================================
