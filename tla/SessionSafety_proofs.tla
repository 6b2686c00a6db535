------------------------ MODULE SessionSafety_proofs ------------------------
(***************************************************************************)
(* The safety invariants of SessionFamilies, for every number of users,    *)
(* families and concurrent requests: a revocation and an issue that race   *)
(* converge, a credential that verifies carries current claims, a client   *)
(* is never two rotations behind, no session outlives an invalidation it   *)
(* began before; and the rows implement SessionRegistry.                   *)
(***************************************************************************)
EXTENDS SessionFamilies_proofs

USE OwnerAssumption, NoFamilyAssumption, NoUserAssumption

\* A step of the request in slot r leaves the other slots alone.
Others(r) == \A s \in Requests \ {r} : req'[s] = req[s]

LEMMA SlotUpdate ==
    ASSUME ReqOK, NEW r \in Requests, NEW q, Become(r, q)
    PROVE  req'[r] = q /\ Others(r)
BY DEF ReqOK, Become, Others

LEMMA GotoSlot ==
    ASSUME ReqOK, NEW r \in Requests, NEW step, Goto(r, step)
    PROVE  /\ Others(r)
           /\ req'[r].pc = step
           /\ req'[r].op = req[r].op /\ req'[r].user = req[r].user
           /\ req'[r].fam = req[r].fam /\ req'[r].tok = req[r].tok
           /\ req'[r].ver = req[r].ver /\ req'[r].claims = req[r].claims
           /\ req'[r].todo = req[r].todo /\ req'[r].clear = req[r].clear
           /\ req'[r].full = req[r].full /\ req'[r].tx = req[r].tx
<1>1. req[r] \in Request
  BY DEF ReqOK
<1>2. req'[r] = [req[r] EXCEPT !.pc = step] /\ Others(r)
  BY SlotUpdate DEF Goto
<1> QED
  BY <1>1, <1>2 DEF Request

LEMMA FinishSlot ==
    ASSUME ReqOK, NEW r \in Requests, Finish(r)
    PROVE  /\ Others(r)
           /\ req'[r].op = "none" /\ req'[r].pc = "idle"
           /\ req'[r].fam = NoFamily
           /\ req'[r].todo = {} /\ req'[r].clear = {}
BY SlotUpdate, IdleFields DEF Finish

LEMMA BeginRevokeSlot ==
    ASSUME ReqOK, NEW r \in Requests, BeginRevoke(r)
    PROVE  /\ Others(r)
           /\ req'[r].pc = "marks"
           /\ req'[r].op = req[r].op /\ req'[r].user = req[r].user
           /\ req'[r].fam = req[r].fam /\ req'[r].ver = req[r].ver
           /\ req'[r].claims = req[r].claims
           /\ req'[r].todo = {req[r].fam} /\ req'[r].clear = req[r].clear
<1>1. req[r] \in Request
  BY DEF ReqOK
<1>2. /\ req'[r] = [req[r] EXCEPT !.pc = "marks", !.todo = {req[r].fam}]
      /\ Others(r)
  BY SlotUpdate DEF BeginRevoke
<1> QED
  BY <1>1, <1>2 DEF Request

\* What a request that begins changes: it takes a free slot, and an account
\* that changes at once is announced by a bump still to come.
Started(r) ==
    /\ Others(r)
    /\ req[r].op = "none"
    /\ req'[r].clear = {} /\ req'[r].ver = 0
    /\ req'[r].pc \in {"version", "read", "marks", "incr"}
    /\ req'[r].pc = "marks" => req'[r].todo = {req'[r].fam}
    /\ req'[r].op = "invalidate" <=> req'[r].pc = "incr"

Announced(r) ==
    \A u \in Users : \/ account'[u] = account[u]
                     \/ /\ req'[r].op = "invalidate"
                        /\ req'[r].pc = "incr"
                        /\ req'[r].user = u
                        /\ ~req'[r].tx

LEMMA StartSlot ==
    ASSUME ReqOK, RestOK, NEW r \in Requests, Start(r)
    PROVE  /\ Started(r) /\ Announced(r)
           /\ UNCHANGED <<live, marked, version, row, locked, creds>>
           /\ count'.losses = count.losses
<1> USE DEF cacheVars, dbVars, rowVars, handVars
<1>0. Idle \in Request /\ Idle.ver = 0
  BY IdleType DEF Idle
<1>1. ASSUME NEW f \in Families, StartLogin(r, f)
      PROVE  Started(r) /\ Announced(r)
  <2> DEFINE n == [Idle EXCEPT !.op = "login", !.pc = "version",
                               !.user = OwnerOf[f], !.fam = f]
  <2>1. Become(r, n) /\ req[r].op = "none"
    BY <1>1 DEF StartLogin, Begin
  <2>2. n.op = "login" /\ n.pc = "version" /\ n.clear = {} /\ n.ver = 0
        
    BY <1>0, IdleFields DEF Request
  <2>3. req'[r] = n /\ Others(r)
    BY <2>1, SlotUpdate
  <2> HIDE DEF n
  <2> QED
    BY <1>1, <2>1, <2>2, <2>3 DEF StartLogin, Started, Announced
<1>2. ASSUME NEW f \in Families, NEW op \in {"refresh", "recover"},
             NEW tok \in held[f], StartRefresh(r, op, f, tok)
      PROVE  Started(r) /\ Announced(r)
  <2> DEFINE n == [Idle EXCEPT !.op = op, !.pc = "read", !.user = OwnerOf[f],
                               !.fam = f, !.tok = tok]
  <2>1. Become(r, n) /\ req[r].op = "none"
    BY <1>2 DEF StartRefresh, Begin
  <2>2. n.op = op /\ n.pc = "read" /\ n.clear = {} /\ n.ver = 0
        
    BY <1>0, IdleFields DEF Request
  <2>3. req'[r] = n /\ Others(r)
    BY <2>1, SlotUpdate
  <2> HIDE DEF n
  <2> QED
    BY <1>2, <2>1, <2>2, <2>3 DEF StartRefresh, Started, Announced
<1>3. ASSUME NEW f \in Families, StartLogout(r, f)
      PROVE  Started(r) /\ Announced(r)
  <2> DEFINE n == [Idle EXCEPT !.op = "logout", !.pc = "marks",
                               !.user = OwnerOf[f], !.fam = f, !.todo = {f}]
  <2>1. Become(r, n) /\ req[r].op = "none"
    BY <1>3 DEF StartLogout, Begin
  <2>2. n.op = "logout" /\ n.pc = "marks" /\ n.clear = {} /\ n.ver = 0
        /\ n.fam = f /\ n.todo = {f}
    BY <1>0, IdleFields DEF Request
  <2>3. req'[r] = n /\ Others(r)
    BY <2>1, SlotUpdate
  <2> HIDE DEF n
  <2> QED
    BY <1>3, <2>1, <2>2, <2>3 DEF StartLogout, Started, Announced
<1>4. ASSUME NEW u \in Users, StartLogoutAll(r, u)
      PROVE  Started(r) /\ Announced(r)
  <2> DEFINE n == [Idle EXCEPT !.op = "invalidate", !.pc = "incr",
                               !.user = u, !.full = TRUE]
  <2>1. Become(r, n) /\ req[r].op = "none"
    BY <1>4 DEF StartLogoutAll, Begin
  <2>2. n.op = "invalidate" /\ n.pc = "incr" /\ n.clear = {} /\ n.ver = 0
        /\ n.user = u /\ n.tx = FALSE
    BY <1>0, IdleFields DEF Request
  <2>3. req'[r] = n /\ Others(r)
    BY <2>1, SlotUpdate
  <2> HIDE DEF n
  <2> QED
    BY <1>4, <2>1, <2>2, <2>3 DEF StartLogoutAll, Started, Announced
<1>5. ASSUME NEW u \in Users, NEW full \in BOOLEAN, NEW off \in BOOLEAN,
             StartChange(r, u, full, off)
      PROVE  Started(r) /\ Announced(r)
  <2> DEFINE n == [Idle EXCEPT !.op = "invalidate", !.pc = "incr",
                               !.user = u, !.full = full]
  <2>1. Become(r, n) /\ req[r].op = "none"
    BY <1>5 DEF StartChange, Begin
  <2>2. n.op = "invalidate" /\ n.pc = "incr" /\ n.clear = {} /\ n.ver = 0
        /\ n.user = u /\ n.tx = FALSE
    BY <1>0, IdleFields DEF Request
  <2>3. req'[r] = n /\ Others(r)
    BY <2>1, SlotUpdate
  <2> HIDE DEF n
  <2> QED
    BY <1>5, <2>1, <2>2, <2>3 DEF StartChange, Started, Announced, RestOK
<1>6. ASSUME NEW u \in Users, NEW full \in BOOLEAN, NEW off \in BOOLEAN,
             StartChangeInTx(r, u, full, off)
      PROVE  Started(r) /\ Announced(r)
  <2> DEFINE n == [Idle EXCEPT !.op = "invalidate", !.pc = "incr", !.user = u,
                               !.full = full, !.tx = TRUE, !.off = off]
  <2>1. Become(r, n) /\ req[r].op = "none"
    BY <1>6 DEF StartChangeInTx, Begin
  <2>2. n.op = "invalidate" /\ n.pc = "incr" /\ n.clear = {} /\ n.ver = 0
        /\ n.user = u /\ n.tx = TRUE
    BY <1>0, IdleFields DEF Request
  <2>3. req'[r] = n /\ Others(r)
    BY <2>1, SlotUpdate
  <2> HIDE DEF n
  <2> QED
    BY <1>6, <2>1, <2>2, <2>3 DEF StartChangeInTx, Started, Announced
<1>7. /\ UNCHANGED <<live, marked, version, row, locked, creds>>
      /\ count'.losses = count.losses
  BY DEF Start, StartLogin, StartRefresh, StartLogout, StartLogoutAll,
         StartChange, StartChangeInTx, RestOK
<1> QED
  BY <1>1, <1>2, <1>3, <1>4, <1>5, <1>6, <1>7 DEF Start

\* The steps at which a request carries claims it has read.
ClaimSteps == {"assert", "write", "live", "check", "withdraw", "assert2",
               "lastlogin"}

\* What a step of an issuing request does to its slot: it keeps its family,
\* reads claims only after a version, and turns into a revocation of its own
\* family or into nothing else.
Moved(r) ==
    LET q == req[r]
        n == req'[r]
    IN  /\ Others(r)
        /\ q.op \in FamilyOps /\ q.pc # "marks"
        /\ n.clear = {}
        /\ n.pc = "marks" => n.todo = {n.fam}
        /\ n.pc # "tomb"
        /\ \/ n.op = "none" /\ n.pc = "idle"
           \/ /\ n.op \in FamilyOps
              /\ n.fam = q.fam /\ n.user = q.user
              /\ \/ n.pc \notin ClaimSteps /\ n.ver \in {q.ver, version[q.user]}
                 \/ /\ n.pc \in ClaimSteps /\ n.ver = q.ver
                    /\ \/ q.pc \in ClaimSteps /\ n.claims = q.claims
                       \/ n.claims = account[q.user].claims

LEMMA IssueSlot ==
    ASSUME ReqOK, RestOK, NEW r \in Requests, Issue(r)
    PROVE  Moved(r)
<1> DEFINE q == req[r]
<1> USE SlotFacts, GotoSlot, FinishSlot, BeginRevokeSlot
    DEF At, Moved, FamilyOps, UserSteps, ClaimSteps
<1>0. q \in Request
  BY DEF ReqOK
<1>1. ASSUME CheckAllowed(r) PROVE Moved(r)
  BY <1>1 DEF CheckAllowed
<1>2. ASSUME LoginAccount(r) PROVE Moved(r)
  BY <1>2 DEF LoginAccount
<1>3. ASSUME SweepExpired(r) PROVE Moved(r)
  BY <1>3 DEF SweepExpired
<1>4. ASSUME AssertBeforeWrite(r) PROVE Moved(r)
  BY <1>4 DEF AssertBeforeWrite
<1>5. ASSUME InsertRow(r) PROVE Moved(r)
  BY <1>5 DEF InsertRow
<1>6. ASSUME RotateRow(r) PROVE Moved(r)
  BY <1>6 DEF RotateRow
<1>7. ASSUME SetLive(r) PROVE Moved(r)
  BY <1>7 DEF SetLive
<1>8. ASSUME CheckRevoked(r) PROVE Moved(r)
  BY <1>8 DEF CheckRevoked
<1>9. ASSUME WithdrawLive(r) PROVE Moved(r)
  BY <1>9 DEF WithdrawLive
<1>10. ASSUME AssertAfterWrite(r) PROVE Moved(r)
  BY <1>10 DEF AssertAfterWrite, Respond
<1>11. ASSUME AssertAfterLastLogin(r) PROVE Moved(r)
  BY <1>11 DEF AssertAfterLastLogin, Respond
<1>12. ASSUME ReadRow(r) PROVE Moved(r)
  <2> DEFINE n == [q EXCEPT !.seen = Visible(q.fam), !.pc = "allowed"]
  <2>1. /\ n.fam = q.fam /\ n.user = q.user /\ n.todo = q.todo
        /\ n.clear = q.clear
        /\ n.pc = "allowed" /\ n.op = q.op /\ n.ver = q.ver
    BY <1>0 DEF Request
  <2>2. q.op \in FamilyOps /\ q.todo = {} /\ q.clear = {}
    BY <1>12 DEF ReadRow
  <2>3. CASE Become(r, n)
    <3>1. req'[r] = n /\ Others(r)
      BY <2>3, SlotUpdate
    <3> HIDE DEF n
    <3> QED
      BY <1>12, <2>1, <2>2, <3>1 DEF ReadRow
  <2> HIDE DEF n
  <2> QED
    BY <1>12, <2>3 DEF ReadRow, n
<1>13. ASSUME RefreshAccount(r) PROVE Moved(r)
  <2> DEFINE n == [q EXCEPT !.op = "serve", !.pc = "version"]
  <2>1. /\ n.fam = q.fam /\ n.user = q.user /\ n.todo = q.todo
        /\ n.clear = q.clear
        /\ n.pc = "version" /\ n.op = "serve" /\ n.ver = q.ver
    BY <1>0 DEF Request
  <2>2. q.op \in FamilyOps /\ q.todo = {} /\ q.clear = {}
    BY <1>13 DEF RefreshAccount
  <2>3. CASE Become(r, n)
    <3>1. req'[r] = n /\ Others(r)
      BY <2>3, SlotUpdate
    <3> HIDE DEF n
    <3> QED
      BY <1>13, <2>1, <2>2, <3>1 DEF RefreshAccount
  <2> HIDE DEF n
  <2> QED
    BY <1>13, <2>3 DEF RefreshAccount, n
<1>14. ASSUME RecoverAccount(r) PROVE Moved(r)
  <2> DEFINE n == [q EXCEPT !.claims = account[q.user].claims,
                            !.pc = "assert2"]
  <2>1. /\ n.fam = q.fam /\ n.user = q.user /\ n.todo = q.todo
        /\ n.clear = q.clear
        /\ n.pc = "assert2" /\ n.op = q.op /\ n.ver = q.ver
        /\ n.claims = account[q.user].claims
    BY <1>0 DEF Request
  <2>2. q.op \in FamilyOps /\ q.todo = {} /\ q.clear = {}
    BY <1>14 DEF RecoverAccount
  <2>3. CASE Become(r, n)
    <3>1. req'[r] = n /\ Others(r)
      BY <2>3, SlotUpdate
    <3> HIDE DEF n
    <3> QED
      BY <1>14, <2>1, <2>2, <3>1 DEF RecoverAccount
  <2> HIDE DEF n
  <2> QED
    BY <1>14, <2>3 DEF RecoverAccount, n
<1>15. ASSUME ReadVersion(r) PROVE Moved(r)
  <2> DEFINE n == [q EXCEPT !.ver = version[q.user],
                            !.pc = IF q.op \in {"login", "recover"}
                                   THEN "account" ELSE "claims"]
  <2>1. /\ n.fam = q.fam /\ n.user = q.user /\ n.todo = q.todo
        /\ n.clear = q.clear
        /\ n.pc \in {"account", "claims"} /\ n.op = q.op
        /\ n.ver = version[q.user]
    BY <1>0 DEF Request
  <2>2. q.op \in FamilyOps /\ q.todo = {} /\ q.clear = {}
    BY <1>15 DEF ReadVersion
  <2>3. CASE Become(r, n)
    <3>1. req'[r] = n /\ Others(r)
      BY <2>3, SlotUpdate
    <3> HIDE DEF n
    <3> QED
      BY <1>15, <2>1, <2>2, <3>1 DEF ReadVersion
  <2> HIDE DEF n
  <2> QED
    BY <1>15, <2>3 DEF ReadVersion, n
<1>16. ASSUME ReadClaims(r) PROVE Moved(r)
  <2> DEFINE n == [q EXCEPT !.claims = account[q.user].claims,
                            !.pc = "assert"]
  <2>1. /\ n.fam = q.fam /\ n.user = q.user /\ n.todo = q.todo
        /\ n.clear = q.clear
        /\ n.pc = "assert" /\ n.op = q.op /\ n.ver = q.ver
        /\ n.claims = account[q.user].claims
    BY <1>0 DEF Request
  <2>2. q.op \in FamilyOps /\ q.todo = {} /\ q.clear = {}
    BY <1>16 DEF ReadClaims
  <2>3. CASE Become(r, n)
    <3>1. req'[r] = n /\ Others(r)
      BY <2>3, SlotUpdate
    <3> HIDE DEF n
    <3> QED
      BY <1>16, <2>1, <2>2, <3>1 DEF ReadClaims
  <2> HIDE DEF n
  <2> QED
    BY <1>16, <2>3 DEF ReadClaims, n
<1>17. ASSUME RereadRow(r) PROVE Moved(r)
  <2> DEFINE n == [q EXCEPT !.op = "serve", !.pc = "version",
                            !.seen = Visible(q.fam)]
  <2>1. /\ n.fam = q.fam /\ n.user = q.user /\ n.todo = q.todo
        /\ n.clear = q.clear
        /\ n.pc = "version" /\ n.op = "serve" /\ n.ver = q.ver
    BY <1>0 DEF Request
  <2>2. q.op \in FamilyOps /\ q.todo = {} /\ q.clear = {}
    BY <1>17 DEF RereadRow
  <2>3. CASE Become(r, n)
    <3>1. req'[r] = n /\ Others(r)
      BY <2>3, SlotUpdate
    <3> HIDE DEF n
    <3> QED
      BY <1>17, <2>1, <2>2, <3>1 DEF RereadRow
  <2> HIDE DEF n
  <2> QED
    BY <1>17, <2>3 DEF RereadRow, n
<1> QED
  BY <1>1, <1>2, <1>3, <1>4, <1>5, <1>6, <1>7, <1>8, <1>9, <1>10, <1>11,
     <1>12, <1>13, <1>14, <1>15, <1>16, <1>17 DEF Issue

\* What each step of a revocation does to its slot.
LEMMA MarkSlot ==
    ASSUME ReqOK, NEW r \in Requests, NEW f \in Families,
           MarkRevoked(r, f) \/ ClearLive(r, f)
    PROVE  /\ Others(r)
           /\ req[r].pc = "marks" /\ req'[r].pc = "marks"
           /\ req'[r].op = req[r].op /\ req'[r].fam = req[r].fam
           /\ req'[r].user = req[r].user /\ req'[r].ver = req[r].ver
           /\ MarkRevoked(r, f) => /\ req'[r].todo = req[r].todo \ {f}
                                   /\ req'[r].clear = req[r].clear \cup {f}
           /\ ClearLive(r, f) => /\ req'[r].todo = req[r].todo
                                 /\ req'[r].clear = req[r].clear \ {f}
<1>1. req[r] \in Request
  BY DEF ReqOK
<1>2. ASSUME MarkRevoked(r, f)
      PROVE  /\ req'[r] = [req[r] EXCEPT !.todo = @ \ {f},
                                         !.clear = @ \cup {f}]
             /\ Others(r) /\ req[r].pc = "marks" /\ f \in req[r].todo
  BY <1>2, SlotUpdate DEF MarkRevoked, At
<1>3. ASSUME ClearLive(r, f)
      PROVE  /\ req'[r] = [req[r] EXCEPT !.clear = @ \ {f}]
             /\ Others(r) /\ req[r].pc = "marks" /\ marked' = marked
  BY <1>3, SlotUpdate DEF ClearLive, At
<1>4. ASSUME MarkRevoked(r, f)
      PROVE  /\ req'[r].pc = req[r].pc
             /\ req'[r].op = req[r].op /\ req'[r].fam = req[r].fam
             /\ req'[r].user = req[r].user /\ req'[r].ver = req[r].ver
             /\ req'[r].todo = req[r].todo \ {f}
             /\ req'[r].clear = req[r].clear \cup {f}
  BY <1>1, <1>2, <1>4 DEF Request
<1>5. ASSUME ClearLive(r, f)
      PROVE  /\ req'[r].pc = req[r].pc
             /\ req'[r].op = req[r].op /\ req'[r].fam = req[r].fam
             /\ req'[r].user = req[r].user /\ req'[r].ver = req[r].ver
             /\ req'[r].todo = req[r].todo
             /\ req'[r].clear = req[r].clear \ {f}
  BY <1>1, <1>3, <1>5 DEF Request
<1>6. ~(MarkRevoked(r, f) /\ ClearLive(r, f))
  <2> SUFFICES ASSUME MarkRevoked(r, f), ClearLive(r, f)
               PROVE  FALSE
    OBVIOUS
  <2>1. f \in req'[r].clear /\ f \notin req'[r].clear
    BY <1>4, <1>5
  <2> QED
    BY <2>1
<1> QED
  BY <1>2, <1>3, <1>4, <1>5, <1>6

LEMMA BumpSlot ==
    ASSUME ReqOK, NEW r \in Requests, Bump(r)
    PROVE  /\ Others(r)
           /\ req[r].op = "invalidate" /\ req[r].pc = "incr"
           /\ req'[r].op = "invalidate" /\ req'[r].fam = NoFamily
           /\ req'[r].user = req[r].user
           /\ req'[r].pc \in {"revokeAll", "marks"}
           /\ req'[r].todo = {} /\ req'[r].clear = {}
<1> DEFINE next == IF req[r].full THEN "revokeAll" ELSE "marks"
           v == version[req[r].user] + 1
<1>1. req[r] \in Request /\ req[r].op = "invalidate" /\ req[r].pc = "incr"
      /\ req[r].todo = {} /\ req[r].clear = {} /\ req[r].fam = NoFamily
  BY SlotFacts DEF Bump, At, ReqOK, WellFormed
<1>2. req'[r] = [req[r] EXCEPT !.ver = v, !.pc = next] /\ Others(r)
  BY SlotUpdate DEF Bump
<1>3. next \in {"revokeAll", "marks"}
  OBVIOUS
<1> HIDE DEF next, v
<1> QED
  BY <1>1, <1>2, <1>3 DEF Request

LEMMA RevokeAllSlot ==
    ASSUME ReqOK, NEW r \in Requests, RevokeAllRows(r)
    PROVE  /\ Others(r)
           /\ req[r].op = "invalidate" /\ req[r].pc = "revokeAll"
           /\ req'[r].op = "invalidate" /\ req'[r].fam = NoFamily
           /\ req'[r].user = req[r].user /\ req'[r].pc = "marks"
           /\ req'[r].todo = {f \in FamiliesOf(req[r].user) :
                                row[f].status = "active"}
           /\ req'[r].clear = {}
<1> DEFINE F == {f \in FamiliesOf(req[r].user) : row[f].status = "active"}
<1>1. req[r] \in Request /\ req[r].op = "invalidate"
      /\ req[r].pc = "revokeAll" /\ req[r].clear = {}
      /\ req[r].fam = NoFamily
  BY SlotFacts DEF RevokeAllRows, At, ReqOK, WellFormed
<1>2. req'[r] = [req[r] EXCEPT !.todo = F, !.pc = "marks"] /\ Others(r)
  BY SlotUpdate DEF RevokeAllRows
<1>3. req'[r].todo = F
  <2> HIDE DEF F
  <2> QED
    BY <1>1, <1>2 DEF Request
<1> QED
  BY <1>1, <1>2, <1>3 DEF Request

LEMMA CloseTxSlot ==
    ASSUME ReqOK, NEW r \in Requests, At(r, "commit"), CloseTx(r)
    PROVE  /\ Others(r)
           /\ req[r].op = "invalidate" /\ req[r].pc = "commit"
           /\ req'[r].op = "invalidate" /\ req'[r].fam = NoFamily
           /\ req'[r].user = req[r].user /\ req'[r].pc = "incr"
           /\ ~req'[r].tx
           /\ req'[r].todo = {} /\ req'[r].clear = {}
<1>1. req[r] \in Request /\ req[r].op = "invalidate"
      /\ req[r].pc = "commit" /\ req[r].todo = {} /\ req[r].clear = {}
      /\ req[r].fam = NoFamily
  BY SlotFacts DEF At, ReqOK, WellFormed
<1>2. req'[r] = [req[r] EXCEPT !.pc = "incr", !.tx = FALSE] /\ Others(r)
  BY SlotUpdate DEF CloseTx
<1> QED
  BY <1>1, <1>2 DEF Request

-----------------------------------------------------------------------------
(* Issue and revocation converge.                                          *)

\* The promise to take liveness down survives a step of another request.
LEMMA ClearKept ==
    ASSUME RevocationConverges, NEW r \in Requests, Others(r),
           NEW f \in marked' \cap live',
           \/ Clears(req'[r], f)
           \/ f \in marked \cap live /\ ~Clears(req[r], f)
    PROVE  WillClear(f)'
<1>1. CASE Clears(req'[r], f)
  BY <1>1 DEF WillClear
<1>2. CASE f \in marked \cap live /\ ~Clears(req[r], f)
  <2>1. PICK s \in Requests : Clears(req[s], f)
    BY <1>2 DEF RevocationConverges, WillClear
  <2>2. req'[s] = req[s]
    BY <1>2, <2>1 DEF Others
  <2> QED
    BY <2>1, <2>2 DEF WillClear
<1> QED
  BY <1>1, <1>2

\* A slot that is neither looking for a revocation nor revoking clears
\* nothing.
LEMMA ClearsNothing ==
    ASSUME ReqOK, NEW r \in Requests, NEW f,
           req[r].pc \notin {"check", "withdraw", "marks"}
    PROVE  ~Clears(req[r], f)
BY SlotFacts DEF Clears

LEMMA ConvergesStart ==
    ASSUME ReqOK, RestOK, RevocationConverges, NEW r \in Requests, Start(r)
    PROVE  RevocationConverges'
<1>1. req[r].pc = "idle"
  BY StartSlot DEF Started, ReqOK, WellFormed
<1> SUFFICES ASSUME NEW f \in marked' \cap live'
             PROVE  WillClear(f)'
  BY DEF RevocationConverges
<1> QED
  BY <1>1, StartSlot, ClearsNothing, ClearKept DEF Started

LEMMA ConvergesIssue ==
    ASSUME ReqOK, RestOK, RevocationConverges, NEW r \in Requests, Issue(r)
    PROVE  RevocationConverges'
<1> SUFFICES ASSUME NEW f \in marked' \cap live'
             PROVE  WillClear(f)'
  BY DEF RevocationConverges
<1>1. Others(r) /\ req[r].pc # "marks" /\ req[r].clear = {}
  BY IssueSlot, SlotFacts DEF Moved
<1>2. CASE SetLive(r)
  <2>1. live' = live \cup {req[r].fam} /\ marked' = marked
        /\ req'[r].fam = req[r].fam /\ req'[r].pc = "check"
        /\ req[r].pc = "live"
    BY <1>2, GotoSlot DEF SetLive, At
  <2> QED
    BY <1>1, <2>1, ClearKept, ClearsNothing DEF Clears
<1>3. CASE CheckRevoked(r)
  <2>1. /\ live' = live /\ marked' = marked /\ req'[r].fam = req[r].fam
        /\ req[r].fam \in marked => req'[r].pc = "withdraw"
    BY <1>3, GotoSlot DEF CheckRevoked, cacheVars
  <2> QED
    BY <1>1, <2>1, ClearKept DEF Clears
<1>4. CASE WithdrawLive(r)
  <2>1. live' = live \ {req[r].fam} /\ marked' = marked
    BY <1>4 DEF WithdrawLive
  <2> QED
    BY <1>1, <2>1, ClearKept DEF Clears
<1>5. CASE /\ live' = live /\ marked' = marked
           /\ req[r].pc \notin {"check", "withdraw", "marks"}
  BY <1>1, <1>5, ClearKept, ClearsNothing
<1>6. ASSUME ~SetLive(r), ~CheckRevoked(r), ~WithdrawLive(r)
      PROVE  /\ live' = live /\ marked' = marked
             /\ req[r].pc \notin {"check", "withdraw", "marks"}
  BY <1>6 DEF Issue, At, cacheVars, ReadRow, CheckAllowed, LoginAccount,
     SweepExpired, RefreshAccount, RecoverAccount, ReadVersion, ReadClaims,
     AssertBeforeWrite, InsertRow, RotateRow, RereadRow, AssertAfterWrite,
     AssertAfterLastLogin
<1> QED
  BY <1>2, <1>3, <1>4, <1>5, <1>6

LEMMA ConvergesRevoke ==
    ASSUME ReqOK, RestOK, RevocationConverges, NEW r \in Requests, Revoke(r)
    PROVE  RevocationConverges'
<1> SUFFICES ASSUME NEW f \in marked' \cap live'
             PROVE  WillClear(f)'
  BY DEF RevocationConverges
<1> USE DEF cacheVars
<1>1. ASSUME NEW g \in Families, MarkRevoked(r, g) PROVE WillClear(f)'
  <2>1. live' = live /\ marked' = marked \cup {g}
    BY <1>1 DEF MarkRevoked
  <2>2. /\ Others(r) /\ req'[r].clear = req[r].clear \cup {g}
        /\ req[r].pc = "marks"
    BY <1>1, MarkSlot
  <2> QED
    BY <2>1, <2>2, ClearKept DEF Clears
<1>2. ASSUME NEW g \in Families, ClearLive(r, g) PROVE WillClear(f)'
  <2>1. live' = live \ {g} /\ marked' = marked
    BY <1>2 DEF ClearLive
  <2>2. /\ Others(r) /\ req'[r].clear = req[r].clear \ {g}
        /\ req[r].pc = "marks"
    BY <1>2, MarkSlot
  <2> QED
    BY <2>1, <2>2, ClearKept DEF Clears
<1>3. ASSUME \/ MarksDoneFamily(r) \/ MarksDoneAll(r) \/ Tombstone(r)
             \/ Bump(r) \/ RevokeAllRows(r) \/ Commit(r) \/ Rollback(r)
      PROVE  WillClear(f)'
  <2>1. live' = live /\ marked' = marked
    BY <1>3 DEF MarksDoneFamily, MarksDoneAll, Tombstone, Bump,
       RevokeAllRows, Commit, Rollback
  <2>2. req[r].clear = {} /\ req[r].pc \notin {"check", "withdraw"}
    BY <1>3, SlotFacts DEF MarksDoneFamily, MarksDoneAll, Marked, Tombstone,
       Bump, RevokeAllRows, Commit, Rollback, At
  <2>3. Others(r)
    BY <1>3, GotoSlot, FinishSlot, BumpSlot, RevokeAllSlot, CloseTxSlot
    DEF MarksDoneFamily, MarksDoneAll, Tombstone, Commit, Rollback
  <2> QED
    BY <2>1, <2>2, <2>3, ClearKept DEF Clears
<1> QED
  BY <1>1, <1>2, <1>3 DEF Revoke

\* The environment only takes markers away.
LEMMA ConvergesEnvironment ==
    ASSUME RevocationConverges, Environment \/ Quiet \/ UNCHANGED vars
    PROVE  RevocationConverges'
<1>1. req' = req /\ live' \subseteq live /\ marked' \subseteq marked
  BY DEF Environment, GraceElapses, Lapse, LoseCache, LoseKeys, Die, Quiet,
     vars, cacheVars
<1> QED
  BY <1>1 DEF RevocationConverges, WillClear

LEMMA ConvergesStep ==
    TypeOK /\ RevocationConverges /\ [Next]_vars => RevocationConverges'
BY TypeSplit, ConvergesStart, ConvergesIssue, ConvergesRevoke,
   ConvergesEnvironment DEF Next, Progress

\* In every reachable state, whatever the cache has lost and whoever has
\* died, a family whose two markers coexist has a request that will take the
\* liveness marker down: markFamilyIssued and markFamilyRevoked converge on
\* revoked however they interleave.
THEOREM Convergence == Spec => []RevocationConverges
<1>1. Init => RevocationConverges
  BY DEF Init, RevocationConverges
<1>2. QED
  BY <1>1, ConvergesStep, TypeCorrect, PTL DEF Spec

-----------------------------------------------------------------------------
(* A revoked row is not live.                                              *)

\* While the cache keeps its keys, a row that is revoked, or locked by a
\* transaction that revokes it, is marked or about to be, and a request that
\* revokes its own family marks it before it touches the row.
Covered(f) == f \in marked \/ WillMark(f)
RowsCovered ==
    \A f \in Families : row[f].status = "revoked" \/ f \in locked => Covered(f)
RevokersCover ==
    \A r \in Requests :
        /\ req[r].op \in FamilyOps
        /\ req[r].pc \in {"marks", "tomb"}
        => req[r].fam \in marked \cup req[r].todo
MarksFirst == count.losses = 0 => RowsCovered /\ RevokersCover

\* The promise to mark survives every step that marks what it drops.
LEMMA CoveredKept ==
    ASSUME NEW r \in Requests, Others(r), NEW f, marked \subseteq marked',
           Covered(f), f \in req[r].todo => f \in marked' \cup req'[r].todo
    PROVE  Covered(f)'
BY DEF Covered, WillMark, Others

\* What the step of a request has to show to keep the marks first.
LEMMA MarksFirstKept ==
    ASSUME MarksFirst, count'.losses = count.losses,
           NEW r \in Requests, Others(r), marked \subseteq marked',
           req[r].todo \subseteq marked' \cup req'[r].todo,
           \A f \in Families :
               row'[f].status = "revoked" \/ f \in locked' =>
                   \/ row[f].status = "revoked" \/ f \in locked
                   \/ f \in req'[r].todo
                   \/ count.losses = 0 => f \in marked',
           /\ req'[r].op \in FamilyOps
           /\ req'[r].pc \in {"marks", "tomb"}
           /\ count.losses = 0
           => req'[r].fam \in marked' \cup req'[r].todo
    PROVE  MarksFirst'
<1> SUFFICES ASSUME count.losses = 0
             PROVE  RowsCovered' /\ RevokersCover'
  BY DEF MarksFirst
<1>1. RowsCovered /\ RevokersCover
  BY DEF MarksFirst
<1>2. RowsCovered'
  BY <1>1, CoveredKept DEF RowsCovered, Covered, WillMark
<1>3. RevokersCover'
  BY <1>1 DEF RevokersCover, Others
<1> QED
  BY <1>2, <1>3

LEMMA MarksFirstStart ==
    ASSUME ReqOK, RestOK, MarksFirst, NEW r \in Requests, Start(r)
    PROVE  MarksFirst'
<1>1. req[r].todo = {}
  BY StartSlot DEF Started, ReqOK, WellFormed
<1> QED
  BY <1>1, StartSlot, MarksFirstKept DEF Started

LEMMA MarksFirstIssue ==
    ASSUME ReqOK, RestOK, MarksFirst, NEW r \in Requests, Issue(r)
    PROVE  MarksFirst'
<1>1. Moved(r) /\ req[r].todo = {}
  BY IssueSlot, SlotFacts DEF Moved
<1>2. count' = count /\ marked' = marked /\ locked' = locked
  BY DEF Issue, dbVars, cacheVars, handVars, ReadRow, CheckAllowed,
     LoginAccount, SweepExpired, RefreshAccount, RecoverAccount, ReadVersion,
     ReadClaims, AssertBeforeWrite, InsertRow, RotateRow, RereadRow, SetLive,
     CheckRevoked, WithdrawLive, AssertAfterWrite, AssertAfterLastLogin
<1>3. ASSUME NEW f \in Families, row'[f].status = "revoked"
      PROVE  row[f].status = "revoked"
  <2>1. CASE row' = row
    BY <1>3, <2>1
  <2>2. CASE InsertRow(r)
    BY <1>3, <2>2 DEF InsertRow, RestOK
  <2>3. CASE RotateRow(r)
    <3> DEFINE old == row[req[r].fam]
    <3>1. PICK n : /\ n = [old EXCEPT !.token = req[r].tok + 1,
                                      !.prev = req[r].seen.token]
                   /\ row' = row \/ row' = [row EXCEPT ![req[r].fam] = n]
      BY <2>3 DEF RotateRow
    <3>2. req[r].fam \in Families
      BY <1>1, SlotFacts DEF Moved
    <3>3. old \in [status: Status, token: Nat, prev: Nat]
      BY <3>2 DEF RestOK
    <3>4. n.status = old.status
      <4> HIDE DEF old
      <4> QED
        BY <3>1, <3>3
    <3> QED
      BY <1>3, <3>1, <3>2, <3>4 DEF RestOK
  <2>4. CASE SweepExpired(r)
    <3> DEFINE swept == [row[f] EXCEPT !.status = "deleted"]
    <3>1. row' = row \/ row'[f] = row[f] \/ row'[f] = swept
      BY <2>4 DEF SweepExpired
    <3>2. row[f] \in [status: Status, token: Nat, prev: Nat]
      BY DEF RestOK
    <3>3. swept.status = "deleted"
      BY <3>2
    <3> QED
      BY <1>3, <3>1, <3>3
  <2> QED
    BY <2>1, <2>2, <2>3, <2>4 DEF Issue, dbVars, ReadRow, CheckAllowed,
     LoginAccount, RefreshAccount, RecoverAccount, ReadVersion,
     ReadClaims, AssertBeforeWrite, RereadRow, SetLive,
     CheckRevoked, WithdrawLive, AssertAfterWrite, AssertAfterLastLogin
<1> QED
  BY <1>1, <1>2, <1>3, MarksFirstKept DEF Moved, FamilyOps

\* Which rows become revoked when a set of them is.
LEMMA TombstonedStatus ==
    ASSUME RestOK, NEW F, NEW f \in Families,
           Tombstoned(F)[f].status = "revoked"
    PROVE  row[f].status = "revoked" \/ f \in F
BY DEF Tombstoned, RestOK

LEMMA MarksFirstRevoke ==
    ASSUME ReqOK, RestOK, MarksFirst, NEW r \in Requests, Revoke(r)
    PROVE  MarksFirst'
<1> USE DEF cacheVars, dbVars, rowVars, handVars
<1>1. ASSUME NEW g \in Families, MarkRevoked(r, g) \/ ClearLive(r, g)
      PROVE  MarksFirst'
  <2>1. CASE MarkRevoked(r, g)
    <3>1. /\ marked' = marked \cup {g} /\ row' = row /\ locked' = locked
          /\ count' = count
      BY <2>1 DEF MarkRevoked
    <3>2. /\ Others(r) /\ req'[r].todo = req[r].todo \ {g}
          /\ req'[r].op = req[r].op /\ req'[r].fam = req[r].fam
          /\ req[r].pc = "marks"
      BY <2>1, MarkSlot
    <3> QED
      BY <3>1, <3>2, MarksFirstKept DEF MarksFirst, RevokersCover
  <2>2. CASE ClearLive(r, g)
    <3>1. /\ marked' = marked /\ row' = row /\ locked' = locked
          /\ count' = count
      BY <2>2 DEF ClearLive
    <3>2. /\ Others(r) /\ req'[r].todo = req[r].todo
          /\ req'[r].op = req[r].op /\ req'[r].fam = req[r].fam
          /\ req[r].pc = "marks"
      BY <2>2, MarkSlot
    <3> QED
      BY <3>1, <3>2, MarksFirstKept DEF MarksFirst, RevokersCover
  <2> QED
    BY <1>1, <2>1, <2>2
<1>2. ASSUME MarksDoneFamily(r) PROVE MarksFirst'
  <2>1. /\ marked' = marked /\ row' = row /\ locked' = locked
        /\ count' = count /\ req[r].todo = {} /\ req[r].pc = "marks"
    BY <1>2 DEF MarksDoneFamily, Marked, At
  <2>2. /\ Others(r) /\ req'[r].todo = req[r].todo
        /\ req'[r].op = req[r].op /\ req'[r].fam = req[r].fam
    BY <1>2, GotoSlot DEF MarksDoneFamily
  <2> QED
    BY <2>1, <2>2, MarksFirstKept DEF MarksFirst, RevokersCover
<1>3. ASSUME MarksDoneAll(r) PROVE MarksFirst'
  <2>1. /\ marked' = marked /\ row' = row /\ locked' = locked
        /\ count' = count /\ req[r].todo = {} /\ req[r].op = "invalidate"
    BY <1>3 DEF MarksDoneAll, Marked
  <2>2. Others(r) /\ req'[r].op \in {"none", "invalidate"}
    BY <1>3, <2>1, GotoSlot, FinishSlot DEF MarksDoneAll
  <2> QED
    BY <2>1, <2>2, MarksFirstKept DEF FamilyOps
<1>4. ASSUME Tombstone(r) PROVE MarksFirst'
  <2>1. /\ marked' = marked /\ locked' = locked /\ count' = count
        /\ row' = Tombstoned({req[r].fam}) /\ req[r].pc = "tomb"
    BY <1>4 DEF Tombstone, At
  <2>2. Others(r) /\ req'[r].op = "none"
    BY <1>4, FinishSlot DEF Tombstone
  <2>3. req[r].todo = {} /\ req[r].op \in FamilyOps
    BY <2>1, SlotFacts DEF UserSteps
  <2>4. count.losses = 0 => req[r].fam \in marked
    BY <2>1, <2>3 DEF MarksFirst, RevokersCover
  <2> QED
    BY <2>1, <2>2, <2>3, <2>4, TombstonedStatus, MarksFirstKept DEF FamilyOps
<1>5. ASSUME Bump(r) PROVE MarksFirst'
  <2>1. /\ marked' = marked /\ row' = row /\ locked' = locked
        /\ count' = count /\ req[r].todo = {}
    BY <1>5, BumpSlot, SlotFacts DEF Bump
  <2> QED
    BY <1>5, <2>1, BumpSlot, MarksFirstKept DEF FamilyOps
<1>6. ASSUME RevokeAllRows(r) PROVE MarksFirst'
  <2> DEFINE F == {f \in FamiliesOf(req[r].user) : row[f].status = "active"}
  <2>1. /\ marked' = marked /\ count' = count
        /\ \/ locked' = locked \cup F /\ row' = row
           \/ locked' = locked /\ row' = Tombstoned(F)
    BY <1>6 DEF RevokeAllRows
  <2>2. /\ Others(r) /\ req'[r].todo = F /\ req'[r].op = "invalidate"
        /\ req[r].todo = {}
    BY <1>6, RevokeAllSlot, SlotFacts
  <2> HIDE DEF F
  <2> QED
    BY <2>1, <2>2, TombstonedStatus, MarksFirstKept DEF FamilyOps
<1>7. ASSUME Commit(r) \/ Rollback(r) PROVE MarksFirst'
  <2>1. /\ marked' = marked /\ count' = count /\ locked' \subseteq locked
        /\ row' = row \/ row' = Tombstoned(locked \cap FamiliesOf(req[r].user))
    BY <1>7 DEF Commit, Rollback, CloseTx
  <2>2. /\ Others(r) /\ req'[r].op = "invalidate" /\ req[r].todo = {}
    BY <1>7, CloseTxSlot, SlotFacts DEF Commit, Rollback
  <2> QED
    BY <2>1, <2>2, TombstonedStatus, MarksFirstKept DEF FamilyOps
<1> QED
  BY <1>1, <1>2, <1>3, <1>4, <1>5, <1>6, <1>7 DEF Revoke

\* The environment revokes nothing, and a loss of keys ends the promise.
LEMMA MarksFirstEnvironment ==
    ASSUME RestOK, MarksFirst, Environment \/ Quiet \/ UNCHANGED vars
    PROVE  MarksFirst'
<1> USE DEF cacheVars, dbVars, rowVars, handVars
<1>1. ASSUME NEW L, NEW M, NEW V, LoseKeys(L, M, V) PROVE MarksFirst'
  <2>1. count'.losses = count.losses + 1 /\ count.losses \in Nat
    BY <1>1 DEF LoseKeys, RestOK
  <2> QED
    BY <2>1 DEF MarksFirst
<1>2. ASSUME /\ req' = req /\ row' = row /\ marked' = marked
             /\ locked' \subseteq locked /\ count'.losses = count.losses
      PROVE  MarksFirst'
  BY <1>2 DEF MarksFirst, RowsCovered, RevokersCover, Covered, WillMark
<1>3. ASSUME NEW f \in Families, GraceElapses(f) \/ Lapse(f)
      PROVE  MarksFirst'
  BY <1>2, <1>3 DEF GraceElapses, Lapse, RestOK
<1>4. ASSUME NEW r \in Requests, Die(r) PROVE MarksFirst'
  BY <1>2, <1>4 DEF Die
<1>5. ASSUME UNCHANGED vars PROVE MarksFirst'
  BY <1>2, <1>5 DEF vars
<1> QED
  BY <1>1, <1>3, <1>4, <1>5 DEF Environment, LoseCache, Quiet

LEMMA MarksFirstStep == TypeOK /\ MarksFirst /\ [Next]_vars => MarksFirst'
BY TypeSplit, MarksFirstStart, MarksFirstIssue, MarksFirstRevoke,
   MarksFirstEnvironment DEF Next, Progress

LEMMA MarksFirstInit == Init => MarksFirst
BY DEF Init, MarksFirst, RowsCovered, RevokersCover, Idle, FamilyOps

\* While the cache keeps its keys, no family with a revoked row stays live
\* once its requests are over: revokeFamily marks before it revokes the row,
\* and revokeAllForUser marks every row it has revoked.
THEOREM RevokedIsOver == Spec => []RevokedRowIsNotLive
<1>1. TypeOK /\ MarksFirst /\ RevocationConverges => RevokedRowIsNotLive
  BY DEF TypeOK, MarksFirst, RowsCovered, Covered, RevocationConverges,
     RevokedRowIsNotLive
<1>2. QED
  BY <1>1, MarksFirstInit, MarksFirstStep, TypeCorrect, Convergence, PTL
     DEF Spec

\* Only a cache that loses keys makes a logged-out family look valid again:
\* as long as it keeps them, no credential of a family verifies once its row
\* is revoked and nobody works on it (SessionInvalidationService).
THEOREM LoggedOutWhileKept ==
    Spec => [](count.losses = 0 => LoggedOutStaysOut)
<1>1. TypeOK /\ MarksFirst => (count.losses = 0 => LoggedOutStaysOut)
  BY DEF TypeOK, Credential, MarksFirst, RowsCovered, Covered, WillMark,
     LoggedOutStaysOut, Verifies
<1>2. QED
  BY <1>1, MarksFirstInit, MarksFirstStep, TypeCorrect, PTL DEF Spec

-----------------------------------------------------------------------------
(* Claims that verify are current.                                         *)

\* Claims read under a session version are those of the account as long as
\* that version is the latest, unless an invalidation has yet to bump it.
Announcing == {u \in Users : WillBump(u)}
Current(u, ver, claims) ==
    /\ ver <= version[u]
    /\ ver = version[u] => claims = account[u].claims \/ u \in Announcing

\* The same after the step.
CurrentNext(u, ver, claims) ==
    /\ ver <= version'[u]
    /\ ver = version'[u] => claims = account'[u].claims \/ u \in Announcing'

CredsCurrent ==
    \A c \in creds : Current(OwnerOf[c.family], c.version, c.claims)
RequestsCurrent ==
    \A r \in Requests : req[r].op \in FamilyOps =>
        /\ req[r].ver <= version[req[r].user]
        /\ req[r].pc \in ClaimSteps =>
               Current(req[r].user, req[r].ver, req[r].claims)
ClaimsFollow == count.losses = 0 => CredsCurrent /\ RequestsCurrent

Bumping(q, u) ==
    q.op = "invalidate" /\ q.user = u /\ q.pc = "incr" /\ ~q.tx

\* Current claims stay current when neither the account nor the version of
\* the user changes, or when the account does and a bump is to come.
LEMMA CurrentKept ==
    ASSUME NEW r \in Requests, Others(r), NEW u \in Users, NEW ver,
           NEW claims, Current(u, ver, claims),
           version'[u] = version[u],
           account'[u] = account[u] \/ Bumping(req'[r], u),
           Bumping(req[r], u) => Bumping(req'[r], u)
    PROVE  CurrentNext(u, ver, claims)
<1>1. u \in Announcing => u \in Announcing'
  BY DEF Announcing, WillBump, Bumping, Others
<1>2. Bumping(req'[r], u) => u \in Announcing'
  BY DEF Announcing, WillBump, Bumping
<1> QED
  BY <1>1, <1>2 DEF Current, CurrentNext

\* What a step has to show about its own slot and about the users it bumps.
LEMMA ClaimsFollowKept ==
    ASSUME ReqOK, RestOK, ClaimsFollow, count'.losses = count.losses,
           NEW r \in Requests, Others(r), version' = version,
           \A u \in Users : /\ account'[u] = account[u] \/ Bumping(req'[r], u)
                            /\ Bumping(req[r], u) => Bumping(req'[r], u),
           count.losses = 0 =>
               /\ \A c \in creds' \ creds :
                     /\ OwnerOf[c.family] \in Users
                     /\ Current(OwnerOf[c.family], c.version, c.claims)
               /\ req'[r].op \in FamilyOps =>
                     /\ req'[r].user \in Users
                     /\ req'[r].ver <= version[req'[r].user]
                     /\ req'[r].pc \in ClaimSteps =>
                          Current(req'[r].user, req'[r].ver, req'[r].claims)
    PROVE  ClaimsFollow'
<1> SUFFICES ASSUME count.losses = 0
             PROVE  CredsCurrent' /\ RequestsCurrent'
  BY DEF ClaimsFollow
<1>1. CredsCurrent /\ RequestsCurrent
  BY DEF ClaimsFollow
<1>2. CredsCurrent'
  <2> SUFFICES ASSUME NEW c \in creds'
               PROVE  CurrentNext(OwnerOf[c.family], c.version, c.claims)
    BY DEF CredsCurrent, Current, CurrentNext
  <2>1. /\ OwnerOf[c.family] \in Users
        /\ Current(OwnerOf[c.family], c.version, c.claims)
    <3>1. CASE c \in creds
      BY <1>1, <3>1 DEF CredsCurrent, RestOK, Credential
    <3>2. CASE c \notin creds
      BY <3>2
    <3> QED
      BY <3>1, <3>2
  <2> QED
    BY <2>1, CurrentKept
<1>3. ASSUME NEW s \in Requests, req'[s].op \in FamilyOps
      PROVE  /\ req'[s].ver <= version'[req'[s].user]
             /\ req'[s].pc \in ClaimSteps =>
                  CurrentNext(req'[s].user, req'[s].ver, req'[s].claims)
  <2>1. CASE s = r
    BY <1>3, <2>1, CurrentKept
  <2>2. CASE s # r
    <3>1. req'[s] = req[s] /\ req[s].user \in Users
      BY <1>3, <2>2, SlotFacts DEF Others, FamilyOps
    <3> QED
      BY <1>1, <1>3, <3>1, CurrentKept DEF RequestsCurrent
  <2> QED
    BY <2>1, <2>2
<1>4. RequestsCurrent'
  BY <1>3 DEF RequestsCurrent, Current, CurrentNext
<1> QED
  BY <1>2, <1>4

LEMMA ClaimsFollowStart ==
    ASSUME ReqOK, RestOK, ClaimsFollow, NEW r \in Requests, Start(r)
    PROVE  ClaimsFollow'
<1>1. /\ Started(r) /\ Announced(r) /\ creds' = creds
      /\ version' = version /\ count'.losses = count.losses
  BY StartSlot
<1>2. ReqOK'
  BY StartType
<1>3. req'[r].op \in FamilyOps => req'[r].user \in Users
  BY <1>2 DEF ReqOK, WellFormed, FamilyOps
<1>4. req'[r].op \in FamilyOps => 0 <= version[req'[r].user]
  BY <1>3 DEF RestOK
<1> QED
  BY <1>1, <1>3, <1>4, ClaimsFollowKept
  DEF Started, Announced, Bumping, ClaimSteps

\* Every credential an issuing request hands out carries the version and the
\* claims of its slot.
LEMMA ClaimsFollowIssue ==
    ASSUME ReqOK, RestOK, ClaimsFollow, NEW r \in Requests, Issue(r)
    PROVE  ClaimsFollow'
<1> DEFINE q == req[r]
           n == req'[r]
<1> USE DEF cacheVars, dbVars, handVars
<1>1. Moved(r)
  BY IssueSlot
<1>2. /\ q.op \in FamilyOps /\ q.user \in Users /\ q.fam \in Families
      /\ q.user = OwnerOf[q.fam] /\ version[q.user] \in Nat
      /\ ~Bumping(q, q.user)
  BY <1>1, SlotFacts DEF Moved, FamilyOps, ReqOK, WellFormed, RestOK, Bumping
<1>3. version' = version /\ account' = account /\ count' = count
  BY DEF Issue, ReadRow, CheckAllowed,
     LoginAccount, SweepExpired, RefreshAccount, RecoverAccount, ReadVersion,
     ReadClaims, AssertBeforeWrite, InsertRow, RotateRow, RereadRow, SetLive,
     CheckRevoked, WithdrawLive, AssertAfterWrite, AssertAfterLastLogin
<1>4. \/ creds' = creds
      \/ /\ q.pc \in ClaimSteps
         /\ creds' = creds \cup
              {[family |-> q.fam, version |-> q.ver, claims |-> q.claims]}
  BY DEF Issue, At, ClaimSteps, ReadRow, CheckAllowed, Respond,
     LoginAccount, SweepExpired, RefreshAccount, RecoverAccount, ReadVersion,
     ReadClaims, AssertBeforeWrite, InsertRow, RotateRow, RereadRow, SetLive,
     CheckRevoked, WithdrawLive, AssertAfterWrite, AssertAfterLastLogin
<1>5. ASSUME count.losses = 0
      PROVE  /\ q.ver <= version[q.user]
             /\ q.pc \in ClaimSteps => Current(q.user, q.ver, q.claims)
  BY <1>2, <1>5 DEF ClaimsFollow, RequestsCurrent
<1>6. ASSUME count.losses = 0, NEW c \in creds' \ creds
      PROVE  /\ OwnerOf[c.family] \in Users
             /\ Current(OwnerOf[c.family], c.version, c.claims)
  BY <1>2, <1>4, <1>5, <1>6
<1>7. ASSUME count.losses = 0, n.op \in FamilyOps
      PROVE  /\ n.user \in Users
             /\ n.ver <= version[n.user]
             /\ n.pc \in ClaimSteps => Current(n.user, n.ver, n.claims)
  <2>1. n.user = q.user
    BY <1>1, <1>7 DEF Moved, FamilyOps
  <2>2. n.ver <= version[q.user]
    BY <1>1, <1>2, <1>5, <1>7 DEF Moved, FamilyOps
  <2>3. ASSUME n.pc \in ClaimSteps
        PROVE  Current(q.user, n.ver, n.claims)
    <3>1. CASE n.claims = account[q.user].claims
      BY <2>2, <3>1 DEF Current
    <3>2. CASE n.claims # account[q.user].claims
      <4>1. q.pc \in ClaimSteps /\ n.claims = q.claims /\ n.ver = q.ver
        BY <1>1, <1>7, <2>3, <3>2 DEF Moved, FamilyOps
      <4> QED
        BY <1>5, <1>7, <4>1
    <3> QED
      BY <3>1, <3>2
  <2> QED
    BY <1>2, <2>1, <2>2, <2>3
<1>8. Others(r) /\ \A u \in Users : ~Bumping(q, u)
  BY <1>1, <1>2 DEF Moved, Bumping, FamilyOps
<1> HIDE DEF q, n
<1> QED
  BY <1>3, <1>6, <1>7, <1>8, ClaimsFollowKept DEF q, n

LEMMA ClaimsFollowRevoke ==
    ASSUME ReqOK, RestOK, ClaimsFollow, NEW r \in Requests, Revoke(r)
    PROVE  ClaimsFollow'
<1> USE DEF cacheVars, dbVars, rowVars, handVars
<1>1. ASSUME Bump(r) PROVE ClaimsFollow'
  <2> DEFINE u == req[r].user
  <2>1. /\ Others(r) /\ u \in Users /\ version[u] \in Nat
        /\ req'[r].op = "invalidate" /\ req[r].op = "invalidate"
    BY <1>1, BumpSlot, SlotFacts DEF RestOK
  <2>2. /\ version' = [version EXCEPT ![u] = @ + 1]
        /\ account' = account /\ creds' = creds /\ count' = count
    BY <1>1 DEF Bump
  <2>3. ASSUME NEW v \in Users, NEW ver, NEW claims, Current(v, ver, claims),
               ver \in Nat
        PROVE  CurrentNext(v, ver, claims)
    <3>1. CASE v = u
      <4>1. version'[v] = version[v] + 1 /\ ver <= version[v]
            /\ version[v] \in Nat
        BY <2>1, <2>2, <2>3, <3>1 DEF RestOK, Current
      <4> QED
        BY <2>3, <4>1 DEF CurrentNext
    <3>2. CASE v # u
      <4>1. version'[v] = version[v] /\ ~Bumping(req[r], v)
        BY <2>1, <2>2, <3>2 DEF RestOK, Bumping
      <4> QED
        BY <2>1, <2>2, <2>3, <4>1, CurrentKept
    <3> QED
      BY <3>1, <3>2
  <2>4. \A v \in Users : version[v] \in Nat /\ version'[v] \in Nat
                        /\ version[v] <= version'[v]
    BY <2>1, <2>2 DEF RestOK
  <2> SUFFICES ASSUME count.losses = 0
               PROVE  CredsCurrent' /\ RequestsCurrent'
    BY <2>2 DEF ClaimsFollow
  <2>5. CredsCurrent /\ RequestsCurrent
    BY DEF ClaimsFollow
  <2>6. CredsCurrent'
    <3>1. ASSUME NEW c \in creds
          PROVE  CurrentNext(OwnerOf[c.family], c.version, c.claims)
      <4>1. OwnerOf[c.family] \in Users /\ c.version \in Nat
        BY DEF RestOK, Credential
      <4> QED
        BY <2>3, <2>5, <4>1 DEF CredsCurrent
    <3> QED
      BY <2>2, <3>1 DEF CredsCurrent, Current, CurrentNext
  <2>7. ASSUME NEW s \in Requests, req'[s].op \in FamilyOps
        PROVE  /\ req'[s].ver <= version'[req'[s].user]
               /\ req'[s].pc \in ClaimSteps =>
                    CurrentNext(req'[s].user, req'[s].ver, req'[s].claims)
    <3>1. req'[s] = req[s]
      BY <2>1, <2>7 DEF Others, FamilyOps
    <3>2. req[s].user \in Users /\ req[s].ver \in Nat
      BY <2>7, <3>1, SlotFacts DEF FamilyOps, Request
    <3>3. /\ req[s].ver <= version[req[s].user]
          /\ req[s].pc \in ClaimSteps =>
               Current(req[s].user, req[s].ver, req[s].claims)
      BY <2>5, <2>7, <3>1 DEF RequestsCurrent
    <3>4. req[s].ver <= version'[req[s].user]
      BY <2>4, <3>2, <3>3
    <3> QED
      BY <2>3, <3>1, <3>2, <3>3, <3>4
  <2>8. RequestsCurrent'
    BY <2>7 DEF RequestsCurrent, Current, CurrentNext
  <2> QED
    BY <2>6, <2>8
<1>2. ASSUME Commit(r) \/ Rollback(r) PROVE ClaimsFollow'
  <2>1. /\ Others(r) /\ req[r].op = "invalidate" /\ req[r].pc = "commit"
        /\ req'[r].op = "invalidate" /\ req'[r].pc = "incr"
        /\ req'[r].user = req[r].user /\ ~req'[r].tx
    BY <1>2, CloseTxSlot DEF Commit, Rollback
  <2>2. /\ version' = version /\ creds' = creds /\ count' = count
        /\ \A u \in Users \ {req[r].user} : account'[u] = account[u]
    BY <1>2 DEF Commit, Rollback, RestOK
  <2> QED
    BY <2>1, <2>2, ClaimsFollowKept DEF Bumping, FamilyOps
<1>3. ASSUME NEW g \in Families, MarkRevoked(r, g) \/ ClearLive(r, g)
      PROVE  ClaimsFollow'
  <2>1. /\ Others(r) /\ req[r].pc = "marks" /\ req'[r].pc = "marks"
        /\ req'[r].op = req[r].op /\ req'[r].user = req[r].user
        /\ req'[r].ver = req[r].ver
    BY <1>3, MarkSlot
  <2>2. /\ version' = version /\ account' = account /\ creds' = creds
        /\ count' = count
    BY <1>3 DEF MarkRevoked, ClearLive
  <2>3. req[r].op \in FamilyOps => req[r].user \in Users
    BY SlotFacts DEF FamilyOps
  <2>4. count.losses = 0 /\ req[r].op \in FamilyOps =>
            req[r].ver <= version[req[r].user]
    BY DEF ClaimsFollow, RequestsCurrent
  <2> QED
    BY <2>1, <2>2, <2>3, <2>4, ClaimsFollowKept DEF Bumping, ClaimSteps
<1>4. ASSUME \/ MarksDoneFamily(r) \/ MarksDoneAll(r) \/ Tombstone(r)
             \/ RevokeAllRows(r)
      PROVE  ClaimsFollow'
  <2>1. /\ version' = version /\ account' = account /\ creds' = creds
        /\ count' = count
    BY <1>4 DEF MarksDoneFamily, MarksDoneAll, Tombstone, RevokeAllRows
  <2>2. Others(r) /\ req[r].pc # "incr"
    BY <1>4, GotoSlot, FinishSlot, RevokeAllSlot
    DEF MarksDoneFamily, MarksDoneAll, Marked, Tombstone, At
  <2>3. req'[r].op \in FamilyOps =>
          /\ req'[r].pc \notin ClaimSteps /\ req'[r].user = req[r].user
          /\ req'[r].ver = req[r].ver /\ req[r].op \in FamilyOps
    BY <1>4, GotoSlot, FinishSlot, RevokeAllSlot
    DEF MarksDoneFamily, MarksDoneAll, Tombstone, FamilyOps, ClaimSteps
  <2>4. req[r].op \in FamilyOps => req[r].user \in Users
    BY SlotFacts DEF FamilyOps
  <2>5. count.losses = 0 /\ req[r].op \in FamilyOps =>
            req[r].ver <= version[req[r].user]
    BY DEF ClaimsFollow, RequestsCurrent
  <2> QED
    BY <2>1, <2>2, <2>3, <2>4, <2>5, ClaimsFollowKept DEF Bumping
<1> QED
  BY <1>1, <1>2, <1>3, <1>4 DEF Revoke

LEMMA ClaimsFollowEnvironment ==
    ASSUME RestOK, ClaimsFollow, Environment \/ Quiet \/ UNCHANGED vars
    PROVE  ClaimsFollow'
<1> USE DEF cacheVars, dbVars, rowVars, handVars
<1>1. ASSUME NEW L, NEW M, NEW V, LoseKeys(L, M, V) PROVE ClaimsFollow'
  <2>1. count'.losses = count.losses + 1 /\ count.losses \in Nat
    BY <1>1 DEF LoseKeys, RestOK
  <2> QED
    BY <2>1 DEF ClaimsFollow
<1>2. ASSUME /\ req' = req /\ version' = version /\ account' = account
             /\ creds' = creds /\ count'.losses = count.losses
      PROVE  ClaimsFollow'
  BY <1>2 DEF ClaimsFollow, CredsCurrent, RequestsCurrent, Current,
              Announcing, WillBump
<1>3. ASSUME NEW f \in Families, GraceElapses(f) \/ Lapse(f)
      PROVE  ClaimsFollow'
  BY <1>2, <1>3 DEF GraceElapses, Lapse, RestOK
<1>4. ASSUME NEW r \in Requests, Die(r) PROVE ClaimsFollow'
  BY <1>2, <1>4 DEF Die
<1>5. ASSUME UNCHANGED vars PROVE ClaimsFollow'
  BY <1>2, <1>5 DEF vars
<1> QED
  BY <1>1, <1>3, <1>4, <1>5 DEF Environment, LoseCache, Quiet

LEMMA ClaimsFollowStep ==
    TypeOK /\ ClaimsFollow /\ [Next]_vars => ClaimsFollow'
BY TypeSplit, ClaimsFollowStart, ClaimsFollowIssue, ClaimsFollowRevoke,
   ClaimsFollowEnvironment DEF Next, Progress

\* While the cache keeps its keys, no credential that passes
\* verifyAccessToken carries the role or the permissions of an earlier
\* revision of its account, once the change has bumped the session version:
\* the version is read before the claims, and bumped again after a commit.
THEOREM ClaimsAreCurrent == Spec => []VerifiedClaimsAreCurrent
<1>1. Init => ClaimsFollow
  BY DEF Init, ClaimsFollow, CredsCurrent, RequestsCurrent, Idle, FamilyOps
<1>2. TypeOK /\ ClaimsFollow => VerifiedClaimsAreCurrent
  BY DEF ClaimsFollow, CredsCurrent, Current, Announcing,
     VerifiedClaimsAreCurrent, Verifies
<1>3. QED
  BY <1>1, <1>2, ClaimsFollowStep, TypeCorrect, PTL DEF Spec


-----------------------------------------------------------------------------
(* Rows, the requests that write them and the tokens clients hold.         *)

\* The steps of a login before and after it has inserted its row.
PreWrite == {"version", "account", "sweep", "claims", "assert", "write"}
PostWrite == {"live", "check", "withdraw", "assert2", "lastlogin", "marks", "tomb"}
Presents == {"refresh", "serve", "recover"}

\* A login has the family to itself until its row is there, and then knows the
\* version the row was born with; the others present a token a client held,
\* and a rotation the current one of the row it read.
LoginFits(q) ==
    q.op = "login" =>
        /\ q.tok = 0
        /\ \/ q.pc \in PreWrite /\ row[q.fam].status = "unused"
           \/ /\ q.pc \in PostWrite /\ row[q.fam].status # "unused"
              /\ born[q.fam] = q.ver
TokenFits(q) == q.op \in Presents => q.tok \in held[q.fam]
RotationFits(q) ==
    q.op = "refresh" /\ q.pc \in {"version", "claims", "assert", "write"} =>
        q.tok = q.seen.token
StepFits(q) ==
    /\ q.pc = "reread" => q.op = "refresh"
    /\ q.pc \in {"sweep", "lastlogin"} => q.op = "login"
    /\ q.op = "logout" => q.pc \in {"marks", "tomb"}
Fits(q) == LoginFits(q) /\ TokenFits(q) /\ RotationFits(q) /\ StepFits(q)
RequestsFit == \A r \in Requests : Fits(req[r])
LoginsApart ==
    \A r, s \in Requests : req[r].op = "login" /\ req[s].op = "login" /\ r # s
                           => req[r].fam # req[s].fam

\* Before a client was handed a token the row is at its first one.
FirstToken ==
    \A f \in Families :
        /\ row[f].status = "unused" => held[f] = {}
        /\ row[f].status = "active" /\ held[f] = {} => row[f].token = 1

\* Whoever was handed a token of an active row holds its current one or the
\* one that replaced: only a request that presents the current one rotates it.
WithinReach ==
    \A f \in Families :
        row[f].status = "active" /\ held[f] # {} =>
            held[f] \cap {row[f].token, row[f].prev} # {}

RowInv == RequestsFit /\ LoginsApart /\ FirstToken /\ WithinReach

\* What the step of a request has to show of its slot and of the rows.
LEMMA FitsKept ==
    ASSUME ReqOK, RestOK, RowInv, NEW r \in Requests, Others(r), NEW n, n = req'[r],
           Fits(n)',
           n.op = "login" => \/ req[r].op = "login" /\ n.fam = req[r].fam
                             \/ \A s \in Requests : req[s].fam # n.fam,
           \A f \in Families :
               \/ /\ born'[f] = born[f]
                  /\ (row'[f].status = "unused") <=> (row[f].status = "unused")
               \/ f = req[r].fam /\ req[r].op = "login",
           \A f \in Families : held[f] \subseteq held'[f]
    PROVE  RequestsFit' /\ LoginsApart'
<1>1. ASSUME NEW s \in Requests \ {r} PROVE Fits(req[s])'
  <2>1. PICK q : q = req[s] /\ q = req'[s]
    BY DEF Others
  <2>2. Fits(q) /\ (q.op \in FamilyOps => q.fam \in Families)
    BY <2>1, SlotFacts DEF RowInv, RequestsFit
  <2>3. q.op = "login" => ~(q.fam = req[r].fam /\ req[r].op = "login")
    BY <2>1 DEF RowInv, LoginsApart
  <2>4. LoginFits(q)'
    BY <2>2, <2>3 DEF Fits, LoginFits, FamilyOps
  <2>5. TokenFits(q)' /\ RotationFits(q)' /\ StepFits(q)'
    BY <2>2 DEF Fits, TokenFits, RotationFits, StepFits, FamilyOps, Presents
  <2> QED
    BY <2>1, <2>4, <2>5 DEF Fits, LoginFits, TokenFits, RotationFits, StepFits
<1>2. Fits(req[r])'
  BY DEF Fits, LoginFits, TokenFits, RotationFits, StepFits
<1>3. LoginsApart'
  BY DEF RowInv, LoginsApart, Others
<1> QED
  BY <1>1, <1>2, <1>3 DEF RequestsFit

\* Rows that stay active stay as they are, and no token is handed out.
LEMMA TokensKept ==
    ASSUME RowInv, held' = held,
           \A f \in Families :
               /\ row'[f].status = "active" => row'[f] = row[f]
               /\ row'[f].status = "unused" => row[f].status = "unused"
    PROVE  FirstToken' /\ WithinReach'
<1>1. FirstToken'
  BY DEF RowInv, FirstToken
<1>2. WithinReach'
  BY DEF RowInv, WithinReach
<1> QED
  BY <1>1, <1>2

\* A step that writes no row and hands out no token.
LEMMA SlotOnly ==
    ASSUME ReqOK, RestOK, RowInv, NEW r \in Requests, Others(r), NEW n, n = req'[r],
           Fits(n), UNCHANGED <<row, born, held>>,
           n.op = "login" => \/ req[r].op = "login" /\ n.fam = req[r].fam
                             \/ \A s \in Requests : req[s].fam # n.fam
    PROVE  RowInv'
<1>1. Fits(n)'
  BY DEF Fits, LoginFits, TokenFits, RotationFits, StepFits
<1>2. RequestsFit' /\ LoginsApart'
  BY <1>1, FitsKept
<1>3. FirstToken' /\ WithinReach'
  BY TokensKept
<1> QED
  BY <1>2, <1>3 DEF RowInv

\* A step that only moves its slot on.
LEMMA GotoFits ==
    ASSUME ReqOK, RowInv, NEW r \in Requests, NEW step, Goto(r, step),
           req[r].op = "login" => \/ req[r].pc \in PreWrite /\ step \in PreWrite
                                  \/ req[r].pc \in PostWrite /\ step \in PostWrite,
           req[r].op = "refresh" =>
              \/ step \notin {"version", "claims", "assert", "write"}
              \/ req[r].pc \in {"version", "claims", "assert", "write"}
              \/ req[r].tok = req[r].seen.token,
           step = "reread" => req[r].op = "refresh",
           step \in {"sweep", "lastlogin"} => req[r].op = "login",
           req[r].op = "logout" => step \in {"marks", "tomb"}
    PROVE  Fits(req'[r])
<1>1. req[r] \in Request /\ Fits(req[r])
  BY DEF ReqOK, RowInv, RequestsFit
<1>2. PICK n : n = req'[r]
  OBVIOUS
<1>3. n = [req[r] EXCEPT !.pc = step]
  BY <1>2, SlotUpdate DEF Goto
<1>4. /\ n.op = req[r].op /\ n.fam = req[r].fam /\ n.tok = req[r].tok
      /\ n.seen = req[r].seen /\ n.ver = req[r].ver /\ n.pc = step
  BY <1>1, <1>3 DEF Request
<1>5. LoginFits(n)
  BY <1>1, <1>4 DEF Fits, LoginFits, PreWrite, PostWrite
<1>6. TokenFits(n) /\ RotationFits(n) /\ StepFits(n)
  BY <1>1, <1>4 DEF Fits, TokenFits, RotationFits, StepFits
<1> QED
  BY <1>2, <1>5, <1>6 DEF Fits

LEMMA FinishFits ==
    ASSUME ReqOK, NEW r \in Requests, Finish(r)
    PROVE  Fits(req'[r])
BY FinishSlot DEF Fits, LoginFits, TokenFits, RotationFits, StepFits, Presents

LEMMA BeginRevokeFits ==
    ASSUME ReqOK, RowInv, NEW r \in Requests, BeginRevoke(r),
           req[r].op = "login" => req[r].pc \in PostWrite
    PROVE  Fits(req'[r])
<1>1. req[r] \in Request /\ Fits(req[r])
  BY DEF ReqOK, RowInv, RequestsFit
<1>2. PICK n : n = req'[r]
  OBVIOUS
<1>3. n = [req[r] EXCEPT !.pc = "marks", !.todo = {req[r].fam}]
  BY <1>2, SlotUpdate DEF BeginRevoke
<1>4. /\ n.op = req[r].op /\ n.fam = req[r].fam /\ n.tok = req[r].tok
      /\ n.seen = req[r].seen /\ n.ver = req[r].ver /\ n.pc = "marks"
  BY <1>1, <1>3 DEF Request
<1>5. LoginFits(n)
  BY <1>1, <1>4 DEF Fits, LoginFits, PreWrite, PostWrite
<1>6. TokenFits(n) /\ RotationFits(n) /\ StepFits(n)
  BY <1>1, <1>4 DEF Fits, TokenFits, RotationFits, StepFits
<1> QED
  BY <1>2, <1>5, <1>6 DEF Fits
\* A slot that takes a new request leaves rows and clients alone.
LEMMA RowStart ==
    ASSUME ReqOK, RestOK, RowInv, NEW r \in Requests, Start(r)
    PROVE  RowInv'
<1> USE DEF cacheVars, dbVars, rowVars, handVars
<1>0. Idle \in Request /\ Idle.tok = 0
  BY IdleType, Zenon DEF Idle, NoToken
<1>1. ASSUME NEW f \in Families, StartLogin(r, f)
      PROVE  RowInv'
  <2> DEFINE n == [Idle EXCEPT !.op = "login", !.pc = "version",
                               !.user = OwnerOf[f], !.fam = f]
  <2>1. Become(r, n) /\ row[f].status = "unused"
        /\ (\A s \in Requests : req[s].fam # f)
        /\ UNCHANGED <<row, born, held>>
    BY <1>1 DEF StartLogin, Begin
  <2>2. n.op = "login" /\ n.pc = "version" /\ n.fam = f /\ n.tok = 0
    BY <1>0 DEF Request
  <2>3. req'[r] = n /\ Others(r)
    BY <2>1, SlotUpdate
  <2> HIDE DEF n
  <2>4. Fits(n)
    BY <2>1, <2>2
       DEF Fits, LoginFits, TokenFits, RotationFits, StepFits, PreWrite, Presents
  <2> QED
    BY <2>1, <2>2, <2>3, <2>4, SlotOnly
<1>2. ASSUME NEW f \in Families, NEW op \in {"refresh", "recover"},
             NEW tok \in held[f], StartRefresh(r, op, f, tok)
      PROVE  RowInv'
  <2> DEFINE n == [Idle EXCEPT !.op = op, !.pc = "read", !.user = OwnerOf[f],
                               !.fam = f, !.tok = tok]
  <2>1. Become(r, n) /\ UNCHANGED <<row, born, held>>
    BY <1>2 DEF StartRefresh, Begin
  <2>2. n.op = op /\ n.pc = "read" /\ n.fam = f /\ n.tok = tok
    BY <1>0 DEF Request
  <2>3. req'[r] = n /\ Others(r)
    BY <2>1, SlotUpdate
  <2> HIDE DEF n
  <2>4. Fits(n)
    BY <2>2 DEF Fits, LoginFits, TokenFits, RotationFits, StepFits
  <2> QED
    BY <2>1, <2>2, <2>3, <2>4, SlotOnly
<1>3. ASSUME NEW f \in Families, StartLogout(r, f)
      PROVE  RowInv'
  <2> DEFINE n == [Idle EXCEPT !.op = "logout", !.pc = "marks",
                               !.user = OwnerOf[f], !.fam = f, !.todo = {f}]
  <2>1. Become(r, n) /\ UNCHANGED <<row, born, held>>
    BY <1>3 DEF StartLogout, Begin
  <2>2. n.op = "logout" /\ n.pc = "marks"
    BY <1>0 DEF Request
  <2>3. req'[r] = n /\ Others(r)
    BY <2>1, SlotUpdate
  <2> HIDE DEF n
  <2>4. Fits(n)
    BY <2>2 DEF Fits, LoginFits, TokenFits, RotationFits, StepFits, Presents
  <2> QED
    BY <2>1, <2>2, <2>3, <2>4, SlotOnly
<1>4. ASSUME NEW u \in Users, StartLogoutAll(r, u)
      PROVE  RowInv'
  <2> DEFINE n == [Idle EXCEPT !.op = "invalidate", !.pc = "incr",
                               !.user = u, !.full = TRUE]
  <2>1. Become(r, n) /\ UNCHANGED <<row, born, held>>
    BY <1>4 DEF StartLogoutAll, Begin
  <2>2. n.op = "invalidate" /\ n.pc = "incr"
    BY <1>0 DEF Request
  <2>3. req'[r] = n /\ Others(r)
    BY <2>1, SlotUpdate
  <2> HIDE DEF n
  <2>4. Fits(n)
    BY <2>2 DEF Fits, LoginFits, TokenFits, RotationFits, StepFits, Presents
  <2> QED
    BY <2>1, <2>2, <2>3, <2>4, SlotOnly
<1>5. ASSUME NEW u \in Users, NEW full \in BOOLEAN, NEW off \in BOOLEAN,
             StartChange(r, u, full, off)
      PROVE  RowInv'
  <2> DEFINE n == [Idle EXCEPT !.op = "invalidate", !.pc = "incr",
                               !.user = u, !.full = full]
  <2>1. Become(r, n) /\ UNCHANGED <<row, born, held>>
    BY <1>5 DEF StartChange, Begin
  <2>2. n.op = "invalidate" /\ n.pc = "incr"
    BY <1>0 DEF Request
  <2>3. req'[r] = n /\ Others(r)
    BY <2>1, SlotUpdate
  <2> HIDE DEF n
  <2>4. Fits(n)
    BY <2>2 DEF Fits, LoginFits, TokenFits, RotationFits, StepFits, Presents
  <2> QED
    BY <2>1, <2>2, <2>3, <2>4, SlotOnly
<1>6. ASSUME NEW u \in Users, NEW full \in BOOLEAN, NEW off \in BOOLEAN,
             StartChangeInTx(r, u, full, off)
      PROVE  RowInv'
  <2> DEFINE n == [Idle EXCEPT !.op = "invalidate", !.pc = "incr", !.user = u,
                               !.full = full, !.tx = TRUE, !.off = off]
  <2>1. Become(r, n) /\ UNCHANGED <<row, born, held>>
    BY <1>6 DEF StartChangeInTx, Begin
  <2>2. n.op = "invalidate" /\ n.pc = "incr"
    BY <1>0 DEF Request
  <2>3. req'[r] = n /\ Others(r)
    BY <2>1, SlotUpdate
  <2> HIDE DEF n
  <2>4. Fits(n)
    BY <2>2 DEF Fits, LoginFits, TokenFits, RotationFits, StepFits, Presents
  <2> QED
    BY <2>1, <2>2, <2>3, <2>4, SlotOnly
<1> QED
  BY <1>1, <1>2, <1>3, <1>4, <1>5, <1>6 DEF Start

\* An issuing step that reads the row, the account or the version.
LEMMA RowReads ==
    ASSUME ReqOK, RestOK, RowInv, NEW r \in Requests,
           \/ ReadRow(r) \/ RefreshAccount(r) \/ RecoverAccount(r)
           \/ ReadVersion(r) \/ ReadClaims(r) \/ RereadRow(r)
    PROVE  RowInv'
<1> DEFINE q == req[r]
<1> USE DEF cacheVars, dbVars, rowVars, handVars
<1>0. q \in Request /\ Fits(q)
  BY DEF ReqOK, RowInv, RequestsFit
<1>1. ASSUME NEW n, Become(r, n), UNCHANGED <<row, born, held>>, Fits(n),
             n.op = "login" => q.op = "login" /\ n.fam = q.fam
      PROVE  RowInv'
  <2>1. req'[r] = n /\ Others(r)
    BY <1>1, SlotUpdate
  <2> QED
    BY <1>1, <2>1, SlotOnly
<1>2. ASSUME BeginRevoke(r), q.op # "login", UNCHANGED <<row, born, held>>
      PROVE  RowInv'
  BY <1>2, BeginRevokeSlot, BeginRevokeFits, SlotOnly
<1>3. ASSUME Finish(r), UNCHANGED <<row, born, held>> PROVE RowInv'
  BY <1>3, FinishSlot, FinishFits, SlotOnly
<1>4. ASSUME Goto(r, "version"), UNCHANGED <<row, born, held>>,
             q.op = "refresh", q.tok = q.seen.token
      PROVE  RowInv'
  BY <1>4, GotoSlot, GotoFits, SlotOnly
<1>5. CASE ReadRow(r)
  <2> DEFINE n == [q EXCEPT !.seen = Visible(q.fam), !.pc = "allowed"]
  <2>1. n.op = q.op /\ n.fam = q.fam /\ n.tok = q.tok /\ n.pc = "allowed"
    BY <1>0 DEF Request
  <2>2. q.pc = "read"
    BY <1>5 DEF ReadRow, At
  <2> HIDE DEF n
  <2>3. Fits(n)
    BY <1>0, <2>1, <2>2 DEF Fits, LoginFits, TokenFits, RotationFits, StepFits,
       PreWrite, PostWrite
  <2>4. Become(r, n)
    BY <1>5 DEF ReadRow, n
  <2> QED
    BY <1>1, <1>5, <2>1, <2>3, <2>4 DEF ReadRow
<1>6. CASE RefreshAccount(r)
  <2> DEFINE n == [q EXCEPT !.op = "serve", !.pc = "version"]
  <2>1. n.op = "serve" /\ n.fam = q.fam /\ n.tok = q.tok
        /\ n.pc = "version"
    BY <1>0 DEF Request
  <2>2. q.op = "refresh"
    BY <1>6 DEF RefreshAccount
  <2> HIDE DEF n
  <2>3. Fits(n)
    BY <1>0, <2>1, <2>2 DEF Fits, LoginFits, TokenFits, RotationFits, StepFits, Presents
  <2>4. \/ BeginRevoke(r)
        \/ q.tok = q.seen.token /\ Goto(r, "version")
        \/ Become(r, n)
    BY <1>6 DEF RefreshAccount, n
  <2> QED
    BY <1>1, <1>2, <1>4, <1>6, <2>1, <2>2, <2>3, <2>4 DEF RefreshAccount
<1>7. CASE RecoverAccount(r)
  <2> DEFINE n == [q EXCEPT !.claims = account[q.user].claims,
                            !.pc = "assert2"]
  <2>1. n.op = q.op /\ n.fam = q.fam /\ n.tok = q.tok
        /\ n.pc = "assert2"
    BY <1>0 DEF Request
  <2>2. q.op = "recover"
    BY <1>7 DEF RecoverAccount
  <2> HIDE DEF n
  <2>3. Fits(n)
    BY <1>0, <2>1, <2>2 DEF Fits, LoginFits, TokenFits, RotationFits, StepFits, Presents
  <2>4. BeginRevoke(r) \/ Become(r, n)
    BY <1>7 DEF RecoverAccount, n
  <2> QED
    BY <1>1, <1>2, <1>7, <2>1, <2>2, <2>3, <2>4 DEF RecoverAccount
<1>8. CASE ReadVersion(r)
  <2> DEFINE step == IF q.op \in {"login", "recover"}
                     THEN "account" ELSE "claims"
             v == version[q.user]
             n == [q EXCEPT !.ver = v, !.pc = step]
  <2>1. n.op = q.op /\ n.fam = q.fam /\ n.tok = q.tok /\ n.seen = q.seen
        /\ n.pc \in {"account", "claims"}
    BY <1>0 DEF Request
  <2>2. q.pc = "version" /\ UNCHANGED <<row, born, held>>
    BY <1>8 DEF ReadVersion, At
  <2>4. Become(r, n)
    BY <1>8 DEF ReadVersion
  <2> HIDE DEF n
  <2>3. Fits(n)
    BY <1>0, <2>1, <2>2 DEF Fits, LoginFits, TokenFits, RotationFits, StepFits,
       PreWrite, PostWrite
  <2> QED
    BY <1>1, <2>1, <2>2, <2>3, <2>4
<1>9. CASE ReadClaims(r)
  <2> DEFINE n == [q EXCEPT !.claims = account[q.user].claims,
                            !.pc = "assert"]
  <2>1. n.op = q.op /\ n.fam = q.fam /\ n.tok = q.tok /\ n.seen = q.seen
        /\ n.pc = "assert"
    BY <1>0 DEF Request
  <2>2. q.pc = "claims"
    BY <1>9 DEF ReadClaims, At
  <2> HIDE DEF n
  <2>3. Fits(n)
    BY <1>0, <2>1, <2>2 DEF Fits, LoginFits, TokenFits, RotationFits, StepFits,
       PreWrite, PostWrite
  <2>4. Become(r, n)
    BY <1>9 DEF ReadClaims, n
  <2> QED
    BY <1>1, <1>9, <2>1, <2>3, <2>4 DEF ReadClaims
<1>10. CASE RereadRow(r)
  <2> DEFINE n == [q EXCEPT !.op = "serve", !.pc = "version",
                            !.seen = Visible(q.fam)]
  <2>1. n.op = "serve" /\ n.fam = q.fam /\ n.tok = q.tok
        /\ n.pc = "version"
    BY <1>0 DEF Request
  <2> HIDE DEF n
  <2>2. Finish(r) \/ Become(r, n)
    BY <1>10 DEF RereadRow, n
  <2>3. q.pc = "reread"
    BY <1>10 DEF RereadRow, At
  <2>4. Fits(n)
    BY <1>0, <2>1, <2>3 DEF Fits, LoginFits, TokenFits, RotationFits, StepFits, Presents
  <2> QED
    BY <1>1, <1>3, <1>10, <2>1, <2>2, <2>4 DEF RereadRow
<1> QED
  BY <1>5, <1>6, <1>7, <1>8, <1>9, <1>10
\* An issuing step that writes no row and hands out no token.
LEMMA RowMoves ==
    ASSUME ReqOK, RestOK, RowInv, NEW r \in Requests,
           \/ CheckAllowed(r) \/ LoginAccount(r) \/ AssertBeforeWrite(r)
           \/ SetLive(r) \/ CheckRevoked(r) \/ WithdrawLive(r)
    PROVE  RowInv'
<1> DEFINE q == req[r]
<1> USE DEF cacheVars, dbVars, rowVars, handVars, At
<1>0. q \in Request /\ Fits(q) /\ UNCHANGED <<row, born, held>>
  BY DEF ReqOK, RowInv, RequestsFit, CheckAllowed, LoginAccount,
     AssertBeforeWrite, SetLive, CheckRevoked, WithdrawLive
<1>1. CASE Finish(r)
  BY <1>0, <1>1, FinishSlot, FinishFits, SlotOnly
<1>2. ASSUME NEW step, Goto(r, step),
             q.op = "login" => \/ q.pc \in PreWrite /\ step \in PreWrite
                               \/ q.pc \in PostWrite /\ step \in PostWrite,
             q.op = "refresh" =>
                \/ step \notin {"version", "claims", "assert", "write"}
                \/ q.pc \in {"version", "claims", "assert", "write"},
             step # "reread", q.op # "logout",
             step \in {"sweep", "lastlogin"} => q.op = "login"
      PROVE  RowInv'
  BY <1>0, <1>2, GotoSlot, GotoFits, SlotOnly
<1>a. q.op # "logout"
  BY <1>0 DEF CheckAllowed, LoginAccount, AssertBeforeWrite, SetLive,
     CheckRevoked, WithdrawLive, Fits, StepFits
<1> USE <1>a DEF PreWrite, PostWrite
<1>3. CASE CheckAllowed(r)
  <2>1. q.op # "login"
    BY <1>0, <1>3 DEF CheckAllowed, Fits, LoginFits
  <2> QED
    BY <1>1, <1>2, <1>3, <2>1 DEF CheckAllowed
<1>4. CASE LoginAccount(r)
  BY <1>1, <1>2, <1>4 DEF LoginAccount
<1>5. CASE AssertBeforeWrite(r)
  <2>1. Goto(r, "live") => q.op = "serve"
    <3>1. \/ Finish(r) \/ Goto(r, "write")
          \/ q.op = "serve" /\ Goto(r, "live")
      BY <1>5 DEF AssertBeforeWrite
    <3>2. Finish(r) => req'[r].pc = "idle"
      BY FinishSlot
    <3>3. Goto(r, "write") => req'[r].pc = "write"
      BY GotoSlot
    <3>4. Goto(r, "live") => req'[r].pc = "live"
      BY GotoSlot
    <3> QED
      BY <3>1, <3>2, <3>3, <3>4
  <2>2. q.pc = "assert"
    BY <1>5 DEF AssertBeforeWrite
  <2>3. Finish(r) \/ Goto(r, "live") \/ Goto(r, "write")
    BY <1>5 DEF AssertBeforeWrite
  <2> QED
    BY <1>1, <1>2, <2>1, <2>2, <2>3
<1>6. CASE SetLive(r)
  BY <1>2, <1>6 DEF SetLive
<1>7. CASE CheckRevoked(r)
  BY <1>2, <1>7 DEF CheckRevoked
<1>8. CASE WithdrawLive(r)
  BY <1>1, <1>8 DEF WithdrawLive
<1> QED
  BY <1>3, <1>4, <1>5, <1>6, <1>7, <1>8

\* The row of a login comes into being with the first token.
LEMMA RowInsert ==
    ASSUME ReqOK, RestOK, RowInv, NEW r \in Requests, InsertRow(r)
    PROVE  RowInv'
<1> DEFINE q == req[r]
           f == q.fam
<1>0. PICK n : n = req'[r]
  OBVIOUS
<1>1. /\ q \in Request /\ Fits(q) /\ q.op = "login" /\ q.pc = "write"
      /\ f \in Families /\ Goto(r, "live")
  BY SlotFacts DEF InsertRow, At, RowInv, RequestsFit, FamilyOps
<1>2. Others(r) /\ n.op = "login" /\ n.fam = f /\ n.tok = q.tok
      /\ n.ver = q.ver /\ n.pc = "live"
  BY <1>0, <1>1, GotoSlot
<1>3. row[f].status = "unused" /\ q.tok = 0
  BY <1>1 DEF Fits, LoginFits, PostWrite
<1>4. /\ row' = [row EXCEPT ![f] =
                   [status |-> "active", token |-> 1, prev |-> NoToken]]
      /\ born' = [born EXCEPT ![f] = q.ver] /\ held' = held
  BY DEF InsertRow, handVars
<1>5. /\ row'[f].status = "active" /\ row'[f].token = 1 /\ born'[f] = q.ver
      /\ \A g \in Families \ {f} : row'[g] = row[g] /\ born'[g] = born[g]
  BY <1>1, <1>4 DEF RestOK
<1> HIDE DEF q, f
<1>6. Fits(n)'
  BY <1>1, <1>2, <1>3, <1>5 DEF Fits, LoginFits, TokenFits, RotationFits, StepFits,
     PreWrite, PostWrite, Presents
<1>7. \A g \in Families :
         \/ /\ born'[g] = born[g]
            /\ (row'[g].status = "unused") <=> (row[g].status = "unused")
         \/ g = req[r].fam /\ req[r].op = "login"
  BY <1>1, <1>5 DEF q, f
<1>8. RequestsFit' /\ LoginsApart'
  BY <1>0, <1>1, <1>2, <1>4, <1>6, <1>7, FitsKept DEF q, f
<1>9. FirstToken'
  BY <1>3, <1>4, <1>5 DEF RowInv, FirstToken
<1>10. WithinReach'
  BY <1>3, <1>4, <1>5 DEF RowInv, FirstToken, WithinReach
<1> QED
  BY <1>8, <1>9, <1>10 DEF RowInv

\* A rotation replaces the token its request presented, so a client holds it.
LEMMA RowRotate ==
    ASSUME ReqOK, RestOK, RowInv, NEW r \in Requests, RotateRow(r)
    PROVE  RowInv'
<1> DEFINE q == req[r]
           f == q.fam
<1>0. PICK n : n = req'[r]
  OBVIOUS
<1>1. /\ q \in Request /\ Fits(q) /\ q.op = "refresh" /\ q.pc = "write"
      /\ f \in Families /\ born' = born /\ held' = held
  BY SlotFacts DEF RotateRow, At, RowInv, RequestsFit, FamilyOps, handVars
<1>2. q.tok = q.seen.token /\ q.tok \in held[f]
  BY <1>1 DEF Fits, TokenFits, RotationFits, Presents
<1>3. CASE row' = row
  <2>1. Goto(r, "live") \/ Goto(r, "reread")
    BY DEF RotateRow
  <2>2. Others(r) /\ n.op = "refresh"
    BY <1>0, <1>1, <2>1, GotoSlot
  <2>3. Fits(n)
    BY <1>0, <1>1, <2>1, GotoFits
  <2> QED
    BY <1>0, <1>1, <1>3, <2>2, <2>3, SlotOnly
<1>4. CASE row' # row
  <2>1. /\ Goto(r, "live") /\ row[f].status = "active"
        /\ row[f].token = q.tok
        /\ row' = [row EXCEPT ![f] = [@ EXCEPT !.token = q.tok + 1,
                                               !.prev = q.seen.token]]
    BY <1>2, <1>4 DEF RotateRow, CanRotate
  <2>2. Others(r) /\ n.op = "refresh"
    BY <1>0, <1>1, <2>1, GotoSlot
  <2>3. Fits(n)
    BY <1>0, <1>1, <2>1, GotoFits
  <2>4. /\ row'[f].status = "active" /\ row'[f].prev = q.tok
        /\ \A g \in Families \ {f} : row'[g] = row[g]
    BY <1>1, <1>2, <2>1 DEF RestOK
  <2> HIDE DEF q, f
  <2>5. Fits(n)'
    BY <1>1, <2>2, <2>3 DEF Fits, LoginFits, TokenFits, RotationFits, StepFits
  <2>6. \A g \in Families :
           /\ born'[g] = born[g]
           /\ (row'[g].status = "unused") <=> (row[g].status = "unused")
    BY <1>1, <2>1, <2>4
  <2>7. RequestsFit' /\ LoginsApart'
    BY <1>0, <1>1, <2>2, <2>5, <2>6, FitsKept
  <2>8. FirstToken'
    BY <1>1, <1>2, <2>4 DEF RowInv, FirstToken
  <2>9. WithinReach'
    BY <1>1, <1>2, <2>4 DEF RowInv, WithinReach
  <2> QED
    BY <2>7, <2>8, <2>9 DEF RowInv
<1> QED
  BY <1>3, <1>4
\* The sweep of expired rows, on the way of a login.
LEMMA RowSweep ==
    ASSUME ReqOK, RestOK, RowInv, NEW r \in Requests, SweepExpired(r)
    PROVE  RowInv'
<1> DEFINE q == req[r]
<1>0. PICK n : n = req'[r]
  OBVIOUS
<1>1. q \in Request /\ Fits(q) /\ q.op = "login" /\ q.pc = "sweep"
      /\ Goto(r, "claims") /\ born' = born /\ held' = held
  BY DEF ReqOK, RowInv, RequestsFit, Fits, StepFits, SweepExpired, At, handVars
<1>2. Others(r) /\ n.op = q.op /\ n.fam = q.fam
  BY <1>0, <1>1, GotoSlot
<1>3. Fits(n)
  BY <1>0, <1>1, GotoFits DEF PreWrite
<1>4. \A f \in Families :
         /\ row'[f].status = "active" => row'[f] = row[f]
         /\ (row'[f].status = "unused") <=> (row[f].status = "unused")
  <2> SUFFICES ASSUME NEW f \in Families
               PROVE  \/ row'[f] = row[f]
                      \/ /\ row'[f].status = "deleted"
                         /\ row[f].status \in {"active", "revoked"}
    OBVIOUS
  <2>1. CASE row' = row
    BY <2>1
  <2>2. CASE row' # row
    <3>1. [row[f] EXCEPT !.status = "deleted"].status = "deleted"
      BY DEF RestOK
    <3> QED
      BY <2>2, <3>1 DEF SweepExpired
  <2> QED
    BY <2>1, <2>2
<1> HIDE DEF q
<1>5. Fits(n)'
  BY <1>1, <1>2, <1>3, <1>4, SlotFacts
     DEF Fits, LoginFits, TokenFits, RotationFits, StepFits, FamilyOps, q
<1>6. RequestsFit' /\ LoginsApart'
  BY <1>0, <1>1, <1>2, <1>4, <1>5, FitsKept DEF q
<1>7. FirstToken' /\ WithinReach'
  BY <1>1, <1>4, TokensKept
<1> QED
  BY <1>6, <1>7 DEF RowInv

\* A response hands out the successor of the token its request came with.
LEMMA RowRespond ==
    ASSUME ReqOK, RestOK, RowInv, NEW r \in Requests,
           AssertAfterWrite(r) \/ AssertAfterLastLogin(r)
    PROVE  RowInv'
<1> DEFINE q == req[r]
<1>1. /\ q \in Request /\ Fits(q) /\ q.op \in FamilyOps
      /\ q.fam \in Families /\ q.pc \in {"assert2", "lastlogin"}
      /\ row' = row /\ born' = born
  BY SlotFacts DEF AssertAfterWrite, AssertAfterLastLogin, At, RowInv,
     RequestsFit, UserSteps, dbVars, rowVars
<1>2. ASSUME BeginRevoke(r), held' = held PROVE RowInv'
  BY <1>1, <1>2, BeginRevokeSlot, BeginRevokeFits, SlotOnly DEF PostWrite
<1>3. ASSUME Finish(r), held' = held PROVE RowInv'
  BY <1>1, <1>3, FinishSlot, FinishFits, SlotOnly
<1>4. ASSUME Goto(r, "lastlogin"), q.op = "login", held' = held PROVE RowInv'
  BY <1>1, <1>4, GotoSlot, GotoFits, SlotOnly DEF PostWrite
<1>5. ASSUME Respond(r) PROVE RowInv'
  <2> DEFINE f == q.fam
  <2>1. CASE q.op = "recover"
    BY <1>3, <1>5, <2>1 DEF Respond
  <2>2. CASE q.op # "recover"
    <3>1. /\ held' = [held EXCEPT ![f] = @ \cup {q.tok + 1}]
          /\ Finish(r)
      BY <1>5, <2>2 DEF Respond
    <3>2. PICK n : n = req'[r]
      OBVIOUS
    <3>3. Others(r) /\ n.op = "none" /\ n.pc = "idle"
      BY <3>1, <3>2, FinishSlot
    <3>4. Fits(n)'
      BY <3>3 DEF Fits, LoginFits, TokenFits, RotationFits, StepFits, Presents
    <3>5. /\ held'[f] = held[f] \cup {q.tok + 1}
          /\ \A g \in Families \ {f} : held'[g] = held[g]
      BY <1>1, <3>1 DEF RestOK
    <3>6. row[f].status # "unused" /\ (held[f] = {} => q.tok = 0)
      <4>1. CASE q.op = "login"
        BY <1>1, <4>1 DEF Fits, LoginFits, PreWrite
      <4>2. CASE q.op # "login"
        <5>1. q.tok \in held[f]
          BY <1>1, <4>2 DEF Fits, TokenFits, StepFits, Presents, FamilyOps
        <5> QED
          BY <1>1, <5>1 DEF RowInv, FirstToken
      <4> QED
        BY <4>1, <4>2
    <3> HIDE DEF q, f
    <3>7. RequestsFit' /\ LoginsApart'
      BY <1>1, <3>2, <3>3, <3>4, <3>5, FitsKept
    <3>8. FirstToken'
      BY <1>1, <3>5, <3>6 DEF RowInv, FirstToken
    <3>9. WithinReach'
      <4> SUFFICES ASSUME NEW g \in Families, row[g].status = "active",
                          held'[g] # {}
                   PROVE  held'[g] \cap {row[g].token, row[g].prev} # {}
        BY <1>1 DEF WithinReach
      <4>1. CASE held[g] # {}
        <5>1. held[g] \cap {row[g].token, row[g].prev} # {}
          BY <4>1 DEF RowInv, WithinReach
        <5>2. held[g] \subseteq held'[g]
          BY <3>5
        <5> QED
          BY <5>1, <5>2
      <4>2. CASE held[g] = {}
        <5>1. g = f /\ row[g].token = 1
          BY <3>5, <4>2 DEF RowInv, FirstToken
        <5>2. held'[g] = {1}
          BY <3>5, <3>6, <4>2, <5>1
        <5> QED
          BY <5>1, <5>2
      <4> QED
        BY <4>1, <4>2
    <3> QED
      BY <3>7, <3>8, <3>9 DEF RowInv
  <2> QED
    BY <2>1, <2>2
<1> QED
  BY <1>2, <1>3, <1>4, <1>5 DEF AssertAfterWrite, AssertAfterLastLogin,
     handVars

LEMMA RowIssue ==
    ASSUME ReqOK, RestOK, RowInv, NEW r \in Requests, Issue(r)
    PROVE  RowInv'
BY RowReads, RowMoves, RowInsert, RowRotate, RowSweep, RowRespond DEF Issue

\* Revoking rows leaves no unused and no other active one behind.
LEMMA RowTombs ==
    ASSUME RestOK, NEW F, row' = Tombstoned(F)
    PROVE  \A f \in Families :
              /\ row'[f].status = "active" => row'[f] = row[f]
              /\ (row'[f].status = "unused") <=> (row[f].status = "unused")
<1> SUFFICES ASSUME NEW f \in Families
             PROVE  \/ row'[f] = row[f]
                    \/ /\ row'[f].status = "revoked"
                       /\ row[f].status = "active"
  OBVIOUS
<1>1. [row[f] EXCEPT !.status = "revoked", !.prev = NoToken].status = "revoked"
  BY DEF RestOK
<1> QED
  BY <1>1 DEF Tombstoned

\* A revoking step may end rows and moves on its own slot only.
LEMMA RowRevoke ==
    ASSUME ReqOK, RestOK, RowInv, NEW r \in Requests, Revoke(r)
    PROVE  RowInv'
<1> DEFINE q == req[r]
<1> USE DEF cacheVars, dbVars, rowVars, handVars
<1>a. PICK n : n = req'[r]
  OBVIOUS
<1>b. q \in Request /\ Fits(q)
  BY DEF ReqOK, RowInv, RequestsFit
<1>1. ASSUME Others(r), Fits(n), n.op = "login" => n.fam = q.fam /\ q.op = "login",
             born' = born, held' = held,
             row' = row \/ \E F : row' = Tombstoned(F)
      PROVE  RowInv'
  <2>1. \A f \in Families :
           /\ row'[f].status = "active" => row'[f] = row[f]
           /\ (row'[f].status = "unused") <=> (row[f].status = "unused")
    BY <1>1, RowTombs
  <2> HIDE DEF q
  <2>2. Fits(n)'
    <3>1. n.op = "login" => n.fam \in Families
      BY <1>1, SlotFacts DEF q, FamilyOps
    <3> QED
      BY <1>1, <2>1, <3>1
         DEF Fits, LoginFits, TokenFits, RotationFits, StepFits
  <2>3. RequestsFit' /\ LoginsApart'
    BY <1>a, <1>1, <2>1, <2>2, FitsKept DEF q
  <2>4. FirstToken' /\ WithinReach'
    BY <1>1, <2>1, TokensKept
  <2> QED
    BY <2>3, <2>4 DEF RowInv
<1>2. ASSUME NEW f \in Families, MarkRevoked(r, f) \/ ClearLive(r, f)
      PROVE  RowInv'
  <2>1. /\ Others(r) /\ n.op = q.op /\ n.fam = q.fam /\ n.pc = "marks"
        /\ q.pc = "marks"
    BY <1>a, <1>2, MarkSlot
  <2>2. n.tok = q.tok
    <3>1. CASE MarkRevoked(r, f)
      <4>1. n = [q EXCEPT !.todo = @ \ {f}, !.clear = @ \cup {f}]
        BY <1>a, <3>1, SlotUpdate DEF MarkRevoked
      <4> QED
        BY <1>b, <4>1 DEF Request
    <3>2. CASE ClearLive(r, f)
      <4>1. n = [q EXCEPT !.clear = @ \ {f}]
        BY <1>a, <3>2, SlotUpdate DEF ClearLive
      <4> QED
        BY <1>b, <4>1 DEF Request
    <3> QED
      BY <1>2, <3>1, <3>2
  <2>3. n.ver = q.ver
    BY <1>a, <1>2, MarkSlot
  <2> HIDE DEF q
  <2>4. Fits(n)
    BY <1>b, <2>1, <2>2, <2>3
       DEF Fits, LoginFits, TokenFits, RotationFits, StepFits, PreWrite
  <2>5. UNCHANGED <<row, born, held>>
    BY <1>2 DEF MarkRevoked, ClearLive
  <2> QED
    BY <1>1, <2>1, <2>4, <2>5
<1>3. CASE MarksDoneFamily(r)
  <2>1. Goto(r, "tomb") /\ q.pc = "marks" /\ UNCHANGED <<row, born, held>>
    BY <1>3 DEF MarksDoneFamily, Marked, At
  <2>2. Fits(n)
    BY <1>a, <2>1, GotoFits DEF PostWrite
  <2> QED
    BY <1>a, <1>1, <2>1, <2>2, GotoSlot
<1>4. CASE Tombstone(r)
  BY <1>a, <1>1, <1>4, FinishSlot, FinishFits DEF Tombstone
<1>5. CASE Bump(r)
  <2>1. Others(r) /\ n.op = "invalidate" /\ n.pc \in {"revokeAll", "marks"}
    BY <1>a, <1>5, BumpSlot
  <2>2. Fits(n)
    BY <2>1 DEF Fits, LoginFits, TokenFits, RotationFits, StepFits, Presents
  <2> QED
    BY <1>1, <1>5, <2>1, <2>2 DEF Bump
<1>6. CASE RevokeAllRows(r)
  <2>1. Others(r) /\ n.op = "invalidate" /\ n.pc = "marks"
    BY <1>a, <1>6, RevokeAllSlot
  <2>2. Fits(n)
    BY <2>1 DEF Fits, LoginFits, TokenFits, RotationFits, StepFits, Presents
  <2> QED
    BY <1>1, <1>6, <2>1, <2>2 DEF RevokeAllRows
<1>7. CASE MarksDoneAll(r)
  <2>1. /\ q.op = "invalidate" /\ UNCHANGED <<row, born, held>>
        /\ Goto(r, "commit") \/ Finish(r)
    BY <1>7 DEF MarksDoneAll
  <2>2. CASE Goto(r, "commit")
    BY <1>a, <1>1, <2>1, <2>2, GotoSlot, GotoFits
  <2>3. CASE Finish(r)
    BY <1>a, <1>1, <2>1, <2>3, FinishSlot, FinishFits
  <2> QED
    BY <2>1, <2>2, <2>3
<1>8. CASE Commit(r) \/ Rollback(r)
  <2>1. Others(r) /\ n.op = "invalidate" /\ n.pc = "incr"
    BY <1>a, <1>8, CloseTxSlot DEF Commit, Rollback, At
  <2>2. Fits(n)
    BY <2>1 DEF Fits, LoginFits, TokenFits, RotationFits, StepFits, Presents
  <2>3. born' = born /\ held' = held /\ (row' = row \/ \E F : row' = Tombstoned(F))
    BY <1>8 DEF Commit, Rollback
  <2> QED
    BY <1>1, <2>1, <2>2, <2>3
<1> QED
  BY <1>2, <1>3, <1>4, <1>5, <1>6, <1>7, <1>8 DEF Revoke

LEMMA RowEnvironment ==
    ASSUME RowInv, Environment \/ Quiet \/ UNCHANGED vars
    PROVE  RowInv'
<1>1. UNCHANGED <<req, row, born, held>>
  BY DEF Environment, GraceElapses, Lapse, LoseCache, LoseKeys, Die, Quiet,
     vars, dbVars, rowVars, handVars
<1> QED
  BY <1>1 DEF RowInv, RequestsFit, Fits, LoginFits, TokenFits, RotationFits,
     StepFits, LoginsApart, FirstToken, WithinReach

LEMMA RowStep == TypeOK /\ RowInv /\ [Next]_vars => RowInv'
BY TypeSplit, RowStart, RowIssue, RowRevoke, RowEnvironment DEF Next, Progress

LEMMA RowInit == Init => RowInv
BY DEF Init, RowInv, RequestsFit, Fits, LoginFits, TokenFits, RotationFits,
   StepFits, LoginsApart, FirstToken, WithinReach, Idle, Presents

-----------------------------------------------------------------------------
(* The numbers of the tokens: what a refresh knows of its row at each step.  *)

\* A rotation moves a row to the next number; nobody holds a later one.
Numbered ==
    \A f \in Families :
        /\ row[f].status = "unused" => row[f].token = 0
        /\ row[f].status # "unused" => row[f].token # 0
        /\ row[f].status = "active" => row[f].token = row[f].prev + 1
        /\ \A tok \in held[f] : 1 <= tok /\ tok <= row[f].token

\* The row a refresh has read was in one piece then and only moved on since.
SawRow(q) ==
    q.op = "refresh" /\ q.pc \in {"allowed", "account"} =>
        \/ q.pc = "allowed" /\ q.seen = NoRow
        \/ /\ q.seen.token = q.seen.prev + 1
           /\ q.tok <= q.seen.token /\ q.seen.token <= row[q.fam].token

Written == {"live", "check", "withdraw", "assert2", "lastlogin"}

\* What it is about to hand out is not ahead of its row.
Brings(q) ==
    \/ q.op = "serve"
    \/ q.op = "refresh" /\ q.pc \in Written
BringsRow(q) == Brings(q) => q.tok + 1 <= row[q.fam].token

RevokesOutrun(q) ==
    /\ q.op = "refresh" /\ q.pc \in {"marks", "tomb"}
    /\ account[q.user].active
    => Outrun(q)
NumberFits(q) == SawRow(q) /\ BringsRow(q) /\ RevokesOutrun(q)
NumberInv == Numbered /\ \A r \in Requests : NumberFits(req[r])

\* Rows, grace windows and deactivations only move forward.
Forward ==
    /\ \A f \in Families :
          row'[f].token >= row[f].token /\ closed'[f] >= closed[f]
    /\ \A u \in Users : account'[u].active => account[u].active

LEMMA NumbersKept ==
    ASSUME ReqOK, RestOK, NumberInv, RestOK', Forward,
           NEW q \in Request, WellFormed(q), NumberFits(q)
    PROVE  NumberFits(q)'
<1>1. CASE q.op \notin {"refresh", "serve"}
  BY <1>1 DEF NumberFits, SawRow, Brings, BringsRow, RevokesOutrun
<1>2. CASE q.op \in {"refresh", "serve"}
  <2>1. /\ q.fam \in Families /\ q.user \in Users /\ q.tok \in Nat
        /\ q.seen.token \in Nat
    BY <1>2 DEF WellFormed, FamilyOps, Request, Seen
  <2>2. /\ row[q.fam].token \in Nat /\ row'[q.fam].token \in Nat
        /\ closed[q.fam] \in Nat /\ closed'[q.fam] \in Nat
    BY <2>1 DEF RestOK
  <2>3. /\ row'[q.fam].token >= row[q.fam].token
        /\ closed'[q.fam] >= closed[q.fam]
        /\ account'[q.user].active => account[q.user].active
    BY <2>1 DEF Forward
  <2>4. SawRow(q)'
    BY <2>1, <2>2, <2>3 DEF NumberFits, SawRow
  <2>5. BringsRow(q)'
    BY <2>1, <2>2, <2>3 DEF NumberFits, Brings, BringsRow
  <2>6. RevokesOutrun(q)'
    BY <2>1, <2>2, <2>3 DEF NumberFits, RevokesOutrun, Outrun
  <2> QED BY <2>4, <2>5, <2>6 DEF NumberFits
<1> QED BY <1>1, <1>2

\* What a step of one request has to show.
LEMMA NumberSlot ==
    ASSUME ReqOK, RestOK, NumberInv, RestOK', Forward, Numbered',
           NEW r \in Requests, Others(r), NEW n, n = req'[r], NumberFits(n)'
    PROVE  NumberInv'
<1>1. ASSUME NEW s \in Requests \ {r} PROVE NumberFits(req[s])'
  <2>1. PICK q : q = req[s] /\ q = req'[s]
    BY DEF Others
  <2>2. q \in Request /\ WellFormed(q) /\ NumberFits(q)
    BY <2>1 DEF ReqOK, NumberInv
  <2>3. NumberFits(q)'
    BY <2>2, NumbersKept
  <2> QED
    BY <2>1, <2>3 DEF NumberFits, SawRow, Brings, BringsRow, RevokesOutrun,
                      Outrun
<1>2. NumberFits(req[r])'
  BY DEF NumberFits, SawRow, Brings, BringsRow, RevokesOutrun, Outrun
<1> QED BY <1>1, <1>2 DEF NumberInv

\* A step that touches neither rows nor what clients hold.
LEMMA NumberRest ==
    ASSUME RestOK, NumberInv, UNCHANGED <<row, held>>
    PROVE  Numbered'
BY DEF NumberInv, Numbered

\* The rows a step can leave.
LEMMA TombsNumbered ==
    ASSUME RestOK, NumberInv, NEW F, row' = Tombstoned(F), held' = held
    PROVE  /\ Numbered'
           /\ \A f \in Families : row'[f].token = row[f].token
<1>1. ASSUME NEW f \in Families
      PROVE  /\ row'[f].token = row[f].token
             /\ \/ row'[f] = row[f]
                \/ row[f].status = "active" /\ row'[f].status = "revoked"
  <2>1. CASE f \in F /\ row[f].status = "active"
    <3>1. row'[f] = [row[f] EXCEPT !.status = "revoked", !.prev = NoToken]
      BY <2>1 DEF Tombstoned
    <3> QED BY <2>1, <3>1 DEF RestOK
  <2>2. CASE ~(f \in F /\ row[f].status = "active")
    BY <2>2 DEF Tombstoned
  <2> QED BY <2>1, <2>2
<1> QED BY <1>1 DEF NumberInv, Numbered

\* An inserted row starts at token 1, a rotated one at the token after the one
\* presented.
LEMMA InsertNumbers ==
    ASSUME ReqOK, RestOK, RowInv, NumberInv, NEW r \in Requests, InsertRow(r)
    PROVE  /\ Numbered'
           /\ \A f \in Families : row'[f].token >= row[f].token
<1>1. PICK f \in Families : f = req[r].fam
  BY SlotFacts DEF InsertRow, FamilyOps
<1>2. Fits(req[r]) /\ req[r].op = "login" /\ req[r].pc = "write"
  BY DEF RowInv, RequestsFit, InsertRow, At
<1>3. row[f].status = "unused" /\ row[f].token = 0 /\ held[f] = {}
  BY <1>1, <1>2 DEF Fits, LoginFits, PostWrite, RowInv, FirstToken, NumberInv,
                    Numbered
<1>4. /\ row' = [row EXCEPT ![f] =
                   [status |-> "active", token |-> 1, prev |-> 0]]
      /\ held' = held
  BY <1>1 DEF InsertRow, handVars, NoToken
<1>5. /\ row'[f] = [status |-> "active", token |-> 1, prev |-> 0]
      /\ \A g \in Families \ {f} : row'[g] = row[g]
  BY <1>4 DEF RestOK
<1>6. \A g \in Families : row[g].token \in Nat
  BY DEF RestOK
<1> QED
  BY <1>3, <1>4, <1>5, <1>6 DEF NumberInv, Numbered

LEMMA RotateNumbers ==
    ASSUME ReqOK, RestOK, RowInv, NumberInv, NEW r \in Requests, RotateRow(r)
    PROVE  /\ Numbered'
           /\ \A f \in Families : row'[f].token >= row[f].token
           /\ row' # row => row'[req[r].fam].token = req[r].tok + 1
<1>1. PICK f \in Families : f = req[r].fam
  BY SlotFacts DEF RotateRow, FamilyOps
<1>2. Fits(req[r]) /\ req[r].op = "refresh" /\ req[r].pc = "write"
      /\ req[r].tok \in Nat
  BY SlotFacts DEF RowInv, RequestsFit, RotateRow, At, Request
<1>3. req[r].tok = req[r].seen.token
  BY <1>2 DEF Fits, RotationFits
<1>4. held' = held /\ \A g \in Families : row[g].token \in Nat
  BY DEF RotateRow, handVars, RestOK
<1>5. CASE row' = row
  BY <1>4, <1>5 DEF NumberInv, Numbered
<1>6. CASE row' # row
  <2>1. /\ row[f].status = "active" /\ row[f].token = req[r].tok
        /\ row' = [row EXCEPT ![f] = [@ EXCEPT !.token = req[r].tok + 1,
                                               !.prev = req[r].tok]]
    BY <1>1, <1>3, <1>6 DEF RotateRow, CanRotate
  <2>2. /\ row'[f].status = "active" /\ row'[f].token = req[r].tok + 1
        /\ row'[f].prev = req[r].tok
        /\ \A g \in Families \ {f} : row'[g] = row[g]
    BY <2>1 DEF RestOK
  <2>3. \A tok \in held[f] : tok \in Nat
    BY DEF RestOK
  <2> QED
    BY <1>1, <1>2, <1>4, <2>1, <2>2, <2>3 DEF NumberInv, Numbered
<1> QED BY <1>5, <1>6

LEMMA SweepNumbers ==
    ASSUME RestOK, NumberInv, NEW r \in Requests, SweepExpired(r)
    PROVE  Numbered' /\ \A f \in Families : row'[f].token = row[f].token
<1>1. ASSUME NEW f \in Families
      PROVE  /\ row'[f].token = row[f].token
             /\ \/ row'[f] = row[f]
                \/ row[f].status # "unused" /\ row'[f].status = "deleted"
  <2>1. CASE row' = row
    BY <2>1
  <2>2. CASE row' # row
    <3>1. \/ row'[f] = row[f]
          \/ /\ row[f].status \in {"active", "revoked"}
             /\ row'[f] = [row[f] EXCEPT !.status = "deleted"]
      BY <2>2 DEF SweepExpired
    <3> QED BY <3>1 DEF RestOK
  <2> QED BY <2>1, <2>2
<1>2. held' = held
  BY DEF SweepExpired, handVars
<1> QED BY <1>1, <1>2 DEF NumberInv, Numbered

\* An answer hands out the number after the one presented, which the row has
\* reached.
LEMMA RespondNumbers ==
    ASSUME ReqOK, RestOK, RowInv, NumberInv, NEW r \in Requests,
           AssertAfterWrite(r) \/ AssertAfterLastLogin(r)
    PROVE  Numbered' /\ row' = row
<1> DEFINE q == req[r]
<1>1. /\ q \in Request /\ Fits(q) /\ NumberFits(q) /\ q.op \in FamilyOps
      /\ q.fam \in Families /\ q.pc \in {"assert2", "lastlogin"}
      /\ row' = row
  BY SlotFacts DEF AssertAfterWrite, AssertAfterLastLogin, At, RowInv,
     RequestsFit, NumberInv, UserSteps, dbVars, rowVars
<1>2. CASE held' = held
  BY <1>1, <1>2 DEF NumberInv, Numbered
<1>3. CASE /\ q.op # "recover"
           /\ held' = [held EXCEPT ![q.fam] = @ \cup {q.tok + 1}]
  <2>1. q.tok \in Nat /\ row[q.fam].token \in Nat
    BY <1>1 DEF Request, RestOK
  <2>2. q.tok + 1 <= row[q.fam].token
    <3>1. CASE q.op = "login"
      BY <1>1, <2>1, <3>1 DEF Fits, LoginFits, PreWrite, NumberInv, Numbered
    <3>2. CASE q.op \in {"refresh", "serve"}
      BY <1>1, <3>2 DEF NumberFits, BringsRow, Brings, Written
    <3> QED BY <1>1, <1>3, <3>1, <3>2 DEF FamilyOps, Fits, StepFits
  <2>3. \A f \in Families : \A tok \in held'[f] :
            tok \in held[f] \/ (f = q.fam /\ tok = q.tok + 1)
    BY <1>1, <1>3 DEF RestOK
  <2> QED
    BY <1>1, <2>1, <2>2, <2>3 DEF NumberInv, Numbered
<1> QED
  BY <1>2, <1>3 DEF AssertAfterWrite, AssertAfterLastLogin, Respond, handVars

\* A slot that only moves on.
LEMMA AdvanceNumber ==
    ASSUME ReqOK, RestOK, NumberInv, RestOK', Forward, NEW r \in Requests,
           NEW n, req[r].op \in FamilyOps, n.op = req[r].op,
           n.fam = req[r].fam, n.tok = req[r].tok,
           n.op = "refresh" =>
              /\ n.pc \notin {"allowed", "account", "marks", "tomb"}
              /\ n.pc \in Written => \/ req[r].pc \in Written
                                     \/ row'[n.fam].token = n.tok + 1
    PROVE  NumberFits(n)'
<1>1. PICK q : q = req[r]
  OBVIOUS
<1>2. q \in Request /\ NumberFits(q) /\ q.fam \in Families
  BY <1>1, SlotFacts DEF NumberInv
<1>4. Brings(n) => Brings(q) \/ row'[n.fam].token = n.tok + 1
  BY <1>1 DEF Brings
<1>5. /\ q.tok \in Nat /\ row[q.fam].token \in Nat /\ row'[q.fam].token \in Nat
      /\ row'[q.fam].token >= row[q.fam].token
  BY <1>2 DEF Request, RestOK, Forward
<1>6. BringsRow(n)'
  BY <1>1, <1>2, <1>4, <1>5 DEF NumberFits, BringsRow, Brings
<1>7. SawRow(n)' /\ RevokesOutrun(n)'
  BY <1>1 DEF SawRow, RevokesOutrun
<1> QED BY <1>6, <1>7 DEF NumberFits

LEMMA OtherOpNumber ==
    ASSUME NEW n, n.op \notin {"refresh", "serve"}
    PROVE  NumberFits(n)'
BY DEF NumberFits, SawRow, BringsRow, Brings, RevokesOutrun

\* What the reads of a refresh decide.
LEMMA ReadsNumber ==
    ASSUME ReqOK, RestOK, RowInv, NumberInv, NEW r \in Requests,
           NEW n, n = req'[r], UNCHANGED <<account, row, closed>>,
           \/ ReadRow(r) \/ CheckAllowed(r) \/ RefreshAccount(r)
           \/ RereadRow(r)
    PROVE  NumberFits(n)'
<1>0. PICK q : q = req[r]
  OBVIOUS
<1>1. /\ q \in Request /\ WellFormed(q) /\ Fits(q) /\ NumberFits(q)
      /\ q.op \in FamilyOps /\ q.fam \in Families /\ q.tok \in Nat
      /\ q.seen.token \in Nat /\ q.seen.prev \in Nat
  BY <1>0, SlotFacts
     DEF ReadRow, CheckAllowed, RefreshAccount, RereadRow, At, UserSteps, RowInv,
         RequestsFit, NumberInv, Request, Seen
<1>2. /\ row[q.fam].token \in Nat /\ row[q.fam].prev \in Nat
      /\ closed[q.fam] \in Nat
  BY <1>1 DEF RestOK
<1>3. CASE n.op \notin {"refresh", "serve"}
  BY <1>3, OtherOpNumber
<1>4. CASE n.op \in {"refresh", "serve"}
  <2>0. ~Finish(r)
    BY <1>4, FinishSlot
  <2>1. CASE ReadRow(r)
    <3>1. n = [q EXCEPT !.seen = Visible(q.fam), !.pc = "allowed"]
      BY <1>0, <2>1, SlotUpdate DEF ReadRow
    <3>2. n.op = q.op /\ n.fam = q.fam /\ n.tok = q.tok /\ n.pc = "allowed"
          /\ n.seen = Visible(q.fam)
      BY <1>1, <3>1 DEF Request
    <3>3. q.tok \in held[q.fam]
      BY <1>1, <1>4, <3>2 DEF Fits, TokenFits, Presents
    <3>4. Visible(q.fam) = NoRow
          \/ /\ Visible(q.fam).token = row[q.fam].token
             /\ Visible(q.fam).token = Visible(q.fam).prev + 1
      BY <1>1 DEF Visible, NumberInv, Numbered
    <3>5. q.tok <= row[q.fam].token
      BY <1>1, <3>3 DEF NumberInv, Numbered
    <3>6. SawRow(n)
      BY <1>2, <3>2, <3>4, <3>5 DEF SawRow
    <3>7. BringsRow(n) /\ RevokesOutrun(n)
      BY <1>1, <3>2 DEF NumberFits, BringsRow, Brings, RevokesOutrun, Written
    <3> QED
      BY <3>6, <3>7 DEF NumberFits, SawRow, BringsRow, Brings, RevokesOutrun,
                        Outrun
  <2>2. CASE CheckAllowed(r)
    <3>1. \/ q.op = "refresh" /\ Goto(r, "account") /\ q.seen # NoRow
          \/ q.op # "refresh" /\ Goto(r, "version")
      BY <1>0, <2>0, <2>2 DEF CheckAllowed
    <3>2. PICK step \in {"account", "version"} : n = [q EXCEPT !.pc = step]
      BY <1>0, <3>1, SlotUpdate DEF Goto
    <3>3. n.op = q.op /\ n.fam = q.fam /\ n.tok = q.tok /\ n.seen = q.seen
          /\ n.pc \in {"account", "version"}
      BY <1>1, <3>2 DEF Request
    <3>4. q.pc = "allowed"
      BY <1>0, <2>2 DEF CheckAllowed, At
    <3>5. n.op = "refresh" => q.seen # NoRow
      BY <3>1, <3>3
    <3>6. SawRow(n)
      BY <1>1, <3>3, <3>4, <3>5 DEF NumberFits, SawRow
    <3>7. BringsRow(n) /\ RevokesOutrun(n)
      BY <1>1, <3>3 DEF NumberFits, BringsRow, Brings, RevokesOutrun, Written
    <3> QED
      BY <3>6, <3>7 DEF NumberFits, SawRow, BringsRow, Brings, RevokesOutrun,
                        Outrun
  <2>3. CASE RefreshAccount(r)
    <3>1. /\ q.pc = "account" /\ q.op = "refresh" /\ q.user \in Users
          /\ q.seen.token = q.seen.prev + 1
          /\ q.tok <= q.seen.token /\ q.seen.token <= row[q.fam].token
      BY <1>0, <1>1, <2>3, SlotFacts DEF RefreshAccount, At, NumberFits, SawRow
    <3>2. 1 <= q.tok
      BY <1>1, <3>1 DEF Fits, TokenFits, Presents, NumberInv, Numbered
    <3>3. CASE Goto(r, "version")
      <4>1. n = [q EXCEPT !.pc = "version"]
        BY <1>0, <3>3, SlotUpdate DEF Goto
      <4>2. n.op = "refresh" /\ n.pc = "version"
        BY <1>1, <3>1, <4>1 DEF Request
      <4> QED
        BY <4>2 DEF NumberFits, SawRow, BringsRow, Brings, RevokesOutrun, Written
    <3>4. CASE /\ WithinGrace(q.seen, q.tok, q.fam)
               /\ Become(r, [q EXCEPT !.op = "serve", !.pc = "version"])
      <4>1. n = [q EXCEPT !.op = "serve", !.pc = "version"]
        BY <1>0, <3>4, SlotUpdate
      <4>2. n.op = "serve" /\ n.fam = q.fam /\ n.tok = q.tok
        BY <1>1, <4>1 DEF Request
      <4>3. q.tok + 1 <= row[q.fam].token
        BY <1>1, <3>1, <3>4 DEF WithinGrace
      <4>4. BringsRow(n) /\ SawRow(n) /\ RevokesOutrun(n)
        BY <4>2, <4>3 DEF BringsRow, SawRow, RevokesOutrun
      <4> QED
        BY <4>4 DEF NumberFits, SawRow, BringsRow, Brings, RevokesOutrun, Outrun
    <3>5. CASE /\ BeginRevoke(r)
               /\ account[q.user].active => /\ q.tok # q.seen.token
                                            /\ ~WithinGrace(q.seen, q.tok, q.fam)
      <4>1. n = [q EXCEPT !.pc = "marks", !.todo = {q.fam}]
        BY <1>0, <3>5, SlotUpdate DEF BeginRevoke
      <4>2. n.op = q.op /\ n.fam = q.fam /\ n.tok = q.tok /\ n.user = q.user
            /\ n.pc = "marks"
        BY <1>1, <4>1 DEF Request
      <4>3. account[q.user].active => Outrun(q)
        <5> SUFFICES ASSUME account[q.user].active PROVE Outrun(q)
          OBVIOUS
        <5>1. q.tok <= q.seen.prev
          BY <1>1, <3>1, <3>5
        <5>2. CASE q.tok = q.seen.prev
          <6>1. ~(q.tok > closed[q.fam])
            BY <3>2, <3>5, <5>2 DEF WithinGrace, NoToken
          <6> QED BY <1>1, <1>2, <6>1 DEF Outrun
        <5>3. CASE q.tok # q.seen.prev
          <6>1. q.tok + 1 < row[q.fam].token
            BY <1>1, <1>2, <3>1, <5>1, <5>3
          <6> QED BY <6>1 DEF Outrun
        <5> QED BY <5>2, <5>3
      <4>4. BringsRow(n) /\ SawRow(n) /\ RevokesOutrun(n)
        BY <3>1, <4>2, <4>3 DEF BringsRow, Brings, SawRow, RevokesOutrun, Outrun,
                                Written
      <4> QED
        BY <4>4 DEF NumberFits, SawRow, BringsRow, Brings, RevokesOutrun, Outrun
    <3>6. \/ Goto(r, "version")
          \/ /\ WithinGrace(q.seen, q.tok, q.fam)
             /\ Become(r, [q EXCEPT !.op = "serve", !.pc = "version"])
          \/ /\ BeginRevoke(r)
             /\ account[q.user].active => /\ q.tok # q.seen.token
                                          /\ ~WithinGrace(q.seen, q.tok, q.fam)
      <4>1. CASE ~account[q.user].active
        BY <1>0, <2>3, <4>1 DEF RefreshAccount
      <4>2. CASE account[q.user].active /\ q.tok = q.seen.token
        BY <1>0, <2>3, <4>2 DEF RefreshAccount
      <4>3. CASE /\ account[q.user].active /\ q.tok # q.seen.token
                 /\ WithinGrace(q.seen, q.tok, q.fam)
        BY <1>0, <2>3, <4>3 DEF RefreshAccount
      <4>4. CASE /\ account[q.user].active /\ q.tok # q.seen.token
                 /\ ~WithinGrace(q.seen, q.tok, q.fam)
        BY <1>0, <2>3, <4>4 DEF RefreshAccount
      <4> QED BY <4>1, <4>2, <4>3, <4>4
    <3> QED BY <3>3, <3>4, <3>5, <3>6
  <2>4. CASE RereadRow(r)
    <3>1. /\ WithinGrace(Visible(q.fam), q.tok, q.fam)
          /\ Become(r, [q EXCEPT !.op = "serve", !.pc = "version",
                                 !.seen = Visible(q.fam)])
      BY <1>0, <2>0, <2>4 DEF RereadRow
    <3>2. n = [q EXCEPT !.op = "serve", !.pc = "version",
                        !.seen = Visible(q.fam)]
      BY <1>0, <3>1, SlotUpdate
    <3>3. n.op = "serve" /\ n.fam = q.fam /\ n.tok = q.tok
      BY <1>1, <3>2 DEF Request
    <3>4. q.tok + 1 <= row[q.fam].token
      BY <1>1, <1>2, <3>1 DEF WithinGrace, Visible, NoRow, NoToken, NumberInv,
                              Numbered
    <3>5. BringsRow(n) /\ SawRow(n) /\ RevokesOutrun(n)
      BY <3>3, <3>4 DEF BringsRow, SawRow, RevokesOutrun
    <3> QED
      BY <3>5 DEF NumberFits, SawRow, BringsRow, Brings, RevokesOutrun, Outrun
  <2> QED BY <2>1, <2>2, <2>3, <2>4
<1> QED BY <1>3, <1>4

LEMMA NumberIssue ==
    ASSUME ReqOK, RestOK, RowInv, NumberInv, RestOK', NEW r \in Requests, Issue(r)
    PROVE  NumberInv'
<1> USE DEF cacheVars, dbVars, rowVars, handVars
<1>0. PICK q, n : q = req[r] /\ n = req'[r]
  OBVIOUS
<1>1. Others(r) /\ q.op \in FamilyOps
  BY <1>0, IssueSlot DEF Moved
<1>2. UNCHANGED <<account, closed>>
  BY DEF Issue, ReadRow, CheckAllowed, LoginAccount, SweepExpired,
     RefreshAccount, RecoverAccount, ReadVersion, ReadClaims, AssertBeforeWrite,
     InsertRow, RotateRow, RereadRow, SetLive, CheckRevoked, WithdrawLive,
     AssertAfterWrite, AssertAfterLastLogin
<1>3. /\ Numbered' /\ \A f \in Families : row'[f].token >= row[f].token
      /\ ReadRow(r) \/ CheckAllowed(r) \/ RefreshAccount(r) \/ RereadRow(r)
         => row' = row
  <2>1. \A f \in Families : row[f].token \in Nat
    BY DEF RestOK
  <2>2. CASE InsertRow(r)
    BY <2>2, InsertNumbers
       DEF InsertRow, ReadRow, CheckAllowed, RefreshAccount, RereadRow, At
  <2>3. CASE RotateRow(r)
    BY <2>3, RotateNumbers
       DEF RotateRow, ReadRow, CheckAllowed, RefreshAccount, RereadRow, At
  <2>4. CASE SweepExpired(r)
    BY <2>1, <2>4, SweepNumbers
       DEF SweepExpired, ReadRow, CheckAllowed, RefreshAccount, RereadRow, At
  <2>5. CASE AssertAfterWrite(r) \/ AssertAfterLastLogin(r)
    BY <2>1, <2>5, RespondNumbers
  <2>6. CASE UNCHANGED <<row, held>>
    BY <2>1, <2>6, NumberRest
  <2> QED
    BY <2>2, <2>3, <2>4, <2>5, <2>6
       DEF Issue, ReadRow, CheckAllowed, LoginAccount, RefreshAccount,
           RecoverAccount, ReadVersion, ReadClaims, AssertBeforeWrite,
           RereadRow, SetLive, CheckRevoked, WithdrawLive
<1>4. Forward
  <2>1. \A f \in Families : closed[f] \in Nat
    BY DEF RestOK
  <2> QED BY <1>2, <1>3, <2>1 DEF Forward
<1>5. NumberFits(n)'
  <2>0. q \in Request /\ Fits(q)
    BY <1>0 DEF ReqOK, RowInv, RequestsFit
  <2>1. CASE ReadRow(r) \/ CheckAllowed(r) \/ RefreshAccount(r) \/ RereadRow(r)
    BY <1>0, <1>2, <1>3, <2>1, ReadsNumber
  <2>2. CASE Finish(r)
    BY <1>0, <2>2, FinishSlot, OtherOpNumber
  <2>3. CASE n.op \in {"login", "recover"}
    BY <2>3, OtherOpNumber
  <2>4. ASSUME NEW step, Goto(r, step),
               q.op = "refresh" =>
                  /\ step \notin {"allowed", "account", "marks", "tomb"}
                  /\ step \in Written => \/ q.pc \in Written
                                         \/ row'[q.fam].token = q.tok + 1
        PROVE  NumberFits(n)'
    BY <1>0, <1>1, <1>4, <2>4, GotoSlot, AdvanceNumber
  <2>5. CASE BeginRevoke(r) /\ q.op # "refresh"
    <3>1. n = [q EXCEPT !.pc = "marks", !.todo = {q.fam}]
      BY <1>0, <2>5, SlotUpdate DEF BeginRevoke
    <3>2. n.op = q.op /\ n.fam = q.fam /\ n.tok = q.tok
      BY <2>0, <3>1 DEF Request
    <3> QED BY <1>0, <1>1, <1>4, <2>5, <3>2, AdvanceNumber
  <2>6. CASE LoginAccount(r) \/ SweepExpired(r) \/ InsertRow(r)
    <3>1. q.op = "login"
      BY <1>0, <2>0, <2>6
         DEF LoginAccount, SweepExpired, InsertRow, At, Fits, StepFits
    <3>2. Finish(r) \/ \E step : Goto(r, step)
      BY <2>6 DEF LoginAccount, SweepExpired, InsertRow
    <3> QED BY <2>2, <2>4, <3>1, <3>2
  <2>7. CASE RecoverAccount(r)
    <3>1. q.op = "recover"
      BY <1>0, <2>7 DEF RecoverAccount
    <3>2. CASE Become(r, [q EXCEPT !.claims = account[q.user].claims,
                                   !.pc = "assert2"])
      <4>1. n = [q EXCEPT !.claims = account[q.user].claims, !.pc = "assert2"]
        BY <1>0, <3>2, SlotUpdate
      <4> QED BY <2>0, <2>3, <3>1, <4>1 DEF Request
    <3> QED BY <1>0, <2>5, <2>7, <3>1, <3>2 DEF RecoverAccount
  <2>8. CASE ReadVersion(r)
    <3> DEFINE step == IF q.op \in {"login", "recover"}
                       THEN "account" ELSE "claims"
    <3>1. Become(r, [q EXCEPT !.ver = version[q.user], !.pc = step])
      BY <1>0, <2>8 DEF ReadVersion
    <3>2. n = [q EXCEPT !.ver = version[q.user], !.pc = step]
      BY <1>0, <3>1, SlotUpdate
    <3>3. n.op = q.op /\ n.fam = q.fam /\ n.tok = q.tok /\ n.pc = step
      BY <2>0, <3>2 DEF Request
    <3> QED BY <1>0, <1>1, <1>4, <3>3, AdvanceNumber DEF Written
  <2>9. CASE ReadClaims(r)
    <3>1. n = [q EXCEPT !.claims = account[q.user].claims, !.pc = "assert"]
      BY <1>0, <2>9, SlotUpdate DEF ReadClaims
    <3>2. n.op = q.op /\ n.fam = q.fam /\ n.tok = q.tok /\ n.pc = "assert"
      BY <2>0, <3>1 DEF Request
    <3> QED BY <1>0, <1>1, <1>4, <3>2, AdvanceNumber DEF Written
  <2>10. CASE AssertBeforeWrite(r)
    <3>1. \/ Finish(r) \/ Goto(r, "write")
          \/ q.op = "serve" /\ Goto(r, "live")
      BY <1>0, <2>10 DEF AssertBeforeWrite
    <3> QED BY <2>2, <2>4, <3>1 DEF Written
  <2>11. CASE RotateRow(r)
    <3>1. \/ Goto(r, "reread")
          \/ Goto(r, "live") /\ row'[q.fam].token = q.tok + 1
      <4>1. CASE ~CanRotate(q.fam, q.seen.token)
        BY <1>0, <2>11, <4>1 DEF RotateRow
      <4>2. CASE CanRotate(q.fam, q.seen.token)
        <5>1. q.fam \in Families
          BY <1>0, <1>1, SlotFacts
        <5>2. /\ row' = [row EXCEPT ![q.fam] =
                           [@ EXCEPT !.token = q.tok + 1, !.prev = q.seen.token]]
              /\ Goto(r, "live")
          BY <1>0, <2>11, <4>2 DEF RotateRow
        <5> QED BY <5>1, <5>2 DEF RestOK
      <4> QED BY <4>1, <4>2
    <3> QED BY <2>4, <3>1 DEF Written
  <2>12. CASE SetLive(r)
    <3>1. Goto(r, "check") /\ q.pc = "live"
      BY <1>0, <2>12 DEF SetLive, At
    <3> QED BY <2>4, <3>1 DEF Written
  <2>13. CASE CheckRevoked(r)
    <3>1. (Goto(r, "withdraw") \/ Goto(r, "assert2")) /\ q.pc = "check"
      BY <1>0, <2>13 DEF CheckRevoked, At
    <3> QED BY <2>4, <3>1 DEF Written
  <2>14. CASE WithdrawLive(r)
    BY <2>2, <2>14 DEF WithdrawLive
  <2>15. CASE AssertAfterWrite(r)
    <3>1. \/ Finish(r)
          \/ q.op = "login" /\ (BeginRevoke(r) \/ Goto(r, "lastlogin"))
      BY <1>0, <2>15 DEF AssertAfterWrite, Respond
    <3> QED BY <2>2, <2>4, <2>5, <3>1
  <2>16. CASE AssertAfterLastLogin(r)
    <3>1. Finish(r) \/ BeginRevoke(r)
      BY <1>0, <2>16 DEF AssertAfterLastLogin, Respond
    <3>2. q.op = "login"
      BY <1>0, <2>0, <2>16
         DEF AssertAfterLastLogin, At, Fits, StepFits
    <3> QED BY <2>2, <2>5, <3>1, <3>2
  <2> QED
    BY <2>1, <2>6, <2>7, <2>8, <2>9, <2>10, <2>11, <2>12, <2>13, <2>14, <2>15,
       <2>16 DEF Issue
<1> QED
  BY <1>0, <1>1, <1>3, <1>4, <1>5, NumberSlot

\* A step of a request that is not a refresh, and one that leaves its slot to
\* what it was about to revoke.
LEMMA NumberRevoke ==
    ASSUME ReqOK, RestOK, RowInv, NumberInv, RestOK', NEW r \in Requests, Revoke(r)
    PROVE  NumberInv'
<1> USE DEF cacheVars, dbVars, rowVars, handVars
<1>0. PICK q, n : q = req[r] /\ n = req'[r]
  OBVIOUS
<1>1. /\ held' = held /\ closed' = closed
      /\ row' = row \/ \E F : row' = Tombstoned(F)
      /\ \A u \in Users : account'[u].active => account[u].active
  <2>1. CASE Commit(r)
    <3>1. \A u \in Users : account'[u].active => account[u].active
      BY <2>1 DEF Commit, Edited, RestOK
    <3> QED BY <2>1, <3>1 DEF Commit
  <2>2. CASE ~Commit(r)
    BY <2>2 DEF Revoke, MarkRevoked, ClearLive, MarksDoneFamily, Tombstone,
       Bump, RevokeAllRows, MarksDoneAll, Rollback
  <2> QED BY <2>1, <2>2
<1>2. Numbered' /\ \A f \in Families : row'[f].token = row[f].token
  BY <1>1, TombsNumbered, NumberRest
<1>3. Forward
  BY <1>1, <1>2 DEF Forward, RestOK
<1>4. q \in Request /\ WellFormed(q) /\ NumberFits(q)
  BY <1>0 DEF ReqOK, NumberInv
<1>5. ASSUME n.op \notin {"refresh", "serve"} PROVE NumberFits(n)'
  BY <1>5, OtherOpNumber
<1>6. ASSUME q.pc = "marks", n.op = q.op, n.fam = q.fam, n.tok = q.tok,
             n.user = q.user, n.pc \in {"marks", "tomb"}
      PROVE  NumberFits(n)'
  <2>1. NumberFits(q)'
    BY <1>2, <1>3, <1>4, NumbersKept
  <2> QED
    BY <1>6, <2>1 DEF NumberFits, SawRow, BringsRow, Brings, RevokesOutrun,
                      Outrun, Written
<1>7. Others(r) /\ NumberFits(n)'
  <2>1. ASSUME NEW f \in Families, MarkRevoked(r, f) \/ ClearLive(r, f)
        PROVE  Others(r) /\ NumberFits(n)'
    <3>1. PICK todo, clear : Become(r, [q EXCEPT !.todo = todo, !.clear = clear])
      <4>1. CASE MarkRevoked(r, f)
        BY <1>0, <4>1 DEF MarkRevoked
      <4>2. CASE ClearLive(r, f)
        <5>1. [q EXCEPT !.clear = @ \ {f}] =
                [q EXCEPT !.todo = q.todo, !.clear = q.clear \ {f}]
          BY <1>4 DEF Request
        <5> QED BY <1>0, <4>2, <5>1 DEF ClearLive
      <4> QED BY <2>1, <4>1, <4>2
    <3>2. n = [q EXCEPT !.todo = todo, !.clear = clear] /\ Others(r)
      BY <1>0, <3>1, SlotUpdate
    <3>3. /\ n.op = q.op /\ n.fam = q.fam /\ n.tok = q.tok /\ n.user = q.user
          /\ n.pc = q.pc
      BY <1>4, <3>2 DEF Request
    <3>4. q.pc = "marks"
      BY <1>0, <2>1 DEF MarkRevoked, ClearLive, At
    <3> QED BY <1>6, <3>2, <3>3, <3>4
  <2>2. CASE MarksDoneFamily(r)
    <3>1. Goto(r, "tomb") /\ q.pc = "marks"
      BY <1>0, <2>2 DEF MarksDoneFamily, Marked, At
    <3> QED BY <1>0, <1>6, <3>1, GotoSlot
  <2>3. CASE Tombstone(r)
    BY <1>0, <1>5, <2>3, FinishSlot DEF Tombstone
  <2>4. CASE Bump(r)
    BY <1>0, <1>5, <2>4, BumpSlot
  <2>5. CASE RevokeAllRows(r)
    BY <1>0, <1>5, <2>5, RevokeAllSlot
  <2>6. CASE MarksDoneAll(r)
    <3>1. q.op = "invalidate" /\ (Goto(r, "commit") \/ Finish(r))
      BY <1>0, <2>6 DEF MarksDoneAll
    <3> QED BY <1>0, <1>5, <3>1, GotoSlot, FinishSlot
  <2>7. CASE Commit(r) \/ Rollback(r)
    BY <1>0, <1>5, <2>7, CloseTxSlot DEF Commit, Rollback
  <2> QED BY <2>1, <2>2, <2>3, <2>4, <2>5, <2>6, <2>7 DEF Revoke
<1> QED BY <1>0, <1>2, <1>3, <1>7, NumberSlot

LEMMA NumberStart ==
    ASSUME ReqOK, RestOK, RowInv, NumberInv, RestOK', NEW r \in Requests, Start(r)
    PROVE  NumberInv'
<1> USE DEF cacheVars, dbVars, rowVars, handVars
<1>0. PICK n : n = req'[r]
  OBVIOUS
<1>1. UNCHANGED <<row, held, closed>>
  BY DEF Start, StartLogin, StartRefresh, StartLogout, StartLogoutAll,
     StartChange, StartChangeInTx
<1>2. \A u \in Users : account'[u].active => account[u].active
  <2>1. CASE UNCHANGED account
    BY <2>1
  <2>2. ASSUME NEW v \in Users, NEW full \in BOOLEAN, NEW off \in BOOLEAN,
               StartChange(r, v, full, off)
        PROVE  \A u \in Users : account'[u].active => account[u].active
    BY <2>2 DEF StartChange, Edited, RestOK
  <2> QED
    BY <2>1, <2>2 DEF Start, StartLogin, StartRefresh, StartLogout,
       StartLogoutAll, StartChangeInTx
<1>3. Forward /\ Numbered'
  BY <1>1, <1>2, NumberRest DEF Forward, RestOK
<1>4. Others(r) /\ (n.op = "refresh" => n.pc = "read") /\ n.op # "serve"
  <2>1. Idle \in Request
    BY IdleType
  <2>2. ASSUME NEW op \in {"login", "refresh", "recover", "logout", "invalidate"},
               NEW pc, op = "refresh" => pc = "read",
               NEW m, Become(r, m), m.op = op, m.pc = pc
        PROVE  Others(r) /\ (n.op = "refresh" => n.pc = "read")
               /\ n.op # "serve"
    BY <1>0, <2>2, SlotUpdate
  <2> USE <2>1 DEF Request, Begin
  <2>3. ASSUME NEW f \in Families, StartLogin(r, f) \/ StartLogout(r, f)
        PROVE  Others(r) /\ (n.op = "refresh" => n.pc = "read") /\ n.op # "serve"
    BY <2>2, <2>3 DEF StartLogin, StartLogout
  <2>4. ASSUME NEW f \in Families, NEW op \in {"refresh", "recover"},
               NEW tok \in held[f], StartRefresh(r, op, f, tok)
        PROVE  Others(r) /\ (n.op = "refresh" => n.pc = "read") /\ n.op # "serve"
    BY <2>2, <2>4 DEF StartRefresh
  <2>5. ASSUME NEW u \in Users, StartLogoutAll(r, u)
        PROVE  Others(r) /\ (n.op = "refresh" => n.pc = "read") /\ n.op # "serve"
    BY <2>2, <2>5 DEF StartLogoutAll
  <2>6. ASSUME NEW u \in Users, NEW full \in BOOLEAN, NEW off \in BOOLEAN,
               StartChange(r, u, full, off) \/ StartChangeInTx(r, u, full, off)
        PROVE  Others(r) /\ (n.op = "refresh" => n.pc = "read") /\ n.op # "serve"
    BY <2>2, <2>6 DEF StartChange, StartChangeInTx
  <2> QED BY <2>3, <2>4, <2>5, <2>6 DEF Start
<1>5. NumberFits(n)'
  BY <1>4 DEF NumberFits, SawRow, BringsRow, Brings, RevokesOutrun, Written
<1> QED BY <1>0, <1>3, <1>4, <1>5, NumberSlot

LEMMA NumberEnvironment ==
    ASSUME ReqOK, RestOK, NumberInv, RestOK', Environment \/ Quiet \/ UNCHANGED vars
    PROVE  NumberInv'
<1> USE DEF cacheVars, dbVars, rowVars, handVars, vars
<1>1. UNCHANGED <<req, row, held, account>>
  BY DEF Environment, GraceElapses, Lapse, LoseCache, LoseKeys, Die, Quiet
<1>2. \A f \in Families : closed'[f] >= closed[f]
  <2>1. CASE closed' = closed
    BY <2>1 DEF RestOK
  <2>2. ASSUME NEW f \in Families, GraceElapses(f)
        PROVE  \A g \in Families : closed'[g] >= closed[g]
    BY <2>2 DEF GraceElapses, RestOK
  <2> QED
    BY <2>1, <2>2 DEF Environment, Lapse, LoseCache, LoseKeys, Die, Quiet
<1>3. Forward /\ Numbered'
  BY <1>1, <1>2, NumberRest DEF Forward, RestOK
<1>4. ASSUME NEW r \in Requests PROVE NumberFits(req[r])'
  <2>1. PICK q : q = req[r] /\ q = req'[r]
    BY <1>1
  <2>2. q \in Request /\ WellFormed(q) /\ NumberFits(q)
    BY <2>1 DEF ReqOK, NumberInv
  <2>3. NumberFits(q)'
    BY <1>3, <2>2, NumbersKept
  <2> QED
    BY <2>1, <2>3 DEF NumberFits, SawRow, Brings, BringsRow, RevokesOutrun,
                      Outrun
<1> QED BY <1>3, <1>4 DEF NumberInv

LEMMA NumberStep ==
    TypeOK /\ TypeOK' /\ RowInv /\ NumberInv /\ [Next]_vars => NumberInv'
BY TypeSplit, NumberStart, NumberIssue, NumberRevoke, NumberEnvironment
   DEF Next, Progress, TypeOK, ReqOK, RestOK

LEMMA NumberInit == Init => NumberInv
BY DEF Init, NumberInv, Numbered, NumberFits, SawRow, BringsRow, Brings,
   RevokesOutrun, Idle, NoToken

\* A client that lost the answer to a rotation, or lost a race to one, gets its
\* session back.  The newest token anyone was handed is the one its active row
\* has or the one that replaced, and a refresh revokes the family of an active
\* account only if it presents a token past the grace window or at least two
\* rotations behind the row (rotateRefreshToken, withinGraceWindow and
\* serveReplacedToken of TokenService).
THEOREM RotationsRecover == Spec => []LostAnswersRecover
<1>1. TypeOK /\ RowInv /\ NumberInv => LostAnswersRecover
  <2> SUFFICES ASSUME TypeOK, RowInv, NumberInv PROVE LostAnswersRecover
    OBVIOUS
  <2>0. RestOK
    BY TypeSplit
  <2>1. ASSUME NEW f \in Families PROVE NewestInReach(f)
    <3> SUFFICES ASSUME row[f].status = "active", held[f] # {}
                 PROVE  \E tok \in held[f] \cap {row[f].token, row[f].prev} :
                           \A other \in held[f] : other <= tok
      BY DEF NewestInReach
    <3>1. /\ row[f].token \in Nat /\ row[f].prev \in Nat
          /\ row[f].token = row[f].prev + 1
          /\ \A tok \in held[f] : tok \in Nat /\ tok <= row[f].token
      BY <2>0 DEF RestOK, NumberInv, Numbered
    <3>2. CASE row[f].token \in held[f]
      BY <3>1, <3>2
    <3>3. CASE row[f].token \notin held[f]
      <4>1. row[f].prev \in held[f]
        BY <3>3 DEF RowInv, WithinReach
      <4>2. \A tok \in held[f] : tok <= row[f].prev
        BY <3>1, <3>3
      <4> QED BY <4>1, <4>2
    <3> QED BY <3>2, <3>3
  <2>2. ASSUME NEW r \in Requests,
               req[r].op = "refresh", req[r].pc \in {"marks", "tomb"},
               account[req[r].user].active
        PROVE  Outrun(req[r])
    BY <2>2 DEF NumberInv, NumberFits, RevokesOutrun
  <2> QED BY <2>1, <2>2 DEF LostAnswersRecover
<1>2. QED
  BY <1>1, RowInit, RowStep, NumberInit, NumberStep, TypeCorrect, PTL DEF Spec
-----------------------------------------------------------------------------
(* The rows implement the abstract registry.                               *)

\* The refinement mapping of Registry.
RowStates == [f \in Families |-> row[f].status]
RowTokens == [f \in Families |-> row[f].token]

\* The steps that write rows; every other step is a stutter of the registry.
LEMMA RowWriters ==
    ASSUME [Next]_vars
    PROVE  \/ row' = row
           \/ \E r \in Requests :
                 \/ InsertRow(r) \/ RotateRow(r) \/ SweepExpired(r)
                 \/ Tombstone(r) \/ RevokeAllRows(r) \/ Commit(r)
<1> USE DEF dbVars, rowVars, vars
<1>1. ASSUME NEW r \in Requests, Start(r) PROVE row' = row
  BY <1>1 DEF Start, StartLogin, StartRefresh, StartLogout, StartLogoutAll,
     StartChange, StartChangeInTx
<1>2. ASSUME NEW r \in Requests, Issue(r)
      PROVE  row' = row \/ InsertRow(r) \/ RotateRow(r) \/ SweepExpired(r)
  BY <1>2 DEF Issue, ReadRow, CheckAllowed, LoginAccount, RefreshAccount,
     RecoverAccount, ReadVersion, ReadClaims, AssertBeforeWrite, RereadRow,
     SetLive, CheckRevoked, WithdrawLive, AssertAfterWrite,
     AssertAfterLastLogin
<1>3. ASSUME NEW r \in Requests, Revoke(r)
      PROVE  row' = row \/ Tombstone(r) \/ RevokeAllRows(r) \/ Commit(r)
  BY <1>3 DEF Revoke, MarkRevoked, ClearLive, MarksDoneFamily, Bump,
     MarksDoneAll, Rollback
<1>4. ASSUME Environment \/ Quiet PROVE row' = row
  BY <1>4 DEF Environment, GraceElapses, Lapse, LoseCache, LoseKeys, Die,
     Quiet
<1> QED
  BY <1>1, <1>2, <1>3, <1>4 DEF Next, Progress

\* Revoking the rows of some families of a user ends the active ones.
LEMMA TombsEnd ==
    ASSUME RestOK, NEW u \in Users, NEW F \in SUBSET FamiliesOf(u),
           row' = Tombstoned(F)
    PROVE  Registry!Next
<1>0. PICK G : G = {f \in F : row[f].status = "active"}
  OBVIOUS
<1>1. G \in SUBSET Families /\ \A f \in G : OwnerOf[f] = u
  BY <1>0 DEF FamiliesOf
<1>2. \A f \in Families :
         /\ row'[f].status = IF f \in G THEN "revoked" ELSE row[f].status
         /\ row'[f].token = row[f].token
  <2> SUFFICES ASSUME NEW f \in Families
               PROVE  /\ row'[f].status = IF f \in G THEN "revoked"
                                          ELSE row[f].status
                      /\ row'[f].token = row[f].token
    OBVIOUS
  <2>1. LET t == [row[f] EXCEPT !.status = "revoked", !.prev = NoToken]
        IN  t.status = "revoked" /\ t.token = row[f].token
    BY DEF RestOK
  <2> QED
    BY <1>0, <2>1 DEF Tombstoned
<1>3. Registry!End(u, G)
  <2>1. \A f \in G : OwnerOf[f] = u /\ RowStates[f] = "active"
    BY <1>0, <1>1 DEF RowStates
  <2>2. RowStates' =
          [f \in Families |-> IF f \in G THEN "revoked" ELSE RowStates[f]]
    BY <1>2 DEF RowStates
  <2>3. RowTokens' = RowTokens
    BY <1>2 DEF RowTokens
  <2> QED
    BY <2>1, <2>2, <2>3 DEF Registry!End, RowStates, RowTokens
<1> QED
  BY <1>1, <1>3 DEF Registry!Next

LEMMA InsertOpens ==
    ASSUME ReqOK, RestOK, RowInv, NEW r \in Requests, InsertRow(r)
    PROVE  Registry!Next
<1>0. PICK f : f = req[r].fam
  OBVIOUS
<1>1. f \in Families /\ row[f].status = "unused"
      /\ row' = [row EXCEPT ![f] =
                   [status |-> "active", token |-> 1, prev |-> NoToken]]
  BY <1>0, SlotFacts DEF InsertRow, At, RowInv, RequestsFit, Fits, LoginFits,
     PostWrite, FamilyOps
<1>2. \A g \in Families :
         row'[g] = IF g = f
                   THEN [status |-> "active", token |-> 1, prev |-> NoToken]
                   ELSE row[g]
  BY <1>1 DEF RestOK
<1>3. /\ row'[f].status = "active" /\ row'[f].token = 1
      /\ \A g \in Families \ {f} : row'[g] = row[g]
  BY <1>1, <1>2
<1>4. /\ RowStates' = [RowStates EXCEPT ![f] = "active"]
      /\ RowTokens' = [RowTokens EXCEPT ![f] = 1]
  <2>1. ASSUME NEW g \in Families
        PROVE  /\ row'[g].status = IF g = f THEN "active" ELSE row[g].status
               /\ row'[g].token = IF g = f THEN 1 ELSE row[g].token
    BY <1>3
  <2> QED
    BY <2>1 DEF RowStates, RowTokens
<1>5. Registry!Open(f)
  BY <1>1, <1>3, <1>4 DEF Registry!Open, RowStates, RowTokens
<1> QED
  BY <1>1, <1>5 DEF Registry!Next

\* The token a rotation replaces is the one its request presented, so the
\* new one is its successor.
LEMMA RotateAdvances ==
    ASSUME ReqOK, RestOK, RowInv, NEW r \in Requests, RotateRow(r),
           row' # row
    PROVE  Registry!Next
<1>0. PICK f : f = req[r].fam
  OBVIOUS
<1>1. /\ f \in Families /\ row[f].status = "active"
      /\ row[f].token = req[r].tok
      /\ row' = [row EXCEPT ![f] = [@ EXCEPT !.token = req[r].tok + 1,
                                             !.prev = req[r].seen.token]]
  BY <1>0, SlotFacts DEF RotateRow, CanRotate, At, RowInv, RequestsFit, Fits,
     RotationFits, FamilyOps
<1>2. /\ row'[f].status = row[f].status
      /\ row'[f].token = row[f].token + 1
      /\ \A g \in Families \ {f} : row'[g] = row[g]
  BY <1>1 DEF RestOK
<1>3. RowStates' = RowStates
  BY <1>1, <1>2 DEF RowStates
<1>4. RowTokens' = [RowTokens EXCEPT ![f] = @ + 1]
  <2>1. ASSUME NEW g \in Families
        PROVE  row'[g].token = IF g = f THEN row[f].token + 1
                               ELSE row[g].token
    BY <1>2
  <2> QED
    BY <1>1, <2>1 DEF RowTokens
<1>5. Registry!Rotate(f)
  BY <1>1, <1>3, <1>4 DEF Registry!Rotate, RowStates, RowTokens
<1> QED
  BY <1>1, <1>5 DEF Registry!Next

LEMMA SweepPurges ==
    ASSUME RestOK, NEW r \in Requests, SweepExpired(r), row' # row
    PROVE  Registry!Next
<1>0. PICK F : F = {f \in lapsed \ locked :
                       row[f].status \in {"active", "revoked"}}
  OBVIOUS
<1>1. F \in SUBSET Families
  BY <1>0 DEF RestOK
<1>2. \A f \in Families :
         /\ row'[f].status = IF f \in F THEN "deleted" ELSE row[f].status
         /\ row'[f].token = row[f].token
  <2> SUFFICES ASSUME NEW f \in Families
               PROVE  /\ row'[f].status = IF f \in F THEN "deleted"
                                          ELSE row[f].status
                      /\ row'[f].token = row[f].token
    OBVIOUS
  <2>1. LET t == [row[f] EXCEPT !.status = "deleted"]
        IN  t.status = "deleted" /\ t.token = row[f].token
    BY DEF RestOK
  <2> QED
    BY <1>0, <2>1 DEF SweepExpired
<1>3. RowStates' =
        [f \in Families |-> IF f \in F THEN "deleted" ELSE RowStates[f]]
  BY <1>2 DEF RowStates
<1>4. RowTokens' = RowTokens
  BY <1>2 DEF RowTokens
<1>5. \A f \in F : RowStates[f] \in {"active", "revoked"}
  BY <1>0, <1>1 DEF RowStates
<1>6. Registry!Purge(F)
  BY <1>3, <1>4, <1>5 DEF Registry!Purge, RowStates, RowTokens
<1> QED
  BY <1>1, <1>6 DEF Registry!Next

LEMMA RegistryStep ==
    TypeOK /\ RowInv /\ [Next]_vars
        => [Registry!Next]_<<RowStates, RowTokens>>
<1> SUFFICES ASSUME ReqOK, RestOK, RowInv, [Next]_vars, row' # row
             PROVE  Registry!Next
  BY TypeSplit DEF RowStates, RowTokens
<1>1. PICK r \in Requests :
         \/ InsertRow(r) \/ RotateRow(r) \/ SweepExpired(r)
         \/ Tombstone(r) \/ RevokeAllRows(r) \/ Commit(r)
  BY RowWriters
<1> DEFINE u == req[r].user
<1>2. CASE Tombstone(r)
  <2>1. /\ req[r].op \in FamilyOps /\ req[r].fam \in Families
        /\ row' = Tombstoned({req[r].fam})
    BY <1>2, SlotFacts DEF Tombstone, At, UserSteps
  <2>2. u \in Users /\ {req[r].fam} \in SUBSET FamiliesOf(u)
    BY <2>1, SlotFacts DEF WellFormed, FamiliesOf, FamilyOps
  <2> QED
    BY <2>1, <2>2, TombsEnd
<1>3. CASE RevokeAllRows(r)
  <2>1. u \in Users
    BY <1>3, SlotFacts DEF RevokeAllRows, At
  <2>2. row' = Tombstoned({f \in FamiliesOf(u) : row[f].status = "active"})
    BY <1>3 DEF RevokeAllRows
  <2> QED
    BY <2>1, <2>2, TombsEnd
<1>4. CASE Commit(r)
  <2>1. u \in Users
    BY <1>4, SlotFacts DEF Commit, At
  <2>2. row' = Tombstoned(locked \cap FamiliesOf(u))
    BY <1>4 DEF Commit
  <2> QED
    BY <2>1, <2>2, TombsEnd
<1> QED
  BY <1>1, <1>2, <1>3, <1>4, InsertOpens, RotateAdvances, SweepPurges

\* The refresh-token table implements the registry of sessions, whatever
\* requests interleave, whatever the cache loses and whoever dies: a session
\* is opened once, its token moves on one number at a time while it is active,
\* and a session that was ended or purged never comes back.
THEOREM RowsImplementRegistry == Spec => ImplementsRegistry
<1>1. Init => Registry!Init
  BY DEF Init, Registry!Init, NoToken
<1>2. [Registry!Next]_<<RowStates, RowTokens>> <=>
      [Registry!Next]_<<[f \in Families |-> row[f].status],
                        [f \in Families |-> row[f].token]>>
  BY DEF RowStates, RowTokens
<1>3. QED
  BY <1>1, <1>2, RegistryStep, RowInit, RowStep, TypeCorrect, PTL
     DEF Spec, ImplementsRegistry, Registry!Spec
-----------------------------------------------------------------------------
(* No session from before an invalidation.                                 *)

\* A row a refresh would accept, born before version v, whose login is over.
Early(f, v) ==
    /\ row[f].status = "active"
    /\ f \notin marked
    /\ born[f] < v
    /\ \A r \in Requests : ~(req[r].op = "login" /\ req[r].fam = f)

\* No invalidation is ahead of the version it has bumped.
VersionsReached ==
    /\ \A u \in Users : barrier[u] <= version[u]
    /\ \A r \in Requests :
          req[r].op = "invalidate" => req[r].ver <= version[req[r].user]

WithdrawnMarked ==
    \A r \in Requests : req[r].pc = "withdraw" => req[r].fam \in marked

NoneEarly == \A f \in Families : ~Early(f, barrier[OwnerOf[f]])

\* A full invalidation that is marking has dealt with every family of the
\* user but those it is still to mark.
DealtWith(q) ==
    q.op = "invalidate" /\ q.pc = "marks" /\ q.full =>
        \A f \in FamiliesOf(q.user) \ q.todo : ~Early(f, q.ver)
RevokersDone == \A r \in Requests : DealtWith(req[r])

Barred ==
    count.losses = 0 =>
        VersionsReached /\ WithdrawnMarked /\ NoneEarly /\ RevokersDone

\* What a step has to show so that no row becomes an early one.
LEMMA EarlyBefore ==
    ASSUME NEW r \in Requests, Others(r), NEW f \in Families, NEW v,
           marked \subseteq marked',
           row'[f].status = "active" =>
               \/ req'[r].op = "login" /\ req'[r].fam = f
               \/ row[f].status = "active" /\ born'[f] = born[f],
           req[r].op = "login" /\ req[r].fam = f =>
               \/ req'[r].op = "login" /\ req'[r].fam = f
               \/ row[f].status = "unused" \/ row'[f].status # "active"
               \/ f \in marked
               \/ ~(born[f] < v),
           Early(f, v)'
    PROVE  Early(f, v)
<1>1. /\ row'[f].status = "active" /\ f \notin marked' /\ born'[f] < v
      /\ \A s \in Requests : ~(req'[s].op = "login" /\ req'[s].fam = f)
  BY DEF Early
<1>2. row[f].status = "active" /\ born'[f] = born[f] /\ f \notin marked
  BY <1>1
<1>3. ASSUME NEW s \in Requests PROVE ~(req[s].op = "login" /\ req[s].fam = f)
  <2>1. CASE s = r
    BY <1>1, <1>2, <2>1
  <2>2. CASE s # r
    BY <1>1, <2>2 DEF Others
  <2> QED
    BY <2>1, <2>2
<1> QED
  BY <1>1, <1>2, <1>3 DEF Early

\* No step makes a row early for a version that was already reached.
EarlyWasEarly ==
    \A f \in Families, v \in Nat :
        v <= version[OwnerOf[f]] /\ Early(f, v)' => Early(f, v)

\* What the step of a request has to show of its own slot.
LEMMA BarredKept ==
    ASSUME ReqOK, RestOK, Barred, count'.losses = count.losses,
           NEW r \in Requests, Others(r), NEW n, n = req'[r],
           EarlyWasEarly, marked \subseteq marked', barrier' = barrier,
           \A u \in Users : version[u] <= version'[u] /\ version'[u] \in Nat,
           count.losses = 0 =>
              /\ n.op = "invalidate" => n.ver <= version'[n.user]
              /\ n.pc = "withdraw" => n.fam \in marked'
              /\ DealtWith(n)'
    PROVE  Barred'
<1> SUFFICES ASSUME count.losses = 0
             PROVE  (VersionsReached /\ WithdrawnMarked /\ NoneEarly
                     /\ RevokersDone)'
  BY DEF Barred
<1>1. VersionsReached /\ WithdrawnMarked /\ NoneEarly /\ RevokersDone
  BY DEF Barred
<1>2. VersionsReached'
  <2>1. ASSUME NEW u \in Users PROVE barrier'[u] <= version'[u]
    <3>1. barrier[u] <= version[u] /\ version[u] <= version'[u]
      BY <1>1 DEF VersionsReached
    <3>2. barrier[u] \in Nat /\ version[u] \in Nat /\ version'[u] \in Nat
      BY DEF RestOK
    <3> QED
      BY <3>1, <3>2
  <2>2. ASSUME NEW s \in Requests, req'[s].op = "invalidate"
        PROVE  req'[s].ver <= version'[req'[s].user]
    <3>1. CASE s = r
      BY <2>2, <3>1
    <3>2. CASE s # r
      <4>1. PICK q : q = req[s] /\ q = req'[s]
        BY <3>2 DEF Others
      <4>2. q \in Request /\ q.user \in Users
        BY <2>2, <4>1, SlotFacts
      <4>3. q.ver \in Nat /\ q.ver <= version[q.user]
        BY <1>1, <2>2, <4>1, <4>2 DEF VersionsReached, Request
      <4> QED
        BY <4>1, <4>2, <4>3 DEF RestOK
    <3> QED
      BY <3>1, <3>2
  <2> QED
    BY <2>1, <2>2 DEF VersionsReached
<1>3. WithdrawnMarked'
  BY <1>1 DEF WithdrawnMarked, Others
<1>4. NoneEarly'
  <2> SUFFICES ASSUME NEW f \in Families, Early(f, barrier[OwnerOf[f]])'
               PROVE  FALSE
    BY DEF NoneEarly
  <2>1. PICK v : v = barrier[OwnerOf[f]]
    OBVIOUS
  <2>2. v \in Nat /\ v <= version[OwnerOf[f]]
    <3>1. OwnerOf[f] \in Users
      OBVIOUS
    <3> QED
      BY <1>1, <2>1, <3>1 DEF VersionsReached, RestOK
  <2>3. Early(f, v)'
    BY <2>1 DEF Early
  <2> QED
    BY <1>1, <2>1, <2>2, <2>3 DEF NoneEarly, EarlyWasEarly
<1>5. RevokersDone'
  <2> SUFFICES ASSUME NEW s \in Requests PROVE DealtWith(req[s])'
    BY DEF RevokersDone
  <2>1. CASE s = r
    BY <2>1 DEF DealtWith
  <2>2. CASE s # r
    <3>1. PICK q : q = req[s] /\ q = req'[s]
      BY <2>2 DEF Others
    <3>2. DealtWith(q) /\ q \in Request
          /\ (q.op = "invalidate" => q.ver <= version[q.user])
      BY <1>1, <3>1, SlotFacts DEF RevokersDone, VersionsReached
    <3>3. q.ver \in Nat
      BY <3>2 DEF Request
    <3>4. DealtWith(q)'
      BY <3>2, <3>3 DEF DealtWith, EarlyWasEarly, FamiliesOf
    <3> QED
      BY <3>1, <3>4 DEF DealtWith
  <2> QED
    BY <2>1, <2>2
<1> QED
  BY <1>2, <1>3, <1>4, <1>5
\* A step that writes no version and no barrier and drops no marker.
LEMMA BarredPlain ==
    ASSUME ReqOK, RestOK, Barred, NEW r \in Requests, Others(r), NEW n,
           n = req'[r], EarlyWasEarly, UNCHANGED <<version, barrier>>,
           marked \subseteq marked', count'.losses = count.losses,
           n.op = "invalidate" => \/ n.ver = 0
                                  \/ /\ req[r].op = "invalidate"
                                     /\ n.user = req[r].user
                                     /\ n.ver = req[r].ver,
           n.op = "invalidate" => n.user \in Users,
           n.pc = "withdraw" => n.fam \in marked',
           ~(n.op = "invalidate" /\ n.pc = "marks")
    PROVE  Barred'
<1>1. \A u \in Users : version[u] <= version'[u] /\ version'[u] \in Nat
  BY DEF RestOK
<1>2. ASSUME count.losses = 0, n.op = "invalidate"
      PROVE  n.ver <= version'[n.user]
  BY <1>2 DEF Barred, VersionsReached, RestOK
<1>3. DealtWith(n)'
  BY DEF DealtWith
<1> QED
  BY <1>1, <1>2, <1>3, BarredKept

LEMMA BarredStart ==
    ASSUME ReqOK, RestOK, Barred, NEW r \in Requests, Start(r)
    PROVE  Barred'
<1>a. PICK n : n = req'[r]
  OBVIOUS
<1>1. /\ Started(r) /\ req[r].op = "none"
      /\ UNCHANGED <<live, marked, version, row, locked, creds>>
      /\ count'.losses = count.losses
  BY StartSlot DEF Started
<1>2. UNCHANGED <<born, barrier>>
  BY DEF Start, StartLogin, StartRefresh, StartLogout, StartLogoutAll,
         StartChange, StartChangeInTx, dbVars, rowVars
<1>3. EarlyWasEarly
  <2> SUFFICES ASSUME NEW f \in Families, NEW v \in Nat, Early(f, v)'
               PROVE  Early(f, v)
    BY DEF EarlyWasEarly
  <2> QED
    BY <1>1, <1>2, EarlyBefore DEF Started
<1>4. n.op = "invalidate" => n.user \in Users
  BY <1>a, StartType, SlotFacts DEF ReqOK, WellFormed
<1> QED
  BY <1>a, <1>1, <1>2, <1>3, <1>4, BarredPlain DEF Started

\* A login that leaves its family to itself: it never inserted the row, or a
\* revocation has marked the family, or no version was missed.
LEMMA LoginLeaves ==
    ASSUME ReqOK, RestOK, RowInv, WithdrawnMarked, NEW r \in Requests,
           Issue(r), req[r].op = "login"
    PROVE  \/ req'[r].op = "login" /\ req'[r].fam = req[r].fam
           \/ row[req[r].fam].status = "unused"
           \/ req[r].fam \in marked
           \/ born[req[r].fam] = version[OwnerOf[req[r].fam]]
<1> DEFINE q == req[r]
           f == q.fam
<1> USE DEF At
<1>1. /\ q \in Request /\ LoginFits(q) /\ StepFits(q)
      /\ f \in Families /\ q.user = OwnerOf[f]
  BY SlotFacts DEF RowInv, RequestsFit, Fits, WellFormed, FamilyOps
<1>2. ASSUME Finish(r) \/ Respond(r), q.pc \in PreWrite
      PROVE  row[f].status = "unused"
  BY <1>1, <1>2 DEF LoginFits, PreWrite, PostWrite
<1>3. ASSUME NEW step, Goto(r, step)
      PROVE  req'[r].op = "login" /\ req'[r].fam = f
  BY <1>3, GotoSlot
<1>4. ASSUME BeginRevoke(r) PROVE req'[r].op = "login" /\ req'[r].fam = f
  BY <1>4, BeginRevokeSlot
<1>5. CASE ReadRow(r) \/ CheckAllowed(r) \/ RereadRow(r)
  BY <1>1, <1>5 DEF ReadRow, CheckAllowed, RereadRow, LoginFits, PreWrite,
     PostWrite
<1>6. CASE LoginAccount(r)
  BY <1>2, <1>3, <1>6 DEF LoginAccount, PreWrite
<1>7. CASE SweepExpired(r) \/ InsertRow(r) \/ SetLive(r) \/ CheckRevoked(r)
  BY <1>3, <1>7 DEF SweepExpired, InsertRow, SetLive, CheckRevoked
<1>8. CASE RefreshAccount(r) \/ RecoverAccount(r) \/ RotateRow(r)
  BY <1>8 DEF RefreshAccount, RecoverAccount, RotateRow
<1>9. CASE ReadVersion(r)
  <2>1. PICK v, step : Become(r, [q EXCEPT !.ver = v, !.pc = step])
    BY <1>9 DEF ReadVersion
  <2>2. req'[r] = [q EXCEPT !.ver = v, !.pc = step]
    BY <2>1, SlotUpdate
  <2> QED
    BY <1>1, <2>2 DEF Request
<1>10. CASE ReadClaims(r)
  <2>1. PICK v, step : Become(r, [q EXCEPT !.claims = v, !.pc = step])
    BY <1>10 DEF ReadClaims
  <2>2. req'[r] = [q EXCEPT !.claims = v, !.pc = step]
    BY <2>1, SlotUpdate
  <2> QED
    BY <1>1, <2>2 DEF Request
<1>11. CASE AssertBeforeWrite(r)
  BY <1>2, <1>3, <1>11 DEF AssertBeforeWrite, PreWrite
<1>12. CASE WithdrawLive(r)
  BY <1>12 DEF WithdrawLive, WithdrawnMarked
<1>13. CASE AssertAfterWrite(r)
  BY <1>3, <1>4, <1>13 DEF AssertAfterWrite
<1>14. CASE AssertAfterLastLogin(r)
  <2>1. CASE version[q.user] # q.ver
    BY <1>4, <1>14, <2>1 DEF AssertAfterLastLogin
  <2>2. CASE version[q.user] = q.ver
    <3>1. q.pc = "lastlogin"
      BY <1>14 DEF AssertAfterLastLogin
    <3> QED
      BY <1>1, <2>2, <3>1 DEF LoginFits, PreWrite
  <2> QED
    BY <2>1, <2>2
<1> QED
  BY <1>5, <1>6, <1>7, <1>8, <1>9, <1>10, <1>11, <1>12, <1>13, <1>14 DEF Issue

\* Only the insertion of a login brings a row to life.
LEMMA RowsLast ==
    ASSUME ReqOK, RestOK, NEW r \in Requests, Issue(r) \/ Revoke(r),
           NEW f \in Families, row'[f].status = "active"
    PROVE  \/ InsertRow(r) /\ req'[r].op = "login" /\ req'[r].fam = f
           \/ row[f].status = "active" /\ born'[f] = born[f]
<1> USE DEF dbVars, rowVars
<1>1. CASE InsertRow(r)
  <2> DEFINE q == req[r]
  <2>1. q.op = "login" /\ q.fam \in Families /\ Goto(r, "live")
    BY <1>1, SlotFacts DEF InsertRow, FamilyOps
  <2>2. req'[r].op = "login" /\ req'[r].fam = q.fam
    BY <2>1, GotoSlot
  <2>3. f # q.fam => row'[f] = row[f] /\ born'[f] = born[f]
    BY <1>1, <2>1 DEF InsertRow, RestOK
  <2> QED
    BY <1>1, <2>2, <2>3
<1>2. CASE SweepExpired(r)
  <2>1. [row[f] EXCEPT !.status = "deleted"].status = "deleted"
    BY DEF RestOK
  <2> QED
    BY <1>2, <2>1 DEF SweepExpired
<1>3. CASE RotateRow(r)
  <2>1. \/ row' = row
        \/ /\ row[req[r].fam].status = "active"
           /\ row' = [row EXCEPT ![req[r].fam] =
                        [@ EXCEPT !.token = req[r].tok + 1,
                                  !.prev = req[r].seen.token]]
    BY <1>3 DEF RotateRow, CanRotate
  <2>2. row[f].status = "active"
    BY <2>1 DEF RestOK
  <2> QED
    BY <1>3, <2>2 DEF RotateRow
<1>4. ASSUME NEW F, row' = Tombstoned(F) PROVE row[f].status = "active"
  BY <1>4, RowTombs
<1>5. CASE Tombstone(r) \/ RevokeAllRows(r) \/ Commit(r)
  BY <1>4, <1>5 DEF Tombstone, RevokeAllRows, Commit
<1>6. CASE Issue(r) /\ ~InsertRow(r) /\ ~SweepExpired(r) /\ ~RotateRow(r)
  BY <1>6 DEF Issue, ReadRow, CheckAllowed, LoginAccount, RefreshAccount,
     RecoverAccount, ReadVersion, ReadClaims, AssertBeforeWrite, RereadRow,
     SetLive, CheckRevoked, WithdrawLive, AssertAfterWrite,
     AssertAfterLastLogin
<1>7. CASE Revoke(r) /\ ~Tombstone(r) /\ ~RevokeAllRows(r) /\ ~Commit(r)
  BY <1>7 DEF Revoke, MarkRevoked, ClearLive, MarksDoneFamily, Bump,
     MarksDoneAll, Rollback
<1> QED
  BY <1>1, <1>2, <1>3, <1>5, <1>6, <1>7

LEMMA BarredIssue ==
    ASSUME ReqOK, RestOK, RowInv, Barred, NEW r \in Requests, Issue(r)
    PROVE  Barred'
<1>a. PICK n : n = req'[r]
  OBVIOUS
<1>1. Moved(r) /\ Others(r)
  BY IssueSlot DEF Moved
<1>2. UNCHANGED <<marked, version, barrier, count>>
  BY DEF Issue, dbVars, cacheVars, handVars, ReadRow, CheckAllowed,
     LoginAccount, SweepExpired, RefreshAccount, RecoverAccount, ReadVersion,
     ReadClaims, AssertBeforeWrite, InsertRow, RotateRow, RereadRow, SetLive,
     CheckRevoked, WithdrawLive, AssertAfterWrite, AssertAfterLastLogin
<1> SUFFICES ASSUME count.losses = 0
             PROVE  Barred'
  BY <1>2 DEF Barred
<1>3. WithdrawnMarked
  BY DEF Barred
<1>4. EarlyWasEarly
  <2> SUFFICES ASSUME NEW f \in Families, NEW v \in Nat,
                      v <= version[OwnerOf[f]], Early(f, v)'
               PROVE  Early(f, v)
    BY DEF EarlyWasEarly
  <2>1. ASSUME born[f] = version[OwnerOf[f]] PROVE ~(born[f] < v)
    BY <2>1 DEF RestOK
  <2>2. req[r].op = "login" /\ req[r].fam = f =>
           \/ req'[r].op = "login" /\ req'[r].fam = f
           \/ row[f].status = "unused"
           \/ f \in marked
           \/ ~(born[f] < v)
    BY <1>3, <2>1, LoginLeaves
  <2>3. row'[f].status = "active" =>
           \/ req'[r].op = "login" /\ req'[r].fam = f
           \/ row[f].status = "active" /\ born'[f] = born[f]
    BY RowsLast
  <2> QED
    BY <1>1, <1>2, <2>2, <2>3, EarlyBefore
<1>5. n.op # "invalidate"
  BY <1>a, <1>1 DEF Moved, FamilyOps
<1>6. n.pc = "withdraw" => n.fam \in marked
  <2>1. CASE CheckRevoked(r)
    BY <1>a, <2>1, GotoSlot DEF CheckRevoked
  <2>2. CASE ~CheckRevoked(r)
    <3>1. ASSUME NEW q, Become(r, q), q.pc # "withdraw"
          PROVE  n.pc # "withdraw"
      BY <1>a, <3>1, SlotUpdate
    <3>2. ASSUME NEW step, Goto(r, step), step # "withdraw"
          PROVE  n.pc # "withdraw"
      BY <1>a, <3>2, GotoSlot
    <3>3. ASSUME BeginRevoke(r) \/ Finish(r) PROVE n.pc # "withdraw"
      BY <1>a, <3>3, BeginRevokeSlot, FinishSlot
    <3>4. req[r] \in Request
      BY DEF ReqOK
    <3>5. CASE ReadRow(r) \/ ReadClaims(r)
      <4>1. [req[r] EXCEPT !.seen = Visible(req[r].fam),
                           !.pc = "allowed"].pc = "allowed"
        BY <3>4 DEF Request
      <4>2. [req[r] EXCEPT !.claims = account[req[r].user].claims,
                           !.pc = "assert"].pc = "assert"
        BY <3>4 DEF Request
      <4> QED
        BY <3>1, <3>5, <4>1, <4>2 DEF ReadRow, ReadClaims
    <3>6. CASE RefreshAccount(r) \/ RereadRow(r)
      <4>1. [req[r] EXCEPT !.op = "serve", !.pc = "version"].pc = "version"
        BY <3>4 DEF Request
      <4>2. [req[r] EXCEPT !.op = "serve", !.pc = "version",
                           !.seen = Visible(req[r].fam)].pc = "version"
        BY <3>4 DEF Request
      <4> QED
        BY <3>1, <3>2, <3>3, <3>6, <4>1, <4>2 DEF RefreshAccount, RereadRow
    <3>7. CASE RecoverAccount(r) \/ ReadVersion(r)
      <4>1. [req[r] EXCEPT !.claims = account[req[r].user].claims,
                           !.pc = "assert2"].pc = "assert2"
        BY <3>4 DEF Request
      <4>2. ASSUME NEW v, NEW step
            PROVE  [req[r] EXCEPT !.ver = v, !.pc = step].pc = step
        BY <3>4 DEF Request
      <4>3. \E step \in {"account", "claims"} : \E v :
               ReadVersion(r) =>
                   Become(r, [req[r] EXCEPT !.ver = v, !.pc = step])
        BY DEF ReadVersion
      <4> QED
        BY <3>1, <3>3, <3>7, <4>1, <4>2, <4>3 DEF RecoverAccount
    <3>8. CASE ~(ReadRow(r) \/ ReadClaims(r) \/ RefreshAccount(r)
                 \/ RereadRow(r) \/ RecoverAccount(r) \/ ReadVersion(r))
      BY <2>2, <3>2, <3>3, <3>8 DEF Issue, CheckAllowed, LoginAccount,
         SweepExpired, AssertBeforeWrite, InsertRow, RotateRow, SetLive,
         WithdrawLive, AssertAfterWrite, AssertAfterLastLogin, Respond
    <3> QED
      BY <3>5, <3>6, <3>7, <3>8
  <2> QED
    BY <2>1, <2>2
<1> QED
  BY <1>a, <1>1, <1>2, <1>4, <1>5, <1>6, BarredPlain
\* What a step of a revocation does to rows that could be early.
LEMMA EarlyRevoke ==
    ASSUME ReqOK, RestOK, NEW r \in Requests, Revoke(r), Others(r),
           marked \subseteq marked',
           req[r].op = "login" =>
               \/ req'[r].op = "login" /\ req'[r].fam = req[r].fam
               \/ row'[req[r].fam].status # "active"
    PROVE  EarlyWasEarly
<1> SUFFICES ASSUME NEW f \in Families, NEW v \in Nat, Early(f, v)'
             PROVE  Early(f, v)
  BY DEF EarlyWasEarly
<1>1. row'[f].status = "active" =>
         \/ req'[r].op = "login" /\ req'[r].fam = f
         \/ row[f].status = "active" /\ born'[f] = born[f]
  BY RowsLast
<1> QED
  BY <1>1, EarlyBefore

\* The marks of a revocation, one family at a time.
LEMMA BarredMarks ==
    ASSUME ReqOK, RestOK, Barred, NEW r \in Requests, NEW f \in Families,
           MarkRevoked(r, f) \/ ClearLive(r, f)
    PROVE  Barred'
<1> DEFINE q == req[r]
<1>a. PICK n : n = req'[r]
  OBVIOUS
<1>1. /\ Others(r) /\ n.op = q.op /\ n.fam = q.fam /\ n.pc = "marks"
      /\ q.pc = "marks" /\ n.user = q.user /\ n.ver = q.ver
  BY <1>a, MarkSlot
<1>2. /\ n.full = q.full
      /\ \/ n.todo = q.todo
         \/ n.todo = q.todo \ {f} /\ f \in marked'
  <2>1. q \in Request
    BY DEF ReqOK
  <2>2. CASE MarkRevoked(r, f)
    <3>1. n = [q EXCEPT !.todo = @ \ {f}, !.clear = @ \cup {f}]
      BY <1>a, <2>2, SlotUpdate DEF MarkRevoked
    <3>2. f \in marked'
      BY <2>2 DEF MarkRevoked
    <3> QED
      BY <2>1, <3>1, <3>2 DEF Request
  <2>3. CASE ClearLive(r, f)
    <3>1. n = [q EXCEPT !.clear = @ \ {f}]
      BY <1>a, <2>3, SlotUpdate DEF ClearLive
    <3> QED
      BY <2>1, <3>1 DEF Request
  <2> QED
    BY <2>2, <2>3
<1>3. /\ marked \subseteq marked'
      /\ UNCHANGED <<version, barrier, count>>
  BY DEF MarkRevoked, ClearLive, cacheVars
<1>4. EarlyWasEarly
  <2>1. Revoke(r)
    BY DEF Revoke
  <2> QED
    BY <1>a, <1>1, <1>3, <2>1, EarlyRevoke
<1>5. ASSUME count.losses = 0
      PROVE  /\ n.op = "invalidate" => n.ver <= version'[n.user]
             /\ DealtWith(n)'
  <2>1. VersionsReached /\ DealtWith(q)
    BY <1>5 DEF Barred, RevokersDone
  <2>2. n.op = "invalidate" => n.ver <= version[n.user]
    BY <1>1, <2>1 DEF VersionsReached
  <2>3. n.ver \in Nat
    BY <1>1 DEF ReqOK, Request
  <2> HIDE DEF q
  <2>4. DealtWith(n)'
    <3> SUFFICES ASSUME n.op = "invalidate", n.full,
                        NEW g \in FamiliesOf(n.user) \ n.todo,
                        Early(g, n.ver)'
                 PROVE  FALSE
      BY DEF DealtWith, FamiliesOf
    <3>1. g \in Families /\ OwnerOf[g] = n.user
      BY DEF FamiliesOf
    <3>2. Early(g, n.ver) /\ g \notin marked'
      BY <1>4, <2>2, <2>3, <3>1 DEF EarlyWasEarly, Early
    <3>3. g \in q.todo
      BY <1>1, <1>2, <2>1, <3>2 DEF DealtWith
    <3> QED
      BY <1>2, <3>2, <3>3
  <2> QED
    BY <1>3, <2>2, <2>4
<1>6. \A u \in Users : version[u] <= version'[u] /\ version'[u] \in Nat
  BY <1>3 DEF RestOK
<1> HIDE DEF q
<1> QED
  BY <1>a, <1>1, <1>3, <1>4, <1>5, <1>6, BarredKept

LEMMA BarredBump ==
    ASSUME ReqOK, RestOK, Barred, NEW r \in Requests, Bump(r)
    PROVE  Barred'
<1> DEFINE q == req[r]
           u == q.user
<1>a. PICK n : n = req'[r]
  OBVIOUS
<1>1. /\ Others(r) /\ n.op = "invalidate" /\ q.op = "invalidate"
      /\ n.user = u /\ n.pc \in {"revokeAll", "marks"}
  BY <1>a, BumpSlot
<1>2. q \in Request /\ u \in Users /\ version[u] \in Nat
  BY <1>1, SlotFacts DEF RestOK
<1>3. n.ver = version[u] + 1 /\ (n.pc = "marks" => ~n.full)
  <2> DEFINE step == IF q.full THEN "revokeAll" ELSE "marks"
             v == version[u] + 1
  <2>1. n = [q EXCEPT !.ver = v, !.pc = step]
    BY <1>a, SlotUpdate DEF Bump
  <2>2. n.ver = v /\ n.pc = step /\ n.full = q.full
    <3> HIDE DEF v, step
    <3> QED
      BY <1>2, <2>1 DEF Request
  <2> QED
    BY <2>2
<1>4. /\ version' = [version EXCEPT ![u] = @ + 1]
      /\ UNCHANGED <<marked, barrier, count>>
  BY DEF Bump
<1>5. \A w \in Users : version[w] <= version'[w] /\ version'[w] \in Nat
  <2> SUFFICES ASSUME NEW w \in Users
               PROVE  version[w] <= version'[w] /\ version'[w] \in Nat
    OBVIOUS
  <2>1. version[w] \in Nat /\ version'[w] \in {version[w], version[w] + 1}
    BY <1>2, <1>4 DEF RestOK
  <2> QED
    BY <2>1
<1>6. n.ver <= version'[n.user]
  <2>1. version'[u] = version[u] + 1
    BY <1>2, <1>4 DEF RestOK
  <2> QED
    BY <1>1, <1>2, <1>3, <2>1
<1>7. EarlyWasEarly
  <2>1. Revoke(r)
    BY DEF Revoke
  <2> QED
    BY <1>1, <1>4, <2>1, EarlyRevoke
<1>8. DealtWith(n)'
  BY <1>3 DEF DealtWith
<1> HIDE DEF q, u
<1> QED
  BY <1>a, <1>1, <1>4, <1>5, <1>6, <1>7, <1>8, BarredKept

\* revokeAllForUser leaves no active row that is not to be marked.
LEMMA BarredRevokeAll ==
    ASSUME ReqOK, RestOK, Barred, NEW r \in Requests, RevokeAllRows(r)
    PROVE  Barred'
<1> DEFINE q == req[r]
           u == q.user
<1>a. PICK n : n = req'[r]
  OBVIOUS
<1>1. /\ Others(r) /\ n.op = "invalidate" /\ q.op = "invalidate"
      /\ n.user = u /\ n.pc = "marks"
      /\ n.todo = {f \in FamiliesOf(u) : row[f].status = "active"}
  BY <1>a, RevokeAllSlot
<1>2. n.ver = q.ver
  <2> DEFINE F == {f \in FamiliesOf(u) : row[f].status = "active"}
  <2>1. n = [q EXCEPT !.todo = F, !.pc = "marks"] /\ q \in Request
    BY <1>a, SlotUpdate DEF RevokeAllRows, ReqOK
  <2> HIDE DEF F
  <2> QED
    BY <2>1 DEF Request
<1>3. UNCHANGED <<marked, version, barrier, count>>
  BY DEF RevokeAllRows, cacheVars
<1>4. Revoke(r)
  BY DEF Revoke
<1>5. EarlyWasEarly
  BY <1>1, <1>3, <1>4, EarlyRevoke
<1>6. DealtWith(n)'
  <2> SUFFICES ASSUME NEW f \in FamiliesOf(u) \ n.todo
               PROVE  row'[f].status # "active"
    BY <1>1 DEF DealtWith, Early, FamiliesOf
  <2>1. f \in Families /\ row[f].status # "active"
    BY <1>1 DEF FamiliesOf
  <2> QED
    BY <1>4, <2>1, RowsLast, SlotFacts DEF RevokeAllRows, At, InsertRow
<1>7. ASSUME count.losses = 0 PROVE n.ver <= version'[n.user]
  BY <1>1, <1>2, <1>3, <1>7 DEF Barred, VersionsReached
<1>8. \A w \in Users : version[w] <= version'[w] /\ version'[w] \in Nat
  BY <1>3 DEF RestOK
<1> HIDE DEF q, u
<1> QED
  BY <1>a, <1>1, <1>3, <1>5, <1>6, <1>7, <1>8, BarredKept

\* A full invalidation that has ended raises the barrier to its version.
LEMMA BarredMarksDone ==
    ASSUME ReqOK, RestOK, Barred, NEW r \in Requests, MarksDoneAll(r)
    PROVE  Barred'
<1> DEFINE q == req[r]
           u == q.user
<1>a. PICK n : n = req'[r]
  OBVIOUS
<1>1. /\ q \in Request /\ q.op = "invalidate" /\ q.pc = "marks"
      /\ q.todo = {} /\ u \in Users /\ q.ver \in Nat
      /\ UNCHANGED <<row, born, marked, version, count>>
  BY SlotFacts DEF MarksDoneAll, Marked, At, ReqOK, Request, dbVars, rowVars,
     cacheVars
<1>2. CASE q.tx
  <2>1. Goto(r, "commit") /\ barrier' = barrier
    BY <1>2 DEF MarksDoneAll
  <2>2. /\ Others(r) /\ n.op = "invalidate" /\ n.user = u /\ n.ver = q.ver
        /\ n.pc = "commit"
    BY <1>a, <1>1, <2>1, GotoSlot
  <2>3. EarlyWasEarly
    <3>1. Revoke(r)
      BY DEF Revoke
    <3> QED
      BY <1>1, <2>2, <3>1, EarlyRevoke
  <2> HIDE DEF q, u
  <2> QED
    BY <1>a, <1>1, <2>1, <2>2, <2>3, BarredPlain DEF q, u
<1>3. CASE ~q.tx
  <2>1. /\ Finish(r)
        /\ barrier' = IF q.full /\ q.ver > barrier[u]
                      THEN [barrier EXCEPT ![u] = q.ver] ELSE barrier
    BY <1>3 DEF MarksDoneAll
  <2>2. Others(r) /\ n.op = "none" /\ n.pc = "idle"
    BY <1>a, <2>1, FinishSlot
  <2>3. EarlyWasEarly
    <3>1. Revoke(r)
      BY DEF Revoke
    <3> QED
      BY <1>1, <2>2, <3>1, EarlyRevoke
  <2>4. CASE barrier' = barrier
    BY <1>a, <1>1, <2>2, <2>3, <2>4, BarredPlain
  <2>5. CASE barrier' # barrier
    <3> SUFFICES ASSUME count.losses = 0
                 PROVE  (VersionsReached /\ WithdrawnMarked /\ NoneEarly
                         /\ RevokersDone)'
      BY <1>1 DEF Barred
    <3>1. VersionsReached /\ WithdrawnMarked /\ NoneEarly /\ RevokersDone
      BY DEF Barred
    <3>2. q.full /\ barrier' = [barrier EXCEPT ![u] = q.ver]
      BY <2>1, <2>5
    <3>3. q.ver <= version[u] /\ DealtWith(q)
      BY <1>1, <3>1 DEF VersionsReached, RevokersDone
    <3>4. \A w \in Users : barrier'[w] = IF w = u THEN q.ver ELSE barrier[w]
      BY <1>1, <3>2 DEF RestOK
    <3> HIDE DEF q, u
    <3>5. VersionsReached'
      BY <1>a, <1>1, <2>2, <3>1, <3>3, <3>4 DEF VersionsReached, Others
    <3>6. WithdrawnMarked'
      BY <1>a, <1>1, <2>2, <3>1 DEF WithdrawnMarked, Others
    <3>7. NoneEarly'
      <4> SUFFICES ASSUME NEW f \in Families, Early(f, barrier[OwnerOf[f]])'
                   PROVE  FALSE
        BY DEF NoneEarly
      <4>1. OwnerOf[f] \in Users
        OBVIOUS
      <4>2. PICK v : v = barrier'[OwnerOf[f]]
        OBVIOUS
      <4>3. v \in Nat /\ v <= version[OwnerOf[f]]
        BY <1>1, <3>1, <3>3, <3>4, <4>1, <4>2 DEF VersionsReached, RestOK
      <4>4. Early(f, v)'
        BY <4>2 DEF Early
      <4>5. Early(f, v)
        BY <2>3, <4>3, <4>4 DEF EarlyWasEarly
      <4>6. CASE OwnerOf[f] = u
        BY <1>1, <3>2, <3>3, <3>4, <4>1, <4>2, <4>5, <4>6
           DEF DealtWith, FamiliesOf, u
      <4>7. CASE OwnerOf[f] # u
        BY <3>1, <3>4, <4>1, <4>2, <4>5, <4>7 DEF NoneEarly
      <4> QED
        BY <4>6, <4>7
    <3>8. RevokersDone'
      <4> SUFFICES ASSUME NEW s \in Requests PROVE DealtWith(req[s])'
        BY DEF RevokersDone
      <4>1. CASE s = r
        BY <1>a, <2>2, <4>1 DEF DealtWith
      <4>2. CASE s # r
        <5>1. PICK p : p = req[s] /\ p = req'[s]
          BY <2>2, <4>2 DEF Others
        <5>2. DealtWith(p) /\ p \in Request
              /\ (p.op = "invalidate" => p.ver <= version[p.user])
          BY <3>1, <5>1, SlotFacts DEF RevokersDone, VersionsReached
        <5>3. p.ver \in Nat
          BY <5>2 DEF Request
        <5>4. DealtWith(p)'
          BY <2>3, <5>2, <5>3 DEF DealtWith, EarlyWasEarly, FamiliesOf
        <5> QED
          BY <5>1, <5>4 DEF DealtWith
      <4> QED
        BY <4>1, <4>2
    <3> QED
      BY <3>5, <3>6, <3>7, <3>8
  <2> QED
    BY <2>4, <2>5
<1> QED
  BY <1>2, <1>3

LEMMA BarredRevoke ==
    ASSUME ReqOK, RestOK, Barred, NEW r \in Requests, Revoke(r)
    PROVE  Barred'
<1> USE DEF cacheVars, dbVars, rowVars, handVars
<1> DEFINE q == req[r]
<1>a. PICK n : n = req'[r]
  OBVIOUS
<1>1. CASE MarksDoneFamily(r)
  <2>1. /\ Goto(r, "tomb") /\ q.op # "invalidate"
        /\ UNCHANGED <<marked, version, barrier, count>>
    BY <1>1 DEF MarksDoneFamily
  <2>2. Others(r) /\ n.op = q.op /\ n.fam = q.fam /\ n.pc = "tomb"
    BY <1>a, <2>1, GotoSlot
  <2>3. EarlyWasEarly
    BY <1>a, <2>1, <2>2, EarlyRevoke
  <2> QED
    BY <1>a, <2>1, <2>2, <2>3, BarredPlain
<1>2. CASE Tombstone(r)
  <2>1. /\ Finish(r) /\ row' = Tombstoned({q.fam})
        /\ UNCHANGED <<marked, version, barrier, count>>
    BY <1>2 DEF Tombstone
  <2>2. Others(r) /\ n.op = "none" /\ n.pc = "idle"
    BY <1>a, <2>1, FinishSlot
  <2>3. q.fam \in Families => row'[q.fam].status # "active"
    <3>1. [row[q.fam] EXCEPT !.status = "revoked", !.prev = NoToken].status
            = "revoked" \/ q.fam \notin Families
      BY DEF RestOK
    <3> QED
      BY <2>1, <3>1 DEF Tombstoned
  <2>4. q.op = "login" => q.fam \in Families
    BY SlotFacts DEF FamilyOps
  <2>5. EarlyWasEarly
    BY <2>1, <2>2, <2>3, <2>4, EarlyRevoke
  <2> QED
    BY <1>a, <2>1, <2>2, <2>5, BarredPlain
<1>3. CASE Commit(r) \/ Rollback(r)
  <2>1. /\ CloseTx(r) /\ At(r, "commit")
        /\ UNCHANGED <<marked, version, barrier, count>>
    BY <1>3 DEF Commit, Rollback
  <2>2. /\ Others(r) /\ n.op = "invalidate" /\ n.pc = "incr"
        /\ q.op = "invalidate" /\ n.user = q.user
    BY <1>a, <2>1, CloseTxSlot
  <2>3. n.ver = q.ver /\ q.user \in Users
    <3>1. n = [q EXCEPT !.pc = "incr", !.tx = FALSE] /\ q \in Request
      BY <1>a, <2>1, SlotUpdate DEF CloseTx, ReqOK
    <3> QED
      BY <2>2, <3>1, SlotFacts DEF Request
  <2>4. EarlyWasEarly
    BY <2>1, <2>2, EarlyRevoke
  <2> QED
    BY <1>a, <2>1, <2>2, <2>3, <2>4, BarredPlain
<1> QED
  BY <1>1, <1>2, <1>3, BarredMarks, BarredBump, BarredRevokeAll,
     BarredMarksDone DEF Revoke

LEMMA BarredEnvironment ==
    ASSUME RestOK, Barred, Environment \/ Quiet \/ UNCHANGED vars
    PROVE  Barred'
<1>1. ASSUME NEW L, NEW M, NEW V, LoseKeys(L, M, V) PROVE Barred'
  <2>1. count'.losses = count.losses + 1 /\ count.losses \in Nat
    BY <1>1 DEF LoseKeys, RestOK
  <2>2. count'.losses # 0
    BY <2>1
  <2> QED
    BY <2>2 DEF Barred
<1>2. CASE LoseCache
  BY <1>1, <1>2 DEF LoseCache
<1>3. CASE ~LoseCache
  <2>1. /\ UNCHANGED <<req, row, born, marked, version, barrier>>
        /\ count'.losses = count.losses
    BY <1>3 DEF Environment, GraceElapses, Lapse, Die, Quiet, vars, dbVars,
       rowVars, cacheVars, RestOK
  <2> QED
    BY <2>1 DEF Barred, VersionsReached, WithdrawnMarked, NoneEarly,
       RevokersDone, DealtWith, Early, FamiliesOf
<1> QED
  BY <1>2, <1>3

LEMMA BarredStep ==
    TypeOK /\ RowInv /\ Barred /\ [Next]_vars => Barred'
BY TypeSplit, BarredStart, BarredIssue, BarredRevoke, BarredEnvironment
   DEF Next, Progress

\* While the cache keeps its keys, a finished full invalidation (password,
\* role, status) leaves no row a refresh would accept that was born before it,
\* not even one inserted after revokeAllForUser had run: the login that
\* inserted it finds the newer version in its last assertSessionVersion.
THEOREM NoEarlierSession == Spec => []NoSessionFromBeforeInvalidation
<1>1. Init => Barred
  BY DEF Init, Barred, VersionsReached, WithdrawnMarked, NoneEarly,
     RevokersDone, DealtWith, Early, Idle
<1>2. Barred => NoSessionFromBeforeInvalidation
  BY DEF Barred, NoneEarly, Early, NoSessionFromBeforeInvalidation
<1>3. QED
  BY <1>1, <1>2, BarredStep, RowInit, RowStep, TypeCorrect, PTL DEF Spec
=============================================================================
