----------------------- MODULE SessionFamilies_proofs -----------------------
(***************************************************************************)
(* Proofs about SessionFamilies, for every number of users, families and   *)
(* concurrent requests and for every value of the bounds.                  *)
(***************************************************************************)
EXTENDS SessionFamilies, TLAPS

USE OwnerAssumption, NoFamilyAssumption, NoUserAssumption
    DEF NoToken, NoRow

\* The type invariant in two halves: the request slots, and the rest.
ReqOK ==
    /\ req \in [Requests -> Request]
    /\ \A r \in Requests : WellFormed(req[r])
RestOK ==
    /\ account \in [Users -> [claims: Nat, active: BOOLEAN]]
    /\ row \in [Families -> [status: Status, token: Nat, prev: Nat]]
    /\ closed \in [Families -> Nat]
    /\ lapsed \subseteq Families
    /\ live \subseteq Families
    /\ marked \subseteq Families
    /\ version \in [Users -> Nat]
    /\ intx \subseteq Users
    /\ locked \subseteq Families
    /\ dead \subseteq Requests
    /\ creds \subseteq Credential
    /\ held \in [Families -> SUBSET Nat]
    /\ born \in [Families -> Nat]
    /\ barrier \in [Users -> Nat]
    /\ count \in [changes: Nat, losses: Nat, lapses: Nat]

LEMMA TypeSplit == TypeOK <=> ReqOK /\ RestOK
BY DEF TypeOK, ReqOK, RestOK

\* A free slot is a well-formed request.
LEMMA IdleType == Idle \in Request /\ WellFormed(Idle)
BY DEF Idle, Request, Ops, Steps, Seen, WellFormed, FamilyOps

\* getByFamily returns two token numbers.
LEMMA VisibleType ==
    ASSUME TypeOK, NEW f \in Families
    PROVE  Visible(f) \in Seen
BY DEF TypeOK, Visible, Seen

\* Putting a well-formed request into one slot keeps all slots well formed.
LEMMA SlotType ==
    ASSUME ReqOK, NEW r \in Requests, NEW q \in Request, WellFormed(q),
           Become(r, q)
    PROVE  ReqOK'
BY DEF ReqOK, Become

\* What is known of the request in a slot that is at a step.
LEMMA SlotFacts ==
    ASSUME ReqOK, NEW r \in Requests
    PROVE  /\ req[r] \in Request
           /\ WellFormed(req[r])
           /\ req[r].op # "none" => req[r].user \in Users
           /\ req[r].op \in FamilyOps => req[r].fam \in Families
           /\ req[r].pc \in {"incr", "revokeAll", "commit"} =>
                req[r].op = "invalidate"
           /\ req[r].pc \notin UserSteps \cup {"idle"} =>
                req[r].op \in FamilyOps
           /\ req[r].pc # "marks" => req[r].todo = {} /\ req[r].clear = {}
BY DEF ReqOK, WellFormed, Request, Ops, FamilyOps, UserSteps

LEMMA TypeInit == Init => TypeOK
BY IdleType DEF Init, TypeOK, Status, Credential, Request, Seen

\* The fields of a free slot that a new request keeps.
LEMMA IdleFields ==
    /\ Idle.op = "none" /\ Idle.pc = "idle" /\ Idle.fam = NoFamily
    /\ Idle.todo = {} /\ Idle.clear = {} /\ Idle.tx = FALSE
BY DEF Idle

\* Requests that begin.
LEMMA StartType ==
    ASSUME ReqOK, RestOK, NEW r \in Requests, Start(r)
    PROVE  ReqOK'
<1> USE IdleType, IdleFields
<1>1. ASSUME NEW f \in Families, StartLogin(r, f)
      PROVE  ReqOK'
  <2> DEFINE n == [Idle EXCEPT !.op = "login", !.pc = "version",
                               !.user = OwnerOf[f], !.fam = f]
  <2>1. n \in Request
    BY <1>1 DEF Request, Ops, Steps
  <2>2. n.op = "login" /\ n.pc = "version" /\ n.user = OwnerOf[f] /\ n.fam = f /\ n.tx = FALSE
        /\ (n.pc # "marks" => n.todo = {} /\ n.clear = {})
    BY DEF Request
  <2>3. WellFormed(n)
    BY <1>1, <2>2 DEF WellFormed, FamilyOps, UserSteps
  <2>4. Become(r, n)
    BY <1>1 DEF StartLogin, Begin
  <2> HIDE DEF n
  <2> QED
    BY <2>1, <2>3, <2>4, SlotType
<1>2. ASSUME NEW f \in Families, NEW op \in {"refresh", "recover"},
             NEW tok \in held[f], StartRefresh(r, op, f, tok)
      PROVE  ReqOK'
  <2> DEFINE n == [Idle EXCEPT !.op = op, !.pc = "read", !.user = OwnerOf[f],
                               !.fam = f, !.tok = tok]
  <2>a. tok \in Nat
    BY <1>2 DEF RestOK
  <2>1. n \in Request
    BY <1>2, <2>a DEF Request, Ops, Steps
  <2>2. n.op = op /\ n.pc = "read" /\ n.user = OwnerOf[f] /\ n.fam = f /\ n.tx = FALSE
        /\ (n.pc # "marks" => n.todo = {} /\ n.clear = {})
    BY DEF Request
  <2>3. WellFormed(n)
    BY <1>2, <2>2 DEF WellFormed, FamilyOps, UserSteps
  <2>4. Become(r, n)
    BY <1>2 DEF StartRefresh, Begin
  <2> HIDE DEF n
  <2> QED
    BY <2>1, <2>3, <2>4, SlotType
<1>3. ASSUME NEW f \in Families, StartLogout(r, f)
      PROVE  ReqOK'
  <2> DEFINE n == [Idle EXCEPT !.op = "logout", !.pc = "marks",
                               !.user = OwnerOf[f], !.fam = f, !.todo = {f}]
  <2>1. n \in Request
    BY <1>3, ZenonT(60) DEF Request, Ops, Steps
  <2>2. n.op = "logout" /\ n.pc = "marks" /\ n.user = OwnerOf[f] /\ n.fam = f /\ n.tx = FALSE
        /\ (n.pc # "marks" => n.todo = {} /\ n.clear = {})
    BY DEF Request
  <2>3. WellFormed(n)
    BY <1>3, <2>2 DEF WellFormed, FamilyOps, UserSteps
  <2>4. Become(r, n)
    BY <1>3 DEF StartLogout, Begin
  <2> HIDE DEF n
  <2> QED
    BY <2>1, <2>3, <2>4, SlotType
<1>4. ASSUME NEW u \in Users, StartLogoutAll(r, u)
      PROVE  ReqOK'
  <2> DEFINE n == [Idle EXCEPT !.op = "invalidate", !.pc = "incr",
                               !.user = u, !.full = TRUE]
  <2>1. n \in Request
    BY <1>4 DEF Request, Ops, Steps
  <2>2. n.op = "invalidate" /\ n.pc = "incr" /\ n.user = u /\ n.fam = NoFamily
        /\ n.todo = {} /\ n.clear = {}
    BY DEF Request
  <2>3. WellFormed(n)
    BY <1>4, <2>2 DEF WellFormed, FamilyOps, UserSteps
  <2>4. Become(r, n)
    BY <1>4 DEF StartLogoutAll, Begin
  <2> HIDE DEF n
  <2> QED
    BY <2>1, <2>3, <2>4, SlotType
<1>5. ASSUME NEW u \in Users, NEW full \in BOOLEAN, NEW off \in BOOLEAN, StartChange(r, u, full, off)
      PROVE  ReqOK'
  <2> DEFINE n == [Idle EXCEPT !.op = "invalidate", !.pc = "incr",
                               !.user = u, !.full = full]
  <2>1. n \in Request
    BY <1>5 DEF Request, Ops, Steps
  <2>2. n.op = "invalidate" /\ n.pc = "incr" /\ n.user = u /\ n.fam = NoFamily
        /\ n.todo = {} /\ n.clear = {}
    BY DEF Request
  <2>3. WellFormed(n)
    BY <1>5, <2>2 DEF WellFormed, FamilyOps, UserSteps
  <2>4. Become(r, n)
    BY <1>5 DEF StartChange, Begin
  <2> HIDE DEF n
  <2> QED
    BY <2>1, <2>3, <2>4, SlotType
<1>6. ASSUME NEW u \in Users, NEW full \in BOOLEAN, NEW off \in BOOLEAN, StartChangeInTx(r, u, full, off)
      PROVE  ReqOK'
  <2> DEFINE n == [Idle EXCEPT !.op = "invalidate", !.pc = "incr", !.user = u,
                               !.full = full, !.tx = TRUE, !.off = off]
  <2>1. n \in Request
    BY <1>6, ZenonT(60) DEF Request, Ops, Steps
  <2>2. n.op = "invalidate" /\ n.pc = "incr" /\ n.user = u /\ n.fam = NoFamily
        /\ n.todo = {} /\ n.clear = {}
    BY DEF Request
  <2>3. WellFormed(n)
    BY <1>6, <2>2 DEF WellFormed, FamilyOps, UserSteps
  <2>4. Become(r, n)
    BY <1>6 DEF StartChangeInTx, Begin
  <2> HIDE DEF n
  <2> QED
    BY <2>1, <2>3, <2>4, SlotType
<1> QED
  BY <1>1, <1>2, <1>3, <1>4, <1>5, <1>6 DEF Start

\* A request on a family moves on: same family, same user.
LEMMA FamilySlot ==
    ASSUME ReqOK, NEW r \in Requests, req[r].op \in FamilyOps,
           NEW q \in Request, q.op \in FamilyOps, q.fam = req[r].fam,
           q.user = req[r].user, q.tx = req[r].tx,
           q.pc \notin (UserSteps \ {"marks"}) \cup {"idle"},
           q.pc # "marks" => q.todo = {} /\ q.clear = {},
           Become(r, q)
    PROVE  ReqOK'
<1>1. WellFormed(q)
  BY DEF ReqOK, WellFormed, FamilyOps
<1> QED
  BY <1>1, SlotType

\* An invalidation moves on: same user.
LEMMA UserSlot ==
    ASSUME ReqOK, NEW r \in Requests, req[r].op = "invalidate",
           NEW q \in Request, q.op = "invalidate", q.fam = req[r].fam,
           q.user = req[r].user, q.pc \in UserSteps,
           q.pc # "marks" => q.todo = {} /\ q.clear = {},
           Become(r, q)
    PROVE  ReqOK'
<1>1. WellFormed(q)
  BY DEF ReqOK, WellFormed, FamilyOps, UserSteps
<1> QED
  BY <1>1, SlotType

LEMMA GotoType ==
    ASSUME ReqOK, NEW r \in Requests, NEW step \in Steps \ {"idle"},
           \/ req[r].op \in FamilyOps /\ step \notin UserSteps \ {"marks"}
           \/ req[r].op = "invalidate" /\ step \in UserSteps,
           step # "marks" => req[r].todo = {} /\ req[r].clear = {},
           Goto(r, step)
    PROVE  ReqOK'
<1> DEFINE q == [req[r] EXCEPT !.pc = step]
<1>1. req[r] \in Request
  BY DEF ReqOK
<1>2. q \in Request /\ q.op = req[r].op /\ q.fam = req[r].fam
      /\ q.user = req[r].user /\ q.tx = req[r].tx /\ q.pc = step
      /\ q.todo = req[r].todo /\ q.clear = req[r].clear
  BY <1>1 DEF Request
<1>3. Become(r, q)
  BY DEF Goto
<1> HIDE DEF q
<1> QED
  BY <1>2, <1>3, FamilySlot, UserSlot

LEMMA FinishType ==
    ASSUME ReqOK, NEW r \in Requests, Finish(r)
    PROVE  ReqOK'
BY IdleType, SlotType DEF Finish

LEMMA BeginRevokeType ==
    ASSUME ReqOK, NEW r \in Requests, req[r].op \in FamilyOps, BeginRevoke(r)
    PROVE  ReqOK'
<1> DEFINE q == [req[r] EXCEPT !.pc = "marks", !.todo = {req[r].fam}]
<1>1. req[r] \in Request /\ req[r].fam \in Families
  BY SlotFacts
<1>2. q \in Request /\ q.op = req[r].op /\ q.fam = req[r].fam
      /\ q.user = req[r].user /\ q.tx = req[r].tx /\ q.pc = "marks"
  BY <1>1 DEF Request, Steps
<1>3. Become(r, q)
  BY DEF BeginRevoke
<1> HIDE DEF q
<1> QED
  BY <1>2, <1>3, FamilySlot DEF UserSteps

\* Steps of a request that issues or renews a session.
LEMMA IssueType ==
    ASSUME ReqOK, RestOK, NEW r \in Requests, Issue(r)
    PROVE  ReqOK'
<1> DEFINE q == req[r]
<1> USE SlotFacts, FinishType, BeginRevokeType DEF At
<1>0. q \in Request
  BY DEF ReqOK
<1>1. ASSUME CheckAllowed(r) PROVE ReqOK'
  BY <1>1, GotoType DEF CheckAllowed, FamilyOps, UserSteps, Steps, Respond
<1>2. ASSUME LoginAccount(r) PROVE ReqOK'
  BY <1>2, GotoType DEF LoginAccount, FamilyOps, UserSteps, Steps, Respond
<1>3. ASSUME SweepExpired(r) PROVE ReqOK'
  BY <1>3, GotoType DEF SweepExpired, FamilyOps, UserSteps, Steps, Respond
<1>4. ASSUME AssertBeforeWrite(r) PROVE ReqOK'
  BY <1>4, GotoType DEF AssertBeforeWrite, FamilyOps, UserSteps, Steps, Respond
<1>5. ASSUME InsertRow(r) PROVE ReqOK'
  BY <1>5, GotoType DEF InsertRow, FamilyOps, UserSteps, Steps, Respond
<1>6. ASSUME RotateRow(r) PROVE ReqOK'
  BY <1>6, GotoType DEF RotateRow, FamilyOps, UserSteps, Steps, Respond
<1>7. ASSUME SetLive(r) PROVE ReqOK'
  BY <1>7, GotoType DEF SetLive, FamilyOps, UserSteps, Steps, Respond
<1>8. ASSUME CheckRevoked(r) PROVE ReqOK'
  BY <1>8, GotoType DEF CheckRevoked, FamilyOps, UserSteps, Steps, Respond
<1>9. ASSUME WithdrawLive(r) PROVE ReqOK'
  BY <1>9, GotoType DEF WithdrawLive, FamilyOps, UserSteps, Steps, Respond
<1>10. ASSUME AssertAfterWrite(r) PROVE ReqOK'
  BY <1>10, GotoType DEF AssertAfterWrite, FamilyOps, UserSteps, Steps, Respond
<1>11. ASSUME AssertAfterLastLogin(r) PROVE ReqOK'
  BY <1>11, GotoType DEF AssertAfterLastLogin, FamilyOps, UserSteps, Steps, Respond
<1>12. ASSUME ReadRow(r) PROVE ReqOK'
  <2> DEFINE n == [q EXCEPT !.seen = Visible(q.fam), !.pc = "allowed"]
  <2>1. q.op \in FamilyOps /\ q.fam \in Families /\ q.user \in Users
        /\ q.todo = {} /\ q.clear = {}
    BY <1>12, <1>0 DEF ReadRow, FamilyOps, UserSteps
  <2>2. Visible(q.fam) \in Seen
    BY <2>1 DEF RestOK, Visible, Seen
  <2>3. n \in Request /\ n.op = q.op /\ n.fam = q.fam /\ n.user = q.user
        /\ n.tx = q.tx /\ n.pc = "allowed"
        /\ n.todo = {} /\ n.clear = {}
    BY <1>0, <2>1, <2>2 DEF Request, Steps, Ops
  <2>4. Become(r, n)
    BY <1>12 DEF ReadRow
  <2> HIDE DEF n
  <2> QED
    BY <2>1, <2>3, <2>4, FamilySlot DEF FamilyOps, UserSteps
<1>13. ASSUME RefreshAccount(r) PROVE ReqOK'
  <2> DEFINE n == [q EXCEPT !.op = "serve", !.pc = "version"]
  <2>1. q.op \in FamilyOps /\ q.fam \in Families /\ q.user \in Users
        /\ q.todo = {} /\ q.clear = {}
    BY <1>13, <1>0 DEF RefreshAccount, FamilyOps, UserSteps
  <2>3. n \in Request /\ n.op = "serve" /\ n.fam = q.fam /\ n.user = q.user
        /\ n.tx = q.tx /\ n.pc = "version"
        /\ n.todo = {} /\ n.clear = {}
    BY <1>0, <2>1 DEF Request, Steps, Ops
  <2>4. CASE Become(r, n)
    BY <2>1, <2>3, <2>4, FamilySlot DEF FamilyOps, UserSteps
  <2> HIDE DEF n
  <2> QED
    BY <1>13, <2>1, <2>4, GotoType DEF RefreshAccount, n, FamilyOps, UserSteps, Steps
<1>14. ASSUME RecoverAccount(r) PROVE ReqOK'
  <2> DEFINE n == [q EXCEPT !.claims = account[q.user].claims,
                             !.pc = "assert2"]
  <2>1. q.op \in FamilyOps /\ q.fam \in Families /\ q.user \in Users
        /\ q.todo = {} /\ q.clear = {}
    BY <1>14, <1>0 DEF RecoverAccount, FamilyOps, UserSteps
  <2>2. account[q.user].claims \in Nat
    BY <2>1 DEF RestOK, Visible, Seen
  <2>3. n \in Request /\ n.op = q.op /\ n.fam = q.fam /\ n.user = q.user
        /\ n.tx = q.tx /\ n.pc = "assert2"
        /\ n.todo = {} /\ n.clear = {}
    BY <1>0, <2>1, <2>2 DEF Request, Steps, Ops
  <2>4. CASE Become(r, n)
    BY <2>1, <2>3, <2>4, FamilySlot DEF FamilyOps, UserSteps
  <2> HIDE DEF n
  <2> QED
    BY <1>14, <2>1, <2>4, GotoType DEF RecoverAccount, n, FamilyOps, UserSteps, Steps
<1>15. ASSUME ReadVersion(r) PROVE ReqOK'
  <2> DEFINE n == [q EXCEPT !.ver = version[q.user],
                    !.pc = IF q.op \in {"login", "recover"}
                           THEN "account" ELSE "claims"]
  <2>1. q.op \in FamilyOps /\ q.fam \in Families /\ q.user \in Users
        /\ q.todo = {} /\ q.clear = {}
    BY <1>15, <1>0 DEF ReadVersion, FamilyOps, UserSteps
  <2>2. version[q.user] \in Nat
    BY <2>1 DEF RestOK, Visible, Seen
  <2>3. n \in Request /\ n.op = q.op /\ n.fam = q.fam /\ n.user = q.user
        /\ n.tx = q.tx /\ n.pc \in {"account", "claims"}
        /\ n.todo = {} /\ n.clear = {}
    BY <1>0, <2>1, <2>2, ZenonT(60) DEF Request, Steps, Ops
  <2>4. Become(r, n)
    BY <1>15 DEF ReadVersion
  <2> HIDE DEF n
  <2> QED
    BY <2>1, <2>3, <2>4, FamilySlot DEF FamilyOps, UserSteps
<1>16. ASSUME ReadClaims(r) PROVE ReqOK'
  <2> DEFINE n == [q EXCEPT !.claims = account[q.user].claims,
                             !.pc = "assert"]
  <2>1. q.op \in FamilyOps /\ q.fam \in Families /\ q.user \in Users
        /\ q.todo = {} /\ q.clear = {}
    BY <1>16, <1>0 DEF ReadClaims, FamilyOps, UserSteps
  <2>2. account[q.user].claims \in Nat
    BY <2>1 DEF RestOK, Visible, Seen
  <2>3. n \in Request /\ n.op = q.op /\ n.fam = q.fam /\ n.user = q.user
        /\ n.tx = q.tx /\ n.pc = "assert"
        /\ n.todo = {} /\ n.clear = {}
    BY <1>0, <2>1, <2>2 DEF Request, Steps, Ops
  <2>4. Become(r, n)
    BY <1>16 DEF ReadClaims
  <2> HIDE DEF n
  <2> QED
    BY <2>1, <2>3, <2>4, FamilySlot DEF FamilyOps, UserSteps
<1>17. ASSUME RereadRow(r) PROVE ReqOK'
  <2> DEFINE n == [q EXCEPT !.op = "serve", !.pc = "version",
                             !.seen = Visible(q.fam)]
  <2>1. q.op \in FamilyOps /\ q.fam \in Families /\ q.user \in Users
        /\ q.todo = {} /\ q.clear = {}
    BY <1>17, <1>0 DEF RereadRow, FamilyOps, UserSteps
  <2>2. Visible(q.fam) \in Seen
    BY <2>1 DEF RestOK, Visible, Seen
  <2>3. n \in Request /\ n.op = "serve" /\ n.fam = q.fam /\ n.user = q.user
        /\ n.tx = q.tx /\ n.pc = "version"
        /\ n.todo = {} /\ n.clear = {}
    BY <1>0, <2>1, <2>2 DEF Request, Steps, Ops
  <2>4. CASE Become(r, n)
    BY <2>1, <2>3, <2>4, FamilySlot DEF FamilyOps, UserSteps
  <2> HIDE DEF n
  <2> QED
    BY <1>17, <2>1, <2>4, GotoType DEF RereadRow, n, FamilyOps, UserSteps, Steps
<1> QED
  BY <1>1, <1>2, <1>3, <1>4, <1>5, <1>6, <1>7, <1>8, <1>9, <1>10, <1>11, <1>12, <1>13, <1>14, <1>15, <1>16, <1>17 DEF Issue

\* Steps of a revocation.
LEMMA RevokeType ==
    ASSUME ReqOK, RestOK, NEW r \in Requests, Revoke(r)
    PROVE  ReqOK'
<1> DEFINE q == req[r]
<1> USE SlotFacts, FinishType DEF At
<1>0. q \in Request
  BY DEF ReqOK
<1>1. ASSUME NEW f \in Families, MarkRevoked(r, f) PROVE ReqOK'
  <2> DEFINE n == [q EXCEPT !.todo = @ \ {f}, !.clear = @ \cup {f}]
  <2>1. n \in Request /\ n.op = q.op /\ n.fam = q.fam /\ n.user = q.user
        /\ n.tx = q.tx /\ n.pc = "marks"
    BY <1>0, <1>1 DEF MarkRevoked, Request
  <2>2. Become(r, n)
    BY <1>1 DEF MarkRevoked
  <2>3. q.op \in FamilyOps \/ q.op = "invalidate"
    BY <1>0, <1>1 DEF MarkRevoked, ReqOK, WellFormed, Request, Ops, FamilyOps
  <2> HIDE DEF n
  <2> QED
    BY <2>1, <2>2, <2>3, FamilySlot, UserSlot DEF UserSteps
<1>2. ASSUME NEW f \in Families, ClearLive(r, f) PROVE ReqOK'
  <2> DEFINE n == [q EXCEPT !.clear = @ \ {f}]
  <2>1. n \in Request /\ n.op = q.op /\ n.fam = q.fam /\ n.user = q.user
        /\ n.tx = q.tx /\ n.pc = "marks"
    BY <1>0, <1>2 DEF ClearLive, Request
  <2>2. Become(r, n)
    BY <1>2 DEF ClearLive
  <2>3. q.op \in FamilyOps \/ q.op = "invalidate"
    BY <1>0, <1>2 DEF ClearLive, ReqOK, WellFormed, Request, Ops, FamilyOps
  <2> HIDE DEF n
  <2> QED
    BY <2>1, <2>2, <2>3, FamilySlot, UserSlot DEF UserSteps
<1>3. ASSUME MarksDoneFamily(r) PROVE ReqOK'
  <2>1. q.op \in FamilyOps
    BY <1>0, <1>3 DEF MarksDoneFamily, Marked, ReqOK, WellFormed, Request,
                      Ops, FamilyOps
  <2> QED
    BY <1>3, <2>1, GotoType DEF MarksDoneFamily, Marked, Steps, UserSteps
<1>4. ASSUME Tombstone(r) PROVE ReqOK'
  BY <1>4 DEF Tombstone
<1>5. ASSUME Bump(r) PROVE ReqOK'
  <2> DEFINE n == [q EXCEPT !.ver = version[q.user] + 1,
                            !.pc = IF q.full THEN "revokeAll" ELSE "marks"]
  <2>1. q.op = "invalidate" /\ version[q.user] \in Nat
        /\ q.todo = {} /\ q.clear = {}
    BY <1>0, <1>5 DEF Bump, RestOK
  <2> DEFINE next == IF q.full THEN "revokeAll" ELSE "marks"
  <2>a. next \in {"revokeAll", "marks"}
    OBVIOUS
  <2> HIDE DEF next
  <2>b. version[q.user] + 1 \in Nat
    BY <2>1
  <2>c. n = [q EXCEPT !.ver = version[q.user] + 1, !.pc = next]
    BY DEF next
  <2>2. n \in Request /\ n.op = q.op /\ n.fam = q.fam /\ n.user = q.user
        /\ n.pc \in {"revokeAll", "marks"} /\ n.todo = {} /\ n.clear = {}
    BY <1>0, <2>1, <2>a, <2>b, <2>c, ZenonT(60) DEF Request, Steps
  <2>3. Become(r, n)
    BY <1>5 DEF Bump
  <2> HIDE DEF n
  <2> QED
    BY <2>1, <2>2, <2>3, UserSlot DEF UserSteps
<1>6. ASSUME RevokeAllRows(r) PROVE ReqOK'
  <2> DEFINE F == {f \in FamiliesOf(q.user) : row[f].status = "active"}
             n == [q EXCEPT !.todo = F, !.pc = "marks"]
  <2>1. q.op = "invalidate" /\ F \subseteq Families
    BY <1>0, <1>6 DEF RevokeAllRows, FamiliesOf
  <2>2. Become(r, n)
    BY <1>6 DEF RevokeAllRows
  <2> HIDE DEF F
  <2>3. n \in Request /\ n.op = q.op /\ n.fam = q.fam /\ n.user = q.user
        /\ n.pc = "marks"
    BY <1>0, <2>1 DEF Request, Steps
  <2> HIDE DEF n
  <2> QED
    BY <2>1, <2>2, <2>3, UserSlot DEF UserSteps
<1>7. ASSUME MarksDoneAll(r) PROVE ReqOK'
  BY <1>7, GotoType DEF MarksDoneAll, Marked, Steps, UserSteps
<1>8. ASSUME CloseTx(r), At(r, "commit") PROVE ReqOK'
  <2> DEFINE n == [q EXCEPT !.pc = "incr", !.tx = FALSE]
  <2>1. n \in Request /\ n.op = q.op /\ n.fam = q.fam /\ n.user = q.user
        /\ n.pc = "incr" /\ q.op = "invalidate"
        /\ n.todo = {} /\ n.clear = {}
    BY <1>0, <1>8 DEF Request, Steps
  <2>2. Become(r, n)
    BY <1>8 DEF CloseTx
  <2> HIDE DEF n
  <2> QED
    BY <2>1, <2>2, UserSlot DEF UserSteps
<1> QED
  BY <1>1, <1>2, <1>3, <1>4, <1>5, <1>6, <1>7, <1>8
  DEF Revoke, Commit, Rollback

\* Everything that is not a slot keeps its type when a request begins.
LEMMA StartRest ==
    ASSUME RestOK, NEW r \in Requests, Start(r)
    PROVE  RestOK'
<1> USE DEF RestOK, dbVars, rowVars, cacheVars, handVars
<1>1. ASSUME NEW f \in Families, StartLogin(r, f) PROVE RestOK'
  BY <1>1 DEF StartLogin
<1>2. ASSUME NEW f \in Families, NEW op, NEW tok, StartRefresh(r, op, f, tok)
      PROVE  RestOK'
  BY <1>2 DEF StartRefresh
<1>3. ASSUME NEW f \in Families, StartLogout(r, f) PROVE RestOK'
  BY <1>3 DEF StartLogout
<1>4. ASSUME NEW u \in Users, StartLogoutAll(r, u) PROVE RestOK'
  BY <1>4 DEF StartLogoutAll
<1>5. ASSUME NEW u \in Users, NEW full \in BOOLEAN, NEW off \in BOOLEAN,
             StartChange(r, u, full, off)
      PROVE  RestOK'
  <2>1. Edited(u, off) \in [claims: Nat, active: BOOLEAN]
    BY DEF Edited
  <2>2. account' \in [Users -> [claims: Nat, active: BOOLEAN]]
    BY <1>5, <2>1 DEF StartChange
  <2>3. count' \in [changes: Nat, losses: Nat, lapses: Nat]
    BY <1>5, SMTT(40) DEF StartChange
  <2> QED
    BY <1>5, <2>2, <2>3 DEF StartChange
<1>6. ASSUME NEW u \in Users, NEW full \in BOOLEAN, NEW off \in BOOLEAN,
             StartChangeInTx(r, u, full, off)
      PROVE  RestOK'
  BY <1>6 DEF StartChangeInTx
<1> QED
  BY <1>1, <1>2, <1>3, <1>4, <1>5, <1>6 DEF Start

\* The same for a step of a request that issues or renews a session.
LEMMA IssueRest ==
    ASSUME ReqOK, RestOK, NEW r \in Requests, Issue(r)
    PROVE  RestOK'
<1> DEFINE q == req[r]
<1> USE SlotFacts DEF RestOK, dbVars, rowVars, cacheVars, handVars, At
<1>0. q \in Request
  BY DEF ReqOK
<1>1. ASSUME SweepExpired(r) PROVE RestOK'
  <2> DEFINE swept(f) == IF /\ f \in lapsed \ locked
                            /\ row[f].status \in {"active", "revoked"}
                         THEN [row[f] EXCEPT !.status = "deleted"]
                         ELSE row[f]
  <2>1. ASSUME NEW f \in Families
        PROVE  swept(f) \in [status: Status, token: Nat, prev: Nat]
    <3>1. row[f] \in [status: Status, token: Nat, prev: Nat]
      OBVIOUS
    <3>2. [row[f] EXCEPT !.status = "deleted"]
            \in [status: Status, token: Nat, prev: Nat]
      BY <3>1 DEF Status
    <3> QED
      BY <3>1, <3>2
  <2>2. row' = [f \in Families |-> swept(f)] \/ row' = row
    BY <1>1 DEF SweepExpired
  <2> HIDE DEF swept
  <2>3. row' \in [Families -> [status: Status, token: Nat, prev: Nat]]
    BY <2>1, <2>2
  <2> QED
    BY <1>1, <2>3 DEF SweepExpired
<1>2. ASSUME InsertRow(r) PROVE RestOK'
  BY <1>0, <1>2 DEF InsertRow, Status, Request, FamilyOps
<1>3. ASSUME RotateRow(r) PROVE RestOK'
  <2> DEFINE n == [row[q.fam] EXCEPT !.token = q.tok + 1,
                                     !.prev = q.seen.token]
  <2>1. q.fam \in Families /\ q.tok + 1 \in Nat /\ q.seen.token \in Nat
    BY <1>0, <1>3 DEF RotateRow, Request, Seen, FamilyOps
  <2>2. PICK old \in [status: Status, token: Nat, prev: Nat] :
              old = row[q.fam]
    BY <2>1
  <2>3. PICK t \in Nat, p \in Nat : t = q.tok + 1 /\ p = q.seen.token
    BY <2>1
  <2>4. [old EXCEPT !.token = t, !.prev = p]
          \in [status: Status, token: Nat, prev: Nat]
    OBVIOUS
  <2>5. n \in [status: Status, token: Nat, prev: Nat]
    BY <2>2, <2>3, <2>4
  <2>6. row' = row \/ row' = [row EXCEPT ![q.fam] = n]
    BY <1>3 DEF RotateRow
  <2> HIDE DEF n
  <2>7. row' \in [Families -> [status: Status, token: Nat, prev: Nat]]
    BY <2>1, <2>5, <2>6
  <2> QED
    BY <1>3, <2>7 DEF RotateRow
<1>4. ASSUME SetLive(r) \/ WithdrawLive(r) PROVE RestOK'
  BY <1>0, <1>4 DEF SetLive, WithdrawLive, FamilyOps, UserSteps
<1>5. ASSUME At(r, "assert2") \/ At(r, "lastlogin"), Respond(r),
             UNCHANGED <<dbVars, cacheVars, closed, dead, barrier, count>>
      PROVE  RestOK'
  BY <1>0, <1>5 DEF Respond, Credential, Request, FamilyOps, UserSteps
<1>6. ASSUME AssertAfterWrite(r) \/ AssertAfterLastLogin(r) PROVE RestOK'
  BY <1>5, <1>6 DEF AssertAfterWrite, AssertAfterLastLogin
<1>7. ASSUME \/ ReadRow(r) \/ CheckAllowed(r) \/ LoginAccount(r)
             \/ RefreshAccount(r) \/ RecoverAccount(r) \/ ReadVersion(r)
             \/ ReadClaims(r) \/ AssertBeforeWrite(r) \/ RereadRow(r)
             \/ CheckRevoked(r)
      PROVE  RestOK'
  BY <1>7 DEF ReadRow, CheckAllowed, LoginAccount, RefreshAccount,
       RecoverAccount, ReadVersion, ReadClaims, AssertBeforeWrite, RereadRow,
       CheckRevoked
<1> QED
  BY <1>1, <1>2, <1>3, <1>4, <1>6, <1>7 DEF Issue

\* Revoking rows keeps the table well typed.
LEMMA TombstonedType ==
    ASSUME RestOK, NEW F
    PROVE  Tombstoned(F) \in [Families -> [status: Status, token: Nat,
                                           prev: Nat]]
<1> SUFFICES ASSUME NEW f \in Families
             PROVE  Tombstoned(F)[f] \in [status: Status, token: Nat, prev: Nat]
  BY DEF Tombstoned
<1>1. row[f] \in [status: Status, token: Nat, prev: Nat]
  BY DEF RestOK
<1>2. [row[f] EXCEPT !.status = "revoked", !.prev = NoToken]
        \in [status: Status, token: Nat, prev: Nat]
  BY <1>1 DEF Status
<1> QED
  BY <1>1, <1>2 DEF Tombstoned

\* The same for a step of a revocation.
LEMMA RevokeRest ==
    ASSUME ReqOK, RestOK, NEW r \in Requests, Revoke(r)
    PROVE  RestOK'
<1> DEFINE q == req[r]
<1> USE SlotFacts DEF RestOK, dbVars, rowVars, cacheVars, handVars, At
<1>0. q \in Request
  BY DEF ReqOK
<1>1. ASSUME NEW f \in Families, MarkRevoked(r, f) \/ ClearLive(r, f)
      PROVE  RestOK'
  BY <1>1 DEF MarkRevoked, ClearLive
<1>2. ASSUME MarksDoneFamily(r) PROVE RestOK'
  BY <1>2 DEF MarksDoneFamily
<1>3. ASSUME Tombstone(r) PROVE RestOK'
  BY <1>3, TombstonedType DEF Tombstone
<1>4. ASSUME Bump(r) PROVE RestOK'
  BY <1>0, <1>4 DEF Bump
<1>5. ASSUME RevokeAllRows(r) PROVE RestOK'
  BY <1>5, TombstonedType DEF RevokeAllRows, FamiliesOf
<1>6. ASSUME MarksDoneAll(r) PROVE RestOK'
  BY <1>0, <1>6 DEF MarksDoneAll, Request
<1>7. ASSUME Commit(r) PROVE RestOK'
  <2>1. Edited(q.user, q.off) \in [claims: Nat, active: BOOLEAN]
    BY <1>0, <1>7, SMTT(40) DEF Commit, Edited
  <2>2. account' = [account EXCEPT ![q.user] = Edited(q.user, q.off)]
    BY <1>7 DEF Commit
  <2>3. account' \in [Users -> [claims: Nat, active: BOOLEAN]]
    BY <2>1, <2>2
  <2>4. row' \in [Families -> [status: Status, token: Nat, prev: Nat]]
    BY <1>7, TombstonedType DEF Commit
  <2>5. intx' \subseteq Users /\ locked' \subseteq Families
    BY <1>7 DEF Commit, CloseTx
  <2> QED
    BY <1>7, <2>3, <2>4, <2>5 DEF Commit
<1>8. ASSUME Rollback(r) PROVE RestOK'
  BY <1>8 DEF Rollback, CloseTx
<1> QED
  BY <1>1, <1>2, <1>3, <1>4, <1>5, <1>6, <1>7, <1>8 DEF Revoke

\* The environment never touches a slot.
LEMMA EnvironmentType ==
    ASSUME ReqOK, RestOK, Environment \/ Quiet \/ UNCHANGED vars
    PROVE  ReqOK' /\ RestOK'
<1> USE DEF ReqOK, RestOK, dbVars, rowVars, cacheVars, handVars
<1>1. ASSUME NEW f \in Families, GraceElapses(f) \/ Lapse(f)
      PROVE  ReqOK' /\ RestOK'
  <2>1. ASSUME GraceElapses(f) PROVE ReqOK' /\ RestOK'
    BY <2>1 DEF GraceElapses
  <2>2. ASSUME Lapse(f) PROVE ReqOK' /\ RestOK'
    BY <2>2, SMTT(40) DEF Lapse
  <2> QED
    BY <1>1, <2>1, <2>2
<1>2. ASSUME NEW L, NEW M, NEW V, LoseKeys(L, M, V)
      PROVE  ReqOK' /\ RestOK'
  BY <1>2, SMTT(40) DEF LoseKeys
<1>3. ASSUME NEW r \in Requests, Die(r) PROVE ReqOK' /\ RestOK'
  BY <1>3 DEF Die
<1>4. ASSUME UNCHANGED vars PROVE ReqOK' /\ RestOK'
  BY <1>4 DEF vars
<1> QED
  BY <1>1, <1>2, <1>3, <1>4 DEF Environment, LoseCache, Quiet

LEMMA TypeStep == TypeOK /\ [Next]_vars => TypeOK'
<1> SUFFICES ASSUME ReqOK, RestOK, [Next]_vars
             PROVE  ReqOK' /\ RestOK'
  BY TypeSplit, TypeSplit' DEF TypeOK, ReqOK, RestOK
<1> QED
  BY StartType, IssueType, RevokeType, StartRest, IssueRest, RevokeRest,
     EnvironmentType DEF Next, Progress

\* Every reachable state is well typed, and every slot holds either nothing
\* or a well-formed request: a step of refreshTokens, establish, logout or
\* invalidateUser never meets a family or a user it does not know.
THEOREM TypeCorrect == Spec => []TypeOK
BY TypeInit, TypeStep, PTL DEF Spec

=============================================================================
