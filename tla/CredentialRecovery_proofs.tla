---------------------- MODULE CredentialRecovery_proofs ----------------------
(***************************************************************************)
(* Proofs about CredentialRecovery for any number of links, setup sessions *)
(* and requests served at the same time, and any bounds.                   *)
(***************************************************************************)
EXTENDS CredentialRecovery, TLAPS

-----------------------------------------------------------------------------
(* Types, without what TypeOK says of open setup rows.                     *)

Requests == /\ req \in [Slots -> Request]
            /\ \A s \in Slots : WellFormed(req[s])

Types ==
    /\ account \in Account
    /\ requirement \in Requirement
    /\ live \in Links \cup {NoLink}
    /\ link \in [Links -> [for: Account, fate: Fates, invite: BOOLEAN]]
    /\ setup \in [Setups -> [for: Account, status: SetupStatus]]
    /\ superseded \subseteq Links
    /\ used \subseteq Links
    /\ spent \in [Links -> [times: Nat, late: BOOLEAN]]
    /\ refused \in BOOLEAN
    /\ count \in [passwords: Nat, changes: Nat, faults: Nat, work: Nat]
    /\ Requests

LEMMA ConstantTypes ==
    /\ NoAccount \in Account /\ Idle \in Request /\ WellFormed(Idle)
    /\ Idle.rows = {} /\ Idle.pc = "idle" /\ Idle.op = "none"
    /\ Idle.link = NoLink /\ Idle.setup = NoSetup /\ Idle.late = FALSE
    /\ Idle.seen = NoAccount
<1>1. NoPassword \in Password
  BY DEF NoPassword, Password
<1>2. NoAccount \in Account
  BY <1>1 DEF NoAccount, Account, Statuses
<1>3. Idle \in Request
  BY <1>2 DEF Idle, Request, Ops, Steps
<1>4. WellFormed(Idle)
  BY NoLinkAssumption, NoSetupAssumption
     DEF Idle, WellFormed, LinkSteps, Beginning
<1> QED BY <1>2, <1>3, <1>4 DEF Idle

LEMMA MoveType ==
    ASSUME Requests, NEW s \in Slots, NEW q \in Request, WellFormed(q),
           req' = [req EXCEPT ![s] = q]
    PROVE  Requests'
BY DEF Requests

LEMMA EndType ==
    ASSUME Requests, NEW s \in Slots, End(s)
    PROVE  Requests'
BY ConstantTypes, MoveType DEF End

\* The steps of one kind of request keep what it is about.
LEMMA GotoType ==
    ASSUME Requests, NEW s \in Slots, NEW pc \in Steps, Goto(s, pc),
           \/ pc \in {"mail", "discard"} /\ req[s].pc \in {"reread", "mail"}
           \/ pc \in {"recheck", "read"} /\ req[s].pc \in {"consume", "recheck"}
           \/ pc \in Beginning /\ req[s].pc \in Beginning
           \/ pc = "begin" /\ req[s].pc = "verify"
           \/ pc = "persist" /\ req[s].pc = "confirm"
    PROVE  Requests'
<1> DEFINE q == [req[s] EXCEPT !.pc = pc]
<1>1. req[s] \in Request /\ WellFormed(req[s])
  BY DEF Requests
<1>2. q \in Request
  BY <1>1 DEF Request
<1>3. WellFormed(q)
  BY <1>1 DEF WellFormed, Request, LinkSteps, Beginning
<1>4. req' = [req EXCEPT ![s] = q]
  BY DEF Goto
<1> QED BY <1>2, <1>3, <1>4, MoveType

LEMMA BeginType ==
    ASSUME Types, NEW s \in Slots, NEW op \in Ops, NEW step \in Request,
           Begin(s, op, step), WellFormed([step EXCEPT !.op = op])
    PROVE  /\ Requests'
           /\ count' \in [passwords: Nat, changes: Nat, faults: Nat, work: Nat]
           /\ count'.passwords = count.passwords
<1>1. [step EXCEPT !.op = op] \in Request
  BY DEF Request
<1>2. Requests'
  BY <1>1, MoveType DEF Begin, Types
<1> QED BY <1>2 DEF Begin, Types

LEMMA FaultType ==
    ASSUME Types, Fault
    PROVE  /\ count' \in [passwords: Nat, changes: Nat, faults: Nat, work: Nat]
           /\ count'.passwords = count.passwords
BY DEF Types, Fault

LEMMA HashType ==
    ASSUME Types, NEW temporary \in BOOLEAN, NEW cin \in BOOLEAN
    PROVE  /\ Hash(temporary, cin) \in Password
           /\ Hash(temporary, cin).temporary = temporary
           /\ Hash(temporary, cin).id = count.passwords + 1
BY DEF Types, Hash, Password

LEMMA StoredType ==
    ASSUME Types, Stored
    PROVE  /\ count' \in [passwords: Nat, changes: Nat, faults: Nat, work: Nat]
           /\ count'.passwords = count.passwords + 1
BY DEF Types, Stored

LEMMA WithdrawType ==
    ASSUME Types, NEW j \in Links, Withdraw(j)
    PROVE  live' \in Links \cup {NoLink}
BY DEF Types, Withdraw

LEMMA BecomeType ==
    ASSUME Types, NEW j \in Links, NEW fate \in Fates, Become(j, fate)
    PROVE  link' \in [Links -> [for: Account, fate: Fates, invite: BOOLEAN]]
BY DEF Types, Become

LEMMA AccountWidens ==
    ASSUME NEW P, NEW E, NEW S, NEW V, NEW a,
           a \in [password: P, email: E, status: S, verified: V],
           P \subseteq Password, E \subseteq Nat, S \subseteq Statuses,
           V \subseteq BOOLEAN
    PROVE  a \in [password: Password, email: Nat, status: Statuses,
                 verified: BOOLEAN]
OBVIOUS

LEMMA PasswordWidens ==
    ASSUME NEW I, NEW T, NEW C, I \subseteq Nat, T \subseteq BOOLEAN,
           C \subseteq BOOLEAN
    PROVE  [id: I, temporary: T, cin: C] \subseteq Password
BY DEF Password

LEMMA TypeInit == Init => Types
<1> SUFFICES ASSUME Init PROVE Types
  OBVIOUS
<1> USE DEF Init
<1>1. account \in Account
  <2>3. {0} \subseteq Nat /\ {1} \subseteq Nat /\ {FALSE} \subseteq BOOLEAN
        /\ {"pending", "active"} \subseteq Statuses
    BY DEF Statuses
  <2>1. [id: {1}, temporary: {FALSE}, cin: {FALSE}] \subseteq Password
    BY Zenon, <2>3, PasswordWidens
  <2>2. account \in [password: [id: {1}, temporary: {FALSE}, cin: {FALSE}],
                     email: {0}, status: {"pending", "active"},
                     verified: {FALSE}]
    BY Zenon
  <2> QED BY Zenon, <2>1, <2>2, <2>3, AccountWidens DEF Account
<1>2. link \in [Links -> [for: Account, fate: Fates, invite: BOOLEAN]]
  BY ConstantTypes DEF Fates
<1>3. setup \in [Setups -> [for: Account, status: SetupStatus]]
  BY ConstantTypes DEF SetupStatus
<1>4. Requests
  BY ConstantTypes DEF Requests
<1> QED BY <1>1, <1>2, <1>3, <1>4 DEF Types, Requirement, Kinds


LEMMA AcceptedType ==
    ASSUME NEW seen \in Account, NEW invite \in BOOLEAN
    PROVE  Accepted(seen, invite) \in Account
BY DEF Accepted, Account, Statuses

LEMMA PasswordChanges ==
    ASSUME NEW a \in Account, NEW p \in Password
    PROVE  /\ [a EXCEPT !.password = p] \in Account
           /\ [a EXCEPT !.password = p].password = p
BY DEF Account

\* What a request is about while it holds a link or a setup session.
LEMMA AboutLink ==
    ASSUME Requests, NEW s \in Slots,
           \/ req[s].pc \in LinkSteps
           \/ req[s].pc = "write" /\ req[s].op = "reset"
    PROVE  req[s].link \in Links
BY DEF Requests, WellFormed

LEMMA AboutSetup ==
    ASSUME Requests, NEW s \in Slots,
           req[s].pc \in Beginning \/ req[s].op = "setup"
    PROVE  req[s].setup \in Setups
BY DEF Requests, WellFormed

LEMMA ResetRequest ==
    ASSUME NEW j \in Links, NEW late \in BOOLEAN
    PROVE  [Idle EXCEPT !.pc = "consume", !.link = j, !.late = late]
               \in Request
BY ConstantTypes DEF Request, Steps

LEMMA LinkStepTypes ==
    ASSUME Types, NEW s \in Slots, LinkStep(s)
    PROVE  Types'
<1>0. Requests /\ req[s] \in Request /\ WellFormed(req[s])
  BY DEF Types, Requests
<1>1. ASSUME NEW op \in Ops, Mint(s, op) PROVE Types'
  <2> DEFINE step == [Idle EXCEPT !.pc = "set", !.seen = account]
  <2>1. step \in Request
    BY ConstantTypes DEF Types, Request, Steps
  <2>2. WellFormed([step EXCEPT !.op = op])
    BY <1>1, NoLinkAssumption, NoSetupAssumption
       DEF Mint, WellFormed, Idle, LinkSteps, Beginning
  <2> QED BY <1>1, <2>1, <2>2, BeginType DEF Mint, Types
<1>2. ASSUME NEW j \in Links, SetLink(s, j) PROVE Types'
  <2> DEFINE q == [req[s] EXCEPT !.pc = "reread", !.link = j]
  <2>1. req[s] \in Request /\ WellFormed(req[s]) /\ req[s].pc = "set"
    BY <1>2 DEF Types, Requests, SetLink
  <2>2. q \in Request
    BY <2>1 DEF Request, Steps
  <2>3. WellFormed(q)
    BY <2>1 DEF WellFormed, Request, LinkSteps, Beginning
  <2>4. req' = [req EXCEPT ![s] = q]
    BY <1>2 DEF SetLink
  <2>5. Requests'
    BY <2>2, <2>3, <2>4, MoveType DEF Types
  <2>6. req[s].seen \in Account
    BY <2>1 DEF Request
  <2>7. link' \in [Links -> [for: Account, fate: Fates, invite: BOOLEAN]]
    BY <1>2, <2>6 DEF SetLink, Types, Fates
  <2> QED BY <1>2, <2>5, <2>7 DEF SetLink, Types
<1>3. ASSUME NEW j \in Links, Reset(s, j) PROVE Types'
  <2> DEFINE step == [Idle EXCEPT !.pc = "consume", !.link = j,
                                  !.late = j \in superseded]
  <2>0. (j \in superseded) \in BOOLEAN
    OBVIOUS
  <2>1. step \in Request
    BY <2>0, ResetRequest
  <2>2. WellFormed([step EXCEPT !.op = "reset"])
    BY NoSetupAssumption DEF WellFormed, Idle, LinkSteps, Beginning
  <2> QED BY <1>3, <2>1, <2>2, BeginType
          DEF Reset, Types, stateVars, linkVars, Ops
<1>4. CASE RereadState(s)
  <2>1. req[s].link \in Links
    BY <1>0, <1>4, AboutLink DEF RereadState, LinkSteps
  <2>2. Requests'
    BY <1>0, <1>4, GotoType, EndType DEF RereadState, LinkSteps, Steps
  <2> QED BY <1>4, <2>1, <2>2, WithdrawType, BecomeType
          DEF RereadState, Types, stateVars, Fates
<1>5. CASE SendMail(s)
  <2>1. req[s].link \in Links
    BY <1>0, <1>5, AboutLink DEF SendMail, LinkSteps
  <2> QED BY <1>0, <1>5, <2>1, EndType, BecomeType
          DEF SendMail, Types, stateVars, Fates
<1>6. CASE MailFails(s)
  <2>1. req[s].link \in Links
    BY <1>0, <1>6, AboutLink DEF MailFails, LinkSteps
  <2>2. Requests'
    BY <1>0, <1>6, GotoType, EndType DEF MailFails, LinkSteps, Steps
  <2> QED BY <1>6, <2>1, <2>2, FaultType, BecomeType
          DEF MailFails, Types, stateVars, Fates
<1>7. CASE DiscardUndelivered(s)
  <2>1. req[s].link \in Links
    BY <1>0, <1>7, AboutLink DEF DiscardUndelivered, LinkSteps
  <2> QED BY <1>0, <1>7, <2>1, EndType, WithdrawType, BecomeType
          DEF DiscardUndelivered, Types, stateVars, Fates
<1>8. CASE DiscardFails(s)
  <2>1. req[s].link \in Links
    BY <1>0, <1>8, AboutLink DEF DiscardFails, LinkSteps
  <2> QED BY <1>0, <1>8, <2>1, EndType, FaultType, BecomeType
          DEF DiscardFails, Types, stateVars, Fates
<1>9. CASE ConsumeLink(s)
  <2>1. req[s].link \in Links
    BY <1>0, <1>9, AboutLink DEF ConsumeLink, LinkSteps
  <2>2. Requests'
    BY <1>0, <1>9, GotoType, EndType DEF ConsumeLink, LinkSteps, Steps
  <2> QED BY <1>9, <2>1, <2>2 DEF ConsumeLink, Types, stateVars
<1>10. CASE RecheckState(s)
  <2>1. Requests'
    BY <1>0, <1>10, GotoType, EndType DEF RecheckState, LinkSteps, Steps
  <2> QED BY <1>10, <2>1 DEF RecheckState, Types, stateVars, linkVars
<1>11. CASE ReadRecord(s)
  <2>1. req[s] \in Request /\ WellFormed(req[s]) /\ req[s].pc = "read"
    BY <1>11 DEF Types, Requests, ReadRecord
  <2>2. CASE End(s)
    BY <1>11, <2>2, EndType DEF ReadRecord, Types, stateVars, linkVars
  <2>3. CASE req' = [req EXCEPT ![s].pc = "write", ![s].seen = account]
    <3> DEFINE q == [req[s] EXCEPT !.pc = "write", !.seen = account]
    <3>1. q \in Request
      BY <2>1 DEF Types, Request, Steps
    <3>2. WellFormed(q)
      BY <2>1 DEF WellFormed, Request, LinkSteps, Beginning
    <3>3. req' = [req EXCEPT ![s] = q]
      BY <2>3
    <3>4. Requests'
      BY <1>0, <3>1, <3>2, <3>3, MoveType
    <3> QED BY <1>11, <3>4 DEF ReadRecord, Types, stateVars, linkVars
  <2> QED BY <1>11, <2>2, <2>3 DEF ReadRecord
<1>12. ASSUME NEW cin \in Shapes, WriteByLink(s, cin) PROVE Types'
  <2>1. req[s] \in Request /\ req[s].link \in Links
    BY <1>12, AboutLink DEF WriteByLink, Types, Requests
  <2>2. /\ Accepted(req[s].seen, link[req[s].link].invite) \in Account
        /\ req[s].late \in BOOLEAN
    BY <2>1, AcceptedType DEF Types, Request
  <2>3. Hash(FALSE, cin) \in Password
    BY HashType, ShapesAssumption
  <2>4. account' \in Account
    <3>1. CASE Unchanged(req[s].seen)
      <4>1. account' = [Accepted(req[s].seen, link[req[s].link].invite) EXCEPT
                           !.password = Hash(FALSE, cin)]
        BY <1>12, <3>1 DEF WriteByLink
      <4> QED BY <2>2, <2>3, <4>1, PasswordChanges
    <3>2. CASE ~Unchanged(req[s].seen)
      BY <1>12, <3>2 DEF WriteByLink, Types
    <3> QED BY <3>1, <3>2
  <2>5. spent' \in [Links -> [times: Nat, late: BOOLEAN]]
    <3>1. CASE Unchanged(req[s].seen)
      <4>1. spent' = [spent EXCEPT ![req[s].link].times = @ + 1,
                                   ![req[s].link].late = @ \/ req[s].late]
        BY <1>12, <3>1 DEF WriteByLink
      <4>2. spent \in [Links -> [times: Nat, late: BOOLEAN]]
        BY DEF Types
      <4> HIDE DEF Types
      <4> QED BY <2>1, <2>2, <4>1, <4>2
    <3>2. CASE ~Unchanged(req[s].seen)
      BY <1>12, <3>2 DEF WriteByLink, Types
    <3> QED BY <3>1, <3>2
  <2> QED BY <1>12, <2>4, <2>5, StoredType, EndType DEF WriteByLink, Types
<1> QED BY <1>1, <1>2, <1>3, <1>4, <1>5, <1>6, <1>7, <1>8, <1>9, <1>10,
           <1>11, <1>12 DEF LinkStep

LEMMA SetupStepTypes ==
    ASSUME Types, NEW s \in Slots, SetupStep(s)
    PROVE  Types'
<1>0. Requests /\ req[s] \in Request /\ WellFormed(req[s])
  BY DEF Types, Requests
<1>1. ASSUME NEW k \in Setups, BeginSetup(s, k) PROVE Types'
  <2> DEFINE q == [req[s] EXCEPT !.pc = "scan", !.setup = k]
  <2>1. req[s].pc = "begin" /\ req' = [req EXCEPT ![s] = q]
    BY <1>1 DEF BeginSetup
  <2>2. q \in Request
    BY <1>0 DEF Request, Steps
  <2>3. WellFormed(q)
    BY <1>0, <2>1 DEF WellFormed, Request, LinkSteps, Beginning
  <2>4. Requests'
    BY <1>0, <2>1, <2>2, <2>3, MoveType
  <2>5. setup' \in [Setups -> [for: Account, status: SetupStatus]]
    BY <1>1 DEF BeginSetup, Types, SetupStatus
  <2> QED BY <1>1, <2>4, <2>5 DEF BeginSetup, Types, linkVars
<1>2. ASSUME NEW k \in Setups, RequireSetup(s, k) PROVE Types'
  <2> DEFINE step == [Idle EXCEPT !.pc = "validate", !.setup = k]
  <2>1. step \in Request
    BY ConstantTypes DEF Request, Steps
  <2>2. WellFormed([step EXCEPT !.op = "setup"])
    BY NoLinkAssumption DEF WellFormed, Idle, LinkSteps, Beginning
  <2> QED BY <1>2, <2>1, <2>2, BeginType
          DEF RequireSetup, Types, stateVars, linkVars, Ops
<1>3. CASE ScanActive(s)
  <2> DEFINE q == [req[s] EXCEPT !.pc = "replace",
                       !.rows = {k \in Setups : setup[k].status = "active"}]
  <2>1. req[s].pc = "scan" /\ req' = [req EXCEPT ![s] = q]
    BY <1>3 DEF ScanActive
  <2>2. q \in Request
    BY <1>0 DEF Request, Steps
  <2>3. WellFormed(q)
    BY <1>0, <2>1 DEF WellFormed, Request, LinkSteps, Beginning
  <2>4. Requests'
    BY <1>0, <2>1, <2>2, <2>3, MoveType
  <2> QED BY <1>3, <2>4 DEF ScanActive, Types, linkVars, stateVars
<1>4. CASE ReplaceActive(s)
  <2> DEFINE q == [req[s] EXCEPT !.pc = "check",
                       !.rows = {k \in @ : setup[k].status = "active"}]
  <2>1. req[s].pc = "replace" /\ req' = [req EXCEPT ![s] = q]
    BY <1>4 DEF ReplaceActive
  <2>2. q \in Request
    BY <1>0 DEF Request, Steps
  <2>3. WellFormed(q)
    BY <1>0, <2>1 DEF WellFormed, Request, LinkSteps, Beginning
  <2>4. Requests'
    BY <1>0, <2>1, <2>2, <2>3, MoveType
  <2> QED BY <1>4, <2>4 DEF ReplaceActive, Types, linkVars, stateVars
<1>5. CASE CheckBegin(s)
  <2>1. Requests'
    BY <1>0, <1>5, GotoType, EndType DEF CheckBegin, Beginning, Steps
  <2>2. setup' \in [Setups -> [for: Account, status: SetupStatus]]
    BY <1>5 DEF CheckBegin, Types, SetupStatus
  <2> QED BY <1>5, <2>1, <2>2 DEF CheckBegin, Types, linkVars
<1>6. CASE CommitBegin(s)
  <2>1. setup' \in [Setups -> [for: Account, status: SetupStatus]]
    BY <1>6 DEF CommitBegin, Types, SetupStatus
  <2> QED BY <1>0, <1>6, <2>1, EndType DEF CommitBegin, Types, linkVars
<1>7. CASE ValidateReplacement(s)
  <2> DEFINE q == [req[s] EXCEPT !.pc = "claim", !.seen = account]
  <2>1. CASE End(s)
    BY <1>0, <1>7, <2>1, EndType
       DEF ValidateReplacement, Types, linkVars, stateVars
  <2>2. CASE req' = [req EXCEPT ![s] = q]
    <3>1. req[s].pc = "validate"
      BY <1>7 DEF ValidateReplacement
    <3>2. q \in Request
      BY <1>0 DEF Types, Request, Steps
    <3>3. WellFormed(q)
      BY <1>0, <3>1 DEF WellFormed, Request, LinkSteps, Beginning
    <3>4. Requests'
      BY <1>0, <2>2, <3>2, <3>3, MoveType
    <3> QED BY <1>7, <3>4 DEF ValidateReplacement, Types, linkVars, stateVars
  <2> QED BY <1>7, <2>1, <2>2 DEF ValidateReplacement
<1>8. CASE ConsumeSetup(s)
  <2> DEFINE q == [req[s] EXCEPT !.pc = "confirm", !.rows = {req[s].setup}]
  <2>1. CASE End(s)
    BY <1>0, <1>8, <2>1, EndType DEF ConsumeSetup, Types, linkVars, stateVars
  <2>2. CASE req' = [req EXCEPT ![s] = q]
    <3>1. req[s].pc = "claim" /\ req[s].setup \in Setups
      BY <1>0, <1>8 DEF ConsumeSetup, WellFormed
    <3>2. q \in Request
      BY <1>0, <3>1 DEF Request, Steps
    <3>3. WellFormed(q)
      BY <1>0, <3>1 DEF WellFormed, Request, LinkSteps, Beginning
    <3>4. Requests'
      BY <1>0, <2>2, <3>2, <3>3, MoveType
    <3> QED BY <1>8, <3>4 DEF ConsumeSetup, Types, linkVars, stateVars
  <2> QED BY <1>8, <2>1, <2>2 DEF ConsumeSetup
<1>9. CASE ConfirmCredential(s)
  <2>1. Requests'
    BY <1>0, <1>9, GotoType, EndType DEF ConfirmCredential, Steps
  <2> QED BY <1>9, <2>1 DEF ConfirmCredential, Types, linkVars, stateVars
<1>10. ASSUME NEW cin \in Shapes, Persist(s, cin) PROVE Types'
  <2>1. CASE UNCHANGED <<stateVars, count>>
    BY <1>0, <1>10, <2>1, EndType DEF Persist, Types, linkVars, stateVars
  <2>2. CASE Unchanged(req[s].seen) /\ requirement.owed
    <3> DEFINE chosen == cin /\ requirement.kind # "cin"
    <3>1. chosen \in BOOLEAN
      OBVIOUS
    <3>2. Hash(FALSE, chosen) \in Password
      BY <3>1, HashType
    <3>3. account' = [account EXCEPT !.password = Hash(FALSE, chosen)]
      BY <1>10, <2>2 DEF Persist
    <3>4. account' \in Account
      BY <3>2, <3>3, PasswordChanges DEF Types
    <3>5. setup' \in [Setups -> [for: Account, status: SetupStatus]]
      BY <1>10, <2>2 DEF Persist, Types, SetupStatus
    <3>6. requirement' \in Requirement
      BY <1>10, <2>2 DEF Persist, Types, Requirement
    <3>7. Requests'
      BY <1>0, <1>10, EndType DEF Persist
    <3>8. Stored
      BY <1>10, <2>2 DEF Persist
    <3> QED BY <1>10, <3>4, <3>5, <3>6, <3>7, <3>8, StoredType
            DEF Persist, Types, linkVars
  <2> QED BY <1>10, <2>1, <2>2 DEF Persist
<1> QED BY <1>1, <1>2, <1>3, <1>4, <1>5, <1>6, <1>7, <1>8, <1>9, <1>10
        DEF SetupStep

\* Everything that is neither a step of a link nor of a setup session.
OtherStep ==
    \/ \E s \in Slots :
          \/ ChangePassword(s) \/ \E cin \in Shapes : WriteByChange(s, cin)
          \/ Login(s) \/ VerifyLogin(s) \/ Die(s)
    \/ UpdateAccount
    \/ \E kind \in Kinds : ResetToTemporaryCredential(kind)
    \/ \E k \in Setups : CancelSetup(k) \/ LapseSetup(k)

LEMMA OtherStepTypes ==
    ASSUME Types, OtherStep
    PROVE  Types'
<1>0. Requests /\ \A s \in Slots : req[s] \in Request /\ WellFormed(req[s])
  BY DEF Types, Requests
<1>1. ASSUME NEW s \in Slots, ChangePassword(s) PROVE Types'
  <2> DEFINE step == [Idle EXCEPT !.pc = "write", !.seen = account]
  <2>1. step \in Request
    BY ConstantTypes DEF Types, Request, Steps
  <2>2. WellFormed([step EXCEPT !.op = "change"])
    BY NoLinkAssumption, NoSetupAssumption
       DEF WellFormed, Idle, LinkSteps, Beginning
  <2> QED BY <1>1, <2>1, <2>2, BeginType
          DEF ChangePassword, Types, stateVars, linkVars, Ops
<1>2. ASSUME NEW s \in Slots, NEW cin \in Shapes, WriteByChange(s, cin)
      PROVE  Types'
  <2>1. Hash(FALSE, cin) \in Password
    BY HashType, ShapesAssumption
  <2>2. account' \in Account
    <3>1. \/ account' = account
          \/ account' = [account EXCEPT !.password = Hash(FALSE, cin)]
      BY <1>2 DEF WriteByChange
    <3>2. account \in Account
      BY DEF Types
    <3> QED BY <2>1, <3>1, <3>2, PasswordChanges
  <2>3. Requests'
    BY <1>0, <1>2, EndType DEF WriteByChange
  <2> QED BY <1>2, <2>2, <2>3, StoredType DEF WriteByChange, Types, linkVars
<1>3. ASSUME NEW s \in Slots, Login(s) PROVE Types'
  <2> DEFINE step == [Idle EXCEPT !.pc = "verify", !.seen = account]
  <2>1. step \in Request
    BY ConstantTypes DEF Types, Request, Steps
  <2>2. WellFormed([step EXCEPT !.op = "login"])
    BY NoLinkAssumption, NoSetupAssumption
       DEF WellFormed, Idle, LinkSteps, Beginning
  <2> QED BY <1>3, <2>1, <2>2, BeginType
          DEF Login, Types, stateVars, linkVars, Ops
<1>4. ASSUME NEW s \in Slots, VerifyLogin(s) PROVE Types'
  <2>1. Requests'
    BY <1>0, <1>4, GotoType, EndType DEF VerifyLogin, Steps
  <2>2. refused' \in BOOLEAN
    BY <1>4 DEF VerifyLogin, Types
  <2> QED BY <1>4, <2>1, <2>2 DEF VerifyLogin, Types, stateVars, linkVars
<1>5. ASSUME NEW s \in Slots, Die(s) PROVE Types'
  <2>1. setup' \in [Setups -> [for: Account, status: SetupStatus]]
    BY <1>5 DEF Die, Types, SetupStatus
  <2>2. Requests'
    BY <1>0, <1>5, EndType DEF Die
  <2> QED BY <1>5, <2>1, <2>2, FaultType DEF Die, Types, linkVars
<1>6. CASE UpdateAccount
  <2>1. account \in Account
    BY DEF Types
  <2>2. account' \in Account
    <3>1. CASE account' = [account EXCEPT !.email = @ + 1]
      BY <2>1, <3>1 DEF Account
    <3>2. ASSUME NEW status \in Statuses,
                 account' = [account EXCEPT !.status = status]
          PROVE  account' \in Account
      BY <2>1, <3>2 DEF Account
    <3> QED BY <1>6, <3>1, <3>2 DEF UpdateAccount
  <2> QED BY <1>6, <2>2
          DEF UpdateAccount, Change, Types, linkVars, Requests
<1>7. ASSUME NEW kind \in Kinds, ResetToTemporaryCredential(kind) PROVE Types'
  <2> DEFINE cin == kind = "cin"
  <2>1. cin \in BOOLEAN
    OBVIOUS
  <2>2. Hash(TRUE, cin) \in Password
    BY <2>1, HashType
  <2>3. account' = [account EXCEPT !.password = Hash(TRUE, cin)]
    BY <1>7 DEF ResetToTemporaryCredential
  <2>4. account' \in Account
    BY <2>2, <2>3, PasswordChanges DEF Types
  <2>5. requirement' \in Requirement
    BY <1>7 DEF ResetToTemporaryCredential, Requirement
  <2>6. count' \in [passwords: Nat, changes: Nat, faults: Nat, work: Nat]
    <3>1. count \in [passwords: Nat, changes: Nat, faults: Nat, work: Nat]
      BY DEF Types
    <3>2. count' = [count EXCEPT !.changes = @ + 1, !.passwords = @ + 1]
      BY <1>7 DEF ResetToTemporaryCredential
    <3>3. count.changes + 1 \in Nat /\ count.passwords + 1 \in Nat
      BY <3>1
    <3> QED BY <3>1, <3>2, <3>3
  <2> QED BY <1>7, <2>4, <2>5, <2>6
          DEF ResetToTemporaryCredential, Types, linkVars, Requests
<1>8. ASSUME NEW k \in Setups, CancelSetup(k) \/ LapseSetup(k) PROVE Types'
  <2>1. setup' \in [Setups -> [for: Account, status: SetupStatus]]
    <3>1. ASSUME NEW status \in SetupStatus,
                 setup' = [setup EXCEPT ![k].status = status]
          PROVE  setup' \in [Setups -> [for: Account, status: SetupStatus]]
      BY <3>1 DEF Types
    <3> QED BY <1>8, <3>1 DEF CancelSetup, LapseSetup, SetupStatus
  <2> QED BY <1>8, <2>1, FaultType
          DEF CancelSetup, LapseSetup, Types, linkVars, Requests
<1> QED BY <1>1, <1>2, <1>3, <1>4, <1>5, <1>6, <1>7, <1>8 DEF OtherStep

\* The three parts of Next.
LEMMA NextParts ==
    ASSUME Next
    PROVE  \/ \E s \in Slots : LinkStep(s) \/ SetupStep(s)
           \/ OtherStep
BY DEF Next, OtherStep

LEMMA TypeStep == Types /\ [Next]_vars => Types'
<1> SUFFICES ASSUME Types, [Next]_vars PROVE Types'
  OBVIOUS
<1>1. CASE UNCHANGED vars
  BY <1>1 DEF Types, Requests, vars
<1>2. CASE Next
  BY <1>2, NextParts, LinkStepTypes, SetupStepTypes, OtherStepTypes
<1> QED BY <1>1, <1>2

-----------------------------------------------------------------------------
(* Nobody keeps a temporary password.                                      *)

LEMMA AcceptedPassword ==
    ASSUME NEW seen \in Account, NEW invite \in BOOLEAN
    PROVE  Accepted(seen, invite).password = seen.password
BY DEF Accepted, Account

\* What a step does to the stored password: nothing, or a new hash takes its
\* place, which is temporary only together with a requirement.
LEMMA PasswordMoves ==
    ASSUME Types, Next
    PROVE  \/ /\ account'.password = account.password
              /\ count'.passwords = count.passwords
              /\ requirement' = requirement
           \/ /\ account'.password.id = count.passwords + 1
              /\ count'.passwords = count.passwords + 1
              /\ account'.password.temporary => requirement'.owed
<1> DEFINE Stays == /\ account'.password = account.password
                    /\ count'.passwords = count.passwords
                    /\ requirement' = requirement
           Moves == /\ account'.password.id = count.passwords + 1
                    /\ count'.passwords = count.passwords + 1
                    /\ account'.password.temporary => requirement'.owed
<1>0. /\ account \in Account
      /\ count \in [passwords: Nat, changes: Nat, faults: Nat, work: Nat]
  BY DEF Types
<1>1. ASSUME NEW p \in Password, account' = [account EXCEPT !.password = p]
      PROVE  account'.password = p
  BY <1>0, <1>1, PasswordChanges
<1>2. ASSUME NEW s \in Slots, LinkStep(s) PROVE Stays \/ Moves
  <2>1. ASSUME NEW cin \in Shapes, WriteByLink(s, cin) PROVE Stays \/ Moves
    <3>1. CASE Unchanged(req[s].seen)
      <4>1. req[s] \in Request /\ req[s].link \in Links
        BY <2>1, AboutLink DEF WriteByLink, Types, Requests
      <4>2. Accepted(req[s].seen, link[req[s].link].invite) \in Account
        BY <4>1, AcceptedType DEF Types, Request
      <4>3. Hash(FALSE, cin) \in Password
        BY HashType, ShapesAssumption
      <4>4. account' = [Accepted(req[s].seen, link[req[s].link].invite) EXCEPT
                           !.password = Hash(FALSE, cin)]
        BY <2>1, <3>1 DEF WriteByLink
      <4>5. account'.password = Hash(FALSE, cin)
        BY <4>2, <4>3, <4>4, PasswordChanges
      <4>6. Stored
        BY <2>1, <3>1 DEF WriteByLink
      <4>7. cin \in BOOLEAN
        BY ShapesAssumption
      <4> QED BY <4>5, <4>6, <4>7, HashType, StoredType
    <3>2. CASE ~Unchanged(req[s].seen)
      BY <2>1, <3>2 DEF WriteByLink
    <3> QED BY <3>1, <3>2
  <2>2. CASE \E op \in Ops : Mint(s, op)
    BY <1>0, <2>2 DEF Mint, Begin
  <2>3. CASE \E j \in Links : SetLink(s, j) \/ Reset(s, j)
    BY <1>0, <2>3 DEF SetLink, Reset, Begin, stateVars
  <2>4. CASE \/ RereadState(s) \/ SendMail(s) \/ MailFails(s)
             \/ DiscardUndelivered(s) \/ DiscardFails(s)
    BY <1>0, <2>4 DEF RereadState, SendMail, MailFails, DiscardUndelivered,
                      DiscardFails, Fault, stateVars
  <2>5. CASE ConsumeLink(s) \/ RecheckState(s) \/ ReadRecord(s)
    BY <2>5 DEF ConsumeLink, RecheckState, ReadRecord, stateVars
  <2> QED BY <1>2, <2>1, <2>2, <2>3, <2>4, <2>5 DEF LinkStep
<1>3. ASSUME NEW s \in Slots, SetupStep(s) PROVE Stays \/ Moves
  <2>1. ASSUME NEW cin \in Shapes, Persist(s, cin) PROVE Stays \/ Moves
    <3>1. CASE UNCHANGED <<stateVars, count>>
      BY <3>1 DEF stateVars
    <3>2. CASE Unchanged(req[s].seen) /\ requirement.owed
      <4> DEFINE chosen == cin /\ requirement.kind # "cin"
      <4>1. chosen \in BOOLEAN
        OBVIOUS
      <4>2. account' = [account EXCEPT !.password = Hash(FALSE, chosen)]
        BY <2>1, <3>2 DEF Persist
      <4>3. Stored
        BY <2>1, <3>2 DEF Persist
      <4> HIDE DEF chosen
      <4>4. account'.password = Hash(FALSE, chosen)
        BY <1>1, <4>1, <4>2, HashType
      <4> QED BY <4>1, <4>3, <4>4, HashType, StoredType
    <3> QED BY <2>1, <3>1, <3>2 DEF Persist
  <2>2. CASE \E k \in Setups : BeginSetup(s, k) \/ RequireSetup(s, k)
    BY <1>0, <2>2 DEF BeginSetup, RequireSetup, Begin, stateVars
  <2>3. CASE \/ ScanActive(s) \/ ReplaceActive(s) \/ CheckBegin(s)
             \/ CommitBegin(s)
    BY <2>3 DEF ScanActive, ReplaceActive, CheckBegin, CommitBegin, stateVars
  <2>4. CASE ValidateReplacement(s) \/ ConsumeSetup(s) \/ ConfirmCredential(s)
    BY <2>4 DEF ValidateReplacement, ConsumeSetup, ConfirmCredential, stateVars
  <2> QED BY <1>3, <2>1, <2>2, <2>3, <2>4 DEF SetupStep
<1>4. CASE OtherStep
  <2>1. ASSUME NEW s \in Slots, NEW cin \in Shapes, WriteByChange(s, cin)
        PROVE  Stays \/ Moves
    <3>1. cin \in BOOLEAN
      BY ShapesAssumption
    <3>2. CASE Unchanged(req[s].seen)
      <4>1. account' = [account EXCEPT !.password = Hash(FALSE, cin)]
        BY <2>1, <3>2 DEF WriteByChange
      <4>2. account'.password = Hash(FALSE, cin)
        BY <1>1, <3>1, <4>1, HashType
      <4>3. Stored
        BY <2>1, <3>2 DEF WriteByChange
      <4> QED BY <3>1, <4>2, <4>3, HashType, StoredType
    <3>3. CASE ~Unchanged(req[s].seen)
      BY <2>1, <3>3 DEF WriteByChange
    <3> QED BY <3>2, <3>3
  <2>2. ASSUME NEW kind \in Kinds, ResetToTemporaryCredential(kind)
        PROVE  Stays \/ Moves
    <3> DEFINE cin == kind = "cin"
    <3>1. cin \in BOOLEAN
      OBVIOUS
    <3>2. account' = [account EXCEPT !.password = Hash(TRUE, cin)]
      BY <2>2 DEF ResetToTemporaryCredential
    <3>3. /\ requirement'.owed
          /\ count'.passwords = count.passwords + 1
      BY <1>0, <2>2 DEF ResetToTemporaryCredential
    <3> HIDE DEF cin
    <3>4. account'.password = Hash(TRUE, cin)
      BY <1>1, <3>1, <3>2, HashType
    <3> QED BY <3>1, <3>3, <3>4, HashType
  <2>3. CASE UpdateAccount
    BY <1>0, <2>3 DEF UpdateAccount, Change, Account, stateVars
  <2>4. ASSUME NEW s \in Slots, \/ ChangePassword(s) \/ Login(s)
                                \/ VerifyLogin(s) \/ Die(s)
        PROVE  Stays
    BY <1>0, <2>4 DEF ChangePassword, Login, VerifyLogin, Die, Begin, Fault,
                      stateVars
  <2>5. ASSUME NEW k \in Setups, CancelSetup(k) \/ LapseSetup(k)
        PROVE  Stays
    BY <1>0, <2>5 DEF CancelSetup, LapseSetup, Fault
  <2> QED BY <1>4, <2>1, <2>2, <2>3, <2>4, <2>5 DEF OtherStep
<1> QED BY <1>2, <1>3, <1>4, NextParts

LEMMA OwedStep ==
    ASSUME Types, TemporaryIsOwed, [Next]_vars
    PROVE  TemporaryIsOwed'
<1>1. CASE UNCHANGED vars
  BY <1>1 DEF TemporaryIsOwed, vars
<1>2. CASE Next
  BY <1>2, PasswordMoves DEF TemporaryIsOwed
<1> QED BY <1>1, <1>2

-----------------------------------------------------------------------------
(* The cache holds exactly the link that may still be used.                *)

Deliverable == {"minted", "sent", "unsent", "stranded"}

\* The link in the cache was neither used nor superseded, and a link that
\* never got there was never granted anything.
LiveIsFresh == live \in Links => /\ live \notin used \cup superseded
                                 /\ link[live].fate \in Deliverable
OldWereMinted == \A j \in used \cup superseded : link[j].fate # "unused"

\* A link that was not taken back, used or superseded is the one in the cache.
DeliverableIsLive ==
    \A j \in Links :
        link[j].fate \in Deliverable /\ j \notin used \cup superseded
        => live = j

\* The request that mails a link is the only one that decides its fate.
Mails(s) == req[s].pc \in {"reread", "mail", "discard"}
MailersKnow ==
    \A s \in Slots :
        /\ req[s].pc \in {"reread", "mail"} => link[req[s].link].fate = "minted"
        /\ req[s].pc = "discard" => link[req[s].link].fate = "unsent"
MailersApart ==
    \A s, t \in Slots :
        Mails(s) /\ Mails(t) /\ req[s].link = req[t].link => s = t

LiveInv == /\ LiveIsFresh /\ OldWereMinted /\ DeliverableIsLive
           /\ MailersKnow /\ MailersApart

\* Steps of other kinds touch no link and end up with none.
LEMMA SetupStepFrame ==
    ASSUME Types, NEW s \in Slots, SetupStep(s)
    PROVE  /\ UNCHANGED linkVars
           /\ \A t \in Slots : req'[t] = req[t] \/ req'[t].link \notin Links
<1>0. req \in [Slots -> Request] /\ req[s] \in Request /\ WellFormed(req[s])
  BY DEF Types, Requests
<1>1. UNCHANGED linkVars
  BY DEF SetupStep, BeginSetup, RequireSetup, ScanActive, ReplaceActive,
         CheckBegin, CommitBegin, ValidateReplacement, ConsumeSetup,
         ConfirmCredential, Persist
<1>2. \A t \in Slots \ {s} : req'[t] = req[t]
  BY <1>0 DEF SetupStep, BeginSetup, RequireSetup, ScanActive, ReplaceActive,
         CheckBegin, CommitBegin, ValidateReplacement, ConsumeSetup,
         ConfirmCredential, Persist, Begin, Goto, End
<1>3. Idle.link \notin Links
  BY ConstantTypes, NoLinkAssumption
<1>4. req'[s].link \notin Links
  <2>1. CASE \E k \in Setups : RequireSetup(s, k)
    BY <1>0, <1>3, <2>1, ConstantTypes DEF RequireSetup, Begin, Request
  <2>2. CASE End(s)
    BY <1>0, <1>3, <2>2 DEF End
  <2>3. CASE /\ req'[s].link = req[s].link
             /\ req[s].pc \in {"begin", "scan", "replace", "check",
                               "validate", "claim", "confirm"}
    <3>1. req[s].pc \notin LinkSteps /\ req[s].pc # "write"
      BY <2>3 DEF LinkSteps
    <3> QED BY <1>0, <2>3, <3>1 DEF WellFormed
  <2>4. CASE \E k \in Setups : BeginSetup(s, k)
    BY <1>0, <2>3, <2>4 DEF BeginSetup, Request
  <2>5. CASE ScanActive(s) \/ ReplaceActive(s)
    BY <1>0, <2>3, <2>5 DEF ScanActive, ReplaceActive, Request
  <2>6. CASE CheckBegin(s) \/ CommitBegin(s)
    BY <1>0, <2>2, <2>3, <2>6 DEF CheckBegin, CommitBegin, Goto, Request
  <2>7. CASE ValidateReplacement(s) \/ ConsumeSetup(s)
    BY <1>0, <2>2, <2>3, <2>7
       DEF ValidateReplacement, ConsumeSetup, Request
  <2>8. CASE ConfirmCredential(s) \/ \E cin \in Shapes : Persist(s, cin)
    BY <1>0, <2>2, <2>3, <2>8 DEF ConfirmCredential, Persist, Goto, Request
  <2> QED BY <2>1, <2>4, <2>5, <2>6, <2>7, <2>8 DEF SetupStep
<1> QED BY <1>1, <1>2, <1>4

LEMMA OtherStepFrame ==
    ASSUME Types, OtherStep
    PROVE  /\ UNCHANGED linkVars
           /\ \A t \in Slots : req'[t] = req[t] \/ req'[t].link \notin Links
<1>0. req \in [Slots -> Request] /\ \A s \in Slots : WellFormed(req[s])
  BY DEF Types, Requests
<1>1. Idle.link \notin Links
  BY ConstantTypes, NoLinkAssumption
<1>2. ASSUME NEW s \in Slots, ChangePassword(s) \/ Login(s)
      PROVE  /\ UNCHANGED linkVars
             /\ \A t \in Slots : req'[t] = req[t] \/ req'[t].link \notin Links
  <2>1. UNCHANGED linkVars
    BY <1>2 DEF ChangePassword, Login
  <2>2. req'[s].link = NoLink
    <3>1. ASSUME NEW op \in Ops, NEW pc \in Steps,
                 Begin(s, op, [Idle EXCEPT !.pc = pc, !.seen = account])
          PROVE  req'[s].link = NoLink
      BY <1>0, <3>1 DEF Begin, Idle
    <3> QED BY <1>2, <3>1 DEF ChangePassword, Login, Ops, Steps
  <2>3. \A t \in Slots \ {s} : req'[t] = req[t]
    BY <1>0, <1>2 DEF ChangePassword, Login, Begin
  <2> QED BY <2>1, <2>2, <2>3, NoLinkAssumption
<1>3. ASSUME NEW s \in Slots,
             Die(s) \/ \E cin \in Shapes : WriteByChange(s, cin)
      PROVE  /\ UNCHANGED linkVars
             /\ \A t \in Slots : req'[t] = req[t] \/ req'[t].link \notin Links
  BY <1>0, <1>1, <1>3 DEF Die, WriteByChange, End
<1>4. ASSUME NEW s \in Slots, VerifyLogin(s)
      PROVE  /\ UNCHANGED linkVars
             /\ \A t \in Slots : req'[t] = req[t] \/ req'[t].link \notin Links
  <2>1. req[s].pc = "verify" /\ req[s].link \notin Links
    BY <1>0, <1>4 DEF VerifyLogin, WellFormed, LinkSteps
  <2>2. CASE Goto(s, "begin")
    BY <1>0, <1>4, <2>1, <2>2 DEF VerifyLogin, Goto, Request
  <2>3. CASE End(s)
    BY <1>0, <1>1, <1>4, <2>3 DEF VerifyLogin, End
  <2> QED BY <1>4, <2>2, <2>3 DEF VerifyLogin
<1>5. CASE UpdateAccount \/ \E kind \in Kinds : ResetToTemporaryCredential(kind)
  BY <1>5 DEF UpdateAccount, ResetToTemporaryCredential
<1>6. CASE \E k \in Setups : CancelSetup(k) \/ LapseSetup(k)
  BY <1>6 DEF CancelSetup, LapseSetup
<1> QED BY <1>2, <1>3, <1>4, <1>5, <1>6 DEF OtherStep

\* Whoever holds no link mails none.
LEMMA LiveInvFrame ==
    ASSUME Types, Types', LiveInv, UNCHANGED linkVars,
           \A t \in Slots : req'[t] = req[t] \/ req'[t].link \notin Links
    PROVE  LiveInv'
<1>1. \A t \in Slots : Mails(t)' => req'[t] = req[t]
  <2>1. ASSUME NEW t \in Slots, Mails(t)' PROVE req'[t].link \in Links
    BY <2>1 DEF Types, Requests, WellFormed, Mails, LinkSteps
  <2> QED BY <2>1
<1>2. UNCHANGED <<live, link, used, superseded>>
  BY DEF linkVars
<1>3. LiveIsFresh' /\ OldWereMinted' /\ DeliverableIsLive'
  BY <1>2 DEF LiveInv, LiveIsFresh, OldWereMinted, DeliverableIsLive
<1>4. MailersKnow'
  BY <1>1, <1>2 DEF LiveInv, MailersKnow, Mails
<1>5. MailersApart'
  BY <1>1 DEF LiveInv, MailersApart, Mails
<1> QED BY <1>3, <1>4, <1>5 DEF LiveInv

\* A request that leaves its slot, or goes on to another step.
LEMMA EndEffect ==
    ASSUME Requests, NEW s \in Slots, End(s)
    PROVE  /\ req'[s] = Idle
           /\ \A t \in Slots \ {s} : req'[t] = req[t]
BY DEF Requests, End

LEMMA GotoEffect ==
    ASSUME Requests, NEW s \in Slots, NEW pc \in Steps, Goto(s, pc)
    PROVE  /\ req'[s].pc = pc /\ req'[s].op = req[s].op
           /\ req'[s].link = req[s].link /\ req'[s].late = req[s].late
           /\ req'[s].seen = req[s].seen /\ req'[s].setup = req[s].setup
           /\ req'[s].rows = req[s].rows
           /\ \A t \in Slots \ {s} : req'[t] = req[t]
BY DEF Requests, Goto, Request

LEMMA BecomeEffect ==
    ASSUME Types, NEW j \in Links, NEW fate \in Fates, Become(j, fate)
    PROVE  /\ link'[j].fate = fate
           /\ \A l \in Links \ {j} : link'[l] = link[l]
BY DEF Types, Become

LEMMA LiveInvLinkStep ==
    ASSUME Types, Types', LiveInv, NEW s \in Slots, LinkStep(s)
    PROVE  LiveInv'
<1>0. Requests /\ req[s] \in Request /\ WellFormed(req[s])
  BY DEF Types, Requests
<1> DEFINE j == req[s].link
\* A step of the request that mails j: nobody else mails it, and the caches
\* entry goes when the fate says so.
<1>1. ASSUME Mails(s), UNCHANGED <<used, superseded>>,
             \A l \in Links \ {j} : link'[l].fate = link[l].fate,
             \A t \in Slots \ {s} : req'[t] = req[t],
             \/ /\ link'[j].fate \in Deliverable /\ live' = live
                /\ link[j].fate \in Deliverable
             \/ /\ link'[j].fate \notin Deliverable /\ link'[j].fate # "unused"
                /\ live' = IF live = j THEN NoLink ELSE live,
             \/ ~Mails(s)'
             \/ /\ req'[s].link = j
                /\ req'[s].pc \in {"reread", "mail"} => link'[j].fate = "minted"
                /\ req'[s].pc = "discard" => link'[j].fate = "unsent"
      PROVE  LiveInv'
  <2>1. j \in Links
    BY <1>0, <1>1, AboutLink DEF Mails, LinkSteps
  <2>2. link[j].fate # "unused"
    BY <1>1 DEF LiveInv, MailersKnow, Mails
  <2>3. LiveIsFresh'
    BY <1>1, <2>1, NoLinkAssumption DEF LiveInv, LiveIsFresh
  <2>4. OldWereMinted'
    <3>1. link'[j].fate # "unused"
      BY <1>1 DEF Deliverable
    <3> QED BY <1>1, <2>1, <3>1 DEF LiveInv, OldWereMinted, Types
  <2>5. DeliverableIsLive'
    BY <1>1, <2>1 DEF LiveInv, DeliverableIsLive
  <2>6. \A t \in Slots \ {s} : Mails(t) => /\ req[t].link # j
                                           /\ req[t].link \in Links
    BY <1>0, <1>1, AboutLink DEF LiveInv, MailersApart, Mails, LinkSteps
  <2>7. MailersKnow'
    BY <1>1, <2>6 DEF LiveInv, MailersKnow, Mails
  <2>8. MailersApart'
    BY <1>1, <2>6 DEF LiveInv, MailersApart, Mails
  <2> QED BY <2>3, <2>4, <2>5, <2>7, <2>8 DEF LiveInv
\* A step that leaves the links alone and mails nothing.
<1>2. ASSUME UNCHANGED linkVars, ~Mails(s)',
             \A t \in Slots \ {s} : req'[t] = req[t]
      PROVE  LiveInv'
  <2>1. UNCHANGED <<live, link, used, superseded>>
    BY <1>2 DEF linkVars
  <2>2. LiveIsFresh' /\ OldWereMinted' /\ DeliverableIsLive'
    BY <2>1 DEF LiveInv, LiveIsFresh, OldWereMinted, DeliverableIsLive
  <2>3. MailersKnow'
    BY <1>2, <2>1 DEF LiveInv, MailersKnow, Mails
  <2>4. MailersApart'
    BY <1>2 DEF LiveInv, MailersApart, Mails
  <2> QED BY <2>2, <2>3, <2>4 DEF LiveInv
<1>3. ASSUME NEW op \in Ops, Mint(s, op) PROVE LiveInv'
  <2>1. UNCHANGED linkVars
    BY <1>3 DEF Mint, linkVars
  <2>2. req'[s].pc = "set" /\ \A t \in Slots \ {s} : req'[t] = req[t]
    BY <1>0, <1>3, ConstantTypes DEF Mint, Begin, Requests, Request
  <2> QED BY <1>2, <2>1, <2>2 DEF Mails
<1>4. ASSUME NEW l \in Links, SetLink(s, l) PROVE LiveInv'
  <2>1. /\ link[l].fate = "unused" /\ link'[l].fate = "minted"
        /\ \A m \in Links \ {l} : link'[m] = link[m]
    BY <1>4 DEF SetLink, Types
  <2>2. /\ req[s].pc = "set" /\ req'[s].pc = "reread" /\ req'[s].link = l
        /\ \A t \in Slots \ {s} : req'[t] = req[t]
    BY <1>0, <1>4 DEF SetLink, Requests, Request
  <2>3. /\ live' = l /\ used' = used
        /\ superseded' = superseded \cup ({live} \ {NoLink})
    BY <1>4 DEF SetLink
  <2>4. live \in Links => live # l
    BY <2>1 DEF LiveInv, LiveIsFresh, Deliverable
  <2>5. l \notin used' \cup superseded'
    BY <2>1, <2>3, <2>4 DEF LiveInv, OldWereMinted
  <2>6. LiveIsFresh'
    BY <2>1, <2>3, <2>5 DEF LiveIsFresh, Deliverable
  <2>7. OldWereMinted'
    <3>1. ASSUME NEW m \in used' \cup superseded' PROVE link'[m].fate # "unused"
      <4>1. m \in Links /\ m # l
        BY <2>5 DEF Types
      <4>2. m \in used \cup superseded \/ m = live
        BY <2>3
      <4>3. link[m].fate # "unused"
        BY <4>1, <4>2 DEF LiveInv, OldWereMinted, LiveIsFresh, Deliverable
      <4> QED BY <2>1, <4>1, <4>3
    <3> QED BY <3>1 DEF OldWereMinted
  <2>8. DeliverableIsLive'
    <3>1. ASSUME NEW m \in Links \ {l}, link[m].fate \in Deliverable,
                 m \notin used' \cup superseded'
          PROVE  FALSE
      <4>1. live = m
        BY <2>3, <3>1 DEF LiveInv, DeliverableIsLive
      <4> QED BY <2>3, <3>1, <4>1, NoLinkAssumption
    <3> QED BY <2>1, <2>3, <3>1 DEF DeliverableIsLive
  <2>9. \A t \in Slots \ {s} : Mails(t) => /\ req[t].link # l
                                           /\ req[t].link \in Links
    BY <1>0, <2>1, AboutLink DEF LiveInv, MailersKnow, Mails, LinkSteps
  <2>10. MailersKnow'
    BY <2>1, <2>2, <2>9 DEF LiveInv, MailersKnow, Mails
  <2>11. MailersApart'
    BY <2>2, <2>9 DEF LiveInv, MailersApart, Mails
  <2> QED BY <2>6, <2>7, <2>8, <2>10, <2>11 DEF LiveInv
<1>5. ASSUME NEW l \in Links, Reset(s, l) PROVE LiveInv'
  <2>1. UNCHANGED linkVars
    BY <1>5 DEF Reset
  <2>2. req'[s].pc = "consume" /\ \A t \in Slots \ {s} : req'[t] = req[t]
    BY <1>0, <1>5, ConstantTypes DEF Reset, Begin, Requests, Request
  <2> QED BY <1>2, <2>1, <2>2 DEF Mails
<1>6. CASE RereadState(s)
  <2>1. Mails(s) /\ link[j].fate = "minted" /\ j \in Links
    BY <1>0, <1>6, AboutLink
       DEF RereadState, Mails, LinkSteps, LiveInv, MailersKnow
  <2>2. CASE Unchanged(req[s].seen)
    <3>1. Goto(s, "mail") /\ UNCHANGED <<live, link, used, superseded>>
      BY <1>6, <2>2 DEF RereadState
    <3>2. /\ req'[s].pc = "mail" /\ req'[s].link = j
          /\ \A t \in Slots \ {s} : req'[t] = req[t]
      BY <1>0, <3>1, GotoEffect DEF Steps
    <3> QED BY <1>1, <2>1, <3>1, <3>2 DEF Deliverable
  <2>3. CASE ~Unchanged(req[s].seen)
    <3>1. /\ Withdraw(j) /\ Become(j, "dropped") /\ End(s)
          /\ UNCHANGED <<used, superseded>>
      BY <1>6, <2>3 DEF RereadState
    <3>2. /\ link'[j].fate = "dropped"
          /\ \A l \in Links \ {j} : link'[l] = link[l]
      BY <2>1, <3>1, BecomeEffect DEF Fates
    <3>3. ~Mails(s)' /\ \A t \in Slots \ {s} : req'[t] = req[t]
      BY <1>0, <3>1, EndEffect, ConstantTypes DEF Mails
    <3>4. live' = IF live = j THEN NoLink ELSE live
      BY <3>1 DEF Withdraw
    <3> QED BY <1>1, <2>1, <3>1, <3>2, <3>3, <3>4 DEF Deliverable
  <2> QED BY <2>2, <2>3
<1>7. CASE SendMail(s)
  <2>1. Mails(s) /\ link[j].fate = "minted" /\ j \in Links
    BY <1>0, <1>7, AboutLink
       DEF SendMail, Mails, LinkSteps, LiveInv, MailersKnow
  <2>2. /\ link'[j].fate = "sent"
        /\ \A l \in Links \ {j} : link'[l] = link[l]
    BY <1>7, <2>1, BecomeEffect DEF SendMail, Fates
  <2>3. ~Mails(s)' /\ \A t \in Slots \ {s} : req'[t] = req[t]
    BY <1>0, <1>7, EndEffect, ConstantTypes DEF SendMail, Mails
  <2>4. UNCHANGED <<live, used, superseded>>
    BY <1>7 DEF SendMail
  <2> QED BY <1>1, <2>1, <2>2, <2>3, <2>4 DEF Deliverable
<1>8. CASE MailFails(s)
  <2>1. Mails(s) /\ link[j].fate = "minted" /\ j \in Links
    BY <1>0, <1>8, AboutLink
       DEF MailFails, Mails, LinkSteps, LiveInv, MailersKnow
  <2>2. /\ link'[j].fate = "unsent"
        /\ \A l \in Links \ {j} : link'[l] = link[l]
    BY <1>8, <2>1, BecomeEffect DEF MailFails, Fates
  <2>3. /\ ~Mails(s)' \/ (req'[s].pc = "discard" /\ req'[s].link = j)
        /\ \A t \in Slots \ {s} : req'[t] = req[t]
    BY <1>0, <1>8, EndEffect, GotoEffect, ConstantTypes
       DEF MailFails, Mails, Steps
  <2>4. UNCHANGED <<live, used, superseded>>
    BY <1>8 DEF MailFails
  <2> QED BY <1>1, <2>1, <2>2, <2>3, <2>4 DEF Deliverable
<1>9. CASE DiscardUndelivered(s)
  <2>1. Mails(s) /\ j \in Links
    BY <1>0, <1>9, AboutLink DEF DiscardUndelivered, Mails, LinkSteps
  <2>2. /\ link'[j].fate = "withdrawn"
        /\ \A l \in Links \ {j} : link'[l] = link[l]
    BY <1>9, <2>1, BecomeEffect DEF DiscardUndelivered, Fates
  <2>3. ~Mails(s)' /\ \A t \in Slots \ {s} : req'[t] = req[t]
    BY <1>0, <1>9, EndEffect, ConstantTypes DEF DiscardUndelivered, Mails
  <2>4. /\ UNCHANGED <<used, superseded>>
        /\ live' = IF live = j THEN NoLink ELSE live
    BY <1>9 DEF DiscardUndelivered, Withdraw
  <2> QED BY <1>1, <2>1, <2>2, <2>3, <2>4 DEF Deliverable
<1>10. CASE DiscardFails(s)
  <2>1. Mails(s) /\ link[j].fate = "unsent" /\ j \in Links
    BY <1>0, <1>10, AboutLink
       DEF DiscardFails, Mails, LinkSteps, LiveInv, MailersKnow
  <2>2. /\ link'[j].fate = "stranded"
        /\ \A l \in Links \ {j} : link'[l] = link[l]
    BY <1>10, <2>1, BecomeEffect DEF DiscardFails, Fates
  <2>3. ~Mails(s)' /\ \A t \in Slots \ {s} : req'[t] = req[t]
    BY <1>0, <1>10, EndEffect, ConstantTypes DEF DiscardFails, Mails
  <2>4. UNCHANGED <<live, used, superseded>>
    BY <1>10 DEF DiscardFails
  <2> QED BY <1>1, <2>1, <2>2, <2>3, <2>4 DEF Deliverable
<1>11. CASE ConsumeLink(s)
  <2>1. req[s].pc = "consume" /\ j \in Links
    BY <1>0, <1>11, AboutLink DEF ConsumeLink, LinkSteps
  <2>2. ~Mails(s)' /\ \A t \in Slots \ {s} : req'[t] = req[t]
    BY <1>0, <1>11, EndEffect, GotoEffect, ConstantTypes
       DEF ConsumeLink, Mails, Steps
  <2>3. link' = link /\ superseded' = superseded
    BY <1>11 DEF ConsumeLink
  <2>4. CASE live = j
    <3>1. live' = NoLink /\ used' = used \cup {j}
      BY <1>11, <2>4 DEF ConsumeLink
    <3>2. LiveIsFresh'
      BY <3>1, NoLinkAssumption DEF LiveIsFresh
    <3>3. OldWereMinted'
      BY <2>1, <2>3, <2>4, <3>1
         DEF LiveInv, OldWereMinted, LiveIsFresh, Deliverable
    <3>4. DeliverableIsLive'
      BY <2>3, <2>4, <3>1 DEF LiveInv, DeliverableIsLive
    <3>5. MailersKnow' /\ MailersApart'
      BY <2>2, <2>3 DEF LiveInv, MailersKnow, MailersApart, Mails
    <3> QED BY <3>2, <3>3, <3>4, <3>5 DEF LiveInv
  <2>5. CASE live # j
    <3>1. UNCHANGED linkVars
      BY <1>11, <2>5 DEF ConsumeLink, linkVars
    <3> QED BY <1>2, <2>2, <3>1
  <2> QED BY <2>4, <2>5
<1>12. CASE RecheckState(s) \/ ReadRecord(s)
  <2>1. UNCHANGED linkVars
    BY <1>12 DEF RecheckState, ReadRecord
  <2>2. CASE End(s)
    BY <1>0, <1>2, <2>1, <2>2, EndEffect, ConstantTypes DEF Mails
  <2>3. CASE Goto(s, "read")
    BY <1>0, <1>2, <2>1, <2>3, GotoEffect DEF Mails, Steps
  <2>4. CASE req' = [req EXCEPT ![s].pc = "write", ![s].seen = account]
    <3>1. req'[s].pc = "write" /\ \A t \in Slots \ {s} : req'[t] = req[t]
      BY <1>0, <2>4 DEF Requests, Request
    <3> QED BY <1>2, <2>1, <3>1 DEF Mails
  <2> QED BY <1>12, <2>2, <2>3, <2>4 DEF RecheckState, ReadRecord
<1>13. ASSUME NEW cin \in Shapes, WriteByLink(s, cin) PROVE LiveInv'
  <2>1. UNCHANGED <<live, link, used, superseded>> /\ End(s)
    BY <1>13 DEF WriteByLink
  <2>2. ~Mails(s)' /\ \A t \in Slots \ {s} : req'[t] = req[t]
    BY <1>0, <2>1, EndEffect, ConstantTypes DEF Mails
  <2>3. LiveIsFresh' /\ OldWereMinted' /\ DeliverableIsLive'
    BY <2>1 DEF LiveInv, LiveIsFresh, OldWereMinted, DeliverableIsLive
  <2>4. MailersKnow' /\ MailersApart'
    BY <2>1, <2>2 DEF LiveInv, MailersKnow, MailersApart, Mails
  <2> QED BY <2>3, <2>4 DEF LiveInv
<1> QED BY <1>3, <1>4, <1>5, <1>6, <1>7, <1>8, <1>9, <1>10, <1>11, <1>12,
           <1>13 DEF LinkStep

LEMMA LiveInit == Init => LiveInv
<1> SUFFICES ASSUME Init PROVE LiveInv
  OBVIOUS
<1>1. \A s \in Slots : req[s].pc = "idle"
  BY ConstantTypes DEF Init
<1>2. \A j \in Links : link[j].fate = "unused"
  BY DEF Init
<1>3. live = NoLink /\ used = {} /\ superseded = {}
  BY DEF Init
<1> QED BY <1>1, <1>2, <1>3, NoLinkAssumption
        DEF LiveInv, LiveIsFresh, OldWereMinted, DeliverableIsLive,
            MailersKnow, MailersApart, Mails, Deliverable

LEMMA LiveStep ==
    ASSUME Types, Types', LiveInv, [Next]_vars
    PROVE  LiveInv'
<1>1. CASE UNCHANGED vars
  BY <1>1, LiveInvFrame DEF vars, linkVars
<1>2. CASE Next
  BY <1>2, NextParts, LiveInvLinkStep, LiveInvFrame, SetupStepFrame,
     OtherStepFrame
<1> QED BY <1>1, <1>2

-----------------------------------------------------------------------------
(* A link sets one password.                                               *)

\* The one request that was granted a link has not spent it; a request that
\* began with a superseded link is never granted it.
Holds(s) == req[s].op = "reset" /\ req[s].pc \in {"recheck", "read", "write"}
GrantUnspent ==
    \A s \in Slots : Holds(s) => /\ req[s].link \in used /\ ~req[s].late
                                 /\ spent[req[s].link].times = 0
GrantsApart ==
    \A s, t \in Slots :
        Holds(s) /\ Holds(t) /\ req[s].link = req[t].link => s = t
LateIsSuperseded ==
    \A s \in Slots :
        req[s].pc = "consume" /\ req[s].late => req[s].link \in superseded
SpentWasUsed ==
    \A j \in Links : /\ spent[j].times <= 1 /\ ~spent[j].late
                     /\ spent[j].times > 0 => j \in used

GrantInv == GrantUnspent /\ GrantsApart /\ LateIsSuperseded /\ SpentWasUsed

LEMMA HoldsLink ==
    ASSUME Types, NEW s \in Slots, Holds(s)
    PROVE  req[s].link \in Links
BY DEF Types, Requests, WellFormed, Holds, LinkSteps

\* A step after which its request is neither granted nor asks for a link.
LEMMA GrantFrame ==
    ASSUME Types, GrantInv, UNCHANGED <<used, spent>>,
           superseded \subseteq superseded',
           \A t \in Slots : \/ req'[t] = req[t]
                            \/ ~Holds(t)' /\ req'[t].pc # "consume"
    PROVE  GrantInv'
<1>1. GrantUnspent' /\ GrantsApart'
  BY DEF GrantInv, GrantUnspent, GrantsApart, Holds
<1>2. LateIsSuperseded'
  BY DEF GrantInv, LateIsSuperseded
<1>3. SpentWasUsed'
  BY DEF GrantInv, SpentWasUsed
<1> QED BY <1>1, <1>2, <1>3 DEF GrantInv

LEMMA GrantOtherFrame ==
    ASSUME Types, Types', GrantInv, UNCHANGED linkVars,
           \A t \in Slots : req'[t] = req[t] \/ req'[t].link \notin Links
    PROVE  GrantInv'
<1>1. \A t \in Slots : Holds(t)' \/ req'[t].pc = "consume"
                          => req'[t].link \in Links
  BY DEF Types, Requests, WellFormed, Holds, LinkSteps
<1>2. UNCHANGED <<used, spent, superseded>>
  BY DEF linkVars
<1> QED BY <1>1, <1>2, GrantFrame

LEMMA GrantLinkStep ==
    ASSUME Types, Types', LiveInv, GrantInv, NEW s \in Slots, LinkStep(s)
    PROVE  GrantInv'
<1>0. Requests /\ req[s] \in Request /\ WellFormed(req[s])
  BY DEF Types, Requests
<1> DEFINE j == req[s].link
<1>1. ASSUME NEW op \in Ops, Mint(s, op) PROVE GrantInv'
  <2>1. UNCHANGED <<used, spent, superseded>>
    BY <1>1 DEF Mint
  <2>2. req'[s].pc = "set" /\ \A t \in Slots \ {s} : req'[t] = req[t]
    BY <1>0, <1>1, ConstantTypes DEF Mint, Begin, Requests, Request
  <2> QED BY <2>1, <2>2, GrantFrame DEF Holds
<1>2. ASSUME NEW l \in Links, SetLink(s, l) PROVE GrantInv'
  <2>1. UNCHANGED <<used, spent>> /\ superseded \subseteq superseded'
    BY <1>2 DEF SetLink
  <2>2. req'[s].pc = "reread" /\ \A t \in Slots \ {s} : req'[t] = req[t]
    BY <1>0, <1>2 DEF SetLink, Requests, Request
  <2> QED BY <2>1, <2>2, GrantFrame DEF Holds
<1>3. ASSUME NEW l \in Links, Reset(s, l) PROVE GrantInv'
  <2>1. UNCHANGED <<used, spent, superseded>>
    BY <1>3 DEF Reset, linkVars
  <2> DEFINE late == l \in superseded
  <2>2. late \in BOOLEAN
    OBVIOUS
  <2>3. req' = [req EXCEPT ![s] = [[Idle EXCEPT !.pc = "consume", !.link = l,
                                                !.late = late]
                                   EXCEPT !.op = "reset"]]
    BY <1>3 DEF Reset, Begin
  <2> HIDE DEF late
  <2>4. /\ req'[s].pc = "consume" /\ req'[s].link = l /\ req'[s].late = late
        /\ \A t \in Slots \ {s} : req'[t] = req[t]
    BY <1>0, <2>2, <2>3 DEF Requests, Idle
  <2>5. GrantUnspent' /\ GrantsApart'
    BY <2>1, <2>4 DEF GrantInv, GrantUnspent, GrantsApart, Holds
  <2>6. LateIsSuperseded'
    BY <2>1, <2>4 DEF GrantInv, LateIsSuperseded, late
  <2>7. SpentWasUsed'
    BY <2>1 DEF GrantInv, SpentWasUsed
  <2> QED BY <2>5, <2>6, <2>7 DEF GrantInv
<1>4. CASE \/ RereadState(s) \/ SendMail(s) \/ MailFails(s)
           \/ DiscardUndelivered(s) \/ DiscardFails(s)
  <2>1. UNCHANGED <<used, spent, superseded>>
    BY <1>4 DEF RereadState, SendMail, MailFails, DiscardUndelivered,
                DiscardFails
  <2>2. End(s) \/ Goto(s, "mail") \/ Goto(s, "discard")
    BY <1>4 DEF RereadState, SendMail, MailFails, DiscardUndelivered,
                DiscardFails
  <2>3. /\ req'[s].pc \in {"idle", "mail", "discard"}
        /\ \A t \in Slots \ {s} : req'[t] = req[t]
    BY <1>0, <2>2, EndEffect, GotoEffect, ConstantTypes DEF Steps
  <2> QED BY <2>1, <2>3, GrantFrame DEF Holds
<1>5. CASE ConsumeLink(s)
  <2>1. req[s].pc = "consume" /\ j \in Links /\ req[s].late \in BOOLEAN
    BY <1>0, <1>5, AboutLink DEF ConsumeLink, LinkSteps, Request
  <2>2. spent' = spent /\ superseded' = superseded
    BY <1>5 DEF ConsumeLink
  <2>3. CASE live = j
    <3>1. used' = used \cup {j} /\ Goto(s, "recheck")
      BY <1>5, <2>3 DEF ConsumeLink
    <3>2. /\ req'[s].pc = "recheck" /\ req'[s].link = j
          /\ req'[s].late = req[s].late
          /\ \A t \in Slots \ {s} : req'[t] = req[t]
      BY <1>0, <3>1, GotoEffect DEF Steps
    <3>3. j \notin used /\ j \notin superseded
      BY <2>1, <2>3 DEF LiveInv, LiveIsFresh
    <3>4. ~req[s].late
      BY <2>1, <3>3 DEF GrantInv, LateIsSuperseded
    <3>5. spent[j].times = 0
      BY <2>1, <3>3 DEF GrantInv, SpentWasUsed, Types
    <3>6. \A t \in Slots \ {s} : Holds(t) => req[t].link # j
      BY <3>3 DEF GrantInv, GrantUnspent
    <3>7. GrantUnspent'
      BY <2>2, <3>1, <3>2, <3>4, <3>5 DEF GrantInv, GrantUnspent, Holds
    <3>8. GrantsApart'
      BY <3>2, <3>6 DEF GrantInv, GrantsApart, Holds
    <3>9. LateIsSuperseded'
      BY <2>2, <3>2 DEF GrantInv, LateIsSuperseded
    <3>10. SpentWasUsed'
      BY <2>2, <3>1 DEF GrantInv, SpentWasUsed
    <3> QED BY <3>7, <3>8, <3>9, <3>10 DEF GrantInv
  <2>4. CASE live # j
    <3>1. used' = used /\ End(s)
      BY <1>5, <2>4 DEF ConsumeLink
    <3>2. req'[s].pc = "idle" /\ \A t \in Slots \ {s} : req'[t] = req[t]
      BY <1>0, <3>1, EndEffect, ConstantTypes
    <3> QED BY <2>2, <3>1, <3>2, GrantFrame DEF Holds
  <2> QED BY <2>3, <2>4
<1>6. CASE RecheckState(s) \/ ReadRecord(s)
  <2>1. UNCHANGED <<used, spent, superseded>>
    BY <1>6 DEF RecheckState, ReadRecord, linkVars
  <2>2. Holds(s)
    BY <1>0, <1>6 DEF RecheckState, ReadRecord, WellFormed, Holds
  <2>3. CASE End(s)
    <3>1. req'[s].pc = "idle" /\ \A t \in Slots \ {s} : req'[t] = req[t]
      BY <1>0, <2>3, EndEffect, ConstantTypes
    <3> QED BY <2>1, <3>1, GrantFrame DEF Holds
  <2>4. ASSUME req'[s].link = j, req'[s].late = req[s].late,
               req'[s].pc # "consume",
               \A t \in Slots \ {s} : req'[t] = req[t]
        PROVE  GrantInv'
    <3>1. GrantUnspent' /\ GrantsApart'
      BY <2>1, <2>2, <2>4 DEF GrantInv, GrantUnspent, GrantsApart, Holds
    <3>2. LateIsSuperseded'
      BY <2>1, <2>4 DEF GrantInv, LateIsSuperseded
    <3>3. SpentWasUsed'
      BY <2>1 DEF GrantInv, SpentWasUsed
    <3> QED BY <3>1, <3>2, <3>3 DEF GrantInv
  <2>5. CASE Goto(s, "read")
    BY <1>0, <2>4, <2>5, GotoEffect DEF Steps
  <2>6. CASE req' = [req EXCEPT ![s].pc = "write", ![s].seen = account]
    BY <1>0, <2>4, <2>6 DEF Requests, Request
  <2> QED BY <1>6, <2>3, <2>5, <2>6 DEF RecheckState, ReadRecord
<1>7. ASSUME NEW cin \in Shapes, WriteByLink(s, cin) PROVE GrantInv'
  <2>1. Holds(s) /\ j \in Links /\ req[s].late \in BOOLEAN
    BY <1>0, <1>7, HoldsLink DEF WriteByLink, Holds, Request
  <2>2. UNCHANGED <<used, superseded>>
    BY <1>7 DEF WriteByLink
  <2>3. req'[s].pc = "idle" /\ \A t \in Slots \ {s} : req'[t] = req[t]
    BY <1>0, <1>7, EndEffect, ConstantTypes DEF WriteByLink
  <2>4. CASE Unchanged(req[s].seen)
    <3>1. spent' = [spent EXCEPT ![j].times = @ + 1,
                                 ![j].late = @ \/ req[s].late]
      BY <1>7, <2>4 DEF WriteByLink
    <3>2. spent \in [Links -> [times: Nat, late: BOOLEAN]]
      BY DEF Types
    <3>3. j \in used /\ ~req[s].late /\ spent[j].times = 0 /\ ~spent[j].late
      BY <2>1 DEF GrantInv, GrantUnspent, SpentWasUsed
    <3>4. \A l \in Links \ {j} : spent'[l] = spent[l]
      BY <3>1, <3>2
    <3>5. spent'[j].times = 1 /\ ~spent'[j].late
      BY <2>1, <3>1, <3>2, <3>3
    <3>6. \A t \in Slots \ {s} : Holds(t) => req[t].link \in Links \ {j}
      BY <2>1, HoldsLink DEF GrantInv, GrantsApart
    <3>7. GrantUnspent' /\ GrantsApart'
      BY <2>2, <2>3, <3>4, <3>6 DEF GrantInv, GrantUnspent, GrantsApart, Holds
    <3>8. LateIsSuperseded'
      BY <2>2, <2>3 DEF GrantInv, LateIsSuperseded
    <3>9. SpentWasUsed'
      BY <2>2, <3>3, <3>4, <3>5 DEF GrantInv, SpentWasUsed
    <3> QED BY <3>7, <3>8, <3>9 DEF GrantInv
  <2>5. CASE ~Unchanged(req[s].seen)
    <3>1. spent' = spent
      BY <1>7, <2>5 DEF WriteByLink
    <3> QED BY <2>2, <2>3, <3>1, GrantFrame DEF Holds
  <2> QED BY <2>4, <2>5
<1> QED BY <1>1, <1>2, <1>3, <1>4, <1>5, <1>6, <1>7 DEF LinkStep

LEMMA GrantInit == Init => GrantInv
<1> SUFFICES ASSUME Init PROVE GrantInv
  OBVIOUS
<1>1. \A s \in Slots : req[s].pc = "idle"
  BY ConstantTypes DEF Init
<1>2. \A j \in Links : spent[j].times = 0 /\ ~spent[j].late
  BY DEF Init
<1> QED BY <1>1, <1>2 DEF GrantInv, GrantUnspent, GrantsApart,
                          LateIsSuperseded, SpentWasUsed, Holds

LEMMA GrantStep ==
    ASSUME Types, Types', LiveInv, GrantInv, [Next]_vars
    PROVE  GrantInv'
<1>1. CASE UNCHANGED vars
  BY <1>1, GrantOtherFrame DEF vars, linkVars
<1>2. CASE Next
  BY <1>2, NextParts, GrantLinkStep, GrantOtherFrame, SetupStepFrame,
     OtherStepFrame
<1> QED BY <1>1, <1>2

-----------------------------------------------------------------------------
(* A delayed write lands on the credential it was authorized against.      *)

\* What a link was minted for, and a setup session begun for, is fixed while
\* a request is about it.
LinkInUse == \A s \in Slots : req[s].link \in Links
                                  => link[req[s].link].fate # "unused"
SetupInUse == \A s \in Slots : req[s].op = "setup"
                  => setup[req[s].setup].status \notin {"unused", "open"}

\* A link's write saw the account of the link; a setup session's write, if the
\* password is still the one it saw, saw the password of the session.
ResetSeen ==
    \A s \in Slots : req[s].pc = "write" /\ req[s].op = "reset"
                         => req[s].seen = link[req[s].link].for
PersistSeen ==
    \A s \in Slots :
        req[s].pc = "persist" /\ account.password = req[s].seen.password
        => req[s].seen.password = setup[req[s].setup].for.password

\* Passwords are numbered in the order in which they were stored.
Numbered ==
    /\ account.password.id <= count.passwords
    /\ \A s \in Slots : req[s].seen.password.id <= count.passwords

WriteInv == LinkInUse /\ SetupInUse /\ ResetSeen /\ PersistSeen /\ Numbered

LEMMA LinkMoves ==
    ASSUME Types, Next, NEW j \in Links, link[j].fate # "unused"
    PROVE  link'[j].for = link[j].for /\ link'[j].fate # "unused"
<1>0. Requests
  BY DEF Types
<1>1. ASSUME NEW l \in Links, NEW fate \in Fates \ {"unused"}, Become(l, fate)
      PROVE  link'[j].for = link[j].for /\ link'[j].fate # "unused"
  BY <1>1 DEF Become, Types
<1>2. ASSUME NEW s \in Slots, LinkStep(s)
      PROVE  link'[j].for = link[j].for /\ link'[j].fate # "unused"
  <2>1. CASE link' = link
    BY <2>1
  <2>2. ASSUME NEW l \in Links, SetLink(s, l)
        PROVE  link'[j].for = link[j].for /\ link'[j].fate # "unused"
    BY <2>2 DEF SetLink, Types
  <2>3. CASE \/ RereadState(s) \/ SendMail(s) \/ MailFails(s)
             \/ DiscardUndelivered(s) \/ DiscardFails(s)
    <3>1. req[s].link \in Links
      BY <1>0, <2>3, AboutLink DEF RereadState, SendMail, MailFails,
         DiscardUndelivered, DiscardFails, LinkSteps
    <3>2. \/ link' = link
          \/ \E fate \in {"dropped", "sent", "unsent", "withdrawn", "stranded"} :
                 Become(req[s].link, fate)
      BY <2>3 DEF RereadState, SendMail, MailFails, DiscardUndelivered,
                  DiscardFails
    <3> QED BY <1>1, <2>1, <3>1, <3>2 DEF Fates
  <2>4. CASE \/ \E op \in Ops : Mint(s, op)
             \/ \E l \in Links : Reset(s, l)
             \/ ConsumeLink(s) \/ RecheckState(s) \/ ReadRecord(s)
             \/ \E cin \in Shapes : WriteByLink(s, cin)
    BY <2>1, <2>4 DEF Mint, Reset, ConsumeLink, RecheckState, ReadRecord,
                      WriteByLink, linkVars
  <2> QED BY <1>2, <2>2, <2>3, <2>4 DEF LinkStep
<1>3. CASE link' = link
  BY <1>3
<1> QED BY <1>2, <1>3, NextParts, SetupStepFrame, OtherStepFrame DEF linkVars

LEMMA SetupMoves ==
    ASSUME Types, Next, NEW k \in Setups, setup[k].status # "unused"
    PROVE  /\ setup'[k].for = setup[k].for
           /\ setup'[k].status # "unused"
           /\ setup'[k].status = "open" => setup[k].status = "open"
<1> DEFINE Kept == /\ setup'[k].for = setup[k].for
                   /\ setup'[k].status # "unused"
                   /\ setup'[k].status = "open" => setup[k].status = "open"
<1>1. ASSUME NEW l \in Setups, NEW status \in SetupStatus \ {"unused", "open"},
             setup' = [setup EXCEPT ![l].status = status]
      PROVE  Kept
  BY <1>1 DEF Types
<1>2. CASE setup' = setup
  BY <1>2
<1>3. ASSUME NEW s \in Slots, SetupStep(s) PROVE Kept
  <2>0. Requests
    BY DEF Types
  <2>1. ASSUME NEW l \in Setups, BeginSetup(s, l) PROVE Kept
    BY <2>1 DEF BeginSetup, Types
  <2>2. CASE CheckBegin(s)
    <3>1. req[s].setup \in Setups
      BY <2>0, <2>2, AboutSetup DEF CheckBegin, Beginning
    <3> QED BY <1>1, <1>2, <2>2, <3>1 DEF CheckBegin, SetupStatus
  <2>3. CASE CommitBegin(s)
    BY <2>3 DEF CommitBegin, Types
  <2>4. ASSUME NEW cin \in Shapes, Persist(s, cin) PROVE Kept
    <3>1. req[s].setup \in Setups
      BY <2>0, <2>4, AboutSetup DEF Persist, Requests, WellFormed
    <3> QED BY <1>1, <1>2, <2>4, <3>1 DEF Persist, SetupStatus, stateVars
  <2>5. CASE \/ \E l \in Setups : RequireSetup(s, l)
             \/ ScanActive(s) \/ ReplaceActive(s) \/ ValidateReplacement(s)
             \/ ConsumeSetup(s) \/ ConfirmCredential(s)
    BY <1>2, <2>5 DEF RequireSetup, ScanActive, ReplaceActive,
       ValidateReplacement, ConsumeSetup, ConfirmCredential, stateVars
  <2> QED BY <1>3, <2>1, <2>2, <2>3, <2>4, <2>5 DEF SetupStep
<1>4. ASSUME NEW s \in Slots, LinkStep(s) PROVE setup' = setup
  BY <1>4 DEF LinkStep, Mint, SetLink, Reset, RereadState, SendMail, MailFails,
     DiscardUndelivered, DiscardFails, ConsumeLink, RecheckState, ReadRecord,
     WriteByLink, stateVars
<1>5. CASE OtherStep
  <2>1. ASSUME NEW s \in Slots, Die(s) PROVE Kept
    BY <2>1 DEF Die, Types
  <2>2. ASSUME NEW l \in Setups, CancelSetup(l) \/ LapseSetup(l) PROVE Kept
    BY <1>1, <2>2 DEF CancelSetup, LapseSetup, SetupStatus
  <2>3. CASE \/ \E s \in Slots : \/ ChangePassword(s) \/ Login(s)
                                 \/ \E cin \in Shapes : WriteByChange(s, cin)
                                 \/ VerifyLogin(s)
             \/ UpdateAccount
             \/ \E kind \in Kinds : ResetToTemporaryCredential(kind)
    BY <1>2, <2>3 DEF ChangePassword, WriteByChange, Login, VerifyLogin,
       UpdateAccount, ResetToTemporaryCredential, stateVars
  <2> QED BY <1>5, <2>1, <2>2, <2>3 DEF OtherStep
<1> QED BY <1>2, <1>3, <1>4, <1>5, NextParts

\* What a step makes of the request in a slot, as far as WriteInv can tell.
Same(t) == req'[t] = req[t]
Elsewhere(t) ==
    /\ req'[t].seen \in {req[t].seen, account, NoAccount}
    /\ req'[t].pc # "persist"
    /\ ~(req'[t].pc = "write" /\ req'[t].op = "reset")
    /\ req'[t].op = "setup" =>
          \/ req[t].op = "setup" /\ req'[t].setup = req[t].setup
          \/ /\ req'[t].setup \in Setups
             /\ setup[req'[t].setup].status = "active"
    /\ req'[t].link \in Links =>
          req'[t].link = req[t].link \/ link'[req'[t].link].fate # "unused"
ReadsForLink(t) ==
    /\ req'[t].seen = account /\ req'[t].pc = "write" /\ req'[t].op = "reset"
    /\ req'[t].link = req[t].link /\ req[t].link \in Links
    /\ account = link[req[t].link].for /\ link' = link
Confirms(t) ==
    /\ req'[t].seen = req[t].seen /\ req'[t].pc = "persist"
    /\ req[t].op = "setup" /\ req'[t].op = "setup"
    /\ req'[t].setup = req[t].setup /\ req'[t].link = req[t].link
    /\ account = setup[req[t].setup].for
    /\ account' = account /\ setup' = setup
RequestMoves(t) == Same(t) \/ Elsewhere(t) \/ ReadsForLink(t) \/ Confirms(t)

LEMMA EndMoves ==
    ASSUME Requests, NEW s \in Slots, End(s), NEW t \in Slots
    PROVE  RequestMoves(t)
BY EndEffect, ConstantTypes, NoLinkAssumption
   DEF RequestMoves, Same, Elsewhere

LEMMA GotoMoves ==
    ASSUME Requests, NEW s \in Slots,
           NEW pc \in Steps \ {"persist", "write"}, Goto(s, pc),
           NEW t \in Slots
    PROVE  RequestMoves(t)
<1>1. pc # "persist" /\ pc # "write" /\ pc \in Steps
  OBVIOUS
<1>2. CASE t = s
  BY <1>1, <1>2, GotoEffect DEF RequestMoves, Elsewhere
<1>3. CASE t # s
  BY <1>1, <1>3, GotoEffect DEF RequestMoves, Same
<1> QED BY <1>2, <1>3

LEMMA LinkRequestMoves ==
    ASSUME Types, NEW s \in Slots, LinkStep(s), NEW t \in Slots
    PROVE  RequestMoves(t)
<1>0. Requests /\ req[s] \in Request /\ WellFormed(req[s])
  BY DEF Types, Requests
<1>1. ASSUME NEW op \in Ops, Mint(s, op) PROVE RequestMoves(t)
  <2>1. /\ req' = [req EXCEPT ![s] = [[Idle EXCEPT !.pc = "set", !.seen = account]
                                      EXCEPT !.op = op]]
        /\ op \in {"forgot", "send", "resend"}
    BY <1>1 DEF Mint, Begin
  <2>2. /\ req'[s].seen = account /\ req'[s].pc = "set"
        /\ req'[s].op \in {"forgot", "send", "resend"}
        /\ req'[s].link = NoLink
    BY <1>0, <2>1 DEF Requests, Idle
  <2>3. \A u \in Slots \ {s} : req'[u] = req[u]
    BY <1>0, <2>1 DEF Requests
  <2> QED BY <2>2, <2>3, NoLinkAssumption DEF RequestMoves, Same, Elsewhere
<1>2. ASSUME NEW l \in Links, SetLink(s, l) PROVE RequestMoves(t)
  <2>1. /\ req'[s].pc = "reread" /\ req'[s].link = l
        /\ req'[s].seen = req[s].seen /\ req'[s].op = req[s].op
        /\ req[s].pc = "set"
        /\ \A u \in Slots \ {s} : req'[u] = req[u]
    BY <1>0, <1>2 DEF SetLink, Requests, Request
  <2>2. link'[l].fate = "minted"
    BY <1>2 DEF SetLink, Types
  <2>3. req[s].op # "setup"
    BY <1>0, <2>1 DEF WellFormed
  <2> QED BY <2>1, <2>2, <2>3 DEF RequestMoves, Same, Elsewhere
<1>3. ASSUME NEW l \in Links, Reset(s, l) PROVE RequestMoves(t)
  <2> DEFINE late == l \in superseded
  <2>1. late \in BOOLEAN
    OBVIOUS
  <2>2. req' = [req EXCEPT ![s] = [[Idle EXCEPT !.pc = "consume", !.link = l,
                                                !.late = late]
                                   EXCEPT !.op = "reset"]]
    BY <1>3 DEF Reset, Begin
  <2>3. link[l].fate # "unused" /\ link' = link
    BY <1>3 DEF Reset, Mailed, linkVars
  <2> HIDE DEF late
  <2>4. /\ req'[s].pc = "consume" /\ req'[s].link = l /\ req'[s].op = "reset"
        /\ req'[s].seen = NoAccount
        /\ \A u \in Slots \ {s} : req'[u] = req[u]
    BY <1>0, <2>1, <2>2 DEF Requests, Idle
  <2> QED BY <2>3, <2>4 DEF RequestMoves, Same, Elsewhere
<1>4. CASE \/ RereadState(s) \/ SendMail(s) \/ MailFails(s)
           \/ DiscardUndelivered(s) \/ DiscardFails(s) \/ ConsumeLink(s)
           \/ RecheckState(s) \/ \E cin \in Shapes : WriteByLink(s, cin)
  <2>1. \/ End(s)
        \/ \E pc \in {"mail", "discard", "recheck", "read"} : Goto(s, pc)
    BY <1>4 DEF RereadState, SendMail, MailFails, DiscardUndelivered,
       DiscardFails, ConsumeLink, RecheckState, WriteByLink
  <2> QED BY <1>0, <2>1, EndMoves, GotoMoves DEF Steps
<1>5. CASE ReadRecord(s)
  <2>1. CASE End(s)
    BY <1>0, <2>1, EndMoves
  <2>2. CASE /\ req' = [req EXCEPT ![s].pc = "write", ![s].seen = account]
             /\ Unchanged(link[req[s].link].for)
    <3>1. req[s].pc = "read" /\ req[s].link \in Links /\ req[s].op = "reset"
      BY <1>0, <1>5, AboutLink DEF ReadRecord, LinkSteps, WellFormed
    <3>2. /\ req'[s].pc = "write" /\ req'[s].seen = account
          /\ req'[s].op = "reset" /\ req'[s].link = req[s].link
          /\ \A u \in Slots \ {s} : req'[u] = req[u]
      BY <1>0, <2>2, <3>1 DEF Requests, Request
    <3>3. account = link[req[s].link].for /\ link' = link
      BY <1>5, <2>2 DEF ReadRecord, Unchanged, linkVars
    <3> QED BY <3>1, <3>2, <3>3 DEF RequestMoves, Same, ReadsForLink
  <2> QED BY <1>5, <2>1, <2>2 DEF ReadRecord
<1> QED BY <1>1, <1>2, <1>3, <1>4, <1>5 DEF LinkStep

LEMMA SetupRequestMoves ==
    ASSUME Types, NEW s \in Slots, SetupStep(s), NEW t \in Slots
    PROVE  RequestMoves(t)
<1>0. Requests /\ req[s] \in Request /\ WellFormed(req[s])
  BY DEF Types, Requests
\* A step that changes neither what the request is about nor its purpose.
<1>1. ASSUME req'[s].op = req[s].op, req'[s].link = req[s].link,
             req'[s].seen \in {req[s].seen, account},
             req'[s].pc \notin {"persist", "write"},
             req'[s].op = "setup" => req'[s].setup = req[s].setup,
             \A u \in Slots \ {s} : req'[u] = req[u]
      PROVE  RequestMoves(t)
  BY <1>1 DEF RequestMoves, Same, Elsewhere
<1>2. ASSUME NEW k \in Setups, BeginSetup(s, k) PROVE RequestMoves(t)
  <2>1. req[s].op = "login"
    BY <1>0, <1>2 DEF BeginSetup, WellFormed
  <2>2. /\ req'[s].op = req[s].op /\ req'[s].link = req[s].link
        /\ req'[s].seen = req[s].seen /\ req'[s].pc = "scan"
        /\ \A u \in Slots \ {s} : req'[u] = req[u]
    BY <1>0, <1>2 DEF BeginSetup, Requests, Request
  <2> QED BY <1>1, <2>1, <2>2
<1>3. ASSUME NEW k \in Setups, RequireSetup(s, k) PROVE RequestMoves(t)
  <2>1. req' = [req EXCEPT ![s] = [[Idle EXCEPT !.pc = "validate", !.setup = k]
                                   EXCEPT !.op = "setup"]]
    BY <1>3 DEF RequireSetup, Begin
  <2>2. setup[k].status = "active"
    BY <1>3 DEF RequireSetup
  <2>3. /\ req'[s].pc = "validate" /\ req'[s].setup = k
        /\ req'[s].link = NoLink /\ req'[s].seen = NoAccount
        /\ \A u \in Slots \ {s} : req'[u] = req[u]
    BY <1>0, <2>1 DEF Requests, Idle
  <2> QED BY <2>2, <2>3, NoLinkAssumption DEF RequestMoves, Same, Elsewhere
<1>4. CASE ScanActive(s) \/ ReplaceActive(s)
  <2>1. /\ req'[s].op = req[s].op /\ req'[s].link = req[s].link
        /\ req'[s].seen = req[s].seen /\ req'[s].setup = req[s].setup
        /\ req'[s].pc \in {"replace", "check"}
        /\ \A u \in Slots \ {s} : req'[u] = req[u]
    BY <1>0, <1>4 DEF ScanActive, ReplaceActive, Requests, Request
  <2> QED BY <1>1, <2>1
<1>5. CASE \/ CheckBegin(s) \/ CommitBegin(s)
           \/ \E cin \in Shapes : Persist(s, cin)
  <2>1. End(s) \/ Goto(s, "commit")
    BY <1>5 DEF CheckBegin, CommitBegin, Persist
  <2> QED BY <1>0, <2>1, EndMoves, GotoMoves DEF Steps
<1>6. CASE ValidateReplacement(s)
  <2>1. CASE req' = [req EXCEPT ![s].pc = "claim", ![s].seen = account]
    <3>1. /\ req'[s].op = req[s].op /\ req'[s].link = req[s].link
          /\ req'[s].seen = account /\ req'[s].setup = req[s].setup
          /\ req'[s].pc = "claim"
          /\ \A u \in Slots \ {s} : req'[u] = req[u]
      BY <1>0, <2>1 DEF Requests, Request
    <3> QED BY <1>1, <3>1
  <2> QED BY <1>0, <1>6, <2>1, EndMoves DEF ValidateReplacement
<1>7. CASE ConsumeSetup(s)
  <2>1. CASE req' = [req EXCEPT ![s].pc = "confirm", ![s].rows = {req[s].setup}]
    <3>1. /\ req'[s].op = req[s].op /\ req'[s].link = req[s].link
          /\ req'[s].seen = req[s].seen /\ req'[s].setup = req[s].setup
          /\ req'[s].pc = "confirm"
          /\ \A u \in Slots \ {s} : req'[u] = req[u]
      BY <1>0, <2>1 DEF Requests, Request
    <3> QED BY <1>1, <3>1
  <2> QED BY <1>0, <1>7, <2>1, EndMoves DEF ConsumeSetup
<1>8. CASE ConfirmCredential(s)
  <2>1. CASE Goto(s, "persist") /\ Unchanged(setup[req[s].setup].for)
    <3>1. req[s].op = "setup"
      BY <1>0, <1>8 DEF ConfirmCredential, WellFormed
    <3>2. /\ req'[s].op = req[s].op /\ req'[s].link = req[s].link
          /\ req'[s].seen = req[s].seen /\ req'[s].setup = req[s].setup
          /\ req'[s].pc = "persist"
          /\ \A u \in Slots \ {s} : req'[u] = req[u]
      BY <1>0, <2>1, GotoEffect DEF Steps
    <3>3. account = setup[req[s].setup].for /\ UNCHANGED <<account, setup>>
      BY <1>8, <2>1 DEF ConfirmCredential, Unchanged, stateVars
    <3> QED BY <3>1, <3>2, <3>3 DEF RequestMoves, Same, Confirms
  <2> QED BY <1>0, <1>8, <2>1, EndMoves DEF ConfirmCredential
<1> QED BY <1>2, <1>3, <1>4, <1>5, <1>6, <1>7, <1>8 DEF SetupStep

LEMMA OtherRequestMoves ==
    ASSUME Types, OtherStep, NEW t \in Slots
    PROVE  RequestMoves(t)
<1>0. Requests
  BY DEF Types
<1>1. ASSUME NEW s \in Slots, ChangePassword(s) \/ Login(s)
      PROVE  RequestMoves(t)
  <2>1. ASSUME NEW op \in {"change", "login"}, NEW pc \in {"write", "verify"},
               Begin(s, op, [Idle EXCEPT !.pc = pc, !.seen = account])
        PROVE  RequestMoves(t)
    <3>1. req' = [req EXCEPT ![s] = [[Idle EXCEPT !.pc = pc, !.seen = account]
                                     EXCEPT !.op = op]]
      BY <2>1 DEF Begin
    <3>2. /\ req'[s].seen = account /\ req'[s].pc = pc /\ req'[s].op = op
          /\ req'[s].link = NoLink
      BY <1>0, <3>1 DEF Requests, Idle
    <3>3. \A u \in Slots \ {s} : req'[u] = req[u]
      BY <1>0, <3>1 DEF Requests
    <3> QED BY <3>2, <3>3, NoLinkAssumption DEF RequestMoves, Same, Elsewhere
  <2> QED BY <1>1, <2>1 DEF ChangePassword, Login
<1>2. ASSUME NEW s \in Slots, \/ VerifyLogin(s) \/ Die(s)
                              \/ \E cin \in Shapes : WriteByChange(s, cin)
      PROVE  RequestMoves(t)
  <2>1. End(s) \/ Goto(s, "begin")
    BY <1>2 DEF VerifyLogin, Die, WriteByChange
  <2> QED BY <1>0, <2>1, EndMoves, GotoMoves DEF Steps
<1>3. CASE \/ UpdateAccount
           \/ \E kind \in Kinds : ResetToTemporaryCredential(kind)
           \/ \E k \in Setups : CancelSetup(k) \/ LapseSetup(k)
  BY <1>3 DEF UpdateAccount, ResetToTemporaryCredential, CancelSetup,
     LapseSetup, RequestMoves, Same
<1> QED BY <1>1, <1>2, <1>3 DEF OtherStep

LEMMA AllRequestsMove ==
    ASSUME Types, Next, NEW t \in Slots
    PROVE  RequestMoves(t)
BY NextParts, LinkRequestMoves, SetupRequestMoves, OtherRequestMoves

LEMMA WriteInvInit == Init => WriteInv
<1> SUFFICES ASSUME Init PROVE WriteInv
  OBVIOUS
<1>1. \A s \in Slots : req[s] = Idle
  BY DEF Init
<1>2. account.password.id = 1 /\ count.passwords = 1
  BY DEF Init
<1>3. NoAccount.password.id = 0
  BY DEF NoAccount, NoPassword
<1>4. LinkInUse /\ SetupInUse /\ ResetSeen /\ PersistSeen
  BY <1>1, ConstantTypes, NoLinkAssumption
     DEF LinkInUse, SetupInUse, ResetSeen, PersistSeen
<1>5. Numbered
  BY <1>1, <1>2, <1>3, ConstantTypes DEF Numbered
<1> QED BY <1>4, <1>5 DEF WriteInv

LEMMA WriteStep ==
    ASSUME Types, Types', WriteInv, [Next]_vars
    PROVE  WriteInv'
<1>1. CASE UNCHANGED vars
  BY <1>1 DEF vars, WriteInv, LinkInUse, SetupInUse, ResetSeen, PersistSeen,
              Numbered
<1>2. CASE Next
  <2>0. /\ \A s \in Slots : req[s] \in Request /\ WellFormed(req[s])
        /\ \A s \in Slots : req'[s] \in Request /\ WellFormed(req'[s])
        /\ account \in Account /\ account' \in Account
        /\ count.passwords \in Nat
    BY DEF Types, Requests
  <2>1. \/ /\ account'.password = account.password
           /\ count'.passwords = count.passwords
        \/ /\ account'.password.id = count.passwords + 1
           /\ count'.passwords = count.passwords + 1
    BY <1>2, PasswordMoves
  <2>2. \A s \in Slots : /\ req[s].seen \in Account
                         /\ req[s].seen.password.id \in Nat
    BY <2>0 DEF Request, Account, Password
  <2>3. LinkInUse'
    <3>1. ASSUME NEW s \in Slots, req'[s].link \in Links
          PROVE  link'[req'[s].link].fate # "unused"
      <4>1. req'[s].link = req[s].link \/ link'[req'[s].link].fate # "unused"
        BY <1>2, <3>1, AllRequestsMove
           DEF RequestMoves, Same, Elsewhere, ReadsForLink, Confirms
      <4>2. CASE req'[s].link = req[s].link
        BY <1>2, <3>1, <4>2, LinkMoves DEF WriteInv, LinkInUse
      <4> QED BY <4>1, <4>2
    <3> QED BY <3>1 DEF LinkInUse
  <2>4. SetupInUse'
    <3>1. ASSUME NEW s \in Slots, req'[s].op = "setup"
          PROVE  setup'[req'[s].setup].status \notin {"unused", "open"}
      <4>1. \/ req[s].op = "setup" /\ req'[s].setup = req[s].setup
            \/ /\ req'[s].setup \in Setups
               /\ setup[req'[s].setup].status = "active"
        BY <1>2, <3>1, AllRequestsMove
           DEF RequestMoves, Same, Elsewhere, ReadsForLink, Confirms
      <4>2. /\ req'[s].setup \in Setups
            /\ setup[req'[s].setup].status \notin {"unused", "open"}
        BY <2>0, <3>1, <4>1 DEF WriteInv, SetupInUse, WellFormed
      <4> QED BY <1>2, <4>2, SetupMoves
    <3> QED BY <3>1 DEF SetupInUse
  <2>5. ResetSeen'
    <3>1. ASSUME NEW s \in Slots, req'[s].pc = "write", req'[s].op = "reset"
          PROVE  req'[s].seen = link'[req'[s].link].for
      <4>1. Same(s) \/ ReadsForLink(s)
        BY <1>2, <3>1, AllRequestsMove DEF RequestMoves, Elsewhere, Confirms
      <4>2. CASE Same(s)
        <5>1. req[s].link \in Links /\ link[req[s].link].fate # "unused"
          BY <2>0, <3>1, <4>2 DEF Same, WellFormed, WriteInv, LinkInUse
        <5> QED BY <1>2, <3>1, <4>2, <5>1, LinkMoves
                DEF Same, WriteInv, ResetSeen
      <4>3. CASE ReadsForLink(s)
        BY <4>3 DEF ReadsForLink
      <4> QED BY <4>1, <4>2, <4>3
    <3> QED BY <3>1 DEF ResetSeen
  <2>6. PersistSeen'
    <3>1. ASSUME NEW s \in Slots, req'[s].pc = "persist",
                 account'.password = req'[s].seen.password
          PROVE  req'[s].seen.password = setup'[req'[s].setup].for.password
      <4>1. Same(s) \/ Confirms(s)
        BY <1>2, <3>1, AllRequestsMove DEF RequestMoves, Elsewhere, ReadsForLink
      <4>2. CASE Same(s)
        <5>1. /\ req[s].setup \in Setups
              /\ setup[req[s].setup].status # "unused"
          BY <2>0, <3>1, <4>2 DEF Same, WellFormed, WriteInv, SetupInUse
        <5>2. req[s].seen.password.id <= count.passwords
          BY DEF WriteInv, Numbered
        <5>3. account'.password = account.password
          BY <2>0, <2>1, <2>2, <3>1, <4>2, <5>2 DEF Same
        <5> QED BY <1>2, <3>1, <4>2, <5>1, <5>3, SetupMoves
                DEF Same, WriteInv, PersistSeen
      <4>3. CASE Confirms(s)
        BY <3>1, <4>3 DEF Confirms
      <4> QED BY <4>1, <4>2, <4>3
    <3> QED BY <3>1 DEF PersistSeen
  <2>7. Numbered'
    <3>1. account.password.id <= count.passwords /\ account.password.id \in Nat
      BY <2>0 DEF WriteInv, Numbered, Account, Password
    <3>2. count.passwords <= count'.passwords /\ count'.passwords \in Nat
      BY <2>0, <2>1
    <3>3. NoAccount.password.id = 0
      BY DEF NoAccount, NoPassword
    <3>4. account'.password.id <= count'.passwords
      BY <2>0, <2>1, <3>1
    <3>5. ASSUME NEW s \in Slots
          PROVE  req'[s].seen.password.id <= count'.passwords
      <4>1. req'[s].seen \in {req[s].seen, account, NoAccount}
        BY <1>2, AllRequestsMove
           DEF RequestMoves, Same, Elsewhere, ReadsForLink, Confirms
      <4>2. req[s].seen.password.id <= count.passwords
        BY DEF WriteInv, Numbered
      <4> QED BY <2>0, <2>2, <3>1, <3>2, <3>3, <4>1, <4>2
    <3> QED BY <3>4, <3>5 DEF Numbered
  <2> QED BY <2>3, <2>4, <2>5, <2>6, <2>7 DEF WriteInv
<1> QED BY <1>1, <1>2

\* Who stores a password, and what for.
LEMMA WriterKnows ==
    ASSUME Types, Next, account'.password # account.password,
           NEW t \in Slots, req'[t] # req[t]
    PROVE  /\ account = req[t].seen
           /\ \/ req[t].pc = "write" /\ req[t].op \in {"reset", "change"}
              \/ req[t].pc = "persist" /\ req[t].op = "setup"
<1>0. Requests /\ \A s \in Slots : WellFormed(req[s])
  BY DEF Types, Requests
<1> DEFINE Known(s) == /\ account = req[s].seen
                       /\ \/ req[s].pc = "write" /\ req[s].op \in {"reset", "change"}
                          \/ req[s].pc = "persist" /\ req[s].op = "setup"
                       /\ \A u \in Slots \ {s} : req'[u] = req[u]
<1>1. ASSUME NEW s \in Slots, LinkStep(s) PROVE Known(s)
  <2>1. ASSUME NEW cin \in Shapes, WriteByLink(s, cin) PROVE Known(s)
    <3>1. Unchanged(req[s].seen)
      BY <2>1 DEF WriteByLink
    <3>2. req[s].pc = "write" /\ req[s].op = "reset"
      BY <2>1 DEF WriteByLink
    <3>3. \A u \in Slots \ {s} : req'[u] = req[u]
      BY <1>0, <2>1, EndEffect DEF WriteByLink
    <3> QED BY <3>1, <3>2, <3>3 DEF Unchanged
  <2>2. CASE account' = account
    BY <2>2
  <2> QED BY <1>1, <2>1, <2>2
          DEF LinkStep, Mint, SetLink, Reset, RereadState, SendMail, MailFails,
              DiscardUndelivered, DiscardFails, ConsumeLink, RecheckState,
              ReadRecord, stateVars
<1>2. ASSUME NEW s \in Slots, SetupStep(s) PROVE Known(s)
  <2>1. ASSUME NEW cin \in Shapes, Persist(s, cin) PROVE Known(s)
    <3>1. Unchanged(req[s].seen)
      BY <2>1 DEF Persist, stateVars
    <3>2. req[s].pc = "persist" /\ req[s].op = "setup"
      BY <1>0, <2>1 DEF Persist, WellFormed
    <3>3. \A u \in Slots \ {s} : req'[u] = req[u]
      BY <1>0, <2>1, EndEffect DEF Persist
    <3> QED BY <3>1, <3>2, <3>3 DEF Unchanged
  <2>2. CASE account' = account
    BY <2>2
  <2> QED BY <1>2, <2>1, <2>2
          DEF SetupStep, BeginSetup, RequireSetup, ScanActive, ReplaceActive,
              CheckBegin, CommitBegin, ValidateReplacement, ConsumeSetup,
              ConfirmCredential, stateVars
<1>3. CASE OtherStep
  <2>1. ASSUME NEW s \in Slots, NEW cin \in Shapes, WriteByChange(s, cin)
        PROVE  Known(s)
    <3>1. Unchanged(req[s].seen)
      BY <2>1 DEF WriteByChange
    <3>2. req[s].pc = "write" /\ req[s].op = "change"
      BY <2>1 DEF WriteByChange
    <3>3. \A u \in Slots \ {s} : req'[u] = req[u]
      BY <1>0, <2>1, EndEffect DEF WriteByChange
    <3> QED BY <3>1, <3>2, <3>3 DEF Unchanged
  <2>2. CASE UpdateAccount \/ \E kind \in Kinds : ResetToTemporaryCredential(kind)
    BY <2>2 DEF UpdateAccount, ResetToTemporaryCredential
  <2>3. CASE account' = account
    BY <2>3
  <2>4. \/ account' = account
        \/ \E s \in Slots : \E cin \in Shapes : WriteByChange(s, cin)
        \/ UpdateAccount
        \/ \E kind \in Kinds : ResetToTemporaryCredential(kind)
    BY <1>3 DEF OtherStep, ChangePassword, Login, VerifyLogin, Die,
                CancelSetup, LapseSetup, stateVars
  <2> QED BY <2>1, <2>2, <2>3, <2>4
<1> QED BY <1>1, <1>2, <1>3, NextParts

LEMMA WritesStep ==
    ASSUME Types, WriteInv, [Next]_vars
    PROVE  \A s \in Slots :
             /\ req[s].pc \in {"write", "persist"} /\ req'[s] # req[s]
             /\ account'.password # account.password
             => /\ account.password = Authority(s).password
                /\ req[s].op # "setup" => account = Authority(s)
<1> SUFFICES ASSUME NEW s \in Slots,
                    req'[s] # req[s], account'.password # account.password
             PROVE  /\ account.password = Authority(s).password
                    /\ req[s].op # "setup" => account = Authority(s)
  OBVIOUS
<1>1. Next
  BY DEF vars
<1>2. /\ account = req[s].seen
      /\ \/ req[s].pc = "write" /\ req[s].op \in {"reset", "change"}
         \/ req[s].pc = "persist" /\ req[s].op = "setup"
  BY <1>1, WriterKnows
<1>3. CASE req[s].op = "reset"
  BY <1>2, <1>3 DEF WriteInv, ResetSeen, Authority
<1>4. CASE req[s].op = "change"
  BY <1>2, <1>4 DEF Authority
<1>5. CASE req[s].op = "setup"
  BY <1>2, <1>5 DEF WriteInv, PersistSeen, Authority
<1> QED BY <1>2, <1>3, <1>4, <1>5

-----------------------------------------------------------------------------
(* The theorems.                                                           *)

LEMMA DiscardStep ==
    ASSUME Types, LiveInv, [Next]_vars
    PROVE  \A j \in Links :
             link[j].fate = "withdrawn" /\ j \in used' => j \in used
<1> SUFFICES ASSUME NEW j \in Links, link[j].fate = "withdrawn", j \in used',
                    j \notin used
             PROVE  FALSE
  OBVIOUS
<1>1. Next
  BY DEF vars
<1>2. PICK s \in Slots : LinkStep(s)
  BY <1>1, NextParts, SetupStepFrame, OtherStepFrame DEF linkVars
<1>3. ConsumeLink(s)
  <2>1. ASSUME NEW op \in Ops, Mint(s, op)
        PROVE  FALSE
    BY <2>1 DEF Mint
  <2>2. ASSUME NEW l \in Links, SetLink(s, l) \/ Reset(s, l)
        PROVE  FALSE
    <3>1. CASE SetLink(s, l)
      BY <3>1 DEF SetLink
    <3>2. CASE Reset(s, l)
      BY <3>2 DEF Reset, linkVars
    <3> QED BY <2>2, <3>1, <3>2
  <2>3. CASE RereadState(s) \/ SendMail(s) \/ MailFails(s)
             \/ DiscardUndelivered(s) \/ DiscardFails(s)
    BY <2>3 DEF RereadState, SendMail, MailFails, DiscardUndelivered,
                DiscardFails
  <2>4. CASE RecheckState(s) \/ ReadRecord(s)
    BY <2>4 DEF RecheckState, ReadRecord, linkVars
  <2>5. ASSUME NEW cin \in Shapes, WriteByLink(s, cin)
        PROVE  FALSE
    BY <2>5 DEF WriteByLink
  <2> QED BY <1>2, <2>1, <2>2, <2>3, <2>4, <2>5 DEF LinkStep
<1>4. live = j
  BY <1>3 DEF ConsumeLink
<1> QED BY <1>4 DEF LiveInv, LiveIsFresh, Deliverable

LEMMA Invariants == Spec => [](Types /\ LiveInv /\ GrantInv /\ WriteInv)
<1>1. Init => Types /\ LiveInv /\ GrantInv /\ WriteInv
  BY TypeInit, LiveInit, GrantInit, WriteInvInit
<1>2. /\ Types /\ LiveInv /\ GrantInv /\ WriteInv
      /\ [Next]_vars
      => (Types /\ LiveInv /\ GrantInv /\ WriteInv)'
  BY TypeStep, LiveStep, GrantStep, WriteStep
<1> QED BY <1>1, <1>2, PTL DEF Spec

\* A link sets one password, and none when a newer link took its place before
\* the request began, however requests, mails and deaths cross
\* (consumeSetPasswordToken takes the link out of the cache in one step).
THEOREM LinksAreSpentOnce == Spec => []LinksWorkOnce
<1>1. GrantInv => LinksWorkOnce
  BY DEF GrantInv, SpentWasUsed, LinksWorkOnce
<1> QED BY <1>1, Invariants, PTL

\* A link that was mailed is the one in the cache until it is used,
\* superseded or its account changes: no late discard takes away another
\* link than its own (discardSetPasswordToken).
THEOREM DeliveredLinksStay == Spec => []DeliveredLinksWork
<1>1. LiveInv => DeliveredLinksWork
  BY DEF LiveInv, DeliverableIsLive, Deliverable, DeliveredLinksWork
<1> QED BY <1>1, Invariants, PTL

\* A link whose discard was confirmed is not granted its use afterwards
\* (discardUndeliveredToken).
THEOREM DiscardIsFinal == Spec => ConfirmedDiscardHolds
<1>1. Types /\ LiveInv /\ [Next]_vars =>
        [\A j \in Links :
           link[j].fate = "withdrawn" /\ j \in used' => j \in used]_vars
  BY DiscardStep
<1> QED BY <1>1, Invariants, PTL DEF Spec, ConfirmedDiscardHolds

\* While a temporary password is in force its replacement is owed, whatever
\* resets, links, changes and setup sessions cross
\* (resetToTemporaryCredential, PasswordSetupService.persist).
THEOREM TemporaryOwed == Spec => []TemporaryIsOwed
<1>1. Init => TemporaryIsOwed
  BY DEF Init, TemporaryIsOwed
<1>2. Types /\ TemporaryIsOwed /\ [Next]_vars => TemporaryIsOwed'
  BY OwedStep
<1> QED BY <1>1, <1>2, Invariants, PTL DEF Spec

\* A password is stored over the password its request proved, and by a link
\* or a change over the whole account it proved, however long the hash took
\* and whatever was stored meanwhile (updateWithCredential).
THEOREM WritesAreAuthorized == Spec => WritesMatchAuthority
<1>1. Types /\ WriteInv /\ [Next]_vars =>
        [\A s \in Slots :
           /\ req[s].pc \in {"write", "persist"} /\ req'[s] # req[s]
           /\ account'.password # account.password
           => /\ account.password = Authority(s).password
              /\ req[s].op # "setup" => account = Authority(s)]_vars
  BY WritesStep
<1> QED BY <1>1, Invariants, PTL DEF Spec, WritesMatchAuthority

-----------------------------------------------------------------------------
(* A setup row is open exactly while one request begins it.                *)

Opening(s) == req[s].pc \in Beginning
IsOpen(k) == setup[k].status = "open"

\* A transaction writes no row that another one is still inserting.
RowsSettled ==
    \A s \in Slots : \A k \in req[s].rows :
        setup[k].status \notin {"unused", "open"}
OpenersApart ==
    \A s, t \in Slots :
        Opening(s) /\ Opening(t) /\ req[s].setup = req[t].setup => s = t
OpenOwned ==
    \A k \in Setups :
        IsOpen(k) <=> \E s \in Slots : req[s].setup = k /\ Opening(s)
OpenInv == RowsSettled /\ OpenersApart /\ OpenOwned

\* What a step does about open rows.
RowsFrom(t) ==
    \A k \in req'[t].rows :
        k \in Setups /\ (k \in req[t].rows \/ setup[k].status = "active")
KeepsOpening(t) ==
    /\ Opening(t)' <=> Opening(t)
    /\ Opening(t) => req'[t].setup = req[t].setup
OpenStays ==
    /\ \A k \in Setups : IsOpen(k)' <=> IsOpen(k)
    /\ \A t \in Slots : KeepsOpening(t)
OpenBegins(s, k) ==
    /\ setup[k].status = "unused" /\ IsOpen(k)'
    /\ ~Opening(s) /\ Opening(s)' /\ req'[s].setup = k
    /\ \A l \in Setups \ {k} : IsOpen(l)' <=> IsOpen(l)
    /\ \A t \in Slots \ {s} : KeepsOpening(t)
OpenEnds(s, k) ==
    /\ Opening(s) /\ ~Opening(s)' /\ req[s].setup = k
    /\ ~IsOpen(k)'
    /\ \A l \in Setups \ {k} : IsOpen(l)' <=> IsOpen(l)
    /\ \A t \in Slots \ {s} : KeepsOpening(t)
OpenMoves ==
    \/ OpenStays
    \/ \E s \in Slots, k \in Setups : OpenBegins(s, k) \/ OpenEnds(s, k)

LEMMA OpenMovesInv ==
    ASSUME Types, Types', OpenersApart, OpenOwned, OpenMoves
    PROVE  OpenersApart' /\ OpenOwned'
<1>0. \A t \in Slots : /\ Opening(t) => req[t].setup \in Setups
                       /\ Opening(t)' => req'[t].setup \in Setups
  BY DEF Types, Requests, WellFormed, Opening
<1>1. CASE OpenStays
  BY <1>0, <1>1 DEF OpenStays, KeepsOpening, OpenersApart, OpenOwned
<1>2. ASSUME NEW s \in Slots, NEW k \in Setups, OpenBegins(s, k)
      PROVE  OpenersApart' /\ OpenOwned'
  <2>1. ~IsOpen(k) /\ IsOpen(k)' /\ Opening(s)' /\ req'[s].setup = k
        /\ ~Opening(s)
    BY <1>2 DEF OpenBegins, IsOpen
  <2>2. \A t \in Slots : Opening(t) => req[t].setup # k
    BY <2>1 DEF OpenOwned
  <2>3. \A t \in Slots \ {s} : KeepsOpening(t)
    BY <1>2 DEF OpenBegins
  <2>4. OpenersApart'
    BY <2>1, <2>2, <2>3 DEF OpenersApart, KeepsOpening
  <2>5. \A l \in Setups \ {k} : IsOpen(l)' <=> IsOpen(l)
    BY <1>2 DEF OpenBegins
  <2>6. OpenOwned'
    BY <2>1, <2>2, <2>3, <2>5 DEF OpenOwned, KeepsOpening
  <2> QED BY <2>4, <2>6
<1>3. ASSUME NEW s \in Slots, NEW k \in Setups, OpenEnds(s, k)
      PROVE  OpenersApart' /\ OpenOwned'
  <2>1. Opening(s) /\ ~Opening(s)' /\ ~IsOpen(k)' /\ req[s].setup = k
    BY <1>3 DEF OpenEnds
  <2>2. \A l \in Setups \ {k} : IsOpen(l)' <=> IsOpen(l)
    BY <1>3 DEF OpenEnds
  <2>3. \A t \in Slots \ {s} : KeepsOpening(t)
    BY <1>3 DEF OpenEnds
  <2>4. \A t \in Slots \ {s} : Opening(t) => req[t].setup # k
    BY <2>1 DEF OpenersApart
  <2>5. OpenersApart'
    BY <2>1, <2>3 DEF OpenersApart, KeepsOpening
  <2>6. ASSUME NEW l \in Setups
        PROVE  IsOpen(l)' <=> \E t \in Slots : req'[t].setup = l /\ Opening(t)'
    <3>1. CASE l = k
      <4>1. \A t \in Slots : ~(req'[t].setup = l /\ Opening(t)')
        BY <2>1, <2>3, <2>4, <3>1 DEF KeepsOpening
      <4> QED BY <2>1, <3>1, <4>1
    <3>2. CASE l # k
      <4>1. IsOpen(l)' <=> IsOpen(l)
        BY <2>2, <3>2
      <4>2. IsOpen(l) <=> \E t \in Slots : req[t].setup = l /\ Opening(t)
        BY DEF OpenOwned
      <4>3. \A t \in Slots : (req'[t].setup = l /\ Opening(t)')
                              <=> (req[t].setup = l /\ Opening(t))
        BY <2>1, <2>3, <3>2 DEF KeepsOpening
      <4> QED BY <4>1, <4>2, <4>3
    <3> QED BY <3>1, <3>2
  <2>7. OpenOwned'
    BY <2>6 DEF OpenOwned
  <2> QED BY <2>5, <2>7
<1> QED BY <1>1, <1>2, <1>3 DEF OpenMoves

\* A request that was not beginning a session, and does not begin one.
LEMMA NotOpening ==
    ASSUME Requests, NEW s \in Slots, ~Opening(s),
           req'[s].pc \notin Beginning,
           \A t \in Slots \ {s} : req'[t] = req[t],
           \A k \in Setups : IsOpen(k)' <=> IsOpen(k)
    PROVE  OpenStays
BY DEF OpenStays, KeepsOpening, Opening

LEMMA EndsOutside ==
    ASSUME Requests, NEW s \in Slots, ~Opening(s),
           \/ End(s)
           \/ \E pc \in Steps \ Beginning : Goto(s, pc),
           \A k \in Setups : IsOpen(k)' <=> IsOpen(k)
    PROVE  OpenStays
<1>1. req'[s].pc \notin Beginning
      /\ \A t \in Slots \ {s} : req'[t] = req[t]
  BY EndEffect, GotoEffect, ConstantTypes DEF Beginning
<1> QED BY <1>1, NotOpening

LEMMA EndsInside ==
    ASSUME Requests, NEW s \in Slots, NEW k \in Setups, Opening(s), End(s),
           req[s].setup = k, ~IsOpen(k)',
           \A l \in Setups \ {k} : IsOpen(l)' <=> IsOpen(l)
    PROVE  OpenEnds(s, k)
<1>1. req'[s].pc \notin Beginning
      /\ \A t \in Slots \ {s} : req'[t] = req[t]
  BY EndEffect, ConstantTypes DEF Beginning
<1> QED BY <1>1 DEF OpenEnds, Opening, KeepsOpening

LEMMA LinkOpenings ==
    ASSUME Types, NEW s \in Slots, LinkStep(s)
    PROVE  OpenStays
<1>0. Requests
  BY DEF Types
<1>1. \A k \in Setups : IsOpen(k)' <=> IsOpen(k)
  BY DEF LinkStep, Mint, SetLink, Reset, RereadState, SendMail, MailFails,
     DiscardUndelivered, DiscardFails, ConsumeLink, RecheckState, ReadRecord,
     WriteByLink, stateVars, IsOpen
<1>2. ASSUME NEW op \in Ops, Mint(s, op) PROVE OpenStays
  <2>1. req[s].pc = "idle"
    BY <1>2, ConstantTypes DEF Mint, Begin
  <2>2. req'[s].pc = "set" /\ \A t \in Slots \ {s} : req'[t] = req[t]
    BY <1>0, <1>2 DEF Mint, Begin, Requests, Idle
  <2> QED BY <1>0, <1>1, <2>1, <2>2, NotOpening DEF Opening, Beginning
<1>3. ASSUME NEW j \in Links, Reset(s, j) PROVE OpenStays
  <2> DEFINE late == j \in superseded
  <2>0. req' = [req EXCEPT ![s] = [[Idle EXCEPT !.pc = "consume", !.link = j,
                                                !.late = late]
                                   EXCEPT !.op = "reset"]]
    BY <1>3 DEF Reset, Begin
  <2>1. req[s].pc = "idle"
    BY <1>3, ConstantTypes DEF Reset, Begin
  <2> HIDE DEF late
  <2>2. req'[s].pc = "consume" /\ \A t \in Slots \ {s} : req'[t] = req[t]
    BY <1>0, <2>0 DEF Requests, Idle
  <2> QED BY <1>0, <1>1, <2>1, <2>2, NotOpening DEF Opening, Beginning
<1>4. ASSUME NEW j \in Links, SetLink(s, j) PROVE OpenStays
  <2>1. req[s].pc = "set" /\ req'[s].pc = "reread"
        /\ \A t \in Slots \ {s} : req'[t] = req[t]
    BY <1>0, <1>4 DEF SetLink, Requests, Request
  <2> QED BY <1>0, <1>1, <2>1, NotOpening DEF Opening, Beginning
<1>5. CASE \/ RereadState(s) \/ SendMail(s) \/ MailFails(s)
           \/ DiscardUndelivered(s) \/ DiscardFails(s) \/ ConsumeLink(s)
           \/ RecheckState(s) \/ \E cin \in Shapes : WriteByLink(s, cin)
  <2>1. \/ End(s)
        \/ \E pc \in {"mail", "discard", "recheck", "read"} : Goto(s, pc)
    BY <1>5 DEF RereadState, SendMail, MailFails, DiscardUndelivered,
       DiscardFails, ConsumeLink, RecheckState, WriteByLink
  <2>2. ~Opening(s)
    BY <1>5 DEF RereadState, SendMail, MailFails, DiscardUndelivered,
       DiscardFails, ConsumeLink, RecheckState, WriteByLink, Opening, Beginning
  <2>3. {"mail", "discard", "recheck", "read"} \subseteq Steps \ Beginning
    BY DEF Steps, Beginning
  <2> QED BY <1>0, <1>1, <2>1, <2>2, <2>3, EndsOutside
<1>6. CASE ReadRecord(s)
  <2>1. ~Opening(s)
    BY <1>6 DEF ReadRecord, Opening, Beginning
  <2>2. CASE End(s)
    BY <1>0, <1>1, <2>1, <2>2, EndsOutside
  <2>3. CASE req' = [req EXCEPT ![s].pc = "write", ![s].seen = account]
    <3>1. req'[s].pc = "write" /\ \A t \in Slots \ {s} : req'[t] = req[t]
      BY <1>0, <2>3 DEF Requests, Request
    <3> QED BY <1>0, <1>1, <2>1, <3>1, NotOpening DEF Beginning
  <2> QED BY <1>6, <2>2, <2>3 DEF ReadRecord
<1> QED BY <1>2, <1>3, <1>4, <1>5, <1>6 DEF LinkStep

LEMMA SetupOpenings ==
    ASSUME Types, RowsSettled, SetupInUse, NEW s \in Slots, SetupStep(s)
    PROVE  OpenMoves
<1>0. Requests /\ req[s] \in Request
  BY DEF Types, Requests
<1>1. ASSUME setup' = setup PROVE \A k \in Setups : IsOpen(k)' <=> IsOpen(k)
  BY <1>1 DEF IsOpen
<1>2. ASSUME NEW k \in Setups, BeginSetup(s, k) PROVE OpenBegins(s, k)
  <2>1. /\ req[s].pc = "begin" /\ req'[s].pc = "scan" /\ req'[s].setup = k
        /\ \A t \in Slots \ {s} : req'[t] = req[t]
    BY <1>0, <1>2 DEF BeginSetup, Requests, Request
  <2>2. /\ setup[k].status = "unused" /\ setup'[k].status = "open"
        /\ \A l \in Setups \ {k} : setup'[l] = setup[l]
    BY <1>2 DEF BeginSetup, Types
  <2> QED BY <2>1, <2>2 DEF OpenBegins, Opening, KeepsOpening, IsOpen, Beginning
<1>3. ASSUME NEW k \in Setups, RequireSetup(s, k) PROVE OpenStays
  <2>1. req[s].pc = "idle" /\ setup' = setup
    BY <1>3, ConstantTypes DEF RequireSetup, Begin, stateVars
  <2>2. req'[s].pc = "validate" /\ \A t \in Slots \ {s} : req'[t] = req[t]
    BY <1>0, <1>3 DEF RequireSetup, Begin, Requests, Idle
  <2> QED BY <1>0, <1>1, <2>1, <2>2, NotOpening DEF Opening, Beginning
<1>4. CASE ScanActive(s) \/ ReplaceActive(s)
  <2>1. /\ req[s].pc \in {"scan", "replace"} /\ setup' = setup
        /\ req'[s].pc \in {"replace", "check"}
        /\ req'[s].setup = req[s].setup
        /\ \A t \in Slots \ {s} : req'[t] = req[t]
    BY <1>0, <1>4 DEF ScanActive, ReplaceActive, Requests, Request, stateVars
  <2> QED BY <1>1, <2>1 DEF OpenStays, OpenMoves, KeepsOpening, Opening, Beginning
<1>5. CASE CheckBegin(s)
  <2>0. req[s].pc = "check" /\ Opening(s) /\ req[s].setup \in Setups
    BY <1>0, <1>5, AboutSetup DEF CheckBegin, Opening, Beginning
  <2>3. PICK k \in Setups : k = req[s].setup
    BY <2>0
  <2>1. CASE Goto(s, "commit") /\ UNCHANGED setup
    <3>1. /\ req'[s].pc = "commit" /\ req'[s].setup = req[s].setup
          /\ \A t \in Slots \ {s} : req'[t] = req[t]
      BY <1>0, <2>1, GotoEffect DEF Steps
    <3> QED BY <1>1, <2>0, <2>1, <3>1
            DEF OpenStays, OpenMoves, KeepsOpening, Opening, Beginning
  <2>2. CASE /\ setup' = [setup EXCEPT ![req[s].setup].status = "void"]
             /\ End(s)
    <3>1. setup' = [setup EXCEPT ![k].status = "void"]
      BY <2>2, <2>3
    <3>2. ~IsOpen(k)' /\ \A l \in Setups \ {k} : IsOpen(l)' <=> IsOpen(l)
      BY <3>1 DEF IsOpen, Types
    <3> QED BY <1>0, <2>0, <2>2, <2>3, <3>2, EndsInside DEF OpenMoves
  <2> QED BY <1>5, <2>1, <2>2 DEF CheckBegin
<1>6. CASE CommitBegin(s)
  <2>0. Opening(s) /\ req[s].setup \in Setups /\ End(s)
    BY <1>0, <1>6, AboutSetup DEF CommitBegin, Opening, Beginning
  <2>3. PICK k \in Setups : k = req[s].setup
    BY <2>0
  <2>1. setup'[k].status = "active"
    BY <1>6, <2>3 DEF CommitBegin, Types
  <2>2. ASSUME NEW l \in Setups \ {k} PROVE IsOpen(l)' <=> IsOpen(l)
    <3>1. CASE l \in req[s].rows
      <4>1. setup[l].status # "open"
        BY <3>1 DEF RowsSettled
      <4>2. setup'[l].status = "revoked"
        BY <1>6, <2>3, <3>1 DEF CommitBegin, Types
      <4> QED BY <4>1, <4>2 DEF IsOpen
    <3>2. CASE l \notin req[s].rows
      BY <1>6, <2>3, <3>2 DEF CommitBegin, IsOpen
    <3> QED BY <3>1, <3>2
  <2>4. ~IsOpen(k)'
    BY <2>1 DEF IsOpen
  <2> QED BY <1>0, <2>0, <2>2, <2>3, <2>4, EndsInside DEF OpenMoves
<1>7. CASE ValidateReplacement(s)
  <2>0. ~Opening(s) /\ setup' = setup
    BY <1>7 DEF ValidateReplacement, Opening, Beginning, stateVars
  <2>1. CASE req' = [req EXCEPT ![s].pc = "claim", ![s].seen = account]
    <3>1. req'[s].pc = "claim" /\ \A t \in Slots \ {s} : req'[t] = req[t]
      BY <1>0, <2>1 DEF Requests, Request
    <3> QED BY <1>0, <1>1, <2>0, <3>1, NotOpening DEF Beginning, OpenMoves
  <2> QED BY <1>0, <1>1, <1>7, <2>0, <2>1, EndsOutside
          DEF ValidateReplacement, OpenMoves
<1>8. CASE ConsumeSetup(s)
  <2>0. ~Opening(s) /\ setup' = setup
    BY <1>8 DEF ConsumeSetup, Opening, Beginning, stateVars
  <2>1. CASE req' = [req EXCEPT ![s].pc = "confirm", ![s].rows = {req[s].setup}]
    <3>1. req'[s].pc = "confirm" /\ \A t \in Slots \ {s} : req'[t] = req[t]
      BY <1>0, <2>1 DEF Requests, Request
    <3> QED BY <1>0, <1>1, <2>0, <3>1, NotOpening DEF Beginning, OpenMoves
  <2> QED BY <1>0, <1>1, <1>8, <2>0, <2>1, EndsOutside
          DEF ConsumeSetup, OpenMoves
<1>9. CASE ConfirmCredential(s)
  <2>0. ~Opening(s) /\ setup' = setup /\ "persist" \in Steps \ Beginning
    BY <1>9 DEF ConfirmCredential, Opening, Beginning, stateVars, Steps
  <2> QED BY <1>0, <1>1, <1>9, <2>0, EndsOutside
          DEF ConfirmCredential, OpenMoves
<1>10. ASSUME NEW cin \in Shapes, Persist(s, cin) PROVE OpenStays
  <2>0. ~Opening(s) /\ End(s) /\ req[s].pc = "persist"
    BY <1>10 DEF Persist, Opening, Beginning
  <2>1. \A k \in Setups : IsOpen(k)' <=> IsOpen(k)
    <3>1. CASE setup' = setup
      BY <1>1, <3>1
    <3>2. CASE setup' = [setup EXCEPT ![req[s].setup].status = "consumed"]
      <4>1. req[s].setup \in Setups
        BY <1>0, <2>0, AboutSetup DEF Requests, WellFormed
      <4>2. setup[req[s].setup].status # "open"
        BY <1>0, <2>0 DEF SetupInUse, Requests, WellFormed
      <4> QED BY <3>2, <4>1, <4>2 DEF IsOpen, Types
    <3> QED BY <1>10, <3>1, <3>2 DEF Persist, stateVars
  <2> QED BY <1>0, <2>0, <2>1, EndsOutside
<1> QED BY <1>2, <1>3, <1>4, <1>5, <1>6, <1>7, <1>8, <1>9, <1>10
        DEF SetupStep, OpenMoves

LEMMA OtherOpenings ==
    ASSUME Types, OpenOwned, SetupInUse, OtherStep
    PROVE  OpenMoves
<1>0. Requests
  BY DEF Types
<1>1. ASSUME setup' = setup PROVE \A k \in Setups : IsOpen(k)' <=> IsOpen(k)
  BY <1>1 DEF IsOpen
<1>2. ASSUME NEW s \in Slots, ChangePassword(s) \/ Login(s) PROVE OpenStays
  <2>1. /\ req[s].pc = "idle" /\ setup' = setup
        /\ \A t \in Slots \ {s} : req'[t] = req[t]
    BY <1>0, <1>2, ConstantTypes
       DEF ChangePassword, Login, Begin, stateVars, Requests
  <2>2. req'[s].pc \in {"write", "verify"}
    BY <1>0, <1>2 DEF ChangePassword, Login, Begin, Requests, Idle
  <2> QED BY <1>0, <1>1, <2>1, <2>2, NotOpening DEF Opening, Beginning
<1>3. ASSUME NEW s \in Slots, VerifyLogin(s) \/ \E cin \in Shapes : WriteByChange(s, cin)
      PROVE  OpenStays
  <2>1. setup' = setup /\ ~Opening(s) /\ (End(s) \/ Goto(s, "begin"))
    BY <1>3 DEF VerifyLogin, WriteByChange, stateVars, Opening, Beginning
  <2>2. "begin" \in Steps \ Beginning
    BY DEF Steps, Beginning
  <2> QED BY <1>0, <1>1, <2>1, <2>2, EndsOutside
<1>4. ASSUME NEW s \in Slots, Die(s) PROVE OpenMoves
  <2>1. CASE Opening(s)
    <3>1. PICK k \in Setups : k = req[s].setup
      BY <1>0, <2>1, AboutSetup DEF Opening
    <3>2. ~IsOpen(k)' /\ \A l \in Setups \ {k} : IsOpen(l)' <=> IsOpen(l)
      BY <1>4, <3>1 DEF Die, IsOpen, Types
    <3> QED BY <1>0, <1>4, <2>1, <3>1, <3>2, EndsInside DEF OpenMoves, Die
  <2>2. CASE ~Opening(s)
    <3>1. ASSUME NEW k \in Setups, k = req[s].setup PROVE setup[k].status # "open"
      <4>1. req[s].op = "setup"
        BY <2>2, <3>1 DEF Types, Requests, WellFormed, Opening
      <4> QED BY <3>1, <4>1 DEF SetupInUse
    <3>2. \A l \in Setups : IsOpen(l)' <=> IsOpen(l)
      BY <1>4, <3>1 DEF Die, IsOpen
    <3> QED BY <1>0, <1>4, <2>2, <3>2, EndsOutside DEF OpenMoves, Die
  <2> QED BY <2>1, <2>2
<1>5. ASSUME NEW k \in Setups, CancelSetup(k) \/ LapseSetup(k) PROVE OpenStays
  <2>1. req' = req /\ setup[k].status = "active"
        /\ \E status \in {"revoked", "expired"} :
              setup' = [setup EXCEPT ![k].status = status]
    BY <1>5 DEF CancelSetup, LapseSetup
  <2>2. \A l \in Setups : IsOpen(l)' <=> IsOpen(l)
    BY <2>1 DEF IsOpen, Types
  <2> QED BY <2>1, <2>2 DEF OpenStays, KeepsOpening, Opening
<1>6. CASE UpdateAccount \/ \E kind \in Kinds : ResetToTemporaryCredential(kind)
  BY <1>6 DEF UpdateAccount, ResetToTemporaryCredential, OpenMoves, OpenStays,
              KeepsOpening, Opening, IsOpen
<1> QED BY <1>2, <1>3, <1>4, <1>5, <1>6 DEF OtherStep, OpenMoves

\* A transaction locks rows that were active when it read them.
LEMMA RowsMove ==
    ASSUME Types, Next, NEW t \in Slots
    PROVE  RowsFrom(t)
<1>0. Requests /\ req \in [Slots -> Request] /\ req[t] \in Request
  BY DEF Types, Requests
<1>1. ASSUME req'[t].rows = req[t].rows PROVE RowsFrom(t)
  BY <1>0, <1>1 DEF RowsFrom, Request
<1>2. ASSUME req'[t].rows = {} PROVE RowsFrom(t)
  BY <1>2 DEF RowsFrom
<1>3. ASSUME NEW s \in Slots, \/ End(s)
                              \/ \E pc \in Steps : Goto(s, pc)
      PROVE  RowsFrom(t)
  BY <1>0, <1>1, <1>2, <1>3, EndEffect, GotoEffect, ConstantTypes
\* A request that keeps its rows, and every other request.
<1>4. ASSUME NEW s \in Slots, \A u \in Slots \ {s} : req'[u] = req[u],
             req'[s].rows \in {{}, req[s].rows}
      PROVE  RowsFrom(t)
  BY <1>1, <1>2, <1>4
<1>5. ASSUME NEW s \in Slots, LinkStep(s) PROVE RowsFrom(t)
  <2>1. CASE \/ RereadState(s) \/ SendMail(s) \/ MailFails(s)
             \/ DiscardUndelivered(s) \/ DiscardFails(s) \/ ConsumeLink(s)
             \/ RecheckState(s) \/ \E cin \in Shapes : WriteByLink(s, cin)
    <3>1. \/ End(s)
          \/ \E pc \in {"mail", "discard", "recheck", "read"} : Goto(s, pc)
      BY <2>1 DEF RereadState, SendMail, MailFails, DiscardUndelivered,
         DiscardFails, ConsumeLink, RecheckState, WriteByLink
    <3> QED BY <1>3, <3>1 DEF Steps
  <2>2. CASE \E op \in Ops : Mint(s, op)
    BY <1>0, <1>4, <2>2 DEF Mint, Begin, Idle
  <2>3. ASSUME NEW j \in Links, Reset(s, j) PROVE RowsFrom(t)
    <3> DEFINE late == j \in superseded
    <3>1. req' = [req EXCEPT ![s] = [[Idle EXCEPT !.pc = "consume", !.link = j,
                                                  !.late = late]
                                     EXCEPT !.op = "reset"]]
      BY <2>3 DEF Reset, Begin
    <3> HIDE DEF late
    <3> QED BY <1>0, <1>4, <3>1 DEF Idle
  <2>4. ASSUME NEW j \in Links, SetLink(s, j) PROVE RowsFrom(t)
    <3>1. /\ req'[s].rows = req[s].rows
          /\ \A u \in Slots \ {s} : req'[u] = req[u]
      BY <1>0, <2>4 DEF SetLink, Requests, Request
    <3> QED BY <1>4, <3>1
  <2>5. CASE ReadRecord(s)
    <3>1. CASE req' = [req EXCEPT ![s].pc = "write", ![s].seen = account]
      <4>1. /\ req'[s].rows = req[s].rows
            /\ \A u \in Slots \ {s} : req'[u] = req[u]
        BY <1>0, <3>1 DEF Requests, Request
      <4> QED BY <1>4, <4>1
    <3> QED BY <1>3, <2>5, <3>1 DEF ReadRecord
  <2> QED BY <1>5, <2>1, <2>2, <2>3, <2>4, <2>5 DEF LinkStep
<1>6. ASSUME NEW s \in Slots, SetupStep(s) PROVE RowsFrom(t)
  <2>0. req[s] \in Request
    BY DEF Types, Requests
  <2>1. ASSUME NEW k \in Setups, BeginSetup(s, k) PROVE RowsFrom(t)
    <3>1. /\ req'[s].rows = req[s].rows
          /\ \A u \in Slots \ {s} : req'[u] = req[u]
      BY <1>0, <2>0, <2>1 DEF BeginSetup, Request
    <3> QED BY <1>4, <3>1
  <2>2. ASSUME NEW k \in Setups, RequireSetup(s, k) PROVE RowsFrom(t)
    BY <1>0, <1>4, <2>2 DEF RequireSetup, Begin, Idle
  <2>3. CASE ScanActive(s)
    <3>1. /\ req'[s].rows = {k \in Setups : setup[k].status = "active"}
          /\ \A u \in Slots \ {s} : req'[u] = req[u]
      BY <1>0, <2>0, <2>3 DEF ScanActive, Request
    <3> QED BY <1>1, <3>1 DEF RowsFrom
  <2>4. CASE ReplaceActive(s)
    <3>1. /\ req'[s].rows = {k \in req[s].rows : setup[k].status = "active"}
          /\ \A u \in Slots \ {s} : req'[u] = req[u]
      BY <1>0, <2>0, <2>4 DEF ReplaceActive, Request
    <3> QED BY <1>1, <2>0, <3>1 DEF RowsFrom, Request
  <2>5. CASE \/ CheckBegin(s) \/ CommitBegin(s) \/ ConfirmCredential(s)
             \/ \E cin \in Shapes : Persist(s, cin)
    <3>1. End(s) \/ Goto(s, "commit") \/ Goto(s, "persist")
      BY <2>5 DEF CheckBegin, CommitBegin, ConfirmCredential, Persist
    <3> QED BY <1>3, <3>1 DEF Steps
  <2>6. CASE ValidateReplacement(s)
    <3>1. CASE req' = [req EXCEPT ![s].pc = "claim", ![s].seen = account]
      <4>1. /\ req'[s].rows = req[s].rows
            /\ \A u \in Slots \ {s} : req'[u] = req[u]
        BY <1>0, <2>0, <3>1 DEF Request
      <4> QED BY <1>4, <4>1
    <3> QED BY <1>3, <2>6, <3>1 DEF ValidateReplacement
  <2>7. CASE ConsumeSetup(s)
    <3>1. CASE /\ req' = [req EXCEPT ![s].pc = "confirm",
                                     ![s].rows = {req[s].setup}]
               /\ setup[req[s].setup].status = "active"
      <4>1. req[s].setup \in Setups
        BY <2>7 DEF ConsumeSetup, Types, Requests, WellFormed
      <4>2. /\ req'[s].rows = {req[s].setup}
            /\ \A u \in Slots \ {s} : req'[u] = req[u]
        BY <1>0, <2>0, <3>1 DEF Request
      <4> QED BY <1>1, <3>1, <4>1, <4>2 DEF RowsFrom
    <3> QED BY <1>3, <2>7, <3>1 DEF ConsumeSetup
  <2> QED BY <1>6, <2>1, <2>2, <2>3, <2>4, <2>5, <2>6, <2>7 DEF SetupStep
<1>7. CASE OtherStep
  <2>1. ASSUME NEW s \in Slots, ChangePassword(s) \/ Login(s)
        PROVE  RowsFrom(t)
    <3>1. ASSUME NEW op \in {"change", "login"}, NEW pc \in {"write", "verify"},
                 Begin(s, op, [Idle EXCEPT !.pc = pc, !.seen = account])
          PROVE  RowsFrom(t)
      <4>1. req' = [req EXCEPT ![s] =
                      [[Idle EXCEPT !.pc = pc, !.seen = account]
                       EXCEPT !.op = op]]
        BY <3>1 DEF Begin
      <4>2. req'[s].rows = {} /\ \A u \in Slots \ {s} : req'[u] = req[u]
        BY <1>0, <4>1 DEF Idle
      <4> QED BY <1>4, <4>2
    <3> QED BY <2>1, <3>1 DEF ChangePassword, Login
  <2>2. ASSUME NEW s \in Slots, \/ VerifyLogin(s) \/ Die(s)
                                \/ \E cin \in Shapes : WriteByChange(s, cin)
        PROVE  RowsFrom(t)
    <3>1. End(s) \/ Goto(s, "begin")
      BY <2>2 DEF VerifyLogin, Die, WriteByChange
    <3> QED BY <1>3, <2>2, <3>1 DEF Steps
  <2>3. CASE \/ UpdateAccount
             \/ \E kind \in Kinds : ResetToTemporaryCredential(kind)
             \/ \E k \in Setups : CancelSetup(k) \/ LapseSetup(k)
    BY <1>1, <2>3 DEF UpdateAccount, ResetToTemporaryCredential, CancelSetup,
                      LapseSetup
  <2> QED BY <1>7, <2>1, <2>2, <2>3 DEF OtherStep
<1> QED BY <1>5, <1>6, <1>7, NextParts

LEMMA RowsSettledStep ==
    ASSUME Types, RowsSettled, Next
    PROVE  RowsSettled'
<1>1. ASSUME NEW t \in Slots, NEW k \in req'[t].rows
      PROVE  setup'[k].status \notin {"unused", "open"}
  <2>1. k \in Setups /\ setup[k].status \notin {"unused", "open"}
    BY RowsMove DEF RowsFrom, RowsSettled
  <2> QED BY <2>1, SetupMoves
<1> QED BY <1>1 DEF RowsSettled

LEMMA OpenInit == Init => OpenInv
<1> SUFFICES ASSUME Init PROVE OpenInv
  OBVIOUS
<1>1. \A s \in Slots : req[s] = Idle
  BY DEF Init
<1>2. \A s \in Slots : ~Opening(s) /\ req[s].rows = {}
  BY <1>1, ConstantTypes DEF Opening, Beginning
<1>3. \A k \in Setups : ~IsOpen(k)
  BY DEF Init, IsOpen
<1> QED BY <1>2, <1>3 DEF OpenInv, RowsSettled, OpenersApart, OpenOwned

LEMMA OpenStep ==
    ASSUME Types, Types', WriteInv, OpenInv, [Next]_vars
    PROVE  OpenInv'
<1>1. CASE UNCHANGED vars
  BY <1>1 DEF OpenInv, RowsSettled, OpenersApart, OpenOwned, Opening, IsOpen,
              vars
<1>2. CASE Next
  <2>1. OpenMoves
    BY <1>2, NextParts, LinkOpenings, SetupOpenings, OtherOpenings
       DEF OpenInv, WriteInv, OpenMoves
  <2>2. OpenersApart' /\ OpenOwned'
    BY <2>1, OpenMovesInv DEF OpenInv
  <2> QED BY <1>2, <2>2, RowsSettledStep DEF OpenInv
<1> QED BY <1>1, <1>2

\* Every value keeps its type, and a setup row is open exactly while the one
\* transaction that inserted it has neither committed nor rolled back
\* (CredentialSetupService.begin).
THEOREM TypeCorrect == Spec => []TypeOK
<1>1. Init => OpenInv
  BY OpenInit
<1>2. /\ Types /\ Types' /\ WriteInv /\ OpenInv
      /\ [Next]_vars
      => OpenInv'
  BY OpenStep
<1>3. Types /\ OpenInv => TypeOK
  BY DEF Types, Requests, OpenInv, OpenOwned, Opening, IsOpen, TypeOK
<1> QED BY <1>1, <1>2, <1>3, Invariants, PTL DEF Spec

=============================================================================
