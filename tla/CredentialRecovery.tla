-------------------------- MODULE CredentialRecovery --------------------------
(***************************************************************************)
(* How one account of najm-auth gets a new password: a mailed one-time     *)
(* link, the password change of a signed-in user, an administrator's       *)
(* temporary credential, and the setup session that replaces it.           *)
(*                                                                         *)
(* The code is TokenService, AuthService and credentialSetup/              *)
(* (src/packages/najm-auth/src).  Every await that lets another request in *)
(* is a step.  Database transactions run at READ COMMITTED, the default of *)
(* PostgreSQL: a row a transaction wrote makes other writers of that row   *)
(* wait for its end.  Ending the sessions is the module SessionFamilies.   *)
(***************************************************************************)
EXTENDS Naturals, FiniteSets

CONSTANTS
    Links,      \* ids (jti) of set-password links, drawn afresh
    Setups,     \* setup-session tokens, drawn afresh
    Slots,      \* slots for requests being served at the same time
    NoLink, NoSetup,
    Shapes,     \* whether a password a user chooses may look like a CIN
    Asked,      \* bound: the operations clients ask for
    MaxWork,    \* bound: requests that start
    MaxChanges, \* bound: administrative changes of the account
    MaxFaults   \* bound: deaths of a request, failed mails and expiries

ASSUME NoLinkAssumption == NoLink \notin Links
ASSUME NoSetupAssumption == NoSetup \notin Setups
ASSUME ShapesAssumption == Shapes \subseteq BOOLEAN
ASSUME BoundsAssumption == MaxWork \in Nat /\ MaxChanges \in Nat /\ MaxFaults \in Nat

VARIABLES
    account,     \* the user record, as far as credentials are bound to it
    requirement, \* the durable "must replace the password" row
    live,        \* the link the cache holds for the user
    link,        \* what each link was minted for and what became of its mail
    setup,       \* the setup-session rows
    req,         \* the request served in each slot
    superseded,  \* links another link took the place of
    used,        \* links whose one use was granted
    spent,       \* links that set a password
    refused,     \* a sign-in with the right password was refused
    count        \* passwords stored, requests, changes and faults so far

vars == <<account, requirement, live, link, setup, req, superseded, used,
          spent, refused, count>>
linkVars  == <<live, link, superseded, used, spent>>
stateVars == <<account, requirement, setup>>

\* A stored password: a hash of its own, whether the system issued it, and
\* whether it has the shape of a CIN (a normalizer would change it).
Password == [id: Nat, temporary: BOOLEAN, cin: BOOLEAN]
Statuses == {"pending", "active", "inactive"}
Account == [password: Password, email: Nat, status: Statuses,
            verified: BOOLEAN]
Kinds == {"exact", "cin"}
Requirement == [owed: BOOLEAN, kind: Kinds]

NoPassword == [id |-> 0, temporary |-> FALSE, cin |-> FALSE]
NoAccount == [password |-> NoPassword, email |-> 0, status |-> "inactive",
              verified |-> FALSE]

Fates == {"unused", "minted", "dropped", "sent", "unsent", "withdrawn",
          "stranded"}
SetupStatus == {"unused", "open", "active", "consumed", "revoked", "expired",
                "void"}
Ops == {"none", "forgot", "send", "resend", "reset", "change", "login",
        "setup"}
Steps == {"idle", "set", "reread", "mail", "discard", "consume", "recheck",
          "read", "write", "verify", "begin", "scan", "replace", "check",
          "commit", "validate", "claim", "confirm", "persist"}

\* Each operation has its steps; a request is about a link from its minting
\* on, or about a setup session from its beginning on, and holds rows only
\* inside a transaction.
Beginning == {"scan", "replace", "check", "commit"}
LinkSteps == {"reread", "mail", "discard", "consume", "recheck", "read"}
WellFormed(q) ==
    /\ q.op = "none" <=> q.pc = "idle"
    /\ q.op \in {"forgot", "send", "resend"}
           <=> q.pc \in {"set", "reread", "mail", "discard"}
    /\ q.pc \in {"consume", "recheck", "read"} => q.op = "reset"
    /\ q.pc = "write" => q.op \in {"reset", "change"}
    /\ q.op = "login" <=> q.pc \in {"verify", "begin"} \cup Beginning
    /\ q.op = "setup" <=> q.pc \in {"validate", "claim", "confirm", "persist"}
    /\ q.link \in Links <=> \/ q.pc \in LinkSteps
                            \/ q.pc = "write" /\ q.op = "reset"
    /\ q.setup \in Setups <=> q.op = "setup" \/ q.pc \in Beginning
    /\ q.pc \in {"idle", "validate", "claim"} => q.rows = {}

Request == [op: Ops, pc: Steps, link: Links \cup {NoLink},
            setup: Setups \cup {NoSetup}, seen: Account, late: BOOLEAN,
            rows: SUBSET Setups]
Idle == [op |-> "none", pc |-> "idle", link |-> NoLink, setup |-> NoSetup,
         seen |-> NoAccount, late |-> FALSE, rows |-> {}]

TypeOK ==
    /\ account \in Account
    /\ requirement \in Requirement
    /\ live \in Links \cup {NoLink}
    /\ link \in [Links -> [for: Account, fate: Fates, invite: BOOLEAN]]
    /\ setup \in [Setups -> [for: Account, status: SetupStatus]]
    /\ req \in [Slots -> Request]
    /\ superseded \subseteq Links
    /\ used \subseteq Links
    /\ spent \in [Links -> [times: Nat, late: BOOLEAN]]
    /\ refused \in BOOLEAN
    /\ count \in [passwords: Nat, changes: Nat, faults: Nat, work: Nat]
    /\ \A s \in Slots : WellFormed(req[s])
    /\ \A k \in Setups :
          setup[k].status = "open" <=>
             \E s \in Slots : req[s].setup = k /\ req[s].pc \in Beginning

Init ==
    /\ account \in [password: [id: {1}, temporary: {FALSE}, cin: {FALSE}],
                    email: {0}, status: {"pending", "active"},
                    verified: {FALSE}]
    /\ requirement = [owed |-> FALSE, kind |-> "exact"]
    /\ live = NoLink
    /\ link = [j \in Links |->
                 [for |-> NoAccount, fate |-> "unused", invite |-> FALSE]]
    /\ setup = [k \in Setups |-> [for |-> NoAccount, status |-> "unused"]]
    /\ req = [s \in Slots |-> Idle]
    /\ superseded = {} /\ used = {}
    /\ spent = [j \in Links |-> [times |-> 0, late |-> FALSE]]
    /\ refused = FALSE
    /\ count = [passwords |-> 1, changes |-> 0, faults |-> 0, work |-> 0]

-----------------------------------------------------------------------------
(* Helpers *)

\* A request takes a free slot, moves on, or answers and leaves it.
Begin(s, op, step) ==
    /\ req[s] = Idle
    /\ op \in Asked /\ count.work < MaxWork
    /\ req' = [req EXCEPT ![s] = [step EXCEPT !.op = op]]
    /\ count' = [count EXCEPT !.work = @ + 1]
Goto(s, pc) == req' = [req EXCEPT ![s].pc = pc]
End(s) == req' = [req EXCEPT ![s] = Idle]

\* A fresh hash: bcrypt salts, so no two stored passwords are equal.
Hash(temporary, cin) ==
    [id |-> count.passwords + 1, temporary |-> temporary, cin |-> cin]
Stored == count' = [count EXCEPT !.passwords = @ + 1]

Fault == /\ count.faults < MaxFaults
         /\ count' = [count EXCEPT !.faults = @ + 1]

\* updateWithCredential: the write names the credential that authorized it.
Unchanged(seen) == account = seen

\* A transaction wrote this setup row and has not ended.
Locked(k) == \E s \in Slots : k \in req[s].rows /\ req[s].pc \in
                 {"check", "commit", "confirm", "persist"}

-----------------------------------------------------------------------------
(* A link is minted and mailed: forgotPassword, sendPasswordReset and      *)
(* resendInvitation                                                        *)

Mint(s, op) ==
    /\ op \in {"forgot", "send", "resend"}
    /\ op = "resend" => account.status = "pending"
    /\ Begin(s, op, [Idle EXCEPT !.pc = "set", !.seen = account])
    /\ UNCHANGED <<account, requirement, live, link, setup, superseded, used,
                   spent, refused>>

SetLink(s, j) ==
    /\ req[s].pc = "set" /\ link[j].fate = "unused"
    /\ link' = [link EXCEPT ![j] = [for |-> req[s].seen, fate |-> "minted",
                                    invite |-> req[s].op = "resend"]]
    /\ superseded' = superseded \cup ({live} \ {NoLink})
    /\ live' = j
    /\ req' = [req EXCEPT ![s].pc = "reread", ![s].link = j]
    /\ UNCHANGED <<account, requirement, setup, used, spent, refused, count>>

\* Compare-and-delete: only the link itself is taken out of the cache.
WithdrawBlindly(j) == live' = NoLink
WithdrawNever(j) == live' = live
Withdraw(j) == live' = IF live = j THEN NoLink ELSE live
Become(j, fate) == link' = [link EXCEPT ![j].fate = fate]

\* The state is read again behind the write; a link for another is discarded.
RereadState(s) ==
    LET j == req[s].link IN
    /\ req[s].pc = "reread"
    /\ IF Unchanged(req[s].seen)
       THEN /\ Goto(s, "mail")
            /\ UNCHANGED <<live, link>>
       ELSE /\ Withdraw(j) /\ Become(j, "dropped")
            /\ End(s)
    /\ UNCHANGED <<stateVars, superseded, used, spent, refused, count>>

SendMail(s) ==
    /\ req[s].pc = "mail"
    /\ Become(req[s].link, "sent")
    /\ End(s)
    /\ UNCHANGED <<stateVars, live, superseded, used, spent, refused, count>>

\* forgotPassword answers the same whatever happened to the mail.
MailFails(s) ==
    /\ req[s].pc = "mail" /\ Fault
    /\ Become(req[s].link, "unsent")
    /\ IF req[s].op = "forgot" THEN End(s) ELSE Goto(s, "discard")
    /\ UNCHANGED <<stateVars, live, superseded, used, spent, refused>>

DiscardUndelivered(s) ==
    /\ req[s].pc = "discard"
    /\ Withdraw(req[s].link) /\ Become(req[s].link, "withdrawn")
    /\ End(s)
    /\ UNCHANGED <<stateVars, superseded, used, spent, refused, count>>

\* The cache is out of reach: the answer says the link may still live.
DiscardFails(s) ==
    /\ req[s].pc = "discard" /\ Fault
    /\ Become(req[s].link, "stranded")
    /\ End(s)
    /\ UNCHANGED <<stateVars, live, superseded, used, spent, refused>>

-----------------------------------------------------------------------------
(* A link sets the password: resetPassword                                 *)

\* A mail reported as failed may have arrived all the same.
Mailed == {"sent", "unsent", "withdrawn", "stranded"}

Reset(s, j) ==
    /\ link[j].fate \in Mailed /\ Unchanged(link[j].for)
    /\ Begin(s, "reset", [Idle EXCEPT !.pc = "consume", !.link = j,
                                      !.late = j \in superseded])
    /\ UNCHANGED <<stateVars, linkVars, refused>>

ConsumeUncompared(s) ==
    LET j == req[s].link IN
    /\ req[s].pc = "consume"
    /\ IF live # NoLink
       THEN /\ live' = NoLink
            /\ used' = used \cup {j}
            /\ Goto(s, "recheck")
       ELSE End(s) /\ UNCHANGED <<live, used>>
    /\ UNCHANGED <<stateVars, link, superseded, spent, refused, count>>
ConsumeLink(s) ==
    LET j == req[s].link IN
    /\ req[s].pc = "consume"
    /\ IF live = j
       THEN /\ live' = NoLink
            /\ used' = used \cup {j}
            /\ Goto(s, "recheck")
       ELSE End(s) /\ UNCHANGED <<live, used>>
    /\ UNCHANGED <<stateVars, link, superseded, spent, refused, count>>

RecheckState(s) ==
    /\ req[s].pc = "recheck"
    /\ IF Unchanged(link[req[s].link].for) THEN Goto(s, "read") ELSE End(s)
    /\ UNCHANGED <<stateVars, linkVars, refused, count>>

ReadUnchecked(s) ==
    /\ req[s].pc = "read"
    /\ req' = [req EXCEPT ![s].pc = "write", ![s].seen = account]
    /\ UNCHANGED <<stateVars, linkVars, refused, count>>
ReadRecord(s) ==
    /\ req[s].pc = "read"
    /\ IF Unchanged(link[req[s].link].for)
       THEN req' = [req EXCEPT ![s].pc = "write", ![s].seen = account]
       ELSE End(s)
    /\ UNCHANGED <<stateVars, linkVars, refused, count>>

\* An accepted invitation verifies the address and activates the account.
Accepted(seen, invite) ==
    IF invite
    THEN [seen EXCEPT !.verified = TRUE,
                      !.status = IF @ = "pending" THEN "active" ELSE @]
    ELSE seen

\* The password is hashed and written if the credential is still the one read.
WriteByLink(s, cin) ==
    LET j == req[s].link
        seen == req[s].seen IN
    /\ req[s].pc = "write" /\ req[s].op = "reset"
    /\ IF Unchanged(seen)
       THEN /\ account' = [Accepted(seen, link[j].invite) EXCEPT
                              !.password = Hash(FALSE, cin)]
            /\ Stored
            /\ spent' = [spent EXCEPT ![j].times = @ + 1,
                                      ![j].late = @ \/ req[s].late]
       ELSE UNCHANGED <<account, spent, count>>
    /\ End(s)
    /\ UNCHANGED <<requirement, setup, live, link, superseded, used, refused>>

-----------------------------------------------------------------------------
(* A signed-in user changes the password: changePassword                   *)

\* The current password was compared with the hash of the record just read.
ChangePassword(s) ==
    /\ Begin(s, "change", [Idle EXCEPT !.pc = "write", !.seen = account])
    /\ UNCHANGED <<stateVars, linkVars, refused>>

WriteByChangeUnfenced(s, cin) ==
    /\ req[s].pc = "write" /\ req[s].op = "change"
    /\ account' = [account EXCEPT !.password = Hash(FALSE, cin)]
    /\ Stored /\ End(s)
    /\ UNCHANGED <<requirement, setup, linkVars, refused>>
WriteByChange(s, cin) ==
    /\ req[s].pc = "write" /\ req[s].op = "change"
    /\ IF Unchanged(req[s].seen)
       THEN /\ account' = [account EXCEPT !.password = Hash(FALSE, cin)]
            /\ Stored
       ELSE UNCHANGED <<account, count>>
    /\ End(s)
    /\ UNCHANGED <<requirement, setup, linkVars, refused>>

-----------------------------------------------------------------------------
(* An administrator changes the account                                    *)

Change == /\ count.changes < MaxChanges
          /\ count' = [count EXCEPT !.changes = @ + 1]

\* update without an expected credential: an unconditional write.
UpdateAccount ==
    /\ Change
    /\ \/ account' = [account EXCEPT !.email = @ + 1]
       \/ \E status \in Statuses \ {account.status} :
             account' = [account EXCEPT !.status = status]
    /\ UNCHANGED <<requirement, setup, linkVars, req, refused>>

\* The temporary password and the requirement commit together.  A CIN is
\* stored in its normal form; any other temporary value is compared exactly.
ResetToTemporaryCredential(kind) ==
    /\ count.changes < MaxChanges
    /\ account' = [account EXCEPT !.password = Hash(TRUE, kind = "cin")]
    /\ requirement' = [owed |-> TRUE, kind |-> kind]
    /\ count' = [count EXCEPT !.changes = @ + 1, !.passwords = @ + 1]
    /\ UNCHANGED <<setup, linkVars, req, refused>>

-----------------------------------------------------------------------------
(* Sign-in with a password: authenticate                                   *)

\* The submitted password is the one in force when the record is read.
Login(s) ==
    /\ Begin(s, "login", [Idle EXCEPT !.pc = "verify", !.seen = account])
    /\ UNCHANGED <<stateVars, linkVars, refused>>

\* What bcrypt is asked: the hash of a temporary CIN is of its normal form,
\* every other hash is of what the user typed.
Folds == requirement.owed /\ requirement.kind = "cin"
Accepts(password) ==
    password.cin => (Folds <=> password.temporary)

\* The requirement decides how the password is normalized; an active account
\* that owes one goes on to a setup session, any other to a normal session.
VerifyLogin(s) ==
    LET seen == req[s].seen IN
    /\ req[s].pc = "verify"
    /\ refused' = (refused \/ /\ seen.password = account.password
                              /\ ~Accepts(seen.password))
    /\ IF /\ Accepts(seen.password) /\ seen.status = "active"
          /\ requirement.owed
       THEN Goto(s, "begin")
       ELSE End(s)
    /\ UNCHANGED <<stateVars, linkVars, count>>

-----------------------------------------------------------------------------
(* A setup session: CredentialSetupService                                 *)

\* begin is one transaction: the token is bound to the record read first.
BeginSetup(s, k) ==
    /\ req[s].pc = "begin" /\ setup[k].status = "unused"
    /\ setup' = [setup EXCEPT ![k] = [for |-> account, status |-> "open"]]
    /\ req' = [req EXCEPT ![s].pc = "scan", ![s].setup = k]
    /\ UNCHANGED <<account, requirement, linkVars, refused, count>>

\* The update that revokes the older sessions sees the committed ones...
ScanActive(s) ==
    /\ req[s].pc = "scan"
    /\ req' = [req EXCEPT ![s].pc = "replace",
                 ![s].rows = {k \in Setups : setup[k].status = "active"}]
    /\ UNCHANGED <<stateVars, linkVars, refused, count>>

\* ... and writes those still active once no transaction holds them.
ReplaceActive(s) ==
    /\ req[s].pc = "replace"
    /\ \A k \in req[s].rows : ~Locked(k)
    /\ req' = [req EXCEPT ![s].pc = "check",
                 ![s].rows = {k \in @ : setup[k].status = "active"}]
    /\ UNCHANGED <<stateVars, linkVars, refused, count>>

\* The record must still be the one the token is bound to, else roll back.
CheckWithoutRollback(s) ==
    /\ req[s].pc = "check"
    /\ IF Unchanged(setup[req[s].setup].for) THEN Goto(s, "commit") ELSE End(s)
    /\ UNCHANGED <<stateVars, linkVars, refused, count>>
CheckBegin(s) ==
    /\ req[s].pc = "check"
    /\ IF Unchanged(setup[req[s].setup].for)
       THEN Goto(s, "commit") /\ UNCHANGED setup
       ELSE /\ setup' = [setup EXCEPT ![req[s].setup].status = "void"]
            /\ End(s)
    /\ UNCHANGED <<account, requirement, linkVars, refused, count>>

CommitBegin(s) ==
    /\ req[s].pc = "commit"
    /\ setup' = [k \in Setups |->
                   IF k = req[s].setup THEN [setup[k] EXCEPT !.status = "active"]
                   ELSE IF k \in req[s].rows
                        THEN [setup[k] EXCEPT !.status = "revoked"]
                   ELSE setup[k]]
    /\ End(s)
    /\ UNCHANGED <<account, requirement, linkVars, refused, count>>

\* The browser submits a replacement: the session must be active and current.
RequireSetup(s, k) ==
    /\ setup[k].status = "active" /\ Unchanged(setup[k].for)
    /\ Begin(s, "setup", [Idle EXCEPT !.pc = "validate", !.setup = k])
    /\ UNCHANGED <<stateVars, linkVars, refused>>

\* The requirement and the record are read; the password is hashed after it.
ValidateReplacement(s) ==
    /\ req[s].pc = "validate"
    /\ IF requirement.owed
       THEN req' = [req EXCEPT ![s].pc = "claim", ![s].seen = account]
       ELSE End(s)
    /\ UNCHANGED <<stateVars, linkVars, refused, count>>

\* One transaction from here: the session row is claimed ...
ConsumeSetup(s) ==
    LET k == req[s].setup IN
    /\ req[s].pc = "claim" /\ ~Locked(k)
    /\ IF setup[k].status = "active"
       THEN req' = [req EXCEPT ![s].pc = "confirm", ![s].rows = {k}]
       ELSE End(s)
    /\ UNCHANGED <<stateVars, linkVars, refused, count>>

ConfirmCredential(s) ==
    /\ req[s].pc = "confirm"
    /\ IF Unchanged(setup[req[s].setup].for) THEN Goto(s, "persist") ELSE End(s)
    /\ UNCHANGED <<stateVars, linkVars, refused, count>>

PersistWithoutRollback(s, cin) ==
    /\ req[s].pc = "persist"
    /\ IF Unchanged(req[s].seen) /\ requirement.owed
       THEN /\ account' = [account EXCEPT !.password =
                             Hash(FALSE, cin /\ requirement.kind # "cin")]
            /\ Stored
       ELSE UNCHANGED <<account, count>>
    /\ requirement' = [requirement EXCEPT !.owed = FALSE]
    /\ setup' = [setup EXCEPT ![req[s].setup].status = "consumed"]
    /\ End(s)
    /\ UNCHANGED <<linkVars, refused>>
\* ... and password, requirement and session commit together or not at all.
\* The replacement may not have the shape of the temporary credential.
Persist(s, cin) ==
    /\ req[s].pc = "persist"
    /\ IF Unchanged(req[s].seen) /\ requirement.owed
       THEN /\ account' = [account EXCEPT !.password =
                             Hash(FALSE, cin /\ requirement.kind # "cin")]
            /\ Stored
            /\ requirement' = [requirement EXCEPT !.owed = FALSE]
            /\ setup' = [setup EXCEPT ![req[s].setup].status = "consumed"]
       ELSE UNCHANGED <<stateVars, count>>
    /\ End(s)
    /\ UNCHANGED <<linkVars, refused>>

CancelSetup(k) ==
    /\ setup[k].status = "active" /\ ~Locked(k)
    /\ setup' = [setup EXCEPT ![k].status = "revoked"]
    /\ Fault
    /\ UNCHANGED <<account, requirement, linkVars, req, refused>>

\* expiresAt passes.
LapseSetup(k) ==
    /\ setup[k].status = "active" /\ ~Locked(k)
    /\ setup' = [setup EXCEPT ![k].status = "expired"]
    /\ Fault
    /\ UNCHANGED <<account, requirement, linkVars, req, refused>>

\* The process dies: an open transaction is rolled back, the rest stays.
Die(s) ==
    /\ req[s] # Idle /\ Fault
    /\ setup' = [k \in Setups |->
                   IF setup[k].status = "open" /\ k = req[s].setup
                   THEN [setup[k] EXCEPT !.status = "void"] ELSE setup[k]]
    /\ End(s)
    /\ UNCHANGED <<account, requirement, linkVars, refused>>

-----------------------------------------------------------------------------

LinkStep(s) ==
    \/ \E op \in Ops : Mint(s, op)
    \/ \E j \in Links : SetLink(s, j) \/ Reset(s, j)
    \/ RereadState(s) \/ SendMail(s) \/ MailFails(s)
    \/ DiscardUndelivered(s) \/ DiscardFails(s)
    \/ ConsumeLink(s) \/ RecheckState(s) \/ ReadRecord(s)
    \/ \E cin \in Shapes : WriteByLink(s, cin)

SetupStep(s) ==
    \/ \E k \in Setups : BeginSetup(s, k) \/ RequireSetup(s, k)
    \/ ScanActive(s) \/ ReplaceActive(s) \/ CheckBegin(s) \/ CommitBegin(s)
    \/ ValidateReplacement(s) \/ ConsumeSetup(s) \/ ConfirmCredential(s)
    \/ \E cin \in Shapes : Persist(s, cin)

Next ==
    \/ \E s \in Slots :
          \/ LinkStep(s) \/ SetupStep(s)
          \/ ChangePassword(s)
          \/ \E cin \in Shapes : WriteByChange(s, cin)
          \/ Login(s) \/ VerifyLogin(s)
          \/ Die(s)
    \/ UpdateAccount
    \/ \E kind \in Kinds : ResetToTemporaryCredential(kind)
    \/ \E k \in Setups : CancelSetup(k) \/ LapseSetup(k)

Spec == Init /\ [][Next]_vars

-----------------------------------------------------------------------------
(* Properties                                                              *)

\* What the password write under way in slot s was authorized against.
Authority(s) ==
    CASE req[s].op = "reset" -> link[req[s].link].for
      [] req[s].op = "setup" -> setup[req[s].setup].for
      [] OTHER -> req[s].seen

\* A delayed write never lands on another credential than the one it proved:
\* whoever stores a password finds the password of the time the link was
\* minted, the setup session begun or the current password compared, however
\* long the hashing took; a link and a change find the whole account so
\* (resetPassword, changePassword, PasswordSetupService.persist).
WritesMatchAuthority ==
    [][\A s \in Slots :
         /\ req[s].pc \in {"write", "persist"} /\ req'[s] # req[s]
         /\ account'.password # account.password
         => /\ account.password = Authority(s).password
            /\ req[s].op # "setup" => account = Authority(s)]_vars

\* A link sets a password once, and never when a newer link had taken its
\* place before the request began (consumeSetPasswordToken).
LinksWorkOnce ==
    \A j \in Links : spent[j].times <= 1 /\ ~spent[j].late

\* A link that was mailed keeps working until it is used, superseded or its
\* account changes: a late discard of an older link, a refused reset or a
\* mint that lost a race never takes it away (discardSetPasswordToken).
DeliveredLinksWork ==
    \A j \in Links :
        /\ link[j].fate = "sent" /\ j \notin used \cup superseded
        /\ link[j].for = account
        => live = j

\* A link whose discard was confirmed is never granted its use again, though
\* the mail may have arrived and its reader be on the way
\* (discardUndeliveredToken, undeliveredLinkLive: false).
ConfirmedDiscardHolds ==
    [][\A j \in Links :
         link[j].fate = "withdrawn" /\ j \in used' => j \in used]_vars

\* Nobody keeps a temporary password: while one is in force its replacement
\* is owed, whatever resets, link uses and setup sessions cross (the
\* transactions of resetToTemporaryCredential and of consume).
TemporaryIsOwed == account.password.temporary => requirement.owed

\* README.md:1370 "Setup tokens are ... replaced when the same user starts
\* that purpose again": a user has one active setup session.
OneActiveSetup ==
    \A k, l \in Setups :
        setup[k].status = "active" /\ setup[l].status = "active" => k = l

\* AuthService.ts:518 "A user-chosen password is compared byte-for-byte": the
\* password in force, typed as it was chosen or issued, signs its user in.
RightPasswordAccepted == ~refused
=============================================================================
