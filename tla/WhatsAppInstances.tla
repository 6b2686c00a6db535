------------------------- MODULE WhatsAppInstances --------------------------
(***************************************************************************)
(* One WhatsApp instance of najm-whatsapp: the operator's calls on         *)
(* InstanceManager, the connection chains and timers of BaileysInstance,   *)
(* the sockets they open and the row that survives a restart               *)
(* (src/packages/najm-whatsapp/src/engine).  Initially the instance has    *)
(* been created; an object is not created again after delete.              *)
(***************************************************************************)
EXTENDS Naturals, FiniteSets

CONSTANTS
    Calls,        \* calls of connect, disconnect, resetSession and delete
    Sockets,      \* Baileys sockets that may ever be made
    NoSocket,
    MaxAttempts,  \* RECONNECT_MAX_ATTEMPTS
    MaxCalls,     \* bound: operations the operator starts
    MaxFailures,  \* bound: sessions that fail to load
    MaxCuts       \* bound: connections the network or the phone closes, and
                  \* restarts of the process, together

ASSUME NoSocketAssumption == NoSocket \notin Sockets
ASSUME BoundsAssumption ==
    /\ MaxAttempts \in Nat /\ MaxCalls \in Nat /\ MaxFailures \in Nat
    /\ MaxCuts \in Nat

VARIABLES
    row,         \* the durable record: does it exist, autoConnect, the status
                 \* of the last write that was awaited
    registered,  \* the instance is in the manager's maps
    meta,        \* InstanceInfo: status, autoConnect
    announced,   \* statuses the connection_update listener has written to the
                 \* row since the boot, in writes nobody waits for
    obj,         \* BaileysInstance: status, intentionalClose,
                 \* reconnectAttempts, whether reconnectTimer is pending
    stray,       \* pending timers reconnectTimer no longer refers to
    socket,      \* BaileysInstance.socket
    line,        \* what each socket is at
    heard,       \* sockets whose listeners are attached
    inflight,    \* inflightConnects has the instance
    call,        \* operation and await of each call
    redials,     \* connects started by timers that have made no socket yet
    count,       \* bounds
    quitted,     \* history: a disconnect or delete began since the boot
    abandoned    \* history: since the boot a timer's dial failed, a reset joined
                 \* a connect that had failed, or the boot itself found
                 \* "connecting" in a row it does not connect

managerVars == <<row, registered, meta, announced, inflight>>
socketVars == <<obj, stray, socket, line, heard, redials>>
historyVars == <<quitted, abandoned>>
vars == <<managerVars, socketVars, call, count, historyVars>>

Status == {"connecting", "connected", "disconnected", "error"}
Idle == [pc |-> "idle", socket |-> NoSocket]
Awaits == {"idle", "intent", "intended", "dialing", "failing", "off",
           "switchedOff", "wiping", "resetIntent", "resetIntended",
           "loggingOut", "unregistering", "dropping"}

TypeOK ==
    /\ row \in [exists: BOOLEAN, auto: BOOLEAN, status: Status]
    /\ announced \subseteq Status
    /\ registered \in BOOLEAN /\ inflight \in BOOLEAN
    /\ quitted \in BOOLEAN /\ abandoned \in BOOLEAN
    /\ meta \in [status: Status, auto: BOOLEAN]
    /\ obj \in [status: Status, intentional: BOOLEAN,
                attempts: 0..MaxAttempts, timer: BOOLEAN]
    /\ stray \in Nat /\ redials \in Nat
    /\ socket \in Sockets \cup {NoSocket}
    /\ line \in [Sockets -> {"unused", "opening", "open", "closed"}]
    /\ heard \subseteq {s \in Sockets : line[s] # "unused"}
    /\ call \in [Calls -> [pc: Awaits, socket: Sockets \cup {NoSocket}]]
    /\ count \in [calls: 0..MaxCalls, failures: 0..MaxFailures,
                  cuts: 0..MaxCuts]

FreshObject == [status |-> "disconnected", intentional |-> FALSE,
                attempts |-> 0, timer |-> FALSE]

Init ==
    /\ row = [exists |-> TRUE, auto |-> FALSE, status |-> "disconnected"]
    /\ announced = {}
    /\ registered = TRUE
    /\ meta = [status |-> "disconnected", auto |-> FALSE]
    /\ obj = FreshObject
    /\ stray = 0 /\ redials = 0
    /\ socket = NoSocket
    /\ line = [s \in Sockets |-> "unused"]
    /\ heard = {}
    /\ inflight = FALSE
    /\ call = [c \in Calls |-> Idle]
    /\ count = [calls |-> 0, failures |-> 0, cuts |-> 0]
    /\ quitted = FALSE /\ abandoned = FALSE

Alive(s) == line[s] \in {"opening", "open"}
At(c, pc) == call[c].pc = pc
Goto(c, pc) == call' = [call EXCEPT ![c] = [Idle EXCEPT !.pc = pc]]

\* Metadata exists while the instance is registered.
Show(status) ==
    meta' = IF registered THEN [meta EXCEPT !.status = status] ELSE meta

\* The connection_update listener, for one or two events in a row: metadata
\* follows the last, and each is written to the row without waiting for it.
Announce(statuses, last) ==
    /\ Show(last)
    /\ announced' = IF registered THEN announced \cup statuses ELSE announced

\* updateState changes the row if there still is one.
WriteRow(auto, status) ==
    row' = IF row.exists THEN [row EXCEPT !.auto = auto, !.status = status]
                         ELSE row

\* What the row may hold when the process dies: each unawaited write was lost,
\* or landed before or after the awaited one.
LastWritten == announced \cup {row.status}

-----------------------------------------------------------------------------
(* BaileysInstance. *)

\* connect() up to its first await: the listeners of the present socket are
\* removed, its connection is not ended.
Dial(pendingTimer) ==
    /\ obj' = [obj EXCEPT !.intentional = FALSE, !.status = "connecting",
                          !.timer = pendingTimer]
    /\ heard' = heard \ {socket}
    /\ UNCHANGED <<socket, line>>

\* One socket that was never used: which of them does not matter.
NewSocket ==
    LET unused == {s \in Sockets : line[s] = "unused"}
    IN {s \in unused : s = CHOOSE t \in unused : TRUE}


\* The rest of connect(): the session is loaded, a socket is made and listened to.
MakeSocket ==
    \E s \in NewSocket :
        /\ line' = [line EXCEPT ![s] = "opening"]
        /\ socket' = s
        /\ heard' = heard \cup {s}
        /\ UNCHANGED <<obj, stray>>

LoadFails ==
    /\ count.failures < MaxFailures
    /\ count' = [count EXCEPT !.failures = @ + 1]

\* Mutant: the timer is not cleared.
HangUpKeepsTimer ==
    /\ obj' = [obj EXCEPT !.status = "disconnected", !.intentional = TRUE]
    /\ heard' = heard \ {socket}
    /\ line' = [s \in Sockets |->
                   IF s = socket /\ Alive(s) THEN "closed" ELSE line[s]]
    /\ UNCHANGED <<stray, socket, redials>>

\* disconnect(): forget the timer, stop listening, end the connection.
HangUp ==
    /\ obj' = [status |-> "disconnected", intentional |-> TRUE,
               attempts |-> 0, timer |-> FALSE]
    /\ heard' = heard \ {socket}
    /\ line' = [s \in Sockets |->
                   IF s = socket /\ Alive(s) THEN "closed" ELSE line[s]]
    /\ UNCHANGED <<stray, socket, redials>>

\* Mutant: no limit on attempts.
ScheduleReconnectForEver ==
    /\ obj' = [obj EXCEPT !.status = "disconnected",
                          !.attempts = @ + 1, !.timer = TRUE]
    /\ Announce({"disconnected"}, "disconnected")
    /\ stray' = IF obj.timer THEN stray + 1 ELSE stray

\* A second pending timer takes the place of the first in reconnectTimer.
ScheduleReconnect ==
    IF obj.attempts >= MaxAttempts
    THEN /\ obj' = [obj EXCEPT !.status = "error"]
         /\ Announce({"disconnected", "error"}, "error")
         /\ UNCHANGED stray
    ELSE /\ obj' = [obj EXCEPT !.status = "disconnected",
                               !.attempts = @ + 1, !.timer = TRUE]
         /\ Announce({"disconnected"}, "disconnected")
         /\ stray' = IF obj.timer THEN stray + 1 ELSE stray

SocketOpens(s) ==
    /\ line[s] = "opening"
    /\ line' = [line EXCEPT ![s] = "open"]
    /\ IF s \in heard
       THEN /\ obj' = [obj EXCEPT !.status = "connected", !.attempts = 0]
            /\ Announce({"connected"}, "connected")
       ELSE UNCHANGED <<obj, meta, announced>>
    /\ UNCHANGED <<row, registered, inflight, stray, socket, heard, redials,
                   call, count, historyVars>>

SocketCloses(s) ==
    /\ Alive(s)
    /\ count.cuts < MaxCuts
    /\ count' = [count EXCEPT !.cuts = @ + 1]
    /\ line' = [line EXCEPT ![s] = "closed"]
    /\ \/ s \notin heard /\ UNCHANGED <<obj, meta, announced, stray>>
       \/ s \in heard /\ ~obj.intentional /\ ScheduleReconnect
       \/ /\ s \in heard   \* closed on purpose, or logged out on the phone
          /\ obj' = [obj EXCEPT !.status = "disconnected"]
          /\ Announce({"disconnected"}, "disconnected")
          /\ UNCHANGED stray
    /\ UNCHANGED <<row, registered, inflight, socket, heard, redials,
                   call, historyVars>>

TimerFires ==
    /\ \/ obj.timer /\ Dial(FALSE) /\ UNCHANGED stray
       \/ stray > 0 /\ stray' = stray - 1 /\ Dial(obj.timer)
    /\ Announce({"connecting"}, "connecting")
    /\ redials' = redials + 1
    /\ UNCHANGED <<row, registered, inflight, call, count, historyVars>>

Redialed ==
    /\ redials > 0
    /\ redials' = redials - 1
    /\ \/ MakeSocket /\ UNCHANGED <<count, abandoned>>
       \/ /\ LoadFails
          /\ abandoned' = TRUE
          /\ UNCHANGED <<obj, stray, socket, line, heard>>
    /\ UNCHANGED <<managerVars, call, quitted>>

-----------------------------------------------------------------------------
(* InstanceManager. *)

Begin(c) ==
    /\ At(c, "idle")
    /\ count.calls < MaxCalls
    /\ count' = [count EXCEPT !.calls = @ + 1]

\* Mutant: the socket is dialled before the intent is written.
GuardedConnectUnwritten(c) ==
    IF inflight THEN Goto(c, "idle") ELSE Goto(c, "intended")

\* The guard of connect: a call that finds a registered promise waits for it.
GuardedConnect(c) ==
    IF inflight THEN Goto(c, "idle") ELSE Goto(c, "intent")

\* The registered promise is of a dial that has failed.
JoinsFailure == inflight /\ \A d \in Calls : ~At(d, "dialing")

Connect(c) ==
    /\ Begin(c) /\ registered
    /\ GuardedConnect(c)
    /\ UNCHANGED <<managerVars, socketVars, historyVars>>

WriteIntent(c) ==
    /\ At(c, "intent")
    /\ WriteRow(TRUE, "connecting")
    /\ Goto(c, "intended")
    /\ UNCHANGED <<registered, meta, announced, inflight, socketVars, count,
                   historyVars>>

StartDial(c) ==
    /\ At(c, "intended")
    /\ Dial(obj.timer)
    /\ meta' = IF registered THEN [status |-> "connecting", auto |-> TRUE]
                             ELSE meta
    /\ announced' = IF registered THEN announced \cup {"connecting"}
                                  ELSE announced
    /\ inflight' = TRUE
    /\ Goto(c, "dialing")
    /\ UNCHANGED <<row, registered, stray, redials, count, historyVars>>

Dialed(c) ==
    /\ At(c, "dialing")
    /\ MakeSocket
    /\ inflight' = FALSE
    /\ Goto(c, "idle")
    /\ UNCHANGED <<row, registered, meta, announced, redials, count,
                   historyVars>>

DialFails(c) ==
    /\ At(c, "dialing")
    /\ LoadFails
    /\ Show("error")
    /\ Goto(c, "failing")
    /\ UNCHANGED <<row, registered, announced, inflight, socketVars,
                   historyVars>>

FailureWritten(c) ==
    /\ At(c, "failing")
    /\ WriteRow(row.auto, "error")
    /\ inflight' = FALSE
    /\ Goto(c, "idle")
    /\ UNCHANGED <<registered, meta, announced, socketVars, count,
                   historyVars>>

Disconnect(c) ==
    /\ Begin(c) /\ registered
    /\ HangUp
    /\ Show("disconnected")
    /\ quitted' = TRUE
    /\ Goto(c, "off")
    /\ UNCHANGED <<row, registered, announced, inflight, abandoned>>

WriteOff(c) ==
    /\ At(c, "off")
    /\ WriteRow(FALSE, "disconnected")
    /\ Goto(c, "switchedOff")
    /\ UNCHANGED <<registered, meta, announced, inflight, socketVars, count,
                   historyVars>>

Disconnected(c) ==
    /\ At(c, "switchedOff")
    /\ meta' = IF registered THEN [meta EXCEPT !.auto = FALSE] ELSE meta
    /\ Goto(c, "idle")
    /\ UNCHANGED <<row, registered, announced, inflight, socketVars, count,
                   historyVars>>

ResetSession(c) ==
    /\ Begin(c) /\ registered
    /\ HangUp
    /\ Goto(c, "wiping")
    /\ UNCHANGED <<managerVars, historyVars>>

SessionWiped(c) ==
    /\ At(c, "wiping")
    /\ meta' = IF registered THEN [status |-> "connecting", auto |-> TRUE]
                             ELSE meta
    /\ Goto(c, "resetIntent")
    /\ UNCHANGED <<row, registered, announced, inflight, socketVars, count,
                   historyVars>>

WriteReset(c) ==
    /\ At(c, "resetIntent")
    /\ WriteRow(TRUE, "connecting")
    /\ Goto(c, "resetIntended")
    /\ UNCHANGED <<registered, meta, announced, inflight, socketVars, count,
                   historyVars>>

ResetConnects(c) ==
    /\ At(c, "resetIntended")
    /\ IF registered THEN GuardedConnect(c) ELSE Goto(c, "idle")
    /\ abandoned' = (abandoned \/ (registered /\ JoinsFailure))
    /\ UNCHANGED <<managerVars, socketVars, count, quitted>>

\* A connected instance is logged out, any other is disconnected.
Delete(c) ==
    /\ Begin(c) /\ row.exists
    /\ \/ /\ registered /\ meta.status = "connected"
          /\ obj' = [obj EXCEPT !.intentional = TRUE, !.timer = FALSE,
                                !.attempts = 0]
          /\ call' = [call EXCEPT ![c] = [pc |-> "loggingOut",
                                          socket |-> socket]]
          /\ UNCHANGED <<stray, socket, line, heard, redials>>
       \/ /\ registered /\ meta.status # "connected"
          /\ HangUp
          /\ Goto(c, "unregistering")
       \/ /\ ~registered
          /\ Goto(c, "dropping")
          /\ UNCHANGED socketVars
    /\ quitted' = TRUE
    /\ UNCHANGED <<managerVars, abandoned>>

\* The logout ended or failed; the finally block detaches whatever socket the
\* object has by now.
LoggedOut(c) ==
    /\ At(c, "loggingOut")
    /\ \E ended \in {TRUE, FALSE} :
           line' = [s \in Sockets |->
                       IF ended /\ s = call[c].socket /\ Alive(s)
                       THEN "closed" ELSE line[s]]
    /\ heard' = heard \ {socket}
    /\ obj' = [obj EXCEPT !.status = "disconnected"]
    /\ Goto(c, "unregistering")
    /\ UNCHANGED <<managerVars, stray, socket, redials, count, historyVars>>

Unregister(c) ==
    /\ At(c, "unregistering")
    /\ registered' = FALSE
    /\ Goto(c, "dropping")
    /\ UNCHANGED <<row, meta, announced, inflight, socketVars, count,
                   historyVars>>

DropRow(c) ==
    /\ At(c, "dropping")
    /\ row' = [row EXCEPT !.exists = FALSE, !.auto = FALSE]
    /\ Goto(c, "idle")
    /\ UNCHANGED <<registered, meta, announced, inflight, socketVars, count,
                   historyVars>>

\* The process dies and boots; onReady registers the row again, as it finds
\* it, and connects it when the operator wanted it connected.
Restart ==
    /\ count.cuts < MaxCuts
    /\ count' = [count EXCEPT !.cuts = @ + 1]
    /\ registered' = row.exists
    /\ \E found \in LastWritten :
           /\ row' = [row EXCEPT !.status = found]
           /\ meta' = [status |-> IF row.auto THEN "connecting" ELSE found,
                       auto |-> row.auto]
           /\ abandoned' = (~row.auto /\ found = "connecting")
    /\ announced' = {}
    /\ obj' = FreshObject
    /\ stray' = 0 /\ redials' = 0 /\ socket' = NoSocket /\ heard' = {}
    /\ line' = [s \in Sockets |-> IF Alive(s) THEN "closed" ELSE line[s]]
    /\ inflight' = FALSE
    /\ quitted' = FALSE
    /\ \E boot \in Calls :
           call' = [c \in Calls |-> IF c = boot /\ row.auto
                                    THEN [Idle EXCEPT !.pc = "intent"] ELSE Idle]

Resume(c) ==
    \/ WriteIntent(c) \/ StartDial(c) \/ Dialed(c) \/ DialFails(c)
    \/ FailureWritten(c) \/ WriteOff(c) \/ Disconnected(c)
    \/ SessionWiped(c) \/ WriteReset(c) \/ ResetConnects(c)
    \/ LoggedOut(c) \/ Unregister(c) \/ DropRow(c)

Operate(c) == Connect(c) \/ Disconnect(c) \/ ResetSession(c) \/ Delete(c)
Settle(s) == SocketOpens(s) \/ SocketCloses(s)

Next ==
    \/ \E c \in Calls : Operate(c) \/ Resume(c)
    \/ \E s \in Sockets : Settle(s)
    \/ TimerFires \/ Redialed
    \/ Restart

Spec == Init /\ [][Next]_vars

\* The event loop resumes what has been answered, timers fire, and a socket
\* that is connecting comes up or is closed by its own timeout.
FairSpec ==
    /\ Spec
    /\ \A c \in Calls : WF_vars(Resume(c))
    /\ \A s \in Sockets : WF_vars(line[s] = "opening" /\ Settle(s))
    /\ WF_vars(TimerFires) /\ WF_vars(Redialed)

-----------------------------------------------------------------------------
(* Properties. *)

\* The operator's wish to be connected is durable before anything is dialled:
\* a crash in the middle of a connect reconnects at the next boot
\* (InstanceManager.connect and resetSession, until a disconnect or delete).
CrashKeepsIntent ==
    (\/ \E s \in Sockets : Alive(s)
     \/ redials > 0
     \/ \E c \in Calls : At(c, "dialing")) /\ ~quitted => row.auto

\* After disconnect or logout no reconnection is pending under reconnectTimer,
\* whatever connects were under way when it came.
QuitStopsRetrying == obj.intentional => ~obj.timer

\* An instance shown as connecting does not stay so for ever, also when a
\* connect of the operator fails.  There are three ways out, none of which
\* dials: a timer's dial that failed (scheduleReconnect), a reset that joins a
\* connect which has failed (resetSession), and a boot that finds the status
\* of a connect which a disconnect had overtaken (onReady).
Settled == ~registered \/ meta.status # "connecting"

\* "Failure will fire connection.update 'close' again and re-schedule": not
\* even those ways leave an instance connecting for ever.
AlwaysSettles == ~Settled ~> Settled

\* "Concurrency guard - coalesce overlapping connect calls": two connects of
\* the operator are never dialling at the same time.
ConnectsCoalesce == Cardinality({c \in Calls : At(c, "dialing")}) <= 1

=============================================================================
