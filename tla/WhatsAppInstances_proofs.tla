---------------------- MODULE WhatsAppInstances_proofs ----------------------
(***************************************************************************)
(* Proofs about WhatsAppInstances for any number of calls, sockets,        *)
(* attempts and restarts.                                                  *)
(***************************************************************************)
EXTENDS WhatsAppInstances, TLAPS

-----------------------------------------------------------------------------
(* Types.                                                                  *)

LEMMA ShowType ==
    ASSUME TypeOK, NEW status \in Status, Show(status)
    PROVE  meta' \in [status: Status, auto: BOOLEAN]
BY DEF TypeOK, Show

LEMMA AnnounceType ==
    ASSUME TypeOK, NEW statuses \in SUBSET Status, NEW last \in Status,
           Announce(statuses, last)
    PROVE  meta' \in [status: Status, auto: BOOLEAN] /\ announced' \subseteq Status
BY ShowType DEF TypeOK, Announce

LEMMA WriteRowType ==
    ASSUME TypeOK, NEW auto \in BOOLEAN, NEW status \in Status,
           WriteRow(auto, status)
    PROVE  row' \in [exists: BOOLEAN, auto: BOOLEAN, status: Status]
BY DEF TypeOK, WriteRow

LEMMA GotoType ==
    ASSUME TypeOK, NEW c \in Calls, NEW pc \in Awaits, Goto(c, pc)
    PROVE  call' \in [Calls -> [pc: Awaits, socket: Sockets \cup {NoSocket}]]
BY DEF TypeOK, Goto, Idle

LEMMA DialType ==
    ASSUME TypeOK, NEW pending \in BOOLEAN, Dial(pending)
    PROVE  /\ obj' \in [status: Status, intentional: BOOLEAN,
                        attempts: 0..MaxAttempts, timer: BOOLEAN]
           /\ socket' \in Sockets \cup {NoSocket}
           /\ line' \in [Sockets -> {"unused", "opening", "open", "closed"}]
           /\ heard' \subseteq {s \in Sockets : line'[s] # "unused"}
BY DEF TypeOK, Dial, Status

LEMMA MakeSocketType ==
    ASSUME TypeOK, MakeSocket
    PROVE  /\ socket' \in Sockets \cup {NoSocket}
           /\ line' \in [Sockets -> {"unused", "opening", "open", "closed"}]
           /\ heard' \subseteq {s \in Sockets : line'[s] # "unused"}
BY DEF TypeOK, MakeSocket, NewSocket

LEMMA HangUpType ==
    ASSUME TypeOK, HangUp
    PROVE  /\ obj' \in [status: Status, intentional: BOOLEAN,
                        attempts: 0..MaxAttempts, timer: BOOLEAN]
           /\ line' \in [Sockets -> {"unused", "opening", "open", "closed"}]
           /\ heard' \subseteq {s \in Sockets : line'[s] # "unused"}
           /\ stray' = stray /\ socket' = socket /\ redials' = redials
BY BoundsAssumption DEF TypeOK, HangUp, Status, Alive

LEMMA ScheduleReconnectType ==
    ASSUME TypeOK, ScheduleReconnect
    PROVE  /\ obj' \in [status: Status, intentional: BOOLEAN,
                        attempts: 0..MaxAttempts, timer: BOOLEAN]
           /\ meta' \in [status: Status, auto: BOOLEAN]
           /\ announced' \subseteq Status
           /\ stray' \in Nat
<1> USE BoundsAssumption DEF TypeOK, ScheduleReconnect, Status, Show, Announce
<1>1. CASE obj.attempts >= MaxAttempts
  BY <1>1
<1>2. CASE ~(obj.attempts >= MaxAttempts)
  <2>1. obj.attempts + 1 \in 0..MaxAttempts
    BY <1>2
  <2>2. obj' = [obj EXCEPT !.status = "disconnected",
                           !.attempts = @ + 1, !.timer = TRUE]
    BY <1>2
  <2>3. obj' \in [status: Status, intentional: BOOLEAN,
                  attempts: 0..MaxAttempts, timer: BOOLEAN]
    BY <2>1, <2>2
  <2>4. stray' \in Nat
    BY <1>2
  <2>5. meta' \in [status: Status, auto: BOOLEAN] /\ announced' \subseteq Status
    BY <1>2
  <2> QED BY <2>3, <2>4, <2>5
<1> QED BY <1>1, <1>2

LEMMA TypeInit == Init => TypeOK
<1> SUFFICES ASSUME Init PROVE TypeOK
  OBVIOUS
<1> USE BoundsAssumption DEF Init
<1>1. obj \in [status: Status, intentional: BOOLEAN,
               attempts: 0..MaxAttempts, timer: BOOLEAN]
  BY DEF FreshObject, Status
<1>2. call \in [Calls -> [pc: Awaits, socket: Sockets \cup {NoSocket}]]
  BY DEF Idle, Awaits
<1>3. /\ meta \in [status: Status, auto: BOOLEAN]
      /\ row \in [exists: BOOLEAN, auto: BOOLEAN, status: Status]
      /\ announced \subseteq Status
  BY DEF Status
<1>4. count \in [calls: 0..MaxCalls, failures: 0..MaxFailures,
                 cuts: 0..MaxCuts]
  OBVIOUS
<1> QED BY <1>1, <1>2, <1>3, <1>4 DEF TypeOK

\* Type correctness is inductive by itself.
LEMMA TypeStep == TypeOK /\ [Next]_vars => TypeOK'
<1> SUFFICES ASSUME TypeOK, [Next]_vars PROVE TypeOK'
  OBVIOUS
<1> USE BoundsAssumption DEF historyVars
<1>1. CASE UNCHANGED vars
  BY <1>1 DEF TypeOK, vars, managerVars, socketVars
<1>2. ASSUME NEW c \in Calls, Operate(c) PROVE TypeOK'
  <2>1. count.calls < MaxCalls /\ Begin(c)
    BY <1>2 DEF Operate, Connect, Disconnect, ResetSession, Delete, Begin
  <2>2. count' \in [calls: 0..MaxCalls, failures: 0..MaxFailures,
                    cuts: 0..MaxCuts]
    BY <2>1 DEF Begin, TypeOK
  <2>3. CASE Connect(c)
    BY <2>2, <2>3, GotoType
       DEF Connect, GuardedConnect, TypeOK, managerVars, socketVars, Awaits
  <2>4. CASE Disconnect(c)
    BY <2>2, <2>4, GotoType, ShowType, HangUpType
       DEF Disconnect, TypeOK, Awaits, Status
  <2>5. CASE ResetSession(c)
    BY <2>2, <2>5, GotoType, HangUpType
       DEF ResetSession, TypeOK, Awaits, managerVars
  <2>6. CASE Delete(c)
    <3>1. UNCHANGED <<managerVars, abandoned>> /\ quitted' = TRUE
      BY <2>6 DEF Delete
    <3>2. CASE HangUp /\ Goto(c, "unregistering")
      BY <2>2, <3>1, <3>2, GotoType, HangUpType DEF TypeOK, Awaits, managerVars
    <3>3. CASE Goto(c, "dropping") /\ UNCHANGED socketVars
      BY <2>2, <3>1, <3>3, GotoType DEF TypeOK, Awaits, managerVars, socketVars
    <3>4. CASE /\ obj' = [obj EXCEPT !.intentional = TRUE, !.timer = FALSE,
                                     !.attempts = 0]
               /\ call' = [call EXCEPT ![c] = [pc |-> "loggingOut",
                                               socket |-> socket]]
               /\ UNCHANGED <<stray, socket, line, heard, redials>>
      <4>1. call' \in [Calls -> [pc: Awaits, socket: Sockets \cup {NoSocket}]]
        BY <3>4 DEF TypeOK, Awaits
      <4>2. 0 \in 0..MaxAttempts
        OBVIOUS
      <4>3. obj' \in [status: Status, intentional: BOOLEAN,
                      attempts: 0..MaxAttempts, timer: BOOLEAN]
        BY <3>4, <4>2 DEF TypeOK
      <4> QED BY <2>2, <3>1, <3>4, <4>1, <4>3 DEF TypeOK, managerVars
    <3> QED BY <2>6, <3>2, <3>3, <3>4 DEF Delete
  <2> QED BY <1>2, <2>3, <2>4, <2>5, <2>6 DEF Operate
<1>3. ASSUME NEW c \in Calls, Resume(c) PROVE TypeOK'
  <2>1. CASE WriteIntent(c) \/ WriteReset(c) \/ WriteOff(c)
    <3>1. row' \in [exists: BOOLEAN, auto: BOOLEAN, status: Status]
      BY <2>1, WriteRowType DEF WriteIntent, WriteReset, WriteOff, Status
    <3> QED
      BY <2>1, <3>1, GotoType DEF WriteIntent, WriteReset, WriteOff, TypeOK,
                                  Awaits, socketVars
  <2>2. CASE StartDial(c)
    <3>1. obj.timer \in BOOLEAN
      BY DEF TypeOK
    <3>2. meta' \in [status: Status, auto: BOOLEAN] /\ announced' \subseteq Status
      BY <2>2 DEF StartDial, TypeOK, Status
    <3> QED BY <2>2, <3>1, <3>2, GotoType, DialType
               DEF StartDial, TypeOK, Awaits
  <2>3. CASE Dialed(c)
    <3>1. obj' = obj /\ stray' = stray
      BY <2>3 DEF Dialed, MakeSocket
    <3> QED BY <2>3, <3>1, GotoType, MakeSocketType DEF Dialed, TypeOK, Awaits
  <2>4. CASE DialFails(c)
    <3>1. count' \in [calls: 0..MaxCalls, failures: 0..MaxFailures,
                      cuts: 0..MaxCuts]
      BY <2>4 DEF DialFails, LoadFails, TypeOK
    <3> QED BY <2>4, <3>1, GotoType, ShowType
               DEF DialFails, TypeOK, Awaits, Status, socketVars
  <2>5. CASE FailureWritten(c) \/ Unregister(c)
    <3>1. row' \in [exists: BOOLEAN, auto: BOOLEAN, status: Status]
      BY <2>5, WriteRowType DEF FailureWritten, Unregister, TypeOK, Status
    <3> QED BY <2>5, <3>1, GotoType DEF FailureWritten, Unregister, TypeOK,
                                        Awaits, socketVars
  <2>6. CASE Disconnected(c) \/ SessionWiped(c)
    <3>1. \/ meta' = meta
          \/ meta' = [meta EXCEPT !.auto = FALSE]
          \/ meta' = [status |-> "connecting", auto |-> TRUE]
      BY <2>6 DEF Disconnected, SessionWiped
    <3>2. meta \in [status: Status, auto: BOOLEAN]
      BY DEF TypeOK
    <3>3. meta' \in [status: Status, auto: BOOLEAN]
      <4>1. CASE meta' = meta
        BY <3>2, <4>1
      <4>2. CASE meta' = [meta EXCEPT !.auto = FALSE]
        BY <3>2, <4>2
      <4>3. CASE meta' = [status |-> "connecting", auto |-> TRUE]
        BY <4>3 DEF Status
      <4> QED BY <3>1, <4>1, <4>2, <4>3
    <3> QED BY <2>6, <3>3, GotoType
               DEF Disconnected, SessionWiped, TypeOK, Awaits, socketVars
  <2>7. CASE ResetConnects(c)
    <3>1. abandoned' \in BOOLEAN
      BY <2>7 DEF ResetConnects
    <3> QED BY <2>7, <3>1, GotoType
               DEF ResetConnects, GuardedConnect, TypeOK, Awaits, managerVars,
                   socketVars
  <2>8. CASE LoggedOut(c)
    <3>1. /\ line' \in [Sockets -> {"unused", "opening", "open", "closed"}]
          /\ heard' \subseteq {s \in Sockets : line'[s] # "unused"}
      BY <2>8 DEF LoggedOut, TypeOK, Alive
    <3>2. obj' \in [status: Status, intentional: BOOLEAN,
                    attempts: 0..MaxAttempts, timer: BOOLEAN]
      BY <2>8 DEF LoggedOut, TypeOK, Status
    <3> QED BY <2>8, <3>1, <3>2, GotoType
               DEF LoggedOut, TypeOK, Awaits, managerVars
  <2>9. CASE DropRow(c)
    BY <2>9, GotoType DEF DropRow, TypeOK, Awaits, socketVars
  <2> QED BY <1>3, <2>1, <2>2, <2>3, <2>4, <2>5, <2>6, <2>7, <2>8, <2>9
             DEF Resume
<1>4. ASSUME NEW s \in Sockets, SocketOpens(s) PROVE TypeOK'
  <2>1. /\ line' \in [Sockets -> {"unused", "opening", "open", "closed"}]
        /\ heard' \subseteq {t \in Sockets : line'[t] # "unused"}
    BY <1>4 DEF SocketOpens, TypeOK
  <2>2. CASE s \in heard
    <3>1. obj' = [obj EXCEPT !.status = "connected", !.attempts = 0]
      BY <1>4, <2>2 DEF SocketOpens
    <3>2. 0 \in 0..MaxAttempts /\ "connected" \in Status
      BY DEF Status
    <3>3. obj' \in [status: Status, intentional: BOOLEAN,
                    attempts: 0..MaxAttempts, timer: BOOLEAN]
      BY <3>1, <3>2 DEF TypeOK
    <3>4. meta' \in [status: Status, auto: BOOLEAN] /\ announced' \subseteq Status
      BY <1>4, <2>2, <3>2, AnnounceType DEF SocketOpens
    <3> QED BY <1>4, <2>1, <2>2, <3>3, <3>4 DEF SocketOpens, TypeOK
  <2>3. CASE s \notin heard
    BY <1>4, <2>1, <2>3 DEF SocketOpens, TypeOK
  <2> QED BY <2>2, <2>3
<1>5. ASSUME NEW s \in Sockets, SocketCloses(s) PROVE TypeOK'
  <2>1. /\ line' \in [Sockets -> {"unused", "opening", "open", "closed"}]
        /\ heard' \subseteq {t \in Sockets : line'[t] # "unused"}
    BY <1>5 DEF SocketCloses, TypeOK
  <2>2. count' \in [calls: 0..MaxCalls, failures: 0..MaxFailures,
                    cuts: 0..MaxCuts]
    BY <1>5 DEF SocketCloses, TypeOK
  <2>3. /\ obj' \in [status: Status, intentional: BOOLEAN,
                     attempts: 0..MaxAttempts, timer: BOOLEAN]
        /\ meta' \in [status: Status, auto: BOOLEAN]
        /\ announced' \subseteq Status
        /\ stray' \in Nat
    <3>1. CASE UNCHANGED <<obj, meta, announced, stray>>
      BY <3>1 DEF TypeOK
    <3>2. CASE ScheduleReconnect
      BY <3>2, ScheduleReconnectType
    <3>3. CASE /\ obj' = [obj EXCEPT !.status = "disconnected"]
               /\ Announce({"disconnected"}, "disconnected")
               /\ UNCHANGED stray
      BY <3>3, AnnounceType DEF TypeOK, Status
    <3> QED BY <1>5, <3>1, <3>2, <3>3 DEF SocketCloses
  <2> QED BY <1>5, <2>1, <2>2, <2>3 DEF SocketCloses, TypeOK
<1>6. CASE TimerFires
  <2>1. \E pending \in BOOLEAN : Dial(pending)
    BY <1>6 DEF TimerFires, TypeOK
  <2>2. stray' \in Nat
    <3>1. stray' = stray \/ (stray > 0 /\ stray' = stray - 1)
      BY <1>6 DEF TimerFires
    <3> QED BY <3>1 DEF TypeOK
  <2>3. meta' \in [status: Status, auto: BOOLEAN] /\ announced' \subseteq Status
    BY <1>6, AnnounceType DEF TimerFires, Status
  <2> QED BY <1>6, <2>1, <2>2, <2>3, DialType
             DEF TimerFires, TypeOK
<1>7. CASE Redialed
  <2>1. count' \in [calls: 0..MaxCalls, failures: 0..MaxFailures,
                    cuts: 0..MaxCuts]
    BY <1>7 DEF Redialed, LoadFails, TypeOK
  <2>2. redials' \in Nat
    BY <1>7 DEF Redialed, TypeOK
  <2>3. CASE MakeSocket
    <3>1. obj' = obj /\ stray' = stray
      BY <2>3 DEF MakeSocket
    <3> QED BY <1>7, <2>1, <2>2, <2>3, <3>1, MakeSocketType
               DEF Redialed, TypeOK, managerVars
  <2>4. CASE UNCHANGED <<obj, stray, socket, line, heard>>
    BY <1>7, <2>1, <2>2, <2>4 DEF Redialed, TypeOK, managerVars
  <2> QED BY <1>7, <2>3, <2>4 DEF Redialed
<1>8. CASE Restart
  <2>1. /\ count' \in [calls: 0..MaxCalls, failures: 0..MaxFailures,
                       cuts: 0..MaxCuts]
        /\ line' \in [Sockets -> {"unused", "opening", "open", "closed"}]
    BY <1>8 DEF Restart, TypeOK, Alive
  <2>2. call' \in [Calls -> [pc: Awaits, socket: Sockets \cup {NoSocket}]]
    BY <1>8 DEF Restart, Idle, Awaits
  <2>3. obj' \in [status: Status, intentional: BOOLEAN,
                  attempts: 0..MaxAttempts, timer: BOOLEAN]
    BY <1>8 DEF Restart, FreshObject, Status
  <2>4. PICK found \in LastWritten :
           /\ row' = [row EXCEPT !.status = found]
           /\ meta' = [status |-> IF row.auto THEN "connecting" ELSE found,
                       auto |-> row.auto]
           /\ abandoned' = (~row.auto /\ found = "connecting")
    BY <1>8 DEF Restart
  <2>5. found \in Status
    BY <2>4 DEF LastWritten, TypeOK
  <2>6. /\ row' \in [exists: BOOLEAN, auto: BOOLEAN, status: Status]
        /\ meta' \in [status: Status, auto: BOOLEAN]
        /\ abandoned' \in BOOLEAN
    BY <2>4, <2>5 DEF TypeOK, Status
  <2> QED BY <1>8, <2>1, <2>2, <2>3, <2>6 DEF Restart, TypeOK
<1> QED
  BY <1>1, <1>2, <1>3, <1>4, <1>5, <1>6, <1>7, <1>8 DEF Next, Settle

\* Every state of an instance is well formed (the state of InstanceManager and
\* BaileysInstance).
THEOREM TypeCorrect == Spec => []TypeOK
BY TypeInit, TypeStep, PTL DEF Spec

-----------------------------------------------------------------------------
(* Retrying.                                                               *)

LEMMA RetryingStep ==
    TypeOK /\ QuitStopsRetrying /\ [Next]_vars => QuitStopsRetrying'
<1> SUFFICES ASSUME TypeOK, QuitStopsRetrying, [Next]_vars
             PROVE  QuitStopsRetrying'
  OBVIOUS
<1>1. obj \in [status: Status, intentional: BOOLEAN,
               attempts: 0..MaxAttempts, timer: BOOLEAN]
  BY DEF TypeOK
<1> USE <1>1 DEF QuitStopsRetrying
<1>2. CASE UNCHANGED vars
  BY <1>2 DEF vars, socketVars
<1>3. ASSUME NEW c \in Calls, Operate(c) PROVE QuitStopsRetrying'
  <2>1. CASE HangUp
    BY <2>1 DEF HangUp
  <2>2. CASE UNCHANGED obj
    BY <2>2
  <2>3. CASE obj' = [obj EXCEPT !.intentional = TRUE, !.timer = FALSE,
                                !.attempts = 0]
    BY <2>3
  <2> QED BY <1>3, <2>1, <2>2, <2>3
             DEF Operate, Connect, Disconnect, ResetSession, Delete,
                 socketVars
<1>4. ASSUME NEW c \in Calls, Resume(c) PROVE QuitStopsRetrying'
  <2>1. CASE StartDial(c)
    BY <2>1 DEF StartDial, Dial
  <2>2. CASE LoggedOut(c)
    BY <2>2 DEF LoggedOut
  <2>3. CASE UNCHANGED obj
    BY <2>3
  <2> QED BY <1>4, <2>1, <2>2, <2>3
             DEF Resume, WriteIntent, Dialed, MakeSocket, DialFails,
                 FailureWritten, WriteOff, Disconnected, SessionWiped,
                 WriteReset, ResetConnects, Unregister, DropRow, socketVars
<1>5. ASSUME NEW s \in Sockets, Settle(s) PROVE QuitStopsRetrying'
  <2>1. CASE SocketOpens(s)
    BY <2>1 DEF SocketOpens
  <2>2. CASE SocketCloses(s)
    BY <2>2 DEF SocketCloses, ScheduleReconnect
  <2> QED BY <1>5, <2>1, <2>2 DEF Settle
<1>6. CASE TimerFires \/ Redialed
  BY <1>6 DEF TimerFires, Redialed, Dial, MakeSocket
<1>7. CASE Restart
  BY <1>7 DEF Restart, FreshObject
<1> QED
  BY <1>2, <1>3, <1>4, <1>5, <1>6, <1>7 DEF Next

\* After a disconnect or a logout reconnectTimer stays clear, whatever calls,
\* socket events and forgotten timers come meanwhile (BaileysInstance.disconnect).
THEOREM RetryingStops == Spec => []QuitStopsRetrying
<1>1. Init => QuitStopsRetrying
  BY DEF Init, QuitStopsRetrying, FreshObject
<1> QED
  BY <1>1, TypeCorrect, RetryingStep, PTL DEF Spec

-----------------------------------------------------------------------------
(* The durable wish.  CrashKeepsIntent is not inductive: a socket is made   *)
(* several steps after the row was written, by whoever dialled.             *)

Quitting == {"off", "switchedOff", "loggingOut", "unregistering", "dropping"}
Wishing == {"intended", "resetIntended", "dialing"}

\* Something that can still end in a socket.
Engaged ==
    \/ obj.timer \/ stray # 0 \/ redials # 0
    \/ \E s \in Sockets : Alive(s)
    \/ \E c \in Calls : call[c].pc \in Wishing

WishInv ==
    /\ row.auto => row.exists
    /\ ~quitted =>
         /\ \A c \in Calls : call[c].pc \notin Quitting
         /\ ~row.exists => ~registered /\ \A c \in Calls : call[c].pc = "idle"
         /\ Engaged => row.auto

\* A step that dials nothing new, writes no row and starts no quitting.
LEMMA WishQuiet ==
    ASSUME WishInv, row'.auto = row.auto, row'.exists = row.exists,
           quitted' = quitted, registered' = registered,
           ~quitted => /\ \A c \in Calls : call'[c].pc \notin Quitting
                       /\ ~row.exists => \A c \in Calls : call'[c].pc = "idle"
                       /\ Engaged' => Engaged
    PROVE  WishInv'
BY DEF WishInv

\* Once something quits nothing is promised before the next boot.
LEMMA WishWaived ==
    ASSUME WishInv, quitted', row'.auto => row'.exists
    PROVE  WishInv'
BY DEF WishInv

LEMMA WishStep == TypeOK /\ WishInv /\ [Next]_vars => WishInv'
<1> SUFFICES ASSUME TypeOK, WishInv, [Next]_vars PROVE WishInv'
  OBVIOUS
<1>1. /\ obj \in [status: Status, intentional: BOOLEAN,
                  attempts: 0..MaxAttempts, timer: BOOLEAN]
      /\ stray \in Nat /\ redials \in Nat
      /\ call \in [Calls -> [pc: Awaits, socket: Sockets \cup {NoSocket}]]
      /\ line \in [Sockets -> {"unused", "opening", "open", "closed"}]
      /\ row \in [exists: BOOLEAN, auto: BOOLEAN, status: Status]
      /\ quitted \in BOOLEAN /\ registered \in BOOLEAN
  BY DEF TypeOK
<1> USE <1>1 DEF historyVars
<1>2. CASE UNCHANGED vars
  <2>1. (Engaged' => Engaged) /\ call' = call
    BY <1>2 DEF vars, socketVars, Engaged, Alive, Wishing
  <2> QED BY <1>2, <2>1, WishQuiet DEF vars, managerVars, WishInv
<1>3. ASSUME NEW c \in Calls, Operate(c) PROVE WishInv'
  <2>1. CASE Connect(c)
    <3>1. \A d \in Calls : call'[d].pc = call[d].pc
                           \/ call'[d].pc \in {"idle", "intent"}
      BY <2>1 DEF Connect, GuardedConnect, Goto, Idle
    <3>2. Engaged' => Engaged
      BY <2>1, <3>1 DEF Connect, Engaged, socketVars, Alive, Wishing
    <3> QED BY <2>1, <3>1, <3>2, WishQuiet
               DEF Connect, managerVars, WishInv, Quitting
  <2>2. CASE Disconnect(c) \/ Delete(c)
    BY <2>2, WishWaived DEF Disconnect, Delete, managerVars, WishInv
  <2>3. CASE ResetSession(c)
    <3>1. \A d \in Calls : call'[d].pc = call[d].pc \/ call'[d].pc = "wiping"
      BY <2>3 DEF ResetSession, Goto, Idle
    <3>2. Engaged' => Engaged
      BY <2>3, <3>1 DEF ResetSession, HangUp, Engaged, Alive, Wishing
    <3> QED BY <2>3, <3>1, <3>2, WishQuiet
               DEF ResetSession, managerVars, WishInv, Quitting
  <2> QED BY <1>3, <2>1, <2>2, <2>3 DEF Operate
<1>4. ASSUME NEW c \in Calls, Resume(c) PROVE WishInv'
  <2>1. CASE WriteIntent(c) \/ WriteReset(c)
    <3>1. call[c].pc \in {"intent", "resetIntent"}
      BY <2>1 DEF WriteIntent, WriteReset, At
    <3>2. /\ row' = IF row.exists
                    THEN [row EXCEPT !.auto = TRUE, !.status = "connecting"]
                    ELSE row
          /\ quitted' = quitted /\ registered' = registered
      BY <2>1 DEF WriteIntent, WriteReset, WriteRow
    <3>3. \A d \in Calls : call'[d].pc = call[d].pc
                           \/ call'[d].pc \in {"intended", "resetIntended"}
      <4>1. Goto(c, "intended") \/ Goto(c, "resetIntended")
        BY <2>1 DEF WriteIntent, WriteReset
      <4> QED BY <4>1 DEF Goto, Idle
    <3>4. ~quitted => row.exists
      BY <3>1 DEF WishInv
    <3>5. row'.exists = row.exists /\ row'.auto = row.exists
      BY <3>2 DEF WishInv
    <3> QED BY <3>2, <3>3, <3>4, <3>5 DEF WishInv, Quitting
  <2>2. CASE StartDial(c)
    <3>1. \A d \in Calls : call'[d].pc = call[d].pc \/ d = c
      BY <2>2 DEF StartDial, Goto
    <3>2. call'[c].pc = "dialing" /\ call[c].pc = "intended"
      BY <2>2 DEF StartDial, Goto, At, Idle
    <3>3. Engaged
      BY <3>2 DEF Engaged, Wishing
    <3> QED BY <2>2, <3>1, <3>2, <3>3, WishQuiet
               DEF StartDial, WishInv, Quitting
  <2>3. CASE Dialed(c)
    <3>1. call[c].pc = "dialing"
      BY <2>3 DEF Dialed, At
    <3>2. Engaged
      BY <3>1 DEF Engaged, Wishing
    <3>3. \A d \in Calls : call'[d].pc = call[d].pc \/ call'[d].pc = "idle"
      BY <2>3 DEF Dialed, Goto, Idle
    <3> QED BY <2>3, <3>1, <3>2, <3>3, WishQuiet DEF Dialed, WishInv, Quitting
  <2>4. CASE DialFails(c) \/ FailureWritten(c) \/ SessionWiped(c)
    <3>1. call[c].pc # "idle"
      BY <2>4 DEF DialFails, FailureWritten, SessionWiped, At
    <3>2. \A d \in Calls : \/ call'[d].pc = call[d].pc
                           \/ call'[d].pc \in {"failing", "idle", "resetIntent"}
      BY <2>4 DEF DialFails, FailureWritten, SessionWiped, Goto, Idle
    <3>3. Engaged' => Engaged
      BY <2>4, <3>2 DEF DialFails, FailureWritten, SessionWiped, Engaged,
                        socketVars, Alive, Wishing
    <3>4. /\ row'.auto = row.auto /\ row'.exists = row.exists
          /\ UNCHANGED <<registered, quitted>>
      BY <2>4 DEF DialFails, FailureWritten, SessionWiped, WriteRow
    <3> QED BY <3>1, <3>2, <3>3, <3>4, WishQuiet DEF WishInv, Quitting
  <2>5. CASE ResetConnects(c)
    <3>1. call[c].pc = "resetIntended"
      BY <2>5 DEF ResetConnects, At
    <3>2. \A d \in Calls : \/ call'[d].pc = call[d].pc
                           \/ call'[d].pc \in {"idle", "intent"}
      BY <2>5 DEF ResetConnects, GuardedConnect, Goto, Idle
    <3>3. Engaged
      BY <3>1 DEF Engaged, Wishing
    <3> QED BY <2>5, <3>1, <3>2, <3>3, WishQuiet
               DEF ResetConnects, managerVars, WishInv, Quitting
  <2>6. CASE WriteOff(c) \/ Disconnected(c) \/ LoggedOut(c)
             \/ Unregister(c) \/ DropRow(c)
    <3>1. call[c].pc \in Quitting
      BY <2>6 DEF WriteOff, Disconnected, LoggedOut, Unregister, DropRow, At,
                  Quitting
    <3>2. quitted
      BY <3>1 DEF WishInv
    <3>3. row'.auto => row'.exists
      BY <2>6 DEF WriteOff, WriteRow, Disconnected, LoggedOut, Unregister,
                  DropRow, managerVars, WishInv
    <3>4. quitted' = quitted
      BY <2>6 DEF WriteOff, Disconnected, LoggedOut, Unregister, DropRow
    <3> QED BY <3>2, <3>3, <3>4, WishWaived
  <2> QED BY <1>4, <2>1, <2>2, <2>3, <2>4, <2>5, <2>6 DEF Resume
<1>5. ASSUME NEW s \in Sockets, Settle(s) PROVE WishInv'
  <2>1. Alive(s) /\ Engaged
    BY <1>5 DEF Settle, SocketOpens, SocketCloses, Engaged, Alive
  <2>2. UNCHANGED <<row, registered, call, quitted>>
    BY <1>5 DEF Settle, SocketOpens, SocketCloses
  <2> QED BY <2>1, <2>2, WishQuiet DEF WishInv
<1>6. CASE TimerFires \/ Redialed
  <2>1. Engaged
    <3>1. obj.timer \/ stray > 0 \/ redials > 0
      BY <1>6 DEF TimerFires, Redialed
    <3> QED BY <3>1 DEF Engaged
  <2>2. UNCHANGED <<row, registered, call, quitted>>
    BY <1>6 DEF TimerFires, Redialed, managerVars
  <2> QED BY <2>1, <2>2, WishQuiet DEF WishInv
<1>7. CASE Restart
  <2>1. /\ row'.auto = row.auto /\ row'.exists = row.exists
        /\ quitted' = FALSE /\ registered' = row.exists
        /\ obj' = FreshObject /\ stray' = 0 /\ redials' = 0
    BY <1>7 DEF Restart
  <2>2. \A s \in Sockets : ~Alive(s)'
    BY <1>7 DEF Restart, Alive
  <2>3. \A c \in Calls : \/ call'[c].pc = "idle"
                         \/ call'[c].pc = "intent" /\ row.auto
    BY <1>7 DEF Restart, Idle
  <2>4. ~Engaged'
    BY <2>1, <2>2, <2>3 DEF Engaged, Wishing, FreshObject, Alive
  <2> QED BY <2>1, <2>3, <2>4 DEF WishInv, Quitting
<1> QED
  BY <1>2, <1>3, <1>4, <1>5, <1>6, <1>7 DEF Next

\* The wish to be connected is durable before anything dials and until a
\* disconnect or delete, so a crash at any await reconnects at the next boot
\* (InstanceManager.connect, resetSession and the boot).
THEOREM CrashIsSurvived == Spec => []CrashKeepsIntent
<1>1. Init => WishInv
  BY DEF Init, WishInv, Engaged, Alive, FreshObject, Idle, Wishing, Quitting
<1>2. TypeOK /\ WishInv => CrashKeepsIntent
  BY DEF WishInv, CrashKeepsIntent, Engaged, At, Wishing, TypeOK
<1> QED
  BY <1>1, <1>2, TypeCorrect, WishStep, PTL DEF Spec

=============================================================================
