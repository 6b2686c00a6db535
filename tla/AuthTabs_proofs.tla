--------------------------- MODULE AuthTabs_proofs --------------------------
(***************************************************************************)
(* Proofs about AuthTabs for any number of tabs, sessions, refreshes,      *)
(* profile requests, logouts and password changes.                         *)
(***************************************************************************)
EXTENDS AuthTabs, SequenceTheorems, TLAPS

\* A sync always tells of a session: only logins and refreshes send one.
GoodMessage == {m \in Message : m.type = "sync" => m.auth}

\* A pending refresh began with the circuit closed.
CircuitInv ==
    \A t \in Tabs : refreshing[t].stage \in {"sent", "answered"}
                        => tab[t].failures < MaxFailures

\* A latched tab holds no session and no refresh that may bring one.
LatchInv ==
    \A t \in Tabs : tab[t].blocked =>
        /\ ~tab[t].auth /\ tab[t].token = 0
        /\ refreshing[t].stage # "none" => ~refreshing[t].current

\* Until somebody ends a session, nothing is under way that could, except a
\* token that was left behind.
SpareInv ==
    ~asked => /\ (1..issued) \ live \subseteq outrun
              /\ \A t \in Tabs : /\ leaving[t].stage = "none"
                                 /\ refreshing[t].stage # "cleanup"

\* A tab whose logout is in force is latched; once the request is under way
\* nothing is left that could bring it a cookie.
DrainInv ==
    \A t \in left :
        /\ tab[t].blocked
        /\ leaving[t].stage # "draining" => refreshing[t].stage = "none"
        /\ leaving[t].stage = "none" => jar = NoCookie \/ taker # {t}

\* Token k is the one session s holds, or the one it replaced, still served.
Near(s, k) == k = current[s] \/ (window[s] /\ k + 1 = current[s])

\* Of a session that was not outrun, the cookie, the requests and the answers
\* on their way are of tokens the server still serves.
TokenInv ==
    /\ \A s \in 1..MaxSessions : issued < s => current[s] = 1
    /\ \A s \in (1..MaxSessions) \ outrun :
           /\ jar.sid = s => Near(s, jar.tok)
           /\ \A u \in Tabs :
                  /\ entering[u] = s => Near(s, 1)
                  /\ refreshing[u].cookie.sid = s =>
                         /\ refreshing[u].stage = "sent"
                                => Near(s, refreshing[u].cookie.tok)
                         /\ refreshing[u].answer = "ok"
                                => Near(s, refreshing[u].cookie.tok + 1)

\* An answer belongs to a refresh that is under way.
PendingInv ==
    \A t \in Tabs : refreshing[t].stage = "none" => refreshing[t].answer = "pending"

Types ==
    /\ tab \in [Tabs -> Page] /\ refreshing \in [Tabs -> Refreshing]
    /\ fetching \in [Tabs -> Fetching] /\ leaving \in [Tabs -> Leaving]
    /\ channel \in [Tabs -> [Tabs -> Seq(GoodMessage)]]
    /\ entering \in [Tabs -> Sid] /\ changing \in [Tabs -> BOOLEAN]
    /\ jar \in Cookie /\ live \subseteq 1..issued /\ issued \in Sid
    /\ current \in [1..MaxSessions -> Nat] /\ window \in [1..MaxSessions -> BOOLEAN]
    /\ asked \in BOOLEAN /\ left \subseteq Tabs /\ outrun \subseteq 1..issued

IInv ==
    /\ Types
    /\ CircuitInv /\ LatchInv /\ SpareInv /\ DrainInv /\ PendingInv /\ TokenInv

-----------------------------------------------------------------------------
(* Values.                                                                 *)

LEMMA Constants ==
    /\ 0 \in Sid /\ MaxFailures \in Nat /\ MaxFailures > 0
    /\ Anonymous \in Page /\ NoRefresh \in Refreshing
    /\ NoFetch \in Fetching /\ NoLogout \in Leaving /\ NoCookie \in Cookie
<1>1. 0 \in Sid /\ MaxFailures \in Nat /\ MaxFailures > 0
  BY BoundsAssumption DEF Sid
<1>2. 0 \in 0..MaxFailures
  BY <1>1
<1>3. Anonymous \in Page
  BY <1>1, <1>2 DEF Anonymous, Page
<1>4. NoCookie \in Cookie
  BY <1>1 DEF NoCookie, Cookie
<1>5. NoRefresh \in Refreshing
  BY <1>1, <1>4 DEF NoRefresh, Refreshing
<1>6. NoFetch \in Fetching /\ NoLogout \in Leaving
  BY <1>1, <1>4 DEF NoFetch, NoLogout, Fetching, Leaving
<1> QED BY <1>1, <1>3, <1>4, <1>5, <1>6

LEMMA Broadcasting ==
    ASSUME channel \in [Tabs -> [Tabs -> Seq(GoodMessage)]],
           NEW t \in Tabs, NEW msg \in GoodMessage
    PROVE  Broadcast(channel, t, msg) \in [Tabs -> [Tabs -> Seq(GoodMessage)]]
<1> DEFINE row == [u \in Tabs |-> IF u = t THEN channel[t][u]
                                  ELSE Append(channel[t][u], msg)]
<1>1. row \in [Tabs -> Seq(GoodMessage)]
  <2>1. ASSUME NEW u \in Tabs PROVE Append(channel[t][u], msg) \in Seq(GoodMessage)
    BY AppendProperties
  <2> QED BY <2>1
<1> QED BY <1>1 DEF Broadcast

LEMMA Taking ==
    ASSUME channel \in [Tabs -> [Tabs -> Seq(GoodMessage)]],
           NEW s \in Tabs, NEW t \in Tabs, channel[s][t] # <<>>
    PROVE  /\ Head(channel[s][t]) \in GoodMessage
           /\ [channel EXCEPT ![s][t] = Tail(@)]
                  \in [Tabs -> [Tabs -> Seq(GoodMessage)]]
<1>1. channel[s][t] \in Seq(GoodMessage)
  OBVIOUS
<1>2. /\ Head(channel[s][t]) \in GoodMessage
      /\ Tail(channel[s][t]) \in Seq(GoodMessage)
  BY <1>1, HeadTailProperties
<1> QED BY <1>2

LEMMA Messages ==
    /\ LogoutMessage \in GoodMessage
    /\ \A p \in Page : p.auth => SyncMessage(p) \in GoodMessage
<1>1. LogoutMessage \in GoodMessage
  BY Constants DEF LogoutMessage, GoodMessage, Message
<1>2. ASSUME NEW p \in Page, p.auth PROVE SyncMessage(p) \in GoodMessage
  <2>1. p.user \in Sid /\ p.token \in Sid /\ p.auth \in BOOLEAN
    BY DEF Page
  <2>2. SyncMessage(p) \in Message /\ SyncMessage(p).auth = p.auth
    BY <2>1 DEF SyncMessage, Message
  <2> QED BY <1>2, <2>2 DEF GoodMessage
<1> QED BY <1>1, <1>2

\* GoodMessages are Messages.
LEMMA GoodIsTyped ==
    ASSUME NEW c \in [Tabs -> [Tabs -> Seq(GoodMessage)]]
    PROVE  c \in [Tabs -> [Tabs -> Seq(Message)]]
<1>1. ASSUME NEW s \in Tabs, NEW t \in Tabs PROVE c[s][t] \in Seq(Message)
  <2>1. c[s][t] \in Seq(GoodMessage)
    OBVIOUS
  <2>2. \E n \in Nat : c[s][t] \in [1..n -> GoodMessage]
    BY <2>1, SeqDef
  <2>3. \E n \in Nat : c[s][t] \in [1..n -> Message]
    BY <2>2 DEF GoodMessage
  <2> QED BY <2>3, SeqDef
<1> QED BY <1>1

LEMMA Pages ==
    ASSUME NEW p \in Page, NEW sid \in Sid
    PROVE  /\ ResetState(p) \in Page /\ ApplyTokens(p, sid) \in Page
           /\ ResetState(p).failures = p.failures
           /\ ResetState(p).blocked = p.blocked
           /\ ~ResetState(p).auth /\ ResetState(p).token = 0
           /\ ApplyTokens(p, sid).failures = 0 /\ ApplyTokens(p, sid).auth
           /\ ApplyTokens(p, sid).blocked = p.blocked
<1>1. 0 \in 0..MaxFailures /\ 0 \in Sid
  BY Constants
<1>2. /\ ResetState(p) \in Page
      /\ ResetState(p).failures = p.failures
      /\ ResetState(p).blocked = p.blocked
      /\ ~ResetState(p).auth /\ ResetState(p).token = 0
  BY <1>1 DEF ResetState, Page
<1>3. /\ ApplyTokens(p, sid) \in Page
      /\ ApplyTokens(p, sid).failures = 0 /\ ApplyTokens(p, sid).auth
      /\ ApplyTokens(p, sid).blocked = p.blocked
  BY <1>1 DEF ApplyTokens, Page
<1> QED BY <1>2, <1>3

-----------------------------------------------------------------------------
(* What the shared operators leave behind.                                 *)

LEMMA CloseShape ==
    ASSUME TypeOK, NEW t \in Tabs, Close(t)
    PROVE  /\ tab' \in [Tabs -> Page] /\ refreshing' \in [Tabs -> Refreshing]
           /\ fetching' \in [Tabs -> Fetching] /\ changing' \in [Tabs -> BOOLEAN]
           /\ \A u \in Tabs \ {t} : tab'[u] = tab[u] /\ refreshing'[u] = refreshing[u]
           /\ tab'[t].blocked /\ ~tab'[t].auth /\ tab'[t].token = 0
           /\ tab'[t].failures = tab[t].failures
           /\ refreshing'[t].stage = refreshing[t].stage
           /\ refreshing[t].stage # "none" => ~refreshing'[t].current
<1> DEFINE old == ResetState(tab[t])
           new == [old EXCEPT !.blocked = TRUE, !.closed = TRUE]
<1>1. /\ tab \in [Tabs -> Page] /\ tab[t] \in Page /\ old \in Page
      /\ old.failures = tab[t].failures /\ ~old.auth /\ old.token = 0
  BY Pages, Constants DEF TypeOK
<1>2. tab' = [tab EXCEPT ![t] = new]
  BY DEF Close
<1> HIDE DEF old
<1>3. /\ new \in Page /\ new.blocked /\ ~new.auth /\ new.token = 0
      /\ new.failures = tab[t].failures
  BY <1>1 DEF Page
<1> HIDE DEF new
<1>6. /\ tab' \in [Tabs -> Page]
      /\ \A u \in Tabs \ {t} : tab'[u] = tab[u]
      /\ tab'[t] = new
  BY <1>1, <1>2, <1>3
<1>4. /\ fetching' \in [Tabs -> Fetching]
      /\ changing' \in [Tabs -> BOOLEAN]
  BY Constants DEF Close, TypeOK
<1>5. /\ refreshing' \in [Tabs -> Refreshing]
      /\ \A u \in Tabs \ {t} : refreshing'[u] = refreshing[u]
      /\ refreshing'[t].stage = refreshing[t].stage
      /\ refreshing[t].stage # "none" => ~refreshing'[t].current
  <2> DEFINE b == refreshing[t].current /\ refreshing[t].stage = "none"
             r == [refreshing[t] EXCEPT !.current = b]
  <2>1. refreshing \in [Tabs -> Refreshing] /\ refreshing[t] \in Refreshing
    BY DEF TypeOK
  <2>2. refreshing' = [refreshing EXCEPT ![t] = r]
    BY <2>1 DEF Close, Refreshing
  <2>3. b \in BOOLEAN /\ (refreshing[t].stage # "none" => ~b)
    BY <2>1 DEF Refreshing
  <2> HIDE DEF b
  <2>4. r \in Refreshing /\ r.stage = refreshing[t].stage /\ r.current = b
    BY <2>1, <2>3 DEF Refreshing
  <2> HIDE DEF r
  <2> QED BY <2>1, <2>2, <2>3, <2>4
<1> QED BY <1>3, <1>4, <1>5, <1>6

LEMMA SettleShape ==
    ASSUME TypeOK, NEW t \in Tabs, NEW ok, tab' \in [Tabs -> Page], Settle(t, ok)
    PROVE  /\ refreshing' \in [Tabs -> Refreshing]
           /\ refreshing'[t].stage = "none"
           /\ \A u \in Tabs \ {t} : refreshing'[u] = refreshing[u]
           /\ fetching' \in [Tabs -> Fetching]
<1>1. /\ refreshing' \in [Tabs -> Refreshing]
      /\ refreshing'[t].stage = "none"
      /\ \A u \in Tabs \ {t} : refreshing'[u] = refreshing[u]
  BY Constants DEF Settle, TypeOK, NoRefresh
<1>2. tab'[t].token \in Sid
  BY DEF Page
<1>3. [stage |-> "sent", sid |-> tab'[t].token, again |-> TRUE] \in Fetching
  BY <1>2 DEF Fetching
<1> QED BY <1>1, <1>3, Constants DEF Settle, TypeOK

LEMMA ShareShape ==
    ASSUME TypeOK, NEW t \in Tabs, ShareRefresh(t)
    PROVE  /\ refreshing' \in [Tabs -> Refreshing]
           /\ \A u \in Tabs \ {t} : refreshing'[u] = refreshing[u]
           /\ refreshing'[t] = refreshing[t] \/ refreshing'[t].stage = "sent"
<1>1. jar \in Cookie
  BY DEF TypeOK
<1>2. [NoRefresh EXCEPT !.stage = "sent", !.cookie = jar] \in Refreshing
  BY <1>1, Constants DEF Refreshing
<1>3. [NoRefresh EXCEPT !.stage = "sent", !.cookie = jar].stage = "sent"
  BY DEF NoRefresh
<1> QED BY <1>2, <1>3 DEF ShareRefresh, TypeOK

LEMMA AnswerShape ==
    ASSUME TypeOK, NEW t \in Tabs, NEW a \in Answers, Answer(t, a)
    PROVE  /\ refreshing' \in [Tabs -> Refreshing]
           /\ \A u \in Tabs \ {t} : refreshing'[u] = refreshing[u]
           /\ refreshing'[t].stage = "answered" /\ refreshing'[t].answer = a
           /\ refreshing'[t].cookie = refreshing[t].cookie
           /\ refreshing'[t].current = refreshing[t].current
<1>1. refreshing \in [Tabs -> Refreshing] /\ refreshing[t] \in Refreshing
  BY DEF TypeOK
<1> QED BY <1>1 DEF Answer, Refreshing

LEMMA Bringing ==
    ASSUME TypeOK, NEW t \in Tabs
    PROVE  /\ Brought(t) \in Cookie
           /\ \/ Brought(t) = jar \/ Brought(t) = NoCookie
              \/ /\ refreshing[t].answer = "ok"
                 /\ Brought(t) = [sid |-> refreshing[t].cookie.sid,
                                  tok |-> refreshing[t].cookie.tok + 1]
<1>1. /\ jar \in Cookie /\ refreshing[t] \in Refreshing
      /\ refreshing[t].cookie \in Cookie
  BY DEF TypeOK, Refreshing
<1>2. [refreshing[t].cookie EXCEPT !.tok = @ + 1]
          = [sid |-> refreshing[t].cookie.sid, tok |-> refreshing[t].cookie.tok + 1]
  BY <1>1 DEF Cookie
<1>3. [sid |-> refreshing[t].cookie.sid, tok |-> refreshing[t].cookie.tok + 1]
          \in Cookie
  BY <1>1 DEF Cookie
<1>4. CASE refreshing[t].answer = "ok"
  BY <1>2, <1>3, <1>4 DEF Brought
<1>5. CASE refreshing[t].answer = "rejected"
  BY <1>5, Constants DEF Brought
<1>6. CASE refreshing[t].answer \notin {"ok", "rejected"}
  BY <1>1, <1>6 DEF Brought
<1> QED BY <1>4, <1>5, <1>6

LEMMA LiveSessions ==
    ASSUME live \subseteq 1..issued, issued \in Sid, NEW s \in live
    PROVE  s \in 1..issued /\ s \in 1..MaxSessions
BY BoundsAssumption DEF Sid

\* Only the server's own steps change what a session's row holds.
LEMMA Rows ==
    ASSUME TypeOK, NEW t \in Tabs, ServerRefresh(t)
    PROVE  \E a \in Answers :
               /\ Answer(t, a)
               /\ live' \subseteq live /\ outrun' \subseteq 1..issued
               /\ outrun \subseteq outrun'
               /\ current' \in [1..MaxSessions -> Nat]
               /\ window' \in [1..MaxSessions -> BOOLEAN]
<1>0. /\ live \subseteq 1..issued /\ issued \in Sid /\ outrun \subseteq 1..issued
      /\ current \in [1..MaxSessions -> Nat] /\ window \in [1..MaxSessions -> BOOLEAN]
  BY DEF TypeOK
<1>1. CASE Rotate(t)
  <2>0. PICK s \in live : s = refreshing[t].cookie.sid
    BY <1>1 DEF Rotate, IsCurrent
  <2>1. s \in 1..issued /\ s \in 1..MaxSessions
    BY <1>0, LiveSessions
  <2>2. /\ Answer(t, "ok") /\ live' = live /\ Outrun(s)
        /\ current' = [current EXCEPT ![s] = @ + 1]
        /\ window' = [window EXCEPT ![s] = TRUE]
    BY <1>1, <2>0 DEF Rotate
  <2>3. /\ outrun' \subseteq 1..issued /\ outrun \subseteq outrun'
    BY <1>0, <2>1, <2>2 DEF Outrun
  <2>4. /\ current' \in [1..MaxSessions -> Nat]
        /\ window' \in [1..MaxSessions -> BOOLEAN]
    BY <1>0, <2>1, <2>2
  <2> QED BY <2>2, <2>3, <2>4 DEF Answers
<1>2. CASE Serve(t)
  BY <1>0, <1>2 DEF Serve, Answers
<1>3. CASE Reject(t)
  BY <1>0, <1>3 DEF Reject, Answers
<1> QED BY <1>1, <1>2, <1>3 DEF ServerRefresh

LEMMA TypesOK == Types => TypeOK
BY GoodIsTyped DEF Types, TypeOK

-----------------------------------------------------------------------------
(* Types of every step.                                                    *)

LEMMA SessionTypes ==
    ASSUME Types, NEW t \in Tabs,
           \/ Login(t) \/ LoginAnswer(t) \/ Logout(t) \/ SendLogout(t)
           \/ ServerLogout(t) \/ LogoutAnswer(t) \/ LogoutFails(t)
           \/ ChangePassword(t) \/ ChangePasswordAnswer(t)
    PROVE  Types'
<1>0. TypeOK
  BY TypesOK
<1> USE <1>0, Constants DEF Types, server, rows, counts, history, calls
<1>1. CASE Login(t)
  <2>1. issued + 1 \in Sid /\ 1..issued \subseteq 1..(issued + 1)
        /\ issued + 1 \in 1..(issued + 1)
    BY <1>1, BoundsAssumption DEF Login, Sid
  <2>3. outrun' \subseteq 1..issued'
    BY <1>1, <2>1 DEF Login
  <2>2. live' \subseteq 1..issued'
    BY <1>1, <2>1 DEF Login
  <2> QED BY <1>1, <2>1, <2>2, <2>3 DEF Login
<1>2. CASE LoginAnswer(t)
  <2> DEFINE on == ApplyTokens(tab[t], entering[t])
             in == [on EXCEPT !.user = entering[t], !.blocked = FALSE,
                              !.closed = FALSE]
  <2>1. on \in Page /\ on.auth /\ entering[t] \in Sid
    BY Pages
  <2>2. /\ tab' = [tab EXCEPT ![t] = in]
        /\ channel' = Broadcast(channel, t, SyncMessage(in))
        /\ jar' = [sid |-> entering[t], tok |-> 1] /\ entering' = [entering EXCEPT ![t] = 0]
    BY <1>2 DEF LoginAnswer
  <2> HIDE DEF on
  <2>3. in \in Page /\ in.auth
    BY <2>1 DEF Page
  <2> HIDE DEF in
  <2>4. channel' \in [Tabs -> [Tabs -> Seq(GoodMessage)]]
    BY <2>2, <2>3, Broadcasting, Messages
  <2>5. tab' \in [Tabs -> Page] /\ entering' \in [Tabs -> Sid] /\ jar' \in Cookie
    BY <2>1, <2>2, <2>3 DEF Cookie
  <2> QED BY <1>2, <2>4, <2>5 DEF LoginAnswer
<1>3. CASE Logout(t)
  <2>1. channel' \in [Tabs -> [Tabs -> Seq(GoodMessage)]]
    BY <1>3, Broadcasting, Messages DEF Logout
  <2>2. [NoLogout EXCEPT !.stage = "draining"] \in Leaving
    BY DEF Leaving
  <2> QED BY <1>3, <2>1, <2>2, CloseShape DEF Logout
<1>4. CASE SendLogout(t)
  <2>1. [stage |-> "sent", cookie |-> jar] \in Leaving
    BY DEF Leaving
  <2> QED BY <1>4, <2>1 DEF SendLogout
<1>5. CASE ServerLogout(t)
  <2>1. leaving' \in [Tabs -> Leaving]
    BY <1>5 DEF ServerLogout, Leaving
  <2>2. live' \subseteq live
    BY <1>5 DEF ServerLogout, LoggedOut
  <2> QED BY <1>5, <2>1, <2>2 DEF ServerLogout
<1>6. CASE LogoutAnswer(t) \/ LogoutFails(t)
  BY <1>6 DEF LogoutAnswer, LogoutFails
<1>7. CASE ChangePassword(t)
  BY <1>7 DEF ChangePassword
<1>8. CASE ChangePasswordAnswer(t)
  <2>1. channel' \in [Tabs -> [Tabs -> Seq(GoodMessage)]]
    BY <1>8, Broadcasting, Messages DEF ChangePasswordAnswer
  <2>2. ResetState(tab[t]) \in Page
    BY Pages
  <2> QED BY <1>8, <2>1, <2>2 DEF ChangePasswordAnswer
<1> QED
  BY <1>1, <1>2, <1>3, <1>4, <1>5, <1>6, <1>7, <1>8

LEMMA RefreshTypes ==
    ASSUME Types, CircuitInv, NEW t \in Tabs,
           \/ Refresh(t) \/ ServerRefresh(t) \/ LimitRefresh(t)
           \/ RefreshLost(t) \/ RefreshAborted(t) \/ Refreshed(t)
           \/ Refused(t) \/ RefreshFailed(t) \/ Expire(t) \/ CircuitTimer(t)
    PROVE  Types'
<1>0. TypeOK /\ tab[t] \in Page /\ refreshing[t] \in Refreshing
  BY TypesOK DEF Types
<1> USE <1>0, Constants DEF Types, server, rows, counts, history, calls
<1>1. CASE Refresh(t)
  BY <1>1, ShareShape DEF Refresh
<1>2. CASE ServerRefresh(t)
  <2>1. PICK a \in Answers :
            /\ Answer(t, a)
            /\ live' \subseteq live /\ outrun' \subseteq 1..issued
            /\ current' \in [1..MaxSessions -> Nat]
            /\ window' \in [1..MaxSessions -> BOOLEAN]
    BY <1>2, Rows
  <2>2. refreshing' \in [Tabs -> Refreshing]
    BY <2>1, AnswerShape
  <2> QED BY <1>2, <2>1, <2>2 DEF ServerRefresh
<1>9. CASE LimitRefresh(t) \/ RefreshLost(t)
  <2>1. Answer(t, "limited") \/ Answer(t, "failed")
    BY <1>9 DEF LimitRefresh, RefreshLost
  <2>2. refreshing' \in [Tabs -> Refreshing]
    BY <2>1, AnswerShape DEF Answers
  <2>3. jar' \in Cookie
    BY <1>9, Bringing DEF LimitRefresh, RefreshLost, TakeCookie
  <2> QED BY <1>9, <2>2, <2>3 DEF LimitRefresh, RefreshLost
<1>3. CASE RefreshAborted(t)
  <2>1. tab' \in [Tabs -> Page] /\ Settle(t, TRUE)
    BY <1>3 DEF RefreshAborted
  <2>2. jar' \in Cookie
    BY <1>3, Bringing DEF RefreshAborted, TakeCookie
  <2> QED BY <1>3, <2>1, <2>2, SettleShape DEF RefreshAborted
<1>4. CASE Refreshed(t)
  <2>0. refreshing[t].cookie.sid \in Sid
    BY DEF Refreshing, Cookie
  <2>1. /\ ApplyTokens(tab[t], refreshing[t].cookie.sid) \in Page
        /\ ApplyTokens(tab[t], refreshing[t].cookie.sid).auth
    BY <2>0, Pages
  <2>2. /\ tab' \in [Tabs -> Page] /\ Settle(t, TRUE) /\ jar' \in Cookie
        /\ tab'[t] = ApplyTokens(tab[t], refreshing[t].cookie.sid)
    BY <1>4, <2>1, Bringing DEF Refreshed, TakeCookie
  <2>3. channel' \in [Tabs -> [Tabs -> Seq(GoodMessage)]]
    BY <1>4, <2>1, <2>2, Broadcasting, Messages DEF Refreshed
  <2> QED BY <1>4, <2>2, <2>3, SettleShape DEF Refreshed
<1>5. CASE Refused(t)
  <2>1. [ResetState(tab[t]) EXCEPT !.failures = MaxFailures] \in Page
    <3>1. ResetState(tab[t]) \in Page /\ MaxFailures \in 0..MaxFailures
      BY Pages
    <3> QED BY <3>1 DEF Page
  <2>2. tab' \in [Tabs -> Page] /\ Settle(t, FALSE) /\ jar' \in Cookie
    BY <1>5, <2>1, Bringing DEF Refused, TakeCookie
  <2> QED BY <1>5, <2>2, SettleShape DEF Refused
<1>6. CASE RefreshFailed(t)
  <2> DEFINE failures == IF refreshing[t].answer = "limited" THEN MaxFailures
                         ELSE tab[t].failures + 1
  <2>1. failures \in 0..MaxFailures
    <3>1. tab[t].failures < MaxFailures /\ tab[t].failures \in Nat
      BY <1>6 DEF RefreshFailed, CircuitInv, Page
    <3> QED BY <3>1
  <2>2. tab' = [tab EXCEPT ![t].failures = failures]
    BY <1>6 DEF RefreshFailed
  <2>3. CASE failures = MaxFailures
    <3>1. /\ refreshing' = [refreshing EXCEPT ![t].stage = "cleanup",
                                              ![t].cookie = jar,
                                              ![t].since = issued]
          /\ asked' = TRUE /\ fetching' = fetching
      BY <1>6, <2>3 DEF RefreshFailed
    <3>2. refreshing' \in [Tabs -> Refreshing]
      BY <3>1 DEF Refreshing
    <3>3. tab' \in [Tabs -> Page]
      BY <2>1, <2>2 DEF Page
    <3> QED BY <1>6, <3>1, <3>2, <3>3 DEF RefreshFailed
  <2>4. CASE failures # MaxFailures
    <3>1. Settle(t, FALSE) /\ asked' = asked
      BY <1>6, <2>4 DEF RefreshFailed
    <3>2. tab' \in [Tabs -> Page]
      BY <2>1, <2>2 DEF Page
    <3> QED BY <1>6, <3>1, <3>2, SettleShape DEF RefreshFailed
  <2> QED BY <2>3, <2>4
<1>7. CASE Expire(t)
  <2>1. tab' \in [Tabs -> Page] /\ Settle(t, FALSE)
    BY <1>7, Pages DEF Expire
  <2>2. jar' \in Cookie /\ live' \subseteq 1..issued
    BY <1>7 DEF Expire, LoggedOut
  <2> QED BY <1>7, <2>1, <2>2, SettleShape DEF Expire
<1>8. CASE CircuitTimer(t)
  <2>1. tab' = [tab EXCEPT ![t].failures = 0] /\ 0 \in 0..MaxFailures
    BY <1>8 DEF CircuitTimer
  <2>2. tab' \in [Tabs -> Page]
    BY <2>1 DEF Page
  <2> QED BY <1>8, <2>2 DEF CircuitTimer
<1> QED
  BY <1>1, <1>2, <1>3, <1>4, <1>5, <1>6, <1>7, <1>8, <1>9

LEMMA FetchTypes ==
    ASSUME Types, NEW t \in Tabs,
           \/ FetchUser(t) \/ FetchHeaders(t) \/ FetchBody(t)
           \/ FetchRefused(t)
           \/ \E s \in Tabs : HandleTabMessage(s, t)
    PROVE  Types'
<1>0. TypeOK /\ tab[t] \in Page /\ fetching[t] \in Fetching
  BY TypesOK DEF Types
<1> USE <1>0, Constants DEF Types, server, rows, counts, history, calls
<1>1. CASE FetchUser(t)
  <2>1. tab[t].token \in Sid
    BY DEF Page
  <2>2. [NoFetch EXCEPT !.stage = "sent", !.sid = tab[t].token] \in Fetching
    BY <2>1 DEF Fetching
  <2> QED BY <1>1, <2>2 DEF FetchUser
<1>2. CASE FetchHeaders(t)
  <2>1. fetching' \in [Tabs -> Fetching]
    BY <1>2 DEF FetchHeaders, Fetching
  <2> QED BY <1>2, <2>1 DEF FetchHeaders
<1>3. CASE FetchBody(t)
  <2>1. fetching[t].sid \in Sid
    BY DEF Fetching
  <2>2. tab' \in [Tabs -> Page]
    BY <1>3, <2>1 DEF FetchBody, Page
  <2> QED BY <1>3, <2>2 DEF FetchBody
<1>4. CASE FetchRefused(t)
  <2>1. CASE ShareRefresh(t) /\ fetching' = [fetching EXCEPT ![t].stage = "refresh"]
    <3>1. fetching' \in [Tabs -> Fetching]
      BY <2>1 DEF Fetching
    <3> QED BY <1>4, <2>1, <3>1, ShareShape DEF FetchRefused
  <2>2. CASE /\ fetching' = [fetching EXCEPT ![t] = NoFetch]
             /\ UNCHANGED refreshing
    BY <1>4, <2>2 DEF FetchRefused
  <2> QED BY <1>4, <2>1, <2>2 DEF FetchRefused
<1>5. ASSUME NEW s \in Tabs, HandleTabMessage(s, t) PROVE Types'
  <2> DEFINE msg == Head(channel[s][t])
  <2>1. /\ msg \in GoodMessage
        /\ channel' \in [Tabs -> [Tabs -> Seq(GoodMessage)]]
    BY <1>5, Taking DEF HandleTabMessage
  <2>2. CASE Close(t) /\ UNCHANGED left
    BY <1>5, <2>1, <2>2, CloseShape DEF HandleTabMessage
  <2>3. CASE ApplySync(t, msg)
    <3> HIDE DEF msg
    <3>1. msg \in Message
      BY <2>1 DEF GoodMessage
    <3>2. [user |-> msg.user, token |-> msg.token, auth |-> msg.auth,
           blocked |-> tab[t].blocked /\ ~msg.auth, closed |-> ~msg.auth,
           failures |-> tab[t].failures] \in Page
      BY <3>1 DEF Message, Page
    <3>3. tab' \in [Tabs -> Page] /\ left' \subseteq Tabs
          /\ UNCHANGED <<refreshing, fetching, changing>>
      BY <2>3, <3>2 DEF ApplySync
    <3> QED BY <1>5, <2>1, <3>3 DEF HandleTabMessage
  <2> QED BY <1>5, <2>2, <2>3 DEF HandleTabMessage
<1> QED BY <1>1, <1>2, <1>3, <1>4, <1>5

-----------------------------------------------------------------------------
(* The invariant.                                                          *)

\* What a step of one tab has to show of the tabs.
LEMMA TabStep ==
    ASSUME CircuitInv, LatchInv, NEW t \in Tabs,
           \A u \in Tabs \ {t} : tab'[u] = tab[u] /\ refreshing'[u] = refreshing[u],
           refreshing'[t].stage \in {"sent", "answered"}
               => tab'[t].failures < MaxFailures,
           tab'[t].blocked =>
               /\ ~tab'[t].auth /\ tab'[t].token = 0
               /\ refreshing'[t].stage # "none" => ~refreshing'[t].current
    PROVE  CircuitInv' /\ LatchInv'
BY DEF CircuitInv, LatchInv

LEMMA QuietTabs ==
    ASSUME CircuitInv, LatchInv, tab' = tab, refreshing' = refreshing
    PROVE  CircuitInv' /\ LatchInv'
BY DEF CircuitInv, LatchInv

LEMMA SessionInvs ==
    ASSUME IInv, NEW t \in Tabs,
           \/ Login(t) \/ LoginAnswer(t) \/ Logout(t) \/ SendLogout(t)
           \/ ServerLogout(t) \/ LogoutAnswer(t) \/ LogoutFails(t)
           \/ ChangePassword(t) \/ ChangePasswordAnswer(t)
    PROVE  CircuitInv' /\ LatchInv' /\ SpareInv' /\ DrainInv'
<1>0. /\ TypeOK /\ tab[t] \in Page /\ CircuitInv /\ LatchInv
      /\ tab \in [Tabs -> Page] /\ leaving \in [Tabs -> Leaving]
      /\ refreshing \in [Tabs -> Refreshing] /\ left \subseteq Tabs
  BY TypesOK DEF Types, IInv
<1> USE <1>0, Constants DEF server, rows, counts, history
<1>1. CASE Login(t)
  <2>1. CircuitInv' /\ LatchInv'
    BY <1>1, QuietTabs DEF Login
  <2>2. SpareInv'
    <3>1. 1..(issued + 1) = (1..issued) \cup {issued + 1}
      BY DEF IInv, Types, Sid
    <3> QED BY <1>1, <3>1 DEF Login, IInv, SpareInv
  <2>3. DrainInv'
    BY <1>1 DEF Login, IInv, DrainInv
  <2> QED BY <2>1, <2>2, <2>3
<1>2. CASE LoginAnswer(t)
  <2> DEFINE on == ApplyTokens(tab[t], entering[t])
             in == [on EXCEPT !.user = entering[t], !.blocked = FALSE,
                              !.closed = FALSE]
  <2>1. on \in Page /\ on.failures = 0
    BY Pages DEF IInv, Types
  <2>2. tab' = [tab EXCEPT ![t] = in] /\ refreshing' = refreshing
    BY <1>2 DEF LoginAnswer
  <2> HIDE DEF on
  <2>3. ~in.blocked /\ in.failures = 0
    BY <2>1 DEF Page
  <2> HIDE DEF in
  <2>4. /\ \A u \in Tabs \ {t} : tab'[u] = tab[u]
        /\ ~tab'[t].blocked /\ tab'[t].failures = 0
    BY <2>2, <2>3
  <2>5. CircuitInv' /\ LatchInv'
    BY <2>2, <2>4, TabStep
  <2>6. SpareInv'
    BY <1>2 DEF LoginAnswer, IInv, SpareInv
  <2>7. DrainInv'
    BY <1>2, <2>4 DEF LoginAnswer, IInv, DrainInv
  <2> QED BY <2>5, <2>6, <2>7
<1>3. CASE Logout(t)
  <2>1. /\ \A u \in Tabs \ {t} : /\ tab'[u] = tab[u]
                                 /\ refreshing'[u] = refreshing[u]
                                 /\ leaving'[u] = leaving[u]
        /\ tab'[t].blocked /\ ~tab'[t].auth /\ tab'[t].token = 0
        /\ tab'[t].failures = tab[t].failures
        /\ refreshing'[t].stage = refreshing[t].stage
        /\ refreshing[t].stage # "none" => ~refreshing'[t].current
        /\ leaving'[t].stage = "draining"
    BY <1>3, CloseShape DEF Logout
  <2>2. CircuitInv' /\ LatchInv'
    BY <2>1, TabStep DEF CircuitInv
  <2>3. SpareInv'
    BY <1>3 DEF Logout, SpareInv
  <2>4. DrainInv'
    BY <1>3, <2>1 DEF Logout, IInv, DrainInv
  <2> QED BY <2>2, <2>3, <2>4
<1>4. CASE SendLogout(t)
  <2>1. CircuitInv' /\ LatchInv'
    BY <1>4, QuietTabs DEF SendLogout
  <2>2. SpareInv'
    BY <1>4 DEF SendLogout, IInv, SpareInv
  <2>3. DrainInv'
    BY <1>4 DEF SendLogout, IInv, DrainInv
  <2> QED BY <2>1, <2>2, <2>3
<1>5. CASE ServerLogout(t)
  <2>1. CircuitInv' /\ LatchInv'
    BY <1>5, QuietTabs DEF ServerLogout
  <2>2. SpareInv'
    BY <1>5 DEF ServerLogout, IInv, SpareInv
  <2>3. \A u \in Tabs : \/ leaving'[u] = leaving[u]
                        \/ leaving'[u].stage = "answered" /\ leaving[u].stage = "sent"
    BY <1>5 DEF ServerLogout, Leaving
  <2>4. DrainInv'
    BY <1>5, <2>3 DEF ServerLogout, IInv, DrainInv
  <2> QED BY <2>1, <2>2, <2>4
<1>6. CASE LogoutAnswer(t) \/ LogoutFails(t)
  <2>1. CircuitInv' /\ LatchInv'
    BY <1>6, QuietTabs DEF LogoutAnswer, LogoutFails
  <2>2. SpareInv'
    BY <1>6 DEF LogoutAnswer, LogoutFails, IInv, SpareInv, NoLogout
  <2>3. /\ \A u \in Tabs \ {t} : leaving'[u] = leaving[u]
        /\ leaving'[t].stage = "none"
        /\ leaving[t].stage \in {"sent", "answered"}
        /\ tab' = tab /\ refreshing' = refreshing /\ taker' = taker
    BY <1>6 DEF LogoutAnswer, LogoutFails, NoLogout
  <2>4. CASE LogoutAnswer(t)
    <3>1. jar' = NoCookie /\ left' = left
      BY <2>4 DEF LogoutAnswer
    <3>2. ASSUME NEW u \in left
          PROVE  /\ tab[u].blocked
                 /\ leaving'[u].stage # "draining" => refreshing[u].stage = "none"
      <4>1. leaving'[u] = leaving[u] \/ u = t
        BY <2>3
      <4> QED BY <2>3, <4>1 DEF IInv, DrainInv
    <3>3. DrainInv'
      BY <2>3, <3>1, <3>2 DEF DrainInv
    <3> QED BY <2>1, <2>2, <3>3
  <2>5. CASE LogoutFails(t)
    <3>1. jar' = jar /\ left' = left \ {t}
      BY <2>5 DEF LogoutFails, server
    <3>2. \A u \in left' : leaving'[u] = leaving[u]
      BY <2>3, <3>1
    <3>3. DrainInv'
      BY <2>3, <3>1, <3>2 DEF IInv, DrainInv
    <3> QED BY <2>1, <2>2, <3>3
  <2> QED BY <1>6, <2>4, <2>5
<1>7. CASE ChangePassword(t)
  <2>1. CircuitInv' /\ LatchInv'
    BY <1>7, QuietTabs DEF ChangePassword
  <2>2. SpareInv' /\ DrainInv'
    BY <1>7 DEF ChangePassword, IInv, SpareInv, DrainInv
  <2> QED BY <2>1, <2>2
<1>8. CASE ChangePasswordAnswer(t)
  <2>1. /\ \A u \in Tabs \ {t} : tab'[u] = tab[u]
        /\ tab'[t] = ResetState(tab[t]) /\ refreshing' = refreshing
    BY <1>8 DEF ChangePasswordAnswer
  <2>2. /\ tab'[t].blocked = tab[t].blocked
        /\ tab'[t].failures = tab[t].failures
        /\ ~tab'[t].auth /\ tab'[t].token = 0
    BY <2>1, Pages
  <2>3. CircuitInv' /\ LatchInv'
    BY <2>1, <2>2, TabStep DEF CircuitInv, LatchInv
  <2>4. SpareInv'
    BY <1>8 DEF ChangePasswordAnswer, IInv, SpareInv
  <2>5. DrainInv'
    BY <1>8, <2>1, <2>2 DEF ChangePasswordAnswer, IInv, DrainInv
  <2> QED BY <2>3, <2>4, <2>5
<1> QED
  BY <1>1, <1>2, <1>3, <1>4, <1>5, <1>6, <1>7, <1>8

\* A refresh revokes no session but one that was outrun.
LEMMA OnlyOutrun ==
    ASSUME IInv, NEW t \in Tabs, ServerRefresh(t)
    PROVE  live \ live' \subseteq outrun
<1> DEFINE c == refreshing[t].cookie
<1>1. /\ refreshing[t].stage = "sent" /\ live \subseteq 1..issued
      /\ issued \in Sid
  BY DEF IInv, Types, ServerRefresh
<1>2. CASE Rotate(t) \/ Serve(t)
  BY <1>2 DEF Rotate, Serve
<1>3. CASE Reject(t)
  <2>1. ~IsCurrent(c) /\ ~WithinGrace(c) /\ live \ live' \subseteq {c.sid}
    BY <1>3 DEF Reject
  <2>2. ASSUME c.sid \in live, c.sid \notin outrun PROVE FALSE
    <3>1. c.sid \in (1..MaxSessions) \ outrun
      BY <1>1, <2>2, LiveSessions
    <3>2. Near(c.sid, c.tok)
      BY <1>1, <3>1 DEF IInv, TokenInv
    <3> QED BY <2>1, <2>2, <3>2 DEF Near, IsCurrent, WithinGrace
  <2> QED BY <2>1, <2>2
<1> QED BY <1>2, <1>3 DEF ServerRefresh

LEMMA RefreshInvs ==
    ASSUME IInv, NEW t \in Tabs,
           \/ Refresh(t) \/ ServerRefresh(t) \/ LimitRefresh(t)
           \/ RefreshLost(t) \/ RefreshAborted(t) \/ Refreshed(t)
           \/ Refused(t) \/ RefreshFailed(t) \/ Expire(t) \/ CircuitTimer(t)
    PROVE  CircuitInv' /\ LatchInv' /\ SpareInv' /\ DrainInv'
<1>0. /\ TypeOK /\ tab[t] \in Page /\ CircuitInv /\ LatchInv
      /\ tab \in [Tabs -> Page] /\ leaving \in [Tabs -> Leaving]
      /\ refreshing \in [Tabs -> Refreshing] /\ left \subseteq Tabs
      /\ refreshing[t] \in Refreshing
  BY TypesOK DEF Types, IInv
<1> USE <1>0, Constants DEF server, rows, counts, history, calls
<1>1. CASE Refresh(t)
  <2>1. /\ ~tab[t].blocked /\ tab[t].failures < MaxFailures /\ tab' = tab
        /\ \A u \in Tabs \ {t} : refreshing'[u] = refreshing[u]
        /\ refreshing'[t].stage # "cleanup"
    BY <1>1, ShareShape DEF Refresh, CanRefresh
  <2>2. CircuitInv' /\ LatchInv'
    BY <2>1, TabStep
  <2>3. SpareInv'
    BY <1>1, <2>1 DEF Refresh, IInv, SpareInv
  <2>4. DrainInv'
    BY <1>1, <2>1 DEF Refresh, IInv, DrainInv
  <2> QED BY <2>2, <2>3, <2>4
<1>2. ASSUME NEW a \in Answers, Answer(t, a),
             refreshing[t].stage \in {"sent", "answered"}, tab' = tab,
             ~asked => (1..issued) \ live' \subseteq outrun',
             UNCHANGED <<leaving, issued, asked, left>>,
             taker' = taker \/ taker' = {t},
             jar' = jar \/ jar' = NoCookie \/ taker' = {t}
      PROVE  CircuitInv' /\ LatchInv' /\ SpareInv' /\ DrainInv'
  <2>1. /\ \A u \in Tabs \ {t} : refreshing'[u] = refreshing[u]
        /\ refreshing'[t].stage = "answered"
        /\ refreshing'[t].current = refreshing[t].current
    BY <1>2, AnswerShape
  <2>2. CircuitInv' /\ LatchInv'
    BY <1>2, <2>1, TabStep DEF CircuitInv, LatchInv
  <2>3. SpareInv'
    BY <1>2, <2>1 DEF IInv, SpareInv
  <2>4. ASSUME NEW u \in left
        PROVE  /\ leaving[u].stage # "draining" => u # t
               /\ tab[u].blocked
    BY <1>2 DEF IInv, DrainInv
  <2>5. DrainInv'
    BY <1>2, <2>1, <2>4 DEF IInv, DrainInv
  <2> QED BY <2>2, <2>3, <2>5
<1>10. CASE ServerRefresh(t)
  <2>1. PICK a \in Answers : Answer(t, a) /\ outrun \subseteq outrun'
    BY <1>10, Rows
  <2>2. ~asked => (1..issued) \ live' \subseteq outrun'
    BY <1>10, <2>1, OnlyOutrun DEF IInv, SpareInv
  <2> QED BY <1>2, <1>10, <2>1, <2>2 DEF ServerRefresh
<1>11. CASE LimitRefresh(t)
  <2>1. "limited" \in Answers
    BY DEF Answers
  <2> QED BY <1>2, <1>11, <2>1 DEF LimitRefresh, IInv, SpareInv
<1>12. CASE RefreshLost(t)
  <2>1. "failed" \in Answers
    BY DEF Answers
  <2>2. /\ taker' = taker \/ taker' = {t}
        /\ jar' = jar \/ jar' = NoCookie \/ taker' = {t}
    BY <1>12, Bringing DEF RefreshLost, TakeCookie
  <2>3. ~asked => (1..issued) \ live' \subseteq outrun'
    BY <1>12 DEF RefreshLost, IInv, SpareInv
  <2> QED BY <1>2, <1>12, <2>1, <2>2, <2>3 DEF RefreshLost
<1>3. ASSUME NEW ok, tab' \in [Tabs -> Page], Settle(t, ok),
             \A u \in Tabs \ {t} : tab'[u] = tab[u],
             tab'[t].blocked = tab[t].blocked,
             tab'[t].blocked => ~tab'[t].auth /\ tab'[t].token = 0,
             left' = left, leaving' = leaving,
             asked' = asked, ~asked => UNCHANGED <<live, issued, outrun>>,
             \/ taker' = taker /\ (jar' = jar \/ jar' = NoCookie)
             \/ taker' = {t} /\ refreshing[t].stage # "none"
      PROVE  CircuitInv' /\ LatchInv' /\ SpareInv' /\ DrainInv'
  <2>1. /\ refreshing'[t].stage = "none"
        /\ \A u \in Tabs \ {t} : refreshing'[u] = refreshing[u]
    BY <1>3, SettleShape
  <2>2. CircuitInv' /\ LatchInv'
    BY <1>3, <2>1, TabStep
  <2>3. SpareInv'
    BY <1>3, <2>1 DEF IInv, SpareInv
  <2>4. DrainInv'
    BY <1>3, <2>1 DEF IInv, DrainInv
  <2> QED BY <2>2, <2>3, <2>4
<1>4. CASE RefreshAborted(t)
  <2>1. tab' = tab /\ Settle(t, TRUE)
    BY <1>4 DEF RefreshAborted
  <2>2. tab[t].blocked => ~tab[t].auth /\ tab[t].token = 0
    BY DEF LatchInv
  <2>3. /\ refreshing[t].stage # "none"
        /\ \/ taker' = taker /\ (jar' = jar \/ jar' = NoCookie)
           \/ taker' = {t}
    BY <1>4, Bringing DEF RefreshAborted, TakeCookie
  <2> QED BY <1>3, <1>4, <2>1, <2>2, <2>3 DEF RefreshAborted
<1>5. CASE Refreshed(t)
  <2>1. refreshing[t].stage # "none" => ~tab[t].blocked
    BY <1>5 DEF Refreshed, LatchInv
  <2>0. refreshing[t].cookie.sid \in Sid
    BY DEF Refreshing, Cookie
  <2>2. /\ ApplyTokens(tab[t], refreshing[t].cookie.sid) \in Page
        /\ ApplyTokens(tab[t], refreshing[t].cookie.sid).blocked = tab[t].blocked
    BY <2>0, Pages
  <2>3. /\ tab' \in [Tabs -> Page] /\ Settle(t, TRUE)
        /\ \A u \in Tabs \ {t} : tab'[u] = tab[u]
        /\ tab'[t].blocked = tab[t].blocked
    BY <1>5, <2>2 DEF Refreshed
  <2>4. refreshing[t].stage # "none"
    BY <1>5 DEF Refreshed, IInv, PendingInv
  <2>5. taker' = {t}
    BY <1>5 DEF Refreshed, TakeCookie
  <2> QED BY <1>3, <1>5, <2>1, <2>3, <2>4, <2>5 DEF Refreshed
<1>6. CASE Refused(t)
  <2> DEFINE old == ResetState(tab[t])
             new == [old EXCEPT !.failures = MaxFailures]
  <2>1. /\ old \in Page /\ ~old.auth /\ old.token = 0
        /\ old.blocked = tab[t].blocked /\ MaxFailures \in 0..MaxFailures
    BY Pages
  <2>2. tab' = [tab EXCEPT ![t] = new] /\ Settle(t, FALSE)
    BY <1>6 DEF Refused
  <2> HIDE DEF old
  <2>3. /\ new \in Page /\ ~new.auth /\ new.token = 0
        /\ new.blocked = tab[t].blocked
    BY <2>1 DEF Page
  <2> HIDE DEF new
  <2>4. /\ tab' \in [Tabs -> Page] /\ tab'[t] = new
        /\ \A u \in Tabs \ {t} : tab'[u] = tab[u]
    BY <2>2, <2>3
  <2>5. taker' = taker /\ (jar' = jar \/ jar' = NoCookie)
    BY <1>6, Bringing DEF Refused, TakeCookie
  <2> QED BY <1>3, <1>6, <2>2, <2>3, <2>4, <2>5 DEF Refused
<1>7. CASE RefreshFailed(t)
  <2> DEFINE failures == IF refreshing[t].answer = "limited" THEN MaxFailures
                         ELSE tab[t].failures + 1
  <2>1. failures \in 0..MaxFailures
    <3>1. tab[t].failures < MaxFailures /\ tab[t].failures \in Nat
      BY <1>7 DEF RefreshFailed, CircuitInv, Page
    <3> QED BY <3>1
  <2>2. tab' = [tab EXCEPT ![t].failures = failures]
    BY <1>7 DEF RefreshFailed
  <2>3. refreshing[t].current /\ refreshing[t].stage = "answered"
    BY <1>7 DEF RefreshFailed
  <2> HIDE DEF failures
  <2>4. /\ tab' \in [Tabs -> Page]
        /\ \A u \in Tabs \ {t} : tab'[u] = tab[u]
        /\ tab'[t].blocked = tab[t].blocked
        /\ ~tab[t].blocked
    BY <2>1, <2>2, <2>3 DEF Page, LatchInv
  <2>5. CASE failures = MaxFailures
    <3>1. /\ refreshing' = [refreshing EXCEPT ![t].stage = "cleanup",
                                              ![t].cookie = jar,
                                              ![t].since = issued]
          /\ asked' = TRUE
      BY <1>7, <2>5 DEF RefreshFailed, failures
    <3>2. /\ \A u \in Tabs \ {t} : refreshing'[u] = refreshing[u]
          /\ refreshing'[t].stage = "cleanup"
      BY <3>1 DEF Refreshing
    <3>3. CircuitInv' /\ LatchInv'
      BY <2>4, <3>2, TabStep
    <3>4. SpareInv'
      BY <3>1 DEF SpareInv
    <3>5. DrainInv'
      BY <1>7, <2>3, <2>4, <3>2 DEF RefreshFailed, IInv, DrainInv
    <3> QED BY <3>3, <3>4, <3>5
  <2>6. CASE failures # MaxFailures
    <3>1. Settle(t, FALSE) /\ asked' = asked
      BY <1>7, <2>6 DEF RefreshFailed, failures
    <3> QED BY <1>3, <1>7, <2>4, <3>1 DEF RefreshFailed
  <2> QED BY <2>5, <2>6
<1>8. CASE Expire(t)
  <2>1. asked
    BY <1>8 DEF Expire, IInv, SpareInv, Types
  <2>2. /\ tab' = [tab EXCEPT ![t] = ResetState(tab[t])] /\ Settle(t, FALSE)
        /\ ResetState(tab[t]) \in Page /\ ~ResetState(tab[t]).auth
        /\ ResetState(tab[t]).token = 0
        /\ ResetState(tab[t]).blocked = tab[t].blocked
    BY <1>8, Pages DEF Expire
  <2>3. /\ tab' \in [Tabs -> Page] /\ tab'[t] = ResetState(tab[t])
        /\ \A u \in Tabs \ {t} : tab'[u] = tab[u]
    BY <2>2
  <2>4. taker' = taker /\ (jar' = jar \/ jar' = NoCookie)
    BY <1>8 DEF Expire
  <2> QED BY <1>3, <1>8, <2>1, <2>2, <2>3, <2>4 DEF Expire
<1>9. CASE CircuitTimer(t)
  <2>1. /\ tab' = [tab EXCEPT ![t].failures = 0] /\ refreshing' = refreshing
    BY <1>9 DEF CircuitTimer
  <2>2. /\ \A u \in Tabs \ {t} : tab'[u] = tab[u]
        /\ tab'[t].failures = 0 /\ tab'[t].blocked = tab[t].blocked
        /\ tab'[t].auth = tab[t].auth /\ tab'[t].token = tab[t].token
    BY <2>1 DEF Page
  <2>3. CircuitInv' /\ LatchInv'
    BY <2>1, <2>2, TabStep DEF LatchInv
  <2>4. SpareInv' /\ DrainInv'
    BY <1>9, <2>2 DEF CircuitTimer, IInv, SpareInv, DrainInv
  <2> QED BY <2>3, <2>4
<1> QED
  BY <1>1, <1>4, <1>5, <1>6, <1>7, <1>8, <1>9, <1>10, <1>11, <1>12

LEMMA FetchInvs ==
    ASSUME IInv, NEW t \in Tabs,
           \/ FetchUser(t) \/ FetchHeaders(t) \/ FetchBody(t)
           \/ FetchRefused(t)
           \/ \E s \in Tabs : HandleTabMessage(s, t)
    PROVE  CircuitInv' /\ LatchInv' /\ SpareInv' /\ DrainInv'
<1>0. /\ TypeOK /\ tab[t] \in Page /\ CircuitInv /\ LatchInv
      /\ tab \in [Tabs -> Page] /\ leaving \in [Tabs -> Leaving]
      /\ refreshing \in [Tabs -> Refreshing] /\ left \subseteq Tabs
  BY TypesOK DEF Types, IInv
<1> USE <1>0 DEF server, rows, counts, history
<1>1. CASE FetchUser(t) \/ FetchHeaders(t)
  <2>1. UNCHANGED <<tab, refreshing, leaving, live, issued, asked, left, jar,
                    taker, outrun>>
    BY <1>1 DEF FetchUser, FetchHeaders
  <2>2. CircuitInv' /\ LatchInv'
    BY <2>1, QuietTabs
  <2> QED BY <2>1, <2>2 DEF IInv, SpareInv, DrainInv
<1>2. CASE FetchBody(t)
  <2>1. UNCHANGED <<refreshing, leaving, live, issued, asked, left, jar, taker,
                    outrun>>
    BY <1>2 DEF FetchBody
  <2>2. /\ \A u \in Tabs \ {t} : tab'[u] = tab[u]
        /\ tab'[t] = [tab[t] EXCEPT !.user = fetching[t].sid]
    BY <1>2 DEF FetchBody
  <2>3. /\ tab'[t].blocked = tab[t].blocked /\ tab'[t].auth = tab[t].auth
        /\ tab'[t].token = tab[t].token /\ tab'[t].failures = tab[t].failures
    BY <2>2 DEF Page
  <2>4. CircuitInv' /\ LatchInv'
    BY <2>1, <2>2, <2>3, TabStep DEF CircuitInv, LatchInv
  <2> QED BY <2>1, <2>2, <2>3, <2>4 DEF IInv, SpareInv, DrainInv
<1>3. CASE FetchRefused(t)
  <2>1. UNCHANGED <<tab, leaving, live, issued, asked, left, jar, taker, outrun>>
    BY <1>3 DEF FetchRefused
  <2>2. CASE refreshing' = refreshing
    <3>1. CircuitInv' /\ LatchInv'
      BY <2>1, <2>2, QuietTabs
    <3> QED BY <2>1, <2>2, <3>1 DEF IInv, SpareInv, DrainInv
  <2>3. CASE CanRefresh(t) /\ ShareRefresh(t)
    <3>1. /\ ~tab[t].blocked /\ tab[t].failures < MaxFailures
          /\ \A u \in Tabs \ {t} : refreshing'[u] = refreshing[u]
          /\ refreshing'[t] = refreshing[t] \/ refreshing'[t].stage = "sent"
      BY <2>3, ShareShape DEF CanRefresh
    <3>2. CircuitInv' /\ LatchInv'
      BY <2>1, <3>1, TabStep
    <3> QED BY <2>1, <3>1, <3>2 DEF IInv, SpareInv, DrainInv
  <2> QED BY <1>3, <2>2, <2>3 DEF FetchRefused
<1>4. ASSUME NEW s \in Tabs, HandleTabMessage(s, t)
      PROVE  CircuitInv' /\ LatchInv' /\ SpareInv' /\ DrainInv'
  <2> DEFINE msg == Head(channel[s][t])
  <2>1. msg \in GoodMessage
    BY <1>4, Taking DEF HandleTabMessage, IInv, Types
  <2>2. UNCHANGED <<leaving, live, issued, asked, jar, taker, outrun>>
    BY <1>4 DEF HandleTabMessage
  <2>3. CASE Close(t) /\ UNCHANGED left
    <3>1. /\ \A u \in Tabs \ {t} : /\ tab'[u] = tab[u]
                                   /\ refreshing'[u] = refreshing[u]
          /\ tab'[t].blocked /\ ~tab'[t].auth /\ tab'[t].token = 0
          /\ tab'[t].failures = tab[t].failures
          /\ refreshing'[t].stage = refreshing[t].stage
          /\ refreshing[t].stage # "none" => ~refreshing'[t].current
      BY <2>3, CloseShape
    <3>2. CircuitInv' /\ LatchInv'
      BY <3>1, TabStep DEF CircuitInv
    <3> QED BY <2>2, <2>3, <3>1, <3>2 DEF IInv, SpareInv, DrainInv
  <2>4. CASE msg.type # "logout" /\ ApplySync(t, msg)
    <3>1. msg.auth
      BY <2>1, <2>4 DEF GoodMessage, Message
    <3>2. /\ refreshing' = refreshing /\ left' = left \ {t}
          /\ \A u \in Tabs \ {t} : tab'[u] = tab[u]
          /\ ~tab'[t].blocked /\ tab'[t].failures = tab[t].failures
      BY <2>4, <3>1 DEF ApplySync
    <3>3. CircuitInv' /\ LatchInv'
      BY <3>2, TabStep DEF CircuitInv
    <3> QED BY <2>2, <3>2, <3>3 DEF IInv, SpareInv, DrainInv
  <2> QED BY <1>4, <2>3, <2>4 DEF HandleTabMessage
<1> QED BY <1>1, <1>2, <1>3, <1>4

LEMMA PendingStep ==
    ASSUME IInv, NEW t \in Tabs,
           \/ Login(t) \/ Logout(t) \/ LogoutFails(t) \/ ChangePassword(t)
           \/ Refresh(t) \/ CircuitTimer(t) \/ FetchUser(t) \/ Progress(t)
    PROVE  PendingInv'
<1>0. refreshing \in [Tabs -> Refreshing] /\ PendingInv
  BY DEF IInv, Types
<1> USE <1>0 DEF PendingInv
<1>1. ASSUME NEW ok, Settle(t, ok) PROVE PendingInv'
  BY <1>1 DEF Settle, NoRefresh
<1>2. ASSUME ShareRefresh(t) PROVE PendingInv'
  BY <1>2 DEF ShareRefresh, NoRefresh
<1>3. ASSUME Close(t) PROVE PendingInv'
  BY <1>3 DEF Close, Refreshing
<1>4. CASE refreshing' = refreshing
  BY <1>4
<1>13. ASSUME NEW a, Answer(t, a) PROVE PendingInv'
  <2>1. \A u \in Tabs : refreshing'[u] = refreshing[u]
                        \/ refreshing'[u].stage = "answered"
    BY <1>13 DEF Answer, Refreshing
  <2> QED BY <2>1
<1>5. CASE ServerRefresh(t) \/ LimitRefresh(t) \/ RefreshLost(t)
  BY <1>5, <1>13 DEF ServerRefresh, LimitRefresh, RefreshLost, Rotate, Serve,
     Reject
<1>6. CASE RefreshFailed(t)
  <2>1. CASE refreshing' = [refreshing EXCEPT ![t].stage = "cleanup",
                                              ![t].cookie = jar,
                                              ![t].since = issued]
    BY <2>1 DEF Refreshing
  <2> QED BY <1>1, <1>6, <2>1 DEF RefreshFailed
<1>7. ASSUME NEW s \in Tabs, HandleTabMessage(s, t) PROVE PendingInv'
  BY <1>3, <1>4, <1>7 DEF HandleTabMessage, ApplySync
<1>8. CASE \/ RefreshAborted(t) \/ Refreshed(t) \/ Refused(t) \/ Expire(t)
  BY <1>1, <1>8 DEF RefreshAborted, Refreshed, Refused, Expire
<1>9. CASE Refresh(t) \/ FetchRefused(t)
  BY <1>2, <1>4, <1>9 DEF Refresh, FetchRefused
<1>10. CASE Logout(t)
  BY <1>3, <1>10 DEF Logout
<1>11. CASE \/ Login(t) \/ LoginAnswer(t) \/ SendLogout(t) \/ ServerLogout(t)
            \/ LogoutAnswer(t) \/ LogoutFails(t) \/ ChangePassword(t)
            \/ ChangePasswordAnswer(t)
  BY <1>4, <1>11 DEF Login, LoginAnswer, SendLogout, ServerLogout,
     LogoutAnswer, LogoutFails, ChangePassword, ChangePasswordAnswer
<1>12. CASE \/ CircuitTimer(t) \/ FetchUser(t) \/ FetchHeaders(t)
            \/ FetchBody(t)
  BY <1>4, <1>12 DEF CircuitTimer, FetchUser, FetchHeaders, FetchBody
<1> QED
  BY <1>5, <1>6, <1>7, <1>8, <1>9, <1>10, <1>11, <1>12 DEF Progress

-----------------------------------------------------------------------------
(* The tokens on their way.                                                *)

\* What a step that rotates nothing does to the refresh of tab u: it presents
\* no token, the cookie, or what it did before.
KeptRefresh(u) ==
    \/ refreshing'[u].stage # "sent" /\ refreshing'[u].answer # "ok"
    \/ /\ refreshing'[u].stage = "sent" /\ refreshing'[u].answer # "ok"
       /\ refreshing'[u].cookie = jar
    \/ /\ refreshing'[u].cookie = refreshing[u].cookie
       /\ refreshing'[u].stage = "sent" => refreshing[u].stage = "sent"
       /\ refreshing'[u].answer = "ok" => refreshing[u].answer = "ok"

\* The cookie is kept, cleared, or brought by an answer that was on its way.
KeptJar ==
    \/ jar' = jar \/ jar' = NoCookie
    \/ \E u \in Tabs : jar' = [sid |-> entering[u], tok |-> 1]
    \/ \E u \in Tabs : /\ refreshing[u].answer = "ok"
                       /\ jar' = [sid |-> refreshing[u].cookie.sid,
                                  tok |-> refreshing[u].cookie.tok + 1]

LEMMA TokenKept ==
    ASSUME TokenInv, UNCHANGED <<current, window, outrun, issued>>, KeptJar,
           \A u \in Tabs : entering'[u] \in {entering[u], 0},
           \A u \in Tabs : KeptRefresh(u)
    PROVE  TokenInv'
<1>1. \A s \in 1..MaxSessions : issued' < s => current'[s] = 1
  BY DEF TokenInv
<1>2. ASSUME NEW s \in (1..MaxSessions) \ outrun, jar'.sid = s
      PROVE  Near(s, jar'.tok)
  BY <1>2 DEF KeptJar, TokenInv, NoCookie
<1>3. ASSUME NEW s \in (1..MaxSessions) \ outrun, NEW u \in Tabs, entering'[u] = s
      PROVE  Near(s, 1)
  BY <1>3 DEF TokenInv
<1>4. ASSUME NEW s \in (1..MaxSessions) \ outrun, NEW u \in Tabs,
             refreshing'[u].cookie.sid = s
      PROVE  /\ refreshing'[u].stage = "sent" => Near(s, refreshing'[u].cookie.tok)
             /\ refreshing'[u].answer = "ok" => Near(s, refreshing'[u].cookie.tok + 1)
  BY <1>4 DEF KeptRefresh, TokenInv
<1> QED BY <1>1, <1>2, <1>3, <1>4 DEF TokenInv, Near

\* If nothing of a session is left behind, all is of its current token.
LEMMA NotBehind ==
    ASSUME Types, TokenInv, NEW s \in (1..MaxSessions) \ outrun, ~LeftBehind(s)
    PROVE  /\ jar.sid = s => jar.tok = current[s]
           /\ \A u \in Tabs :
                  /\ entering[u] = s => current[s] = 1
                  /\ refreshing[u].cookie.sid = s =>
                         /\ refreshing[u].stage = "sent"
                                => refreshing[u].cookie.tok = current[s]
                         /\ refreshing[u].answer = "ok"
                                => refreshing[u].cookie.tok + 1 = current[s]
<1>0. current[s] \in Nat /\ jar.tok \in Nat
  BY DEF Types, Cookie
<1>1. jar.sid = s => jar.tok = current[s]
  BY <1>0 DEF LeftBehind, TokenInv, Near
<1>2. ASSUME NEW u \in Tabs
      PROVE  /\ entering[u] = s => current[s] = 1
             /\ refreshing[u].cookie.sid = s =>
                    /\ refreshing[u].stage = "sent"
                           => refreshing[u].cookie.tok = current[s]
                    /\ refreshing[u].answer = "ok"
                           => refreshing[u].cookie.tok + 1 = current[s]
  <2>1. refreshing[u].cookie.tok \in Nat
    BY DEF Types, Refreshing, Cookie
  <2> QED BY <1>0, <2>1 DEF LeftBehind, TokenInv, Near
<1> QED BY <1>1, <1>2

LEMMA RotateTokens ==
    ASSUME Types, TokenInv, NEW t \in Tabs, ServerRefresh(t), Rotate(t)
    PROVE  TokenInv'
<1>0. TypeOK /\ live \subseteq 1..issued /\ issued \in Sid /\ "ok" \in Answers
  BY TypesOK DEF Types, Answers
<1>7. PICK s \in live : s = refreshing[t].cookie.sid
  BY DEF Rotate, IsCurrent
<1>1. /\ s \in 1..issued /\ s \in 1..MaxSessions
      /\ refreshing[t].cookie.tok = current[s] /\ current[s] \in Nat
  <2>1. s \in 1..issued /\ s \in 1..MaxSessions
    BY <1>0, LiveSessions
  <2> QED BY <1>7, <2>1 DEF Rotate, IsCurrent, Types
<1>2. /\ current' = [current EXCEPT ![s] = @ + 1]
      /\ window' = [window EXCEPT ![s] = TRUE]
      /\ Outrun(s) /\ Answer(t, "ok") /\ UNCHANGED <<jar, entering, issued>>
  BY <1>7 DEF Rotate, ServerRefresh, calls
<1>3. /\ \A u \in Tabs \ {t} : refreshing'[u] = refreshing[u]
      /\ refreshing'[t].stage = "answered"
      /\ refreshing'[t].cookie = refreshing[t].cookie
  BY <1>0, <1>2, AnswerShape
<1>4. /\ current'[s] = current[s] + 1 /\ window'[s]
      /\ \A r \in (1..MaxSessions) \ {s} : /\ current'[r] = current[r]
                                            /\ window'[r] = window[r]
  BY <1>1, <1>2 DEF Types
<1>5. ASSUME NEW r \in (1..MaxSessions) \ outrun'
      PROVE  /\ jar'.sid = r => Near(r, jar.tok)'
             /\ \A u \in Tabs :
                    /\ entering'[u] = r => Near(r, 1)'
                    /\ refreshing'[u].cookie.sid = r =>
                           /\ refreshing'[u].stage = "sent"
                                  => Near(r, refreshing[u].cookie.tok)'
                           /\ refreshing'[u].answer = "ok"
                                  => Near(r, refreshing[u].cookie.tok + 1)'
  <2>1. r \notin outrun
    BY <1>2, <1>5 DEF Outrun
  <2>2. CASE r # s
    <3>1. /\ current'[r] = current[r] /\ window'[r] = window[r]
          /\ refreshing[t].cookie.sid # r
      BY <1>4, <1>7, <2>2
    <3> QED BY <1>2, <1>3, <2>1, <3>1 DEF TokenInv, Near
  <2>3. CASE r = s
    <3>1. ~LeftBehind(s)
      BY <1>2, <2>3 DEF Outrun
    <3>2. s \in (1..MaxSessions) \ outrun
      BY <2>1, <2>3
    <3>3. /\ jar.sid = s => jar.tok = current[s]
          /\ \A u \in Tabs :
                 /\ entering[u] = s => current[s] = 1
                 /\ refreshing[u].cookie.sid = s =>
                        /\ refreshing[u].stage = "sent"
                               => refreshing[u].cookie.tok = current[s]
                        /\ refreshing[u].answer = "ok"
                               => refreshing[u].cookie.tok + 1 = current[s]
      BY <3>1, <3>2, NotBehind
    <3>4. jar'.sid = s => Near(s, jar.tok)'
      BY <1>2, <1>4, <3>3 DEF Near
    <3>5. ASSUME NEW u \in Tabs
          PROVE  /\ entering'[u] = s => Near(s, 1)'
                 /\ refreshing'[u].cookie.sid = s =>
                        /\ refreshing'[u].stage = "sent"
                               => Near(s, refreshing[u].cookie.tok)'
                        /\ refreshing'[u].answer = "ok"
                               => Near(s, refreshing[u].cookie.tok + 1)'
      <4>1. entering'[u] = s => Near(s, 1)'
        BY <1>2, <1>4, <3>3 DEF Near
      <4>2. CASE u = t
        BY <1>1, <1>3, <1>4, <4>1, <4>2 DEF Near
      <4>3. CASE u # t
        BY <1>3, <1>4, <3>3, <4>1, <4>3 DEF Near
      <4> QED BY <4>2, <4>3
    <3> QED BY <2>3, <3>4, <3>5
  <2> QED BY <2>2, <2>3
<1>6. \A r \in 1..MaxSessions : issued' < r => current'[r] = 1
  <2>1. ASSUME NEW r \in 1..MaxSessions, issued < r PROVE r # s
    BY <1>0, <1>1, <2>1 DEF Sid
  <2> QED BY <1>2, <1>4, <2>1 DEF TokenInv
<1> QED BY <1>5, <1>6 DEF TokenInv

LEMMA WindowTokens ==
    ASSUME Types, TokenInv, NEW s \in live, WindowPasses(s)
    PROVE  TokenInv'
<1>0. s \in 1..MaxSessions
  BY BoundsAssumption DEF Types, Sid
<1>1. /\ window' = [window EXCEPT ![s] = FALSE] /\ Outrun(s)
      /\ UNCHANGED <<jar, entering, refreshing, current, issued>>
  BY DEF WindowPasses, calls
<1>2. /\ ~window'[s]
      /\ \A r \in (1..MaxSessions) \ {s} : window'[r] = window[r]
  BY <1>0, <1>1 DEF Types
<1>3. ASSUME NEW r \in (1..MaxSessions) \ outrun'
      PROVE  /\ jar'.sid = r => Near(r, jar.tok)'
             /\ \A u \in Tabs :
                    /\ entering'[u] = r => Near(r, 1)'
                    /\ refreshing'[u].cookie.sid = r =>
                           /\ refreshing'[u].stage = "sent"
                                  => Near(r, refreshing[u].cookie.tok)'
                           /\ refreshing'[u].answer = "ok"
                                  => Near(r, refreshing[u].cookie.tok + 1)'
  <2>1. r \in (1..MaxSessions) \ outrun
    BY <1>1, <1>3 DEF Outrun
  <2>2. CASE r # s
    BY <1>1, <1>2, <2>1, <2>2 DEF TokenInv, Near
  <2>3. CASE r = s
    <3>1. ~LeftBehind(r)
      BY <1>1, <2>3 DEF Outrun
    <3> QED BY <1>1, <2>1, <3>1, NotBehind DEF Near
  <2> QED BY <2>2, <2>3
<1> QED BY <1>1, <1>3 DEF TokenInv

LEMMA TokenStep ==
    ASSUME IInv, NEW t \in Tabs,
           \/ Login(t) \/ Logout(t) \/ LogoutFails(t) \/ ChangePassword(t)
           \/ Refresh(t) \/ CircuitTimer(t) \/ FetchUser(t) \/ Progress(t)
    PROVE  TokenInv'
<1>0. /\ TypeOK /\ Types /\ TokenInv /\ refreshing \in [Tabs -> Refreshing]
      /\ entering \in [Tabs -> Sid] /\ issued \in Sid
  BY TypesOK DEF IInv, Types
<1> USE <1>0 DEF server, rows, counts, history, calls
<1>2. ASSUME NEW ok, Settle(t, ok) PROVE \A u \in Tabs : KeptRefresh(u)
  BY <1>2 DEF Settle, NoRefresh, KeptRefresh
<1>3. ASSUME ShareRefresh(t) PROVE \A u \in Tabs : KeptRefresh(u)
  BY <1>3 DEF ShareRefresh, NoRefresh, KeptRefresh
<1>4. ASSUME Close(t) PROVE \A u \in Tabs : KeptRefresh(u)
  BY <1>4 DEF Close, Refreshing, KeptRefresh
<1>5. ASSUME NEW a \in Answers, a # "ok", Answer(t, a)
      PROVE  \A u \in Tabs : KeptRefresh(u)
  BY <1>5, AnswerShape DEF KeptRefresh
<1>6. refreshing' = refreshing => \A u \in Tabs : KeptRefresh(u)
  BY DEF KeptRefresh
<1>7. ASSUME jar' = Brought(t) PROVE KeptJar
  BY <1>7, Bringing DEF KeptJar
<1>8. jar' = jar \/ jar' = NoCookie => KeptJar
  BY DEF KeptJar
<1>9. entering' = entering => \A u \in Tabs : entering'[u] \in {entering[u], 0}
  OBVIOUS
<1>10. CASE Login(t)
  <2>1. /\ issued' = issued + 1 /\ entering' = [entering EXCEPT ![t] = issued + 1]
        /\ UNCHANGED <<refreshing, jar, current, window, outrun>>
    BY <1>10 DEF Login
  <2>2. issued \in Nat
    BY DEF Sid
  <2>3. \A u \in Tabs : entering'[u] = entering[u] \/ entering'[u] = issued + 1
    BY <2>1
  <2>4. \A s \in 1..MaxSessions :
            /\ issued' < s => current'[s] = 1
            /\ s = issued + 1 => Near(s, 1)
    BY <2>1, <2>2 DEF TokenInv, Near
  <2> QED BY <2>1, <2>3, <2>4 DEF TokenInv, Near
<1>11. CASE LoginAnswer(t)
  <2>1. /\ jar' = [sid |-> entering[t], tok |-> 1]
        /\ \A u \in Tabs : entering'[u] \in {entering[u], 0}
        /\ UNCHANGED <<refreshing, current, window, outrun, issued>>
    BY <1>11 DEF LoginAnswer
  <2>2. KeptJar
    BY <2>1 DEF KeptJar
  <2> QED BY <1>6, <2>1, <2>2, TokenKept
<1>12. CASE \/ SendLogout(t) \/ ServerLogout(t) \/ LogoutAnswer(t)
            \/ LogoutFails(t) \/ ChangePassword(t) \/ ChangePasswordAnswer(t)
            \/ CircuitTimer(t) \/ FetchUser(t) \/ FetchHeaders(t)
            \/ FetchBody(t)
  <2>1. /\ UNCHANGED <<refreshing, entering, current, window, outrun, issued>>
        /\ jar' = jar \/ jar' = NoCookie
    BY <1>12 DEF SendLogout, ServerLogout, LogoutAnswer, LogoutFails,
       ChangePassword, ChangePasswordAnswer, CircuitTimer, FetchUser,
       FetchHeaders, FetchBody
  <2> QED BY <1>6, <1>8, <1>9, <2>1, TokenKept
<1>13. CASE Logout(t)
  <2>1. /\ UNCHANGED <<jar, entering, current, window, outrun, issued>>
        /\ Close(t)
    BY <1>13 DEF Logout
  <2> QED BY <1>4, <1>8, <1>9, <2>1, TokenKept
<1>14. CASE Refresh(t) \/ FetchRefused(t)
  <2>1. /\ UNCHANGED <<jar, entering, current, window, outrun, issued>>
        /\ ShareRefresh(t) \/ refreshing' = refreshing
    BY <1>14 DEF Refresh, FetchRefused
  <2> QED BY <1>3, <1>6, <1>8, <1>9, <2>1, TokenKept
<1>15. CASE ServerRefresh(t)
  <2>1. UNCHANGED <<jar, entering, issued>> /\ refreshing[t].stage = "sent"
    BY <1>15 DEF ServerRefresh
  <2>2. CASE Rotate(t)
    BY <1>15, <2>2, RotateTokens
  <2>3. CASE Serve(t)
    <3>1. /\ WithinGrace(refreshing[t].cookie) /\ Answer(t, "ok")
          /\ UNCHANGED <<current, window, outrun>> /\ "ok" \in Answers
      BY <2>3 DEF Serve, Answers
    <3>2. /\ \A u \in Tabs \ {t} : refreshing'[u] = refreshing[u]
          /\ refreshing'[t].stage = "answered"
          /\ refreshing'[t].cookie = refreshing[t].cookie
          /\ refreshing[t].cookie.tok + 1 = current[refreshing[t].cookie.sid]
      BY <3>1, AnswerShape DEF WithinGrace
    <3> QED BY <2>1, <3>1, <3>2 DEF TokenInv, Near
  <2>4. CASE Reject(t)
    <3>1. /\ UNCHANGED <<current, window, outrun>>
          /\ Answer(t, "rejected") \/ Answer(t, "refused")
          /\ "rejected" \in Answers /\ "refused" \in Answers
      BY <2>4 DEF Reject, Answers
    <3>2. \A u \in Tabs : KeptRefresh(u)
      BY <1>5, <3>1
    <3> QED BY <1>8, <1>9, <2>1, <3>1, <3>2, TokenKept
  <2> QED BY <1>15, <2>2, <2>3, <2>4 DEF ServerRefresh
<1>16. CASE LimitRefresh(t) \/ RefreshLost(t)
  <2>1. /\ UNCHANGED <<entering, current, window, outrun, issued>>
        /\ Answer(t, "limited") \/ Answer(t, "failed")
        /\ "limited" \in Answers /\ "failed" \in Answers
        /\ jar' = jar \/ jar' = Brought(t)
    BY <1>16 DEF LimitRefresh, RefreshLost, TakeCookie, Answers
  <2>2. (\A u \in Tabs : KeptRefresh(u)) /\ KeptJar
    BY <1>5, <1>7, <1>8, <2>1
  <2> QED BY <1>9, <2>1, <2>2, TokenKept
<1>17. CASE \/ RefreshAborted(t) \/ Refreshed(t) \/ Refused(t) \/ Expire(t)
  <2>1. /\ UNCHANGED <<entering, current, window, outrun, issued>>
        /\ Settle(t, TRUE) \/ Settle(t, FALSE)
        /\ jar' = jar \/ jar' = NoCookie \/ jar' = Brought(t)
    BY <1>17 DEF RefreshAborted, Refreshed, Refused, Expire, TakeCookie
  <2> QED BY <1>2, <1>7, <1>8, <1>9, <2>1, TokenKept
<1>18. CASE RefreshFailed(t)
  <2>1. /\ UNCHANGED <<jar, entering, current, window, outrun, issued>>
        /\ refreshing[t].answer \in {"limited", "failed"}
        /\ \/ Settle(t, FALSE)
           \/ refreshing' = [refreshing EXCEPT ![t].stage = "cleanup",
                                               ![t].cookie = jar,
                                               ![t].since = issued]
    BY <1>18 DEF RefreshFailed
  <2>2. CASE Settle(t, FALSE)
    BY <1>2, <1>8, <1>9, <2>1, <2>2, TokenKept
  <2>3. CASE refreshing' = [refreshing EXCEPT ![t].stage = "cleanup",
                                              ![t].cookie = jar,
                                              ![t].since = issued]
    <3>1. \A u \in Tabs : KeptRefresh(u)
      BY <2>1, <2>3 DEF KeptRefresh, Refreshing
    <3> QED BY <1>8, <1>9, <2>1, <3>1, TokenKept
  <2> QED BY <2>1, <2>2, <2>3
<1>19. ASSUME NEW s \in Tabs, HandleTabMessage(s, t) PROVE TokenInv'
  <2>1. /\ UNCHANGED <<jar, entering, current, window, outrun, issued>>
        /\ Close(t) \/ refreshing' = refreshing
    BY <1>19 DEF HandleTabMessage, ApplySync
  <2> QED BY <1>4, <1>6, <1>8, <1>9, <2>1, TokenKept
<1> QED
  BY <1>10, <1>11, <1>12, <1>13, <1>14, <1>15, <1>16, <1>17, <1>18, <1>19
     DEF Progress

LEMMA WindowStep ==
    ASSUME IInv, NEW s \in live, WindowPasses(s)
    PROVE  IInv'
<1>0. Types /\ TokenInv
  BY DEF IInv
<1>1. /\ UNCHANGED <<tab, refreshing, fetching, entering, changing, leaving,
                     channel, jar, live, current, issued, asked, left, taker>>
      /\ window' = [window EXCEPT ![s] = FALSE] /\ Outrun(s)
  BY DEF WindowPasses, calls, counts
<1>2. s \in 1..issued /\ s \in 1..MaxSessions
  BY <1>0, BoundsAssumption DEF Types, Sid
<1>3. Types'
  BY <1>0, <1>1, <1>2 DEF Types, Outrun
<1>4. CircuitInv' /\ LatchInv' /\ DrainInv' /\ PendingInv'
  BY <1>1 DEF IInv, CircuitInv, LatchInv, DrainInv, PendingInv
<1>5. SpareInv'
  BY <1>1 DEF IInv, SpareInv, Outrun
<1>6. TokenInv'
  BY <1>0, WindowTokens
<1> QED BY <1>3, <1>4, <1>5, <1>6 DEF IInv

LEMMA Inductive ==
    /\ Init => IInv
    /\ IInv /\ [Next]_vars => IInv'
<1>1. Init => IInv
  <2> SUFFICES ASSUME Init PROVE IInv
    OBVIOUS
  <2> USE Constants DEF Init
  <2>1. issued \in Sid /\ jar \in Cookie
    BY BoundsAssumption DEF Sid, Cookie
  <2>2. [Anonymous EXCEPT !.user = issued, !.auth = issued = 1] \in Page
    <3>1. Anonymous \in Page /\ (issued = 1) \in BOOLEAN
      OBVIOUS
    <3> QED BY <2>1, <3>1 DEF Page
  <2>3. tab \in [Tabs -> Page] /\ \A t \in Tabs : ~tab[t].blocked
    BY <2>2 DEF Anonymous
  <2>4. channel \in [Tabs -> [Tabs -> Seq(GoodMessage)]]
    BY EmptySeq
  <2>5. Types
    BY <2>1, <2>3, <2>4 DEF Types
  <2>6. CircuitInv /\ LatchInv /\ PendingInv
    BY <2>3 DEF CircuitInv, LatchInv, PendingInv, NoRefresh
  <2>7. SpareInv /\ DrainInv
    BY DEF SpareInv, DrainInv, NoRefresh, NoLogout
  <2>8. TokenInv
    <3>1. /\ \A s \in 1..MaxSessions : current[s] = 1 /\ (jar.sid = s => jar.tok = 1)
          /\ \A u \in Tabs : /\ entering[u] = 0 /\ refreshing[u].stage # "sent"
                             /\ refreshing[u].answer # "ok"
      BY DEF NoRefresh
    <3> QED BY <3>1 DEF TokenInv, Near
  <2> QED BY <2>5, <2>6, <2>7, <2>8 DEF IInv
<1>2. IInv /\ [Next]_vars => IInv'
  <2> SUFFICES ASSUME IInv, [Next]_vars PROVE IInv'
    OBVIOUS
  <2>1. CASE UNCHANGED vars
    BY <2>1 DEF vars, server, rows, counts, history, calls, IInv, Types,
       CircuitInv, LatchInv, SpareInv, DrainInv, PendingInv, TokenInv, Near
  <2>2. ASSUME NEW t \in Tabs,
               \/ Login(t) \/ Logout(t) \/ LogoutFails(t) \/ ChangePassword(t)
               \/ Refresh(t) \/ CircuitTimer(t) \/ FetchUser(t) \/ Progress(t)
        PROVE  IInv'
    <3>1. Types /\ CircuitInv
      BY DEF IInv
    <3>2. Types'
      BY <2>2, <3>1, SessionTypes, RefreshTypes, FetchTypes DEF Progress
    <3>3. CircuitInv' /\ LatchInv' /\ SpareInv' /\ DrainInv'
      BY <2>2, SessionInvs, RefreshInvs, FetchInvs DEF Progress
    <3> QED BY <2>2, <3>2, <3>3, PendingStep, TokenStep DEF IInv
  <2> QED BY <2>1, <2>2, WindowStep DEF Next
<1> QED BY <1>1, <1>2

-----------------------------------------------------------------------------
(* The theorems.                                                           *)

\* Every state of the tabs, the channel and the server is well formed; the
\* failures of a tab never pass the limit (the state of NajmAuthClient).
THEOREM TypeCorrect == Spec => []TypeOK
<1>1. IInv => TypeOK
  BY TypesOK DEF IInv
<1> QED
  BY <1>1, Inductive, PTL DEF Spec

\* However refreshes, logins, logouts and messages of any number of tabs
\* interleave, a tab is never signed in, nor has it an access token, while its
\* refreshes are blocked by a logout (logout, _doRefresh). The user it shows is
\* another matter, and a login or a sync of a tab that is signed in unblocks it.
THEOREM LatchHolds == Spec => []LatchedTabStaysOut
<1>1. IInv => LatchedTabStaysOut
  BY DEF IInv, LatchInv, LatchedTabStaysOut
<1> QED
  BY <1>1, Inductive, PTL DEF Spec

\* As long as nobody asked for it, the server ends no session but one of which
\* a replaced token was still to be presented at the next rotation, or at the
\* end of the grace window (refreshTokens, withinGraceWindow).
THEOREM RacesAreHarmless == Spec => []RacesSpareSessions
<1>1. IInv => RacesSpareSessions
  BY DEF IInv, SpareInv, RacesSpareSessions
<1> QED
  BY <1>1, Inductive, PTL DEF Spec

\* While the server is asked to log out, the tab that asks has no refresh
\* under way (logout waits for refreshPromise, and the latch lets no other
\* begin), unless it has been signed in again since.
LogoutsAreDrained ==
    \A t \in left : leaving[t].stage \in {"sent", "answered"}
                        => refreshing[t].stage = "none"

\* Every logout is sent after the refresh that was pending has settled, and its
\* answer leaves no cookie this tab's earlier requests brought.
THEOREM DrainingWorks == Spec => [](LogoutClearsCookie /\ LogoutsAreDrained)
<1>1. IInv => LogoutClearsCookie /\ LogoutsAreDrained
  <2> SUFFICES ASSUME IInv PROVE LogoutClearsCookie /\ LogoutsAreDrained
    OBVIOUS
  <2>1. LogoutClearsCookie
    BY DEF IInv, DrainInv, LogoutClearsCookie, NoLogout
  <2>2. LogoutsAreDrained
    BY DEF IInv, DrainInv, LogoutsAreDrained
  <2> QED BY <2>1, <2>2
<1> QED
  BY <1>1, Inductive, PTL DEF Spec

=============================================================================
