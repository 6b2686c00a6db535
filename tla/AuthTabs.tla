------------------------------ MODULE AuthTabs ------------------------------
(***************************************************************************)
(* NajmAuthClient of najm-auth, one per browser tab                        *)
(* (src/packages/najm-auth/src/client). Tabs share the cookie jar and the  *)
(* server's sessions, and tell each other of logins, refreshes and logouts *)
(* over a BroadcastChannel, which keeps the order of one sender only.      *)
(*                                                                         *)
(* One user signs in. A session (a token family) is a number in the order  *)
(* of logins; an access token and a user are the session they belong to, 0 *)
(* when absent. The refresh cookie also says which token of its session it *)
(* is: they are numbered in the order of rotations. Every request is sent, *)
(* reaches the server and is answered in separate steps.                   *)
(* The authGeneration counter is only ever compared with its value at the  *)
(* start of a refresh: a request keeps whether it is still current.        *)
(***************************************************************************)
EXTENDS Naturals, Sequences

CONSTANTS
    Tabs,
    MaxFailures,   \* MAX_REFRESH_FAILURES
    MaxSessions,   \* bound: sessions, the one of the opened pages included
    MaxRefreshes,  \* bound: refreshes started
    MaxFetches,    \* bound: profile requests started
    MaxExits       \* bound: logouts and password changes

ASSUME BoundsAssumption ==
    /\ MaxFailures \in Nat \ {0} /\ MaxSessions \in Nat \ {0}
    /\ MaxRefreshes \in Nat /\ MaxFetches \in Nat /\ MaxExits \in Nat

VARIABLES
    tab,         \* user, token and isAuthenticated of the state, refreshBlocked,
                 \* the block of authenticated requests, refreshFailures
    refreshing,  \* refreshPromise
    fetching,    \* fetchUserPromise
    entering,    \* session of an answered login that has not arrived, or 0
    changing,    \* whether the answer of a password change is on its way
    leaving,     \* logout: draining, or the request to the server
    channel,     \* messages from each tab to each other tab
    jar,         \* refresh cookie
    live,        \* sessions the server accepts
    current,     \* refresh token each session's row holds
    window,      \* whether the token it replaced is within its grace window
    issued,      \* sessions created
    refreshes, fetches, exits,
    ended,       \* history: sessions of tabs in which a user logged out
    asked,       \* history: a user or a tab that gave up has ended a session
    left,        \* history: tabs whose logout the server heard, not signed in since
    taker,       \* history: the tab whose answer brought the cookie
    outrun       \* history: sessions of which a token that is still to be
                 \* presented was left behind for good

vars == <<tab, refreshing, fetching, entering, changing, leaving, channel,
          jar, live, current, window, issued, refreshes, fetches, exits,
          ended, asked, left, taker, outrun>>
rows == <<current, window, issued>>
server == <<jar, live, rows>>
counts == <<refreshes, fetches, exits>>
history == <<ended, asked, left, taker, outrun>>
calls == <<fetching, entering, changing, leaving>>

Sid == 0..MaxSessions
Cookie == [sid: Sid, tok: Nat]
NoCookie == [sid |-> 0, tok |-> 0]

\* rejected: the 401 that also clears the cookie.
Answers == {"ok", "refused", "rejected", "limited", "failed"}
Message == [type: {"logout", "sync"}, user: Sid, token: Sid, auth: BOOLEAN]

Page == [user: Sid, token: Sid, auth: BOOLEAN, blocked: BOOLEAN,
         closed: BOOLEAN, failures: 0..MaxFailures]

\* since: history, the newest session when the circuit opened.
Refreshing == [stage: {"none", "sent", "answered", "cleanup"},
               cookie: Cookie, answer: Answers \cup {"pending"}, current: BOOLEAN, since: Sid]
Fetching == [stage: {"none", "sent", "body", "refresh"}, sid: Sid,
             again: BOOLEAN]
Leaving == [stage: {"none", "draining", "sent", "answered"}, cookie: Cookie]

TypeOK ==
    /\ tab \in [Tabs -> Page]
    /\ refreshing \in [Tabs -> Refreshing]
    /\ fetching \in [Tabs -> Fetching]
    /\ leaving \in [Tabs -> Leaving]
    /\ channel \in [Tabs -> [Tabs -> Seq(Message)]]
    /\ entering \in [Tabs -> Sid] /\ changing \in [Tabs -> BOOLEAN]
    /\ jar \in Cookie /\ live \subseteq 1..issued /\ issued \in Sid
    /\ current \in [1..MaxSessions -> Nat] /\ window \in [1..MaxSessions -> BOOLEAN]
    /\ asked \in BOOLEAN /\ outrun \subseteq 1..issued

NoRefresh == [stage |-> "none", cookie |-> NoCookie, answer |-> "pending",
              current |-> TRUE, since |-> 0]
NoFetch == [stage |-> "none", sid |-> 0, again |-> FALSE]
NoLogout == [stage |-> "none", cookie |-> NoCookie]

Anonymous == [user |-> 0, token |-> 0, auth |-> FALSE, blocked |-> FALSE,
              closed |-> FALSE, failures |-> 0]

\* The pages were rendered and hydrated: without a session, or with its user
\* and no access token.
Init ==
    /\ issued \in {0, 1}
    /\ live = 1..issued
    /\ jar = [sid |-> issued, tok |-> issued]
    /\ current = [s \in 1..MaxSessions |-> 1]
    /\ window = [s \in 1..MaxSessions |-> FALSE]
    /\ tab = [t \in Tabs |-> [Anonymous EXCEPT !.user = issued,
                                               !.auth = issued = 1]]
    /\ refreshing = [t \in Tabs |-> NoRefresh]
    /\ fetching = [t \in Tabs |-> NoFetch]
    /\ entering = [t \in Tabs |-> 0]
    /\ changing = [t \in Tabs |-> FALSE]
    /\ leaving = [t \in Tabs |-> NoLogout]
    /\ channel = [t \in Tabs |-> [u \in Tabs |-> <<>>]]
    /\ refreshes = 0 /\ fetches = 0 /\ exits = 0
    /\ ended = {} /\ asked = FALSE
    /\ left = {} /\ taker = {} /\ outrun = {}

ResetState(x) == [x EXCEPT !.user = 0, !.token = 0, !.auth = FALSE]

Broadcast(chan, t, msg) ==
    [chan EXCEPT ![t] = [u \in Tabs |->
        IF u = t THEN chan[t][u] ELSE Append(chan[t][u], msg)]]

LogoutMessage == [type |-> "logout", user |-> 0, token |-> 0, auth |-> FALSE]
SyncMessage(x) ==
    [type |-> "sync", user |-> x.user, token |-> x.token, auth |-> x.auth]

ApplyTokens(x, sid) ==
    [x EXCEPT !.token = sid, !.auth = TRUE, !.failures = 0]

\* Mutant: a refresh is not fenced by authGeneration.
CloseUnfenced(t) ==
    /\ tab' = [tab EXCEPT ![t] = [ResetState(@) EXCEPT !.blocked = TRUE,
                                                       !.closed = TRUE]]
    /\ fetching' = IF fetching[t].stage = "sent"
                   THEN [fetching EXCEPT ![t] = NoFetch] ELSE fetching
    /\ changing' = [changing EXCEPT ![t] = FALSE]
    /\ UNCHANGED refreshing

\* What a logout does to the tab, begun here or in another tab: the generation
\* moves on, authenticated requests abort and the state is reset.
Close(t) ==
    /\ tab' = [tab EXCEPT ![t] = [ResetState(@) EXCEPT !.blocked = TRUE,
                                                       !.closed = TRUE]]
    /\ fetching' = IF fetching[t].stage = "sent"
                   THEN [fetching EXCEPT ![t] = NoFetch] ELSE fetching
    /\ changing' = [changing EXCEPT ![t] = FALSE]
    /\ refreshing' = [refreshing EXCEPT ![t].current = @ /\ refreshing[t].stage = "none"]

-----------------------------------------------------------------------------
(* What the server makes of a refresh cookie. *)

IsCurrent(c) == c.sid \in live /\ c.tok = current[c.sid]

\* Mutant: a token that was just replaced is taken for a stolen one.
NeverWithinGrace(c) == FALSE

\* The token the current one replaced, for PREVIOUS_GRACE_SECONDS.
WithinGrace(c) ==
    c.sid \in live /\ window[c.sid] /\ c.tok + 1 = current[c.sid]

LoggedOut(c) ==
    IF IsCurrent(c) \/ WithinGrace(c) THEN {live \ {c.sid}}
    ELSE IF c.sid \in live THEN {live, {}} ELSE {live}

-----------------------------------------------------------------------------
(* Login, logout, password change. *)

\* The form is shown to visitors; the server creates the session and the
\* answer travels back.
Login(t) ==
    /\ ~tab[t].auth /\ entering[t] = 0 /\ issued < MaxSessions
    /\ issued' = issued + 1
    /\ live' = live \cup {issued + 1}
    /\ entering' = [entering EXCEPT ![t] = issued + 1]
    /\ UNCHANGED <<tab, refreshing, fetching, changing, leaving, channel, jar,
                   current, window, counts, history>>

LoginAnswer(t) ==
    /\ entering[t] # 0
    /\ LET in == [ApplyTokens(tab[t], entering[t]) EXCEPT
                      !.user = entering[t], !.blocked = FALSE, !.closed = FALSE]
       IN  /\ tab' = [tab EXCEPT ![t] = in]
           /\ channel' = Broadcast(channel, t, SyncMessage(in))
    /\ jar' = [sid |-> entering[t], tok |-> 1]
    /\ taker' = {t}
    /\ left' = left \ {t}
    /\ entering' = [entering EXCEPT ![t] = 0]
    /\ UNCHANGED <<refreshing, fetching, changing, leaving, live, rows, counts,
                   ended, asked, outrun>>

Logout(t) ==
    /\ tab[t].auth /\ leaving[t] = NoLogout /\ exits < MaxExits
    /\ exits' = exits + 1
    /\ Close(t)
    /\ channel' = Broadcast(channel, t, LogoutMessage)
    /\ leaving' = [leaving EXCEPT ![t] = [NoLogout EXCEPT !.stage = "draining"]]
    /\ ended' = ended \cup {tab[t].user}
    /\ asked' = TRUE
    /\ left' = left \cup {t}
    /\ UNCHANGED <<entering, server, refreshes, fetches, taker, outrun>>

\* Mutant: the logout does not wait for the pending refresh.
SendLogoutAtOnce(t) ==
    /\ leaving[t].stage = "draining"
    /\ leaving' = [leaving EXCEPT ![t] = [stage |-> "sent", cookie |-> jar]]
    /\ UNCHANGED <<tab, refreshing, fetching, entering, changing, channel,
                   server, counts, history>>

\* requestServerLogout, after the refresh that was pending has settled.
SendLogout(t) ==
    /\ leaving[t].stage = "draining" /\ refreshing[t].stage = "none"
    /\ leaving' = [leaving EXCEPT ![t] = [stage |-> "sent", cookie |-> jar]]
    /\ UNCHANGED <<tab, refreshing, fetching, entering, changing, channel,
                   server, counts, history>>

\* The cookie's session ends. A cookie left behind proves no session: if the
\* signed snapshot beside it still names the user, all of the user's end.
ServerLogout(t) ==
    /\ leaving[t].stage = "sent"
    /\ live' \in LoggedOut(leaving[t].cookie)
    /\ leaving' = [leaving EXCEPT ![t].stage = "answered"]
    /\ UNCHANGED <<tab, refreshing, fetching, entering, changing, channel, jar,
                   rows, counts, history>>

\* The answer clears the cookie, whatever session it holds by then.
LogoutAnswer(t) ==
    /\ leaving[t].stage = "answered"
    /\ jar' = NoCookie
    /\ leaving' = [leaving EXCEPT ![t] = NoLogout]
    /\ UNCHANGED <<tab, refreshing, fetching, entering, changing, channel,
                   live, rows, counts, history>>

LogoutFails(t) ==
    /\ leaving[t].stage \in {"sent", "answered"}
    /\ leaving' = [leaving EXCEPT ![t] = NoLogout]
    /\ left' = left \ {t}
    /\ UNCHANGED <<tab, refreshing, fetching, entering, changing, channel,
                   server, counts, ended, asked, taker, outrun>>

\* The server revokes every session of the user. The client neither blocks
\* nor fences anything.
ChangePassword(t) ==
    /\ tab[t].auth /\ tab[t].token \in live /\ ~changing[t] /\ ~tab[t].closed
    /\ exits < MaxExits
    /\ exits' = exits + 1
    /\ live' = {}
    /\ changing' = [changing EXCEPT ![t] = TRUE]
    /\ asked' = TRUE
    /\ UNCHANGED <<tab, refreshing, fetching, entering, leaving, channel, jar,
                   rows, refreshes, fetches, ended, left, taker, outrun>>

ChangePasswordAnswer(t) ==
    /\ changing[t]
    /\ changing' = [changing EXCEPT ![t] = FALSE]
    /\ tab' = [tab EXCEPT ![t] = ResetState(@)]
    /\ channel' = Broadcast(channel, t, LogoutMessage)
    /\ jar' = NoCookie
    /\ UNCHANGED <<refreshing, fetching, entering, leaving, live, rows, counts,
                   history>>

-----------------------------------------------------------------------------
(* Refresh. *)

\* Mutant: an open circuit does not stop anyone.
CanRefreshAlways(t) == ~tab[t].blocked

CanRefresh(t) == ~tab[t].blocked /\ tab[t].failures < MaxFailures

\* Callers share the request that is under way.
ShareRefresh(t) ==
    IF refreshing[t].stage # "none" THEN UNCHANGED <<refreshing, refreshes>>
    ELSE /\ refreshes < MaxRefreshes
         /\ refreshes' = refreshes + 1
         /\ refreshing' = [refreshing EXCEPT ![t] = [NoRefresh EXCEPT
                               !.stage = "sent", !.cookie = jar]]

\* The timer, a 401 to some request or the page's start asks for a refresh.
Refresh(t) ==
    /\ CanRefresh(t) /\ tab[t].auth
    /\ refreshing[t].stage = "none" /\ leaving[t].stage # "draining"
    /\ ShareRefresh(t)
    /\ UNCHANGED <<tab, calls, channel, server, fetches, exits, history>>

Answer(t, answer) ==
    refreshing' = [refreshing EXCEPT ![t].stage = "answered",
                                     ![t].answer = answer]

\* The cookie, a request or an answer still on its way is of a token of
\* session s that has been replaced.
LeftBehind(s) ==
    \/ jar.sid = s /\ jar.tok < current[s]
    \/ \E u \in Tabs :
           \/ entering[u] = s /\ 1 < current[s]
           \/ /\ refreshing[u].cookie.sid = s
              /\ \/ /\ refreshing[u].stage = "sent"
                    /\ refreshing[u].cookie.tok < current[s]
                 \/ /\ refreshing[u].answer = "ok"
                    /\ refreshing[u].cookie.tok + 1 < current[s]

\* The replaced token that is left behind will not be served any more.
Outrun(s) == outrun' = IF LeftBehind(s) THEN outrun \cup {s} ELSE outrun

\* The current token is replaced, and may be presented for a while yet.
Rotate(t) ==
    LET s == refreshing[t].cookie.sid
    IN  /\ IsCurrent(refreshing[t].cookie)
        /\ current' = [current EXCEPT ![s] = @ + 1]
        /\ window' = [window EXCEPT ![s] = TRUE]
        /\ Answer(t, "ok")
        /\ Outrun(s)
        /\ UNCHANGED live

\* Who presents the replaced token gets the one that replaced it.
Serve(t) ==
    /\ WithinGrace(refreshing[t].cookie)
    /\ Answer(t, "ok")
    /\ UNCHANGED <<live, current, window, outrun>>

\* Any other token revokes its session, unless it was still current when this
\* request read the row and lost the race to replace it.
Reject(t) ==
    /\ ~IsCurrent(refreshing[t].cookie) /\ ~WithinGrace(refreshing[t].cookie)
    /\ \/ live' = live \ {refreshing[t].cookie.sid} /\ Answer(t, "rejected")
       \/ /\ refreshing[t].cookie.sid # 0 /\ Answer(t, "refused")
          /\ UNCHANGED live
    /\ UNCHANGED <<current, window, outrun>>

ServerRefresh(t) ==
    /\ refreshing[t].stage = "sent"
    /\ Rotate(t) \/ Serve(t) \/ Reject(t)
    /\ UNCHANGED <<tab, calls, channel, jar, issued, counts, ended, asked, left,
                   taker>>

LimitRefresh(t) ==
    /\ refreshing[t].stage = "sent"
    /\ Answer(t, "limited")
    /\ UNCHANGED <<tab, calls, channel, server, counts, history>>

Brought(t) ==
    CASE refreshing[t].answer = "ok" ->
             [refreshing[t].cookie EXCEPT !.tok = @ + 1]
      [] refreshing[t].answer = "rejected" -> NoCookie
      [] OTHER -> jar

\* The browser applies the answer's cookie.
TakeCookie(t) ==
    /\ jar' = Brought(t)
    /\ taker' = IF refreshing[t].answer = "ok" THEN {t} ELSE taker

\* The request or its answer is lost, its headers perhaps not.
RefreshLost(t) ==
    /\ refreshing[t].stage \in {"sent", "answered"}
    /\ TakeCookie(t) \/ UNCHANGED <<jar, taker>>
    /\ Answer(t, "failed")
    /\ UNCHANGED <<tab, calls, channel, live, rows, counts, ended, asked, left,
                   outrun>>

\* PREVIOUS_GRACE_SECONDS after the last rotation of session s.
WindowPasses(s) ==
    /\ s \in live /\ window[s]
    /\ window' = [window EXCEPT ![s] = FALSE]
    /\ Outrun(s)
    /\ UNCHANGED <<tab, refreshing, calls, channel, jar, live, current, issued,
                   counts, ended, asked, left, taker>>

\* The refresh promise settles: a profile request that waited for it is sent
\* again with the token there is now, or fails.
Settle(t, ok) ==
    /\ refreshing' = [refreshing EXCEPT ![t] = NoRefresh]
    /\ fetching' =
           IF fetching[t].stage # "refresh" THEN fetching
           ELSE [fetching EXCEPT ![t] =
                    IF ok /\ tab'[t].token # 0 /\ ~tab'[t].closed
                    THEN [stage |-> "sent", sid |-> tab'[t].token, again |-> TRUE]
                    ELSE NoFetch]

\* A logout aborted it: the answer is dropped, though the browser may have
\* taken its cookie.
RefreshAborted(t) ==
    /\ refreshing[t].stage \in {"sent", "answered"} /\ ~refreshing[t].current
    /\ TakeCookie(t) \/ UNCHANGED <<jar, taker>>
    /\ tab' = tab
    /\ Settle(t, TRUE)
    /\ UNCHANGED <<entering, changing, leaving, channel, live, rows, counts,
                   ended, asked, left, outrun>>

Refreshed(t) ==
    /\ refreshing[t].answer = "ok" /\ refreshing[t].current
    /\ tab' = [tab EXCEPT ![t] = ApplyTokens(@, refreshing[t].cookie.sid)]
    /\ channel' = Broadcast(channel, t, SyncMessage(tab'[t]))
    /\ TakeCookie(t)
    /\ Settle(t, TRUE)
    /\ UNCHANGED <<entering, changing, leaving, live, rows, counts, ended,
                   asked, left, outrun>>

\* A 401 opens the circuit and ends the session in this tab only.
Refused(t) ==
    /\ refreshing[t].answer \in {"refused", "rejected"} /\ refreshing[t].current
    /\ tab' = [tab EXCEPT ![t] = [ResetState(@) EXCEPT !.failures = MaxFailures]]
    /\ TakeCookie(t)
    /\ Settle(t, FALSE)
    /\ UNCHANGED <<entering, changing, leaving, channel, live, rows, counts,
                   ended, asked, left, outrun>>

\* Any other failure counts, a limited request for all that are left.
RefreshFailed(t) ==
    /\ refreshing[t].answer \in {"limited", "failed"} /\ refreshing[t].current
    /\ refreshing[t].stage = "answered"
    /\ LET failures == IF refreshing[t].answer = "limited" THEN MaxFailures
                       ELSE tab[t].failures + 1
       IN  /\ tab' = [tab EXCEPT ![t].failures = failures]
           /\ IF failures = MaxFailures
              THEN /\ refreshing' = [refreshing EXCEPT ![t].stage = "cleanup",
                                                       ![t].cookie = jar,
                                                       ![t].since = issued]
                   /\ asked' = TRUE
                   /\ UNCHANGED fetching
              ELSE Settle(t, FALSE) /\ UNCHANGED asked
    /\ UNCHANGED <<entering, changing, leaving, channel, server, counts,
                   ended, left, taker, outrun>>

\* The circuit's logout of the server, answered or not, then the reset: what
\* the tab holds by then is not looked at.
Expire(t) ==
    /\ refreshing[t].stage = "cleanup"
    /\ \/ /\ live' \in LoggedOut(refreshing[t].cookie)
          /\ jar' \in {jar, NoCookie}
       \/ UNCHANGED <<live, jar>>
    /\ tab' = [tab EXCEPT ![t] = ResetState(@)]
    /\ Settle(t, FALSE)
    /\ UNCHANGED <<entering, changing, leaving, channel, rows, counts, history>>

\* CIRCUIT_RESET_MS after the last failure.
CircuitTimer(t) ==
    /\ tab[t].failures = MaxFailures
    /\ tab' = [tab EXCEPT ![t].failures = 0]
    /\ UNCHANGED <<refreshing, calls, channel, server, counts, history>>

-----------------------------------------------------------------------------
(* Profile requests. *)

FetchUser(t) ==
    /\ fetching[t] = NoFetch /\ ~tab[t].closed /\ tab[t].auth
    /\ fetches < MaxFetches
    /\ fetches' = fetches + 1
    /\ fetching' = [fetching EXCEPT ![t] = [NoFetch EXCEPT !.stage = "sent",
                                                           !.sid = tab[t].token]]
    /\ UNCHANGED <<tab, refreshing, entering, changing, leaving, channel,
                   server, refreshes, exits, history>>

\* Headers are here: the request no longer aborts while its body is read.
FetchHeaders(t) ==
    /\ fetching[t].stage = "sent" /\ fetching[t].sid \in live
    /\ fetching' = [fetching EXCEPT ![t].stage = "body"]
    /\ UNCHANGED <<tab, refreshing, entering, changing, leaving, channel,
                   server, counts, history>>

FetchBody(t) ==
    /\ fetching[t].stage = "body"
    /\ tab' = [tab EXCEPT ![t].user = fetching[t].sid]
    /\ fetching' = [fetching EXCEPT ![t] = NoFetch]
    /\ UNCHANGED <<refreshing, entering, changing, leaving, channel, server,
                   counts, history>>

\* A 401: once per request, refresh and repeat.
FetchRefused(t) ==
    /\ fetching[t].stage = "sent"
    /\ IF CanRefresh(t) /\ ~fetching[t].again
       THEN /\ fetching' = [fetching EXCEPT ![t].stage = "refresh"]
            /\ ShareRefresh(t)
       ELSE /\ fetching' = [fetching EXCEPT ![t] = NoFetch]
            /\ UNCHANGED <<refreshing, refreshes>>
    /\ UNCHANGED <<tab, entering, changing, leaving, channel, server, fetches,
                   exits, history>>

-----------------------------------------------------------------------------
(* Messages of other tabs. *)

ApplySync(t, msg) ==
    /\ tab' = [tab EXCEPT ![t] =
           [user |-> msg.user, token |-> msg.token, auth |-> msg.auth,
            blocked |-> @.blocked /\ ~msg.auth, closed |-> ~msg.auth,
            failures |-> @.failures]]
    /\ left' = IF msg.auth THEN left \ {t} ELSE left
    /\ UNCHANGED <<refreshing, fetching, changing>>

HandleTabMessage(s, t) ==
    /\ channel[s][t] # <<>>
    /\ channel' = [channel EXCEPT ![s][t] = Tail(@)]
    /\ LET msg == Head(channel[s][t])
       IN  IF msg.type = "logout" THEN Close(t) /\ UNCHANGED left
           ELSE ApplySync(t, msg)
    /\ UNCHANGED <<entering, leaving, server, counts, ended, asked, taker,
                   outrun>>

Progress(t) ==
    \/ LoginAnswer(t) \/ SendLogout(t) \/ ServerLogout(t) \/ LogoutAnswer(t)
    \/ ChangePasswordAnswer(t) \/ ServerRefresh(t) \/ LimitRefresh(t)
    \/ RefreshLost(t) \/ RefreshAborted(t) \/ Refreshed(t) \/ Refused(t)
    \/ RefreshFailed(t) \/ Expire(t)
    \/ FetchHeaders(t) \/ FetchBody(t) \/ FetchRefused(t)
    \/ \E s \in Tabs : HandleTabMessage(s, t)

Next ==
    \/ \E t \in Tabs :
           \/ Login(t) \/ Logout(t) \/ LogoutFails(t) \/ ChangePassword(t)
           \/ Refresh(t) \/ CircuitTimer(t) \/ FetchUser(t) \/ Progress(t)
    \/ \E s \in live : WindowPasses(s)

Spec == Init /\ [][Next]_vars

-----------------------------------------------------------------------------
(* Properties. *)

\* "Prevent a refresh that started before logout from restoring [...]
\* in-memory state": a tab that a logout latched holds no session until a
\* login or another tab's sync reopens it (logout, _doRefresh,
\* handleTabMessage).
LatchedTabStaysOut ==
    \A t \in Tabs : tab[t].blocked => ~tab[t].auth /\ tab[t].token = 0

\* "However many there are, and in whatever order their responses land, [...]
\* none is mistaken for a stolen one": as long as nobody has logged out,
\* changed the password or run out of retries, the server ends a session only
\* if it was outrun: a token of it that the cookie, a request or an answer on
\* its way still held had been replaced when the next rotation, or the end of
\* the grace window, came.
RacesSpareSessions == ~asked => (1..issued) \ live \subseteq outrun

\* "... from restoring cookies": once a tab's logout is answered, the cookie
\* jar holds nothing this tab brought, whatever it had in flight when the
\* logout began (logout drains the pending refresh first).
LogoutClearsCookie ==
    \A t \in left : leaving[t] = NoLogout => jar = NoCookie \/ taker # {t}

\* "All open pages stay in sync": when all is quiet, no tab is signed in
\* with a session that a logout has ended.
Quiet ==
    /\ \A t \in Tabs :
           /\ refreshing[t].stage = "none" /\ fetching[t] = NoFetch
           /\ entering[t] = 0 /\ ~changing[t] /\ leaving[t] = NoLogout
    /\ \A s, t \in Tabs : channel[s][t] = <<>>
LogoutReachesAllTabs ==
    Quiet => \A t \in Tabs : tab[t].token \notin ended

\* "Logout - clears state": a latched tab shows no user.
LogoutClearsUser == \A t \in Tabs : tab[t].blocked => tab[t].user = 0

\* "Whatever opened the refresh circuit earlier is no longer true": a circuit
\* that opened before a login does not end the session of the login.
LoginOutlivesCircuit ==
    [][\A t \in Tabs :
          refreshing[t].stage = "cleanup" /\ refreshing'[t].stage = "none"
          /\ tab[t].token > refreshing[t].since
          => tab'[t].auth]_vars

=============================================================================
