----------------------------- MODULE WebClient -----------------------------
(***************************************************************************)
(* The web client's session: AuthContext (who the page shows as logged in) *)
(* and WebSocketContext (the page's websocket and its reconnects), in the  *)
(* tabs of one browser, against what the server answers them.              *)
(*                                                                         *)
(* A page is single-threaded: each action is one callback of it, with the  *)
(* microtasks that follow (what is set before the next await or render).   *)
(* React runs an effect some time after the state it depends on has        *)
(* changed; responses, timers and socket events come in any order.         *)
(***************************************************************************)
EXTENDS Naturals, FiniteSets

CONSTANTS Tabs,         \* the tabs of a browser; they share its cookie
          Users,
          MaxReconnectAttempts,
          MaxSessions,  \* bound: logins
          MaxCalls,     \* bound: requests in flight
          MaxSocks,     \* bound: websockets the browser has at once
          MaxFaults,    \* bound: failed requests and lost connections
          Ops,          \* bound: what may be done besides reconnecting
          None

ASSUME WebClientAssumption ==
  /\ None \notin Users /\ None \notin Nat
  /\ {MaxReconnectAttempts, MaxSessions, MaxCalls, MaxSocks, MaxFaults}
       \subseteq Nat
  /\ Ops \subseteq {"load", "login", "logout", "profile", "end"}

VARIABLES cookie,    \* the session that the browser's cookie is for, or 0
          who,       \* whose session each one is
          elsewhere, \* history: pages that were there when another tab logged in
          page,      \* the page in each tab
          calls,     \* requests in flight
          socks,     \* websockets
          faults,    \* bound: how much has failed
          muddled    \* history: pages that took something for what it was not

vars == <<cookie, who, elsewhere, page, calls, socks, faults, muddled>>

Sessions == 1 .. MaxSessions
Calls == 1 .. MaxCalls
Socks == 1 .. MaxSocks

Kinds == {"mount", "connect", "refresh", "profile", "login", "logout"}
Checks == {"mount", "connect", "refresh", "profile"}  \* POST /checkLogin

Page ==
  [auth: {"none", "loading", "ready"}, user: Users \cup {None},
   seen: Users \cup {None},          \* the user the effect has run for
   status: {"idle", "connecting", "open", "reconnecting", "closed"},
   ref: Socks \cup {0, None},        \* socketRef; 0 when that socket is dead
   expected: BOOLEAN,                \* expectedCloseRef
   attempts: 0 .. MaxReconnectAttempts,
   timer: BOOLEAN,                   \* the timer in reconnectTimeoutRef runs
   strays: 0 .. 1,                   \* timers that another has replaced there
   cancelled: BOOLEAN,               \* reconnectCancelledRef
   failed: BOOLEAN]                  \* history: a check of it was rejected

(* live: no cleanup since the request was made (in a "connect": the        *)
(* effect's own cancelled).                                                *)
Call ==
  [step: {"asked", "answered"}, kind: Kinds, tab: Tabs,
   as: Users \cup {None}, live: BOOLEAN, got: Sessions \cup {0}]
NoCall == [step |-> "free"]

(* step: readyState.  up: what became of it at the server. *)
Sock ==
  [step: {"dialing", "open", "closing"}, tab: Tabs, session: Sessions,
   up: {"asked", "refused", "up", "down"}]
NoSock == [step |-> "free"]

TypeOK ==
  /\ cookie \in Sessions \cup {0}
  /\ who \in [Sessions -> Users \cup {None}]
  /\ elsewhere \subseteq Tabs
  /\ page \in [Tabs -> Page]
  /\ calls \in [Calls -> Call \cup {NoCall}]
  /\ socks \in [Socks -> Sock \cup {NoSock}]
  /\ faults \in 0 .. MaxFaults
  /\ muddled \subseteq Tabs

Blank ==
  [auth |-> "none", user |-> None, seen |-> None, status |-> "idle",
   ref |-> None, expected |-> FALSE, attempts |-> 0, timer |-> FALSE,
   strays |-> 0, cancelled |-> FALSE, failed |-> FALSE]

(* A browser with no page of the program, whose cookie may be for a        *)
(* session.                                                                *)
Init ==
  /\ cookie \in {0, 1} \cap (Sessions \cup {0})
  /\ who \in [Sessions -> Users \cup {None}]
  /\ \A s \in Sessions : who[s] # None <=> s = cookie
  /\ elsewhere = {}
  /\ page = [t \in Tabs |-> Blank]
  /\ calls = [i \in Calls |-> NoCall]
  /\ socks = [k \in Socks |-> NoSock]
  /\ faults = 0
  /\ muddled = {}

UserOf(s) == IF s = 0 THEN None ELSE who[s]
server == <<cookie, who, elsewhere>>

Fault == faults < MaxFaults /\ faults' = faults + 1

(* Places are taken in order. *)
First(i, S) == i \in S /\ \A j \in S : i <= j
FreeCalls == {i \in Calls : calls[i] = NoCall}

NewCall(t, kind, u) ==
  [step |-> "asked", kind |-> kind, tab |-> t, as |-> u, live |-> TRUE, got |-> 0]

(* A request is made. *)
Begin(t, kind, u) ==
  \E i \in Calls :
    /\ First(i, FreeCalls)
    /\ calls' = [calls EXCEPT ![i] = NewCall(t, kind, u)]

End(i) == calls' = [calls EXCEPT ![i] = NoCall]

Has(t, kinds) == \E i \in Calls : calls[i] # NoCall /\ calls[i].tab = t /\ calls[i].kind \in kinds

-----------------------------------------------------------------------------
(* AuthContext                                                             *)

(* A tab opens the program: AuthProvider's effect. *)
Load(t) ==
  /\ "load" \in Ops
  /\ page[t].auth = "none"
  /\ cookie # 0 \/ "login" \in Ops
  /\ Begin(t, "mount", None)
  /\ page' = [page EXCEPT ![t].auth = "loading"]
  /\ UNCHANGED <<server, socks, faults, muddled>>

(* What a click acts on: React runs pending effects before it handles one. *)
Shows(t, u) == page[t].user = u /\ page[t].seen = u

(* The form takes one submission at a time. *)
Login(t, u) ==
  /\ "login" \in Ops
  /\ Shows(t, None)
  /\ page[t].auth = "ready"
  /\ ~Has(t, {"login"})
  /\ Begin(t, "login", u)
  /\ UNCHANGED <<server, page, socks, faults, muddled>>

Logout(t) ==
  /\ "logout" \in Ops
  /\ \E u \in Users : Shows(t, u)
  /\ Begin(t, "logout", None)
  /\ UNCHANGED <<server, page, socks, faults, muddled>>

(* ProfileForm has saved a profile and calls refresh. *)
SaveProfile(t) ==
  /\ "profile" \in Ops
  /\ \E u \in Users : Shows(t, u)
  /\ ~Has(t, {"profile"})
  /\ Begin(t, "profile", None)
  /\ UNCHANGED <<server, page, socks, faults, muddled>>

-----------------------------------------------------------------------------
(* The server's part                                                       *)

Ends(k) == socks[k] # NoSock /\ socks[k].up = "up"

(* The server closes its connections of the sessions in S. *)
CloseAt(S) ==
  socks' = [k \in Socks |->
    IF Ends(k) /\ socks[k].session \in S THEN [socks[k] EXCEPT !.up = "down"]
    ELSE socks[k]]

Answer(i, got) ==
  calls' = [calls EXCEPT ![i].step = "answered", ![i].got = got]

(* checkLogin mints a one-time password for the session of the cookie. *)
ServeCheckLogin(i) ==
  /\ calls[i].kind \in Checks
  /\ Answer(i, cookie)
  /\ UNCHANGED <<server, socks>>

(* serveLogin replaces the sessions the user has. *)
ServeLogin(i) ==
  /\ calls[i].kind = "login"
  /\ \E s \in Sessions :
       /\ First(s, {r \in Sessions : who[r] = None})
       /\ cookie' = s
       /\ who' = [who EXCEPT ![s] = calls[i].as]
       /\ elsewhere' = elsewhere \cup {t \in Tabs \ {calls[i].tab} : page[t].auth # "none"}
       /\ CloseAt({r \in Sessions : who[r] = calls[i].as})
       /\ Answer(i, s)

ServeLogout(i) ==
  /\ calls[i].kind = "logout"
  /\ cookie' = 0
  /\ CloseAt({cookie})
  /\ Answer(i, 0)
  /\ UNCHANGED <<who, elsewhere>>

Serve(i) ==
  /\ calls[i] # NoCall
  /\ calls[i].step = "asked"
  /\ ServeCheckLogin(i) \/ ServeLogin(i) \/ ServeLogout(i)
  /\ UNCHANGED <<page, faults, muddled>>

(* The session ends without the page: a ban, a login elsewhere, the sweep. *)
EndSession ==
  /\ "end" \in Ops
  /\ cookie # 0
  /\ cookie' = 0
  /\ CloseAt({cookie})
  /\ UNCHANGED <<who, elsewhere, page, calls, faults, muddled>>

(* ServeWS: the password is for the session of the cookie; the connection  *)
(* that the session has had is closed.                                     *)
Accept(k) ==
  /\ socks[k] # NoSock
  /\ socks[k].up = "asked"
  /\ socks[k].session = cookie
  /\ socks' = [j \in Socks |->
       IF j = k THEN [socks[k] EXCEPT !.up = "up"]
       ELSE IF Ends(j) /\ socks[j].session = cookie
       THEN [socks[j] EXCEPT !.up = "down"] ELSE socks[j]]
  /\ UNCHANGED <<server, page, calls, faults, muddled>>

(* Another session, or none; or the password has expired, or the network   *)
(* fails.                                                                  *)
Refuse(k) ==
  /\ socks[k] # NoSock
  /\ socks[k].up = "asked"
  /\ IF socks[k].session = cookie THEN Fault ELSE UNCHANGED faults
  /\ socks' = [socks EXCEPT ![k].up = "refused"]
  /\ UNCHANGED <<server, page, calls, muddled>>

(* A connection is lost. *)
Drop(k) ==
  /\ Ends(k)
  /\ socks[k].step = "open"
  /\ Fault
  /\ socks' = [socks EXCEPT ![k].up = "down"]
  /\ UNCHANGED <<server, page, calls, muddled>>

-----------------------------------------------------------------------------
(* WebSocketContext                                                        *)

SetPage(t, p) == page' = [page EXCEPT ![t] = p]

(* openConnection, from a page that is otherwise p. *)
OpenConnection(t, s, p) ==
  \E k \in Socks :
    /\ First(k, {j \in Socks : socks[j] = NoSock})
    /\ socks' = [socks EXCEPT ![k] =
         [step |-> "dialing", tab |-> t, session |-> s, up |-> "asked"]]
    /\ SetPage(t, [p EXCEPT !.ref = k])

(* The socket's onopen *)
OnOpen(k) ==
  /\ socks[k] # NoSock
  /\ socks[k].step = "dialing"
  /\ socks[k].up \in {"up", "down"}
  /\ socks' = [socks EXCEPT ![k].step = "open"]
  /\ LET t == socks[k].tab IN
     SetPage(t, [page[t] EXCEPT !.attempts = 0, !.status = "open"])
  /\ UNCHANGED <<server, calls, faults, muddled>>

AttemptReconnect(p) ==
  IF p.attempts = MaxReconnectAttempts THEN p
  ELSE [p EXCEPT !.attempts = @ + 1, !.timer = TRUE,
                 !.strays = IF p.timer THEN @ + 1 ELSE @]

(* The socket's onclose *)
Closed(p) ==
  IF p.expected THEN [p EXCEPT !.expected = FALSE, !.status = "closed"]
  ELSE AttemptReconnect([p EXCEPT !.status = "reconnecting"])

OnClose(k) ==
  /\ socks[k] # NoSock
  /\ \/ socks[k].step = "closing"
     \/ socks[k].step = "dialing" /\ socks[k].up = "refused"
     \/ socks[k].step = "open" /\ socks[k].up = "down"
  /\ LET t == socks[k].tab
         p == page[t] IN
       /\ p.timer => p.strays = 0
       /\ SetPage(t, [Closed(p) EXCEPT !.ref = IF @ = k THEN 0 ELSE @])
       /\ muddled' = IF p.expected <=> socks[k].step = "closing" THEN muddled
                     ELSE muddled \cup {t}
  /\ socks' = [socks EXCEPT ![k] = NoSock]
  /\ UNCHANGED <<server, calls, faults>>

(* A backoff is over. *)
Fire(t) ==
  /\ \/ page[t].timer /\ SetPage(t, [page[t] EXCEPT !.timer = FALSE])
     \/ page[t].strays > 0 /\ SetPage(t, [page[t] EXCEPT !.strays = @ - 1])
  /\ Begin(t, "refresh", None)
  /\ UNCHANGED <<server, socks, faults, muddled>>

(* Faulty: leaves the timer. *)
CleanupButTimer(p) ==
  IF p.seen = None THEN p
  ELSE [p EXCEPT !.cancelled = TRUE,
                 !.expected = IF p.ref = None THEN @ ELSE TRUE, !.ref = None]

(* The cleanup of the effect that ran for page[t].seen: what becomes of    *)
(* the page,                                                               *)
Cleanup(p) ==
  IF p.seen = None THEN p
  ELSE [p EXCEPT !.cancelled = TRUE, !.timer = FALSE,
                 !.expected = IF p.ref = None THEN @ ELSE TRUE, !.ref = None]

(* of its requests and of its sockets. *)
CleanupCalls(t) ==
  [i \in Calls |->
     IF calls[i] # NoCall /\ calls[i].tab = t /\ page[t].seen # None
     THEN [calls[i] EXCEPT !.live = FALSE] ELSE calls[i]]

CleanupSocks(t) ==
  socks' = [k \in Socks |->
     IF socks[k] # NoSock /\ page[t].ref = k /\ page[t].seen # None
     THEN [socks[k] EXCEPT !.step = "closing"] ELSE socks[k]]

(* Faulty: reconnects stay cancelled. *)
SetupCancelled(p) ==
  IF p.user = None THEN [p EXCEPT !.status = "idle", !.seen = None]
  ELSE [p EXCEPT !.status = "connecting", !.seen = p.user]

(* The effect runs for the user there is now. *)
Setup(p) ==
  IF p.user = None THEN [p EXCEPT !.status = "idle", !.seen = None]
  ELSE [p EXCEPT !.status = "connecting", !.seen = p.user, !.cancelled = FALSE]

Effect(t) ==
  /\ page[t].user # page[t].seen
  /\ SetPage(t, Setup(Cleanup(page[t])))
  /\ CleanupSocks(t)
  /\ IF page[t].user = None THEN calls' = CleanupCalls(t)
     ELSE \E i \in Calls :
            /\ First(i, FreeCalls)
            /\ calls' = [CleanupCalls(t) EXCEPT ![i] = NewCall(t, "connect", None)]
  /\ UNCHANGED <<server, faults, muddled>>

-----------------------------------------------------------------------------
(* The answers                                                             *)

SetUser(i) == [page[calls[i].tab] EXCEPT !.user = UserOf(calls[i].got)]

(* An answer from before a cleanup is used after it. *)
Muddles(i) ==
  muddled' = IF calls[i].live THEN muddled ELSE muddled \cup {calls[i].tab}

Mounted(i) ==
  /\ calls[i].kind = "mount"
  /\ SetPage(calls[i].tab, [SetUser(i) EXCEPT !.auth = "ready"])
  /\ UNCHANGED <<socks, muddled>>

LoggedIn(i) ==
  /\ calls[i].kind \in {"login", "logout"}
  /\ SetPage(calls[i].tab, SetUser(i))
  /\ UNCHANGED <<socks, muddled>>

Refreshed(i) ==
  /\ calls[i].kind = "profile"
  /\ SetPage(calls[i].tab, SetUser(i))
  /\ Muddles(i)
  /\ UNCHANGED socks

(* Faulty: the effect has no cancelled of its own. *)
ConnectAnyway(i) ==
  /\ calls[i].kind = "connect"
  /\ LET t == calls[i].tab IN
     IF calls[i].got # 0
     THEN OpenConnection(t, calls[i].got, page[t])
     ELSE UNCHANGED <<page, socks>>
  /\ UNCHANGED muddled

(* checkLogin in the effect *)
Connect(i) ==
  /\ calls[i].kind = "connect"
  /\ LET t == calls[i].tab IN
     IF calls[i].live /\ calls[i].got # 0
     THEN OpenConnection(t, calls[i].got, page[t])
     ELSE UNCHANGED <<page, socks>>
  /\ UNCHANGED muddled

(* Faulty: no reconnectCancelledRef. *)
ReconnectAnyway(i) ==
  /\ calls[i].kind = "refresh"
  /\ LET t == calls[i].tab IN
     IF calls[i].got # 0
     THEN OpenConnection(t, calls[i].got, SetUser(i))
     ELSE SetPage(t, SetUser(i)) /\ UNCHANGED socks
  /\ Muddles(i)

(* refresh in attemptReconnect: setUser, and then the rest. *)
Reconnect(i) ==
  /\ calls[i].kind = "refresh"
  /\ LET t == calls[i].tab IN
     IF ~page[t].cancelled /\ calls[i].got # 0
     THEN OpenConnection(t, calls[i].got, SetUser(i))
     ELSE SetPage(t, SetUser(i)) /\ UNCHANGED socks
  /\ Muddles(i)

Deliver(i) ==
  /\ calls[i] # NoCall
  /\ calls[i].step = "answered"
  /\ End(i)
  /\ Mounted(i) \/ LoggedIn(i) \/ Refreshed(i) \/ Connect(i) \/ Reconnect(i)
  /\ UNCHANGED <<server, faults>>

(* A request fails, on its way there or back: only AuthProvider's effect   *)
(* has a catch that matters.                                               *)
Fail(i) ==
  /\ calls[i] # NoCall
  /\ Fault
  /\ End(i)
  /\ LET t == calls[i].tab IN
     SetPage(t, IF calls[i].kind = "mount"
                THEN [page[t] EXCEPT !.user = None, !.auth = "ready"]
                ELSE [page[t] EXCEPT !.failed = @ \/ calls[i].kind \in Checks])
  /\ UNCHANGED <<server, socks, muddled>>

-----------------------------------------------------------------------------
Browser ==
  \/ \E t \in Tabs : Load(t) \/ Fire(t) \/ Effect(t)
  \/ \E i \in Calls : Serve(i) \/ Deliver(i)
  \/ \E k \in Socks : Accept(k) \/ OnOpen(k) \/ OnClose(k)

Next ==
  \/ Browser
  \/ \E t \in Tabs : Logout(t) \/ SaveProfile(t) \/ \E u \in Users : Login(t, u)
  \/ \E k \in Socks : Refuse(k) \/ Drop(k)
  \/ \E i \in Calls : Fail(i)
  \/ EndSession

Spec == Init /\ [][Next]_vars /\ WF_vars(Browser)
-----------------------------------------------------------------------------
Alive(k, t) ==
  socks[k] # NoSock /\ socks[k].tab = t /\ socks[k].step \in {"dialing", "open"}

(* WebSocketContext.tsx:32-44: no page opens a websocket once its effect   *)
(* has cleaned up after a logout, whatever timers and requests are left.   *)
NoSocketAfterLogout ==
  [][\A k \in Socks, t \in Tabs :
       (~Alive(k, t) /\ Alive(k, t)') => page[t].seen # None]_vars

(* WebSocketContext.tsx:32-37: a page has one websocket, the one that the  *)
(* next cleanup closes; unless an answer from before a cleanup was used    *)
(* after it, or the close of another socket was taken for its close.       *)
OneSocket ==
  \A t \in Tabs \ muddled : \A k \in Socks : Alive(k, t) => page[t].ref = k

(* WebSocketContext.tsx:148-165: the websocket is of a session of the user *)
(* that the page shows, with the same exceptions, unless another tab has   *)
(* logged in: the check of a page says whom the browser's cookie is for.   *)
SocketIsMine ==
  \A t \in Tabs \ (muddled \cup elsewhere) : \A k \in Socks :
    Alive(k, t) /\ page[t].user = page[t].seen =>
      who[socks[k].session] = page[t].user

(* WebSocketContext.tsx:124-142: a page that says it is reconnecting, and  *)
(* whose session goes on, has something under way or has tried often       *)
(* enough; or a check of it was rejected, which attemptReconnect does not  *)
(* catch.  The exceptions are the same: a login may put back the user that *)
(* a check has just taken away before the effect has seen it gone, and one *)
(* in another tab may make good the cookie that the check found ended.     *)
StuckOnlyByFailure ==
  \A t \in Tabs \ (muddled \cup elsewhere) :
    /\ page[t].status = "reconnecting"
    /\ page[t].user = page[t].seen
    /\ cookie # 0 /\ who[cookie] = page[t].user
    /\ ~page[t].failed
    => \/ page[t].timer
       \/ page[t].attempts = MaxReconnectAttempts
       \/ Has(t, {"refresh", "connect"})
       \/ \E k \in Socks : Alive(k, t)

(* handlers.go:523-533: the tabs of a session do not close each other's    *)
(* connections for ever.                                                   *)
TabsSettle == <>[](\A t \in Tabs : page[t].status # "reconnecting")
=============================================================================
