-------------------------- MODULE WebClientProofs --------------------------
(***************************************************************************)
(* Theorems about WebClient, for every value of its constants: any number  *)
(* of tabs on one cookie, of users, requests, websockets and faults.       *)
(***************************************************************************)
EXTENDS WebClient, TLAPS

-----------------------------------------------------------------------------
(* Type correctness. *)

LEMMA CallsAreTold == NoCall \notin Call
BY DEF NoCall, Call

LEMMA SocksAreTold == NoSock \notin Sock
BY DEF NoSock, Sock

(* A request that is in one of the places is one. *)
LEMMA CallType ==
  ASSUME TypeOK, NEW i \in Calls, calls[i] # NoCall
  PROVE  calls[i] \in Call
BY DEF TypeOK

LEMMA SockType ==
  ASSUME TypeOK, NEW k \in Socks, socks[k] # NoSock
  PROVE  socks[k] \in Sock
BY DEF TypeOK

LEMMA SetPageTyped ==
  ASSUME TypeOK, NEW t \in Tabs, NEW p \in Page, SetPage(t, p)
  PROVE  page' \in [Tabs -> Page]
BY DEF TypeOK, SetPage

LEMMA OnePageSet ==
  ASSUME TypeOK, NEW t \in Tabs, NEW p, SetPage(t, p)
  PROVE  page'[t] = p /\ \A r \in Tabs \ {t} : page'[r] = page[r]
BY DEF TypeOK, SetPage

LEMMA NewCallTyped ==
  ASSUME NEW t \in Tabs, NEW kind \in Kinds, NEW u \in Users \cup {None}
  PROVE  NewCall(t, kind, u) \in Call /\ NewCall(t, kind, u) # NoCall
BY DEF NewCall, Call, NoCall

LEMMA BeginTyped ==
  ASSUME TypeOK, NEW t \in Tabs, NEW kind \in Kinds, NEW u \in Users \cup {None},
         Begin(t, kind, u)
  PROVE  calls' \in [Calls -> Call \cup {NoCall}]
BY NewCallTyped DEF TypeOK, Begin, First

LEMMA EndTyped ==
  ASSUME TypeOK, NEW i \in Calls, End(i)
  PROVE  calls' \in [Calls -> Call \cup {NoCall}]
BY DEF TypeOK, End

LEMMA CloseAtTyped ==
  ASSUME TypeOK, NEW S, CloseAt(S)
  PROVE  socks' \in [Socks -> Sock \cup {NoSock}]
<1>1. \A k \in Socks : Ends(k) => [socks[k] EXCEPT !.up = "down"] \in Sock
  BY SockType DEF Ends, Sock
<1> QED
  BY <1>1 DEF CloseAt, TypeOK

LEMMA AnswerTyped ==
  ASSUME TypeOK, NEW i \in Calls, calls[i] # NoCall, NEW got \in Sessions \cup {0},
         Answer(i, got)
  PROVE  calls' \in [Calls -> Call \cup {NoCall}]
<1>1. [calls[i] EXCEPT !.step = "answered", !.got = got] \in Call
  BY CallType DEF Call
<1> QED
  BY <1>1 DEF Answer, TypeOK

LEMMA OpenTyped ==
  ASSUME TypeOK, NEW t \in Tabs, NEW s \in Sessions, NEW p \in Page,
         OpenConnection(t, s, p)
  PROVE  /\ page' \in [Tabs -> Page]
         /\ socks' \in [Socks -> Sock \cup {NoSock}]
<1>1. PICK k \in Socks :
        /\ socks' = [socks EXCEPT ![k] =
             [step |-> "dialing", tab |-> t, session |-> s, up |-> "asked"]]
        /\ SetPage(t, [p EXCEPT !.ref = k])
  BY DEF OpenConnection
<1>2. [p EXCEPT !.ref = k] \in Page
  BY DEF Page
<1>3. [step |-> "dialing", tab |-> t, session |-> s, up |-> "asked"] \in Sock
  BY DEF Sock
<1> QED
  BY <1>1, <1>2, <1>3, SetPageTyped DEF TypeOK

LEMMA UserOfType ==
  ASSUME TypeOK, NEW s \in Sessions \cup {0}
  PROVE  UserOf(s) \in Users \cup {None}
BY DEF UserOf, TypeOK

LEMMA InitTyped == Init => TypeOK
BY WebClientAssumption DEF Init, TypeOK, Blank, Page, Sessions

(* What the user and the server do. *)
LEMMA LoadTyped ==
  ASSUME TypeOK, NEW t \in Tabs, Load(t)
  PROVE  TypeOK'
<1>1. calls' \in [Calls -> Call \cup {NoCall}]
  BY BeginTyped DEF Load, Kinds
<1>2. page' \in [Tabs -> Page]
  BY DEF Load, TypeOK, Page
<1> QED
  BY <1>1, <1>2 DEF Load, TypeOK, server

LEMMA ClickTyped ==
  ASSUME TypeOK, NEW t \in Tabs,
         Logout(t) \/ SaveProfile(t) \/ \E u \in Users : Login(t, u)
  PROVE  TypeOK'
<1>1. calls' \in [Calls -> Call \cup {NoCall}]
  BY BeginTyped DEF Logout, SaveProfile, Login, Kinds
<1> QED
  BY <1>1 DEF Logout, SaveProfile, Login, TypeOK, server

LEMMA ServeTyped ==
  ASSUME TypeOK, NEW i \in Calls, Serve(i)
  PROVE  TypeOK'
<1>0. calls[i] \in Call
  BY CallType DEF Serve
<1>1. CASE ServeCheckLogin(i)
  <2>1. calls' \in [Calls -> Call \cup {NoCall}]
    BY <1>1, AnswerTyped DEF Serve, ServeCheckLogin, TypeOK
  <2> QED
    BY <1>1, <2>1 DEF Serve, ServeCheckLogin, TypeOK, server
<1>2. CASE ServeLogin(i)
  <2>1. PICK s \in Sessions :
          /\ cookie' = s
          /\ who' = [who EXCEPT ![s] = calls[i].as]
          /\ elsewhere' = elsewhere \cup {t \in Tabs \ {calls[i].tab} : page[t].auth # "none"}
          /\ CloseAt({r \in Sessions : who[r] = calls[i].as})
          /\ Answer(i, s)
    BY <1>2 DEF ServeLogin
  <2>2. calls' \in [Calls -> Call \cup {NoCall}]
    BY <2>1, AnswerTyped DEF Serve
  <2>3. socks' \in [Socks -> Sock \cup {NoSock}]
    BY <2>1, CloseAtTyped
  <2>4. who' \in [Sessions -> Users \cup {None}]
    BY <1>0, <2>1 DEF TypeOK, Call
  <2> QED
    BY <2>1, <2>2, <2>3, <2>4 DEF Serve, TypeOK
<1>3. CASE ServeLogout(i)
  <2>1. calls' \in [Calls -> Call \cup {NoCall}]
    BY <1>3, AnswerTyped DEF Serve, ServeLogout
  <2>2. socks' \in [Socks -> Sock \cup {NoSock}]
    BY <1>3, CloseAtTyped DEF ServeLogout
  <2> QED
    BY <1>3, <2>1, <2>2 DEF Serve, ServeLogout, TypeOK
<1> QED
  BY <1>1, <1>2, <1>3 DEF Serve

LEMMA FaultTyped ==
  ASSUME TypeOK, Fault
  PROVE  faults' \in 0 .. MaxFaults
BY WebClientAssumption DEF Fault, TypeOK

LEMMA NetworkTyped ==
  ASSUME TypeOK,
         EndSession \/ \E k \in Socks : Accept(k) \/ Refuse(k) \/ Drop(k)
  PROVE  TypeOK'
<1>1. CASE EndSession
  <2>1. socks' \in [Socks -> Sock \cup {NoSock}]
    BY <1>1, CloseAtTyped DEF EndSession
  <2> QED
    BY <1>1, <2>1 DEF EndSession, TypeOK
<1>2. ASSUME NEW k \in Socks, Accept(k) PROVE TypeOK'
  <2>1. \A j \in Socks : socks[j] # NoSock =>
          \A up \in {"asked", "refused", "up", "down"} : [socks[j] EXCEPT !.up = up] \in Sock
    BY SockType DEF Sock
  <2>2. socks' \in [Socks -> Sock \cup {NoSock}]
    BY <1>2, <2>1 DEF Accept, Ends, TypeOK
  <2> QED
    BY <1>2, <2>2 DEF Accept, TypeOK, server
<1>3. ASSUME NEW k \in Socks, Refuse(k) \/ Drop(k) PROVE TypeOK'
  <2>1. \A up \in {"asked", "refused", "up", "down"} : [socks[k] EXCEPT !.up = up] \in Sock
    BY <1>3, SockType DEF Refuse, Drop, Ends, Sock
  <2>2. socks' \in [Socks -> Sock \cup {NoSock}]
    BY <1>3, <2>1 DEF Refuse, Drop, TypeOK
  <2>3. faults' \in 0 .. MaxFaults
    BY <1>3, FaultTyped DEF Refuse, Drop, TypeOK
  <2> QED
    BY <1>3, <2>2, <2>3 DEF Refuse, Drop, TypeOK, server
<1> QED
  BY <1>1, <1>2, <1>3

(* What the page does of itself. *)
LEMMA SocketEventTyped ==
  ASSUME TypeOK, NEW k \in Socks, OnOpen(k) \/ OnClose(k)
  PROVE  TypeOK'
<1> DEFINE t == socks[k].tab
           p == page[t]
<1>1. socks[k] \in Sock
  BY SockType DEF OnOpen, OnClose
<1>2. t \in Tabs /\ p \in Page
  BY <1>1 DEF Sock, TypeOK
<1>3. CASE OnOpen(k)
  <2>0. 0 \in 0 .. MaxReconnectAttempts
    BY WebClientAssumption
  <2>1. [p EXCEPT !.attempts = 0, !.status = "open"] \in Page
    BY <1>2, <2>0 DEF Page
  <2>2. [socks[k] EXCEPT !.step = "open"] \in Sock
    BY <1>1 DEF Sock
  <2>3. page' \in [Tabs -> Page]
    BY <1>2, <1>3, <2>1, SetPageTyped DEF OnOpen
  <2> QED
    BY <1>3, <2>2, <2>3 DEF OnOpen, TypeOK, server
<1>4. CASE OnClose(k)
  <2>1. p.timer => p.strays = 0
    BY <1>4 DEF OnClose
  <2>2. p.attempts + 1 \in 0 .. MaxReconnectAttempts \/ p.attempts = MaxReconnectAttempts
    BY <1>2, WebClientAssumption DEF Page
  <2>3. Closed(p) \in Page
    <3>1. [p EXCEPT !.expected = FALSE, !.status = "closed"] \in Page
      BY <1>2 DEF Page
    <3> DEFINE q == [p EXCEPT !.status = "reconnecting"]
    <3>2. q \in Page /\ q.attempts = p.attempts /\ q.timer = p.timer /\ q.strays = p.strays
      BY <1>2 DEF Page
    <3>3. (IF q.timer THEN q.strays + 1 ELSE q.strays) \in 0 .. 1
      BY <2>1, <3>2 DEF Page
    <3>4. q.attempts # MaxReconnectAttempts =>
            [q EXCEPT !.attempts = @ + 1, !.timer = TRUE,
                      !.strays = IF q.timer THEN @ + 1 ELSE @] \in Page
      BY <2>2, <3>2, <3>3 DEF Page
    <3>5. AttemptReconnect(q) \in Page
      BY <3>2, <3>4 DEF AttemptReconnect
    <3> QED
      BY <3>1, <3>5 DEF Closed
  <2>4. [Closed(p) EXCEPT !.ref = IF @ = k THEN 0 ELSE @] \in Page
    BY <2>3 DEF Page
  <2>5. page' \in [Tabs -> Page]
    BY <1>2, <1>4, <2>4, SetPageTyped DEF OnClose
  <2>6. muddled' \subseteq Tabs
    BY <1>2, <1>4 DEF OnClose, TypeOK
  <2> QED
    BY <1>4, <2>5, <2>6 DEF OnClose, TypeOK, server
<1> QED
  BY <1>3, <1>4

LEMMA FireTyped ==
  ASSUME TypeOK, NEW t \in Tabs, Fire(t)
  PROVE  TypeOK'
<1>1. calls' \in [Calls -> Call \cup {NoCall}]
  BY BeginTyped DEF Fire, Kinds
<1>2. page[t] \in Page
  BY DEF TypeOK
<1>3. [page[t] EXCEPT !.timer = FALSE] \in Page
  BY <1>2 DEF Page
<1>4. page[t].strays > 0 => [page[t] EXCEPT !.strays = @ - 1] \in Page
  BY <1>2 DEF Page
<1>5. page' \in [Tabs -> Page]
  BY <1>3, <1>4, SetPageTyped DEF Fire
<1> QED
  BY <1>1, <1>5 DEF Fire, TypeOK, server

LEMMA EffectTyped ==
  ASSUME TypeOK, NEW t \in Tabs, Effect(t)
  PROVE  TypeOK'
<1>1. page[t] \in Page
  BY DEF TypeOK
<1>2. Cleanup(page[t]) \in Page
  BY <1>1 DEF Cleanup, Page
<1>3. Setup(Cleanup(page[t])) \in Page
  BY <1>2 DEF Setup, Page
<1>4. page' \in [Tabs -> Page]
  BY <1>3, SetPageTyped DEF Effect
<1>5. CleanupCalls(t) \in [Calls -> Call \cup {NoCall}]
  <2>1. \A i \in Calls : calls[i] # NoCall => [calls[i] EXCEPT !.live = FALSE] \in Call
    BY CallType DEF Call
  <2> QED
    BY <2>1 DEF CleanupCalls, TypeOK
<1>6. calls' \in [Calls -> Call \cup {NoCall}]
  BY <1>5, NewCallTyped DEF Effect, First, FreeCalls, Kinds
<1>7. socks' \in [Socks -> Sock \cup {NoSock}]
  <2>1. \A k \in Socks : socks[k] # NoSock => [socks[k] EXCEPT !.step = "closing"] \in Sock
    BY SockType DEF Sock
  <2> QED
    BY <2>1 DEF Effect, CleanupSocks, TypeOK
<1> QED
  BY <1>4, <1>6, <1>7 DEF Effect, TypeOK, server

LEMMA DeliverTyped ==
  ASSUME TypeOK, NEW i \in Calls, Deliver(i)
  PROVE  TypeOK'
<1> DEFINE t == calls[i].tab
           got == calls[i].got
<1>1. calls[i] \in Call
  BY CallType DEF Deliver
<1>2. t \in Tabs /\ got \in Sessions \cup {0} /\ page[t] \in Page
  BY <1>1 DEF Call, TypeOK
<1>3. SetUser(i) \in Page
  BY <1>2, UserOfType DEF SetUser, Page
<1>4. [SetUser(i) EXCEPT !.auth = "ready"] \in Page
  BY <1>3 DEF Page
<1>5. calls' \in [Calls -> Call \cup {NoCall}]
  BY EndTyped DEF Deliver
<1>6. page' \in [Tabs -> Page] /\ socks' \in [Socks -> Sock \cup {NoSock}]
  <2>1. CASE Mounted(i) \/ LoggedIn(i) \/ Refreshed(i)
    BY <1>2, <1>3, <1>4, <2>1, SetPageTyped DEF Mounted, LoggedIn, Refreshed, TypeOK
  <2>2. CASE Connect(i)
    <3>1. CASE calls[i].live /\ got # 0
      BY <1>2, <2>2, <3>1, OpenTyped DEF Connect
    <3> QED
      BY <2>2, <3>1 DEF Connect, TypeOK
  <2>3. CASE Reconnect(i)
    <3>1. CASE ~page[t].cancelled /\ got # 0
      BY <1>2, <1>3, <2>3, <3>1, OpenTyped DEF Reconnect
    <3> QED
      BY <1>2, <1>3, <2>3, <3>1, SetPageTyped DEF Reconnect, TypeOK
  <2> QED
    BY <2>1, <2>2, <2>3 DEF Deliver
<1>7. muddled' \subseteq Tabs
  BY <1>2 DEF Deliver, Mounted, LoggedIn, Refreshed, Connect, Reconnect, Muddles, TypeOK
<1> QED
  BY <1>5, <1>6, <1>7 DEF Deliver, TypeOK, server

LEMMA FailTyped ==
  ASSUME TypeOK, NEW i \in Calls, Fail(i)
  PROVE  TypeOK'
<1>1. calls[i].tab \in Tabs
  BY CallType DEF Fail, Call
<1>2. page[calls[i].tab] \in Page
  BY <1>1 DEF TypeOK
<1>3. page' \in [Tabs -> Page]
  <2>1. [page[calls[i].tab] EXCEPT !.user = None, !.auth = "ready"] \in Page
    BY <1>2 DEF Page
  <2>2. [page[calls[i].tab] EXCEPT !.failed = @ \/ calls[i].kind \in Checks] \in Page
    BY <1>2 DEF Page
  <2> QED
    BY <1>1, <2>1, <2>2, SetPageTyped DEF Fail
<1>4. faults' \in 0 .. MaxFaults
  BY FaultTyped DEF Fail
<1> QED
  BY <1>3, <1>4, EndTyped DEF Fail, TypeOK, server

LEMMA NextTyped == TypeOK /\ [Next]_vars => TypeOK'
<1> SUFFICES ASSUME TypeOK, [Next]_vars PROVE TypeOK'
  OBVIOUS
<1>1. CASE Browser
  BY <1>1, LoadTyped, FireTyped, EffectTyped, ServeTyped, DeliverTyped, NetworkTyped,
     SocketEventTyped DEF Browser
<1>2. CASE UNCHANGED vars
  BY <1>2 DEF vars, TypeOK
<1> QED
  BY <1>1, <1>2, ClickTyped, NetworkTyped, FailTyped DEF Next

(* Every reachable state is well-typed. *)
THEOREM TypeCorrect == Spec => []TypeOK
BY InitTyped, NextTyped, PTL DEF Spec

-----------------------------------------------------------------------------
(* What goes on for a page.                                                *)

(* A request whose answer may open a websocket, *)
Tries(i, t) ==
  /\ calls[i] # NoCall
  /\ calls[i].tab = t
  /\ calls[i].kind \in {"connect", "refresh"}

(* one that no cleanup came after. *)
Works(i, t) == Tries(i, t) /\ calls[i].live

(* A step that begins and ends nothing of this: at most an attempt is      *)
(* given up or a connection opens.                                         *)
SameWork ==
  /\ muddled \subseteq muddled'
  /\ \A t \in Tabs :
       /\ page'[t].seen = page[t].seen
       /\ page'[t].cancelled = page[t].cancelled
       /\ page'[t].timer = page[t].timer
       /\ page'[t].strays = page[t].strays
       /\ page'[t].ref = page[t].ref
  /\ \A i \in Calls, t \in Tabs : Tries(i, t)' =>
       /\ Tries(i, t)
       /\ calls'[i].kind = calls[i].kind
       /\ calls'[i].live = calls[i].live
  /\ \A k \in Socks : socks'[k] # NoSock =>
       /\ socks[k] # NoSock
       /\ socks'[k].tab = socks[k].tab
       /\ socks[k].step = "closing" => socks'[k].step = "closing"

LEMMA BeginsOther ==
  ASSUME TypeOK, NEW t \in Tabs, NEW kind \in Kinds \ {"connect", "refresh"},
         NEW u \in Users \cup {None}, Begin(t, kind, u)
  PROVE  \A i \in Calls, r \in Tabs : Tries(i, r)' => Tries(i, r) /\ calls'[i] = calls[i]
BY DEF Begin, First, FreeCalls, NewCall, Tries, TypeOK

LEMMA EndsOne ==
  ASSUME TypeOK, NEW i \in Calls, End(i)
  PROVE  /\ calls'[i] = NoCall
         /\ \A j \in Calls \ {i} : calls'[j] = calls[j]
BY DEF End, TypeOK

LEMMA AnswersSame ==
  ASSUME TypeOK, NEW i \in Calls, calls[i] # NoCall, NEW got \in Sessions \cup {0},
         Answer(i, got)
  PROVE  \A j \in Calls, t \in Tabs : Tries(j, t)' =>
           /\ Tries(j, t)
           /\ calls'[j].kind = calls[j].kind
           /\ calls'[j].live = calls[j].live
BY CallType DEF Answer, Tries, TypeOK, Call

LEMMA ClosesSame ==
  ASSUME TypeOK, NEW S, CloseAt(S)
  PROVE  \A k \in Socks : socks'[k] # NoSock =>
           /\ socks[k] # NoSock
           /\ socks'[k].tab = socks[k].tab
           /\ socks'[k].step = socks[k].step
BY SockType DEF CloseAt, Ends, Sock

LEMMA ClickIsSame ==
  ASSUME TypeOK, NEW t \in Tabs,
         Load(t) \/ Logout(t) \/ SaveProfile(t) \/ \E u \in Users : Login(t, u)
  PROVE  SameWork
<1>1. \A r \in Tabs : /\ page'[r].seen = page[r].seen
                      /\ page'[r].cancelled = page[r].cancelled
                      /\ page'[r].timer = page[r].timer
                      /\ page'[r].strays = page[r].strays
                      /\ page'[r].ref = page[r].ref
  BY DEF Load, Logout, SaveProfile, Login, TypeOK, Page
<1>2. \A i \in Calls, r \in Tabs : Tries(i, r)' => Tries(i, r) /\ calls'[i] = calls[i]
  BY BeginsOther DEF Load, Logout, SaveProfile, Login, Kinds
<1> QED
  BY <1>1, <1>2 DEF Load, Logout, SaveProfile, Login, SameWork

LEMMA ServeIsSame ==
  ASSUME TypeOK, NEW i \in Calls, Serve(i)
  PROVE  SameWork
<1>1. PICK got \in Sessions \cup {0} : Answer(i, got)
  BY DEF Serve, ServeCheckLogin, ServeLogin, ServeLogout, TypeOK
<1>2. UNCHANGED socks \/ \E S : CloseAt(S)
  BY DEF Serve, ServeCheckLogin, ServeLogin, ServeLogout
<1> QED
  BY <1>1, <1>2, AnswersSame, ClosesSame DEF Serve, SameWork

LEMMA NetworkIsSame ==
  ASSUME TypeOK,
         EndSession \/ \E k \in Socks : Accept(k) \/ Refuse(k) \/ Drop(k) \/ OnOpen(k)
  PROVE  SameWork
<1>1. CASE EndSession
  BY <1>1, ClosesSame DEF EndSession, SameWork, Tries
<1>2. ASSUME NEW k \in Socks, Accept(k) \/ Refuse(k) \/ Drop(k) PROVE SameWork
  <2>1. \A j \in Socks : socks'[j] # NoSock =>
          /\ socks[j] # NoSock
          /\ socks'[j].tab = socks[j].tab
          /\ socks'[j].step = socks[j].step
    BY <1>2, SockType DEF Accept, Refuse, Drop, Ends, Sock, TypeOK
  <2> QED
    BY <1>2, <2>1 DEF Accept, Refuse, Drop, SameWork, Tries
<1>3. ASSUME NEW k \in Socks, OnOpen(k) PROVE SameWork
  <2>1. socks[k] \in Sock
    BY <1>3, SockType DEF OnOpen
  <2>2. socks[k].tab \in Tabs
    BY <2>1 DEF Sock
  <2>3. \A t \in Tabs : /\ page'[t].seen = page[t].seen
                        /\ page'[t].cancelled = page[t].cancelled
                        /\ page'[t].timer = page[t].timer
                        /\ page'[t].strays = page[t].strays
                        /\ page'[t].ref = page[t].ref
    <3> DEFINE t == socks[k].tab
               p == [page[t] EXCEPT !.attempts = 0, !.status = "open"]
    <3>1. page[t] \in Page
      BY <2>2 DEF TypeOK
    <3>2. SetPage(t, p)
      BY <1>3 DEF OnOpen
    <3>3. page'[t] = p /\ \A r \in Tabs \ {t} : page'[r] = page[r]
      BY <2>2, <3>2, OnePageSet
    <3>4. /\ p.seen = page[t].seen
          /\ p.cancelled = page[t].cancelled
          /\ p.timer = page[t].timer
          /\ p.strays = page[t].strays
          /\ p.ref = page[t].ref
      BY <3>1 DEF Page
    <3> QED
      BY <3>3, <3>4
  <2>4. \A j \in Socks : socks'[j] # NoSock =>
          /\ socks[j] # NoSock
          /\ socks'[j].tab = socks[j].tab
          /\ socks[j].step = "closing" => socks'[j].step = "closing"
    BY <1>3, <2>1 DEF OnOpen, TypeOK, Sock
  <2> QED
    BY <1>3, <2>3, <2>4 DEF OnOpen, SameWork, Tries
<1> QED
  BY <1>1, <1>2, <1>3

LEMMA AnswerIsSame ==
  ASSUME TypeOK, NEW i \in Calls,
         \/ Deliver(i) /\ (Mounted(i) \/ LoggedIn(i) \/ Refreshed(i))
         \/ Fail(i)
  PROVE  SameWork
<1> DEFINE t == calls[i].tab
<1>1. t \in Tabs /\ page[t] \in Page
  BY CallType DEF Deliver, Fail, Call, TypeOK
<1>2. \A j \in Calls, r \in Tabs : Tries(j, r)' => Tries(j, r) /\ calls'[j] = calls[j]
  BY EndsOne DEF Deliver, Fail, Tries
<1>3. \A r \in Tabs : /\ page'[r].seen = page[r].seen
                      /\ page'[r].cancelled = page[r].cancelled
                      /\ page'[r].timer = page[r].timer
                      /\ page'[r].strays = page[r].strays
                      /\ page'[r].ref = page[r].ref
  <2> DEFINE Same(p) == /\ p.seen = page[t].seen
                        /\ p.cancelled = page[t].cancelled
                        /\ p.timer = page[t].timer
                        /\ p.strays = page[t].strays
                        /\ p.ref = page[t].ref
  <2>1. Same(SetUser(i)) /\ Same([SetUser(i) EXCEPT !.auth = "ready"])
    BY <1>1 DEF SetUser, Page
  <2>2. /\ Same([page[t] EXCEPT !.user = None, !.auth = "ready"])
        /\ Same([page[t] EXCEPT !.failed = @ \/ calls[i].kind \in Checks])
    BY <1>1 DEF Page
  <2>3. \E p : SetPage(t, p) /\ Same(p)
    BY <2>1, <2>2 DEF Deliver, Mounted, LoggedIn, Refreshed, Fail
  <2> QED
    BY <1>1, <2>3, OnePageSet
<1> QED
  BY <1>2, <1>3 DEF Deliver, Mounted, LoggedIn, Refreshed, Fail, SameWork, Muddles

(* The steps that begin or end something for a page. *)
WorkChanges ==
  \/ SameWork
  \/ \E t \in Tabs : Fire(t) \/ Effect(t)
  \/ \E i \in Calls : Deliver(i) /\ (Connect(i) \/ Reconnect(i))
  \/ \E k \in Socks : OnClose(k)

LEMMA WorkSteps == TypeOK /\ [Next]_vars => WorkChanges
<1> SUFFICES ASSUME TypeOK, [Next]_vars PROVE WorkChanges
  OBVIOUS
<1>1. CASE Browser
  <2>1. ASSUME NEW i \in Calls, Deliver(i) PROVE WorkChanges
    BY <2>1, AnswerIsSame DEF Deliver, WorkChanges
  <2> QED
    BY <1>1, <2>1, ClickIsSame, ServeIsSame, NetworkIsSame DEF Browser, WorkChanges
<1>2. CASE UNCHANGED vars
  BY <1>2 DEF vars, WorkChanges, SameWork, Tries
<1> QED
  BY <1>1, <1>2, ClickIsSame, NetworkIsSame, AnswerIsSame DEF Next, WorkChanges

(* What each of those steps does. *)
LEMMA FireBeginsOne ==
  ASSUME TypeOK, NEW t \in Tabs, Fire(t)
  PROVE  /\ \E i \in Calls :
              /\ calls[i] = NoCall
              /\ calls'[i] = NewCall(t, "refresh", None)
              /\ \A j \in Calls \ {i} : calls'[j] = calls[j]
         /\ page[t].timer \/ page[t].strays > 0
         /\ page'[t].seen = page[t].seen
         /\ page'[t].cancelled = page[t].cancelled
         /\ page'[t].ref = page[t].ref
         /\ page[t].strays = 0 => page'[t].strays = 0 /\ ~page'[t].timer
         /\ \A r \in Tabs \ {t} : page'[r] = page[r]
         /\ UNCHANGED <<socks, muddled>>
<1>1. page[t] \in Page
  BY DEF TypeOK
<1>2. PICK p : SetPage(t, p) /\ \/ page[t].timer /\ p = [page[t] EXCEPT !.timer = FALSE]
                                \/ page[t].strays > 0 /\ p = [page[t] EXCEPT !.strays = @ - 1]
  BY DEF Fire
<1>3. page'[t] = p /\ \A r \in Tabs \ {t} : page'[r] = page[r]
  BY <1>2, OnePageSet
<1>4. /\ p.seen = page[t].seen
      /\ p.cancelled = page[t].cancelled
      /\ p.ref = page[t].ref
      /\ page[t].strays = 0 => p.strays = 0 /\ ~p.timer
  BY <1>1, <1>2 DEF Page
<1>5. \E i \in Calls :
        /\ calls[i] = NoCall
        /\ calls'[i] = NewCall(t, "refresh", None)
        /\ \A j \in Calls \ {i} : calls'[j] = calls[j]
  BY DEF Fire, Begin, First, FreeCalls, TypeOK
<1> QED
  BY <1>2, <1>3, <1>4, <1>5 DEF Fire

LEMMA OpensOne ==
  ASSUME TypeOK, NEW t \in Tabs, NEW s \in Sessions, NEW p \in Page,
         OpenConnection(t, s, p)
  PROVE  \E k \in Socks :
           /\ socks[k] = NoSock
           /\ socks'[k] # NoSock
           /\ socks'[k].tab = t
           /\ \A j \in Socks \ {k} : socks'[j] = socks[j]
           /\ page'[t].ref = k
           /\ page'[t].seen = p.seen
           /\ page'[t].cancelled = p.cancelled
           /\ page'[t].timer = p.timer
           /\ page'[t].strays = p.strays
           /\ \A r \in Tabs \ {t} : page'[r] = page[r]
<1> DEFINE new == [step |-> "dialing", tab |-> t, session |-> s, up |-> "asked"]
<1>1. PICK k \in Socks :
        /\ socks[k] = NoSock
        /\ socks' = [socks EXCEPT ![k] = new]
        /\ SetPage(t, [p EXCEPT !.ref = k])
  BY DEF OpenConnection, First
<1>2. new # NoSock /\ new.tab = t
  BY DEF NoSock
<1>3. socks'[k] = new /\ \A j \in Socks \ {k} : socks'[j] = socks[j]
  BY <1>1 DEF TypeOK
<1>4. page'[t] = [p EXCEPT !.ref = k] /\ \A r \in Tabs \ {t} : page'[r] = page[r]
  BY <1>1, OnePageSet
<1>5. /\ page'[t].ref = k
      /\ page'[t].seen = p.seen
      /\ page'[t].cancelled = p.cancelled
      /\ page'[t].timer = p.timer
      /\ page'[t].strays = p.strays
  BY <1>4 DEF Page
<1> QED
  BY <1>1, <1>2, <1>3, <1>4, <1>5

(* An answer opens a websocket, or nothing that matters here changes but   *)
(* that the request is over.                                               *)
LEMMA AnswerOpensOne ==
  ASSUME TypeOK, NEW i \in Calls, Deliver(i), Connect(i) \/ Reconnect(i)
  PROVE  LET t == calls[i].tab IN
         /\ t \in Tabs /\ Tries(i, t)
         /\ \A j \in Calls \ {i} : calls'[j] = calls[j]
         /\ calls'[i] = NoCall
         /\ page'[t].seen = page[t].seen
         /\ page'[t].cancelled = page[t].cancelled
         /\ page'[t].timer = page[t].timer
         /\ page'[t].strays = page[t].strays
         /\ \A r \in Tabs \ {t} : page'[r] = page[r]
         /\ \/ UNCHANGED socks /\ page'[t].ref = page[t].ref
            \/ /\ IF calls[i].kind = "connect" THEN calls[i].live ELSE ~page[t].cancelled
               /\ \E k \in Socks :
                    /\ socks[k] = NoSock
                    /\ socks'[k] # NoSock
                    /\ socks'[k].tab = t
                    /\ \A j \in Socks \ {k} : socks'[j] = socks[j]
                    /\ page'[t].ref = k
<1> DEFINE t == calls[i].tab
           got == calls[i].got
<1>1. t \in Tabs /\ got \in Sessions \cup {0} /\ page[t] \in Page
  BY CallType DEF Deliver, Call, TypeOK
<1>2. Tries(i, t)
  BY DEF Deliver, Connect, Reconnect, Tries
<1>3. calls'[i] = NoCall /\ \A j \in Calls \ {i} : calls'[j] = calls[j]
  BY EndsOne DEF Deliver
<1>4. /\ SetUser(i) \in Page
      /\ SetUser(i).seen = page[t].seen
      /\ SetUser(i).cancelled = page[t].cancelled
      /\ SetUser(i).timer = page[t].timer
      /\ SetUser(i).strays = page[t].strays
      /\ SetUser(i).ref = page[t].ref
  BY <1>1, UserOfType DEF SetUser, Page
<1>5. CASE Connect(i)
  <2>1. CASE calls[i].live /\ got # 0
    <3>1. OpenConnection(t, got, page[t]) /\ got \in Sessions
      BY <1>1, <1>5, <2>1 DEF Connect
    <3> QED
      BY <1>1, <1>2, <1>3, <1>5, <2>1, <3>1, OpensOne DEF Connect
  <2> QED
    BY <1>1, <1>2, <1>3, <1>5, <2>1 DEF Connect
<1>6. CASE Reconnect(i)
  <2>1. CASE ~page[t].cancelled /\ got # 0
    <3>1. OpenConnection(t, got, SetUser(i)) /\ got \in Sessions
      BY <1>1, <1>6, <2>1 DEF Reconnect
    <3>2. calls[i].kind # "connect"
      BY <1>6 DEF Reconnect
    <3> QED
      BY <1>1, <1>2, <1>3, <1>4, <2>1, <3>1, <3>2, OpensOne
  <2>2. CASE ~(~page[t].cancelled /\ got # 0)
    <3>1. SetPage(t, SetUser(i)) /\ UNCHANGED socks
      BY <1>6, <2>2 DEF Reconnect
    <3> QED
      BY <1>1, <1>2, <1>3, <1>4, <3>1, OnePageSet
  <2> QED
    BY <2>1, <2>2
<1> QED
  BY <1>5, <1>6

(* An effect ends whatever the last one began: all requests, the timer and *)
(* the websocket in the ref.  It begins at most a request.                 *)
LEMMA EffectEndsAll ==
  ASSUME TypeOK, NEW t \in Tabs, Effect(t)
  PROVE  /\ \A r \in Tabs \ {t} : page'[r] = page[r]
         /\ page'[t].strays = page[t].strays
         /\ page[t].seen # None => ~page'[t].timer
         /\ page[t].seen = None => page'[t].timer = page[t].timer
         /\ page'[t].seen = None => /\ page[t].seen # None
                                    /\ page'[t].cancelled
         /\ \A j \in Socks : socks'[j] # NoSock =>
              /\ socks[j] # NoSock
              /\ socks'[j].tab = socks[j].tab
              /\ socks[j].step = "closing" => socks'[j].step = "closing"
              /\ page[t].seen # None /\ page[t].ref = j => socks'[j].step = "closing"
         /\ page[t].seen = None => UNCHANGED socks /\ page'[t].ref = page[t].ref
         /\ \A j \in Calls, r \in Tabs : r # t /\ Tries(j, r)' => Tries(j, r) /\ calls'[j] = calls[j]
         /\ \A j \in Calls : Works(j, t)' /\ ~(page[t].seen = None /\ Works(j, t)) =>
              /\ page'[t].seen # None
              /\ calls[j] = NoCall
              /\ \A i \in Calls \ {j} : Works(i, t)' => page[t].seen = None /\ Works(i, t)
         /\ \A j \in Calls : Tries(j, t)' /\ calls'[j].kind = "refresh" =>
              Tries(j, t) /\ calls[j].kind = "refresh"
         /\ UNCHANGED muddled
<1> DEFINE p == page[t]
           q == Cleanup(p)
           new == NewCall(t, "connect", None)
<1>1. p \in Page /\ p.user # p.seen
  BY DEF TypeOK, Effect
<1>2. /\ q \in Page /\ q.user = p.user /\ q.strays = p.strays
      /\ p.seen = None => q = p
      /\ p.seen # None => ~q.timer /\ q.cancelled
  BY <1>1 DEF Cleanup, Page
<1>3. /\ Setup(q).strays = q.strays /\ Setup(q).timer = q.timer /\ Setup(q).ref = q.ref
      /\ Setup(q).seen = q.user
      /\ q.user = None => Setup(q).cancelled = q.cancelled
  BY <1>2 DEF Setup, Page
<1>4. page'[t] = Setup(q) /\ \A r \in Tabs \ {t} : page'[r] = page[r]
  BY OnePageSet DEF Effect
<1>5. \A j \in Socks :
        socks'[j] = IF socks[j] # NoSock /\ p.ref = j /\ p.seen # None
                    THEN [socks[j] EXCEPT !.step = "closing"] ELSE socks[j]
  BY DEF Effect, CleanupSocks
<1>6. \A j \in Socks : socks'[j] # NoSock =>
        /\ socks[j] # NoSock
        /\ socks'[j].tab = socks[j].tab
        /\ socks[j].step = "closing" => socks'[j].step = "closing"
        /\ p.seen # None /\ p.ref = j => socks'[j].step = "closing"
  BY <1>5, SockType DEF Sock
<1>7. p.seen = None => UNCHANGED socks
  BY <1>5 DEF Effect, CleanupSocks, TypeOK
<1> DEFINE old == CleanupCalls(t)
<1>8. \A j \in Calls :
        /\ calls[j] = NoCall => old[j] = NoCall
        /\ calls[j] # NoCall => old[j] # NoCall
        /\ calls[j] # NoCall => old[j].tab = calls[j].tab /\ old[j].kind = calls[j].kind
        /\ calls[j] # NoCall /\ calls[j].tab = t /\ p.seen # None => ~old[j].live
        /\ calls[j] # NoCall /\ (calls[j].tab # t \/ p.seen = None) => old[j] = calls[j]
  BY CallType DEF CleanupCalls, Call, NoCall
<1>9. old \in [Calls -> Call \cup {NoCall}]
  <2>1. \A j \in Calls : calls[j] # NoCall => [calls[j] EXCEPT !.live = FALSE] \in Call
    BY CallType DEF Call
  <2> QED
    BY <2>1 DEF CleanupCalls, TypeOK
<1>10. new # NoCall /\ new.tab = t /\ new.kind = "connect"
  BY DEF NewCall, NoCall
<1>11. \/ p.user = None /\ calls' = old
       \/ /\ p.user # None
          /\ \E i \in Calls : /\ calls[i] = NoCall
                            /\ calls'[i] = new
                            /\ \A j \in Calls \ {i} : calls'[j] = old[j]
  BY <1>9 DEF Effect, First, FreeCalls
<1> HIDE DEF old, new
<1>16. \A j \in Calls : calls'[j] # old[j] =>
         /\ calls[j] = NoCall
         /\ p.user # None
         /\ calls'[j] = new
         /\ \A i \in Calls \ {j} : calls'[i] = old[i]
  BY <1>11
<1>12. \A j \in Calls, r \in Tabs : r # t /\ Tries(j, r)' => Tries(j, r) /\ calls'[j] = calls[j]
  BY <1>8, <1>10, <1>16 DEF Tries
<1>13. \A j \in Calls : Works(j, t)' /\ ~(p.seen = None /\ Works(j, t)) =>
         /\ p.user # None
         /\ calls[j] = NoCall
         /\ \A i \in Calls \ {j} : Works(i, t)' => p.seen = None /\ Works(i, t)
  <2>1. \A j \in Calls : calls'[j] = old[j] /\ Works(j, t)' => p.seen = None /\ Works(j, t)
    BY <1>8 DEF Works, Tries
  <2> QED
    BY <1>16, <2>1
<1>14. \A j \in Calls : Tries(j, t)' /\ calls'[j].kind = "refresh" =>
         Tries(j, t) /\ calls[j].kind = "refresh"
  <2>1. new.kind # "refresh"
    BY <1>10
  <2> QED
    BY <1>8, <1>16, <2>1 DEF Tries
<1>15. UNCHANGED muddled
  BY DEF Effect
<1> QED
  BY <1>1, <1>2, <1>3, <1>4, <1>6, <1>7, <1>12, <1>13, <1>14, <1>15

-----------------------------------------------------------------------------
(* After a logout.                                                         *)

(* The effect of a page that shows nobody has no check under way, *)
ChecksAreOfUsers ==
  \A i \in Calls, t \in Tabs :
    Works(i, t) /\ calls[i].kind = "connect" => page[t].seen # None

(* and unless reconnects are cancelled, nothing that could lead to one.    *)
QuietWhenOut ==
  \A t \in Tabs : page[t].seen = None /\ ~page[t].cancelled =>
    /\ ~page[t].timer /\ page[t].strays = 0
    /\ \A i \in Calls : Tries(i, t) => calls[i].kind # "refresh"
    /\ \A k \in Socks : socks[k] # NoSock => socks[k].tab # t

OutInv == ChecksAreOfUsers /\ QuietWhenOut

(* No page opens a websocket while it shows nobody. *)
OpensForUsers ==
  \A k \in Socks, t \in Tabs :
    (~Alive(k, t) /\ Alive(k, t)') => page[t].seen # None

LEMMA OutFire ==
  ASSUME TypeOK, OutInv, NEW t \in Tabs, Fire(t)
  PROVE  OutInv' /\ OpensForUsers
<1>1. PICK i \in Calls :
        /\ calls[i] = NoCall
        /\ calls'[i] = NewCall(t, "refresh", None)
        /\ \A j \in Calls \ {i} : calls'[j] = calls[j]
  BY FireBeginsOne
<1>2. calls'[i].tab = t /\ calls'[i].kind = "refresh"
  BY <1>1 DEF NewCall
<1>3. /\ page[t].timer \/ page[t].strays > 0
      /\ page'[t].seen = page[t].seen
      /\ page'[t].cancelled = page[t].cancelled
      /\ \A r \in Tabs \ {t} : page'[r] = page[r]
      /\ UNCHANGED socks
  BY FireBeginsOne
<1>4. page[t].seen # None \/ page[t].cancelled
  BY <1>3 DEF OutInv, QuietWhenOut
<1>5. ChecksAreOfUsers'
  BY <1>1, <1>2, <1>3 DEF OutInv, ChecksAreOfUsers, Works, Tries
<1>6. QuietWhenOut'
  BY <1>1, <1>2, <1>3, <1>4 DEF OutInv, QuietWhenOut, Tries
<1> QED
  BY <1>3, <1>5, <1>6 DEF OutInv, OpensForUsers, Alive

LEMMA OutEffect ==
  ASSUME TypeOK, OutInv, NEW t \in Tabs, Effect(t)
  PROVE  OutInv' /\ OpensForUsers
<1>1. ChecksAreOfUsers'
  BY EffectEndsAll DEF OutInv, ChecksAreOfUsers, Works
<1>2. QuietWhenOut'
  BY EffectEndsAll DEF OutInv, QuietWhenOut
<1>3. OpensForUsers
  BY EffectEndsAll, SockType DEF OpensForUsers, Alive, Sock
<1> QED
  BY <1>1, <1>2, <1>3 DEF OutInv

LEMMA OutAnswer ==
  ASSUME TypeOK, OutInv, NEW i \in Calls, Deliver(i), Connect(i) \/ Reconnect(i)
  PROVE  OutInv' /\ OpensForUsers
<1> DEFINE t == calls[i].tab
<1>1. /\ t \in Tabs /\ Tries(i, t)
      /\ \A j \in Calls \ {i} : calls'[j] = calls[j]
      /\ calls'[i] = NoCall
      /\ page'[t].seen = page[t].seen
      /\ page'[t].cancelled = page[t].cancelled
      /\ page'[t].timer = page[t].timer
      /\ page'[t].strays = page[t].strays
      /\ \A r \in Tabs \ {t} : page'[r] = page[r]
  BY AnswerOpensOne
<1>2. ChecksAreOfUsers'
  BY <1>1 DEF OutInv, ChecksAreOfUsers, Works, Tries
<1>3. CASE UNCHANGED socks
  BY <1>1, <1>2, <1>3 DEF OutInv, QuietWhenOut, OpensForUsers, Alive, Tries
<1>4. CASE ~UNCHANGED socks
  <2>1. IF calls[i].kind = "connect" THEN calls[i].live ELSE ~page[t].cancelled
    BY <1>4, AnswerOpensOne
  <2>2. PICK k \in Socks : socks'[k].tab = t /\ \A j \in Socks \ {k} : socks'[j] = socks[j]
    BY <1>4, AnswerOpensOne
  <2>3. page[t].seen # None
    BY <1>1, <2>1 DEF OutInv, ChecksAreOfUsers, QuietWhenOut, Works, Tries
  <2>4. QuietWhenOut'
    BY <1>1, <2>2, <2>3 DEF OutInv, QuietWhenOut, Tries
  <2>5. OpensForUsers
    BY <2>2, <2>3 DEF OpensForUsers, Alive
  <2> QED
    BY <1>2, <2>4, <2>5 DEF OutInv
<1> QED
  BY <1>3, <1>4

(* The close of a websocket: the page that had it may start a timer.       *)
LEMMA CloseEndsOne ==
  ASSUME TypeOK, NEW k \in Socks, OnClose(k)
  PROVE  LET t == socks[k].tab IN
         /\ t \in Tabs /\ socks[k] # NoSock
         /\ socks'[k] = NoSock /\ \A j \in Socks \ {k} : socks'[j] = socks[j]
         /\ UNCHANGED calls
         /\ page'[t].seen = page[t].seen
         /\ page'[t].cancelled = page[t].cancelled
         /\ page'[t].ref = IF page[t].ref = k THEN 0 ELSE page[t].ref
         /\ page[t].expected => /\ page'[t].timer = page[t].timer
                                /\ page'[t].strays = page[t].strays
         /\ ~page[t].timer => page'[t].strays = page[t].strays
         /\ \A r \in Tabs \ {t} : page'[r] = page[r]
         /\ muddled \subseteq muddled'
         /\ t \notin muddled' => (page[t].expected <=> socks[k].step = "closing")
<1> DEFINE t == socks[k].tab
           p == page[t]
           q == [p EXCEPT !.status = "reconnecting"]
<1>1. t \in Tabs /\ p \in Page /\ socks[k] # NoSock
  BY SockType DEF OnClose, Sock, TypeOK
<1>2. SetPage(t, [Closed(p) EXCEPT !.ref = IF @ = k THEN 0 ELSE @])
  BY DEF OnClose
<1>3. /\ page'[t] = [Closed(p) EXCEPT !.ref = IF @ = k THEN 0 ELSE @]
      /\ \A r \in Tabs \ {t} : page'[r] = page[r]
  BY <1>1, <1>2, OnePageSet
<1>4. /\ q \in Page /\ q.seen = p.seen /\ q.cancelled = p.cancelled
      /\ q.timer = p.timer /\ q.strays = p.strays /\ q.ref = p.ref
  BY <1>1 DEF Page
<1> DEFINE a == AttemptReconnect(q)
<1>5. /\ DOMAIN a = DOMAIN q
      /\ a.seen = p.seen /\ a.cancelled = p.cancelled /\ a.ref = p.ref
      /\ ~p.timer => a.strays = p.strays
  BY <1>4 DEF AttemptReconnect, Page
<1>6. /\ DOMAIN Closed(p) = DOMAIN p
      /\ Closed(p).seen = p.seen /\ Closed(p).cancelled = p.cancelled
      /\ Closed(p).ref = p.ref
      /\ p.expected => Closed(p).timer = p.timer /\ Closed(p).strays = p.strays
      /\ ~p.timer => Closed(p).strays = p.strays
  BY <1>1, <1>4, <1>5 DEF Closed, Page
<1>7. /\ page'[t].seen = p.seen /\ page'[t].cancelled = p.cancelled
      /\ page'[t].ref = IF p.ref = k THEN 0 ELSE p.ref
      /\ p.expected => page'[t].timer = p.timer /\ page'[t].strays = p.strays
      /\ ~p.timer => page'[t].strays = p.strays
  BY <1>1, <1>3, <1>6 DEF Page
<1>8. socks'[k] = NoSock /\ \A j \in Socks \ {k} : socks'[j] = socks[j]
  BY DEF OnClose, TypeOK
<1> QED
  BY <1>1, <1>3, <1>7, <1>8 DEF OnClose

LEMMA OutClose ==
  ASSUME TypeOK, OutInv, NEW k \in Socks, OnClose(k)
  PROVE  OutInv' /\ OpensForUsers
<1> DEFINE t == socks[k].tab
<1>1. /\ t \in Tabs /\ socks[k] # NoSock
      /\ socks'[k] = NoSock /\ \A j \in Socks \ {k} : socks'[j] = socks[j]
      /\ UNCHANGED calls
      /\ page'[t].seen = page[t].seen
      /\ page'[t].cancelled = page[t].cancelled
      /\ \A r \in Tabs \ {t} : page'[r] = page[r]
  BY CloseEndsOne
<1>2. page[t].seen # None \/ page[t].cancelled
  BY <1>1 DEF OutInv, QuietWhenOut
<1>3. ChecksAreOfUsers'
  BY <1>1 DEF OutInv, ChecksAreOfUsers, Works, Tries
<1>4. QuietWhenOut'
  BY <1>1, <1>2 DEF OutInv, QuietWhenOut, Tries
<1>5. OpensForUsers
  BY <1>1 DEF OpensForUsers, Alive
<1> QED
  BY <1>3, <1>4, <1>5 DEF OutInv

LEMMA OutStep == TypeOK /\ OutInv /\ [Next]_vars => OutInv' /\ OpensForUsers
<1> SUFFICES ASSUME TypeOK, OutInv, [Next]_vars PROVE OutInv' /\ OpensForUsers
  OBVIOUS
<1>1. CASE SameWork
  <2>1. ChecksAreOfUsers'
    BY <1>1 DEF SameWork, OutInv, ChecksAreOfUsers, Works
  <2>2. QuietWhenOut'
    BY <1>1 DEF SameWork, OutInv, QuietWhenOut
  <2>3. OpensForUsers
    BY <1>1, SockType DEF SameWork, OpensForUsers, Alive, Sock
  <2> QED
    BY <2>1, <2>2, <2>3 DEF OutInv
<1> QED
  BY <1>1, WorkSteps, OutFire, OutEffect, OutAnswer, OutClose DEF WorkChanges

LEMMA OutAlways == Spec => []OutInv
<1>1. Init => OutInv
  BY DEF Init, OutInv, ChecksAreOfUsers, QuietWhenOut, Works, Tries, Blank
<1> QED
  BY <1>1, OutStep, TypeCorrect, PTL DEF Spec

(* A page whose effect has cleaned up after a logout opens no websocket,   *)
(* however many timers and requests are left and whatever the other tabs   *)
(* do (NoSocketAfterLogout).                                               *)
THEOREM LoggedOutStaysOut == Spec => NoSocketAfterLogout
<1>1. TypeOK /\ OutInv /\ [Next]_vars =>
        [\A k \in Socks, t \in Tabs :
           (~Alive(k, t) /\ Alive(k, t)') => page[t].seen # None]_vars
  BY OutStep DEF OpensForUsers
<1> QED
  BY <1>1, TypeCorrect, OutAlways, PTL DEF Spec, NoSocketAfterLogout

-----------------------------------------------------------------------------
(* One websocket.                                                          *)

(* Of a page at most one thing is under way that is, or may open, its      *)
(* websocket: the timer, a request or the websocket itself, which is then  *)
(* the one in the ref.                                                     *)
AtOnce(t) ==
  /\ page[t].strays = 0
  /\ page[t].seen = None =>
       /\ ~page[t].timer
       /\ \A i \in Calls : ~Works(i, t)
       /\ \A k \in Socks : ~Alive(k, t)
  /\ page[t].timer =>
       /\ \A i \in Calls : ~Works(i, t)
       /\ \A k \in Socks : ~Alive(k, t)
  /\ \A i \in Calls : Works(i, t) =>
       /\ \A j \in Calls : Works(j, t) => i = j
       /\ \A k \in Socks : ~Alive(k, t)
  /\ \A k \in Socks : Alive(k, t) => page[t].ref = k

OneAtWork == \A t \in Tabs \ muddled : AtOnce(t)

(* A step that touches nothing of a tab leaves it as it is. *)
LEMMA OthersStay ==
  ASSUME TypeOK, NEW r \in Tabs, AtOnce(r), page'[r] = page[r],
         \A i \in Calls : Works(i, r)' => Works(i, r),
         \A k \in Socks : Alive(k, r)' => Alive(k, r)
  PROVE  AtOnce(r)'
BY DEF AtOnce

LEMMA OneFire ==
  ASSUME TypeOK, OneAtWork, NEW t \in Tabs, Fire(t)
  PROVE  OneAtWork'
<1>1. PICK i \in Calls :
        /\ calls[i] = NoCall
        /\ calls'[i] = NewCall(t, "refresh", None)
        /\ \A j \in Calls \ {i} : calls'[j] = calls[j]
  BY FireBeginsOne
<1>2. /\ calls'[i].tab = t
      /\ \A r \in Tabs : ~Works(i, r)
      /\ \A j \in Calls \ {i}, r \in Tabs : Works(j, r)' <=> Works(j, r)
  BY <1>1 DEF NewCall, Works, Tries
<1>3. /\ page[t].timer \/ page[t].strays > 0
      /\ page'[t].seen = page[t].seen
      /\ page'[t].ref = page[t].ref
      /\ page[t].strays = 0 => page'[t].strays = 0 /\ ~page'[t].timer
      /\ \A r \in Tabs \ {t} : page'[r] = page[r]
      /\ UNCHANGED <<socks, muddled>>
  BY FireBeginsOne
<1>4. \A k \in Socks, r \in Tabs : Alive(k, r)' <=> Alive(k, r)
  BY <1>3 DEF Alive
<1>5. ASSUME NEW r \in Tabs \ muddled, r # t PROVE AtOnce(r)'
  <2>1. ~Works(i, r)'
    BY <1>2, <1>5 DEF Works, Tries
  <2> QED
    BY <1>2, <1>3, <1>4, <1>5, <2>1, OthersStay DEF OneAtWork
<1>6. ASSUME t \notin muddled PROVE AtOnce(t)'
  <2>1. AtOnce(t)
    BY <1>6 DEF OneAtWork
  <2>2. page[t].strays = 0 /\ page[t].timer
    BY <1>3, <2>1 DEF AtOnce
  <2>3. \A j \in Calls : ~Works(j, t)
    BY <2>1, <2>2 DEF AtOnce
  <2>4. \A k \in Socks : ~Alive(k, t)'
    BY <1>4, <2>1, <2>2 DEF AtOnce
  <2> QED
    BY <1>2, <1>3, <2>1, <2>2, <2>3, <2>4 DEF AtOnce
<1> QED
  BY <1>3, <1>5, <1>6 DEF OneAtWork

LEMMA OneEffect ==
  ASSUME TypeOK, OneAtWork, NEW t \in Tabs, Effect(t)
  PROVE  OneAtWork'
<1>1. UNCHANGED muddled
  BY EffectEndsAll
<1>2. \A k \in Socks, r \in Tabs : Alive(k, r)' =>
        Alive(k, r) /\ (r = t /\ page[t].seen # None => page[t].ref # k)
  BY EffectEndsAll, SockType DEF Alive, Sock
<1>3. ASSUME NEW r \in Tabs \ muddled, r # t PROVE AtOnce(r)'
  <2>1. \A i \in Calls : Works(i, r)' => Works(i, r)
    BY <1>3, EffectEndsAll DEF Works
  <2>2. page'[r] = page[r]
    BY <1>3, EffectEndsAll
  <2> QED
    BY <1>2, <1>3, <2>1, <2>2, OthersStay DEF OneAtWork
<1>4. ASSUME t \notin muddled PROVE AtOnce(t)'
  <2>1. AtOnce(t)
    BY <1>4 DEF OneAtWork
  <2>2. \A k \in Socks : ~Alive(k, t)'
    BY <1>2, <2>1 DEF AtOnce
  <2>3. ~page'[t].timer /\ page'[t].strays = 0
    BY <2>1, EffectEndsAll DEF AtOnce
  <2>4. \A j \in Calls : Works(j, t)' =>
          /\ page'[t].seen # None
          /\ \A i \in Calls \ {j} : ~Works(i, t)'
    <3>1. page[t].seen = None => \A j \in Calls : ~Works(j, t)
      BY <2>1 DEF AtOnce
    <3> QED
      BY <3>1, EffectEndsAll
  <2> QED
    BY <2>2, <2>3, <2>4 DEF AtOnce
<1> QED
  BY <1>1, <1>3, <1>4 DEF OneAtWork

LEMMA OneAnswer ==
  ASSUME TypeOK, OneAtWork, NEW i \in Calls, Deliver(i), Connect(i) \/ Reconnect(i)
  PROVE  OneAtWork'
<1>0. PICK t \in Tabs : t = calls[i].tab
  BY AnswerOpensOne
<1>1. /\ Tries(i, t)
      /\ \A j \in Calls \ {i} : calls'[j] = calls[j]
      /\ calls'[i] = NoCall
      /\ page'[t].seen = page[t].seen
      /\ page'[t].timer = page[t].timer
      /\ page'[t].strays = page[t].strays
      /\ \A r \in Tabs \ {t} : page'[r] = page[r]
  BY <1>0, AnswerOpensOne
<1>2. \A j \in Calls, r \in Tabs : Works(j, r)' => j # i /\ Works(j, r)
  BY <1>1 DEF Works, Tries
<1>3. muddled \subseteq muddled' /\ (calls[i].kind = "refresh" /\ ~calls[i].live => t \in muddled')
  BY <1>0 DEF Connect, Reconnect, Muddles
<1>4. CASE UNCHANGED socks /\ page'[t].ref = page[t].ref
  <2>1. \A k \in Socks, r \in Tabs : Alive(k, r)' <=> Alive(k, r)
    BY <1>4 DEF Alive
  <2>2. \A r \in Tabs : AtOnce(r) => AtOnce(r)'
    BY <1>1, <1>2, <1>4, <2>1 DEF AtOnce
  <2> QED
    BY <1>3, <2>2 DEF OneAtWork
<1>5. CASE ~(UNCHANGED socks /\ page'[t].ref = page[t].ref)
  <2>1. IF calls[i].kind = "connect" THEN calls[i].live ELSE ~page[t].cancelled
    BY <1>0, <1>5, AnswerOpensOne
  <2>2. PICK k \in Socks :
          /\ socks[k] = NoSock
          /\ socks'[k].tab = t
          /\ \A j \in Socks \ {k} : socks'[j] = socks[j]
          /\ page'[t].ref = k
    BY <1>0, <1>5, AnswerOpensOne
  <2>3. ASSUME NEW r \in Tabs \ muddled', r # t PROVE AtOnce(r)'
    <3>1. \A j \in Socks : Alive(j, r)' => Alive(j, r)
      BY <2>2, <2>3 DEF Alive
    <3> QED
      BY <1>1, <1>2, <1>3, <2>3, <3>1, OthersStay DEF OneAtWork
  <2>4. ASSUME t \notin muddled' PROVE AtOnce(t)'
    <3>1. AtOnce(t)
      BY <1>1, <1>3, <2>4 DEF OneAtWork
    <3>2. Works(i, t)
      BY <1>1, <1>3, <2>1, <2>4 DEF Works, Tries
    <3>3. /\ \A j \in Calls : ~Works(j, t)'
          /\ \A j \in Socks : ~Alive(j, t)
          /\ page[t].seen # None /\ ~page[t].timer /\ page[t].strays = 0
      BY <1>2, <3>1, <3>2 DEF AtOnce
    <3>4. \A j \in Socks : Alive(j, t)' => j = k
      BY <2>2, <3>3 DEF Alive
    <3> QED
      BY <1>1, <2>2, <3>3, <3>4 DEF AtOnce
  <2> QED
    BY <1>1, <2>3, <2>4 DEF OneAtWork
<1> QED
  BY <1>4, <1>5

LEMMA OneClose ==
  ASSUME TypeOK, OneAtWork, NEW k \in Socks, OnClose(k)
  PROVE  OneAtWork'
<1>0. PICK t \in Tabs : t = socks[k].tab
  BY CloseEndsOne
<1>1. /\ socks[k] # NoSock
      /\ socks'[k] = NoSock /\ \A j \in Socks \ {k} : socks'[j] = socks[j]
      /\ UNCHANGED calls
      /\ page'[t].seen = page[t].seen
      /\ page'[t].ref = IF page[t].ref = k THEN 0 ELSE page[t].ref
      /\ page[t].expected => page'[t].timer = page[t].timer /\ page'[t].strays = page[t].strays
      /\ ~page[t].timer => page'[t].strays = page[t].strays
      /\ \A r \in Tabs \ {t} : page'[r] = page[r]
      /\ muddled \subseteq muddled'
      /\ t \notin muddled' => (page[t].expected <=> socks[k].step = "closing")
  BY <1>0, CloseEndsOne
<1>2. \A j \in Socks, r \in Tabs : Alive(j, r)' => j # k /\ Alive(j, r)
  BY <1>1 DEF Alive
<1>3. \A i \in Calls, r \in Tabs : Works(i, r)' <=> Works(i, r)
  BY <1>1 DEF Works, Tries
<1>4. ASSUME NEW r \in Tabs \ muddled', r # t PROVE AtOnce(r)'
  BY <1>1, <1>2, <1>3, <1>4, OthersStay DEF OneAtWork
<1>5. ASSUME t \notin muddled' PROVE AtOnce(t)'
  <2>1. AtOnce(t)
    BY <1>1, <1>5 DEF OneAtWork
  <2>2. \A j \in Socks : Alive(j, t)' => page'[t].ref = j
    BY <1>1, <1>2, <2>1 DEF AtOnce
  <2>3. CASE page[t].expected
    BY <1>1, <1>2, <1>3, <2>1, <2>2, <2>3 DEF AtOnce
  <2>4. CASE ~page[t].expected
    <3>1. Alive(k, t)
      BY <1>0, <1>1, <1>5, <2>4 DEF OnClose, Alive
    <3>2. /\ page[t].seen # None /\ ~page[t].timer /\ page[t].strays = 0
          /\ \A i \in Calls : ~Works(i, t)
          /\ \A j \in Socks : Alive(j, t) => j = k
      BY <2>1, <3>1 DEF AtOnce
    <3> QED
      BY <1>1, <1>2, <1>3, <2>2, <3>2 DEF AtOnce
  <2> QED
    BY <2>3, <2>4
<1> QED
  BY <1>1, <1>4, <1>5 DEF OneAtWork

(* Whatever the step, one thing at most is at work after it. *)
LEMMA OneStep == TypeOK /\ OneAtWork /\ [Next]_vars => OneAtWork'
<1> SUFFICES ASSUME TypeOK, OneAtWork, [Next]_vars PROVE OneAtWork'
  OBVIOUS
<1>1. CASE SameWork
  <2>1. \A k \in Socks, t \in Tabs : Alive(k, t)' => Alive(k, t)
    BY <1>1, SockType DEF SameWork, Alive, Sock
  <2>2. \A i \in Calls, t \in Tabs : Works(i, t)' => Works(i, t)
    BY <1>1 DEF SameWork, Works
  <2>3. \A t \in Tabs : AtOnce(t) => AtOnce(t)'
    BY <1>1, <2>1, <2>2 DEF SameWork, AtOnce
  <2> QED
    BY <1>1, <2>3 DEF SameWork, OneAtWork
<1> QED
  BY <1>1, WorkSteps, OneFire, OneEffect, OneAnswer, OneClose DEF WorkChanges

(* A page has one websocket that it has not closed, the one that its next  *)
(* cleanup closes (OneSocket), in any number of tabs: unless an answer     *)
(* from before a cleanup was used after it, or the close of another        *)
(* websocket was taken for its close.                                      *)
THEOREM OneSocketAtATime == Spec => []OneSocket
<1>1. Init => OneAtWork
  BY DEF Init, OneAtWork, AtOnce, Works, Tries, Alive, Blank
<1>2. OneAtWork => OneSocket
  BY DEF OneAtWork, AtOnce, OneSocket
<1> QED
  BY <1>1, <1>2, OneStep, TypeCorrect, PTL DEF Spec

-----------------------------------------------------------------------------
(* Whose websocket, and who goes on trying.                                *)

(* Request i is of tab t. *)
Of(i, t) == calls[i] # NoCall /\ calls[i].tab = t

(* What the server has given out is of somebody, *)
Known ==
  /\ cookie # 0 => who[cookie] # None
  /\ \A i \in Calls : calls[i] # NoCall =>
       /\ calls[i].step = "asked" => calls[i].got = 0
       /\ calls[i].got # 0 => who[calls[i].got] # None
       /\ calls[i].kind = "login" => calls[i].as # None
       /\ calls[i].kind = "logout" => calls[i].got = 0
  /\ \A k \in Socks : socks[k] # NoSock => who[socks[k].session] # None

(* and reconnects are cancelled only while a page shows nobody. *)
CancelledOut == \A t \in Tabs : page[t].cancelled => page[t].seen = None

(* What a page asks in which situation: the first check comes before all   *)
(* else, a login is submitted one at a time by who is nobody yet, and the  *)
(* requests that no cleanup came after are of a user the effect has seen.  *)
InTurn(t) ==
  /\ page[t].auth # "ready" =>
       /\ page[t].user = None /\ page[t].seen = None
       /\ \A i \in Calls : Of(i, t) => calls[i].kind = "mount" /\ page[t].auth = "loading"
  /\ \A i \in Calls : Of(i, t) /\ calls[i].kind = "mount" =>
       /\ page[t].auth = "loading"
       /\ \A j \in Calls : Of(j, t) => i = j
  /\ \A i \in Calls : Of(i, t) /\ calls[i].kind = "login" =>
       /\ page[t].user = None /\ page[t].seen = None
       /\ \A j \in Calls : Of(j, t) /\ calls[j].kind = "login" => i = j
  /\ \A i \in Calls :
       Of(i, t) /\ calls[i].live /\ calls[i].kind \in {"profile", "connect", "refresh"} =>
         page[t].seen # None

AllInTurn == \A t \in Tabs \ muddled : InTurn(t)

(* The steps one by one: what begins, what is answered, what ends. *)
LEMMA BeginsOne ==
  ASSUME TypeOK, NEW t \in Tabs, NEW kind, NEW u, Begin(t, kind, u)
  PROVE  \E i \in Calls :
           /\ calls[i] = NoCall
           /\ calls'[i] = NewCall(t, kind, u)
           /\ \A j \in Calls \ {i} : calls'[j] = calls[j]
BY DEF Begin, First, FreeCalls, TypeOK

LEMMA NewCallIs ==
  ASSUME NEW t, NEW kind, NEW u
  PROVE  LET c == NewCall(t, kind, u) IN
         /\ c # NoCall
         /\ c.step = "asked" /\ c.kind = kind /\ c.tab = t /\ c.as = u
         /\ c.live /\ c.got = 0
BY DEF NewCall, NoCall

LEMMA AnswersOne ==
  ASSUME TypeOK, NEW i \in Calls, calls[i] # NoCall, NEW got \in Sessions \cup {0},
         Answer(i, got)
  PROVE  /\ calls'[i] # NoCall
         /\ calls'[i].step = "answered" /\ calls'[i].got = got
         /\ calls'[i].kind = calls[i].kind /\ calls'[i].tab = calls[i].tab
         /\ calls'[i].live = calls[i].live /\ calls'[i].as = calls[i].as
         /\ \A j \in Calls \ {i} : calls'[j] = calls[j]
<1>1. calls[i] \in Call
  BY CallType
<1>2. calls'[i] = [calls[i] EXCEPT !.step = "answered", !.got = got]
  BY DEF Answer, TypeOK
<1>3. \A j \in Calls \ {i} : calls'[j] = calls[j]
  BY DEF Answer, TypeOK
<1>4. calls'[i] \in Call
  BY <1>1, <1>2 DEF Call
<1> QED
  BY <1>1, <1>2, <1>3, <1>4, CallsAreTold DEF Call

(* The server closes connections; the page's ends stay as they are. *)
LEMMA ClosesOnlyEnds ==
  ASSUME TypeOK, NEW S, CloseAt(S)
  PROVE  \A k \in Socks :
           /\ socks[k] = NoSock <=> socks'[k] = NoSock
           /\ socks[k] # NoSock => /\ socks'[k].tab = socks[k].tab
                                   /\ socks'[k].step = socks[k].step
                                   /\ socks'[k].session = socks[k].session
<1> SUFFICES ASSUME NEW k \in Socks
             PROVE  /\ socks[k] = NoSock <=> socks'[k] = NoSock
                    /\ socks[k] # NoSock => /\ socks'[k].tab = socks[k].tab
                                            /\ socks'[k].step = socks[k].step
                                            /\ socks'[k].session = socks[k].session
  OBVIOUS
<1>1. socks'[k] = IF Ends(k) /\ socks[k].session \in S THEN [socks[k] EXCEPT !.up = "down"]
                  ELSE socks[k]
  BY DEF CloseAt
<1>2. Ends(k) => socks[k] \in Sock /\ [socks[k] EXCEPT !.up = "down"] \in Sock
  BY SockType DEF Ends, Sock
<1> QED
  BY <1>1, <1>2, SocksAreTold DEF Ends, Sock

(* The session of a login is one that was nobody's. *)
LEMMA LoginTakesOne ==
  ASSUME TypeOK, Known, NEW i \in Calls, Serve(i), ServeLogin(i)
  PROVE  /\ cookie' \in Sessions /\ who[cookie'] = None
         /\ who'[cookie'] = calls[i].as /\ calls[i].as # None
         /\ \A s \in Sessions \ {cookie'} : who'[s] = who[s]
         /\ calls[i].kind = "login"
         /\ Answer(i, cookie')
         /\ \E S : CloseAt(S)
         /\ UNCHANGED <<page, faults, muddled>>
<1>1. PICK s \in Sessions :
        /\ First(s, {r \in Sessions : who[r] = None})
        /\ cookie' = s
        /\ who' = [who EXCEPT ![s] = calls[i].as]
        /\ CloseAt({r \in Sessions : who[r] = calls[i].as})
        /\ Answer(i, s)
  BY DEF ServeLogin
<1>2. who[s] = None
  BY <1>1 DEF First
<1>3. calls[i] # NoCall /\ calls[i].kind = "login" /\ UNCHANGED <<page, faults, muddled>>
  BY DEF Serve, ServeLogin
<1>4. calls[i].as # None
  BY <1>3 DEF Known
<1>5. who'[s] = calls[i].as /\ \A r \in Sessions \ {s} : who'[r] = who[r]
  BY <1>1 DEF TypeOK
<1> QED
  BY <1>1, <1>2, <1>3, <1>4, <1>5

(* What a request may have been before a step. *)
SameCall(i) ==
  /\ calls[i] # NoCall
  /\ calls'[i].step = calls[i].step /\ calls'[i].kind = calls[i].kind
  /\ calls'[i].tab = calls[i].tab /\ calls'[i].as = calls[i].as
  /\ calls'[i].got = calls[i].got
  /\ calls'[i].live => calls[i].live

AskedNow(i) ==
  /\ calls[i] = NoCall
  /\ \E t \in Tabs, kind \in Kinds, u \in Users \cup {None} :
       calls'[i] = NewCall(t, kind, u) /\ (kind = "login" => u \in Users)

LEMMA BegunCalls ==
  ASSUME TypeOK, NEW t \in Tabs, NEW kind \in Kinds, NEW u \in Users \cup {None},
         Begin(t, kind, u), kind = "login" => u \in Users
  PROVE  \A i \in Calls : calls'[i] # NoCall => SameCall(i) \/ AskedNow(i)
<1>1. PICK i \in Calls :
        /\ calls[i] = NoCall
        /\ calls'[i] = NewCall(t, kind, u)
        /\ \A j \in Calls \ {i} : calls'[j] = calls[j]
  BY BeginsOne
<1>2. AskedNow(i)
  BY <1>1 DEF AskedNow
<1> QED
  BY <1>1, <1>2 DEF SameCall

LEMMA CleanedCalls ==
  ASSUME TypeOK, NEW t \in Tabs, NEW i \in Calls
  PROVE  /\ calls[i] = NoCall <=> CleanupCalls(t)[i] = NoCall
         /\ calls[i] # NoCall =>
              LET c == CleanupCalls(t)[i] IN
              /\ c.step = calls[i].step /\ c.kind = calls[i].kind
              /\ c.tab = calls[i].tab /\ c.as = calls[i].as
              /\ c.got = calls[i].got
              /\ c.live => calls[i].live
              /\ c.live => calls[i].tab # t \/ page[t].seen = None
<1>1. CASE calls[i] # NoCall /\ calls[i].tab = t /\ page[t].seen # None
  <2>1. CleanupCalls(t)[i] = [calls[i] EXCEPT !.live = FALSE]
    BY <1>1 DEF CleanupCalls
  <2>2. calls[i] \in Call
    BY <1>1, CallType
  <2>3. [calls[i] EXCEPT !.live = FALSE] \in Call
    BY <2>2 DEF Call
  <2> QED
    BY <1>1, <2>1, <2>2, <2>3, CallsAreTold DEF Call
<1>2. CASE ~(calls[i] # NoCall /\ calls[i].tab = t /\ page[t].seen # None)
  <2>1. CleanupCalls(t)[i] = calls[i]
    BY <1>2 DEF CleanupCalls
  <2> QED
    BY <1>2, <2>1
<1> QED
  BY <1>1, <1>2

LEMMA EffectCalls ==
  ASSUME TypeOK, NEW t \in Tabs, Effect(t)
  PROVE  \A i \in Calls : calls'[i] # NoCall =>
           \/ calls'[i] = CleanupCalls(t)[i] /\ SameCall(i)
           \/ /\ page[t].user # None
              /\ AskedNow(i) /\ calls'[i] = NewCall(t, "connect", None)
<1>1. ASSUME NEW i \in Calls, calls'[i] # NoCall, calls'[i] = CleanupCalls(t)[i]
      PROVE  SameCall(i)
  BY <1>1, CleanedCalls DEF SameCall
<1>2. CASE page[t].user = None
  BY <1>1, <1>2 DEF Effect
<1>3. CASE page[t].user # None
  <2>1. PICK j \in Calls :
          /\ First(j, FreeCalls)
          /\ calls' = [CleanupCalls(t) EXCEPT ![j] = NewCall(t, "connect", None)]
    BY <1>3 DEF Effect
  <2>2. DOMAIN CleanupCalls(t) = Calls
    BY DEF CleanupCalls
  <2>3. calls[j] = NoCall
    BY <2>1 DEF First, FreeCalls
  <2>4. /\ calls'[j] = NewCall(t, "connect", None)
        /\ \A i \in Calls \ {j} : calls'[i] = CleanupCalls(t)[i]
    BY <2>1, <2>2
  <2>5. "connect" \in Kinds /\ "connect" # "login"
    BY DEF Kinds
  <2>6. AskedNow(j)
    BY <2>3, <2>4, <2>5 DEF AskedNow
  <2> QED
    BY <1>1, <1>3, <2>4, <2>6
<1> QED
  BY <1>2, <1>3

LEMMA CallSteps ==
  ASSUME TypeOK, [Next]_vars
  PROVE  \A i \in Calls : calls'[i] # NoCall => SameCall(i) \/ AskedNow(i) \/ Serve(i)
<1>1. ASSUME NEW t \in Tabs, Load(t) \/ Fire(t) \/ Logout(t) \/ SaveProfile(t)
      PROVE  \A i \in Calls : calls'[i] # NoCall => SameCall(i) \/ AskedNow(i)
  BY <1>1, BegunCalls DEF Load, Fire, Logout, SaveProfile, Kinds
<1>2. ASSUME NEW t \in Tabs, NEW u \in Users, Login(t, u)
      PROVE  \A i \in Calls : calls'[i] # NoCall => SameCall(i) \/ AskedNow(i)
  BY <1>2, BegunCalls DEF Login, Kinds
<1>3. ASSUME NEW t \in Tabs, Effect(t)
      PROVE  \A i \in Calls : calls'[i] # NoCall => SameCall(i) \/ AskedNow(i)
  BY <1>3, EffectCalls
<1>4. ASSUME NEW i \in Calls, Serve(i)
      PROVE  \A j \in Calls : calls'[j] # NoCall => SameCall(j) \/ j = i
  <2>1. PICK got \in Sessions \cup {0} : Answer(i, got)
    BY <1>4 DEF Serve, ServeCheckLogin, ServeLogin, ServeLogout, TypeOK
  <2> QED
    BY <1>4, <2>1, AnswersOne DEF Serve, SameCall
<1>5. ASSUME NEW i \in Calls, Deliver(i) \/ Fail(i)
      PROVE  \A j \in Calls : calls'[j] # NoCall => SameCall(j)
  BY <1>5, EndsOne DEF Deliver, Fail, SameCall
<1>6. UNCHANGED calls => \A i \in Calls : calls'[i] # NoCall => SameCall(i)
  BY DEF SameCall
<1>7. ASSUME NEW k \in Socks, Accept(k) \/ Refuse(k) \/ Drop(k) \/ OnOpen(k) \/ OnClose(k)
      PROVE  UNCHANGED calls
  BY <1>7 DEF Accept, Refuse, Drop, OnOpen, OnClose
<1> QED
  BY <1>1, <1>2, <1>3, <1>4, <1>5, <1>6, <1>7 DEF Next, Browser, EndSession, vars

(* What a websocket may have been. *)
SameSock(k) ==
  /\ socks[k] # NoSock
  /\ socks'[k].tab = socks[k].tab /\ socks'[k].session = socks[k].session
  /\ socks'[k].step # "closing" => socks[k].step # "closing"

OpenedNow(k) ==
  \E i \in Calls :
    /\ Deliver(i) /\ calls[i].got # 0
    /\ \/ Connect(i) /\ calls[i].live
       \/ Reconnect(i) /\ ~page[calls[i].tab].cancelled
    /\ socks[k] = NoSock
    /\ socks'[k].tab = calls[i].tab /\ socks'[k].session = calls[i].got
    /\ socks'[k] # NoSock /\ socks'[k].step = "dialing"
    /\ \A j \in Socks \ {k} : socks'[j] = socks[j]

LEMMA OpensThis ==
  ASSUME TypeOK, NEW i \in Calls, Deliver(i), calls[i].got # 0,
         \/ Connect(i) /\ calls[i].live
         \/ Reconnect(i) /\ ~page[calls[i].tab].cancelled
  PROVE  \E k \in Socks : OpenedNow(k)
<1> DEFINE t == calls[i].tab
           new == [step |-> "dialing", tab |-> t, session |-> calls[i].got, up |-> "asked"]
<1>1. PICK p : OpenConnection(t, calls[i].got, p)
  BY DEF Connect, Reconnect
<1>2. PICK k \in Socks : socks[k] = NoSock /\ socks' = [socks EXCEPT ![k] = new]
  BY <1>1 DEF OpenConnection, First
<1>3. new # NoSock /\ new.tab = t /\ new.session = calls[i].got /\ new.step = "dialing"
  BY DEF NoSock
<1>4. socks'[k] = new /\ \A j \in Socks \ {k} : socks'[j] = socks[j]
  BY <1>2 DEF TypeOK
<1> QED
  BY <1>2, <1>3, <1>4 DEF OpenedNow

LEMMA SockSteps ==
  ASSUME TypeOK, [Next]_vars
  PROVE  \A k \in Socks : socks'[k] # NoSock => SameSock(k) \/ OpenedNow(k)
<1>1. UNCHANGED socks => \A k \in Socks : socks'[k] # NoSock => SameSock(k)
  BY DEF SameSock
<1>2. ASSUME NEW S, CloseAt(S)
      PROVE  \A k \in Socks : socks'[k] # NoSock => SameSock(k)
  BY <1>2, ClosesOnlyEnds DEF SameSock
<1>3. ASSUME NEW k \in Socks, Accept(k) \/ Refuse(k) \/ Drop(k) \/ OnOpen(k)
      PROVE  \A j \in Socks : socks'[j] # NoSock => SameSock(j)
  <2>1. \A j \in Socks : socks'[j] # NoSock =>
          /\ socks[j] # NoSock
          /\ socks'[j].tab = socks[j].tab /\ socks'[j].session = socks[j].session
          /\ socks'[j].step = socks[j].step \/ socks[j].step = "dialing"
    BY <1>3, SockType DEF Accept, Refuse, Drop, OnOpen, Ends, Sock, TypeOK
  <2> QED
    BY <2>1 DEF SameSock
<1>4. ASSUME NEW k \in Socks, OnClose(k)
      PROVE  \A j \in Socks : socks'[j] # NoSock => SameSock(j)
  BY <1>4 DEF OnClose, TypeOK, SameSock, Alive
<1>5. ASSUME NEW t \in Tabs, Effect(t)
      PROVE  \A j \in Socks : socks'[j] # NoSock => SameSock(j)
  <2>1. \A j \in Socks :
          socks'[j] = IF socks[j] # NoSock /\ page[t].ref = j /\ page[t].seen # None
                      THEN [socks[j] EXCEPT !.step = "closing"] ELSE socks[j]
    BY <1>5 DEF Effect, CleanupSocks
  <2>2. \A j \in Socks : socks'[j] # NoSock =>
          /\ socks[j] # NoSock
          /\ socks'[j].tab = socks[j].tab /\ socks'[j].session = socks[j].session
          /\ socks'[j].step = socks[j].step \/ socks'[j].step = "closing"
    BY <2>1, SockType DEF Sock
  <2> QED
    BY <2>2 DEF SameSock
<1>6. ASSUME NEW i \in Calls, Deliver(i)
      PROVE  UNCHANGED socks \/ \E k \in Socks : OpenedNow(k)
  BY <1>6, OpensThis DEF Deliver, Mounted, LoggedIn, Refreshed, Connect, Reconnect
<1>7. ASSUME NEW k \in Socks, OpenedNow(k)
      PROVE  \A j \in Socks : socks'[j] # NoSock => SameSock(j) \/ OpenedNow(j)
  BY <1>7 DEF OpenedNow, SameSock
<1>8. ASSUME NEW i \in Calls, Serve(i)
      PROVE  UNCHANGED socks \/ \E S : CloseAt(S)
  BY <1>8 DEF Serve, ServeCheckLogin, ServeLogin, ServeLogout
<1>9. \/ UNCHANGED socks
      \/ \E S : CloseAt(S)
      \/ \E k \in Socks : OnClose(k)
      \/ \E k \in Socks : Accept(k) \/ Refuse(k) \/ Drop(k) \/ OnOpen(k)
      \/ \E t \in Tabs : Effect(t)
      \/ \E k \in Socks : OpenedNow(k)
  BY <1>6, <1>8 DEF Next, Browser, EndSession, vars, Load, Fire, Logout, SaveProfile, Login, Fail
<1> QED
  BY <1>1, <1>2, <1>3, <1>4, <1>5, <1>7, <1>9

(* Whatever is asked, the answer is the session that the cookie is then    *)
(* for.                                                                    *)
LEMMA ServesOne ==
  ASSUME TypeOK, NEW i \in Calls, Serve(i)
  PROVE  /\ calls[i] # NoCall /\ calls[i].step = "asked"
         /\ calls'[i] # NoCall
         /\ calls'[i].step = "answered" /\ calls'[i].got = cookie'
         /\ calls'[i].kind = calls[i].kind /\ calls'[i].tab = calls[i].tab
         /\ calls'[i].live = calls[i].live /\ calls'[i].as = calls[i].as
         /\ \A j \in Calls \ {i} : calls'[j] = calls[j]
         /\ calls[i].kind = "logout" => cookie' = 0
         /\ calls[i].kind \in Checks => UNCHANGED cookie
         /\ \A k \in Socks :
              /\ socks[k] = NoSock <=> socks'[k] = NoSock
              /\ socks[k] # NoSock => /\ socks'[k].tab = socks[k].tab
                                      /\ socks'[k].step = socks[k].step
                                      /\ socks'[k].session = socks[k].session
         /\ UNCHANGED <<page, muddled>>
<1>1. cookie' \in Sessions \cup {0} /\ Answer(i, cookie')
  BY DEF Serve, ServeCheckLogin, ServeLogin, ServeLogout, TypeOK, server
<1>2. UNCHANGED socks \/ \E S : CloseAt(S)
  BY DEF Serve, ServeCheckLogin, ServeLogin, ServeLogout
<1>3. calls[i] # NoCall /\ calls[i].step = "asked" /\ UNCHANGED <<page, muddled>>
  BY DEF Serve
<1>4. calls[i].kind = "logout" => cookie' = 0
  BY DEF Serve, ServeCheckLogin, ServeLogin, ServeLogout, Checks
<1>5. calls[i].kind \in Checks => UNCHANGED cookie
  BY DEF Serve, ServeCheckLogin, ServeLogin, ServeLogout, Checks, server
<1>6. \A k \in Socks :
        /\ socks[k] = NoSock <=> socks'[k] = NoSock
        /\ socks[k] # NoSock => /\ socks'[k].tab = socks[k].tab
                                /\ socks'[k].step = socks[k].step
                                /\ socks'[k].session = socks[k].session
  BY <1>2, ClosesOnlyEnds
<1>7. /\ calls'[i] # NoCall
      /\ calls'[i].step = "answered" /\ calls'[i].got = cookie'
      /\ calls'[i].kind = calls[i].kind /\ calls'[i].tab = calls[i].tab
      /\ calls'[i].live = calls[i].live /\ calls'[i].as = calls[i].as
      /\ \A j \in Calls \ {i} : calls'[j] = calls[j]
  BY <1>1, <1>3, AnswersOne
<1> QED
  BY <1>3, <1>4, <1>5, <1>6, <1>7

LEMMA CookieSteps ==
  ASSUME TypeOK, [Next]_vars
  PROVE  \/ UNCHANGED server
         \/ cookie' = 0 /\ UNCHANGED <<who, elsewhere>>
         \/ \E i \in Calls : Serve(i) /\ ServeLogin(i)
<1>1. ASSUME NEW i \in Calls, Serve(i)
      PROVE  \/ UNCHANGED server
             \/ cookie' = 0 /\ UNCHANGED <<who, elsewhere>>
             \/ Serve(i) /\ ServeLogin(i)
  BY <1>1 DEF Serve, ServeCheckLogin, ServeLogout
<1> QED
  BY <1>1 DEF Next, Browser, EndSession, vars, server, Load, Fire, Effect, Deliver, Accept, OnOpen,
     OnClose, Logout, SaveProfile, Login, Refuse, Drop, Fail

(* A session that is somebody's remains theirs. *)
LEMMA WhoStays ==
  ASSUME TypeOK, Known, [Next]_vars, NEW s \in Sessions, who[s] # None
  PROVE  who'[s] = who[s]
BY CookieSteps, LoginTakesOne DEF server

LEMMA KnownStep == TypeOK /\ Known /\ [Next]_vars => Known'
<1> SUFFICES ASSUME TypeOK, Known, [Next]_vars PROVE Known'
  OBVIOUS
<1>1. cookie' # 0 => who'[cookie'] # None
  <2>1. CASE UNCHANGED server
    BY <2>1 DEF Known, server
  <2> QED
    BY <2>1, CookieSteps, LoginTakesOne
<1>2. ASSUME NEW i \in Calls, calls'[i] # NoCall
      PROVE  /\ calls'[i].step = "asked" => calls'[i].got = 0
             /\ calls'[i].got # 0 => who'[calls'[i].got] # None
             /\ calls'[i].kind = "login" => calls'[i].as # None
             /\ calls'[i].kind = "logout" => calls'[i].got = 0
  <2>1. CASE SameCall(i)
    <3>1. calls[i].got \in Sessions \cup {0}
      BY <2>1, CallType DEF SameCall, Call
    <3>2. calls[i].got # 0 => who'[calls[i].got] # None
      BY <2>1, <3>1, WhoStays DEF SameCall, Known
    <3> QED
      BY <2>1, <3>2 DEF SameCall, Known
  <2>2. CASE AskedNow(i)
    BY <2>2, NewCallIs, WebClientAssumption DEF AskedNow
  <2>3. CASE Serve(i)
    BY <1>1, <2>3, ServesOne DEF Known
  <2> QED
    BY <1>2, <2>1, <2>2, <2>3, CallSteps
<1>3. ASSUME NEW k \in Socks, socks'[k] # NoSock
      PROVE  who'[socks'[k].session] # None
  <2>1. CASE SameSock(k)
    <3>1. socks[k].session \in Sessions
      BY <2>1, SockType DEF SameSock, Sock
    <3>2. who[socks[k].session] # None
      BY <2>1 DEF SameSock, Known
    <3>3. who'[socks[k].session] # None
      BY <3>1, <3>2, WhoStays
    <3> QED
      BY <2>1, <3>3 DEF SameSock
  <2>2. CASE OpenedNow(k)
    <3>1. PICK i \in Calls : Deliver(i) /\ calls[i].got # 0 /\ socks'[k].session = calls[i].got
      BY <2>2 DEF OpenedNow
    <3>2. calls[i].got \in Sessions /\ who[calls[i].got] # None
      BY <3>1, CallType DEF Deliver, Call, Known
    <3>3. who'[calls[i].got] # None
      BY <3>2, WhoStays
    <3> QED
      BY <3>1, <3>3
  <2> QED
    BY <1>3, <2>1, <2>2, SockSteps
<1> QED
  BY <1>1, <1>2, <1>3 DEF Known

LEMMA KnownAlways == Spec => []Known
<1>1. Init => Known
  BY DEF Init, Known, NoCall, Sessions
<1> QED
  BY <1>1, KnownStep, TypeCorrect, PTL DEF Spec

(* What a step leaves of a tab that it is not about. *)
LEMMA TurnKept ==
  ASSUME NEW t \in Tabs, InTurn(t),
         page'[t].user = page[t].user, page'[t].seen = page[t].seen,
         page'[t].auth = page[t].auth,
         \A i \in Calls : Of(i, t)' => /\ Of(i, t)
                                       /\ calls'[i].kind = calls[i].kind
                                       /\ calls'[i].live => calls[i].live
  PROVE  InTurn(t)'
BY DEF InTurn

(* A request begins. *)
LEMMA TurnBegins ==
  ASSUME TypeOK, NEW t \in Tabs, NEW kind, NEW u, Begin(t, kind, u),
         NEW r \in Tabs, InTurn(r),
         page'[r].user = page[r].user, page'[r].seen = page[r].seen,
         page'[r].auth = page[r].auth,
         r = t => /\ kind # "mount" /\ page[t].auth = "ready"
                  /\ kind \in {"profile", "connect", "refresh"} => page[t].seen # None
                  /\ kind = "login" => /\ page[t].user = None /\ page[t].seen = None
                                       /\ ~Has(t, {"login"})
  PROVE  InTurn(r)'
<1>1. PICK i \in Calls :
        /\ calls[i] = NoCall
        /\ calls'[i] = NewCall(t, kind, u)
        /\ \A j \in Calls \ {i} : calls'[j] = calls[j]
  BY BeginsOne
<1>2. \A j \in Calls \ {i} : Of(j, r)' => Of(j, r) /\ calls'[j] = calls[j]
  BY <1>1 DEF Of
<1>3. calls'[i] # NoCall /\ calls'[i].tab = t /\ calls'[i].kind = kind
  BY <1>1, NewCallIs
<1>4. CASE r # t
  <2>1. ~Of(i, r)'
    BY <1>3, <1>4 DEF Of
  <2> QED
    BY <1>2, <2>1, TurnKept
<1>5. CASE r = t
  <2>1. \A j \in Calls : Of(j, t) => calls[j].kind # "mount"
    BY <1>5 DEF InTurn
  <2>2. kind = "login" => \A j \in Calls : Of(j, t) => calls[j].kind # "login"
    BY <1>5 DEF Has, Of
  <2>3. \A j \in Calls : Of(j, t)' => calls'[j].kind # "mount"
    BY <1>2, <1>3, <1>5, <2>1
  <2>4. \A j \in Calls : Of(j, t)' /\ calls'[j].kind = "login" =>
          /\ page[t].user = None /\ page[t].seen = None
          /\ \A m \in Calls : Of(m, t)' /\ calls'[m].kind = "login" => j = m
    BY <1>2, <1>3, <1>5, <2>2 DEF InTurn
  <2>5. \A j \in Calls :
          Of(j, t)' /\ calls'[j].live /\ calls'[j].kind \in {"profile", "connect", "refresh"} =>
            page[t].seen # None
    BY <1>2, <1>3, <1>5 DEF InTurn
  <2> QED
    BY <1>5, <2>3, <2>4, <2>5 DEF InTurn
<1> QED
  BY <1>4, <1>5

LEMMA TurnClick ==
  ASSUME TypeOK, AllInTurn, OneAtWork, NEW t \in Tabs,
         Load(t) \/ Logout(t) \/ SaveProfile(t) \/ (\E u \in Users : Login(t, u)) \/ Fire(t)
  PROVE  AllInTurn'
<1>1. UNCHANGED muddled
  BY DEF Load, Logout, SaveProfile, Login, Fire
<1> SUFFICES ASSUME NEW r \in Tabs \ muddled PROVE InTurn(r)'
  BY <1>1 DEF AllInTurn
<1>2. InTurn(r) /\ AtOnce(r)
  BY DEF AllInTurn, OneAtWork
<1>3. CASE Load(t)
  <2>1. PICK i \in Calls :
          /\ calls[i] = NoCall
          /\ calls'[i] = NewCall(t, "mount", None)
          /\ \A j \in Calls \ {i} : calls'[j] = calls[j]
    BY <1>3, BeginsOne DEF Load
  <2>2. /\ page[t].auth = "none"
        /\ page'[t].auth = "loading"
        /\ page'[t].user = page[t].user /\ page'[t].seen = page[t].seen
        /\ \A s \in Tabs \ {t} : page'[s] = page[s]
    BY <1>3 DEF Load, TypeOK, Page
  <2>3. \A j \in Calls \ {i} : Of(j, r)' => Of(j, r) /\ calls'[j] = calls[j]
    BY <2>1 DEF Of
  <2>4. calls'[i].tab = t /\ calls'[i].kind = "mount"
    BY <2>1, NewCallIs
  <2>5. CASE r # t
    <3>1. ~Of(i, r)'
      BY <2>4, <2>5 DEF Of
    <3> QED
      BY <1>2, <2>2, <2>3, <2>5, <3>1, TurnKept
  <2>6. CASE r = t
    <3>1. \A j \in Calls : ~Of(j, t)
      BY <1>2, <2>2, <2>6 DEF InTurn
    <3>2. \A j \in Calls : Of(j, t)' => j = i
      BY <2>3, <2>6, <3>1
    <3> QED
      BY <1>2, <2>2, <2>4, <2>6, <3>2 DEF InTurn
  <2> QED
    BY <2>5, <2>6
<1>4. CASE Logout(t) \/ SaveProfile(t)
  <2>1. page[t].seen # None /\ page[t].user # None /\ UNCHANGED page
    BY <1>4, WebClientAssumption DEF Logout, SaveProfile, Shows
  <2>2. r = t => page[t].auth = "ready"
    BY <1>2, <2>1 DEF InTurn
  <2>3. Begin(t, "logout", None) \/ Begin(t, "profile", None)
    BY <1>4 DEF Logout, SaveProfile
  <2> QED
    BY <1>2, <2>1, <2>2, <2>3, TurnBegins
<1>5. ASSUME NEW u \in Users, Login(t, u) PROVE InTurn(r)'
  BY <1>2, <1>5, TurnBegins DEF Login, Shows
<1>6. CASE Fire(t)
  <2>1. /\ page[t].timer \/ page[t].strays > 0
        /\ page'[t].user = page[t].user /\ page'[t].seen = page[t].seen
        /\ page'[t].auth = page[t].auth
        /\ \A s \in Tabs \ {t} : page'[s] = page[s]
    <3>1. page[t] \in Page
      BY DEF TypeOK
    <3>2. PICK p : SetPage(t, p) /\ \/ page[t].timer /\ p = [page[t] EXCEPT !.timer = FALSE]
                                    \/ page[t].strays > 0 /\ p = [page[t] EXCEPT !.strays = @ - 1]
      BY <1>6 DEF Fire
    <3>3. page'[t] = p /\ \A s \in Tabs \ {t} : page'[s] = page[s]
      BY <3>2, OnePageSet
    <3>4. p.user = page[t].user /\ p.seen = page[t].seen /\ p.auth = page[t].auth
      BY <3>1, <3>2 DEF Page
    <3> QED
      BY <3>2, <3>3, <3>4
  <2>2. r = t => page[t].seen # None
    <3>1. page[t].strays > 0 => page[t].strays # 0
      OBVIOUS
    <3> QED
      BY <1>2, <2>1, <3>1 DEF AtOnce
  <2>3. r = t => page[t].auth = "ready"
    BY <1>2, <2>2 DEF InTurn
  <2>4. Begin(t, "refresh", None)
    BY <1>6 DEF Fire
  <2> QED
    BY <1>2, <2>1, <2>2, <2>3, <2>4, TurnBegins
<1> QED
  BY <1>3, <1>4, <1>5, <1>6

LEMMA TurnEffect ==
  ASSUME TypeOK, AllInTurn, NEW t \in Tabs, Effect(t)
  PROVE  AllInTurn'
<1>1. UNCHANGED muddled
  BY DEF Effect
<1> SUFFICES ASSUME NEW r \in Tabs \ muddled PROVE InTurn(r)'
  BY <1>1 DEF AllInTurn
<1>2. InTurn(r)
  BY DEF AllInTurn
<1> DEFINE p == page[t]
<1>3. /\ page'[t].user = p.user /\ page'[t].auth = p.auth
      /\ page'[t].seen = p.user /\ p.user # p.seen
      /\ \A s \in Tabs \ {t} : page'[s] = page[s]
  <2>1. p \in Page
    BY DEF TypeOK
  <2>2. page'[t] = Setup(Cleanup(p)) /\ \A s \in Tabs \ {t} : page'[s] = page[s]
    BY OnePageSet DEF Effect
  <2>3. Cleanup(p) \in Page /\ Cleanup(p).user = p.user /\ Cleanup(p).auth = p.auth
        /\ Cleanup(p).seen = p.seen
    BY <2>1 DEF Cleanup, Page
  <2>4. Setup(Cleanup(p)).user = p.user /\ Setup(Cleanup(p)).auth = p.auth
        /\ Setup(Cleanup(p)).seen = p.user
    BY <2>3 DEF Setup, Page
  <2> QED
    BY <2>2, <2>4 DEF Effect
<1>4. \A i \in Calls : Of(i, r)' =>
        \/ /\ Of(i, r) /\ calls'[i].kind = calls[i].kind
           /\ calls'[i].live => calls[i].live
           /\ calls'[i].live => r # t \/ p.seen = None
        \/ r = t /\ p.user # None /\ calls'[i].kind = "connect"
  <2>1. ASSUME NEW i \in Calls, Of(i, r)', calls'[i] = CleanupCalls(t)[i], SameCall(i)
        PROVE  /\ Of(i, r) /\ calls'[i].kind = calls[i].kind
               /\ calls'[i].live => calls[i].live
               /\ calls'[i].live => r # t \/ p.seen = None
    BY <2>1, CleanedCalls DEF Of, SameCall
  <2>2. ASSUME NEW i \in Calls, Of(i, r)', calls'[i] = NewCall(t, "connect", None)
        PROVE  r = t /\ calls'[i].kind = "connect"
    BY <2>2, NewCallIs DEF Of
  <2>3. \A i \in Calls : Of(i, r)' => calls'[i] # NoCall
    BY DEF Of
  <2> QED
    BY <2>1, <2>2, <2>3, EffectCalls
<1>5. CASE r # t
  BY <1>2, <1>3, <1>4, <1>5, TurnKept
<1>6. CASE r = t
  <2>1. p.auth = "ready"
    BY <1>2, <1>3, <1>6 DEF InTurn
  <2>2. \A i \in Calls : Of(i, t) => calls[i].kind # "mount" /\ calls[i].kind # "login"
    BY <1>2, <1>3, <1>6, <2>1 DEF InTurn
  <2>3. \A i \in Calls : Of(i, t)' => calls'[i].kind # "mount" /\ calls'[i].kind # "login"
    BY <1>4, <1>6, <2>2
  <2>4. \A i \in Calls :
          Of(i, t)' /\ calls'[i].live /\ calls'[i].kind \in {"profile", "connect", "refresh"} =>
            p.user # None
    BY <1>2, <1>4, <1>6 DEF InTurn
  <2> QED
    BY <1>3, <1>6, <2>1, <2>3, <2>4 DEF InTurn
<1> QED
  BY <1>5, <1>6

(* What an answer does to the page it is for. *)
LEMMA AnswerShows ==
  ASSUME TypeOK, NEW i \in Calls, Deliver(i), NEW t, t = calls[i].tab
  PROVE  /\ t \in Tabs /\ Of(i, t) /\ calls[i].step = "answered"
         /\ calls'[i] = NoCall /\ \A j \in Calls \ {i} : calls'[j] = calls[j]
         /\ \A r \in Tabs \ {t} : page'[r] = page[r]
         /\ page'[t].seen = page[t].seen
         /\ page'[t].cancelled = page[t].cancelled
         /\ page'[t].status = page[t].status
         /\ page'[t].attempts = page[t].attempts
         /\ page'[t].timer = page[t].timer
         /\ page'[t].failed = page[t].failed
         /\ page'[t].auth = IF calls[i].kind = "mount" THEN "ready" ELSE page[t].auth
         /\ page'[t].user = IF calls[i].kind = "connect" THEN page[t].user
                            ELSE UserOf(calls[i].got)
         /\ muddled \subseteq muddled'
         /\ calls[i].kind \in {"profile", "refresh"} /\ ~calls[i].live => t \in muddled'
         /\ UNCHANGED server
<1> DEFINE got == calls[i].got
           Rest(p) == /\ p.seen = page[t].seen
                      /\ p.cancelled = page[t].cancelled
                      /\ p.status = page[t].status
                      /\ p.attempts = page[t].attempts
                      /\ p.timer = page[t].timer
                      /\ p.failed = page[t].failed
           user == IF calls[i].kind = "connect" THEN page[t].user ELSE UserOf(got)
           auth == IF calls[i].kind = "mount" THEN "ready" ELSE page[t].auth
<1>1. t \in Tabs /\ got \in Sessions \cup {0} /\ page[t] \in Page /\ calls[i] # NoCall
  BY CallType DEF Deliver, Call, TypeOK
<1>2. /\ SetUser(i) \in Page /\ Rest(SetUser(i))
      /\ SetUser(i).user = UserOf(got) /\ SetUser(i).auth = page[t].auth
  BY <1>1, UserOfType DEF SetUser, Page
<1>4. ASSUME NEW p \in Page, Rest(p), OpenConnection(t, got, p)
      PROVE  \E q : SetPage(t, q) /\ Rest(q) /\ q.user = p.user /\ q.auth = p.auth
  <2>1. PICK k \in Socks : SetPage(t, [p EXCEPT !.ref = k])
    BY <1>4 DEF OpenConnection
  <2> DEFINE q == [p EXCEPT !.ref = k]
  <2>2. Rest(q) /\ q.user = p.user /\ q.auth = p.auth
    BY <1>4 DEF Page
  <2>3. SetPage(t, q)
    BY <2>1
  <2> HIDE DEF q
  <2> QED
    BY <2>2, <2>3
<1>5. \/ UNCHANGED page /\ calls[i].kind = "connect"
      \/ \E p : SetPage(t, p) /\ Rest(p) /\ p.user = user /\ p.auth = auth
  <2>1. CASE Mounted(i)
    <3>1. [SetUser(i) EXCEPT !.auth = "ready"].auth = "ready"
          /\ [SetUser(i) EXCEPT !.auth = "ready"].user = UserOf(got)
          /\ Rest([SetUser(i) EXCEPT !.auth = "ready"])
      BY <1>2 DEF Page
    <3>2. SetPage(t, [SetUser(i) EXCEPT !.auth = "ready"]) /\ calls[i].kind = "mount"
      BY <2>1 DEF Mounted
    <3> QED
      BY <3>1, <3>2
  <2>2. CASE LoggedIn(i) \/ Refreshed(i)
    <3>1. SetPage(t, SetUser(i)) /\ calls[i].kind \notin {"connect", "mount"}
      BY <2>2 DEF LoggedIn, Refreshed
    <3> QED
      BY <1>2, <3>1
  <2>3. CASE Connect(i)
    <3>1. calls[i].kind = "connect"
      BY <2>3 DEF Connect
    <3>2. UNCHANGED page \/ OpenConnection(t, got, page[t])
      BY <2>3 DEF Connect
    <3>3. Rest(page[t])
      OBVIOUS
    <3>4. OpenConnection(t, got, page[t]) =>
            \E q : SetPage(t, q) /\ Rest(q) /\ q.user = page[t].user /\ q.auth = page[t].auth
      BY <1>1, <1>4, <3>3
    <3> QED
      BY <3>1, <3>2, <3>4
  <2>4. CASE Reconnect(i)
    <3>1. calls[i].kind = "refresh"
      BY <2>4 DEF Reconnect
    <3>2. SetPage(t, SetUser(i)) \/ OpenConnection(t, got, SetUser(i))
      BY <2>4 DEF Reconnect
    <3>3. OpenConnection(t, got, SetUser(i)) =>
            \E q : SetPage(t, q) /\ Rest(q) /\ q.user = SetUser(i).user
                  /\ q.auth = SetUser(i).auth
      BY <1>2, <1>4
    <3> QED
      BY <1>2, <3>1, <3>2, <3>3
  <2> QED
    BY <2>1, <2>2, <2>3, <2>4 DEF Deliver
<1>6. /\ page'[t].user = user /\ page'[t].auth = auth
      /\ page'[t].seen = page[t].seen
      /\ page'[t].cancelled = page[t].cancelled
      /\ page'[t].status = page[t].status
      /\ page'[t].attempts = page[t].attempts
      /\ page'[t].timer = page[t].timer
      /\ page'[t].failed = page[t].failed
      /\ \A r \in Tabs \ {t} : page'[r] = page[r]
  <2>1. CASE UNCHANGED page /\ calls[i].kind = "connect"
    BY <2>1
  <2>2. ASSUME NEW p, SetPage(t, p), Rest(p), p.user = user, p.auth = auth
        PROVE  <1>6!:
    <3>1. page'[t] = p /\ \A r \in Tabs \ {t} : page'[r] = page[r]
      BY <1>1, <2>2, OnePageSet
    <3> QED
      BY <2>2, <3>1
  <2> QED
    BY <1>5, <2>1, <2>2
<1>7. /\ muddled \subseteq muddled'
      /\ calls[i].kind \in {"profile", "refresh"} /\ ~calls[i].live => t \in muddled'
  BY DEF Deliver, Mounted, LoggedIn, Refreshed, Connect, Reconnect, Muddles
<1>8. calls'[i] = NoCall /\ \A j \in Calls \ {i} : calls'[j] = calls[j]
  BY EndsOne DEF Deliver
<1> QED
  BY <1>1, <1>6, <1>7, <1>8 DEF Deliver, Of

LEMMA TurnAnswer ==
  ASSUME TypeOK, Known, AllInTurn, NEW i \in Calls, Deliver(i)
  PROVE  AllInTurn'
<1>0. PICK t : t = calls[i].tab
  OBVIOUS
<1>1. /\ t \in Tabs /\ Of(i, t)
      /\ calls'[i] = NoCall /\ \A j \in Calls \ {i} : calls'[j] = calls[j]
      /\ \A r \in Tabs \ {t} : page'[r] = page[r]
      /\ page'[t].seen = page[t].seen
      /\ page'[t].auth = IF calls[i].kind = "mount" THEN "ready" ELSE page[t].auth
      /\ page'[t].user = IF calls[i].kind = "connect" THEN page[t].user
                         ELSE UserOf(calls[i].got)
      /\ muddled \subseteq muddled'
      /\ calls[i].kind \in {"profile", "refresh"} /\ ~calls[i].live => t \in muddled'
  BY <1>0, AnswerShows
<1> SUFFICES ASSUME NEW r \in Tabs \ muddled' PROVE InTurn(r)'
  BY DEF AllInTurn
<1>2. InTurn(r)
  BY <1>1 DEF AllInTurn
<1>3. \A j \in Calls : Of(j, r)' => j # i /\ Of(j, r) /\ calls'[j] = calls[j]
  BY <1>1 DEF Of
<1>4. CASE r # t
  BY <1>1, <1>2, <1>3, <1>4, TurnKept
<1>5. CASE r = t
  <2>1. calls[i] \in Call
    BY <1>1, CallType DEF Of
  <2>2. \A j \in Calls : Of(j, t)' /\ calls'[j].kind = "mount" => FALSE
    BY <1>1, <1>2, <1>3, <1>5 DEF InTurn
  <2>3. page'[t].auth # "ready" =>
          /\ page'[t].user = None /\ page'[t].seen = None
          /\ \A j \in Calls : Of(j, t)' => FALSE
    BY <1>1, <1>2, <1>3, <1>5 DEF InTurn
  <2>4. ASSUME NEW j \in Calls, Of(j, t)', calls'[j].kind = "login"
        PROVE  /\ page'[t].user = None /\ page'[t].seen = None
               /\ \A m \in Calls : Of(m, t)' /\ calls'[m].kind = "login" => j = m
    <3>1. /\ j # i /\ Of(j, t) /\ calls[j].kind = "login"
          /\ \A m \in Calls : Of(m, t)' => m # i /\ Of(m, t) /\ calls'[m] = calls[m]
      BY <1>3, <1>5, <2>4
    <3>2. /\ page[t].user = None /\ page[t].seen = None
          /\ \A m \in Calls : Of(m, t) /\ calls[m].kind = "login" => j = m
      BY <1>2, <1>5, <3>1 DEF InTurn
    <3>3. calls[i].kind \in {"connect", "logout"}
      <4>1. calls[i].kind # "mount" /\ calls[i].kind # "login"
        BY <1>1, <1>2, <1>5, <3>1, <3>2 DEF InTurn
      <4>2. calls[i].kind \notin {"profile", "refresh"}
        BY <1>1, <1>2, <1>5, <3>2 DEF InTurn
      <4> QED
        BY <2>1, <4>1, <4>2 DEF Call, Kinds
    <3>4. calls[i].kind = "logout" => UserOf(calls[i].got) = None
      BY <1>1 DEF Of, Known, UserOf
    <3> QED
      BY <1>1, <3>1, <3>2, <3>3, <3>4
  <2>5. \A j \in Calls :
          Of(j, t)' /\ calls'[j].live /\ calls'[j].kind \in {"profile", "connect", "refresh"} =>
            page'[t].seen # None
    BY <1>1, <1>2, <1>3, <1>5 DEF InTurn
  <2> QED
    BY <1>5, <2>2, <2>3, <2>4, <2>5 DEF InTurn
<1> QED
  BY <1>4, <1>5

LEMMA FailShows ==
  ASSUME TypeOK, NEW i \in Calls, Fail(i), NEW t, t = calls[i].tab
  PROVE  /\ t \in Tabs /\ Of(i, t)
         /\ calls'[i] = NoCall /\ \A j \in Calls \ {i} : calls'[j] = calls[j]
         /\ \A r \in Tabs \ {t} : page'[r] = page[r]
         /\ page'[t].seen = page[t].seen
         /\ page'[t].cancelled = page[t].cancelled
         /\ page'[t].status = page[t].status
         /\ page'[t].attempts = page[t].attempts
         /\ page'[t].timer = page[t].timer
         /\ page[t].failed => page'[t].failed
         /\ calls[i].kind \in {"connect", "refresh"} => page'[t].failed
         /\ page'[t].auth = IF calls[i].kind = "mount" THEN "ready" ELSE page[t].auth
         /\ page'[t].user = IF calls[i].kind = "mount" THEN None ELSE page[t].user
         /\ UNCHANGED <<server, socks, muddled>>
<1>1. t \in Tabs /\ page[t] \in Page /\ calls[i] # NoCall
  BY CallType DEF Fail, Call, TypeOK
<1> DEFINE p == IF calls[i].kind = "mount"
                THEN [page[t] EXCEPT !.user = None, !.auth = "ready"]
                ELSE [page[t] EXCEPT !.failed = @ \/ calls[i].kind \in Checks]
<1>2. page'[t] = p /\ \A r \in Tabs \ {t} : page'[r] = page[r]
  <2>1. SetPage(t, p)
    BY DEF Fail
  <2> QED
    BY <1>1, <2>1, OnePageSet
<1>3. CASE calls[i].kind = "mount"
  BY <1>1, <1>2, <1>3, EndsOne DEF Fail, Of, Page
<1>4. CASE calls[i].kind # "mount"
  BY <1>1, <1>2, <1>4, EndsOne DEF Fail, Of, Page, Checks
<1> QED
  BY <1>3, <1>4

LEMMA TurnFail ==
  ASSUME TypeOK, AllInTurn, NEW i \in Calls, Fail(i)
  PROVE  AllInTurn'
<1>0. PICK t : t = calls[i].tab
  OBVIOUS
<1>1. /\ t \in Tabs /\ Of(i, t)
      /\ calls'[i] = NoCall /\ \A j \in Calls \ {i} : calls'[j] = calls[j]
      /\ \A r \in Tabs \ {t} : page'[r] = page[r]
      /\ page'[t].seen = page[t].seen
      /\ page'[t].auth = IF calls[i].kind = "mount" THEN "ready" ELSE page[t].auth
      /\ page'[t].user = IF calls[i].kind = "mount" THEN None ELSE page[t].user
      /\ UNCHANGED muddled
  BY <1>0, FailShows
<1> SUFFICES ASSUME NEW r \in Tabs \ muddled PROVE InTurn(r)'
  BY <1>1 DEF AllInTurn
<1>2. InTurn(r)
  BY DEF AllInTurn
<1>3. \A j \in Calls : Of(j, r)' => j # i /\ Of(j, r) /\ calls'[j] = calls[j]
  BY <1>1 DEF Of
<1>4. CASE r # t \/ calls[i].kind # "mount"
  BY <1>1, <1>2, <1>3, <1>4, TurnKept
<1>5. CASE r = t /\ calls[i].kind = "mount"
  <2>1. \A j \in Calls : ~Of(j, t)'
    BY <1>1, <1>2, <1>3, <1>5 DEF InTurn
  <2> QED
    BY <1>1, <1>5, <2>1 DEF InTurn
<1> QED
  BY <1>4, <1>5

(* What the socket's events do to the page. *)
LEMMA SocketShows ==
  ASSUME TypeOK, NEW k \in Socks, OnOpen(k) \/ OnClose(k)
  PROVE  /\ \A r \in Tabs : /\ page'[r].user = page[r].user /\ page'[r].auth = page[r].auth
                            /\ page'[r].seen = page[r].seen
                            /\ page'[r].cancelled = page[r].cancelled
                            /\ page'[r].failed = page[r].failed
                            /\ page'[r].status = "reconnecting" =>
                                 \/ page'[r].timer
                                 \/ page'[r].attempts = MaxReconnectAttempts
                                 \/ /\ page'[r] = page[r]
                                    /\ r # socks[k].tab
         /\ UNCHANGED <<server, calls>>
         /\ muddled \subseteq muddled'
<1> DEFINE t == socks[k].tab
           p == page[t]
           q == [p EXCEPT !.status = "reconnecting"]
           Rest(x) == /\ x.user = p.user /\ x.auth = p.auth /\ x.seen = p.seen
                      /\ x.cancelled = p.cancelled /\ x.failed = p.failed
           Tries1(x) == /\ x.status = "reconnecting" =>
                           x.timer \/ x.attempts = MaxReconnectAttempts
<1>1. t \in Tabs /\ p \in Page
  BY SockType DEF OnOpen, OnClose, Sock, TypeOK
<1>2. CASE OnOpen(k)
  <2>1. SetPage(t, [p EXCEPT !.attempts = 0, !.status = "open"])
    BY <1>2 DEF OnOpen
  <2>2. Rest([p EXCEPT !.attempts = 0, !.status = "open"])
        /\ [p EXCEPT !.attempts = 0, !.status = "open"].status = "open"
    BY <1>1 DEF Page
  <2>3. /\ page'[t] = [p EXCEPT !.attempts = 0, !.status = "open"]
        /\ \A r \in Tabs \ {t} : page'[r] = page[r]
    BY <1>1, <2>1, OnePageSet
  <2> QED
    BY <1>2, <2>2, <2>3 DEF OnOpen
<1>3. CASE OnClose(k)
  <2>1. q \in Page /\ Rest(q) /\ q.attempts = p.attempts /\ q.timer = p.timer
    BY <1>1 DEF Page
  <2> DEFINE a == AttemptReconnect(q)
  <2>2. DOMAIN a = DOMAIN p /\ Rest(a) /\ (a.timer \/ a.attempts = MaxReconnectAttempts)
    <3>1. CASE q.attempts = MaxReconnectAttempts
      BY <1>1, <2>1, <3>1 DEF AttemptReconnect, Page
    <3>2. CASE q.attempts # MaxReconnectAttempts
      <4>1. a = [q EXCEPT !.attempts = @ + 1, !.timer = TRUE,
                          !.strays = IF q.timer THEN @ + 1 ELSE @]
        BY <3>2 DEF AttemptReconnect
      <4> QED
        BY <1>1, <2>1, <4>1 DEF Page
    <3> QED
      BY <3>1, <3>2
  <2> DEFINE c == Closed(p)
  <2>3. DOMAIN c = DOMAIN p /\ Rest(c) /\ Tries1(c)
    BY <1>1, <2>1, <2>2 DEF Closed, Page
  <2> DEFINE d == [c EXCEPT !.ref = IF @ = k THEN 0 ELSE @]
  <2>4. SetPage(t, d)
    BY <1>3 DEF OnClose
  <2> HIDE DEF c
  <2>5. Rest(d) /\ Tries1(d)
    BY <1>1, <2>3 DEF Page
  <2>6. page'[t] = d /\ \A r \in Tabs \ {t} : page'[r] = page[r]
    BY <1>1, <2>4, OnePageSet
  <2>7. UNCHANGED <<server, calls>> /\ muddled \subseteq muddled'
    BY <1>3 DEF OnClose
  <2> HIDE DEF d
  <2> QED
    BY <2>5, <2>6, <2>7
<1> QED
  BY <1>2, <1>3

LEMMA TurnNetwork ==
  ASSUME TypeOK, AllInTurn,
         \/ \E i \in Calls : Serve(i)
         \/ EndSession
         \/ \E k \in Socks : Accept(k) \/ Refuse(k) \/ Drop(k) \/ OnOpen(k) \/ OnClose(k)
         \/ UNCHANGED vars
  PROVE  AllInTurn'
<1>1. /\ muddled \subseteq muddled'
      /\ \A r \in Tabs : /\ page'[r].user = page[r].user /\ page'[r].auth = page[r].auth
                         /\ page'[r].seen = page[r].seen
      /\ \A i \in Calls, r \in Tabs : Of(i, r)' =>
           /\ Of(i, r) /\ calls'[i].kind = calls[i].kind
           /\ calls'[i].live => calls[i].live
  <2>1. ASSUME NEW i \in Calls, Serve(i) PROVE <1>1!:
    <3>1. /\ calls[i] # NoCall /\ calls'[i].tab = calls[i].tab
          /\ calls'[i].kind = calls[i].kind /\ calls'[i].live = calls[i].live
          /\ \A j \in Calls \ {i} : calls'[j] = calls[j]
          /\ UNCHANGED <<page, muddled>>
      BY <2>1, ServesOne
    <3> QED
      BY <3>1 DEF Of
  <2>2. ASSUME NEW k \in Socks, OnOpen(k) \/ OnClose(k) PROVE <1>1!:
    BY <2>2, SocketShows DEF Of
  <2>3. CASE UNCHANGED <<page, calls, muddled>>
    BY <2>3 DEF Of
  <2> QED
    BY <2>1, <2>2, <2>3 DEF EndSession, Accept, Refuse, Drop, vars
<1> SUFFICES ASSUME NEW r \in Tabs \ muddled' PROVE InTurn(r)'
  BY DEF AllInTurn
<1>2. InTurn(r)
  BY <1>1 DEF AllInTurn
<1> QED
  BY <1>1, <1>2, TurnKept

LEMMA TurnStep ==
  TypeOK /\ Known /\ OneAtWork /\ AllInTurn /\ [Next]_vars => AllInTurn'
BY TurnClick, TurnEffect, TurnAnswer, TurnFail, TurnNetwork DEF Next, Browser

LEMMA CancelledStep == TypeOK /\ CancelledOut /\ [Next]_vars => CancelledOut'
<1> SUFFICES ASSUME TypeOK, CancelledOut, [Next]_vars, NEW t \in Tabs,
                    page'[t].cancelled
             PROVE  page'[t].seen = None
  BY DEF CancelledOut
<1>1. CASE page'[t].cancelled = page[t].cancelled /\ page'[t].seen = page[t].seen
  BY <1>1 DEF CancelledOut
<1>2. CASE Effect(t)
  <2>1. page[t] \in Page
    BY DEF TypeOK
  <2>2. Cleanup(page[t]) \in Page
    BY <2>1 DEF Cleanup, Page
  <2>3. page'[t] = Setup(Cleanup(page[t]))
    BY <1>2, OnePageSet DEF Effect
  <2> QED
    BY <2>2, <2>3 DEF Setup, Page
<1>3. CASE SameWork
  BY <1>1, <1>3 DEF SameWork
<1>4. ASSUME NEW r \in Tabs, Effect(r), r # t PROVE page'[t] = page[t]
  BY <1>4, OnePageSet DEF Effect
<1>5. ASSUME NEW i \in Calls, Deliver(i), Connect(i) \/ Reconnect(i)
      PROVE  page'[t].cancelled = page[t].cancelled /\ page'[t].seen = page[t].seen
  BY <1>5, AnswerOpensOne
<1>6. ASSUME NEW k \in Socks, OnClose(k)
      PROVE  page'[t].cancelled = page[t].cancelled /\ page'[t].seen = page[t].seen
  BY <1>6, SocketShows
<1>7. ASSUME NEW r \in Tabs, Fire(r)
      PROVE  page'[t].cancelled = page[t].cancelled /\ page'[t].seen = page[t].seen
  BY <1>7, FireBeginsOne
<1> QED
  BY <1>1, <1>2, <1>3, <1>4, <1>5, <1>6, <1>7, WorkSteps DEF WorkChanges

(* A page that no other tab has logged in beside and that is not muddled.  *)
Alone == Tabs \ (muddled \cup elsewhere)

(* Nobody logs in, as far as it is concerned, but from itself while it     *)
(* shows nobody: the cookie's session, if there is one, is of whom the     *)
(* page shows and of whom the effect has seen,                             *)
CookieFits(t) ==
  cookie # 0 => /\ page[t].user # None => who[cookie] = page[t].user
                /\ page[t].seen # None => who[cookie] = page[t].seen

(* so is what it has been answered: no session only if there is none now,  *)
AnswersFit(t) ==
  \A i \in Calls : Of(i, t) /\ calls[i].step = "answered" =>
    /\ calls[i].kind \in {"mount", "login"} /\ calls[i].got # 0 /\ cookie # 0 =>
         who[cookie] = who[calls[i].got]
    /\ calls[i].kind \in {"profile", "connect", "refresh"} /\ calls[i].live =>
         IF calls[i].got = 0 THEN cookie = 0 ELSE who[calls[i].got] = page[t].seen

(* and so is its websocket.                                                *)
SocketFits(t) == \A k \in Socks : Alive(k, t) => who[socks[k].session] = page[t].seen

(* It does not stop trying but for a reason.                               *)
KeepsTrying(t) ==
  page[t].seen # None /\ page[t].status = "reconnecting" =>
    \/ page[t].timer
    \/ page[t].attempts = MaxReconnectAttempts
    \/ \E i \in Calls : Works(i, t)
    \/ \E k \in Socks : Alive(k, t)
    \/ page[t].failed
    \/ cookie = 0

Fits == \A t \in Alone : CookieFits(t) /\ AnswersFit(t) /\ SocketFits(t)
Trying == \A t \in Alone : KeepsTrying(t)

(* When a login is answered, a page that it is not elsewhere for shows     *)
(* nobody: it is the page of the login, or has not been loaded.            *)
LEMMA LoginFromNobody ==
  ASSUME TypeOK, AllInTurn, NEW t \in Tabs \ muddled, t \notin elsewhere',
         NEW i \in Calls, Serve(i), ServeLogin(i)
  PROVE  /\ calls[i].step = "asked"
         /\ page[t].user = None /\ page[t].seen = None
         /\ \A j \in Calls : Of(j, t) /\ calls[j].kind \in {"mount", "login"} => j = i
         /\ UNCHANGED page
<1>1. /\ calls[i] # NoCall /\ calls[i].kind = "login" /\ calls[i].step = "asked"
      /\ UNCHANGED page
  BY DEF Serve, ServeLogin
<1>2. calls[i].tab = t \/ page[t].auth = "none"
  BY DEF ServeLogin
<1>3. InTurn(t)
  BY DEF AllInTurn
<1>4. CASE calls[i].tab = t
  BY <1>1, <1>3, <1>4 DEF Of, InTurn
<1>5. CASE page[t].auth = "none"
  BY <1>1, <1>3, <1>5 DEF InTurn
<1> QED
  BY <1>2, <1>4, <1>5

(* Who a page shows, and who the effect has seen, from step to step. *)
LEMMA EffectShows ==
  ASSUME TypeOK, NEW t \in Tabs, Effect(t)
  PROVE  /\ page'[t].user = page[t].user
         /\ page'[t].seen = page[t].user
         /\ page'[t].status # "reconnecting"
         /\ \A r \in Tabs \ {t} : page'[r] = page[r]
         /\ UNCHANGED server
<1>1. page[t] \in Page
  BY DEF TypeOK
<1>2. page'[t] = Setup(Cleanup(page[t])) /\ \A s \in Tabs \ {t} : page'[s] = page[s]
  BY OnePageSet DEF Effect
<1>3. Cleanup(page[t]) \in Page /\ Cleanup(page[t]).user = page[t].user
  BY <1>1 DEF Cleanup, Page
<1> QED
  BY <1>2, <1>3 DEF Setup, Page, Effect

LEMMA ClickShows ==
  ASSUME TypeOK, NEW t \in Tabs,
         Load(t) \/ Logout(t) \/ SaveProfile(t) \/ (\E u \in Users : Login(t, u)) \/ Fire(t)
  PROVE  /\ \A r \in Tabs : /\ page'[r].user = page[r].user
                            /\ page'[r].seen = page[r].seen
                            /\ page'[r].status = page[r].status
                            /\ page'[r].attempts = page[r].attempts
                            /\ page'[r].failed = page[r].failed
                            /\ page'[r].timer = page[r].timer \/ Fire(t)
         /\ \E kind \in Kinds, u \in Users \cup {None} :
              Begin(t, kind, u) /\ (Fire(t) => kind = "refresh")
         /\ UNCHANGED <<server, socks, muddled>>
<1>1. CASE Fire(t)
  <2>1. PICK p : SetPage(t, p) /\ \/ page[t].timer /\ p = [page[t] EXCEPT !.timer = FALSE]
                                  \/ page[t].strays > 0 /\ p = [page[t] EXCEPT !.strays = @ - 1]
    BY <1>1 DEF Fire
  <2>2. page'[t] = p /\ \A s \in Tabs \ {t} : page'[s] = page[s]
    BY <2>1, OnePageSet
  <2>3. /\ p.user = page[t].user /\ p.seen = page[t].seen /\ p.status = page[t].status
        /\ p.attempts = page[t].attempts /\ p.failed = page[t].failed
    BY <2>1 DEF TypeOK, Page
  <2>4. Begin(t, "refresh", None) /\ "refresh" \in Kinds
    BY <1>1 DEF Fire, Kinds
  <2> QED
    BY <1>1, <2>2, <2>3, <2>4 DEF Fire
<1>2. CASE Load(t)
  <2>1. \A r \in Tabs : /\ page'[r].user = page[r].user
                        /\ page'[r].seen = page[r].seen
                        /\ page'[r].status = page[r].status
                        /\ page'[r].attempts = page[r].attempts
                        /\ page'[r].failed = page[r].failed
                        /\ page'[r].timer = page[r].timer
    BY <1>2 DEF Load, TypeOK, Page
  <2>2. Begin(t, "mount", None) /\ "mount" \in Kinds
    BY <1>2 DEF Load, Kinds
  <2>3. UNCHANGED <<server, socks, muddled>>
    BY <1>2 DEF Load
  <2> QED
    BY <2>1, <2>2, <2>3, <1>1
<1>3. CASE Logout(t) \/ SaveProfile(t) \/ \E u \in Users : Login(t, u)
  <2>1. UNCHANGED <<server, page, socks, muddled>>
    BY <1>3 DEF Logout, SaveProfile, Login
  <2>2. \E kind \in Kinds, u \in Users \cup {None} : Begin(t, kind, u)
    BY <1>3 DEF Logout, SaveProfile, Login, Kinds
  <2> QED
    BY <2>1, <2>2, <1>1
<1> QED
  BY <1>1, <1>2, <1>3

LEMMA UserSteps ==
  ASSUME TypeOK, [Next]_vars, NEW r \in Tabs
  PROVE  \/ page'[r].user = page[r].user /\ page'[r].seen = page[r].seen
         \/ Effect(r)
         \/ page'[r].user = None /\ page'[r].seen = page[r].seen
         \/ \E i \in Calls : Deliver(i) /\ calls[i].tab = r /\ calls[i].kind # "connect"
<1> DEFINE Same == page'[r].user = page[r].user /\ page'[r].seen = page[r].seen
<1>1. ASSUME NEW t \in Tabs, t # r, Effect(t) PROVE Same
  BY <1>1, EffectShows
<1>2. ASSUME NEW i \in Calls, Deliver(i)
      PROVE  Same \/ (calls[i].tab = r /\ calls[i].kind # "connect")
  <2>1. PICK t : t = calls[i].tab
    OBVIOUS
  <2>2. /\ \A s \in Tabs \ {t} : page'[s] = page[s]
        /\ page'[t].seen = page[t].seen
        /\ calls[i].kind = "connect" => page'[t].user = page[t].user
    BY <1>2, <2>1, AnswerShows
  <2>3. CASE r # t
    BY <2>2, <2>3
  <2>4. CASE r = t
    BY <2>1, <2>2, <2>4
  <2> QED
    BY <2>3, <2>4
<1>3. ASSUME NEW i \in Calls, Fail(i)
      PROVE  Same \/ (page'[r].user = None /\ page'[r].seen = page[r].seen)
  <2>1. PICK t : t = calls[i].tab
    OBVIOUS
  <2>2. /\ \A s \in Tabs \ {t} : page'[s] = page[s]
        /\ page'[t].seen = page[t].seen
        /\ page'[t].user = IF calls[i].kind = "mount" THEN None ELSE page[t].user
    BY <1>3, <2>1, FailShows
  <2> QED
    BY <2>2
<1>4. ASSUME NEW k \in Socks, OnOpen(k) \/ OnClose(k) PROVE Same
  BY <1>4, SocketShows
<1>5. ASSUME NEW t \in Tabs,
             Load(t) \/ Logout(t) \/ SaveProfile(t) \/ (\E u \in Users : Login(t, u)) \/ Fire(t)
      PROVE  Same
  BY <1>5, ClickShows
<1>6. UNCHANGED page => Same
  OBVIOUS
<1>7. \/ UNCHANGED page
      \/ \E t \in Tabs : Load(t) \/ Logout(t) \/ SaveProfile(t) \/ (\E u \in Users : Login(t, u))
                        \/ Fire(t)
      \/ \E t \in Tabs : Effect(t)
      \/ \E i \in Calls : Deliver(i) \/ Fail(i)
      \/ \E k \in Socks : OnOpen(k) \/ OnClose(k)
  BY DEF Next, Browser, Serve, EndSession, Accept, Refuse, Drop, vars
<1> HIDE DEF Same
<1>8. CASE \E i \in Calls : Deliver(i)
  <2>1. PICK i \in Calls : Deliver(i)
    BY <1>8
  <2>2. Same \/ (calls[i].tab = r /\ calls[i].kind # "connect")
    BY <1>2, <2>1
  <2> QED
    BY <2>1, <2>2 DEF Same
<1>9. CASE \E t \in Tabs : Effect(t)
  <2>1. Same \/ Effect(r)
    BY <1>1, <1>9
  <2> QED
    BY <2>1 DEF Same
<1>10. CASE ~(\E i \in Calls : Deliver(i)) /\ ~(\E t \in Tabs : Effect(t))
  <2>1. Same \/ (page'[r].user = None /\ page'[r].seen = page[r].seen)
    BY <1>3, <1>4, <1>5, <1>6, <1>7, <1>10
  <2> QED
    BY <2>1 DEF Same
<1> QED
  BY <1>8, <1>9, <1>10

LEMMA CookieStep ==
  ASSUME TypeOK, Known, AllInTurn, Fits, [Next]_vars, Alone' \subseteq Alone,
         NEW t \in Tabs, t \in Alone'
  PROVE  CookieFits(t)'
<1>1. /\ t \in Tabs \ muddled /\ t \notin elsewhere' /\ t \notin muddled'
      /\ CookieFits(t) /\ AnswersFit(t) /\ InTurn(t)
  BY DEF Fits, AllInTurn, Alone
<1>2. CASE \E i \in Calls : Serve(i) /\ ServeLogin(i)
  <2>1. page'[t].user = None /\ page'[t].seen = None
    BY <1>1, <1>2, LoginFromNobody
  <2> QED
    BY <2>1 DEF CookieFits
<1>3. CASE cookie' = 0
  BY <1>3 DEF CookieFits
<1>4. CASE UNCHANGED server /\ cookie # 0
  <2>1. cookie' = cookie /\ who' = who
    BY <1>4 DEF server
  <2>2. CASE page'[t].user \in {page[t].user, None} /\ page'[t].seen = page[t].seen
    BY <1>1, <2>1, <2>2 DEF CookieFits
  <2>3. CASE Effect(t)
    <3>1. page'[t].user = page[t].user /\ page'[t].seen = page[t].user
      BY <2>3, EffectShows
    <3> QED
      BY <1>1, <2>1, <3>1 DEF CookieFits
  <2>4. ASSUME NEW i \in Calls, Deliver(i), calls[i].tab = t, calls[i].kind # "connect"
        PROVE  CookieFits(t)'
    <3>1. /\ Of(i, t) /\ calls[i].step = "answered"
          /\ page'[t].seen = page[t].seen
          /\ page'[t].user = UserOf(calls[i].got)
          /\ calls[i].kind \in {"profile", "refresh"} => calls[i].live
      BY <1>1, <2>4, AnswerShows
    <3>2. calls[i].kind \in Kinds
      BY <3>1, CallType DEF Of, Call
    <3>3. CASE calls[i].got = 0
      BY <1>1, <2>1, <3>1, <3>3 DEF CookieFits, UserOf
    <3>4. CASE calls[i].got # 0
      <4>1. page'[t].user = who[calls[i].got]
        BY <3>1, <3>4 DEF UserOf
      <4>2. calls[i].kind # "logout"
        BY <3>1, <3>4 DEF Known, Of
      <4>3. calls[i].kind \in {"mount", "login"} => who[cookie] = who[calls[i].got]
        BY <1>1, <1>4, <3>1, <3>4 DEF AnswersFit
      <4>4. calls[i].kind \in {"profile", "refresh"} =>
              page[t].seen # None /\ who[calls[i].got] = page[t].seen
        BY <1>1, <3>1, <3>4 DEF AnswersFit, InTurn
      <4>5. who[cookie] = who[calls[i].got]
        BY <1>1, <1>4, <2>4, <3>2, <4>2, <4>3, <4>4 DEF CookieFits, Kinds
      <4> QED
        BY <1>1, <2>1, <3>1, <4>1, <4>5 DEF CookieFits
    <3> QED
      BY <3>3, <3>4
  <2> QED
    BY <2>2, <2>3, <2>4, UserSteps
<1> QED
  BY <1>2, <1>3, <1>4, CookieSteps DEF server

(* No step takes the place of who the effect has seen while a request that *)
(* no cleanup came after is under way.                                     *)
LEMMA SeenSteps ==
  ASSUME TypeOK, [Next]_vars, NEW r \in Tabs
  PROVE  page'[r].seen = page[r].seen \/ Effect(r)
<1>1. PICK c : c = page'[r].seen
  OBVIOUS
<1>2. ASSUME NEW i \in Calls, Deliver(i), calls[i].tab = r
      PROVE  page'[r].seen = page[r].seen
  BY <1>2, AnswerShows
<1> QED
  BY <1>2, UserSteps

LEMMA AnswersStep ==
  ASSUME TypeOK, Known, AllInTurn, Fits, [Next]_vars, Alone' \subseteq Alone,
         NEW t \in Tabs, t \in Alone'
  PROVE  AnswersFit(t)'
<1>1. /\ t \in Tabs \ muddled /\ t \notin elsewhere' /\ t \notin muddled'
      /\ CookieFits(t) /\ AnswersFit(t) /\ InTurn(t)
  BY DEF Fits, AllInTurn, Alone
<1> SUFFICES ASSUME NEW i \in Calls, calls'[i] # NoCall, calls'[i].tab = t,
                    calls'[i].step = "answered"
             PROVE  /\ calls'[i].kind \in {"mount", "login"} /\ calls'[i].got # 0 /\ cookie' # 0 =>
                         who'[cookie'] = who'[calls'[i].got]
                    /\ calls'[i].kind \in {"profile", "connect", "refresh"} /\ calls'[i].live =>
                         IF calls'[i].got = 0 THEN cookie' = 0
                         ELSE who'[calls'[i].got] = page'[t].seen
  BY DEF AnswersFit, Of
<1>2. CASE SameCall(i)
  <2>1. /\ Of(i, t) /\ calls[i].step = "answered" /\ calls[i].got \in Sessions \cup {0}
        /\ calls'[i].kind = calls[i].kind /\ calls'[i].got = calls[i].got
        /\ calls'[i].live => calls[i].live
    BY <1>2, CallType DEF SameCall, Of, Call
  <2>2. calls[i].got # 0 => who'[calls[i].got] = who[calls[i].got]
    BY <2>1, WhoStays DEF Known, Of
  <2>3. calls[i].live /\ calls[i].kind \in {"profile", "connect", "refresh"} =>
          page[t].seen # None
    BY <1>1, <2>1 DEF InTurn
  <2>4. \A j \in Calls : Serve(j) /\ ServeLogin(j) =>
          /\ calls[i].kind \notin {"mount", "login"}
          /\ page[t].seen = None
    <3> SUFFICES ASSUME NEW j \in Calls, Serve(j), ServeLogin(j)
                 PROVE  /\ calls[i].kind \notin {"mount", "login"}
                        /\ page[t].seen = None
      OBVIOUS
    <3>1. /\ calls[j].step = "asked" /\ page[t].seen = None
          /\ Of(i, t) /\ calls[i].kind \in {"mount", "login"} => i = j
      BY <1>1, LoginFromNobody
    <3> QED
      BY <2>1, <3>1
  <2>5. UNCHANGED server \/ cookie' = 0 \/ \E j \in Calls : Serve(j) /\ ServeLogin(j)
    BY CookieSteps
  <2>6. calls'[i].kind \in {"mount", "login"} /\ calls'[i].got # 0 /\ cookie' # 0 =>
          who'[cookie'] = who'[calls'[i].got]
    BY <1>1, <2>1, <2>2, <2>4, <2>5 DEF AnswersFit, server
  <2>7. ASSUME calls'[i].kind \in {"profile", "connect", "refresh"}, calls'[i].live
        PROVE  IF calls'[i].got = 0 THEN cookie' = 0 ELSE who'[calls'[i].got] = page'[t].seen
    <3>1. /\ page[t].seen # None
          /\ IF calls[i].got = 0 THEN cookie = 0 ELSE who[calls[i].got] = page[t].seen
      BY <1>1, <2>1, <2>3, <2>7 DEF AnswersFit
    <3>2. cookie' = cookie \/ cookie' = 0
      BY <2>4, <2>5, <3>1 DEF server
    <3>3. ~Effect(t)
      <4>1. SUFFICES ASSUME Effect(t) PROVE FALSE
        OBVIOUS
      <4>2. calls'[i] = CleanupCalls(t)[i]
        BY <1>2, <4>1, EffectCalls DEF SameCall, AskedNow
      <4> QED
        BY <2>1, <2>7, <3>1, <4>2, CleanedCalls DEF Of
    <3>4. page'[t].seen = page[t].seen
      BY <3>3, SeenSteps
    <3> QED
      BY <2>1, <2>2, <3>1, <3>2, <3>4
  <2> QED
    BY <2>6, <2>7
<1>3. CASE AskedNow(i)
  BY <1>3, NewCallIs DEF AskedNow
<1>4. CASE Serve(i)
  <2>1. /\ calls[i] # NoCall /\ calls'[i].got = cookie'
        /\ calls'[i].kind = calls[i].kind /\ calls'[i].tab = calls[i].tab
        /\ calls'[i].live = calls[i].live
        /\ calls[i].kind \in Checks => UNCHANGED cookie
        /\ UNCHANGED page
    BY <1>4, ServesOne
  <2>2. ASSUME calls[i].kind \in {"profile", "connect", "refresh"}, calls[i].live, cookie' # 0
        PROVE  who'[cookie'] = page'[t].seen
    <3>1. cookie' = cookie
      BY <2>1, <2>2 DEF Checks
    <3>2. page[t].seen # None
      BY <1>1, <2>1, <2>2 DEF InTurn, Of
    <3>3. who[cookie] = page[t].seen
      BY <1>1, <2>2, <3>1, <3>2 DEF CookieFits
    <3>4. who'[cookie] = who[cookie]
      BY <2>2, <3>1, WhoStays DEF Known, TypeOK
    <3> QED
      BY <2>1, <3>1, <3>3, <3>4
  <2> QED
    BY <2>1, <2>2
<1> QED
  BY <1>2, <1>3, <1>4, CallSteps

LEMMA SocketStep ==
  ASSUME TypeOK, Known, OneAtWork, AllInTurn, Fits, [Next]_vars,
         Alone' \subseteq Alone, NEW t \in Tabs, t \in Alone'
  PROVE  SocketFits(t)'
<1>1. /\ t \in Tabs \ muddled /\ t \notin muddled'
      /\ AtOnce(t) /\ AnswersFit(t) /\ SocketFits(t) /\ InTurn(t)
  BY DEF Fits, AllInTurn, OneAtWork, Alone
<1> SUFFICES ASSUME NEW k \in Socks, socks'[k] # NoSock, socks'[k].tab = t,
                    socks'[k].step \in {"dialing", "open"}
             PROVE  who'[socks'[k].session] = page'[t].seen
  BY DEF SocketFits, Alive
<1>2. CASE SameSock(k)
  <2>1. /\ socks[k] \in Sock /\ socks[k] # NoSock /\ socks[k].tab = t
        /\ socks'[k].session = socks[k].session
        /\ socks[k].step # "closing"
    BY <1>2, SockType DEF SameSock
  <2>2. Alive(k, t)
    BY <2>1 DEF Alive, Sock
  <2>3. page[t].seen # None /\ page[t].ref = k /\ who[socks[k].session] = page[t].seen
    BY <1>1, <2>2 DEF AtOnce, SocketFits
  <2>4. ~Effect(t)
    BY <2>3, EffectEndsAll
  <2>5. page'[t].seen = page[t].seen
    BY <2>4, SeenSteps
  <2>6. who'[socks[k].session] = who[socks[k].session]
    BY <2>1, <2>3, WhoStays DEF Sock
  <2> QED
    BY <2>1, <2>3, <2>5, <2>6
<1>3. CASE OpenedNow(k)
  <2>1. PICK i \in Calls :
          /\ Deliver(i) /\ calls[i].got # 0
          /\ \/ Connect(i) /\ calls[i].live
             \/ Reconnect(i) /\ ~page[calls[i].tab].cancelled
          /\ socks'[k].tab = calls[i].tab /\ socks'[k].session = calls[i].got
    BY <1>3 DEF OpenedNow
  <2>2. calls[i].tab = t
    BY <2>1
  <2>3. /\ Of(i, t) /\ calls[i].step = "answered"
        /\ page'[t].seen = page[t].seen
        /\ calls[i].kind = "refresh" => calls[i].live
        /\ UNCHANGED server
    BY <1>1, <2>1, <2>2, AnswerShows
  <2>4. calls[i].live /\ calls[i].kind \in {"connect", "refresh"}
    BY <2>1, <2>3 DEF Connect, Reconnect
  <2>5. who[calls[i].got] = page[t].seen
    BY <1>1, <2>1, <2>3, <2>4 DEF AnswersFit
  <2> QED
    BY <2>1, <2>3, <2>5 DEF server
<1> QED
  BY <1>2, <1>3, SockSteps

LEMMA MuddledGrows == TypeOK /\ [Next]_vars => muddled \subseteq muddled'
<1> SUFFICES ASSUME TypeOK, [Next]_vars PROVE muddled \subseteq muddled'
  OBVIOUS
<1>1. ASSUME NEW k \in Socks, OnClose(k) PROVE muddled \subseteq muddled'
  BY <1>1, SocketShows
<1>2. ASSUME NEW i \in Calls, Deliver(i) PROVE muddled \subseteq muddled'
  BY <1>2, AnswerShows
<1>3. ASSUME NEW t \in Tabs, Fire(t) \/ Effect(t) PROVE muddled \subseteq muddled'
  BY <1>3 DEF Fire, Effect
<1> QED
  BY <1>1, <1>2, <1>3, WorkSteps DEF WorkChanges, SameWork

LEMMA AloneShrinks == TypeOK /\ [Next]_vars => Alone' \subseteq Alone
<1> SUFFICES ASSUME TypeOK, [Next]_vars PROVE elsewhere \subseteq elsewhere'
  BY MuddledGrows DEF Alone
<1> QED
  BY CookieSteps DEF ServeLogin, server

(* A websocket stays with its page where no effect and no close takes it.  *)
LEMMA AliveStays ==
  ASSUME TypeOK, NEW k \in Socks, NEW t \in Tabs, Alive(k, t),
         \/ UNCHANGED socks
         \/ \E i \in Calls : Serve(i) \/ Deliver(i)
         \/ \E j \in Socks : Accept(j) \/ Refuse(j) \/ Drop(j)
  PROVE  Alive(k, t)'
<1>1. socks[k] \in Sock /\ socks[k] # NoSock
  BY SockType DEF Alive
<1>2. CASE UNCHANGED socks
  BY <1>2 DEF Alive
<1>3. ASSUME NEW i \in Calls, Serve(i) PROVE Alive(k, t)'
  BY <1>1, <1>3, ServesOne DEF Alive
<1>4. ASSUME NEW i \in Calls, Deliver(i) PROVE Alive(k, t)'
  <2>1. UNCHANGED socks \/ \E j \in Socks : OpenedNow(j)
    BY <1>4, OpensThis DEF Deliver, Mounted, LoggedIn, Refreshed, Connect, Reconnect
  <2> QED
    BY <1>1, <1>2, <2>1 DEF OpenedNow, Alive
<1>5. ASSUME NEW j \in Socks, Accept(j) \/ Refuse(j) \/ Drop(j) PROVE Alive(k, t)'
  <2>1. /\ socks'[k] # NoSock
        /\ socks'[k].tab = socks[k].tab /\ socks'[k].step = socks[k].step
    BY <1>1, <1>5, SocksAreTold DEF Accept, Refuse, Drop, Ends, Sock, NoSock, TypeOK
  <2> QED
    BY <2>1 DEF Alive
<1> QED
  BY <1>2, <1>3, <1>4, <1>5

(* A page's socketRef is one of its own websockets, so that a cleanup      *)
(* closes none of another page.                                            *)
RefsAreOwn ==
  \A t \in Tabs, k \in Socks : page[t].ref = k => socks[k] # NoSock /\ socks[k].tab = t

LEMMA RefsKept ==
  ASSUME RefsAreOwn,
         \A t \in Tabs : page'[t].ref = page[t].ref \/ page'[t].ref \notin Socks,
         \A k \in Socks : socks[k] # NoSock => socks'[k] # NoSock /\ socks'[k].tab = socks[k].tab
  PROVE  RefsAreOwn'
BY DEF RefsAreOwn

LEMMA RefsStep == TypeOK /\ RefsAreOwn /\ [Next]_vars => RefsAreOwn'
<1> SUFFICES ASSUME TypeOK, RefsAreOwn, [Next]_vars PROVE RefsAreOwn'
  OBVIOUS
<1>1. ASSUME UNCHANGED socks, \A t \in Tabs : page'[t].ref = page[t].ref PROVE RefsAreOwn'
  BY <1>1, RefsKept
<1>2. ASSUME NEW t \in Tabs,
             Load(t) \/ Logout(t) \/ SaveProfile(t) \/ (\E u \in Users : Login(t, u)) \/ Fire(t)
      PROVE  RefsAreOwn'
  BY <1>1, <1>2 DEF Load, Logout, SaveProfile, Login, Fire, SetPage, TypeOK, Page
<1>3. ASSUME UNCHANGED page, (\E i \in Calls : Serve(i)) \/ EndSession
      PROVE  RefsAreOwn'
  <2>1. UNCHANGED socks \/ \E S : CloseAt(S)
    BY <1>3 DEF Serve, ServeCheckLogin, ServeLogin, ServeLogout, EndSession
  <2> QED
    BY <1>1, <1>3, <2>1, ClosesOnlyEnds, RefsKept
<1>4. ASSUME NEW k \in Socks, Accept(k) \/ Refuse(k) \/ Drop(k) \/ OnOpen(k)
      PROVE  RefsAreOwn'
  <2>1. \A j \in Socks : socks[j] # NoSock =>
          socks'[j] # NoSock /\ socks'[j].tab = socks[j].tab
    BY <1>4, SockType, SocksAreTold DEF Accept, Refuse, Drop, OnOpen, Ends, Sock, NoSock, TypeOK
  <2>2. \A t \in Tabs : page'[t].ref = page[t].ref
    <3>1. ASSUME OnOpen(k) PROVE \A t \in Tabs : page'[t].ref = page[t].ref
      <4>1. PICK t : t = socks[k].tab
        OBVIOUS
      <4>2. page' = [page EXCEPT ![t] = [page[t] EXCEPT !.attempts = 0, !.status = "open"]]
        BY <3>1, <4>1 DEF OnOpen, SetPage
      <4> QED
        BY <4>2 DEF TypeOK, Page
    <3> QED
      BY <1>4, <3>1 DEF Accept, Refuse, Drop
  <2> QED
    BY <2>1, <2>2, RefsKept
<1>5. ASSUME NEW k \in Socks, OnClose(k) PROVE RefsAreOwn'
  <2>1. PICK t \in Tabs : t = socks[k].tab
    BY <1>5, CloseEndsOne
  <2>2. /\ \A j \in Socks \ {k} : socks'[j] = socks[j]
        /\ page'[t].ref = IF page[t].ref = k THEN 0 ELSE page[t].ref
        /\ \A r \in Tabs \ {t} : page'[r] = page[r]
    BY <1>5, <2>1, CloseEndsOne
  <2>3. 0 \notin Socks
    BY DEF Socks
  <2> QED
    BY <2>1, <2>2, <2>3 DEF RefsAreOwn
<1>6. ASSUME NEW t \in Tabs, Effect(t) PROVE RefsAreOwn'
  <2>1. \A j \in Socks : socks[j] # NoSock =>
          socks'[j] # NoSock /\ socks'[j].tab = socks[j].tab
    BY <1>6, SockType, SocksAreTold DEF Effect, CleanupSocks, Sock, NoSock
  <2>2. page[t] \in Page /\ page'[t] = Setup(Cleanup(page[t]))
        /\ \A r \in Tabs \ {t} : page'[r] = page[r]
    BY <1>6, OnePageSet DEF Effect, TypeOK
  <2>3. Setup(Cleanup(page[t])).ref \in {page[t].ref, None}
    <3>1. Cleanup(page[t]) \in Page /\ Cleanup(page[t]).ref \in {page[t].ref, None}
      BY <2>2 DEF Cleanup, Page
    <3> QED
      BY <3>1 DEF Setup, Page
  <2>4. None \notin Socks
    BY WebClientAssumption DEF Socks
  <2> QED
    BY <2>1, <2>2, <2>3, <2>4, RefsKept
<1>7. ASSUME NEW i \in Calls, Deliver(i) PROVE RefsAreOwn'
  <2>1. PICK t \in Tabs : t = calls[i].tab
    BY <1>7, AnswerShows
  <2>2. \A r \in Tabs \ {t} : page'[r] = page[r]
    BY <1>7, <2>1, AnswerShows
  <2>3. CASE Connect(i) \/ Reconnect(i)
    <3>1. CASE UNCHANGED socks /\ page'[t].ref = page[t].ref
      BY <1>1, <2>2, <3>1
    <3>2. ASSUME NEW k \in Socks, socks[k] = NoSock, socks'[k] # NoSock, socks'[k].tab = t,
                 \A j \in Socks \ {k} : socks'[j] = socks[j], page'[t].ref = k
          PROVE  RefsAreOwn'
      BY <2>1, <2>2, <3>2 DEF RefsAreOwn
    <3> QED
      BY <1>7, <2>1, <2>3, <3>1, <3>2, AnswerOpensOne
  <2>4. CASE Mounted(i) \/ LoggedIn(i) \/ Refreshed(i)
    <3>1. page[t] \in Page /\ UNCHANGED socks
      BY <2>4 DEF TypeOK, Mounted, LoggedIn, Refreshed
    <3>2. SetPage(t, SetUser(i)) \/ SetPage(t, [SetUser(i) EXCEPT !.auth = "ready"])
      BY <2>1, <2>4 DEF Mounted, LoggedIn, Refreshed
    <3>3. SetUser(i) = [page[t] EXCEPT !.user = UserOf(calls[i].got)]
      BY <2>1 DEF SetUser
    <3>4. page'[t] \in {SetUser(i), [SetUser(i) EXCEPT !.auth = "ready"]}
      BY <3>2, OnePageSet
    <3>5. page'[t].ref = page[t].ref
      BY <3>1, <3>3, <3>4 DEF Page
    <3> QED
      BY <1>1, <2>2, <3>1, <3>5
  <2> QED
    BY <1>7, <2>3, <2>4 DEF Deliver
<1>8. ASSUME NEW i \in Calls, Fail(i) PROVE RefsAreOwn'
  BY <1>1, <1>8 DEF Fail, SetPage, TypeOK, Page
<1>9. UNCHANGED vars => RefsAreOwn'
  BY <1>1 DEF vars
<1> QED
  BY <1>2, <1>3, <1>4, <1>5, <1>6, <1>7, <1>8, <1>9 DEF Next, Browser, Serve, EndSession

LEMMA TryingKept ==
  ASSUME NEW t \in Tabs, KeepsTrying(t), cookie' \in {cookie, 0},
         page'[t].seen = page[t].seen, page'[t].status = page[t].status,
         page'[t].timer = page[t].timer, page'[t].attempts = page[t].attempts,
         page[t].failed => page'[t].failed,
         \A i \in Calls : Works(i, t) =>
           Works(i, t)' \/ page'[t].failed \/ cookie' = 0 \/ \E k \in Socks : Alive(k, t)',
         \A k \in Socks : Alive(k, t) => Alive(k, t)'
  PROVE  KeepsTrying(t)'
BY DEF KeepsTrying

(* What another tab does stops no attempt of this one. *)
LEMMA OthersClick ==
  ASSUME TypeOK, NEW t \in Tabs, KeepsTrying(t), NEW r \in Tabs \ {t},
         Load(r) \/ Logout(r) \/ SaveProfile(r) \/ (\E u \in Users : Login(r, u)) \/ Fire(r)
  PROVE  KeepsTrying(t)'
<1>1. PICK kind \in Kinds, u \in Users \cup {None} : Begin(r, kind, u)
  BY ClickShows
<1>2. PICK i \in Calls : calls[i] = NoCall /\ \A j \in Calls \ {i} : calls'[j] = calls[j]
  BY <1>1, BeginsOne
<1>3. page'[t] = page[t]
  BY DEF Load, Logout, SaveProfile, Login, Fire, SetPage, TypeOK
<1>4. UNCHANGED <<server, socks>>
  BY ClickShows
<1>5. \A j \in Calls : Works(j, t) => Works(j, t)'
  BY <1>2 DEF Works, Tries
<1>6. \A k \in Socks : Alive(k, t) => Alive(k, t)'
  BY <1>4 DEF Alive
<1> QED
  BY <1>3, <1>4, <1>5, <1>6, TryingKept DEF server

LEMMA OthersEffect ==
  ASSUME TypeOK, RefsAreOwn, NEW t \in Tabs, KeepsTrying(t), NEW r \in Tabs \ {t}, Effect(r)
  PROVE  KeepsTrying(t)'
<1>1. page'[t] = page[t] /\ UNCHANGED server
  BY EffectShows
<1>2. \A j \in Calls : Works(j, t) => Works(j, t)'
  <2>1. \A j \in Calls : Works(j, t) => CleanupCalls(r)[j] = calls[j]
    BY DEF CleanupCalls, Works, Tries
  <2>2. DOMAIN CleanupCalls(r) = Calls
    BY DEF CleanupCalls
  <2>3. \A j \in Calls : calls[j] # NoCall => calls'[j] = CleanupCalls(r)[j]
    BY <2>2 DEF Effect, First, FreeCalls
  <2> QED
    BY <2>1, <2>3 DEF Works, Tries
<1>3. \A k \in Socks : Alive(k, t) => Alive(k, t)'
  BY DEF Effect, CleanupSocks, RefsAreOwn, Alive
<1> QED
  BY <1>1, <1>2, <1>3, TryingKept DEF server

LEMMA OthersSocket ==
  ASSUME TypeOK, NEW t \in Tabs, KeepsTrying(t),
         NEW k \in Socks, OnOpen(k) \/ OnClose(k), socks[k].tab # t
  PROVE  KeepsTrying(t)'
<1>1. page'[t] = page[t]
  BY DEF OnOpen, OnClose, SetPage, TypeOK
<1>2. \A j \in Socks \ {k} : socks'[j] = socks[j]
  BY DEF OnOpen, OnClose, TypeOK
<1>3. UNCHANGED <<server, calls>>
  BY SocketShows
<1>4. /\ \A j \in Socks : Alive(j, t) => Alive(j, t)'
      /\ \A i \in Calls : Works(i, t) => Works(i, t)'
  BY <1>2, <1>3 DEF Alive, Works, Tries
<1> QED
  BY <1>1, <1>3, <1>4, TryingKept DEF server

LEMMA OthersAnswer ==
  ASSUME TypeOK, NEW t \in Tabs, KeepsTrying(t),
         NEW i \in Calls, Deliver(i), calls[i].tab # t
  PROVE  KeepsTrying(t)'
<1>1. /\ page'[t] = page[t] /\ UNCHANGED server
      /\ \A j \in Calls \ {i} : calls'[j] = calls[j]
  BY AnswerShows
<1>2. \A k \in Socks : Alive(k, t) => Alive(k, t)'
  BY AliveStays
<1>3. \A j \in Calls : Works(j, t) => Works(j, t)'
  BY <1>1 DEF Works, Tries
<1> QED
  BY <1>1, <1>2, <1>3, TryingKept DEF server

LEMMA OthersFailure ==
  ASSUME TypeOK, NEW t \in Tabs, KeepsTrying(t),
         NEW i \in Calls, Fail(i), calls[i].tab # t
  PROVE  KeepsTrying(t)'
<1>1. /\ page'[t] = page[t] /\ UNCHANGED <<server, socks>>
      /\ \A j \in Calls \ {i} : calls'[j] = calls[j]
  BY FailShows
<1>2. /\ \A k \in Socks : Alive(k, t) => Alive(k, t)'
      /\ \A j \in Calls : Works(j, t) => Works(j, t)'
  BY <1>1 DEF Alive, Works, Tries
<1> QED
  BY <1>1, <1>2, TryingKept DEF server

LEMMA TryingStep ==
  ASSUME TypeOK, Known, CancelledOut, OneAtWork, AllInTurn, RefsAreOwn,
         Fits, Trying, [Next]_vars, Alone' \subseteq Alone, NEW t \in Tabs, t \in Alone'
  PROVE  KeepsTrying(t)'
<1>1. /\ t \in Tabs \ muddled /\ t \notin elsewhere' /\ AtOnce(t) /\ AnswersFit(t) /\ InTurn(t)
      /\ KeepsTrying(t)
  BY DEF Fits, Trying, AllInTurn, OneAtWork, Alone
<1>2. \A i \in Calls, r \in Tabs : Works(i, r) => Of(i, r)
  BY DEF Works, Tries, Of
<1>3. ASSUME NEW r \in Tabs,
             Load(r) \/ Logout(r) \/ SaveProfile(r) \/ (\E u \in Users : Login(r, u)) \/ Fire(r)
      PROVE  KeepsTrying(t)'
  <2> SUFFICES ASSUME r = t PROVE KeepsTrying(t)'
    BY <1>1, <1>3, OthersClick
  <2>1. r = t
    OBVIOUS
  <2>2. PICK kind \in Kinds, u \in Users \cup {None} :
          Begin(t, kind, u) /\ (Fire(t) => kind = "refresh")
    BY <1>3, <2>1, ClickShows
  <2>3. PICK i \in Calls :
          /\ calls[i] = NoCall
          /\ calls'[i] = NewCall(t, kind, u)
          /\ \A j \in Calls \ {i} : calls'[j] = calls[j]
    BY <2>2, BeginsOne
  <2>4. CASE Fire(t)
    <3>1. Works(i, t)'
      BY <2>2, <2>3, <2>4, NewCallIs DEF Works, Tries
    <3> QED
      BY <3>1 DEF KeepsTrying
  <2>5. CASE ~Fire(t)
    <3>1. \A j \in Calls : Works(j, t) => Works(j, t)'
      BY <2>3 DEF Works, Tries
    <3>2. /\ page'[t].seen = page[t].seen /\ page'[t].status = page[t].status
          /\ page'[t].timer = page[t].timer /\ page'[t].attempts = page[t].attempts
          /\ page'[t].failed = page[t].failed
          /\ UNCHANGED <<server, socks>>
      BY <1>3, <2>1, <2>5, ClickShows
    <3>3. \A k \in Socks : Alive(k, t) => Alive(k, t)'
      BY <3>2 DEF Alive
    <3> QED
      BY <1>1, <3>1, <3>2, <3>3, TryingKept DEF server
  <2> QED
    BY <2>4, <2>5
<1>4. ASSUME NEW r \in Tabs, Effect(r) PROVE KeepsTrying(t)'
  <2>1. CASE r = t
    BY <1>4, <2>1, EffectShows DEF KeepsTrying
  <2> QED
    BY <1>1, <1>4, <2>1, OthersEffect
<1>5. ASSUME NEW k \in Socks, OnOpen(k) \/ OnClose(k) PROVE KeepsTrying(t)'
  <2>1. CASE socks[k].tab = t
    BY <1>1, <1>5, <2>1, SocketShows DEF KeepsTrying
  <2> QED
    BY <1>1, <1>5, <2>1, OthersSocket
<1>6. ASSUME NEW i \in Calls, Serve(i) PROVE KeepsTrying(t)'
  <2>1. CASE ServeLogin(i)
    <3>1. page'[t].seen = None
      BY <1>1, <1>6, <2>1, LoginFromNobody
    <3> QED
      BY <3>1 DEF KeepsTrying
  <2>2. CASE ~ServeLogin(i)
    <3>1. cookie' \in {cookie, 0}
      BY <1>6, <2>2 DEF Serve, ServeCheckLogin, ServeLogout, server
    <3>2. \A j \in Calls : Works(j, t) => Works(j, t)'
      BY <1>6, ServesOne DEF Works, Tries
    <3>3. \A k \in Socks : Alive(k, t) => Alive(k, t)'
      BY <1>1, <1>6, AliveStays
    <3>4. UNCHANGED page
      BY <1>6 DEF Serve
    <3> QED
      BY <1>1, <3>1, <3>2, <3>3, <3>4, TryingKept
  <2> QED
    BY <2>1, <2>2
<1>7. CASE EndSession
  BY <1>7 DEF EndSession, KeepsTrying
<1>8. ASSUME NEW k \in Socks, Accept(k) \/ Refuse(k) \/ Drop(k) PROVE KeepsTrying(t)'
  <2>1. UNCHANGED <<server, page, calls>>
    BY <1>8 DEF Accept, Refuse, Drop
  <2>2. \A j \in Socks : Alive(j, t) => Alive(j, t)'
    BY <1>1, <1>8, AliveStays
  <2>3. \A j \in Calls : Works(j, t) => Works(j, t)'
    BY <2>1 DEF Works, Tries
  <2> QED
    BY <1>1, <2>1, <2>2, <2>3, TryingKept DEF server
<1>9. ASSUME NEW i \in Calls, Deliver(i) PROVE KeepsTrying(t)'
  <2> SUFFICES ASSUME calls[i].tab = t PROVE KeepsTrying(t)'
    BY <1>1, <1>9, OthersAnswer
  <2>1. calls[i].tab = t
    OBVIOUS
  <2>2. /\ Of(i, t) /\ calls[i].step = "answered"
        /\ \A j \in Calls \ {i} : calls'[j] = calls[j]
        /\ page'[t].seen = page[t].seen
        /\ page'[t].status = page[t].status
        /\ page'[t].attempts = page[t].attempts
        /\ page'[t].timer = page[t].timer
        /\ page'[t].failed = page[t].failed
        /\ UNCHANGED server
    BY <1>9, <2>1, AnswerShows
  <2>3. \A k \in Socks : Alive(k, t) => Alive(k, t)'
    BY <1>1, <1>9, AliveStays
  <2>4. \A j \in Calls \ {i} : Works(j, t) => Works(j, t)'
    BY <2>2 DEF Works, Tries
  <2>5. ASSUME Works(i, t), calls[i].got # 0
        PROVE  \E k \in Socks : Alive(k, t)'
    <3>1. calls[i].live /\ calls[i].kind \in {"connect", "refresh"}
      BY <2>5 DEF Works, Tries
    <3>2. ~page[t].cancelled
      BY <1>1, <2>2, <3>1 DEF InTurn, CancelledOut
    <3>3. Connect(i) \/ Reconnect(i)
      BY <1>9, <3>1 DEF Deliver, Mounted, LoggedIn, Refreshed
    <3>4. PICK k \in Socks : OpenedNow(k)
      BY <1>9, <2>1, <2>5, <3>1, <3>2, <3>3, OpensThis
    <3>5. PICK j \in Calls : /\ Deliver(j) /\ socks'[k].tab = calls[j].tab
                             /\ socks'[k] # NoSock /\ socks'[k].step = "dialing"
      BY <3>4 DEF OpenedNow
    <3>6. j = i
      BY <1>9, <3>5, <2>2, AnswerShows DEF Deliver
    <3> QED
      BY <2>1, <3>5, <3>6 DEF Alive
  <2>6. Works(i, t) /\ calls[i].got = 0 => cookie' = 0
    BY <1>1, <2>2 DEF AnswersFit, Works, Tries, server
  <2> QED
    BY <1>1, <2>2, <2>3, <2>4, <2>5, <2>6, TryingKept DEF server
<1>10. ASSUME NEW i \in Calls, Fail(i) PROVE KeepsTrying(t)'
  <2> SUFFICES ASSUME calls[i].tab = t PROVE KeepsTrying(t)'
    BY <1>1, <1>10, OthersFailure
  <2>1. calls[i].tab = t
    OBVIOUS
  <2>2. /\ \A j \in Calls \ {i} : calls'[j] = calls[j]
        /\ page'[t].seen = page[t].seen
        /\ page'[t].status = page[t].status
        /\ page'[t].attempts = page[t].attempts
        /\ page'[t].timer = page[t].timer
        /\ page[t].failed => page'[t].failed
        /\ calls[i].kind \in {"connect", "refresh"} => page'[t].failed
        /\ UNCHANGED <<server, socks>>
    BY <1>10, <2>1, FailShows
  <2>3. \A k \in Socks : Alive(k, t) => Alive(k, t)'
    BY <2>2 DEF Alive
  <2>4. \A j \in Calls : Works(j, t) => Works(j, t)' \/ page'[t].failed
    BY <2>2 DEF Works, Tries
  <2> QED
    BY <1>1, <2>2, <2>3, <2>4, TryingKept DEF server
<1>11. CASE UNCHANGED vars
  <2>1. /\ \A k \in Socks : Alive(k, t) => Alive(k, t)'
        /\ \A j \in Calls : Works(j, t) => Works(j, t)'
    BY <1>11 DEF vars, Alive, Works, Tries
  <2> QED
    BY <1>1, <1>11, <2>1, TryingKept DEF vars
<1> QED
  BY <1>3, <1>4, <1>5, <1>6, <1>7, <1>8, <1>9, <1>10, <1>11 DEF Next, Browser

WholeInv == OneAtWork /\ CancelledOut /\ AllInTurn /\ RefsAreOwn

LEMMA WholeAlways == Spec => []WholeInv
<1>1. Init => WholeInv
  BY WebClientAssumption DEF Init, WholeInv, OneAtWork, AtOnce, Works, Tries, Alive, CancelledOut, AllInTurn, InTurn,
     Of, Blank, RefsAreOwn, Socks
<1>2. TypeOK /\ Known /\ WholeInv /\ [Next]_vars => WholeInv'
  BY OneStep, CancelledStep, TurnStep, RefsStep DEF WholeInv
<1> QED
  BY <1>1, <1>2, TypeCorrect, KnownAlways, PTL DEF Spec

LEMMA FitsAlways == Spec => [](Fits /\ Trying)
<1>1. Init => Fits /\ Trying
  BY DEF Init, Fits, Trying, CookieFits, AnswersFit, SocketFits, KeepsTrying, Of, Alive, Alone,
     Blank
<1>2. TypeOK /\ Known /\ WholeInv /\ Fits /\ Trying /\ [Next]_vars => (Fits /\ Trying)'
  <2> SUFFICES ASSUME TypeOK, Known, WholeInv, Fits, Trying, [Next]_vars
               PROVE  (Fits /\ Trying)'
    OBVIOUS
  <2>1. Alone' \subseteq Alone
    BY AloneShrinks
  <2>2. OneAtWork /\ CancelledOut /\ AllInTurn /\ RefsAreOwn
    BY DEF WholeInv
  <2>3. ASSUME NEW t \in Tabs, t \in Alone'
        PROVE  CookieFits(t)' /\ AnswersFit(t)' /\ SocketFits(t)' /\ KeepsTrying(t)'
    BY <2>1, <2>2, <2>3, CookieStep, AnswersStep, SocketStep, TryingStep
  <2>4. Alone' \subseteq Tabs
    BY DEF Alone
  <2> QED
    BY <2>3, <2>4 DEF Fits, Trying
<1> QED
  BY <1>1, <1>2, TypeCorrect, KnownAlways, WholeAlways, PTL DEF Spec

(* The websocket of a page is of a session of the user that the page shows *)
(* (SocketIsMine), in any number of tabs and over any number of sessions   *)
(* and faults, unless another tab has logged in beside it, an answer from  *)
(* before a cleanup was used after it, or the close of another websocket   *)
(* was taken for its close.                                                *)
THEOREM SocketStaysMine == Spec => []SocketIsMine
<1>1. Fits => SocketIsMine
  BY DEF Fits, SocketFits, SocketIsMine, Alone
<1> QED
  BY <1>1, FitsAlways, PTL

(* A page that says it is reconnecting is, has tried often enough, or had  *)
(* a check rejected (StuckOnlyByFailure), in any number of tabs and over   *)
(* any number of sessions, requests and faults, with the same exceptions.  *)
THEOREM ReconnectsGoOn == Spec => []StuckOnlyByFailure
<1>1. Known /\ Trying => StuckOnlyByFailure
  <2> SUFFICES ASSUME Known, Trying, NEW t \in Tabs \ (muddled \cup elsewhere),
                      page[t].status = "reconnecting", page[t].user = page[t].seen,
                      cookie # 0, who[cookie] = page[t].user, ~page[t].failed
               PROVE  \/ page[t].timer
                      \/ page[t].attempts = MaxReconnectAttempts
                      \/ Has(t, {"refresh", "connect"})
                      \/ \E k \in Socks : Alive(k, t)
    BY DEF StuckOnlyByFailure
  <2>1. page[t].seen # None
    BY DEF Known
  <2>2. \A i \in Calls : Works(i, t) => Has(t, {"refresh", "connect"})
    BY DEF Works, Tries, Has
  <2> QED
    BY <2>1, <2>2 DEF Trying, KeepsTrying, Alone
<1> QED
  BY <1>1, KnownAlways, FitsAlways, PTL
=============================================================================
