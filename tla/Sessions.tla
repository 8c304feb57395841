------------------------------ MODULE Sessions ------------------------------
(***************************************************************************)
(* The session manager of the forum server: m.clients and its session-id   *)
(* index, one-time passwords, the online set (LoggedInList), the websocket *)
(* connection of each client and the two goroutines started for it, and    *)
(* the HTTP handlers that log in, log out, check, upgrade, expire and      *)
(* revoke sessions.                                                        *)
(*                                                                         *)
(* Code that runs under one m.Lock() is one action.  A handler that        *)
(* releases the lock, or decides on a database row before taking it, is    *)
(* one action per such section, its locals kept in req[h].  The users-     *)
(* online broadcasts that end most handlers change none of this state.     *)
(***************************************************************************)
EXTENDS SessionsState

-----------------------------------------------------------------------------
(* Faulty variants of the actions below, each with a plausible bug.  Next  *)
(* has none of them: they are what the properties must tell from the code. *)

(* Of the account's logged-in clients only connected ones are replaced. *)
LoginReplacingConnected(h) ==
  /\ At(h, "login")
  /\ LET u   == req[h].user
         old == {c \in clients : cl[c].user = u /\ cl[c].loggedIn /\ conn[c] # None}
     IN  \E s \in SessionIDs, c \in Clients :
           /\ FreshSession(s)
           /\ FreshClient(c)
           /\ clients' = (clients \ old) \cup {c}
           /\ index' = [IndexWithout(old) EXCEPT ![s] = c]
           /\ cl' = [cl EXCEPT ![c] = [sess |-> s, user |-> u, loggedIn |-> TRUE,
                                      read |-> req[h].epoch, made |-> epoch[u]]]
           /\ CloseConnections(old)
           /\ online' = online \ {u}
           /\ MintOtp(s)
  /\ Return(h)
  /\ UNCHANGED <<expired, accounts>>

(* The browser's session id is kept if it already has one. *)
LoginKeepingCookie(h) ==
  /\ At(h, "login")
  /\ LET u   == req[h].user
         old == {c \in clients : cl[c].user = u /\ cl[c].loggedIn}
     IN  \E s \in SessionIDs, c \in Clients :
           /\ index[s] \in old \cup {None}
           /\ FreshClient(c)
           /\ clients' = (clients \ old) \cup {c}
           /\ index' = [IndexWithout(old) EXCEPT ![s] = c]
           /\ cl' = [cl EXCEPT ![c] = [sess |-> s, user |-> u, loggedIn |-> TRUE,
                                      read |-> req[h].epoch, made |-> epoch[u]]]
           /\ CloseConnections(old)
           /\ online' = online \ {u}
           /\ MintOtp(s)
  /\ Return(h)
  /\ UNCHANGED <<expired, accounts>>

(* The client is evicted without looking at its age again. *)
AuthEvictUnchecked(h) ==
  /\ At(h, "evict")
  /\ Drop({req[h].client} \cap clients)
  /\ Return(h)
  /\ UNCHANGED <<online, tickets, accounts>>

(* The key stays redeemable until it expires. *)
WsVerifyKeepingKey(h, o, s) ==
  /\ At(h, "idle")
  /\ o \in otps
  /\ ~FreshSession(s)
  /\ otpFor[o] = s
  /\ Goto(h, [Idle EXCEPT !.pc = "ws", !.sess = s, !.otp = o])
  /\ UNCHANGED <<registry, sockets, online, tickets, accounts>>

(* setConnection alone: the old connection is not closed. *)
WsRebindOverwriting(h, k) ==
  /\ At(h, "ws")
  /\ FreshConn(k)
  /\ LET c == index[req[h].sess] IN
       /\ c # None
       /\ c \notin expired
       /\ online' = online \cup {cl[c].user}
       /\ conn' = [conn EXCEPT ![c] = k]
       /\ owner' = [owner EXCEPT ![k] = c]
       /\ ticket' = [ticket EXCEPT ![k] = req[h].otp]
       /\ loop' = [loop EXCEPT ![k] = [i \in Sides |-> "run"]]
  /\ Return(h)
  /\ UNCHANGED <<registry, closed, greeted, tickets, accounts>>

(* The lookup that found no client was made before the lock was taken. *)
WsRegisterOnStaleLookup(h, k) ==
  /\ At(h, "ws")
  /\ FreshConn(k)
  /\ \E c \in Clients :
       /\ FreshClient(c)
       /\ clients' = clients \cup {c}
       /\ index' = [index EXCEPT ![req[h].sess] = c]
       /\ cl' = [cl EXCEPT ![c] = [sess |-> req[h].sess, user |-> Anon,
                                  loggedIn |-> TRUE, read |-> 0, made |-> 0]]
       /\ conn' = [conn EXCEPT ![c] = k]
       /\ owner' = [owner EXCEPT ![k] = c]
       /\ ticket' = [ticket EXCEPT ![k] = req[h].otp]
       /\ loop' = [loop EXCEPT ![k] = [i \in Sides |-> "run"]]
  /\ Return(h)
  /\ UNCHANGED <<expired, closed, greeted, online, tickets, accounts>>

(* The goroutine closes whatever connection its client now has. *)
LoopExitClosing(k, i) ==
  /\ loop[k][i] = "run"
  /\ conn' = [conn EXCEPT ![owner[k]] = None]
  /\ closed' = closed \cup ({conn[owner[k]]} \ {None})
  /\ loop' = [loop EXCEPT ![k][i] = "cleanup"]
  /\ UNCHANGED <<registry, owner, ticket, greeted, online, tickets, accounts, req>>

(* Only the account's connected clients are collected. *)
KickCollectConnected(h) ==
  /\ At(h, "kick")
  /\ LET found == {c \in clients : cl[c].user = req[h].user /\ conn[c] # None} IN
       IF found = {}
       THEN Return(h)
       ELSE Goto(h, [req[h] EXCEPT !.pc = "kickName", !.todo = found])
  /\ UNCHANGED <<registry, sockets, online, tickets, accounts>>

-----------------------------------------------------------------------------
(* Login.  The account's row is read, and the password compared with it    *)
(* (some 100 ms of bcrypt), before the manager is locked.                  *)

LoginRead(h, u) ==
  /\ "login" \in Ops
  /\ At(h, "idle")
  /\ u \notin banned
  /\ Goto(h, [Idle EXCEPT !.pc = "login", !.user = u, !.epoch = epoch[u]])
  /\ UNCHANGED <<registry, sockets, online, tickets, accounts>>

(* The logged-in clients of that username are replaced by the new one. *)
LoginCommit(h) ==
  /\ At(h, "login")
  /\ LET u   == req[h].user
         old == {c \in clients : cl[c].user = u /\ cl[c].loggedIn}
     IN  \E s \in SessionIDs, c \in Clients :
           /\ FreshSession(s)
           /\ FreshClient(c)
           /\ clients' = (clients \ old) \cup {c}
           /\ index' = [IndexWithout(old) EXCEPT ![s] = c]
           /\ cl' = [cl EXCEPT ![c] =
                       [sess |-> s, user |-> u, loggedIn |-> TRUE,
                        read |-> req[h].epoch, made |-> epoch[u]]]
           /\ CloseConnections(old)
           /\ online' = IF old = {} THEN online ELSE online \ {u}
           /\ MintOtp(s)
  /\ Return(h)
  /\ UNCHANGED <<expired, accounts>>

-----------------------------------------------------------------------------
(* Logout: find the client under RLock, mark it logged out and offline     *)
(* without a lock, remove it under Lock.                                   *)

LogoutLookup(h, s) ==
  /\ "logout" \in Ops
  /\ At(h, "idle")
  /\ index[s] # None
  /\ Goto(h, [Idle EXCEPT !.pc = "logoutClear", !.client = index[s]])
  /\ UNCHANGED <<registry, sockets, online, tickets, accounts>>

LogoutClear(h) ==
  /\ At(h, "logoutClear")
  /\ cl' = [cl EXCEPT ![req[h].client].loggedIn = FALSE]
  /\ online' = online \ {cl[req[h].client].user}
  /\ Goto(h, [req[h] EXCEPT !.pc = "logoutDrop"])
  /\ UNCHANGED <<clients, index, expired, sockets, tickets, accounts>>

(* removeClient *)
LogoutDrop(h) ==
  /\ At(h, "logoutDrop")
  /\ Drop({req[h].client} \cap clients)
  /\ Return(h)
  /\ UNCHANGED <<online, tickets, accounts>>

-----------------------------------------------------------------------------
(* checkLogin, all of it under Lock: an expired or banned session is       *)
(* ended, a logged-in one is told so and given an OTP.                     *)

CheckLogin(s) ==
  /\ "check" \in Ops
  /\ index[s] # None
  /\ LET c == index[s] IN
       \/ /\ \/ c \in expired
             \/ cl[c].loggedIn /\ cl[c].user \in banned
          /\ Drop({c})
          /\ online' = online \ {cl[c].user}
          /\ UNCHANGED tickets
       \/ /\ c \notin expired
          /\ cl[c].loggedIn
          /\ cl[c].user \notin banned
          /\ MintOtp(s)
          /\ UNCHANGED <<registry, sockets, online>>
  /\ UNCHANGED <<accounts, req>>

(* serveLogout writes loggedIn with no lock.  When the write falls between *)
(* checkLogin's test of loggedIn and its own client.loggedIn = true, it is *)
(* lost, and checkLogin mints an OTP for the session being logged out.     *)
CheckLoginDuringLogout(h) ==
  /\ "check" \in Ops
  /\ At(h, "logoutClear")
  /\ LET c == req[h].client IN
       /\ index[cl[c].sess] = c
       /\ c \notin expired
       /\ cl[c].loggedIn
       /\ cl[c].user \notin banned
       /\ online' = online \ {cl[c].user}
       /\ MintOtp(cl[c].sess)
  /\ Goto(h, [req[h] EXCEPT !.pc = "logoutDrop"])
  /\ UNCHANGED <<registry, sockets, accounts>>

-----------------------------------------------------------------------------
(* authenticatedClientFromRequest: find the client and judge its age under *)
(* RLock, then touch it with no lock or evict it under Lock.               *)

AuthLookup(h, s) ==
  /\ "request" \in Ops
  /\ At(h, "idle")
  /\ index[s] # None
  /\ cl[index[s]].loggedIn
  /\ Goto(h, [Idle EXCEPT !.pc = IF index[s] \in expired THEN "evict" ELSE "touch",
                          !.client = index[s]])
  /\ UNCHANGED <<registry, sockets, online, tickets, accounts>>

AuthTouch(h) ==
  /\ At(h, "touch")
  /\ expired' = expired \ {req[h].client}
  /\ Return(h)
  /\ UNCHANGED <<clients, index, cl, sockets, online, tickets, accounts>>

(* The age is judged again once the lock is held. *)
AuthEvict(h) ==
  /\ At(h, "evict")
  /\ Drop({req[h].client} \cap clients \cap expired)
  /\ Return(h)
  /\ UNCHANGED <<online, tickets, accounts>>

(* sweepOnce *)
Sweep ==
  /\ clients \cap expired # {}
  /\ Drop(clients \cap expired)
  /\ UNCHANGED <<online, tickets, accounts, req>>

(* Time: 24 hours pass since the client's last touch.  An OTP lives for    *)
(* 5 seconds from a moment its session was touched, so the session of a    *)
(* live OTP, or of one being redeemed, has not expired, unless the wall    *)
(* clock that expired() reads jumps.                                       *)
Expire(c) ==
  /\ "expire" \in Ops
  /\ c \in clients \ expired
  /\ \/ ClockJumps
     \/ /\ \A o \in otps : otpFor[o] # cl[c].sess
        /\ \A h \in Handlers : At(h, "ws") => req[h].sess # cl[c].sess
  /\ expired' = expired \cup {c}
  /\ UNCHANGED <<clients, index, cl, sockets, online, tickets, accounts, req>>

(* checkOtps *)
OtpExpire(o) ==
  /\ "lapse" \in Ops
  /\ o \in otps
  /\ otps' = otps \ {o}
  /\ UNCHANGED <<registry, sockets, online, otpFor, accounts, req>>

-----------------------------------------------------------------------------
(* The websocket upgrade: redeem the OTP, then bind under Lock.            *)

(* verifyOtp, which spends the key whether or not the cookie matches it. *)
WsVerify(h, o, s) ==
  /\ At(h, "idle")
  /\ o \in otps
  /\ ~FreshSession(s)
  /\ otps' = otps \ {o}
  /\ IF otpFor[o] = s
     THEN Goto(h, [Idle EXCEPT !.pc = "ws", !.sess = s, !.otp = o])
     ELSE UNCHANGED req
  /\ UNCHANGED <<registry, sockets, online, otpFor, accounts>>

(* The goroutines of connection k, upgraded by h, start on client c. *)
StartLoops(h, k, c) ==
  /\ owner' = [owner EXCEPT ![k] = c]
  /\ ticket' = [ticket EXCEPT ![k] = req[h].otp]
  /\ loop' = [loop EXCEPT ![k] = [i \in Sides |-> "run"]]
  /\ UNCHANGED greeted

(* The existing client: its old connection is closed, the new one takes    *)
(* its place (closeConnection, setConnection, touch).                      *)
WsRebind(h, k) ==
  /\ At(h, "ws")
  /\ FreshConn(k)
  /\ LET c == index[req[h].sess] IN
       /\ c # None
       /\ c \notin expired
       /\ online' = online \cup {cl[c].user}
       /\ conn' = [conn EXCEPT ![c] = k]
       /\ closed' = closed \cup ({conn[c]} \ {None})
       /\ StartLoops(h, k, c)
  /\ Return(h)
  /\ UNCHANGED <<registry, tickets, accounts>>

(* No client, or an expired one, which is dropped without being closed: a  *)
(* client with no account is registered for the session.                   *)
WsRegister(h, k) ==
  /\ At(h, "ws")
  /\ FreshConn(k)
  /\ LET s   == req[h].sess
         old == {index[s]} \ {None}
     IN  /\ old \subseteq expired
         /\ \E c \in Clients :
              /\ FreshClient(c)
              /\ clients' = (clients \ old) \cup {c}
              /\ index' = [IndexWithout(old) EXCEPT ![s] = c]
              /\ cl' = [cl EXCEPT ![c] =
                          [sess |-> s, user |-> Anon, loggedIn |-> TRUE,
                           read |-> 0, made |-> 0]]
              /\ conn' = [conn EXCEPT ![c] = k]
              /\ StartLoops(h, k, c)
  /\ Return(h)
  /\ UNCHANGED <<expired, closed, online, tickets, accounts>>

-----------------------------------------------------------------------------
(* The goroutines of a connection, readMessages and writeMesssage.         *)

Loop(k, i, phase) == loop' = [loop EXCEPT ![k][i] = phase]

(* The loop ends: the peer is gone, an event is bad, a write failed, or    *)
(* the connection was closed here.  closeConnectionIfCurrent follows.      *)
LoopExit(k, i) ==
  /\ loop[k][i] = "run"
  /\ LET c == owner[k] IN
       IF conn[c] = k
       THEN /\ conn' = [conn EXCEPT ![c] = None]
            /\ closed' = closed \cup {k}
            /\ Loop(k, i, "cleanup")
       ELSE /\ Loop(k, i, "stale")
            /\ UNCHANGED <<conn, closed>>
  /\ UNCHANGED <<registry, owner, ticket, greeted, online, tickets, accounts, req>>

(* The rest of the deferred cleanup of the goroutine that did close it. *)
LoopCleanup(k, i) ==
  /\ loop[k][i] = "cleanup"
  /\ online' = online \ {cl[owner[k]].user}
  /\ Loop(k, i, "cleaned")
  /\ UNCHANGED <<registry, conn, closed, owner, ticket, greeted, tickets,
                 accounts, req>>

(* user-connect, which the web client sends once, when the socket opens.   *)
(* It may have been read before the connection was closed.                 *)
UserConnect(k) ==
  /\ "connect" \in Ops
  /\ loop[k]["read"] = "run"
  /\ k \notin greeted
  /\ greeted' = greeted \cup {k}
  /\ online' = online \cup {cl[owner[k]].user}
  /\ UNCHANGED <<registry, conn, closed, owner, ticket, loop, tickets,
                 accounts, req>>

-----------------------------------------------------------------------------
(* Ban, unban and password change, then kickUser: collect the account's    *)
(* clients under RLock, and for each take its name off the online set and  *)
(* then remove it under Lock.                                              *)

Ban(h, u) ==
  /\ "ban" \in Ops
  /\ At(h, "idle")
  /\ epoch[u] < MaxEpoch
  /\ banned' = banned \cup {u}
  /\ epoch' = [epoch EXCEPT ![u] = @ + 1]
  /\ Goto(h, [Idle EXCEPT !.pc = "kick", !.user = u])
  /\ UNCHANGED <<registry, sockets, online, tickets>>

Unban(u) ==
  /\ "ban" \in Ops
  /\ u \in banned
  /\ banned' = banned \ {u}
  /\ UNCHANGED <<registry, sockets, online, tickets, epoch, req>>

(* Only the account's own live session may change its password. *)
ChangePassword(h, s) ==
  /\ "password" \in Ops
  /\ At(h, "idle")
  /\ index[s] # None
  /\ LET c == index[s] IN
       /\ c \notin expired
       /\ cl[c].loggedIn
       /\ cl[c].user \in Users
       /\ epoch[cl[c].user] < MaxEpoch
       /\ epoch' = [epoch EXCEPT ![cl[c].user] = @ + 1]
       /\ Goto(h, [Idle EXCEPT !.pc = "kick", !.user = cl[c].user])
  /\ UNCHANGED <<registry, sockets, online, tickets, banned>>

KickCollect(h) ==
  /\ At(h, "kick")
  /\ LET found == {c \in clients : cl[c].user = req[h].user} IN
       IF found = {}
       THEN Return(h)
       ELSE Goto(h, [req[h] EXCEPT !.pc = "kickName", !.todo = found])
  /\ UNCHANGED <<registry, sockets, online, tickets, accounts>>

KickName(h) ==
  /\ At(h, "kickName")
  /\ \E c \in req[h].todo :
       /\ online' = online \ {cl[c].user}
       /\ Goto(h, [req[h] EXCEPT !.pc = "kickDrop", !.client = c])
  /\ UNCHANGED <<registry, sockets, tickets, accounts>>

(* removeClient *)
KickDrop(h) ==
  /\ At(h, "kickDrop")
  /\ Drop({req[h].client} \cap clients)
  /\ LET left == req[h].todo \ {req[h].client} IN
       IF left = {}
       THEN Return(h)
       ELSE Goto(h, [req[h] EXCEPT !.pc = "kickName", !.todo = left])
  /\ UNCHANGED <<online, tickets, accounts>>

-----------------------------------------------------------------------------
Handle(h) ==
  \/ \E u \in Users : LoginRead(h, u) \/ Ban(h, u)
  \/ \E s \in SessionIDs :
       LogoutLookup(h, s) \/ AuthLookup(h, s) \/ ChangePassword(h, s)
  \/ \E o \in Otps, s \in SessionIDs : WsVerify(h, o, s)
  \/ CheckLoginDuringLogout(h)

(* What a handler does once it has started. *)
Proceed(h) ==
  \/ LoginCommit(h)
  \/ LogoutClear(h)
  \/ LogoutDrop(h)
  \/ AuthTouch(h)
  \/ AuthEvict(h)
  \/ \E k \in Conns : WsRebind(h, k) \/ WsRegister(h, k)
  \/ KickCollect(h)
  \/ KickName(h)
  \/ KickDrop(h)

Goroutine(k) ==
  \/ UserConnect(k)
  \/ \E i \in Sides : LoopExit(k, i) \/ LoopCleanup(k, i)

Environment ==
  \/ \E s \in SessionIDs : CheckLogin(s)
  \/ Sweep
  \/ \E c \in Clients : Expire(c)
  \/ \E o \in Otps : OtpExpire(o)
  \/ \E u \in Users : Unban(u)

Next ==
  \/ \E h \in Handlers : Handle(h) \/ Proceed(h)
  \/ \E k \in Conns : Goroutine(k)
  \/ Environment

Spec == Init /\ [][Next]_vars

-----------------------------------------------------------------------------
(* Safety.                                                                 *)

(* ws-manager.go:18-24 says the index "can never drift out of sync" with   *)
(* m.clients: whatever login, logout, upgrade, expiry and kicks interleave,*)
(* each registered client is the one its session id leads to, and the      *)
(* index leads nowhere else.                                               *)
IndexInSync ==
  /\ \A c \in clients : cl[c].sess # None /\ index[cl[c].sess] = c
  /\ \A s \in SessionIDs :
       index[s] # None => index[s] \in clients /\ cl[index[s]].sess = s

(* serveLogin's replacement loop leaves an account one logged-in client,   *)
(* however logins, logouts and checks of the account interleave.           *)
SingleLogin ==
  \A c, d \in clients :
    /\ cl[c].user = cl[d].user
    /\ cl[c].user # Anon
    /\ cl[c].loggedIn
    /\ cl[d].loggedIn
    => c = d

(* ws-client.go:22-32: a connection that is not the current one of the     *)
(* client it was opened for has been told so (connDone is closed), so its  *)
(* write loop cannot take an event meant for the newer connection.         *)
SupersededAreClosed ==
  \A k \in Conns :
    owner[k] # None /\ k \notin closed => conn[owner[k]] = k

(* otp.go:11-17: every connection was admitted by a key of its own, minted *)
(* for the session it was attached to.                                     *)
OtpBinding ==
  \A k \in Conns :
    owner[k] # None =>
      /\ ticket[k] # None
      /\ otpFor[ticket[k]] = cl[owner[k]].sess
      /\ \A j \in Conns \ {k} : owner[j] # None => ticket[j] # ticket[k]

(* A kick is on its way to client c. *)
KickPending(c) ==
  \E h \in Handlers :
    \/ At(h, "kick") /\ req[h].user = cl[c].user
    \/ c \in req[h].todo

(* profile.go:174-182: a session that existed when its account was banned  *)
(* or its password changed is gone once the kick that follows is over.     *)
OldSessionsDie ==
  \A c \in clients :
    cl[c].user \in Users /\ cl[c].made < epoch[cl[c].user] => KickPending(c)

-----------------------------------------------------------------------------
(* What a step may never do.                                               *)

(* handlers.go:70-76: a session in use is not evicted for its age.  A      *)
(* client that has not expired leaves m.clients only because its account   *)
(* logged in again, is banned or was kicked, or it is being logged out.    *)
FreshStays ==
  \A c \in clients \ expired :
    \/ c \in clients'
    \/ cl[c].user \in banned
    \/ \E h \in Handlers :
         req[h].client = c /\ req[h].pc \in {"logoutDrop", "kickDrop"}
    \/ \E d \in clients' \ clients : cl'[d].user = cl[c].user
FreshSessionsStay == [][FreshStays]_vars

(* ws-client.go:253-260: a goroutine winding down closes no connection but *)
(* its own.  A registered client that stays registered loses a connection  *)
(* to a newer one or to that connection's own goroutine.                   *)
ClosedByRight ==
  \A k \in closed' \ closed :
    \/ owner[k] \notin clients'
    \/ conn'[owner[k]] # None
    \/ loop'[k] # loop[k]
NewerConnectionSurvives == [][ClosedByRight]_vars

-----------------------------------------------------------------------------
(* Refinement.                                                             *)

(* A session id is the account's of its client.  One without a client, or  *)
(* whose client was registered with no account, is nobody's any more.      *)
Account(s) == IF index[s] = None THEN Anon ELSE cl[index[s]].user
life == [s \in SessionIDs |-> IF FreshSession(s) THEN None ELSE Account(s)]
leaving == {s \in SessionIDs : Account(s) # Anon /\ ~cl[index[s]].loggedIn}

Life == INSTANCE SessionLife WITH Unused <- None, Ended <- Anon

(* Login, logout, checks, upgrades, expiry and kicks together keep what    *)
(* SessionLife promises of every session id.                               *)
KeepsPromise == Life!Spec

-----------------------------------------------------------------------------
(* What the repository says and these actions do not do.                   *)

(* No handler is in flight and no goroutine is between two steps. *)
Quiet ==
  /\ \A h \in Handlers : At(h, "idle")
  /\ \A k \in Conns, i \in Sides : loop[k][i] # "cleanup"

(* README.md:208: "changing your password invalidates every live session   *)
(* for the account".  Once all is quiet no session stands on a password    *)
(* check made before the change.                                           *)
OldPasswordIsDead ==
  Quiet =>
    \A c \in clients : cl[c].user \in Users => cl[c].read = epoch[cl[c].user]
=============================================================================
