--------------------------- MODULE SessionsProofs ---------------------------
(***************************************************************************)
(* Theorems about Sessions, for every value of its constants.              *)
(***************************************************************************)
EXTENDS Sessions, TLAPS

(* Every client that a session id leads to or that a connection was opened *)
(* for has a user, a running loop has an owner, and a handler keeps the    *)
(* user, session or client it works for.                                   *)
IndexedHaveUser == \A s \in SessionIDs : index[s] # None => cl[index[s]].user # None
OwnersHaveUser == \A k \in Conns : owner[k] # None => cl[owner[k]].user # None
RunningIsOwned == \A k \in Conns, i \in Sides : loop[k][i] = "run" => owner[k] # None
HandlersKnow ==
  /\ \A h \in Handlers : At(h, "login") => req[h].user # None
  /\ \A h \in Handlers : At(h, "ws") => req[h].sess # None
  /\ \A h \in Handlers : At(h, "logoutClear") => req[h].client # None
Allocated == IndexedHaveUser /\ OwnersHaveUser /\ RunningIsOwned /\ HandlersKnow

TypeInv == TypeOK /\ Allocated

-----------------------------------------------------------------------------
(* What the shared helpers do to the types. *)

LEMMA IndexWithoutType ==
  ASSUME RegistryOK, NEW S
  PROVE  IndexWithout(S) \in [SessionIDs -> Clients \cup {None}]
BY DEF RegistryOK, IndexWithout

LEMMA CloseType ==
  ASSUME SocketsOK, NEW S, S \subseteq Clients, CloseConnections(S)
  PROVE  SocketsOK' /\ (RunningIsOwned => RunningIsOwned')
BY DEF SocketsOK, CloseConnections, RunningIsOwned

LEMMA DropType ==
  ASSUME TypeInv, NEW S, S \subseteq Clients, Drop(S)
  PROVE  RegistryOK' /\ SocketsOK' /\ IndexedHaveUser' /\ OwnersHaveUser' /\ RunningIsOwned'
<1>1. SocketsOK' /\ RunningIsOwned'
  BY CloseType DEF Drop, TypeInv, TypeOK, Allocated
<1>2. RegistryOK'
  BY IndexWithoutType DEF Drop, RegistryOK, TypeInv, TypeOK
<1>3. IndexedHaveUser'
  BY DEF Drop, IndexWithout, TypeInv, TypeOK, RegistryOK, Allocated, IndexedHaveUser
<1>4. OwnersHaveUser'
  BY DEF Drop, CloseConnections, TypeInv, Allocated, OwnersHaveUser
<1> QED
  BY <1>1, <1>2, <1>3, <1>4

LEMMA MintType ==
  ASSUME TicketsOK, NEW s \in SessionIDs, MintOtp(s)
  PROVE  TicketsOK'
BY DEF TicketsOK, MintOtp

LEMMA GotoType ==
  ASSUME ReqOK, HandlersKnow, NEW h \in Handlers, NEW r \in Request, Goto(h, r),
         r.pc = "login" => r.user # None, r.pc = "ws" => r.sess # None,
         r.pc = "logoutClear" => r.client # None
  PROVE  ReqOK' /\ HandlersKnow'
BY DEF ReqOK, HandlersKnow, Goto, At

LEMMA IdleType == Idle \in Request /\ Idle.pc = "idle"
BY DEF Idle, Request, Steps

LEMMA ReturnType ==
  ASSUME ReqOK, HandlersKnow, NEW h \in Handlers, Return(h)
  PROVE  ReqOK' /\ HandlersKnow'
BY IdleType, GotoType DEF Return

LEMMA FreshClientUnowned ==
  ASSUME TypeInv, NEW c \in Clients, FreshClient(c)
  PROVE  /\ \A s \in SessionIDs : index[s] # c
         /\ \A k \in Conns : owner[k] # c
BY SessionsAssumption DEF TypeInv, TypeOK, RegistryOK, Allocated, IndexedHaveUser,
   OwnersHaveUser, FreshClient, Unallocated

-----------------------------------------------------------------------------
(* Type correctness. *)

LEMMA InitTyped == Init => TypeInv
<1> SUFFICES ASSUME Init PROVE TypeInv
  OBVIOUS
<1>1. TypeOK
  BY IdleType DEF Init, TypeOK, RegistryOK, SocketsOK, OnlineOK, TicketsOK, AccountsOK,
     ReqOK, Unallocated, Client, Sides, Phases
<1>2. Allocated
  BY IdleType DEF Init, Allocated, IndexedHaveUser, OwnersHaveUser, RunningIsOwned,
     HandlersKnow, At, Sides
<1> QED
  BY <1>1, <1>2 DEF TypeInv

(* A step of handler h that changes no state but its own place. *)
LEMMA GotoTyped ==
  ASSUME TypeInv, NEW h \in Handlers, NEW r \in Request, Goto(h, r),
         r.pc = "login" => r.user # None, r.pc = "ws" => r.sess # None,
         r.pc = "logoutClear" => r.client # None,
         UNCHANGED <<registry, sockets, online, tickets, accounts>>
  PROVE  TypeInv'
<1>1. ReqOK' /\ HandlersKnow'
  BY GotoType DEF TypeInv, TypeOK, Allocated
<1> QED
  BY <1>1 DEF TypeInv, TypeOK, RegistryOK, SocketsOK, OnlineOK, TicketsOK, AccountsOK,
     Allocated, IndexedHaveUser, OwnersHaveUser, RunningIsOwned,
     registry, sockets, tickets, accounts

LEMMA ReadingStepsTyped ==
  ASSUME TypeInv, NEW h \in Handlers,
         \/ \E u \in Users : LoginRead(h, u)
         \/ \E s \in SessionIDs : LogoutLookup(h, s) \/ AuthLookup(h, s)
         \/ KickCollect(h)
  PROVE  TypeInv'
<1>1. ASSUME NEW u \in Users, LoginRead(h, u) PROVE TypeInv'
  <2> DEFINE r == [Idle EXCEPT !.pc = "login", !.user = u, !.epoch = epoch[u]]
  <2>1. r \in Request /\ r.user # None /\ r.pc = "login"
    BY SessionsAssumption DEF TypeInv, TypeOK, AccountsOK, Idle, Request, Steps
  <2> QED
    BY <1>1, <2>1, GotoTyped DEF LoginRead
<1>2. ASSUME NEW s \in SessionIDs, LogoutLookup(h, s) PROVE TypeInv'
  <2> DEFINE r == [Idle EXCEPT !.pc = "logoutClear", !.client = index[s]]
  <2>1. r \in Request /\ r.pc = "logoutClear" /\ r.client # None
    BY <1>2 DEF LogoutLookup, TypeInv, TypeOK, RegistryOK, Idle, Request, Steps
  <2> QED
    BY <1>2, <2>1, GotoTyped DEF LogoutLookup
<1>3. ASSUME NEW s \in SessionIDs, AuthLookup(h, s) PROVE TypeInv'
  <2> DEFINE r == [Idle EXCEPT !.pc = IF index[s] \in expired THEN "evict" ELSE "touch",
                               !.client = index[s]]
  <2>1. r \in Request /\ r.pc \in {"evict", "touch"}
    BY DEF TypeInv, TypeOK, RegistryOK, Idle, Request, Steps
  <2> QED
    BY <1>3, <2>1, GotoTyped DEF AuthLookup
<1>4. ASSUME KickCollect(h) PROVE TypeInv'
  <2> DEFINE found == {c \in clients : cl[c].user = req[h].user}
             r     == [req[h] EXCEPT !.pc = "kickName", !.todo = found]
  <2>1. r \in Request /\ r.pc = "kickName"
    BY DEF TypeInv, TypeOK, RegistryOK, ReqOK, Request, Steps
  <2> QED
    BY <1>4, <2>1, GotoTyped, IdleType DEF KickCollect, Return
<1> QED
  BY <1>1, <1>2, <1>3, <1>4

LEMMA LoginCommitTyped ==
  ASSUME TypeInv, NEW h \in Handlers, LoginCommit(h)
  PROVE  TypeInv'
<1> DEFINE u   == req[h].user
           old == {c \in clients : cl[c].user = u /\ cl[c].loggedIn}
<1>1. PICK s \in SessionIDs, c \in Clients :
        /\ FreshClient(c)
        /\ clients' = (clients \ old) \cup {c}
        /\ index' = [IndexWithout(old) EXCEPT ![s] = c]
        /\ cl' = [cl EXCEPT ![c] = [sess |-> s, user |-> u, loggedIn |-> TRUE,
                                   read |-> req[h].epoch, made |-> epoch[u]]]
        /\ CloseConnections(old)
        /\ online' = IF old = {} THEN online ELSE online \ {u}
        /\ MintOtp(s)
  BY DEF LoginCommit
<1>2. u \in Users /\ req[h].epoch \in Nat /\ epoch[u] \in Nat /\ u # None
  BY DEF LoginCommit, At, TypeInv, TypeOK, ReqOK, AccountsOK, Allocated, HandlersKnow, Request
<1>3. RegistryOK'
  BY <1>1, <1>2, IndexWithoutType DEF TypeInv, TypeOK, RegistryOK, Client, LoginCommit
<1>4. SocketsOK' /\ RunningIsOwned'
  BY <1>1, CloseType DEF TypeInv, TypeOK, RegistryOK, Allocated
<1>5. OnlineOK' /\ TicketsOK' /\ AccountsOK'
  BY <1>1, MintType DEF TypeInv, TypeOK, OnlineOK, AccountsOK, LoginCommit, accounts
<1>6. ReqOK' /\ HandlersKnow'
  BY ReturnType DEF LoginCommit, TypeInv, TypeOK, Allocated
<1>7. cl'[c].user # None /\ \A d \in Clients \ {c} : cl'[d] = cl[d]
  BY <1>1, <1>2 DEF TypeInv, TypeOK, RegistryOK
<1>8. IndexedHaveUser'
  BY <1>1, <1>7 DEF TypeInv, TypeOK, RegistryOK, Allocated, IndexedHaveUser, IndexWithout
<1>9. OwnersHaveUser'
  BY <1>1, <1>7 DEF TypeInv, TypeOK, SocketsOK, Allocated, OwnersHaveUser, CloseConnections
<1> QED
  BY <1>3, <1>4, <1>5, <1>6, <1>8, <1>9 DEF TypeInv, TypeOK, Allocated

(* The steps that end in removeClient, an eviction or a sweep. *)
LEMMA DroppingStepsTyped ==
  ASSUME TypeInv,
         \/ \E h \in Handlers : LogoutDrop(h) \/ AuthEvict(h) \/ KickDrop(h)
         \/ Sweep
  PROVE  TypeInv'
<1>1. clients \subseteq Clients
  BY DEF TypeInv, TypeOK, RegistryOK
<1>2. ASSUME NEW h \in Handlers, LogoutDrop(h) \/ AuthEvict(h) PROVE TypeInv'
  <2>1. /\ RegistryOK' /\ SocketsOK'
        /\ IndexedHaveUser' /\ OwnersHaveUser' /\ RunningIsOwned'
    BY <1>1, <1>2, DropType DEF LogoutDrop, AuthEvict
  <2>2. ReqOK' /\ HandlersKnow'
    BY <1>2, ReturnType DEF LogoutDrop, AuthEvict, TypeInv, TypeOK, Allocated
  <2> QED
    BY <1>2, <2>1, <2>2 DEF LogoutDrop, AuthEvict, TypeInv, TypeOK, Allocated, OnlineOK,
       TicketsOK, AccountsOK, tickets, accounts
<1>3. ASSUME NEW h \in Handlers, KickDrop(h) PROVE TypeInv'
  <2> DEFINE left == req[h].todo \ {req[h].client}
             r    == [req[h] EXCEPT !.pc = "kickName", !.todo = left]
  <2>1. /\ RegistryOK' /\ SocketsOK'
        /\ IndexedHaveUser' /\ OwnersHaveUser' /\ RunningIsOwned'
    BY <1>1, <1>3, DropType DEF KickDrop
  <2>2. r \in Request /\ r.pc = "kickName"
    BY DEF TypeInv, TypeOK, ReqOK, Request, Steps
  <2>3. ReqOK' /\ HandlersKnow'
    BY <1>3, <2>2, GotoType, ReturnType DEF KickDrop, TypeInv, TypeOK, Allocated
  <2> QED
    BY <1>3, <2>1, <2>3 DEF KickDrop, TypeInv, TypeOK, Allocated, OnlineOK, TicketsOK,
       AccountsOK, tickets, accounts
<1>4. ASSUME Sweep PROVE TypeInv'
  <2>1. /\ RegistryOK' /\ SocketsOK'
        /\ IndexedHaveUser' /\ OwnersHaveUser' /\ RunningIsOwned'
    BY <1>1, <1>4, DropType DEF Sweep
  <2> QED
    BY <1>4, <2>1 DEF Sweep, TypeInv, TypeOK, Allocated, OnlineOK, TicketsOK, AccountsOK,
       ReqOK, HandlersKnow, At, tickets, accounts
<1> QED
  BY <1>2, <1>3, <1>4

LEMMA CheckLoginTyped ==
  ASSUME TypeInv, NEW s \in SessionIDs, CheckLogin(s)
  PROVE  TypeInv'
<1> DEFINE c == index[s]
<1>1. c \in Clients
  BY DEF CheckLogin, TypeInv, TypeOK, RegistryOK
<1>2. ReqOK' /\ HandlersKnow' /\ AccountsOK'
  BY DEF CheckLogin, TypeInv, TypeOK, Allocated, ReqOK, HandlersKnow, At, AccountsOK, accounts
<1>3. CASE Drop({c}) /\ online' = online \ {cl[c].user} /\ UNCHANGED tickets
  <2>1. /\ RegistryOK' /\ SocketsOK'
        /\ IndexedHaveUser' /\ OwnersHaveUser' /\ RunningIsOwned'
    BY <1>1, <1>3, DropType
  <2> QED
    BY <1>2, <1>3, <2>1 DEF TypeInv, TypeOK, Allocated, OnlineOK, TicketsOK, tickets
<1>4. CASE MintOtp(s) /\ UNCHANGED <<registry, sockets, online>>
  <2>1. TicketsOK'
    BY <1>4, MintType DEF TypeInv, TypeOK
  <2> QED
    BY <1>2, <1>4, <2>1 DEF TypeInv, TypeOK, Allocated, RegistryOK, SocketsOK, OnlineOK,
       IndexedHaveUser, OwnersHaveUser, RunningIsOwned, registry, sockets
<1> QED
  BY <1>3, <1>4 DEF CheckLogin

LEMMA LogoutClearTyped ==
  ASSUME TypeInv, NEW h \in Handlers, LogoutClear(h)
  PROVE  TypeInv'
<1> DEFINE c == req[h].client
<1>1. cl' \in [Clients -> Client] /\ \A d \in Clients : cl'[d].user = cl[d].user
  BY DEF LogoutClear, TypeInv, TypeOK, RegistryOK, Client
<1> DEFINE r == [req[h] EXCEPT !.pc = "logoutDrop"]
<1>2. r \in Request /\ r.pc = "logoutDrop"
  BY DEF TypeInv, TypeOK, ReqOK, Request, Steps
<1>3. ReqOK' /\ HandlersKnow'
  BY <1>2, GotoType DEF LogoutClear, TypeInv, TypeOK, Allocated
<1>4. RegistryOK' /\ IndexedHaveUser'
  BY <1>1 DEF LogoutClear, TypeInv, TypeOK, RegistryOK, Allocated, IndexedHaveUser
<1>5. SocketsOK' /\ OwnersHaveUser' /\ RunningIsOwned'
  BY <1>1 DEF LogoutClear, TypeInv, TypeOK, SocketsOK, Allocated, OwnersHaveUser,
     RunningIsOwned, sockets
<1> QED
  BY <1>3, <1>4, <1>5 DEF LogoutClear, TypeInv, TypeOK, Allocated, OnlineOK, TicketsOK,
     AccountsOK, tickets, accounts

LEMMA CheckLoginDuringLogoutTyped ==
  ASSUME TypeInv, NEW h \in Handlers, CheckLoginDuringLogout(h)
  PROVE  TypeInv'
<1> DEFINE c == req[h].client
<1> DEFINE r == [req[h] EXCEPT !.pc = "logoutDrop"]
<1>1. r \in Request /\ r.pc = "logoutDrop"
  BY DEF TypeInv, TypeOK, ReqOK, Request, Steps
<1>2. ReqOK' /\ HandlersKnow'
  BY <1>1, GotoType DEF CheckLoginDuringLogout, TypeInv, TypeOK, Allocated
<1>3. cl[c].sess \in SessionIDs \cup {None}
  BY DEF CheckLoginDuringLogout, At, TypeInv, TypeOK, RegistryOK, ReqOK, Allocated,
     HandlersKnow, Client, Request
<1>4. TicketsOK'
  BY <1>3 DEF CheckLoginDuringLogout, TypeInv, TypeOK, TicketsOK, MintOtp
<1> QED
  BY <1>2, <1>4 DEF CheckLoginDuringLogout, TypeInv, TypeOK, Allocated, RegistryOK,
     SocketsOK, OnlineOK, AccountsOK, IndexedHaveUser, OwnersHaveUser, RunningIsOwned,
     registry, sockets, accounts

LEMMA WsVerifyTyped ==
  ASSUME TypeInv, NEW h \in Handlers, NEW o \in Otps, NEW s \in SessionIDs,
         WsVerify(h, o, s)
  PROVE  TypeInv'
<1> DEFINE r == [Idle EXCEPT !.pc = "ws", !.sess = s, !.otp = o]
<1>1. r \in Request /\ r.pc = "ws" /\ r.sess # None
  BY SessionsAssumption DEF Idle, Request, Steps
<1>2. ReqOK' /\ HandlersKnow'
  <2>1. CASE Goto(h, r)
    BY <1>1, <2>1, GotoType DEF TypeInv, TypeOK, Allocated
  <2>2. CASE UNCHANGED req
    BY <2>2 DEF TypeInv, TypeOK, Allocated, ReqOK, HandlersKnow, At
  <2> QED
    BY <2>1, <2>2 DEF WsVerify
<1> QED
  BY <1>2 DEF WsVerify, TypeInv, TypeOK, Allocated, RegistryOK, SocketsOK, OnlineOK,
     TicketsOK, AccountsOK, IndexedHaveUser, OwnersHaveUser, RunningIsOwned,
     registry, sockets, accounts

LEMMA StartLoopsType ==
  ASSUME SocketsOK, ReqOK, RunningIsOwned, NEW h \in Handlers, NEW k \in Conns,
         NEW c \in Clients, StartLoops(h, k, c)
  PROVE  /\ owner' \in [Conns -> Clients \cup {None}]
         /\ ticket' \in [Conns -> Otps \cup {None}]
         /\ loop' \in [Conns -> [Sides -> Phases]]
         /\ greeted' = greeted
         /\ RunningIsOwned'
<1>1. [i \in Sides |-> "run"] \in [Sides -> Phases]
  BY DEF Phases
<1>2. req[h].otp \in Otps \cup {None}
  BY DEF ReqOK, Request
<1>3. RunningIsOwned'
  BY SessionsAssumption DEF StartLoops, SocketsOK, RunningIsOwned
<1> QED
  BY <1>1, <1>2, <1>3 DEF SocketsOK, StartLoops

LEMMA WsRebindTyped ==
  ASSUME TypeInv, NEW h \in Handlers, NEW k \in Conns, WsRebind(h, k)
  PROVE  TypeInv'
<1> DEFINE s == req[h].sess
           c == index[s]
<1>1. s \in SessionIDs
  BY DEF WsRebind, At, TypeInv, TypeOK, ReqOK, Allocated, HandlersKnow, Request
<1>2. c \in Clients /\ cl[c].user \in Users \cup {Anon}
  BY <1>1 DEF WsRebind, TypeInv, TypeOK, RegistryOK, Allocated, IndexedHaveUser, Client
<1>3. SocketsOK' /\ RunningIsOwned'
  BY <1>2, StartLoopsType DEF WsRebind, TypeInv, TypeOK, SocketsOK, Allocated
<1>4. OwnersHaveUser'
  BY <1>2, SessionsAssumption DEF WsRebind, StartLoops, TypeInv, TypeOK, SocketsOK, Allocated,
     OwnersHaveUser, registry
<1>5. ReqOK' /\ HandlersKnow'
  BY ReturnType DEF WsRebind, TypeInv, TypeOK, Allocated
<1> QED
  BY <1>2, <1>3, <1>4, <1>5 DEF WsRebind, TypeInv, TypeOK, Allocated, RegistryOK, OnlineOK,
     TicketsOK, AccountsOK, IndexedHaveUser, registry, tickets, accounts

LEMMA WsRegisterTyped ==
  ASSUME TypeInv, NEW h \in Handlers, NEW k \in Conns, WsRegister(h, k)
  PROVE  TypeInv'
<1> DEFINE s   == req[h].sess
           old == {index[s]} \ {None}
<1>1. PICK c \in Clients :
        /\ FreshClient(c)
        /\ clients' = (clients \ old) \cup {c}
        /\ index' = [IndexWithout(old) EXCEPT ![s] = c]
        /\ cl' = [cl EXCEPT ![c] = [sess |-> s, user |-> Anon, loggedIn |-> TRUE,
                                   read |-> 0, made |-> 0]]
        /\ conn' = [conn EXCEPT ![c] = k]
        /\ StartLoops(h, k, c)
  BY DEF WsRegister
<1>2. s \in SessionIDs
  BY DEF WsRegister, At, TypeInv, TypeOK, ReqOK, Allocated, HandlersKnow, Request
<1>3. cl'[c].user # None /\ \A d \in Clients \ {c} : cl'[d] = cl[d]
  BY <1>1, SessionsAssumption DEF TypeInv, TypeOK, RegistryOK
<1>4. RegistryOK'
  BY <1>1, <1>2, IndexWithoutType DEF WsRegister, TypeInv, TypeOK, RegistryOK, Client
<1>5. SocketsOK' /\ RunningIsOwned'
  BY <1>1, StartLoopsType DEF WsRegister, TypeInv, TypeOK, SocketsOK, Allocated
<1>6. IndexedHaveUser'
  BY <1>1, <1>3 DEF TypeInv, TypeOK, RegistryOK, Allocated, IndexedHaveUser, IndexWithout
<1>7. OwnersHaveUser'
  BY <1>1, <1>3 DEF TypeInv, TypeOK, SocketsOK, Allocated, OwnersHaveUser, StartLoops
<1>8. ReqOK' /\ HandlersKnow'
  BY ReturnType DEF WsRegister, TypeInv, TypeOK, Allocated
<1> QED
  BY <1>4, <1>5, <1>6, <1>7, <1>8 DEF WsRegister, TypeInv, TypeOK, Allocated, OnlineOK,
     TicketsOK, AccountsOK, tickets, accounts

LEMMA GoroutineTyped ==
  ASSUME TypeInv, NEW k \in Conns, Goroutine(k)
  PROVE  TypeInv'
<1> USE DEF registry, tickets, accounts
<1>1. ASSUME UserConnect(k) PROVE TypeInv'
  <2>1. cl[owner[k]].user \in Users \cup {Anon}
    BY <1>1 DEF UserConnect, TypeInv, TypeOK, RegistryOK, SocketsOK, Allocated,
       RunningIsOwned, OwnersHaveUser, Client, Sides
  <2> QED
    BY <1>1, <2>1 DEF UserConnect, TypeInv, TypeOK, RegistryOK, SocketsOK, OnlineOK, TicketsOK,
       AccountsOK, ReqOK, Allocated, IndexedHaveUser, OwnersHaveUser, RunningIsOwned,
       HandlersKnow, At
<1>2. ASSUME NEW i \in Sides, LoopExit(k, i) PROVE TypeInv'
  <2>1. PICK phase \in Phases \ {"run"} : Loop(k, i, phase)
    BY <1>2 DEF LoopExit, Phases
  <2>2. loop' \in [Conns -> [Sides -> Phases]] /\ RunningIsOwned'
    BY <1>2, <2>1 DEF LoopExit, Loop, TypeInv, TypeOK, SocketsOK, Allocated, RunningIsOwned
  <2>3. conn' \in [Clients -> Conns \cup {None}] /\ closed' \subseteq Conns
    BY <1>2 DEF LoopExit, TypeInv, TypeOK, SocketsOK
  <2> QED
    BY <1>2, <2>2, <2>3 DEF LoopExit, TypeInv, TypeOK, RegistryOK, SocketsOK, OnlineOK,
       TicketsOK, AccountsOK, ReqOK, Allocated, IndexedHaveUser, OwnersHaveUser,
       HandlersKnow, At
<1>3. ASSUME NEW i \in Sides, LoopCleanup(k, i) PROVE TypeInv'
  <2>1. loop' \in [Conns -> [Sides -> Phases]] /\ RunningIsOwned'
    BY <1>3 DEF LoopCleanup, Loop, TypeInv, TypeOK, SocketsOK, Allocated, RunningIsOwned, Phases
  <2> QED
    BY <1>3, <2>1 DEF LoopCleanup, TypeInv, TypeOK, RegistryOK, SocketsOK, OnlineOK,
       TicketsOK, AccountsOK, ReqOK, Allocated, IndexedHaveUser, OwnersHaveUser,
       HandlersKnow, At
<1> QED
  BY <1>1, <1>2, <1>3 DEF Goroutine

(* Time, OTP expiry, touching a client, and the accounts' rows. *)
LEMMA SmallStepsTyped ==
  ASSUME TypeInv,
         \/ \E c \in Clients : Expire(c)
         \/ \E o \in Otps : OtpExpire(o)
         \/ \E u \in Users : Unban(u)
  PROVE  TypeInv'
<1> USE DEF TypeInv, TypeOK, RegistryOK, SocketsOK, OnlineOK, TicketsOK, AccountsOK, ReqOK,
     Allocated, IndexedHaveUser, OwnersHaveUser, RunningIsOwned, HandlersKnow, At,
     registry, sockets, tickets, accounts
<1>1. ASSUME NEW c \in Clients, Expire(c) PROVE TypeInv'
  BY <1>1 DEF Expire
<1>2. ASSUME NEW o \in Otps, OtpExpire(o) PROVE TypeInv'
  BY <1>2 DEF OtpExpire
<1>3. ASSUME NEW u \in Users, Unban(u) PROVE TypeInv'
  BY <1>3 DEF Unban
<1> QED
  BY <1>1, <1>2, <1>3

LEMMA TouchAndKickTyped ==
  ASSUME TypeInv, NEW h \in Handlers,
         \/ AuthTouch(h) \/ KickName(h)
         \/ \E u \in Users : Ban(h, u)
         \/ \E s \in SessionIDs : ChangePassword(h, s)
  PROVE  TypeInv'
<1> USE DEF registry, sockets, tickets, accounts
<1>1. ReqOK' /\ HandlersKnow'
  <2>1. CASE AuthTouch(h)
    BY <2>1, ReturnType DEF AuthTouch, TypeInv, TypeOK, Allocated
  <2>2. CASE KickName(h)
    <3>1. PICK c \in req[h].todo : Goto(h, [req[h] EXCEPT !.pc = "kickDrop", !.client = c])
      BY <2>2 DEF KickName
    <3> DEFINE r == [req[h] EXCEPT !.pc = "kickDrop", !.client = c]
    <3>2. r \in Request /\ r.pc = "kickDrop"
      BY DEF TypeInv, TypeOK, ReqOK, Request, Steps
    <3> QED
      BY <3>1, <3>2, GotoType DEF TypeInv, TypeOK, Allocated
  <2>3. CASE \E u \in Users : Goto(h, [Idle EXCEPT !.pc = "kick", !.user = u])
    <3>1. PICK u \in Users : Goto(h, [Idle EXCEPT !.pc = "kick", !.user = u])
      BY <2>3
    <3> DEFINE r == [Idle EXCEPT !.pc = "kick", !.user = u]
    <3>2. r \in Request /\ r.pc = "kick"
      BY DEF Idle, Request, Steps
    <3> QED
      BY <3>1, <3>2, GotoType DEF TypeInv, TypeOK, Allocated
  <2>4. ASSUME NEW s \in SessionIDs, ChangePassword(h, s)
        PROVE  \E u \in Users : Goto(h, [Idle EXCEPT !.pc = "kick", !.user = u])
    BY <2>4 DEF ChangePassword
  <2> QED
    BY <2>1, <2>2, <2>3, <2>4 DEF Ban
<1>2. AccountsOK'
  <2>1. CASE AuthTouch(h) \/ KickName(h)
    BY <2>1 DEF AuthTouch, KickName, TypeInv, TypeOK, AccountsOK
  <2>2. ASSUME NEW u \in Users, epoch' = [epoch EXCEPT ![u] = @ + 1]
        PROVE  epoch' \in [Users -> Nat]
    <3>1. epoch \in [Users -> Nat]
      BY DEF TypeInv, TypeOK, AccountsOK
    <3>2. epoch[u] + 1 \in Nat
      BY <3>1
    <3> QED
      BY <2>2, <3>1, <3>2
  <2>3. ASSUME NEW u \in Users, Ban(h, u) PROVE AccountsOK'
    BY <2>2, <2>3 DEF Ban, TypeInv, TypeOK, AccountsOK
  <2>4. ASSUME NEW s \in SessionIDs, ChangePassword(h, s) PROVE AccountsOK'
    BY <2>2, <2>4 DEF ChangePassword, TypeInv, TypeOK, AccountsOK
  <2> QED
    BY <2>1, <2>3, <2>4
<1>3. RegistryOK' /\ SocketsOK' /\ OnlineOK' /\ TicketsOK'
  BY DEF AuthTouch, KickName, Ban, ChangePassword, TypeInv, TypeOK, RegistryOK, SocketsOK,
     OnlineOK, TicketsOK
<1>4. IndexedHaveUser' /\ OwnersHaveUser' /\ RunningIsOwned'
  BY DEF AuthTouch, KickName, Ban, ChangePassword, TypeInv, Allocated, IndexedHaveUser,
     OwnersHaveUser, RunningIsOwned
<1> QED
  BY <1>1, <1>2, <1>3, <1>4 DEF TypeInv, TypeOK, Allocated

LEMMA NextTyped == TypeInv /\ [Next]_vars => TypeInv'
<1> SUFFICES ASSUME TypeInv, [Next]_vars PROVE TypeInv'
  OBVIOUS
<1>1. CASE \E h \in Handlers : Handle(h)
  BY <1>1, ReadingStepsTyped, TouchAndKickTyped, WsVerifyTyped, CheckLoginDuringLogoutTyped
     DEF Handle
<1>2. CASE \E h \in Handlers : Proceed(h)
  BY <1>2, LoginCommitTyped, LogoutClearTyped, DroppingStepsTyped, TouchAndKickTyped,
     WsRebindTyped, WsRegisterTyped, ReadingStepsTyped DEF Proceed
<1>3. CASE \E k \in Conns : Goroutine(k)
  BY <1>3, GoroutineTyped
<1>4. CASE Environment
  BY <1>4, CheckLoginTyped, DroppingStepsTyped, SmallStepsTyped DEF Environment
<1>5. CASE UNCHANGED vars
  BY <1>5 DEF vars, registry, sockets, tickets, accounts, TypeInv, TypeOK, RegistryOK,
     SocketsOK, OnlineOK, TicketsOK, AccountsOK, ReqOK, Allocated, IndexedHaveUser,
     OwnersHaveUser, RunningIsOwned, HandlersKnow, At
<1> QED
  BY <1>1, <1>2, <1>3, <1>4, <1>5 DEF Next

(* The registry, the sockets, the keys and the handlers always have the    *)
(* shape TypeOK gives them: no handler, goroutine or sweep stores a nil    *)
(* client, session or user where one is expected.                          *)
THEOREM TypeCorrect == Spec => []TypeOK
<1>1. TypeInv => TypeOK
  BY DEF TypeInv
<1> QED
  BY <1>1, InitTyped, NextTyped, PTL DEF Spec

LEMMA TypedAlways == Spec => []TypeInv
BY InitTyped, NextTyped, PTL DEF Spec

-----------------------------------------------------------------------------
(* What each step does to the registry.  Most only remove clients from it, *)
(* or log one out; a login and an upgrade without a client add one.        *)

(* Clients may go, none is added, and no client changes hands. *)
Shrinks ==
  /\ clients' \subseteq clients
  /\ \A c \in Clients :
       /\ cl'[c].user = cl[c].user
       /\ cl'[c].sess = cl[c].sess
       /\ cl'[c].loggedIn => cl[c].loggedIn

Adds == \E h \in Handlers : LoginCommit(h) \/ \E k \in Conns : WsRegister(h, k)

LEMMA RegistrySteps ==
  ASSUME TypeInv, [Next]_vars
  PROVE  \/ Adds
         \/ \E h \in Handlers : LogoutClear(h)
         \/ UNCHANGED <<clients, index, cl>>
         \/ \E S \in SUBSET Clients : Drop(S)
<1> DEFINE Goal == \/ Adds
                   \/ \E h \in Handlers : LogoutClear(h)
                   \/ UNCHANGED <<clients, index, cl>>
                   \/ \E S \in SUBSET Clients : Drop(S)
<1>1. clients \in SUBSET Clients
  BY DEF TypeInv, TypeOK, RegistryOK
<1>2. ASSUME NEW h \in Handlers, Handle(h) PROVE Goal
  BY <1>2 DEF Handle, LoginRead, Ban, LogoutLookup, AuthLookup, ChangePassword,
     WsVerify, CheckLoginDuringLogout, registry
<1>3. ASSUME NEW h \in Handlers, Proceed(h) PROVE Goal
  <2>1. CASE LogoutDrop(h) \/ AuthEvict(h) \/ KickDrop(h)
    BY <1>1, <2>1 DEF LogoutDrop, AuthEvict, KickDrop
  <2>2. CASE AuthTouch(h) \/ KickCollect(h) \/ KickName(h) \/ \E k \in Conns : WsRebind(h, k)
    BY <2>2 DEF AuthTouch, KickCollect, KickName, WsRebind, registry
  <2>3. CASE LoginCommit(h) \/ \E k \in Conns : WsRegister(h, k)
    BY <2>3 DEF Adds
  <2> QED
    BY <1>3, <2>1, <2>2, <2>3 DEF Proceed
<1>4. ASSUME NEW k \in Conns, Goroutine(k) PROVE Goal
  BY <1>4 DEF Goroutine, UserConnect, LoopExit, LoopCleanup, registry
<1>5. ASSUME Environment PROVE Goal
  <2>1. ASSUME NEW s \in SessionIDs, CheckLogin(s) PROVE Goal
    <3>1. {index[s]} \in SUBSET Clients
      BY <2>1 DEF CheckLogin, TypeInv, TypeOK, RegistryOK
    <3> QED
      BY <2>1, <3>1 DEF CheckLogin, registry
  <2>2. CASE Sweep
    BY <1>1, <2>2 DEF Sweep
  <2> QED
    BY <1>5, <2>1, <2>2 DEF Environment, Expire, OtpExpire, Unban, registry
<1>6. CASE UNCHANGED vars
  BY <1>6 DEF vars, registry
<1> QED
  BY <1>2, <1>3, <1>4, <1>5, <1>6 DEF Next

(* A logout takes one client's loggedIn, and nothing else of the registry. *)
LEMMA LogoutClears ==
  ASSUME TypeInv, NEW h \in Handlers, LogoutClear(h)
  PROVE  /\ UNCHANGED <<clients, index>>
         /\ req[h].client \in Clients
         /\ ~cl'[req[h].client].loggedIn
         /\ \A c \in Clients : /\ cl'[c].user = cl[c].user
                               /\ cl'[c].sess = cl[c].sess
                               /\ cl'[c].made = cl[c].made
                               /\ c # req[h].client => cl'[c] = cl[c]
<1>1. /\ cl' = [cl EXCEPT ![req[h].client].loggedIn = FALSE]
      /\ UNCHANGED <<clients, index>>
  BY DEF LogoutClear
<1>2. cl \in [Clients -> Client] /\ req[h].client \in Clients
  BY DEF LogoutClear, At, TypeInv, TypeOK, RegistryOK, ReqOK, Allocated, HandlersKnow, Request
<1> QED
  BY ONLY <1>1, <1>2 DEF Client

LEMMA AddsOrShrinks ==
  ASSUME TypeInv, [Next]_vars
  PROVE  \/ Adds
         \/ Shrinks /\ UNCHANGED <<clients, index>>
         \/ Shrinks /\ \E S \in SUBSET Clients : Drop(S)
<1>1. ASSUME NEW S \in SUBSET Clients, Drop(S) PROVE Shrinks
  BY <1>1 DEF Drop, Shrinks
<1>2. ASSUME UNCHANGED <<clients, index, cl>> PROVE Shrinks
  BY <1>2 DEF Shrinks
<1>3. ASSUME NEW h \in Handlers, LogoutClear(h) PROVE Shrinks /\ UNCHANGED <<clients, index>>
  <2>1. \A c \in Clients : cl'[c].loggedIn => cl[c].loggedIn
    BY <1>3, LogoutClears
  <2> QED
    BY <1>3, <2>1, LogoutClears DEF Shrinks
<1> QED
  BY <1>1, <1>2, <1>3, RegistrySteps

-----------------------------------------------------------------------------
(* The session-id index. *)

LEMMA NextIndexInSync == TypeInv /\ IndexInSync /\ [Next]_vars => IndexInSync'
<1> SUFFICES ASSUME TypeInv, IndexInSync, [Next]_vars PROVE IndexInSync'
  OBVIOUS
<1> USE SessionsAssumption
<1>1. CASE Shrinks /\ UNCHANGED <<clients, index>>
  BY <1>1 DEF Shrinks, IndexInSync, TypeInv, TypeOK, RegistryOK
<1>2. CASE \E S \in SUBSET Clients : Drop(S)
  BY <1>2 DEF Drop, IndexWithout, IndexInSync, TypeInv, TypeOK, RegistryOK, Client
<1>3. ASSUME NEW h \in Handlers, LoginCommit(h) PROVE IndexInSync'
  <2> DEFINE old == {c \in clients : cl[c].user = req[h].user /\ cl[c].loggedIn}
  <2>1. PICK s \in SessionIDs, c \in Clients :
          /\ FreshSession(s)
          /\ FreshClient(c)
          /\ clients' = (clients \ old) \cup {c}
          /\ index' = [IndexWithout(old) EXCEPT ![s] = c]
          /\ cl' = [cl EXCEPT ![c] = [sess |-> s, user |-> req[h].user, loggedIn |-> TRUE,
                                     read |-> req[h].epoch, made |-> epoch[req[h].user]]]
    BY <1>3 DEF LoginCommit
  <2>2. c \notin clients /\ index[s] = None
    BY <2>1, FreshClientUnowned DEF FreshSession, IndexInSync, TypeInv, TypeOK, RegistryOK, Client
  <2>3. cl'[c].sess = s /\ \A d \in Clients \ {c} : cl'[d] = cl[d]
    BY <2>1 DEF TypeInv, TypeOK, RegistryOK
  <2> QED
    BY <2>1, <2>2, <2>3 DEF IndexWithout, FreshSession, IndexInSync, TypeInv, TypeOK, RegistryOK, Client
<1>4. ASSUME NEW h \in Handlers, NEW k \in Conns, WsRegister(h, k) PROVE IndexInSync'
  <2> DEFINE s   == req[h].sess
             old == {index[s]} \ {None}
  <2>1. PICK c \in Clients :
          /\ FreshClient(c)
          /\ clients' = (clients \ old) \cup {c}
          /\ index' = [IndexWithout(old) EXCEPT ![s] = c]
          /\ cl' = [cl EXCEPT ![c] = [sess |-> s, user |-> Anon, loggedIn |-> TRUE,
                                     read |-> 0, made |-> 0]]
    BY <1>4 DEF WsRegister
  <2>2. s \in SessionIDs
    BY <1>4 DEF WsRegister, At, TypeInv, TypeOK, ReqOK, Allocated, HandlersKnow, Request
  <2>3. c \notin clients
    BY <2>1, FreshClientUnowned DEF IndexInSync, TypeInv, TypeOK, RegistryOK, Client
  <2>4. cl'[c].sess = s /\ \A d \in Clients \ {c} : cl'[d] = cl[d]
    BY <2>1 DEF TypeInv, TypeOK, RegistryOK
  <2> QED
    BY <2>1, <2>2, <2>3, <2>4 DEF IndexWithout, IndexInSync, TypeInv, TypeOK, RegistryOK, Client
<1> QED
  BY <1>1, <1>2, <1>3, <1>4, AddsOrShrinks DEF Adds

(* m.clients and the session-id index never drift apart, however handlers, *)
(* sweeps and goroutines interleave (ws-manager.go:18-24).                 *)
THEOREM IndexNeverDrifts == Spec => []IndexInSync
<1>1. Init => IndexInSync
  BY DEF Init, IndexInSync
<1> QED
  BY <1>1, TypedAlways, NextIndexInSync, PTL DEF Spec

-----------------------------------------------------------------------------
(* One login per account. *)

LEMMA NextSingleLogin ==
  TypeInv /\ IndexInSync /\ SingleLogin /\ [Next]_vars => SingleLogin'
<1> SUFFICES ASSUME TypeInv, IndexInSync, SingleLogin, [Next]_vars PROVE SingleLogin'
  OBVIOUS
<1> USE SessionsAssumption
<1>1. CASE Shrinks
  BY <1>1 DEF Shrinks, SingleLogin, TypeInv, TypeOK, RegistryOK
<1>2. ASSUME NEW h \in Handlers, LoginCommit(h) PROVE SingleLogin'
  <2> DEFINE u   == req[h].user
             old == {c \in clients : cl[c].user = u /\ cl[c].loggedIn}
  <2>1. PICK s \in SessionIDs, c \in Clients :
          /\ clients' = (clients \ old) \cup {c}
          /\ cl' = [cl EXCEPT ![c] = [sess |-> s, user |-> u, loggedIn |-> TRUE,
                                     read |-> req[h].epoch, made |-> epoch[u]]]
    BY <1>2 DEF LoginCommit
  <2>2. cl'[c].user = u /\ \A d \in Clients \ {c} : cl'[d] = cl[d]
    BY <2>1 DEF TypeInv, TypeOK, RegistryOK
  <2> QED
    BY <2>1, <2>2 DEF SingleLogin, TypeInv, TypeOK, RegistryOK
<1>3. ASSUME NEW h \in Handlers, NEW k \in Conns, WsRegister(h, k) PROVE SingleLogin'
  <2> DEFINE s   == req[h].sess
             old == {index[s]} \ {None}
  <2>1. PICK c \in Clients :
          /\ clients' = (clients \ old) \cup {c}
          /\ cl' = [cl EXCEPT ![c] = [sess |-> s, user |-> Anon, loggedIn |-> TRUE,
                                     read |-> 0, made |-> 0]]
    BY <1>3 DEF WsRegister
  <2>2. cl'[c].user = Anon /\ \A d \in Clients \ {c} : cl'[d] = cl[d]
    BY <2>1 DEF TypeInv, TypeOK, RegistryOK
  <2> QED
    BY <2>1, <2>2 DEF SingleLogin, TypeInv, TypeOK, RegistryOK
<1> QED
  BY <1>1, <1>2, <1>3, AddsOrShrinks DEF Adds

(* An account never has two logged-in clients (handlers.go:666-677).       *)
THEOREM OneLoginPerAccount == Spec => []SingleLogin
<1>1. Init => SingleLogin
  BY DEF Init, SingleLogin
<1> QED
  BY <1>1, TypedAlways, IndexNeverDrifts, NextSingleLogin, PTL DEF Spec

-----------------------------------------------------------------------------
(* Superseded connections. *)

LEMMA CloseKeepsSuperseded ==
  ASSUME TypeInv, SupersededAreClosed, NEW S, CloseConnections(S)
  PROVE  SupersededAreClosed'
BY SessionsAssumption DEF CloseConnections, SupersededAreClosed, TypeInv, TypeOK, SocketsOK

LEMMA NextSuperseded ==
  TypeInv /\ SupersededAreClosed /\ [Next]_vars => SupersededAreClosed'
<1> SUFFICES ASSUME TypeInv, SupersededAreClosed, [Next]_vars PROVE SupersededAreClosed'
  OBVIOUS
<1>1. ASSUME UNCHANGED <<conn, closed, owner>> PROVE SupersededAreClosed'
  BY <1>1 DEF SupersededAreClosed
<1>2. ASSUME NEW S, Drop(S) PROVE SupersededAreClosed'
  BY <1>2, CloseKeepsSuperseded DEF Drop
<1>3. ASSUME NEW h \in Handlers, LoginCommit(h) PROVE SupersededAreClosed'
  BY <1>3, CloseKeepsSuperseded DEF LoginCommit
<1>4. ASSUME NEW h \in Handlers, NEW k \in Conns, WsRebind(h, k) PROVE SupersededAreClosed'
  <2> DEFINE c == index[req[h].sess]
  <2>1. /\ owner[k] = None
        /\ conn' = [conn EXCEPT ![c] = k]
        /\ closed' = closed \cup ({conn[c]} \ {None})
        /\ owner' = [owner EXCEPT ![k] = c]
    BY <1>4 DEF WsRebind, StartLoops, FreshConn
  <2>2. c \in Clients
    BY <1>4 DEF WsRebind, At, TypeInv, TypeOK, RegistryOK, ReqOK, Allocated, HandlersKnow, Request
  <2> QED
    BY <2>1, <2>2, SessionsAssumption DEF SupersededAreClosed, TypeInv, TypeOK, SocketsOK
<1>5. ASSUME NEW h \in Handlers, NEW k \in Conns, WsRegister(h, k) PROVE SupersededAreClosed'
  <2>1. PICK c \in Clients :
          /\ FreshClient(c)
          /\ conn' = [conn EXCEPT ![c] = k]
          /\ owner' = [owner EXCEPT ![k] = c]
          /\ closed' = closed
    BY <1>5 DEF WsRegister, StartLoops
  <2>2. \A j \in Conns : owner[j] # c
    BY <2>1, FreshClientUnowned
  <2> QED
    BY <2>1, <2>2 DEF SupersededAreClosed, TypeInv, TypeOK, SocketsOK
<1>6. ASSUME NEW k \in Conns, NEW i \in Sides, LoopExit(k, i) PROVE SupersededAreClosed'
  BY <1>6, SessionsAssumption DEF LoopExit, SupersededAreClosed, TypeInv, TypeOK, SocketsOK
<1>7. CASE \E h \in Handlers : Handle(h)
  BY <1>1, <1>7 DEF Handle, LoginRead, Ban, LogoutLookup, AuthLookup, ChangePassword, WsVerify,
     CheckLoginDuringLogout, sockets
<1>8. CASE \E h \in Handlers : Proceed(h)
  BY <1>1, <1>2, <1>3, <1>4, <1>5, <1>8 DEF Proceed, LogoutClear, LogoutDrop, AuthTouch,
     AuthEvict, KickCollect, KickName, KickDrop, sockets
<1>9. CASE \E k \in Conns : Goroutine(k)
  BY <1>1, <1>6, <1>9 DEF Goroutine, UserConnect, LoopCleanup
<1>10. CASE Environment
  BY <1>1, <1>2, <1>10 DEF Environment, CheckLogin, Sweep, Expire, OtpExpire, Unban, sockets
<1>11. CASE UNCHANGED vars
  BY <1>1, <1>11 DEF vars, sockets
<1> QED
  BY <1>7, <1>8, <1>9, <1>10, <1>11 DEF Next

(* A connection that is not its client's current one has been closed, so   *)
(* its write loop has been told to stop (ws-client.go:22-32): two loops    *)
(* never compete for one client's events for longer than it takes to hear. *)
THEOREM SupersededAlwaysClosed == Spec => []SupersededAreClosed
<1>1. Init => SupersededAreClosed
  BY DEF Init, SupersededAreClosed
<1> QED
  BY <1>1, TypedAlways, NextSuperseded, PTL DEF Spec

-----------------------------------------------------------------------------
(* A goroutine closes its own connection only. *)

(* The current connection of a client was opened for it. *)
ConnOwned == \A c \in Clients : conn[c] # None => owner[conn[c]] = c

(* What a step may do to the connections. *)
SocketSteps ==
  \/ UNCHANGED <<conn, closed, owner>>
  \/ \E S \in SUBSET Clients :
       CloseConnections(S) /\ \A c \in S : c \notin clients'
  \/ \E h \in Handlers, k \in Conns : WsRebind(h, k) \/ WsRegister(h, k)
  \/ \E k \in Conns, i \in Sides : LoopExit(k, i)

LEMMA NextSocketSteps == ASSUME TypeInv, [Next]_vars PROVE SocketSteps
<1>1. clients \in SUBSET Clients
  BY DEF TypeInv, TypeOK, RegistryOK
<1>2. ASSUME NEW S \in SUBSET Clients, Drop(S) PROVE SocketSteps
  BY <1>2 DEF Drop, SocketSteps
<1>3. ASSUME NEW h \in Handlers, LoginCommit(h) PROVE SocketSteps
  <2> DEFINE old == {c \in clients : cl[c].user = req[h].user /\ cl[c].loggedIn}
  <2>1. PICK c \in Clients : /\ FreshClient(c)
                            /\ clients' = (clients \ old) \cup {c}
                            /\ CloseConnections(old)
    BY <1>3 DEF LoginCommit
  <2>2. ~cl[c].loggedIn
    BY <2>1 DEF FreshClient, Unallocated
  <2>3. old \in SUBSET Clients /\ \A d \in old : d \notin clients'
    BY <1>1, <2>1, <2>2
  <2> QED
    BY <2>1, <2>3 DEF SocketSteps
<1>4. CASE \E h \in Handlers : Handle(h)
  BY <1>4 DEF SocketSteps, Handle, LoginRead, Ban, LogoutLookup, AuthLookup, ChangePassword,
     WsVerify, CheckLoginDuringLogout, sockets
<1>5. CASE \E h \in Handlers : Proceed(h)
  <2>1. PICK h \in Handlers : Proceed(h)
    BY <1>5
  <2>2. CASE LogoutDrop(h) \/ AuthEvict(h) \/ KickDrop(h)
    BY <1>1, <1>2, <2>2 DEF LogoutDrop, AuthEvict, KickDrop
  <2>3. CASE LogoutClear(h) \/ AuthTouch(h) \/ KickCollect(h) \/ KickName(h)
    BY <2>3 DEF SocketSteps, LogoutClear, AuthTouch, KickCollect, KickName, sockets
  <2> QED
    BY <1>3, <2>1, <2>2, <2>3 DEF Proceed, SocketSteps
<1>6. CASE \E k \in Conns : Goroutine(k)
  BY <1>6 DEF SocketSteps, Goroutine, UserConnect, LoopCleanup
<1>7. CASE Environment
  <2>1. ASSUME NEW s \in SessionIDs, CheckLogin(s) PROVE SocketSteps
    <3>1. {index[s]} \in SUBSET Clients
      BY <2>1 DEF CheckLogin, TypeInv, TypeOK, RegistryOK
    <3> QED
      BY <1>2, <2>1, <3>1 DEF CheckLogin, SocketSteps, sockets
  <2>2. CASE Sweep
    BY <1>1, <1>2, <2>2 DEF Sweep
  <2> QED
    BY <1>7, <2>1, <2>2 DEF Environment, Expire, OtpExpire, Unban, SocketSteps, sockets
<1>8. CASE UNCHANGED vars
  BY <1>8 DEF vars, sockets, SocketSteps
<1> QED
  BY <1>4, <1>5, <1>6, <1>7, <1>8 DEF Next

(* An upgrade: k becomes the connection of c, and was nobody's. *)
LEMMA UpgradeBinds ==
  ASSUME TypeInv, IndexInSync, NEW h \in Handlers, NEW k \in Conns,
         WsRebind(h, k) \/ WsRegister(h, k)
  PROVE  /\ owner[k] = None /\ req[h].sess \in SessionIDs
         /\ \E c \in Clients : /\ conn' = [conn EXCEPT ![c] = k]
                               /\ owner' = [owner EXCEPT ![k] = c]
                               /\ closed' \subseteq closed \cup {conn[c]}
                               /\ cl'[c].sess = req[h].sess
         /\ ticket' = [ticket EXCEPT ![k] = req[h].otp]
         /\ req' = [req EXCEPT ![h] = Idle]
         /\ UNCHANGED tickets
<1>1. req[h].sess \in SessionIDs
  BY DEF WsRebind, WsRegister, At, TypeInv, TypeOK, ReqOK, Allocated, HandlersKnow, Request
<1>2. CASE WsRebind(h, k)
  <2>1. index[req[h].sess] \in Clients /\ cl[index[req[h].sess]].sess = req[h].sess
    BY <1>1, <1>2 DEF WsRebind, IndexInSync, TypeInv, TypeOK, RegistryOK
  <2> QED
    BY <1>1, <1>2, <2>1 DEF WsRebind, StartLoops, FreshConn, Return, Goto, registry
<1>3. CASE WsRegister(h, k)
  <2>1. PICK c \in Clients :
          /\ cl' = [cl EXCEPT ![c] = [sess |-> req[h].sess, user |-> Anon, loggedIn |-> TRUE,
                                     read |-> 0, made |-> 0]]
          /\ conn' = [conn EXCEPT ![c] = k]
          /\ StartLoops(h, k, c)
    BY <1>3 DEF WsRegister
  <2>2. cl'[c].sess = req[h].sess
    BY <2>1 DEF TypeInv, TypeOK, RegistryOK
  <2> QED
    BY <1>1, <1>3, <2>1, <2>2 DEF WsRegister, StartLoops, FreshConn, Return, Goto
<1> QED
  BY <1>2, <1>3

LEMMA NextConnOwned ==
  TypeInv /\ IndexInSync /\ ConnOwned /\ [Next]_vars => ConnOwned'
<1> SUFFICES ASSUME TypeInv, IndexInSync, ConnOwned, [Next]_vars PROVE ConnOwned'
  OBVIOUS
<1>1. CASE UNCHANGED <<conn, closed, owner>>
  BY <1>1 DEF ConnOwned
<1>2. ASSUME NEW S \in SUBSET Clients, CloseConnections(S) PROVE ConnOwned'
  BY <1>2 DEF CloseConnections, ConnOwned
<1>3. ASSUME NEW h \in Handlers, NEW k \in Conns, WsRebind(h, k) \/ WsRegister(h, k)
      PROVE  ConnOwned'
  BY <1>3, UpgradeBinds, SessionsAssumption DEF ConnOwned, TypeInv, TypeOK, SocketsOK
<1>4. ASSUME NEW k \in Conns, NEW i \in Sides, LoopExit(k, i) PROVE ConnOwned'
  BY <1>4 DEF LoopExit, ConnOwned, TypeInv, TypeOK, SocketsOK
<1> QED
  BY <1>1, <1>2, <1>3, <1>4, NextSocketSteps DEF SocketSteps

LEMMA StepClosesByRight ==
  TypeInv /\ IndexInSync /\ ConnOwned /\ [Next]_vars => ClosedByRight
<1> SUFFICES ASSUME TypeInv, IndexInSync, ConnOwned, [Next]_vars PROVE ClosedByRight
  OBVIOUS
<1> USE SessionsAssumption
<1>1. CASE UNCHANGED <<conn, closed, owner>>
  BY <1>1 DEF ClosedByRight
<1>2. ASSUME NEW S \in SUBSET Clients, CloseConnections(S), \A c \in S : c \notin clients'
      PROVE  ClosedByRight
  BY <1>2 DEF CloseConnections, ConnOwned, ClosedByRight
<1>3. ASSUME NEW h \in Handlers, NEW k \in Conns, WsRebind(h, k) \/ WsRegister(h, k)
      PROVE  ClosedByRight
  <2>1. PICK c \in Clients : /\ conn' = [conn EXCEPT ![c] = k]
                            /\ closed' \subseteq closed \cup {conn[c]}
    BY <1>3, UpgradeBinds
  <2>2. conn'[c] = k /\ k # None
    BY <2>1 DEF TypeInv, TypeOK, SocketsOK
  <2>3. None \notin closed'
    BY <1>3 DEF WsRebind, WsRegister, TypeInv, TypeOK, SocketsOK
  <2> QED
    BY <2>1, <2>2, <2>3 DEF ConnOwned, ClosedByRight
<1>4. ASSUME NEW k \in Conns, NEW i \in Sides, LoopExit(k, i) PROVE ClosedByRight
  <2>1. CASE UNCHANGED closed
    BY <2>1 DEF ClosedByRight
  <2>2. CASE closed' = closed \cup {k} /\ Loop(k, i, "cleanup")
    <3>1. loop[k][i] = "run" /\ loop'[k][i] = "cleanup"
      BY <1>4, <2>2 DEF LoopExit, Loop, TypeInv, TypeOK, SocketsOK
    <3> QED
      BY <2>2, <3>1 DEF ClosedByRight
  <2> QED
    BY <1>4, <2>1, <2>2 DEF LoopExit
<1> QED
  BY <1>1, <1>2, <1>3, <1>4, NextSocketSteps DEF SocketSteps

LEMMA OwnedAlways == Spec => []ConnOwned
<1>1. Init => ConnOwned
  BY DEF Init, ConnOwned
<1> QED
  BY <1>1, TypedAlways, IndexNeverDrifts, NextConnOwned, PTL DEF Spec

(* A goroutine that winds down never closes the connection that has taken  *)
(* the place of its own (ws-client.go:253-260): what a client that stays   *)
(* loses, it loses to a newer connection or to the goroutines of the one   *)
(* it had.                                                                 *)
THEOREM NewerConnectionStays == Spec => NewerConnectionSurvives
<1>1. TypeInv /\ IndexInSync /\ ConnOwned /\ [Next]_vars => [ClosedByRight]_vars
  BY StepClosesByRight
<1> QED
  BY <1>1, TypedAlways, IndexNeverDrifts, OwnedAlways, PTL DEF Spec, NewerConnectionSurvives

-----------------------------------------------------------------------------
(* No session in use is evicted. *)

LEMMA StepKeepsFresh == TypeInv /\ IndexInSync /\ [Next]_vars => FreshStays
<1> SUFFICES ASSUME TypeInv, IndexInSync, [Next]_vars PROVE FreshStays
  OBVIOUS
<1>1. ASSUME NEW h \in Handlers, LoginCommit(h) PROVE FreshStays
  <2> DEFINE u   == req[h].user
             old == {c \in clients : cl[c].user = u /\ cl[c].loggedIn}
  <2>1. PICK s \in SessionIDs, c \in Clients :
          /\ FreshClient(c)
          /\ clients' = (clients \ old) \cup {c}
          /\ cl' = [cl EXCEPT ![c] = [sess |-> s, user |-> u, loggedIn |-> TRUE,
                                     read |-> req[h].epoch, made |-> epoch[u]]]
    BY <1>1 DEF LoginCommit
  <2>2. c \notin clients /\ cl'[c].user = u
    BY <2>1, FreshClientUnowned DEF IndexInSync, TypeInv, TypeOK, RegistryOK, Client,
       FreshClient, Unallocated
  <2> QED
    BY <2>1, <2>2 DEF FreshStays
<1>2. ASSUME NEW h \in Handlers, NEW k \in Conns, WsRegister(h, k) PROVE FreshStays
  BY <1>2 DEF WsRegister, FreshStays
<1>3. ASSUME UNCHANGED clients PROVE FreshStays
  BY <1>3 DEF FreshStays
<1>4. ASSUME NEW h \in Handlers, Handle(h) PROVE FreshStays
  BY <1>3, <1>4 DEF Handle, LoginRead, Ban, LogoutLookup, AuthLookup, ChangePassword,
     WsVerify, CheckLoginDuringLogout, registry
<1>5. ASSUME NEW h \in Handlers, LogoutDrop(h) \/ KickDrop(h) PROVE FreshStays
  BY <1>5 DEF LogoutDrop, KickDrop, At, Drop, FreshStays
<1>6. ASSUME NEW h \in Handlers, AuthEvict(h) PROVE FreshStays
  BY <1>6 DEF AuthEvict, Drop, FreshStays
<1>7. ASSUME NEW h \in Handlers, Proceed(h) PROVE FreshStays
  BY <1>1, <1>2, <1>3, <1>5, <1>6, <1>7 DEF Proceed, LogoutClear, AuthTouch, WsRebind,
     KickCollect, KickName, registry
<1>8. ASSUME NEW k \in Conns, Goroutine(k) PROVE FreshStays
  BY <1>3, <1>8 DEF Goroutine, UserConnect, LoopExit, LoopCleanup, registry
<1>9. ASSUME Environment PROVE FreshStays
  <2>1. ASSUME NEW s \in SessionIDs, CheckLogin(s) PROVE FreshStays
    BY <1>3, <2>1 DEF CheckLogin, Drop, FreshStays, registry
  <2>2. CASE Sweep
    BY <2>2 DEF Sweep, Drop, FreshStays
  <2> QED
    BY <1>3, <1>9, <2>1, <2>2 DEF Environment, Expire, OtpExpire, Unban, registry
<1>10. CASE UNCHANGED vars
  BY <1>3, <1>10 DEF vars, registry
<1> QED
  BY <1>4, <1>7, <1>8, <1>9, <1>10 DEF Next

(* Whatever a request judged about a session's age before it took the lock *)
(* (handlers.go:70-76), a session that is in use by then is not evicted:   *)
(* one goes only to a login, a ban, a kick or its own logout.              *)
THEOREM FreshSessionsAlwaysStay == Spec => FreshSessionsStay
<1>1. TypeInv /\ IndexInSync /\ [Next]_vars => [FreshStays]_vars
  BY StepKeepsFresh
<1> QED
  BY <1>1, TypedAlways, IndexNeverDrifts, PTL DEF Spec, FreshSessionsStay

-----------------------------------------------------------------------------
(* A ban or a password change ends the sessions there are. *)

(* Only a handler that kicks has clients to kick. *)
TodoInv == \A h \in Handlers : req[h].todo # {} => req[h].pc \in {"kickName", "kickDrop"}

(* A step keeps every kick that is on its way, but that of a client it     *)
(* drops.                                                                  *)
KicksGoOn == \A c \in clients \cap clients' : KickPending(c) => KickPending(c)'

(* No step but a ban or a password change, which sets off a kick, makes a  *)
(* registered client any older.                                            *)
NoneAges ==
  \A c \in clients \cap clients' :
    /\ cl'[c].user = cl[c].user
    /\ cl'[c].made = cl[c].made
    /\ cl[c].user \in Users /\ epoch'[cl[c].user] # epoch[cl[c].user] => KickPending(c)'

NewAreCurrent ==
  \A c \in clients' \ clients :
    cl'[c].user \in Users => cl'[c].made = epoch'[cl'[c].user]

(* A handler that kicks nobody moves on. *)
LEMMA GotoKeepsKicks ==
  ASSUME TypeInv, TodoInv, NEW h \in Handlers, NEW r, Goto(h, r), ~At(h, "kick"),
         UNCHANGED cl, r.todo = req[h].todo,
         r.todo # {} => r.pc \in {"kickName", "kickDrop"}
  PROVE  TodoInv' /\ KicksGoOn
BY DEF TypeInv, TypeOK, ReqOK, Goto, At, TodoInv, KicksGoOn, KickPending

LEMMA ReturnKeepsKicks ==
  ASSUME TypeInv, TodoInv, NEW h \in Handlers, Return(h),
         req[h].pc \notin {"kick", "kickName", "kickDrop"},
         \A c \in clients \cap clients' : cl'[c].user = cl[c].user
  PROVE  TodoInv' /\ KicksGoOn
<1>1. req[h].todo = {} /\ req' = [req EXCEPT ![h] = Idle] /\ Idle.todo = {}
  BY DEF TodoInv, Return, Goto, Idle
<1> QED
  BY <1>1 DEF TypeInv, TypeOK, ReqOK, At, TodoInv, KicksGoOn, KickPending

(* A client that a step adds was not registered before. *)
LEMMA FreshIsNew ==
  ASSUME TypeInv, IndexInSync, NEW c \in Clients, FreshClient(c)
  PROVE  c \notin clients
BY SessionsAssumption DEF IndexInSync, FreshClient, Unallocated

LEMMA LoginKeepsKicks ==
  ASSUME TypeInv, IndexInSync, TodoInv, NEW h \in Handlers, LoginCommit(h)
  PROVE  TodoInv' /\ KicksGoOn /\ NoneAges /\ NewAreCurrent
<1> DEFINE u   == req[h].user
           old == {c \in clients : cl[c].user = u /\ cl[c].loggedIn}
<1>1. PICK s \in SessionIDs, c \in Clients :
        /\ FreshClient(c)
        /\ clients' = (clients \ old) \cup {c}
        /\ cl' = [cl EXCEPT ![c] = [sess |-> s, user |-> u, loggedIn |-> TRUE,
                                   read |-> req[h].epoch, made |-> epoch[u]]]
  BY DEF LoginCommit
<1>2. c \notin clients /\ cl \in [Clients -> Client] /\ clients \subseteq Clients
  BY <1>1, FreshIsNew DEF TypeInv, TypeOK, RegistryOK
<1>3. \A d \in clients : cl'[d] = cl[d]
  BY <1>1, <1>2
<1>4. cl'[c].user = u /\ cl'[c].made = epoch[u] /\ epoch' = epoch
  BY <1>1, <1>2 DEF LoginCommit, accounts
<1>5. TodoInv' /\ KicksGoOn
  BY <1>3, ReturnKeepsKicks DEF LoginCommit, At
<1> QED
  BY <1>1, <1>3, <1>4, <1>5 DEF NoneAges, NewAreCurrent

LEMMA RegisterKeepsKicks ==
  ASSUME TypeInv, IndexInSync, TodoInv, NEW h \in Handlers, NEW k \in Conns, WsRegister(h, k)
  PROVE  TodoInv' /\ KicksGoOn /\ NoneAges /\ NewAreCurrent
<1> DEFINE s   == req[h].sess
           old == {index[s]} \ {None}
<1>1. PICK c \in Clients :
        /\ FreshClient(c)
        /\ clients' = (clients \ old) \cup {c}
        /\ cl' = [cl EXCEPT ![c] = [sess |-> s, user |-> Anon, loggedIn |-> TRUE,
                                   read |-> 0, made |-> 0]]
  BY DEF WsRegister
<1>2. c \notin clients /\ cl \in [Clients -> Client] /\ clients \subseteq Clients
  BY <1>1, FreshIsNew DEF TypeInv, TypeOK, RegistryOK
<1>3. \A d \in clients : cl'[d] = cl[d]
  BY <1>1, <1>2
<1>4. cl'[c].user = Anon /\ epoch' = epoch
  BY <1>1, <1>2 DEF WsRegister, accounts
<1>5. TodoInv' /\ KicksGoOn
  BY <1>3, ReturnKeepsKicks DEF WsRegister, At
<1> QED
  BY <1>1, <1>3, <1>4, <1>5, SessionsAssumption DEF NoneAges, NewAreCurrent

LEMMA StartKeepsKicks ==
  ASSUME TypeInv, TodoInv, NEW h \in Handlers, Handle(h)
  PROVE  TodoInv' /\ KicksGoOn /\ NoneAges
<1>1. UNCHANGED <<clients, cl>>
  BY DEF Handle, LoginRead, Ban, LogoutLookup, AuthLookup, ChangePassword, WsVerify,
     CheckLoginDuringLogout, registry
<1>2. At(h, "idle") \/ At(h, "logoutClear")
  BY DEF Handle, LoginRead, Ban, LogoutLookup, AuthLookup, ChangePassword, WsVerify,
     CheckLoginDuringLogout
<1>3. req[h].todo = {} /\ ~At(h, "kick")
  BY <1>2 DEF TodoInv, At
<1>4. \/ UNCHANGED <<req, epoch>>
      \/ UNCHANGED epoch /\ \E r : Goto(h, r) /\ r.todo = {}
      \/ \E u \in Users : /\ epoch' = [epoch EXCEPT ![u] = @ + 1]
                          /\ Goto(h, [Idle EXCEPT !.pc = "kick", !.user = u])
  <2>1. ASSUME NEW u \in Users, LoginRead(h, u)
        PROVE  UNCHANGED epoch /\ \E r : Goto(h, r) /\ r.todo = {}
    <3> DEFINE r == [Idle EXCEPT !.pc = "login", !.user = u, !.epoch = epoch[u]]
    <3>1. Goto(h, r) /\ r.todo = {} /\ UNCHANGED epoch
      BY <2>1 DEF LoginRead, Idle, accounts
    <3> HIDE DEF r
    <3> QED
      BY <3>1
  <2>2. ASSUME NEW s \in SessionIDs, NEW pc, UNCHANGED accounts,
               Goto(h, [Idle EXCEPT !.pc = pc, !.client = index[s]])
        PROVE  UNCHANGED epoch /\ \E r : Goto(h, r) /\ r.todo = {}
    <3> DEFINE r == [Idle EXCEPT !.pc = pc, !.client = index[s]]
    <3>1. Goto(h, r) /\ r.todo = {} /\ UNCHANGED epoch
      BY <2>2 DEF Idle, accounts
    <3> HIDE DEF r
    <3> QED
      BY <3>1
  <2>3. ASSUME NEW o \in Otps, NEW s \in SessionIDs, WsVerify(h, o, s)
        PROVE  UNCHANGED epoch /\ (UNCHANGED req \/ \E r : Goto(h, r) /\ r.todo = {})
    <3> DEFINE r == [Idle EXCEPT !.pc = "ws", !.sess = s, !.otp = o]
    <3>1. (UNCHANGED req \/ Goto(h, r)) /\ r.todo = {} /\ UNCHANGED epoch
      BY <2>3 DEF WsVerify, Idle, accounts
    <3> HIDE DEF r
    <3> QED
      BY <3>1
  <2>4. ASSUME CheckLoginDuringLogout(h)
        PROVE  UNCHANGED epoch /\ \E r : Goto(h, r) /\ r.todo = {}
    BY <1>3, <2>4 DEF CheckLoginDuringLogout, accounts, TypeInv, TypeOK, ReqOK, Request
  <2> QED
    BY <2>1, <2>2, <2>3, <2>4 DEF Handle, Ban, ChangePassword, LogoutLookup, AuthLookup
<1>5. CASE UNCHANGED <<req, epoch>>
  BY <1>1, <1>5 DEF TodoInv, KicksGoOn, KickPending, At, NoneAges
<1>6. CASE UNCHANGED epoch /\ \E r : Goto(h, r) /\ r.todo = {}
  BY <1>1, <1>3, <1>6, GotoKeepsKicks DEF NoneAges
<1>7. ASSUME NEW u \in Users, epoch' = [epoch EXCEPT ![u] = @ + 1],
             Goto(h, [Idle EXCEPT !.pc = "kick", !.user = u])
      PROVE  TodoInv' /\ KicksGoOn /\ NoneAges
  <2> DEFINE r == [Idle EXCEPT !.pc = "kick", !.user = u]
  <2>1. r.pc = "kick" /\ r.user = u /\ r.todo = {}
    BY DEF Idle
  <2>2. TodoInv' /\ KicksGoOn
    BY <1>1, <1>3, <1>7, <2>1, GotoKeepsKicks
  <2>3. req'[h] = r
    BY <1>7 DEF Goto, TypeInv, TypeOK, ReqOK
  <2>4. \A c \in clients : cl[c].user = u => KickPending(c)'
    BY <1>1, <2>1, <2>3 DEF KickPending, At
  <2>5. \A v \in Users \ {u} : epoch'[v] = epoch[v]
    BY <1>7 DEF TypeInv, TypeOK, AccountsOK
  <2> QED
    BY <1>1, <2>2, <2>4, <2>5 DEF NoneAges
<1> QED
  BY <1>4, <1>5, <1>6, <1>7

LEMMA KickGoesOn ==
  ASSUME TypeInv, TodoInv, NEW h \in Handlers, KickCollect(h) \/ KickName(h) \/ KickDrop(h)
  PROVE  TodoInv' /\ KicksGoOn
<1> USE DEF TypeInv, TypeOK, ReqOK, Request
<1>1. CASE KickCollect(h)
  <2> DEFINE found == {c \in clients : cl[c].user = req[h].user}
             r     == [req[h] EXCEPT !.pc = "kickName", !.todo = found]
  <2>1. /\ req[h].pc = "kick" /\ UNCHANGED <<clients, cl>>
        /\ IF found = {} THEN req' = [req EXCEPT ![h] = Idle] ELSE req' = [req EXCEPT ![h] = r]
    BY <1>1 DEF KickCollect, At, Return, Goto, registry
  <2>2. req[h].todo = {}
    BY <2>1 DEF TodoInv
  <2>3. CASE found = {}
    BY <2>1, <2>2, <2>3 DEF TodoInv, KicksGoOn, KickPending, At, Idle
  <2>4. CASE found # {}
    <3>1. req' = [req EXCEPT ![h] = r] /\ r.pc = "kickName" /\ r.todo = found
      BY <2>1, <2>4
    <3>2. req'[h].todo = found /\ req'[h].pc = "kickName"
      BY <3>1
    <3>3. \A g \in Handlers \ {h} : req'[g] = req[g]
      BY <3>1
    <3>4. \A c \in clients : req[h].user = cl[c].user => c \in found
      OBVIOUS
    <3> HIDE DEF found, r
    <3> QED
      BY <2>1, <2>2, <3>2, <3>3, <3>4 DEF TodoInv, KicksGoOn, KickPending, At
  <2> QED
    BY <2>3, <2>4
<1>2. CASE KickName(h)
  <2>1. PICK c \in req[h].todo : Goto(h, [req[h] EXCEPT !.pc = "kickDrop", !.client = c])
    BY <1>2 DEF KickName
  <2>2. UNCHANGED cl /\ ~At(h, "kick")
    BY <1>2 DEF KickName, registry, At
  <2> QED
    BY <2>1, <2>2, GotoKeepsKicks
<1>3. CASE KickDrop(h)
  <2> DEFINE left == req[h].todo \ {req[h].client}
             r    == [req[h] EXCEPT !.pc = "kickName", !.todo = left]
  <2>1. /\ req[h].pc = "kickDrop" /\ UNCHANGED cl /\ clients' = clients \ {req[h].client}
        /\ IF left = {} THEN req' = [req EXCEPT ![h] = Idle] ELSE req' = [req EXCEPT ![h] = r]
    BY <1>3 DEF KickDrop, Drop, At, Return, Goto
  <2>2. req'[h].todo = left /\ (left # {} => req'[h].pc = "kickName")
    <3>1. CASE left = {}
      BY <2>1, <3>1 DEF Idle
    <3>2. CASE left # {}
      <4>1. r.todo = left /\ r.pc = "kickName" /\ req' = [req EXCEPT ![h] = r]
        BY <2>1, <3>2
      <4> HIDE DEF r
      <4> QED
        BY <4>1
    <3> QED
      BY <3>1, <3>2
  <2>3. \A g \in Handlers \ {h} : req'[g] = req[g]
    BY <2>1
  <2> QED
    BY <2>1, <2>2, <2>3 DEF TodoInv, KicksGoOn, KickPending, At
<1> QED
  BY <1>1, <1>2, <1>3

LEMMA NextKicks ==
  ASSUME TypeInv, IndexInSync, TodoInv, [Next]_vars
  PROVE  TodoInv' /\ KicksGoOn /\ NoneAges /\ NewAreCurrent
<1> DEFINE Goal == TodoInv' /\ KicksGoOn /\ NoneAges /\ NewAreCurrent
<1>1. ASSUME UNCHANGED <<cl, req, epoch>>, clients' \subseteq clients PROVE Goal
  BY <1>1 DEF TodoInv, KicksGoOn, KickPending, At, NoneAges, NewAreCurrent
<1>2. ASSUME UNCHANGED <<cl, epoch>>, clients' \subseteq clients, NEW h \in Handlers, Return(h),
             req[h].pc \notin {"kick", "kickName", "kickDrop"}
      PROVE  Goal
  BY <1>2, ReturnKeepsKicks DEF NoneAges, NewAreCurrent
<1>3. ASSUME NEW h \in Handlers, Handle(h) PROVE Goal
  <2>1. UNCHANGED clients
    BY <1>3 DEF Handle, LoginRead, Ban, LogoutLookup, AuthLookup, ChangePassword, WsVerify,
       CheckLoginDuringLogout, registry
  <2> QED
    BY <1>3, <2>1, StartKeepsKicks DEF NewAreCurrent
<1>4. ASSUME NEW h \in Handlers, LogoutClear(h) PROVE Goal
  <2>1. UNCHANGED <<clients, epoch>> /\ \A c \in Clients : cl'[c].user = cl[c].user /\ cl'[c].made = cl[c].made
    BY <1>4, LogoutClears DEF LogoutClear, accounts
  <2>2. /\ req' = [req EXCEPT ![h] = [req[h] EXCEPT !.pc = "logoutDrop"]]
        /\ req[h].todo = {} /\ ~At(h, "kick")
    BY <1>4 DEF LogoutClear, Goto, TodoInv, At
  <2>3. clients \subseteq Clients
    BY DEF TypeInv, TypeOK, RegistryOK
  <2>4. TodoInv' /\ KicksGoOn
    BY <2>1, <2>2, <2>3 DEF TodoInv, KicksGoOn, KickPending, At, TypeInv, TypeOK, ReqOK, Request
  <2> QED
    BY <2>1, <2>3, <2>4 DEF NoneAges, NewAreCurrent
<1>5. ASSUME NEW h \in Handlers, Proceed(h) PROVE Goal
  <2>1. CASE LogoutDrop(h) \/ AuthTouch(h) \/ AuthEvict(h)
    BY <1>2, <2>1 DEF LogoutDrop, AuthTouch, AuthEvict, Drop, At, accounts
  <2>2. ASSUME NEW k \in Conns, WsRebind(h, k) PROVE Goal
    BY <1>2, <2>2 DEF WsRebind, registry, At, accounts
  <2>3. CASE KickCollect(h) \/ KickName(h) \/ KickDrop(h)
    <3>1. UNCHANGED <<cl, epoch>> /\ clients' \subseteq clients
      BY <2>3 DEF KickCollect, KickName, KickDrop, Drop, registry, accounts
    <3> QED
      BY <2>3, <3>1, KickGoesOn DEF NoneAges, NewAreCurrent
  <2> QED
    BY <1>4, <1>5, <2>1, <2>2, <2>3, LoginKeepsKicks, RegisterKeepsKicks DEF Proceed
<1>6. ASSUME NEW k \in Conns, Goroutine(k) PROVE Goal
  BY <1>1, <1>6 DEF Goroutine, UserConnect, LoopExit, LoopCleanup, registry, accounts
<1>7. ASSUME Environment PROVE Goal
  BY <1>1, <1>7 DEF Environment, CheckLogin, Sweep, Drop, Expire, OtpExpire, Unban, registry,
     accounts
<1>8. CASE UNCHANGED vars
  BY <1>1, <1>8 DEF vars, registry, accounts
<1> QED
  BY <1>3, <1>5, <1>6, <1>7, <1>8 DEF Next

LEMMA NextOldSessions ==
  TypeInv /\ IndexInSync /\ TodoInv /\ OldSessionsDie /\ [Next]_vars
    => TodoInv' /\ OldSessionsDie'
<1> SUFFICES ASSUME TypeInv, IndexInSync, TodoInv, OldSessionsDie, [Next]_vars,
                    TypeInv'
             PROVE  TodoInv' /\ OldSessionsDie'
  BY NextTyped
<1>1. TodoInv' /\ KicksGoOn /\ NoneAges /\ NewAreCurrent
  BY NextKicks
<1>2. ASSUME NEW c \in clients', cl'[c].user \in Users, cl'[c].made < epoch'[cl'[c].user]
      PROVE  KickPending(c)'
  <2>1. CASE c \notin clients
    BY <1>1, <1>2, <2>1 DEF NewAreCurrent, TypeInv, TypeOK, AccountsOK
  <2>2. CASE c \in clients /\ epoch'[cl[c].user] # epoch[cl[c].user]
    BY <1>1, <1>2, <2>2 DEF NoneAges
  <2>3. CASE c \in clients /\ epoch'[cl[c].user] = epoch[cl[c].user]
    BY <1>1, <1>2, <2>3 DEF NoneAges, KicksGoOn, OldSessionsDie
  <2> QED
    BY <2>1, <2>2, <2>3
<1> QED
  BY <1>1, <1>2 DEF OldSessionsDie

(* A session that was there when its account was banned or its password    *)
(* changed has a kick on its way to it for as long as it is registered     *)
(* (profile.go:174-182), whatever else is kicked, logs in or logs out.     *)
THEOREM OldSessionsAlwaysDie == Spec => []OldSessionsDie
<1>1. Init => TodoInv /\ OldSessionsDie
  BY DEF Init, TodoInv, OldSessionsDie, Idle
<1> QED
  BY <1>1, TypedAlways, IndexNeverDrifts, NextOldSessions, PTL DEF Spec

-----------------------------------------------------------------------------
(* One key per connection. *)

(* An upgrade in flight holds a key that it has spent, minted for the      *)
(* session it is for; no other upgrade and no connection has that key.  A  *)
(* logout is of a client that was registered for a session.                *)
SpentFor(o, s) == o \in Otps \ otps /\ otpFor[o] = s /\ s # None
UpgradesHoldKeys ==
  /\ \A h \in Handlers : At(h, "ws") =>
       /\ SpentFor(req[h].otp, req[h].sess)
       /\ \A g \in Handlers \ {h} : At(g, "ws") => req[g].otp # req[h].otp
       /\ \A k \in Conns : owner[k] # None => ticket[k] # req[h].otp
  /\ \A h \in Handlers : At(h, "logoutClear") => cl[req[h].client].sess # None
KeysMinted == \A o \in otps : otpFor[o] # None
ConnsSpent == \A k \in Conns : owner[k] # None => SpentFor(ticket[k], cl[owner[k]].sess)

KeysInv == UpgradesHoldKeys /\ KeysMinted /\ ConnsSpent /\ OtpBinding

(* Keys are minted, spent and dropped, and stay of the session they are    *)
(* for.                                                                    *)
KeysKept ==
  /\ \A o \in Otps : otpFor[o] # None => otpFor'[o] = otpFor[o] /\ (o \in otps' => o \in otps)
  /\ KeysMinted'

(* A client that was registered for a session keeps it. *)
SessKept == \A c \in Clients : cl[c].sess # None => cl'[c].sess = cl[c].sess

LEMMA MintKeeps ==
  ASSUME TypeInv, KeysMinted, NEW s, s # None, MintOtp(s)
  PROVE  KeysKept
BY DEF MintOtp, FreshOtp, KeysMinted, KeysKept, TypeInv, TypeOK, TicketsOK

LEMMA FewerKeysKept ==
  ASSUME KeysMinted, UNCHANGED otpFor, otps' \subseteq otps PROVE KeysKept
BY DEF KeysMinted, KeysKept

LEMMA NextKeys ==
  ASSUME TypeInv, IndexInSync, KeysInv, [Next]_vars
  PROVE  KeysKept
<1>1. ASSUME NEW h \in Handlers, Handle(h) PROVE KeysKept
  <2>1. CASE CheckLoginDuringLogout(h)
    BY <2>1, MintKeeps DEF CheckLoginDuringLogout, KeysInv, UpgradesHoldKeys
  <2> QED
    BY <1>1, <2>1, FewerKeysKept DEF KeysInv, Handle, LoginRead, Ban, LogoutLookup, AuthLookup,
       ChangePassword, WsVerify, tickets
<1>2. ASSUME NEW h \in Handlers, Proceed(h) PROVE KeysKept
  <2>1. ASSUME LoginCommit(h) PROVE KeysKept
    BY <2>1, MintKeeps, SessionsAssumption DEF LoginCommit, KeysInv
  <2> QED
    BY <1>2, <2>1, FewerKeysKept DEF KeysInv, Proceed, LogoutClear, LogoutDrop, AuthTouch,
       AuthEvict, WsRebind, WsRegister, KickCollect, KickName, KickDrop, tickets
<1>3. ASSUME NEW k \in Conns, Goroutine(k) PROVE KeysKept
  BY <1>3, FewerKeysKept DEF KeysInv, Goroutine, UserConnect, LoopExit, LoopCleanup, tickets
<1>4. ASSUME Environment PROVE KeysKept
  <2>1. ASSUME NEW s \in SessionIDs, CheckLogin(s) PROVE KeysKept
    BY <2>1, MintKeeps, FewerKeysKept, SessionsAssumption DEF CheckLogin, KeysInv, tickets
  <2> QED
    BY <1>4, <2>1, FewerKeysKept DEF KeysInv, Environment, Sweep, Expire, OtpExpire, Unban,
       tickets
<1>5. CASE UNCHANGED vars
  BY <1>5, FewerKeysKept DEF KeysInv, vars, tickets
<1> QED
  BY <1>1, <1>2, <1>3, <1>4, <1>5 DEF Next

LEMMA NextSess == ASSUME TypeInv, [Next]_vars PROVE SessKept
<1>1. ASSUME NEW c \in Clients, FreshClient(c), NEW r, cl' = [cl EXCEPT ![c] = r]
      PROVE  SessKept
  BY <1>1, SessionsAssumption DEF SessKept, FreshClient, Unallocated, TypeInv, TypeOK, RegistryOK
<1>2. ASSUME Adds PROVE SessKept
  BY <1>1, <1>2 DEF Adds, LoginCommit, WsRegister
<1> QED
  BY <1>2, RegistrySteps, LogoutClears DEF SessKept, Drop

(* The handlers after a step: those that upgrade did so before or spend a  *)
(* key now, for a session that was opened; those that log out did so       *)
(* before or are of a session.                                             *)
UpgradesKept ==
  /\ \A h \in Handlers : At(h, "ws")' =>
       /\ \/ At(h, "ws") /\ req'[h] = req[h]
          \/ /\ req'[h].otp \in otps \ otps'
             /\ otpFor[req'[h].otp] = req'[h].sess
             /\ ~FreshSession(req'[h].sess)
             /\ \A g \in Handlers \ {h} : req'[g] = req[g]
             /\ UNCHANGED <<owner, ticket>>
  /\ \A h \in Handlers : At(h, "logoutClear")' =>
       \/ At(h, "logoutClear") /\ req'[h] = req[h]
       \/ req'[h].client \in Clients /\ cl[req'[h].client].sess # None

LEMMA GotoKeepsUpgrades ==
  ASSUME TypeInv, NEW h \in Handlers, NEW r, Goto(h, r), r.pc \notin {"ws", "logoutClear"}
  PROVE  UpgradesKept
BY DEF TypeInv, TypeOK, ReqOK, Goto, At, UpgradesKept

LEMMA NextUpgrades ==
  ASSUME TypeInv, IndexInSync, [Next]_vars
  PROVE  UpgradesKept
<1>0. ASSUME UNCHANGED req PROVE UpgradesKept
  BY <1>0 DEF UpgradesKept, At
<1>1. ASSUME NEW h \in Handlers, Return(h) PROVE UpgradesKept
  BY <1>1, GotoKeepsUpgrades DEF Return, Idle
<1>2. ASSUME NEW h \in Handlers, NEW o \in Otps, NEW s \in SessionIDs, WsVerify(h, o, s)
      PROVE  UpgradesKept
  <2> DEFINE r == [Idle EXCEPT !.pc = "ws", !.sess = s, !.otp = o]
  <2>1. r.pc = "ws" /\ r.otp = o /\ r.sess = s
    BY DEF Idle
  <2>2. CASE Goto(h, r)
    <3>1. o \in otps \ otps' /\ otpFor[o] = s /\ ~FreshSession(s) /\ UNCHANGED <<owner, ticket>>
      <4>1. otpFor[o] = s
        <5>1. At(h, "idle") /\ (otpFor[o] # s => UNCHANGED req)
          BY <1>2 DEF WsVerify
        <5>2. req[h].pc # req'[h].pc
          BY <2>1, <2>2, <5>1 DEF At, Goto, TypeInv, TypeOK, ReqOK
        <5> QED
          BY <5>1, <5>2
      <4> QED
        BY <1>2, <4>1 DEF WsVerify, sockets
    <3>2. req'[h] = r /\ \A g \in Handlers \ {h} : req'[g] = req[g]
      BY <2>2 DEF Goto, TypeInv, TypeOK, ReqOK
    <3> HIDE DEF r
    <3> QED
      BY <2>1, <3>1, <3>2 DEF UpgradesKept, At
  <2> QED
    BY <1>0, <1>2, <2>2 DEF WsVerify
<1>3. ASSUME NEW h \in Handlers, NEW s \in SessionIDs, LogoutLookup(h, s) PROVE UpgradesKept
  <2> DEFINE r == [Idle EXCEPT !.pc = "logoutClear", !.client = index[s]]
  <2>1. r.pc = "logoutClear" /\ r.client = index[s]
    BY DEF Idle
  <2>2. index[s] \in Clients /\ cl[index[s]].sess # None
    BY <1>3, SessionsAssumption DEF LogoutLookup, IndexInSync, TypeInv, TypeOK, RegistryOK
  <2>3. req'[h] = r /\ \A g \in Handlers \ {h} : req'[g] = req[g]
    BY <1>3 DEF LogoutLookup, Goto, TypeInv, TypeOK, ReqOK
  <2> HIDE DEF r
  <2> QED
    BY <2>1, <2>2, <2>3 DEF UpgradesKept, At
<1>4. ASSUME NEW h \in Handlers, Handle(h) PROVE UpgradesKept
  <2>1. ASSUME NEW u \in Users, LoginRead(h, u) \/ Ban(h, u) PROVE UpgradesKept
    BY <2>1, GotoKeepsUpgrades DEF LoginRead, Ban, Idle
  <2>2. ASSUME NEW s \in SessionIDs, AuthLookup(h, s) \/ ChangePassword(h, s) PROVE UpgradesKept
    BY <2>2, GotoKeepsUpgrades DEF AuthLookup, ChangePassword, Idle
  <2>3. CASE CheckLoginDuringLogout(h)
    BY <2>3, GotoKeepsUpgrades DEF CheckLoginDuringLogout, TypeInv, TypeOK, ReqOK, Request
  <2> QED
    BY <1>2, <1>3, <1>4, <2>1, <2>2, <2>3 DEF Handle
<1>5. ASSUME NEW h \in Handlers, Proceed(h) PROVE UpgradesKept
  <2>1. CASE LogoutClear(h) \/ KickCollect(h) \/ KickName(h) \/ KickDrop(h)
    BY <1>1, <2>1, GotoKeepsUpgrades DEF LogoutClear, KickCollect, KickName, KickDrop, TypeInv,
       TypeOK, ReqOK, Request
  <2> QED
    BY <1>1, <1>5, <2>1 DEF Proceed, LoginCommit, LogoutDrop, AuthTouch, AuthEvict, WsRebind,
       WsRegister
<1>6. CASE (\E k \in Conns : Goroutine(k)) \/ Environment \/ UNCHANGED vars
  BY <1>0, <1>6 DEF Goroutine, UserConnect, LoopExit, LoopCleanup, Environment, CheckLogin, Sweep,
     Expire, OtpExpire, Unban, vars
<1> QED
  BY <1>4, <1>5, <1>6 DEF Next

(* Only an upgrade gives a connection an owner. *)
LEMMA NextOwners ==
  ASSUME TypeInv, IndexInSync, [Next]_vars
  PROVE  \/ UNCHANGED <<owner, ticket>>
         \/ \E h \in Handlers, k \in Conns : WsRebind(h, k) \/ WsRegister(h, k)
<1>1. CASE \E h \in Handlers : Handle(h)
  BY <1>1 DEF Handle, LoginRead, Ban, LogoutLookup, AuthLookup, ChangePassword,
     WsVerify, CheckLoginDuringLogout, sockets
<1>2. CASE \E h \in Handlers : Proceed(h)
  BY <1>2 DEF Proceed, LoginCommit, LogoutClear, LogoutDrop, AuthTouch, AuthEvict, KickCollect,
     KickName, KickDrop, Drop, CloseConnections, sockets
<1>3. CASE \E k \in Conns : Goroutine(k)
  BY <1>3 DEF Goroutine, UserConnect, LoopExit, LoopCleanup
<1>4. CASE Environment
  BY <1>4 DEF Environment, CheckLogin, Sweep, Drop, CloseConnections, Expire, OtpExpire, Unban,
     sockets
<1>5. CASE UNCHANGED vars
  BY <1>5 DEF vars, sockets
<1> QED
  BY <1>1, <1>2, <1>3, <1>4, <1>5 DEF Next

LEMMA NextKeysInv ==
  TypeInv /\ IndexInSync /\ KeysInv /\ [Next]_vars => KeysInv'
<1> SUFFICES ASSUME TypeInv, IndexInSync, KeysInv, [Next]_vars, TypeInv'
             PROVE  KeysInv'
  BY NextTyped
<1>1. KeysKept /\ SessKept /\ UpgradesKept
  BY NextKeys, NextSess, NextUpgrades
<1>2. ASSUME NEW o, NEW s, SpentFor(o, s) PROVE SpentFor(o, s)'
  BY <1>1, <1>2 DEF KeysKept, SpentFor
<1>3. \A h \in Handlers, k \in Conns : WsRebind(h, k) \/ WsRegister(h, k) =>
        /\ At(h, "ws") /\ ~At(h, "ws")'
        /\ ticket'[k] = req[h].otp
        /\ owner'[k] \in Clients /\ cl'[owner'[k]].sess = req[h].sess
        /\ \A j \in Conns \ {k} : owner'[j] = owner[j] /\ ticket'[j] = ticket[j]
  <2> SUFFICES ASSUME NEW h \in Handlers, NEW k \in Conns, WsRebind(h, k) \/ WsRegister(h, k)
               PROVE  /\ At(h, "ws") /\ ~At(h, "ws")'
                      /\ ticket'[k] = req[h].otp
                      /\ owner'[k] \in Clients /\ cl'[owner'[k]].sess = req[h].sess
                      /\ \A j \in Conns \ {k} : owner'[j] = owner[j] /\ ticket'[j] = ticket[j]
    OBVIOUS
  <2>1. At(h, "ws")
    BY DEF WsRebind, WsRegister
  <2> QED
    BY <2>1, UpgradeBinds DEF At, Idle, TypeInv, TypeOK, SocketsOK, ReqOK
<1>4. KeysMinted'
  BY <1>1 DEF KeysKept
<1>5. ASSUME NEW h \in Handlers, At(h, "ws")'
      PROVE  /\ SpentFor(req[h].otp, req[h].sess)'
             /\ \A g \in Handlers \ {h} : At(g, "ws")' => req'[g].otp # req'[h].otp
             /\ \A k \in Conns : owner'[k] # None => ticket'[k] # req'[h].otp
  <2>1. CASE At(h, "ws") /\ req'[h] = req[h]
    <3>1. SpentFor(req[h].otp, req[h].sess)
      BY <2>1 DEF KeysInv, UpgradesHoldKeys
    <3>2. \A g \in Handlers \ {h} : At(g, "ws")' => req'[g].otp # req'[h].otp
      BY <1>1, <2>1, <3>1 DEF KeysInv, UpgradesHoldKeys, UpgradesKept, SpentFor
    <3>3. \A k \in Conns : owner'[k] # None => ticket'[k] # req'[h].otp
      <4>1. CASE UNCHANGED <<owner, ticket>>
        BY <2>1, <4>1 DEF KeysInv, UpgradesHoldKeys
      <4>2. ASSUME NEW g \in Handlers, NEW j \in Conns, WsRebind(g, j) \/ WsRegister(g, j)
            PROVE  \A k \in Conns : owner'[k] # None => ticket'[k] # req'[h].otp
        BY <1>3, <1>5, <2>1, <4>2 DEF KeysInv, UpgradesHoldKeys
      <4> QED
        BY <4>1, <4>2, NextOwners
    <3> QED
      BY <1>2, <2>1, <3>1, <3>2, <3>3
  <2>2. CASE /\ req'[h].otp \in otps \ otps'
             /\ otpFor[req'[h].otp] = req'[h].sess
             /\ \A g \in Handlers \ {h} : req'[g] = req[g]
             /\ UNCHANGED <<owner, ticket>>
    <3>1. SpentFor(req[h].otp, req[h].sess)'
      BY <1>1, <2>2 DEF KeysInv, KeysMinted, KeysKept, SpentFor, TypeInv, TypeOK, TicketsOK
    <3>2. \A g \in Handlers \ {h} : At(g, "ws")' => req'[g].otp # req'[h].otp
      BY <2>2 DEF KeysInv, UpgradesHoldKeys, SpentFor, At
    <3>3. \A k \in Conns : owner'[k] # None => ticket'[k] # req'[h].otp
      BY <2>2 DEF KeysInv, ConnsSpent, SpentFor
    <3> QED
      BY <3>1, <3>2, <3>3
  <2> QED
    BY <1>1, <1>5, <2>1, <2>2 DEF UpgradesKept
<1>6. ASSUME NEW h \in Handlers, At(h, "logoutClear")' PROVE cl'[req'[h].client].sess # None
  <2>1. req'[h].client \in Clients /\ cl[req'[h].client].sess # None
    BY <1>1, <1>6, SessionsAssumption DEF UpgradesKept, KeysInv, UpgradesHoldKeys, TypeInv,
       TypeOK, ReqOK, Request, Allocated, HandlersKnow
  <2> QED
    BY <1>1, <2>1 DEF SessKept
<1>7. ASSUME NEW k \in Conns, owner'[k] # None
      PROVE  /\ SpentFor(ticket[k], cl[owner[k]].sess)'
             /\ \A j \in Conns \ {k} : owner'[j] # None => ticket'[j] # ticket'[k]
  <2>1. CASE UNCHANGED <<owner, ticket>>
    <3>1. SpentFor(ticket[k], cl[owner[k]].sess) /\ owner[k] \in Clients
      BY <1>7, <2>1 DEF KeysInv, ConnsSpent, TypeInv, TypeOK, SocketsOK
    <3>2. cl'[owner'[k]].sess = cl[owner[k]].sess
      BY <1>1, <2>1, <3>1 DEF SpentFor, SessKept
    <3> QED
      BY <1>2, <1>7, <2>1, <3>1, <3>2 DEF KeysInv, OtpBinding
  <2>2. ASSUME NEW h \in Handlers, NEW j \in Conns, WsRebind(h, j) \/ WsRegister(h, j)
        PROVE  /\ SpentFor(ticket[k], cl[owner[k]].sess)'
               /\ \A i \in Conns \ {k} : owner'[i] # None => ticket'[i] # ticket'[k]
    <3>1. SpentFor(req[h].otp, req[h].sess)
      BY <1>3, <2>2 DEF KeysInv, UpgradesHoldKeys
    <3>2. \A i \in Conns \ {j} : owner[i] # None => ticket[i] # req[h].otp
      BY <1>3, <2>2 DEF KeysInv, UpgradesHoldKeys
    <3>3. CASE k = j
      BY <1>2, <1>3, <2>2, <3>1, <3>2, <3>3
    <3>4. CASE k # j
      <4>1. SpentFor(ticket[k], cl[owner[k]].sess) /\ owner[k] \in Clients
            /\ owner'[k] = owner[k] /\ ticket'[k] = ticket[k]
        BY <1>3, <1>7, <2>2, <3>4 DEF KeysInv, ConnsSpent, TypeInv, TypeOK, SocketsOK
      <4>2. cl'[owner'[k]].sess = cl[owner[k]].sess
        BY <1>1, <4>1 DEF SpentFor, SessKept
      <4>3. \A i \in Conns \ {k} : owner'[i] # None => ticket'[i] # ticket'[k]
        BY <1>3, <2>2, <3>2, <3>4, <4>1, <1>7 DEF KeysInv, OtpBinding
      <4> QED
        BY <1>2, <4>1, <4>2, <4>3
    <3> QED
      BY <3>3, <3>4
  <2> QED
    BY <2>1, <2>2, NextOwners
<1>8. UpgradesHoldKeys'
  BY <1>5, <1>6 DEF UpgradesHoldKeys
<1>9. ConnsSpent'
  BY <1>7 DEF ConnsSpent
<1>10. OtpBinding'
  BY <1>7, SessionsAssumption DEF OtpBinding, SpentFor
<1> QED
  BY <1>4, <1>8, <1>9, <1>10 DEF KeysInv

(* Every connection was admitted by a key of its own that was minted for   *)
(* its session (otp.go:11-17): no key is redeemed twice, however upgrades, *)
(* logins and logouts interleave between a redemption and its upgrade.     *)
THEOREM KeysAdmitOnce == Spec => []OtpBinding
<1>1. Init => KeysInv
  BY DEF Init, KeysInv, UpgradesHoldKeys, KeysMinted, ConnsSpent, OtpBinding, At, Idle
<1>2. KeysInv => OtpBinding
  BY DEF KeysInv
<1> QED
  BY <1>1, <1>2, TypedAlways, IndexNeverDrifts, NextKeysInv, PTL DEF Spec

-----------------------------------------------------------------------------
(* What a session id is promised: Sessions implements SessionLife. *)

(* An upgrade in flight is for a session that was opened. *)
UpgradesOpened == \A h \in Handlers : At(h, "ws") => ~FreshSession(req[h].sess)

LEMMA NextOpened ==
  TypeInv /\ IndexInSync /\ UpgradesOpened /\ [Next]_vars => UpgradesOpened'
<1> SUFFICES ASSUME TypeInv, IndexInSync, UpgradesOpened, [Next]_vars, TypeInv',
                    NEW h \in Handlers, At(h, "ws")'
             PROVE  ~FreshSession(req[h].sess)'
  BY NextTyped DEF UpgradesOpened
<1>1. SessKept /\ UpgradesKept
  BY NextSess, NextUpgrades
<1>2. ~FreshSession(req'[h].sess)
  BY <1>1 DEF UpgradesKept, UpgradesOpened
<1>3. req'[h].sess # None
  BY DEF TypeInv, Allocated, HandlersKnow
<1> QED
  BY <1>1, <1>2, <1>3 DEF FreshSession, SessKept

LEMMA OpenedAlways == Spec => []UpgradesOpened
<1>1. Init => UpgradesOpened
  BY DEF Init, UpgradesOpened, At, Idle
<1> QED
  BY <1>1, TypedAlways, IndexNeverDrifts, NextOpened, PTL DEF Spec

(* The account of a session id is a user's, or nobody's; an id that leads  *)
(* to a client was opened.                                                 *)
LEMMA AccountType ==
  ASSUME TypeInv, IndexInSync, NEW s \in SessionIDs
  PROVE  /\ Account(s) \in Users \cup {Anon}
         /\ index[s] # None => /\ index[s] \in clients /\ cl[index[s]].sess = s
                               /\ ~FreshSession(s)
         /\ life[s] \in Users <=> Account(s) # Anon
BY SessionsAssumption DEF TypeInv, TypeOK, RegistryOK, Client, Allocated, IndexedHaveUser,
   IndexInSync, Account, FreshSession, life

LEMMA SameLife ==
  ASSUME UNCHANGED <<index, cl>>
  PROVE  UNCHANGED <<life, leaving>>
BY DEF life, leaving, Account, FreshSession

LEMMA LogoutLeaves ==
  ASSUME TypeInv, IndexInSync, NEW h \in Handlers, LogoutClear(h)
  PROVE  [Life!Next]_Life!vars
<1> DEFINE c == req[h].client
<1>1. /\ UNCHANGED index /\ c \in Clients /\ ~cl'[c].loggedIn
      /\ \A d \in Clients : /\ cl'[d].user = cl[d].user
                            /\ cl'[d].sess = cl[d].sess
                            /\ d # c => cl'[d] = cl[d]
  BY LogoutClears
<1>2. \A s \in SessionIDs : index[s] \in Clients \cup {None}
  BY DEF TypeInv, TypeOK, RegistryOK
<1>3. \A s \in SessionIDs : (FreshSession(s)' <=> FreshSession(s)) /\ Account(s)' = Account(s)
  BY <1>1, <1>2 DEF FreshSession, Account
<1>4. life' = life
  BY <1>3 DEF life
<1>5. \A s \in SessionIDs :
        s \in leaving' <=> s \in leaving \/ (index[s] = c /\ Account(s) # Anon)
  BY <1>1, <1>2, <1>3, SessionsAssumption DEF leaving, Account
<1>6. CASE \E s \in SessionIDs : index[s] = c /\ Account(s) # Anon
  <2>1. PICK s \in SessionIDs : index[s] = c /\ Account(s) # Anon
    BY <1>6
  <2>2. \A t \in SessionIDs \ {s} : index[t] # c
    BY <1>1, <2>1, AccountType, SessionsAssumption
  <2>3. leaving' = leaving \cup {s}
    BY <1>5, <2>1, <2>2 DEF leaving
  <2>4. Life!Leave(s)
    BY <1>4, <2>1, <2>3, AccountType DEF Life!Leave
  <2> QED
    BY <2>4 DEF Life!Next
<1>7. CASE ~\E s \in SessionIDs : index[s] = c /\ Account(s) # Anon
  BY <1>4, <1>5, <1>7 DEF leaving, Life!vars
<1> QED
  BY <1>6, <1>7

LEMMA DropCloses ==
  ASSUME TypeInv, IndexInSync, NEW S \in SUBSET Clients, Drop(S)
  PROVE  Life!Next
<1> DEFINE T == {s \in SessionIDs : index[s] \in S /\ Account(s) # Anon}
<1>1. \A s \in SessionIDs : index'[s] = IF index[s] \in S THEN None ELSE index[s]
  BY AccountType, SessionsAssumption DEF Drop, IndexWithout, TypeInv, TypeOK, RegistryOK
<1>2. UNCHANGED cl
  BY DEF Drop
<1>3. \A s \in SessionIDs : /\ FreshSession(s)' <=> FreshSession(s)
                            /\ Account(s)' = IF index[s] \in S THEN Anon ELSE Account(s)
  BY <1>1, <1>2 DEF FreshSession, Account
<1>4. \A s \in SessionIDs : index[s] \in S => ~FreshSession(s)
  BY AccountType, SessionsAssumption
<1>5. \A s \in SessionIDs : life'[s] = IF s \in T THEN Anon ELSE life[s]
  BY <1>3, <1>4 DEF life
<1>6. life' = [s \in SessionIDs |-> IF s \in T THEN Anon ELSE life[s]]
  BY <1>5 DEF life
<1>7. \A s \in SessionIDs : s \in leaving' <=> s \in leaving /\ s \notin T
  BY <1>1, <1>2, <1>3 DEF leaving
<1>8. leaving' = leaving \ T
  BY <1>7 DEF leaving
<1>9. Life!Close(T)
  BY <1>6, <1>8, AccountType DEF Life!Close
<1> QED
  BY <1>9 DEF Life!Next

LEMMA LoginOpens ==
  ASSUME TypeInv, IndexInSync, NEW h \in Handlers, LoginCommit(h)
  PROVE  Life!Next
<1> USE SessionsAssumption
<1> DEFINE u   == req[h].user
           old == {c \in clients : cl[c].user = u /\ cl[c].loggedIn}
<1>1. PICK s \in SessionIDs, c \in Clients :
        /\ FreshSession(s)
        /\ FreshClient(c)
        /\ index' = [IndexWithout(old) EXCEPT ![s] = c]
        /\ cl' = [cl EXCEPT ![c] = [sess |-> s, user |-> u, loggedIn |-> TRUE,
                                   read |-> req[h].epoch, made |-> epoch[u]]]
  BY DEF LoginCommit
<1>2. u \in Users
  BY DEF LoginCommit, At, TypeInv, TypeOK, ReqOK, Allocated, HandlersKnow, Request
<1>3. c \notin clients /\ cl[c].sess = None /\ \A t \in SessionIDs : index[t] # c
  <2>1. cl[c].sess = None
    BY <1>1 DEF FreshClient, Unallocated
  <2>2. c \notin clients
    BY <1>1, FreshIsNew
  <2>3. \A t \in SessionIDs : index[t] # c
    BY <1>1, FreshClientUnowned
  <2> QED
    BY <2>1, <2>2, <2>3
<1>4. /\ cl'[c].sess = s /\ cl'[c].user = u /\ cl'[c].loggedIn
      /\ \A d \in Clients \ {c} : cl'[d] = cl[d]
  BY <1>1 DEF TypeInv, TypeOK, RegistryOK
<1>5. index'[s] = c
  BY <1>1, IndexWithoutType DEF TypeInv, TypeOK, RegistryOK
<1>6. \A t \in SessionIDs \ {s} : index'[t] = IF index[t] \in old THEN None ELSE index[t]
  BY <1>1, AccountType DEF IndexWithout
<1>7. \A t \in SessionIDs \ {s} : FreshSession(t)' <=> FreshSession(t)
  BY <1>3, <1>4 DEF FreshSession
<1>8. \A t \in SessionIDs \ {s} : Account(t)' = IF index[t] \in old THEN Anon ELSE Account(t)
  BY <1>3, <1>4, <1>6 DEF Account, TypeInv, TypeOK, RegistryOK
<1>9. ~FreshSession(s)' /\ Account(s)' = u
  BY <1>4, <1>5 DEF FreshSession, Account
<1>10. \A t \in SessionIDs : index[t] \in old <=> life[t] = u /\ t \notin leaving
  <2> SUFFICES ASSUME NEW t \in SessionIDs
               PROVE  index[t] \in old <=> life[t] = u /\ t \notin leaving
    OBVIOUS
  <2>1. CASE index[t] = None
    BY <1>2, <2>1 DEF life, Account, TypeInv, TypeOK, RegistryOK
  <2>2. CASE index[t] # None
    <3>1. life[t] = cl[index[t]].user /\ index[t] \in clients
      BY <2>2, AccountType DEF life, Account
    <3> QED
      BY <1>2, <2>2, <3>1 DEF leaving, Account
  <2> QED
    BY <2>1, <2>2
<1>11. life[s] = None
  BY <1>1 DEF life
<1>12. \A t \in SessionIDs \ {s} : index[t] \in old => ~FreshSession(t)
  BY AccountType DEF TypeInv, TypeOK, RegistryOK
<1>13. \A t \in SessionIDs :
         life'[t] = IF t = s THEN u
                    ELSE IF life[t] = u /\ t \notin leaving THEN Anon ELSE life[t]
  BY <1>7, <1>8, <1>9, <1>10, <1>12 DEF life
<1>14. \A t \in SessionIDs : t \in leaving' <=> t \in leaving
  <2>1. s \notin leaving /\ s \notin leaving'
    BY <1>1, <1>4, <1>5, AccountType DEF leaving, Account
  <2>2. ASSUME NEW t \in SessionIDs \ {s} PROVE t \in leaving' <=> t \in leaving
    BY <1>3, <1>4, <1>6, <1>8, <1>10 DEF leaving, Account, TypeInv, TypeOK, RegistryOK
  <2> QED
    BY <2>1, <2>2
<1>15. leaving' = leaving
  BY <1>14 DEF leaving
<1>16. life' = [t \in SessionIDs |->
                  IF t = s THEN u
                  ELSE IF life[t] = u /\ t \notin leaving THEN Anon ELSE life[t]]
  BY <1>13 DEF life
<1>17. Life!Open(s, u)
  BY <1>11, <1>15, <1>16 DEF Life!Open
<1> QED
  BY <1>2, <1>17 DEF Life!Next

LEMMA RegisterCloses ==
  ASSUME TypeInv, IndexInSync, UpgradesOpened, NEW h \in Handlers, NEW k \in Conns,
         WsRegister(h, k)
  PROVE  Life!Next
<1> USE SessionsAssumption
<1> DEFINE s   == req[h].sess
           old == {index[s]} \ {None}
           T   == {s} \cap {t \in SessionIDs : Account(t) # Anon}
<1>1. PICK c \in Clients :
        /\ FreshClient(c)
        /\ index' = [IndexWithout(old) EXCEPT ![s] = c]
        /\ cl' = [cl EXCEPT ![c] = [sess |-> s, user |-> Anon, loggedIn |-> TRUE,
                                   read |-> 0, made |-> 0]]
  BY DEF WsRegister
<1>2. s \in SessionIDs /\ ~FreshSession(s)
  BY DEF WsRegister, At, TypeInv, TypeOK, ReqOK, Allocated, HandlersKnow, Request, UpgradesOpened
<1>3. cl[c].sess = None /\ \A t \in SessionIDs : index[t] # c
  <2>1. cl[c].sess = None
    BY <1>1 DEF FreshClient, Unallocated
  <2>2. \A t \in SessionIDs : index[t] # c
    BY <1>1, FreshClientUnowned
  <2> QED
    BY <2>1, <2>2
<1>4. /\ cl'[c].sess = s /\ cl'[c].user = Anon /\ cl'[c].loggedIn
      /\ \A d \in Clients \ {c} : cl'[d] = cl[d]
  BY <1>1 DEF TypeInv, TypeOK, RegistryOK
<1>5. index'[s] = c
  BY <1>1, <1>2, IndexWithoutType DEF TypeInv, TypeOK, RegistryOK
<1>6. \A t \in SessionIDs \ {s} : index'[t] = index[t]
  BY <1>1, <1>2, AccountType DEF IndexWithout
<1>7. \A t \in SessionIDs : FreshSession(t)' <=> FreshSession(t)
  BY <1>2, <1>3, <1>4 DEF FreshSession
<1>8. \A t \in SessionIDs : Account(t)' = IF t = s THEN Anon ELSE Account(t)
  BY <1>3, <1>4, <1>5, <1>6 DEF Account, TypeInv, TypeOK, RegistryOK
<1>9. \A t \in SessionIDs : life'[t] = IF t \in T THEN Anon ELSE life[t]
  BY <1>2, <1>7, <1>8 DEF life
<1>10. life' = [t \in SessionIDs |-> IF t \in T THEN Anon ELSE life[t]]
  BY <1>9 DEF life
<1>11. \A t \in SessionIDs : t \in leaving' <=> t \in leaving /\ t \notin T
  BY <1>3, <1>4, <1>5, <1>6, <1>8 DEF leaving, Account, TypeInv, TypeOK, RegistryOK
<1>12. leaving' = leaving \ T
  BY <1>11 DEF leaving
<1>13. Life!Close(T)
  BY <1>10, <1>12, AccountType DEF Life!Close
<1> QED
  BY <1>13 DEF Life!Next

LEMMA StepKeepsPromise ==
  TypeInv /\ IndexInSync /\ UpgradesOpened /\ [Next]_vars => [Life!Next]_Life!vars
<1> SUFFICES ASSUME TypeInv, IndexInSync, UpgradesOpened, [Next]_vars
             PROVE  [Life!Next]_Life!vars
  OBVIOUS
<1>1. CASE Adds
  BY <1>1, LoginOpens, RegisterCloses DEF Adds
<1>2. CASE UNCHANGED <<clients, index, cl>>
  BY <1>2, SameLife DEF Life!vars
<1> QED
  BY <1>1, <1>2, RegistrySteps, LogoutLeaves, DropCloses

(* Sessions implements SessionLife: every login, logout, check, upgrade,   *)
(* expiry, sweep and kick opens, begins to leave, or closes session ids as *)
(* SessionLife promises, or changes nothing it tells of.                   *)
THEOREM PromiseKept == Spec => KeepsPromise
<1>1. Init => Life!Init
  <2> SUFFICES ASSUME Init PROVE Life!Init
    OBVIOUS
  <2>1. \A s \in SessionIDs : FreshSession(s) /\ Account(s) = Anon
    BY SessionsAssumption DEF Init, FreshSession, Account, Unallocated
  <2> QED
    BY <2>1 DEF Life!Init, life, leaving
<1> QED
  BY <1>1, TypedAlways, IndexNeverDrifts, OpenedAlways, StepKeepsPromise, PTL
     DEF Spec, KeepsPromise, Life!Spec
=============================================================================
