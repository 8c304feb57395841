--------------------------- MODULE SessionsState ---------------------------
(***************************************************************************)
(* The state of the session manager (see Sessions): what the server keeps  *)
(* about sessions, connections and the handlers in flight, the states it   *)
(* starts in, and the locked helpers its handlers share.                   *)
(***************************************************************************)
EXTENDS Naturals, FiniteSets

CONSTANTS Users,       \* usernames (user ids: the columns are both unique)
          SessionIDs,  \* session_id cookie values CreateCookie may return
          Clients,     \* addresses of *Client objects
          Conns,       \* upgraded websocket connections
          Otps,        \* keys newOtp may return
          Handlers,    \* HTTP handler goroutines in flight at once
          None,        \* nil, absent
          Anon,        \* username "" / user id 0
          Ops,         \* bound: the kinds of request and event that arrive
          MaxEpoch,    \* bound: bans and password changes of one user
          ClockJumps   \* the wall clock may jump (suspend, NTP step)

ASSUME SessionsAssumption ==
  /\ None \notin Users \cup SessionIDs \cup Clients \cup Conns \cup Otps
  /\ Anon \notin Users
  /\ Anon # None
  /\ MaxEpoch \in Nat
  /\ ClockJumps \in BOOLEAN

VARIABLES clients,  \* m.clients
          index,    \* m.clientsBySessionID
          cl,       \* the fields of each Client object
          expired,  \* clients idle for longer than SessionDuration
          conn,     \* Client.connection; Client.connDone is the same conn's
          closed,   \* connections closed, and their connDone with them
          owner,    \* the Client a connection's goroutines were started on
          ticket,   \* the OTP a connection was upgraded with
          loop,     \* where each connection's two goroutines are
          greeted,  \* connections whose user-connect event was handled
          online,   \* LoggedInList
          otps,     \* m.otps: keys that can still be redeemed
          otpFor,   \* the session each key was minted for
          banned,   \* user.banned
          epoch,    \* bans and password changes of each account so far
          req       \* the handlers in flight

registry == <<clients, index, cl, expired>>
sockets  == <<conn, closed, owner, ticket, loop, greeted>>
tickets  == <<otps, otpFor>>
accounts == <<banned, epoch>>
vars     == <<registry, sockets, online, tickets, accounts, req>>

Sides  == {"read", "write"}
Phases == {"off", "run", "cleanup", "cleaned", "stale"}
Steps  == {"idle", "login", "ws", "touch", "evict", "logoutClear",
           "logoutDrop", "kick", "kickName", "kickDrop"}

Client  == [sess: SessionIDs \cup {None}, user: Users \cup {Anon, None},
            loggedIn: BOOLEAN, read: Nat, made: Nat]
Request == [pc: Steps, user: Users \cup {None}, sess: SessionIDs \cup {None},
            client: Clients \cup {None}, otp: Otps \cup {None}, epoch: Nat,
            todo: SUBSET Clients]

RegistryOK ==
  /\ clients \subseteq Clients
  /\ index \in [SessionIDs -> Clients \cup {None}]
  /\ cl \in [Clients -> Client]
  /\ expired \subseteq Clients
SocketsOK ==
  /\ conn \in [Clients -> Conns \cup {None}]
  /\ closed \subseteq Conns
  /\ owner \in [Conns -> Clients \cup {None}]
  /\ ticket \in [Conns -> Otps \cup {None}]
  /\ loop \in [Conns -> [Sides -> Phases]]
  /\ greeted \subseteq Conns
OnlineOK == online \subseteq Users \cup {Anon}
TicketsOK == otps \subseteq Otps /\ otpFor \in [Otps -> SessionIDs \cup {None}]
AccountsOK == banned \subseteq Users /\ epoch \in [Users -> Nat]
ReqOK == req \in [Handlers -> Request]
TypeOK == RegistryOK /\ SocketsOK /\ OnlineOK /\ TicketsOK /\ AccountsOK /\ ReqOK

Unallocated == [sess |-> None, user |-> None, loggedIn |-> FALSE,
                read |-> 0, made |-> 0]
Idle == [pc |-> "idle", user |-> None, sess |-> None, client |-> None,
         otp |-> None, epoch |-> 0, todo |-> {}]

(* A server that has just started: sessions are kept in memory only. *)
Init ==
  /\ clients = {}
  /\ index = [s \in SessionIDs |-> None]
  /\ cl = [c \in Clients |-> Unallocated]
  /\ expired = {}
  /\ conn = [c \in Clients |-> None]
  /\ closed = {}
  /\ owner = [k \in Conns |-> None]
  /\ ticket = [k \in Conns |-> None]
  /\ loop = [k \in Conns |-> [i \in Sides |-> "off"]]
  /\ greeted = {}
  /\ online = {}
  /\ otps = {}
  /\ otpFor = [o \in Otps |-> None]
  /\ banned = {}
  /\ epoch = [u \in Users |-> 0]
  /\ req = [h \in Handlers |-> Idle]

FreshClient(c)  == cl[c] = Unallocated
FreshSession(s) == \A c \in Clients : cl[c].sess # s
FreshConn(k)    == owner[k] = None
FreshOtp(o)     == otpFor[o] = None

At(h, pc) == req[h].pc = pc
Goto(h, locals) == req' = [req EXCEPT ![h] = locals]
Return(h) == Goto(h, Idle)

(* closeConnection on every client of S: connection and connDone both go. *)
CloseConnections(S) ==
  /\ conn' = [c \in Clients |-> IF c \in S THEN None ELSE conn[c]]
  /\ closed' = closed \cup ({conn[c] : c \in S} \ {None})
  /\ UNCHANGED <<owner, ticket, loop, greeted>>

(* The index once deleteClientLocked ran for every client of S. *)
IndexWithout(S) ==
  [s \in SessionIDs |->
     IF \E c \in S : cl[c].sess = s /\ index[s] = c THEN None ELSE index[s]]

(* closeConnection and deleteClientLocked for every client of S. *)
Drop(S) ==
  /\ clients' = clients \ S
  /\ index' = IndexWithout(S)
  /\ CloseConnections(S)
  /\ UNCHANGED <<cl, expired>>

MintOtp(s) ==
  \E o \in Otps :
    /\ FreshOtp(o)
    /\ otps' = otps \cup {o}
    /\ otpFor' = [otpFor EXCEPT ![o] = s]
=============================================================================
