------------------------------ MODULE Delivery ------------------------------
(***************************************************************************)
(* How an event reaches a client: send and broadcastTo, the read and write *)
(* loops of the connections a client has had, and the manager's lock.      *)
(*                                                                         *)
(* A client keeps one unbuffered egress channel over all its connections.  *)
(* A send waits until the writer of one of them takes the event, for two   *)
(* seconds at most.  A writer serves its connection until connDone is      *)
(* closed, which is when the client has another connection or none; until  *)
(* it notices it may take one event more.  Whoever sends (a read loop that *)
(* handles an event, a loop that ends, a request handler) waits for all    *)
(* its sends before it goes on.                                            *)
(***************************************************************************)
EXTENDS Naturals, FiniteSets

CONSTANTS Clients,    \* the clients of the manager
          Conns,      \* bound: websocket connections
          Tasks,        \* request handlers running at once
          MaxRequests,  \* bound: what peers and browsers ask for
          MaxSilent,    \* bound: connections whose other end goes silent
          Dials,        \* bound: who may open each connection
          None

ASSUME DeliveryAssumption ==
  /\ Conns \subseteq Nat
  /\ MaxRequests \in Nat
  /\ Dials \in [Conns -> SUBSET Clients]
  /\ None \notin Clients /\ None \notin Conns /\ None \notin Tasks
  /\ Tasks \cap ({"reader", "writer"} \X Conns) = {}

VARIABLES member,  \* m.clients
          lock,    \* who holds m's write lock while it sends, or None
          conn,    \* Client.connection; connDone is closed for all others
          owner,   \* the client of each connection
          silent,  \* connections whose other end is gone, or reads no more
          reader,  \* readMessages of each connection
          writer,  \* writeMesssage of each connection
          task,    \* the request handlers
          out,     \* the sends each sender waits for
          sent,    \* history: how many events each sender has sent
          held,    \* the event a writer has taken
          last,    \* history: the last event of each sender a client got
          late,    \* history: events taken after connDone was closed
          asked    \* bound: how much has been asked for

vars == <<member, lock, conn, owner, silent, reader, writer, task, out,
          sent, held, last, late, asked>>

Reader(k) == <<"reader", k>>
Writer(k) == <<"writer", k>>
Senders == ({"reader", "writer"} \X Conns) \cup Tasks

Event == [from: Senders, n: Nat]
Send == [to: Clients, n: Nat]
Nothing == [from |-> None, n |-> 0]

(* "tell" and "telling" are the broadcast of a loop that has ended. *)
ReaderSteps == {"off", "read", "sending", "tell", "telling", "ended"}
WriterSteps == {"off", "select", "write", "tell", "telling", "ended"}
TaskSteps == {"idle", "removed", "sending"}

TypeOK ==
  /\ member \subseteq Clients
  /\ lock \in Tasks \cup {None}
  /\ conn \in [Clients -> Conns \cup {None}]
  /\ owner \in [Conns -> Clients \cup {None}]
  /\ silent \subseteq Conns
  /\ reader \in [Conns -> ReaderSteps]
  /\ writer \in [Conns -> WriterSteps]
  /\ task \in [Tasks -> TaskSteps]
  /\ out \in [Senders -> SUBSET Send]
  /\ sent \in [Senders -> Nat]
  /\ held \in [Conns -> Event \cup {Nothing}]
  /\ last \in [Clients -> [Senders -> Nat]]
  /\ late \in [Conns -> Nat]
  /\ asked \in 0 .. MaxRequests

(* Clients that have logged in and not connected yet. *)
Init ==
  /\ member = Clients
  /\ lock = None
  /\ conn = [c \in Clients |-> None]
  /\ owner = [k \in Conns |-> None]
  /\ silent = {}
  /\ reader = [k \in Conns |-> "off"]
  /\ writer = [k \in Conns |-> "off"]
  /\ task = [t \in Tasks |-> "idle"]
  /\ out = [s \in Senders |-> {}]
  /\ sent = [s \in Senders |-> 0]
  /\ held = [k \in Conns |-> Nothing]
  /\ last = [c \in Clients |-> [s \in Senders |-> 0]]
  /\ late = [k \in Conns |-> 0]
  /\ asked = 0

Unlocked == lock = None
Current(k) == owner[k] # None /\ conn[owner[k]] = k

(* A peer or a browser asks for something. *)
Ask == asked < MaxRequests /\ asked' = asked + 1

(* s has a new event for the clients of to. *)
Post(s, to) ==
  /\ sent' = [sent EXCEPT ![s] = @ + 1]
  /\ out' = [out EXCEPT ![s] = @ \cup {[to |-> c, n |-> sent[s] + 1] : c \in to}]

MoveReader(k, step) == reader' = [reader EXCEPT ![k] = step]
MoveWriter(k, step) == writer' = [writer EXCEPT ![k] = step]
MoveTask(t, step) == task' = [task EXCEPT ![t] = step]

network == <<owner, silent>>
history == <<last, late>>

-----------------------------------------------------------------------------
(* send *)

(* The writer of one of the client's connections takes the event. *)
Take(s, n, k) ==
  /\ writer[k] = "select"
  /\ [to |-> owner[k], n |-> n] \in out[s]
  /\ out' = [out EXCEPT ![s] = @ \ {[to |-> owner[k], n |-> n]}]
  /\ held' = [held EXCEPT ![k] = [from |-> s, n |-> n]]
  /\ late' = [late EXCEPT ![k] = IF Current(k) THEN @ ELSE @ + 1]
  /\ MoveWriter(k, "write")
  /\ UNCHANGED <<member, lock, conn, network, reader, task, sent, asked, last>>

(* sendTimeout *)
TimeOut(s) ==
  /\ \E send \in out[s] : out' = [out EXCEPT ![s] = @ \ {send}]
  /\ UNCHANGED <<member, lock, conn, network, reader, writer, task, sent,
                 asked, held, history>>

-----------------------------------------------------------------------------
(* writeMesssage *)

(* The connection is open and its peer there: the event arrives. *)
Write(k) ==
  /\ writer[k] = "write"
  /\ Current(k)
  /\ k \notin silent
  /\ last' = [last EXCEPT ![owner[k]][held[k].from] = held[k].n]
  /\ held' = [held EXCEPT ![k] = Nothing]
  /\ MoveWriter(k, "select")
  /\ UNCHANGED <<member, lock, conn, network, reader, task, out, sent, asked,
                 late>>

(* The peer is not there, and the event is lost in a buffer on the way. *)
WriteBuffered(k) ==
  /\ writer[k] = "write"
  /\ Current(k)
  /\ k \in silent
  /\ held' = [held EXCEPT ![k] = Nothing]
  /\ MoveWriter(k, "select")
  /\ UNCHANGED <<member, lock, conn, network, reader, task, out, sent, asked,
                 history>>

(* A loop that ends: closeConnectionIfCurrent, and what it does next.  (The *)
(* loop may stand still before it does; a ServeWS in between is the same   *)
(* as one before the failure.)                                             *)
CloseIfCurrent(k) == conn' = [conn EXCEPT ![owner[k]] = IF @ = k THEN None ELSE @]
Leaves(k) == IF Current(k) THEN "tell" ELSE "ended"

WriterLeaves(k) ==
  /\ held' = [held EXCEPT ![k] = Nothing]
  /\ CloseIfCurrent(k)
  /\ MoveWriter(k, Leaves(k))
  /\ UNCHANGED <<member, lock, network, reader, task, out, sent, asked,
                 history>>

(* Faulty: the loop goes on after a failed write. *)
WriteFailsGoesOn(k) ==
  /\ writer[k] = "write"
  /\ ~Current(k)
  /\ held' = [held EXCEPT ![k] = Nothing]
  /\ MoveWriter(k, "select")
  /\ UNCHANGED <<member, lock, conn, network, reader, task, out, sent, asked,
                 history>>

WriteFails(k) == writer[k] = "write" /\ ~Current(k) /\ WriterLeaves(k)

(* connDone is closed, or a ping finds the connection closed. *)
WriterStops(k) == writer[k] = "select" /\ ~Current(k) /\ WriterLeaves(k)

(* A write or a ping finds the peer gone. *)
PeerGone(k) ==
  /\ writer[k] \in {"write", "select"}
  /\ Current(k)
  /\ k \in silent
  /\ WriterLeaves(k)

(* broadcastUsersList, to a snapshot taken under the read lock. *)
WriterTells(k) ==
  /\ writer[k] = "tell"
  /\ Unlocked
  /\ Post(Writer(k), member)
  /\ MoveWriter(k, "telling")
  /\ UNCHANGED <<member, lock, conn, network, reader, task, asked, held,
                 history>>

WriterEnds(k) ==
  /\ writer[k] = "telling"
  /\ out[Writer(k)] = {}
  /\ MoveWriter(k, "ended")
  /\ UNCHANGED <<member, lock, conn, network, reader, task, out, sent, asked,
                 held, history>>

-----------------------------------------------------------------------------
(* readMessages *)

(* An event is read.  Its handler answers the client, *)
Reply(k) ==
  /\ reader[k] = "read"
  /\ Ask
  /\ Current(k)
  /\ k \notin silent
  /\ Post(Reader(k), {owner[k]})
  /\ MoveReader(k, "sending")
  /\ UNCHANGED <<member, lock, conn, network, writer, task, held, history>>

(* or takes a snapshot of the clients, under the read lock, and broadcasts *)
(* to some of them.                                                        *)
Broadcast(k) ==
  /\ reader[k] = "read"
  /\ Ask
  /\ Current(k)
  /\ k \notin silent
  /\ Unlocked
  /\ Post(Reader(k), member)
  /\ MoveReader(k, "sending")
  /\ UNCHANGED <<member, lock, conn, network, writer, task, held, history>>

(* Faulty: the broadcast does not wait for its sends. *)
HandledAtOnce(k) ==
  /\ reader[k] = "sending"
  /\ MoveReader(k, "read")
  /\ UNCHANGED <<member, lock, conn, network, writer, task, out, sent, asked,
                 held, history>>

Handled(k) ==
  /\ reader[k] = "sending"
  /\ out[Reader(k)] = {}
  /\ MoveReader(k, "read")
  /\ UNCHANGED <<member, lock, conn, network, writer, task, out, sent, asked,
                 held, history>>

(* Faulty: no read deadline. *)
ReadFailsLate(k) ==
  /\ reader[k] = "read"
  /\ ~Current(k)
  /\ MoveReader(k, "ended")
  /\ UNCHANGED <<member, lock, conn, network, writer, task, out, sent, asked,
                 held, history>>

(* The connection is closed, or the pong is overdue; *)
ReadFails(k) ==
  /\ reader[k] = "read"
  /\ ~Current(k) \/ k \in silent
  /\ CloseIfCurrent(k)
  /\ MoveReader(k, Leaves(k))
  /\ UNCHANGED <<member, lock, network, writer, task, out, sent, asked, held,
                 history>>

(* the event is malformed, or its handler fails. *)
Refuse(k) ==
  /\ reader[k] = "read"
  /\ Current(k)
  /\ k \notin silent
  /\ CloseIfCurrent(k)
  /\ MoveReader(k, Leaves(k))
  /\ UNCHANGED <<member, lock, network, writer, task, out, sent, asked, held,
                 history>>

ReaderTells(k) ==
  /\ reader[k] = "tell"
  /\ Unlocked
  /\ Post(Reader(k), member)
  /\ MoveReader(k, "telling")
  /\ UNCHANGED <<member, lock, conn, network, writer, task, asked, held,
                 history>>

ReaderEnds(k) ==
  /\ reader[k] = "telling"
  /\ out[Reader(k)] = {}
  /\ MoveReader(k, "ended")
  /\ UNCHANGED <<member, lock, conn, network, writer, task, out, sent, asked,
                 held, history>>

-----------------------------------------------------------------------------
(* Request handlers.                                                       *)

(* ServeWS for a client there is: its connection is closed, and k takes    *)
(* the place.                                                              *)
ServeWS(c, k) ==
  /\ Unlocked
  /\ c \in member
  /\ owner[k] = None
  /\ c \in Dials[k]
  /\ \A j \in Conns : j < k => owner[j] # None
  /\ owner' = [owner EXCEPT ![k] = c]
  /\ conn' = [conn EXCEPT ![c] = k]
  /\ MoveReader(k, "read")
  /\ MoveWriter(k, "select")
  /\ UNCHANGED <<member, lock, silent, task, out, sent, asked, held, history>>

(* serveLogout and kickUser remove the clients of a session or a user one  *)
(* by one, each under the lock: removeClient,                              *)
Remove(t, c) ==
  /\ Unlocked
  /\ task[t] \in {"idle", "removed"}
  /\ IF task[t] = "idle" THEN Ask ELSE UNCHANGED asked
  /\ c \in member
  /\ member' = member \ {c}
  /\ conn' = [conn EXCEPT ![c] = None]
  /\ MoveTask(t, "removed")
  /\ UNCHANGED <<lock, network, reader, writer, out, sent, held, history>>

(* and then tell the others. *)
Farewell(t) ==
  /\ Unlocked
  /\ task[t] = "removed"
  /\ Post(t, member)
  /\ MoveTask(t, "sending")
  /\ UNCHANGED <<member, lock, conn, network, reader, writer, asked, held,
                 history>>

(* A handler that has written a post or a comment tells some of a snapshot *)
(* of the clients.                                                         *)
Announce(t) ==
  /\ Unlocked
  /\ task[t] = "idle"
  /\ Ask
  /\ Post(t, member)
  /\ MoveTask(t, "sending")
  /\ UNCHANGED <<member, lock, conn, network, reader, writer, held, history>>

(* Faulty: broadcastUsersList under the lock, which asks for the read lock. *)
ExpelRelocking(t, c) ==
  /\ Unlocked
  /\ task[t] = "idle"
  /\ Ask
  /\ c \in member
  /\ lock' = t
  /\ member' = member \ {c}
  /\ conn' = [conn EXCEPT ![c] = None]
  /\ MoveTask(t, "removed")
  /\ UNCHANGED <<network, reader, writer, out, sent, held, history>>

(* checkLogin finds the session expired or the user banned.  It holds the  *)
(* lock, and keeps it while it tells the others: broadcastUsersListLocked. *)
Expel(t, c) ==
  /\ Unlocked
  /\ task[t] = "idle"
  /\ Ask
  /\ c \in member
  /\ lock' = t
  /\ member' = member \ {c}
  /\ conn' = [conn EXCEPT ![c] = None]
  /\ Post(t, member')
  /\ MoveTask(t, "sending")
  /\ UNCHANGED <<network, reader, writer, held, history>>

Respond(t) ==
  /\ task[t] = "sending"
  /\ out[t] = {}
  /\ lock' = IF lock = t THEN None ELSE lock
  /\ MoveTask(t, "idle")
  /\ UNCHANGED <<member, conn, network, reader, writer, out, sent, asked, held,
                 history>>

-----------------------------------------------------------------------------
(* The network: the other end goes away, or just stops reading. *)
Drop(k) ==
  /\ Current(k)
  /\ Cardinality(silent) < MaxSilent
  /\ k \notin silent
  /\ silent' = silent \cup {k}
  /\ UNCHANGED <<member, lock, conn, owner, reader, writer, task, out, sent,
                 asked, held, history>>

-----------------------------------------------------------------------------
WriteLoop(k) ==
  \/ Write(k)
  \/ WriteFails(k)
  \/ WriterStops(k)
  \/ WriterTells(k)
  \/ WriterEnds(k)

ReadLoop(k) ==
  \/ Handled(k)
  \/ ReadFails(k)
  \/ ReaderTells(k)
  \/ ReaderEnds(k)

Peer(k) ==
  \/ Reply(k)
  \/ Broadcast(k)
  \/ Refuse(k)
  \/ Drop(k)
  \/ WriteBuffered(k)
  \/ PeerGone(k)

Finish(t) == Farewell(t) \/ Respond(t)
Request(t) == Announce(t) \/ \E c \in Clients : Remove(t, c) \/ Expel(t, c)

(* What goes on by itself: timeouts run out and goroutines run on.  No     *)
(* peer, no request and no write to a peer that reads nothing has to get   *)
(* anywhere, and no send has to find a writer.                             *)
Progress ==
  \/ \E s \in Senders : TimeOut(s)
  \/ \E k \in Conns : WriteLoop(k) \/ ReadLoop(k)
  \/ \E t \in Tasks : Finish(t)

Next ==
  \/ Progress
  \/ \E k \in Conns :
       \/ \E s \in Senders, n \in 1 .. MaxRequests + 1 : Take(s, n, k)
       \/ Peer(k)
       \/ \E c \in Clients : ServeWS(c, k)
  \/ \E t \in Tasks : Request(t)

Spec == Init /\ [][Next]_vars /\ WF_vars(Progress)
-----------------------------------------------------------------------------
(* ws-client.go:427-435: once connDone is closed the writer takes at most  *)
(* the one event it finds in the same select: no more than that is kept    *)
(* from the connection that replaced it.                                   *)
OneLate == \A k \in Conns : late[k] <= 1

(* Each client gets the events of a sender in order and none twice, over   *)
(* all the connections it has had.                                         *)
Box == INSTANCE Mailbox
KeepsOrder == Box!Spec

-----------------------------------------------------------------------------
(* ws-manager.go:265-268, handlers.go:509-512, ws-client.go:161-171: every *)
(* broadcast ends and with it whoever waits for it, the holder of the      *)
(* manager's lock among them, whatever the clients do.                     *)
SendersEnd ==
  /\ \A t \in Tasks : task[t] # "idle" ~> task[t] = "idle"
  /\ lock # None ~> lock = None

(* ws-client.go:86-91, 253-260: both loops of a connection end once it is   *)
(* closed or replaced, and also when its peer says nothing any more and    *)
(* the writer is stuck in a write to it.                                   *)
Over(k) == k \in silent \/ (owner[k] # None /\ ~Current(k))
LoopsEnd == \A k \in Conns : Over(k) ~> reader[k] = "ended" /\ writer[k] = "ended"
=============================================================================
