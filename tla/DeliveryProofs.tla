--------------------------- MODULE DeliveryProofs ---------------------------
(***************************************************************************)
(* Delivery implements Mailbox, and no writer takes two events late: the   *)
(* proofs, for any number of clients, connections and senders.             *)
(***************************************************************************)
EXTENDS Delivery, TLAPS, FiniteSetTheorems

(* A connection is current for its owner only, and not opened twice. *)
Owned ==
  /\ \A k \in Conns : owner[k] = None => writer[k] = "off" /\ reader[k] = "off"
  /\ \A c \in Clients : conn[c] # None => owner[conn[c]] = c

(* Who is not sending waits for no send. *)
IdleSends ==
  /\ \A k \in Conns : reader[k] \notin {"sending", "telling"} => out[Reader(k)] = {}
  /\ \A k \in Conns : writer[k] # "telling" => out[Writer(k)] = {}
  /\ \A t \in Tasks : task[t] # "sending" => out[t] = {}

(* What is being sent is the sender's newest event, and news to the client. *)
OutIsNew ==
  \A s \in Senders :
    /\ \A c \in Clients : last[c][s] <= sent[s]
    /\ \A x \in out[s] : x.n = sent[s] /\ last[x.to][s] < sent[s]

(* What a writer holds was sent, is not being sent to the same client any  *)
(* more, and is news to the client if the connection is current.           *)
HeldIsNew ==
  \A k \in Conns : writer[k] = "write" =>
    /\ held[k] \in Event
    /\ held[k].n <= sent[held[k].from]
    /\ [to |-> owner[k], n |-> held[k].n] \notin out[held[k].from]
    /\ Current(k) => last[owner[k]][held[k].from] < held[k].n

(* Whoever took an event late takes no other. *)
LateIsLast ==
  \A k \in Conns :
    /\ late[k] <= 1
    /\ late[k] # 0 => owner[k] # None /\ ~Current(k) /\ writer[k] # "select"

IInv == TypeOK /\ Owned /\ IdleSends /\ OutIsNew /\ HeldIsNew /\ LateIsLast

-----------------------------------------------------------------------------
(* Senders are told apart. *)
LEMMA SendersDiffer ==
  /\ \A k \in Conns : Reader(k) \in Senders /\ Writer(k) \in Senders
  /\ \A t \in Tasks : t \in Senders
  /\ \A j, k \in Conns :
       /\ Reader(j) # Writer(k)
       /\ Reader(j) = Reader(k) => j = k
       /\ Writer(j) = Writer(k) => j = k
  /\ \A k \in Conns, t \in Tasks : Reader(k) # t /\ Writer(k) # t
BY DeliveryAssumption DEF Reader, Writer, Senders

LEMMA InitHolds == Init => IInv
<1> SUFFICES ASSUME Init PROVE IInv
  OBVIOUS
<1>1. TypeOK
  BY DeliveryAssumption DEF Init, TypeOK, ReaderSteps, WriterSteps, TaskSteps
<1>2. Owned /\ HeldIsNew /\ LateIsLast
  BY DEF Init, Owned, HeldIsNew, LateIsLast
<1>3. IdleSends
  BY SendersDiffer DEF Init, IdleSends
<1>4. OutIsNew
  BY DEF Init, OutIsNew
<1> QED  BY <1>1, <1>2, <1>3, <1>4 DEF IInv

(* A step that sends and delivers nothing.  A writer goes on holding what  *)
(* it holds or lets go of it, only a new connection becomes current, and   *)
(* only a current or new one asks for an event again.                      *)
SendsNothing ==
  /\ UNCHANGED <<sent, last, late>>
  /\ \A s \in Senders : out'[s] \subseteq out[s]
  /\ \A k \in Conns :
       /\ owner[k] # None => owner'[k] = owner[k]
       /\ Current(k)' => Current(k) \/ owner[k] = None
       /\ writer'[k] = "write" => writer[k] = "write" /\ held'[k] = held[k]
       /\ writer'[k] = "select" => writer[k] = "select" \/ Current(k) \/ owner[k] = None

LEMMA NothingSentKeeps ==
  ASSUME IInv, SendsNothing
  PROVE  OutIsNew' /\ HeldIsNew' /\ LateIsLast'
<1>1. OutIsNew'
  BY DEF IInv, SendsNothing, OutIsNew
<1>2. HeldIsNew'
  <2> SUFFICES ASSUME NEW k \in Conns, writer'[k] = "write"
               PROVE  /\ held'[k] \in Event
                      /\ held'[k].n <= sent'[held'[k].from]
                      /\ [to |-> owner'[k], n |-> held'[k].n] \notin out'[held'[k].from]
                      /\ Current(k)' => last'[owner'[k]][held'[k].from] < held'[k].n
    BY DEF HeldIsNew
  <2>1. writer[k] = "write" /\ held'[k] = held[k] /\ owner[k] # None /\ owner'[k] = owner[k]
    BY DEF IInv, SendsNothing, Owned
  <2>2. held[k].from \in Senders
    BY <2>1 DEF IInv, HeldIsNew, Event
  <2>3. Current(k)' => Current(k)
    BY <2>1 DEF SendsNothing
  <2> QED  BY <2>1, <2>2, <2>3 DEF IInv, HeldIsNew, SendsNothing
<1>3. LateIsLast'
  BY DEF IInv, SendsNothing, LateIsLast
<1> QED  BY <1>1, <1>2, <1>3

-----------------------------------------------------------------------------
(* The steps that send nothing. *)

LEMMA TimeOutKeeps == ASSUME IInv, NEW s \in Senders, TimeOut(s) PROVE IInv'
<1>1. PICK x \in out[s] : out' = [out EXCEPT ![s] = @ \ {x}]
  BY DEF TimeOut
<1>2. UNCHANGED <<member, lock, conn, owner, silent, reader, writer, task, sent,
                  asked, held, last, late>>
  BY DEF TimeOut, network, history
<1>3. TypeOK'
  BY <1>1, <1>2 DEF IInv, TypeOK
<1>4. Owned' /\ IdleSends'
  BY <1>1, <1>2, SendersDiffer DEF IInv, Owned, IdleSends, TypeOK
<1>5. SendsNothing
  BY <1>1, <1>2 DEF IInv, TypeOK, SendsNothing, Current
<1> QED  BY <1>3, <1>4, <1>5, NothingSentKeeps DEF IInv

(* closeConnectionIfCurrent *)
LEMMA CloseKeeps ==
  ASSUME IInv, NEW k \in Conns, owner[k] # None, CloseIfCurrent(k), UNCHANGED owner
  PROVE  /\ conn' \in [Clients -> Conns \cup {None}]
         /\ \A c \in Clients : conn'[c] # None => conn'[c] = conn[c]
         /\ \A j \in Conns : Current(j)' => Current(j)
         /\ ~Current(k)'
BY DeliveryAssumption DEF IInv, TypeOK, Owned, CloseIfCurrent, Current

(* A writer that ends. *)
LEMMA WriterLeavesKeeps ==
  ASSUME IInv, NEW k \in Conns, writer[k] \in {"write", "select"}, WriterLeaves(k)
  PROVE  IInv'
<1>1. owner[k] # None
  BY DEF IInv, Owned
<1>2. /\ held' = [held EXCEPT ![k] = Nothing]
      /\ writer' = [writer EXCEPT ![k] = Leaves(k)]
      /\ Leaves(k) \in {"tell", "ended"}
      /\ CloseIfCurrent(k)
      /\ UNCHANGED <<member, lock, owner, silent, reader, task, out, sent, asked, last, late>>
  BY DEF WriterLeaves, MoveWriter, Leaves, network, history
<1>3. /\ conn' \in [Clients -> Conns \cup {None}]
      /\ \A c \in Clients : conn'[c] # None => conn'[c] = conn[c]
      /\ \A j \in Conns : Current(j)' => Current(j)
  BY <1>1, <1>2, CloseKeeps
<1>4. TypeOK'
  BY <1>2, <1>3 DEF IInv, TypeOK, WriterSteps
<1>5. Owned'
  BY <1>1, <1>2, <1>3 DEF IInv, TypeOK, Owned
<1>6. IdleSends'
  BY <1>2, SendersDiffer DEF IInv, TypeOK, IdleSends
<1>7. SendsNothing
  BY <1>2, <1>3 DEF IInv, TypeOK, SendsNothing
<1> QED  BY <1>4, <1>5, <1>6, <1>7, NothingSentKeeps DEF IInv

(* A writer goes on, or ends after it has told the others. *)
LEMMA WriterGoesOn ==
  ASSUME IInv, NEW k \in Conns, WriteBuffered(k) \/ WriterEnds(k)
  PROVE  IInv'
<1> PICK step \in {"select", "ended"} :
      /\ writer' = [writer EXCEPT ![k] = step]
      /\ step = "select" => Current(k)
      /\ held' \in {held, [held EXCEPT ![k] = Nothing]}
      /\ writer[k] = "telling" => out[Writer(k)] = {}
      /\ writer[k] # "off"
      /\ UNCHANGED <<member, lock, conn, owner, silent, reader, task, out, sent,
                     asked, last, late>>
  BY DEF WriteBuffered, WriterEnds, MoveWriter, network, history
<1>1. TypeOK'
  BY DEF IInv, TypeOK, WriterSteps
<1>2. Owned'
  BY DEF IInv, TypeOK, Owned
<1>3. IdleSends'
  BY SendersDiffer DEF IInv, TypeOK, IdleSends
<1>4. SendsNothing
  BY DEF IInv, TypeOK, SendsNothing, Current
<1> QED  BY <1>1, <1>2, <1>3, <1>4, NothingSentKeeps DEF IInv

(* A reader goes on, or ends. *)
LEMMA ReaderGoesOn ==
  ASSUME IInv, NEW k \in Conns,
         Handled(k) \/ ReadFails(k) \/ Refuse(k) \/ ReaderEnds(k)
  PROVE  IInv'
<1>1. owner[k] # None /\ out[Reader(k)] = {}
  BY DEF IInv, Owned, IdleSends, Handled, ReadFails, Refuse, ReaderEnds
<1>2. PICK step \in {"read", "tell", "ended"} : reader' = [reader EXCEPT ![k] = step]
  BY DEF Handled, ReadFails, Refuse, ReaderEnds, MoveReader, Leaves
<1>3. UNCHANGED <<member, lock, owner, silent, writer, task, out, sent, asked,
                  held, last, late>>
  BY DEF Handled, ReadFails, Refuse, ReaderEnds, network, history
<1>4. CloseIfCurrent(k) \/ UNCHANGED conn
  BY DEF Handled, ReadFails, Refuse, ReaderEnds
<1>5. /\ conn' \in [Clients -> Conns \cup {None}]
      /\ \A c \in Clients : conn'[c] # None => conn'[c] = conn[c]
      /\ \A j \in Conns : Current(j)' => Current(j)
  BY <1>1, <1>3, <1>4, CloseKeeps DEF IInv, TypeOK, Current
<1>6. TypeOK'
  BY <1>2, <1>3, <1>5 DEF IInv, TypeOK, ReaderSteps
<1>7. Owned'
  BY <1>1, <1>2, <1>3, <1>5 DEF IInv, TypeOK, Owned
<1>8. IdleSends'
  BY <1>1, <1>2, <1>3, SendersDiffer DEF IInv, TypeOK, IdleSends
<1>9. SendsNothing
  BY <1>3, <1>5 DEF IInv, TypeOK, SendsNothing
<1> QED  BY <1>6, <1>7, <1>8, <1>9, NothingSentKeeps DEF IInv

LEMMA ServeWSKeeps ==
  ASSUME IInv, NEW c \in Clients, NEW k \in Conns, ServeWS(c, k)
  PROVE  IInv'
<1>1. /\ owner[k] = None
      /\ owner' = [owner EXCEPT ![k] = c]
      /\ conn' = [conn EXCEPT ![c] = k]
      /\ reader' = [reader EXCEPT ![k] = "read"]
      /\ writer' = [writer EXCEPT ![k] = "select"]
      /\ UNCHANGED <<member, lock, silent, task, out, sent, asked, held, last, late>>
  BY DEF ServeWS, MoveReader, MoveWriter, history
<1>2. reader[k] = "off" /\ writer[k] = "off" /\ c # None /\ k # None
  BY <1>1, DeliveryAssumption DEF IInv, Owned
<1>3. \A d \in Clients : conn[d] # k
  BY <1>1, <1>2, DeliveryAssumption DEF IInv, TypeOK, Owned
<1>4. TypeOK'
  BY <1>1 DEF IInv, TypeOK, ReaderSteps, WriterSteps
<1>5. Owned'
  BY <1>1, <1>2, <1>3 DEF IInv, TypeOK, Owned
<1>6. IdleSends'
  BY <1>1, <1>2, SendersDiffer DEF IInv, TypeOK, IdleSends
<1>7. SendsNothing
  BY <1>1, <1>2, <1>3 DEF IInv, TypeOK, Owned, SendsNothing, Current
<1> QED  BY <1>4, <1>5, <1>6, <1>7, NothingSentKeeps DEF IInv

LEMMA AskType == ASSUME TypeOK, Ask \/ UNCHANGED asked PROVE asked' \in 0 .. MaxRequests
BY DeliveryAssumption DEF TypeOK, Ask

(* A handler that removes a client, or that has told the others, and a     *)
(* peer that goes silent.                                                  *)
LEMMA RemoveKeeps ==
  ASSUME IInv, NEW t \in Tasks, NEW c \in Clients, Remove(t, c)
  PROVE  IInv'
<1>1. /\ task[t] \in {"idle", "removed"}
      /\ member' = member \ {c}
      /\ conn' = [conn EXCEPT ![c] = None]
      /\ task' = [task EXCEPT ![t] = "removed"]
      /\ Ask \/ UNCHANGED asked
      /\ UNCHANGED <<lock, owner, silent, reader, writer, out, sent, held, last, late>>
  BY DEF Remove, MoveTask, network, history
<1>2. TypeOK'
  BY <1>1, AskType DEF IInv, TypeOK, TaskSteps
<1>3. Owned'
  BY <1>1 DEF IInv, TypeOK, Owned
<1>4. IdleSends'
  BY <1>1, SendersDiffer DEF IInv, TypeOK, IdleSends
<1>5. SendsNothing
  BY <1>1, DeliveryAssumption DEF IInv, TypeOK, SendsNothing, Current
<1> QED  BY <1>2, <1>3, <1>4, <1>5, NothingSentKeeps DEF IInv

LEMMA RespondKeeps == ASSUME IInv, NEW t \in Tasks, Respond(t) PROVE IInv'
<1>1. /\ out[t] = {}
      /\ lock' \in {lock, None}
      /\ task' = [task EXCEPT ![t] = "idle"]
      /\ UNCHANGED <<member, conn, owner, silent, reader, writer, out, sent, asked,
                     held, last, late>>
  BY DEF Respond, MoveTask, network, history
<1>2. TypeOK'
  BY <1>1 DEF IInv, TypeOK, TaskSteps
<1>3. Owned' /\ IdleSends'
  BY <1>1, SendersDiffer DEF IInv, TypeOK, Owned, IdleSends
<1>4. SendsNothing
  BY <1>1 DEF IInv, TypeOK, SendsNothing, Current
<1> QED  BY <1>2, <1>3, <1>4, NothingSentKeeps DEF IInv

LEMMA DropKeeps == ASSUME IInv, NEW k \in Conns, Drop(k) PROVE IInv'
<1>1. /\ silent' = silent \cup {k}
      /\ UNCHANGED <<member, lock, conn, owner, reader, writer, task, out, sent, asked,
                     held, last, late>>
  BY DEF Drop, history
<1>2. TypeOK'
  BY <1>1 DEF IInv, TypeOK
<1>3. Owned' /\ IdleSends'
  BY <1>1 DEF IInv, Owned, IdleSends
<1>4. SendsNothing
  BY <1>1 DEF SendsNothing, Current
<1> QED  BY <1>2, <1>3, <1>4, NothingSentKeeps DEF IInv

-----------------------------------------------------------------------------
(* The steps that send. *)

(* A sender that waits for nothing posts: a writer's, reader's or task's   *)
(* own step follows.                                                       *)
Posts(s, to) ==
  /\ Post(s, to)
  /\ out[s] = {}
  /\ to \subseteq Clients
  /\ UNCHANGED <<owner, held, last, late>>
  /\ \A k \in Conns :
       /\ Current(k)' => Current(k)
       /\ writer'[k] = writer[k] \/ writer'[k] = "telling"

LEMMA PostFacts ==
  ASSUME IInv, NEW s \in Senders, NEW to, Posts(s, to)
  PROVE  /\ sent' \in [Senders -> Nat]
         /\ sent'[s] = sent[s] + 1
         /\ \A r \in Senders \ {s} : sent'[r] = sent[r] /\ out'[r] = out[r]
         /\ out'[s] = {[to |-> c, n |-> sent[s] + 1] : c \in to}
         /\ out' \in [Senders -> SUBSET Send]
<1>1. sent \in [Senders -> Nat] /\ out \in [Senders -> SUBSET Send]
  BY DEF IInv, TypeOK
<1>2. {[to |-> c, n |-> sent[s] + 1] : c \in to} \subseteq Send
  BY <1>1 DEF Posts, Send
<1> QED  BY <1>1, <1>2 DEF Posts, Post

LEMMA PostsKeep ==
  ASSUME IInv, NEW s \in Senders, NEW to, Posts(s, to)
  PROVE  OutIsNew' /\ HeldIsNew' /\ LateIsLast'
<1>1. /\ sent \in [Senders -> Nat]
      /\ last \in [Clients -> [Senders -> Nat]]
      /\ sent'[s] = sent[s] + 1
      /\ \A r \in Senders \ {s} : sent'[r] = sent[r] /\ out'[r] = out[r]
      /\ out'[s] = {[to |-> c, n |-> sent[s] + 1] : c \in to}
      /\ UNCHANGED <<owner, held, last, late>>
      /\ to \subseteq Clients
  BY PostFacts DEF Posts, IInv, TypeOK
<1>2. OutIsNew'
  <2> SUFFICES ASSUME NEW r \in Senders
               PROVE  /\ \A c \in Clients : last'[c][r] <= sent'[r]
                      /\ \A x \in out'[r] : x.n = sent'[r] /\ last'[x.to][r] < sent'[r]
    BY DEF OutIsNew
  <2>1. CASE r = s
    <3>1. \A c \in Clients : last[c][s] <= sent[s] /\ last[c][s] \in Nat
      BY <1>1 DEF IInv, OutIsNew
    <3>2. \A c \in Clients : last'[c][s] < sent'[s]
      BY <1>1, <3>1
    <3> QED  BY <2>1, <1>1, <3>1, <3>2
  <2>2. CASE r # s
    BY <2>2, <1>1 DEF IInv, OutIsNew
  <2> QED  BY <2>1, <2>2
<1>3. HeldIsNew'
  <2> SUFFICES ASSUME NEW k \in Conns, writer'[k] = "write"
               PROVE  /\ held'[k] \in Event
                      /\ held'[k].n <= sent'[held'[k].from]
                      /\ [to |-> owner'[k], n |-> held'[k].n] \notin out'[held'[k].from]
                      /\ Current(k)' => last'[owner'[k]][held'[k].from] < held'[k].n
    BY DEF HeldIsNew
  <2>1. writer[k] = "write" /\ held'[k] = held[k] /\ owner'[k] = owner[k]
    BY <1>1 DEF Posts
  <2>2. held[k].from \in Senders /\ held[k].n \in Nat /\ held[k] \in Event
    BY <2>1 DEF IInv, HeldIsNew, Event
  <2>3. held[k].n <= sent[held[k].from]
    BY <2>1 DEF IInv, HeldIsNew
  <2>4. held[k].n <= sent'[held[k].from]
    BY <1>1, <2>2, <2>3
  <2>5. [to |-> owner[k], n |-> held[k].n] \notin out'[held[k].from]
    <3>1. CASE held[k].from = s
      <4>1. held[k].n # sent[s] + 1
        BY <1>1, <2>2, <2>3, <3>1
      <4> QED  BY <1>1, <3>1, <4>1
    <3>2. CASE held[k].from # s
      BY <1>1, <2>1, <2>2, <3>2 DEF IInv, HeldIsNew
    <3> QED  BY <3>1, <3>2
  <2>6. Current(k)' => last[owner[k]][held[k].from] < held[k].n
    BY <2>1 DEF Posts, IInv, HeldIsNew
  <2> QED  BY <1>1, <2>1, <2>2, <2>4, <2>5, <2>6
<1>4. LateIsLast'
  BY <1>1 DEF Posts, IInv, LateIsLast
<1> QED  BY <1>2, <1>3, <1>4

LEMMA ReaderPosts ==
  ASSUME IInv, NEW k \in Conns, Reply(k) \/ Broadcast(k) \/ ReaderTells(k)
  PROVE  IInv'
<1>1. PICK to \in SUBSET Clients : Post(Reader(k), to)
  <2>1. member \subseteq Clients /\ owner[k] \in Clients \cup {None}
    BY DEF IInv, TypeOK
  <2> QED  BY <2>1 DEF Reply, Broadcast, ReaderTells, Current
<1>2. PICK step \in {"sending", "telling"} : reader' = [reader EXCEPT ![k] = step]
  BY DEF Reply, Broadcast, ReaderTells, MoveReader
<1>3. /\ reader[k] \in {"read", "tell"}
      /\ Ask \/ UNCHANGED asked
      /\ UNCHANGED <<member, lock, conn, owner, silent, writer, task, held, last, late>>
  BY DEF Reply, Broadcast, ReaderTells, network, history
<1>4. out[Reader(k)] = {} /\ Reader(k) \in Senders
  BY <1>3, SendersDiffer DEF IInv, IdleSends
<1>5. Posts(Reader(k), to)
  BY <1>1, <1>3, <1>4 DEF Posts, Current
<1>6. /\ sent' \in [Senders -> Nat]
      /\ out' \in [Senders -> SUBSET Send]
      /\ \A r \in Senders \ {Reader(k)} : out'[r] = out[r]
  BY <1>4, <1>5, PostFacts
<1>7. TypeOK'
  BY <1>2, <1>3, <1>6, AskType DEF IInv, TypeOK, ReaderSteps
<1>8. Owned'
  BY <1>2, <1>3 DEF IInv, TypeOK, Owned
<1>9. IdleSends'
  BY <1>2, <1>3, <1>6, SendersDiffer DEF IInv, TypeOK, IdleSends
<1> QED  BY <1>4, <1>5, <1>7, <1>8, <1>9, PostsKeep DEF IInv

LEMMA WriterPosts == ASSUME IInv, NEW k \in Conns, WriterTells(k) PROVE IInv'
<1>1. /\ Post(Writer(k), member)
      /\ writer' = [writer EXCEPT ![k] = "telling"]
      /\ writer[k] = "tell"
      /\ UNCHANGED <<member, lock, conn, owner, silent, reader, task, asked, held, last, late>>
  BY DEF WriterTells, MoveWriter, network, history
<1>2. out[Writer(k)] = {} /\ Writer(k) \in Senders
  BY <1>1, SendersDiffer DEF IInv, IdleSends
<1>3. Posts(Writer(k), member)
  BY <1>1, <1>2 DEF Posts, Current, IInv, TypeOK
<1>4. /\ sent' \in [Senders -> Nat]
      /\ out' \in [Senders -> SUBSET Send]
      /\ \A r \in Senders \ {Writer(k)} : out'[r] = out[r]
  BY <1>2, <1>3, PostFacts
<1>5. TypeOK'
  BY <1>1, <1>4 DEF IInv, TypeOK, WriterSteps
<1>6. Owned'
  BY <1>1 DEF IInv, TypeOK, Owned
<1>7. IdleSends'
  BY <1>1, <1>4, SendersDiffer DEF IInv, TypeOK, IdleSends
<1> QED  BY <1>2, <1>3, <1>5, <1>6, <1>7, PostsKeep DEF IInv

LEMMA TaskPosts ==
  ASSUME IInv, NEW t \in Tasks,
         Farewell(t) \/ Announce(t) \/ \E c \in Clients : Expel(t, c)
  PROVE  IInv'
<1>1. /\ task[t] # "sending"
      /\ task' = [task EXCEPT ![t] = "sending"]
      /\ member' \subseteq member
      /\ Post(t, member')
      /\ lock' \in {lock, t}
      /\ Ask \/ UNCHANGED asked
      /\ conn' = conn \/ \E c \in Clients : conn' = [conn EXCEPT ![c] = None]
      /\ UNCHANGED <<owner, silent, reader, writer, held, last, late>>
  BY DEF Farewell, Announce, Expel, MoveTask, network, history
<1>2. out[t] = {} /\ t \in Senders
  BY <1>1, SendersDiffer DEF IInv, IdleSends
<1>3. /\ conn' \in [Clients -> Conns \cup {None}]
      /\ \A c \in Clients : conn'[c] # None => conn'[c] = conn[c]
      /\ \A k \in Conns : Current(k)' => Current(k)
  BY <1>1, DeliveryAssumption DEF IInv, TypeOK, Current
<1>4. Posts(t, member')
  BY <1>1, <1>2, <1>3 DEF Posts, IInv, TypeOK
<1>5. /\ sent' \in [Senders -> Nat]
      /\ out' \in [Senders -> SUBSET Send]
      /\ \A r \in Senders \ {t} : out'[r] = out[r]
  BY <1>2, <1>4, PostFacts
<1>6. TypeOK'
  BY <1>1, <1>3, <1>5, AskType DEF IInv, TypeOK, TaskSteps
<1>7. Owned'
  BY <1>1, <1>3 DEF IInv, Owned
<1>8. IdleSends'
  BY <1>1, <1>5, SendersDiffer DEF IInv, TypeOK, IdleSends
<1> QED  BY <1>2, <1>4, <1>6, <1>7, <1>8, PostsKeep DEF IInv

-----------------------------------------------------------------------------
(* The steps that deliver. *)

(* No other event of the sender to the client is left once one is taken. *)
LEMMA TakeKeeps ==
  ASSUME IInv, NEW s \in Senders, NEW n \in Nat, NEW k \in Conns, Take(s, n, k)
  PROVE  IInv'
<1> DEFINE x == [to |-> owner[k], n |-> n]
           e == [from |-> s, n |-> n]
<1>1. /\ writer[k] = "select" /\ x \in out[s]
      /\ out' = [out EXCEPT ![s] = @ \ {x}]
      /\ held' = [held EXCEPT ![k] = e]
      /\ late' = [late EXCEPT ![k] = IF Current(k) THEN @ ELSE @ + 1]
      /\ writer' = [writer EXCEPT ![k] = "write"]
      /\ UNCHANGED <<member, lock, conn, owner, silent, reader, task, sent, asked, last>>
  BY DEF Take, MoveWriter, network
<1>2. e \in Event /\ owner[k] # None /\ owner[k] \in Clients
  BY <1>1 DEF Event, IInv, TypeOK, Owned
<1>3. TypeOK'
  <2>1. late' \in [Conns -> Nat]
    BY <1>1 DEF IInv, TypeOK
  <2>2. held' \in [Conns -> Event \cup {Nothing}]
    BY <1>1, <1>2 DEF IInv, TypeOK
  <2> QED  BY <1>1, <2>1, <2>2 DEF IInv, TypeOK, WriterSteps
<1>4. Owned'
  BY <1>1, <1>2 DEF IInv, TypeOK, Owned
<1>5. \A r \in Senders : out'[r] \subseteq out[r]
  BY <1>1 DEF IInv, TypeOK
<1>6. IdleSends'
  BY <1>1, <1>5, SendersDiffer DEF IInv, TypeOK, IdleSends
<1>7. OutIsNew'
  BY <1>1, <1>5 DEF IInv, OutIsNew
<1>8. x.n = sent[s] /\ last[owner[k]][s] < n /\ n = sent[s]
  BY <1>1 DEF IInv, OutIsNew
<1>9. x \notin out'[s]
  BY <1>1 DEF IInv, TypeOK
<1>10. HeldIsNew'
  <2> SUFFICES ASSUME NEW j \in Conns, writer'[j] = "write"
               PROVE  /\ held'[j] \in Event
                      /\ held'[j].n <= sent'[held'[j].from]
                      /\ [to |-> owner'[j], n |-> held'[j].n] \notin out'[held'[j].from]
                      /\ Current(j)' => last'[owner'[j]][held'[j].from] < held'[j].n
    BY DEF HeldIsNew
  <2>1. CASE j = k
    <3>1. held'[j] = e
      BY <1>1, <2>1 DEF IInv, TypeOK
    <3> QED  BY <1>1, <1>2, <1>8, <1>9, <2>1, <3>1
  <2>2. CASE j # k
    <3>1. writer[j] = "write" /\ held'[j] = held[j]
      BY <1>1, <2>2 DEF IInv, TypeOK
    <3>2. held[j].from \in Senders
      BY <3>1 DEF IInv, HeldIsNew, Event
    <3> QED  BY <1>1, <1>5, <3>1, <3>2 DEF IInv, HeldIsNew, Current
  <2> QED  BY <2>1, <2>2
<1>11. LateIsLast'
  <2>1. late[k] = 0 \/ Current(k)
    BY <1>1 DEF IInv, LateIsLast
  <2>2. late[k] \in Nat /\ (Current(k) => late[k] = 0)
    BY DEF IInv, LateIsLast, TypeOK
  <2>3. late'[k] \in {0, 1} /\ (late'[k] # 0 => ~Current(k))
    BY <1>1, <2>1, <2>2 DEF IInv, TypeOK
  <2>4. \A j \in Conns : Current(j)' <=> Current(j)
    BY <1>1 DEF Current
  <2> QED  BY <1>1, <1>2, <2>3, <2>4 DEF IInv, TypeOK, LateIsLast
<1> QED  BY <1>3, <1>4, <1>6, <1>7, <1>10, <1>11 DEF IInv

(* An event that a current connection delivers is news to the client. *)
LEMMA WriteIsNews ==
  ASSUME IInv, NEW k \in Conns, Write(k)
  PROVE  /\ owner[k] \in Clients /\ held[k] \in Event
         /\ last[owner[k]][held[k].from] < held[k].n
         /\ held[k].n <= sent[held[k].from]
         /\ [to |-> owner[k], n |-> held[k].n] \notin out[held[k].from]
         /\ last' = [last EXCEPT ![owner[k]][held[k].from] = held[k].n]
BY DEF IInv, TypeOK, HeldIsNew, Write, Current

LEMMA WriteKeeps == ASSUME IInv, NEW k \in Conns, Write(k) PROVE IInv'
<1> DEFINE c == owner[k]
           s == held[k].from
           n == held[k].n
<1>1. /\ writer[k] = "write" /\ Current(k)
      /\ held' = [held EXCEPT ![k] = Nothing]
      /\ writer' = [writer EXCEPT ![k] = "select"]
      /\ UNCHANGED <<member, lock, conn, owner, silent, reader, task, out, sent, asked, late>>
  BY DEF Write, MoveWriter, network
<1>2. /\ c \in Clients /\ s \in Senders /\ n \in Nat
      /\ last[c][s] < n /\ n <= sent[s] /\ [to |-> c, n |-> n] \notin out[s]
      /\ last' = [last EXCEPT ![c][s] = n]
  BY WriteIsNews DEF Event
<1>3. last \in [Clients -> [Senders -> Nat]] /\ sent \in [Senders -> Nat]
  BY DEF IInv, TypeOK
<1>4. /\ last' \in [Clients -> [Senders -> Nat]]
      /\ last'[c][s] = n
      /\ \A d \in Clients, r \in Senders : d # c \/ r # s => last'[d][r] = last[d][r]
  BY <1>2, <1>3
<1>5. TypeOK'
  BY <1>1, <1>4 DEF IInv, TypeOK, WriterSteps
<1>6. Owned'
  BY <1>1 DEF IInv, TypeOK, Owned, Current
<1>7. IdleSends'
  BY <1>1, SendersDiffer DEF IInv, TypeOK, IdleSends
<1>8. OutIsNew'
  <2> SUFFICES ASSUME NEW r \in Senders
               PROVE  /\ \A d \in Clients : last'[d][r] <= sent'[r]
                      /\ \A x \in out'[r] : x.n = sent'[r] /\ last'[x.to][r] < sent'[r]
    BY DEF OutIsNew
  <2>1. \A d \in Clients : last'[d][r] <= sent'[r]
    BY <1>1, <1>2, <1>4 DEF IInv, OutIsNew
  <2>2. ASSUME NEW x \in out[r]
        PROVE  x.n = sent'[r] /\ last'[x.to][r] < sent'[r]
    <3>1. x \in Send /\ x.n = sent[r] /\ last[x.to][r] < sent[r]
      BY <2>2 DEF IInv, OutIsNew, TypeOK
    <3>2. x.to \in Clients /\ x = [to |-> x.to, n |-> x.n]
      BY <3>1 DEF Send
    <3>3. CASE x.to = c /\ r = s
      <4>1. n # sent[s]
        BY <1>2, <2>2, <3>1, <3>2, <3>3
      <4>2. n < sent[s]
        <5>1. n \in Nat /\ sent[s] \in Nat /\ n <= sent[s]
          BY <1>2, <1>3
        <5> HIDE DEF n, s
        <5> QED  BY <4>1, <5>1
      <4>3. last'[x.to][r] = n /\ sent'[r] = sent[s]
        BY <1>1, <1>4, <3>3
      <4> QED  BY <3>1, <3>3, <4>2, <4>3
    <3>4. CASE x.to # c \/ r # s
      BY <1>1, <1>4, <3>1, <3>2, <3>4
    <3> QED  BY <3>3, <3>4
  <2> QED  BY <1>1, <2>1, <2>2
<1>9. \A j \in Conns \ {k} : Current(j)' => Current(j) /\ owner[j] # c
  BY <1>1 DEF Current
<1>10. HeldIsNew'
  <2> SUFFICES ASSUME NEW j \in Conns, writer'[j] = "write"
               PROVE  /\ held'[j] \in Event
                      /\ held'[j].n <= sent'[held'[j].from]
                      /\ [to |-> owner'[j], n |-> held'[j].n] \notin out'[held'[j].from]
                      /\ Current(j)' => last'[owner'[j]][held'[j].from] < held'[j].n
    BY DEF HeldIsNew
  <2>1. j # k /\ writer[j] = "write" /\ held'[j] = held[j]
    BY <1>1 DEF IInv, TypeOK
  <2>2. held[j] \in Event /\ held[j].from \in Senders
    BY <2>1 DEF IInv, HeldIsNew, Event
  <2>3. Current(j)' => owner[j] \in Clients /\ last'[owner[j]][held[j].from] < held[j].n
    <3>1. Current(j) => owner[j] \in Clients /\ last[owner[j]][held[j].from] < held[j].n
      BY <2>1 DEF IInv, TypeOK, HeldIsNew, Current
    <3>2. Current(j)' => Current(j) /\ owner[j] # c
      BY <1>9, <2>1
    <3> QED  BY <1>4, <2>2, <3>1, <3>2
  <2> QED  BY <1>1, <2>1, <2>2, <2>3 DEF IInv, HeldIsNew
<1>11. LateIsLast'
  <2>1. \A j \in Conns : Current(j)' <=> Current(j)
    BY <1>1 DEF Current
  <2> QED  BY <1>1, <2>1 DEF IInv, TypeOK, LateIsLast
<1> QED  BY <1>5, <1>6, <1>7, <1>8, <1>10, <1>11 DEF IInv

-----------------------------------------------------------------------------
LEMMA StepKeeps == ASSUME IInv, [Next]_vars PROVE IInv'
<1>1. CASE UNCHANGED vars
  BY <1>1 DEF vars, IInv, TypeOK, Owned, IdleSends, OutIsNew, HeldIsNew, LateIsLast, Current
<1>2. ASSUME NEW k \in Conns, WriteLoop(k) PROVE IInv'
  BY <1>2, WriteKeeps, WriterLeavesKeeps, WriterPosts, WriterGoesOn
  DEF WriteLoop, WriteFails, WriterStops
<1>3. ASSUME NEW k \in Conns, ReadLoop(k) PROVE IInv'
  BY <1>3, ReaderGoesOn, ReaderPosts DEF ReadLoop
<1>4. ASSUME NEW k \in Conns, Peer(k) PROVE IInv'
  BY <1>4, ReaderPosts, ReaderGoesOn, DropKeeps, WriterGoesOn, WriterLeavesKeeps
  DEF Peer, PeerGone
<1>5. ASSUME NEW t \in Tasks, Finish(t) PROVE IInv'
  BY <1>5, TaskPosts, RespondKeeps DEF Finish
<1>6. ASSUME NEW t \in Tasks, Request(t) PROVE IInv'
  BY <1>6, TaskPosts, RemoveKeeps DEF Request
<1>7. CASE Progress
  BY <1>2, <1>3, <1>5, <1>7, TimeOutKeeps DEF Progress
<1>8. \A n \in 1 .. MaxRequests + 1 : n \in Nat
  BY DeliveryAssumption
<1>9. CASE Next
  BY <1>4, <1>6, <1>7, <1>8, <1>9, TakeKeeps, ServeWSKeeps DEF Next
<1> QED  BY <1>1, <1>9

LEMMA AlwaysIInv == Spec => []IInv
BY InitHolds, StepKeeps, PTL DEF Spec

(* Every reachable state is well-typed. *)
THEOREM TypeCorrect == Spec => []TypeOK
<1>1. IInv => TypeOK
  BY DEF IInv
<1> QED  BY <1>1, AlwaysIInv, PTL

(* ws-client.go:427-435: no writer takes more than one event once its      *)
(* connDone is closed, for any number of clients, connections and senders. *)
THEOREM AtMostOneLate == Spec => []OneLate
<1>1. IInv => OneLate
  BY DEF IInv, LateIsLast, OneLate
<1> QED  BY <1>1, AlwaysIInv, PTL

-----------------------------------------------------------------------------
(* Delivery implements Mailbox. *)

LEMMA PostIsSend ==
  ASSUME TypeOK, NEW s \in Senders, NEW to, Post(s, to), UNCHANGED last
  PROVE  Box!Next
BY DEF Post, Box!Next, Box!Send

LEMMA WriteIsReceive ==
  ASSUME IInv, NEW k \in Conns, Write(k)
  PROVE  Box!Next
<1> DEFINE c == owner[k]
           s == held[k].from
           n == held[k].n
<1>1. /\ c \in Clients /\ s \in Senders /\ n \in Nat
      /\ last[c][s] < n /\ n <= sent[s]
      /\ last' = [last EXCEPT ![c][s] = n]
      /\ sent' = sent
  BY WriteIsNews DEF Event, Write
<1>2. n \in 1 .. sent[s]
  <2>1. last[c][s] \in Nat /\ sent[s] \in Nat
    BY <1>1 DEF IInv, TypeOK
  <2> QED  BY <1>1, <2>1
<1>3. Box!Receive(c, s, n)
  BY <1>1 DEF Box!Receive
<1> QED  BY <1>1, <1>2, <1>3 DEF Box!Next

LEMMA StepIsBoxStep ==
  ASSUME IInv, [Next]_vars
  PROVE  [Box!Next]_<<sent, last>>
<1> SUFFICES ASSUME Next, <<sent, last>>' # <<sent, last>> PROVE Box!Next
  BY DEF vars
<1>1. TypeOK
  BY DEF IInv
<1>2. CASE \E k \in Conns : Write(k)
  BY <1>2, WriteIsReceive
<1>3. CASE \E k \in Conns : Reply(k) \/ Broadcast(k) \/ ReaderTells(k)
  BY <1>1, <1>3, PostIsSend, SendersDiffer DEF Reply, Broadcast, ReaderTells, history
<1>4. CASE \E k \in Conns : WriterTells(k)
  BY <1>1, <1>4, PostIsSend, SendersDiffer DEF WriterTells, history
<1>5. CASE \E t \in Tasks : Farewell(t) \/ Announce(t) \/ \E c \in Clients : Expel(t, c)
  BY <1>1, <1>5, PostIsSend, SendersDiffer DEF Farewell, Announce, Expel, history
<1>6. ASSUME NEW k \in Conns
      PROVE  WriteFails(k) \/ WriterStops(k) \/ WriterEnds(k) \/ Handled(k)
             \/ ReadFails(k) \/ ReaderEnds(k) \/ Refuse(k) \/ Drop(k)
             \/ WriteBuffered(k) \/ PeerGone(k) => UNCHANGED <<sent, last>>
  BY DEF WriteFails, WriterStops, WriterLeaves, WriterEnds, Handled, ReadFails,
         ReaderEnds, Refuse, Drop, WriteBuffered, PeerGone, history
<1>7. \A s \in Senders, k \in Conns : \A n : Take(s, n, k) => UNCHANGED <<sent, last>>
  BY DEF Take
<1>8. \A s \in Senders : TimeOut(s) => UNCHANGED <<sent, last>>
  BY DEF TimeOut, history
<1>9. \A c \in Clients, k \in Conns : ServeWS(c, k) => UNCHANGED <<sent, last>>
  BY DEF ServeWS, history
<1>10. \A t \in Tasks : Respond(t) \/ (\E c \in Clients : Remove(t, c)) => UNCHANGED <<sent, last>>
  BY DEF Remove, Respond, history
<1>11. ASSUME NEW k \in Conns, WriteLoop(k) \/ ReadLoop(k) \/ Peer(k) PROVE Box!Next
  BY <1>2, <1>3, <1>4, <1>6, <1>11 DEF WriteLoop, ReadLoop, Peer
<1>12. ASSUME NEW t \in Tasks, Finish(t) \/ Request(t) PROVE Box!Next
  BY <1>5, <1>10, <1>12 DEF Finish, Request
<1>13. CASE Progress
  BY <1>8, <1>11, <1>12, <1>13 DEF Progress
<1> QED  BY <1>7, <1>9, <1>11, <1>12, <1>13 DEF Next

(* Over all the connections a client has had, whoever closes or replaces   *)
(* them and whatever times out, it gets each sender's events in order and  *)
(* none twice: every behaviour of the loops and handlers is one of Mailbox. *)
THEOREM ImplementsMailbox == Spec => KeepsOrder
<1>1. Init => Box!Init
  BY DEF Init, Box!Init
<1> QED  BY <1>1, AlwaysIInv, StepIsBoxStep, PTL DEF Spec, KeepsOrder, Box!Spec
=============================================================================
