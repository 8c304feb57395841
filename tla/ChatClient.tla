----------------------------- MODULE ChatClient -----------------------------
(***************************************************************************)
(* The chat windows of one web client (ChatContext.tsx) and what the       *)
(* server does with its requests: pages of history, messages sent and      *)
(* acknowledged, messages of other users, over a connection that may drop. *)
(*                                                                         *)
(* A page carries no conversation: the client takes it for the answer to   *)
(* the oldest request it has not seen answered (pending).  A message sent  *)
(* is shown at once as an echo, an entry with id 0, until its ack, an      *)
(* error or a timeout settles it.  A message's id is its place in log.     *)
(***************************************************************************)
EXTENDS Integers, FiniteSets, Sequences

CONSTANTS Convs,       \* conversations the user is a member of
          PageSize,    \* HISTORY_PAGE_SIZE
          Losses,      \* what may be lost: "request", "reply", "connection"
          Old,         \* messages stored before the client came
          MaxMessages, \* bound: messages stored
          MaxSends,    \* bound: messages this client sends
          MaxOffset,   \* bound: how far back a window is scrolled
          MaxRequests, \* bound: pages this client asks for, and messages
          MaxConns,    \* bound: connections of the client
          MaxQueue,    \* bound: packets on their way in one direction
          MaxLost,     \* bound: kinds of thing lost
          None

ASSUME ChatClientAssumption ==
  /\ None \notin Convs
  /\ PageSize \in Nat \ {0}
  /\ {MaxMessages, MaxSends, MaxOffset, MaxRequests, MaxQueue, MaxLost} \subseteq Nat
  /\ Old \in 0..MaxMessages
  /\ MaxConns \in Nat \ {0}

VARIABLES log,      \* message: its conversation, and the token of one of ours
          out,      \* messages of others still to be broadcast to us
          conn,     \* number of the current or last connection
          online,   \* the connection is open
          up,       \* requests on their way to the server
          down,     \* events on their way to the client
          hand,     \* what each connection's read loop has in hand: a request
                    \* for a page that is counted, or a reply
          skipped,  \* history: messages a page left out (see ReadPage)
          win,      \* openWindows
          pending,  \* pendingHistoryRef
          timers,   \* pendingSendTimeoutsRef: tokens whose timer is running
          sends,    \* nextClientMsgIdRef
          asks,     \* pages asked for so far, for MaxRequests only
          lost      \* history: what has been lost so far

server == <<log, out, hand, skipped>>
link   == <<conn, online, up, down>>
client == <<win, pending, timers, sends, asks>>
vars   == <<server, link, client, lost>>

Ids == 1..MaxMessages
Tokens == 1..MaxSends
Loops == 1..MaxConns

Stored == [conv: Convs, token: Tokens \cup {0}]
Entry  == [id: Ids \cup {0}, token: Tokens \cup {0}, failed: BOOLEAN]
Window == [open: BOOLEAN, entries: SUBSET Entry, offset: Nat, loading: BOOLEAN,
           paged: SUBSET Ids,  \* history: the messages its pages brought
           over: BOOLEAN]      \* history: opened over a page still to come
Kinds  == {"history", "send", "page", "ack", "error", "message", "none"}
Packet == [kind: Kinds, conv: Convs \cup {None}, id: Ids \cup {0},
           token: Tokens \cup {0}, offset: Nat, limit: Int, ids: SUBSET Ids]

TypeOK ==
  /\ log \in Seq(Stored) /\ Len(log) <= MaxMessages
  /\ out \subseteq Ids
  /\ conn \in Loops
  /\ online \in BOOLEAN
  /\ up \in Seq(Packet)
  /\ down \in Seq(Packet)
  /\ hand \in [Loops -> Packet]
  /\ skipped \subseteq Ids
  /\ win \in [Convs -> Window]
  /\ pending \in Seq(Convs)
  /\ timers \subseteq Tokens
  /\ sends \in Nat
  /\ asks \in Nat
  /\ lost \subseteq {"history", "live", "send"}

Nothing == [kind |-> "none", conv |-> None, id |-> 0, token |-> 0, offset |-> 0, limit |-> 0,
            ids |-> {}]
Closed  == [open |-> FALSE, entries |-> {}, offset |-> 0, loading |-> FALSE,
            paged |-> {}, over |-> FALSE]

Init ==
  /\ log \in [1..Old -> [conv: Convs, token: {0}]]
  /\ out = {}
  /\ conn = 1
  /\ online = TRUE
  /\ up = <<>>
  /\ down = <<>>
  /\ hand = [k \in Loops |-> Nothing]
  /\ skipped = {}
  /\ win = [c \in Convs |-> Closed]
  /\ pending = <<>>
  /\ timers = {}
  /\ sends = 0
  /\ asks = 0
  /\ lost = {}

Shown(i) == [id |-> i, token |-> 0, failed |-> FALSE]
Echo(t)  == [id |-> 0, token |-> t, failed |-> FALSE]

(* Packets of these kinds do not arrive. *)
Lose(kinds) ==
  /\ lost' = lost \cup {IF k \in {"history", "page"} THEN "history"
                        ELSE IF k = "message" THEN "live" ELSE "send" : k \in kinds}
  /\ Cardinality(lost') <= MaxLost

(* WebSocketContext's send, which drops what it is given unless the socket *)
(* is open.                                                                *)
Send(packet) ==
  IF online
  THEN Len(up) < MaxQueue /\ up' = Append(up, packet) /\ UNCHANGED lost
  ELSE Lose({packet.kind}) /\ UNCHANGED up

AskHistory(c, offset) ==
  /\ asks + sends < MaxRequests
  /\ asks' = asks + 1
  /\ pending' = Append(pending, c)
  /\ Send([Nothing EXCEPT !.kind = "history", !.conv = c, !.offset = offset,
                          !.limit = PageSize])

Arrives(kind) == down # <<>> /\ Head(down).kind = kind
Consume == down' = Tail(down) /\ UNCHANGED <<server, conn, online, up, sends, asks, lost>>

(* markSendFailed: the echo of t, in whichever window it is. *)
Failed(t) ==
  [c \in Convs |->
     [win[c] EXCEPT !.entries =
        {IF e.token = t THEN [e EXCEPT !.failed = TRUE] ELSE e : e \in @}]]

-----------------------------------------------------------------------------
(* Faulty variants of definitions below, each with a plausible bug.  Next  *)
(* has none of them: they are what the properties must tell from the code. *)

(* The timer is started only if the socket is open. *)
SendMessageUntimed(c) ==
  /\ win[c].open
  /\ sends < MaxSends
  /\ asks + sends < MaxRequests
  /\ sends' = sends + 1
  /\ win' = [win EXCEPT ![c].entries = @ \cup {Echo(sends')}]
  /\ Send([Nothing EXCEPT !.kind = "send", !.conv = c, !.token = sends'])
  /\ timers' = IF online THEN timers \cup {sends'} ELSE timers
  /\ UNCHANGED <<server, conn, online, down, pending, asks>>

(* The page of a window that was closed leaves its request in the queue. *)
OnPageUnshifted ==
  /\ Arrives("page")
  /\ IF pending = <<>> \/ ~win[Head(pending)].open
     THEN UNCHANGED <<pending, win>>
     ELSE LET c == Head(pending) IN
            /\ pending' = Tail(pending)
            /\ win' = [win EXCEPT
                         ![c].entries = @ \cup {Shown(i) : i \in Head(down).ids},
                         ![c].loading = FALSE]
  /\ Consume
  /\ UNCHANGED timers

(* An ack settles the oldest echo of its window. *)
OnAckOldest ==
  /\ Arrives("ack")
  /\ LET p == Head(down)
         echoes == {e \in win[p.conv].entries : e.id = 0}
         Oldest(e) == e \in echoes /\ \A d \in echoes : e.token <= d.token
     IN  /\ timers' = timers \ {p.token}
         /\ win' = [win EXCEPT ![p.conv].entries =
                      {IF Oldest(e) THEN [e EXCEPT !.id = p.id, !.failed = FALSE]
                       ELSE e : e \in @}]
  /\ Consume
  /\ UNCHANGED pending

(* Pages are counted from the oldest message. *)
PageFromOldest(c, offset, limit) ==
  LET Of == {i \in 1..Len(log) : log[i].conv = c} IN
    {i \in Of : LET n == Cardinality({j \in Of : j < i}) IN
                  n >= offset /\ (limit < 0 \/ n < offset + limit)}

-----------------------------------------------------------------------------
(* What the user does. *)

(* revealWindow *)
Open(c) ==
  /\ ~win[c].open
  /\ win' = [win EXCEPT ![c] = [Closed EXCEPT !.open = TRUE, !.loading = TRUE,
                                   !.over = \E n \in DOMAIN pending : pending[n] = c]]
  /\ AskHistory(c, 0)
  /\ UNCHANGED <<server, conn, online, down, timers, sends>>

(* closeChat *)
Close(c) ==
  /\ win[c].open
  /\ win' = [win EXCEPT ![c] = Closed]
  /\ UNCHANGED <<server, link, pending, timers, sends, asks, lost>>

(* loadMoreHistory *)
LoadMore(c) ==
  /\ win[c].open
  /\ ~win[c].loading
  /\ win[c].offset + PageSize <= MaxOffset
  /\ win' = [win EXCEPT ![c].offset = @ + PageSize, ![c].loading = TRUE]
  /\ AskHistory(c, win[c].offset + PageSize)
  /\ UNCHANGED <<server, conn, online, down, timers, sends>>

(* sendMessage: the echo, the request and the timer. *)
SendMessage(c) ==
  /\ win[c].open
  /\ sends < MaxSends
  /\ asks + sends < MaxRequests
  /\ sends' = sends + 1
  /\ win' = [win EXCEPT ![c].entries = @ \cup {Echo(sends')}]
  /\ Send([Nothing EXCEPT !.kind = "send", !.conv = c, !.token = sends'])
  /\ timers' = timers \cup {sends'}
  /\ UNCHANGED <<server, conn, online, down, pending, asks>>

-----------------------------------------------------------------------------
(* The client's handlers of what the server sends. *)

(* SEND_ACK_TIMEOUT_MS went by with neither an ack nor an error. *)
Timeout(t) ==
  /\ t \in timers
  /\ timers' = timers \ {t}
  /\ win' = Failed(t)
  /\ UNCHANGED <<server, link, pending, sends, asks, lost>>

(* sent-message, of another user *)
OnMessage ==
  /\ Arrives("message")
  /\ LET i == Head(down).id
         c == log[i].conv
     IN  win' = [win EXCEPT ![c].entries =
                   IF win[c].open THEN @ \cup {Shown(i)} ELSE @]
  /\ Consume
  /\ UNCHANGED <<pending, timers>>

(* chat_history *)
OnPage ==
  /\ Arrives("page")
  /\ IF pending = <<>>
     THEN UNCHANGED <<pending, win>>
     ELSE LET c == Head(pending) IN
            /\ pending' = Tail(pending)
            /\ win' = IF win[c].open
                      THEN [win EXCEPT
                              ![c].entries = @ \cup {Shown(i) : i \in Head(down).ids},
                              ![c].loading = FALSE,
                              ![c].paged = @ \cup Head(down).ids]
                      ELSE win
  /\ Consume
  /\ UNCHANGED timers

(* message-ack *)
OnAck ==
  /\ Arrives("ack")
  /\ LET p == Head(down) IN
       /\ timers' = timers \ {p.token}
       /\ win' = [win EXCEPT ![p.conv].entries =
                    {IF e.token = p.token THEN [e EXCEPT !.id = p.id, !.failed = FALSE]
                     ELSE e : e \in @}]
  /\ Consume
  /\ UNCHANGED pending

(* chat-error about a message sent *)
OnError ==
  /\ Arrives("error")
  /\ timers' = timers \ {Head(down).token}
  /\ win' = Failed(Head(down).token)
  /\ Consume
  /\ UNCHANGED pending

-----------------------------------------------------------------------------
(* The server. *)

(* The limit messages of conversation c that come after its offset newest  *)
(* ones, or all of them: a negative LIMIT is none.                         *)
Page(c, offset, limit) ==
  LET Of == {i \in 1..Len(log) : log[i].conv = c} IN
    {i \in Of : LET n == Cardinality({j \in Of : j > i}) IN
                  n >= offset /\ (limit < 0 \/ n < offset + limit)}

(* The read loop takes the next request.  routeEvent drops it when the     *)
(* client is over its rate; a message may be refused with a chat-error.    *)
Take(k) ==
  /\ online
  /\ k = conn
  /\ hand[k] = Nothing
  /\ up # <<>>
  /\ up' = Tail(up)
  /\ UNCHANGED <<out, conn, online, down, client>>

DropRequest(k) ==
  /\ "request" \in Losses
  /\ Take(k)
  /\ Lose({Head(up).kind})
  /\ UNCHANGED <<log, hand, skipped>>

(* getChatHistory counts the messages and asks for no more than there are, *)
Limited(p) ==
  LET count == Cardinality({i \in 1..Len(log) : log[i].conv = p.conv}) IN
    [p EXCEPT !.limit = IF p.offset + @ > count THEN count - p.offset ELSE @]

Count(k) ==
  /\ Take(k)
  /\ Head(up).kind = "history"
  /\ hand' = [hand EXCEPT ![k] = Limited(Head(up))]
  /\ UNCHANGED <<log, skipped, lost>>

(* and reads them in another statement.  The messages stored in between    *)
(* come first, so a limit that was cut leaves as many out at the end.      *)
ReadPage(k) ==
  /\ hand[k].kind = "history"
  /\ LET p == hand[k]
         ids == Page(p.conv, p.offset, p.limit)
     IN  /\ hand' = [hand EXCEPT ![k] = [Nothing EXCEPT !.kind = "page", !.ids = ids]]
         /\ skipped' = skipped \cup (Page(p.conv, p.offset, PageSize) \ ids)
  /\ UNCHANGED <<log, out, link, client, lost>>

(* sendMessage: stored, broadcast to the others, and then acknowledged. *)
Store(k) ==
  /\ Take(k)
  /\ Head(up).kind = "send"
  /\ Len(log) < MaxMessages
  /\ log' = Append(log, [conv |-> Head(up).conv, token |-> Head(up).token])
  /\ hand' = [hand EXCEPT ![k] = [Head(up) EXCEPT !.kind = "ack", !.id = Len(log) + 1]]
  /\ UNCHANGED <<skipped, lost>>

(* sendChatError *)
Refuse(k) ==
  /\ Take(k)
  /\ Head(up).kind = "send"
  /\ hand' = [hand EXCEPT ![k] = [Head(up) EXCEPT !.kind = "error"]]
  /\ UNCHANGED <<log, skipped, lost>>

(* send: the write loop of the client's connection, which need not be the  *)
(* one the request came in on, takes the event; or it times out.           *)
Deliver(packet) ==
  \/ /\ online
     /\ Len(down) < MaxQueue
     /\ down' = Append(down, packet)
     /\ UNCHANGED lost
  \/ /\ online => "reply" \in Losses
     /\ Lose({packet.kind})
     /\ UNCHANGED down

Reply(k) ==
  /\ hand[k].kind \notin {"history", "none"}
  /\ hand' = [hand EXCEPT ![k] = Nothing]
  /\ Deliver(hand[k])
  /\ UNCHANGED <<log, out, skipped, conn, online, up, client>>

(* Another member's message is stored, and later broadcast. *)
OtherSends(c) ==
  /\ Len(log) < MaxMessages
  /\ log' = Append(log, [conv |-> c, token |-> 0])
  /\ out' = out \cup {Len(log) + 1}
  /\ UNCHANGED <<hand, skipped, link, client, lost>>

Broadcast(i) ==
  /\ i \in out
  /\ out' = out \ {i}
  /\ Deliver([Nothing EXCEPT !.kind = "message", !.id = i])
  /\ UNCHANGED <<log, hand, skipped, conn, online, up, client>>

(* The connection drops, with what is on its way; the client reconnects.   *)
(* The windows and what they wait for stay as they are.                    *)
Disconnect ==
  /\ "connection" \in Losses
  /\ online
  /\ online' = FALSE
  /\ up' = <<>>
  /\ down' = <<>>
  /\ Lose({up[n].kind : n \in DOMAIN up} \cup {down[n].kind : n \in DOMAIN down})
  /\ UNCHANGED <<server, conn, client>>

Reconnect ==
  /\ ~online
  /\ conn < MaxConns
  /\ conn' = conn + 1
  /\ online' = TRUE
  /\ UNCHANGED <<server, up, down, client, lost>>

-----------------------------------------------------------------------------
User == \E c \in Convs : Open(c) \/ Close(c) \/ LoadMore(c) \/ SendMessage(c)

Client ==
  \/ \E t \in Tokens : Timeout(t)
  \/ OnMessage
  \/ OnPage
  \/ OnAck
  \/ OnError

Server ==
  \/ \E k \in Loops : DropRequest(k) \/ Count(k) \/ ReadPage(k) \/ Store(k) \/ Refuse(k) \/ Reply(k)
  \/ \E c \in Convs : OtherSends(c)
  \/ \E i \in Ids : Broadcast(i)

Next == User \/ Client \/ Server \/ Disconnect \/ Reconnect

Spec == Init /\ [][Next]_vars
-----------------------------------------------------------------------------
(* Safety. *)

Entries(c) == win[c].entries
Confirmed(c) == {e.id : e \in Entries(c)} \ {0}

(* ChatContext.tsx:155-159: "Requests are sent and answered in order over  *)
(* a single connection, so a queue is a safe enough correlation            *)
(* mechanism": a window shows messages of its own conversation only.       *)
HistoryBelongs == \A c \in Convs, i \in Ids : i \in Confirmed(c) => log[i].conv = c

(* It is safe as long as no request for a page and no page is lost and the *)
(* connection is the first, even with windows closed and opened again over *)
(* pages still to come.                                                    *)
AnsweredBelongs == conn = 1 /\ "history" \notin lost => HistoryBelongs

(* ChatContext.tsx:465-470, types/index.ts: an ack settles the echo of the *)
(* message it acknowledges, for good, whatever else of this client's was   *)
(* lost, refused or has timed out: failed is "never set on a message with  *)
(* a real (id > 0) id".                                                    *)
AcksSettle ==
  \A c \in Convs : \A e \in Entries(c) :
    e.id # 0 =>
      /\ ~e.failed
      /\ e.token # 0 => log[e.id] = [conv |-> c, token |-> e.token]

(* Nothing is on its way to the client. *)
Settled ==
  /\ up = <<>>
  /\ down = <<>>
  /\ pending = <<>>
  /\ out = {}
  /\ \A k \in Loops : hand[k] = Nothing

(* Pages are counted back from the newest message, which moves: all the    *)
(* same, from the oldest message its pages brought to the newest an open   *)
(* window has no gap, if nothing for it was lost, the connection is the    *)
(* first and the window was not opened over a page for it before, but for  *)
(* the messages skipped by pages whose limit was cut before more were      *)
(* stored: those do leave a gap.  A live message that comes late may stand *)
(* alone below the pages.                                                  *)
NoGaps ==
  Settled /\ conn = 1 /\ lost = {} =>
    \A c \in Convs, i \in 1..Len(log) :
      /\ win[c].open /\ ~win[c].over
      /\ log[i].conv = c
      /\ win[c].paged = {} \/ \E j \in win[c].paged : j < i
      => \/ i \in Confirmed(c) \cup skipped
         \/ \E e \in Entries(c) : e.token # 0 /\ e.token = log[i].token

(* ChatContext.tsx:633-638: no message looks sent for ever: while nothing  *)
(* was heard of it, and its window is open, its timer is running.          *)
EchoesAreTimed ==
  \A c \in Convs, t \in Tokens : Echo(t) \in Entries(c) => t \in timers
=============================================================================
