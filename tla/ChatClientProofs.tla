-------------------------- MODULE ChatClientProofs --------------------------
(***************************************************************************)
(* Theorems about the chat windows of a web client, for any number of      *)
(* windows, messages, requests and connections.                            *)
(***************************************************************************)
EXTENDS ChatClient, SequenceTheorems, FiniteSetTheorems, WellFoundedInduction, TLAPS

-----------------------------------------------------------------------------
(* Queues of packets.                                                      *)

Items(s) == {s[n] : n \in DOMAIN s}

LEMMA ItemsOfAppend ==
  ASSUME NEW S, NEW s \in Seq(S), NEW e \in S
  PROVE  Items(Append(s, e)) = Items(s) \cup {e}
<1> DEFINE t == Append(s, e)
<1>1. t \in Seq(S) /\ Len(t) = Len(s) + 1 /\ t[Len(s) + 1] = e /\ \A i \in 1 .. Len(s) : t[i] = s[i]
  BY AppendProperties
<1>2. DOMAIN s = 1 .. Len(s) /\ DOMAIN t = 1 .. Len(t) /\ Len(s) \in Nat
  BY <1>1, LenProperties
<1> HIDE DEF t
<1>3. Items(t) = Items(s) \cup {e}
  BY <1>1, <1>2 DEF Items
<1> QED
  BY <1>3 DEF t

LEMMA ItemsOfTail ==
  ASSUME NEW S, NEW s \in Seq(S), s # <<>>
  PROVE  Items(s) = Items(Tail(s)) \cup {Head(s)}
<1> DEFINE t == Tail(s)
<1>1. /\ t \in Seq(S) /\ Len(t) = Len(s) - 1 /\ \A i \in 1 .. Len(t) : t[i] = s[i + 1]
      /\ Len(s) \in Nat \ {0}
  BY HeadTailProperties, EmptySeq
<1>2. DOMAIN s = 1 .. Len(s) /\ DOMAIN t = 1 .. Len(t)
  BY <1>1, LenProperties
<1>3. Head(s) = s[1]
  OBVIOUS
<1> HIDE DEF t
<1>4. \A n \in 1 .. Len(s) : n = 1 \/ (n - 1 \in 1 .. Len(t) /\ t[n - 1] = s[n])
  BY <1>1
<1>5. \A n \in 1 .. Len(t) : n + 1 \in 1 .. Len(s) /\ t[n] = s[n + 1]
  BY <1>1
<1>6. Items(s) \subseteq Items(t) \cup {s[1]}
  BY <1>2, <1>4 DEF Items
<1>7. Items(t) \cup {s[1]} \subseteq Items(s)
  BY <1>1, <1>2, <1>5 DEF Items
<1> QED
  BY <1>3, <1>6, <1>7 DEF t

LEMMA ItemsTyped ==
  ASSUME NEW S, NEW s \in Seq(S)
  PROVE  Items(s) \subseteq S
BY LenProperties, ElementOfSeq DEF Items

-----------------------------------------------------------------------------
(* Types.                                                                  *)

(* Every request on its way names a conversation. *)
(* What a request is, before and after the messages are counted for it.    *)
Asked ==
  /\ \A p \in Items(up) : /\ p.kind \in {"history", "send"} /\ p.conv \in Convs
                          /\ p.kind = "history" => p.limit = PageSize
  /\ \A k \in Loops : hand[k].kind = "history" => hand[k].conv \in Convs
TypeInv == TypeOK /\ Asked

Losable == {"history", "live", "send"}

LEMMA LosingTyped ==
  ASSUME TypeOK, NEW kinds, Lose(kinds)
  PROVE  lost \subseteq lost' /\ lost' \subseteq Losable
BY DEF TypeOK, Lose, Losable

LEMMA SendingTyped ==
  ASSUME TypeOK, NEW p \in Packet, Send(p)
  PROVE  up' \in Seq(Packet) /\ lost' \subseteq Losable
<1>1. up \in Seq(Packet) /\ lost \subseteq Losable
  BY DEF TypeOK, Losable
<1>2. Append(up, p) \in Seq(Packet)
  BY <1>1, AppendProperties
<1> QED
  BY <1>1, <1>2, LosingTyped DEF Send

LEMMA DeliveryTyped ==
  ASSUME TypeOK, NEW p \in Packet, Deliver(p)
  PROVE  down' \in Seq(Packet) /\ lost' \subseteq Losable
<1>1. down \in Seq(Packet) /\ lost \subseteq Losable
  BY DEF TypeOK, Losable
<1>2. Append(down, p) \in Seq(Packet)
  BY <1>1, AppendProperties
<1> QED
  BY <1>1, <1>2, LosingTyped DEF Deliver

LEMMA PacketsTyped ==
  /\ Nothing \in Packet
  /\ \A c \in Convs, n \in Nat, m \in Nat :
       [Nothing EXCEPT !.kind = "history", !.conv = c, !.offset = n, !.limit = m] \in Packet
  /\ \A c \in Convs, t \in Tokens : [Nothing EXCEPT !.kind = "send", !.conv = c, !.token = t] \in Packet
  /\ \A s \in SUBSET Ids : [Nothing EXCEPT !.kind = "page", !.ids = s] \in Packet
  /\ \A i \in Ids : [Nothing EXCEPT !.kind = "message", !.id = i] \in Packet
  /\ \A p \in Packet : [p EXCEPT !.kind = "error"] \in Packet
  /\ \A p \in Packet, i \in Ids : [p EXCEPT !.kind = "ack", !.id = i] \in Packet
<1>1. Nothing \in Packet
  BY DEF Nothing, Packet, Kinds
<1>2. ASSUME NEW p \in Packet, NEW c \in Convs, NEW n \in Nat, NEW m \in Nat
      PROVE  [p EXCEPT !.kind = "history", !.conv = c, !.offset = n, !.limit = m] \in Packet
  <2> DEFINE q == [p EXCEPT !.kind = "history", !.conv = c, !.offset = n]
  <2>1. q \in Packet
    BY DEF Packet, Kinds
  <2>2. [p EXCEPT !.kind = "history", !.conv = c, !.offset = n, !.limit = m] = [q EXCEPT !.limit = m]
    OBVIOUS
  <2> HIDE DEF q
  <2>3. m \in Int
    OBVIOUS
  <2>4. [q EXCEPT !.limit = m] \in Packet
    BY <2>1, <2>3 DEF Packet
  <2> QED  BY <2>2, <2>4
<1>3. ASSUME NEW p \in Packet, NEW c \in Convs, NEW t \in Tokens
      PROVE  [p EXCEPT !.kind = "send", !.conv = c, !.token = t] \in Packet
  BY DEF Packet, Kinds
<1>4. ASSUME NEW p \in Packet, NEW s \in SUBSET Ids
      PROVE  [p EXCEPT !.kind = "page", !.ids = s] \in Packet
  BY DEF Packet, Kinds
<1>5. ASSUME NEW p \in Packet, NEW i \in Ids
      PROVE  [p EXCEPT !.kind = "message", !.id = i] \in Packet
  BY DEF Packet, Kinds
<1>6. ASSUME NEW p \in Packet PROVE [p EXCEPT !.kind = "error"] \in Packet
  BY DEF Packet, Kinds
<1>7. ASSUME NEW p \in Packet, NEW i \in Ids PROVE [p EXCEPT !.kind = "ack", !.id = i] \in Packet
  BY DEF Packet, Kinds
<1> QED
  BY <1>1, <1>2, <1>3, <1>4, <1>5, <1>6, <1>7

LEMMA EntriesTyped ==
  /\ \A i \in Ids \cup {0} : Shown(i) \in Entry
  /\ \A t \in Tokens : Echo(t) \in Entry
  /\ Closed \in Window
BY DEF Shown, Echo, Entry, Closed, Window

(* The messages stored before are of others. *)
LEMMA OldMessages ==
  ASSUME Init
  PROVE  /\ log \in Seq(Stored) /\ Len(log) <= MaxMessages
         /\ \A i \in 1 .. Len(log) : log[i].token = 0
<1>1. log \in [1 .. Old -> [conv : Convs, token : {0}]] /\ Old \in Nat /\ Old <= MaxMessages
  BY ChatClientAssumption DEF Init
<1>2. \A i \in 1 .. Old : log[i] \in Stored /\ log[i].token = 0
  BY <1>1 DEF Stored
<1>3. log \in [1 .. Old -> Stored]
  BY <1>1, <1>2
<1>4. log \in Seq(Stored) /\ Len(log) = Old
  BY <1>1, <1>3, IsASeq, LenProperties
<1> QED
  BY <1>1, <1>2, <1>4

LEMMA InitTyped == Init => TypeOK
<1> SUFFICES ASSUME Init PROVE TypeOK
    OBVIOUS
<1>1. <<>> \in Seq(Stored) /\ <<>> \in Seq(Packet) /\ <<>> \in Seq(Convs) /\ Len(<<>>) = 0
  BY EmptySeq
<1>2. MaxMessages \in Nat /\ 1 \in Loops
  BY ChatClientAssumption DEF Loops
<1>3. conn \in Loops /\ win \in [Convs -> Window] /\ hand \in [Loops -> Packet]
  BY <1>2, PacketsTyped, EntriesTyped DEF Init
<1>4. up \in Seq(Packet) /\ down \in Seq(Packet) /\ pending \in Seq(Convs)
  BY <1>1 DEF Init
<1>5. log \in Seq(Stored) /\ Len(log) <= MaxMessages
  BY OldMessages
<1> QED
  BY <1>3, <1>4, <1>5 DEF Init, TypeOK

LEMMA UserTyped == ASSUME TypeOK, User PROVE TypeOK'
<1>1. PageSize \in Nat
  BY ChatClientAssumption
<1>2. ASSUME NEW c \in Convs, NEW n \in Nat, AskHistory(c, n)
      PROVE  /\ up' \in Seq(Packet) /\ lost' \subseteq Losable
             /\ pending' \in Seq(Convs) /\ asks' \in Nat
  <2>1. pending' \in Seq(Convs) /\ asks' \in Nat
    BY <1>2, AppendProperties DEF AskHistory, TypeOK
  <2> QED  BY <1>1, <1>2, <2>1, SendingTyped, PacketsTyped DEF AskHistory
<1>3. ASSUME NEW c \in Convs, Open(c) PROVE TypeOK'
  <2>1. \A b \in BOOLEAN : [Closed EXCEPT !.open = TRUE, !.loading = TRUE, !.over = b] \in Window
    BY DEF Closed, Window
  <2> QED  BY <1>2, <1>3, <2>1 DEF Open, TypeOK, server, Losable
<1>4. ASSUME NEW c \in Convs, Close(c) PROVE TypeOK'
  BY <1>4, EntriesTyped DEF Close, TypeOK, server, link
<1>5. ASSUME NEW c \in Convs, LoadMore(c) PROVE TypeOK'
  <2>1. win[c].offset + PageSize \in Nat
    BY <1>1 DEF TypeOK, Window
  <2>2. win' \in [Convs -> Window]
    BY <1>5, <2>1 DEF LoadMore, TypeOK, Window
  <2> QED  BY <1>2, <1>5, <2>1, <2>2 DEF LoadMore, TypeOK, server, Losable
<1>6. ASSUME NEW c \in Convs, SendMessage(c) PROVE TypeOK'
  <2>1. sends' = sends + 1 /\ sends' \in Nat /\ sends' \in Tokens
    BY <1>6, ChatClientAssumption DEF SendMessage, TypeOK, Tokens
  <2>2. win' \in [Convs -> Window]
    BY <1>6, <2>1, EntriesTyped DEF SendMessage, TypeOK, Window
  <2>3. up' \in Seq(Packet) /\ lost' \subseteq Losable
    BY <1>6, <2>1, SendingTyped, PacketsTyped DEF SendMessage
  <2> QED  BY <1>6, <2>1, <2>2, <2>3 DEF SendMessage, TypeOK, server, Losable
<1> QED
  BY <1>3, <1>4, <1>5, <1>6 DEF User

LEMMA HeadTyped ==
  ASSUME TypeOK, NEW kind, Arrives(kind)
  PROVE  Head(down) \in Packet /\ Tail(down) \in Seq(Packet)
BY HeadTailProperties DEF Arrives, TypeOK

LEMMA FailedTyped == ASSUME TypeOK, NEW t PROVE Failed(t) \in [Convs -> Window]
<1>1. \A e \in Entry : [e EXCEPT !.failed = TRUE] \in Entry
  BY DEF Entry
<1>2. \A c \in Convs : {IF e.token = t THEN [e EXCEPT !.failed = TRUE] ELSE e : e \in win[c].entries} \in SUBSET Entry
  BY <1>1 DEF TypeOK, Window
<1> QED
  BY <1>2 DEF Failed, TypeOK, Window

LEMMA ClientTyped == ASSUME TypeOK, Client PROVE TypeOK'
<1>1. ASSUME Consume, win' \in [Convs -> Window], pending' \in Seq(Convs), timers' \subseteq timers,
             NEW kind, Arrives(kind)
      PROVE  TypeOK'
  BY <1>1, HeadTyped DEF Consume, TypeOK, server
<1>2. ASSUME NEW t \in Tokens, Timeout(t) PROVE TypeOK'
  BY <1>2, FailedTyped DEF Timeout, TypeOK, server, link
<1>3. CASE OnMessage
  <2>1. Shown(Head(down).id) \in Entry
    BY <1>3, HeadTyped, EntriesTyped DEF OnMessage, Packet
  <2>2. win' \in [Convs -> Window]
    <3> DEFINE s == {Shown(Head(down).id)}
    <3>1. PICK c : win' = [win EXCEPT ![c].entries = IF win[c].open THEN @ \cup s ELSE @]
      BY <1>3 DEF OnMessage
    <3>2. \A d \in Convs : win[d] \in Window /\ [win[d] EXCEPT !.entries = @ \cup s] \in Window
                         /\ [win[d] EXCEPT !.entries = @] = win[d]
      BY <2>1 DEF TypeOK, Window
    <3> HIDE DEF s
    <3>3. \A d \in Convs : win'[d] \in {win[d], [win[d] EXCEPT !.entries = @ \cup s], [win[d] EXCEPT !.entries = @]}
      BY <3>1 DEF TypeOK
    <3>4. win' = [d \in Convs |-> win'[d]]
      BY <3>1 DEF TypeOK
    <3> QED  BY <3>2, <3>3, <3>4
  <2> QED  BY <1>1, <1>3, <2>2 DEF OnMessage, TypeOK
<1>4. CASE OnPage
  <2>1. \A i \in Head(down).ids : Shown(i) \in Entry
    BY <1>4, HeadTyped, EntriesTyped DEF OnPage, Packet
  <2>2. win' \in [Convs -> Window]
    <3> DEFINE s == {Shown(i) : i \in Head(down).ids}
    <3>1. s \subseteq Entry /\ Head(down).ids \subseteq Ids
      BY <1>4, <2>1, HeadTyped DEF OnPage, Packet
    <3>2. PICK c : win' \in {win, [win EXCEPT ![c].entries = @ \cup s, ![c].loading = FALSE,
                                             ![c].paged = @ \cup Head(down).ids]}
      BY <1>4 DEF OnPage
    <3>3. ASSUME NEW d \in Convs
          PROVE  [win[d] EXCEPT !.entries = @ \cup s, !.loading = FALSE,
                                !.paged = @ \cup Head(down).ids] \in Window
      <4> HIDE DEF s
      <4> QED  BY <3>1 DEF TypeOK, Window
    <3> HIDE DEF s
    <3>4. CASE win' = win
      BY <3>4 DEF TypeOK
    <3>5. CASE win' # win
      <4>1. win' = [win EXCEPT ![c] = [win[c] EXCEPT !.entries = @ \cup s, !.loading = FALSE,
                                                    !.paged = @ \cup Head(down).ids]]
        BY <3>2, <3>5 DEF TypeOK
      <4> QED  BY <3>3, <4>1 DEF TypeOK
    <3> QED  BY <3>4, <3>5
  <2>3. pending' \in Seq(Convs)
    BY <1>4, HeadTailProperties DEF OnPage, TypeOK
  <2> QED  BY <1>1, <1>4, <2>2, <2>3 DEF OnPage
<1>5. CASE OnAck
  <2> DEFINE p == Head(down)
             old == win[p.conv].entries
             new == {IF e.token = p.token THEN [e EXCEPT !.id = p.id, !.failed = FALSE] ELSE e : e \in old}
  <2>1. p \in Packet
    BY <1>5, HeadTyped DEF OnAck
  <2>2. win' = [win EXCEPT ![p.conv].entries = new]
    BY <1>5 DEF OnAck
  <2>3. p.conv \in Convs => new \subseteq Entry
    <3>1. p.conv \in Convs => old \subseteq Entry
      BY DEF TypeOK, Window
    <3>2. \A e \in Entry : [e EXCEPT !.id = p.id, !.failed = FALSE] \in Entry
      BY <2>1 DEF Packet, Entry
    <3> QED  BY <3>1, <3>2
  <2> HIDE DEF p, new
  <2>4. win' \in [Convs -> Window]
    BY <2>2, <2>3 DEF TypeOK, Window
  <2> QED  BY <1>1, <1>5, <2>4 DEF OnAck, TypeOK
<1>6. CASE OnError
  BY <1>1, <1>6, FailedTyped DEF OnError, TypeOK
<1> QED
  BY <1>2, <1>3, <1>4, <1>5, <1>6 DEF Client

LEMMA TakingTyped ==
  ASSUME TypeOK, NEW k \in Loops, Take(k)
  PROVE  Head(up) \in Packet /\ up' \in Seq(Packet)
BY HeadTailProperties DEF Take, TypeOK

LEMMA StoringTyped ==
  ASSUME TypeOK, NEW m \in Stored, Len(log) < MaxMessages, log' = Append(log, m)
  PROVE  /\ log' \in Seq(Stored) /\ Len(log') <= MaxMessages
         /\ Len(log) + 1 \in Ids
         /\ Len(log') = Len(log) + 1 /\ log'[Len(log) + 1] = m
         /\ \A i \in 1 .. Len(log) : log'[i] = log[i]
<1>1. Len(log) \in Nat /\ MaxMessages \in Nat
  BY LenProperties, ChatClientAssumption DEF TypeOK
<1>2. log \in Seq(Stored)
  BY DEF TypeOK
<1> QED
  BY <1>1, <1>2, AppendProperties DEF Ids

LEMMA PagesTyped == ASSUME TypeOK PROVE \A c, o, n : Page(c, o, n) \subseteq Ids
<1>1. Len(log) \in Nat /\ Len(log) <= MaxMessages /\ MaxMessages \in Nat
  BY LenProperties, ChatClientAssumption DEF TypeOK
<1>2. \A c, o, n : Page(c, o, n) \subseteq 1 .. Len(log)
  BY DEF Page
<1> QED
  BY <1>1, <1>2 DEF Ids

LEMMA CardinalitiesAre ==
  ASSUME NEW s, NEW n \in Nat, s \subseteq 1 .. n
  PROVE  IsFiniteSet(s) /\ Cardinality(s) \in Nat
<1>1. IsFiniteSet(1 .. n) /\ s \in SUBSET (1 .. n)
  BY FS_Interval
<1>2. IsFiniteSet(s)
  BY <1>1, FS_Subset
<1> QED
  BY <1>2, FS_CardinalityType

(* A request for which the messages were counted is what it was but for    *)
(* its limit.                                                              *)
LEMMA LimitedIs ==
  ASSUME TypeOK, NEW p \in Packet
  PROVE  /\ Limited(p) \in Packet
         /\ Limited(p).kind = p.kind /\ Limited(p).conv = p.conv /\ Limited(p).offset = p.offset
         /\ [Limited(p) EXCEPT !.limit = p.limit] = p
<1> DEFINE n == Cardinality({i \in 1 .. Len(log) : log[i].conv = p.conv})
           m == IF p.offset + p.limit > n THEN n - p.offset ELSE p.limit
<1>1. Len(log) \in Nat
  BY LenProperties DEF TypeOK
<1>2. n \in Nat
  BY <1>1, CardinalitiesAre
<1>3. m \in Int
  BY <1>2 DEF Packet
<1>4. Limited(p) = [p EXCEPT !.limit = m]
  BY DEF Limited
<1> HIDE DEF m, n
<1> QED
  BY <1>3, <1>4 DEF Packet

LEMMA ServerTyped == ASSUME TypeOK, Asked, Server PROVE TypeOK'
<1>1. ASSUME NEW k \in Loops, DropRequest(k) PROVE TypeOK'
  <2>1. up' \in Seq(Packet) /\ lost' \subseteq Losable
    BY <1>1, TakingTyped, LosingTyped DEF DropRequest
  <2> QED  BY <1>1, <2>1 DEF DropRequest, Take, TypeOK, client, Losable
<1>2. ASSUME NEW k \in Loops, ReadPage(k) PROVE TypeOK'
  <2> DEFINE s == Page(hand[k].conv, hand[k].offset, hand[k].limit)
             x == [Nothing EXCEPT !.kind = "page", !.ids = s]
  <2>1. x \in Packet
    BY PagesTyped, PacketsTyped
  <2>2. hand' = [hand EXCEPT ![k] = x] /\ UNCHANGED <<log, out, link, client, lost>>
    BY <1>2 DEF ReadPage
  <2>3. skipped' \subseteq skipped \cup Page(hand[k].conv, hand[k].offset, PageSize)
    BY <1>2 DEF ReadPage
  <2>4. skipped' \subseteq Ids
    BY <2>3, PagesTyped DEF TypeOK
  <2> HIDE DEF x
  <2>5. hand' \in [Loops -> Packet]
    BY <2>1, <2>2 DEF TypeOK
  <2> QED  BY <2>2, <2>4, <2>5 DEF TypeOK, client, link
<1>c. ASSUME NEW k \in Loops, Count(k) PROVE TypeOK'
  <2>1. Take(k) /\ Head(up) \in Packet
    BY <1>c, TakingTyped DEF Count
  <2>2. hand' \in [Loops -> Packet]
    BY <1>c, <2>1, LimitedIs DEF Count, TypeOK
  <2> QED  BY <1>c, <2>1, <2>2, TakingTyped DEF Count, Take, TypeOK, client
<1>3. ASSUME NEW k \in Loops, Store(k) PROVE TypeOK'
  <2>1. Take(k) /\ Head(up) \in Packet /\ Len(log) < MaxMessages
    BY <1>3, TakingTyped DEF Store
  <2>2. Head(up) \in Items(up)
    BY <2>1, ItemsOfTail DEF Take, TypeOK
  <2>3. [conv |-> Head(up).conv, token |-> Head(up).token] \in Stored
    BY <2>1, <2>2 DEF Packet, Stored, Asked
  <2>4. log' \in Seq(Stored) /\ Len(log') <= MaxMessages /\ Len(log) + 1 \in Ids
    BY <1>3, <2>1, <2>3, StoringTyped DEF Store
  <2>5. [Head(up) EXCEPT !.kind = "ack", !.id = Len(log) + 1] \in Packet
    BY <2>1, <2>4, PacketsTyped
  <2>6. hand' \in [Loops -> Packet]
    BY <1>3, <2>5 DEF Store, TypeOK
  <2> QED  BY <1>3, <2>1, <2>4, <2>6, TakingTyped DEF Store, Take, TypeOK, client
<1>4. ASSUME NEW k \in Loops, Refuse(k) PROVE TypeOK'
  <2>1. hand' \in [Loops -> Packet]
    BY <1>4, TakingTyped, PacketsTyped DEF Refuse, TypeOK
  <2> QED  BY <1>4, <2>1, TakingTyped DEF Refuse, Take, TypeOK, client
<1>5. ASSUME NEW k \in Loops, Reply(k) PROVE TypeOK'
  <2>1. hand' \in [Loops -> Packet]
    BY <1>5, PacketsTyped DEF Reply, TypeOK
  <2>2. down' \in Seq(Packet) /\ lost' \subseteq Losable
    BY <1>5, DeliveryTyped DEF Reply, TypeOK
  <2> QED  BY <1>5, <2>1, <2>2 DEF Reply, TypeOK, client, Losable
<1>6. ASSUME NEW c \in Convs, OtherSends(c) PROVE TypeOK'
  <2>1. [conv |-> c, token |-> 0] \in Stored
    BY DEF Stored
  <2>2. log' \in Seq(Stored) /\ Len(log') <= MaxMessages /\ Len(log) + 1 \in Ids
    BY <1>6, <2>1, StoringTyped DEF OtherSends
  <2> QED  BY <1>6, <2>2 DEF OtherSends, TypeOK, client, link
<1>7. ASSUME NEW i \in Ids, Broadcast(i) PROVE TypeOK'
  <2>1. down' \in Seq(Packet) /\ lost' \subseteq Losable
    BY <1>7, DeliveryTyped, PacketsTyped DEF Broadcast
  <2> QED  BY <1>7, <2>1 DEF Broadcast, TypeOK, client, Losable
<1> QED
  BY <1>1, <1>2, <1>c, <1>3, <1>4, <1>5, <1>6, <1>7 DEF Server

LEMMA ItemsOfEmpty == Items(<<>>) = {}
BY DEF Items

LEMMA SendingAsks ==
  ASSUME TypeInv, NEW p \in Packet, Send(p)
  PROVE  Items(up') \subseteq Items(up) \cup {p}
<1>1. up \in Seq(Packet)
  BY DEF TypeInv, TypeOK
<1>2. Items(Append(up, p)) = Items(up) \cup {p}
  BY <1>1, ItemsOfAppend
<1>3. up' = up \/ up' = Append(up, p)
  BY DEF Send
<1> QED
  BY <1>2, <1>3

LEMMA TakingAsks ==
  ASSUME TypeInv, NEW k \in Loops, Take(k)
  PROVE  /\ Head(up) \in Items(up) /\ Items(up') \subseteq Items(up)
         /\ Head(up) \in Packet /\ Head(up).conv \in Convs
         /\ Head(up).kind = "history" => Head(up).limit = PageSize
<1>1. Head(up) \in Items(up) /\ Items(up') \subseteq Items(up)
  BY ItemsOfTail DEF TypeInv, TypeOK, Take
<1> QED
  BY <1>1, TakingTyped DEF TypeInv, Asked

(* The request a client makes for a page of c. *)
Request(c, n) == [Nothing EXCEPT !.kind = "history", !.conv = c, !.offset = n, !.limit = PageSize]

LEMMA RequestIs ==
  ASSUME NEW c \in Convs, NEW n \in Nat
  PROVE  /\ Request(c, n) \in Packet
         /\ Request(c, n).kind = "history" /\ Request(c, n).conv = c
         /\ Request(c, n).offset = n /\ Request(c, n).limit = PageSize
         /\ AskHistory(c, n) => Send(Request(c, n)) /\ pending' = Append(pending, c)
BY PacketsTyped, ChatClientAssumption DEF Nothing, Request, AskHistory

(* The page that is read for request p. *)
PageOf(p) == [Nothing EXCEPT !.kind = "page", !.ids = Page(p.conv, p.offset, p.limit)]

LEMMA PageOfIs ==
  \A p : PageOf(p).kind = "page" /\ PageOf(p).ids = Page(p.conv, p.offset, p.limit)
BY DEF Nothing, PageOf

(* What a step has in hand instead of what it had. *)
LEMMA HandIs ==
  ASSUME TypeInv, NEW k \in Loops, NEW x, hand' = [hand EXCEPT ![k] = x]
  PROVE  hand'[k] = x /\ \A j \in Loops : j # k => hand'[j] = hand[j]
BY DEF TypeInv, TypeOK

LEMMA StepAsks == ASSUME TypeInv, Next PROVE Asked'
<1> USE DEF TypeInv
<1>1. ASSUME NEW c \in Convs, NEW n \in Nat, AskHistory(c, n), hand' = hand PROVE Asked'
  BY <1>1, RequestIs, SendingAsks DEF Asked
<1>2. ASSUME NEW c \in Convs, SendMessage(c) PROVE Asked'
  <2> DEFINE p == [Nothing EXCEPT !.kind = "send", !.conv = c, !.token = sends']
  <2>1. sends' \in Tokens
    BY <1>2, ChatClientAssumption DEF SendMessage, TypeOK, Tokens
  <2>2. p \in Packet /\ p.kind = "send" /\ p.conv = c
    BY <2>1, PacketsTyped DEF Nothing
  <2>3. Send(p) /\ hand' = hand
    BY <1>2 DEF SendMessage, server
  <2> HIDE DEF p
  <2> QED  BY <2>2, <2>3, SendingAsks DEF Asked
<1>3. CASE User
  <2>1. ASSUME NEW c \in Convs, LoadMore(c) PROVE Asked'
    <3>1. win[c].offset + PageSize \in Nat
      BY ChatClientAssumption DEF TypeOK, Window
    <3> QED  BY <1>1, <2>1, <3>1 DEF LoadMore, server
  <2>2. ASSUME NEW c \in Convs, Close(c) PROVE Asked'
    BY <2>2 DEF Close, link, server, Asked
  <2> QED  BY <1>1, <1>2, <1>3, <2>1, <2>2 DEF User, Open, server
<1>4. CASE Client
  BY <1>4 DEF Client, Timeout, OnMessage, OnPage, OnAck, OnError, Consume, link, server, Asked
<1>5. CASE Server
  <2>1. ASSUME NEW k \in Loops, Take(k), NEW x, hand' = [hand EXCEPT ![k] = x],
               x.kind = "history" => x.conv \in Convs
        PROVE  Asked'
    <3>1. \A j \in Loops : hand'[j] = x \/ hand'[j] = hand[j]
      BY <2>1, HandIs
    <3>2. Items(up') \subseteq Items(up)
      BY <2>1, TakingAsks
    <3> QED  BY <2>1, <3>1, <3>2 DEF Asked
  <2>2. ASSUME NEW k \in Loops, DropRequest(k) PROVE Asked'
    BY <2>2, TakingAsks DEF DropRequest, Asked
  <2>3. ASSUME NEW k \in Loops, Count(k) PROVE Asked'
    BY <2>1, <2>3, TakingAsks, LimitedIs DEF Count
  <2>4. ASSUME NEW k \in Loops, Refuse(k) PROVE Asked'
    <3> DEFINE x == [Head(up) EXCEPT !.kind = "error"]
    <3>1. Take(k) /\ hand' = [hand EXCEPT ![k] = x] /\ x.kind = "error"
      BY <2>4, TakingAsks DEF Refuse, Packet
    <3> HIDE DEF x
    <3> QED  BY <2>1, <3>1
  <2>5. ASSUME NEW k \in Loops, Store(k) PROVE Asked'
    <3> DEFINE x == [Head(up) EXCEPT !.kind = "ack", !.id = Len(log) + 1]
    <3>1. Take(k) /\ hand' = [hand EXCEPT ![k] = x] /\ x.kind = "ack"
      BY <2>5, TakingAsks DEF Store, Packet
    <3> HIDE DEF x
    <3> QED  BY <2>1, <3>1
  <2>6. ASSUME NEW k \in Loops, ReadPage(k) \/ Reply(k) PROVE Asked'
    <3>1. PICK x : hand' = [hand EXCEPT ![k] = x] /\ x.kind # "history" /\ up' = up
      <4>1. CASE ReadPage(k)
        BY <4>1, PageOfIs DEF ReadPage, PageOf, link
      <4>2. CASE Reply(k)
        <5>1. hand' = [hand EXCEPT ![k] = Nothing] /\ up' = up /\ Nothing.kind = "none"
          BY <4>2 DEF Reply, Nothing
        <5> QED  BY <5>1
      <4> QED  BY <2>6, <4>1, <4>2
    <3> QED  BY <2>6, <3>1, HandIs DEF Asked
  <2> QED  BY <1>5, <2>2, <2>3, <2>4, <2>5, <2>6 DEF Server, OtherSends, Broadcast, link, Asked
<1>6. CASE Disconnect
  BY <1>6, ItemsOfEmpty DEF Disconnect, server, Asked
<1>7. CASE Reconnect
  BY <1>7 DEF Reconnect, server, Asked
<1> QED
  BY <1>3, <1>4, <1>5, <1>6, <1>7 DEF Next

LEMMA StepTyped == ASSUME TypeInv, [Next]_vars PROVE TypeInv'
<1> USE DEF TypeInv
<1>1. CASE User \/ Client \/ Server
  BY <1>1, UserTyped, ClientTyped, ServerTyped, StepAsks DEF Next
<1>2. CASE Disconnect
  <2>1. <<>> \in Seq(Packet)
    BY EmptySeq
  <2>2. lost' \subseteq Losable
    BY <1>2, LosingTyped DEF Disconnect
  <2>3. TypeOK'
    BY <1>2, <2>1, <2>2 DEF Disconnect, TypeOK, server, client, Losable
  <2> QED  BY <1>2, <2>3, StepAsks DEF Next
<1>3. CASE Reconnect
  <2>1. conn' \in Loops
    BY <1>3, ChatClientAssumption DEF Reconnect, TypeOK, Loops
  <2>2. TypeOK'
    BY <1>3, <2>1 DEF Reconnect, TypeOK, server, client
  <2> QED  BY <1>3, <2>2, StepAsks DEF Next
<1>4. CASE UNCHANGED vars
  BY <1>4 DEF vars, server, link, client, TypeOK, Asked
<1> QED
  BY <1>1, <1>2, <1>3, <1>4 DEF Next

LEMMA TypedAlways == Spec => []TypeInv
<1>1. Init => TypeInv
  BY InitTyped, ItemsOfEmpty DEF Init, TypeInv, Asked, Nothing
<1> QED
  BY <1>1, StepTyped, PTL DEF Spec

(* Every reachable state of the windows, the queues and the server's side  *)
(* is well-typed.                                                          *)
THEOREM TypeCorrect == Spec => []TypeOK
<1>1. TypeInv => TypeOK
  BY DEF TypeInv
<1> QED
  BY <1>1, TypedAlways, PTL
-----------------------------------------------------------------------------
(* Messages sent, and what comes back of them.                             *)

Answers == Items(down) \cup {hand[k] : k \in Loops}

(* No two packets of s carry one message. *)
Once(s) == \A m, n \in 1 .. Len(s) :
             s[m].kind = "send" /\ s[n].kind = "send" /\ s[m].token = s[n].token => m = n

(* A message of ours on its way is neither stored nor refused yet, *)
Underway(p) ==
  /\ p.token \in 1 .. sends
  /\ \A i \in 1 .. Len(log) : log[i].token # p.token
  /\ \A a \in Answers : a.kind = "error" => a.token # p.token

(* one that is refused is not stored, *)
Refused(a) ==
  /\ a.token \in 1 .. sends
  /\ \A i \in 1 .. Len(log) : log[i].token # a.token

(* and one that is acknowledged is stored as the ack says. *)
Acked(a) ==
  /\ a.token \in 1 .. sends
  /\ a.id \in 1 .. Len(log)
  /\ log[a.id] = [conv |-> a.conv, token |-> a.token]

WireInv ==
  /\ Once(up)
  /\ \A p \in Items(up) : p.kind = "send" => Underway(p)
  /\ \A a \in Answers : a.kind = "error" => Refused(a)
  /\ \A a \in Answers : a.kind = "ack" => Acked(a)
  /\ \A i \in 1 .. Len(log) : log[i].token <= sends

(* An entry of window c: one with an id is not marked as failed, and if it *)
(* is ours it is the message its ack told of; one of ours that waits has   *)
(* its timer; and nothing under way with its token is for another window.  *)
Fits(c, e) ==
  /\ e.id # 0 => ~e.failed
  /\ e.token # 0 =>
       /\ e.token <= sends
       /\ e.id # 0 => /\ e.id \in 1 .. Len(log)
                      /\ log[e.id] = [conv |-> c, token |-> e.token]
                      /\ e.token \notin timers
       /\ e.id = 0 /\ ~e.failed => e.token \in timers
       /\ \A p \in Items(up) : p.kind = "send" /\ p.token = e.token => p.conv = c
       /\ \A a \in Answers : a.kind = "ack" /\ a.token = e.token => a.conv = c

ShownInv == \A c \in Convs : \A e \in Entries(c) : Fits(c, e)

LEMMA OnceOfTail ==
  ASSUME NEW s \in Seq(Packet), s # <<>>, Once(s)
  PROVE  /\ Once(Tail(s))
         /\ \A p \in Items(Tail(s)) : Head(s).kind = "send" /\ p.kind = "send" => p.token # Head(s).token
<1> DEFINE t == Tail(s)
<1>1. /\ t \in Seq(Packet) /\ Len(t) = Len(s) - 1 /\ \A i \in 1 .. Len(t) : t[i] = s[i + 1]
      /\ Len(s) \in Nat \ {0}
  BY HeadTailProperties, EmptySeq
<1>2. DOMAIN t = 1 .. Len(t) /\ Head(s) = s[1]
  BY <1>1, LenProperties
<1> HIDE DEF t
<1>3. \A i \in 1 .. Len(t) : i + 1 \in 1 .. Len(s) /\ i + 1 # 1
  BY <1>1
<1>4. Once(t)
  BY <1>1, <1>3 DEF Once
<1>5. \A p \in Items(t) : Head(s).kind = "send" /\ p.kind = "send" => p.token # Head(s).token
  BY <1>1, <1>2, <1>3 DEF Once, Items
<1> QED
  BY <1>4, <1>5 DEF t

LEMMA OnceOfAppend ==
  ASSUME NEW s \in Seq(Packet), NEW e \in Packet, Once(s),
         e.kind = "send" => \A p \in Items(s) : p.kind = "send" => p.token # e.token
  PROVE  Once(Append(s, e))
<1> DEFINE t == Append(s, e)
<1>1. t \in Seq(Packet) /\ Len(t) = Len(s) + 1 /\ t[Len(s) + 1] = e /\ \A i \in 1 .. Len(s) : t[i] = s[i]
  BY AppendProperties
<1>2. DOMAIN s = 1 .. Len(s) /\ Len(s) \in Nat
  BY LenProperties
<1> HIDE DEF t
<1>3. \A i \in 1 .. Len(t) : i \in 1 .. Len(s) \/ i = Len(s) + 1
  BY <1>1, <1>2
<1>4. \A i \in 1 .. Len(s) : s[i] \in Items(s)
  BY <1>2 DEF Items
<1>5. Once(t)
  BY <1>1, <1>3, <1>4 DEF Once
<1> QED
  BY <1>5 DEF t

(* A step that adds nothing of ours to what is under way. *)
LEMMA WireKeeps ==
  ASSUME WireInv, UNCHANGED <<log, sends>>, Once(up'),
         \A p \in Items(up') : p.kind = "send" => p \in Items(up),
         \A a \in Answers' : a.kind \in {"ack", "error"} => a \in Answers
  PROVE  WireInv'
<1>1. \A p \in Items(up') : p.kind = "send" => Underway(p)'
  BY DEF WireInv, Underway
<1>2. \A a \in Answers' : (a.kind = "error" => Refused(a)') /\ (a.kind = "ack" => Acked(a)')
  BY DEF WireInv, Refused, Acked
<1> QED
  BY <1>1, <1>2 DEF WireInv, Once

LEMMA ShownKeeps ==
  ASSUME ShownInv, UNCHANGED <<log, sends, timers>>,
         \A p \in Items(up') : p.kind = "send" => p \in Items(up),
         \A a \in Answers' : a.kind \in {"ack", "error"} => a \in Answers,
         \A c \in Convs : \A e \in Entries(c)' : e \in Entries(c) \/ (e.token = 0 /\ ~e.failed)
  PROVE  ShownInv'
<1> SUFFICES ASSUME NEW c \in Convs, NEW e \in Entries(c)' PROVE Fits(c, e)'
    BY DEF ShownInv
<1>1. CASE e.token = 0 /\ ~e.failed
  BY <1>1 DEF Fits
<1>2. CASE e \in Entries(c)
  BY <1>2 DEF ShownInv, Fits
<1> QED
  BY <1>1, <1>2

(* A request for a page changes nothing of that, *)
LEMMA AskingKeeps ==
  ASSUME TypeInv, WireInv, NEW c \in Convs, NEW n \in Nat, AskHistory(c, n)
  PROVE  Once(up') /\ \A p \in Items(up') : p.kind = "send" => p \in Items(up)
<1> PICK p : p = Request(c, n)
    OBVIOUS
<1>1. p \in Packet /\ p.kind = "history" /\ Send(p)
  BY RequestIs
<1>2. up \in Seq(Packet)
  BY DEF TypeInv, TypeOK
<1>3. Once(Append(up, p))
  BY <1>1, <1>2, OnceOfAppend DEF WireInv
<1> QED
  BY <1>1, <1>3, SendingAsks DEF Send, WireInv

(* nor does the server's read loop when it takes a request, *)
LEMMA TakingKeeps ==
  ASSUME TypeInv, WireInv, NEW k \in Loops, Take(k)
  PROVE  Once(up') /\ Items(up') \subseteq Items(up)
BY TakingAsks, OnceOfTail DEF TypeInv, TypeOK, Take, WireInv

(* nor the client when it takes an event. *)
LEMMA ConsumingKeeps ==
  ASSUME TypeInv, NEW kind, Arrives(kind), Consume
  PROVE  /\ Head(down) \in Answers /\ Answers' \subseteq Answers
         /\ UNCHANGED <<log, hand, up, sends>>
<1>1. Items(down) = Items(down') \cup {Head(down)}
  BY ItemsOfTail DEF TypeInv, TypeOK, Arrives, Consume
<1> QED
  BY <1>1 DEF Answers, Consume, server

LEMMA DeliveringKeeps ==
  ASSUME TypeInv, NEW p \in Packet, Deliver(p)
  PROVE  Items(down') \subseteq Items(down) \cup {p}
<1>1. down \in Seq(Packet)
  BY DEF TypeInv, TypeOK
<1>2. Items(Append(down, p)) = Items(down) \cup {p}
  BY <1>1, ItemsOfAppend
<1>3. down' = down \/ down' = Append(down, p)
  BY DEF Deliver
<1> QED
  BY <1>2, <1>3

AckInv == WireInv /\ ShownInv

LEMMA InitAcks == Init => AckInv
<1> SUFFICES ASSUME Init PROVE AckInv
    OBVIOUS
<1>1. Items(up) = {} /\ Items(down) = {} /\ Len(up) = 0 /\ sends = 0
  BY ItemsOfEmpty, EmptySeq DEF Init
<1>2. \A a \in Answers : a.kind = "none"
  BY <1>1 DEF Init, Answers, Nothing
<1>3. \A c \in Convs : Entries(c) = {}
  BY DEF Init, Closed, Entries
<1> QED
  BY <1>1, <1>2, <1>3, OldMessages DEF AckInv, WireInv, ShownInv, Once

LEMMA UserAcks == ASSUME TypeInv, AckInv, User PROVE AckInv'
<1> USE DEF AckInv
<1>1. ASSUME NEW c \in Convs, NEW n \in Nat, AskHistory(c, n),
             UNCHANGED <<log, sends, timers, down, hand>>,
             \A d \in Convs : Entries(d)' \subseteq Entries(d)
      PROVE  AckInv'
  <2>1. Answers' = Answers
    BY <1>1 DEF Answers
  <2> QED  BY <1>1, <2>1, AskingKeeps, WireKeeps, ShownKeeps
<1>2. ASSUME NEW c \in Convs, Open(c) PROVE AckInv'
  <2>1. \A d \in Convs : Entries(d)' \subseteq Entries(d)
    BY <1>2 DEF Open, TypeInv, TypeOK, Window, Closed, Entries
  <2> QED  BY <1>1, <1>2, <2>1 DEF Open, server
<1>3. ASSUME NEW c \in Convs, LoadMore(c) PROVE AckInv'
  <2>1. \A d \in Convs : Entries(d)' \subseteq Entries(d)
    BY <1>3 DEF LoadMore, TypeInv, TypeOK, Window, Entries
  <2>2. win[c].offset + PageSize \in Nat
    BY ChatClientAssumption DEF TypeInv, TypeOK, Window
  <2> QED  BY <1>1, <1>3, <2>1, <2>2 DEF LoadMore, server
<1>4. ASSUME NEW c \in Convs, Close(c) PROVE AckInv'
  <2>1. \A d \in Convs : Entries(d)' \subseteq Entries(d)
    BY <1>4 DEF Close, TypeInv, TypeOK, Window, Closed, Entries
  <2>2. UNCHANGED <<log, sends, timers, up, down, hand>>
    BY <1>4 DEF Close, server, link
  <2>3. Answers' = Answers
    BY <2>2 DEF Answers
  <2> QED  BY <2>1, <2>2, <2>3, WireKeeps, ShownKeeps DEF WireInv
<1>5. ASSUME NEW c \in Convs, SendMessage(c) PROVE AckInv'
  <2> PICK t, p : t = sends + 1 /\ p = [Nothing EXCEPT !.kind = "send", !.conv = c, !.token = t]
    OBVIOUS
  <2>1. sends \in Nat /\ t \in Tokens /\ sends' = t
    BY <1>5, ChatClientAssumption DEF SendMessage, TypeInv, TypeOK, Tokens
  <2>2. p \in Packet /\ p.kind = "send" /\ p.conv = c /\ p.token = t
    BY <2>1, PacketsTyped DEF Nothing
  <2>3. UNCHANGED <<log, hand, down>> /\ timers' = timers \cup {t} /\ Answers' = Answers
    BY <1>5 DEF SendMessage, server, Answers
  <2>4. Send(p)
    BY <1>5, <2>1 DEF SendMessage
  <2>5. /\ Entries(c)' = Entries(c) \cup {Echo(t)}
        /\ \A d \in Convs \ {c} : Entries(d)' = Entries(d)
    BY <1>5, <2>1 DEF SendMessage, TypeInv, TypeOK, Window, Entries
  <2>6. Echo(t).id = 0 /\ Echo(t).token = t
    BY DEF Echo
  <2>7. Items(up') \subseteq Items(up) \cup {p}
    BY <2>2, <2>4, SendingAsks
  <2>8. \A q \in Items(up) : q.kind = "send" => q.token # t /\ q.token \in 1 .. sends
    BY <2>1 DEF WireInv, Underway
  <2>9. Once(up')
    <3>1. Once(Append(up, p))
      BY <2>1, <2>2, <2>8, OnceOfAppend DEF WireInv, TypeInv, TypeOK
    <3> QED  BY <2>4, <3>1 DEF Send, WireInv
  <2>10. \A i \in 1 .. Len(log) : log[i].token <= sends /\ log[i].token \in Nat
    <3>1. \A i \in 1 .. Len(log) : log[i] \in Stored
      BY ElementOfSeq DEF TypeInv, TypeOK
    <3> QED  BY <3>1 DEF WireInv, Stored, Tokens
  <2>11. \A a \in Answers : a.kind \in {"ack", "error"} => a.token # t /\ a.token \in 1 .. sends'
    <3>1. \A a \in Answers : a.kind \in {"ack", "error"} => a.token \in 1 .. sends
      BY DEF WireInv, Acked, Refused
    <3> QED  BY <2>1, <3>1
  <2>12. WireInv'
    <3>1. \A q \in Items(up') : q.kind = "send" => Underway(q)'
      <4>1. \A q \in Items(up) : q.kind = "send" => Underway(q)'
        BY <2>1, <2>3 DEF WireInv, Underway
      <4>2. Underway(p)'
        BY <2>1, <2>2, <2>3, <2>10, <2>11 DEF Underway
      <4> QED  BY <2>7, <4>1, <4>2
    <3>2. \A a \in Answers : (a.kind = "error" => Refused(a)') /\ (a.kind = "ack" => Acked(a)')
      BY <2>3, <2>11 DEF WireInv, Refused, Acked
    <3>3. \A i \in 1 .. Len(log) : log[i].token <= sends'
      BY <2>1, <2>10
    <3> QED  BY <2>3, <2>9, <3>1, <3>2, <3>3 DEF WireInv
  <2>13. ShownInv'
    <3> SUFFICES ASSUME NEW d \in Convs, NEW e \in Entries(d)' PROVE Fits(d, e)'
        BY DEF ShownInv
    <3>1. CASE d = c /\ e = Echo(t)
      <4>1. e.id = 0 /\ e.token = t
        BY <2>6, <3>1
      <4>2. \A q \in Items(up') : q.kind = "send" /\ q.token = t => q.conv = d
        BY <2>1, <2>2, <2>7, <2>8, <3>1
      <4>3. \A a \in Answers' : a.kind = "ack" => a.token # t
        BY <2>1, <2>3, <2>11
      <4> QED  BY <2>1, <2>3, <4>1, <4>2, <4>3 DEF Fits
    <3>2. CASE e \in Entries(d)
      <4>1. Fits(d, e)
        BY <3>2 DEF ShownInv
      <4>2. e.token \in Nat
        BY <3>2 DEF TypeInv, TypeOK, Window, Entry, Tokens, Entries
      <4>3. e.token <= sends => e.token # t /\ e.token <= sends'
        BY <2>1, <4>2
      <4> QED  BY <2>2, <2>3, <2>7, <4>1, <4>3 DEF Fits
    <3> QED  BY <2>5, <3>1, <3>2
  <2> QED  BY <2>12, <2>13
<1> QED
  BY <1>2, <1>3, <1>4, <1>5 DEF User

(* An echo of t that no ack has settled is marked as failed. *)
LEMMA FailingKeeps ==
  ASSUME TypeInv, AckInv, NEW t, t # 0, win' = Failed(t), timers' = timers \ {t},
         UNCHANGED <<log, sends, up>>, Answers' \subseteq Answers,
         \A c \in Convs : \A e \in Entries(c) : e.token = t => e.id = 0
  PROVE  AckInv'
<1> USE DEF AckInv
<1>1. WireInv'
  BY WireKeeps DEF WireInv
<1>2. ASSUME NEW c \in Convs, NEW e \in Entries(c)' PROVE Fits(c, e)'
  <2>1. PICK d \in Entries(c) : e = IF d.token = t THEN [d EXCEPT !.failed = TRUE] ELSE d
    BY <1>2 DEF Failed, Entries, TypeInv, TypeOK, Window
  <2>2. d \in Entry /\ Fits(c, d)
    BY DEF ShownInv, TypeInv, TypeOK, Window, Entries
  <2>3. CASE d.token = t
    <3>1. d.id = 0 /\ e.id = 0 /\ e.failed /\ e.token = d.token
      BY <2>1, <2>2, <2>3 DEF Entry
    <3> QED  BY <2>2, <3>1 DEF Fits
  <2>4. CASE d.token # t
    BY <2>1, <2>2, <2>4 DEF Fits
  <2> QED  BY <2>3, <2>4
<1> QED
  BY <1>1, <1>2 DEF ShownInv

LEMMA ClientAcks == ASSUME TypeInv, AckInv, Client PROVE AckInv'
<1>1. ASSUME NEW t \in Tokens, Timeout(t) PROVE AckInv'
  <2>1. t # 0 /\ t \in timers
    BY <1>1 DEF Timeout, Tokens
  <2>2. UNCHANGED <<log, sends, up, down, hand>> /\ timers' = timers \ {t} /\ win' = Failed(t)
    BY <1>1 DEF Timeout, server, link
  <2>3. Answers' = Answers
    BY <2>2 DEF Answers
  <2>4. \A c \in Convs : \A e \in Entries(c) : e.token = t => e.id = 0
    <3> SUFFICES ASSUME NEW c \in Convs, NEW e \in Entries(c), e.token = t PROVE e.id = 0
        OBVIOUS
    <3>1. Fits(c, e)
      BY DEF AckInv, ShownInv
    <3> QED  BY <2>1, <3>1 DEF Fits
  <2> QED  BY <2>1, <2>2, <2>3, <2>4, FailingKeeps
<1>2. ASSUME NEW kind, Arrives(kind), Consume, timers' = timers,
             \A c \in Convs : \A e \in Entries(c)' : e \in Entries(c) \/ (e.token = 0 /\ ~e.failed)
      PROVE  AckInv'
  BY <1>2, ConsumingKeeps, WireKeeps, ShownKeeps DEF AckInv, WireInv
<1>3. CASE OnMessage
  <2>1. Shown(Head(down).id).token = 0 /\ ~Shown(Head(down).id).failed
    BY DEF Shown
  <2>2. \A c \in Convs : Entries(c)' \subseteq Entries(c) \cup {Shown(Head(down).id)}
    BY <1>3 DEF OnMessage, TypeInv, TypeOK, Window, Entries
  <2> QED  BY <1>2, <1>3, <2>1, <2>2 DEF OnMessage
<1>4. CASE OnPage
  <2> DEFINE new == {Shown(i) : i \in Head(down).ids}
  <2>1. \A e \in new : e.token = 0 /\ ~e.failed
    BY DEF Shown
  <2>2. \A c \in Convs : Entries(c)' \subseteq Entries(c) \cup new
    <3>1. PICK d : win' \in {win, [win EXCEPT ![d].entries = @ \cup new, ![d].loading = FALSE,
                                             ![d].paged = @ \cup Head(down).ids]}
      BY <1>4 DEF OnPage
    <3> HIDE DEF new
    <3>2. CASE win' = win
      BY <3>2 DEF Entries
    <3>3. CASE win' = [win EXCEPT ![d].entries = @ \cup new, ![d].loading = FALSE,
                                  ![d].paged = @ \cup Head(down).ids]
      <4>1. \A c \in Convs : win'[c].entries \subseteq win[c].entries \cup new
        BY <3>3 DEF TypeInv, TypeOK, Window
      <4> QED  BY <4>1 DEF Entries
    <3> QED  BY <3>1, <3>2, <3>3
  <2> QED  BY <1>2, <1>4, <2>1, <2>2 DEF OnPage
<1>5. CASE OnError
  <2> DEFINE t == Head(down).token
  <2>1. Consume /\ Head(down).kind = "error" /\ Arrives("error")
    BY <1>5 DEF OnError, Arrives
  <2>2. Head(down) \in Answers /\ Answers' \subseteq Answers /\ UNCHANGED <<log, up, sends>>
    BY <2>1, ConsumingKeeps
  <2>3. Refused(Head(down))
    BY <2>1, <2>2 DEF AckInv, WireInv
  <2>4. t # 0
    BY <2>3 DEF Refused
  <2>5. \A c \in Convs : \A e \in Entries(c) : e.token = t => e.id = 0
    <3> SUFFICES ASSUME NEW c \in Convs, NEW e \in Entries(c), e.token = t PROVE e.id = 0
        OBVIOUS
    <3>1. Fits(c, e)
      BY DEF AckInv, ShownInv
    <3> QED  BY <2>3, <2>4, <3>1 DEF Fits, Refused
  <2> QED  BY <1>5, <2>2, <2>4, <2>5, FailingKeeps DEF OnError
<1>6. CASE OnAck
  <2> DEFINE p == Head(down)
  <2>1. Consume /\ p.kind = "ack" /\ Arrives("ack")
    BY <1>6 DEF OnAck, Arrives
  <2>2. p \in Answers /\ Answers' \subseteq Answers /\ UNCHANGED <<log, up, sends>>
    BY <2>1, ConsumingKeeps
  <2>3. Acked(p)
    BY <2>1, <2>2 DEF AckInv, WireInv
  <2>4. WireInv'
    BY <2>2, WireKeeps DEF AckInv, WireInv
  <2>5. timers' = timers \ {p.token}
    BY <1>6 DEF OnAck
  <2>6. \A c \in Convs : \A e \in Entries(c)' :
          \/ e \in Entries(c) /\ (e.token = p.token => c # p.conv)
          \/ c = p.conv /\ \E d \in Entries(c) : d.token = p.token /\ e = [d EXCEPT !.id = p.id, !.failed = FALSE]
    <3> DEFINE new == {IF e.token = p.token THEN [e EXCEPT !.id = p.id, !.failed = FALSE] ELSE e
                         : e \in Entries(p.conv)}
    <3>1. win' = [win EXCEPT ![p.conv].entries = new]
      BY <1>6 DEF OnAck, Entries
    <3>2. \A c \in Convs : Entries(c)' = IF c = p.conv THEN new ELSE Entries(c)
      <4> HIDE DEF new
      <4> QED  BY <3>1 DEF TypeInv, TypeOK, Window, Entries
    <3>3. \A e \in new : \E d \in Entries(p.conv) :
            \/ d.token = p.token /\ e = [d EXCEPT !.id = p.id, !.failed = FALSE]
            \/ d.token # p.token /\ e = d
      OBVIOUS
    <3> HIDE DEF new
    <3> QED  BY <3>2, <3>3
  <2> HIDE DEF p
  <2>7. ASSUME NEW c \in Convs, NEW e \in Entries(c)' PROVE Fits(c, e)'
    <3>1. CASE e \in Entries(c) /\ (e.token = p.token => c # p.conv)
      <4>1. Fits(c, e)
        BY <3>1 DEF AckInv, ShownInv
      <4>2. e.token # 0 => e.token # p.token
        BY <2>1, <2>2, <3>1, <4>1 DEF Fits
      <4> QED  BY <2>2, <2>5, <4>1, <4>2 DEF Fits
    <3>2. ASSUME c = p.conv, NEW d \in Entries(c), d.token = p.token,
                 e = [d EXCEPT !.id = p.id, !.failed = FALSE]
          PROVE  Fits(c, e)'
      <4>1. d \in Entry /\ Fits(c, d)
        BY DEF AckInv, ShownInv, TypeInv, TypeOK, Window, Entries
      <4>2. e.id = p.id /\ ~e.failed /\ e.token = p.token
        BY <3>2, <4>1 DEF Entry
      <4>3. p.id # 0 /\ p.token # 0 /\ p.id \in 1 .. Len(log) /\ log[p.id] = [conv |-> c, token |-> p.token]
        BY <2>3, <3>2 DEF Acked
      <4> QED  BY <2>2, <2>5, <3>2, <4>1, <4>2, <4>3 DEF Fits
    <3> QED  BY <2>6, <3>1, <3>2
  <2> QED  BY <2>4, <2>7 DEF AckInv, ShownInv
<1> QED
  BY <1>1, <1>3, <1>4, <1>5, <1>6 DEF Client

(* A read loop puts a reply in its hand. *)
LEMMA HandingKeeps ==
  ASSUME TypeInv, NEW k \in Loops, NEW x, hand' = [hand EXCEPT ![k] = x], down' = down
  PROVE  Answers' \subseteq Answers \cup {x}
<1>1. \A j \in Loops : hand'[j] = hand[j] \/ hand'[j] = x
  BY DEF TypeInv, TypeOK
<1> QED
  BY <1>1 DEF Answers

LEMMA ServerAcks == ASSUME TypeInv, AckInv, Server PROVE AckInv'
<1>1. \A k \in Loops : Take(k) => UNCHANGED <<win, sends, timers, down>>
  BY DEF Take, client
<1>2. ASSUME UNCHANGED <<log, win, sends, timers>>, Once(up'),
             \A p \in Items(up') : p.kind = "send" => p \in Items(up),
             \A a \in Answers' : a.kind \in {"ack", "error"} => a \in Answers
      PROVE  AckInv'
  <2>1. \A c \in Convs : Entries(c)' = Entries(c)
    BY <1>2 DEF Entries
  <2> QED  BY <1>2, <2>1, WireKeeps, ShownKeeps DEF AckInv
<1>3. ASSUME NEW k \in Loops, DropRequest(k) PROVE AckInv'
  <2>1. Answers' = Answers
    BY <1>1, <1>3 DEF DropRequest, Answers
  <2> QED  BY <1>1, <1>2, <1>3, <2>1, TakingKeeps DEF DropRequest, AckInv
<1>c. ASSUME NEW k \in Loops, Count(k) PROVE AckInv'
  <2> PICK x : x = Limited(Head(up))
      OBVIOUS
  <2>1. Take(k) /\ x.kind = "history" /\ hand' = [hand EXCEPT ![k] = x] /\ log' = log
    BY <1>c, TakingAsks, LimitedIs DEF Count, TypeInv
  <2>2. Answers' \subseteq Answers \cup {x}
    BY <1>1, <2>1, HandingKeeps
  <2> QED  BY <1>1, <1>2, <2>1, <2>2, TakingKeeps DEF AckInv
<1>4. ASSUME NEW k \in Loops, ReadPage(k) PROVE AckInv'
  <2> PICK x : x = PageOf(hand[k])
      OBVIOUS
  <2>1. x.kind = "page" /\ hand' = [hand EXCEPT ![k] = x] /\ UNCHANGED <<log, up, down, win, sends, timers>>
    BY <1>4, PageOfIs DEF ReadPage, PageOf, link, client
  <2>2. Answers' \subseteq Answers \cup {x}
    BY <2>1, HandingKeeps
  <2> QED  BY <1>2, <2>1, <2>2 DEF AckInv, WireInv
<1>5. ASSUME NEW k \in Loops, Refuse(k) PROVE AckInv'
  <2> PICK p, x : p = Head(up) /\ x = [p EXCEPT !.kind = "error"]
      OBVIOUS
  <2>1. Take(k) /\ p.kind = "send" /\ UNCHANGED <<log, win, sends, timers>>
    BY <1>1, <1>5 DEF Refuse
  <2>2. p \in Packet /\ p \in Items(up) /\ Once(up') /\ Items(up') \subseteq Items(up)
    BY <2>1, TakingTyped, TakingAsks, TakingKeeps DEF AckInv, TypeInv
  <2>3. x.kind = "error" /\ x.token = p.token
    BY <2>2 DEF Packet
  <2>4. \A q \in Items(up') : q.kind = "send" => q.token # p.token
    BY <2>1, OnceOfTail DEF Take, AckInv, WireInv, TypeInv, TypeOK
  <2>5. Answers' \subseteq Answers \cup {x}
    BY <1>1, <1>5, HandingKeeps DEF Refuse
  <2>6. Underway(p)
    BY <2>1, <2>2 DEF AckInv, WireInv
  <2>7. ASSUME NEW q \in Items(up'), q.kind = "send" PROVE Underway(q)'
    <3>1. Underway(q)
      BY <2>2, <2>7 DEF AckInv, WireInv
    <3>2. q.token # x.token
      BY <2>3, <2>4, <2>7
    <3> QED  BY <2>1, <2>5, <3>1, <3>2 DEF Underway
  <2>8. ASSUME NEW a \in Answers' PROVE (a.kind = "error" => Refused(a)') /\ (a.kind = "ack" => Acked(a)')
    <3>1. CASE a = x
      <4>1. Refused(x)'
        BY <2>1, <2>3, <2>6 DEF Underway, Refused
      <4> QED  BY <2>3, <3>1, <4>1
    <3>2. CASE a \in Answers
      BY <2>1, <3>2 DEF AckInv, WireInv, Refused, Acked
    <3> QED  BY <2>5, <3>1, <3>2
  <2>9. WireInv'
    BY <2>1, <2>2, <2>7, <2>8 DEF AckInv, WireInv
  <2>10. ASSUME NEW c \in Convs, NEW e \in Entries(c)' PROVE Fits(c, e)'
    <3>1. Fits(c, e)
      BY <2>1 DEF AckInv, ShownInv, Entries
    <3> QED  BY <2>1, <2>2, <2>3, <2>5, <3>1 DEF Fits
  <2> QED  BY <2>9, <2>10 DEF AckInv, ShownInv
<1>6. ASSUME NEW k \in Loops, Store(k) PROVE AckInv'
  <2> PICK n, p : n = Len(log) + 1 /\ p = Head(up)
      OBVIOUS
  <2> PICK x : x = [p EXCEPT !.kind = "ack", !.id = n]
      OBVIOUS
  <2>1. Take(k) /\ p.kind = "send" /\ UNCHANGED <<win, sends, timers>>
    BY <1>1, <1>6 DEF Store
  <2>2. p \in Packet /\ p \in Items(up) /\ Once(up') /\ Items(up') \subseteq Items(up)
    BY <2>1, TakingTyped, TakingAsks, TakingKeeps DEF AckInv, TypeInv
  <2>3. x.kind = "ack" /\ x.token = p.token /\ x.conv = p.conv /\ x.id = n
    BY <2>2 DEF Packet
  <2>4. \A q \in Items(up') : q.kind = "send" => q.token # p.token
    BY <2>1, OnceOfTail DEF Take, AckInv, WireInv, TypeInv, TypeOK
  <2>5. Answers' \subseteq Answers \cup {x}
    BY <1>1, <1>6, HandingKeeps DEF Store
  <2>6. Underway(p)
    BY <2>1, <2>2 DEF AckInv, WireInv
  <2>7. /\ Len(log) \in Nat /\ Len(log') = n
        /\ log'[n] = [conv |-> p.conv, token |-> p.token]
        /\ \A i \in 1 .. Len(log) : log'[i] = log[i]
    <3>1. [conv |-> p.conv, token |-> p.token] \in Stored
      BY <2>2 DEF Packet, Stored, Asked, TypeInv
    <3> QED  BY <1>6, <3>1, StoringTyped, LenProperties DEF Store, TypeInv, TypeOK
  <2>8. \A i \in 1 .. Len(log') : i \in 1 .. Len(log) \/ i = n
    BY <2>7
  <2>9. \A i \in 1 .. Len(log) : i \in 1 .. Len(log')
    BY <2>7
  <2>10. ASSUME NEW q \in Items(up'), q.kind = "send" PROVE Underway(q)'
    <3>1. Underway(q)
      BY <2>2, <2>10 DEF AckInv, WireInv
    <3>2. q.token # p.token
      BY <2>4, <2>10
    <3>3. \A i \in 1 .. Len(log') : log'[i].token # q.token
      BY <2>7, <2>8, <3>1, <3>2 DEF Underway
    <3>4. \A a \in Answers' : a.kind = "error" => a.token # q.token
      BY <2>3, <2>5, <3>1 DEF Underway
    <3> QED  BY <2>1, <3>1, <3>3, <3>4 DEF Underway
  <2>11. ASSUME NEW a \in Answers' PROVE (a.kind = "error" => Refused(a)') /\ (a.kind = "ack" => Acked(a)')
    <3>1. CASE a = x
      <4>1. p.token \in 1 .. sends /\ n \in 1 .. Len(log')
        BY <2>6, <2>7 DEF Underway
      <4>2. Acked(x)'
        BY <2>1, <2>3, <2>7, <4>1 DEF Acked
      <4> QED  BY <2>3, <3>1, <4>2
    <3>2. CASE a \in Answers
      <4>1. a.kind = "error" => Refused(a)'
        <5>1. a.kind = "error" => Refused(a) /\ a.token # p.token
          BY <2>6, <3>2 DEF AckInv, WireInv, Underway
        <5> QED  BY <2>1, <2>7, <2>8, <5>1 DEF Refused
      <4>2. a.kind = "ack" => Acked(a)'
        <5>1. a.kind = "ack" => Acked(a)
          BY <3>2 DEF AckInv, WireInv
        <5> QED  BY <2>1, <2>7, <2>9, <5>1 DEF Acked
      <4> QED  BY <4>1, <4>2
    <3> QED  BY <2>5, <3>1, <3>2
  <2>12. \A i \in 1 .. Len(log') : log'[i].token <= sends'
    <3>1. p.token <= sends
      BY <2>6 DEF Underway
    <3> QED  BY <2>1, <2>7, <2>8, <3>1 DEF AckInv, WireInv
  <2>13. WireInv'
    BY <2>2, <2>10, <2>11, <2>12 DEF WireInv
  <2>14. ASSUME NEW c \in Convs, NEW e \in Entries(c)' PROVE Fits(c, e)'
    <3>1. Fits(c, e)
      BY <2>1 DEF AckInv, ShownInv, Entries
    <3>2. e.token = p.token => e.token # 0 /\ p.conv = c
      BY <2>1, <2>2, <2>6, <3>1 DEF Fits, Underway
    <3> QED  BY <2>1, <2>2, <2>3, <2>5, <2>7, <2>9, <3>1, <3>2 DEF Fits
  <2> QED  BY <2>13, <2>14 DEF AckInv, ShownInv
<1>7. ASSUME NEW k \in Loops, Reply(k) PROVE AckInv'
  <2>1. hand[k] \in Packet /\ hand' = [hand EXCEPT ![k] = Nothing] /\ Deliver(hand[k])
    BY <1>7 DEF Reply, TypeInv, TypeOK
  <2>2. Items(down') \subseteq Items(down) \cup {hand[k]}
    BY <2>1, DeliveringKeeps
  <2>3. \A j \in Loops : hand'[j] \in {hand[j], Nothing}
    BY <2>1 DEF TypeInv, TypeOK
  <2>4. Answers' \subseteq Answers \cup {Nothing}
    BY <2>2, <2>3 DEF Answers
  <2>5. Nothing.kind = "none"
    BY DEF Nothing
  <2> QED  BY <1>2, <1>7, <2>4, <2>5 DEF Reply, client, AckInv, WireInv
<1>8. ASSUME NEW c \in Convs, OtherSends(c) PROVE AckInv'
  <2> PICK n : n = Len(log) + 1
      OBVIOUS
  <2>1. UNCHANGED <<win, sends, timers, up, down, hand>>
    BY <1>8 DEF OtherSends, link, client
  <2>2. /\ Len(log) \in Nat /\ Len(log') = n
        /\ log'[n] = [conv |-> c, token |-> 0]
        /\ \A i \in 1 .. Len(log) : log'[i] = log[i]
    <3>1. [conv |-> c, token |-> 0] \in Stored
      BY DEF Stored
    <3> QED  BY <1>8, <3>1, StoringTyped, LenProperties DEF OtherSends, TypeInv, TypeOK
  <2>3. /\ \A i \in 1 .. Len(log') : i \in 1 .. Len(log) \/ i = n
        /\ \A i \in 1 .. Len(log) : i \in 1 .. Len(log')
    BY <2>2
  <2>4. Answers' = Answers
    BY <2>1 DEF Answers
  <2>5. ASSUME NEW q \in Items(up), q.kind = "send" PROVE Underway(q)'
    <3>1. Underway(q) /\ q.token # 0
      BY <2>5 DEF AckInv, WireInv, Underway
    <3> QED  BY <2>1, <2>2, <2>3, <2>4, <3>1 DEF Underway
  <2>6. ASSUME NEW a \in Answers PROVE (a.kind = "error" => Refused(a)') /\ (a.kind = "ack" => Acked(a)')
    <3>1. a.kind = "error" => Refused(a) /\ a.token # 0
      BY <2>6 DEF AckInv, WireInv, Refused
    <3>2. a.kind = "ack" => Acked(a)
      BY <2>6 DEF AckInv, WireInv
    <3>3. a.kind = "error" => Refused(a)'
      BY <2>1, <2>2, <2>3, <3>1 DEF Refused
    <3>4. a.kind = "ack" => Acked(a)'
      BY <2>1, <2>2, <2>3, <3>2 DEF Acked
    <3> QED  BY <3>3, <3>4
  <2>7. \A i \in 1 .. Len(log') : log'[i].token <= sends'
    <3>1. sends \in Nat
      BY DEF TypeInv, TypeOK
    <3>2. log'[n].token <= sends'
      BY <2>1, <2>2, <3>1
    <3> QED  BY <2>1, <2>2, <2>3, <3>2 DEF AckInv, WireInv
  <2>8. WireInv'
    BY <2>1, <2>4, <2>5, <2>6, <2>7 DEF AckInv, WireInv
  <2>9. ASSUME NEW d \in Convs, NEW e \in Entries(d)' PROVE Fits(d, e)'
    <3>1. Fits(d, e)
      BY <2>1 DEF AckInv, ShownInv, Entries
    <3> QED  BY <2>1, <2>2, <2>3, <2>4, <3>1 DEF Fits
  <2> QED  BY <2>8, <2>9 DEF AckInv, ShownInv
<1>9. ASSUME NEW i \in Ids, Broadcast(i) PROVE AckInv'
  <2> PICK x : x = [Nothing EXCEPT !.kind = "message", !.id = i]
      OBVIOUS
  <2>1. x \in Packet /\ x.kind = "message" /\ Deliver(x)
    BY <1>9, PacketsTyped DEF Nothing, Broadcast
  <2>2. Answers' \subseteq Answers \cup {x}
    BY <1>9, <2>1, DeliveringKeeps DEF Answers, Broadcast
  <2> QED  BY <1>2, <1>9, <2>1, <2>2 DEF Broadcast, client, AckInv, WireInv
<1> QED
  BY <1>c, <1>3, <1>4, <1>5, <1>6, <1>7, <1>8, <1>9 DEF Server

LEMMA StepAcks == ASSUME TypeInv, AckInv, [Next]_vars PROVE AckInv'
<1>1. ASSUME UNCHANGED <<log, hand, win, timers, sends>>,
             up' \in {up, <<>>}, down' \in {down, <<>>}
      PROVE  AckInv'
  <2>1. Items(up') \subseteq Items(up) /\ Once(up') /\ Answers' \subseteq Answers
    BY <1>1, ItemsOfEmpty, EmptySeq DEF AckInv, WireInv, Once, Answers
  <2>2. \A c \in Convs : Entries(c)' = Entries(c)
    BY <1>1 DEF Entries
  <2> QED  BY <1>1, <2>1, <2>2, WireKeeps, ShownKeeps DEF AckInv
<1>2. CASE Disconnect
  BY <1>1, <1>2 DEF Disconnect, server, client
<1>3. CASE Reconnect
  BY <1>1, <1>3 DEF Reconnect, server, client
<1>4. CASE UNCHANGED vars
  BY <1>1, <1>4 DEF vars, server, link, client
<1> QED
  BY <1>2, <1>3, <1>4, UserAcks, ClientAcks, ServerAcks DEF Next

LEMMA AcksAlways == Spec => []AckInv
BY InitAcks, StepAcks, TypedAlways, PTL DEF Spec

(* ChatContext.tsx:465-470: an ack settles the echo of the message it      *)
(* acknowledges, for good, whatever is lost, refused or timed out and      *)
(* however many connections follow each other.                             *)
THEOREM AcksAlwaysSettle == Spec => []AcksSettle
<1>1. AckInv => AcksSettle
  BY DEF AckInv, ShownInv, Fits, AcksSettle
<1> QED
  BY <1>1, AcksAlways, PTL

(* ChatContext.tsx:633-638: a message of ours of which nothing was heard   *)
(* has its timer running, in every window and over every connection.       *)
THEOREM EchoesAlwaysTimed == Spec => []EchoesAreTimed
<1>1. AckInv => EchoesAreTimed
  <2> SUFFICES ASSUME AckInv, NEW c \in Convs, NEW t \in Tokens, Echo(t) \in Entries(c)
               PROVE  t \in timers
      BY DEF EchoesAreTimed
  <2>1. Fits(c, Echo(t))
    BY DEF AckInv, ShownInv
  <2>2. Echo(t).id = 0 /\ Echo(t).token = t /\ ~Echo(t).failed /\ t # 0
    BY DEF Echo, Tokens
  <2> QED  BY <2>1, <2>2 DEF Fits
<1> QED
  BY <1>1, AcksAlways, PTL

-----------------------------------------------------------------------------
(* Pages and the requests they answer.  The n-th page on its way, or still *)
(* to be read, belongs to the n-th conversation of pending; a count along  *)
(* each queue says which is the n-th.                                      *)

(* f counts the packets of s of a kind; where it has grown there is one.   *)
Counts(f, s, kind) ==
  /\ f \in [0 .. Len(s) -> Nat]
  /\ \A n \in 1 .. Len(s) : f[n] = f[n - 1] + IF s[n].kind = kind THEN 1 ELSE 0
  /\ \A m, n \in 0 .. Len(s) : m <= n => f[m] <= f[n]
  /\ \A m, n \in 0 .. Len(s) : f[m] < f[n] => \E i \in m + 1 .. n : s[i].kind = kind

LEMMA CountsOfAppend ==
  ASSUME NEW s \in Seq(Packet), NEW e \in Packet, NEW kind, NEW f, Counts(f, s, kind)
  PROVE  \E g : /\ Counts(g, Append(s, e), kind)
                /\ \A n \in 0 .. Len(s) : g[n] = f[n]
                /\ g[Len(s) + 1] = f[Len(s)] + IF e.kind = kind THEN 1 ELSE 0
<1> PICK t, k, d : t = Append(s, e) /\ k = Len(s) /\ d = IF e.kind = kind THEN 1 ELSE 0
    OBVIOUS
<1>1. Len(t) = k + 1 /\ t[k + 1] = e /\ (\A i \in 1 .. k : t[i] = s[i]) /\ k \in Nat
  BY AppendProperties, LenProperties
<1>2. f[k] \in Nat /\ d \in {0, 1}
  BY <1>1 DEF Counts
<1> DEFINE g == [n \in 0 .. k + 1 |-> IF n = k + 1 THEN f[k] + d ELSE f[n]]
<1>3. /\ g \in [0 .. k + 1 -> Nat]
      /\ \A n \in 0 .. k : g[n] = f[n]
      /\ g[k + 1] = f[k] + d
  BY <1>1, <1>2 DEF Counts
<1> HIDE DEF g
<1>4. \A n \in 0 .. k + 1 : n \in 0 .. k \/ n = k + 1
  BY <1>1
<1>5. \A n \in 1 .. k + 1 : g[n] = g[n - 1] + IF t[n].kind = kind THEN 1 ELSE 0
  <2> SUFFICES ASSUME NEW n \in 1 .. k + 1
               PROVE  g[n] = g[n - 1] + IF t[n].kind = kind THEN 1 ELSE 0
      OBVIOUS
  <2>1. CASE n = k + 1
    BY <1>1, <1>3, <2>1
  <2>2. CASE n \in 1 .. k
    <3>1. n \in 0 .. k /\ n - 1 \in 0 .. k
      BY <1>1, <2>2
    <3> QED  BY <1>1, <1>3, <2>2, <3>1 DEF Counts
  <2> QED  BY <1>1, <2>1, <2>2
<1>6. \A m, n \in 0 .. k + 1 : m <= n => g[m] <= g[n]
  <2>1. \A m \in 0 .. k : f[m] <= f[k] /\ f[m] \in Nat
    BY <1>1 DEF Counts
  <2>2. \A m, n \in 0 .. k : m <= n => f[m] <= f[n]
    BY DEF Counts
  <2> QED  BY <1>1, <1>2, <1>3, <1>4, <2>1, <2>2
<1>7. ASSUME NEW m \in 0 .. k + 1, NEW n \in 0 .. k + 1, g[m] < g[n]
      PROVE  \E i \in m + 1 .. n : t[i].kind = kind
  <2>1. CASE n \in 0 .. k
    <3>1. m \in 0 .. k
      BY <1>1, <1>3, <1>4, <1>6, <1>7, <2>1
    <3>2. PICK i \in m + 1 .. n : s[i].kind = kind
      BY <1>3, <1>7, <2>1, <3>1 DEF Counts
    <3>3. i \in 1 .. k
      BY <1>1, <2>1, <3>1
    <3> QED  BY <1>1, <3>2, <3>3
  <2>2. CASE n = k + 1
    <3>1. m \in 0 .. k
      BY <1>1, <1>3, <1>4, <1>7, <2>2
    <3>2. CASE d = 1
      BY <1>1, <2>2, <3>1, <3>2
    <3>3. CASE d = 0
      <4>1. f[m] < f[k]
        BY <1>2, <1>3, <1>7, <2>2, <3>1, <3>3
      <4>2. PICK i \in m + 1 .. k : s[i].kind = kind
        BY <1>1, <3>1, <4>1 DEF Counts
      <4>3. i \in 1 .. k /\ i \in m + 1 .. n
        BY <1>1, <2>2, <3>1
      <4> QED  BY <1>1, <4>2, <4>3
    <3> QED  BY <1>2, <3>2, <3>3
  <2> QED  BY <1>4, <2>1, <2>2
<1>8. Counts(g, t, kind)
  BY <1>1, <1>3, <1>5, <1>6, <1>7 DEF Counts
<1> QED
  BY <1>3, <1>8

LEMMA CountsOfTail ==
  ASSUME NEW s \in Seq(Packet), s # <<>>, NEW kind, NEW f, Counts(f, s, kind),
         NEW d \in Nat, d <= f[1]
  PROVE  \E g : /\ Counts(g, Tail(s), kind)
                /\ \A n \in 0 .. Len(s) - 1 : g[n] = f[n + 1] - d
<1> PICK t, k : t = Tail(s) /\ k = Len(s) - 1
    OBVIOUS
<1>1. Len(t) = k /\ k \in Nat /\ (\A i \in 1 .. k : t[i] = s[i + 1]) /\ Len(s) = k + 1
  BY HeadTailProperties, EmptySeq
<1>2. \A n \in 0 .. k : n + 1 \in 0 .. k + 1 /\ f[n + 1] \in Nat /\ d <= f[n + 1] /\ f[1] \in Nat
  BY <1>1 DEF Counts
<1> DEFINE g == [n \in 0 .. k |-> f[n + 1] - d]
<1>3. g \in [0 .. k -> Nat] /\ \A n \in 0 .. k : g[n] = f[n + 1] - d
  BY <1>2
<1> HIDE DEF g
<1>4. ASSUME NEW n \in 1 .. k
      PROVE  g[n] = g[n - 1] + IF t[n].kind = kind THEN 1 ELSE 0
  <2>1. n - 1 \in 0 .. k /\ n \in 0 .. k /\ n + 1 \in 1 .. k + 1 /\ (n - 1) + 1 = n /\ (n + 1) - 1 = n
    BY <1>1
  <2>2. f[n + 1] = f[n] + IF s[n + 1].kind = kind THEN 1 ELSE 0
    BY <1>1, <2>1 DEF Counts
  <2>3. f[n] \in Nat
    BY <1>2, <2>1
  <2> QED  BY <1>1, <1>3, <2>1, <2>2, <2>3
<1>5. ASSUME NEW m \in 0 .. k, NEW n \in 0 .. k, m <= n PROVE g[m] <= g[n]
  <2>1. f[m + 1] <= f[n + 1]
    BY <1>1, <1>2, <1>5 DEF Counts
  <2> QED  BY <1>2, <1>3, <2>1
<1>6. ASSUME NEW m \in 0 .. k, NEW n \in 0 .. k, g[m] < g[n]
      PROVE  \E i \in m + 1 .. n : t[i].kind = kind
  <2>1. f[m + 1] < f[n + 1]
    BY <1>2, <1>3, <1>6
  <2>2. PICK i \in (m + 1) + 1 .. n + 1 : s[i].kind = kind
    BY <1>1, <1>2, <2>1 DEF Counts
  <2>3. i - 1 \in m + 1 .. n /\ i - 1 \in 1 .. k /\ (i - 1) + 1 = i
    BY <1>1
  <2>4. t[i - 1].kind = kind
    BY <1>1, <2>2, <2>3
  <2> QED  BY <2>3, <2>4
<1>7. Counts(g, t, kind)
  BY <1>1, <1>3, <1>4, <1>5, <1>6 DEF Counts
<1> QED
  BY <1>1, <1>3, <1>7

LEMMA CountsLess ==
  ASSUME NEW s \in Seq(Packet), NEW kind, NEW f, Counts(f, s, kind), NEW d \in Nat, d <= f[0]
  PROVE  \E g : Counts(g, s, kind) /\ \A n \in 0 .. Len(s) : g[n] = f[n] - d
<1> PICK k : k = Len(s)
    OBVIOUS
<1>1. k \in Nat
  BY LenProperties
<1>2. \A n \in 0 .. k : f[n] \in Nat /\ f[0] <= f[n] /\ f[0] \in Nat
  BY <1>1 DEF Counts
<1> DEFINE g == [n \in 0 .. k |-> f[n] - d]
<1>3. g \in [0 .. k -> Nat] /\ \A n \in 0 .. k : g[n] = f[n] - d
  BY <1>2
<1> HIDE DEF g
<1>4. ASSUME NEW n \in 1 .. k PROVE g[n] = g[n - 1] + IF s[n].kind = kind THEN 1 ELSE 0
  <2>1. n - 1 \in 0 .. k /\ n \in 0 .. k
    BY <1>1
  <2>2. f[n] = f[n - 1] + IF s[n].kind = kind THEN 1 ELSE 0
    BY DEF Counts
  <2> QED  BY <1>2, <1>3, <2>1, <2>2
<1>5. \A m, n \in 0 .. k : m <= n => g[m] <= g[n]
  BY <1>2, <1>3 DEF Counts
<1>6. ASSUME NEW m \in 0 .. k, NEW n \in 0 .. k, g[m] < g[n]
      PROVE  \E i \in m + 1 .. n : s[i].kind = kind
  <2>1. f[m] < f[n]
    BY <1>2, <1>3, <1>6
  <2> QED  BY <2>1 DEF Counts
<1>7. Counts(g, s, kind)
  BY <1>3, <1>4, <1>5, <1>6 DEF Counts
<1> QED
  BY <1>3, <1>7

(* The messages ids are of conversation c. *)
Within(l, ids, c) == \A i \in ids : i \in 1 .. Len(l) /\ l[i].conv = c

(* r and q give each page of d, the page in hand h, and each request of u  *)
(* its place in p; G has the pairs of a page and the window it may be for. *)
Placed(G, d, h, u, p, r, q) ==
  /\ Counts(r, d, "page")
  /\ r[0] = 0
  /\ Counts(q, u, "history")
  /\ q[0] = r[Len(d)] + IF h.kind = "page" THEN 1 ELSE 0
  /\ q[Len(u)] = Len(p)
  /\ \A n \in 1 .. Len(d) : d[n].kind = "page" => <<d[n].ids, p[r[n]]>> \in G
  /\ h.kind = "page" => <<h.ids, p[q[0]]>> \in G
  /\ \A n \in 1 .. Len(u) : u[n].kind = "history" => u[n].conv = p[q[n]]

Aligned(G, d, h, u, p) == \E r, q : Placed(G, d, h, u, p, r, q)

LEMMA PlacesBound ==
  ASSUME NEW G, NEW d \in Seq(Packet), NEW h, NEW u \in Seq(Packet), NEW p \in Seq(Convs),
         NEW r, NEW q, Placed(G, d, h, u, p, r, q)
  PROVE  /\ \A n \in 0 .. Len(d) : r[n] \in Nat /\ r[n] <= r[Len(d)]
         /\ \A n \in 0 .. Len(u) : q[n] \in Nat /\ q[n] <= Len(p)
         /\ r[Len(d)] <= q[0]
         /\ \A n \in 1 .. Len(d) : d[n].kind = "page" => r[n] \in 1 .. Len(p)
         /\ h.kind = "page" => q[0] \in 1 .. Len(p)
         /\ \A n \in 1 .. Len(u) : u[n].kind = "history" => q[n] \in 1 .. Len(p)
<1> PICK j, k : j = Len(d) /\ k = Len(u)
    OBVIOUS
<1>1. j \in Nat /\ k \in Nat /\ Len(p) \in Nat
  BY LenProperties
<1>2. ASSUME NEW n \in 0 .. j PROVE r[n] \in Nat /\ r[n] <= r[j]
  <2>1. Counts(r, d, "page") /\ n <= j /\ j \in 0 .. j
    BY <1>1 DEF Placed
  <2> QED  BY <2>1 DEF Counts
<1>3. ASSUME NEW n \in 0 .. k PROVE q[n] \in Nat /\ q[n] <= q[k]
  <2>1. Counts(q, u, "history") /\ n <= k /\ k \in 0 .. k
    BY <1>1 DEF Placed
  <2> QED  BY <2>1 DEF Counts
<1>4. q[k] = Len(p) /\ q[0] = r[j] + IF h.kind = "page" THEN 1 ELSE 0
  BY DEF Placed
<1>5. r[j] \in Nat /\ q[0] \in Nat /\ q[0] <= Len(p) /\ r[j] <= q[0]
  BY <1>1, <1>2, <1>3, <1>4
<1>6. ASSUME NEW n \in 1 .. j, d[n].kind = "page" PROVE r[n] \in 1 .. Len(p)
  <2>1. n - 1 \in 0 .. j /\ n \in 0 .. j
    BY <1>1
  <2>2. r[n] = r[n - 1] + 1
    BY <1>6 DEF Placed, Counts
  <2>3. r[n - 1] \in Nat /\ r[n] \in Nat /\ r[n] <= r[j]
    BY <1>2, <2>1
  <2> QED  BY <1>1, <1>5, <2>2, <2>3
<1>7. ASSUME NEW n \in 1 .. k, u[n].kind = "history" PROVE q[n] \in 1 .. Len(p)
  <2>1. n - 1 \in 0 .. k /\ n \in 0 .. k
    BY <1>1
  <2>2. q[n] = q[n - 1] + 1
    BY <1>7 DEF Placed, Counts
  <2>3. q[n - 1] \in Nat /\ q[n] \in Nat /\ q[n] <= q[k]
    BY <1>3, <2>1
  <2> QED  BY <1>1, <1>4, <2>2, <2>3
<1>8. h.kind = "page" => q[0] \in 1 .. Len(p)
  BY <1>1, <1>4, <1>5
<1> QED
  BY <1>2, <1>3, <1>4, <1>5, <1>6, <1>7, <1>8

(* A request for a page is put in both queues, *)
LEMMA AlignedAsk ==
  ASSUME NEW G, NEW d \in Seq(Packet), NEW h, NEW u \in Seq(Packet), NEW p \in Seq(Convs),
         Aligned(G, d, h, u, p),
         NEW x \in Packet, x.kind = "history", x.conv \in Convs
  PROVE  Aligned(G, d, h, Append(u, x), Append(p, x.conv))
<1> PICK r, q : Placed(G, d, h, u, p, r, q)
    BY DEF Aligned
<1>b. /\ r[Len(d)] \in Nat
      /\ \A n \in 0 .. Len(u) : q[n] \in Nat
      /\ \A n \in 1 .. Len(d) : d[n].kind = "page" => r[n] \in 1 .. Len(p)
      /\ h.kind = "page" => q[0] \in 1 .. Len(p)
      /\ \A n \in 1 .. Len(u) : u[n].kind = "history" => q[n] \in 1 .. Len(p)
  <2>1. Len(d) \in 0 .. Len(d)
    BY LenProperties
  <2> QED  BY <2>1, PlacesBound
<1> PICK t, s, k : t = Append(u, x) /\ s = Append(p, x.conv) /\ k = Len(u)
    OBVIOUS
<1>1. /\ Len(t) = k + 1 /\ t[k + 1] = x /\ (\A i \in 1 .. k : t[i] = u[i]) /\ k \in Nat
      /\ Len(s) = Len(p) + 1 /\ s[Len(p) + 1] = x.conv /\ (\A i \in 1 .. Len(p) : s[i] = p[i])
      /\ Len(p) \in Nat
  BY AppendProperties, LenProperties
<1>2. PICK g : /\ Counts(g, t, "history")
               /\ \A n \in 0 .. k : g[n] = q[n]
               /\ g[k + 1] = q[k] + 1
  BY CountsOfAppend DEF Placed
<1>3. q[k] = Len(p) /\ g[0] = q[0]
  BY <1>1, <1>2 DEF Placed
<1>4. \A n \in 1 .. Len(d) : d[n].kind = "page" => s[r[n]] = p[r[n]]
  BY <1>b, <1>1
<1>5. h.kind = "page" => s[g[0]] = p[q[0]]
  BY <1>b, <1>1, <1>3
<1>6. ASSUME NEW n \in 1 .. k + 1, t[n].kind = "history" PROVE t[n].conv = s[g[n]]
  <2>1. CASE n = k + 1
    BY <1>1, <1>2, <1>3, <2>1
  <2>2. CASE n \in 1 .. k
    <3>1. q[n] \in 1 .. Len(p) /\ u[n].conv = p[q[n]]
      BY <1>b, <1>1, <1>6, <2>2 DEF Placed
    <3>2. g[n] = q[n]
      BY <1>1, <1>2, <2>2
    <3> QED  BY <1>1, <2>2, <3>1, <3>2
  <2>3. n = k + 1 \/ n \in 1 .. k
    BY <1>1
  <2> QED  BY <2>1, <2>2, <2>3
<1>7. \A n \in 1 .. Len(d) : d[n].kind = "page" => <<d[n].ids, s[r[n]]>> \in G
  BY <1>4 DEF Placed
<1>8. h.kind = "page" => <<h.ids, s[g[0]]>> \in G
  BY <1>5 DEF Placed
<1>9. g[Len(t)] = Len(s)
  BY <1>1, <1>2, <1>3
<1>10. Placed(G, d, h, t, s, r, g)
  BY <1>1, <1>2, <1>3, <1>6, <1>7, <1>8, <1>9 DEF Placed
<1> QED
  BY <1>10 DEF Aligned

(* another request in one; *)
LEMMA AlignedSend ==
  ASSUME NEW G, NEW d \in Seq(Packet), NEW h, NEW u \in Seq(Packet), NEW p \in Seq(Convs),
         Aligned(G, d, h, u, p),
         NEW x \in Packet, x.kind # "history"
  PROVE  Aligned(G, d, h, Append(u, x), p)
<1> PICK r, q : Placed(G, d, h, u, p, r, q)
    BY DEF Aligned
<1> PICK t, k : t = Append(u, x) /\ k = Len(u)
    OBVIOUS
<1>1. Len(t) = k + 1 /\ t[k + 1] = x /\ (\A i \in 1 .. k : t[i] = u[i]) /\ k \in Nat
  BY AppendProperties, LenProperties
<1>2. PICK g : /\ Counts(g, t, "history")
               /\ \A n \in 0 .. k : g[n] = q[n]
               /\ g[k + 1] = q[k] + 0
  BY CountsOfAppend DEF Placed
<1>3. g[k + 1] = Len(p) /\ g[0] = q[0]
  BY <1>1, <1>2, LenProperties DEF Placed
<1>4. \A n \in 1 .. k + 1 : t[n].kind = "history" => n \in 1 .. k
  BY <1>1
<1>5. \A n \in 1 .. k : g[n] = q[n]
  BY <1>1, <1>2
<1>6. \A n \in 1 .. k + 1 : t[n].kind = "history" => t[n].conv = p[g[n]]
  BY <1>1, <1>4, <1>5 DEF Placed
<1>7. Placed(G, d, h, t, p, r, g)
  BY <1>1, <1>2, <1>3, <1>6 DEF Placed
<1> QED
  BY <1>7 DEF Aligned

(* the read loop takes a request, and has a page in hand if it was for one; *)
LEMMA AlignedTake ==
  ASSUME NEW G, NEW d \in Seq(Packet), NEW h, NEW u \in Seq(Packet), NEW p \in Seq(Convs),
         Aligned(G, d, h, u, p), h.kind # "page", u # <<>>,
         NEW x, x.kind = "page" <=> Head(u).kind = "history",
         x.kind = "page" => <<x.ids, Head(u).conv>> \in G
  PROVE  Aligned(G, d, x, Tail(u), p)
<1> PICK r, q : Placed(G, d, h, u, p, r, q)
    BY DEF Aligned
<1>b. /\ r[Len(d)] \in Nat
      /\ \A n \in 0 .. Len(u) : q[n] \in Nat
      /\ \A n \in 1 .. Len(d) : d[n].kind = "page" => r[n] \in 1 .. Len(p)
      /\ h.kind = "page" => q[0] \in 1 .. Len(p)
      /\ \A n \in 1 .. Len(u) : u[n].kind = "history" => q[n] \in 1 .. Len(p)
  <2>1. Len(d) \in 0 .. Len(d)
    BY LenProperties
  <2> QED  BY <2>1, PlacesBound
<1> PICK t, k : t = Tail(u) /\ k = Len(u) - 1
    OBVIOUS
<1>1. /\ Len(t) = k /\ (\A i \in 1 .. k : t[i] = u[i + 1]) /\ k \in Nat /\ Len(u) = k + 1
      /\ Head(u) = u[1]
  BY HeadTailProperties, EmptySeq
<1>2. \A n \in 0 .. k + 1 : q[n] \in Nat
  BY <1>b, <1>1
<1>3. PICK g : Counts(g, t, "history") /\ \A n \in 0 .. k : g[n] = q[n + 1] - 0
  <2>1. 0 \in Nat /\ 0 <= q[1]
    BY <1>1, <1>2
  <2>2. \E g : Counts(g, Tail(u), "history") /\ \A n \in 0 .. Len(u) - 1 : g[n] = q[n + 1] - 0
    BY <2>1, CountsOfTail DEF Placed
  <2> QED  BY <2>2
<1>4. \A n \in 0 .. k : g[n] = q[n + 1]
  <2> SUFFICES ASSUME NEW n \in 0 .. k PROVE g[n] = q[n + 1]
      OBVIOUS
  <2>1. q[n + 1] \in Nat /\ g[n] = q[n + 1] - 0
    BY <1>1, <1>2, <1>3
  <2> QED  BY <2>1
<1>5. g[0] = r[Len(d)] + IF x.kind = "page" THEN 1 ELSE 0
  <2>1. q[1] = q[0] + IF Head(u).kind = "history" THEN 1 ELSE 0
    <3>1. 1 \in 1 .. Len(u) /\ 1 - 1 = 0
      BY <1>1
    <3> QED  BY <1>1, <3>1 DEF Placed, Counts
  <2>2. q[0] = r[Len(d)] + 0 /\ r[Len(d)] \in Nat
    BY <1>b DEF Placed
  <2>3. g[0] = q[1]
    BY <1>1, <1>4
  <2> QED  BY <2>1, <2>2, <2>3
<1>6. g[k] = Len(p)
  BY <1>1, <1>4 DEF Placed
<1>7. \A n \in 1 .. k : t[n].kind = "history" => t[n].conv = p[g[n]]
  <2> SUFFICES ASSUME NEW n \in 1 .. k, t[n].kind = "history" PROVE t[n].conv = p[g[n]]
      OBVIOUS
  <2>1. n + 1 \in 1 .. Len(u) /\ n \in 0 .. k
    BY <1>1
  <2> QED  BY <1>1, <1>4, <2>1 DEF Placed
<1>8. x.kind = "page" => <<x.ids, p[g[0]]>> \in G
  <2>1. 1 \in 1 .. Len(u) /\ g[0] = q[1]
    BY <1>1, <1>4
  <2> QED  BY <1>1, <2>1 DEF Placed
<1>9. Placed(G, d, x, t, p, r, g)
  BY <1>1, <1>3, <1>5, <1>6, <1>7, <1>8 DEF Placed
<1> QED
  BY <1>9 DEF Aligned

(* its reply is on its way, *)
LEMMA AlignedReply ==
  ASSUME NEW G, NEW d \in Seq(Packet), NEW h \in Packet, NEW u \in Seq(Packet), NEW p \in Seq(Convs),
         Aligned(G, d, h, u, p),
         NEW x, x.kind # "page"
  PROVE  Aligned(G, Append(d, h), x, u, p)
<1> PICK r, q : Placed(G, d, h, u, p, r, q)
    BY DEF Aligned
<1>b. /\ r[Len(d)] \in Nat
      /\ \A n \in 0 .. Len(u) : q[n] \in Nat
      /\ \A n \in 1 .. Len(d) : d[n].kind = "page" => r[n] \in 1 .. Len(p)
      /\ h.kind = "page" => q[0] \in 1 .. Len(p)
      /\ \A n \in 1 .. Len(u) : u[n].kind = "history" => q[n] \in 1 .. Len(p)
  <2>1. Len(d) \in 0 .. Len(d)
    BY LenProperties
  <2> QED  BY <2>1, PlacesBound
<1> PICK t, k : t = Append(d, h) /\ k = Len(d)
    OBVIOUS
<1>1. Len(t) = k + 1 /\ t[k + 1] = h /\ (\A i \in 1 .. k : t[i] = d[i]) /\ k \in Nat
  BY AppendProperties, LenProperties
<1>2. PICK g : /\ Counts(g, t, "page")
               /\ \A n \in 0 .. k : g[n] = r[n]
               /\ g[k + 1] = r[k] + IF h.kind = "page" THEN 1 ELSE 0
  BY CountsOfAppend DEF Placed
<1>3. g[0] = 0 /\ g[k + 1] = q[0] /\ q[0] \in Nat
  <2>1. q[0] \in Nat
    BY <1>b, LenProperties
  <2> QED  BY <1>1, <1>2, <2>1 DEF Placed
<1>4. q[0] = g[k + 1] + 0
  BY <1>3
<1>5. ASSUME NEW n \in 1 .. k + 1, t[n].kind = "page" PROVE <<t[n].ids, p[g[n]]>> \in G
  <2>1. CASE n = k + 1
    BY <1>1, <1>3, <1>5, <2>1 DEF Placed
  <2>2. CASE n \in 1 .. k
    <3>1. g[n] = r[n] /\ t[n] = d[n]
      BY <1>1, <1>2, <2>2
    <3> QED  BY <1>5, <2>2, <3>1 DEF Placed
  <2>3. n = k + 1 \/ n \in 1 .. k
    BY <1>1
  <2> QED  BY <2>1, <2>2, <2>3
<1>6. x.kind = "page" => <<x.ids, p[q[0]]>> \in G
  OBVIOUS
<1>7. /\ Counts(q, u, "history") /\ q[Len(u)] = Len(p)
      /\ \A n \in 1 .. Len(u) : u[n].kind = "history" => u[n].conv = p[q[n]]
  BY DEF Placed
<1>8. q[0] = g[Len(t)] + IF x.kind = "page" THEN 1 ELSE 0
  BY <1>1, <1>4
<1>9. Placed(G, t, x, u, p, g, q)
  BY <1>1, <1>2, <1>3, <1>5, <1>6, <1>7, <1>8, Zenon DEF Placed
<1> QED
  BY <1>9 DEF Aligned

(* or is not, when it is no page; *)
LEMMA AlignedHand ==
  ASSUME NEW G, NEW d, NEW h, NEW u, NEW p, Aligned(G, d, h, u, p), h.kind # "page",
         NEW x, x.kind # "page"
  PROVE  Aligned(G, d, x, u, p)
<1> PICK r, q : Placed(G, d, h, u, p, r, q)
    BY DEF Aligned
<1>1. q[0] = r[Len(d)] + IF x.kind = "page" THEN 1 ELSE 0
  BY DEF Placed
<1>2. x.kind = "page" => <<x.ids, p[q[0]]>> \in G
  OBVIOUS
<1>3. Placed(G, d, x, u, p, r, q)
  BY <1>1, <1>2, Zenon DEF Placed
<1> QED
  BY <1>3 DEF Aligned

(* another event is put behind the pages; *)
LEMMA AlignedPush ==
  ASSUME NEW G, NEW d \in Seq(Packet), NEW h, NEW u \in Seq(Packet), NEW p \in Seq(Convs),
         Aligned(G, d, h, u, p),
         NEW x \in Packet, x.kind # "page"
  PROVE  Aligned(G, Append(d, x), h, u, p)
<1> PICK r, q : Placed(G, d, h, u, p, r, q)
    BY DEF Aligned
<1>b. /\ r[Len(d)] \in Nat
      /\ \A n \in 0 .. Len(u) : q[n] \in Nat
      /\ \A n \in 1 .. Len(d) : d[n].kind = "page" => r[n] \in 1 .. Len(p)
      /\ h.kind = "page" => q[0] \in 1 .. Len(p)
      /\ \A n \in 1 .. Len(u) : u[n].kind = "history" => q[n] \in 1 .. Len(p)
  <2>1. Len(d) \in 0 .. Len(d)
    BY LenProperties
  <2> QED  BY <2>1, PlacesBound
<1> PICK t, k : t = Append(d, x) /\ k = Len(d)
    OBVIOUS
<1>1. Len(t) = k + 1 /\ t[k + 1] = x /\ (\A i \in 1 .. k : t[i] = d[i]) /\ k \in Nat
  BY AppendProperties, LenProperties
<1>2. PICK g : /\ Counts(g, t, "page")
               /\ \A n \in 0 .. k : g[n] = r[n]
               /\ g[k + 1] = r[k] + 0
  BY CountsOfAppend DEF Placed
<1>3. g[0] = 0 /\ g[k + 1] = r[k]
  BY <1>b, <1>1, <1>2 DEF Placed
<1>4. \A n \in 1 .. k + 1 : t[n].kind = "page" => n \in 1 .. k
  BY <1>1
<1>5. \A n \in 1 .. k : g[n] = r[n]
  BY <1>1, <1>2
<1>6. \A n \in 1 .. k + 1 : t[n].kind = "page" => <<t[n].ids, p[g[n]]>> \in G
  BY <1>1, <1>4, <1>5 DEF Placed
<1>7. Placed(G, t, h, u, p, g, q)
  BY <1>1, <1>2, <1>3, <1>6 DEF Placed
<1> QED
  BY <1>7 DEF Aligned

(* the client takes an event that is no page, *)
LEMMA AlignedPop ==
  ASSUME NEW G, NEW d \in Seq(Packet), NEW h, NEW u \in Seq(Packet), NEW p \in Seq(Convs),
         Aligned(G, d, h, u, p), d # <<>>, Head(d).kind # "page"
  PROVE  Aligned(G, Tail(d), h, u, p)
<1> PICK r, q : Placed(G, d, h, u, p, r, q)
    BY DEF Aligned
<1>b. \A n \in 0 .. Len(d) : r[n] \in Nat
  BY PlacesBound
<1> PICK t, k : t = Tail(d) /\ k = Len(d) - 1
    OBVIOUS
<1>1. /\ Len(t) = k /\ (\A i \in 1 .. k : t[i] = d[i + 1]) /\ k \in Nat /\ Len(d) = k + 1
      /\ Head(d) = d[1]
  BY HeadTailProperties, EmptySeq
<1>2. r[1] = 0
  <2>1. 1 \in 1 .. Len(d) /\ 1 - 1 = 0 /\ d[1].kind # "page" /\ r[0] = 0
    BY <1>1 DEF Placed
  <2> QED  BY <2>1 DEF Placed, Counts
<1>3. PICK g : Counts(g, t, "page") /\ \A n \in 0 .. k : g[n] = r[n + 1] - 0
  <2>1. 0 \in Nat /\ 0 <= r[1]
    BY <1>2
  <2>2. \E g : Counts(g, Tail(d), "page") /\ \A n \in 0 .. Len(d) - 1 : g[n] = r[n + 1] - 0
    BY <2>1, CountsOfTail DEF Placed
  <2> QED  BY <2>2
<1>4. \A n \in 0 .. k : g[n] = r[n + 1]
  <2> SUFFICES ASSUME NEW n \in 0 .. k PROVE g[n] = r[n + 1]
      OBVIOUS
  <2>1. r[n + 1] \in Nat /\ g[n] = r[n + 1] - 0
    BY <1>b, <1>1, <1>3
  <2> QED  BY <2>1
<1>5. g[0] = 0 /\ g[k] = r[Len(d)]
  BY <1>1, <1>2, <1>4
<1>6. \A n \in 1 .. k : t[n].kind = "page" => <<t[n].ids, p[g[n]]>> \in G
  <2> SUFFICES ASSUME NEW n \in 1 .. k, t[n].kind = "page" PROVE <<t[n].ids, p[g[n]]>> \in G
      OBVIOUS
  <2>1. n + 1 \in 1 .. Len(d) /\ n \in 0 .. k
    BY <1>1
  <2> QED  BY <1>1, <1>4, <2>1 DEF Placed
<1>7. Placed(G, t, h, u, p, g, q)
  BY <1>1, <1>3, <1>5, <1>6 DEF Placed
<1> QED
  BY <1>7 DEF Aligned

(* or a page, which is for the window pending begins with; *)
LEMMA AlignedPage ==
  ASSUME NEW G, NEW d \in Seq(Packet), NEW h, NEW u \in Seq(Packet), NEW p \in Seq(Convs),
         Aligned(G, d, h, u, p), d # <<>>, Head(d).kind = "page"
  PROVE  /\ p # <<>>
         /\ <<Head(d).ids, Head(p)>> \in G
         /\ Aligned(G, Tail(d), h, u, Tail(p))
<1> PICK r, q : Placed(G, d, h, u, p, r, q)
    BY DEF Aligned
<1>b. /\ \A n \in 0 .. Len(d) : r[n] \in Nat
      /\ \A n \in 0 .. Len(u) : q[n] \in Nat
      /\ r[Len(d)] <= q[0]
      /\ \A n \in 1 .. Len(d) : d[n].kind = "page" => r[n] \in 1 .. Len(p)
      /\ h.kind = "page" => q[0] \in 1 .. Len(p)
      /\ \A n \in 1 .. Len(u) : u[n].kind = "history" => q[n] \in 1 .. Len(p)
  BY PlacesBound
<1> PICK t, k : t = Tail(d) /\ k = Len(d) - 1
    OBVIOUS
<1>1. /\ Len(t) = k /\ (\A i \in 1 .. k : t[i] = d[i + 1]) /\ k \in Nat /\ Len(d) = k + 1
      /\ Head(d) = d[1]
  BY HeadTailProperties, EmptySeq
<1>2. r[1] = 1
  <2>1. 1 \in 1 .. Len(d) /\ 1 - 1 = 0 /\ d[1].kind = "page" /\ r[0] = 0
    BY <1>1 DEF Placed
  <2>2. Counts(r, d, "page")
    BY DEF Placed
  <2> QED  BY <2>1, <2>2 DEF Counts
<1>3. 1 \in 1 .. Len(p) /\ <<Head(d).ids, p[1]>> \in G
  <2>1. 1 \in 1 .. Len(d) /\ d[1].kind = "page"
    BY <1>1
  <2>2. r[1] \in 1 .. Len(p) /\ <<d[1].ids, p[r[1]]>> \in G
    BY <1>b, <2>1 DEF Placed
  <2> QED  BY <1>1, <1>2, <2>2
<1>4. p # <<>>
  BY <1>3, EmptySeq, LenProperties
<1> PICK s, m : s = Tail(p) /\ m = Len(p) - 1
    OBVIOUS
<1>5. /\ Len(s) = m /\ (\A i \in 1 .. m : s[i] = p[i + 1]) /\ m \in Nat /\ Len(p) = m + 1
      /\ Head(p) = p[1]
  BY <1>4, HeadTailProperties, EmptySeq
<1>6. PICK g : Counts(g, t, "page") /\ \A n \in 0 .. k : g[n] = r[n + 1] - 1
  <2>1. 1 \in Nat /\ 1 <= r[1]
    BY <1>2
  <2>2. \E g : Counts(g, Tail(d), "page") /\ \A n \in 0 .. Len(d) - 1 : g[n] = r[n + 1] - 1
    BY <2>1, CountsOfTail DEF Placed
  <2> QED  BY <2>2
<1>7. 1 <= q[0]
  <2>1. r[1] <= r[Len(d)]
    <3>1. 1 \in 0 .. Len(d) /\ Len(d) \in 0 .. Len(d) /\ 1 <= Len(d)
      BY <1>1
    <3>2. Counts(r, d, "page")
      BY DEF Placed
    <3> QED  BY <3>1, <3>2 DEF Counts
  <2>2. r[Len(d)] \in Nat /\ q[0] \in Nat
    BY <1>b, LenProperties
  <2> QED  BY <1>b, <1>2, <2>1, <2>2
<1>8. PICK f : Counts(f, u, "history") /\ \A n \in 0 .. Len(u) : f[n] = q[n] - 1
  BY <1>7, CountsLess DEF Placed
<1>9. g[0] = 0
  BY <1>1, <1>2, <1>6
<1>10. f[0] = g[k] + IF h.kind = "page" THEN 1 ELSE 0
  <2>1. g[k] = r[Len(d)] - 1 /\ r[Len(d)] \in Nat
    BY <1>b, <1>1, <1>6
  <2>2. f[0] = q[0] - 1 /\ q[0] \in Nat
    BY <1>b, <1>8, LenProperties
  <2>3. q[0] = r[Len(d)] + IF h.kind = "page" THEN 1 ELSE 0
    BY DEF Placed
  <2> QED  BY <2>1, <2>2, <2>3
<1>11. f[Len(u)] = Len(s)
  <2>1. Len(u) \in 0 .. Len(u)
    BY LenProperties
  <2>2. f[Len(u)] = q[Len(u)] - 1
    BY <1>8, <2>1
  <2>3. q[Len(u)] = Len(p)
    BY DEF Placed
  <2> QED  BY <1>5, <2>2, <2>3
<1>12. \A n \in 1 .. k : t[n].kind = "page" => <<t[n].ids, s[g[n]]>> \in G
  <2> SUFFICES ASSUME NEW n \in 1 .. k, t[n].kind = "page" PROVE <<t[n].ids, s[g[n]]>> \in G
      OBVIOUS
  <2>1. n + 1 \in 1 .. Len(d) /\ n \in 0 .. k /\ 1 \in 0 .. Len(d)
    BY <1>1
  <2>2. r[n + 1] \in 1 .. Len(p) /\ <<t[n].ids, p[r[n + 1]]>> \in G
    BY <1>b, <1>1, <2>1 DEF Placed
  <2>3. g[n] \in 1 .. m
    <3>1. g[n] = r[n + 1] - 1
      BY <1>6, <2>1
    <3>2. r[n + 1] = r[n] + 1 /\ r[1] <= r[n]
      <4>1. Counts(r, d, "page") /\ n \in 0 .. Len(d) /\ 1 <= n /\ (n + 1) - 1 = n
        BY <1>1 DEF Placed
      <4>2. d[n + 1].kind = "page"
        BY <1>1
      <4> QED  BY <2>1, <4>1, <4>2 DEF Counts
    <3>3. r[n] \in Nat
      BY <1>b, <1>1
    <3> QED  BY <1>2, <1>5, <2>2, <3>1, <3>2, <3>3
  <2>4. g[n] + 1 = r[n + 1]
    BY <1>6, <2>1, <2>2
  <2> QED  BY <1>5, <2>2, <2>3, <2>4
<1>13. h.kind = "page" => <<h.ids, s[f[0]]>> \in G
  <2> SUFFICES ASSUME h.kind = "page" PROVE <<h.ids, s[f[0]]>> \in G
      OBVIOUS
  <2>1. q[0] \in 1 .. Len(p) /\ <<h.ids, p[q[0]]>> \in G
    BY <1>b DEF Placed
  <2>2. q[0] = r[Len(d)] + 1 /\ r[1] <= r[Len(d)] /\ r[Len(d)] \in Nat
    <3>1. 1 \in 0 .. Len(d) /\ Len(d) \in 0 .. Len(d) /\ 1 <= Len(d)
      BY <1>1
    <3>2. Counts(r, d, "page") /\ q[0] = r[Len(d)] + 1
      BY DEF Placed
    <3> QED  BY <1>b, <3>1, <3>2 DEF Counts
  <2>3. f[0] = q[0] - 1
    BY <1>8, LenProperties
  <2>4. f[0] \in 1 .. m /\ f[0] + 1 = q[0]
    BY <1>2, <1>5, <2>1, <2>2, <2>3
  <2> QED  BY <1>5, <2>1, <2>4
<1>14. \A n \in 1 .. Len(u) : u[n].kind = "history" => u[n].conv = s[f[n]]
  <2> SUFFICES ASSUME NEW n \in 1 .. Len(u), u[n].kind = "history" PROVE u[n].conv = s[f[n]]
      OBVIOUS
  <2>1. q[n] \in 1 .. Len(p) /\ u[n].conv = p[q[n]]
    BY <1>b DEF Placed
  <2>2. n \in 0 .. Len(u) /\ n - 1 \in 0 .. Len(u) /\ 0 \in 0 .. Len(u) /\ 0 <= n - 1
    BY LenProperties
  <2>3. q[n] = q[n - 1] + 1 /\ q[0] <= q[n - 1]
    <3>1. Counts(q, u, "history")
      BY DEF Placed
    <3> QED  BY <2>2, <3>1 DEF Counts
  <2>4. q[n - 1] \in Nat /\ q[0] \in Nat
    BY <1>b, <2>2
  <2>5. f[n] = q[n] - 1
    BY <1>8, <2>2
  <2>6. f[n] \in 1 .. m /\ f[n] + 1 = q[n]
    BY <1>5, <1>7, <2>1, <2>3, <2>4, <2>5
  <2> QED  BY <1>5, <2>1, <2>6
<1>15. Placed(G, t, h, u, s, g, f)
  BY <1>1, <1>6, <1>8, <1>9, <1>10, <1>11, <1>12, <1>13, <1>14 DEF Placed
<1> QED
  BY <1>3, <1>4, <1>5, <1>15 DEF Aligned

(* and the connection drops, with no page on its way and no request for    *)
(* one but the first ones (t).                                             *)
LEMMA AlignedDrop ==
  ASSUME NEW G, NEW d \in Seq(Packet), NEW h, NEW u \in Seq(Packet), NEW p \in Seq(Convs),
         Aligned(G, d, h, u, p),
         \A n \in 1 .. Len(d) : d[n].kind # "page",
         NEW t \in Seq(Packet), Len(t) <= Len(u), \A n \in 1 .. Len(t) : t[n] = u[n],
         \A n \in Len(t) + 1 .. Len(u) : u[n].kind # "history"
  PROVE  Aligned(G, <<>>, h, t, p)
<1> PICK r, q : Placed(G, d, h, u, p, r, q)
    BY DEF Aligned
<1>1. \A n \in 0 .. Len(d) : r[n] \in Nat
  BY PlacesBound
<1>2. \A n \in 0 .. Len(u) : q[n] \in Nat
  BY PlacesBound
<1>t. Len(t) \in Nat /\ Len(u) \in Nat /\ Len(t) \in 0 .. Len(u) /\ Len(u) \in 0 .. Len(u)
  BY LenProperties
<1>3. r[Len(d)] = 0
  <2>1. Counts(r, d, "page") /\ r[0] = 0
    BY DEF Placed
  <2>2. 0 \in 0 .. Len(d) /\ Len(d) \in 0 .. Len(d) /\ \A n \in 0 + 1 .. Len(d) : n \in 1 .. Len(d)
    BY LenProperties
  <2>3. ~(r[0] < r[Len(d)])
    BY <2>1, <2>2 DEF Counts
  <2> QED  BY <1>1, <2>1, <2>2, <2>3
<1>4. q[Len(u)] = q[Len(t)]
  <2>1. Counts(q, u, "history")
    BY DEF Placed
  <2>2. ~(q[Len(t)] < q[Len(u)]) /\ q[Len(t)] <= q[Len(u)]
    BY <1>t, <2>1 DEF Counts
  <2> QED  BY <1>2, <1>t, <2>2
<1> PICK k, l : k = Len(t) /\ l = Len(u)
    OBVIOUS
<1>f. PICK f : f = [n \in 0 .. k |-> q[n]]
  OBVIOUS
<1>5. Counts(f, t, "history")
  <2>1. Counts(q, u, "history")
    BY DEF Placed
  <2>2. \A n \in 0 .. k : n \in 0 .. l /\ f[n] = q[n]
    BY <1>t, <1>f
  <2>3. f \in [0 .. k -> Nat]
    BY <1>2, <1>f, <2>2
  <2>4. \A n \in 1 .. k : n \in 1 .. l /\ t[n] = u[n] /\ n \in 0 .. k /\ n - 1 \in 0 .. k
    BY <1>t
  <2>5. \A n \in 1 .. k : f[n] = f[n - 1] + IF t[n].kind = "history" THEN 1 ELSE 0
    BY <2>1, <2>2, <2>4 DEF Counts
  <2>6. \A m, n \in 0 .. k : m <= n => f[m] <= f[n]
    BY <2>1, <2>2 DEF Counts
  <2>7. ASSUME NEW m \in 0 .. k, NEW n \in 0 .. k, f[m] < f[n]
        PROVE  \E i \in m + 1 .. n : t[i].kind = "history"
    <3>1. PICK i \in m + 1 .. n : u[i].kind = "history"
      BY <2>1, <2>2, <2>7 DEF Counts
    <3>2. i \in 1 .. k
      BY <1>t
    <3> QED  BY <2>4, <3>1, <3>2
  <2> QED  BY <2>3, <2>5, <2>6, <2>7 DEF Counts
<1> DEFINE g == [n \in 0 .. 0 |-> 0]
<1>6. Len(<<>>) = 0 /\ g[0] = 0 /\ DOMAIN g = 0 .. 0
  BY EmptySeq
<1>7. Counts(g, <<>>, "page")
  BY <1>6 DEF Counts
<1> HIDE DEF g
<1>8. \A n \in 1 .. k : t[n].kind = "history" => t[n].conv = p[f[n]]
  <2>1. \A n \in 1 .. k : n \in 1 .. l /\ t[n] = u[n] /\ f[n] = q[n]
    BY <1>t, <1>f
  <2> QED  BY <2>1 DEF Placed
<1>9. \A n : ~(n \in 1 .. Len(<<>>))
  BY <1>6
<1>10. f[0] = q[0] /\ f[k] = q[k]
  BY <1>t, <1>f
<1>11. Placed(G, <<>>, h, t, p, g, f)
  BY <1>3, <1>4, <1>5, <1>6, <1>7, <1>8, <1>9, <1>10 DEF Placed
<1> QED
  BY <1>11 DEF Aligned

(* Only the windows of p matter to G. *)
LEMMA AlignedWiden ==
  ASSUME NEW G, NEW d \in Seq(Packet), NEW h, NEW u \in Seq(Packet), NEW p \in Seq(Convs),
         Aligned(G, d, h, u, p),
         NEW K, \A x, c : <<x, c>> \in G /\ c \in Items(p) => <<x, c>> \in K
  PROVE  Aligned(K, d, h, u, p)
<1> PICK r, q : Placed(G, d, h, u, p, r, q)
    BY DEF Aligned
<1>1. \A n \in 1 .. Len(p) : p[n] \in Items(p)
  BY LenProperties DEF Items
<1>2. /\ \A n \in 1 .. Len(d) : d[n].kind = "page" => r[n] \in 1 .. Len(p)
      /\ h.kind = "page" => q[0] \in 1 .. Len(p)
  BY PlacesBound
<1>3. \A n \in 1 .. Len(d) : d[n].kind = "page" => <<d[n].ids, p[r[n]]>> \in K
  BY <1>1, <1>2 DEF Placed
<1>4. h.kind = "page" => <<h.ids, p[q[0]]>> \in K
  BY <1>1, <1>2 DEF Placed
<1>5. Placed(K, d, h, u, p, r, q)
  BY <1>3, <1>4 DEF Placed
<1> QED
  BY <1>5 DEF Aligned

(* A request is for a window of p. *)
LEMMA AlignedAwaits ==
  ASSUME NEW G, NEW d \in Seq(Packet), NEW h, NEW u \in Seq(Packet), NEW p \in Seq(Convs),
         Aligned(G, d, h, u, p), NEW x \in Items(u), x.kind = "history"
  PROVE  x.conv \in Items(p)
<1> PICK r, q : Placed(G, d, h, u, p, r, q)
    BY DEF Aligned
<1>1. PICK n \in 1 .. Len(u) : x = u[n]
  BY LenProperties DEF Items
<1>2. q[n] \in 1 .. Len(p)
  BY <1>1, PlacesBound
<1>3. x.conv = p[q[n]]
  BY <1>1 DEF Placed
<1> QED
  BY <1>2, <1>3, LenProperties DEF Items

(* Messages told of are stored. *)
HeardInv ==
  /\ \A i \in out : i \in 1 .. Len(log)
  /\ \A a \in Answers : a.kind = "message" => a.id \in 1 .. Len(log)

OthersIdle == \A k \in Loops \ {1} : hand[k] = Nothing
EntriesBelong == \A c \in Convs : \A e \in Entries(c) : e.id # 0 => Within(log, {e.id}, c)
Pairs == {x \in (SUBSET Ids) \X Convs : Within(log, x[1], x[2])}

(* The requests the first connection still has to answer, as they were     *)
(* made: the one for which the messages are counted, and those on their    *)
(* way.                                                                    *)
requests == IF hand[1].kind = "history"
            THEN <<[hand[1] EXCEPT !.limit = PageSize]>> \o up ELSE up

PagesInStep == Aligned(Pairs, down, hand[1], requests, pending)
Orderly == OthersIdle /\ EntriesBelong /\ PagesInStep

InOrder == conn = 1 /\ "history" \notin lost => Orderly

LEMMA InitBelongs == Init => HeardInv /\ InOrder
<1> SUFFICES ASSUME Init PROVE HeardInv /\ Orderly
    BY DEF InOrder
<1>1. Items(down) = {} /\ Len(<<>>) = 0 /\ hand = [k \in Loops |-> Nothing] /\ 1 \in Loops
  BY ItemsOfEmpty, EmptySeq, ChatClientAssumption DEF Init, Loops
<1>2. \A k \in Loops : hand[k] = Nothing
  BY <1>1
<1>3. HeardInv
  BY <1>1, <1>2 DEF Init, HeardInv, Answers, Nothing
<1>4. OthersIdle
  BY <1>2 DEF OthersIdle
<1>5. EntriesBelong
  BY DEF Init, Closed, Entries, EntriesBelong
<1>6. PagesInStep
  <2> DEFINE g == [n \in 0 .. 0 |-> 0]
  <2>1. g[0] = 0 /\ g[0] = 0 + IF hand[1].kind = "page" THEN 1 ELSE 0
    BY <1>1, <1>2 DEF Nothing
  <2>2. \A kind : Counts(g, <<>>, kind)
    BY <1>1 DEF Counts
  <2> HIDE DEF g
  <2>3. hand[1].kind # "page"
    BY <1>1, <1>2 DEF Nothing
  <2>4. \A n : ~(n \in 1 .. Len(<<>>))
    BY <1>1
  <2>5. Placed(Pairs, <<>>, hand[1], <<>>, <<>>, g, g)
    BY <1>1, <2>1, <2>2, <2>3, <2>4 DEF Placed
  <2>6. requests = <<>>
    BY <1>1, <1>2 DEF Init, requests, Nothing
  <2> QED  BY <2>5, <2>6 DEF Aligned, PagesInStep, Init
<1> QED
  BY <1>3, <1>4, <1>5, <1>6 DEF Orderly

-----------------------------------------------------------------------------
(* What keeps the messages told of stored.                                 *)

LEMMA HeardKeeps ==
  ASSUME HeardInv, log' = log, \A i \in out' : i \in out,
         \A a \in Answers' : a.kind = "message" => a \in Answers
  PROVE  HeardInv'
BY DEF HeardInv

LEMMA HeardGrows ==
  ASSUME TypeInv, HeardInv, NEW m \in Stored, Len(log) < MaxMessages, log' = Append(log, m),
         \A i \in out' : i \in out \/ i = Len(log) + 1,
         \A a \in Answers' : a.kind = "message" => a \in Answers
  PROVE  HeardInv'
<1>1. Len(log) \in Nat /\ Len(log') = Len(log) + 1
  BY StoringTyped, LenProperties DEF TypeInv, TypeOK
<1>2. \A i : i \in 1 .. Len(log) \/ i = Len(log) + 1 => i \in 1 .. Len(log')
  BY <1>1
<1> QED
  BY <1>2 DEF HeardInv

LEMMA StepHeard == ASSUME TypeInv, HeardInv, [Next]_vars PROVE HeardInv'
<1>1. CASE User
  <2>1. UNCHANGED server /\ down' = down
    BY <1>1 DEF User, Open, Close, LoadMore, SendMessage, link, server
  <2> QED  BY <2>1, HeardKeeps DEF Answers, server
<1>2. CASE Client
  <2>1. ASSUME NEW kind, Arrives(kind), Consume PROVE HeardInv'
    BY <2>1, ConsumingKeeps, HeardKeeps DEF Consume, server
  <2>2. ASSUME NEW t \in Tokens, Timeout(t) PROVE HeardInv'
    BY <2>2, HeardKeeps DEF Timeout, server, link, Answers
  <2> QED  BY <1>2, <2>1, <2>2 DEF Client, OnMessage, OnPage, OnAck, OnError
<1>3. ASSUME NEW k \in Loops, Take(k), log' = log, NEW x, x.kind # "message",
             hand' = hand \/ hand' = [hand EXCEPT ![k] = x]
      PROVE  HeardInv'
  <2>1. out' = out /\ down' = down
    BY <1>3 DEF Take
  <2>2. Answers' \subseteq Answers \cup {x}
    BY <1>3, <2>1, HandingKeeps DEF Answers
  <2> QED  BY <1>3, <2>1, <2>2, HeardKeeps
<1>4. ASSUME NEW k \in Loops, DropRequest(k) PROVE HeardInv'
  <2>1. Take(k) /\ log' = log /\ hand' = hand
    BY <1>4 DEF DropRequest
  <2>2. Nothing.kind # "message"
    BY DEF Nothing
  <2> QED  BY <1>3, <2>1, <2>2
<1>c. ASSUME NEW k \in Loops, Count(k) PROVE HeardInv'
  <2> PICK x : x = Limited(Head(up))
      OBVIOUS
  <2>1. Take(k) /\ x.kind = "history" /\ hand' = [hand EXCEPT ![k] = x] /\ log' = log
    BY <1>c, TakingAsks, LimitedIs DEF Count, TypeInv
  <2> QED  BY <1>3, <2>1
<1>5. ASSUME NEW k \in Loops, ReadPage(k) PROVE HeardInv'
  <2> PICK x : x = PageOf(hand[k])
      OBVIOUS
  <2>1. x.kind = "page" /\ hand' = [hand EXCEPT ![k] = x] /\ UNCHANGED <<log, out, down>>
    BY <1>5, PageOfIs DEF ReadPage, PageOf, link
  <2>2. Answers' \subseteq Answers \cup {x}
    BY <2>1, HandingKeeps
  <2> QED  BY <2>1, <2>2, HeardKeeps
<1>6. ASSUME NEW k \in Loops, Refuse(k) PROVE HeardInv'
  <2> PICK x : x = [Head(up) EXCEPT !.kind = "error"]
      OBVIOUS
  <2>1. x.kind = "error"
    BY <1>6, TakingTyped DEF Refuse, TypeInv, Packet
  <2> QED  BY <1>3, <1>6, <2>1 DEF Refuse
<1>7. ASSUME NEW k \in Loops, Store(k) PROVE HeardInv'
  <2> PICK p, m, x : /\ p = Head(up)
                     /\ m = [conv |-> p.conv, token |-> p.token]
                     /\ x = [p EXCEPT !.kind = "ack", !.id = Len(log) + 1]
      OBVIOUS
  <2>1. Take(k) /\ Len(log) < MaxMessages /\ log' = Append(log, m) /\ hand' = [hand EXCEPT ![k] = x]
    BY <1>7 DEF Store
  <2>2. p \in Packet /\ p \in Items(up) /\ out' = out /\ down' = down
    BY <2>1, TakingTyped, TakingAsks DEF Take, TypeInv
  <2>3. m \in Stored /\ x.kind = "ack"
    BY <2>2 DEF Packet, Stored, TypeInv, Asked
  <2>4. Answers' \subseteq Answers \cup {x}
    BY <2>1, <2>2, HandingKeeps
  <2> QED  BY <2>1, <2>2, <2>3, <2>4, HeardGrows
<1>8. ASSUME NEW k \in Loops, Reply(k) PROVE HeardInv'
  <2>1. hand[k] \in Packet /\ hand' = [hand EXCEPT ![k] = Nothing] /\ Deliver(hand[k])
    BY <1>8 DEF Reply, TypeInv, TypeOK
  <2>2. Items(down') \subseteq Items(down) \cup {hand[k]}
    BY <2>1, DeliveringKeeps
  <2>3. \A j \in Loops : hand'[j] \in {hand[j], Nothing}
    BY <2>1 DEF TypeInv, TypeOK
  <2>4. Answers' \subseteq Answers \cup {Nothing}
    BY <2>2, <2>3 DEF Answers
  <2>5. Nothing.kind = "none"
    BY DEF Nothing
  <2> QED  BY <1>8, <2>4, <2>5, HeardKeeps DEF Reply
<1>9. ASSUME NEW c \in Convs, OtherSends(c) PROVE HeardInv'
  <2>1. [conv |-> c, token |-> 0] \in Stored /\ Answers' = Answers
    BY <1>9 DEF OtherSends, link, Stored, Answers
  <2> QED  BY <1>9, <2>1, HeardGrows DEF OtherSends
<1>10. ASSUME NEW i \in Ids, Broadcast(i) PROVE HeardInv'
  <2> PICK x : x = [Nothing EXCEPT !.kind = "message", !.id = i]
      OBVIOUS
  <2>1. x \in Packet /\ x.id = i /\ Deliver(x) /\ i \in out
    BY <1>10, PacketsTyped DEF Nothing, Broadcast
  <2>2. Answers' \subseteq Answers \cup {x} /\ log' = log /\ out' \subseteq out
    BY <1>10, <2>1, DeliveringKeeps DEF Answers, Broadcast
  <2> QED  BY <2>1, <2>2 DEF HeardInv
<1>11. CASE Disconnect
  <2>1. Items(down') = {} /\ UNCHANGED <<log, out, hand>>
    BY <1>11, ItemsOfEmpty DEF Disconnect, server
  <2> QED  BY <2>1, HeardKeeps DEF Answers
<1>12. CASE Reconnect
  BY <1>12, HeardKeeps DEF Reconnect, server, Answers
<1>13. CASE UNCHANGED vars
  BY <1>13, HeardKeeps DEF vars, server, link, Answers
<1> QED
  BY <1>1, <1>2, <1>c, <1>4, <1>5, <1>6, <1>7, <1>8, <1>9, <1>10, <1>11, <1>12, <1>13 DEF Next, Server

-----------------------------------------------------------------------------
(* What keeps pages and requests in step.                                  *)

LEMMA QueuesTyped ==
  ASSUME TypeInv
  PROVE  /\ down \in Seq(Packet) /\ up \in Seq(Packet) /\ pending \in Seq(Convs)
         /\ 1 \in Loops /\ hand \in [Loops -> Packet] /\ hand[1] \in Packet
BY ChatClientAssumption DEF TypeInv, TypeOK, Loops

(* A kind of packet lost shows in lost. *)
LEMMA LosingShows ==
  ASSUME NEW kinds, Lose(kinds), "history" \notin lost'
  PROVE  "history" \notin kinds /\ "page" \notin kinds
BY DEF Lose

LEMMA EntriesKeep ==
  ASSUME EntriesBelong, \A i \in 1 .. Len(log) : i \in 1 .. Len(log') /\ log'[i] = log[i],
         \A c \in Convs : \A e \in Entries(c)' :
           \/ \E d \in Entries(c) : e.id = d.id
           \/ e.id = 0
           \/ Within(log, {e.id}, c)
  PROVE  EntriesBelong'
<1> SUFFICES ASSUME NEW c \in Convs, NEW e \in Entries(c)', e.id # 0 PROVE Within(log', {e.id}, c)
    BY DEF EntriesBelong
<1>1. Within(log, {e.id}, c)
  BY DEF EntriesBelong
<1> QED
  BY <1>1 DEF Within

(* A connection that is the first and loses no page keeps pages and        *)
(* requests in step, whatever a page may have to be (G).                   *)
InStep(G) == Aligned(G, down, hand[1], requests, pending)
StillInStep(G) == Aligned(G, down', hand'[1], requests', pending')

(* A request as it was made. *)
LEMMA AsAsked ==
  ASSUME NEW p \in Packet
  PROVE  /\ [p EXCEPT !.limit = PageSize] \in Packet
         /\ [p EXCEPT !.limit = PageSize].kind = p.kind
         /\ [p EXCEPT !.limit = PageSize].conv = p.conv
         /\ [p EXCEPT !.limit = PageSize].offset = p.offset
<1>1. PageSize \in Int
  BY ChatClientAssumption
<1> QED
  BY <1>1 DEF Packet

(* The requests are the client's, *)
LEMMA RequestsTyped ==
  ASSUME TypeInv
  PROVE  /\ requests \in Seq(Packet)
         /\ \A p \in Items(requests) : p.kind \in {"history", "send"} /\ p.conv \in Convs
         /\ hand[1].kind # "history" => requests = up
         /\ hand[1].kind = "history" =>
              /\ requests # <<>> /\ Tail(requests) = up
              /\ Head(requests) = [hand[1] EXCEPT !.limit = PageSize]
              /\ Head(requests) \in Items(requests)
<1>1. CASE hand[1].kind # "history"
  BY <1>1, QueuesTyped DEF requests, TypeInv, Asked
<1>2. CASE hand[1].kind = "history"
  <2> DEFINE x == [hand[1] EXCEPT !.limit = PageSize]
  <2>1. x \in Packet /\ x.kind = "history" /\ x.conv \in Convs
    BY <1>2, QueuesTyped, AsAsked DEF TypeInv, Asked
  <2>2. requests = <<x>> \o up
    BY <1>2 DEF requests
  <2> HIDE DEF x
  <2>3. <<x>> \in Seq(Packet) /\ Len(<<x>>) = 1 /\ <<x>>[1] = x
    BY <2>1
  <2>4. /\ requests \in Seq(Packet) /\ Len(requests) = 1 + Len(up) /\ Len(up) \in Nat
        /\ \A i \in 1 .. Len(requests) : requests[i] = IF i <= 1 THEN <<x>>[i] ELSE up[i - 1]
    BY <2>2, <2>3, QueuesTyped, ConcatProperties, LenProperties
  <2>5. requests # <<>> /\ requests[1] = x
    BY <2>3, <2>4, EmptySeq
  <2>6. /\ Tail(requests) \in Seq(Packet) /\ Len(Tail(requests)) = Len(up)
        /\ \A i \in 1 .. Len(up) : Tail(requests)[i] = requests[i + 1]
    BY <2>4, <2>5, HeadTailProperties
  <2>7. \A i \in 1 .. Len(up) : requests[i + 1] = up[i]
    BY <2>4
  <2>8. Tail(requests) = up
    BY <2>6, <2>7, QueuesTyped, SeqEqual
  <2>9. Head(requests) = x
    BY <2>4, <2>5
  <2>10. Items(requests) = Items(up) \cup {x}
    BY <2>4, <2>5, <2>8, <2>9, ItemsOfTail
  <2> QED  BY <1>2, <2>1, <2>4, <2>5, <2>8, <2>9, <2>10 DEF TypeInv, Asked, x
<1> QED
  BY <1>1, <1>2

(* they stay as they are in most steps, *)
LEMMA RequestsSame ==
  ASSUME up' = up, hand'[1] = hand[1]
  PROVE  requests' = requests
BY DEF requests

(* and grow at the end. *)
LEMMA RequestsMore ==
  ASSUME TypeInv, NEW x \in Packet, up' = Append(up, x), hand'[1] = hand[1]
  PROVE  requests' = Append(requests, x)
<1>1. CASE hand[1].kind # "history"
  BY <1>1 DEF requests
<1>2. CASE hand[1].kind = "history"
  <2> DEFINE y == [hand[1] EXCEPT !.limit = PageSize]
  <2>1. y \in Packet
    BY QueuesTyped, AsAsked
  <2>2. requests = <<y>> \o up /\ requests' = <<y>> \o up'
    BY <1>2 DEF requests
  <2> HIDE DEF y
  <2>3. <<y>> \in Seq(Packet) /\ Len(<<y>>) = 1
    BY <2>1
  <2>4. up' \in Seq(Packet) /\ up \in Seq(Packet) /\ Len(up) \in Nat /\ Len(up') = Len(up) + 1
        /\ up'[Len(up) + 1] = x /\ \A i \in 1 .. Len(up) : up'[i] = up[i]
    BY QueuesTyped, AppendProperties, LenProperties
  <2>5. /\ requests \in Seq(Packet) /\ Len(requests) = 1 + Len(up)
        /\ \A i \in 1 .. 1 + Len(up) : requests[i] = IF i <= 1 THEN <<y>>[i] ELSE up[i - 1]
    BY <2>2, <2>3, <2>4, ConcatProperties
  <2>6. /\ requests' \in Seq(Packet) /\ Len(requests') = 1 + Len(up')
        /\ \A i \in 1 .. 1 + Len(up') : requests'[i] = IF i <= 1 THEN <<y>>[i] ELSE up'[i - 1]
    BY <2>2, <2>3, <2>4, ConcatProperties
  <2> PICK t : t = Append(requests, x)
      OBVIOUS
  <2>7. /\ t \in Seq(Packet) /\ Len(t) = Len(requests) + 1 /\ t[Len(requests) + 1] = x
        /\ \A i \in 1 .. Len(requests) : t[i] = requests[i]
    BY <2>5, AppendProperties
  <2>8. ASSUME NEW i \in 1 .. Len(t) PROVE t[i] = requests'[i]
    <3>1. CASE i <= Len(requests)
      <4>1. i <= 1 \/ i - 1 \in 1 .. Len(up)
        BY <2>4, <2>5, <3>1
      <4> QED  BY <2>4, <2>5, <2>6, <2>7, <3>1, <4>1
    <3>2. CASE i = Len(requests) + 1
      BY <2>4, <2>5, <2>6, <2>7, <3>2
    <3> QED  BY <2>4, <2>5, <2>7, <3>1, <3>2
  <2>9. Len(t) = Len(requests')
    BY <2>4, <2>5, <2>6, <2>7
  <2> QED  BY <2>6, <2>7, <2>8, <2>9, SeqEqual
<1> QED
  BY <1>1, <1>2

(* A request that is counted is still to be answered. *)
LEMMA RequestsCounted ==
  ASSUME TypeInv, Count(1), hand[1] = Nothing
  PROVE  requests' = requests /\ hand'[1] = Limited(Head(up)) /\ requests = up
<1> PICK p, x : p = Head(up) /\ x = Limited(p)
    OBVIOUS
<1>1. Take(1) /\ p.kind = "history" /\ hand' = [hand EXCEPT ![1] = x] /\ up # <<>> /\ up' = Tail(up)
  BY DEF Count, Take
<1>2. p \in Packet /\ p.limit = PageSize
  BY <1>1, QueuesTyped, TakingAsks
<1>3. x.kind = "history" /\ [x EXCEPT !.limit = PageSize] = p /\ hand'[1] = x
  BY <1>1, <1>2, QueuesTyped, LimitedIs, HandIs DEF TypeInv
<1>4. requests = up /\ requests' = <<p>> \o Tail(up)
  BY <1>1, <1>3 DEF requests, Nothing
<1>5. <<p>> \in Seq(Packet) /\ Len(<<p>>) = 1 /\ <<p>>[1] = p /\ up[1] = p /\ Len(up) \in Nat \ {0}
  BY <1>1, <1>2, QueuesTyped, HeadTailProperties, EmptySeq
<1>6. /\ Tail(up) \in Seq(Packet) /\ Len(Tail(up)) = Len(up) - 1
      /\ \A i \in 1 .. Len(up) - 1 : Tail(up)[i] = up[i + 1]
  BY <1>1, QueuesTyped, HeadTailProperties
<1> PICK t, u : t = <<p>> \o u /\ u = Tail(up)
    OBVIOUS
<1>7. /\ t \in Seq(Packet) /\ Len(t) = Len(up)
      /\ \A i \in 1 .. Len(up) : t[i] = IF i <= 1 THEN <<p>>[i] ELSE u[i - 1]
  BY <1>5, <1>6, ConcatProperties
<1>8. \A i \in 1 .. Len(up) : i <= 1 \/ (i - 1 \in 1 .. Len(up) - 1 /\ (i - 1) + 1 = i)
  BY <1>5
<1>9. \A i \in 1 .. Len(t) : t[i] = up[i]
  BY <1>5, <1>6, <1>7, <1>8
<1>10. t = up
  BY <1>7, <1>9, QueuesTyped, SeqEqual
<1> QED
  BY <1>3, <1>4, <1>10

LEMMA AskAligned ==
  ASSUME TypeInv, NEW G, InStep(G), NEW c \in Convs, NEW n \in Nat, AskHistory(c, n),
         UNCHANGED <<down, hand>>, "history" \notin lost'
  PROVE  StillInStep(G)
<1> PICK x : x = Request(c, n)
    OBVIOUS
<1>1. x \in Packet /\ x.kind = "history" /\ x.conv = c /\ Send(x) /\ pending' = Append(pending, c)
  BY RequestIs
<1>2. up' = Append(up, x)
  BY <1>1, LosingShows DEF Send
<1>3. requests' = Append(requests, x)
  BY <1>1, <1>2, RequestsMore
<1>4. Aligned(G, down, hand[1], Append(requests, x), Append(pending, x.conv))
  BY <1>1, QueuesTyped, RequestsTyped, AlignedAsk DEF InStep
<1> QED
  BY <1>1, <1>3, <1>4 DEF StillInStep

LEMMA UserAligned ==
  ASSUME TypeInv, NEW G, InStep(G), User, "history" \notin lost'
  PROVE  StillInStep(G)
<1>1. UNCHANGED <<hand, down>>
  BY DEF User, Open, Close, LoadMore, SendMessage, link, server
<1>2. ASSUME NEW c \in Convs, Open(c) PROVE StillInStep(G)
  BY <1>1, <1>2, AskAligned DEF Open
<1>3. ASSUME NEW c \in Convs, Close(c) PROVE StillInStep(G)
  BY <1>1, <1>3, RequestsSame DEF Close, link, InStep, StillInStep
<1>4. ASSUME NEW c \in Convs, LoadMore(c) PROVE StillInStep(G)
  <2>1. win[c].offset + PageSize \in Nat
    BY ChatClientAssumption DEF TypeInv, TypeOK, Window
  <2> QED  BY <1>1, <1>4, <2>1, AskAligned DEF LoadMore
<1>5. ASSUME NEW c \in Convs, SendMessage(c) PROVE StillInStep(G)
  <2>1. sends' \in Tokens
    BY <1>5, ChatClientAssumption DEF SendMessage, TypeInv, TypeOK, Tokens
  <2> PICK x : x = [Nothing EXCEPT !.kind = "send", !.conv = c, !.token = sends']
      OBVIOUS
  <2>2. x \in Packet /\ x.kind = "send"
    BY <2>1, PacketsTyped DEF Nothing
  <2>3. up' = up \/ up' = Append(up, x)
    BY <1>5 DEF SendMessage, Send
  <2>4. Aligned(G, down, hand[1], Append(requests, x), pending)
    BY <2>2, QueuesTyped, RequestsTyped, AlignedSend DEF InStep
  <2>5. requests' = requests \/ requests' = Append(requests, x)
    BY <1>1, <2>2, <2>3, RequestsSame, RequestsMore
  <2> QED  BY <1>1, <1>5, <2>4, <2>5 DEF SendMessage, InStep, StillInStep
<1> QED
  BY <1>2, <1>3, <1>4, <1>5 DEF User

LEMMA ClientAligned == ASSUME TypeInv, NEW G, InStep(G), Client PROVE StillInStep(G)
<1>1. UNCHANGED <<hand, up>>
  BY DEF Client, Timeout, OnMessage, OnPage, OnAck, OnError, Consume, link, server
<1>r. requests' = requests
  BY <1>1, RequestsSame
<1>2. ASSUME NEW kind, kind # "page", Arrives(kind), Consume, pending' = pending PROVE StillInStep(G)
  <2>1. Aligned(G, Tail(down), hand[1], requests, pending)
    BY <1>2, QueuesTyped, RequestsTyped, AlignedPop DEF Arrives, InStep
  <2> QED  BY <1>1, <1>r, <1>2, <2>1 DEF Consume, StillInStep
<1>3. ASSUME NEW t \in Tokens, Timeout(t) PROVE StillInStep(G)
  BY <1>r, <1>3 DEF Timeout, server, link, InStep, StillInStep
<1>4. CASE OnMessage
  BY <1>2, <1>4 DEF OnMessage
<1>5. CASE OnPage
  <2>1. down # <<>> /\ Head(down).kind = "page" /\ Consume
    BY <1>5 DEF OnPage, Arrives
  <2>2. pending # <<>> /\ Aligned(G, Tail(down), hand[1], requests, Tail(pending))
    BY <2>1, QueuesTyped, RequestsTyped, AlignedPage DEF InStep
  <2>3. pending' = Tail(pending)
    BY <1>5, <2>2 DEF OnPage
  <2> QED  BY <1>1, <1>r, <2>1, <2>2, <2>3 DEF Consume, StillInStep
<1>6. CASE OnAck
  BY <1>2, <1>6 DEF OnAck
<1>7. CASE OnError
  BY <1>2, <1>7 DEF OnError
<1> QED
  BY <1>3, <1>4, <1>5, <1>6, <1>7 DEF Client

(* The one read loop at work is the first one. *)
LEMMA OneLoop ==
  ASSUME TypeInv, OthersIdle, conn = 1
  PROVE  /\ \A k \in Loops : hand[k] # Nothing => k = 1
         /\ \A k \in Loops : Take(k) => k = 1 /\ UNCHANGED <<win, down, pending>> /\ hand[1] = Nothing
         /\ \A k \in Loops : hand[k].kind # "none" => k = 1
         /\ \A x : hand' = [hand EXCEPT ![1] = x] => hand'[1] = x /\ OthersIdle'
<1>1. hand \in [Loops -> Packet] /\ 1 \in Loops
  BY QueuesTyped
<1>2. Nothing.kind = "none"
  BY DEF Nothing
<1>3. \A k \in Loops : Take(k) => k = 1 /\ UNCHANGED <<win, down, pending>> /\ hand[1] = Nothing
  BY DEF Take, client
<1> QED
  BY <1>1, <1>2, <1>3 DEF OthersIdle

LEMMA ServerAligned ==
  ASSUME TypeInv, OthersIdle, NEW G, InStep(G), Server, conn = 1, "history" \notin lost',
         ReadPage(1) => <<PageOf(hand[1]).ids, hand[1].conv>> \in G
  PROVE  StillInStep(G) /\ OthersIdle'
<1> Nothing.kind = "none"
    BY DEF Nothing
<1>1. ASSUME NEW k \in Loops, Take(k), NEW x, Head(up).kind # "history", x.kind \notin {"page", "history"},
             hand'[1] = x
      PROVE  StillInStep(G)
  <2>1. hand[1] = Nothing /\ up # <<>> /\ up' = Tail(up) /\ requests = up
    BY <1>1, OneLoop, RequestsTyped DEF Take
  <2>2. Aligned(G, down, x, Tail(up), pending)
    BY <1>1, <2>1, QueuesTyped, AlignedTake DEF InStep
  <2>3. requests' = up'
    BY <1>1 DEF requests
  <2> QED  BY <1>1, <2>1, <2>2, <2>3, OneLoop DEF StillInStep
<1>2. ASSUME NEW k \in Loops, DropRequest(k) PROVE StillInStep(G) /\ OthersIdle'
  <2>1. Take(k) /\ hand' = hand /\ Head(up).kind # "history"
    BY <1>2, LosingShows DEF DropRequest
  <2>2. hand'[1].kind \notin {"page", "history"}
    BY <2>1, OneLoop
  <2> QED  BY <1>1, <2>1, <2>2 DEF OthersIdle
<1>c. ASSUME NEW k \in Loops, Count(k) PROVE StillInStep(G) /\ OthersIdle'
  <2> PICK x : x = Limited(Head(up))
      OBVIOUS
  <2>1. /\ k = 1 /\ hand[1] = Nothing /\ Take(1) /\ UNCHANGED <<down, pending>>
        /\ hand' = [hand EXCEPT ![1] = x]
    BY <1>c, OneLoop DEF Count
  <2>2. x.kind # "page" /\ requests' = requests /\ hand'[1] = x /\ OthersIdle'
    <3>1. x.kind = "history"
      BY <1>c, <2>1, TakingAsks, LimitedIs DEF Count, TypeInv
    <3> QED  BY <1>c, <2>1, <3>1, RequestsCounted, OneLoop
  <2>3. Aligned(G, down, x, requests, pending)
    BY <2>1, <2>2, AlignedHand DEF InStep
  <2> QED  BY <2>1, <2>2, <2>3 DEF StillInStep
<1>3. ASSUME NEW k \in Loops, ReadPage(k) PROVE StillInStep(G) /\ OthersIdle'
  <2> PICK h, x : h = hand[1] /\ x = PageOf(h)
      OBVIOUS
  <2>1. /\ k = 1 /\ h.kind = "history" /\ hand' = [hand EXCEPT ![1] = x]
        /\ UNCHANGED <<up, down, pending>>
    BY <1>3, OneLoop DEF ReadPage, PageOf, link, client
  <2>2. x.kind = "page" /\ <<x.ids, h.conv>> \in G
    BY <1>3, <2>1, PageOfIs
  <2>3. hand'[1] = x /\ OthersIdle'
    BY <2>1, OneLoop
  <2>4. requests # <<>> /\ Tail(requests) = up /\ Head(requests) = [h EXCEPT !.limit = PageSize]
    BY <2>1, RequestsTyped
  <2>5. Head(requests).kind = "history" /\ Head(requests).conv = h.conv
    BY <2>1, <2>4, QueuesTyped DEF Packet
  <2>6. requests' = up
    BY <2>1, <2>2, <2>3 DEF requests
  <2>7. Aligned(G, down, x, Tail(requests), pending)
    BY <2>1, <2>2, <2>4, <2>5, QueuesTyped, RequestsTyped, AlignedTake DEF InStep
  <2> QED  BY <2>1, <2>3, <2>4, <2>6, <2>7 DEF StillInStep
<1>4. ASSUME NEW k \in Loops, Refuse(k) PROVE StillInStep(G) /\ OthersIdle'
  <2> PICK x : x = [Head(up) EXCEPT !.kind = "error"]
      OBVIOUS
  <2>1. x.kind = "error"
    BY <1>4, TakingTyped DEF Refuse, TypeInv, Packet
  <2>2. Take(k) /\ Head(up).kind = "send"
    BY <1>4 DEF Refuse
  <2>3. hand' = [hand EXCEPT ![1] = x]
    BY <1>4, <2>2, OneLoop DEF Refuse
  <2> QED  BY <1>1, <2>1, <2>2, <2>3, OneLoop
<1>5. ASSUME NEW k \in Loops, Store(k) PROVE StillInStep(G) /\ OthersIdle'
  <2> PICK x : x = [Head(up) EXCEPT !.kind = "ack", !.id = Len(log) + 1]
      OBVIOUS
  <2>1. x.kind = "ack"
    BY <1>5, TakingTyped DEF Store, TypeInv, Packet
  <2>2. Take(k) /\ Head(up).kind = "send"
    BY <1>5 DEF Store
  <2>3. hand' = [hand EXCEPT ![1] = x]
    BY <1>5, <2>2, OneLoop DEF Store
  <2> QED  BY <1>1, <2>1, <2>2, <2>3, OneLoop
<1>6. ASSUME NEW k \in Loops, Reply(k) PROVE StillInStep(G) /\ OthersIdle'
  <2>1. /\ hand' = [hand EXCEPT ![1] = Nothing] /\ Deliver(hand[1]) /\ UNCHANGED <<up, pending>>
        /\ hand[1].kind # "history"
    BY <1>6, OneLoop DEF Reply, client
  <2>r. requests = up /\ requests' = up
    BY <2>1, OneLoop DEF requests
  <2>2. CASE down' = Append(down, hand[1])
    <3>1. Aligned(G, Append(down, hand[1]), Nothing, up, pending)
      BY <2>r, QueuesTyped, AlignedReply DEF InStep
    <3> QED  BY <2>1, <2>r, <2>2, <3>1, OneLoop DEF StillInStep
  <2>3. CASE down' = down /\ Lose({hand[1].kind})
    <3>1. hand[1].kind # "page"
      BY <2>3, LosingShows
    <3>2. Aligned(G, down, Nothing, up, pending)
      BY <2>r, <3>1, AlignedHand DEF InStep
    <3> QED  BY <2>1, <2>r, <2>3, <3>2, OneLoop DEF StillInStep
  <2> QED  BY <2>1, <2>2, <2>3 DEF Deliver
<1>7. ASSUME NEW c \in Convs, OtherSends(c) PROVE StillInStep(G) /\ OthersIdle'
  BY <1>7, RequestsSame DEF OtherSends, link, client, InStep, StillInStep, OthersIdle
<1>8. ASSUME NEW i \in Ids, Broadcast(i) PROVE StillInStep(G) /\ OthersIdle'
  <2> PICK x : x = [Nothing EXCEPT !.kind = "message", !.id = i]
      OBVIOUS
  <2>1. x \in Packet /\ x.kind = "message" /\ Deliver(x)
    BY <1>8, PacketsTyped DEF Nothing, Broadcast
  <2>2. UNCHANGED <<hand, pending>> /\ requests' = requests
    BY <1>8, RequestsSame DEF Broadcast, client
  <2>3. Aligned(G, Append(down, x), hand[1], requests, pending)
    BY <2>1, QueuesTyped, RequestsTyped, AlignedPush DEF InStep
  <2>4. down' = down \/ down' = Append(down, x)
    BY <2>1 DEF Deliver
  <2> QED  BY <2>2, <2>3, <2>4 DEF InStep, StillInStep, OthersIdle
<1> QED
  BY <1>c, <1>2, <1>3, <1>4, <1>5, <1>6, <1>7, <1>8 DEF Server

LEMMA DisconnectAligned ==
  ASSUME TypeInv, NEW G, InStep(G), Disconnect, "history" \notin lost'
  PROVE  StillInStep(G)
<1>1. UNCHANGED <<hand, pending>> /\ up' = <<>> /\ down' = <<>>
  BY DEF Disconnect, server, client
<1> PICK s : s = {up[n].kind : n \in DOMAIN up} \cup {down[n].kind : n \in DOMAIN down}
    OBVIOUS
<1>2. "history" \notin s /\ "page" \notin s
  BY LosingShows DEF Disconnect
<1>3. DOMAIN up = 1 .. Len(up) /\ DOMAIN down = 1 .. Len(down)
  BY QueuesTyped, LenProperties
<1>4. (\A n \in 1 .. Len(down) : down[n].kind # "page") /\ \A n \in 1 .. Len(up) : up[n].kind # "history"
  BY <1>2, <1>3
<1>5. /\ requests' \in Seq(Packet) /\ Len(requests') <= Len(requests)
      /\ \A n \in 1 .. Len(requests') : requests'[n] = requests[n]
      /\ \A n \in Len(requests') + 1 .. Len(requests) : requests[n].kind # "history"
  <2>1. CASE hand[1].kind # "history"
    <3>1. requests = up /\ requests' = <<>>
      BY <1>1, <2>1 DEF requests
    <3> QED  BY <1>4, <3>1, QueuesTyped, EmptySeq, LenProperties
  <2>2. CASE hand[1].kind = "history"
    <3> PICK x : x = [hand[1] EXCEPT !.limit = PageSize]
        OBVIOUS
    <3>1. requests = <<x>> \o up /\ requests' = <<x>> \o <<>> /\ x \in Packet
      BY <1>1, <2>2, QueuesTyped, AsAsked DEF requests
    <3>2. <<x>> \in Seq(Packet) /\ Len(<<x>>) = 1 /\ <<x>> \o <<>> = <<x>> /\ Len(up) \in Nat
      BY <3>1, QueuesTyped, ConcatEmptySeq, LenProperties
    <3>3. /\ Len(requests) = 1 + Len(up)
          /\ \A n \in 1 .. 1 + Len(up) : requests[n] = IF n <= 1 THEN <<x>>[n] ELSE up[n - 1]
      BY <3>1, <3>2, QueuesTyped, ConcatProperties
    <3>4. \A n \in 2 .. Len(requests) : n - 1 \in 1 .. Len(up) /\ requests[n] = up[n - 1]
      BY <3>2, <3>3
    <3> QED  BY <1>4, <3>1, <3>2, <3>3, <3>4
  <2> QED  BY <2>1, <2>2
<1>6. Aligned(G, <<>>, hand[1], requests', pending)
  BY <1>4, <1>5, QueuesTyped, RequestsTyped, AlignedDrop DEF InStep
<1> QED
  BY <1>1, <1>6 DEF StillInStep

(* Nothing but a loss or a new connection gets lost and conn to change. *)
LEMMA NoWayBack ==
  ASSUME TypeInv, [Next]_vars
  PROVE  /\ lost \subseteq lost'
         /\ conn' = 1 => conn = 1 /\ ~Reconnect
<1>1. \A kinds : Lose(kinds) => lost \subseteq lost'
  BY DEF Lose
<1>2. Reconnect => conn' # 1 /\ lost' = lost
  BY DEF Reconnect, TypeInv, TypeOK, Loops
<1> SUFFICES ASSUME ~Reconnect PROVE lost \subseteq lost' /\ conn' = conn
    BY <1>2
<1>3. CASE User
  BY <1>1, <1>3 DEF User, Open, Close, LoadMore, SendMessage, AskHistory, Send, link
<1>4. CASE Client
  BY <1>4 DEF Client, Timeout, OnMessage, OnPage, OnAck, OnError, Consume, link
<1>5. CASE Server
  BY <1>1, <1>5 DEF Server, DropRequest, Count, ReadPage, Store, Refuse, Reply, OtherSends, Broadcast,
                     Take, Deliver, link
<1>6. CASE Disconnect
  BY <1>1, <1>6 DEF Disconnect
<1>7. CASE UNCHANGED vars
  BY <1>7 DEF vars, link
<1> QED
  BY <1>3, <1>4, <1>5, <1>6, <1>7 DEF Next

LEMMA StepAligned ==
  ASSUME TypeInv, OthersIdle, NEW G, InStep(G), [Next]_vars, conn' = 1, "history" \notin lost',
         ReadPage(1) => <<PageOf(hand[1]).ids, hand[1].conv>> \in G
  PROVE  StillInStep(G) /\ OthersIdle'
<1>1. conn = 1 /\ ~Reconnect
  BY NoWayBack
<1>2. CASE User
  <2>1. hand' = hand
    BY <1>2 DEF User, Open, Close, LoadMore, SendMessage, link, server
  <2> QED  BY <1>2, <2>1, UserAligned DEF OthersIdle
<1>3. CASE Client
  <2>1. hand' = hand
    BY <1>3 DEF Client, Timeout, OnMessage, OnPage, OnAck, OnError, Consume, link, server
  <2> QED  BY <1>3, <2>1, ClientAligned DEF OthersIdle
<1>4. CASE Server
  BY <1>1, <1>4, ServerAligned
<1>5. CASE Disconnect
  <2>1. hand' = hand
    BY <1>5 DEF Disconnect, server
  <2> QED  BY <1>5, <2>1, DisconnectAligned DEF OthersIdle
<1>6. CASE UNCHANGED vars
  BY <1>6, RequestsSame DEF vars, server, link, client, InStep, StillInStep, OthersIdle
<1> QED
  BY <1>1, <1>2, <1>3, <1>4, <1>5, <1>6 DEF Next

(* Messages stored stay as they are. *)
LEMMA LogGrows ==
  ASSUME TypeInv, [Next]_vars
  PROVE  \A i \in 1 .. Len(log) : i \in 1 .. Len(log') /\ log'[i] = log[i]
<1>1. ASSUME NEW m \in Stored, Len(log) < MaxMessages, log' = Append(log, m)
      PROVE  \A i \in 1 .. Len(log) : i \in 1 .. Len(log') /\ log'[i] = log[i]
  <2>1. Len(log) \in Nat /\ Len(log') = Len(log) + 1
    BY <1>1, StoringTyped, LenProperties DEF TypeInv, TypeOK
  <2>2. \A i \in 1 .. Len(log) : i \in 1 .. Len(log')
    BY <2>1
  <2> QED  BY <1>1, <2>2, StoringTyped DEF TypeInv
<1>2. ASSUME NEW k \in Loops, Store(k)
      PROVE  \A i \in 1 .. Len(log) : i \in 1 .. Len(log') /\ log'[i] = log[i]
  <2>1. Head(up) \in Packet /\ Head(up) \in Items(up) /\ Head(up).conv \in Convs
    BY <1>2, TakingTyped, TakingAsks DEF Store, TypeInv, Asked
  <2>2. [conv |-> Head(up).conv, token |-> Head(up).token] \in Stored
    BY <2>1 DEF Packet, Stored
  <2> QED  BY <1>1, <1>2, <2>2 DEF Store
<1>3. ASSUME NEW c \in Convs, OtherSends(c)
      PROVE  \A i \in 1 .. Len(log) : i \in 1 .. Len(log') /\ log'[i] = log[i]
  <2>1. [conv |-> c, token |-> 0] \in Stored
    BY DEF Stored
  <2> QED  BY <1>1, <1>3, <2>1 DEF OtherSends
<1>4. (\E k \in Loops : Store(k)) \/ (\E c \in Convs : OtherSends(c)) \/ log' = log
  <2>1. CASE User
    BY <2>1 DEF User, Open, Close, LoadMore, SendMessage, server
  <2>2. CASE Client
    BY <2>2 DEF Client, Timeout, OnMessage, OnPage, OnAck, OnError, Consume, server
  <2>3. CASE Server
    BY <2>3 DEF Server, DropRequest, Count, ReadPage, Refuse, Reply, Broadcast
  <2>4. CASE Disconnect \/ Reconnect \/ UNCHANGED vars
    BY <2>4 DEF Disconnect, Reconnect, vars, server
  <2> QED  BY <2>1, <2>2, <2>3, <2>4 DEF Next
<1> QED
  BY <1>2, <1>3, <1>4

LEMMA RequestsStayTyped ==
  ASSUME NEW h \in Packet, NEW u \in Seq(Packet)
  PROVE  <<[h EXCEPT !.limit = PageSize]>> \o u \in Seq(Packet)
<1>1. <<[h EXCEPT !.limit = PageSize]>> \in Seq(Packet)
  BY AsAsked
<1> QED
  BY <1>1, ConcatProperties

LEMMA StepInStep ==
  ASSUME TypeInv, OthersIdle, PagesInStep, [Next]_vars, conn' = 1, "history" \notin lost'
  PROVE  PagesInStep' /\ OthersIdle'
<1> PICK G : G = Pairs
    OBVIOUS
<1>1. ASSUME ReadPage(1) PROVE <<PageOf(hand[1]).ids, hand[1].conv>> \in G
  <2> PICK h, s : h = hand[1] /\ s = Page(h.conv, h.offset, h.limit)
      OBVIOUS
  <2>1. h.conv \in Convs
    BY <1>1, QueuesTyped DEF ReadPage, TypeInv, Asked
  <2>2. Within(log, s, h.conv)
    BY DEF Page, Within
  <2>3. s \subseteq Ids
    BY PagesTyped DEF TypeInv
  <2> QED  BY <2>1, <2>2, <2>3, PageOfIs DEF Pairs
<1>2. StillInStep(G) /\ OthersIdle'
  BY <1>1, StepAligned DEF PagesInStep, InStep
<1>3. \A x, c : <<x, c>> \in G => <<x, c>> \in Pairs'
  <2>1. \A x, c : Within(log, x, c) => Within(log', x, c)
    BY LogGrows DEF Within
  <2>2. \A x, c : <<x, c>> \in G => x \in SUBSET Ids /\ c \in Convs /\ Within(log, x, c)
    BY DEF Pairs
  <2> QED  BY <2>1, <2>2 DEF Pairs
<1>4. down' \in Seq(Packet) /\ requests' \in Seq(Packet) /\ pending' \in Seq(Convs)
  <2>1. /\ down' \in Seq(Packet) /\ up' \in Seq(Packet) /\ pending' \in Seq(Convs)
        /\ hand'[1] \in Packet
    BY StepTyped, QueuesTyped DEF TypeInv, TypeOK
  <2> QED  BY <2>1, RequestsStayTyped DEF requests
<1>5. PagesInStep'
  BY <1>2, <1>3, <1>4, AlignedWiden DEF StillInStep, PagesInStep
<1> QED
  BY <1>2, <1>5

LEMMA StepEntries ==
  ASSUME TypeInv, AckInv, HeardInv, Orderly, [Next]_vars
  PROVE  EntriesBelong'
<1>1. ASSUME \A c \in Convs : \A e \in Entries(c)' :
               \/ \E d \in Entries(c) : e.id = d.id
               \/ e.id = 0
               \/ Within(log, {e.id}, c)
      PROVE  EntriesBelong'
  BY <1>1, LogGrows, EntriesKeep DEF Orderly
<1>2. ASSUME NEW t, win' = Failed(t) PROVE EntriesBelong'
  <2>1. \A c \in Convs : \A e \in Entries(c)' :
          \E d \in Entries(c) : e = IF d.token = t THEN [d EXCEPT !.failed = TRUE] ELSE d
    BY <1>2 DEF Failed, Entries, TypeInv, TypeOK, Window
  <2>2. \A c \in Convs : \A d \in Entries(c) : d \in Entry
    BY DEF Entries, TypeInv, TypeOK, Window
  <2>3. \A c \in Convs : \A e \in Entries(c)' : \E d \in Entries(c) : e.id = d.id
    BY <2>1, <2>2 DEF Entry
  <2> QED  BY <1>1, <2>3
<1>3. ASSUME NEW c \in Convs, Open(c) \/ Close(c) \/ LoadMore(c) PROVE EntriesBelong'
  <2>1. CASE Open(c) \/ Close(c)
    <3>1. PICK w : w.entries = {} /\ win' = [win EXCEPT ![c] = w]
      BY <2>1 DEF Open, Close, Closed
    <3>2. \A d \in Convs : \A e \in Entries(d)' : e \in Entries(d)
      BY <3>1 DEF Entries, TypeInv, TypeOK
    <3> QED  BY <1>1, <3>2
  <2>2. CASE LoadMore(c)
    <3>1. \A d \in Convs : \A e \in Entries(d)' : e \in Entries(d)
      BY <2>2 DEF LoadMore, Entries, TypeInv, TypeOK, Window
    <3> QED  BY <1>1, <3>1
  <2> QED  BY <1>3, <2>1, <2>2
<1>4. ASSUME NEW c \in Convs, SendMessage(c) PROVE EntriesBelong'
  <2>1. \A d \in Convs : \A e \in Entries(d)' : e \in Entries(d) \/ e = Echo(sends')
    BY <1>4 DEF SendMessage, Entries, TypeInv, TypeOK, Window
  <2> QED  BY <1>1, <2>1 DEF Echo
<1>5. CASE OnMessage
  <2> PICK a, d : a = Head(down) /\ d = log[a.id].conv
      OBVIOUS
  <2>1. a \in Answers /\ a.kind = "message"
    BY <1>5, ConsumingKeeps DEF OnMessage, Arrives
  <2>2. Within(log, {a.id}, d)
    BY <2>1 DEF HeardInv, Within
  <2>3. win' = [win EXCEPT ![d].entries = IF win[d].open THEN @ \cup {Shown(a.id)} ELSE @]
    BY <1>5 DEF OnMessage
  <2>4. \A c \in Convs : \A e \in Entries(c)' : e \in Entries(c) \/ (c = d /\ e = Shown(a.id))
    BY <2>3 DEF Entries, TypeInv, TypeOK, Window
  <2>5. Shown(a.id).id = a.id
    BY DEF Shown
  <2> QED  BY <1>1, <2>2, <2>4, <2>5
<1>6. CASE OnPage
  <2> PICK a, d : a = Head(down) /\ d = Head(pending)
      OBVIOUS
  <2>1. down # <<>> /\ a.kind = "page" /\ Consume
    BY <1>6 DEF OnPage, Arrives
  <2>2. pending # <<>> /\ <<a.ids, d>> \in Pairs
    BY <2>1, QueuesTyped, RequestsTyped, AlignedPage DEF Orderly, PagesInStep
  <2>3. Within(log, a.ids, d)
    BY <2>2 DEF Pairs
  <2>4. \A c \in Convs : \A e \in Entries(c)' :
          e \in Entries(c) \/ (c = d /\ e \in {Shown(i) : i \in a.ids})
    <3>1. PICK s : s = {Shown(i) : i \in a.ids}
      OBVIOUS
    <3>2. \/ win' = win
          \/ win' = [win EXCEPT ![d].entries = @ \cup s, ![d].loading = FALSE,
                                ![d].paged = @ \cup a.ids]
      BY <1>6, <2>2, <3>1 DEF OnPage
    <3>3. \A c \in Convs : win'[c].entries \subseteq win[c].entries \cup IF c = d THEN s ELSE {}
      BY <3>2 DEF TypeInv, TypeOK, Window
    <3> QED  BY <3>1, <3>3 DEF Entries
  <2>5. \A i : Shown(i).id = i
    BY DEF Shown
  <2>6. \A i \in a.ids : Within(log, {i}, d)
    BY <2>3 DEF Within
  <2> QED  BY <1>1, <2>4, <2>5, <2>6
<1>7. CASE OnAck
  <2> PICK a : a = Head(down)
      OBVIOUS
  <2>1. a \in Answers /\ a.kind = "ack" /\ Consume
    BY <1>7, ConsumingKeeps DEF OnAck, Arrives
  <2>2. Acked(a)
    BY <2>1 DEF AckInv, WireInv
  <2>3. Within(log, {a.id}, a.conv)
    BY <2>2 DEF Acked, Within
  <2>4. \A c \in Convs : \A e \in Entries(c)' :
          \/ e \in Entries(c)
          \/ c = a.conv /\ \E d \in Entries(c) : e = IF d.token = a.token THEN [d EXCEPT !.id = a.id, !.failed = FALSE] ELSE d
    <3> PICK s : s = {IF d.token = a.token THEN [d EXCEPT !.id = a.id, !.failed = FALSE] ELSE d : d \in Entries(a.conv)}
        OBVIOUS
    <3>1. win' = [win EXCEPT ![a.conv].entries = s]
      BY <1>7 DEF OnAck, Entries
    <3>2. \A c \in Convs : \A e \in Entries(c)' : e \in Entries(c) \/ (c = a.conv /\ e \in s)
      BY <3>1 DEF Entries, TypeInv, TypeOK, Window
    <3> QED  BY <3>2
  <2>5. \A c \in Convs : \A d \in Entries(c) : [d EXCEPT !.id = a.id, !.failed = FALSE].id = a.id
    BY DEF Entries, TypeInv, TypeOK, Window, Entry
  <2>6. ASSUME NEW c \in Convs, NEW e \in Entries(c)'
        PROVE  (\E d \in Entries(c) : e.id = d.id) \/ Within(log, {e.id}, c)
    <3>1. CASE e \in Entries(c)
      BY <3>1
    <3>2. CASE c = a.conv /\ \E d \in Entries(c) : e = IF d.token = a.token THEN [d EXCEPT !.id = a.id, !.failed = FALSE] ELSE d
      <4> PICK d \in Entries(c) : e = IF d.token = a.token THEN [d EXCEPT !.id = a.id, !.failed = FALSE] ELSE d
          BY <3>2
      <4>1. e.id = a.id \/ e = d
        BY <2>5
      <4> QED  BY <2>3, <3>2, <4>1
    <3> QED  BY <2>4, <3>1, <3>2
  <2> QED  BY <1>1, <2>6
<1>8. CASE OnError \/ \E t \in Tokens : Timeout(t)
  BY <1>2, <1>8 DEF OnError, Timeout
<1>9. ASSUME win' = win PROVE EntriesBelong'
  BY <1>1, <1>9 DEF Entries
<1>10. CASE Server \/ Disconnect \/ Reconnect \/ UNCHANGED vars
  <2>1. win' = win
    BY <1>10 DEF Server, DropRequest, Count, ReadPage, Store, Refuse, Take, Reply, OtherSends, Broadcast,
                 Disconnect, Reconnect, vars, client
  <2> QED  BY <1>9, <2>1
<1> QED
  BY <1>3, <1>4, <1>5, <1>6, <1>7, <1>8, <1>10 DEF Next, User, Client

LEMMA StepBelongs ==
  ASSUME TypeInv, AckInv, HeardInv, InOrder, [Next]_vars
  PROVE  InOrder'
<1> SUFFICES ASSUME conn' = 1, "history" \notin lost' PROVE Orderly'
    BY DEF InOrder
<1>1. Orderly
  BY NoWayBack DEF InOrder
<1> QED
  BY <1>1, StepInStep, StepEntries DEF Orderly

(* ChatContext.tsx:155-159: a window shows messages of its own             *)
(* conversation only, for any number of windows opened, closed, scrolled   *)
(* and opened again, as long as no request for a page and no page is lost  *)
(* and the connection is the first: the n-th page is for the n-th request. *)
THEOREM AnswersAlwaysBelong == Spec => []AnsweredBelongs
<1>1. HeardInv /\ InOrder /\ [Next]_vars /\ TypeInv /\ AckInv => (HeardInv /\ InOrder)'
  BY StepHeard, StepBelongs
<1>2. InOrder => AnsweredBelongs
  <2> SUFFICES ASSUME Orderly, NEW c \in Convs, NEW i \in Ids, i \in Confirmed(c)
               PROVE  log[i].conv = c
      BY DEF InOrder, AnsweredBelongs, HistoryBelongs
  <2>1. PICK e \in Entries(c) : e.id = i /\ e.id # 0
    BY DEF Confirmed
  <2>2. Within(log, {e.id}, c)
    BY <2>1 DEF Orderly, EntriesBelong
  <2> QED  BY <2>1, <2>2 DEF Within
<1> QED
  BY <1>1, <1>2, InitBelongs, TypedAlways, AcksAlways, PTL DEF Spec
-----------------------------------------------------------------------------
(* No gaps.  What a window waits for, what it shows, and what a page on    *)
(* its way to it brings.                                                   *)

Asks(p, c)  == p.kind = "history" /\ p.conv = c
Posts(p, c) == p.kind = "send" /\ p.conv = c
NoAsks(u, c) == \A n \in 1 .. Len(u) : ~Asks(u[n], c)

(* In u there is at most one request for a page of c, for offset o, and    *)
(* messages for c have their echoes (E), unless they go before the first.  *)
Single(u, c, o, E) ==
  /\ \A m, n \in 1 .. Len(u) : Asks(u[m], c) /\ Asks(u[n], c) => m = n
  /\ \A n \in 1 .. Len(u) : Asks(u[n], c) => u[n].offset = o
  /\ \A n \in 1 .. Len(u) : Posts(u[n], c) =>
       u[n].token \in E \/ (o = 0 /\ \E m \in 1 .. Len(u) : m > n /\ Asks(u[m], c))

LEMMA SingleMore ==
  ASSUME NEW u, NEW c, NEW o, NEW E, NEW F, Single(u, c, o, E), E \subseteq F
  PROVE  Single(u, c, o, F)
BY DEF Single

LEMMA SingleAsk ==
  ASSUME NEW u \in Seq(Packet), NEW c, NEW o, NEW E, NEW x \in Packet, Asks(x, c), x.offset = o,
         NoAsks(u, c), o = 0 \/ \A n \in 1 .. Len(u) : Posts(u[n], c) => u[n].token \in E
  PROVE  Single(Append(u, x), c, o, E)
<1> PICK t, k : t = Append(u, x) /\ k = Len(u)
    OBVIOUS
<1>1. Len(t) = k + 1 /\ t[k + 1] = x /\ (\A i \in 1 .. k : t[i] = u[i]) /\ k \in Nat
  BY AppendProperties, LenProperties
<1>2. \A n \in 1 .. k + 1 : n \in 1 .. k \/ n = k + 1
  BY <1>1
<1>3. \A n \in 1 .. k + 1 : Asks(t[n], c) => n = k + 1
  BY <1>1, <1>2 DEF NoAsks
<1>4. ~Posts(x, c)
  BY DEF Asks, Posts
<1>5. ASSUME NEW n \in 1 .. k + 1, Posts(t[n], c)
      PROVE  t[n].token \in E \/ (o = 0 /\ \E m \in 1 .. k + 1 : m > n /\ Asks(t[m], c))
  <2>1. n \in 1 .. k /\ t[n] = u[n]
    BY <1>1, <1>2, <1>4, <1>5
  <2>2. k + 1 \in 1 .. k + 1 /\ k + 1 > n
    BY <1>1, <2>1
  <2>3. CASE o = 0
    BY <1>1, <2>2, <2>3
  <2> QED  BY <1>5, <2>1, <2>3
<1>6. Single(t, c, o, E)
  BY <1>1, <1>3, <1>5 DEF Single
<1> QED
  BY <1>6

LEMMA SingleOther ==
  ASSUME NEW u \in Seq(Packet), NEW c, NEW o, NEW E, NEW x \in Packet,
         Single(u, c, o, E), ~Asks(x, c), Posts(x, c) => x.token \in E
  PROVE  /\ Single(Append(u, x), c, o, E)
         /\ NoAsks(u, c) => NoAsks(Append(u, x), c)
<1> PICK t, k : t = Append(u, x) /\ k = Len(u)
    OBVIOUS
<1>1. Len(t) = k + 1 /\ t[k + 1] = x /\ (\A i \in 1 .. k : t[i] = u[i]) /\ k \in Nat
  BY AppendProperties, LenProperties
<1>2. \A n \in 1 .. k + 1 : n \in 1 .. k \/ n = k + 1
  BY <1>1
<1>3. \A n \in 1 .. k : n \in 1 .. k + 1
  BY <1>1
<1>4. \A n \in 1 .. k + 1 : Asks(t[n], c) => n \in 1 .. k /\ t[n] = u[n]
  BY <1>1, <1>2
<1>5. ASSUME NEW n \in 1 .. k + 1, Posts(t[n], c)
      PROVE  t[n].token \in E \/ (o = 0 /\ \E m \in 1 .. k + 1 : m > n /\ Asks(t[m], c))
  <2>1. CASE n = k + 1
    BY <1>1, <1>5, <2>1
  <2>2. CASE n \in 1 .. k
    <3>1. u[n].token \in E \/ (o = 0 /\ \E m \in 1 .. k : m > n /\ Asks(u[m], c))
      BY <1>1, <1>5, <2>2 DEF Single
    <3> QED  BY <1>1, <1>3, <2>2, <3>1
  <2> QED  BY <1>2, <2>1, <2>2
<1>6. Single(t, c, o, E)
  BY <1>1, <1>4, <1>5 DEF Single
<1>7. NoAsks(u, c) => NoAsks(t, c)
  BY <1>1, <1>4 DEF NoAsks
<1> QED
  BY <1>6, <1>7

LEMMA SingleTail ==
  ASSUME NEW u \in Seq(Packet), u # <<>>, NEW c, NEW o, NEW E, Single(u, c, o, E)
  PROVE  /\ Single(Tail(u), c, o, E)
         /\ NoAsks(u, c) => NoAsks(Tail(u), c)
         /\ Asks(Head(u), c) => NoAsks(Tail(u), c) /\ Head(u).offset = o
         /\ Posts(Head(u), c) => Head(u).token \in E \/ (o = 0 /\ ~NoAsks(Tail(u), c))
<1> PICK t, k : t = Tail(u) /\ k = Len(u) - 1
    OBVIOUS
<1>1. /\ Len(t) = k /\ (\A i \in 1 .. k : t[i] = u[i + 1]) /\ k \in Nat /\ Len(u) = k + 1
      /\ Head(u) = u[1]
  BY HeadTailProperties, EmptySeq
<1>2. \A n \in 1 .. k : n + 1 \in 1 .. k + 1 /\ n + 1 > 1 /\ t[n] = u[n + 1]
  BY <1>1
<1>3. 1 \in 1 .. k + 1
  BY <1>1
<1>4. \A m \in 1 .. k + 1 : m > 1 => m - 1 \in 1 .. k /\ t[m - 1] = u[m]
  <2> SUFFICES ASSUME NEW m \in 1 .. k + 1, m > 1 PROVE m - 1 \in 1 .. k /\ t[m - 1] = u[m]
      OBVIOUS
  <2>1. m - 1 \in 1 .. k /\ (m - 1) + 1 = m
    BY <1>1
  <2> QED  BY <1>1, <2>1
<1>5. ASSUME NEW m \in 1 .. k, NEW n \in 1 .. k, Asks(t[m], c), Asks(t[n], c) PROVE m = n
  <2>1. m + 1 = n + 1
    BY <1>1, <1>2, <1>5 DEF Single
  <2> QED  BY <1>1, <2>1
<1>6. ASSUME NEW n \in 1 .. k, Posts(t[n], c)
      PROVE  t[n].token \in E \/ (o = 0 /\ \E m \in 1 .. k : m > n /\ Asks(t[m], c))
  <2>1. t[n].token \in E \/ (o = 0 /\ \E m \in 1 .. k + 1 : m > n + 1 /\ Asks(u[m], c))
    BY <1>1, <1>2, <1>6 DEF Single
  <2>2. ASSUME NEW m \in 1 .. k + 1, m > n + 1, Asks(u[m], c)
        PROVE  \E j \in 1 .. k : j > n /\ Asks(t[j], c)
    <3>1. m > 1 /\ m - 1 > n
      BY <1>1, <2>2
    <3> QED  BY <1>4, <2>2, <3>1
  <2> QED  BY <2>1, <2>2
<1>7. \A n \in 1 .. k : Asks(t[n], c) => t[n].offset = o
  BY <1>1, <1>2 DEF Single
<1>8. Single(t, c, o, E)
  BY <1>1, <1>5, <1>6, <1>7 DEF Single
<1>9. NoAsks(u, c) => NoAsks(t, c)
  BY <1>1, <1>2 DEF NoAsks
<1>10. Asks(u[1], c) => NoAsks(t, c) /\ u[1].offset = o
  <2> SUFFICES ASSUME Asks(u[1], c), NEW n \in 1 .. k, Asks(t[n], c) PROVE FALSE
      BY <1>1, <1>3 DEF Single, NoAsks
  <2>1. 1 = n + 1
    BY <1>1, <1>2, <1>3 DEF Single
  <2> QED  BY <1>2, <2>1
<1>11. ASSUME Posts(u[1], c), u[1].token \notin E PROVE o = 0 /\ ~NoAsks(t, c)
  <2>1. o = 0 /\ \E m \in 1 .. k + 1 : m > 1 /\ Asks(u[m], c)
    BY <1>1, <1>3, <1>11 DEF Single
  <2> QED  BY <1>1, <1>4, <2>1 DEF NoAsks
<1> QED
  BY <1>1, <1>8, <1>9, <1>10, <1>11

(* c is at most once in p. *)
OnePlace(p, c) == \A m, n \in 1 .. Len(p) : p[m] = c /\ p[n] = c => m = n

LEMMA OnePlaceAppend ==
  ASSUME NEW p \in Seq(Convs), NEW d \in Convs, NEW c, OnePlace(p, c), d = c => c \notin Items(p)
  PROVE  OnePlace(Append(p, d), c)
<1> PICK t, k : t = Append(p, d) /\ k = Len(p)
    OBVIOUS
<1>1. Len(t) = k + 1 /\ t[k + 1] = d /\ (\A i \in 1 .. k : t[i] = p[i]) /\ k \in Nat
  BY AppendProperties, LenProperties
<1>2. \A n \in 1 .. k + 1 : n \in 1 .. k \/ n = k + 1
  BY <1>1
<1>3. \A n \in 1 .. k : p[n] \in Items(p)
  BY LenProperties DEF Items
<1>4. OnePlace(t, c)
  BY <1>1, <1>2, <1>3 DEF OnePlace
<1> QED
  BY <1>4

LEMMA OnePlaceTail ==
  ASSUME NEW p \in Seq(Convs), p # <<>>, NEW c, OnePlace(p, c)
  PROVE  /\ OnePlace(Tail(p), c)
         /\ Head(p) = c => c \notin Items(Tail(p))
         /\ Head(p) # c => (c \in Items(Tail(p)) <=> c \in Items(p))
<1> PICK t, k : t = Tail(p) /\ k = Len(p) - 1
    OBVIOUS
<1>1. /\ Len(t) = k /\ (\A i \in 1 .. k : t[i] = p[i + 1]) /\ k \in Nat /\ Len(p) = k + 1
      /\ Head(p) = p[1] /\ t \in Seq(Convs)
  BY HeadTailProperties, EmptySeq
<1>2. \A n \in 1 .. k : n + 1 \in 1 .. k + 1 /\ n + 1 > 1 /\ t[n] = p[n + 1]
  BY <1>1
<1>3. 1 \in 1 .. k + 1 /\ DOMAIN t = 1 .. k
  BY <1>1, LenProperties
<1>4. OnePlace(t, c)
  <2> SUFFICES ASSUME NEW m \in 1 .. k, NEW n \in 1 .. k, t[m] = c, t[n] = c PROVE m = n
      BY <1>1 DEF OnePlace
  <2>1. m + 1 = n + 1
    BY <1>1, <1>2 DEF OnePlace
  <2> QED  BY <1>1, <2>1
<1>5. ASSUME p[1] = c, NEW n \in 1 .. k, t[n] = c PROVE FALSE
  <2>1. 1 = n + 1
    BY <1>1, <1>2, <1>3, <1>5 DEF OnePlace
  <2> QED  BY <1>2, <2>1
<1>6. p[1] = c => c \notin Items(t)
  BY <1>3, <1>5 DEF Items
<1>7. Items(p) = Items(t) \cup {p[1]}
  BY <1>1, ItemsOfTail
<1> QED
  BY <1>1, <1>4, <1>6, <1>7
-----------------------------------------------------------------------------
Of(c)       == {i \in 1 .. Len(log) : log[i].conv = c}
Newer(c, i) == {j \in Of(c) : j > i}
Rank(c, i) == Cardinality(Newer(c, i))
Told(i)     == \E a \in Items(down) : a.kind = "message" /\ a.id = i
Echoes(c)   == {e.token : e \in Entries(c)} \ {0}

(* Window c shows message i, or will when what is broadcast arrives, or a  *)
(* page has left it out.                                                   *)
Covered(c, i) == \/ i \in Confirmed(c)
                 \/ log[i].token \in Echoes(c)
                 \/ i \in out
                 \/ Told(i)
                 \/ i \in skipped

AllThere(c) == \A i \in Of(c) : Covered(c, i)
Newest(c, n) == \A i \in Of(c) : Rank(c, i) < n => Covered(c, i)
Above(c, s) == \A i \in Of(c), j \in s : j < i => i \in s \/ Covered(c, i)
Seen(c, s)  == \A i \in Of(c) : i \in s => Covered(c, i)

(* Opened when no page was to come for it. *)
Whole(c) == win[c].open /\ ~win[c].over

(* Window c waits for one page at most, *)
Tidy(c) ==
  /\ OnePlace(pending, c)
  /\ win[c].loading <=> c \in Items(pending)
  /\ win[c].loading /\ win[c].offset = 0 => win[c].paged = {}
  /\ Single(requests, c, win[c].offset, Echoes(c))

(* and has no gap below the messages its pages brought, nor among the      *)
(* newest messages, which the next page is counted from; a limit cut to    *)
(* nothing leaves nothing to come.                                         *)
Filled(c) ==
  /\ Seen(c, win[c].paged) /\ Above(c, win[c].paged)
  /\ c \notin Items(pending) =>
       /\ Newest(c, win[c].offset + PageSize)
       /\ win[c].paged = {} => AllThere(c)
  /\ ~NoAsks(requests, c) =>
       /\ Newest(c, win[c].offset)
       /\ win[c].offset > 0 /\ win[c].paged = {} => AllThere(c)
  /\ Asks(hand[1], c) /\ hand[1].limit = 0 /\ win[c].paged = {} => AllThere(c)

(* s closes what was left of a gap when it is the page window c waits for. *)
Fills(s, c) ==
  /\ \A i \in Of(c) : Rank(c, i) < win[c].offset + PageSize => i \in s \/ Covered(c, i)
  /\ Above(c, s)
  /\ s = {} /\ win[c].paged = {} => AllThere(c)
Closes(s, c) == NoAsks(requests, c) /\ Fills(s, c)

Closing == {x \in (SUBSET Ids) \X Convs : Whole(x[2]) => Closes(x[1], x[2])}

Complete == /\ \A c \in Convs : Whole(c) => Tidy(c) /\ Filled(c)
            /\ Aligned(Closing, down, hand[1], requests, pending)
GapInv == conn = 1 /\ lost = {} => Complete

(* What a step must keep for window c. *)
Kept(c) ==
  /\ \A i \in Of(c) : i \in Of(c)' /\ (Covered(c, i) => Covered(c, i)')
  /\ \A i \in Of(c), n \in Nat : Rank(c, i)' < n => Rank(c, i) < n
  /\ \A i \in Of(c)' : i \in Of(c) \/ Covered(c, i)'

LEMMA KeptFacts ==
  ASSUME NEW c, Kept(c)
  PROVE  /\ AllThere(c) => AllThere(c)'
         /\ \A n \in Nat : Newest(c, n) => Newest(c, n)'
         /\ \A s : (Above(c, s) => Above(c, s)') /\ (Seen(c, s) => Seen(c, s)')
<1>1. AllThere(c) => AllThere(c)'
  BY DEF Kept, AllThere
<1>2. ASSUME NEW n \in Nat, Newest(c, n) PROVE Newest(c, n)'
  BY <1>2 DEF Kept, Newest
<1>3. ASSUME NEW s, Above(c, s) PROVE Above(c, s)'
  BY <1>3 DEF Kept, Above
<1>4. ASSUME NEW s, Seen(c, s) PROVE Seen(c, s)'
  BY <1>4 DEF Kept, Seen
<1> QED
  BY <1>1, <1>2, <1>3, <1>4

LEMMA OffsetIs ==
  ASSUME TypeInv, NEW c \in Convs
  PROVE  win[c].offset \in Nat /\ win[c].offset + PageSize \in Nat /\ PageSize \in Nat \ {0}
BY ChatClientAssumption DEF TypeInv, TypeOK, Window

LEMMA FillsKeeps ==
  ASSUME TypeInv, NEW c \in Convs, NEW s, Fills(s, c), Kept(c),
         win'[c].offset = win[c].offset, win[c].paged \subseteq win'[c].paged
  PROVE  Fills(s, c)'
<1>1. ASSUME NEW i \in Of(c)', Rank(c, i)' < win[c].offset + PageSize PROVE i \in s \/ Covered(c, i)'
  <2>1. CASE i \in Of(c)
    <3>1. Rank(c, i) < win[c].offset + PageSize
      BY <1>1, <2>1, OffsetIs DEF Kept
    <3> QED  BY <2>1, <3>1 DEF Fills, Kept
  <2>2. CASE i \notin Of(c)
    BY <2>2 DEF Kept
  <2> QED  BY <2>1, <2>2
<1>2. s = {} /\ win'[c].paged = {} => AllThere(c)'
  BY KeptFacts DEF Fills
<1> QED
  BY <1>1, <1>2, KeptFacts DEF Fills

(* A step that leaves window c waiting for what it was waiting for. *)
Calm(c) ==
  /\ Kept(c)
  /\ OnePlace(pending', c)
  /\ c \in Items(pending') <=> c \in Items(pending)
  /\ Single(requests', c, win[c].offset, Echoes(c)')
  /\ NoAsks(requests, c) => NoAsks(requests', c)
  /\ Asks(hand'[1], c) => hand'[1] = hand[1]
  /\ win'[c].offset = win[c].offset
  /\ win'[c].loading = win[c].loading
  /\ win'[c].paged = win[c].paged

(* Window c stays complete. *)
Stays(c) ==
  /\ Whole(c)' => Tidy(c)' /\ Filled(c)'
  /\ \A s : c \in Items(pending) /\ (Whole(c) => Closes(s, c)) => (Whole(c)' => Closes(s, c)')

LEMMA CalmStays ==
  ASSUME TypeInv, NEW c \in Convs, Whole(c) => Tidy(c) /\ Filled(c),
         Whole(c)' => Whole(c) /\ Calm(c)
  PROVE  Stays(c)
<1> SUFFICES ASSUME Whole(c), Calm(c), Tidy(c), Filled(c)
             PROVE  Tidy(c)' /\ Filled(c)' /\ \A s : Closes(s, c) => Closes(s, c)'
    BY DEF Stays
<1>1. Tidy(c)'
  BY DEF Tidy, Calm
<1>2. Filled(c)'
  BY OffsetIs, KeptFacts DEF Filled, Calm
<1>3. \A s : Closes(s, c) => Closes(s, c)'
  BY FillsKeeps DEF Closes, Calm
<1> QED
  BY <1>1, <1>2, <1>3

-----------------------------------------------------------------------------
(* What keeps messages covered.                                            *)

LEMMA CoveredKeeps ==
  ASSUME NEW c, NEW i, log'[i] = log[i], Covered(c, i),
         Confirmed(c) \subseteq Confirmed(c)', Echoes(c) \subseteq Echoes(c)', out \subseteq out',
         Items(down) \subseteq Items(down'), skipped \subseteq skipped'
  PROVE  Covered(c, i)'
BY DEF Covered, Told

(* nothing is stored, *)
LEMMA KeptQuietly ==
  ASSUME NEW c, log' = log, \A i \in Of(c) : Covered(c, i) => Covered(c, i)'
  PROVE  Kept(c)
BY DEF Kept, Of, Rank, Newer

(* or a message that is another window's or covered. *)
LEMMA KeptStored ==
  ASSUME TypeInv, NEW c, NEW m \in Stored, Len(log) < MaxMessages, log' = Append(log, m),
         \A i \in Of(c) : Covered(c, i) => Covered(c, i)',
         NEW n, n = Len(log) + 1, m.conv = c => Covered(c, n)'
  PROVE  Kept(c)
<1>1. /\ Len(log) \in Nat /\ Len(log') = Len(log) + 1 /\ log'[Len(log) + 1] = m
      /\ \A i \in 1 .. Len(log) : log'[i] = log[i]
  BY StoringTyped, LenProperties DEF TypeInv, TypeOK
<1>2. \A i : i \in 1 .. Len(log') <=> i \in 1 .. Len(log) \/ i = Len(log) + 1
  BY <1>1
<1>3. Of(c) \subseteq Of(c)'
  BY <1>1, <1>2 DEF Of
<1>4. ASSUME NEW i \in Of(c)', i \notin Of(c) PROVE Covered(c, i)'
  <2>1. i = n /\ m.conv = c
    BY <1>1, <1>2, <1>4 DEF Of
  <2> QED  BY <2>1
<1>5. ASSUME NEW i \in Of(c), NEW k \in Nat, Rank(c, i)' < k PROVE Rank(c, i) < k
  <2>0. PICK z : z = Len(log')
    OBVIOUS
  <2>1. IsFiniteSet(1 .. Len(log'))
    <3>1. z \in Int /\ 1 \in Int
      BY <1>1, <2>0
    <3>2. IsFiniteSet(1 .. z)
      BY <3>1, FS_Interval
    <3> QED  BY <2>0, <3>2
  <2>2. Newer(c, i)' \in SUBSET (1 .. Len(log')) /\ Newer(c, i) \in SUBSET Newer(c, i)'
    BY <1>3 DEF Newer, Of
  <2>3. IsFiniteSet(Newer(c, i)')
    BY <2>1, <2>2, FS_Subset
  <2>4. /\ IsFiniteSet(Newer(c, i))
        /\ Cardinality(Newer(c, i)) <= Cardinality(Newer(c, i)')
    BY <2>2, <2>3, FS_Subset
  <2>5. Cardinality(Newer(c, i)) \in Nat /\ Cardinality(Newer(c, i)') \in Nat
    BY <2>3, <2>4, FS_CardinalityType
  <2> QED  BY <1>5, <2>4, <2>5 DEF Rank
<1> QED
  BY <1>3, <1>4, <1>5 DEF Kept

LEMMA CountIs ==
  ASSUME TypeInv, NEW c
  PROVE  /\ \A i \in Of(c) : Rank(c, i) \in Nat
         /\ \A i, j \in Of(c) : j < i => Rank(c, i) <= Rank(c, j)
<1>1. Len(log) \in Nat /\ IsFiniteSet(1 .. Len(log))
  BY LenProperties, FS_Interval DEF TypeInv, TypeOK
<1>2. ASSUME NEW i PROVE IsFiniteSet(Newer(c, i)) /\ Rank(c, i) \in Nat
  <2>1. Newer(c, i) \in SUBSET (1 .. Len(log))
    BY DEF Newer, Of
  <2>2. IsFiniteSet(Newer(c, i))
    BY <1>1, <2>1, FS_Subset
  <2> QED  BY <2>2, FS_CardinalityType DEF Rank
<1>3. ASSUME NEW i \in Of(c), NEW j \in Of(c), j < i PROVE Rank(c, i) <= Rank(c, j)
  <2>1. i \in Nat /\ j \in Nat /\ Of(c) \subseteq Nat
    BY <1>1 DEF Of
  <2>2. Newer(c, i) \in SUBSET Newer(c, j)
    BY <1>3, <2>1 DEF Newer
  <2> QED  BY <1>2, <2>2, FS_Subset DEF Rank
<1> QED
  BY <1>2, <1>3

(* A conversation with messages has a newest one. *)
LEMMA NewestIs ==
  ASSUME TypeInv, NEW c, Of(c) # {}
  PROVE  \E i \in Of(c) : Rank(c, i) = 0
<1> DEFINE n == Len(log)
           D == {n - i : i \in Of(c)}
<1>1. n \in Nat /\ \A i \in Of(c) : i \in 1 .. n
  BY LenProperties DEF TypeInv, TypeOK, Of
<1>2. D \subseteq Nat /\ D # {}
  BY <1>1
<1>3. PICK d \in D : \A e \in D : ~(<<e, d>> \in OpToRel(<, Nat))
  BY <1>2, NatLessThanWellFounded, WFMin
<1>4. \A e \in D : ~(e < d)
  BY <1>2, <1>3 DEF OpToRel
<1>5. PICK i \in Of(c) : d = n - i
  BY <1>3
<1>6. ASSUME NEW j \in Of(c), j > i PROVE FALSE
  <2>1. n - j \in D /\ n - j < n - i
    BY <1>1, <1>6
  <2> QED  BY <1>4, <1>5, <2>1
<1>7. Newer(c, i) = {}
  BY <1>6 DEF Newer
<1> QED
  BY <1>7, FS_EmptySet DEF Rank
-----------------------------------------------------------------------------
(* What each step does to the windows.                                     *)

LEMMA LosingNothing ==
  ASSUME NEW kinds, Lose(kinds), lost' = {}
  PROVE  kinds = {}
BY DEF Lose

(* A request that is counted is still a request. *)
LEMMA HandAsks ==
  ASSUME TypeInv, NEW c, Asks(hand[1], c)
  PROVE  ~NoAsks(requests, c)
<1>1. requests \in Seq(Packet) /\ requests # <<>> /\ Head(requests) = [hand[1] EXCEPT !.limit = PageSize]
  BY RequestsTyped DEF Asks
<1>2. Asks(Head(requests), c)
  BY <1>1, QueuesTyped, AsAsked DEF Asks
<1>3. Head(requests) = requests[1] /\ 1 \in 1 .. Len(requests)
  BY <1>1, HeadTailProperties, EmptySeq
<1> QED
  BY <1>2, <1>3 DEF NoAsks

LEMMA SameWindow ==
  ASSUME NEW c, win'[c] = win[c]
  PROVE  /\ Echoes(c)' = Echoes(c) /\ Confirmed(c)' = Confirmed(c) /\ Whole(c)' = Whole(c)
         /\ win'[c].offset = win[c].offset
         /\ win'[c].loading = win[c].loading
         /\ win'[c].paged = win[c].paged
BY DEF Echoes, Confirmed, Entries, Whole

(* A window that another's request passes by. *)
LEMMA AskingStays ==
  ASSUME TypeInv, Complete, NEW d \in Convs, NEW n \in Nat, AskHistory(d, n), lost' = {},
         UNCHANGED <<log, out, down, hand, skipped>>, NEW c \in Convs, c # d, win'[c] = win[c]
  PROVE  Stays(c)
<1> PICK x : x = Request(d, n)
    OBVIOUS
<1>1. x \in Packet /\ x.kind = "history" /\ x.conv = d
  BY RequestIs
<1>2. Send(x) /\ pending' = Append(pending, d)
  BY RequestIs
<1>3. requests' = Append(requests, x)
  BY <1>1, <1>2, LosingNothing, RequestsMore DEF Send
<1>4. Items(pending') = Items(pending) \cup {d}
  BY <1>2, QueuesTyped, ItemsOfAppend
<1>5. Whole(c) => Calm(c)
  <2> SUFFICES ASSUME Whole(c) PROVE Calm(c)
      OBVIOUS
  <2>1. Tidy(c)
    BY DEF Complete
  <2>2. OnePlace(pending', c)
    BY <1>2, <2>1, QueuesTyped, OnePlaceAppend DEF Tidy
  <2>3. Single(requests', c, win[c].offset, Echoes(c)) /\ (NoAsks(requests, c) => NoAsks(requests', c))
    BY <1>1, <1>3, <2>1, RequestsTyped, SingleOther DEF Tidy, Asks, Posts
  <2>4. \A i \in Of(c) : Covered(c, i) => Covered(c, i)'
    BY SameWindow, CoveredKeeps
  <2>5. Kept(c)
    BY <2>4, KeptQuietly
  <2> QED  BY <1>4, <2>2, <2>3, <2>5, SameWindow DEF Calm
<1> QED
  BY <1>5, SameWindow, CalmStays DEF Complete

(* What is asked for is not waited for before. *)
LEMMA FreshAsk ==
  ASSUME TypeInv, Complete, NEW c \in Convs, c \notin Items(pending), NEW n \in Nat, AskHistory(c, n),
         hand' = hand, lost' = {}
  PROVE  /\ NoAsks(requests, c) /\ ~Asks(hand'[1], c)
         /\ OnePlace(pending', c) /\ c \in Items(pending')
         /\ \E x \in Packet : Asks(x, c) /\ x.offset = n /\ requests' = Append(requests, x)
<1>1. PICK x : x = Request(c, n)
  OBVIOUS
<1>2. x \in Packet /\ Asks(x, c) /\ x.offset = n
  BY <1>1, RequestIs DEF Asks
<1>3. Send(x) /\ pending' = Append(pending, c)
  BY <1>1, RequestIs
<1>4. requests' = Append(requests, x)
  BY <1>2, <1>3, LosingNothing, RequestsMore DEF Send
<1>5. Items(pending') = Items(pending) \cup {c}
  BY <1>3, QueuesTyped, ItemsOfAppend
<1>6. OnePlace(pending, c)
  <2>1. \A k \in 1 .. Len(pending) : pending[k] \in Items(pending)
    BY QueuesTyped, LenProperties DEF Items
  <2> QED  BY <2>1 DEF OnePlace
<1>7. OnePlace(pending', c)
  BY <1>3, <1>6, QueuesTyped, OnePlaceAppend
<1>8. NoAsks(requests, c)
  <2>1. \A k \in 1 .. Len(requests) : requests[k] \in Items(requests)
    BY RequestsTyped, LenProperties DEF Items
  <2>2. \A p \in Items(requests) : p.kind = "history" => p.conv \in Items(pending)
    BY QueuesTyped, RequestsTyped, AlignedAwaits DEF Complete
  <2> QED  BY <2>1, <2>2 DEF NoAsks, Asks
<1>9. ~Asks(hand'[1], c)
  BY <1>8, HandAsks
<1> QED
  BY <1>2, <1>4, <1>5, <1>7, <1>8, <1>9

LEMMA OpenStays ==
  ASSUME TypeInv, Complete, NEW d \in Convs, Open(d), lost' = {}, NEW c \in Convs
  PROVE  Stays(c)
<1>1. AskHistory(d, 0) /\ UNCHANGED <<log, out, down, hand, skipped>>
  BY DEF Open, server
<1>2. c # d => win'[c] = win[c]
  BY DEF Open, TypeInv, TypeOK
<1>3. CASE c # d
  BY <1>1, <1>2, <1>3, AskingStays
<1>4. CASE c = d
  <2>1. win'[c] = [Closed EXCEPT !.open = TRUE, !.loading = TRUE,
                                 !.over = \E n \in DOMAIN pending : pending[n] = c]
    BY <1>4 DEF Open, TypeInv, TypeOK
  <2>2. /\ win'[c].offset = 0 /\ win'[c].loading = TRUE /\ win'[c].paged = {}
        /\ win'[c].over <=> c \in Items(pending)
    BY <2>1 DEF Closed, Items
  <2>3. c \in Items(pending) => ~Whole(c)'
    BY <2>2 DEF Whole
  <2>4. ASSUME c \notin Items(pending) PROVE Tidy(c)' /\ Filled(c)'
    <3>1. /\ NoAsks(requests, c) /\ OnePlace(pending', c) /\ c \in Items(pending') /\ ~Asks(hand'[1], c)
          /\ \E x \in Packet : Asks(x, c) /\ x.offset = 0 /\ requests' = Append(requests, x)
      BY <1>1, <1>4, <2>4, FreshAsk
    <3>2. Single(requests', c, 0, Echoes(c)')
      <4>1. PICK x \in Packet : Asks(x, c) /\ x.offset = 0 /\ requests' = Append(requests, x)
        BY <3>1
      <4> PICK E : E = Echoes(c)'
          OBVIOUS
      <4>2. Single(Append(requests, x), c, 0, E)
        BY <3>1, <4>1, RequestsTyped, SingleAsk
      <4> QED  BY <4>1, <4>2
    <3>3. Tidy(c)'
      BY <2>2, <3>1, <3>2 DEF Tidy
    <3>4. Of(c)' = Of(c) /\ \A i : Rank(c, i)' = Rank(c, i)
      BY <1>1 DEF Of, Rank, Newer
    <3>5. \A i \in Of(c) : ~(Rank(c, i) < 0)
      BY CountIs
    <3>6. Newest(c, 0)'
      BY <3>4, <3>5 DEF Newest
    <3>7. Seen(c, win[c].paged)' /\ Above(c, win[c].paged)'
      BY <2>2 DEF Above, Seen
    <3>8. Filled(c)'
      BY <2>2, <3>1, <3>6, <3>7 DEF Filled
    <3> QED  BY <3>3, <3>8
  <2> QED  BY <2>3, <2>4 DEF Stays
<1> QED
  BY <1>3, <1>4

LEMMA LoadMoreStays ==
  ASSUME TypeInv, Complete, NEW d \in Convs, LoadMore(d), lost' = {}, NEW c \in Convs
  PROVE  Stays(c)
<1> PICK o : o = win[d].offset + PageSize
    OBVIOUS
<1>1. o \in Nat \ {0} /\ AskHistory(d, o) /\ UNCHANGED <<log, out, down, hand, skipped>>
  BY OffsetIs DEF LoadMore, server
<1>2. c # d => win'[c] = win[c]
  BY DEF LoadMore, TypeInv, TypeOK
<1>3. CASE c # d
  BY <1>1, <1>2, <1>3, AskingStays
<1>4. CASE c = d
  <2>1. /\ win'[c].offset = o /\ win'[c].loading = TRUE /\ win'[c].paged = win[c].paged
        /\ win'[c].entries = win[c].entries
        /\ Whole(c)' = Whole(c) /\ ~win[c].loading
    BY <1>4 DEF LoadMore, TypeInv, TypeOK, Window, Whole
  <2>2. ASSUME Whole(c) PROVE Tidy(c)' /\ Filled(c)' /\ c \notin Items(pending)
    <3>1. Tidy(c) /\ Filled(c) /\ c \notin Items(pending)
      BY <2>1, <2>2 DEF Complete, Tidy
    <3>2. /\ NoAsks(requests, c) /\ OnePlace(pending', c) /\ c \in Items(pending') /\ ~Asks(hand'[1], c)
          /\ \E x \in Packet : Asks(x, c) /\ x.offset = o /\ requests' = Append(requests, x)
      BY <1>1, <1>4, <3>1, FreshAsk
    <3>3. \A n \in 1 .. Len(requests) : Posts(requests[n], c) => requests[n].token \in Echoes(c)
      BY <3>1, <3>2 DEF Tidy, Single, NoAsks
    <3>4. Echoes(c)' = Echoes(c) /\ Confirmed(c)' = Confirmed(c)
      BY <2>1 DEF Echoes, Confirmed, Entries
    <3>5. Single(requests', c, o, Echoes(c)')
      <4>1. PICK x \in Packet : Asks(x, c) /\ x.offset = o /\ requests' = Append(requests, x)
        BY <3>2
      <4> PICK E : E = Echoes(c)'
          OBVIOUS
      <4>2. Single(Append(requests, x), c, o, E)
        BY <3>2, <3>3, <3>4, <4>1, RequestsTyped, SingleAsk
      <4> QED  BY <4>1, <4>2
    <3>6. Tidy(c)'
      BY <1>1, <2>1, <3>2, <3>5 DEF Tidy
    <3>7. Kept(c)
      <4>1. \A i \in Of(c) : Covered(c, i) => Covered(c, i)'
        BY <1>1, <3>4, CoveredKeeps
      <4> QED  BY <1>1, <4>1, KeptQuietly
    <3>8. /\ Newest(c, o) /\ (win[c].paged = {} => AllThere(c))
          /\ Seen(c, win[c].paged) /\ Above(c, win[c].paged)
      BY <1>4, <3>1 DEF Filled
    <3>9. /\ Newest(c, o)' /\ (win[c].paged = {} => AllThere(c)')
          /\ Seen(c, win[c].paged)' /\ Above(c, win[c].paged)'
      <4> PICK s : s = win[c].paged
          OBVIOUS
      <4>1. Seen(c, s)' /\ Above(c, s)'
        BY <3>7, <3>8, KeptFacts
      <4> QED  BY <1>1, <2>1, <3>7, <3>8, <4>1, KeptFacts
    <3>10. Filled(c)'
      BY <2>1, <3>2, <3>9 DEF Filled
    <3> QED  BY <3>1, <3>6, <3>10
  <2> QED  BY <2>1, <2>2 DEF Stays
<1> QED
  BY <1>3, <1>4

LEMMA CloseStays ==
  ASSUME TypeInv, Complete, NEW d \in Convs, Close(d), NEW c \in Convs
  PROVE  Stays(c)
<1>1. UNCHANGED <<log, out, down, up, pending, hand, skipped>> /\ requests' = requests
  BY RequestsSame DEF Close, server, link
<1>2. CASE c = d
  <2>1. ~Whole(c)'
    BY <1>2 DEF Close, TypeInv, TypeOK, Closed, Whole
  <2> QED  BY <2>1 DEF Stays
<1>3. CASE c # d
  <2>1. win'[c] = win[c]
    BY <1>3 DEF Close, TypeInv, TypeOK
  <2>2. \A i \in Of(c) : Covered(c, i) => Covered(c, i)'
    BY <1>1, <2>1, SameWindow, CoveredKeeps
  <2>3. Kept(c)
    BY <1>1, <2>2, KeptQuietly
  <2>4. Whole(c) => Calm(c)
    BY <1>1, <2>1, <2>3, SameWindow DEF Calm, Complete, Tidy
  <2> QED  BY <2>1, <2>4, SameWindow, CalmStays DEF Complete
<1> QED
  BY <1>2, <1>3

LEMMA SendStays ==
  ASSUME TypeInv, Complete, NEW d \in Convs, SendMessage(d), lost' = {}, NEW c \in Convs
  PROVE  Stays(c)
<1> PICK t, x : t = sends + 1 /\ x = [Nothing EXCEPT !.kind = "send", !.conv = d, !.token = t]
    OBVIOUS
<1>1. /\ sends' = t /\ Send(x) /\ UNCHANGED <<log, out, down, pending, hand, skipped>>
      /\ win' = [win EXCEPT ![d].entries = @ \cup {Echo(t)}]
  BY DEF SendMessage, server
<1>2. t \in Tokens /\ t # 0
  BY ChatClientAssumption DEF SendMessage, TypeInv, TypeOK, Tokens
<1>3. x \in Packet /\ x.kind = "send" /\ x.conv = d /\ x.token = t
  BY <1>2, PacketsTyped DEF Nothing
<1>4. requests' = Append(requests, x)
  BY <1>1, <1>3, LosingNothing, RequestsMore DEF Send
<1>5. /\ win'[c].offset = win[c].offset /\ win'[c].loading = win[c].loading /\ win'[c].paged = win[c].paged
      /\ win'[c].entries = win[c].entries \cup (IF c = d THEN {Echo(t)} ELSE {})
      /\ Whole(c)' = Whole(c)
  BY <1>1 DEF TypeInv, TypeOK, Window, Whole
<1>6. /\ Confirmed(c) \subseteq Confirmed(c)' /\ Echoes(c) \subseteq Echoes(c)'
      /\ c = d => t \in Echoes(c)'
  <2>1. Echo(t).token = t
    BY DEF Echo
  <2> QED  BY <1>2, <1>5, <2>1 DEF Confirmed, Echoes, Entries
<1>7. \A i \in Of(c) : Covered(c, i) => Covered(c, i)'
  BY <1>1, <1>6, CoveredKeeps
<1>8. Kept(c)
  BY <1>1, <1>7, KeptQuietly
<1>9. Whole(c) => Calm(c)
  <2> SUFFICES ASSUME Whole(c) PROVE Calm(c)
      OBVIOUS
  <2>1. Tidy(c)
    BY DEF Complete
  <2>2. Single(requests, c, win[c].offset, Echoes(c)')
    BY <1>6, <2>1, SingleMore DEF Tidy
  <2>3. ~Asks(x, c) /\ (Posts(x, c) => x.token \in Echoes(c)')
    BY <1>3, <1>6 DEF Asks, Posts
  <2>4. Single(requests', c, win[c].offset, Echoes(c)') /\ (NoAsks(requests, c) => NoAsks(requests', c))
    BY <1>3, <1>4, <2>2, <2>3, RequestsTyped, SingleOther
  <2> QED  BY <1>1, <1>5, <1>8, <2>1, <2>4 DEF Calm, Tidy
<1> QED
  BY <1>5, <1>9, CalmStays DEF Complete

(* An event that leaves the queues of requests alone. *)
LEMMA EventStays ==
  ASSUME TypeInv, Complete, NEW c \in Convs, UNCHANGED <<log, pending>>, requests' = requests,
         Asks(hand'[1], c) => hand'[1] = hand[1],
         Echoes(c) \subseteq Echoes(c)', \A i \in Of(c) : Covered(c, i) => Covered(c, i)',
         win'[c].offset = win[c].offset, win'[c].loading = win[c].loading,
         win'[c].paged = win[c].paged, Whole(c)' => Whole(c)
  PROVE  Stays(c)
<1>1. Kept(c)
  BY KeptQuietly
<1>2. Whole(c) => Calm(c)
  <2> SUFFICES ASSUME Whole(c) PROVE Calm(c)
      OBVIOUS
  <2>1. Tidy(c)
    BY DEF Complete
  <2>2. Single(requests, c, win[c].offset, Echoes(c)')
    BY <2>1, SingleMore DEF Tidy
  <2> QED  BY <1>1, <2>1, <2>2 DEF Calm, Tidy
<1> QED
  BY <1>2, CalmStays DEF Complete

LEMMA FailedShows ==
  ASSUME TypeInv, NEW t, win' = Failed(t), NEW c \in Convs
  PROVE  /\ Confirmed(c) \subseteq Confirmed(c)' /\ Echoes(c) \subseteq Echoes(c)'
         /\ win'[c].offset = win[c].offset /\ win'[c].loading = win[c].loading
         /\ win'[c].paged = win[c].paged /\ Whole(c)' = Whole(c)
<1> PICK s : s = {IF e.token = t THEN [e EXCEPT !.failed = TRUE] ELSE e : e \in win[c].entries}
    OBVIOUS
<1>1. win'[c] = [win[c] EXCEPT !.entries = s]
  BY DEF Failed
<1>2. win[c] \in Window
  BY DEF TypeInv, TypeOK
<1>3. /\ win'[c].entries = s /\ win'[c].offset = win[c].offset /\ win'[c].loading = win[c].loading
      /\ win'[c].paged = win[c].paged /\ win'[c].open = win[c].open /\ win'[c].over = win[c].over
  BY <1>1, <1>2 DEF Window
<1>4. \A e \in win[c].entries : \E d \in s : d.id = e.id /\ d.token = e.token
  <2> SUFFICES ASSUME NEW e \in win[c].entries PROVE \E d \in s : d.id = e.id /\ d.token = e.token
      OBVIOUS
  <2>1. e \in Entry
    BY <1>2 DEF Window
  <2>2. [e EXCEPT !.failed = TRUE].id = e.id /\ [e EXCEPT !.failed = TRUE].token = e.token
    BY <2>1 DEF Entry
  <2> QED  BY <2>2
<1>5. Confirmed(c) \subseteq Confirmed(c)' /\ Echoes(c) \subseteq Echoes(c)'
  BY <1>3, <1>4 DEF Confirmed, Echoes, Entries
<1> QED
  BY <1>3, <1>5 DEF Whole

(* An event that is no live message takes away nothing that is told of. *)
LEMMA ConsumedTold ==
  ASSUME TypeInv, NEW kind, Arrives(kind), Consume, NEW i, Told(i)
  PROVE  Told(i)' \/ (kind = "message" /\ i = Head(down).id)
<1>1. Items(down) = Items(down') \cup {Head(down)}
  BY QueuesTyped, ItemsOfTail DEF Arrives, Consume
<1> QED
  BY <1>1 DEF Told, Arrives

LEMMA FailingStays ==
  ASSUME TypeInv, Complete, NEW c \in Convs,
         OnError \/ \E t \in Tokens : Timeout(t)
  PROVE  Stays(c)
<1>1. PICK t : win' = Failed(t)
  BY DEF OnError, Timeout
<1>2. UNCHANGED <<log, out, hand, pending, skipped>> /\ requests' = requests
  BY RequestsSame DEF OnError, Timeout, Consume, server, link
<1>3. \A i : Told(i) => Told(i)'
  <2>1. CASE OnError
    BY <2>1, ConsumedTold DEF OnError
  <2>2. CASE \E k \in Tokens : Timeout(k)
    BY <2>2 DEF Timeout, link, Told
  <2> QED  BY <2>1, <2>2
<1>4. \A i \in Of(c) : Covered(c, i) => Covered(c, i)'
  BY <1>1, <1>2, <1>3, FailedShows DEF Covered
<1> QED
  BY <1>1, <1>2, <1>4, FailedShows, EventStays

LEMMA MessageStays ==
  ASSUME TypeInv, HeardInv, Complete, NEW c \in Convs, OnMessage
  PROVE  Stays(c)
<1> PICK a, d : a = Head(down) /\ d = log[a.id].conv
    OBVIOUS
<1>1. Arrives("message") /\ Consume /\ UNCHANGED <<log, out, hand, pending, skipped>> /\ requests' = requests
  BY RequestsSame DEF OnMessage, Consume, server
<1>2. win' = [win EXCEPT ![d].entries = IF win[d].open THEN @ \cup {Shown(a.id)} ELSE @]
  BY DEF OnMessage
<1>3. /\ win'[c].offset = win[c].offset /\ win'[c].loading = win[c].loading /\ win'[c].paged = win[c].paged
      /\ win'[c].entries = win[c].entries \cup (IF c = d /\ win[c].open THEN {Shown(a.id)} ELSE {})
      /\ Whole(c)' = Whole(c)
  BY <1>2 DEF TypeInv, TypeOK, Window, Whole
<1>4. a.id \in 1 .. Len(log)
  BY <1>1, ConsumingKeeps DEF HeardInv, Arrives
<1>5. a.id # 0
  BY <1>4
<1>6. /\ Confirmed(c) \subseteq Confirmed(c)' /\ Echoes(c) \subseteq Echoes(c)'
      /\ c = d /\ win[c].open => a.id \in Confirmed(c)'
  <2>1. Shown(a.id).id = a.id
    BY DEF Shown
  <2> QED  BY <1>3, <1>5, <2>1 DEF Confirmed, Echoes, Entries
<1>7. ASSUME Whole(c), NEW i \in Of(c), Covered(c, i) PROVE Covered(c, i)'
  <2>1. CASE Told(i)
    <3>1. Told(i)' \/ i = a.id
      BY <1>1, <2>1, ConsumedTold
    <3>2. i = a.id => c = d
      BY DEF Of
    <3> QED  BY <1>6, <1>7, <3>1, <3>2 DEF Covered, Whole
  <2>2. CASE ~Told(i)
    BY <1>1, <1>6, <1>7, <2>2 DEF Covered
  <2> QED  BY <2>1, <2>2
<1>8. CASE Whole(c)
  BY <1>1, <1>3, <1>6, <1>7, <1>8, EventStays
<1>9. CASE ~Whole(c)
  BY <1>3, <1>9 DEF Stays
<1> QED
  BY <1>8, <1>9

LEMMA AckStays ==
  ASSUME TypeInv, AckInv, Complete, NEW c \in Convs, OnAck
  PROVE  Stays(c)
<1> PICK a : a = Head(down)
    OBVIOUS
<1>0. PICK s : s = {IF e.token = a.token THEN [e EXCEPT !.id = a.id, !.failed = FALSE] ELSE e : e \in win[a.conv].entries}
  OBVIOUS
<1>1. Arrives("ack") /\ Consume /\ UNCHANGED <<log, out, hand, pending, skipped>> /\ requests' = requests
  BY RequestsSame DEF OnAck, Consume, server
<1>2. win' = [win EXCEPT ![a.conv].entries = s]
  BY <1>0 DEF OnAck
<1>3. /\ win'[c].offset = win[c].offset /\ win'[c].loading = win[c].loading /\ win'[c].paged = win[c].paged
      /\ win'[c].entries = IF c = a.conv THEN s ELSE win[c].entries
      /\ Whole(c)' = Whole(c)
  BY <1>2 DEF TypeInv, TypeOK, Window, Whole
<1>4. a \in Answers /\ a.kind = "ack"
  BY <1>1, ConsumingKeeps DEF Arrives
<1>5. Acked(a)
  BY <1>4 DEF AckInv, WireInv
<1>6. a.token # 0
  <2>1. sends \in Nat /\ a.token \in 1 .. sends
    BY <1>5 DEF Acked, TypeInv, TypeOK
  <2> QED  BY <2>1
<1>7. ASSUME NEW e \in Entries(c)
      PROVE  \E f \in Entries(c)' : f.token = e.token /\ (f.id = e.id \/ (e.token = a.token))
  <2>1. e \in Entry
    BY DEF Entries, TypeInv, TypeOK, Window
  <2>2. [e EXCEPT !.id = a.id, !.failed = FALSE].token = e.token
    BY <2>1 DEF Entry
  <2>3. CASE c = a.conv
    <3>1. Entries(c)' = s
      BY <1>3, <2>3 DEF Entries
    <3>2. (IF e.token = a.token THEN [e EXCEPT !.id = a.id, !.failed = FALSE] ELSE e) \in s
      BY <1>0, <2>3 DEF Entries
    <3> QED  BY <2>2, <3>1, <3>2
  <2>4. CASE c # a.conv
    BY <1>3, <2>4 DEF Entries
  <2> QED  BY <2>3, <2>4
<1>8. Echoes(c) \subseteq Echoes(c)'
  BY <1>7 DEF Echoes
<1>9. ASSUME NEW i \in Of(c), Covered(c, i) PROVE Covered(c, i)'
  <2>1. CASE i \in Confirmed(c)
    <3>1. PICK e \in Entries(c) : e.id = i /\ i # 0
      BY <2>1 DEF Confirmed
    <3>2. PICK f \in Entries(c)' : f.token = e.token /\ (f.id = e.id \/ e.token = a.token)
      BY <1>7
    <3>3. CASE f.id = e.id
      <4>1. i \in Confirmed(c)'
        BY <3>1, <3>3 DEF Confirmed
      <4> QED  BY <4>1 DEF Covered
    <3>4. CASE e.token = a.token
      <4>1. Fits(c, e)
        BY DEF AckInv, ShownInv
      <4>2. log[i].token = e.token
        <5>1. e.token # 0 /\ e.id # 0 /\ e.id = i
          BY <1>6, <3>1, <3>4
        <5>2. log[e.id] = [conv |-> c, token |-> e.token]
          BY <4>1, <5>1 DEF Fits
        <5>3. log[e.id].token = e.token
          BY <5>2
        <5> QED  BY <5>1, <5>3
      <4>3. e.token \in Echoes(c)'
        BY <1>6, <3>2, <3>4 DEF Echoes
      <4> QED  BY <1>1, <4>2, <4>3 DEF Covered
    <3> QED  BY <3>2, <3>3, <3>4
  <2>2. CASE Told(i)
    <3> PICK kind : kind = "ack"
        OBVIOUS
    <3>1. Arrives(kind) /\ kind # "message"
      BY <1>1
    <3>2. Told(i)'
      BY <1>1, <2>2, <3>1, ConsumedTold
    <3> QED  BY <3>2 DEF Covered
  <2>3. CASE log[i].token \in Echoes(c) \/ i \in out \/ i \in skipped
    BY <1>1, <1>8, <2>3 DEF Covered
  <2> QED  BY <1>9, <2>1, <2>2, <2>3 DEF Covered
<1> QED
  BY <1>1, <1>3, <1>8, <1>9, EventStays

LEMMA PageStays ==
  ASSUME TypeInv, Complete, NEW c \in Convs, OnPage
  PROVE  Stays(c)
<1> PICK a, d, s : a = Head(down) /\ d = Head(pending) /\ s = {Shown(i) : i \in a.ids}
    OBVIOUS
<1>1. /\ Arrives("page") /\ Consume /\ UNCHANGED <<log, out, hand, skipped>> /\ requests' = requests
      /\ down # <<>> /\ a.kind = "page"
  BY RequestsSame DEF OnPage, Consume, server, Arrives
<1>2. pending # <<>> /\ <<a.ids, d>> \in Closing
  BY <1>1, QueuesTyped, RequestsTyped, AlignedPage DEF Complete
<1>3. /\ pending' = Tail(pending)
      /\ win' = IF win[d].open
                THEN [win EXCEPT ![d].entries = @ \cup s, ![d].loading = FALSE, ![d].paged = @ \cup a.ids]
                ELSE win
  BY <1>2 DEF OnPage
<1>4. d \in Convs /\ a.ids \subseteq Ids /\ (Whole(d) => Closes(a.ids, d))
  BY <1>2 DEF Closing
<1>5. /\ win'[c].offset = win[c].offset
      /\ Whole(c)' = Whole(c)
      /\ win'[c].entries = win[c].entries \cup (IF c = d /\ win[c].open THEN s ELSE {})
      /\ win'[c].paged = win[c].paged \cup (IF c = d /\ win[c].open THEN a.ids ELSE {})
      /\ win'[c].loading = (win[c].loading /\ ~(c = d /\ win[c].open))
  <2>1. win[c] \in Window
    BY DEF TypeInv, TypeOK
  <2>2. CASE c = d /\ win[c].open
    <3>1. win'[c] = [win[c] EXCEPT !.entries = @ \cup s, !.loading = FALSE, !.paged = @ \cup a.ids]
      BY <1>3, <2>2 DEF TypeInv, TypeOK
    <3> QED  BY <2>1, <2>2, <3>1 DEF Window, Whole
  <2>3. CASE ~(c = d /\ win[c].open)
    <3>1. win'[c] = win[c]
      BY <1>3, <2>3 DEF TypeInv, TypeOK
    <3> QED  BY <2>1, <2>3, <3>1 DEF Window, Whole
  <2> QED  BY <2>2, <2>3
<1>6. /\ Confirmed(c) \subseteq Confirmed(c)' /\ Echoes(c) \subseteq Echoes(c)'
      /\ c = d /\ win[c].open => a.ids \subseteq Confirmed(c)'
  <2>1. \A i : Shown(i).id = i
    BY DEF Shown
  <2>2. \A i \in a.ids : i # 0 /\ Shown(i) \in s
    BY <1>4 DEF Ids
  <2> QED  BY <1>5, <2>1, <2>2 DEF Confirmed, Echoes, Entries
<1>7. \A i : Told(i) => Told(i)'
  BY <1>1, ConsumedTold
<1>8. \A i \in Of(c) : Covered(c, i) => Covered(c, i)'
  BY <1>1, <1>6, <1>7 DEF Covered
<1>9. Kept(c)
  BY <1>1, <1>8, KeptQuietly
<1>10. ASSUME Whole(c) PROVE Tidy(c)' /\ Filled(c)' /\ \A k : Closes(k, c) => Closes(k, c)'
  <2>1. Tidy(c) /\ Filled(c) /\ win[c].open
    BY <1>10 DEF Complete, Whole
  <2>2. Single(requests', c, win[c].offset, Echoes(c)')
    BY <1>1, <1>6, <2>1, SingleMore DEF Tidy
  <2>3. /\ OnePlace(pending', c)
        /\ d = c => c \notin Items(pending')
        /\ d # c => (c \in Items(pending') <=> c \in Items(pending))
    BY <1>2, <1>3, <2>1, QueuesTyped, OnePlaceTail DEF Tidy
  <2>4. \A k : Closes(k, c) => Closes(k, c)'
    BY <1>1, <1>5, <1>9, FillsKeeps DEF Closes
  <2>5. CASE c # d
    <3>1. Tidy(c)'
      BY <1>5, <2>1, <2>2, <2>3, <2>5 DEF Tidy
    <3>2. Filled(c)'
      BY <1>1, <1>5, <1>9, <2>1, <2>3, <2>5, OffsetIs, KeptFacts DEF Filled
    <3> QED  BY <2>4, <3>1, <3>2
  <2>6. CASE c = d
    <3>1. win'[c].loading = FALSE /\ c \notin Items(pending') /\ win'[c].paged = win[c].paged \cup a.ids
      BY <1>5, <2>1, <2>3, <2>6
    <3>2. Tidy(c)'
      BY <1>5, <2>2, <2>3, <3>1 DEF Tidy
    <3>3. NoAsks(requests', c) /\ Fills(a.ids, c)'
      BY <1>4, <1>10, <2>4, <2>6 DEF Closes
    <3>4. \A i \in a.ids : Covered(c, i)'
      BY <1>6, <2>1, <2>6 DEF Covered
    <3>5. Newest(c, win[c].offset + PageSize)'
      BY <3>3, <3>4 DEF Newest, Fills
    <3>6. win'[c].paged = {} => AllThere(c)'
      BY <3>1, <3>3 DEF Fills
    <3>7. Seen(c, win[c].paged)' /\ Above(c, win[c].paged)'
      <4> PICK p : p = win[c].paged
          OBVIOUS
      <4>1. Seen(c, p)' /\ Above(c, p)'
        BY <1>9, <2>1, KeptFacts DEF Filled
      <4>2. Seen(c, a.ids)' /\ Above(c, a.ids)'
        BY <3>3, <3>4 DEF Fills, Seen
      <4>3. Seen(c, p \cup a.ids)' /\ Above(c, p \cup a.ids)'
        BY <4>1, <4>2 DEF Above, Seen
      <4> QED  BY <3>1, <4>3
    <3>8. Filled(c)'
      BY <3>1, <3>3, <3>5, <3>6, <3>7 DEF Filled
    <3> QED  BY <2>4, <3>2, <3>8
  <2> QED  BY <2>5, <2>6
<1> QED
  BY <1>5, <1>10 DEF Stays
-----------------------------------------------------------------------------
(* What the server's steps do to the windows.                              *)

(* A request is taken, and what it stores is covered. *)
LEMMA TakeStays ==
  ASSUME TypeInv, Complete, NEW c \in Convs, Kept(c), UNCHANGED <<win, pending>>,
         requests # <<>>, requests' = Tail(requests), hand'[1].kind # "history"
  PROVE  Stays(c)
<1>1. Whole(c) => Calm(c)
  <2> SUFFICES ASSUME Whole(c) PROVE Calm(c)
      OBVIOUS
  <2>1. Tidy(c)
    BY DEF Complete
  <2>2. Single(requests', c, win[c].offset, Echoes(c)') /\ (NoAsks(requests, c) => NoAsks(requests', c))
    BY <2>1, RequestsTyped, SingleTail, SameWindow DEF Tidy
  <2>3. ~Asks(hand'[1], c)
    BY DEF Asks
  <2> QED  BY <2>1, <2>2, <2>3 DEF Calm, Tidy
<1> QED
  BY <1>1, SameWindow, CalmStays DEF Complete

(* Taking or refusing one, or reading a page, stores nothing. *)
LEMMA QuietlyKept ==
  ASSUME log' = log, UNCHANGED <<win, out, down>>, skipped \subseteq skipped', NEW c
  PROVE  Kept(c)
<1>1. \A i \in Of(c) : Covered(c, i) => Covered(c, i)'
  BY SameWindow, CoveredKeeps
<1> QED
  BY <1>1, KeptQuietly

LEMMA RefusedStays ==
  ASSUME TypeInv, OthersIdle, conn = 1, Complete, NEW k \in Loops, Refuse(k), NEW c \in Convs
  PROVE  Stays(c)
<1>1. /\ k = 1 /\ hand[1] = Nothing /\ UNCHANGED <<log, win, pending, out, down, skipped>>
      /\ up # <<>> /\ up' = Tail(up) /\ hand' = [hand EXCEPT ![1] = [Head(up) EXCEPT !.kind = "error"]]
  BY OneLoop DEF Refuse, Take
<1>2. hand'[1].kind # "history"
  <2>1. Head(up) \in Packet
    BY TakingTyped DEF Refuse, TypeInv
  <2>2. [Head(up) EXCEPT !.kind = "error"].kind = "error"
    BY <2>1 DEF Packet
  <2>3. hand'[1].kind = "error"
    BY <1>1, <2>2, OneLoop
  <2> QED  BY <2>3
<1>3. requests = up /\ requests' = Tail(requests)
  BY <1>1, <1>2 DEF requests, Nothing
<1> QED
  BY <1>1, <1>2, <1>3, QuietlyKept, TakeStays

(* A request that is counted stays one; a limit cut to nothing is of a     *)
(* conversation with no more messages than the window's offset.            *)
LEMMA CountStays ==
  ASSUME TypeInv, OthersIdle, conn = 1, Complete, NEW k \in Loops, Count(k), NEW c \in Convs
  PROVE  Stays(c)
<1> PICK p, o : p = Head(up) /\ o = p.offset
    OBVIOUS
<1>1. k = 1 /\ hand[1] = Nothing /\ UNCHANGED <<log, win, pending, out, down, skipped>> /\ up # <<>>
  BY OneLoop DEF Count, Take
<1>2. requests' = requests /\ hand'[1] = Limited(p) /\ requests = up
  BY <1>1, RequestsCounted
<1>3. p \in Packet /\ p.kind = "history" /\ p.limit = PageSize
  BY <1>1, QueuesTyped, TakingAsks DEF Count
<1>4. Kept(c)
  BY <1>1, QuietlyKept
<1>5. CASE ~Whole(c)
  BY <1>1, <1>5, SameWindow DEF Stays
<1>6. CASE Whole(c)
  <2>1. Tidy(c) /\ Filled(c)
    BY <1>6 DEF Complete
  <2>2. Tidy(c)'
    BY <1>1, <1>2, <2>1, SameWindow DEF Tidy
  <2>3. \A s : Closes(s, c) => Closes(s, c)'
    BY <1>1, <1>2, <1>4, FillsKeeps DEF Closes
  <2>4. ASSUME Asks(hand'[1], c), hand'[1].limit = 0, win[c].paged = {} PROVE AllThere(c)
    <3>1. p.conv = c /\ Cardinality(Of(c)) = o
      <4>1. Limited(p).conv = p.conv
        BY <1>3, LimitedIs DEF TypeInv
      <4>2. p.conv = c
        BY <1>2, <2>4, <4>1 DEF Asks
      <4>3. Cardinality(Of(c)) \in Nat
        BY CardinalitiesAre, LenProperties DEF Of, TypeInv, TypeOK
      <4>4. Limited(p).limit = IF o + PageSize > Cardinality(Of(c)) THEN Cardinality(Of(c)) - o ELSE PageSize
        BY <1>3, <4>2 DEF Limited, Of, Packet
      <4>5. o \in Nat /\ PageSize \in Nat \ {0}
        BY <1>3, ChatClientAssumption DEF Packet
      <4> QED  BY <1>2, <2>4, <4>2, <4>3, <4>4, <4>5
    <3>2. Asks(p, c) /\ p = requests[1] /\ 1 \in 1 .. Len(requests)
      BY <1>1, <1>2, <1>3, <3>1, QueuesTyped, HeadTailProperties, EmptySeq DEF Asks
    <3>3. ~NoAsks(requests, c) /\ o = win[c].offset
      BY <2>1, <3>2 DEF NoAsks, Tidy, Single
    <3>4. CASE o > 0
      BY <2>1, <2>4, <3>3, <3>4 DEF Filled
    <3>5. CASE ~(o > 0)
      <4>1. o = 0
        BY <1>3, <3>5 DEF Packet
      <4>2. IsFiniteSet(Of(c))
        BY CardinalitiesAre, LenProperties DEF Of, TypeInv, TypeOK
      <4>3. Of(c) = {}
        BY <3>1, <4>1, <4>2, FS_EmptySet
      <4> QED  BY <4>3 DEF AllThere
    <3> QED  BY <3>4, <3>5
  <2>5. Filled(c)'
    <3>1. win'[c] = win[c] /\ pending' = pending
      BY <1>1
    <3>2. Seen(c, win[c].paged)' /\ Above(c, win[c].paged)'
      <4> PICK s : s = win[c].paged
          OBVIOUS
      <4>1. Seen(c, s)' /\ Above(c, s)'
        BY <1>4, <2>1, KeptFacts DEF Filled
      <4> QED  BY <3>1, <4>1
    <3>3. (c \notin Items(pending) =>
            Newest(c, win[c].offset + PageSize) /\ (win[c].paged = {} => AllThere(c)))'
      BY <1>1, <1>4, <2>1, OffsetIs, KeptFacts DEF Filled
    <3>4. (~NoAsks(requests, c) =>
            Newest(c, win[c].offset) /\ (win[c].offset > 0 /\ win[c].paged = {} => AllThere(c)))'
      BY <1>1, <1>2, <1>4, <2>1, OffsetIs, KeptFacts DEF Filled
    <3>5. (Asks(hand[1], c) /\ hand[1].limit = 0 /\ win[c].paged = {} => AllThere(c))'
      BY <1>1, <1>4, <2>4, KeptFacts
    <3> QED  BY <3>2, <3>3, <3>4, <3>5 DEF Filled
  <2> QED  BY <1>6, <2>2, <2>3, <2>5 DEF Stays
<1> QED
  BY <1>5, <1>6

(* A message stored is in the window, or the page it waits for is read     *)
(* later.                                                                  *)
LEMMA StoreStays ==
  ASSUME TypeInv, OthersIdle, conn = 1, Complete, NEW k \in Loops, Store(k), NEW c \in Convs
  PROVE  Stays(c)
<1> PICK p, m, n : p = Head(up) /\ m = [conv |-> p.conv, token |-> p.token] /\ n = Len(log) + 1
    OBVIOUS
<1>0. /\ k = 1 /\ hand[1] = Nothing /\ up # <<>> /\ up' = Tail(up)
      /\ hand' = [hand EXCEPT ![1] = [p EXCEPT !.kind = "ack", !.id = n]]
  BY OneLoop DEF Store, Take
<1>1. /\ UNCHANGED <<win, pending, out, down, skipped>> /\ requests # <<>> /\ requests' = Tail(requests)
      /\ requests = up /\ hand'[1].kind # "history"
      /\ Len(log) < MaxMessages /\ log' = Append(log, m) /\ p.kind = "send"
  <2>1. p \in Packet
    BY TakingTyped DEF Store, TypeInv
  <2>2. [p EXCEPT !.kind = "ack", !.id = n].kind = "ack"
    BY <2>1 DEF Packet
  <2>3. hand'[1].kind = "ack"
    BY <1>0, <2>2, OneLoop
  <2>4. requests = up /\ requests' = Tail(requests)
    BY <1>0, <2>3 DEF requests, Nothing
  <2> QED  BY <1>0, <2>3, <2>4 DEF Store, Take, client
<1>2. p \in Packet /\ p.conv \in Convs
  BY TakingTyped, TakingAsks DEF Store, TypeInv, Asked
<1>3. m \in Stored /\ m.conv = p.conv /\ m.token = p.token
  BY <1>2 DEF Stored, Packet
<1>4. n = Len(log') /\ n \in Nat /\ log'[n] = m /\ \A i \in 1 .. Len(log) : log'[i] = log[i]
  BY <1>1, <1>3, StoringTyped, LenProperties DEF TypeInv, TypeOK
<1>5. \A i \in Of(c) : Covered(c, i) => Covered(c, i)'
  <2> SUFFICES ASSUME NEW i \in Of(c), Covered(c, i) PROVE Covered(c, i)'
      OBVIOUS
  <2>1. log'[i] = log[i]
    BY <1>4 DEF Of
  <2> QED  BY <1>1, <2>1, SameWindow, CoveredKeeps
<1>6. CASE p.conv = c => Covered(c, n)'
  <2>1. Kept(c)
    BY <1>1, <1>3, <1>5, <1>6, KeptStored
  <2> QED  BY <1>1, <2>1, TakeStays
<1>7. CASE ~Whole(c)
  <2>1. ~Whole(c)'
    BY <1>1, <1>7, SameWindow
  <2> QED  BY <2>1 DEF Stays
<1>8. CASE p.conv = c /\ Whole(c) /\ ~Covered(c, n)'
  <2>1. Tidy(c)
    BY <1>8 DEF Complete
  <2>2. p.token \notin Echoes(c)
    <3>1. Echoes(c)' = Echoes(c)
      BY <1>1, SameWindow
    <3> QED  BY <1>3, <1>4, <1>8, <3>1 DEF Covered
  <2>3. /\ Single(requests', c, win[c].offset, Echoes(c)) /\ win[c].offset = 0
        /\ ~NoAsks(requests', c) /\ ~NoAsks(requests, c) /\ ~Asks(hand'[1], c)
    BY <1>1, <1>8, <2>1, <2>2, RequestsTyped, SingleTail DEF Tidy, Posts, Asks
  <2>4. c \in Items(pending)
    <3>1. PICK j \in 1 .. Len(requests) : Asks(requests[j], c)
      BY <2>3 DEF NoAsks
    <3>2. requests[j] \in Items(requests)
      BY RequestsTyped, LenProperties DEF Items
    <3> QED  BY <3>1, <3>2, QueuesTyped, RequestsTyped, AlignedAwaits DEF Complete, Asks
  <2>5. win[c].loading /\ win[c].paged = {}
    BY <2>1, <2>3, <2>4 DEF Tidy
  <2>6. Tidy(c)'
    BY <1>1, <2>1, <2>3, SameWindow DEF Tidy
  <2>7. Newest(c, 0)'
    <3> SUFFICES ASSUME NEW i \in Of(c)', Rank(c, i)' < 0 PROVE FALSE
        BY DEF Newest
    <3>1. Newer(c, i)' \subseteq 1 .. n
      BY <1>4 DEF Newer, Of
    <3>2. Rank(c, i)' \in Nat
      BY <1>4, <3>1, CardinalitiesAre DEF Rank
    <3> QED  BY <3>2
  <2>8. Filled(c)'
    BY <1>1, <2>3, <2>4, <2>5, <2>7 DEF Filled, Seen, Above
  <2> QED  BY <1>8, <2>3, <2>6, <2>8 DEF Stays, Closes
<1> QED
  BY <1>6, <1>7, <1>8

LEMMA ReplyStays ==
  ASSUME TypeInv, OthersIdle, conn = 1, Complete, lost' = {}, NEW c \in Convs,
         (\E k \in Loops : Reply(k)) \/ (\E i \in Ids : Broadcast(i))
  PROVE  Stays(c)
<1>1. /\ UNCHANGED <<log, pending, win, skipped>> /\ requests' = requests
      /\ Asks(hand'[1], c) => hand'[1] = hand[1]
  <2>1. ASSUME NEW k \in Loops, Reply(k)
        PROVE  requests' = requests /\ ~Asks(hand'[1], c)
    <3>1. k = 1 /\ hand[1].kind # "history" /\ hand' = [hand EXCEPT ![1] = Nothing] /\ up' = up
      BY <2>1, OneLoop DEF Reply
    <3>2. hand'[1].kind = "none"
      BY <3>1, OneLoop DEF Nothing
    <3> QED  BY <3>1, <3>2 DEF requests, Asks
  <2>2. ASSUME NEW i \in Ids, Broadcast(i)
        PROVE  requests' = requests /\ hand' = hand
    BY <2>2, RequestsSame DEF Broadcast
  <2> QED  BY <2>1, <2>2 DEF Reply, Broadcast, client
<1>2. ASSUME NEW x, Deliver(x) PROVE down' = Append(down, x)
  BY <1>2, LosingNothing DEF Deliver
<1>3. ASSUME NEW k \in Loops, Reply(k) PROVE Items(down) \subseteq Items(down') /\ out' = out
  <2>1. hand[k] \in Packet /\ down' = Append(down, hand[k])
    BY <1>2, <1>3, QueuesTyped DEF Reply
  <2> QED  BY <1>3, <2>1, QueuesTyped, ItemsOfAppend DEF Reply
<1>4. ASSUME NEW i \in Ids, Broadcast(i)
      PROVE  Items(down) \subseteq Items(down') /\ out' = out \ {i} /\ Told(i)'
  <2> PICK x : x = [Nothing EXCEPT !.kind = "message", !.id = i]
      OBVIOUS
  <2>1. x \in Packet /\ x.kind = "message" /\ x.id = i
    BY PacketsTyped DEF Nothing
  <2>2. down' = Append(down, x) /\ out' = out \ {i}
    BY <1>2, <1>4 DEF Broadcast
  <2>3. Items(down') = Items(down) \cup {x}
    BY <2>1, <2>2, QueuesTyped, ItemsOfAppend
  <2> QED  BY <2>1, <2>2, <2>3 DEF Told
<1>5. Items(down) \subseteq Items(down') /\ \A j \in out : j \in out' \/ Told(j)'
  BY <1>3, <1>4
<1>6. \A i \in Of(c) : Covered(c, i) => Covered(c, i)'
  BY <1>1, <1>5, SameWindow DEF Covered, Told
<1> QED
  BY <1>1, <1>6, SameWindow, EventStays

(* A message of another is covered by its broadcast. *)
LEMMA OtherStays ==
  ASSUME TypeInv, Complete, NEW d \in Convs, OtherSends(d), NEW c \in Convs
  PROVE  Stays(c)
<1> PICK m, n : m = [conv |-> d, token |-> 0] /\ n = Len(log) + 1
    OBVIOUS
<1>1. /\ UNCHANGED <<win, pending, hand, down, skipped>> /\ requests' = requests /\ out' = out \cup {n}
      /\ Len(log) < MaxMessages /\ log' = Append(log, m) /\ m \in Stored
  BY RequestsSame DEF OtherSends, client, link, Stored
<1>2. \A i \in 1 .. Len(log) : log'[i] = log[i]
  BY <1>1, StoringTyped DEF TypeInv
<1>3. \A i \in Of(c) : Covered(c, i) => Covered(c, i)'
  <2> SUFFICES ASSUME NEW i \in Of(c), Covered(c, i) PROVE Covered(c, i)'
      OBVIOUS
  <2>1. log'[i] = log[i]
    BY <1>2 DEF Of
  <2> QED  BY <1>1, <2>1, SameWindow, CoveredKeeps
<1>4. Covered(c, n)'
  BY <1>1 DEF Covered
<1>5. Kept(c)
  BY <1>1, <1>3, <1>4, KeptStored
<1>6. Whole(c) => Calm(c)
  BY <1>1, <1>5, SameWindow DEF Calm, Complete, Tidy
<1> QED
  BY <1>1, <1>6, SameWindow, CalmStays DEF Complete

(* A connection that drops and loses nothing had nothing on its way. *)
LEMMA DisconnectStays ==
  ASSUME TypeInv, Complete, Disconnect, lost' = {}, NEW c \in Convs
  PROVE  Stays(c)
<1>1. {up[n].kind : n \in DOMAIN up} \cup {down[n].kind : n \in DOMAIN down} = {}
  BY LosingNothing DEF Disconnect
<1>2. Len(up) = 0 /\ Len(down) = 0
  <2>1. Len(up) \in Nat /\ DOMAIN up = 1 .. Len(up) /\ Len(down) \in Nat /\ DOMAIN down = 1 .. Len(down)
    BY QueuesTyped, LenProperties
  <2>2. ~(1 \in DOMAIN up) /\ ~(1 \in DOMAIN down)
    BY <1>1
  <2> QED  BY <2>1, <2>2
<1>3. up' = up /\ down' = down
  BY <1>2, QueuesTyped, EmptySeq DEF Disconnect
<1>4. UNCHANGED <<log, out, win, pending, hand, skipped>> /\ requests' = requests
  BY <1>3, RequestsSame DEF Disconnect, server, client
<1>5. \A i \in Of(c) : Covered(c, i) => Covered(c, i)'
  BY <1>3, <1>4, SameWindow, CoveredKeeps
<1> QED
  BY <1>3, <1>4, <1>5, SameWindow, EventStays
-----------------------------------------------------------------------------
(* The page read for a window that waits closes what was left of its gap:  *)
(* its offset newest messages are covered already.                         *)

LEMMA ReadFills ==
  ASSUME TypeInv, NEW c \in Convs, Filled(c), ~NoAsks(requests, c),
         Asks(hand[1], c), hand[1].offset = win[c].offset, ReadPage(1)
  PROVE  /\ \A i \in Of(c) : Rank(c, i) < win[c].offset + PageSize =>
              i \in PageOf(hand[1]).ids \/ Covered(c, i) \/ i \in skipped'
         /\ Above(c, PageOf(hand[1]).ids)
         /\ PageOf(hand[1]).ids = {} /\ win[c].paged = {} => AllThere(c)
<1> PICK h, o, l, s : h = hand[1] /\ o = win[c].offset /\ l = h.limit /\ s = Page(c, o, l)
    OBVIOUS
<1>1. o \in Nat /\ PageSize \in Nat /\ PageSize > 0 /\ l \in Int
  BY OffsetIs, QueuesTyped DEF Packet
<1>2. PageOf(h).ids = s
  BY PageOfIs DEF Asks
<1>3. \A m : \A i \in Of(c) : i \in Page(c, o, m) <=> Rank(c, i) >= o /\ (m < 0 \/ Rank(c, i) < o + m)
  BY DEF Page, Of, Rank, Newer
<1>4. s \subseteq Of(c)
  BY DEF Page, Of
<1>5. Page(c, o, PageSize) \ s \subseteq skipped'
  BY DEF ReadPage, Asks
<1>6. ASSUME NEW i \in Of(c), Rank(c, i) < o + PageSize PROVE i \in s \/ Covered(c, i) \/ i \in skipped'
  <2>1. Rank(c, i) \in Nat
    BY CountIs
  <2>2. CASE Rank(c, i) < o
    BY <2>2 DEF Filled, Newest
  <2>3. CASE ~(Rank(c, i) < o)
    <3>1. i \in Page(c, o, PageSize)
      BY <1>1, <1>3, <1>6, <2>1, <2>3
    <3> QED  BY <1>5, <3>1
  <2> QED  BY <2>2, <2>3
<1>7. Above(c, s)
  <2> SUFFICES ASSUME NEW i \in Of(c), NEW j \in s, j < i PROVE i \in s \/ Covered(c, i)
      BY DEF Above
  <2>1. j \in Of(c) /\ Rank(c, j) >= o /\ (l < 0 \/ Rank(c, j) < o + l)
    BY <1>3, <1>4
  <2>2. Rank(c, i) \in Nat /\ Rank(c, j) \in Nat /\ Rank(c, i) <= Rank(c, j)
    BY <2>1, CountIs
  <2>3. CASE Rank(c, i) < o
    BY <2>3 DEF Filled, Newest
  <2>4. CASE ~(Rank(c, i) < o)
    <3>1. Rank(c, i) >= o /\ (l < 0 \/ Rank(c, i) < o + l)
      BY <1>1, <2>1, <2>2, <2>4
    <3> QED  BY <1>3, <3>1
  <2> QED  BY <2>3, <2>4
<1>8. ASSUME s = {}, win[c].paged = {} PROVE AllThere(c)
  <2>1. CASE o > 0
    BY <1>8, <2>1 DEF Filled
  <2>2. CASE Of(c) = {}
    BY <2>2 DEF AllThere
  <2>3. CASE l = 0
    BY <1>8, <2>3 DEF Filled
  <2>4. CASE o = 0 /\ Of(c) # {} /\ l # 0
    <3>1. PICK i \in Of(c) : Rank(c, i) = 0
      BY <2>4, NewestIs
    <3>2. CASE l < 0
      <4>1. Rank(c, i) >= o /\ (l < 0 \/ Rank(c, i) < o + l)
        BY <1>1, <2>4, <3>1, <3>2
      <4>2. i \in s
        BY <1>3, <4>1
      <4> QED  BY <1>8, <4>2
    <3>3. CASE l > 0
      <4>1. Rank(c, i) >= o /\ (l < 0 \/ Rank(c, i) < o + l)
        BY <1>1, <2>4, <3>1, <3>3
      <4>2. i \in s
        BY <1>3, <4>1
      <4> QED  BY <1>8, <4>2
    <3>4. CASE ~(l < 0) /\ ~(l > 0)
      BY <1>1, <2>4, <3>4
    <3> QED  BY <3>2, <3>3, <3>4
  <2> QED  BY <1>1, <2>1, <2>2, <2>3, <2>4
<1> QED
  BY <1>2, <1>6, <1>7, <1>8

(* What a step that reads a page does. *)
LEMMA ReadingIs ==
  ASSUME TypeInv, OthersIdle, conn = 1, NEW k \in Loops, ReadPage(k)
  PROVE  /\ k = 1 /\ hand[1].kind = "history" /\ hand'[1].kind = "page"
         /\ UNCHANGED <<log, out, down, win, pending>> /\ skipped \subseteq skipped'
         /\ requests # <<>> /\ requests' = Tail(requests)
<1>1. k = 1 /\ hand[1].kind = "history"
  BY OneLoop DEF ReadPage
<1>2. hand' = [hand EXCEPT ![1] = PageOf(hand[1])]
  BY <1>1 DEF ReadPage, PageOf
<1>3. hand'[1].kind = "page"
  BY <1>2, OneLoop, PageOfIs
<1>4. up' = up /\ requests # <<>> /\ Tail(requests) = up
  BY <1>1, RequestsTyped DEF ReadPage, link
<1>5. requests' = Tail(requests)
  BY <1>3, <1>4 DEF requests
<1> QED
  BY <1>1, <1>3, <1>4, <1>5 DEF ReadPage, link, client

LEMMA ReadingStays ==
  ASSUME TypeInv, OthersIdle, conn = 1, Complete, NEW k \in Loops, ReadPage(k), NEW c \in Convs
  PROVE  Kept(c) /\ Stays(c)
<1>1. Kept(c)
  BY ReadingIs, QuietlyKept
<1> QED
  BY <1>1, ReadingIs, TakeStays

LEMMA ReadCloses ==
  ASSUME TypeInv, OthersIdle, conn = 1, Complete, ReadPage(1)
  PROVE  <<PageOf(hand[1]).ids, hand[1].conv>> \in Closing'
<1> PICK h, c, s : h = hand[1] /\ c = h.conv /\ s = PageOf(h).ids
    OBVIOUS
<1>1. 1 \in Loops /\ h \in Packet
  BY QueuesTyped
<1>2. /\ h.kind = "history" /\ UNCHANGED <<log, win, pending>>
      /\ requests # <<>> /\ requests' = Tail(requests)
      /\ Head(requests) = [h EXCEPT !.limit = PageSize] /\ Head(requests) \in Items(requests)
  BY <1>1, ReadingIs, RequestsTyped
<1>3. c \in Convs /\ Head(requests).conv = c /\ Head(requests).kind = "history" /\ Head(requests).offset = h.offset
  <2>1. Head(requests).conv = c /\ Head(requests).kind = "history" /\ Head(requests).offset = h.offset
    BY <1>1, <1>2, AsAsked
  <2> QED  BY <1>2, <2>1, RequestsTyped
<1>4. s \in SUBSET Ids
  BY PagesTyped, PageOfIs DEF TypeInv
<1>5. ASSUME Whole(c) PROVE NoAsks(requests', c) /\ Fills(s, c)'
  <2>1. Tidy(c) /\ Filled(c)
    BY <1>3, <1>5 DEF Complete
  <2>2. NoAsks(requests', c) /\ h.offset = win[c].offset
    BY <1>2, <1>3, <2>1, RequestsTyped, SingleTail DEF Tidy, Asks
  <2>3. Asks(h, c) /\ ~NoAsks(requests, c)
    BY <1>2, HandAsks DEF Asks
  <2>4. /\ \A i \in Of(c) : Rank(c, i) < win[c].offset + PageSize =>
              i \in s \/ Covered(c, i) \/ i \in skipped'
        /\ Above(c, s)
        /\ s = {} /\ win[c].paged = {} => AllThere(c)
    BY <1>3, <2>1, <2>2, <2>3, ReadFills
  <2>5. Kept(c)
    BY <1>1, <1>3, ReadingStays
  <2>6. Above(c, s)' /\ (s = {} /\ win'[c].paged = {} => AllThere(c)')
    BY <1>2, <2>4, <2>5, KeptFacts
  <2>7. Of(c)' = Of(c) /\ \A i : Rank(c, i)' = Rank(c, i)
    BY <1>2 DEF Of, Rank, Newer
  <2>8. ASSUME NEW i \in Of(c)', Rank(c, i)' < win'[c].offset + PageSize PROVE i \in s \/ Covered(c, i)'
    <3>1. i \in s \/ Covered(c, i) \/ i \in skipped'
      BY <1>2, <2>4, <2>7, <2>8
    <3>2. Covered(c, i) => Covered(c, i)'
      BY <2>5, <2>7, <2>8 DEF Kept
    <3>3. i \in skipped' => Covered(c, i)'
      BY DEF Covered
    <3> QED  BY <3>1, <3>2, <3>3
  <2> QED  BY <2>2, <2>6, <2>8 DEF Fills
<1>6. Whole(c)' = Whole(c)
  BY <1>2, SameWindow
<1> QED
  BY <1>3, <1>4, <1>5, <1>6 DEF Closing, Closes

LEMMA StepStays ==
  ASSUME TypeInv, AckInv, HeardInv, OthersIdle, Complete, [Next]_vars, conn' = 1, lost' = {}, NEW c \in Convs
  PROVE  Stays(c)
<1>1. ~Reconnect /\ conn = 1
  BY NoWayBack
<1>2. CASE User
  BY <1>2, OpenStays, CloseStays, LoadMoreStays, SendStays DEF User
<1>3. CASE Client
  BY <1>3, FailingStays, MessageStays, PageStays, AckStays DEF Client
<1>4. ASSUME NEW k \in Loops, DropRequest(k) PROVE FALSE
  BY <1>4, LosingNothing DEF DropRequest
<1>5. ASSUME NEW k \in Loops, Count(k) \/ ReadPage(k) \/ Refuse(k) PROVE Stays(c)
  BY <1>1, <1>5, CountStays, ReadingStays, RefusedStays
<1>6. CASE Server
  BY <1>1, <1>4, <1>5, <1>6, StoreStays, ReplyStays, OtherStays DEF Server
<1>7. CASE Disconnect
  BY <1>7, DisconnectStays
<1>8. CASE UNCHANGED vars
  <2>1. UNCHANGED <<log, out, up, down, win, pending, hand, skipped>> /\ requests' = requests
    BY <1>8, RequestsSame DEF vars, server, link, client
  <2>2. \A i \in Of(c) : Covered(c, i) => Covered(c, i)'
    BY <2>1, SameWindow, CoveredKeeps
  <2> QED  BY <2>1, <2>2, SameWindow, EventStays
<1> QED
  BY <1>1, <1>2, <1>3, <1>6, <1>7, <1>8 DEF Next

LEMMA StepComplete ==
  ASSUME TypeInv, AckInv, HeardInv, OthersIdle, Complete, [Next]_vars, conn' = 1, lost' = {}
  PROVE  Complete'
<1> PICK K : K = Closing'
    OBVIOUS
<1>1. \A c \in Convs : Whole(c)' => Tidy(c)' /\ Filled(c)'
  BY StepStays DEF Stays
<1>2. ASSUME NEW s, NEW c, <<s, c>> \in Closing, c \in Items(pending) PROVE <<s, c>> \in K
  <2>1. c \in Convs /\ s \in SUBSET Ids /\ (Whole(c) => Closes(s, c))
    BY <1>2 DEF Closing
  <2>2. Whole(c)' => Closes(s, c)'
    BY <1>2, <2>1, StepStays DEF Stays
  <2> QED  BY <2>1, <2>2 DEF Closing
<1>3. InStep(K)
  BY <1>2, QueuesTyped, RequestsTyped, AlignedWiden DEF Complete, InStep
<1>4. ReadPage(1) => <<PageOf(hand[1]).ids, hand[1].conv>> \in K
  BY ReadCloses, NoWayBack
<1>5. StillInStep(K)
  BY <1>3, <1>4, StepAligned
<1> QED
  BY <1>1, <1>5 DEF Complete, StillInStep

LEMMA InitComplete == Init => GapInv
<1> SUFFICES ASSUME Init PROVE Complete
    BY DEF GapInv
<1>1. \A c \in Convs : ~Whole(c)
  BY DEF Init, Closed, Whole
<1>2. Aligned(Pairs, down, hand[1], requests, pending)
  <2>1. InOrder
    BY InitBelongs
  <2> QED  BY <2>1 DEF Init, InOrder, Orderly, PagesInStep
<1>3. Aligned(Closing, down, hand[1], requests, pending)
  <2>1. down \in Seq(Packet) /\ requests \in Seq(Packet) /\ pending \in Seq(Convs) /\ Items(pending) = {}
    <3>1. 1 \in Loops
      BY ChatClientAssumption DEF Loops
    <3> QED  BY <3>1, ItemsOfEmpty DEF Init, requests, Nothing
  <2>2. \A x, c : <<x, c>> \in Pairs /\ c \in Items(pending) => <<x, c>> \in Closing
    BY <2>1
  <2> QED  BY <1>2, <2>1, <2>2, AlignedWiden
<1> QED
  BY <1>1, <1>3 DEF Complete

(* ChatContext.tsx:649-661, ws-manager.go:535-560: pages counted           *)
(* back from a newest message that moves leave no gap in an open window,   *)
(* however sends, counts, broadcasts, pages and acks cross, as long as     *)
(* nothing was lost on the first connection and no page asked for by an    *)
(* earlier opening was still to come when the window was opened; but for   *)
(* messages left out by a page whose limit was cut before more were stored.*)
THEOREM NothingIsSkipped == Spec => []NoGaps
<1>1. TypeInv /\ AckInv /\ HeardInv /\ InOrder /\ GapInv /\ [Next]_vars => (HeardInv /\ InOrder /\ GapInv)'
  <2> SUFFICES ASSUME TypeInv, AckInv, HeardInv, InOrder, GapInv, [Next]_vars
               PROVE  (HeardInv /\ InOrder /\ GapInv)'
      OBVIOUS
  <2>1. HeardInv' /\ InOrder'
    BY StepHeard, StepBelongs
  <2>2. ASSUME conn' = 1, lost' = {} PROVE Complete'
    <3>1. conn = 1 /\ lost = {}
      BY <2>2, NoWayBack
    <3>2. Complete /\ OthersIdle
      BY <3>1 DEF GapInv, InOrder, Orderly
    <3> QED  BY <2>2, <3>2, StepComplete
  <2> QED  BY <2>1, <2>2 DEF GapInv
<1>2. TypeInv /\ GapInv => NoGaps
  <2> SUFFICES ASSUME TypeInv, Settled, Complete, NEW c \in Convs, NEW i \in 1 .. Len(log),
                      Whole(c), log[i].conv = c, win[c].paged = {} \/ \E j \in win[c].paged : j < i
               PROVE  \/ i \in Confirmed(c) \cup skipped
                      \/ \E e \in Entries(c) : e.token # 0 /\ e.token = log[i].token
      BY DEF NoGaps, GapInv, Whole
  <2>1. Filled(c) /\ i \in Of(c) /\ c \notin Items(pending)
    BY ItemsOfEmpty DEF Complete, Settled, Of
  <2>2. Covered(c, i)
    BY <2>1 DEF Filled, AllThere, Above, Seen
  <2>3. i \notin out /\ ~Told(i)
    BY ItemsOfEmpty DEF Settled, Told
  <2> QED  BY <2>2, <2>3 DEF Covered, Echoes
<1> QED
  BY <1>1, <1>2, InitBelongs, InitComplete, TypedAlways, AcksAlways, PTL DEF Spec
=============================================================================
