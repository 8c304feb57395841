--------------------------- MODULE Conversations ---------------------------
(***************************************************************************)
(* Direct and group conversations: the rows the server keeps about them    *)
(* and the websocket event handlers that read and change those rows.       *)
(*                                                                         *)
(* Every statement on the database is one action (it runs in a transaction *)
(* of its own), and so is removeConversationMember, which opens one.  What *)
(* a handler read earlier it keeps in its locals, loop[a].  SQLite gives a *)
(* new row the id after the largest one in use, so the id of a deleted     *)
(* conversation or message may be given out again: a handler whose         *)
(* conversation is deleted meanwhile is stale, and what it writes lands in *)
(* the next conversation of the id.  What the clients are sent is not      *)
(* followed here.                                                          *)
(***************************************************************************)
EXTENDS Naturals, FiniteSets

CONSTANTS Users,      \* user ids
          ConvIDs,    \* bound: conversation ids
          MessageIDs, \* bound: message ids
          Loops,      \* read loops with an event in hand at once
          MaxOthers,  \* maxGroupMembers: members of a group but for its creator
          Ops,        \* bound: the kinds of event that arrive
          None

ASSUME ConversationsAssumption ==
  /\ Users \subseteq Nat
  /\ ConvIDs \subseteq Nat \ {0}
  /\ MessageIDs \subseteq Nat \ {0}
  /\ MaxOthers \in Nat
  /\ None \notin Nat

VARIABLES kind,     \* conversation.is_group, "none" when there is no row
          pair,     \* conversation.direct_pair_key, {} for NULL
          member,   \* conversation_member
          message,  \* message
          mark,     \* message_read.last_read_message_id, 0 without a row
          loop,     \* the handler each read loop is in
          was,      \* history: who has been a member since the row exists
          strays    \* history: the watermarks that stale handlers have set

rows == <<kind, pair, member, message, mark, was, strays>>
vars == <<rows, loop>>

Kinds == {"none", "direct", "group"}
Steps == {"idle", "requester", "target", "add", "part", "reread", "insert",
          "exists", "mark", "receivers", "lookup", "enrol", "opened"}
Changes == {"leave", "add", "remove"}

(* stray, a history: a stale handler stored it. *)
Message == [conv: ConvIDs, from: Users, stray: BOOLEAN]
ASSUME NoneIsNoMessage == None \notin Message

(* stale, a history: its conversation has been deleted since it began. *)
Local == [pc: Steps, op: Changes \cup {"none", "send", "read"}, by: Users \cup {None}, conv: Nat,
          target: Users \cup {None}, old: SUBSET Users, todo: SUBSET Users,
          msg: Nat, stale: BOOLEAN]

RowsOK ==
  /\ kind \in [ConvIDs -> Kinds]
  /\ pair \in [ConvIDs -> SUBSET Users]
  /\ member \in [ConvIDs -> SUBSET Users]
  /\ message \in [MessageIDs -> Message \cup {None}]
  /\ mark \in [ConvIDs -> [Users -> Nat]]
  /\ was \in [ConvIDs -> SUBSET Users]
  /\ strays \subseteq ConvIDs \X Users
TypeOK == RowsOK /\ loop \in [Loops -> Local]

Unread == [u \in Users |-> 0]
Idle == [pc |-> "idle", op |-> "none", by |-> None, conv |-> 0, target |-> None,
         old |-> {}, todo |-> {}, msg |-> 0, stale |-> FALSE]

Init ==
  /\ kind = [c \in ConvIDs |-> "none"]
  /\ pair = [c \in ConvIDs |-> {}]
  /\ member = [c \in ConvIDs |-> {}]
  /\ message = [m \in MessageIDs |-> None]
  /\ mark = [c \in ConvIDs |-> Unread]
  /\ loop = [a \in Loops |-> Idle]
  /\ was = [c \in ConvIDs |-> {}]
  /\ strays = {}

Exists(c) == c \in ConvIDs /\ kind[c] # "none"
InConv(c, m) == m \in MessageIDs /\ message[m] # None /\ message[m].conv = c
Larger(x, y) == IF x >= y THEN x ELSE y

(* The id SQLite gives the next row of a table that has the rows of used. *)
NextRow(id, used) ==
  /\ id \notin used
  /\ id = 1 \/ id - 1 \in used
  /\ \A k \in used : k < id
ConvRows == {c \in ConvIDs : kind[c] # "none"}
MessageRows == {m \in MessageIDs : message[m] # None}

At(a, pc) == loop[a].pc = pc
Goto(a, locals) == loop' = [loop EXCEPT ![a] = locals]
Return(a) == Goto(a, Idle)

(* On to the reread; if the conversation is gone, all its handlers are stale. *)
GotoReread(a, gone) ==
  loop' = [b \in Loops |->
             [loop[b] EXCEPT !.pc = IF b = a THEN "reread" ELSE @,
                             !.stale = @ \/ (gone /\ loop[b].conv = loop[a].conv)]]


-----------------------------------------------------------------------------
(* Faulty variants of the actions below, each with a plausible bug.  Next  *)
(* has none of them: they are what the properties must tell from the code. *)

(* A group is kept when its last member goes. *)
PartKeepingRow(a) ==
  /\ At(a, "part")
  /\ LET l == loop[a] IN
       /\ member' = [member EXCEPT ![l.conv] = @ \ {l.target}]
       /\ Goto(a, [l EXCEPT !.pc = "reread"])
  /\ UNCHANGED <<kind, pair, message, mark, was, strays>>

(* An emptied conversation is deleted and its message_read rows are not. *)
PartLeavingMarks(a) ==
  /\ At(a, "part")
  /\ LET l    == loop[a]
         Gone == member[l.conv] = {l.target}
     IN  /\ member' = [member EXCEPT ![l.conv] = @ \ {l.target}]
         /\ kind' = [kind EXCEPT ![l.conv] = IF Gone THEN "none" ELSE @]
         /\ was' = [was EXCEPT ![l.conv] = IF Gone THEN {} ELSE @]
         /\ message' = [m \in MessageIDs |->
                          IF Gone /\ InConv(l.conv, m) THEN None ELSE message[m]]
         /\ GotoReread(a, Gone)
  /\ UNCHANGED <<pair, mark, strays>>

(* The conversation is only looked up, not the membership. *)
SendStartUnchecked(a, u, c) ==
  /\ "send" \in Ops
  /\ At(a, "idle")
  /\ Exists(c)
  /\ Goto(a, [Idle EXCEPT !.pc = "insert", !.op = "send", !.by = u, !.conv = c])
  /\ UNCHANGED rows

(* The message id is taken at the client's word. *)
ReadExistsUnchecked(a) ==
  /\ At(a, "exists")
  /\ Goto(a, [loop[a] EXCEPT !.pc = "mark"])
  /\ UNCHANGED rows

(* The upsert takes the new watermark, not the larger. *)
MarkReadOverwriting(a) ==
  /\ At(a, "mark")
  /\ Exists(loop[a].conv)
  /\ mark' = [mark EXCEPT ![loop[a].conv][loop[a].by] = loop[a].msg]
  /\ Goto(a, [loop[a] EXCEPT !.pc = "receivers"])
  /\ UNCHANGED <<kind, pair, member, message, was, strays>>

(* A direct conversation is found by its members, not by its key. *)
OpenInsertByMembers(a, u, v) ==
  /\ "open" \in Ops
  /\ At(a, "idle")
  /\ u # v
  /\ Goto(a, [Idle EXCEPT !.pc = "lookup", !.by = u, !.target = v, !.todo = {u, v}])
  /\ IF \E c \in ConvIDs : kind[c] = "direct" /\ member[c] = {u, v}
     THEN UNCHANGED rows
     ELSE \E c \in ConvIDs :
            /\ NextRow(c, ConvRows)
            /\ kind' = [kind EXCEPT ![c] = "direct"]
            /\ pair' = [pair EXCEPT ![c] = {u, v}]
            /\ UNCHANGED <<member, message, mark, was, strays>>

(* The members of a direct conversation that exists are taken for granted. *)
OpenLookupTrusting(a) ==
  /\ At(a, "lookup")
  /\ \E c \in ConvIDs :
       /\ pair[c] = loop[a].todo
       /\ Goto(a, [loop[a] EXCEPT !.conv = c,
                      !.pc = IF was[c] = {} THEN "enrol" ELSE "opened"])
  /\ UNCHANGED rows

-----------------------------------------------------------------------------
(* leave-group, add-group-member, remove-group-member: the requester u     *)
(* changes the membership of t in group c.                                 *)

ChangeStart(a, op, u, c, t) ==
  /\ op \in Ops \cap Changes
  /\ At(a, "idle")
  /\ kind[c] = "group"
  /\ op = "leave" => t = u
  /\ Goto(a, [Idle EXCEPT !.pc = "requester", !.op = op, !.by = u, !.conv = c,
                          !.target = t, !.old = member[c]])
  /\ UNCHANGED rows

(* isConversationMember of the requester, and the size cap on an addition, *)
(* which looks at the members ChangeStart found.                           *)
CheckRequester(a) ==
  /\ At(a, "requester")
  /\ LET l == loop[a] IN
       IF \/ l.by \notin member[l.conv]
          \/ l.op = "add" /\ Cardinality(l.old) > MaxOthers
       THEN Return(a)
       ELSE Goto(a, [l EXCEPT !.pc = IF l.op = "leave" THEN "part" ELSE "target"])
  /\ UNCHANGED rows

(* isConversationMember of the target. *)
CheckTarget(a) ==
  /\ At(a, "target")
  /\ LET l == loop[a] IN
       CASE l.op = "add" /\ l.target \notin member[l.conv] ->
              Goto(a, [l EXCEPT !.pc = "add"])
         [] l.op = "remove" /\ l.target \in member[l.conv] ->
              Goto(a, [l EXCEPT !.pc = "part"])
         [] OTHER -> Return(a)
  /\ UNCHANGED rows

(* INSERT OR IGNORE of a member.  A conversation that is gone fails the    *)
(* foreign key: the handler's error ends its connection.                   *)
AddMember(c, u) ==
  /\ member' = [member EXCEPT ![c] = @ \cup {u}]
  /\ was' = [was EXCEPT ![c] = @ \cup {u}]
  /\ UNCHANGED <<kind, pair, message, mark, strays>>

(* addConversationMember *)
Add(a) ==
  /\ At(a, "add")
  /\ LET l == loop[a] IN
       IF Exists(l.conv)
       THEN /\ AddMember(l.conv, l.target)
            /\ Goto(a, [l EXCEPT !.pc = "reread"])
       ELSE /\ Return(a)
            /\ UNCHANGED rows

(* removeConversationMember, which deletes the conversation it emptied. *)
Part(a) ==
  /\ At(a, "part")
  /\ LET l    == loop[a]
         left == member[l.conv] \ {l.target}
         Gone == left = {}
     IN  /\ member' = [member EXCEPT ![l.conv] = left]
         /\ kind' = [kind EXCEPT ![l.conv] = IF Gone THEN "none" ELSE @]
         /\ pair' = [pair EXCEPT ![l.conv] = IF Gone THEN {} ELSE @]
         /\ mark' = [mark EXCEPT ![l.conv] = IF Gone THEN Unread ELSE @]
         /\ was' = [was EXCEPT ![l.conv] = IF Gone THEN {} ELSE @]
         /\ message' = [m \in MessageIDs |->
                          IF Gone /\ InConv(l.conv, m) THEN None ELSE message[m]]
         /\ strays' = {p \in strays : ~(Gone /\ p[1] = l.conv)}
         /\ GotoReread(a, Gone)

(* broadcastGroupMembershipChanged: its query of the members, and the *)
(* event to the old members and the new.                              *)
Reread(a) ==
  /\ At(a, "reread")
  /\ Return(a)
  /\ UNCHANGED rows

-----------------------------------------------------------------------------
(* new-message, by u in c.  One from a non-member is dropped. *)

SendStart(a, u, c) ==
  /\ "send" \in Ops
  /\ At(a, "idle")
  /\ u \in member[c]
  /\ Goto(a, [Idle EXCEPT !.pc = "insert", !.op = "send", !.by = u, !.conv = c])
  /\ UNCHANGED rows

SendInsert(a) ==
  /\ At(a, "insert")
  /\ LET l == loop[a] IN
       IF Exists(l.conv)
       THEN \E m \in MessageIDs :
              /\ NextRow(m, MessageRows)
              /\ message' = [message EXCEPT ![m] = [conv |-> l.conv, from |-> l.by,
                                                      stray |-> l.stale]]
              /\ Goto(a, [l EXCEPT !.pc = "mark", !.msg = m])
              /\ UNCHANGED <<kind, pair, member, mark, was, strays>>
       ELSE /\ Return(a)
            /\ UNCHANGED rows

-----------------------------------------------------------------------------
(* mark-read, by u in c up to message m: an id the client names. *)

ReadStart(a, u, c, m) ==
  /\ "read" \in Ops
  /\ At(a, "idle")
  /\ u \in member[c]
  /\ Goto(a, [Idle EXCEPT !.pc = "exists", !.op = "read", !.by = u, !.conv = c,
                          !.msg = m])
  /\ UNCHANGED rows

(* messageExistsInConversation *)
ReadExists(a) ==
  /\ At(a, "exists")
  /\ IF InConv(loop[a].conv, loop[a].msg)
     THEN Goto(a, [loop[a] EXCEPT !.pc = "mark"])
     ELSE Return(a)
  /\ UNCHANGED rows

(* markConversationRead: an upsert that takes the larger watermark. *)
MarkRead(a) ==
  /\ At(a, "mark")
  /\ LET l == loop[a] IN
       IF Exists(l.conv)
       THEN /\ mark' = [mark EXCEPT ![l.conv][l.by] = Larger(@, l.msg)]
            /\ strays' = IF l.msg <= mark[l.conv][l.by] THEN strays
                         ELSE IF l.stale THEN strays \cup {<<l.conv, l.by>>}
                         ELSE strays \ {<<l.conv, l.by>>}
            /\ Goto(a, [l EXCEPT !.pc = "receivers"])
            /\ UNCHANGED <<kind, pair, member, message, was>>
       ELSE /\ Return(a)
            /\ UNCHANGED rows

(* The member query of broadcastToConversation and the broadcast: what a   *)
(* client does with a message or a read-receipt is not followed.           *)
Receivers(a) ==
  /\ At(a, "receivers")
  /\ Return(a)
  /\ UNCHANGED rows

-----------------------------------------------------------------------------
(* open-direct-chat, of u with v: resolveOrCreateDirectConversation. *)

NewRow(c, k, users) ==
  /\ NextRow(c, ConvRows)
  /\ kind' = [kind EXCEPT ![c] = k]
  /\ pair' = [pair EXCEPT ![c] = users]
  /\ UNCHANGED <<member, message, mark, was, strays>>

(* INSERT OR IGNORE, by direct_pair_key. *)
OpenInsert(a, u, v) ==
  /\ "open" \in Ops
  /\ At(a, "idle")
  /\ u # v
  /\ Goto(a, [Idle EXCEPT !.pc = "lookup", !.by = u, !.target = v, !.todo = {u, v}])
  /\ IF \E c \in ConvIDs : pair[c] = {u, v}
     THEN UNCHANGED rows
     ELSE \E c \in ConvIDs : NewRow(c, "direct", {u, v})

OpenLookup(a) ==
  /\ At(a, "lookup")
  /\ \/ \E c \in ConvIDs :
          /\ pair[c] = loop[a].todo
          /\ Goto(a, [loop[a] EXCEPT !.pc = "enrol", !.conv = c])
     \/ /\ \A c \in ConvIDs : pair[c] # loop[a].todo
        /\ Return(a)
  /\ UNCHANGED rows

(* create-group-chat, by u with the users of others. *)
CreateInsert(a, u, others) ==
  /\ "create" \in Ops
  /\ At(a, "idle")
  /\ others # {}
  /\ Cardinality(others) <= MaxOthers
  /\ \E c \in ConvIDs :
       /\ NewRow(c, "group", {})
       /\ Goto(a, [Idle EXCEPT !.pc = "enrol", !.by = u, !.conv = c,
                               !.todo = others \cup {u}])

(* The members of a new conversation, one insert each: the lower id first  *)
(* in a direct one, the creator first in a group.                          *)
Enrol(a) ==
  /\ At(a, "enrol")
  /\ LET l     == loop[a]
         First == IF l.target # None THEN {u \in l.todo : \A v \in l.todo : u <= v}
                  ELSE IF l.by \in l.todo THEN {l.by}
                  ELSE l.todo
     IN  \E u \in First :
           IF Exists(l.conv)
           THEN /\ AddMember(l.conv, u)
                /\ Goto(a, [l EXCEPT !.todo = @ \ {u},
                             !.pc = IF l.todo = {u} THEN "opened" ELSE "enrol"])
           ELSE /\ Return(a)
                /\ UNCHANGED rows

(* chat-opened, with the conversation as it is now: to the user who opened *)
(* it, or to all the users a group was created with.                       *)
Opened(a) ==
  /\ At(a, "opened")
  /\ Return(a)
  /\ UNCHANGED rows

-----------------------------------------------------------------------------
(* The server stops and starts again: what was committed is still there,   *)
(* no handler is.                                                          *)
Crash ==
  /\ "crash" \in Ops
  /\ \E a \in Loops : ~At(a, "idle")
  /\ loop' = [a \in Loops |-> Idle]
  /\ UNCHANGED rows

-----------------------------------------------------------------------------
Start(a, u) ==
  \/ \E op \in Changes, c \in ConvIDs, t \in Users : ChangeStart(a, op, u, c, t)
  \/ \E c \in ConvIDs : SendStart(a, u, c)
  \/ \E c \in ConvIDs, m \in MessageIDs : ReadStart(a, u, c, m)
  \/ \E v \in Users : OpenInsert(a, u, v)
  \/ \E others \in SUBSET Users : CreateInsert(a, u, others)

Step(a) ==
  \/ CheckRequester(a)
  \/ CheckTarget(a)
  \/ Add(a)
  \/ Part(a)
  \/ Reread(a)
  \/ SendInsert(a)
  \/ ReadExists(a)
  \/ MarkRead(a)
  \/ Receivers(a)
  \/ OpenLookup(a)
  \/ Enrol(a)
  \/ Opened(a)

(* What a running server does. *)
Work ==
  \/ \E a \in Loops, u \in Users : Start(a, u)
  \/ \E a \in Loops : Step(a)

Next == Work \/ Crash

Spec == Init /\ [][Next]_vars
-----------------------------------------------------------------------------
(* Safety.                                                                 *)

(* resolveOrCreateDirectConversation: two users have at most one direct    *)
(* conversation, whichever of them opens it and however often at once.     *)
OneChatPerPair ==
  \A c, d \in ConvIDs : kind[c] = "direct" /\ pair[c] = pair[d] => c = d

(* conversations.go:46-48: whoever is about to be shown a direct           *)
(* conversation finds both its members recorded, even when the row was     *)
(* made by another handler or by one that a crash cut short.               *)
OpenedIsWhole ==
  \A a \in Loops :
    /\ At(a, "opened")
    /\ loop[a].target # None
    => member[loop[a].conv] = {loop[a].by, loop[a].target}

(* conversations.go:105-110: no group is left without members, but for one *)
(* whose creation has not inserted, or crashed before it inserted, any.    *)
EmptiedGroupsGo ==
  \A c \in ConvIDs : kind[c] # "none" /\ member[c] = {} => was[c] = {}

(* conversations.go:141-144: the sender of every message has been a member *)
(* of the conversation that holds it, whatever happened between the look   *)
(* at the members (ws-manager.go:155) and the insert (179), but that the   *)
(* conversation was deleted: then the message lands in the next of its id. *)
SendersWereMembers ==
  \A m \in MessageIDs :
    message[m] # None /\ ~message[m].stray
    => message[m].from \in was[message[m].conv]

(* conversations.go:393-395: a watermark is a message of the conversation, *)
(* or 0, unless its conversation was deleted after messageExistsIn-        *)
(* Conversation had found the message in it and before the upsert.         *)
MarksAreMessages ==
  \A c \in ConvIDs, u \in Users :
    mark[c][u] # 0 /\ <<c, u>> \notin strays => InConv(c, mark[c][u])

-----------------------------------------------------------------------------
(* What a step may never do.                                               *)

(* markConversationRead: a watermark goes "only forward, never backward",  *)
(* however mark-read events and the sender's own marks are reordered.      *)
NeverBackward ==
  \A c \in ConvIDs, u \in Users : Exists(c) /\ kind'[c] # "none" => mark'[c][u] >= mark[c][u]
MarksNeverRegress == [][NeverBackward]_vars

(* A message arrives unread: nobody's watermark in its conversation has    *)
(* reached its id yet, though ids are given out again.  A watermark that   *)
(* was of the deleted conversation before may have.                        *)
ArrivesUnread ==
  \A m \in MessageIDs, u \in Users :
    /\ message[m] = None /\ message'[m] # None
    /\ <<message'[m].conv, u>> \notin strays
    => mark[message'[m].conv][u] < m
MessagesArriveUnread == [][ArrivesUnread]_vars
=============================================================================
