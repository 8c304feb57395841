------------------------ MODULE ConversationsProofs ------------------------
(***************************************************************************)
(* Theorems about Conversations, for every value of its constants.         *)
(***************************************************************************)
EXTENDS Conversations, TLAPS

(* A handler keeps the requester, and past its first checks the            *)
(* conversation and the target, of the event it handles.                   *)
OnConversation == {"requester", "target", "add", "part", "reread", "insert",
                   "exists", "mark", "receivers", "enrol", "opened"}
Knows(l) ==
  /\ l.pc # "idle" => l.by \in Users
  /\ l.pc \in OnConversation => l.conv \in ConvIDs
  /\ l.pc \in {"requester", "target", "add", "part", "reread"} => l.target \in Users
HandlersKnow == \A a \in Loops : Knows(loop[a])

TypeInv == TypeOK /\ HandlersKnow

-----------------------------------------------------------------------------
(* Type correctness. *)

LEMMA IdleType == Idle \in Local /\ Knows(Idle)
BY  DEF Idle, Local, Knows, Steps, Changes, OnConversation

(* Whatever a handler does to its place, the places stay well-typed. *)
LEMMA GotoTyped ==
  ASSUME TypeInv, NEW a \in Loops, NEW l \in Local, Knows(l), Goto(a, l)
  PROVE  loop' \in [Loops -> Local] /\ HandlersKnow'
BY DEF TypeInv, TypeOK, Goto, HandlersKnow

LEMMA ReturnTyped ==
  ASSUME TypeInv, NEW a \in Loops, Return(a)
  PROVE  loop' \in [Loops -> Local] /\ HandlersKnow'
BY IdleType, GotoTyped DEF Return

LEMMA InitTyped == Init => TypeInv
BY IdleType DEF Init, TypeInv, TypeOK, RowsOK, HandlersKnow, Kinds, Unread

(* The steps that change no row. *)
LEMMA ReadingTyped ==
  ASSUME TypeInv, UNCHANGED rows, loop' \in [Loops -> Local] /\ HandlersKnow'
  PROVE  TypeInv'
BY DEF TypeInv, TypeOK, RowsOK, rows

LEMMA NewRowTyped ==
  ASSUME RowsOK, NEW c \in ConvIDs, NEW k \in Kinds, NEW users \in SUBSET Users,
         NewRow(c, k, users)
  PROVE  RowsOK'
BY DEF RowsOK, NewRow

LEMMA AddMemberTyped ==
  ASSUME RowsOK, NEW c \in ConvIDs, NEW u \in Users, AddMember(c, u)
  PROVE  RowsOK'
<1>1. member[c] \cup {u} \in SUBSET Users /\ was[c] \cup {u} \in SUBSET Users
  BY DEF RowsOK
<1> QED
  BY <1>1 DEF RowsOK, AddMember

LEMMA StartTyped ==
  ASSUME TypeInv, NEW a \in Loops, NEW u \in Users, Start(a, u)
  PROVE  TypeInv'
<1>1. ASSUME NEW op \in Changes, NEW c \in ConvIDs, NEW t \in Users,
             ChangeStart(a, op, u, c, t)
      PROVE  TypeInv'
  <2> DEFINE l == [Idle EXCEPT !.pc = "requester", !.op = op, !.by = u, !.conv = c,
                               !.target = t, !.old = member[c]]
  <2>1. l \in Local /\ l.pc = "requester" /\ l.by = u /\ l.conv = c /\ l.target = t
    BY IdleType, ConversationsAssumption DEF TypeInv, TypeOK, RowsOK, Local, Idle, Steps
  <2>2. Knows(l)
    BY <2>1 DEF Knows
  <2> QED
    BY <1>1, <2>1, <2>2, GotoTyped, ReadingTyped DEF ChangeStart
<1>2. ASSUME NEW c \in ConvIDs, SendStart(a, u, c) PROVE TypeInv'
  <2> DEFINE l == [Idle EXCEPT !.pc = "insert", !.op = "send", !.by = u, !.conv = c]
  <2>1. l \in Local /\ l.pc = "insert" /\ l.by = u /\ l.conv = c
    BY IdleType, ConversationsAssumption DEF Local, Idle, Steps
  <2>2. Knows(l)
    BY <2>1 DEF Knows
  <2> QED
    BY <1>2, <2>1, <2>2, GotoTyped, ReadingTyped DEF SendStart
<1>3. ASSUME NEW c \in ConvIDs, NEW m \in MessageIDs, ReadStart(a, u, c, m)
      PROVE  TypeInv'
  <2> DEFINE l == [Idle EXCEPT !.pc = "exists", !.op = "read", !.by = u, !.conv = c,
                               !.msg = m]
  <2>1. l \in Local /\ l.pc = "exists" /\ l.by = u /\ l.conv = c
    BY IdleType, ConversationsAssumption DEF Local, Idle, Steps
  <2>2. Knows(l)
    BY <2>1 DEF Knows
  <2> QED
    BY <1>3, <2>1, <2>2, GotoTyped, ReadingTyped DEF ReadStart
<1>4. ASSUME NEW v \in Users, OpenInsert(a, u, v) PROVE TypeInv'
  <2> DEFINE l == [Idle EXCEPT !.pc = "lookup", !.by = u, !.target = v, !.todo = {u, v}]
  <2>1. l \in Local /\ l.pc = "lookup" /\ l.by = u
    BY IdleType DEF Local, Idle, Steps
  <2>2. Knows(l)
    BY <2>1 DEF Knows, OnConversation
  <2>3. loop' \in [Loops -> Local] /\ HandlersKnow'
    BY <1>4, <2>1, <2>2, GotoTyped DEF OpenInsert
  <2>4. RowsOK'
    <3>1. CASE UNCHANGED rows
      BY <3>1 DEF rows, TypeInv, TypeOK, RowsOK
    <3>2. CASE \E c \in ConvIDs : NewRow(c, "direct", {u, v})
      BY <3>2, NewRowTyped DEF TypeInv, TypeOK, Kinds
    <3> QED
      BY <1>4, <3>1, <3>2 DEF OpenInsert
  <2> QED
    BY <2>3, <2>4 DEF TypeInv, TypeOK
<1>5. ASSUME NEW others \in SUBSET Users, CreateInsert(a, u, others) PROVE TypeInv'
  <2>1. PICK c \in ConvIDs :
          /\ NewRow(c, "group", {})
          /\ Goto(a, [Idle EXCEPT !.pc = "enrol", !.by = u, !.conv = c,
                                  !.todo = others \cup {u}])
    BY <1>5 DEF CreateInsert
  <2> DEFINE l == [Idle EXCEPT !.pc = "enrol", !.by = u, !.conv = c,
                               !.todo = others \cup {u}]
  <2>2. l \in Local /\ l.pc = "enrol" /\ l.by = u /\ l.conv = c
    BY IdleType, ConversationsAssumption DEF Local, Idle, Steps
  <2>3. Knows(l)
    BY <2>2 DEF Knows
  <2>4. loop' \in [Loops -> Local] /\ HandlersKnow'
    BY <2>1, <2>2, <2>3, GotoTyped
  <2>5. RowsOK'
    BY <2>1, NewRowTyped DEF TypeInv, TypeOK, Kinds
  <2> QED
    BY <2>4, <2>5 DEF TypeInv, TypeOK
<1> QED
  BY <1>1, <1>2, <1>3, <1>4, <1>5 DEF Start

LEMMA ChangeStepTyped ==
  ASSUME TypeInv, NEW a \in Loops,
         CheckRequester(a) \/ CheckTarget(a) \/ Add(a) \/ Part(a) \/ Reread(a)
  PROVE  TypeInv'
<1> DEFINE l == loop[a]
<1>0. l \in Local /\ Knows(l)
  BY DEF TypeInv, TypeOK, HandlersKnow
<1>1. CASE CheckRequester(a)
  <2> DEFINE r == [l EXCEPT !.pc = IF l.op = "leave" THEN "part" ELSE "target"]
  <2>1. r \in Local /\ Knows(r)
    BY <1>0, <1>1 DEF CheckRequester, At, Local, Steps, Knows, OnConversation
  <2> QED
    BY <1>1, <2>1, GotoTyped, ReturnTyped, ReadingTyped DEF CheckRequester
<1>2. CASE CheckTarget(a)
  <2> DEFINE r(pc) == [l EXCEPT !.pc = pc]
  <2>1. \A pc \in {"add", "part"} : r(pc) \in Local /\ Knows(r(pc))
    BY <1>0, <1>2 DEF CheckTarget, At, Local, Steps, Knows, OnConversation
  <2> QED
    BY <1>2, <2>1, GotoTyped, ReturnTyped, ReadingTyped DEF CheckTarget
<1>3. CASE Add(a)
  <2> DEFINE r == [l EXCEPT !.pc = "reread"]
  <2>1. r \in Local /\ Knows(r)
    BY <1>0, <1>3 DEF Add, At, Local, Steps, Knows, OnConversation
  <2>2. CASE Exists(l.conv)
    <3>1. RowsOK'
      BY <1>0, <1>3, <2>2, AddMemberTyped DEF Add, At, TypeInv, TypeOK, Knows, OnConversation
    <3> QED
      BY <1>3, <2>1, <2>2, <3>1, GotoTyped DEF Add, TypeInv, TypeOK
  <2> QED
    BY <1>3, <2>2, ReturnTyped, ReadingTyped DEF Add
<1>4. CASE Part(a)
  <2>1. ASSUME NEW b \in Loops PROVE loop'[b] \in Local /\ Knows(loop'[b])
    <3> PICK pc, stale : /\ pc = IF b = a THEN "reread" ELSE loop[b].pc
                         /\ stale \in BOOLEAN
                         /\ loop'[b] = [loop[b] EXCEPT !.pc = pc, !.stale = stale]
        BY <1>4 DEF Part, GotoReread, TypeInv, TypeOK, Local
    <3>1. loop[b] \in Local /\ Knows(loop[b])
      BY DEF TypeInv, TypeOK, HandlersKnow
    <3> QED  BY <1>0, <1>4, <3>1 DEF Part, At, Local, Steps, Knows, OnConversation
  <2>2. RowsOK'
    BY <1>4 DEF Part, TypeInv, TypeOK, RowsOK, Kinds, Unread
  <2>3. loop' \in [Loops -> Local] /\ HandlersKnow'
    BY <1>4, <2>1 DEF Part, GotoReread, HandlersKnow
  <2> QED
    BY <2>2, <2>3 DEF TypeInv, TypeOK
<1>5. CASE Reread(a)
  BY <1>5, ReturnTyped, ReadingTyped DEF Reread
<1> QED
  BY <1>1, <1>2, <1>3, <1>4, <1>5

LEMMA MessageStepTyped ==
  ASSUME TypeInv, NEW a \in Loops,
         SendInsert(a) \/ ReadExists(a) \/ MarkRead(a) \/ Receivers(a)
  PROVE  TypeInv'
<1> DEFINE l == loop[a]
<1>0. l \in Local /\ Knows(l)
  BY DEF TypeInv, TypeOK, HandlersKnow
<1>1. CASE SendInsert(a)
  <2>1. CASE Exists(l.conv)
    <3>1. PICK m \in MessageIDs :
            /\ message' = [message EXCEPT ![m] = [conv |-> l.conv, from |-> l.by,
                                                   stray |-> l.stale]]
            /\ Goto(a, [l EXCEPT !.pc = "mark", !.msg = m])
            /\ UNCHANGED <<kind, pair, member, mark, was, strays>>
      BY <1>1, <2>1 DEF SendInsert
    <3> DEFINE r == [l EXCEPT !.pc = "mark", !.msg = m]
    <3>2. r \in Local /\ Knows(r)
      BY <1>0, <1>1, ConversationsAssumption
      DEF SendInsert, At, Local, Steps, Knows, OnConversation
    <3>3. [conv |-> l.conv, from |-> l.by, stray |-> l.stale] \in Message
      BY <1>0, <1>1 DEF SendInsert, At, Knows, OnConversation, Local, Message
    <3>4. RowsOK'
      BY <3>1, <3>3 DEF TypeInv, TypeOK, RowsOK
    <3> QED
      BY <3>1, <3>2, <3>4, GotoTyped DEF TypeInv, TypeOK
  <2> QED
    BY <1>1, <2>1, ReturnTyped, ReadingTyped DEF SendInsert
<1>2. CASE ReadExists(a)
  <2> DEFINE r == [l EXCEPT !.pc = "mark"]
  <2>1. r \in Local /\ Knows(r)
    BY <1>0, <1>2 DEF ReadExists, At, Local, Steps, Knows, OnConversation
  <2> QED
    BY <1>2, <2>1, GotoTyped, ReturnTyped, ReadingTyped DEF ReadExists
<1>3. CASE MarkRead(a)
  <2> DEFINE r == [l EXCEPT !.pc = "receivers"]
  <2>1. r \in Local /\ Knows(r)
    BY <1>0, <1>3 DEF MarkRead, At, Local, Steps, Knows, OnConversation
  <2>2. CASE Exists(l.conv)
    <3>1. l.conv \in ConvIDs /\ l.by \in Users /\ l.msg \in Nat
      BY <1>0, <1>3 DEF MarkRead, At, Knows, OnConversation, Local
    <3>2. Larger(mark[l.conv][l.by], l.msg) \in Nat
      BY <3>1 DEF Larger, TypeInv, TypeOK, RowsOK
    <3>3. mark' = [mark EXCEPT ![l.conv][l.by] = Larger(mark[l.conv][l.by], l.msg)]
      BY <1>3, <2>2 DEF MarkRead
    <3>4. RowsOK'
      BY <1>3, <2>2, <3>1, <3>2, <3>3 DEF MarkRead, TypeInv, TypeOK, RowsOK
    <3> QED
      BY <1>3, <2>1, <2>2, <3>4, GotoTyped DEF MarkRead, TypeInv, TypeOK
  <2> QED
    BY <1>3, <2>2, ReturnTyped, ReadingTyped DEF MarkRead
<1>4. CASE Receivers(a)
  BY <1>4, ReturnTyped, ReadingTyped DEF Receivers
<1> QED
  BY <1>1, <1>2, <1>3, <1>4

LEMMA OpenStepTyped ==
  ASSUME TypeInv, NEW a \in Loops, OpenLookup(a) \/ Enrol(a) \/ Opened(a)
  PROVE  TypeInv'
<1> DEFINE l == loop[a]
<1>0. l \in Local /\ Knows(l)
  BY DEF TypeInv, TypeOK, HandlersKnow
<1>1. CASE OpenLookup(a)
  <2> DEFINE r(c) == [l EXCEPT !.pc = "enrol", !.conv = c]
  <2>1. \A c \in ConvIDs : r(c) \in Local /\ Knows(r(c))
    BY <1>0, <1>1, ConversationsAssumption
    DEF OpenLookup, At, Local, Steps, Knows, OnConversation
  <2> QED
    BY <1>1, <2>1, GotoTyped, ReturnTyped, ReadingTyped DEF OpenLookup
<1>2. CASE Enrol(a)
  <2>1. PICK u \in l.todo :
          IF Exists(l.conv)
          THEN /\ AddMember(l.conv, u)
               /\ Goto(a, [l EXCEPT !.todo = @ \ {u},
                            !.pc = IF l.todo = {u} THEN "opened" ELSE "enrol"])
          ELSE /\ Return(a)
               /\ UNCHANGED rows
    BY <1>2 DEF Enrol
  <2> DEFINE r == [l EXCEPT !.todo = @ \ {u},
                            !.pc = IF l.todo = {u} THEN "opened" ELSE "enrol"]
  <2>2. r \in Local /\ Knows(r) /\ u \in Users /\ l.conv \in ConvIDs
    BY <1>0, <1>2, <2>1 DEF Enrol, At, Local, Steps, Knows, OnConversation
  <2>3. CASE Exists(l.conv)
    <3>1. RowsOK'
      BY <2>1, <2>2, <2>3, AddMemberTyped DEF TypeInv, TypeOK
    <3> QED
      BY <2>1, <2>2, <2>3, <3>1, GotoTyped DEF TypeInv, TypeOK
  <2> QED
    BY <2>1, <2>3, ReturnTyped, ReadingTyped
<1>3. CASE Opened(a)
  BY <1>3, ReturnTyped, ReadingTyped DEF Opened
<1> QED
  BY <1>1, <1>2, <1>3

LEMMA NextTyped == TypeInv /\ [Next]_vars => TypeInv'
<1> SUFFICES ASSUME TypeInv, [Next]_vars PROVE TypeInv'
  OBVIOUS
<1>1. ASSUME NEW a \in Loops, NEW u \in Users, Start(a, u) PROVE TypeInv'
  BY <1>1, StartTyped
<1>2. ASSUME NEW a \in Loops, Step(a) PROVE TypeInv'
  BY <1>2, ChangeStepTyped, MessageStepTyped, OpenStepTyped DEF Step
<1>3. CASE Crash
  <2>1. loop' \in [Loops -> Local] /\ HandlersKnow'
    BY <1>3, IdleType DEF Crash, HandlersKnow
  <2> QED
    BY <1>3, <2>1, ReadingTyped DEF Crash
<1>4. CASE UNCHANGED vars
  BY <1>4, ReadingTyped DEF vars, TypeInv, TypeOK, HandlersKnow
<1> QED
  BY <1>1, <1>2, <1>3, <1>4 DEF Next, Work

LEMMA TypedAlways == Spec => []TypeInv
BY InitTyped, NextTyped, PTL DEF Spec

(* Every reachable state is well-typed. *)
THEOREM TypeCorrect == Spec => []TypeOK
<1>1. TypeInv => TypeOK
  BY DEF TypeInv
<1> QED
  BY <1>1, TypedAlways, PTL

-----------------------------------------------------------------------------
(* Direct conversations. *)

(* A direct conversation has a key. *)
DirectsAreKeyed == \A c \in ConvIDs : kind[c] = "direct" => pair[c] # {}

(* Only a new row and the deletion of one touch kind and pair. *)
KeysChange ==
  \/ UNCHANGED <<kind, pair>>
  \/ \E a \in Loops : Part(a)
  \/ \E c \in ConvIDs : NewRow(c, "group", {})
  \/ \E c \in ConvIDs, u, v \in Users :
       /\ \A d \in ConvIDs : pair[d] # {u, v}
       /\ NewRow(c, "direct", {u, v})

LEMMA KeySteps == [Next]_vars => KeysChange
<1>1. ASSUME NEW a \in Loops, NEW u \in Users, Start(a, u) PROVE KeysChange
  BY <1>1 DEF Start, KeysChange, ChangeStart, SendStart, ReadStart, OpenInsert,
     CreateInsert, rows
<1>2. ASSUME NEW a \in Loops, Step(a) PROVE KeysChange
  BY <1>2 DEF Step, KeysChange, CheckRequester, CheckTarget, Add, AddMember, Reread,
     SendInsert, ReadExists, MarkRead, Receivers, OpenLookup, Enrol, Opened, rows
<1> QED
  BY <1>1, <1>2 DEF Next, Work, Crash, KeysChange, vars, rows

LEMMA NextUnique ==
  ASSUME TypeInv, OneChatPerPair, DirectsAreKeyed, [Next]_vars
  PROVE  OneChatPerPair' /\ DirectsAreKeyed'
<1>1. KeysChange
  BY KeySteps
<1>2. CASE UNCHANGED <<kind, pair>>
  BY <1>2 DEF OneChatPerPair, DirectsAreKeyed
<1>3. ASSUME NEW a \in Loops, Part(a) PROVE OneChatPerPair' /\ DirectsAreKeyed'
  BY <1>3 DEF Part, OneChatPerPair, DirectsAreKeyed, TypeInv, TypeOK, RowsOK
<1>4. ASSUME NEW c \in ConvIDs, NewRow(c, "group", {}) PROVE OneChatPerPair' /\ DirectsAreKeyed'
  BY <1>4 DEF NewRow, OneChatPerPair, DirectsAreKeyed, TypeInv, TypeOK, RowsOK
<1>5. ASSUME NEW c \in ConvIDs, NEW u \in Users, NEW v \in Users,
             \A d \in ConvIDs : pair[d] # {u, v}, NewRow(c, "direct", {u, v})
      PROVE  OneChatPerPair' /\ DirectsAreKeyed'
  BY <1>5 DEF NewRow, OneChatPerPair, DirectsAreKeyed, TypeInv, TypeOK, RowsOK
<1> QED
  BY <1>1, <1>2, <1>3, <1>4, <1>5 DEF KeysChange

(* Two users have at most one direct conversation (OneChatPerPair), under  *)
(* any interleaving of any number of handlers and crashes.                 *)
THEOREM DirectsAreUnique == Spec => []OneChatPerPair
<1> DEFINE Inv == OneChatPerPair /\ DirectsAreKeyed
<1>1. Init => Inv
  BY DEF Init, OneChatPerPair, DirectsAreKeyed
<1>2. TypeInv /\ Inv /\ [Next]_vars => Inv'
  BY NextUnique
<1>3. Inv => OneChatPerPair
  OBVIOUS
<1> QED
  BY <1>1, <1>2, <1>3, TypedAlways, PTL DEF Spec

-----------------------------------------------------------------------------
(* Membership. *)

(* What is not there has no members. *)
RowlessAreEmpty == \A c \in ConvIDs : kind[c] = "none" => member[c] = {} /\ was[c] = {}

(* Only a new row, a new member and a removal touch kind, member and was. *)
MembersChange ==
  \/ UNCHANGED <<kind, member, was>>
  \/ \E a \in Loops : Part(a) /\ loop[a].conv \in ConvIDs
  \/ \E c \in ConvIDs, k \in {"group", "direct"}, users \in SUBSET Users : NewRow(c, k, users)
  \/ \E c \in ConvIDs, u \in Users : Exists(c) /\ AddMember(c, u)

LEMMA MemberSteps == TypeInv /\ [Next]_vars => MembersChange
<1> SUFFICES ASSUME TypeInv, [Next]_vars PROVE MembersChange
  OBVIOUS
<1>1. ASSUME NEW a \in Loops, NEW u \in Users, Start(a, u) PROVE MembersChange
  <2>1. ASSUME NEW v \in Users, OpenInsert(a, u, v) PROVE MembersChange
    <3>1. {u, v} \in SUBSET Users
      OBVIOUS
    <3> QED
      BY <2>1, <3>1 DEF OpenInsert, MembersChange, rows
  <2> QED
    BY <1>1, <2>1 DEF Start, MembersChange, ChangeStart, SendStart, ReadStart,
       CreateInsert, rows
<1>2. ASSUME NEW a \in Loops, Step(a) PROVE MembersChange
  <2>0. loop[a] \in Local /\ Knows(loop[a])
    BY DEF TypeInv, TypeOK, HandlersKnow
  <2>1. CASE Part(a)
    BY <2>0, <2>1 DEF Part, At, Knows, OnConversation, MembersChange
  <2>2. CASE Add(a)
    BY <2>0, <2>2 DEF Add, At, Knows, OnConversation, MembersChange, rows
  <2>3. CASE Enrol(a)
    <3>1. loop[a].todo \subseteq Users /\ loop[a].conv \in ConvIDs
      BY <2>0, <2>3 DEF Enrol, At, Knows, OnConversation, Local
    <3> QED
      BY <2>3, <3>1 DEF Enrol, MembersChange, rows
  <2> QED
    BY <1>2, <2>1, <2>2, <2>3 DEF Step, MembersChange, CheckRequester, CheckTarget, Reread,
       SendInsert, ReadExists, MarkRead, Receivers, OpenLookup, Opened, rows
<1> QED
  BY <1>1, <1>2 DEF Next, Work, Crash, MembersChange, vars, rows

(* No conversation stays when its last member goes (EmptiedGroupsGo): only *)
(* one that was never given a member can be without any.                   *)
THEOREM NoneLeftBehind == Spec => []EmptiedGroupsGo
<1> DEFINE Inv == EmptiedGroupsGo /\ RowlessAreEmpty
<1>1. Init => Inv
  BY DEF Init, EmptiedGroupsGo, RowlessAreEmpty
<1>2. TypeInv /\ Inv /\ [Next]_vars => Inv'
  <2> SUFFICES ASSUME TypeInv, Inv, [Next]_vars PROVE Inv'
    OBVIOUS
  <2>1. MembersChange
    BY MemberSteps
  <2>2. CASE UNCHANGED <<kind, member, was>>
    BY <2>2 DEF EmptiedGroupsGo, RowlessAreEmpty
  <2>3. ASSUME NEW a \in Loops, Part(a), loop[a].conv \in ConvIDs PROVE Inv'
    BY <2>3 DEF Part, EmptiedGroupsGo, RowlessAreEmpty, TypeInv, TypeOK, RowsOK
  <2>4. ASSUME NEW c \in ConvIDs, NEW k \in {"group", "direct"},
               NEW users \in SUBSET Users, NewRow(c, k, users)
        PROVE  Inv'
    BY <2>4 DEF NewRow, NextRow, ConvRows, EmptiedGroupsGo, RowlessAreEmpty, TypeInv, TypeOK,
       RowsOK
  <2>5. ASSUME NEW c \in ConvIDs, NEW u \in Users, Exists(c), AddMember(c, u)
        PROVE  Inv'
    BY <2>5 DEF AddMember, Exists, EmptiedGroupsGo, RowlessAreEmpty, TypeInv, TypeOK, RowsOK
  <2> QED
    BY <2>1, <2>2, <2>3, <2>4, <2>5 DEF MembersChange
<1>3. Inv => EmptiedGroupsGo
  OBVIOUS
<1> QED
  BY <1>1, <1>2, <1>3, TypedAlways, PTL DEF Spec

-----------------------------------------------------------------------------
(* Watermarks. *)

LEMMA MarkSteps ==
  ASSUME TypeInv, [Next]_vars
  PROVE  \/ UNCHANGED mark
         \/ \E a \in Loops : Part(a)
         \/ \E a \in Loops : MarkRead(a)
<1> DEFINE Changed == \/ UNCHANGED mark
                      \/ \E a \in Loops : Part(a)
                      \/ \E a \in Loops : MarkRead(a)
<1>1. ASSUME NEW a \in Loops, NEW u \in Users, Start(a, u) PROVE Changed
  BY <1>1 DEF Start, ChangeStart, SendStart, ReadStart, OpenInsert, CreateInsert, NewRow,
     rows
<1>2. ASSUME NEW a \in Loops, Step(a) PROVE Changed
  BY <1>2 DEF Step, CheckRequester, CheckTarget, Add, AddMember, Reread,
     SendInsert, ReadExists, Receivers, OpenLookup, Enrol, Opened, rows
<1> QED
  BY <1>1, <1>2 DEF Next, Work, Crash, vars, rows

(* A watermark never goes back while its conversation lives                *)
(* (MarksNeverRegress), however the handlers that advance it interleave.   *)
THEOREM MarksOnlyAdvance == Spec => MarksNeverRegress
<1>1. TypeInv /\ [Next]_vars => NeverBackward
  <2> SUFFICES ASSUME TypeInv, [Next]_vars, NEW c \in ConvIDs, NEW u \in Users,
                      kind'[c] # "none"
               PROVE  mark'[c][u] >= mark[c][u]
    BY DEF NeverBackward
  <2>0. mark[c][u] \in Nat
    BY DEF TypeInv, TypeOK, RowsOK
  <2>1. CASE UNCHANGED mark
    BY <2>0, <2>1
  <2>2. ASSUME NEW a \in Loops, Part(a) PROVE mark'[c][u] >= mark[c][u]
    BY <2>0, <2>2 DEF Part, TypeInv, TypeOK, RowsOK
  <2>3. ASSUME NEW a \in Loops, MarkRead(a) PROVE mark'[c][u] >= mark[c][u]
    <3>1. loop[a].msg \in Nat
      BY DEF TypeInv, TypeOK, Local
    <3>2. \/ UNCHANGED mark
          \/ mark' = [mark EXCEPT ![loop[a].conv][loop[a].by] = Larger(@, loop[a].msg)]
      BY <2>3 DEF MarkRead, rows
    <3> QED
      BY <2>0, <3>1, <3>2 DEF Larger, TypeInv, TypeOK, RowsOK
  <2> QED
    BY <2>1, <2>2, <2>3, MarkSteps
<1> QED
  BY <1>1, TypedAlways, PTL DEF Spec, MarksNeverRegress


-----------------------------------------------------------------------------
(* Messages and watermarks, of any number of handlers at once: one that is *)
(* not stale still has its conversation, and what it found there.          *)

Holds(l) ==
  /\ l.pc = "lookup" => l.todo # {}
  /\ l.pc \in OnConversation /\ ~l.stale =>
       /\ kind[l.conv] # "none"
       /\ l.pc = "insert" => l.by \in was[l.conv]
       /\ l.pc = "mark" => InConv(l.conv, l.msg)

Kept(m) == message[m] # None /\ ~message[m].stray => message[m].from \in was[message[m].conv]
Marked(c, u) == mark[c][u] # 0 /\ <<c, u>> \notin strays => InConv(c, mark[c][u])

RowsHold ==
  /\ \A c \in ConvIDs : member[c] \subseteq was[c]
  /\ \A c \in ConvIDs : kind[c] = "none" => was[c] = {} /\ pair[c] = {} /\ mark[c] = Unread
  /\ \A m \in MessageIDs : Kept(m)
  /\ \A c \in ConvIDs, u \in Users : Marked(c, u)

HoldInv == RowsHold /\ \A a \in Loops : Holds(loop[a])

(* Conversation c, if there is one, goes on. *)
GoesOn(c) ==
  kind[c] # "none" => /\ kind'[c] # "none" /\ was[c] \subseteq was'[c]
                      /\ \A m : InConv(c, m) => InConv(c, m)'
AllGoOn == \A c \in ConvIDs : GoesOn(c)

LEMMA InitHolds == Init => HoldInv
<1> SUFFICES ASSUME Init PROVE HoldInv
    OBVIOUS
<1>1. \A a \in Loops : loop[a].pc = "idle"
  BY DEF Init, Idle
<1>2. \A a \in Loops : Holds(loop[a])
  BY <1>1 DEF Holds, OnConversation
<1>3. RowsHold
  BY DEF Init, RowsHold, Unread, Kept, Marked
<1> QED
  BY <1>2, <1>3 DEF HoldInv

LEMMA HoldsOn ==
  ASSUME NEW l, Knows(l), Holds(l), l.conv \in ConvIDs => GoesOn(l.conv)
  PROVE  Holds(l)'
BY DEF Knows, Holds, GoesOn

LEMMA GotoHolds ==
  ASSUME TypeInv, HoldInv, AllGoOn, RowsHold', NEW a \in Loops, NEW r, Goto(a, r), Holds(r)'
  PROVE  HoldInv'
<1>1. \A b \in Loops : loop'[b] = IF b = a THEN r ELSE loop[b]
  BY DEF Goto, TypeInv, TypeOK
<1>2. ASSUME NEW b \in Loops PROVE Holds(loop[b])'
  <2> PICK l : l = loop[b]
      OBVIOUS
  <2>1. Holds(l)'
    BY HoldsOn DEF TypeInv, HandlersKnow, HoldInv, AllGoOn
  <2>2. CASE b = a
    BY <1>1, <2>2 DEF Holds, InConv
  <2>3. CASE b # a
    <3>1. loop'[b] = l
      BY <1>1, <2>3
    <3> QED  BY <2>1, <3>1 DEF Holds, InConv
  <2> QED  BY <2>2, <2>3
<1> QED
  BY <1>2 DEF HoldInv

(* The steps that change no row. *)
LEMMA SameRowsHold ==
  ASSUME HoldInv, UNCHANGED rows
  PROVE  RowsHold' /\ AllGoOn
<1>1. UNCHANGED <<kind, pair, member, message, mark, was, strays>>
  BY DEF rows
<1> QED
  BY <1>1 DEF HoldInv, RowsHold, Kept, Marked, InConv, AllGoOn, GoesOn

LEMMA ReadingHolds ==
  ASSUME TypeInv, HoldInv, UNCHANGED rows, NEW a \in Loops, NEW r, Goto(a, r), Holds(r)
  PROVE  HoldInv'
<1>1. Holds(r)'
  BY DEF Holds, InConv, rows
<1> QED
  BY <1>1, SameRowsHold, GotoHolds

LEMMA ReturnHolds ==
  ASSUME TypeInv, HoldInv, UNCHANGED rows, NEW a \in Loops, Return(a)
  PROVE  HoldInv'
<1>1. Holds(Idle)
  BY DEF Holds, Idle, OnConversation
<1> QED
  BY <1>1, ReadingHolds DEF Return

LEMMA NewRowHolds ==
  ASSUME TypeInv, HoldInv, NEW c \in ConvIDs, NEW k, NEW users, NewRow(c, k, users), k # "none"
  PROVE  RowsHold' /\ AllGoOn /\ kind'[c] # "none"
<1>1. kind[c] = "none"
  BY DEF NewRow, NextRow, ConvRows
<1>2. /\ UNCHANGED <<member, message, mark, was, strays>>
      /\ kind'[c] = k
      /\ \A d \in ConvIDs \ {c} : kind'[d] = kind[d] /\ pair'[d] = pair[d]
  BY DEF NewRow, TypeInv, TypeOK, RowsOK
<1> QED
  BY <1>1, <1>2 DEF HoldInv, RowsHold, Kept, Marked, InConv, AllGoOn, GoesOn

LEMMA AddHolds ==
  ASSUME TypeInv, HoldInv, NEW c \in ConvIDs, NEW u \in Users, AddMember(c, u), kind[c] # "none"
  PROVE  RowsHold' /\ AllGoOn
<1>1. UNCHANGED <<kind, pair, message, mark, strays>>
  BY DEF AddMember
<1>2. \A d \in ConvIDs :
        /\ member'[d] = IF d = c THEN member[c] \cup {u} ELSE member[d]
        /\ was'[d] = IF d = c THEN was[c] \cup {u} ELSE was[d]
  BY DEF AddMember, TypeInv, TypeOK, RowsOK
<1>3. ASSUME NEW m \in MessageIDs PROVE Kept(m)'
  <2>1. message[m] # None => message[m].conv \in ConvIDs
    BY DEF TypeInv, TypeOK, RowsOK, Message
  <2> QED  BY <1>1, <1>2, <2>1 DEF HoldInv, RowsHold, Kept
<1>4. \A d \in ConvIDs : /\ member'[d] \subseteq was'[d]
                         /\ kind[d] = "none" => was'[d] = {}
  BY <1>2 DEF HoldInv, RowsHold
<1> QED
  BY <1>1, <1>2, <1>3, <1>4 DEF HoldInv, RowsHold, Marked, InConv, AllGoOn, GoesOn

LEMMA StartHolds ==
  ASSUME TypeInv, HoldInv, NEW a \in Loops, NEW u \in Users, Start(a, u)
  PROVE  HoldInv'
<1>0. \A c \in ConvIDs : member[c] # {} => kind[c] # "none"
  BY DEF HoldInv, RowsHold
<1>1. ASSUME NEW op \in Changes, NEW c \in ConvIDs, NEW t \in Users, ChangeStart(a, op, u, c, t)
      PROVE  HoldInv'
  <2> PICK l : l = [Idle EXCEPT !.pc = "requester", !.op = op, !.by = u, !.conv = c,
                                !.target = t, !.old = member[c]]
      OBVIOUS
  <2>1. l.pc = "requester" /\ l.conv = c
    BY DEF Idle
  <2>2. Goto(a, l) /\ kind[c] = "group" /\ UNCHANGED rows
    BY <1>1 DEF ChangeStart
  <2>3. Holds(l)
    BY <2>1, <2>2 DEF Holds
  <2> QED  BY <2>2, <2>3, ReadingHolds
<1>2. ASSUME NEW c \in ConvIDs, SendStart(a, u, c) PROVE HoldInv'
  <2> PICK l : l = [Idle EXCEPT !.pc = "insert", !.op = "send", !.by = u, !.conv = c]
      OBVIOUS
  <2>1. l.pc = "insert" /\ l.by = u /\ l.conv = c
    BY DEF Idle
  <2>2. Goto(a, l) /\ u \in member[c] /\ UNCHANGED rows
    BY <1>2 DEF SendStart
  <2>3. Holds(l)
    BY <1>0, <2>1, <2>2 DEF Holds, HoldInv, RowsHold
  <2> QED  BY <2>2, <2>3, ReadingHolds
<1>3. ASSUME NEW c \in ConvIDs, NEW m \in MessageIDs, ReadStart(a, u, c, m) PROVE HoldInv'
  <2> PICK l : l = [Idle EXCEPT !.pc = "exists", !.op = "read", !.by = u, !.conv = c, !.msg = m]
      OBVIOUS
  <2>1. l.pc = "exists" /\ l.conv = c
    BY DEF Idle
  <2>2. Goto(a, l) /\ u \in member[c] /\ UNCHANGED rows
    BY <1>3 DEF ReadStart
  <2>3. Holds(l)
    BY <1>0, <2>1, <2>2 DEF Holds
  <2> QED  BY <2>2, <2>3, ReadingHolds
<1>4. ASSUME NEW v \in Users, OpenInsert(a, u, v) PROVE HoldInv'
  <2> PICK l : l = [Idle EXCEPT !.pc = "lookup", !.by = u, !.target = v, !.todo = {u, v}]
      OBVIOUS
  <2>1. l.pc = "lookup" /\ l.todo # {}
    BY DEF Idle
  <2>2. Goto(a, l)
    BY <1>4 DEF OpenInsert
  <2>3. Holds(l)'
    BY <2>1 DEF Holds, OnConversation
  <2>4. CASE UNCHANGED rows
    BY <2>2, <2>3, <2>4, SameRowsHold, GotoHolds
  <2>5. ASSUME NEW c \in ConvIDs, NewRow(c, "direct", {u, v}) PROVE HoldInv'
    <3>1. RowsHold' /\ AllGoOn
      BY <2>5, NewRowHolds
    <3> QED  BY <2>2, <2>3, <3>1, GotoHolds
  <2> QED  BY <1>4, <2>4, <2>5 DEF OpenInsert
<1>5. ASSUME NEW others \in SUBSET Users, CreateInsert(a, u, others) PROVE HoldInv'
  <2>1. PICK c \in ConvIDs :
          /\ NewRow(c, "group", {})
          /\ Goto(a, [Idle EXCEPT !.pc = "enrol", !.by = u, !.conv = c, !.todo = others \cup {u}])
    BY <1>5 DEF CreateInsert
  <2> PICK l : l = [Idle EXCEPT !.pc = "enrol", !.by = u, !.conv = c, !.todo = others \cup {u}]
      OBVIOUS
  <2>2. l.pc = "enrol" /\ l.conv = c
    BY DEF Idle
  <2>3. RowsHold' /\ AllGoOn /\ kind'[c] # "none"
    BY <2>1, NewRowHolds
  <2>4. Holds(l)'
    BY <2>2, <2>3 DEF Holds
  <2> QED  BY <2>1, <2>3, <2>4, GotoHolds
<1> QED
  BY <1>1, <1>2, <1>3, <1>4, <1>5 DEF Start

(* A handler that is sent on by its next check. *)
LEMMA CheckHolds ==
  ASSUME TypeInv, HoldInv, UNCHANGED rows, NEW a \in Loops, loop[a].pc \in OnConversation,
         NEW pc \in {"target", "add", "part", "mark"}, Goto(a, [loop[a] EXCEPT !.pc = pc]),
         pc = "mark" => InConv(loop[a].conv, loop[a].msg)
  PROVE  HoldInv'
<1> PICK l, r : l = loop[a] /\ r = [l EXCEPT !.pc = pc]
    OBVIOUS
<1>1. l \in Local /\ Holds(l)
  BY DEF TypeInv, TypeOK, HoldInv
<1>2. r.pc = pc /\ r.conv = l.conv /\ r.msg = l.msg /\ r.stale = l.stale
  BY <1>1 DEF Local
<1>3. Holds(r)
  BY <1>1, <1>2 DEF Holds
<1> QED
  BY <1>3, ReadingHolds

LEMMA PartHolds ==
  ASSUME TypeInv, HoldInv, NEW a \in Loops, Part(a)
  PROVE  HoldInv'
<1> PICK c, Gone : c = loop[a].conv /\ Gone = (member[c] \ {loop[a].target} = {})
    OBVIOUS
<1>1. c \in ConvIDs
  BY DEF Part, At, TypeInv, HandlersKnow, Knows, OnConversation
<1>2. /\ \A d \in ConvIDs \ {c} :
           /\ member'[d] = member[d] /\ was'[d] = was[d] /\ kind'[d] = kind[d]
           /\ mark'[d] = mark[d] /\ pair'[d] = pair[d]
      /\ member'[c] = member[c] \ {loop[a].target}
      /\ kind'[c] = IF Gone THEN "none" ELSE kind[c]
      /\ mark'[c] = IF Gone THEN Unread ELSE mark[c]
      /\ pair'[c] = IF Gone THEN {} ELSE pair[c]
      /\ was'[c] = IF Gone THEN {} ELSE was[c]
      /\ \A m \in MessageIDs : message'[m] = IF Gone /\ InConv(c, m) THEN None ELSE message[m]
      /\ strays' = {p \in strays : ~(Gone /\ p[1] = c)}
  BY <1>1 DEF Part, TypeInv, TypeOK, RowsOK
<1>3. Gone => member'[c] = {}
  BY <1>2
<1>4. ASSUME NEW m \in MessageIDs, message'[m] # None, ~message'[m].stray
      PROVE  message'[m].from \in was'[message'[m].conv]
  <2>1. message'[m] = message[m] /\ ~(Gone /\ InConv(c, m))
    BY <1>2, <1>4
  <2>2. message[m].conv \in ConvIDs /\ message[m].from \in was[message[m].conv]
    BY <1>4, <2>1 DEF HoldInv, RowsHold, Kept, TypeInv, TypeOK, RowsOK, Message
  <2>3. was'[message[m].conv] = was[message[m].conv]
    BY <1>2, <1>4, <2>1, <2>2 DEF InConv
  <2> QED  BY <2>1, <2>2, <2>3
<1>5. ASSUME NEW d \in ConvIDs, NEW m, InConv(d, m), ~(Gone /\ d = c) PROVE InConv(d, m)'
  BY <1>2, <1>5 DEF InConv
<1>6. ASSUME NEW d \in ConvIDs, NEW u \in Users, NEW m, m = mark'[d][u], m # 0,
             <<d, u>> \notin strays'
      PROVE  InConv(d, m)'
  <2>1. mark'[d] = mark[d] /\ ~(Gone /\ d = c)
    BY <1>2, <1>6 DEF Unread
  <2>2. <<d, u>> \notin strays
    <3>1. <<d, u>>[1] = d
      OBVIOUS
    <3> QED  BY <1>2, <1>6, <2>1, <3>1
  <2>3. InConv(d, m)
    BY <1>6, <2>1, <2>2 DEF HoldInv, RowsHold, Marked
  <2> QED  BY <1>5, <2>1, <2>3
<1>7. \A d \in ConvIDs : member'[d] \subseteq was'[d] /\ (kind'[d] = "none" => was'[d] = {} /\ pair'[d] = {} /\ mark'[d] = Unread)
  <2> SUFFICES ASSUME NEW d \in ConvIDs
               PROVE member'[d] \subseteq was'[d] /\ (kind'[d] = "none" => was'[d] = {} /\ pair'[d] = {} /\ mark'[d] = Unread)
      OBVIOUS
  <2>1. CASE d # c
    BY <1>2, <2>1 DEF HoldInv, RowsHold
  <2>2. CASE d = c
    BY <1>2, <1>3, <2>2 DEF HoldInv, RowsHold
  <2> QED  BY <2>1, <2>2
<1>8. RowsHold'
  BY <1>4, <1>6, <1>7 DEF RowsHold, Kept, Marked, InConv
<1>9. \A d \in ConvIDs : ~(Gone /\ d = c) => GoesOn(d)
  BY <1>2, <1>5 DEF GoesOn
<1>10. ASSUME NEW b \in Loops PROVE Holds(loop[b])'
  <2> PICK l : l = loop[b]
      OBVIOUS
  <2>1. l \in Local /\ Knows(l) /\ Holds(l)
    BY DEF TypeInv, TypeOK, HandlersKnow, HoldInv
  <2> PICK r : r = loop'[b]
      OBVIOUS
  <2>2. /\ r.pc = IF b = a THEN "reread" ELSE l.pc
        /\ r.stale <=> l.stale \/ (Gone /\ l.conv = c)
        /\ r.conv = l.conv /\ r.by = l.by /\ r.msg = l.msg /\ r.todo = l.todo
    BY <2>1 DEF Part, GotoReread, Local
  <2>3. b = a => l.pc \in OnConversation
    BY DEF Part, At, OnConversation
  <2>4. CASE Gone /\ l.conv = c
    <3>1. Holds(r)'
      BY <2>1, <2>2, <2>3, <2>4 DEF Holds
    <3> QED  BY <3>1 DEF Holds, InConv
  <2>5. CASE ~(Gone /\ l.conv = c)
    <3>1. Holds(l)'
      BY <1>9, <2>1, <2>5, HoldsOn
    <3>2. Holds(r)'
      BY <2>2, <2>3, <2>5, <3>1 DEF Holds, OnConversation
    <3> QED  BY <3>2 DEF Holds, InConv
  <2> QED  BY <2>4, <2>5
<1> QED
  BY <1>8, <1>10 DEF HoldInv

LEMMA SendHolds ==
  ASSUME TypeInv, HoldInv, NEW a \in Loops, SendInsert(a)
  PROVE  HoldInv'
<1> PICK l, c : l = loop[a] /\ c = l.conv
    OBVIOUS
<1>1. l \in Local /\ l.pc = "insert" /\ c \in ConvIDs /\ l.by \in Users /\ Holds(l)
  BY DEF SendInsert, At, TypeInv, TypeOK, HandlersKnow, Knows, OnConversation, HoldInv
<1>2. CASE ~Exists(c)
  BY <1>2, ReturnHolds DEF SendInsert
<1>3. CASE Exists(c)
  <2>1. PICK m \in MessageIDs :
          /\ NextRow(m, MessageRows)
          /\ message' = [message EXCEPT ![m] = [conv |-> c, from |-> l.by, stray |-> l.stale]]
          /\ Goto(a, [l EXCEPT !.pc = "mark", !.msg = m])
          /\ UNCHANGED <<kind, pair, member, mark, was, strays>>
    BY <1>3 DEF SendInsert
  <2> PICK x : x = [conv |-> c, from |-> l.by, stray |-> l.stale]
      OBVIOUS
  <2>2. x # None /\ x.conv = c /\ x.from = l.by /\ x.stray = l.stale
    BY <1>1, NoneIsNoMessage DEF Message, Local
  <2>3. /\ message[m] = None
        /\ message'[m] = x
        /\ \A n \in MessageIDs \ {m} : message'[n] = message[n]
    BY <2>1 DEF NextRow, MessageRows, TypeInv, TypeOK, RowsOK
  <2>4. l.stale \/ l.by \in was[c]
    BY <1>1 DEF Holds, OnConversation
  <2>5. \A n \in MessageIDs : Kept(n)'
    BY <2>1, <2>2, <2>3, <2>4 DEF Kept, HoldInv, RowsHold
  <2>6. \A d, n : InConv(d, n) => InConv(d, n)'
    BY <2>3 DEF InConv
  <2>7. \A d \in ConvIDs, u \in Users : Marked(d, u)'
    <3>1. ASSUME NEW d \in ConvIDs, NEW u \in Users, NEW n, n = mark[d][u], n # 0,
                 <<d, u>> \notin strays
          PROVE  InConv(d, n)'
      <4>1. InConv(d, n)
        BY <3>1 DEF HoldInv, RowsHold, Marked
      <4> QED  BY <2>6, <4>1
    <3> QED  BY <2>1, <3>1 DEF Marked, InConv
  <2>8. RowsHold' /\ AllGoOn
    BY <2>1, <2>5, <2>6, <2>7 DEF HoldInv, RowsHold, AllGoOn, GoesOn
  <2> PICK r : r = [l EXCEPT !.pc = "mark", !.msg = m]
      OBVIOUS
  <2>9. r.pc = "mark" /\ r.msg = m /\ r.conv = c /\ r.stale = l.stale
    BY <1>1 DEF Local
  <2>10. InConv(c, m)'
    BY <2>2, <2>3 DEF InConv
  <2>11. Holds(r)'
    BY <1>3, <2>1, <2>9, <2>10 DEF Holds, Exists
  <2> QED  BY <2>1, <2>8, <2>11, GotoHolds
<1> QED
  BY <1>2, <1>3

LEMMA MarkHolds ==
  ASSUME TypeInv, HoldInv, NEW a \in Loops, MarkRead(a)
  PROVE  HoldInv'
<1> PICK l, c, u : l = loop[a] /\ c = l.conv /\ u = l.by
    OBVIOUS
<1>1. l \in Local /\ l.pc = "mark" /\ c \in ConvIDs /\ u \in Users /\ l.msg \in Nat /\ Holds(l)
  BY DEF MarkRead, At, TypeInv, TypeOK, HandlersKnow, Knows, OnConversation, HoldInv, Local
<1>2. CASE ~Exists(c)
  BY <1>2, ReturnHolds DEF MarkRead
<1>3. CASE Exists(c)
  <2>1. /\ mark' = [mark EXCEPT ![c][u] = Larger(@, l.msg)]
        /\ strays' = IF l.msg <= mark[c][u] THEN strays
                     ELSE IF l.stale THEN strays \cup {<<c, u>>}
                     ELSE strays \ {<<c, u>>}
        /\ Goto(a, [l EXCEPT !.pc = "receivers"])
        /\ UNCHANGED <<kind, pair, member, message, was>>
    BY <1>3 DEF MarkRead
  <2>2. mark[c][u] \in Nat
    BY <1>1 DEF TypeInv, TypeOK, RowsOK
  <2>3. /\ mark'[c][u] = IF l.msg <= mark[c][u] THEN mark[c][u] ELSE l.msg
        /\ \A d \in ConvIDs, v \in Users : d # c \/ v # u => mark'[d][v] = mark[d][v]
        /\ \A d \in ConvIDs \ {c} : mark'[d] = mark[d]
    BY <1>1, <2>1, <2>2 DEF Larger, TypeInv, TypeOK, RowsOK
  <2>4. ASSUME NEW d \in ConvIDs, NEW v \in Users, mark'[d][v] # 0, <<d, v>> \notin strays'
        PROVE  InConv(d, mark'[d][v])
    <3>1. CASE d = c /\ v = u /\ ~(l.msg <= mark[c][u])
      <4>1. ~l.stale
        BY <2>1, <2>4, <3>1
      <4> QED  BY <1>1, <2>3, <3>1, <4>1 DEF Holds, OnConversation
    <3>2. CASE d = c /\ v = u /\ l.msg <= mark[c][u]
      BY <2>1, <2>3, <2>4, <3>2 DEF HoldInv, RowsHold, Marked
    <3>3. CASE d # c \/ v # u
      <4>1. <<d, v>> # <<c, u>>
        BY <3>3
      <4>2. <<d, v>> \notin strays
        BY <2>1, <2>4, <4>1
      <4> QED  BY <2>3, <2>4, <3>3, <4>2 DEF HoldInv, RowsHold, Marked
    <3> QED  BY <3>1, <3>2, <3>3
  <2>5. \A d \in ConvIDs, v \in Users : Marked(d, v)'
    <3> QED  BY <2>1, <2>4 DEF Marked, InConv
  <2>6. RowsHold' /\ AllGoOn
    BY <1>3, <2>1, <2>3, <2>5 DEF HoldInv, RowsHold, Kept, AllGoOn, GoesOn, InConv, Exists
  <2> PICK r : r = [l EXCEPT !.pc = "receivers"]
      OBVIOUS
  <2>7. r.pc = "receivers" /\ r.conv = c
    BY <1>1 DEF Local
  <2>8. Holds(r)'
    BY <1>3, <2>1, <2>7 DEF Holds, Exists
  <2> QED  BY <2>1, <2>6, <2>8, GotoHolds
<1> QED
  BY <1>2, <1>3

LEMMA StepHolds ==
  ASSUME TypeInv, HoldInv, NEW a \in Loops, Step(a)
  PROVE  HoldInv'
<1> PICK l, c : l = loop[a] /\ c = l.conv
    OBVIOUS
<1>1. l \in Local /\ Knows(l) /\ Holds(l)
  BY DEF TypeInv, TypeOK, HandlersKnow, HoldInv
<1>2. CASE CheckRequester(a)
  <2>1. Return(a) \/ Goto(a, [l EXCEPT !.pc = "part"]) \/ Goto(a, [l EXCEPT !.pc = "target"])
    BY <1>2 DEF CheckRequester
  <2> QED  BY <1>2, <2>1, ReturnHolds, CheckHolds DEF CheckRequester, At, OnConversation
<1>3. CASE CheckTarget(a)
  <2>1. Return(a) \/ Goto(a, [l EXCEPT !.pc = "part"]) \/ Goto(a, [l EXCEPT !.pc = "add"])
    BY <1>3 DEF CheckTarget
  <2> QED  BY <1>3, <2>1, ReturnHolds, CheckHolds DEF CheckTarget, At, OnConversation
<1>4. CASE Add(a)
  <2>1. l.pc = "add" /\ c \in ConvIDs /\ l.target \in Users
    BY <1>1, <1>4 DEF Add, At, Knows, OnConversation
  <2>2. CASE Exists(c)
    <3> PICK r : r = [l EXCEPT !.pc = "reread"]
        OBVIOUS
    <3>1. AddMember(c, l.target) /\ Goto(a, r) /\ kind[c] # "none"
      BY <1>4, <2>2 DEF Add, Exists
    <3>2. r.pc = "reread" /\ r.conv = c
      BY <1>1 DEF Local
    <3>3. RowsHold' /\ AllGoOn
      BY <2>1, <3>1, AddHolds
    <3>4. Holds(r)'
      BY <2>1, <3>1, <3>2 DEF Holds, AddMember
    <3> QED  BY <3>1, <3>3, <3>4, GotoHolds
  <2> QED  BY <1>4, <2>2, ReturnHolds DEF Add
<1>5. CASE Enrol(a)
  <2>1. PICK u \in l.todo :
          IF Exists(c)
          THEN /\ AddMember(c, u)
               /\ Goto(a, [l EXCEPT !.todo = @ \ {u},
                            !.pc = IF l.todo = {u} THEN "opened" ELSE "enrol"])
          ELSE /\ Return(a)
               /\ UNCHANGED rows
    BY <1>5 DEF Enrol
  <2>2. CASE Exists(c)
    <3> PICK pc, r : /\ pc = IF l.todo = {u} THEN "opened" ELSE "enrol"
                     /\ r = [l EXCEPT !.todo = @ \ {u}, !.pc = pc]
        OBVIOUS
    <3>1. AddMember(c, u) /\ Goto(a, r) /\ kind[c] # "none" /\ c \in ConvIDs /\ u \in Users
      BY <1>1, <2>1, <2>2 DEF Exists, Local
    <3>2. r.pc \in {"opened", "enrol"} /\ r.conv = c
      BY <1>1 DEF Local
    <3>3. RowsHold' /\ AllGoOn
      BY <3>1, AddHolds
    <3>4. Holds(r)'
      BY <3>1, <3>2 DEF Holds, AddMember
    <3> QED  BY <3>1, <3>3, <3>4, GotoHolds
  <2> QED  BY <2>1, <2>2, ReturnHolds
<1>6. CASE OpenLookup(a)
  <2>1. ASSUME NEW d \in ConvIDs, pair[d] = l.todo,
               Goto(a, [l EXCEPT !.pc = "enrol", !.conv = d])
        PROVE  HoldInv'
    <3> PICK r : r = [l EXCEPT !.pc = "enrol", !.conv = d]
        OBVIOUS
    <3>1. r.pc = "enrol" /\ r.conv = d
      BY <1>1 DEF Local
    <3>2. kind[d] # "none"
      BY <1>1, <1>6, <2>1 DEF OpenLookup, At, Holds, HoldInv, RowsHold
    <3>3. Holds(r)
      BY <3>1, <3>2 DEF Holds
    <3> QED  BY <1>6, <2>1, <3>3, ReadingHolds DEF OpenLookup
  <2> QED  BY <1>6, <2>1, ReturnHolds DEF OpenLookup
<1>7. CASE ReadExists(a)
  <2>1. Return(a) \/ (Goto(a, [l EXCEPT !.pc = "mark"]) /\ InConv(c, l.msg))
    BY <1>7 DEF ReadExists
  <2> QED  BY <1>7, <2>1, ReturnHolds, CheckHolds DEF ReadExists, At, OnConversation
<1>8. CASE Reread(a) \/ Receivers(a) \/ Opened(a)
  BY <1>8, ReturnHolds DEF Reread, Receivers, Opened
<1> QED
  BY <1>2, <1>3, <1>4, <1>5, <1>6, <1>7, <1>8, PartHolds, SendHolds, MarkHolds DEF Step

LEMMA NextHolds == TypeInv /\ HoldInv /\ [Next]_vars => HoldInv'
<1> SUFFICES ASSUME TypeInv, HoldInv, [Next]_vars PROVE HoldInv'
    OBVIOUS
<1>1. CASE Crash
  <2>1. RowsHold' /\ \A a \in Loops : loop'[a] = Idle
    BY <1>1, SameRowsHold DEF Crash
  <2>2. \A a \in Loops : Holds(loop[a])'
    BY <2>1 DEF Holds, Idle, OnConversation
  <2> QED  BY <2>1, <2>2 DEF HoldInv
<1>2. CASE UNCHANGED vars
  <2>1. RowsHold' /\ loop' = loop
    BY <1>2, SameRowsHold DEF vars
  <2>2. \A a \in Loops : Holds(loop[a])'
    BY <1>2, <2>1 DEF HoldInv, Holds, InConv, vars, rows
  <2> QED  BY <2>1, <2>2 DEF HoldInv
<1> QED
  BY <1>1, <1>2, StartHolds, StepHolds DEF Next, Work

LEMMA HoldsAlways == Spec => []HoldInv
BY InitHolds, NextHolds, TypedAlways, PTL DEF Spec

(* conversations.go:141-144: the sender of every message has been a member *)
(* of the conversation that holds it (SendersWereMembers), however many    *)
(* handlers send, add, remove and delete at once, unless the conversation  *)
(* was deleted between the sender's check and the insert.                  *)
THEOREM SendersAreKnown == Spec => []SendersWereMembers
<1>1. HoldInv => SendersWereMembers
  BY DEF HoldInv, RowsHold, Kept, SendersWereMembers
<1> QED
  BY <1>1, HoldsAlways, PTL

(* conversations.go:393-395: a watermark never outlives its message        *)
(* (MarksAreMessages), unless the handler that set it looked for the       *)
(* message in a conversation that was deleted before it set the mark.      *)
THEOREM MarksStayMessages == Spec => []MarksAreMessages
<1>1. HoldInv => MarksAreMessages
  BY DEF HoldInv, RowsHold, Marked, MarksAreMessages
<1> QED
  BY <1>1, HoldsAlways, PTL

(* A message arrives unread: no watermark that was meant for its           *)
(* conversation has reached its id, though ids are given out again.        *)
THEOREM NothingArrivesRead == Spec => MessagesArriveUnread
<1>1. TypeInv /\ HoldInv /\ [Next]_vars => [ArrivesUnread]_vars
  <2> SUFFICES ASSUME TypeInv, HoldInv, [Next]_vars, NEW m \in MessageIDs, NEW u \in Users,
                      message[m] = None, message'[m] # None,
                      <<message'[m].conv, u>> \notin strays
               PROVE  mark[message'[m].conv][u] < m
    BY DEF ArrivesUnread
  <2>1. PICK a \in Loops : SendInsert(a)
    <3>1. ASSUME NEW a \in Loops, NEW v \in Users, Start(a, v) PROVE message' = message
      BY <3>1 DEF Start, ChangeStart, SendStart, ReadStart, OpenInsert, CreateInsert, NewRow, rows
    <3>2. ASSUME NEW a \in Loops, Part(a) PROVE message'[m] = None
      BY <3>2 DEF Part
    <3>3. ASSUME NEW a \in Loops, Step(a), ~SendInsert(a), ~Part(a) PROVE message' = message
      BY <3>3 DEF Step, CheckRequester, CheckTarget, Add, AddMember, Reread, ReadExists,
         MarkRead, Receivers, OpenLookup, Enrol, Opened, rows
    <3> QED  BY <3>1, <3>2, <3>3 DEF Next, Work, Crash, vars, rows
  <2> PICK l : l = loop[a]
      OBVIOUS
  <2>2. l.conv \in ConvIDs /\ l.by \in Users
    BY <2>1 DEF SendInsert, At, TypeInv, HandlersKnow, Knows, OnConversation
  <2>3. PICK n \in MessageIDs :
          /\ NextRow(n, MessageRows)
          /\ message' = [message EXCEPT ![n] = [conv |-> l.conv, from |-> l.by,
                                                stray |-> l.stale]]
    BY <2>1 DEF SendInsert, rows
  <2>4. m = n /\ message'[m].conv = l.conv
    BY <2>3 DEF TypeInv, TypeOK, RowsOK
  <2>5. \A k \in MessageRows : k < m
    BY <2>3, <2>4 DEF NextRow
  <2>6. mark[l.conv][u] = 0 \/ mark[l.conv][u] \in MessageRows
    BY <2>2, <2>4 DEF HoldInv, RowsHold, Marked, InConv, MessageRows
  <2>7. 0 < m
    BY ConversationsAssumption
  <2> QED  BY <2>4, <2>5, <2>6, <2>7
<1> QED
  BY <1>1, TypedAlways, HoldsAlways, PTL DEF Spec, MessagesArriveUnread

-----------------------------------------------------------------------------
(* Direct conversations that nobody takes apart.  A leave of a group may   *)
(* reach a direct conversation that has the group's id by now, but not     *)
(* with one event in hand at a time, nor where nobody leaves.              *)

OneAtATime == \A a, b \in Loops : a = b
NoneLeaves == Ops \cap {"leave", "remove"} = {}
Undisturbed == OneAtATime \/ NoneLeaves

RowsFit ==
  /\ \A c \in ConvIDs : member[c] \subseteq was[c]
  /\ \A c \in ConvIDs : kind[c] = "none" => was[c] = {} /\ pair[c] = {}
  /\ \A c \in ConvIDs :
       kind[c] = "direct" => was[c] \subseteq member[c] /\ was[c] \subseteq pair[c] /\ pair[c] # {}
  /\ \A c \in ConvIDs : kind[c] = "group" => pair[c] = {}

(* The members that opening has still to enrol, whoever else does. *)
Enters(l) ==
  /\ l.target = None => kind[l.conv] = "group"
  /\ l.target # None => /\ kind[l.conv] = "direct"
                        /\ l.todo \subseteq {l.by, l.target}
                        /\ pair[l.conv] = {l.by, l.target}
                        /\ pair[l.conv] \subseteq member[l.conv] \cup l.todo
  /\ l.pc = "opened" => l.todo = {}

(* What a handler read is still so. *)
Fresh(l) ==
  /\ NoneLeaves => /\ l.pc # "part"
                   /\ l.pc \in {"requester", "target"} => l.op = "add"
  /\ l.pc \in {"requester", "target", "add", "part"} => kind[l.conv] = "group"
  /\ l.pc = "lookup" => l.target \in Users /\ l.todo = {l.by, l.target}
  /\ l.pc \in {"enrol", "opened"} => Enters(l)

FitInv == RowsFit /\ \A a \in Loops : Fresh(loop[a])

(* A conversation that is there stays as it is but for members added. *)
RowsGrow ==
  \A c \in ConvIDs : /\ kind[c] # "none" => kind'[c] = kind[c] /\ pair'[c] = pair[c]
                     /\ member[c] \subseteq member'[c]

LEMMA NoUser == None \notin Users
BY ConversationsAssumption

LEMMA InitFits == Init => FitInv
<1> SUFFICES ASSUME Init PROVE FitInv
    OBVIOUS
<1>1. \A a \in Loops : loop[a].pc = "idle"
  BY DEF Init, Idle
<1>2. \A a \in Loops : Fresh(loop[a])
  BY <1>1 DEF Fresh
<1> QED
  BY <1>2 DEF FitInv, Init, RowsFit

LEMMA FreshOn ==
  ASSUME RowsGrow, NEW l, Knows(l), Fresh(l)
  PROVE  Fresh(l)'
<1>1. l.pc \in {"requester", "target", "add", "part"} => kind'[l.conv] = "group"
  BY DEF Fresh, Knows, RowsGrow, OnConversation
<1>2. ASSUME l.pc \in {"enrol", "opened"} PROVE Enters(l)'
  <2>1. l.conv \in ConvIDs /\ Enters(l)
    BY <1>2 DEF Knows, OnConversation, Fresh
  <2>2. kind'[l.conv] = kind[l.conv] /\ pair'[l.conv] = pair[l.conv] /\ member[l.conv] \subseteq member'[l.conv]
    BY <2>1 DEF RowsGrow, Enters
  <2> QED  BY <2>1, <2>2 DEF Enters
<1> QED
  BY <1>1, <1>2 DEF Fresh

LEMMA GotoFits ==
  ASSUME TypeInv, FitInv, RowsGrow, RowsFit', NEW a \in Loops, NEW r, Goto(a, r), Fresh(r)'
  PROVE  FitInv'
<1>1. \A b \in Loops : loop'[b] = IF b = a THEN r ELSE loop[b]
  BY DEF Goto, TypeInv, TypeOK
<1>2. ASSUME NEW b \in Loops PROVE Fresh(loop[b])'
  <2> PICK l : l = loop[b]
      OBVIOUS
  <2>1. Fresh(l)'
    BY FreshOn DEF TypeInv, HandlersKnow, FitInv
  <2>2. CASE b = a
    BY <1>1, <2>2 DEF Fresh, Enters
  <2>3. CASE b # a
    <3>1. loop'[b] = l
      BY <1>1, <2>3
    <3> QED  BY <2>1, <3>1 DEF Fresh, Enters
  <2> QED  BY <2>2, <2>3
<1> QED
  BY <1>2 DEF FitInv

(* The steps that change nothing of the conversations themselves. *)
LEMMA ReadingFits ==
  ASSUME TypeInv, FitInv, UNCHANGED <<kind, pair, member, was>>, NEW a \in Loops, NEW r,
         Goto(a, r), Fresh(r)
  PROVE  FitInv'
<1>1. RowsGrow
  BY DEF RowsGrow
<1>2. RowsFit'
  BY DEF FitInv, RowsFit
<1>3. Fresh(r)'
  BY DEF Fresh, Enters
<1> QED
  BY <1>1, <1>2, <1>3, GotoFits

LEMMA EndingFits ==
  ASSUME TypeInv, FitInv, UNCHANGED <<kind, pair, member, was>>, NEW a \in Loops, NEW r,
         Goto(a, r), r.pc \in {"idle", "reread", "insert", "exists", "mark", "receivers"}
  PROVE  FitInv'
<1>1. Fresh(r)
  BY DEF Fresh
<1> QED
  BY <1>1, ReadingFits

LEMMA AddFits ==
  ASSUME TypeInv, RowsFit, NEW c \in ConvIDs, NEW u \in Users, AddMember(c, u),
         kind[c] # "none", kind[c] = "direct" => u \in pair[c]
  PROVE  RowsFit' /\ RowsGrow /\ member'[c] = member[c] \cup {u} /\ UNCHANGED <<kind, pair>>
<1>1. UNCHANGED <<kind, pair>>
  BY DEF AddMember
<1>2. \A d \in ConvIDs :
        /\ member'[d] = IF d = c THEN member[c] \cup {u} ELSE member[d]
        /\ was'[d] = IF d = c THEN was[c] \cup {u} ELSE was[d]
  BY DEF AddMember, TypeInv, TypeOK, RowsOK
<1>3. \A d \in ConvIDs :
        /\ member'[d] \subseteq was'[d]
        /\ kind[d] = "none" => was'[d] = {}
        /\ kind[d] = "direct" => was'[d] \subseteq member'[d] /\ was'[d] \subseteq pair[d]
  BY <1>2 DEF RowsFit
<1> QED
  BY <1>1, <1>2, <1>3 DEF RowsFit, RowsGrow

LEMMA NewRowFits ==
  ASSUME TypeInv, RowsFit, NEW c \in ConvIDs, NEW k, NEW users, NewRow(c, k, users),
         (k = "group" /\ users = {}) \/ (k = "direct" /\ users # {})
  PROVE  RowsFit' /\ RowsGrow /\ kind'[c] = k
<1>1. kind[c] = "none" /\ was[c] = {}
  BY DEF NewRow, NextRow, ConvRows, RowsFit
<1>2. /\ UNCHANGED <<member, was>>
      /\ kind'[c] = k /\ pair'[c] = users
      /\ \A d \in ConvIDs \ {c} : kind'[d] = kind[d] /\ pair'[d] = pair[d]
  BY DEF NewRow, TypeInv, TypeOK, RowsOK
<1> QED
  BY <1>1, <1>2 DEF RowsFit, RowsGrow

LEMMA PartFits ==
  ASSUME TypeInv, RowsFit, NEW a \in Loops, Part(a), kind[loop[a].conv] = "group"
  PROVE  RowsFit'
<1> PICK c, Gone : c = loop[a].conv /\ Gone = (member[c] \ {loop[a].target} = {})
    OBVIOUS
<1>1. c \in ConvIDs /\ kind[c] = "group"
  BY DEF Part, At, TypeInv, HandlersKnow, Knows, OnConversation
<1>2. /\ \A d \in ConvIDs \ {c} :
           /\ member'[d] = member[d] /\ was'[d] = was[d] /\ kind'[d] = kind[d]
           /\ pair'[d] = pair[d]
      /\ member'[c] = member[c] \ {loop[a].target}
      /\ kind'[c] = IF Gone THEN "none" ELSE kind[c]
      /\ pair'[c] = IF Gone THEN {} ELSE pair[c]
      /\ was'[c] = IF Gone THEN {} ELSE was[c]
  BY <1>1 DEF Part, TypeInv, TypeOK, RowsOK
<1>3. Gone => member'[c] = {}
  BY <1>2
<1>4. ASSUME NEW d \in ConvIDs
      PROVE  /\ member'[d] \subseteq was'[d]
             /\ kind'[d] = "none" => was'[d] = {} /\ pair'[d] = {}
             /\ kind'[d] = "direct" => was'[d] \subseteq member'[d] /\ was'[d] \subseteq pair'[d] /\ pair'[d] # {}
             /\ kind'[d] = "group" => pair'[d] = {}
  <2>1. CASE d # c
    BY <1>2, <2>1 DEF RowsFit
  <2>2. CASE d = c
    BY <1>1, <1>2, <1>3, <2>2 DEF RowsFit
  <2> QED  BY <2>1, <2>2
<1> QED
  BY <1>4 DEF RowsFit

(* What Enrol does to a conversation that is there. *)
LEMMA EnrolAdds ==
  ASSUME NEW a \in Loops, Enrol(a), Exists(loop[a].conv)
  PROVE  \E u \in loop[a].todo :
           /\ AddMember(loop[a].conv, u)
           /\ Goto(a, [loop[a] EXCEPT !.todo = @ \ {u},
                         !.pc = IF loop[a].todo = {u} THEN "opened" ELSE "enrol"])
<1> PICK l : l = loop[a]
    OBVIOUS
<1> PICK First : First = IF l.target # None THEN {u \in l.todo : \A v \in l.todo : u <= v}
                         ELSE IF l.by \in l.todo THEN {l.by}
                         ELSE l.todo
    OBVIOUS
<1>1. First \in SUBSET l.todo
  OBVIOUS
<1>2. \E u \in First : /\ AddMember(l.conv, u)
                       /\ Goto(a, [l EXCEPT !.todo = @ \ {u},
                                    !.pc = IF l.todo = {u} THEN "opened" ELSE "enrol"])
  BY DEF Enrol
<1> QED
  BY <1>1, <1>2

LEMMA StartFits ==
  ASSUME TypeInv, FitInv, NEW a \in Loops, NEW u \in Users, Start(a, u)
  PROVE  FitInv'
<1>1. ASSUME NEW op \in Changes, NEW c \in ConvIDs, NEW t \in Users, ChangeStart(a, op, u, c, t)
      PROVE  FitInv'
  <2> PICK l : l = [Idle EXCEPT !.pc = "requester", !.op = op, !.by = u, !.conv = c,
                                !.target = t, !.old = member[c]]
      OBVIOUS
  <2>1. l.pc = "requester" /\ l.op = op /\ l.conv = c
    BY DEF Idle
  <2>2. Goto(a, l) /\ kind[c] = "group" /\ UNCHANGED rows /\ (NoneLeaves => op = "add")
    BY <1>1 DEF ChangeStart, NoneLeaves, Changes
  <2>3. Fresh(l)
    BY <2>1, <2>2 DEF Fresh
  <2> QED  BY <2>2, <2>3, ReadingFits DEF rows
<1>2. ASSUME NEW c \in ConvIDs, SendStart(a, u, c) PROVE FitInv'
  <2> PICK l : l = [Idle EXCEPT !.pc = "insert", !.op = "send", !.by = u, !.conv = c]
      OBVIOUS
  <2>1. l.pc = "insert"
    BY DEF Idle
  <2> QED  BY <1>2, <2>1, EndingFits DEF SendStart, rows
<1>3. ASSUME NEW c \in ConvIDs, NEW m \in MessageIDs, ReadStart(a, u, c, m) PROVE FitInv'
  <2> PICK l : l = [Idle EXCEPT !.pc = "exists", !.op = "read", !.by = u, !.conv = c, !.msg = m]
      OBVIOUS
  <2>1. l.pc = "exists"
    BY DEF Idle
  <2> QED  BY <1>3, <2>1, EndingFits DEF ReadStart, rows
<1>4. ASSUME NEW v \in Users, OpenInsert(a, u, v) PROVE FitInv'
  <2> PICK l : l = [Idle EXCEPT !.pc = "lookup", !.by = u, !.target = v, !.todo = {u, v}]
      OBVIOUS
  <2>1. l.pc = "lookup" /\ l.by = u /\ l.target = v /\ l.todo = {u, v}
    BY DEF Idle
  <2>2. Goto(a, l)
    BY <1>4 DEF OpenInsert
  <2>3. Fresh(l) /\ Fresh(l)'
    BY <2>1 DEF Fresh
  <2>4. CASE UNCHANGED rows
    BY <2>2, <2>3, <2>4, ReadingFits DEF rows
  <2>5. ASSUME NEW c \in ConvIDs, NewRow(c, "direct", {u, v}) PROVE FitInv'
    <3>1. RowsFit' /\ RowsGrow
      BY <2>5, NewRowFits DEF FitInv
    <3> QED  BY <2>2, <2>3, <3>1, GotoFits
  <2> QED  BY <1>4, <2>4, <2>5 DEF OpenInsert
<1>5. ASSUME NEW others \in SUBSET Users, CreateInsert(a, u, others) PROVE FitInv'
  <2>1. PICK c \in ConvIDs :
          /\ NewRow(c, "group", {})
          /\ Goto(a, [Idle EXCEPT !.pc = "enrol", !.by = u, !.conv = c, !.todo = others \cup {u}])
    BY <1>5 DEF CreateInsert
  <2> PICK l : l = [Idle EXCEPT !.pc = "enrol", !.by = u, !.conv = c, !.todo = others \cup {u}]
      OBVIOUS
  <2>2. l.pc = "enrol" /\ l.target = None /\ l.conv = c
    BY DEF Idle
  <2>3. RowsFit' /\ RowsGrow /\ kind'[c] = "group"
    BY <2>1, NewRowFits DEF FitInv
  <2>4. Fresh(l)'
    BY <2>2, <2>3 DEF Fresh, Enters
  <2> QED  BY <2>1, <2>3, <2>4, GotoFits
<1> QED
  BY <1>1, <1>2, <1>3, <1>4, <1>5 DEF Start

LEMMA StepFits ==
  ASSUME Undisturbed, TypeInv, FitInv, NEW a \in Loops, Step(a)
  PROVE  FitInv'
<1> PICK l, c : l = loop[a] /\ c = l.conv
    OBVIOUS
<1>1. l \in Local /\ Knows(l) /\ Fresh(l) /\ RowsFit
  BY DEF TypeInv, TypeOK, HandlersKnow, FitInv
<1>2. ASSUME UNCHANGED rows, NEW pc \in {"target", "add", "part"}, Goto(a, [l EXCEPT !.pc = pc]),
             l.pc \in {"requester", "target"}, NoneLeaves => pc # "part"
      PROVE  FitInv'
  <2> PICK r : r = [l EXCEPT !.pc = pc]
      OBVIOUS
  <2>1. r.pc = pc /\ r.conv = c /\ r.op = l.op
    BY <1>1 DEF Local
  <2>2. Fresh(r)
    BY <1>1, <1>2, <2>1 DEF Fresh
  <2> QED  BY <1>2, <2>2, ReadingFits DEF rows
<1>3. ASSUME UNCHANGED rows, Return(a) PROVE FitInv'
  BY <1>3, EndingFits DEF Return, Idle, rows
<1>4. CASE CheckRequester(a)
  <2>1. NoneLeaves => l.op = "add"
    BY <1>1, <1>4 DEF CheckRequester, At, Fresh
  <2>2. \/ Return(a)
        \/ Goto(a, [l EXCEPT !.pc = "part"]) /\ l.op = "leave"
        \/ Goto(a, [l EXCEPT !.pc = "target"])
    BY <1>4 DEF CheckRequester
  <2> QED  BY <1>2, <1>3, <1>4, <2>1, <2>2 DEF CheckRequester, At
<1>5. CASE CheckTarget(a)
  <2>1. NoneLeaves => l.op = "add"
    BY <1>1, <1>5 DEF CheckTarget, At, Fresh
  <2>2. \/ Return(a)
        \/ Goto(a, [l EXCEPT !.pc = "part"]) /\ l.op = "remove"
        \/ Goto(a, [l EXCEPT !.pc = "add"])
    BY <1>5 DEF CheckTarget
  <2> QED  BY <1>2, <1>3, <1>5, <2>1, <2>2 DEF CheckTarget, At
<1>6. CASE Add(a)
  <2>1. l.pc = "add" /\ kind[c] = "group" /\ c \in ConvIDs /\ l.target \in Users
    BY <1>1, <1>6 DEF Add, At, Fresh, Knows, OnConversation
  <2> PICK r : r = [l EXCEPT !.pc = "reread"]
      OBVIOUS
  <2>2. AddMember(c, l.target) /\ Goto(a, r)
    BY <1>6, <2>1 DEF Add, Exists
  <2>3. r.pc = "reread"
    BY <1>1 DEF Local
  <2>4. Fresh(r)'
    BY <2>3 DEF Fresh
  <2>5. RowsFit' /\ RowsGrow
    BY <1>1, <2>1, <2>2, AddFits
  <2> QED  BY <2>2, <2>4, <2>5, GotoFits
<1>7. CASE Part(a)
  <2>1. l.pc = "part" /\ kind[c] = "group" /\ OneAtATime
    BY <1>1, <1>7 DEF Part, At, Fresh, Undisturbed
  <2>2. RowsFit'
    BY <1>1, <1>7, <2>1, PartFits
  <2>3. \A b \in Loops : loop'[b].pc = "reread"
    BY <1>7, <2>1 DEF Part, GotoReread, OneAtATime, TypeInv, TypeOK, Local
  <2>4. \A b \in Loops : Fresh(loop[b])'
    BY <2>3 DEF Fresh
  <2> QED  BY <2>2, <2>4 DEF FitInv
<1>8. CASE SendInsert(a)
  <2>1. \/ Return(a) /\ UNCHANGED rows
        \/ /\ \E m \in MessageIDs : Goto(a, [l EXCEPT !.pc = "mark", !.msg = m])
           /\ UNCHANGED <<kind, pair, member, was>>
    BY <1>8 DEF SendInsert
  <2>2. \A m : [l EXCEPT !.pc = "mark", !.msg = m].pc = "mark"
    BY <1>1 DEF Local
  <2> QED  BY <1>3, <2>1, <2>2, EndingFits
<1>9. CASE ReadExists(a)
  <2>1. [l EXCEPT !.pc = "mark"].pc = "mark"
    BY <1>1 DEF Local
  <2> QED  BY <1>3, <1>9, <2>1, EndingFits DEF ReadExists, rows
<1>10. CASE MarkRead(a)
  <2>1. [l EXCEPT !.pc = "receivers"].pc = "receivers"
    BY <1>1 DEF Local
  <2>2. \/ Return(a) /\ UNCHANGED rows
        \/ /\ Goto(a, [l EXCEPT !.pc = "receivers"])
           /\ UNCHANGED <<kind, pair, member, was>>
    BY <1>10 DEF MarkRead
  <2> QED  BY <1>3, <2>1, <2>2, EndingFits
<1>11. CASE Reread(a) \/ Receivers(a) \/ Opened(a)
  BY <1>3, <1>11 DEF Reread, Receivers, Opened
<1>12. CASE OpenLookup(a)
  <2>1. UNCHANGED rows /\ l.pc = "lookup"
    BY <1>12 DEF OpenLookup, At
  <2>2. ASSUME NEW d \in ConvIDs, pair[d] = l.todo, Goto(a, [l EXCEPT !.pc = "enrol", !.conv = d])
        PROVE  FitInv'
    <3> PICK r : r = [l EXCEPT !.pc = "enrol", !.conv = d]
        OBVIOUS
    <3>1. /\ r.pc = "enrol" /\ r.conv = d /\ r.target = l.target /\ r.by = l.by
          /\ r.todo = l.todo
      BY <1>1 DEF Local
    <3>2. l.target \in Users /\ l.todo = {l.by, l.target}
      BY <1>1, <2>1 DEF Fresh
    <3>3. kind[d] = "direct"
      BY <1>1, <2>2, <3>2 DEF RowsFit, TypeInv, TypeOK, RowsOK, Kinds
    <3>4. Fresh(r)
      BY <2>2, <3>1, <3>2, <3>3, NoUser DEF Fresh, Enters
    <3> QED  BY <2>1, <2>2, <3>4, ReadingFits DEF rows
  <2> QED  BY <1>3, <1>12, <2>1, <2>2 DEF OpenLookup
<1>13. CASE Enrol(a)
  <2>1. l.pc = "enrol" /\ c \in ConvIDs /\ Enters(l)
    BY <1>1, <1>13 DEF Enrol, At, Fresh, Knows, OnConversation
  <2>2. kind[c] \in {"group", "direct"}
    BY <2>1 DEF Enters
  <2>3. PICK u \in l.todo : /\ AddMember(c, u)
                            /\ Goto(a, [l EXCEPT !.todo = @ \ {u},
                                         !.pc = IF l.todo = {u} THEN "opened" ELSE "enrol"])
    BY <1>13, <2>1, <2>2, EnrolAdds DEF Exists
  <2> PICK pc : pc = IF l.todo = {u} THEN "opened" ELSE "enrol"
      OBVIOUS
  <2> PICK r : r = [l EXCEPT !.todo = @ \ {u}, !.pc = pc]
      OBVIOUS
  <2>4. /\ r.pc = pc /\ r.todo = l.todo \ {u} /\ r.conv = c /\ r.target = l.target
        /\ r.by = l.by
    BY <1>1 DEF Local
  <2>5. u \in Users /\ (kind[c] = "direct" => u \in pair[c])
    BY <1>1, <2>1, <2>3 DEF Enters, Local
  <2>6. RowsFit' /\ RowsGrow /\ member'[c] = member[c] \cup {u} /\ UNCHANGED <<kind, pair>>
    BY <1>1, <2>1, <2>2, <2>3, <2>5, AddFits
  <2>7. Enters(r)'
    BY <2>1, <2>3, <2>4, <2>6 DEF Enters
  <2>8. Fresh(r)'
    BY <2>4, <2>7 DEF Fresh
  <2> QED  BY <2>3, <2>6, <2>8, GotoFits
<1> QED
  BY <1>4, <1>5, <1>6, <1>7, <1>8, <1>9, <1>10, <1>11, <1>12, <1>13 DEF Step

LEMMA NextFits == ASSUME Undisturbed, TypeInv, FitInv, [Next]_vars PROVE FitInv'
<1>1. ASSUME UNCHANGED rows, \A a \in Loops : loop'[a] = loop[a] \/ loop'[a] = Idle
      PROVE  FitInv'
  <2>1. UNCHANGED <<kind, pair, member, was>>
    BY <1>1 DEF rows
  <2>2. RowsFit'
    BY <2>1 DEF FitInv, RowsFit
  <2>3. Fresh(Idle)
    BY DEF Fresh, Idle
  <2>4. ASSUME NEW a \in Loops PROVE Fresh(loop[a])'
    <3>1. Fresh(loop'[a])
      BY <1>1, <2>3 DEF FitInv
    <3> QED  BY <2>1, <3>1 DEF Fresh, Enters
  <2> QED  BY <2>2, <2>4 DEF FitInv
<1>2. CASE Crash
  BY <1>1, <1>2 DEF Crash
<1>3. CASE UNCHANGED vars
  BY <1>1, <1>3 DEF vars
<1> QED
  BY <1>2, <1>3, StartFits, StepFits DEF Next, Work

LEMMA FitsAlways == ASSUME Undisturbed PROVE Spec => []FitInv
BY InitFits, NextFits, TypedAlways, PTL DEF Spec

LEMMA WholeWhenOpened == TypeInv /\ FitInv => OpenedIsWhole
<1> SUFFICES ASSUME TypeInv, FitInv,
                    NEW a \in Loops, loop[a].pc = "opened", loop[a].target # None
             PROVE  member[loop[a].conv] = {loop[a].by, loop[a].target}
    BY DEF OpenedIsWhole, At
<1> PICK l : l = loop[a]
    OBVIOUS
<1>1. RowsFit /\ Enters(l)
  BY DEF FitInv, Fresh
<1>2. /\ l.conv \in ConvIDs /\ kind[l.conv] = "direct" /\ pair[l.conv] = {l.by, l.target}
      /\ pair[l.conv] \subseteq member[l.conv]
  BY <1>1 DEF TypeInv, HandlersKnow, Knows, OnConversation, Enters
<1>3. member[l.conv] \subseteq pair[l.conv]
  BY <1>1, <1>2 DEF RowsFit
<1> QED
  BY <1>2, <1>3

(* conversations.go:46-48: whoever is about to be shown a direct           *)
(* conversation finds both its members recorded, however many users open   *)
(* it at once and wherever the server stopped before.                      *)
THEOREM OpenedAlwaysWhole == ASSUME Undisturbed PROVE Spec => []OpenedIsWhole
BY WholeWhenOpened, TypedAlways, FitsAlways, PTL
=============================================================================
