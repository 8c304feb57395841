\* Two events at a time: conversations are emptied and their ids given out again.
CONSTANTS
  Users = {1, 2}
  ConvIDs = {1}
  MessageIDs = {1, 2}
  Loops = {a1, a2}
  MaxOthers = 1
  Ops = {"create", "open", "leave", "add", "remove", "send", "read", "crash"}
  None = None
SPECIFICATION Spec
SYMMETRY Symmetry
INVARIANTS
  SendersWereMembers
  MarksAreMessages
  EmptiedGroupsGo
PROPERTIES
  MessagesArriveUnread
  MarksNeverRegress
\* The supply of ids is finite.
CHECK_DEADLOCK FALSE
