\* Old databases, migrated and served by a server that may stop at any step.
CONSTANTS
  Users = {1, 2, 3}
  ConvIDs = {1, 2}
  MessageIDs = {1, 2}
  Loops = {a1, a2}
  MaxOthers = 2
  Ops = {"open", "send", "crash"}
  Words = {w1, w2}
  Categories = {1, 2}
  Accounts = {1, 2}
  Handlers = {h1, h2}
  Requests = {"create", "rename", "delete", "register", "profile"}
  Subjects = {"chats", "directory"}
  Active = {1, 2}
  MaxLegacy = 2
  None = None
SPECIFICATION StartupSpec
SYMMETRY Symmetry
INVARIANTS
  OnlySelfMessagesFail
  LegacyIsKept
  NamesStayDistinct
  OneChatPerPair
  OpenedIsWhole
PROPERTIES
  StartsWhole
