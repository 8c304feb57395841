CONSTANTS
  Tabs = {t1}
  Users = {ann, bob}
  MaxReconnectAttempts = 2
  MaxSessions = 2
  MaxCalls = 2
  MaxSocks = 2
  MaxFaults = 2
  Ops = {"load", "login", "logout", "profile", "end"}
  None = None
SPECIFICATION Spec
INVARIANTS
  OneSocket
  SocketIsMine
  StuckOnlyByFailure
PROPERTIES
  NoSocketAfterLogout
SYMMETRY Symmetry
CHECK_DEADLOCK FALSE
