\* A session with two tabs; nothing fails.
CONSTANTS
  Tabs = {t1, t2}
  Users = {ann}
  MaxReconnectAttempts = 3
  MaxSessions = 1
  MaxCalls = 2
  MaxSocks = 2
  MaxFaults = 0
  Ops = {"load"}
  None = None
SPECIFICATION Spec
PROPERTIES
  TabsSettle
CHECK_DEADLOCK FALSE
