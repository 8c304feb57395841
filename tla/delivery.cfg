\* Two clients, one of which may reconnect, and a request handler.
CONSTANTS
  Clients = {"ann", "bob"}
  Conns = {1, 2}
  Tasks = {t1}
  MaxRequests = 1
  MaxSilent = 1
  Dials <- TwoDials
  None = None
SPECIFICATION Spec
INVARIANTS
  OneLate
PROPERTIES
  KeepsOrder
  SendersEnd
  LoopsEnd
CHECK_DEADLOCK FALSE
