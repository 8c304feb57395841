\* Two windows over a connection that loses what it can.
CONSTANTS
  Convs = {c1, c2}
  PageSize = 3
  Losses = {"request", "reply", "connection"}
  Old = 2
  MaxMessages = 4
  MaxSends = 2
  MaxOffset = 3
  MaxRequests = 3
  MaxConns = 2
  MaxQueue = 1
  MaxLost = 2
  None = None
SPECIFICATION Spec
SYMMETRY Symmetry
INVARIANTS
  AnsweredBelongs
  AcksSettle
  EchoesAreTimed
  NoGaps
\* The client may be closed on a dead connection.
CHECK_DEADLOCK FALSE
