\* One request for a page of history is dropped.
CONSTANTS
  Convs = {c1, c2}
  PageSize = 1
  Losses = {"request"}
  Old = 0
  MaxMessages = 1
  MaxSends = 0
  MaxOffset = 0
  MaxRequests = 3
  MaxConns = 1
  MaxQueue = 2
  MaxLost = 1
  None = None
SPECIFICATION Spec
SYMMETRY Symmetry
INVARIANTS
  HistoryBelongs
CHECK_DEADLOCK FALSE
