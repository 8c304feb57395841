SPECIFICATION Spec
CONSTANTS
  Users = {u1, u2}
  Requests = {r1, r2, r3}
  MaxFaults = 1
SYMMETRY Symmetry
INVARIANTS
  MineIsMine
  CountsSettle
CHECK_DEADLOCK FALSE
