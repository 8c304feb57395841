\* A login in flight while the password changes.
CONSTANTS
  Users = {u1}
  SessionIDs = {s1, s2}
  Clients = {c1, c2, c3}
  Conns = {k1, k2}
  Otps = {o1, o2}
  Handlers = {h1, h2}
  None = None
  Anon = Anon
  Ops = {"login", "password"}
  MaxEpoch = 1
  ClockJumps = FALSE
SPECIFICATION Spec
SYMMETRY Symmetry
INVARIANTS
  OldPasswordIsDead
CHECK_DEADLOCK FALSE
