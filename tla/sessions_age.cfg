\* Every kind of request, sessions that expire on a wall clock that jumps, and
\* a ban or a password change.
CONSTANTS
  Users = {u1}
  SessionIDs = {s1, s2}
  Clients = {c1, c2}
  Conns = {k1}
  Otps = {o1, o2}
  Handlers = {h1, h2}
  None = None
  Anon = Anon
  Ops = {"login", "logout", "check", "request", "expire", "connect", "lapse",
         "ban", "password"}
  MaxEpoch = 1
  ClockJumps = TRUE
SPECIFICATION Spec
SYMMETRY Symmetry
INVARIANTS
  OldSessionsDie
PROPERTIES
  FreshSessionsStay
\* The supply of session ids, clients, connections and keys is finite.
CHECK_DEADLOCK FALSE
