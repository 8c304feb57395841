\* One account logging in, out and reconnecting over and over.
CONSTANTS
  Users = {u1}
  SessionIDs = {s1, s2}
  Clients = {c1, c2, c3}
  Conns = {k1, k2}
  Otps = {o1, o2, o3}
  Handlers = {h1, h2}
  None = None
  Anon = Anon
  Ops = {"login", "logout", "check"}
  MaxEpoch = 0
  ClockJumps = FALSE
SPECIFICATION Spec
SYMMETRY Symmetry
INVARIANTS
  IndexInSync
  SingleLogin
  SupersededAreClosed
  OtpBinding
PROPERTIES
  NewerConnectionSurvives
  KeepsPromise
\* The supply of session ids, clients, connections and keys is finite.
CHECK_DEADLOCK FALSE
