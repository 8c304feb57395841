\* Two requests at once, of two users, on posts that come and go.
CONSTANTS
  Users = {u1, u2}
  Admins = {u2}
  Author = u1
  Ids = {1, 2}
  Files = {f1, f2, f3}
  Handlers = {h1, h2}
  MaxTries = 3
  MaxRequests = 5
  Ops = {"add", "edit", "delete", "upload", "comment", "editComment",
         "deleteComment", "markRead", "react", "bookmark"}
  None = None
SPECIFICATION Spec
SYMMETRY Symmetry
INVARIANTS
  OncePerPost
  NothingDangles
  LookupsHold
  ImagesExist
  NoOrphans
\* The number of requests is bounded.
CHECK_DEADLOCK FALSE
