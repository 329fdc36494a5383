CONSTANTS
  thread_num = 2
  Clients = {c1, c2, c3}
  c1 = c1
  c2 = c2
  c3 = c3
  Pieces = 1
  proxy_mode = TRUE
  Upstream = Upstream
  Nobody = Nobody
SPECIFICATION Spec
INVARIANT TypeOK
INVARIANT FreeSlot
INVARIANT PostsMatch
INVARIANT OneUserPerDescriptor
INVARIANT NoneForgotten
INVARIANT OwnAnswer
SYMMETRY ClientSymmetry
CHECK_DEADLOCK FALSE
