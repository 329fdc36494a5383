CONSTANTS
  thread_num = 1
  Clients = {c1, c2}
  c1 = c1
  c2 = c2
  Pieces = 1
  proxy_mode = FALSE
  Upstream = Upstream
  Nobody = Nobody
SPECIFICATION Spec
PROPERTY Quits
CHECK_DEADLOCK FALSE
