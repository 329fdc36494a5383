CONSTANTS
  thread_num = 2
  Clients = {c1, c2}
  c1 = c1
  c2 = c2
  Pieces = 2
  proxy_mode = FALSE
  Upstream = Upstream
  Nobody = Nobody
SPECIFICATION Spec
PROPERTY Served
PROPERTY WorkersQuit
CHECK_DEADLOCK FALSE
