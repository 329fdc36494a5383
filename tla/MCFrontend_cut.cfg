SPECIFICATION FrontSpec
CHECK_DEADLOCK FALSE
CONSTANTS
  Base = 2
  f1 = f1
  f2 = f2
  Clients = {f1, f2}
  NoClient = NoClient
  Requests <- SomeRequests
  SendBuffer = 12
INVARIANT WholeCommand
