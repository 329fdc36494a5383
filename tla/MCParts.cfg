SPECIFICATION PartsSpec
CONSTANTS
  p1 = p1
  p2 = p2
  p3 = p3
  c1 = c1
  c2 = c2
  a = a
  b = b
  Producers <- MCProducers
  Consumers <- MCConsumers
  Values <- MCValues
  Capacity = 3
  BoxSide = 2
  Boards <- SmallBoards
  Grids <- SolvedBoards
  Base = 2
  f1 = f1
  f2 = f2
  Clients = {f1, f2}
  NoClient = NoClient
  Requests <- SomeRequests
  SendBuffer = 12
  BUF = 3
  Requested <- SomeRequested
  Served <- SomeServed
  Site <- SomeSite
  Dotted <- SomeDotted
INVARIANTS
  Tokens
  PopDefined
  Submatrix
  Restored
  Solves
  ResetNotExecuted
  ForwardsRequest
  AnswersWhole
  PageDelivered
PROPERTIES
  ImplementsBuffer
  SolverEnds
  ImplementsService
  EveryoneServed
  WorkerFreed
