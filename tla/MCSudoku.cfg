SPECIFICATION Spec
CHECK_DEADLOCK FALSE
CONSTANTS
  N = 3
  Batch = 2
  LINE = 3
  SizeT = 64
  Capacity = 1
  MaxFiles = 2
  Files <- ReadableFiles
  Puzzles <- Letters
  NULL = NULL
  Junk = Junk
INVARIANTS
  TypeOK
  RoundRobin
  DealtAsTyped
  NoNameLost
PROPERTIES
  ImplementsSequential
  Terminates
