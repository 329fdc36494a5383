SPECIFICATION Spec
CHECK_DEADLOCK FALSE
CONSTANTS
  N = 2
  Batch = 2
  LINE = 3
  SizeT = 64
  Capacity = 1
  MaxFiles = 2
  Files <- LoneLine
  Puzzles <- Letters
  NULL = NULL
  Junk = Junk
INVARIANTS
  NothingLost
