SPECIFICATION MCFairSpec
CONSTANTS
  c1 = c1
  c2 = c2
  bad = bad
  PNum = 2
  MaxTx = 5
  Cmds = {c1}
  BadCmds = {}
  NetFaults = TRUE
  StartWait = FALSE
  CoordCrash = FALSE
  MaxKills = 1
  MaxRestarts = 0
  MaxTimeouts = 1
INVARIANTS
  InSync
  CLogCommitted
  TmpNumExact
  SocketOwner
PROPERTIES
  Rejoins
  ClientAnswered
