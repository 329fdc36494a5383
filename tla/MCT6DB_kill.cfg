SPECIFICATION MCSpec
CONSTANTS
  c1 = c1
  c2 = c2
  bad = bad
  PNum = 2
  MaxTx = 6
  Cmds = {c1, c2, bad}
  BadCmds = {bad}
  NetFaults = FALSE
  StartWait = FALSE
  CoordCrash = FALSE
  MaxKills = 1
  MaxRestarts = 0
  MaxTimeouts = 0
INVARIANTS
  TypeOK
  LogsAgree
PROPERTIES
  OneSurvivorSuffices
  ImplementsStore
