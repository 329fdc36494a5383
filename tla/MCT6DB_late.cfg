SPECIFICATION MCSpec
CONSTANTS
  c1 = c1
  c2 = c2
  bad = bad
  PNum = 2
  MaxTx = 6
  Cmds = {c1, c2}
  BadCmds = {}
  NetFaults = TRUE
  StartWait = TRUE
  CoordCrash = FALSE
  MaxKills = 0
  MaxRestarts = 0
  MaxTimeouts = 1
INVARIANTS
  LogsAgree
