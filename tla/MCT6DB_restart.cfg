SPECIFICATION MCSpec
CONSTANTS
  c1 = c1
  c2 = c2
  bad = bad
  PNum = 2
  MaxTx = 6
  Cmds = {c1, c2}
  BadCmds = {}
  NetFaults = FALSE
  StartWait = TRUE
  CoordCrash = TRUE
  MaxKills = 1
  MaxRestarts = 1
  MaxTimeouts = 0
INVARIANTS
  NewestAdopted
  LogsAgree
