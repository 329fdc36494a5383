SPECIFICATION MCSpec
CONSTANTS
  c1 = c1
  c2 = c2
  bad = bad
  PNum = 2
  MaxTx = 6
  Cmds = {c1, c2}
  BadCmds = {}
  NetFaults = FALSE
  StartWait = FALSE
  CoordCrash = TRUE
  MaxKills = 0
  MaxRestarts = 1
  MaxTimeouts = 0
INVARIANTS
  NewestAdopted
