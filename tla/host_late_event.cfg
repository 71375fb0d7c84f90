SPECIFICATION Spec
CONSTANTS
  Procs = {m, p1, p2}
  Master = m
  ExecFails = FALSE
  Killable = {}
  MaxSignals = 0
PROPERTY LeavesWithMaster
CHECK_DEADLOCK FALSE
