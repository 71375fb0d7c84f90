SPECIFICATION Spec
CONSTANTS
  Procs = {m, p1, p2}
  Master = m
  ExecFails = TRUE
  Killable = {m, p1, p2}
  MaxSignals = 2
INVARIANTS TypeOK NothingEscapes NoneForgotten SomeoneToWaitFor PendingNotStarted
PROPERTIES OrderlyLeavesWithMaster EveryStopAnswered HostFollowsMaster
CHECK_DEADLOCK FALSE
