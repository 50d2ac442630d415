SPECIFICATION HandoffsSpec
CONSTANTS
  c1 = c1
  p1 = p1
  NoExec = NoExec
  MaxFd = 7
  MaxAppFds = 0
  Execs <- MCOnePidfd
  CloneExecs <- MCNone
  PidfdExecs <- MCOnePidfd
  Slots <- MCSlots
INVARIANTS
  TimeoutIsReported
CHECK_DEADLOCK FALSE
