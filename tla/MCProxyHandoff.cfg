SPECIFICATION HandoffsFairSpec
CONSTANTS
  c1 = c1
  p1 = p1
  NoExec = NoExec
  MaxFd = 7
  MaxAppFds = 0
  Execs <- MCPair
  CloneExecs <- MCOneClone
  PidfdExecs <- MCOnePidfd
  Slots <- MCSlots
INVARIANTS
  HandoffsTypeOK
  SnapshotIsCurrent
  NoHandoffLeaks
PROPERTIES
  ImplementsPromise
  AckedOrGone
\* every call may have returned
CHECK_DEADLOCK FALSE
