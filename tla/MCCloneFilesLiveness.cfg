SPECIFICATION FairSpec
CONSTANTS
  e1 = e1
  e2 = e2
  NoExec = NoExec
  MaxFd = 6
  MaxAppFds = 0
  Execs <- MCExecs
  CloneExecs <- MCExecs
  Slots <- MCSlots
PROPERTIES
  BootstrapResolves
  DeadChildIsCollected
\* every call may have returned
CHECK_DEADLOCK FALSE
