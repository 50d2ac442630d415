SPECIFICATION FairSpec
CONSTANTS
  root = root
  p1 = p1
  p2 = p2
  NoProc = NoProc
  Root = root
  Procs <- MCTwo
  Streams <- MCStdout
  MaxOutput = 1
  PipeCapacity = 1
  MaxSignals = 0
PROPERTIES
  DeadlineEndsTheCall
\* the call may have returned
CHECK_DEADLOCK FALSE
