SPECIFICATION FairSpec
CONSTANTS
  root = root
  p1 = p1
  p2 = p2
  NoProc = NoProc
  Root = root
  Procs <- MCThree
  Streams <- MCStdout
  MaxOutput = 2
  PipeCapacity = 1
  MaxSignals = 1
INVARIANTS
  TypeOK
  EndsTheGroup
  OutputIsComplete
  ChildIsReaped
PROPERTIES
  FullPipesDrain
  RootIsServiced
  ReturnsAfterTheTree
\* the call may have returned
CHECK_DEADLOCK FALSE
