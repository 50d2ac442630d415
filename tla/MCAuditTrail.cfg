SPECIFICATION Spec
CONSTANTS
  t1 = t1
  t2 = t2
  short = short
  long = long
  NoThread = NoThread
  None = None
  Threads <- MCThreads
  Events <- MCEvents
  Size <- MCSize
  MaxRecords = 3
  MaxReplayed = 5
  MaxFiles = 2
  MaxFailures = 1
  MaxTruncated = 1
  MaxMishaps = 3
SYMMETRY Symmetry
INVARIANTS
  KeptHandleVerifies
  VerifiedIsTheSession
  TailIsFaithful
  ProofsAreExact
CHECK_DEADLOCK FALSE
