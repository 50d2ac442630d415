SPECIFICATION Spec
CONSTANTS
  e1 = e1
  e2 = e2
  NoExec = NoExec
  MaxFd = 7
  MaxAppFds = 1
  Execs <- MCExecs
  CloneExecs <- MCExecs
  Slots <- MCSlots
SYMMETRY Symmetry
INVARIANTS
  TypeOK
  SharingIsExclusive
  SnapshotIsCurrent
  ValidationAccepts
  OwnsItsListener
  TargetIsMediated
  NothingLeaks
PROPERTIES
  ClosesOnlyItsOwn
