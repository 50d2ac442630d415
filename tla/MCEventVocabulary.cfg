SPECIFICATION Spec
CONSTANTS
  r1 = r1
  r2 = r2
  f = f
  none = none
  None = none
  Absent = Absent
  NoManifest = NoManifest
  NoMetadata = NoMetadata
  Roots <- MCRoots
  Names <- MCNames
  FileStates <- MCFileStates
  Gitignore <- MCGitignore
  Exclusion <- MCExclusion
  MaxNumber = 0
  MaxTaken = 0
  EventKinds <- MCEvery
  MaxEvents = 1
  missing = missing
  untyped = untyped
  Missing = missing
  Untyped = untyped
  Edits = {}
  Clocks <- MCClocks
INVARIANT
  DrainedEventsAreAccepted
CHECK_DEADLOCK FALSE
