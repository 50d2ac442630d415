SPECIFICATION Spec
CONSTANTS
  r1 = r1
  r2 = r2
  f = f
  none = none
  None = none
  Absent = Absent
  NoManifest = NoManifest
  NoMetadata = NoMetadata
  Roots <- MCRoots
  Names <- MCNames
  FileStates <- MCFileStates
  Gitignore <- MCGitignore
  Exclusion <- MCExclusion
  MaxNumber = 2
  MaxTaken = 3
  EventKinds <- MCKnown
  MaxEvents = 2
  missing = missing
  untyped = untyped
  Missing = missing
  Untyped = untyped
  Edits <- MCEdits
  Clocks <- MCClocks
INVARIANTS
  SessionTypeOK
  ResumeIsWhole
  EventsInOrderOnce
  StoredIsTheAcceptedList
  StartedIsTheDate
CHECK_DEADLOCK FALSE
