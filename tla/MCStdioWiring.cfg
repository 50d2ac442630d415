SPECIFICATION Spec
CONSTANTS
  LastSlot = 7
INVARIANT
  StdioIsWired
CHECK_DEADLOCK FALSE
