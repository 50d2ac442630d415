SPECIFICATION Spec
CONSTANTS
  none = none
  None = none
  Names <- MCNames
  Real <- MCReal
  Files <- MCFiles
  Links <- MCLinks
  Ports <- MCPorts
  ProxyPort = 8080
  Groups <- MCGroups
  Env <- MCEnv
  DenyAllHost = "deny-all"
  Cwd <- home
  MaxPathHints = 2
  MaxPending = 2
  GroupLists <- MCGroupLists
  AllowPaths <- MCAllowPaths
  Lines <- MCLines
  MaxCalls = 3
  MaxLines <- MCMaxLines
INVARIANTS
  SetupTypeOK
  DeniedPathsStayOutOfReach
  ProxyConfigIsNoWider
  RoundTripIsNoWider
  RemediationIsEnough
  HintsAreJustified
PROPERTY
  GrantsStopAtTheError
CHECK_DEADLOCK FALSE
