SPECIFICATION Spec
CONSTANTS
  a = a
  p1 = p1
  p2 = p2
  CallsOf <- MCCallsOf
  Procs = {p1, p2}
  Sectors = {0, 1, 2}
  Root = 0
  Names = {a}
  Up = Up
  Paths <- MCPaths
  NULL = NULL
INVARIANTS TypeOK  NoSectorLost NoDeadlock
PROPERTY TreeSpec
CHECK_DEADLOCK FALSE
