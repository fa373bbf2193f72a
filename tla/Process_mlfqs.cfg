SPECIFICATION FairSpec
CONSTANTS
  Root = root
  Procs = {root, p1, p2}
  ArbitraryWaits = FALSE
  NULL = NULL
PROPERTY WaitReturns
CHECK_DEADLOCK FALSE
