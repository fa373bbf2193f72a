SPECIFICATION Spec
CONSTANTS
  Main = main
  Threads = {main, t1, t2}
  Locks = {l1, l2}
  Semas = {}
  Priorities = {0, 1, 2}
  PriMin = 0
  MaxNesting = 2
  MaxSema = 1
  PriorityChange = "always"
  Idle = idle
  NULL = NULL
SYMMETRY Symmetric
INVARIANTS
  LockOwnership
  HighestPriorityRuns
  DonationReturned
CHECK_DEADLOCK FALSE
