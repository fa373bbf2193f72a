SPECIFICATION Spec
CONSTANTS
  Main = main
  Threads = {main, t1, t2}
  Locks = {l1, l2}
  Semas = {}
  Priorities = {0, 1, 2}
  PriMin = 0
  MaxNesting = 2
  MaxSema = 1
  PriorityChange = "never"
  Idle = idle
  NULL = NULL
INVARIANT LowersOnly
CHECK_DEADLOCK FALSE
