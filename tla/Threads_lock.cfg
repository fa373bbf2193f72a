SPECIFICATION FairSpec
CONSTANTS
  Main = main
  Threads = {main, t1, t2}
  Locks = {l1}
  Semas = {s1}
  Priorities = {0, 1, 2}
  PriMin = 0
  MaxNesting = 2
  MaxSema = 1
  PriorityChange = "unlocked"
  Idle = idle
  NULL = NULL
INVARIANTS
  TypeOK
  ElemInOneList
  HighestPriorityRuns
  NoLostWakeup
  NoInversion
  NoFault
PROPERTY
  DonatesWhenItSleeps
  WaiterAcquires
CHECK_DEADLOCK FALSE
