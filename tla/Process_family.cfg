SPECIFICATION FairSpec
CONSTANTS
  Root = root
  Procs = {root, p1, p2}
  ArbitraryWaits = FALSE
  NULL = NULL
INVARIANTS
  TypeOK
  
  NoLeak
  NoStrandedParent
PROPERTY
  WaitReturnsAmongEquals
CHECK_DEADLOCK FALSE
