SPECIFICATION FairSpec
CONSTANTS
  Users = {u1, u2}
  Flushers = {f}
  ReadAheads = {}
  Buffers = {b1}
  Sectors = {s1, s2}
  NoSector = NoSector
  Values = {v1, v2}
  MaxCalls = 4
  NULL = NULL
PROPERTIES
  
  AcquireReturns
CHECK_DEADLOCK FALSE
