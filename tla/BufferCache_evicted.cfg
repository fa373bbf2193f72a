SPECIFICATION FairSpec
CONSTANTS
  Users = {u1, u2, u3}
  Flushers = {}
  ReadAheads = {}
  Buffers = {b1}
  Sectors = {s1, s2}
  NoSector = NoSector
  Values = {v1}
  MaxCalls = 2
  NULL = NULL
PROPERTY AcquireReturns
CHECK_DEADLOCK FALSE
