SPECIFICATION Spec
CONSTANTS
  Users = {u1, u2}
  Flushers = {f}
  ReadAheads = {r}
  Buffers = {b1, b2}
  Sectors = {s1, s2, s3}
  NoSector = NoSector
  Values = {v1, v2}
  MaxCalls = 1
  NULL = NULL
SYMMETRY Symmetric
INVARIANTS
  TypeOK
  OneOwner
  OneCopy
  WaitersKeepSector
  
  BufferWakeup
CHECK_DEADLOCK FALSE
