SPECIFICATION Spec
CONSTANTS
  P1 = P1
  P2 = P2
  t1 = t1
  t2 = t2
  d1 = d1
  d2 = d2
  m2 = m2
  f1 = f1
  f2 = f2
  NULL = NULL
  Procs = {P1, P2}
  TextPages = {t1, t2}
  ZeroPages = {d1}
  DataPages = {}
  MapPages = {m2}
  Owner <- MCOwner
  Frames <- MCFrames
  Slots = {0}
  Values = {0, 1}
  Zero = 0
  Text = 2
INVARIANT HashEntryFound
CHECK_DEADLOCK FALSE
