SPECIFICATION Spec
CONSTANTS
  Threads = {t1, t2, t3, t4}
  Ticks <- ShortTicks
INVARIANTS
  TypeOK
  CountsSound
PROPERTY
  AlarmSpec
CHECK_DEADLOCK TRUE
