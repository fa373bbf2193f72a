----------------------------- MODULE MCSleepList -----------------------------
(* Instances of SleepList for TLC.                                          *)
EXTENDS SleepList

\* Arguments of timer_sleep: negative and zero, which do not sleep, and enough
\* different ones for equal, earlier and later wakeups.
ShortTicks == {-1, 0, 1, 2, 3, 5}
=============================================================================
