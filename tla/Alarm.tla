-------------------------------- MODULE Alarm --------------------------------
(***************************************************************************)
(* What timer_sleep promises: a thread that sleeps for n ticks is woken by *)
(* the n-th timer interrupt after the call, and by no other.  Deadlines    *)
(* are kept relative to the present, as the ticks still to pass.           *)
(***************************************************************************)
EXTENDS Integers

CONSTANTS Threads, Ticks

VARIABLES
  left   \* ticks until each thread wakes, 0 for a thread that is awake

Init == left = [t \in Threads |-> 0]

Sleep(t, n) ==
  /\ left[t] = 0
  /\ n > 0
  /\ left' = [left EXCEPT ![t] = n]

Tick == left' = [t \in Threads |-> IF left[t] > 0 THEN left[t] - 1 ELSE 0]

Next == Tick \/ \E t \in Threads, n \in Ticks : Sleep(t, n)

Spec == Init /\ [][Next]_left /\ WF_left(Tick)
=============================================================================
