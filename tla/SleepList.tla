------------------------------ MODULE SleepList ------------------------------
(***************************************************************************)
(* timer_sleep and the timer interrupt: devices/timer.c and the sleep list *)
(* of threads/thread.c.  The list is kept in the order of the wakeups, and *)
(* wakeup_ticks of a thread counts from the wakeup of the thread before it *)
(* in the list; the comparison that list_insert_ordered calls to find the  *)
(* place of a thread also adjusts the counts.                              *)
(***************************************************************************)
EXTENDS Integers, Sequences, FiniteSets, SequencesExt

CONSTANTS
  Threads,   \* threads that sleep
  Ticks      \* arguments of timer_sleep, zero and negative ones included

ASSUME TicksAssumption == Ticks \subseteq Int

VARIABLES
  sleepList,   \* sleep_list
  wakeup,      \* struct thread: wakeup_ticks
  status       \* struct thread: status, as far as sleeping is concerned

vars == <<sleepList, wakeup, status>>

-----------------------------------------------------------------------------
\* Mutant: the ticks of the threads that are passed are not subtracted.
RemainingAll(n, i) == n

\* The ticks counted for the first i threads of a list, for each i.
Sums(list, count) ==
  LET sum[i \in 0..Len(list)] == IF i = 0 THEN 0 ELSE sum[i - 1] + count[list[i]]
  IN  sum

\* What is left of n ticks after the counts of the first i threads of the list,
\* which sleepers_tick_compare subtracts while the walk passes them.
Remaining(n, i) == n - Sums(sleepList, wakeup)[i]

\* Mutant: the thread is put at the end of the list.
PassedAll(n) == Len(sleepList)

\* The walk passes the threads that do not wake up later; it stops before the
\* first for which sleepers_tick_compare is true.
Passed(n) ==
  Cardinality({i \in 1..Len(sleepList) :
                 \A j \in 1..i : wakeup[sleepList[j]] <= Remaining(n, j - 1)})

Init ==
  /\ sleepList = <<>>
  /\ wakeup = [t \in Threads |-> 0]
  /\ status = [t \in Threads |-> "awake"]

\* timer_sleep and thread_sleep, with the list_insert_ordered of the latter: the
\* thread that it stops before gives up the ticks of the new thread.
Sleep(t, n) ==
  LET i == Passed(n)
      k == Remaining(n, i)
  IN  /\ status[t] = "awake"
      /\ n > 0
      /\ sleepList' = InsertAt(sleepList, i + 1, t)
      /\ wakeup' = [u \in Threads |->
           IF u = t THEN k
           ELSE IF i < Len(sleepList) /\ u = sleepList[i + 1] THEN wakeup[u] - k
           ELSE wakeup[u]]
      /\ status' = [status EXCEPT ![t] = "asleep"]

\* Mutant: `if' in place of `while', one thread is woken at a tick.
DueFirst(counted) == {i \in 1..Len(sleepList) : i = 1 /\ counted[sleepList[1]] <= 0}

\* The positions of the threads that thread_tick unblocks.
Due(counted) == {i \in 1..Len(sleepList) : \A j \in 1..i : counted[sleepList[j]] <= 0}

\* The part of timer_interrupt and thread_tick that wakes threads: count down
\* the front of the list and unblock threads until one has ticks left.
Tick ==
  LET counted == [wakeup EXCEPT ![Head(sleepList)] = @ - 1]
      due     == Due(counted)
      n       == Cardinality(due)
  IN  /\ sleepList # <<>>
      /\ wakeup' = counted
      /\ sleepList' = SubSeq(sleepList, n + 1, Len(sleepList))
      /\ status' = [t \in Threads |-> IF \E i \in due : sleepList[i] = t
                                      THEN "awake" ELSE status[t]]

Next == Tick \/ \E t \in Threads, n \in Ticks : Sleep(t, n)

\* The timer keeps interrupting.
Spec == Init /\ [][Next]_vars /\ WF_vars(Tick)

-----------------------------------------------------------------------------
TypeOK ==
  /\ sleepList \in Seq(Threads)
  /\ wakeup \in [Threads -> Nat]
  /\ status \in [Threads -> {"awake", "asleep"}]

\* The list holds every sleeping thread once, the counts never go negative, and
\* the front has at least a tick to go, so counting down the front alone is
\* enough for all of them.
CountsSound ==
  /\ ToSet(sleepList) = {t \in Threads : status[t] = "asleep"}
  /\ IsInjective(sleepList)
  /\ \A i \in DOMAIN sleepList : wakeup[sleepList[i]] >= IF i = 1 THEN 1 ELSE 0

\* Ticks until a thread wakes: its count and those of the threads before it.
Left ==
  [t \in Threads |->
     IF status[t] = "awake" THEN 0
     ELSE LET i == CHOOSE i \in DOMAIN sleepList : sleepList[i] = t
          IN  Sums(sleepList, wakeup)[i]]

AbstractAlarm == INSTANCE Alarm WITH left <- Left

\* Every thread sleeps for exactly the ticks it asked for: the list of relative
\* counts implements the alarm with its deadlines, the wakeup included.
AlarmSpec == AbstractAlarm!Spec
=============================================================================
