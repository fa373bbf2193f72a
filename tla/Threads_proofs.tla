---------------------------- MODULE Threads_proofs ----------------------------
(***************************************************************************)
(* Proofs about the scheduler, semaphores and locks: the invariants of     *)
(* Threads, for any number of threads, locks and priorities.               *)
(***************************************************************************)
EXTENDS Threads, Lists_proofs

-----------------------------------------------------------------------------
(* The inductive invariant.                                                *)

\* A ready list and the status of the threads agree.
ReadyAgrees(ready, st) ==
  /\ ready \in Seq(Threads)
  /\ st \in [Threads -> Statuses]
  /\ Once(ready)
  /\ \A t \in Threads : Contains(ready, t) <=> st[t] = "ready"

\* The waiters of the semaphores and what the threads wait for agree.
WaitersAgree(wait, st, tgt) ==
  /\ wait \in [Synchs -> Seq(Threads)]
  /\ \A s \in Synchs : Once(wait[s])
  /\ \A s \in Synchs, t \in Threads :
       Contains(wait[s], t) <=> st[t] = "blocked" /\ tgt[t] = s

\* One thread runs, the one on the CPU.
OneRuns(cpu, st) == \A t \in Threads : st[t] = "running" <=> t = cpu

\* The lists of the scheduler; a thread that is blocked is inside sema_down.
Queues ==
  /\ ReadyAgrees(readyList, status)
  /\ WaitersAgree(waiters, status, target)
  /\ OneRuns(running, status)
  /\ \A t \in Threads : status[t] = "blocked" => cont[t] = "down"

InRelease(t) == cont[t] \in {"released", "dangling"}

\* LockOwnership, with what it takes to keep it: no lock is twice in a list,
\* and a thread inside lock_release is not the holder of that lock.
Ownership ==
  /\ LockOwnership
  /\ \A t \in Threads : Once(locksOwned[t])
  /\ \A t \in Threads : InRelease(t) => target[t] \in Locks /\ holder[target[t]] # t
  /\ \A t \in Threads : cont[t] = "down" => target[t] \in Synchs

\* DonationReturned, and no base priority is below PRI_MIN.
Donations ==
  /\ DonationReturned
  /\ \A t \in Threads : basePriority[t] \in Priorities

\* The threads that are awake inside sema_down of s.
AwakeIn(s, c, tgt, st) ==
  {t \in Threads : c[t] = "down" /\ tgt[t] = s /\ st[t] \in {"ready", "running"}}

IInv == TypeOK /\ Queues /\ Ownership /\ Donations /\ NoLostWakeup

-----------------------------------------------------------------------------
(* Donations as numbers.                                                   *)

\* What remains of the donations of a list of locks is an integer, PRI_MIN if
\* no lock is left.
LEMMA HighestWaitingType ==
  ASSUME NEW locks \in Seq(Locks), NEW wait \in [Synchs -> Seq(Threads)],
         NEW prio \in [Threads -> Int]
  PROVE  /\ HighestWaiting(locks, wait, prio) \in Int
         /\ locks = <<>> => HighestWaiting(locks, wait, prio) = PriMin
<1> DEFINE of == [l \in Locks |-> {prio[t] : t \in ToSet(wait[l])}]
           all == {of[l] : l \in ToSet(locks)}
           donated == UNION all
<1>1. \A l \in Locks : IsFiniteSet(of[l]) /\ of[l] \subseteq Int
  <2> SUFFICES ASSUME NEW l \in Locks
               PROVE  /\ IsFiniteSet({prio[t] : t \in ToSet(wait[l])})
                      /\ {prio[t] : t \in ToSet(wait[l])} \subseteq Int
    OBVIOUS
  <2>1. wait[l] \in Seq(Threads)
    BY DEF Synchs
  <2>2. IsFiniteSet(ToSet(wait[l])) /\ ToSet(wait[l]) \subseteq Threads
    BY <2>1, ElementsFinite
  <2> QED BY <2>2, ImageFinite
<1>2. ToSet(locks) \subseteq Locks /\ IsFiniteSet(ToSet(locks))
  BY ElementsFinite
<1>3. HighestWaiting(locks, wait, prio) = Max(donated \cup {PriMin})
  <2>1. all = {{prio[t] : t \in ToSet(wait[l])} : l \in ToSet(locks)}
    BY <1>2
  <2> HIDE DEF all
  <2> QED BY <2>1 DEF HighestWaiting
<1> HIDE DEF of
<1>4. IsFiniteSet(all) /\ \A S \in all : IsFiniteSet(S) /\ S \subseteq Int
  BY <1>1, <1>2, ImageFinite
<1>5. locks = <<>> => all = {}
  BY DEF ToSet
<1> HIDE DEF all
<1>6. IsFiniteSet(donated) /\ donated \subseteq Int
  BY <1>4, FS_UNION
<1>7. locks = <<>> => donated = {}
  BY <1>5
<1> HIDE DEF donated
<1>8. PriMin \in Int /\ IsFiniteSet({PriMin})
  BY FS_Singleton, ThreadsAssumption
<1>9. IsFiniteSet(donated \cup {PriMin})
  BY <1>6, <1>8, FS_Union
<1>10. Max(donated \cup {PriMin}) \in donated \cup {PriMin}
  BY <1>6, <1>8, <1>9, FiniteMax
<1> QED BY <1>3, <1>6, <1>7, <1>8, <1>10

-----------------------------------------------------------------------------
(* Thread switches.                                                        *)

\* What a switch makes of the status st that its caller has set: the lists
\* agree again, and a thread that was awake stays awake.
Switched(st) ==
  /\ ReadyAgrees(readyList', status')
  /\ OneRuns(running', status')
  /\ running' \in Threads \cup {Idle}
  /\ \A u \in Threads :
       \/ status'[u] = st[u]
       \/ {status'[u], st[u]} \subseteq {"ready", "running"}

\* schedule, called by a thread that has given up the status "running".
LEMMA ScheduleSwitches ==
  ASSUME NEW ready, NEW st, ReadyAgrees(ready, st),
         \A u \in Threads : st[u] # "running", Schedule(ready, st)
  PROVE  Switched(st)
<1>1. CASE ready = <<>>
  BY <1>1, ThreadsAssumption DEF Schedule, Switched, ReadyAgrees, OneRuns
<1>2. CASE ready # <<>>
  <2> DEFINE h == Head(ready)
  <2>1. /\ h \in Threads /\ Contains(ready, h)
        /\ Tail(ready) \in Seq(Threads) /\ Once(Tail(ready))
        /\ \A x : Contains(Tail(ready), x) <=> Contains(ready, x) /\ x # h
    BY <1>2, TailOnce DEF ReadyAgrees
  <2>2. running' = h /\ readyList' = Tail(ready) /\ status' = [st EXCEPT ![h] = "running"]
    BY <1>2 DEF Schedule
  <2>3. st[h] = "ready" /\ st \in [Threads -> Statuses]
    BY <2>1 DEF ReadyAgrees
  <2> HIDE DEF h
  <2>4. /\ status' \in [Threads -> Statuses]
        /\ \A u \in Threads : status'[u] = IF u = h THEN "running" ELSE st[u]
    BY <2>1, <2>2, <2>3 DEF Statuses
  <2>5. ReadyAgrees(readyList', status')
    BY <2>1, <2>2, <2>4 DEF ReadyAgrees
  <2>6. OneRuns(running', status')
    BY <2>2, <2>4 DEF OneRuns
  <2> QED BY <2>1, <2>2, <2>3, <2>4, <2>5, <2>6 DEF Switched
<1> QED BY <1>1, <1>2

\* A new element of the ready list.
LEMMA InsertAgrees ==
  ASSUME NEW ready, NEW st, NEW prio, ReadyAgrees(ready, st),
         NEW t \in Threads, st[t] # "ready"
  PROVE  ReadyAgrees(InsertOrdered(ready, t, prio), [st EXCEPT ![t] = "ready"])
<1> DEFINE r == InsertOrdered(ready, t, prio)
<1>1. /\ r \in Seq(Threads) /\ Once(r)
      /\ \A x : Contains(r, x) <=> Contains(ready, x) \/ x = t
  BY InsertOrderedOnce DEF ReadyAgrees
<1> HIDE DEF r
<1> QED BY <1>1 DEF ReadyAgrees, Statuses, r

\* thread_yield by the running thread t.
LEMMA YieldSwitches ==
  ASSUME NEW t \in Threads, NEW ready, NEW st, NEW prio, ReadyAgrees(ready, st),
         OneRuns(t, st), YieldTo(t, ready, st, prio)
  PROVE  Switched(st)
<1> DEFINE r == InsertOrdered(ready, t, prio)
           s == [st EXCEPT ![t] = "ready"]
<1>1. ReadyAgrees(r, s)
  BY InsertAgrees DEF OneRuns
<1>2. st \in [Threads -> Statuses] /\ st[t] = "running"
  BY DEF ReadyAgrees, OneRuns
<1>3. \A u \in Threads : s[u] = IF u = t THEN "ready" ELSE st[u]
  BY <1>2
<1>4. Schedule(r, s)
  BY DEF YieldTo
<1> HIDE DEF r, s
<1>5. Switched(s)
  BY <1>1, <1>2, <1>3, <1>4, ScheduleSwitches DEF OneRuns
<1> QED BY <1>2, <1>3, <1>5 DEF Switched

\* maybe_yield_to_ready_thread by the running thread t.
LEMMA MaybeYieldSwitches ==
  ASSUME NEW t \in Threads, NEW ready, NEW st, NEW prio, ReadyAgrees(ready, st),
         OneRuns(t, st), running = t, MaybeYield(t, ready, st, prio)
  PROVE  Switched(st)
<1>1. CASE Outranked(prio[t], ready, prio)
  BY <1>1, YieldSwitches DEF MaybeYield
<1>2. CASE ~Outranked(prio[t], ready, prio)
  BY <1>2 DEF MaybeYield, Switched
<1> QED BY <1>1, <1>2

\* The waiters after a switch that leaves blocked threads where they are.
LEMMA SwitchedWaiters ==
  ASSUME NEW wait, NEW st, NEW tgt, WaitersAgree(wait, st, tgt), Switched(st),
         waiters' = wait, st \in [Threads -> Statuses],
         \A u \in Threads : st[u] = "blocked" => target'[u] = tgt[u] /\ cont'[u] = "down"
  PROVE  Queues'
<1>1. \A u \in Threads : status'[u] = "blocked" <=> st[u] = "blocked"
  BY DEF Switched
<1>2. WaitersAgree(waiters', status', target')
  BY <1>1 DEF WaitersAgree
<1>3. \A u \in Threads : status'[u] = "blocked" => cont'[u] = "down"
  BY <1>1
<1> QED BY <1>2, <1>3 DEF Queues, Switched

\* The loop body of sema_down.
LEMMA BlockOnSwitches ==
  ASSUME TypeOK, Queues, NEW t \in Threads, running = t, NEW s \in Synchs,
         NEW ready, ReadyAgrees(ready, status), BlockOn(t, s, ready)
  PROVE  Queues' /\ Switched([status EXCEPT ![t] = "blocked"])
<1> DEFINE st == [status EXCEPT ![t] = "blocked"]
           wait == [waiters EXCEPT ![s] = Append(waiters[s], t)]
           tgt == [target EXCEPT ![t] = s]
<1>1. status \in [Threads -> Statuses] /\ \A u \in Threads : status[u] = "running" <=> u = t
  BY DEF Queues, OneRuns, TypeOK
<1>2. /\ st \in [Threads -> Statuses]
      /\ \A u \in Threads : st[u] = IF u = t THEN "blocked" ELSE status[u]
  BY <1>1 DEF Statuses
<1>3. /\ waiters' = wait /\ target' = tgt
      /\ cont' = [cont EXCEPT ![t] = "down"]
      /\ Schedule(ready, st)
  BY DEF BlockOn
<1>4. ReadyAgrees(ready, st)
  <2> HIDE DEF st
  <2> QED BY <1>1, <1>2 DEF ReadyAgrees
<1>5. \A u \in Threads : target'[u] = (IF u = t THEN s ELSE target[u])
                      /\ cont'[u] = (IF u = t THEN "down" ELSE cont[u])
  BY <1>3 DEF TypeOK
<1>6. Switched(st)
  <2> HIDE DEF st
  <2> QED BY <1>1, <1>2, <1>3, <1>4, ScheduleSwitches
<1>7. WaitersAgree(wait, st, tgt)
  <2>1. WaitersAgree(waiters, status, target)
    BY DEF Queues
  <2>2. /\ Append(waiters[s], t) \in Seq(Threads) /\ Once(Append(waiters[s], t))
        /\ \A x : Contains(Append(waiters[s], t), x) <=> Contains(waiters[s], x) \/ x = t
    BY <1>1, <2>1, AppendOnce DEF WaitersAgree
  <2>3. /\ wait \in [Synchs -> Seq(Threads)]
        /\ \A r \in Synchs : wait[r] = IF r = s THEN Append(waiters[s], t) ELSE waiters[r]
    BY <2>1, <2>2 DEF WaitersAgree
  <2>4. \A u \in Threads : tgt[u] = IF u = t THEN s ELSE target[u]
    BY DEF TypeOK
  <2> HIDE DEF st, wait, tgt
  <2>5. \A r \in Synchs : Once(wait[r])
    BY <2>1, <2>2, <2>3 DEF WaitersAgree
  <2>6. ASSUME NEW r \in Synchs, NEW u \in Threads
        PROVE  Contains(wait[r], u) <=> st[u] = "blocked" /\ tgt[u] = r
    <3>1. Contains(waiters[r], u) <=> status[u] = "blocked" /\ target[u] = r
      BY <2>1 DEF WaitersAgree
    <3>2. CASE r = s
      BY <3>1, <3>2, <1>1, <1>2, <2>2, <2>3, <2>4
    <3>3. CASE r # s
      BY <3>1, <3>3, <1>1, <1>2, <2>3, <2>4
    <3> QED BY <3>2, <3>3
  <2> QED BY <2>3, <2>5, <2>6 DEF WaitersAgree
<1>8. \A u \in Threads : st[u] = "blocked" => target'[u] = tgt[u] /\ cont'[u] = "down"
  BY <1>2, <1>3, <1>5 DEF Queues
<1> HIDE DEF st, wait, tgt
<1>9. Queues'
  BY <1>2, <1>3, <1>6, <1>7, <1>8, SwitchedWaiters
<1> QED BY <1>6, <1>9 DEF st

\* A waiter.
LEMMA WaitingThread ==
  ASSUME Queues, NEW s \in Synchs, NEW i \in 1..Len(waiters[s])
  PROVE  /\ waiters[s][i] \in Threads
         /\ Contains(waiters[s], waiters[s][i])
         /\ status[waiters[s][i]] = "blocked"
         /\ cont[waiters[s][i]] = "down"
         /\ target[waiters[s][i]] = s
<1>1. WaitersAgree(waiters, status, target)
  BY DEF Queues
<1>2. waiters[s] \in Seq(Threads) /\ Contains(waiters[s], waiters[s][i])
  BY <1>1 DEF WaitersAgree, Contains
<1>3. waiters[s][i] \in Threads
  BY <1>2
<1> QED BY <1>1, <1>2, <1>3 DEF WaitersAgree, Queues

\* sema_up takes a waiter out of the list.
LEMMA WakeAgrees ==
  ASSUME TypeOK, Queues, NEW s \in Synchs, NEW i \in 1..Len(waiters[s]), NEW w,
         w = waiters[s][i]
  PROVE  WaitersAgree([waiters EXCEPT ![s] = RemoveAt(@, i)],
                      [status EXCEPT ![w] = "ready"], target)
<1> DEFINE st == [status EXCEPT ![w] = "ready"]
           wait == [waiters EXCEPT ![s] = RemoveAt(@, i)]
<1>1. WaitersAgree(waiters, status, target)
  BY DEF Queues
<1>2. waiters[s] \in Seq(Threads) /\ Contains(waiters[s], w) /\ w \in Threads
  BY <1>1, WaitingThread DEF WaitersAgree
<1>3. status[w] = "blocked" /\ target[w] = s
  BY <1>2, WaitingThread
<1>5. /\ RemoveAt(waiters[s], i) \in Seq(Threads) /\ Once(RemoveAt(waiters[s], i))
      /\ \A x : Contains(RemoveAt(waiters[s], i), x) <=> Contains(waiters[s], x) /\ x # w
  BY <1>1, <1>2, RemoveAtOnce DEF WaitersAgree
<1>6. /\ wait \in [Synchs -> Seq(Threads)]
      /\ \A r \in Synchs : wait[r] = IF r = s THEN RemoveAt(waiters[s], i) ELSE waiters[r]
  BY <1>1, <1>5 DEF WaitersAgree
<1>7. \A u \in Threads : st[u] = IF u = w THEN "ready" ELSE status[u]
  BY DEF TypeOK
<1>8. WaitersAgree(wait, st, target)
  <2> HIDE DEF st, wait
  <2>1. \A r \in Synchs : Once(wait[r])
    BY <1>1, <1>5, <1>6 DEF WaitersAgree
  <2>2. ASSUME NEW r \in Synchs, NEW u \in Threads
        PROVE  Contains(wait[r], u) <=> st[u] = "blocked" /\ target[u] = r
    <3>1. Contains(waiters[r], u) <=> status[u] = "blocked" /\ target[u] = r
      BY <1>1 DEF WaitersAgree
    <3>2. CASE r = s
      BY <3>1, <3>2, <1>3, <1>5, <1>6, <1>7
    <3>3. CASE r # s
      BY <3>1, <3>3, <1>3, <1>6, <1>7
    <3> QED BY <3>2, <3>3
  <2> QED BY <1>6, <2>1, <2>2 DEF WaitersAgree
<1> QED BY <1>8

-----------------------------------------------------------------------------
(* The lists after each action, and how it switches.                       *)

\* A switch in which no thread queues up and none is wakened.
LEMMA SwitchOnly ==
  ASSUME TypeOK, Queues, NEW t \in Threads, running = t, NEW st, Switched(st),
         st \in [Threads -> Statuses], UNCHANGED waiters,
         \A u \in Threads : st[u] = "blocked" <=> status[u] = "blocked",
         \A u \in Threads : u # t /\ cont[u] = "down" => cont'[u] = "down" /\ target'[u] = target[u]
  PROVE  Queues'
<1>1. WaitersAgree(waiters, st, target)
  BY DEF Queues, WaitersAgree
<1>2. \A u \in Threads : st[u] = "blocked" => target'[u] = target[u] /\ cont'[u] = "down"
  BY DEF Queues, OneRuns
<1> QED BY <1>1, <1>2, SwitchedWaiters

\* The running thread goes on.
LEMMA NoSwitch ==
  ASSUME TypeOK, Queues, NEW t \in Threads, running = t,
         UNCHANGED <<schedVars, waiters>>,
         \A u \in Threads : u # t /\ cont[u] = "down" => cont'[u] = "down" /\ target'[u] = target[u]
  PROVE  Queues' /\ Switched(status)
<1>1. Switched(status)
  BY DEF Switched, Queues, schedVars, TypeOK
<1> QED BY <1>1, SwitchOnly DEF TypeOK

\* What the invariant says of the thread that runs.
LEMMA RunningThread ==
  ASSUME Queues, NEW t \in Threads, running = t
  PROVE  /\ OneRuns(t, status)
         /\ status[t] = "running"
         /\ \A u \in Threads : u # t => status[u] # "running"
BY DEF Queues, OneRuns

LEMMA CreateQueues ==
  ASSUME TypeOK, Queues, NEW t \in Threads, NEW c \in Threads, NEW p \in Priorities, Create(t, c, p)
  PROVE  Queues' /\ Switched([status EXCEPT ![c] = "ready"])
<1> DEFINE st == [status EXCEPT ![c] = "ready"]
           prio == [priority EXCEPT ![c] = p]
<1>1. running = t /\ status[c] = "new" /\ UNCHANGED <<cont, target, waiters>>
  BY DEF Create, Calls, semaVars
<1>2. MaybeYield(t, InsertOrdered(readyList, c, prio), st, prio)
  BY DEF Create
<1>3. ReadyAgrees(InsertOrdered(readyList, c, prio), st)
  BY <1>1, InsertAgrees DEF Queues
<1>4. /\ st \in [Threads -> Statuses]
      /\ \A u \in Threads : st[u] = IF u = c THEN "ready" ELSE status[u]
  BY DEF TypeOK, Statuses
<1>5. OneRuns(t, st)
  BY <1>1, <1>4, RunningThread DEF OneRuns
<1> HIDE DEF st
<1>6. Switched(st)
  BY <1>1, <1>2, <1>3, <1>5, MaybeYieldSwitches
<1>7. Queues'
  BY <1>1, <1>4, <1>6, SwitchOnly
<1> QED BY <1>6, <1>7 DEF st

LEMMA ExitQueues ==
  ASSUME TypeOK, Queues, NEW t \in Threads, Exit(t)
  PROVE  Queues' /\ Switched([status EXCEPT ![t] = "dying"])
<1> DEFINE st == [status EXCEPT ![t] = "dying"]
<1>1. running = t /\ UNCHANGED <<cont, target, waiters>> /\ Schedule(readyList, st)
  BY DEF Exit, Calls, semaVars
<1>2. /\ st \in [Threads -> Statuses]
      /\ \A u \in Threads : st[u] = IF u = t THEN "dying" ELSE status[u]
  BY DEF TypeOK, Statuses
<1> HIDE DEF st
<1>3. ReadyAgrees(readyList, st) /\ \A u \in Threads : st[u] # "running"
  BY <1>1, <1>2, RunningThread DEF Queues, ReadyAgrees
<1>4. Switched(st)
  BY <1>1, <1>3, ScheduleSwitches
<1>5. Queues'
  BY <1>1, <1>2, <1>4, SwitchOnly, RunningThread
<1> QED BY <1>4, <1>5 DEF st

LEMMA YieldQueues ==
  ASSUME TypeOK, Queues, NEW t \in Threads, Yield(t)
  PROVE  Queues' /\ Switched(status)
<1>1. running = t /\ UNCHANGED <<cont, target, waiters>> /\ YieldTo(t, readyList, status, priority)
  BY DEF Yield, Calls, semaVars
<1>2. Switched(status)
  BY <1>1, YieldSwitches, RunningThread DEF Queues
<1> QED BY <1>1, <1>2, SwitchOnly DEF TypeOK

LEMMA SetPriorityQueues ==
  ASSUME TypeOK, Queues, NEW t \in Threads, NEW p \in Priorities, SetPriority(t, p)
  PROVE  Queues' /\ Switched(status)
<1> DEFINE prio == [priority EXCEPT ![t] = PrioritySet(t, p)]
<1>1. running = t /\ UNCHANGED <<cont, target, waiters>> /\ MaybeYield(t, readyList, status, prio)
  BY DEF SetPriority, Calls, semaVars
<1> HIDE DEF prio
<1>2. Switched(status)
  BY <1>1, MaybeYieldSwitches, RunningThread DEF Queues
<1> QED BY <1>1, <1>2, SwitchOnly DEF TypeOK

\* thread_lock_acquired leaves the threads inside sema_down alone.
LEMMA AcquiredElsewhere ==
  ASSUME TypeOK, NEW t \in Threads, NEW l \in Locks, LockAcquired(t, l), NEW u \in Threads, u # t
  PROVE  /\ target'[u] = target[u]
         /\ cont'[u] = IF cont[u] = "released" /\ target[u] = l THEN "dangling" ELSE cont[u]
BY DEF LockAcquired, TypeOK

LEMMA AcquireFreeQueues ==
  ASSUME TypeOK, Queues, NEW t \in Threads, NEW l \in Locks, AcquireFree(t, l)
  PROVE  Queues' /\ Switched(status)
<1>1. running = t /\ UNCHANGED <<schedVars, waiters>> /\ LockAcquired(t, l)
  BY DEF AcquireFree, Calls, schedVars
<1>2. \A u \in Threads : u # t /\ cont[u] = "down" => cont'[u] = "down" /\ target'[u] = target[u]
  BY <1>1, AcquiredElsewhere
<1> QED BY <1>1, <1>2, NoSwitch

LEMMA AcquireTakenQueues ==
  ASSUME TypeOK, Queues, NEW t \in Threads, NEW l \in Locks, AcquireTaken(t, l)
  PROVE  Queues' /\ Switched([status EXCEPT ![t] = "blocked"])
<1> DEFINE raised == Donees(l, priority[t])
           prio   == [d \in Threads |-> IF d \in raised THEN priority[t] ELSE priority[d]]
           moved  == {d \in raised : status[d] = "ready"}
           first  == CHOOSE d \in moved : TRUE
           ready  == IF moved = {} THEN readyList ELSE Reshuffle(readyList, first, prio)
<1>1. running = t /\ BlockOn(t, l, ready)
  BY DEF AcquireTaken, Calls
<1>2. raised \subseteq Threads
  BY DEF Donees, DonationChain, TypeOK
<1>3. moved # {} => first \in Threads /\ status[first] = "ready"
  BY <1>2
<1> HIDE DEF moved, first, prio
<1>4. ReadyAgrees(ready, status)
  <2>1. ReadyAgrees(readyList, status)
    BY DEF Queues
  <2>2. CASE moved = {}
    BY <2>1, <2>2
  <2>3. CASE moved # {}
    <3> DEFINE rest == Without(readyList, first)
               r == InsertOrdered(rest, first, prio)
    <3>1. first \in Threads /\ Contains(readyList, first)
      BY <1>3, <2>1, <2>3 DEF ReadyAgrees
    <3>2. /\ rest \in Seq(Threads) /\ Once(rest)
          /\ \A x : Contains(rest, x) <=> Contains(readyList, x) /\ x # first
      BY <2>1, <3>1, WithoutOnce DEF ReadyAgrees
    <3> HIDE DEF rest
    <3>3. /\ r \in Seq(Threads) /\ Once(r)
          /\ \A x : Contains(r, x) <=> Contains(rest, x) \/ x = first
      BY <3>1, <3>2, InsertOrderedOnce
    <3> HIDE DEF r
    <3>4. ready = r
      BY <2>3 DEF Reshuffle, rest, r
    <3> HIDE DEF ready
    <3> QED BY <2>1, <3>1, <3>2, <3>3, <3>4 DEF ReadyAgrees
  <2> QED BY <2>2, <2>3
<1> HIDE DEF ready
<1>5. l \in Synchs
  BY DEF Synchs
<1> QED BY <1>1, <1>4, <1>5, BlockOnSwitches

LEMMA DownQueues ==
  ASSUME TypeOK, Queues, NEW t \in Threads, NEW s \in Semas, Down(t, s)
  PROVE  /\ Queues'
         /\ value[s] > 0 => Switched(status)
         /\ ~(value[s] > 0) => Switched([status EXCEPT ![t] = "blocked"])
<1>1. running = t /\ s \in Synchs
  BY DEF Down, Calls, Synchs
<1>2. CASE value[s] > 0
  <2>1. UNCHANGED <<cont, target, schedVars, waiters>>
    BY <1>2 DEF Down
  <2> QED BY <1>1, <1>2, <2>1, NoSwitch
<1>3. CASE ~(value[s] > 0)
  <2>1. BlockOn(t, s, readyList)
    BY <1>3 DEF Down
  <2> QED BY <1>1, <1>3, <2>1, BlockOnSwitches DEF Queues
<1> QED BY <1>2, <1>3

LEMMA ResumeDownQueues ==
  ASSUME TypeOK, Queues, Ownership, NEW t \in Threads, ResumeDown(t)
  PROVE  /\ Queues'
         /\ value[target[t]] > 0 => Switched(status)
         /\ value[target[t]] = 0 => Switched([status EXCEPT ![t] = "blocked"])
<1> DEFINE s == target[t]
<1>1. running = t /\ s \in Synchs /\ value[s] \in Nat
  BY DEF ResumeDown, Ownership, TypeOK
<1>2. CASE value[s] = 0
  <2>1. BlockOn(t, s, readyList)
    BY <1>2 DEF ResumeDown
  <2> HIDE DEF s
  <2>2. Queues' /\ Switched([status EXCEPT ![t] = "blocked"])
    BY <1>1, <2>1, BlockOnSwitches DEF Queues
  <2> QED BY <1>2, <2>2 DEF s
<1>3. CASE value[s] > 0
  <2>1. UNCHANGED <<schedVars, waiters>>
    BY <1>3 DEF ResumeDown
  <2>2. \A u \in Threads : u # t /\ cont[u] = "down" => cont'[u] = "down" /\ target'[u] = target[u]
    <3>1. CASE s \in Locks
      <4>1. LockAcquired(t, s)
        BY <1>3, <3>1 DEF ResumeDown
      <4> QED BY <3>1, <4>1, AcquiredElsewhere
    <3>2. CASE s \notin Locks
      BY <1>3, <3>2 DEF ResumeDown, TypeOK
    <3> QED BY <3>1, <3>2
  <2>3. Queues' /\ Switched(status)
    BY <1>1, <2>1, <2>2, NoSwitch
  <2> QED BY <1>3, <2>3
<1> QED BY <1>1, <1>2, <1>3

\* What sema_up does to the lists: nothing, or it takes a waiter out.
NobodyWoken(s) == waiters[s] = <<>> /\ UNCHANGED waiters /\ Switched(status)
Woken(s) ==
  \E i \in 1..Len(waiters[s]) :
    /\ waiters' = [waiters EXCEPT ![s] = RemoveAt(@, i)]
    /\ Switched([status EXCEPT ![waiters[s][i]] = "ready"])

\* A wakeup, whatever the switch after it.
LEMMA WokenQueues ==
  ASSUME TypeOK, Queues, NEW s \in Synchs, NEW i \in 1..Len(waiters[s]), NEW w,
         w = waiters[s][i], waiters' = [waiters EXCEPT ![s] = RemoveAt(@, i)],
         Switched([status EXCEPT ![w] = "ready"]), NEW t, running = t,
         \A u \in Threads : u # t => cont'[u] = cont[u] /\ target'[u] = target[u]
  PROVE  Queues' /\ Woken(s)
<1> DEFINE st == [status EXCEPT ![w] = "ready"]
           wait == [waiters EXCEPT ![s] = RemoveAt(@, i)]
<1>1. w \in Threads /\ WaitersAgree(wait, st, target)
  BY WakeAgrees, WaitingThread
<1>2. /\ st \in [Threads -> Statuses]
      /\ \A u \in Threads : st[u] = IF u = w THEN "ready" ELSE status[u]
  BY DEF TypeOK, Statuses
<1>3. \A u \in Threads : st[u] = "blocked" => target'[u] = target[u] /\ cont'[u] = "down"
  BY <1>2 DEF Queues, OneRuns
<1>4. Woken(s)
  BY DEF Woken
<1>5. Switched(st) /\ waiters' = wait
  OBVIOUS
<1> HIDE DEF st, wait
<1>6. Queues'
  BY <1>1, <1>2, <1>3, <1>5, SwitchedWaiters
<1> QED BY <1>4, <1>6

LEMMA UpQueues ==
  ASSUME TypeOK, Queues, NEW t \in Threads, NEW s \in Semas, Up(t, s)
  PROVE  Queues' /\ (NobodyWoken(s) \/ Woken(s))
<1>1. running = t /\ s \in Synchs /\ UNCHANGED <<cont, target>>
  BY DEF Up, Calls, Synchs
<1>2. CASE waiters[s] = <<>>
  <2>1. UNCHANGED <<schedVars, waiters>>
    BY <1>2 DEF Up, NobodyWaits
  <2> QED BY <1>1, <1>2, <2>1, NoSwitch DEF NobodyWoken
<1>3. CASE waiters[s] # <<>>
  <2>1. PICK i \in Highest(waiters[s], priority) :
          /\ waiters' = [waiters EXCEPT ![s] = RemoveAt(@, i)]
          /\ MaybeYield(t, InsertOrdered(readyList, waiters[s][i], priority),
                        [status EXCEPT ![waiters[s][i]] = "ready"], priority)
    BY <1>3 DEF Up, NobodyWaits
  <2> DEFINE w == waiters[s][i]
             st == [status EXCEPT ![w] = "ready"]
  <2>2. i \in 1..Len(waiters[s])
    BY DEF Highest
  <2>3. /\ w \in Threads /\ status[w] = "blocked"
        /\ ReadyAgrees(InsertOrdered(readyList, w, priority), st)
    <3>1. w \in Threads /\ status[w] = "blocked"
      BY <1>1, <2>2, WaitingThread
    <3> HIDE DEF w
    <3> QED BY <3>1, InsertAgrees DEF Queues
  <2>4. OneRuns(t, st)
    BY <1>1, <2>3, RunningThread DEF OneRuns, TypeOK
  <2>5. Switched(st)
    <3> HIDE DEF w, st
    <3>1. MaybeYield(t, InsertOrdered(readyList, w, priority), st, priority)
      BY <2>1 DEF w, st
    <3> QED BY <1>1, <2>3, <2>4, <3>1, MaybeYieldSwitches
  <2> QED BY <1>1, <2>1, <2>2, <2>5, WokenQueues
<1> QED BY <1>2, <1>3

LEMMA InterruptUpQueues ==
  ASSUME TypeOK, Queues, NEW s \in Semas, InterruptUp(s)
  PROVE  Queues' /\ (NobodyWoken(s) \/ Woken(s))
<1>1. s \in Synchs /\ UNCHANGED <<cont, target>>
  BY DEF InterruptUp, Synchs
<1>2. CASE waiters[s] = <<>>
  <2>1. UNCHANGED <<status, running, readyList, waiters, cont, target>>
    BY <1>2 DEF InterruptUp, NobodyWaits, schedVars
  <2>2. Switched(status)
    BY <2>1 DEF Switched, Queues, TypeOK
  <2>3. Queues'
    BY <2>1, <2>2, SwitchedWaiters DEF Queues, TypeOK
  <2> QED BY <1>2, <2>1, <2>2, <2>3 DEF NobodyWoken
<1>3. CASE waiters[s] # <<>>
  <2> DEFINE prio == [t \in Threads \cup {Idle} |-> IF t = Idle THEN PriMin ELSE priority[t]]
             after(ready, st) ==
               IF running # Idle
               THEN MaybeYield(running, ready, st, priority)
               ELSE IF Outranked(PriMin, ready, prio)
               THEN Schedule(ready, st)
               ELSE readyList' = ready /\ status' = st /\ UNCHANGED running
  <2>1. PICK i \in Highest(waiters[s], priority) :
          /\ waiters' = [waiters EXCEPT ![s] = RemoveAt(@, i)]
          /\ after(InsertOrdered(readyList, waiters[s][i], priority),
                   [status EXCEPT ![waiters[s][i]] = "ready"])
    BY <1>3 DEF InterruptUp, NobodyWaits
  <2> DEFINE w == waiters[s][i]
             wst == [status EXCEPT ![w] = "ready"]
             wready == InsertOrdered(readyList, w, priority)
  <2>2. i \in 1..Len(waiters[s])
    BY DEF Highest
  <2>3. w \in Threads /\ status[w] = "blocked" /\ ReadyAgrees(wready, wst)
    <3>1. w \in Threads /\ status[w] = "blocked"
      BY <1>1, <2>2, WaitingThread
    <3> HIDE DEF w
    <3> QED BY <3>1, InsertAgrees DEF Queues
  <2>4. OneRuns(running, wst)
    BY <2>3 DEF Queues, OneRuns, TypeOK
  <2>5. after(wready, wst)
    BY <2>1
  <2> HIDE DEF w, wst, wready, prio
  <2>6. Switched(wst)
    <3>1. CASE running # Idle
      <4>1. running \in Threads
        BY <3>1 DEF TypeOK
      <4> QED BY <2>3, <2>4, <2>5, <3>1, <4>1, MaybeYieldSwitches
    <3>2. CASE running = Idle /\ Outranked(PriMin, wready, prio)
      <4>1. \A u \in Threads : wst[u] # "running"
        BY <2>4, <3>2, ThreadsAssumption DEF OneRuns
      <4> QED BY <2>3, <2>5, <3>2, <4>1, ScheduleSwitches
    <3>3. CASE running = Idle /\ ~Outranked(PriMin, wready, prio)
      BY <2>3, <2>4, <2>5, <3>3 DEF Switched
    <3> QED BY <3>1, <3>2, <3>3
  <2> QED BY <1>1, <2>1, <2>2, <2>6, WokenQueues DEF w, wst
<1> QED BY <1>2, <1>3

\* thread_lock_released by the running thread.
LEMMA LockReleasedSwitches ==
  ASSUME TypeOK, NEW t \in Threads, running = t, NEW l, NEW ready, NEW st, NEW wait,
         ReadyAgrees(ready, st), OneRuns(t, st), LockReleased(t, l, ready, st, wait)
  PROVE  /\ Switched(st)
         /\ \A u \in Threads : u # t => cont'[u] = cont[u] /\ target'[u] = target[u]
<1>1. \A u \in Threads : u # t => cont'[u] = cont[u] /\ target'[u] = target[u]
  BY DEF LockReleased, TypeOK
<1> DEFINE highest == HighestWaiting(OwnedWithout(t, l), wait, priority)
           prio == [priority EXCEPT ![t] = Max({basePriority[t], highest})]
<1>2. CASE highest > priority[t]
  <2>1. readyList' = ready /\ status' = st /\ running' = t
    BY <1>2 DEF LockReleased
  <2> QED BY <1>1, <2>1 DEF Switched
<1>3. CASE ~(highest > priority[t])
  <2>1. MaybeYield(t, ready, st, prio)
    BY <1>3 DEF LockReleased
  <2> HIDE DEF prio
  <2> QED BY <1>1, <2>1, MaybeYieldSwitches
<1> QED BY <1>2, <1>3

LEMMA ReleaseQueues ==
  ASSUME TypeOK, Queues, NEW t \in Threads, NEW l \in Locks, Release(t, l)
  PROVE  Queues' /\ (NobodyWoken(l) \/ Woken(l))
<1>1. running = t /\ l \in Synchs
  BY DEF Release, Calls, Synchs
<1>2. CASE waiters[l] = <<>>
  <2>1. LockReleased(t, l, readyList, status, waiters) /\ UNCHANGED waiters
    BY <1>2 DEF Release, NobodyWaits
  <2>2. /\ Switched(status)
        /\ \A u \in Threads : u # t => cont'[u] = cont[u] /\ target'[u] = target[u]
    BY <1>1, <2>1, RunningThread, LockReleasedSwitches DEF Queues
  <2>3. Queues'
    BY <1>1, <2>1, <2>2, SwitchOnly DEF TypeOK
  <2> QED BY <1>2, <2>1, <2>2, <2>3 DEF NobodyWoken
<1>3. CASE waiters[l] # <<>>
  <2>1. PICK i \in Highest(waiters[l], priority) :
          LET w     == waiters[l][i]
              wait  == [waiters EXCEPT ![l] = RemoveAt(@, i)]
              ready == InsertOrdered(readyList, w, priority)
              st    == [status EXCEPT ![w] = "ready"]
          IN  /\ waiters' = wait
              /\ IF Outranked(priority[t], ready, priority)
                 THEN /\ YieldTo(t, ready, st, priority)
                      /\ cont' = [cont EXCEPT ![t] = "released"]
                      /\ target' = [target EXCEPT ![t] = l]
                      /\ UNCHANGED <<priority, locksOwned, fault>>
                 ELSE LockReleased(t, l, ready, st, wait)
    BY <1>3 DEF Release, NobodyWaits
  <2> DEFINE w     == waiters[l][i]
             wait  == [waiters EXCEPT ![l] = RemoveAt(@, i)]
             ready == InsertOrdered(readyList, w, priority)
             st    == [status EXCEPT ![w] = "ready"]
  <2>2. i \in 1..Len(waiters[l])
    BY DEF Highest
  <2>3. w \in Threads /\ status[w] = "blocked" /\ ReadyAgrees(ready, st)
    <3>1. w \in Threads /\ status[w] = "blocked"
      BY <1>1, <2>2, WaitingThread
    <3> HIDE DEF w
    <3> QED BY <3>1, InsertAgrees DEF Queues
  <2>4. OneRuns(t, st)
    BY <1>1, <2>3, RunningThread DEF OneRuns, TypeOK
  <2>5. CASE Outranked(priority[t], ready, priority)
    <3>1. /\ YieldTo(t, ready, st, priority)
          /\ cont' = [cont EXCEPT ![t] = "released"]
          /\ target' = [target EXCEPT ![t] = l]
      BY <2>1, <2>5
    <3>2. \A u \in Threads : u # t => cont'[u] = cont[u] /\ target'[u] = target[u]
      BY <3>1 DEF TypeOK
    <3> HIDE DEF w, ready, st
    <3>3. Switched(st)
      BY <2>3, <2>4, <3>1, YieldSwitches
    <3> QED BY <1>1, <2>1, <2>2, <3>2, <3>3, WokenQueues DEF w, st
  <2>6. CASE ~Outranked(priority[t], ready, priority)
    <3>1. LockReleased(t, l, ready, st, wait)
      BY <2>1, <2>6
    <3> HIDE DEF w, ready, st, wait
    <3>2. /\ Switched(st)
          /\ \A u \in Threads : u # t => cont'[u] = cont[u] /\ target'[u] = target[u]
      BY <1>1, <2>3, <2>4, <3>1, LockReleasedSwitches
    <3> QED BY <1>1, <2>1, <2>2, <3>2, WokenQueues DEF w, st
  <2> QED BY <2>5, <2>6
<1> QED BY <1>2, <1>3

LEMMA ResumeReleasedQueues ==
  ASSUME TypeOK, Queues, NEW t \in Threads, ResumeReleased(t)
  PROVE  Queues' /\ Switched(status)
<1>1. running = t /\ UNCHANGED waiters
  BY DEF ResumeReleased, semaVars
<1>2. CASE cont[t] = "dangling"
  <2>1. UNCHANGED <<threadVars, running, readyList>>
    BY <1>2 DEF ResumeReleased
  <2> QED BY <1>1, <2>1, NoSwitch DEF threadVars, schedVars
<1>3. CASE cont[t] # "dangling"
  <2>1. LockReleased(t, target[t], readyList, status, waiters)
    BY <1>3 DEF ResumeReleased
  <2>2. /\ Switched(status)
        /\ \A u \in Threads : u # t => cont'[u] = cont[u] /\ target'[u] = target[u]
    BY <1>1, <2>1, RunningThread, LockReleasedSwitches DEF Queues
  <2> QED BY <1>1, <2>2, SwitchOnly DEF TypeOK
<1> QED BY <1>2, <1>3

LEMMA IdleLoopQueues ==
  ASSUME TypeOK, Queues, IdleLoop
  PROVE  Queues' /\ Switched(status)
<1>1. running = Idle /\ Schedule(readyList, status) /\ UNCHANGED <<cont, target, waiters>>
  BY DEF IdleLoop, semaVars
<1>2. \A u \in Threads : status[u] # "running"
  BY <1>1, ThreadsAssumption DEF Queues, OneRuns
<1>3. Switched(status)
  BY <1>1, <1>2, ScheduleSwitches DEF Queues
<1>4. Queues'
  BY <1>1, <1>3, SwitchedWaiters DEF Queues, TypeOK
<1> QED BY <1>3, <1>4

-----------------------------------------------------------------------------
(* Who owns a lock.                                                        *)

\* The part of the state that Ownership is about.
OwnershipTypes ==
  /\ locksOwned \in [Threads -> Seq(Locks)]
  /\ cont \in [Threads -> {"user", "down", "released", "dangling"}]
  /\ target \in [Threads -> Synchs \cup {NULL}]
  /\ value \in [Synchs -> Nat]
  /\ holder \in [Locks -> Threads \cup {NULL}]

\* Threads that are not inside lock_release go on in user code or block.
LEMMA OwnershipKept ==
  ASSUME TypeOK, Ownership, NEW t \in Threads, ~InRelease(t),
         UNCHANGED <<locksOwned, holder>>,
         value' \in [Synchs -> Nat], \A l \in Locks : value'[l] = value[l],
         \/ UNCHANGED <<cont, target>>
         \/ cont' = [cont EXCEPT ![t] = "user"] /\ target' = [target EXCEPT ![t] = NULL]
         \/ \E s \in Synchs : /\ cont' = [cont EXCEPT ![t] = "down"]
                              /\ target' = [target EXCEPT ![t] = s]
  PROVE  OwnershipTypes' /\ Ownership'
<1>1. OwnershipTypes'
  BY ZenonT(60) DEF OwnershipTypes, TypeOK
<1>2. \A u \in Threads : InRelease(u)' <=> InRelease(u)
  BY DEF InRelease, TypeOK
<1>3. \A u \in Threads : InRelease(u) => target'[u] = target[u]
  BY DEF InRelease, TypeOK
<1>4. \A u \in Threads : cont'[u] = "down" => target'[u] \in Synchs
  BY DEF Ownership, TypeOK
<1>5. LockOwnership'
  BY <1>2, <1>3 DEF Ownership, LockOwnership, InRelease
<1> QED BY <1>1, <1>2, <1>3, <1>4, <1>5 DEF Ownership

\* thread_lock_acquired after the semaphore of the lock went down.
LEMMA LockAcquiredOwnership ==
  ASSUME TypeOK, Ownership, NEW t \in Threads, NEW l \in Locks, ~InRelease(t),
         value[l] > 0, value' = [value EXCEPT ![l] = @ - 1], LockAcquired(t, l)
  PROVE  /\ OwnershipTypes' /\ Ownership'
         /\ waitingLock' \in [Threads -> Locks \cup {NULL}]
         /\ locksOwned'[t] # <<>>
         /\ \A u \in Threads : u # t => locksOwned'[u] = locksOwned[u]
<1> DEFINE own == <<l>> \o locksOwned[t]
<1>1. l \in Synchs /\ holder[l] = NULL /\ value[l] = 1 /\ t # NULL
  BY ThreadsAssumption DEF Synchs, Ownership, LockOwnership
<1>2. ~Contains(locksOwned[t], l)
  BY <1>1 DEF Ownership, LockOwnership, InRelease
<1>3. /\ own \in Seq(Locks) /\ Once(own)
      /\ \A x : Contains(own, x) <=> Contains(locksOwned[t], x) \/ x = l
  BY <1>2, PushFrontOnce DEF Ownership, TypeOK
<1>4. own # <<>>
  BY DEF TypeOK
<1>5. locksOwned' = [locksOwned EXCEPT ![t] = own]
  BY DEF LockAcquired
<1> HIDE DEF own
<1>6. /\ locksOwned' \in [Threads -> Seq(Locks)]
      /\ \A u \in Threads : locksOwned'[u] = IF u = t THEN own ELSE locksOwned[u]
  BY <1>3, <1>5 DEF TypeOK
<1>7. /\ holder' \in [Locks -> Threads \cup {NULL}]
      /\ \A k \in Locks : holder'[k] = IF k = l THEN t ELSE holder[k]
  BY DEF LockAcquired, TypeOK
<1>8. /\ value' \in [Synchs -> Nat]
      /\ \A k \in Locks : value'[k] = IF k = l THEN 0 ELSE value[k]
  BY <1>1 DEF TypeOK, Synchs
<1>9. /\ target' \in [Threads -> Synchs \cup {NULL}]
      /\ \A u \in Threads : target'[u] = IF u = t THEN NULL ELSE target[u]
  BY DEF LockAcquired, TypeOK
<1>10. /\ cont' \in [Threads -> {"user", "down", "released", "dangling"}]
       /\ \A u \in Threads : cont'[u] =
            IF u = t THEN "user"
            ELSE IF cont[u] = "released" /\ target[u] = l THEN "dangling" ELSE cont[u]
  BY DEF LockAcquired, TypeOK
<1>11. \A u \in Threads : InRelease(u)' <=> InRelease(u)
  BY <1>10 DEF InRelease
<1>12. LockOwnership'
  <2>1. ASSUME NEW k \in Locks PROVE value'[k] = IF holder'[k] = NULL THEN 1 ELSE 0
    BY <1>1, <1>7, <1>8 DEF Ownership, LockOwnership
  <2>2. ASSUME NEW k \in Locks, NEW u \in Threads
        PROVE  Contains(locksOwned'[u], k) <=> holder'[k] = u \/ (InRelease(u)' /\ target'[u] = k)
    <3>1. Contains(locksOwned[u], k) <=> holder[k] = u \/ (InRelease(u) /\ target[u] = k)
      BY DEF Ownership, LockOwnership, InRelease
    <3>2. u # NULL
      BY ThreadsAssumption
    <3>3. CASE u = t
      BY <3>1, <3>2, <3>3, <1>1, <1>3, <1>6, <1>7, <1>11
    <3>4. CASE u # t
      BY <3>1, <3>2, <3>4, <1>1, <1>6, <1>7, <1>9, <1>11
    <3> QED BY <3>3, <3>4
  <2> QED BY <2>1, <2>2 DEF LockOwnership, InRelease
<1>13. \A u \in Threads : Once(locksOwned'[u])
  BY <1>3, <1>6 DEF Ownership
<1>14. \A u \in Threads : InRelease(u)' => target'[u] \in Locks /\ holder'[target'[u]] # u
  BY <1>7, <1>9, <1>11 DEF Ownership
<1>15. \A u \in Threads : cont'[u] = "down" => target'[u] \in Synchs
  BY <1>9, <1>10 DEF Ownership
<1>16. waitingLock' \in [Threads -> Locks \cup {NULL}]
  BY DEF LockAcquired, TypeOK
<1>17. OwnershipTypes'
  BY <1>6, <1>7, <1>8, <1>9, <1>10 DEF OwnershipTypes
<1> QED BY <1>4, <1>6, <1>12, <1>13, <1>14, <1>15, <1>16, <1>17 DEF Ownership

\* thread_lock_released takes the lock out of the list and leaves lock_release.
LEMMA LockReleasedOwnership ==
  ASSUME TypeOK, Ownership, NEW t \in Threads, NEW l \in Locks,
         Contains(locksOwned[t], l), cont[t] # "down", InRelease(t) => target[t] = l,
         NEW ready, NEW st, NEW wait, LockReleased(t, l, ready, st, wait),
         \/ UNCHANGED <<holder, value>> /\ holder[l] # t
         \/ /\ holder[l] = t
            /\ holder' = [holder EXCEPT ![l] = NULL]
            /\ value' = [value EXCEPT ![l] = @ + 1]
  PROVE  OwnershipTypes' /\ Ownership'
<1> DEFINE left == OwnedWithout(t, l)
<1>1. /\ left \in Seq(Locks) /\ Once(left)
      /\ \A x : Contains(left, x) <=> Contains(locksOwned[t], x) /\ x # l
  BY WithoutOnce DEF OwnedWithout, Ownership, TypeOK
<1>2. locksOwned' = [locksOwned EXCEPT ![t] = left]
  BY DEF LockReleased
<1> HIDE DEF left
<1>3. /\ locksOwned' \in [Threads -> Seq(Locks)]
      /\ \A u \in Threads : locksOwned'[u] = IF u = t THEN left ELSE locksOwned[u]
  BY <1>1, <1>2 DEF TypeOK
<1>4. l \in Synchs /\ t # NULL
  BY ThreadsAssumption DEF Synchs
<1>5. /\ holder' \in [Locks -> Threads \cup {NULL}]
      /\ holder'[l] # t
      /\ \A k \in Locks : k # l => holder'[k] = holder[k] /\ value'[k] = value[k]
      /\ \A u \in Threads : u # t => (holder'[l] = u <=> holder[l] = u)
  <2>1. /\ holder \in [Locks -> Threads \cup {NULL}] /\ NULL \notin Threads
        /\ value \in [Synchs -> Nat] /\ Locks \subseteq Synchs
    BY ThreadsAssumption DEF TypeOK, Synchs
  <2>2. CASE UNCHANGED <<holder, value>> /\ holder[l] # t
    BY <2>1, <2>2
  <2>3. CASE /\ holder[l] = t
             /\ holder' = [holder EXCEPT ![l] = NULL]
             /\ value' = [value EXCEPT ![l] = @ + 1]
    BY <2>1, <2>3, <1>4
  <2> QED BY <2>2, <2>3
<1>6. /\ value' \in [Synchs -> Nat]
      /\ value'[l] = IF holder'[l] = NULL THEN 1 ELSE 0
  BY <1>4 DEF TypeOK, Ownership, LockOwnership
<1>7. /\ target' \in [Threads -> Synchs \cup {NULL}]
      /\ cont' \in [Threads -> {"user", "down", "released", "dangling"}]
      /\ \A u \in Threads : cont'[u] = IF u = t THEN "user" ELSE cont[u]
      /\ \A u \in Threads : target'[u] = IF u = t THEN NULL ELSE target[u]
  BY DEF LockReleased, TypeOK
<1>8. \A u \in Threads : InRelease(u)' <=> InRelease(u) /\ u # t
  BY <1>7 DEF InRelease
<1>9. LockOwnership'
  <2>1. ASSUME NEW k \in Locks PROVE value'[k] = IF holder'[k] = NULL THEN 1 ELSE 0
    BY <1>5, <1>6 DEF Ownership, LockOwnership
  <2>2. ASSUME NEW k \in Locks, NEW u \in Threads
        PROVE  Contains(locksOwned'[u], k) <=> holder'[k] = u \/ (InRelease(u)' /\ target'[u] = k)
    <3>1. Contains(locksOwned[u], k) <=> holder[k] = u \/ (InRelease(u) /\ target[u] = k)
      BY DEF Ownership, LockOwnership, InRelease
    <3>2. CASE u = t
      BY <3>1, <3>2, <1>1, <1>3, <1>5, <1>8
    <3>3. CASE u # t
      BY <3>1, <3>3, <1>3, <1>5, <1>7, <1>8
    <3> QED BY <3>2, <3>3
  <2> QED BY <2>1, <2>2 DEF LockOwnership, InRelease
<1>10. \A u \in Threads : Once(locksOwned'[u])
  BY <1>1, <1>3 DEF Ownership
<1>11. ASSUME NEW u \in Threads, InRelease(u)'
       PROVE  target'[u] \in Locks /\ holder'[target'[u]] # u
  BY <1>11, <1>5, <1>7, <1>8 DEF Ownership
<1>12. \A u \in Threads : cont'[u] = "down" => target'[u] \in Synchs
  BY <1>7 DEF Ownership
<1>13. OwnershipTypes'
  BY <1>3, <1>5, <1>6, <1>7 DEF OwnershipTypes
<1> QED BY <1>9, <1>10, <1>11, <1>12, <1>13 DEF Ownership

\* What thread_lock_released makes of the priorities.
LEMMA LockReleasedDonations ==
  ASSUME TypeOK, Ownership, Donations, NEW t \in Threads, NEW l \in Locks,
         Contains(locksOwned[t], l), UNCHANGED basePriority,
         NEW ready, NEW st, NEW wait \in [Synchs -> Seq(Threads)],
         LockReleased(t, l, ready, st, wait)
  PROVE  /\ priority' \in [Threads -> Int]
         /\ fault' \in {"none", "assert", "list"}
         /\ Donations'
<1> DEFINE left    == OwnedWithout(t, l)
           highest == HighestWaiting(left, wait, priority)
           prio    == [priority EXCEPT ![t] = Max({basePriority[t], highest})]
<1>1. left \in Seq(Locks)
  BY WithoutOnce DEF OwnedWithout, Ownership, TypeOK
<1>2. /\ locksOwned' = [locksOwned EXCEPT ![t] = left]
      /\ \/ fault' = "assert" /\ priority' = priority /\ highest > priority[t]
         \/ fault' = fault /\ priority' = prio
  BY DEF LockReleased
<1> HIDE DEF left
<1>3. /\ highest \in Int
      /\ left = <<>> => highest = PriMin
  BY <1>1, HighestWaitingType DEF TypeOK
<1> HIDE DEF highest
<1>4. /\ basePriority[t] \in Int /\ PriMin \in Int /\ PriMin <= basePriority[t]
      /\ priority[t] \in Int /\ priority[t] >= basePriority[t]
  BY ThreadsAssumption DEF TypeOK, Donations, DonationReturned
<1>5. /\ Max({basePriority[t], highest}) \in {basePriority[t], highest}
      /\ Max({basePriority[t], highest}) >= basePriority[t]
  BY <1>3, <1>4, MaxOfTwo
<1>6. priority' \in [Threads -> Int] /\ fault' \in {"none", "assert", "list"}
  BY <1>2, <1>3, <1>4, <1>5 DEF TypeOK
<1>7. ASSUME NEW u \in Threads
      PROVE  /\ priority'[u] >= basePriority'[u]
             /\ locksOwned'[u] = <<>> => priority'[u] = basePriority'[u]
  <2>1. CASE u = t
    <3>1. locksOwned'[t] = left
      BY <1>2 DEF TypeOK
    <3>2. CASE priority' = priority /\ highest > priority[t]
      BY <3>1, <3>2, <2>1, <1>3, <1>4
    <3>3. CASE priority' = prio
      <4>1. priority'[t] = Max({basePriority[t], highest})
        BY <3>3 DEF TypeOK
      <4>2. left = <<>> => Max({basePriority[t], highest}) = basePriority[t]
        BY <1>3, <1>4, <1>5
      <4> QED BY <2>1, <3>1, <4>1, <4>2, <1>5
    <3> QED BY <3>2, <3>3, <1>2
  <2>2. CASE u # t
    <3>1. priority'[u] = priority[u] /\ locksOwned'[u] = locksOwned[u]
      BY <2>2, <1>2 DEF TypeOK
    <3> QED BY <3>1 DEF Donations, DonationReturned
  <2> QED BY <2>1, <2>2
<1> QED BY <1>6, <1>7 DEF Donations, DonationReturned

-----------------------------------------------------------------------------
(* Ownership and donations after each action.                              *)

\* The rest of TypeOK: what neither the lists nor the ownership is about.
OtherTypes ==
  /\ priority \in [Threads -> Int]
  /\ basePriority \in [Threads -> Int]
  /\ waitingLock \in [Threads -> Locks \cup {NULL}]
  /\ fault \in {"none", "assert", "list"}

Held == OwnershipTypes /\ Ownership /\ OtherTypes /\ Donations

\* A thread in its own code.
LEMMA CallerThread ==
  ASSUME NEW t \in Threads, Calls(t)
  PROVE  running = t /\ ~InRelease(t) /\ cont[t] = "user"
BY DEF Calls, InRelease

\* Nothing but the lists changes.
LEMMA ListsOnlyHeld ==
  ASSUME TypeOK, Ownership, Donations,
         UNCHANGED <<priority, basePriority, waitingLock, locksOwned, cont, target, holder, fault>>,
         value' \in [Synchs -> Nat], \A l \in Locks : value'[l] = value[l]
  PROVE  Held'
<1>1. OwnershipTypes' /\ OtherTypes'
  BY DEF TypeOK, OwnershipTypes, OtherTypes
<1>2. Ownership'
  BY DEF Ownership, LockOwnership, InRelease
<1>3. Donations'
  BY DEF Donations, DonationReturned
<1> QED BY <1>1, <1>2, <1>3 DEF Held

LEMMA CreateHeld ==
  ASSUME TypeOK, Ownership, Donations, NEW t \in Threads, NEW c \in Threads,
         NEW p \in Priorities, Create(t, c, p)
  PROVE  Held'
<1>1. /\ priority' = [priority EXCEPT ![c] = p]
      /\ basePriority' = [basePriority EXCEPT ![c] = p]
      /\ UNCHANGED <<waitingLock, locksOwned, cont, target, value, holder, fault>>
  BY DEF Create, semaVars
<1>2. p \in Int
  BY ThreadsAssumption
<1>3. OwnershipTypes' /\ OtherTypes'
  BY <1>1, <1>2 DEF TypeOK, OwnershipTypes, OtherTypes
<1>4. Ownership'
  BY <1>1 DEF Ownership, LockOwnership, InRelease
<1>5. Donations'
  BY <1>1, <1>2 DEF Donations, DonationReturned, TypeOK
<1> QED BY <1>3, <1>4, <1>5 DEF Held

LEMMA SetPriorityHeld ==
  ASSUME TypeOK, Ownership, Donations, NEW t \in Threads, NEW p \in Priorities, SetPriority(t, p)
  PROVE  Held'
<1>1. /\ priority' = [priority EXCEPT ![t] = PrioritySet(t, p)]
      /\ basePriority' = [basePriority EXCEPT ![t] = p]
      /\ UNCHANGED <<waitingLock, locksOwned, cont, target, value, holder, fault>>
  BY DEF SetPriority, semaVars
<1>2. p \in Int /\ priority[t] \in Int /\ basePriority[t] \in Int
  BY ThreadsAssumption DEF TypeOK
<1>3. /\ PrioritySet(t, p) \in Int
      /\ PrioritySet(t, p) >= p
      /\ locksOwned[t] = <<>> => PrioritySet(t, p) = p
  BY <1>2 DEF PrioritySet, Donations, DonationReturned
<1>4. OwnershipTypes' /\ OtherTypes'
  BY <1>1, <1>2, <1>3 DEF TypeOK, OwnershipTypes, OtherTypes
<1>5. Ownership'
  BY <1>1 DEF Ownership, LockOwnership, InRelease
<1>6. Donations'
  BY <1>1, <1>2, <1>3 DEF Donations, DonationReturned, TypeOK
<1> QED BY <1>4, <1>5, <1>6 DEF Held

\* thread_lock_acquired leaves the priorities alone.
LEMMA AcquiredHeld ==
  ASSUME TypeOK, Ownership, Donations, NEW t \in Threads, NEW l \in Locks, ~InRelease(t),
         value[l] > 0, value' = [value EXCEPT ![l] = @ - 1], LockAcquired(t, l),
         UNCHANGED <<priority, basePriority, fault>>
  PROVE  Held'
<1>1. /\ OwnershipTypes' /\ Ownership'
      /\ waitingLock' \in [Threads -> Locks \cup {NULL}]
      /\ locksOwned'[t] # <<>>
      /\ \A u \in Threads : u # t => locksOwned'[u] = locksOwned[u]
  BY LockAcquiredOwnership
<1>2. OtherTypes'
  BY <1>1 DEF OtherTypes, TypeOK
<1>3. Donations'
  BY <1>1 DEF Donations, DonationReturned
<1> QED BY <1>1, <1>2, <1>3 DEF Held

\* A thread that thread_lock_will_wait visits owns a lock.
LEMMA VisitedOwns ==
  ASSUME TypeOK, Ownership, NEW l \in Locks, NEW d \in DonationChain(l)
  PROVE  d \in Threads /\ locksOwned[d] # <<>>
<1>1. PICK n \in 0..MaxNesting - 1 : \E chain \in [0..n -> Threads] :
        /\ d \in Threads /\ chain[0] = holder[l] /\ chain[n] = d
        /\ \A i \in 1..n : /\ waitingLock[chain[i - 1]] # NULL
                           /\ chain[i] = holder[waitingLock[chain[i - 1]]]
  BY DEF DonationChain
<1>2. PICK k \in Locks : d = holder[k] /\ d \in Threads
  <2> PICK chain \in [0..n -> Threads] :
        /\ d \in Threads /\ chain[0] = holder[l] /\ chain[n] = d
        /\ \A i \in 1..n : /\ waitingLock[chain[i - 1]] # NULL
                           /\ chain[i] = holder[waitingLock[chain[i - 1]]]
    BY <1>1
  <2>1. CASE n = 0
    BY <2>1
  <2>2. CASE n # 0
    <3>1. n \in 1..n /\ n - 1 \in 0..n
      BY <2>2, ThreadsAssumption
    <3>2. chain[n - 1] \in Threads
      BY <3>1
    <3> QED BY <3>1, <3>2 DEF TypeOK
  <2> QED BY <2>1, <2>2
<1>3. Contains(locksOwned[d], k)
  BY <1>2 DEF Ownership, LockOwnership
<1> QED BY <1>2, <1>3, EmptyOnce

\* A thread that is raised owns a lock.
LEMMA AcquireTakenHeld ==
  ASSUME TypeOK, Ownership, Donations, NEW t \in Threads, NEW l \in Locks, AcquireTaken(t, l)
  PROVE  Held'
<1> DEFINE raised == Donees(l, priority[t])
           prio   == [d \in Threads |-> IF d \in raised THEN priority[t] ELSE priority[d]]
<1>1. /\ Calls(t)
      /\ priority' = prio
      /\ waitingLock' = [waitingLock EXCEPT ![t] = l]
      /\ cont' = [cont EXCEPT ![t] = "down"]
      /\ target' = [target EXCEPT ![t] = l]
      /\ UNCHANGED <<basePriority, locksOwned, value, holder, fault>>
  BY DEF AcquireTaken, BlockOn
<1>2. ASSUME NEW d \in raised
      PROVE  d \in Threads /\ priority[d] < priority[t] /\ locksOwned[d] # <<>>
  BY VisitedOwns DEF Donees
<1> HIDE DEF raised
<1>3. OwnershipTypes' /\ Ownership'
  <2>1. l \in Synchs
    BY DEF Synchs
  <2>2. ~InRelease(t) /\ value' \in [Synchs -> Nat] /\ \A k \in Locks : value'[k] = value[k]
    BY <1>1, CallerThread DEF TypeOK
  <2> QED BY <1>1, <2>1, <2>2, OwnershipKept
<1>4. OtherTypes'
  BY <1>1 DEF OtherTypes, TypeOK
<1>5. Donations'
  <2>1. ASSUME NEW u \in Threads
        PROVE  priority'[u] >= basePriority[u] /\ (locksOwned[u] = <<>> => priority'[u] = basePriority[u])
    <3>1. /\ priority[u] \in Int /\ priority[t] \in Int /\ basePriority[u] \in Int
          /\ priority[u] >= basePriority[u]
          /\ locksOwned[u] = <<>> => priority[u] = basePriority[u]
      BY DEF TypeOK, Donations, DonationReturned
    <3>2. priority'[u] = IF u \in raised THEN priority[t] ELSE priority[u]
      BY <1>1
    <3> QED BY <1>2, <3>1, <3>2
  <2> QED BY <1>1, <2>1 DEF Donations, DonationReturned
<1> QED BY <1>3, <1>4, <1>5 DEF Held

LEMMA DownHeld ==
  ASSUME TypeOK, Ownership, Donations, NEW t \in Threads, NEW s \in Semas, Down(t, s)
  PROVE  Held'
<1>1. /\ Calls(t) /\ s \in Synchs /\ s \notin Locks
      /\ UNCHANGED <<priority, basePriority, waitingLock, locksOwned, holder, fault>>
  BY ThreadsAssumption DEF Down, Synchs
<1>2. CASE value[s] > 0
  <2>1. value' = [value EXCEPT ![s] = @ - 1] /\ UNCHANGED <<cont, target>>
    BY <1>2 DEF Down
  <2>2. value' \in [Synchs -> Nat] /\ \A l \in Locks : value'[l] = value[l]
    BY <1>1, <1>2, <2>1 DEF TypeOK, Synchs
  <2> QED BY <1>1, <2>1, <2>2, ListsOnlyHeld
<1>3. CASE ~(value[s] > 0)
  <2>1. /\ UNCHANGED value
        /\ cont' = [cont EXCEPT ![t] = "down"]
        /\ target' = [target EXCEPT ![t] = s]
    BY <1>3 DEF Down, BlockOn
  <2>2. OwnershipTypes' /\ Ownership'
    BY <1>1, <2>1, CallerThread, OwnershipKept DEF TypeOK
  <2>3. OtherTypes' /\ Donations'
    BY <1>1 DEF OtherTypes, TypeOK, Donations, DonationReturned
  <2> QED BY <2>2, <2>3 DEF Held
<1> QED BY <1>2, <1>3

LEMMA ResumeDownHeld ==
  ASSUME TypeOK, Ownership, Donations, NEW t \in Threads, ResumeDown(t)
  PROVE  Held'
<1> DEFINE s == target[t]
<1>1. /\ cont[t] = "down" /\ ~InRelease(t) /\ s \in Synchs
      /\ UNCHANGED <<priority, basePriority, fault>>
  BY DEF ResumeDown, Ownership, InRelease
<1>2. CASE value[s] = 0
  <2>1. /\ UNCHANGED <<value, holder, locksOwned, waitingLock>>
        /\ cont' = [cont EXCEPT ![t] = "down"]
        /\ target' = [target EXCEPT ![t] = s]
    BY <1>2 DEF ResumeDown, BlockOn
  <2> HIDE DEF s
  <2>2. OwnershipTypes' /\ Ownership'
    BY <1>1, <2>1, OwnershipKept DEF TypeOK
  <2>3. OtherTypes' /\ Donations'
    BY <1>1, <2>1 DEF OtherTypes, TypeOK, Donations, DonationReturned
  <2> QED BY <2>2, <2>3 DEF Held
<1>3. CASE value[s] > 0 /\ s \in Locks
  <2>1. value' = [value EXCEPT ![s] = @ - 1] /\ LockAcquired(t, s)
    BY <1>3 DEF ResumeDown
  <2> HIDE DEF s
  <2> QED BY <1>1, <1>3, <2>1, AcquiredHeld
<1>4. CASE value[s] > 0 /\ s \notin Locks
  <2>1. /\ value' = [value EXCEPT ![s] = @ - 1]
        /\ cont' = [cont EXCEPT ![t] = "user"]
        /\ target' = [target EXCEPT ![t] = NULL]
        /\ UNCHANGED <<holder, locksOwned, waitingLock>>
    BY <1>4 DEF ResumeDown
  <2> HIDE DEF s
  <2>2. value' \in [Synchs -> Nat] /\ \A l \in Locks : value'[l] = value[l]
    BY <1>1, <1>4, <2>1 DEF TypeOK, Synchs
  <2>3. OwnershipTypes' /\ Ownership'
    BY <1>1, <2>1, <2>2, OwnershipKept
  <2>4. OtherTypes' /\ Donations'
    BY <1>1, <2>1 DEF OtherTypes, TypeOK, Donations, DonationReturned
  <2> QED BY <2>3, <2>4 DEF Held
<1>5. value[s] \in Nat
  BY <1>1 DEF TypeOK
<1> QED BY <1>2, <1>3, <1>4, <1>5

\* sema_up of a plain semaphore.
LEMMA UpHeld ==
  ASSUME TypeOK, Ownership, Donations, NEW s \in Semas, value' = [value EXCEPT ![s] = @ + 1],
         UNCHANGED <<priority, basePriority, waitingLock, locksOwned, cont, target, holder, fault>>
  PROVE  Held'
<1>1. value' \in [Synchs -> Nat] /\ \A l \in Locks : value'[l] = value[l]
  BY ThreadsAssumption DEF TypeOK, Synchs
<1> QED BY <1>1, ListsOnlyHeld

LEMMA ReleaseHeld ==
  ASSUME TypeOK, Ownership, Donations, NEW t \in Threads, NEW l \in Locks, Release(t, l)
  PROVE  Held'
<1>1. /\ Calls(t) /\ holder[l] = t /\ l \in Synchs
      /\ holder' = [holder EXCEPT ![l] = NULL]
      /\ value' = [value EXCEPT ![l] = @ + 1]
      /\ UNCHANGED <<basePriority, waitingLock>>
  BY DEF Release, Synchs
<1>2. Contains(locksOwned[t], l) /\ cont[t] = "user" /\ ~InRelease(t)
  BY <1>1, CallerThread DEF Ownership, LockOwnership
<1>3. ASSUME NEW ready, NEW st, NEW wait \in [Synchs -> Seq(Threads)],
             LockReleased(t, l, ready, st, wait)
      PROVE  Held'
  <2>1. OwnershipTypes' /\ Ownership'
    BY <1>1, <1>2, <1>3, LockReleasedOwnership
  <2>2. /\ priority' \in [Threads -> Int]
        /\ fault' \in {"none", "assert", "list"}
        /\ Donations'
    BY <1>1, <1>2, <1>3, LockReleasedDonations
  <2>3. OtherTypes'
    BY <1>1, <2>2 DEF OtherTypes, TypeOK
  <2> QED BY <2>1, <2>2, <2>3 DEF Held
<1>4. CASE LockReleased(t, l, readyList, status, waiters)
  BY <1>3, <1>4 DEF TypeOK
<1>5. CASE \E i \in Highest(waiters[l], priority) :
             LockReleased(t, l, InsertOrdered(readyList, waiters[l][i], priority),
                          [status EXCEPT ![waiters[l][i]] = "ready"],
                          [waiters EXCEPT ![l] = RemoveAt(@, i)])
  <2>1. PICK i \in Highest(waiters[l], priority) :
          LockReleased(t, l, InsertOrdered(readyList, waiters[l][i], priority),
                       [status EXCEPT ![waiters[l][i]] = "ready"],
                       [waiters EXCEPT ![l] = RemoveAt(@, i)])
    BY <1>5
  <2>2. i \in 1..Len(waiters[l]) /\ waiters[l] \in Seq(Threads)
    BY <1>1 DEF Highest, TypeOK
  <2>3. RemoveAt(waiters[l], i) \in Seq(Threads)
    BY <2>2, RemoveAtElements
  <2>4. [waiters EXCEPT ![l] = RemoveAt(@, i)] \in [Synchs -> Seq(Threads)]
    BY <1>1, <2>3 DEF TypeOK
  <2> QED BY <1>3, <2>1, <2>4
<1>6. CASE /\ cont' = [cont EXCEPT ![t] = "released"]
           /\ target' = [target EXCEPT ![t] = l]
           /\ UNCHANGED <<priority, locksOwned, fault>>
  <2>1. OtherTypes' /\ Donations'
    BY <1>1, <1>6 DEF OtherTypes, TypeOK, Donations, DonationReturned
  <2>2. OwnershipTypes'
    BY <1>1, <1>6 DEF OwnershipTypes, TypeOK
  <2>3. t # NULL /\ \A k \in Locks : holder'[k] = IF k = l THEN NULL ELSE holder[k]
    BY <1>1, ThreadsAssumption DEF TypeOK
  <2>4. \A u \in Threads : InRelease(u)' <=> InRelease(u) \/ u = t
    BY <1>6 DEF InRelease, TypeOK
  <2>5. \A u \in Threads : target'[u] = IF u = t THEN l ELSE target[u]
    BY <1>6 DEF TypeOK
  <2>6. ASSUME NEW k \in Locks PROVE value'[k] = IF holder'[k] = NULL THEN 1 ELSE 0
    BY <1>1, <2>3 DEF Ownership, LockOwnership, TypeOK, Synchs
  <2>7. ASSUME NEW k \in Locks, NEW u \in Threads
        PROVE  Contains(locksOwned'[u], k) <=> holder'[k] = u \/ (InRelease(u)' /\ target'[u] = k)
    <3>1. Contains(locksOwned[u], k) <=> holder[k] = u \/ (InRelease(u) /\ target[u] = k)
      BY DEF Ownership, LockOwnership, InRelease
    <3>2. locksOwned'[u] = locksOwned[u] /\ u # NULL
      BY <1>6, ThreadsAssumption
    <3>3. CASE u = t
      BY <3>1, <3>2, <3>3, <1>1, <1>2, <2>3, <2>4, <2>5
    <3>4. CASE u # t
      BY <3>1, <3>2, <3>4, <1>1, <2>3, <2>4, <2>5
    <3> QED BY <3>3, <3>4
  <2>8. LockOwnership'
    BY <2>6, <2>7 DEF LockOwnership, InRelease
  <2>9. \A u \in Threads : InRelease(u)' => target'[u] \in Locks /\ holder'[target'[u]] # u
    BY <2>3, <2>4, <2>5, ThreadsAssumption DEF Ownership
  <2>10. \A u \in Threads : cont'[u] = "down" => target'[u] \in Synchs
    BY <1>6, <2>5 DEF Ownership, TypeOK
  <2>11. \A u \in Threads : Once(locksOwned'[u])
    BY <1>6 DEF Ownership
  <2> QED BY <2>1, <2>2, <2>8, <2>9, <2>10, <2>11 DEF Held, Ownership
<1> QED BY <1>4, <1>5, <1>6 DEF Release

LEMMA ResumeReleasedHeld ==
  ASSUME TypeOK, Ownership, Donations, NEW t \in Threads, ResumeReleased(t)
  PROVE  Held'
<1>1. /\ InRelease(t) /\ cont[t] # "down"
      /\ UNCHANGED <<basePriority, waitingLock, value, waiters, holder>>
  BY DEF ResumeReleased, InRelease, semaVars
<1>2. /\ target[t] \in Locks /\ holder[target[t]] # t
      /\ Contains(locksOwned[t], target[t])
  BY <1>1 DEF Ownership, LockOwnership, InRelease
<1>3. CASE cont[t] = "dangling"
  <2>1. fault' = "list" /\ UNCHANGED threadVars
    BY <1>3 DEF ResumeReleased
  <2>2. OwnershipTypes' /\ OtherTypes'
    BY <1>1, <2>1 DEF TypeOK, OwnershipTypes, OtherTypes, threadVars
  <2>3. Ownership'
    BY <1>1, <2>1 DEF Ownership, LockOwnership, InRelease, threadVars
  <2>4. Donations'
    BY <1>1, <2>1 DEF Donations, DonationReturned, threadVars
  <2> QED BY <2>2, <2>3, <2>4 DEF Held
<1>4. CASE cont[t] # "dangling"
  <2>1. LockReleased(t, target[t], readyList, status, waiters)
    BY <1>4 DEF ResumeReleased
  <2>2. OwnershipTypes' /\ Ownership'
    BY <1>1, <1>2, <2>1, LockReleasedOwnership
  <2>3. waiters \in [Synchs -> Seq(Threads)]
    BY DEF TypeOK
  <2>4. /\ priority' \in [Threads -> Int]
        /\ fault' \in {"none", "assert", "list"}
        /\ Donations'
    BY <1>1, <1>2, <2>1, <2>3, LockReleasedDonations
  <2>5. OtherTypes'
    BY <1>1, <2>4 DEF OtherTypes, TypeOK
  <2> QED BY <2>2, <2>4, <2>5 DEF Held
<1> QED BY <1>3, <1>4

-----------------------------------------------------------------------------
(* The threads that are awake inside sema_down.                            *)

AwakeNow(s) == AwakeIn(s, cont, target, status)

\* No wakeup for s is lost.
Heard(s) == waiters[s] # <<>> => value[s] <= Cardinality(AwakeNow(s))

LEMMA NoLostWakeupHeard == NoLostWakeup <=> \A s \in Synchs : Heard(s)
BY DEF NoLostWakeup, Heard, AwakeNow, AwakeIn

\* Sets of threads are finite.
LEMMA ThreadSets ==
  ASSUME NEW A, A \subseteq Threads
  PROVE  IsFiniteSet(A) /\ Cardinality(A) \in Nat
BY ThreadsAssumption, FS_Subset, FS_CardinalityType

\* A switch leaves the threads awake that st leaves awake.
LEMMA AwakeKept ==
  ASSUME TypeOK, NEW t, NEW st, Switched(st),
         \A u \in Threads : u # t /\ cont[u] = "down" =>
           /\ cont'[u] = "down" /\ target'[u] = target[u]
           /\ status[u] \in {"ready", "running"} => st[u] \in {"ready", "running"},
         NEW s
  PROVE  AwakeNow(s) \ {t} \subseteq AwakeNow(s)'
BY DEF Switched, AwakeNow, AwakeIn

\* A semaphore that does not go up and gets no waiter.
LEMMA StillHeard ==
  ASSUME NEW s \in Synchs, Heard(s), value[s] \in Nat, value'[s] \in Nat, value'[s] <= value[s],
         waiters'[s] = waiters[s], AwakeNow(s) \subseteq AwakeNow(s)'
  PROVE  Heard(s)'
<1>1. Cardinality(AwakeNow(s)) \in Nat
  BY ThreadSets DEF AwakeNow, AwakeIn
<1>2. IsFiniteSet(AwakeNow(s)') /\ Cardinality(AwakeNow(s)') \in Nat
  <2> DEFINE B == AwakeNow(s)'
  <2>1. B \subseteq Threads
    BY DEF AwakeNow, AwakeIn
  <2> HIDE DEF B
  <2>2. IsFiniteSet(B) /\ Cardinality(B) \in Nat
    BY <2>1, ThreadSets
  <2> QED BY <2>2 DEF B
<1>3. Cardinality(AwakeNow(s)) <= Cardinality(AwakeNow(s)')
  BY <1>2, FS_Subset
<1> QED BY <1>1, <1>2, <1>3 DEF Heard

\* A step that leaves waiters and values alone, or lowers them.
LEMMA AllStillHeard ==
  ASSUME TypeOK, NoLostWakeup, NEW t, NEW st, Switched(st), cont[t] # "down" \/ t \notin Threads,
         \A u \in Threads : u # t /\ cont[u] = "down" =>
           /\ cont'[u] = "down" /\ target'[u] = target[u]
           /\ status[u] \in {"ready", "running"} => st[u] \in {"ready", "running"},
         value' \in [Synchs -> Nat],
         NEW s \in Synchs, value'[s] <= value[s], waiters'[s] = waiters[s]
  PROVE  Heard(s)'
<1>1. t \notin AwakeNow(s)
  BY DEF AwakeNow, AwakeIn
<1>2. AwakeNow(s) \subseteq AwakeNow(s)'
  BY <1>1, AwakeKept
<1>3. Heard(s) /\ value[s] \in Nat /\ value'[s] \in Nat
  BY NoLostWakeupHeard DEF TypeOK
<1> QED BY <1>2, <1>3, StillHeard

\* sema_up: one unit more, and one thread more that is awake.
LEMMA UpHeard ==
  ASSUME TypeOK, Queues, NoLostWakeup, NEW s \in Synchs, NobodyWoken(s) \/ Woken(s),
         value' = [value EXCEPT ![s] = @ + 1],
         NEW t, cont[t] # "down" \/ t \notin Threads,
         \A u \in Threads : u # t => cont'[u] = cont[u] /\ target'[u] = target[u]
  PROVE  NoLostWakeup'
<1>1. /\ value' \in [Synchs -> Nat]
      /\ \A r \in Synchs : value'[r] = IF r = s THEN value[s] + 1 ELSE value[r]
  BY DEF TypeOK
<1>2. CASE NobodyWoken(s)
  <2>1. ASSUME NEW r \in Synchs, r # s PROVE Heard(r)'
    <3>1. Switched(status) /\ waiters'[r] = waiters[r] /\ value'[r] = value[r] /\ value[r] \in Nat
      BY <1>1, <1>2, <2>1 DEF NobodyWoken, TypeOK
    <3>2. AwakeNow(r) \subseteq AwakeNow(r)'
      <4>1. t \notin AwakeNow(r)
        BY DEF AwakeNow, AwakeIn
      <4> QED BY <3>1, <4>1, AwakeKept
    <3> QED BY <1>1, <3>1, <3>2, StillHeard, NoLostWakeupHeard
  <2>2. Heard(s)'
    BY <1>2 DEF NobodyWoken, Heard
  <2> QED BY <2>1, <2>2, NoLostWakeupHeard DEF NoLostWakeup, Heard, AwakeNow, AwakeIn
<1>3. CASE Woken(s)
  <2>1. PICK i \in 1..Len(waiters[s]) :
          /\ waiters' = [waiters EXCEPT ![s] = RemoveAt(@, i)]
          /\ Switched([status EXCEPT ![waiters[s][i]] = "ready"])
    BY <1>3 DEF Woken
  <2> DEFINE w == waiters[s][i]
             st == [status EXCEPT ![w] = "ready"]
  <2>2. w \in Threads /\ status[w] = "blocked" /\ cont[w] = "down" /\ target[w] = s
    BY <2>1, WaitingThread
  <2>3. Switched(st) /\ w # t
    BY <2>1, <2>2
  <2>4. \A u \in Threads : st[u] = IF u = w THEN "ready" ELSE status[u]
    BY DEF TypeOK
  <2>5. waiters[s] # <<>> /\ \A r \in Synchs : r # s => waiters'[r] = waiters[r]
    BY <2>1 DEF TypeOK
  <2> HIDE DEF w, st
  <2>6. ASSUME NEW r \in Synchs, r # s PROVE Heard(r)'
    <3>1. waiters'[r] = waiters[r] /\ value'[r] <= value[r]
      BY <1>1, <2>5, <2>6 DEF TypeOK
    <3> QED BY ZenonT(60), <1>1, <2>3, <2>4, <3>1, AllStillHeard
  <2>7. Heard(s)'
    <3> DEFINE A == AwakeNow(s)
               B == AwakeNow(s)'
    <3>1. A \subseteq B
      <4>1. t \notin A
        BY DEF AwakeNow, AwakeIn
      <4> QED BY <2>3, <2>4, <4>1, AwakeKept
    <3>2. w \in B /\ w \notin A
      <4>1. status'[w] \in {"ready", "running"}
        BY <2>2, <2>3, <2>4 DEF Switched
      <4>2. cont'[w] = "down" /\ target'[w] = s
        BY <2>2, <2>3
      <4> QED BY <2>2, <4>1, <4>2 DEF AwakeNow, AwakeIn
    <3>3. A \subseteq Threads /\ B \subseteq Threads
      BY DEF AwakeNow, AwakeIn
    <3>4. value[s] <= Cardinality(A) /\ value[s] \in Nat
      BY <2>5, NoLostWakeupHeard DEF Heard, TypeOK
    <3> HIDE DEF A, B
    <3>5. IsFiniteSet(A) /\ Cardinality(A) \in Nat /\ IsFiniteSet(B) /\ Cardinality(B) \in Nat
      BY <3>3, ThreadSets
    <3>6. Cardinality(A \cup {w}) = Cardinality(A) + 1
      BY <3>2, <3>5, FS_AddElement
    <3>7. Cardinality(A \cup {w}) <= Cardinality(B) /\ Cardinality(A \cup {w}) \in Nat
      BY <3>1, <3>2, <3>5, <3>6, FS_Subset
    <3>8. value'[s] <= Cardinality(B)
      BY <1>1, <3>4, <3>5, <3>6, <3>7
    <3> QED BY <3>8 DEF B, Heard
  <2> QED BY <2>6, <2>7, NoLostWakeupHeard DEF NoLostWakeup, Heard, AwakeNow, AwakeIn
<1> QED BY <1>2, <1>3

\* A thread queues up on a semaphore that is down.
LEMMA BlockOnHeard ==
  ASSUME TypeOK, Queues, NoLostWakeup, NEW t \in Threads, running = t, NEW s \in Synchs, value[s] = 0,
         NEW ready, BlockOn(t, s, ready), Switched([status EXCEPT ![t] = "blocked"]),
         UNCHANGED value, cont[t] = "down" => target[t] = s
  PROVE  NoLostWakeup'
<1> DEFINE st == [status EXCEPT ![t] = "blocked"]
<1>1. \A u \in Threads : u # t => st[u] = status[u] /\ cont'[u] = cont[u] /\ target'[u] = target[u]
  BY DEF BlockOn, TypeOK
<1>2. Switched(st)
  OBVIOUS
<1> HIDE DEF st
<1>3. ASSUME NEW r \in Synchs, r # s PROVE Heard(r)'
  <2>1. t \notin AwakeNow(r)
    BY <1>3 DEF AwakeNow, AwakeIn
  <2>2. AwakeNow(r) \subseteq AwakeNow(r)'
    BY <1>1, <1>2, <2>1, AwakeKept
  <2>3. Heard(r) /\ value[r] \in Nat /\ value'[r] = value[r] /\ waiters'[r] = waiters[r]
    BY <1>3, NoLostWakeupHeard DEF TypeOK, BlockOn
  <2> QED BY <2>2, <2>3, StillHeard
<1>4. Heard(s)'
  <2> DEFINE B == AwakeNow(s)'
  <2>1. B \subseteq Threads /\ value'[s] = 0
    BY DEF AwakeNow, AwakeIn
  <2> HIDE DEF B
  <2>2. Cardinality(B) \in Nat
    BY <2>1, ThreadSets
  <2> QED BY <2>1, <2>2 DEF Heard, B
<1> QED BY ZenonT(60), <1>3, <1>4, NoLostWakeupHeard DEF NoLostWakeup, Heard, AwakeNow, AwakeIn

\* A thread that was wakened, or that came first, takes a unit.
LEMMA ResumeDownHeard ==
  ASSUME TypeOK, Queues, Ownership, NoLostWakeup, NEW t \in Threads, ResumeDown(t)
  PROVE  NoLostWakeup'
<1> SUFFICES ASSUME NEW s \in Synchs, s = target[t]
             PROVE  NoLostWakeup'
  BY DEF ResumeDown, Ownership
<1>1. running = t /\ cont[t] = "down" /\ status[t] = "running" /\ value[s] \in Nat
  BY RunningThread DEF ResumeDown, TypeOK
<1>2. CASE value[s] = 0
  <2>1. BlockOn(t, s, readyList) /\ UNCHANGED value
    BY <1>2 DEF ResumeDown
  <2>2. Switched([status EXCEPT ![t] = "blocked"])
    BY <1>2, ResumeDownQueues
  <2> QED BY <1>1, <1>2, <2>1, <2>2, BlockOnHeard
<1>3. CASE value[s] > 0
  <2>1. value' = [value EXCEPT ![s] = @ - 1] /\ UNCHANGED waiters
    BY <1>3 DEF ResumeDown
  <2>2. Switched(status)
    BY <1>3, ResumeDownQueues
  <2>3. \A u \in Threads : u # t /\ cont[u] = "down" => cont'[u] = "down" /\ target'[u] = target[u]
    <3>1. CASE s \in Locks
      <4>1. LockAcquired(t, s)
        BY <1>3, <3>1 DEF ResumeDown
      <4> QED BY <3>1, <4>1, AcquiredElsewhere
    <3>2. CASE s \notin Locks
      BY <1>3, <3>2 DEF ResumeDown, TypeOK
    <3> QED BY <3>1, <3>2
  <2>4. \A r \in Synchs : AwakeNow(r) \ {t} \subseteq AwakeNow(r)'
    BY <2>2, <2>3, AwakeKept
  <2>5. \A r \in Synchs : Heard(r) /\ value[r] \in Nat
    BY NoLostWakeupHeard DEF TypeOK
  <2>6. ASSUME NEW r \in Synchs, r # s PROVE Heard(r)'
    <3>1. t \notin AwakeNow(r)
      BY <2>6 DEF AwakeNow, AwakeIn
    <3>2. value'[r] = value[r] /\ waiters'[r] = waiters[r]
      BY <2>1, <2>6 DEF TypeOK
    <3> QED BY <2>4, <2>5, <3>1, <3>2, StillHeard
  <2>7. Heard(s)'
    <3> DEFINE A == AwakeNow(s)
               B == AwakeNow(s)'
    <3>1. t \in A
      BY <1>1 DEF AwakeNow, AwakeIn
    <3>2. A \subseteq Threads /\ B \subseteq Threads /\ A \ {t} \subseteq B
      BY <1>1, <2>4 DEF AwakeNow, AwakeIn
    <3>3. waiters'[s] = waiters[s] /\ value'[s] = value[s] - 1
      BY <1>1, <2>1 DEF TypeOK
    <3>4. waiters[s] # <<>> => value[s] <= Cardinality(A)
      BY <1>1, <2>5 DEF Heard
    <3> HIDE DEF A, B
    <3>5. IsFiniteSet(A) /\ Cardinality(A) \in Nat /\ IsFiniteSet(B) /\ Cardinality(B) \in Nat
      BY <3>2, ThreadSets
    <3>6. Cardinality(A \ {t}) = Cardinality(A) - 1
      BY <3>1, <3>5, FS_RemoveElement
    <3>7. Cardinality(A \ {t}) <= Cardinality(B)
      BY <3>2, <3>5, FS_Subset
    <3>8. waiters'[s] # <<>> => value'[s] <= Cardinality(B)
      BY <1>1, <3>3, <3>4, <3>5, <3>6, <3>7
    <3> QED BY <3>8 DEF Heard, B
  <2> QED BY ZenonT(60), <2>6, <2>7, NoLostWakeupHeard DEF NoLostWakeup, Heard, AwakeNow, AwakeIn
<1> QED BY <1>1, <1>2, <1>3

\* A step in which no semaphore goes up and no thread queues up.
LEMMA QuietHeard ==
  ASSUME TypeOK, NoLostWakeup, NEW t, NEW st, Switched(st), cont[t] # "down" \/ t \notin Threads,
         \A u \in Threads : u # t /\ cont[u] = "down" =>
           /\ cont'[u] = "down" /\ target'[u] = target[u]
           /\ status[u] \in {"ready", "running"} => st[u] \in {"ready", "running"},
         value' \in [Synchs -> Nat], \A s \in Synchs : value'[s] <= value[s], UNCHANGED waiters
  PROVE  NoLostWakeup'
<1>1. ASSUME NEW s \in Synchs PROVE Heard(s)'
  <2>1. t \notin AwakeNow(s)
    BY DEF AwakeNow, AwakeIn
  <2>2. AwakeNow(s) \subseteq AwakeNow(s)'
    BY <2>1, AwakeKept
  <2>3. Heard(s) /\ value[s] \in Nat /\ value'[s] \in Nat /\ value'[s] <= value[s] /\ waiters'[s] = waiters[s]
    BY NoLostWakeupHeard DEF TypeOK
  <2> QED BY <2>2, <2>3, StillHeard
<1> QED BY <1>1, NoLostWakeupHeard DEF NoLostWakeup, Heard, AwakeNow, AwakeIn

LEMMA AcquireTakenHeard ==
  ASSUME TypeOK, Queues, Ownership, NoLostWakeup, NEW t \in Threads, NEW l \in Locks, AcquireTaken(t, l)
  PROVE  NoLostWakeup'
<1>1. /\ running = t /\ cont[t] = "user" /\ l \in Synchs /\ value[l] = 0
      /\ UNCHANGED value
  BY DEF AcquireTaken, Calls, Synchs
<1>2. \E ready : BlockOn(t, l, ready)
  BY DEF AcquireTaken
<1>3. Switched([status EXCEPT ![t] = "blocked"])
  BY AcquireTakenQueues
<1> QED BY <1>1, <1>2, <1>3, BlockOnHeard

LEMMA DownHeard ==
  ASSUME TypeOK, Queues, NoLostWakeup, NEW t \in Threads, NEW s \in Semas, Down(t, s)
  PROVE  NoLostWakeup'
<1>1. running = t /\ cont[t] = "user" /\ s \in Synchs /\ value[s] \in Nat
  BY DEF Down, Calls, Synchs, TypeOK
<1>2. CASE value[s] > 0
  <2>1. value' = [value EXCEPT ![s] = @ - 1] /\ UNCHANGED <<cont, target, waiters>>
    BY <1>2 DEF Down
  <2>2. value' \in [Synchs -> Nat] /\ \A r \in Synchs : value'[r] <= value[r]
    BY <1>1, <1>2, <2>1 DEF TypeOK
  <2>3. Switched(status)
    BY <1>2, DownQueues
  <2> QED BY <1>1, <2>1, <2>2, <2>3, QuietHeard
<1>3. CASE ~(value[s] > 0)
  <2>1. BlockOn(t, s, readyList) /\ UNCHANGED value /\ value[s] = 0
    BY <1>1, <1>3 DEF Down
  <2>2. Switched([status EXCEPT ![t] = "blocked"])
    BY <1>3, DownQueues
  <2> QED BY <1>1, <2>1, <2>2, BlockOnHeard
<1> QED BY <1>2, <1>3

LEMMA AcquireFreeHeard ==
  ASSUME TypeOK, Queues, NoLostWakeup, NEW t \in Threads, NEW l \in Locks, AcquireFree(t, l)
  PROVE  NoLostWakeup'
<1>1. /\ cont[t] = "user" /\ l \in Synchs /\ LockAcquired(t, l)
      /\ value[l] > 0 /\ value' = [value EXCEPT ![l] = @ - 1] /\ UNCHANGED waiters
  BY DEF AcquireFree, Calls, Synchs
<1>2. value' \in [Synchs -> Nat] /\ \A r \in Synchs : value'[r] <= value[r]
  BY <1>1 DEF TypeOK
<1>3. \A u \in Threads : u # t /\ cont[u] = "down" => cont'[u] = "down" /\ target'[u] = target[u]
  BY <1>1, AcquiredElsewhere
<1>4. Switched(status)
  BY AcquireFreeQueues
<1> QED BY <1>1, <1>2, <1>3, <1>4, QuietHeard

LEMMA ReleaseHeard ==
  ASSUME TypeOK, Queues, NoLostWakeup, NEW t \in Threads, NEW l \in Locks, Release(t, l)
  PROVE  NoLostWakeup'
<1>1. /\ cont[t] = "user" /\ l \in Synchs
      /\ value' = [value EXCEPT ![l] = @ + 1]
  BY DEF Release, Calls, Synchs
<1>2. NobodyWoken(l) \/ Woken(l)
  BY ReleaseQueues
<1>3. \A u \in Threads : u # t => cont'[u] = cont[u] /\ target'[u] = target[u]
  BY DEF Release, LockReleased, TypeOK
<1> QED BY <1>1, <1>2, <1>3, UpHeard

LEMMA ResumeReleasedHeard ==
  ASSUME TypeOK, Queues, NoLostWakeup, NEW t \in Threads, ResumeReleased(t)
  PROVE  NoLostWakeup'
<1>1. /\ cont[t] # "down" /\ UNCHANGED <<value, waiters>>
      /\ \A u \in Threads : u # t => cont'[u] = cont[u] /\ target'[u] = target[u]
  BY DEF ResumeReleased, LockReleased, threadVars, semaVars, TypeOK
<1>2. value' \in [Synchs -> Nat] /\ \A r \in Synchs : value'[r] <= value[r]
  BY <1>1 DEF TypeOK
<1>3. Switched(status)
  BY ResumeReleasedQueues
<1> QED BY <1>1, <1>2, <1>3, QuietHeard

-----------------------------------------------------------------------------
(* The invariant.                                                          *)

LEMMA InvInit == Init => IInv
<1> SUFFICES ASSUME Init PROVE IInv
  OBVIOUS
<1>1. PICK p \in Priorities : /\ priority = [t \in Threads |-> p]
                              /\ basePriority = [t \in Threads |-> p]
  BY DEF Init
<1>2. p \in Int /\ Main \in Threads /\ Main # Idle /\ \A t \in Threads : t # NULL
  BY ThreadsAssumption
<1>3. <<>> \in Seq(Threads) /\ <<>> \in Seq(Locks)
  OBVIOUS
<1>4. TypeOK
  BY <1>1, <1>2, <1>3 DEF Init, TypeOK, Statuses
<1>5. Queues
  BY <1>2, <1>3, EmptyOnce DEF Init, Queues, ReadyAgrees, WaitersAgree, OneRuns, Statuses
<1>6. Ownership
  <2>1. \A l \in Locks : l \in Synchs
    BY DEF Synchs
  <2> QED BY <1>2, <2>1, EmptyOnce DEF Init, Ownership, LockOwnership, InRelease
<1>7. Donations
  BY <1>1, <1>2 DEF Init, Donations, DonationReturned
<1>8. NoLostWakeup
  BY DEF Init, NoLostWakeup
<1> QED BY <1>4, <1>5, <1>6, <1>7, <1>8 DEF IInv

\* What an action has to keep.
LEMMA Kept ==
  ASSUME Queues', running' \in Threads \cup {Idle}, Held', NoLostWakeup'
  PROVE  IInv'
<1>1. TypeOK'
  BY DEF Queues, ReadyAgrees, WaitersAgree, Held, OwnershipTypes, OtherTypes, TypeOK
<1> QED BY <1>1 DEF IInv, Held

LEMMA WokenRuns ==
  ASSUME NEW s, NobodyWoken(s) \/ Woken(s)
  PROVE  running' \in Threads \cup {Idle}
BY DEF NobodyWoken, Woken, Switched

LEMMA InvNext == IInv /\ [Next]_vars => IInv'
<1> SUFFICES ASSUME IInv, [Next]_vars PROVE IInv'
  OBVIOUS
<1> USE DEF IInv
<1>1. ASSUME NEW t \in Threads, NEW c \in Threads, NEW p \in Priorities, Create(t, c, p)
      PROVE  IInv'
  <2>1. Queues' /\ Switched([status EXCEPT ![c] = "ready"]) /\ Held'
    BY <1>1, CreateQueues, CreateHeld
  <2>2. NoLostWakeup'
    <3>1. cont[t] = "user" /\ UNCHANGED <<value, waiters, cont, target>> /\ value' \in [Synchs -> Nat]
      BY <1>1 DEF Create, Calls, semaVars, TypeOK
    <3>2. \A s \in Synchs : value'[s] <= value[s]
      BY <3>1 DEF TypeOK
    <3>3. \A u \in Threads : status[u] \in {"ready", "running"} =>
            [status EXCEPT ![c] = "ready"][u] \in {"ready", "running"}
      BY DEF TypeOK
    <3> QED BY <2>1, <3>1, <3>2, <3>3, QuietHeard
  <2> QED BY <2>1, <2>2, Kept DEF Switched
<1>2. ASSUME NEW t \in Threads, Exit(t) PROVE IInv'
  <2>1. Queues' /\ Switched([status EXCEPT ![t] = "dying"])
    BY <1>2, ExitQueues
  <2>2. Held'
    BY <1>2, ListsOnlyHeld DEF Exit, semaVars, TypeOK
  <2>3. NoLostWakeup'
    <3>1. cont[t] = "user" /\ UNCHANGED <<value, waiters, cont, target>> /\ value' \in [Synchs -> Nat]
      BY <1>2 DEF Exit, Calls, semaVars, TypeOK
    <3>2. \A s \in Synchs : value'[s] <= value[s]
      BY <3>1 DEF TypeOK
    <3>3. \A u \in Threads : u # t => [status EXCEPT ![t] = "dying"][u] = status[u]
      BY DEF TypeOK
    <3> QED BY <2>1, <3>1, <3>2, <3>3, QuietHeard
  <2> QED BY <2>1, <2>2, <2>3, Kept DEF Switched
<1>3. ASSUME NEW t \in Threads, Yield(t) PROVE IInv'
  <2>1. Queues' /\ Switched(status)
    BY <1>3, YieldQueues
  <2>2. Held'
    BY <1>3, ListsOnlyHeld DEF Yield, semaVars, TypeOK
  <2>3. NoLostWakeup'
    <3>1. cont[t] = "user" /\ UNCHANGED <<value, waiters, cont, target>> /\ value' \in [Synchs -> Nat]
      BY <1>3 DEF Yield, Calls, semaVars, TypeOK
    <3>2. \A s \in Synchs : value'[s] <= value[s]
      BY <3>1 DEF TypeOK
    <3> QED BY <2>1, <3>1, <3>2, QuietHeard
  <2> QED BY <2>1, <2>2, <2>3, Kept DEF Switched
<1>4. ASSUME NEW t \in Threads, NEW p \in Priorities, SetPriority(t, p) PROVE IInv'
  <2>1. Queues' /\ Switched(status) /\ Held'
    BY <1>4, SetPriorityQueues, SetPriorityHeld
  <2>2. NoLostWakeup'
    <3>1. cont[t] = "user" /\ UNCHANGED <<value, waiters, cont, target>> /\ value' \in [Synchs -> Nat]
      BY <1>4 DEF SetPriority, Calls, semaVars, TypeOK
    <3>2. \A s \in Synchs : value'[s] <= value[s]
      BY <3>1 DEF TypeOK
    <3> QED BY <2>1, <3>1, <3>2, QuietHeard
  <2> QED BY <2>1, <2>2, Kept DEF Switched
<1>5. ASSUME NEW t \in Threads, NEW l \in Locks, AcquireFree(t, l) PROVE IInv'
  <2>1. Queues' /\ Switched(status)
    BY <1>5, AcquireFreeQueues
  <2>2. Held'
    BY <1>5, AcquiredHeld, CallerThread DEF AcquireFree
  <2>3. NoLostWakeup'
    BY <1>5, AcquireFreeHeard
  <2> QED BY <2>1, <2>2, <2>3, Kept DEF Switched
<1>6. ASSUME NEW t \in Threads, NEW l \in Locks, AcquireTaken(t, l) PROVE IInv'
  <2>1. Queues' /\ Switched([status EXCEPT ![t] = "blocked"])
    BY <1>6, AcquireTakenQueues
  <2>2. Held' /\ NoLostWakeup'
    BY <1>6, AcquireTakenHeld, AcquireTakenHeard
  <2> QED BY <2>1, <2>2, Kept DEF Switched
<1>7. ASSUME NEW t \in Threads, NEW l \in Locks, Release(t, l) PROVE IInv'
  <2>1. Queues' /\ (NobodyWoken(l) \/ Woken(l)) /\ Held' /\ NoLostWakeup'
    BY <1>7, ReleaseQueues, ReleaseHeld, ReleaseHeard
  <2> QED BY <2>1, WokenRuns, Kept
<1>8. ASSUME NEW t \in Threads, NEW s \in Semas, Down(t, s) PROVE IInv'
  <2>1. Queues' /\ running' \in Threads \cup {Idle}
    BY <1>8, DownQueues DEF Switched
  <2>2. Held' /\ NoLostWakeup'
    BY <1>8, DownHeld, DownHeard
  <2> QED BY <2>1, <2>2, Kept
<1>9. ASSUME NEW t \in Threads, NEW s \in Semas, Up(t, s) PROVE IInv'
  <2>1. Queues' /\ (NobodyWoken(s) \/ Woken(s))
    BY <1>9, UpQueues
  <2>2. /\ cont[t] = "user" /\ s \in Synchs /\ value' = [value EXCEPT ![s] = @ + 1]
        /\ UNCHANGED <<priority, basePriority, waitingLock, locksOwned, cont, target, holder, fault>>
    BY <1>9 DEF Up, Calls, Synchs
  <2>3. Held' /\ NoLostWakeup'
    BY <2>1, <2>2, UpHeld, UpHeard
  <2> QED BY <2>1, <2>3, WokenRuns, Kept
<1>10. ASSUME NEW t \in Threads, ResumeDown(t) PROVE IInv'
  <2>1. target[t] \in Synchs /\ value[target[t]] \in Nat
    BY <1>10 DEF ResumeDown, Ownership, TypeOK
  <2>2. Queues' /\ running' \in Threads \cup {Idle}
    BY <1>10, <2>1, ResumeDownQueues DEF Switched
  <2>3. Held' /\ NoLostWakeup'
    BY <1>10, ResumeDownHeld, ResumeDownHeard
  <2> QED BY <2>2, <2>3, Kept
<1>11. ASSUME NEW t \in Threads, ResumeReleased(t) PROVE IInv'
  <2>1. Queues' /\ Switched(status) /\ Held' /\ NoLostWakeup'
    BY <1>11, ResumeReleasedQueues, ResumeReleasedHeld, ResumeReleasedHeard
  <2> QED BY <2>1, Kept DEF Switched
<1>12. ASSUME NEW s \in Semas, InterruptUp(s) PROVE IInv'
  <2>1. Queues' /\ (NobodyWoken(s) \/ Woken(s))
    BY <1>12, InterruptUpQueues
  <2>2. /\ s \in Synchs /\ value' = [value EXCEPT ![s] = @ + 1] /\ Idle \notin Threads
        /\ UNCHANGED <<priority, basePriority, waitingLock, locksOwned, cont, target, holder, fault>>
    BY <1>12, ThreadsAssumption DEF InterruptUp, Synchs
  <2>3. Held' /\ NoLostWakeup'
    BY <2>1, <2>2, UpHeld, UpHeard
  <2> QED BY <2>1, <2>3, WokenRuns, Kept
<1>13. ASSUME IdleLoop PROVE IInv'
  <2>1. Queues' /\ Switched(status)
    BY <1>13, IdleLoopQueues
  <2>2. Held'
    BY <1>13, ListsOnlyHeld DEF IdleLoop, semaVars, TypeOK
  <2>3. NoLostWakeup'
    <3>1. UNCHANGED <<value, waiters, cont, target>> /\ value' \in [Synchs -> Nat] /\ Idle \notin Threads
      BY <1>13, ThreadsAssumption DEF IdleLoop, semaVars, TypeOK
    <3>2. \A s \in Synchs : value'[s] <= value[s]
      BY <3>1 DEF TypeOK
    <3> QED BY <2>1, <3>1, <3>2, QuietHeard
  <2> QED BY <2>1, <2>2, <2>3, Kept DEF Switched
<1>14. ASSUME UNCHANGED vars PROVE IInv'
  <2>1. UNCHANGED <<status, priority, basePriority, waitingLock, locksOwned, cont, target,
                    running, readyList, value, waiters, holder, fault>>
    BY <1>14 DEF vars, threadVars, semaVars
  <2>2. Queues' /\ NoLostWakeup'
    BY <2>1 DEF Queues, OneRuns, NoLostWakeup
  <2>3. Held' /\ running' \in Threads \cup {Idle}
    BY <2>1, ListsOnlyHeld DEF TypeOK
  <2> QED BY <2>2, <2>3, Kept
<1> QED BY <1>1, <1>2, <1>3, <1>4, <1>5, <1>6, <1>7, <1>8, <1>9, <1>10, <1>11, <1>12, <1>13, <1>14
        DEF Next

LEMMA Invariance == Spec => []IInv
BY InvInit, InvNext, PTL DEF Spec

-----------------------------------------------------------------------------
(* The order of the ready list.                                            *)

\* HighestPriorityRuns, but for a running thread inside sema_down and
\* lock_release, too.
Order ==
  /\ Sorted(readyList, priority)
  /\ running # Idle /\ fault = "none" =>
       \A i \in 1..Len(readyList) : priority[readyList[i]] <= priority[running]

\* The order after a switch, with the priorities that then hold.
Ordered(prio) ==
  /\ Sorted(readyList', prio)
  /\ running' # Idle => \A i \in 1..Len(readyList') : prio[readyList'[i]] <= prio[running']

LEMMA ScheduleOrdered ==
  ASSUME NEW ready \in Seq(Threads), NEW prio \in [Threads -> Int], Sorted(ready, prio),
         NEW st, Schedule(ready, st)
  PROVE  Ordered(prio)
BY ZenonT(60), HeadHighest DEF Schedule, Ordered

LEMMA YieldOrdered ==
  ASSUME NEW t \in Threads, NEW ready \in Seq(Threads), NEW prio \in [Threads -> Int],
         Sorted(ready, prio), Once(ready), ~Contains(ready, t), NEW st, YieldTo(t, ready, st, prio)
  PROVE  Ordered(prio)
<1>1. InsertOrdered(ready, t, prio) \in Seq(Threads)
  BY InsertOrderedOnce
<1>2. Sorted(InsertOrdered(ready, t, prio), prio)
  BY InsertOrderedSorted
<1> QED BY <1>1, <1>2, ScheduleOrdered DEF YieldTo

LEMMA MaybeYieldOrdered ==
  ASSUME NEW t \in Threads, running = t, NEW ready \in Seq(Threads), NEW prio \in [Threads -> Int],
         Sorted(ready, prio), Once(ready), ~Contains(ready, t), NEW st, MaybeYield(t, ready, st, prio)
  PROVE  Ordered(prio)
<1>1. CASE Outranked(prio[t], ready, prio)
  BY <1>1, YieldOrdered DEF MaybeYield
<1>2. CASE ~Outranked(prio[t], ready, prio)
  <2>1. readyList' = ready /\ running' = t
    BY <1>2 DEF MaybeYield
  <2>2. ASSUME NEW i \in 1..Len(ready) PROVE prio[ready[i]] <= prio[t]
    <3>1. ready # <<>> /\ Head(ready) \in Threads /\ ready[i] \in Threads
      OBVIOUS
    <3>2. prio[ready[i]] <= prio[Head(ready)]
      BY <3>1, HeadHighest
    <3>3. ~(prio[t] < prio[Head(ready)])
      BY <1>2, <3>1 DEF Outranked
    <3>4. prio[ready[i]] \in Int /\ prio[Head(ready)] \in Int /\ prio[t] \in Int
      BY <3>1
    <3> QED BY <3>2, <3>3, <3>4
  <2> QED BY <2>1, <2>2 DEF Ordered
<1> QED BY <1>1, <1>2

\* The chain of donations ends at a thread that is not blocked: at most one
\* thread in it is ready.
LEMMA OneReadyDonee ==
  ASSUME NEW l \in Locks, NEW d \in DonationChain(l), NEW e \in DonationChain(l),
         status[d] = "ready", status[e] = "ready"
  PROVE  d = e
<1> DEFINE Path(c, n, last) ==
             /\ c[0] = holder[l] /\ c[n] = last
             /\ \A i \in 1..n : /\ status[c[i - 1]] = "blocked"
                                /\ c[i] = holder[waitingLock[c[i - 1]]]
<1>1. PICK n \in 0..MaxNesting - 1 : \E c \in [0..n -> Threads] : Path(c, n, d)
  BY DEF DonationChain
<1>2. PICK c \in [0..n -> Threads] : Path(c, n, d)
  BY <1>1
<1>3. PICK m \in 0..MaxNesting - 1 : \E f \in [0..m -> Threads] : Path(f, m, e)
  BY DEF DonationChain
<1>4. PICK f \in [0..m -> Threads] : Path(f, m, e)
  BY <1>3
<1>5. n \in Nat /\ m \in Nat
  BY ThreadsAssumption
<1>6. \A i \in Nat : i <= n /\ i <= m => c[i] = f[i]
  <2> DEFINE differ == {i \in Nat : i <= n /\ i <= m /\ c[i] # f[i]}
  <2> SUFFICES ASSUME differ # {} PROVE FALSE
    OBVIOUS
  <2>1. PICK k \in differ : \A i \in differ : k <= i
    <3>1. differ \in SUBSET Nat
      OBVIOUS
    <3> HIDE DEF differ
    <3> QED BY <3>1, LeastNatural
  <2>2. k # 0
    BY <1>2, <1>4
  <2>3. k - 1 \in Nat /\ k - 1 <= n /\ k - 1 <= m /\ k - 1 \notin differ /\ k \in 1..n /\ k \in 1..m
    BY <1>5, <2>1, <2>2
  <2>4. c[k - 1] = f[k - 1]
    BY <2>3
  <2> QED BY <1>2, <1>4, <2>3, <2>4
<1>7. CASE n < m
  <2>1. f[n] = d /\ n + 1 \in 1..m /\ (n + 1) - 1 = n
    BY <1>2, <1>5, <1>6, <1>7
  <2> QED BY <1>4, <2>1
<1>8. CASE m < n
  <2>1. c[m] = e /\ m + 1 \in 1..n /\ (m + 1) - 1 = m
    BY <1>4, <1>5, <1>6, <1>8
  <2> QED BY <1>2, <2>1
<1>9. CASE n = m
  BY <1>2, <1>4, <1>5, <1>6, <1>9
<1> QED BY <1>5, <1>7, <1>8, <1>9

\* The ready list holds neither the running thread nor a blocked or new one.
LEMMA NotReady ==
  ASSUME Queues, NEW t \in Threads, status[t] # "ready"
  PROVE  /\ ~Contains(readyList, t)
         /\ readyList \in Seq(Threads) /\ Once(readyList)
BY DEF Queues, ReadyAgrees

\* The ready list with one thread more.
LEMMA InsertedOrdered ==
  ASSUME Queues, NEW prio \in [Threads -> Int], Sorted(readyList, prio),
         NEW w \in Threads, status[w] # "ready"
  PROVE  /\ InsertOrdered(readyList, w, prio) \in Seq(Threads)
         /\ Once(InsertOrdered(readyList, w, prio))
         /\ Sorted(InsertOrdered(readyList, w, prio), prio)
         /\ \A t \in Threads : status[t] = "running" /\ t # w =>
              ~Contains(InsertOrdered(readyList, w, prio), t)
<1>1. ~Contains(readyList, w) /\ readyList \in Seq(Threads) /\ Once(readyList)
  BY NotReady
<1>2. Sorted(InsertOrdered(readyList, w, prio), prio)
  BY <1>1, InsertOrderedSorted
<1>3. /\ InsertOrdered(readyList, w, prio) \in Seq(Threads)
      /\ Once(InsertOrdered(readyList, w, prio))
      /\ \A x : Contains(InsertOrdered(readyList, w, prio), x) <=> Contains(readyList, x) \/ x = w
  BY <1>1, InsertOrderedOnce
<1>4. \A t \in Threads : status[t] = "running" => ~Contains(readyList, t)
  BY NotReady
<1> QED BY <1>2, <1>3, <1>4

\* A change of the priority of one thread that is not ready.
LEMMA ChangedOrdered ==
  ASSUME TypeOK, Queues, Order, NEW t \in Threads, status[t] # "ready", NEW p \in Int
  PROVE  /\ [priority EXCEPT ![t] = p] \in [Threads -> Int]
         /\ Sorted(readyList, [priority EXCEPT ![t] = p])
<1> DEFINE prio == [priority EXCEPT ![t] = p]
<1>1. prio \in [Threads -> Int] /\ \A u \in Threads : u # t => prio[u] = priority[u]
  BY DEF TypeOK
<1>2. ~Contains(readyList, t) /\ readyList \in Seq(Threads)
  BY NotReady
<1>3. \A x : Contains(readyList, x) => x \in Threads /\ x # t
  BY <1>2 DEF Contains
<1> HIDE DEF prio
<1>4. Sorted(readyList, prio)
  BY <1>1, <1>2, <1>3, SortedElsewhere DEF Order
<1> QED BY <1>1, <1>4 DEF prio

\* What is left to show of an action.
LEMMA OrderedOrder ==
  ASSUME Ordered(priority')
  PROVE  Order'
BY DEF Ordered, Order

LEMMA CreateOrder ==
  ASSUME TypeOK, Queues, Order, NEW t \in Threads, NEW c \in Threads, NEW p \in Priorities,
         Create(t, c, p)
  PROVE  Order'
<1> DEFINE prio == [priority EXCEPT ![c] = p]
           ready == InsertOrdered(readyList, c, prio)
<1>1. running = t /\ status[t] = "running" /\ status[c] = "new" /\ t # c /\ p \in Int
  BY RunningThread, ThreadsAssumption DEF Create, Calls
<1>2. priority' = prio /\ \E st : MaybeYield(t, ready, st, prio)
  BY DEF Create
<1>3. prio \in [Threads -> Int] /\ Sorted(readyList, prio)
  BY <1>1, ChangedOrdered
<1> HIDE DEF prio
<1>4. ready \in Seq(Threads) /\ Once(ready) /\ Sorted(ready, prio) /\ ~Contains(ready, t)
  BY <1>1, <1>3, InsertedOrdered
<1> HIDE DEF ready
<1>5. Ordered(prio)
  BY <1>1, <1>2, <1>3, <1>4, MaybeYieldOrdered
<1> QED BY <1>2, <1>5, OrderedOrder

LEMMA SetPriorityOrder ==
  ASSUME TypeOK, Queues, Order, NEW t \in Threads, NEW p \in Priorities, SetPriority(t, p)
  PROVE  Order'
<1> DEFINE prio == [priority EXCEPT ![t] = PrioritySet(t, p)]
<1>1. running = t /\ status[t] = "running"
  BY RunningThread DEF SetPriority, Calls
<1>2. priority' = prio /\ MaybeYield(t, readyList, status, prio)
  BY DEF SetPriority
<1>3. PrioritySet(t, p) \in Int
  BY ThreadsAssumption DEF PrioritySet, TypeOK
<1>4. prio \in [Threads -> Int] /\ Sorted(readyList, prio)
  BY <1>1, <1>3, ChangedOrdered
<1> HIDE DEF prio
<1>5. Ordered(prio)
  BY <1>1, <1>2, <1>4, NotReady, MaybeYieldOrdered
<1> QED BY <1>2, <1>5, OrderedOrder

\* thread_lock_will_wait raises at most one ready thread, which
\* shuffle_ready_thread puts where it belongs.
LEMMA AcquireTakenOrder ==
  ASSUME TypeOK, Queues, Order, NEW t \in Threads, NEW l \in Locks, AcquireTaken(t, l)
  PROVE  Order'
<1> DEFINE raised == Donees(l, priority[t])
           prio   == [d \in Threads |-> IF d \in raised THEN priority[t] ELSE priority[d]]
           moved  == {d \in raised : status[d] = "ready"}
           first  == CHOOSE d \in moved : TRUE
           ready  == IF moved = {} THEN readyList ELSE Reshuffle(readyList, first, prio)
<1>1. priority' = prio /\ BlockOn(t, l, ready)
  BY DEF AcquireTaken
<1>2. raised \subseteq DonationChain(l) /\ DonationChain(l) \subseteq Threads
  BY DEF Donees, DonationChain
<1>3. /\ prio \in [Threads -> Int]
      /\ \A u \in Threads : u \notin raised => prio[u] = priority[u]
  BY DEF TypeOK
<1>4. moved # {} => /\ first \in Threads /\ status[first] = "ready"
                    /\ \A u \in moved : u = first
  <2>1. ASSUME NEW u \in moved, NEW v \in moved PROVE u = v
    BY <1>2, OneReadyDonee
  <2> QED BY <1>2, <2>1
<1>5. \A x : Contains(readyList, x) => x \in Threads /\ status[x] = "ready"
  BY DEF Queues, ReadyAgrees, Contains
<1>6. \A x \in raised : status[x] = "ready" => x \in moved
  OBVIOUS
<1> HIDE DEF moved, first, prio, raised
<1>7. readyList \in Seq(Threads) /\ Once(readyList) /\ Sorted(readyList, priority)
  BY DEF Queues, ReadyAgrees, Order
<1>8. ready \in Seq(Threads) /\ Sorted(ready, prio)
  <2>1. CASE moved = {}
    <3>1. \A x : Contains(readyList, x) => prio[x] = priority[x]
      BY <2>1, <1>3, <1>5, <1>6
    <3> QED BY <2>1, <3>1, <1>7, SortedElsewhere
  <2>2. CASE moved # {}
    <3> DEFINE rest == Without(readyList, first)
    <3>1. first \in Threads /\ Contains(readyList, first)
      BY <1>4, <2>2 DEF Queues, ReadyAgrees
    <3>2. /\ rest \in Seq(Threads) /\ Once(rest)
          /\ \A x : Contains(rest, x) <=> Contains(readyList, x) /\ x # first
      BY <1>7, <3>1, WithoutOnce
    <3>3. Sorted(rest, priority)
      BY <1>7, <3>1, WithoutSorted
    <3> HIDE DEF rest
    <3>4. \A x : Contains(rest, x) => prio[x] = priority[x]
      BY <1>3, <1>4, <1>5, <1>6, <2>2, <3>2
    <3>5. Sorted(rest, prio)
      BY <3>2, <3>3, <3>4, SortedElsewhere
    <3>6. InsertOrdered(rest, first, prio) \in Seq(Threads)
      BY <3>1, <3>2, InsertOrderedOnce
    <3>7. Sorted(InsertOrdered(rest, first, prio), prio)
      BY <1>3, <3>1, <3>2, <3>5, InsertOrderedSorted
    <3> QED BY <2>2, <3>6, <3>7 DEF Reshuffle, rest
  <2> QED BY <2>1, <2>2
<1> HIDE DEF ready
<1>9. Ordered(prio)
  <2>1. \E st : Schedule(ready, st)
    BY <1>1 DEF BlockOn
  <2> QED BY <1>3, <1>8, <2>1, ScheduleOrdered
<1> QED BY <1>1, <1>9, OrderedOrder

\* A thread that blocks, exits or goes on, priorities unchanged.
LEMMA ScheduleOrder ==
  ASSUME TypeOK, Queues, Order, NEW st, Schedule(readyList, st), UNCHANGED priority
  PROVE  Order'
<1>1. readyList \in Seq(Threads) /\ Sorted(readyList, priority) /\ priority \in [Threads -> Int]
  BY DEF Queues, ReadyAgrees, Order, TypeOK
<1>2. Ordered(priority)
  BY <1>1, ScheduleOrdered
<1> QED BY <1>2, OrderedOrder

\* A sema_up that wakens w and yields to it if it has a higher priority.
LEMMA WakeOrder ==
  ASSUME TypeOK, Queues, Order, NEW t \in Threads, running = t, NEW w \in Threads,
         status[w] = "blocked", NEW st, UNCHANGED priority,
         \/ MaybeYield(t, InsertOrdered(readyList, w, priority), st, priority)
         \/ YieldTo(t, InsertOrdered(readyList, w, priority), st, priority)
  PROVE  Order'
<1> DEFINE ready == InsertOrdered(readyList, w, priority)
<1>1. priority \in [Threads -> Int] /\ Sorted(readyList, priority) /\ status[t] = "running"
  BY RunningThread DEF TypeOK, Order
<1>2. ready \in Seq(Threads) /\ Once(ready) /\ Sorted(ready, priority) /\ ~Contains(ready, t)
  BY <1>1, InsertedOrdered
<1> HIDE DEF ready
<1>3. Ordered(priority)
  BY <1>1, <1>2, MaybeYieldOrdered, YieldOrdered DEF ready
<1> QED BY <1>3, OrderedOrder

LEMMA UpOrder ==
  ASSUME TypeOK, Queues, Order, NEW t \in Threads, NEW s \in Semas, Up(t, s)
  PROVE  Order'
<1>1. running = t /\ s \in Synchs /\ UNCHANGED <<priority, fault>>
  BY DEF Up, Calls, Synchs
<1>2. CASE waiters[s] = <<>>
  <2>1. UNCHANGED <<running, readyList>>
    BY <1>2 DEF Up, NobodyWaits, schedVars
  <2> QED BY <1>1, <2>1 DEF Order
<1>3. CASE waiters[s] # <<>>
  <2>1. PICK i \in Highest(waiters[s], priority) :
          \E st : MaybeYield(t, InsertOrdered(readyList, waiters[s][i], priority), st, priority)
    BY <1>3 DEF Up, NobodyWaits
  <2>2. i \in 1..Len(waiters[s])
    BY DEF Highest
  <2>3. waiters[s][i] \in Threads /\ status[waiters[s][i]] = "blocked"
    BY <1>1, <2>2, WaitingThread
  <2> QED BY <1>1, <2>1, <2>3, WakeOrder
<1> QED BY <1>2, <1>3

LEMMA InterruptUpOrder ==
  ASSUME TypeOK, Queues, Order, NEW s \in Semas, InterruptUp(s)
  PROVE  Order'
<1>1. s \in Synchs /\ UNCHANGED <<priority, fault>>
  BY DEF InterruptUp, Synchs
<1>2. CASE waiters[s] = <<>>
  <2>1. UNCHANGED <<running, readyList>>
    BY <1>2 DEF InterruptUp, NobodyWaits, schedVars
  <2> QED BY <1>1, <2>1 DEF Order
<1>3. CASE waiters[s] # <<>>
  <2>1. PICK i \in Highest(waiters[s], priority) :
          LET ready == InsertOrdered(readyList, waiters[s][i], priority)
          IN  \/ running # Idle /\ \E st : MaybeYield(running, ready, st, priority)
              \/ running = Idle /\ \E st : Schedule(ready, st)
              \/ running = Idle /\ readyList' = ready /\ UNCHANGED running
    BY <1>3 DEF InterruptUp, NobodyWaits
  <2> DEFINE ready == InsertOrdered(readyList, waiters[s][i], priority)
  <2>2. i \in 1..Len(waiters[s])
    BY DEF Highest
  <2>3. waiters[s][i] \in Threads /\ status[waiters[s][i]] = "blocked"
    BY <1>1, <2>2, WaitingThread
  <2>4. priority \in [Threads -> Int] /\ ready \in Seq(Threads) /\ Sorted(ready, priority)
    BY <2>3, InsertedOrdered DEF TypeOK, Order
  <2>5. CASE running # Idle /\ \E st : MaybeYield(running, ready, st, priority)
    <3>1. running \in Threads
      BY <2>5 DEF TypeOK
    <3> QED BY <1>1, <2>3, <2>5, <3>1, WakeOrder
  <2> HIDE DEF ready
  <2>6. CASE \E st : Schedule(ready, st)
    <3>1. Ordered(priority)
      BY <2>4, <2>6, ScheduleOrdered
    <3> QED BY <1>1, <3>1, OrderedOrder
  <2>7. CASE running = Idle /\ readyList' = ready /\ UNCHANGED running
    BY <1>1, <2>4, <2>7 DEF Order
  <2> QED BY <2>1, <2>5, <2>6, <2>7 DEF ready
<1> QED BY <1>2, <1>3

\* thread_lock_released.
LEMMA LockReleasedOrder ==
  ASSUME TypeOK, NEW t \in Threads, running = t, NEW ready \in Seq(Threads), Once(ready),
         Sorted(ready, priority), ~Contains(ready, t), NEW l, NEW st, NEW wait,
         LockReleased(t, l, ready, st, wait), priority' \in [Threads -> Int]
  PROVE  Order'
<1> DEFINE highest == HighestWaiting(OwnedWithout(t, l), wait, priority)
           prio == [priority EXCEPT ![t] = Max({basePriority[t], highest})]
<1>1. CASE highest > priority[t]
  <2>1. fault' = "assert" /\ readyList' = ready /\ UNCHANGED priority
    BY <1>1 DEF LockReleased
  <2> QED BY <2>1 DEF Order
<1>2. CASE ~(highest > priority[t])
  <2>1. priority' = prio /\ MaybeYield(t, ready, st, prio)
    BY <1>2 DEF LockReleased
  <2>2. \A u \in Threads : u # t => prio[u] = priority[u]
    BY DEF TypeOK
  <2>3. \A x : Contains(ready, x) => x \in Threads /\ x # t
    BY DEF Contains
  <2> HIDE DEF prio
  <2>4. Sorted(ready, prio)
    BY <2>2, <2>3, SortedElsewhere
  <2>5. Ordered(prio)
    BY <2>1, <2>4, MaybeYieldOrdered
  <2> QED BY <2>1, <2>5, OrderedOrder
<1> QED BY <1>1, <1>2

LEMMA ReleaseOrder ==
  ASSUME TypeOK, Queues, Order, NEW t \in Threads, NEW l \in Locks, Release(t, l),
         priority' \in [Threads -> Int]
  PROVE  Order'
<1>1. running = t /\ status[t] = "running" /\ l \in Synchs
  BY RunningThread DEF Release, Calls, Synchs
<1>2. CASE waiters[l] = <<>>
  <2>1. LockReleased(t, l, readyList, status, waiters)
    BY <1>2 DEF Release, NobodyWaits
  <2> QED BY <1>1, <2>1, NotReady, LockReleasedOrder DEF Order
<1>3. CASE waiters[l] # <<>>
  <2>1. PICK i \in Highest(waiters[l], priority) :
          \E st, wait : LET ready == InsertOrdered(readyList, waiters[l][i], priority)
          IN  \/ YieldTo(t, ready, st, priority) /\ UNCHANGED priority
              \/ LockReleased(t, l, ready, st, wait)
    BY <1>3 DEF Release, NobodyWaits
  <2> DEFINE ready == InsertOrdered(readyList, waiters[l][i], priority)
  <2>2. i \in 1..Len(waiters[l])
    BY DEF Highest
  <2>3. waiters[l][i] \in Threads /\ status[waiters[l][i]] = "blocked"
    BY <1>1, <2>2, WaitingThread
  <2>4. ready \in Seq(Threads) /\ Once(ready) /\ Sorted(ready, priority) /\ ~Contains(ready, t)
    BY <1>1, <2>3, InsertedOrdered DEF TypeOK, Order
  <2>5. CASE \E st : YieldTo(t, ready, st, priority) /\ UNCHANGED priority
    BY <1>1, <2>3, <2>5, WakeOrder
  <2> HIDE DEF ready
  <2>6. CASE \E st, wait : LockReleased(t, l, ready, st, wait)
    BY <1>1, <2>4, <2>6, LockReleasedOrder
  <2> QED BY <2>1, <2>5, <2>6 DEF ready
<1> QED BY <1>2, <1>3

LEMMA OrderInit == Init => Order
<1>1. Len(<<>>) = 0
  OBVIOUS
<1> QED BY <1>1 DEF Init, Order, Sorted

LEMMA OrderNext == IInv /\ IInv' /\ Order /\ [Next]_vars => Order'
<1> SUFFICES ASSUME IInv, IInv', Order, [Next]_vars PROVE Order'
  OBVIOUS
<1> USE DEF IInv
<1>1. ASSUME NEW t \in Threads, Exit(t) PROVE Order'
  BY <1>1, ScheduleOrder DEF Exit
<1>2. ASSUME NEW t \in Threads, Yield(t) PROVE Order'
  <2>1. /\ running = t /\ YieldTo(t, readyList, status, priority) /\ UNCHANGED priority
        /\ status[t] = "running"
    BY <1>2, RunningThread DEF Yield, Calls
  <2>2. Ordered(priority)
    BY <2>1, NotReady, YieldOrdered DEF Order, TypeOK
  <2> QED BY <2>1, <2>2, OrderedOrder
<1>3. ASSUME NEW t \in Threads, NEW l \in Locks, AcquireFree(t, l) PROVE Order'
  BY <1>3 DEF AcquireFree, Order
<1>4. ASSUME NEW t \in Threads, NEW s \in Semas, Down(t, s) PROVE Order'
  BY <1>4, ScheduleOrder DEF Down, BlockOn, schedVars, Order
<1>5. ASSUME NEW t \in Threads, ResumeDown(t) PROVE Order'
  BY <1>5, ScheduleOrder DEF ResumeDown, BlockOn, schedVars, Order
<1>6. ASSUME NEW t \in Threads, ResumeReleased(t) PROVE Order'
  <2>1. running = t /\ status[t] = "running"
    BY <1>6, RunningThread DEF ResumeReleased
  <2>2. CASE cont[t] = "dangling"
    BY <1>6, <2>2 DEF ResumeReleased, threadVars, Order
  <2>3. CASE cont[t] # "dangling"
    <3>1. LockReleased(t, target[t], readyList, status, waiters)
      BY <1>6, <2>3 DEF ResumeReleased
    <3> QED BY <2>1, <3>1, NotReady, LockReleasedOrder DEF Order, TypeOK
  <2> QED BY <2>2, <2>3
<1>7. ASSUME NEW t \in Threads, NEW l \in Locks, Release(t, l) PROVE Order'
  BY <1>7, ReleaseOrder DEF TypeOK
<1>8. ASSUME IdleLoop PROVE Order'
  BY <1>8, ScheduleOrder DEF IdleLoop
<1>9. ASSUME UNCHANGED vars PROVE Order'
  BY <1>9 DEF vars, threadVars, Order
<1> QED BY <1>1, <1>2, <1>3, <1>4, <1>5, <1>6, <1>7, <1>8, <1>9, CreateOrder, SetPriorityOrder,
           AcquireTakenOrder, UpOrder, InterruptUpOrder DEF Next

LEMMA OrderInvariance == Spec => []Order
BY OrderInit, OrderNext, Invariance, PTL DEF Spec

-----------------------------------------------------------------------------
(* Locks that are not nested.                                              *)

\* No thread owns two locks, and none waits for a lock while it owns another.
NotNested ==
  \A t \in Threads :
    /\ Len(locksOwned[t]) <= 1
    /\ cont[t] = "down" /\ target[t] \in Locks => locksOwned[t] = <<>>

\* No lock_release is interrupted by its own sema_up, and no assertion has failed.
NoneInRelease == fault = "none" /\ \A t \in Threads : ~InRelease(t)

\* A thread that has not started or has exited owns no lock.
OutsideOwnsNone ==
  \A t \in Threads : status[t] \in {"new", "dying"} => cont[t] = "user" /\ locksOwned[t] = <<>>

\* The holder of a lock has the priority of all that are inside its sema_down,
\* those that have been wakened and have not run yet included.
HolderRaised ==
  \A l \in Locks, t \in Threads :
    cont[t] = "down" /\ target[t] = l /\ holder[l] # NULL => priority[holder[l]] >= priority[t]

\* While threads queue on a free lock, one of the priority of each of them is
\* awake inside its sema_down.
HighestAwake ==
  \A l \in Locks, t \in Threads :
    status[t] = "blocked" /\ target[t] = l /\ holder[l] = NULL =>
      \E u \in Threads : /\ cont[u] = "down" /\ target[u] = l
                         /\ status[u] \in {"ready", "running"}
                         /\ priority[u] >= priority[t]

Calm == NoneInRelease /\ OutsideOwnsNone /\ HolderRaised /\ HighestAwake

\* The threads outside after a switch.
LEMMA OutsideKept ==
  ASSUME NEW st, Switched(st),
         \A u \in Threads : st[u] \in {"new", "dying"} => cont'[u] = "user" /\ locksOwned'[u] = <<>>
  PROVE  OutsideOwnsNone'
<1> SUFFICES ASSUME NEW u \in Threads, status'[u] \in {"new", "dying"}
             PROVE  cont'[u] = "user" /\ locksOwned'[u] = <<>>
  BY DEF OutsideOwnsNone
<1>1. status'[u] = st[u]
  BY DEF Switched
<1> QED BY <1>1

\* A step that gives no lock away: nobody comes to wait for a lock, those that
\* wait keep their priority, a holder loses none, and a thread that is awake
\* inside the sema_down of a free lock stays awake.
LEMMA WaitersKept ==
  ASSUME TypeOK, Calm, priority' \in [Threads -> Int], UNCHANGED holder,
         NEW st, Switched(st),
         \A u \in Threads : cont'[u] = "down" /\ target'[u] \in Locks =>
           cont[u] = "down" /\ target'[u] = target[u],
         \A u \in Threads : cont[u] = "down" /\ target[u] \in Locks =>
           /\ cont'[u] = "down" /\ target'[u] = target[u] /\ priority'[u] = priority[u]
           /\ holder[target[u]] = NULL => st[u] = status[u],
         \A l \in Locks : holder[l] # NULL => priority'[holder[l]] >= priority[holder[l]],
         Queues'
  PROVE  HolderRaised' /\ HighestAwake'
<1>1. ASSUME NEW l \in Locks, NEW t \in Threads,
             cont'[t] = "down", target'[t] = l, holder'[l] # NULL
      PROVE  priority'[holder'[l]] >= priority'[t]
  <2>1. cont[t] = "down" /\ target[t] = l /\ priority'[t] = priority[t]
    BY <1>1
  <2>2. priority[holder[l]] >= priority[t]
    BY <1>1, <2>1 DEF Calm, HolderRaised
  <2>3. priority'[holder[l]] >= priority[holder[l]]
    BY <1>1
  <2>4. holder[l] \in Threads
    BY <1>1 DEF TypeOK
  <2>5. priority'[holder[l]] \in Int /\ priority[holder[l]] \in Int /\ priority[t] \in Int
    BY <2>4 DEF TypeOK
  <2> QED BY <2>1, <2>2, <2>3, <2>5
<1>2. ASSUME NEW l \in Locks, NEW t \in Threads,
             status'[t] = "blocked", target'[t] = l, holder'[l] = NULL
      PROVE  \E u \in Threads : /\ cont'[u] = "down" /\ target'[u] = l
                                /\ status'[u] \in {"ready", "running"}
                                /\ priority'[u] >= priority'[t]
  <2>1. cont'[t] = "down"
    BY <1>2 DEF Queues
  <2>2. cont[t] = "down" /\ target[t] = l /\ priority'[t] = priority[t]
    BY <1>2, <2>1
  <2>3. st[t] = status[t] /\ st[t] = "blocked"
    BY <1>2, <2>2 DEF Switched
  <2>4. PICK u \in Threads : /\ cont[u] = "down" /\ target[u] = l
                             /\ status[u] \in {"ready", "running"}
                             /\ priority[u] >= priority[t]
    BY <1>2, <2>2, <2>3 DEF Calm, HighestAwake
  <2>5. /\ cont'[u] = "down" /\ target'[u] = l /\ priority'[u] = priority[u]
        /\ st[u] = status[u]
    BY <1>2, <2>4
  <2>6. status'[u] \in {"ready", "running"}
    BY <2>4, <2>5 DEF Switched
  <2> QED BY <2>2, <2>4, <2>5, <2>6
<1> QED BY <1>1, <1>2 DEF HolderRaised, HighestAwake

\* A thread that owns no lock holds none.
LEMMA OwnsNoneHoldsNone ==
  ASSUME Ownership, NEW t \in Threads, locksOwned[t] = <<>>, NEW l \in Locks
  PROVE  holder[l] # t
BY EmptyOnce DEF Ownership, LockOwnership

LEMMA CreateCalm ==
  ASSUME TypeOK, Queues, Ownership, Calm, Queues', Held', NEW t \in Threads, NEW c \in Threads,
         NEW p \in Priorities, Create(t, c, p)
  PROVE  Calm'
<1> DEFINE st == [status EXCEPT ![c] = "ready"]
<1>1. /\ status[c] = "new" /\ priority' = [priority EXCEPT ![c] = p]
      /\ UNCHANGED <<locksOwned, cont, target, holder, fault>>
  BY DEF Create
<1>2. Switched(st) /\ \A u \in Threads : st[u] = IF u = c THEN "ready" ELSE status[u]
  BY CreateQueues DEF TypeOK
<1> HIDE DEF st
<1>3. cont[c] = "user" /\ locksOwned[c] = <<>>
  BY <1>1 DEF Calm, OutsideOwnsNone
<1>4. OutsideOwnsNone'
  BY <1>1, <1>2, OutsideKept DEF Calm, OutsideOwnsNone
<1>5. priority' \in [Threads -> Int] /\ \A u \in Threads : u # c => priority'[u] = priority[u]
  BY <1>1 DEF Held, OtherTypes
<1>6. \A l \in Locks : holder[l] # NULL => holder[l] \in Threads /\ priority'[holder[l]] = priority[holder[l]]
  BY <1>3, <1>5, OwnsNoneHoldsNone DEF TypeOK
<1>7. \A l \in Locks : holder[l] # NULL => priority'[holder[l]] >= priority[holder[l]]
  BY <1>6 DEF TypeOK
<1>8. HolderRaised' /\ HighestAwake'
  BY <1>1, <1>2, <1>3, <1>5, <1>7, WaitersKept
<1> QED BY <1>1, <1>4, <1>8 DEF Calm, NoneInRelease, InRelease

\* Steps of the running thread t that change no priority and leave cont,
\* target, holder and locksOwned alone.
LEMMA QuietCalm ==
  ASSUME TypeOK, Calm, Queues', Held',
         UNCHANGED <<priority, locksOwned, cont, target, holder, fault>>,
         NEW st, Switched(st),
         \A u \in Threads : st[u] \in {"new", "dying"} => cont[u] = "user" /\ locksOwned[u] = <<>>,
         \A u \in Threads : cont[u] = "down" /\ target[u] \in Locks => st[u] = status[u]
  PROVE  Calm'
<1>1. OutsideOwnsNone'
  BY OutsideKept
<1>2. priority' \in [Threads -> Int]
  BY DEF TypeOK
<1>3. \A l \in Locks : holder[l] # NULL => priority'[holder[l]] >= priority[holder[l]]
  BY DEF TypeOK
<1>4. HolderRaised' /\ HighestAwake'
  BY <1>2, <1>3, WaitersKept
<1> QED BY <1>1, <1>4 DEF Calm, NoneInRelease, InRelease

\* A sema_up of a plain semaphore.
LEMMA UpCalm ==
  ASSUME TypeOK, Queues, Calm, Queues', Held', NEW s \in Semas, NobodyWoken(s) \/ Woken(s),
         UNCHANGED <<priority, locksOwned, cont, target, holder, fault>>
  PROVE  Calm'
<1>1. CASE NobodyWoken(s)
  BY <1>1, QuietCalm DEF NobodyWoken, Calm, OutsideOwnsNone
<1>2. CASE Woken(s)
  <2>1. PICK i \in 1..Len(waiters[s]) : Switched([status EXCEPT ![waiters[s][i]] = "ready"])
    BY <1>2 DEF Woken
  <2> DEFINE w == waiters[s][i]
             st == [status EXCEPT ![w] = "ready"]
  <2>2. w \in Threads /\ target[w] \notin Locks
    BY WaitingThread, ThreadsAssumption DEF Synchs
  <2>3. \A u \in Threads : st[u] = IF u = w THEN "ready" ELSE status[u]
    BY DEF TypeOK
  <2> HIDE DEF w
  <2>4. Switched(st)
    BY <2>1 DEF w
  <2> HIDE DEF st
  <2> QED BY <2>2, <2>3, <2>4, QuietCalm DEF Calm, OutsideOwnsNone
<1> QED BY <1>1, <1>2

LEMMA SetPriorityCalm ==
  ASSUME TypeOK, Queues, Ownership, Calm, Queues', Held', PriorityChange # "always",
         NEW t \in Threads, NEW p \in Priorities, SetPriority(t, p)
  PROVE  Calm'
<1>1. /\ cont[t] = "user" /\ locksOwned[t] = <<>>
      /\ priority' = [priority EXCEPT ![t] = PrioritySet(t, p)]
      /\ UNCHANGED <<locksOwned, cont, target, holder, fault>>
  BY ThreadsAssumption DEF SetPriority, Calls
<1>2. Switched(status)
  BY SetPriorityQueues
<1>3. OutsideOwnsNone'
  BY <1>1, <1>2, OutsideKept DEF Calm, OutsideOwnsNone
<1>4. priority' \in [Threads -> Int] /\ \A u \in Threads : u # t => priority'[u] = priority[u]
  BY <1>1 DEF Held, OtherTypes
<1>5. \A l \in Locks : holder[l] # NULL => holder[l] \in Threads /\ priority'[holder[l]] = priority[holder[l]]
  BY <1>1, <1>4, OwnsNoneHoldsNone DEF TypeOK
<1>6. \A l \in Locks : holder[l] # NULL => priority'[holder[l]] >= priority[holder[l]]
  BY <1>5 DEF TypeOK
<1>7. HolderRaised' /\ HighestAwake'
  BY <1>1, <1>2, <1>4, <1>6, WaitersKept
<1> QED BY <1>1, <1>3, <1>7 DEF Calm, NoneInRelease, InRelease

\* sema_down of a plain semaphore.
LEMMA DownCalm ==
  ASSUME TypeOK, Queues, Calm, Queues', Held', NEW t \in Threads, NEW s \in Semas, Down(t, s)
  PROVE  Calm'
<1>1. /\ cont[t] = "user" /\ running = t /\ s \notin Locks
      /\ UNCHANGED <<priority, locksOwned, holder, fault>>
  BY ThreadsAssumption DEF Down, Calls
<1>2. status[t] = "running"
  BY <1>1, RunningThread
<1>3. CASE value[s] > 0
  <2>1. UNCHANGED <<cont, target>> /\ Switched(status)
    BY <1>3, DownQueues DEF Down
  <2> QED BY <1>1, <2>1, QuietCalm DEF Calm, OutsideOwnsNone
<1>4. CASE ~(value[s] > 0)
  <2> DEFINE st == [status EXCEPT ![t] = "blocked"]
  <2>1. /\ cont' = [cont EXCEPT ![t] = "down"]
        /\ target' = [target EXCEPT ![t] = s]
    BY <1>4 DEF Down, BlockOn
  <2>2. Switched(st) /\ \A u \in Threads : st[u] = IF u = t THEN "blocked" ELSE status[u]
    BY <1>4, DownQueues DEF TypeOK
  <2> HIDE DEF st
  <2>3. \A u \in Threads : /\ cont'[u] = (IF u = t THEN "down" ELSE cont[u])
                           /\ target'[u] = IF u = t THEN s ELSE target[u]
    BY <2>1 DEF TypeOK
  <2>4. OutsideOwnsNone'
    BY <1>1, <1>2, <2>2, <2>3, OutsideKept DEF Calm, OutsideOwnsNone
  <2>5. priority' \in [Threads -> Int]
    BY DEF Held, OtherTypes
  <2>6. \A l \in Locks : holder[l] # NULL => priority'[holder[l]] >= priority[holder[l]]
    BY <1>1 DEF TypeOK
  <2>7. HolderRaised' /\ HighestAwake'
    BY <1>1, <2>2, <2>3, <2>5, <2>6, WaitersKept
  <2>8. NoneInRelease'
    BY <1>1, <2>3 DEF Calm, NoneInRelease, InRelease
  <2> QED BY <2>4, <2>7, <2>8 DEF Calm
<1> QED BY <1>3, <1>4

\* The running thread has the priority of every thread that is ready.
LEMMA RunningHighest ==
  ASSUME Queues, Order, NEW t \in Threads, running = t, fault = "none",
         NEW u \in Threads, status[u] = "ready"
  PROVE  priority[u] <= priority[t]
<1>1. Contains(readyList, u)
  BY DEF Queues, ReadyAgrees
<1>2. t # Idle
  BY ThreadsAssumption
<1> QED BY <1>1, <1>2 DEF Order, Contains

\* The running thread acquires a free lock, first or after others that wait:
\* its priority is that of every thread awake inside sema_down of the lock, and
\* one of those has the priority of every thread in the queue.
LEMMA AcquiredCalm ==
  ASSUME TypeOK, Queues, Order, Ownership, Calm, Queues', NEW t \in Threads, NEW l \in Locks, running = t,
         value[l] > 0, LockAcquired(t, l), UNCHANGED <<priority, fault>>, Switched(status),
         cont[t] = "down" => target[t] = l
  PROVE  Calm'
<1>1. holder[l] = NULL
  <2>1. value[l] = IF holder[l] = NULL THEN 1 ELSE 0
    BY DEF Ownership, LockOwnership
  <2> QED BY <2>1
<1>2. /\ \A k \in Locks : holder'[k] = IF k = l THEN t ELSE holder[k]
      /\ \A u \in Threads : u # t => locksOwned'[u] = locksOwned[u]
      /\ cont'[t] = "user"
  BY DEF LockAcquired, TypeOK
<1>3. \A u \in Threads : u # t => target'[u] = target[u] /\ cont'[u] = cont[u]
  BY AcquiredElsewhere DEF Calm, NoneInRelease, InRelease
<1>4. status[t] = "running" /\ \A u \in Threads : u # t => status[u] # "running"
  BY RunningThread
<1>5. OutsideOwnsNone'
  BY <1>2, <1>3, <1>4, OutsideKept DEF Calm, OutsideOwnsNone
<1>6. NoneInRelease'
  BY <1>2, <1>3 DEF Calm, NoneInRelease, InRelease
<1>7. \A u \in Threads : status[u] \in {"ready", "running"} => priority[u] <= priority[t]
  <2>1. fault = "none"
    BY DEF Calm, NoneInRelease
  <2>2. priority[t] \in Int
    BY DEF TypeOK
  <2> QED BY <1>4, <2>1, <2>2, RunningHighest
<1>8. ASSUME NEW u \in Threads, cont[u] = "down", target[u] = l
      PROVE  priority[u] <= priority[t]
  <2>1. CASE status[u] \in {"ready", "running"}
    BY <1>7, <2>1
  <2>2. CASE status[u] = "blocked"
    <3>1. PICK v \in Threads : status[v] \in {"ready", "running"} /\ priority[v] >= priority[u]
      BY <1>1, <1>8, <2>2 DEF Calm, HighestAwake
    <3>2. priority[v] <= priority[t]
      BY <1>7, <3>1
    <3>3. priority[v] \in Int /\ priority[u] \in Int /\ priority[t] \in Int
      BY DEF TypeOK
    <3> QED BY <3>1, <3>2, <3>3
  <2>3. status[u] \in Statuses /\ status[u] \notin {"new", "dying"}
    BY <1>8 DEF Calm, OutsideOwnsNone, TypeOK
  <2> QED BY <2>1, <2>2, <2>3 DEF Statuses
<1>9. ASSUME NEW k \in Locks, NEW u \in Threads,
             cont'[u] = "down", target'[u] = k, holder'[k] # NULL
      PROVE  priority'[holder'[k]] >= priority'[u]
  <2>1. u # t /\ cont[u] = "down" /\ target[u] = k
    BY <1>2, <1>3, <1>9
  <2>2. CASE k = l
    <3>1. priority[u] <= priority[t] /\ priority[u] \in Int /\ priority[t] \in Int
      BY <1>8, <2>1, <2>2 DEF TypeOK
    <3> QED BY <1>2, <2>2, <3>1
  <2>3. CASE k # l
    BY <1>2, <1>9, <2>1, <2>3 DEF Calm, HolderRaised
  <2> QED BY <2>2, <2>3
<1>10. ASSUME NEW k \in Locks, NEW u \in Threads,
              status'[u] = "blocked", target'[u] = k, holder'[k] = NULL
       PROVE  \E v \in Threads : /\ cont'[v] = "down" /\ target'[v] = k
                                 /\ status'[v] \in {"ready", "running"}
                                 /\ priority'[v] >= priority'[u]
  <2>1. k # l /\ holder[k] = NULL
    BY <1>2, <1>10, ThreadsAssumption
  <2>2. status[u] = "blocked" /\ u # t
    BY <1>4, <1>10 DEF Switched
  <2>3. target[u] = k
    BY <1>3, <1>10, <2>2
  <2>4. PICK v \in Threads : /\ cont[v] = "down" /\ target[v] = k
                             /\ status[v] \in {"ready", "running"}
                             /\ priority[v] >= priority[u]
    BY <2>1, <2>2, <2>3 DEF Calm, HighestAwake
  <2>5. v # t
    BY <2>1, <2>4
  <2>6. cont'[v] = "down" /\ target'[v] = k
    BY <1>3, <2>4, <2>5
  <2>7. status'[v] \in {"ready", "running"}
    BY <2>4 DEF Switched
  <2> QED BY <2>4, <2>6, <2>7
<1> QED BY <1>5, <1>6, <1>9, <1>10 DEF Calm, HolderRaised, HighestAwake

LEMMA AcquireFreeCalm ==
  ASSUME TypeOK, Queues, Order, Ownership, Calm, Queues', NEW t \in Threads, NEW l \in Locks,
         AcquireFree(t, l)
  PROVE  Calm'
<1>1. Switched(status)
  BY AcquireFreeQueues
<1> QED BY <1>1, AcquiredCalm DEF AcquireFree, Calls

\* sema_down goes on: it takes the lock or the semaphore, or queues up again,
\* behind a holder that has the priority already.
LEMMA ResumeDownCalm ==
  ASSUME TypeOK, Queues, Order, Ownership, Calm, Queues', Held', NEW t \in Threads, ResumeDown(t)
  PROVE  Calm'
<1> DEFINE s == target[t]
<1>1. /\ cont[t] = "down" /\ running = t /\ s \in Synchs
      /\ UNCHANGED <<priority, fault>>
  BY DEF ResumeDown, Ownership
<1>2. status[t] = "running" /\ value[s] \in Nat
  BY <1>1, RunningThread DEF TypeOK
<1>3. CASE value[s] > 0 /\ s \in Locks
  <2>1. LockAcquired(t, s)
    BY <1>3 DEF ResumeDown
  <2>2. Switched(status)
    BY <1>3, ResumeDownQueues
  <2> HIDE DEF s
  <2> QED BY <1>1, <1>3, <2>1, <2>2, AcquiredCalm DEF s
<1>4. CASE ~(value[s] > 0 /\ s \in Locks)
  <2>1. PICK goes \in {"user", "down"} :
           /\ cont' = [cont EXCEPT ![t] = goes]
           /\ goes = "down" => target' = target /\ value[s] = 0
           /\ goes = "user" => s \notin Locks /\ target' = [target EXCEPT ![t] = NULL]
           /\ UNCHANGED <<locksOwned, holder>>
    <3>1. CASE value[s] = 0
      <4>1. cont' = [cont EXCEPT ![t] = "down"] /\ target' = [target EXCEPT ![t] = target[t]]
            /\ UNCHANGED <<locksOwned, holder>>
        BY <3>1 DEF ResumeDown, BlockOn
      <4>2. target' = target
        BY <4>1 DEF TypeOK
      <4> QED BY <3>1, <4>1, <4>2
    <3>2. CASE value[s] > 0
      <4>1. /\ cont' = [cont EXCEPT ![t] = "user"]
            /\ target' = [target EXCEPT ![t] = NULL]
            /\ UNCHANGED <<locksOwned, holder>>
        BY <1>4, <3>2 DEF ResumeDown
      <4> QED BY <1>4, <3>2, <4>1
    <3> QED BY <1>2, <3>1, <3>2
  <2>2. \A u \in Threads : /\ cont'[u] = (IF u = t THEN goes ELSE cont[u])
                           /\ u # t => target'[u] = target[u]
    BY <2>1 DEF TypeOK
  <2>3. PICK st : /\ Switched(st)
                  /\ \A u \in Threads : u # t => st[u] = status[u]
                  /\ st[t] \notin {"new", "dying"}
    <3>1. CASE value[s] = 0
      <4> DEFINE st == [status EXCEPT ![t] = "blocked"]
      <4>1. Switched(st)
        BY <3>1, ResumeDownQueues
      <4>2. \A u \in Threads : st[u] = IF u = t THEN "blocked" ELSE status[u]
        BY DEF TypeOK
      <4> HIDE DEF st
      <4> QED BY <4>1, <4>2
    <3>2. CASE value[s] > 0
      BY <1>2, <3>2, ResumeDownQueues
    <3> QED BY <1>2, <3>1, <3>2
  <2>4. goes = "down" /\ s \in Locks => holder[s] # NULL
    BY <2>1 DEF Ownership, LockOwnership
  <2>5. OutsideOwnsNone'
    BY <2>1, <2>2, <2>3, OutsideKept DEF Calm, OutsideOwnsNone
  <2>6. priority' \in [Threads -> Int]
    BY DEF Held, OtherTypes
  <2>7. \A l \in Locks : holder[l] # NULL => priority'[holder[l]] >= priority[holder[l]]
    BY <1>1 DEF TypeOK
  <2>8. \A u \in Threads : cont'[u] = "down" /\ target'[u] \in Locks =>
           cont[u] = "down" /\ target'[u] = target[u]
    BY <1>1, <2>1, <2>2
  <2>9. \A u \in Threads : cont[u] = "down" /\ target[u] \in Locks =>
           /\ cont'[u] = "down" /\ target'[u] = target[u] /\ priority'[u] = priority[u]
           /\ holder[target[u]] = NULL => st[u] = status[u]
    <3>1. s \in Locks => goes = "down" /\ target' = target
      BY <2>1
    <3> QED BY <1>1, <2>2, <2>3, <2>4, <3>1
  <2>10. HolderRaised' /\ HighestAwake'
    BY <2>1, <2>3, <2>6, <2>7, <2>8, <2>9, WaitersKept
  <2>11. NoneInRelease'
    BY <1>1, <2>2 DEF Calm, NoneInRelease, InRelease
  <2> QED BY <2>5, <2>10, <2>11 DEF Calm
<1> QED BY <1>3, <1>4

\* A holder is in the chain of donations, and raised if it sleeps or is ready.
LEMMA HolderInChain ==
  ASSUME TypeOK, NEW l \in Locks, holder[l] # NULL
  PROVE  holder[l] \in DonationChain(l)
<1> DEFINE h == holder[l]
           chain == [i \in 0..0 |-> h]
<1>1. h \in Threads /\ 0 \in 0..MaxNesting - 1
  BY ThreadsAssumption DEF TypeOK
<1>2. /\ chain \in [0..0 -> Threads] /\ chain[0] = h
      /\ \A i \in 1..0 : LET b == chain[i - 1]
                         IN  /\ status[b] = "blocked" /\ waitingLock[b] # NULL
                             /\ chain[i] = holder[waitingLock[b]]
  BY <1>1
<1> HIDE DEF chain
<1> QED BY <1>1, <1>2 DEF DonationChain

\* lock_acquire of a taken lock raises the holder; no thread that waits for a lock
\* is raised, since it owns none.
LEMMA AcquireTakenCalm ==
  ASSUME TypeOK, Queues, Ownership, Donations, Calm, NotNested, Queues', Held', NEW t \in Threads, NEW l \in Locks,
         AcquireTaken(t, l)
  PROVE  Calm'
<1> DEFINE raised == Donees(l, priority[t])
           st == [status EXCEPT ![t] = "blocked"]
<1>1. /\ cont[t] = "user" /\ running = t /\ holder[l] # t /\ value[l] = 0
      /\ priority' = [d \in Threads |-> IF d \in raised THEN priority[t] ELSE priority[d]]
      /\ cont' = [cont EXCEPT ![t] = "down"]
      /\ target' = [target EXCEPT ![t] = l]
      /\ UNCHANGED <<locksOwned, holder, fault>>
  BY DEF AcquireTaken, BlockOn, Calls
<1>2. Switched(st) /\ \A u \in Threads : st[u] = IF u = t THEN "blocked" ELSE status[u]
  BY AcquireTakenQueues DEF TypeOK
<1>3. status[t] = "running" /\ \A u \in Threads : u # t => status[u] # "running"
  BY <1>1, RunningThread
<1>4. \A d \in raised : locksOwned[d] # <<>> /\ priority[d] < priority[t] /\ status[d] # "running"
  BY VisitedOwns DEF Donees
<1> HIDE DEF raised, st
<1>5. \A u \in Threads : /\ cont'[u] = (IF u = t THEN "down" ELSE cont[u])
                         /\ target'[u] = (IF u = t THEN l ELSE target[u])
                         /\ priority'[u] = IF u \in raised THEN priority[t] ELSE priority[u]
                         /\ priority[u] \in Int
  BY <1>1 DEF TypeOK
<1>6. \A u \in Threads : cont[u] = "down" /\ target[u] \in Locks => u # t /\ priority'[u] = priority[u]
  BY <1>1, <1>4, <1>5 DEF NotNested
<1>7. \A u \in Threads : priority'[u] \in Int /\ priority'[u] >= priority[u]
  BY <1>4, <1>5
<1>8. holder[l] \in Threads /\ priority'[holder[l]] >= priority[t]
  <2>1. value[l] = IF holder[l] = NULL THEN 1 ELSE 0
    BY DEF Ownership, LockOwnership
  <2>2. holder[l] \in Threads /\ holder[l] \in DonationChain(l)
    BY <1>1, <2>1, HolderInChain DEF TypeOK
  <2>3. status[holder[l]] \in {"blocked", "ready"}
    <3>1. locksOwned[holder[l]] # <<>>
      BY <2>2, OwnsNoneHoldsNone
    <3>2. status[holder[l]] \in Statuses
      BY <2>2 DEF TypeOK
    <3> QED BY <1>1, <1>3, <2>2, <3>1, <3>2 DEF Calm, OutsideOwnsNone, Statuses
  <2>4. CASE priority[holder[l]] < priority[t]
    <3>1. holder[l] \in raised
      BY <2>2, <2>3, <2>4 DEF raised, Donees
    <3> QED BY <1>5, <2>2, <3>1
  <2>5. CASE ~(priority[holder[l]] < priority[t])
    BY <1>4, <1>5, <2>2, <2>5
  <2> QED BY <2>2, <2>4, <2>5
<1>9. OutsideOwnsNone'
  BY <1>1, <1>2, <1>5, OutsideKept DEF Calm, OutsideOwnsNone
<1>10. NoneInRelease'
  BY <1>1, <1>5 DEF Calm, NoneInRelease, InRelease
<1>11. ASSUME NEW k \in Locks, NEW u \in Threads,
              cont'[u] = "down", target'[u] = k, holder'[k] # NULL
       PROVE  priority'[holder'[k]] >= priority'[u]
  <2>1. CASE u = t
    <3>1. k = l /\ t \notin raised
      BY <1>3, <1>4, <1>5, <1>11, <2>1
    <3> QED BY <1>1, <1>5, <1>8, <2>1, <3>1
  <2>2. CASE u # t
    <3>1. cont[u] = "down" /\ target[u] = k /\ holder[k] # NULL /\ holder[k] \in Threads
      BY <1>1, <1>5, <1>11, <2>2 DEF TypeOK
    <3>2. priority[holder[k]] >= priority[u] /\ priority'[u] = priority[u]
      BY <1>6, <3>1 DEF Calm, HolderRaised
    <3>3. /\ priority'[holder[k]] >= priority[holder[k]] /\ priority'[holder[k]] \in Int
          /\ priority[holder[k]] \in Int /\ priority[u] \in Int
      BY <1>5, <1>7, <3>1
    <3> QED BY <1>1, <3>2, <3>3
  <2> QED BY <2>1, <2>2
<1>12. ASSUME NEW k \in Locks, NEW u \in Threads,
              status'[u] = "blocked", target'[u] = k, holder'[k] = NULL
       PROVE  \E v \in Threads : /\ cont'[v] = "down" /\ target'[v] = k
                                 /\ status'[v] \in {"ready", "running"}
                                 /\ priority'[v] >= priority'[u]
  <2>1. k # l /\ u # t /\ holder[k] = NULL /\ target[u] = k
    BY <1>1, <1>5, <1>8, <1>12, ThreadsAssumption
  <2>2. status[u] = "blocked" /\ cont[u] = "down"
    BY <1>2, <1>12, <2>1 DEF Switched, Queues
  <2>3. PICK v \in Threads : /\ cont[v] = "down" /\ target[v] = k
                             /\ status[v] \in {"ready", "running"}
                             /\ priority[v] >= priority[u]
    BY <2>1, <2>2 DEF Calm, HighestAwake
  <2>4. v # t /\ priority'[v] = priority[v] /\ priority'[u] = priority[u]
    BY <1>6, <2>1, <2>2, <2>3
  <2>5. cont'[v] = "down" /\ target'[v] = k
    BY <1>5, <2>3, <2>4
  <2>6. status'[v] \in {"ready", "running"}
    BY <1>2, <2>3, <2>4 DEF Switched
  <2> QED BY <2>3, <2>4, <2>5, <2>6
<1> QED BY <1>9, <1>10, <1>11, <1>12 DEF Calm, HolderRaised, HighestAwake

\* The only lock taken out of the list.
LEMMA WithoutOnly ==
  ASSUME NEW S, NEW s \in Seq(S), Once(s), Len(s) <= 1, NEW e, Contains(s, e)
  PROVE  /\ Without(s, e) = <<>>
         /\ \A x : Contains(s, x) => x = e
<1>1. Len(s) \in Nat
  OBVIOUS
<1>2. \A x : Contains(s, x) => x = e
  BY <1>1 DEF Contains
<1>3. Without(s, e) \in Seq(S) /\ \A x : ~Contains(Without(s, e), x)
  BY <1>2, WithoutOnce
<1> DEFINE r == Without(s, e)
<1> HIDE DEF r
<1>4. r \in Seq(S) /\ \A x : ~Contains(r, x)
  BY <1>3 DEF r
<1>5. Len(r) \in Nat /\ (Len(r) >= 1 => Contains(r, r[1]))
  BY <1>4 DEF Contains
<1>6. Len(r) = 0
  BY <1>4, <1>5
<1>7. r = <<>>
  BY <1>4, <1>6
<1> QED BY <1>2, <1>7 DEF r

\* thread_lock_released with the only lock: no donation remains, and the
\* assertion holds.
LEMMA OnlyLockReleased ==
  ASSUME TypeOK, Ownership, Donations, NEW t \in Threads, NEW l \in Locks,
         Contains(locksOwned[t], l), Len(locksOwned[t]) <= 1,
         NEW ready, NEW st, NEW wait \in [Synchs -> Seq(Threads)],
         LockReleased(t, l, ready, st, wait)
  PROVE  /\ fault' = fault
         /\ locksOwned' = [locksOwned EXCEPT ![t] = <<>>]
         /\ cont' = [cont EXCEPT ![t] = "user"]
         /\ \A u \in Threads : u # t => priority'[u] = priority[u] /\ target'[u] = target[u]
<1>1. OwnedWithout(t, l) = <<>> /\ <<>> \in Seq(Locks)
  BY WithoutOnly DEF OwnedWithout, Ownership, TypeOK
<1>2. HighestWaiting(<<>>, wait, priority) = PriMin
  BY <1>1, HighestWaitingType DEF TypeOK
<1>3. ~(PriMin > priority[t])
  BY ThreadsAssumption DEF TypeOK, Donations, DonationReturned
<1>4. \E p : priority' = [priority EXCEPT ![t] = p] /\ UNCHANGED fault
  BY <1>1, <1>2, <1>3 DEF LockReleased
<1>5. \A u \in Threads : u # t => priority'[u] = priority[u]
  BY <1>4 DEF TypeOK
<1> QED BY <1>1, <1>4, <1>5 DEF LockReleased, TypeOK

\* lock_release: nobody it wakens has a higher priority than the holder had, so
\* the release is not interrupted.
LEMMA ReleaseGoesOn ==
  ASSUME TypeOK, Queues, Order, Ownership, Donations, Calm, NotNested,
         NEW t \in Threads, NEW l \in Locks, Release(t, l)
  PROVE  /\ fault' = fault
         /\ locksOwned' = [locksOwned EXCEPT ![t] = <<>>]
         /\ cont' = [cont EXCEPT ![t] = "user"]
         /\ \A u \in Threads : u # t => priority'[u] = priority[u] /\ target'[u] = target[u]
         /\ \/ waiters[l] = <<>> /\ waiters' = waiters
            \/ \E i \in Highest(waiters[l], priority) : waiters' = [waiters EXCEPT ![l] = RemoveAt(@, i)]
<1>1. /\ running = t /\ holder[l] = t /\ fault = "none" /\ l \in Synchs
      /\ Contains(locksOwned[t], l) /\ Len(locksOwned[t]) <= 1
  BY DEF Release, Calls, Synchs, Ownership, LockOwnership, NotNested
<1>2. CASE waiters[l] = <<>>
  <2>1. LockReleased(t, l, readyList, status, waiters) /\ waiters' = waiters
    BY <1>2 DEF Release, NobodyWaits
  <2>2. waiters \in [Synchs -> Seq(Threads)]
    BY DEF TypeOK
  <2> QED BY <1>1, <1>2, <2>1, <2>2, OnlyLockReleased
<1>3. CASE waiters[l] # <<>>
  <2>1. PICK i \in Highest(waiters[l], priority) :
          LET w     == waiters[l][i]
              wait  == [waiters EXCEPT ![l] = RemoveAt(@, i)]
              ready == InsertOrdered(readyList, w, priority)
              st    == [status EXCEPT ![w] = "ready"]
          IN  /\ waiters' = wait
              /\ ~Outranked(priority[t], ready, priority) => LockReleased(t, l, ready, st, wait)
    BY <1>3 DEF Release, NobodyWaits
  <2> DEFINE w     == waiters[l][i]
             wait  == [waiters EXCEPT ![l] = RemoveAt(@, i)]
             ready == InsertOrdered(readyList, w, priority)
             st    == [status EXCEPT ![w] = "ready"]
  <2>2. i \in 1..Len(waiters[l]) /\ waiters[l] \in Seq(Threads)
    BY <1>1 DEF Highest, TypeOK
  <2>3. /\ w \in Threads /\ status[w] = "blocked" /\ cont[w] = "down" /\ target[w] = l
    BY <1>1, <2>2, WaitingThread
  <2>4. wait \in [Synchs -> Seq(Threads)]
    <3>1. RemoveAt(waiters[l], i) \in Seq(Threads)
      BY <2>2, RemoveAtElements
    <3> QED BY <1>1, <3>1 DEF TypeOK
  <2>5. waiters' = wait /\ (~Outranked(priority[t], ready, priority) => LockReleased(t, l, ready, st, wait))
    BY <2>1
  <2>6. priority[w] <= priority[t]
    <3>1. t # NULL
      BY ThreadsAssumption
    <3>2. priority[t] >= priority[w]
      BY <1>1, <2>3, <3>1 DEF Calm, HolderRaised
    <3>3. priority[t] \in Int /\ priority[w] \in Int
      BY <2>3 DEF TypeOK
    <3> QED BY <3>2, <3>3
  <2> HIDE DEF w
  <2>7. /\ ready \in Seq(Threads)
        /\ \A x : Contains(ready, x) => Contains(readyList, x) \/ x = w
    <3>1. ~Contains(readyList, w) /\ readyList \in Seq(Threads) /\ Once(readyList)
      BY <2>3, NotReady
    <3> QED BY <2>3, <3>1, InsertOrderedOnce
  <2> HIDE DEF ready
  <2>8. ~Outranked(priority[t], ready, priority)
    <3> SUFFICES ASSUME ready # <<>> PROVE ~(priority[t] < priority[Head(ready)])
      BY DEF Outranked
    <3>1. Head(ready) \in Threads /\ Contains(ready, Head(ready))
      BY <2>7 DEF Contains
    <3>2. CASE Head(ready) = w
      BY <2>3, <2>6, <3>2 DEF TypeOK
    <3>3. CASE Contains(readyList, Head(ready))
      <4>1. status[Head(ready)] = "ready"
        BY <3>1, <3>3 DEF Queues, ReadyAgrees
      <4>2. priority[Head(ready)] <= priority[t]
        BY <1>1, <3>1, <4>1, RunningHighest
      <4>3. priority[Head(ready)] \in Int /\ priority[t] \in Int
        BY <3>1 DEF TypeOK
      <4> QED BY <4>2, <4>3
    <3> QED BY <2>7, <3>1, <3>2, <3>3
  <2>9. LockReleased(t, l, ready, st, wait)
    BY <2>5, <2>8
  <2> HIDE DEF wait, st
  <2>10. /\ fault' = fault
         /\ locksOwned' = [locksOwned EXCEPT ![t] = <<>>]
         /\ cont' = [cont EXCEPT ![t] = "user"]
         /\ \A u \in Threads : u # t => priority'[u] = priority[u] /\ target'[u] = target[u]
    BY <1>1, <2>4, <2>9, OnlyLockReleased
  <2> QED BY <2>1, <2>10
<1> QED BY <1>2, <1>3

\* What a sema_up leaves of the status: one thread more is awake.
LEMMA WokenStatus ==
  ASSUME TypeOK, Queues, NEW s \in Synchs, NobodyWoken(s) \/ Woken(s), NEW u \in Threads
  PROVE  /\ status'[u] \in {"new", "dying"} => status[u] = status'[u]
         /\ status'[u] = "blocked" => status[u] = "blocked"
         /\ status[u] \in {"ready", "running"} => status'[u] \in {"ready", "running"}
         /\ status[u] = "blocked" => status'[u] \in {"ready", "running", "blocked"}
<1>1. PICK st : /\ Switched(st)
                /\ st[u] = status[u] \/ (st[u] = "ready" /\ status[u] = "blocked")
  <2>1. CASE NobodyWoken(s)
    BY <2>1 DEF NobodyWoken
  <2>2. CASE Woken(s)
    <3>1. PICK i \in 1..Len(waiters[s]) : Switched([status EXCEPT ![waiters[s][i]] = "ready"])
      BY <2>2 DEF Woken
    <3> DEFINE w == waiters[s][i]
               st == [status EXCEPT ![w] = "ready"]
    <3>2. w \in Threads /\ status[w] = "blocked"
      BY WaitingThread
    <3>3. Switched(st)
      BY <3>1
    <3>4. st[u] = IF u = w THEN "ready" ELSE status[u]
      BY DEF TypeOK
    <3> HIDE DEF st, w
    <3> QED BY <3>2, <3>3, <3>4
  <2> QED BY <2>1, <2>2
<1>2. status'[u] = st[u] \/ {status'[u], st[u]} \subseteq {"ready", "running"}
  BY <1>1 DEF Switched
<1> QED BY <1>1, <1>2

LEMMA ReleaseCalm ==
  ASSUME TypeOK, Queues, Order, Ownership, Donations, Calm, NotNested, Queues',
         NEW t \in Threads, NEW l \in Locks, Release(t, l)
  PROVE  Calm'
<1>1. /\ cont[t] = "user" /\ running = t /\ holder[l] = t /\ l \in Synchs
      /\ holder' = [holder EXCEPT ![l] = NULL]
  BY DEF Release, Calls, Synchs
<1>2. /\ fault' = fault
      /\ locksOwned' = [locksOwned EXCEPT ![t] = <<>>]
      /\ cont' = [cont EXCEPT ![t] = "user"]
      /\ \A u \in Threads : u # t => priority'[u] = priority[u] /\ target'[u] = target[u]
      /\ \/ waiters[l] = <<>> /\ waiters' = waiters
         \/ \E i \in Highest(waiters[l], priority) : waiters' = [waiters EXCEPT ![l] = RemoveAt(@, i)]
  BY ReleaseGoesOn
<1>3. NobodyWoken(l) \/ Woken(l)
  BY ReleaseQueues
<1>4. \A k \in Locks : holder[k] = t => k = l
  <2>1. /\ Contains(locksOwned[t], l) /\ Once(locksOwned[t]) /\ Len(locksOwned[t]) <= 1
        /\ locksOwned[t] \in Seq(Locks)
    BY <1>1 DEF Ownership, LockOwnership, NotNested, TypeOK
  <2>2. \A k \in Locks : holder[k] = t => Contains(locksOwned[t], k)
    BY DEF Ownership, LockOwnership
  <2> QED BY <2>1, <2>2, WithoutOnly
<1>5. \A k \in Locks : holder'[k] = IF k = l THEN NULL ELSE holder[k]
  BY <1>1 DEF TypeOK
<1>6. \A u \in Threads : cont'[u] = IF u = t THEN "user" ELSE cont[u]
  BY <1>2 DEF TypeOK
<1>7. \A u \in Threads : u # t => locksOwned'[u] = locksOwned[u]
  BY <1>2 DEF TypeOK
<1>8. NoneInRelease'
  BY <1>2, <1>6 DEF Calm, NoneInRelease, InRelease
<1>9. OutsideOwnsNone'
  <2> SUFFICES ASSUME NEW u \in Threads, status'[u] \in {"new", "dying"}
               PROVE  cont'[u] = "user" /\ locksOwned'[u] = <<>>
    BY DEF OutsideOwnsNone
  <2>1. status[u] \in {"new", "dying"}
    BY <1>1, <1>3, WokenStatus
  <2>2. u # t
    BY <1>1, <2>1, RunningThread
  <2> QED BY <1>6, <1>7, <2>1, <2>2 DEF Calm, OutsideOwnsNone
<1>10. ASSUME NEW k \in Locks, NEW u \in Threads,
              cont'[u] = "down", target'[u] = k, holder'[k] # NULL
       PROVE  priority'[holder'[k]] >= priority'[u]
  <2>1. k # l /\ holder'[k] = holder[k] /\ holder[k] # t /\ holder[k] \in Threads
    BY <1>4, <1>5, <1>10 DEF TypeOK
  <2>2. u # t /\ cont[u] = "down"
    BY <1>6, <1>10
  <2>3. target[u] = k /\ priority'[u] = priority[u] /\ priority'[holder[k]] = priority[holder[k]]
    BY <1>2, <1>10, <2>1, <2>2
  <2> QED BY <1>10, <2>1, <2>2, <2>3 DEF Calm, HolderRaised
<1>11. ASSUME NEW k \in Locks, NEW u \in Threads,
              status'[u] = "blocked", target'[u] = k, holder'[k] = NULL
       PROVE  \E v \in Threads : /\ cont'[v] = "down" /\ target'[v] = k
                                 /\ status'[v] \in {"ready", "running"}
                                 /\ priority'[v] >= priority'[u]
  <2>1. status[u] = "blocked" /\ u # t
    BY <1>1, <1>3, <1>11, WokenStatus, RunningThread
  <2>2. target[u] = k /\ priority'[u] = priority[u]
    BY <1>2, <1>11, <2>1
  <2>3. CASE k = l
    <3>1. Contains(waiters'[l], u) /\ Contains(waiters[l], u)
      BY <1>1, <1>11, <2>1, <2>2, <2>3 DEF Queues, WaitersAgree
    <3>2. PICK i \in Highest(waiters[l], priority) : waiters' = [waiters EXCEPT ![l] = RemoveAt(@, i)]
      BY <1>2, <3>1, EmptyOnce
    <3> DEFINE w == waiters[l][i]
    <3>3. i \in 1..Len(waiters[l])
      BY DEF Highest
    <3>4. w \in Threads /\ status[w] = "blocked" /\ cont[w] = "down" /\ target[w] = l
      BY <1>1, <3>3, WaitingThread
    <3>5. ~Contains(waiters'[l], w)
      <4>1. waiters[l] \in Seq(Threads) /\ Once(waiters[l])
        BY <1>1 DEF Queues, WaitersAgree
      <4>2. waiters'[l] = RemoveAt(waiters[l], i)
        BY <1>1, <3>2 DEF TypeOK
      <4> QED BY <3>3, <4>1, <4>2, RemoveAtOnce
    <3>6. priority[w] >= priority[u]
      BY <3>1 DEF Highest, Contains
    <3> HIDE DEF w
    <3>7. w # t
      BY <1>1, <3>4
    <3>8. cont'[w] = "down" /\ target'[w] = l /\ priority'[w] = priority[w]
      BY <1>2, <1>6, <3>4, <3>7
    <3>9. status'[w] # "blocked"
      BY <1>1, <3>4, <3>5, <3>8 DEF Queues, WaitersAgree
    <3>10. status'[w] \in {"ready", "running"}
      BY <1>1, <1>3, <3>4, <3>9, WokenStatus
    <3> QED BY <2>2, <2>3, <3>4, <3>6, <3>8, <3>10
  <2>4. CASE k # l
    <3>1. holder[k] = NULL
      BY <1>5, <1>11, <2>4
    <3>2. PICK v \in Threads : /\ cont[v] = "down" /\ target[v] = k
                               /\ status[v] \in {"ready", "running"}
                               /\ priority[v] >= priority[u]
      BY <2>1, <2>2, <3>1 DEF Calm, HighestAwake
    <3>3. v # t
      BY <1>1, <3>2
    <3>4. status'[v] \in {"ready", "running"}
      BY <1>1, <1>3, <3>2, WokenStatus
    <3> QED BY <1>2, <1>6, <2>2, <3>2, <3>3, <3>4
  <2> QED BY <2>3, <2>4
<1> QED BY <1>8, <1>9, <1>10, <1>11 DEF Calm, HolderRaised, HighestAwake

LEMMA CalmInit == Init => Calm
<1>1. \A t \in Threads : Init => cont[t] = "user" /\ locksOwned[t] = <<>> /\ status[t] # "blocked"
  BY DEF Init
<1> QED BY <1>1 DEF Init, Calm, NoneInRelease, InRelease, OutsideOwnsNone, HolderRaised, HighestAwake

LEMMA HeldNext == IInv' => Held' /\ Queues'
BY DEF IInv, Held, OwnershipTypes, OtherTypes, TypeOK

LEMMA CalmNext ==
  ASSUME IInv, IInv', Order, NotNested, Calm, [Next]_vars, PriorityChange # "always"
  PROVE  Calm'
<1> USE DEF IInv
<1>0. Queues' /\ Held'
  BY HeldNext
<1>1. ASSUME NEW t \in Threads, Exit(t) PROVE Calm'
  <2> DEFINE st == [status EXCEPT ![t] = "dying"]
  <2>1. /\ cont[t] = "user" /\ locksOwned[t] = <<>>
        /\ UNCHANGED <<priority, locksOwned, cont, target, holder, fault>>
    BY <1>1 DEF Exit, Calls
  <2>2. Switched(st) /\ \A u \in Threads : st[u] = IF u = t THEN "dying" ELSE status[u]
    BY <1>1, ExitQueues DEF TypeOK
  <2> HIDE DEF st
  <2> QED BY <1>0, <2>1, <2>2, QuietCalm DEF Calm, OutsideOwnsNone
<1>2. ASSUME NEW t \in Threads, Yield(t) PROVE Calm'
  <2>1. Switched(status) /\ UNCHANGED <<priority, locksOwned, cont, target, holder, fault>>
    BY <1>2, YieldQueues DEF Yield
  <2> QED BY <1>0, <2>1, QuietCalm DEF Calm, OutsideOwnsNone
<1>3. ASSUME IdleLoop PROVE Calm'
  <2>1. Switched(status) /\ UNCHANGED <<priority, locksOwned, cont, target, holder, fault>>
    BY <1>3, IdleLoopQueues DEF IdleLoop
  <2> QED BY <1>0, <2>1, QuietCalm DEF Calm, OutsideOwnsNone
<1>4. ASSUME NEW t \in Threads, NEW s \in Semas, Up(t, s) PROVE Calm'
  <2>1. NobodyWoken(s) \/ Woken(s)
    BY <1>4, UpQueues
  <2> QED BY <1>0, <1>4, <2>1, UpCalm DEF Up
<1>5. ASSUME NEW s \in Semas, InterruptUp(s) PROVE Calm'
  <2>1. NobodyWoken(s) \/ Woken(s)
    BY <1>5, InterruptUpQueues
  <2> QED BY <1>0, <1>5, <2>1, UpCalm DEF InterruptUp
<1>6. ASSUME NEW t \in Threads, ResumeReleased(t) PROVE Calm'
  BY <1>6 DEF ResumeReleased, Calm, NoneInRelease, InRelease
<1>7. ASSUME UNCHANGED vars PROVE Calm'
  BY <1>7 DEF vars, threadVars, Calm, NoneInRelease, InRelease, OutsideOwnsNone, HolderRaised, HighestAwake
<1> QED BY <1>0, <1>1, <1>2, <1>3, <1>4, <1>5, <1>6, <1>7, CreateCalm, SetPriorityCalm, AcquireFreeCalm,
           AcquireTakenCalm, ReleaseCalm, DownCalm, ResumeDownCalm DEF Next

LEMMA CalmInvariance ==
  ASSUME PriorityChange # "always"
  PROVE  Spec /\ []NotNested => []Calm
<1>1. IInv /\ IInv' /\ Order /\ NotNested /\ Calm /\ [Next]_vars => Calm'
  BY CalmNext
<1> QED BY <1>1, CalmInit, Invariance, OrderInvariance, PTL DEF Spec

\* Threads that wait for a lock rather than its holder.
LEMMA CalmRaised ==
  ASSUME TypeOK, Queues, Calm
  PROVE  NoInversion
<1> SUFFICES ASSUME NEW l \in Locks, holder[l] # NULL, NEW i \in DOMAIN waiters[l]
             PROVE  priority[holder[l]] >= priority[waiters[l][i]]
  BY DEF NoInversion
<1>1. l \in Synchs /\ waiters[l] \in Seq(Threads)
  BY DEF Synchs, TypeOK
<1>2. i \in 1..Len(waiters[l])
  BY <1>1
<1> QED BY <1>1, <1>2, WaitingThread DEF Calm, HolderRaised

\* A thread inside the sema_down of a lock is not its holder.
WaitsForOther == \A t \in Threads : cont[t] = "down" /\ target[t] \in Locks => holder[target[t]] # t

LEMMA WaitsForOtherNext ==
  ASSUME TypeOK, WaitsForOther, [Next]_vars
  PROVE  WaitsForOther'
<1>1. ASSUME NEW t \in Threads, NEW l \in Locks, LockAcquired(t, l) PROVE WaitsForOther'
  <2>1. /\ \A k \in Locks : holder'[k] = IF k = l THEN t ELSE holder[k]
        /\ cont'[t] = "user"
    BY <1>1 DEF LockAcquired, TypeOK
  <2>2. \A u \in Threads : u # t /\ cont'[u] = "down" => cont[u] = "down" /\ target'[u] = target[u]
    BY <1>1, AcquiredElsewhere
  <2> QED BY <2>1, <2>2 DEF WaitsForOther
<1>2. ASSUME NEW t \in Threads, NEW s, cont' = [cont EXCEPT ![t] = "down"], target' = [target EXCEPT ![t] = s],
             s \in Locks => holder[s] # t, UNCHANGED holder
      PROVE  WaitsForOther'
  BY <1>2 DEF WaitsForOther, TypeOK
<1>3. ASSUME NEW t \in Threads, NEW c, c # "down", cont' = [cont EXCEPT ![t] = c],
             \A u \in Threads : u # t => target'[u] = target[u],
             \A k \in Locks : holder'[k] \in {NULL, holder[k]}
      PROVE  WaitsForOther'
  <2>1. \A u \in Threads : cont'[u] = "down" => u # t /\ cont[u] = "down" /\ u # NULL
    BY <1>3, ThreadsAssumption DEF TypeOK
  <2> QED BY <1>3, <2>1 DEF WaitsForOther
<1>4. ASSUME UNCHANGED <<cont, target, holder>> PROVE WaitsForOther'
  BY <1>4 DEF WaitsForOther
<1>5. ASSUME NEW t \in Threads, ResumeDown(t) PROVE WaitsForOther'
  <2>1. CASE BlockOn(t, target[t], readyList) /\ UNCHANGED holder
    <3>1. target[t] \in Locks => holder[target[t]] # t
      BY <1>5 DEF ResumeDown, WaitsForOther
    <3> QED BY <1>2, <2>1, <3>1 DEF BlockOn
  <2>2. CASE target[t] \in Locks /\ LockAcquired(t, target[t])
    BY <1>1, <2>2
  <2>3. CASE /\ cont' = [cont EXCEPT ![t] = "user"] /\ target' = [target EXCEPT ![t] = NULL]
             /\ UNCHANGED holder
    BY <1>3, <2>3 DEF TypeOK
  <2> QED BY <1>5, <2>1, <2>2, <2>3 DEF ResumeDown
<1>6. ASSUME NEW t \in Threads, NEW l, NEW ready, NEW st, NEW wait, LockReleased(t, l, ready, st, wait),
             \A k \in Locks : holder'[k] \in {NULL, holder[k]}
      PROVE  WaitsForOther'
  BY <1>3, <1>6 DEF LockReleased, TypeOK
<1>7. ASSUME NEW t \in Threads, NEW l \in Locks, Release(t, l) PROVE WaitsForOther'
  <2>1. \A k \in Locks : holder'[k] \in {NULL, holder[k]}
    BY <1>7 DEF Release, TypeOK
  <2>2. CASE cont' = [cont EXCEPT ![t] = "released"] /\ target' = [target EXCEPT ![t] = l]
    BY <1>3, <2>1, <2>2 DEF TypeOK
  <2>3. CASE \E ready, st, wait : LockReleased(t, l, ready, st, wait)
    BY <1>6, <2>1, <2>3
  <2> QED BY <1>7, <2>2, <2>3 DEF Release
<1>8. ASSUME NEW t \in Threads, ResumeReleased(t) PROVE WaitsForOther'
  BY <1>4, <1>6, <1>8 DEF ResumeReleased, threadVars
<1>9. ASSUME NEW t \in Threads, NEW l \in Locks, AcquireTaken(t, l) PROVE WaitsForOther'
  BY <1>2, <1>9 DEF AcquireTaken, BlockOn
<1>10. ASSUME NEW t \in Threads, NEW l \in Locks, AcquireFree(t, l) PROVE WaitsForOther'
  BY <1>1, <1>10 DEF AcquireFree
<1>11. ASSUME NEW t \in Threads, NEW s \in Semas, Down(t, s) PROVE WaitsForOther'
  BY <1>2, <1>4, <1>11, ThreadsAssumption DEF Down, BlockOn
<1> QED BY <1>4, <1>5, <1>7, <1>8, <1>9, <1>10, <1>11
        DEF Next, Create, Exit, Yield, SetPriority, Up, InterruptUp, IdleLoop, vars, threadVars

\* Threads that compete for one lock do not nest.
LEMMA OneLock ==
  ASSUME \A k, l \in Locks : k = l, IInv, WaitsForOther
  PROVE  NotNested
<1> SUFFICES ASSUME NEW t \in Threads
             PROVE  /\ Len(locksOwned[t]) <= 1
                    /\ cont[t] = "down" /\ target[t] \in Locks => locksOwned[t] = <<>>
  BY DEF NotNested
<1>1. locksOwned[t] \in Seq(Locks) /\ Once(locksOwned[t])
  BY DEF IInv, TypeOK, Ownership
<1> DEFINE s == locksOwned[t]
<1>2. Len(s) <= 1
  <2> HIDE DEF s
  <2> SUFFICES ASSUME Len(s) > 1 PROVE FALSE
    BY <1>1 DEF s
  <2>1. 1 \in 1..Len(s) /\ 2 \in 1..Len(s) /\ s[1] \in Locks /\ s[2] \in Locks
    BY <1>1 DEF s
  <2> QED BY <1>1, <2>1 DEF s, Once
<1>3. ASSUME cont[t] = "down", target[t] \in Locks, s # <<>> PROVE FALSE
  <2>1. s[1] \in Locks /\ Contains(s, s[1])
    BY <1>1, <1>3 DEF Contains
  <2> HIDE DEF s
  <2>2. Contains(s, target[t])
    BY <1>3, <2>1
  <2>3. ~InRelease(t)
    BY <1>3 DEF InRelease
  <2>4. holder[target[t]] = t
    BY <1>3, <2>2, <2>3 DEF IInv, Ownership, LockOwnership, InRelease, s
  <2> QED BY <1>3, <2>4 DEF WaitsForOther
<1> QED BY <1>2, <1>3

LEMMA OneLockInvariance ==
  ASSUME \A k, l \in Locks : k = l
  PROVE  Spec => []NotNested
<1>1. Init => WaitsForOther
  BY DEF Init, WaitsForOther
<1>2. IInv /\ WaitsForOther /\ [Next]_vars => WaitsForOther'
  BY WaitsForOtherNext DEF IInv
<1>3. IInv /\ WaitsForOther => NotNested
  BY OneLock
<1> QED BY <1>1, <1>2, <1>3, Invariance, PTL DEF Spec

-----------------------------------------------------------------------------
(* The theorems.                                                           *)

\* The scheduler, the semaphores and the locks keep their state well formed.
THEOREM TypeCorrect == Spec => []TypeOK
<1>1. IInv => TypeOK
  BY DEF IInv
<1> QED BY <1>1, Invariance, PTL

\* A thread's list element is never linked twice: ready threads are in the ready
\* list once, blocked ones among the waiters of one semaphore, others nowhere.
THEOREM ElementLinkedOnce == Spec => []ElemInOneList
<1>1. IInv => ElemInOneList
  <2> SUFFICES ASSUME IInv, NEW t \in Threads
               PROVE  /\ Cardinality({i \in DOMAIN readyList : readyList[i] = t})
                           = IF status[t] = "ready" THEN 1 ELSE 0
                      /\ \A s \in Synchs :
                           Cardinality({i \in DOMAIN waiters[s] : waiters[s][i] = t})
                             = IF status[t] = "blocked" /\ target[t] = s THEN 1 ELSE 0
                      /\ status[t] = "running" <=> running = t
    BY DEF ElemInOneList
  <2>1. ReadyAgrees(readyList, status) /\ WaitersAgree(waiters, status, target)
    BY DEF IInv, Queues
  <2>2. Cardinality({i \in DOMAIN readyList : readyList[i] = t}) = IF status[t] = "ready" THEN 1 ELSE 0
    BY <2>1, PlacesOnce DEF ReadyAgrees
  <2>3. ASSUME NEW s \in Synchs
        PROVE  Cardinality({i \in DOMAIN waiters[s] : waiters[s][i] = t})
                 = IF status[t] = "blocked" /\ target[t] = s THEN 1 ELSE 0
    <3>1. waiters[s] \in Seq(Threads) /\ Once(waiters[s])
      BY <2>1 DEF WaitersAgree
    <3>2. Contains(waiters[s], t) <=> status[t] = "blocked" /\ target[t] = s
      BY <2>1 DEF WaitersAgree
    <3> QED BY <3>1, <3>2, PlacesOnce
  <2>4. status[t] = "running" <=> running = t
    BY DEF IInv, Queues, OneRuns
  <2> QED BY <2>2, <2>3, <2>4
<1> QED BY <1>1, Invariance, PTL

\* A lock is up exactly when nobody holds it, and it is in the list of the thread
\* that holds it or is still releasing it, through every barging and switch.
THEOREM LocksOwnedByHolder == Spec => []LockOwnership
<1>1. IInv => LockOwnership
  BY DEF IInv, Ownership
<1> QED BY <1>1, Invariance, PTL

\* Threads give donations back with the last lock and never run below their
\* base priority.
THEOREM DonationsEnd == Spec => []DonationReturned
<1>1. IInv => DonationReturned
  BY DEF IInv, Donations
<1> QED BY <1>1, Invariance, PTL

\* No sema_up is lost while threads wait.
THEOREM WakeupsArrive == Spec => []NoLostWakeup
<1>1. IInv => NoLostWakeup
  BY DEF IInv
<1> QED BY <1>1, Invariance, PTL

\* The CPU is with a thread of the highest effective priority, and the ready list
\* in the order of the priorities, whatever is donated and set.
THEOREM HighestRuns == Spec => []HighestPriorityRuns
<1>1. IInv /\ Order => HighestPriorityRuns
  <2> SUFFICES ASSUME IInv, Order
               PROVE  HighestPriorityRuns
    OBVIOUS
  <2>1. readyList \in Seq(Threads)
    BY DEF IInv, TypeOK
  <2>2. DOMAIN readyList = 1..Len(readyList)
    BY <2>1
  <2>3. \A i, j \in DOMAIN readyList :
          i < j => priority[readyList[i]] >= priority[readyList[j]]
    BY <2>2 DEF Order, Sorted
  <2>4. running # Idle /\ fault = "none" =>
          \A i \in DOMAIN readyList : priority[readyList[i]] <= priority[running]
    BY <2>2 DEF Order
  <2> QED BY <2>3, <2>4 DEF HighestPriorityRuns
<1> QED BY <1>1, OrderInvariance, Invariance, PTL

\* Where no thread owns two locks or waits for one while it owns another, donation
\* works: the holder of a lock has the priority of every thread that waits for it,
\* barging, wakeups and semaphores of interrupt handlers included.
THEOREM NoInversionUnlessNested ==
  PriorityChange # "always" => (Spec /\ []NotNested => []NoInversion)
<1> SUFFICES ASSUME PriorityChange # "always"
             PROVE  Spec /\ []NotNested => []NoInversion
  OBVIOUS
<1>1. IInv /\ Calm => NoInversion
  BY CalmRaised DEF IInv
<1> QED BY <1>1, CalmInvariance, Invariance, PTL

\* There, too, no assertion of thread.c fails and no list of owned locks is
\* corrupted: the faults of lock_release need locks that are nested.
THEOREM NoFaultUnlessNested ==
  PriorityChange # "always" => (Spec /\ []NotNested => []NoFault)
<1> SUFFICES ASSUME PriorityChange # "always"
             PROVE  Spec /\ []NotNested => []NoFault
  OBVIOUS
<1>1. Calm => NoFault
  BY DEF Calm, NoneInRelease, NoFault
<1> QED BY <1>1, CalmInvariance, PTL

\* Threads that compete for one lock, in any number and of any priorities, suffer
\* no inversion.
THEOREM NoInversionWithOneLock ==
  PriorityChange # "always" /\ (\A k, l \in Locks : k = l) => (Spec => []NoInversion)
<1> SUFFICES ASSUME PriorityChange # "always", \A k, l \in Locks : k = l
             PROVE  Spec => []NoInversion
  OBVIOUS
<1> QED BY OneLockInvariance, NoInversionUnlessNested, PTL

\* Nor does the kernel fault on them.
THEOREM NoFaultWithOneLock ==
  PriorityChange # "always" /\ (\A k, l \in Locks : k = l) => (Spec => []NoFault)
<1> SUFFICES ASSUME PriorityChange # "always", \A k, l \in Locks : k = l
             PROVE  Spec => []NoFault
  OBVIOUS
<1> QED BY OneLockInvariance, NoFaultUnlessNested, PTL

\* The running thread goes to sleep for a lock only while another holds it.
LEMMA SleepsOnHeld ==
  ASSUME IInv, Queues', [Next]_vars, NEW t \in Threads, NEW l \in Locks,
         running = t, status'[t] = "blocked", target'[t] = l
  PROVE  cont'[t] = "down" /\ holder'[l] # NULL
<1> USE DEF IInv
<1>1. cont'[t] = "down"
  BY DEF Queues
<1>2. /\ status[t] = "running" /\ t # Idle
      /\ cont \in [Threads -> {"user", "down", "released", "dangling"}]
      /\ target \in [Threads -> Synchs \cup {NULL}]
  BY RunningThread, ThreadsAssumption DEF TypeOK
<1>3. l \in Synchs /\ l \notin Semas
  BY ThreadsAssumption DEF Synchs
<1>4. value[l] = 0 => holder[l] # NULL
  BY DEF Ownership, LockOwnership
<1>5. SUFFICES value[l] = 0 /\ UNCHANGED holder
  BY <1>1, <1>4
<1>6. ASSUME NEW c \in Threads, NEW p \in Priorities, Create(t, c, p) PROVE FALSE
  BY <1>1, <1>6 DEF Create, Calls
<1>7. ASSUME Exit(t) PROVE FALSE
  BY <1>1, <1>7 DEF Exit, Calls
<1>8. ASSUME Yield(t) PROVE FALSE
  BY <1>1, <1>8 DEF Yield, Calls
<1>9. ASSUME NEW p \in Priorities, SetPriority(t, p) PROVE FALSE
  BY <1>1, <1>9 DEF SetPriority, Calls
<1>10. ASSUME NEW k \in Locks, AcquireFree(t, k) PROVE FALSE
  BY <1>1, <1>10 DEF AcquireFree, LockAcquired
<1>11. ASSUME NEW k \in Locks, AcquireTaken(t, k) PROVE value[l] = 0 /\ UNCHANGED holder
  <2>1. value[k] = 0 /\ UNCHANGED holder /\ target' = [target EXCEPT ![t] = k]
    BY <1>11 DEF AcquireTaken, BlockOn
  <2> QED BY <1>2, <2>1
<1>12. ASSUME NEW k \in Locks, Release(t, k) PROVE FALSE
  <2>1. \/ cont' = [cont EXCEPT ![t] = "user"]
        \/ cont' = [cont EXCEPT ![t] = "released"]
    BY <1>12 DEF Release, LockReleased
  <2> QED BY <1>1, <1>2, <2>1
<1>13. ASSUME NEW s \in Semas, Down(t, s) PROVE FALSE
  <2>1. \/ UNCHANGED cont /\ cont[t] = "user"
        \/ target' = [target EXCEPT ![t] = s]
    BY <1>13 DEF Down, BlockOn, Calls
  <2> QED BY <1>1, <1>2, <1>3, <2>1
<1>14. ASSUME NEW s \in Semas, Up(t, s) PROVE FALSE
  BY <1>1, <1>14 DEF Up, Calls
<1>15. ASSUME ResumeDown(t) PROVE value[l] = 0 /\ UNCHANGED holder
  <2>1. CASE value[target[t]] = 0 /\ BlockOn(t, target[t], readyList) /\ UNCHANGED holder
    <3>1. target' = [target EXCEPT ![t] = target[t]]
      BY <2>1 DEF BlockOn
    <3> QED BY <1>2, <2>1, <3>1
  <2>2. CASE cont'[t] = "user"
    BY <1>1, <2>2
  <2> QED BY <1>2, <1>15, <2>1, <2>2 DEF ResumeDown, LockAcquired
<1>16. ASSUME ResumeReleased(t) PROVE FALSE
  <2>1. \/ UNCHANGED cont /\ cont[t] = "dangling"
        \/ cont' = [cont EXCEPT ![t] = "user"]
    BY <1>16 DEF ResumeReleased, LockReleased, threadVars
  <2> QED BY <1>1, <1>2, <2>1
<1>17. ASSUME NEW s \in Semas, InterruptUp(s) PROVE FALSE
  BY <1>1, <1>2, <1>17 DEF InterruptUp
<1>18. ASSUME IdleLoop PROVE FALSE
  BY <1>2, <1>18 DEF IdleLoop
<1>19. ASSUME UNCHANGED vars PROVE FALSE
  BY <1>2, <1>19 DEF vars, threadVars
<1>20. ASSUME NEW u \in Threads, u # t,
              \/ \E c \in Threads, p \in Priorities : Create(u, c, p)
              \/ Exit(u)
              \/ Yield(u)
              \/ \E p \in Priorities : SetPriority(u, p)
              \/ \E k \in Locks : AcquireFree(u, k) \/ AcquireTaken(u, k) \/ Release(u, k)
              \/ \E s \in Semas : Down(u, s) \/ Up(u, s)
              \/ ResumeDown(u)
              \/ ResumeReleased(u)
       PROVE  FALSE
  BY <1>20 DEF Create, Exit, Yield, SetPriority, AcquireFree, AcquireTaken, Release, Down, Up,
               ResumeDown, ResumeReleased, Calls
<1> QED BY <1>6, <1>7, <1>8, <1>9, <1>10, <1>11, <1>12, <1>13, <1>14, <1>15, <1>16, <1>17, <1>18,
           <1>19, <1>20 DEF Next

\* lock_acquire keeps its comment: a thread that goes to sleep for a lock leaves
\* it to a holder of its own priority, also when it was woken for the lock and
\* found it taken.
THEOREM DonatesUnlessNested ==
  PriorityChange # "always" => (Spec /\ []NotNested => DonatesWhenItSleeps)
<1> SUFFICES ASSUME PriorityChange # "always"
             PROVE  Spec /\ []NotNested => DonatesWhenItSleeps
  OBVIOUS
<1> DEFINE Donates == \A t \in Threads, l \in Locks :
             (running = t /\ status'[t] = "blocked" /\ target'[t] = l)
               => priority'[holder'[l]] >= priority'[t]
<1>1. IInv /\ IInv' /\ Calm' /\ [Next]_vars => Donates
  <2> SUFFICES ASSUME IInv, IInv', Calm', [Next]_vars, NEW t \in Threads, NEW l \in Locks,
                      running = t, status'[t] = "blocked", target'[t] = l
               PROVE  priority'[holder'[l]] >= priority'[t]
    OBVIOUS
  <2>1. cont'[t] = "down" /\ holder'[l] # NULL
    BY SleepsOnHeld, HeldNext
  <2> QED BY <2>1 DEF Calm, HolderRaised
<1>2. IInv /\ IInv' /\ Calm' /\ [Next]_vars => [Donates]_vars
  BY <1>1
<1> QED BY <1>2, CalmInvariance, Invariance, PTL DEF Spec, DonatesWhenItSleeps

\* With one lock every thread that sleeps for it has donated.
THEOREM DonatesWithOneLock ==
  PriorityChange # "always" /\ (\A k, l \in Locks : k = l) => (Spec => DonatesWhenItSleeps)
<1> SUFFICES ASSUME PriorityChange # "always", \A k, l \in Locks : k = l
             PROVE  Spec => DonatesWhenItSleeps
  OBVIOUS
<1> QED BY OneLockInvariance, DonatesUnlessNested, PTL
=============================================================================
