------------------------------- MODULE Threads -------------------------------
(***************************************************************************)
(* The scheduler, semaphores and locks of the kernel, with priority        *)
(* donation: threads/thread.c and threads/synch.c under the priority       *)
(* scheduler (thread_mlfqs false).                                         *)
(*                                                                         *)
(* There is one CPU.  Kernel code that runs with interrupts off is left    *)
(* only where the code switches threads, so an action is everything the    *)
(* running thread does up to its next switch.  `cont' says where a thread  *)
(* that was switched out goes on: in its own code ("user"), inside the     *)
(* loop of sema_down ("down"), or after the sema_up of lock_release        *)
(* ("released").  A released lock that another thread acquires in between  *)
(* has its list element moved into the list of the new owner; the element  *)
(* is then reached from two lists ("dangling").                            *)
(***************************************************************************)
EXTENDS Lists

CONSTANTS
  Threads,          \* thread structures, the initial thread among them
  Main,             \* the initial thread
  Locks,            \* locks; the semaphore of a lock carries the lock's name
  Semas,            \* plain counting semaphores
  Priorities,       \* priorities that threads are created with or set to
  PriMin,           \* PRI_MIN, the priority of the idle thread
  MaxNesting,       \* PRI_MAX_DONATION_NESTING
  MaxSema,          \* bound on the value of a plain semaphore
  PriorityChange,   \* when clients call thread_set_priority (see SetPriority)
  Idle,             \* the idle thread
  NULL

ASSUME ThreadsAssumption ==
  /\ Main \in Threads
  /\ IsFiniteSet(Threads)
  /\ Idle \notin Threads
  /\ NULL \notin Threads \cup Locks \cup Semas
  /\ Locks \cap Semas = {}
  /\ Priorities \subseteq Int
  /\ PriMin \in Int
  /\ \A p \in Priorities : PriMin <= p
  /\ MaxNesting \in Nat \ {0}
  /\ MaxSema \in Nat
  /\ PriorityChange \in {"never", "unlocked", "always"}

VARIABLES
  status,         \* struct thread: status
  priority,       \* struct thread: priority, the effective one
  basePriority,   \* struct thread: base_priority
  waitingLock,    \* struct thread: waiting_lock
  locksOwned,     \* struct thread: locks_owned_list
  cont, target,   \* where a switched out thread goes on, and on what
  running,        \* the thread on the CPU
  readyList,      \* ready_list
  value, waiters, \* struct semaphore
  holder,         \* struct lock
  fault           \* the first failed ASSERT or corrupted list, or "none"

threadVars == <<status, priority, basePriority, waitingLock, locksOwned,
                cont, target>>
schedVars  == <<running, readyList, status>>
semaVars   == <<value, waiters>>
vars == <<threadVars, running, readyList, semaVars, holder, fault>>

Synchs == Locks \cup Semas
Statuses == {"new", "ready", "running", "blocked", "dying"}

-----------------------------------------------------------------------------
(* Lists ordered by effective priority.                                    *)

\* Mutant: the thread stays where it is in the ready list.
ReshuffleNot(list, t, prio) == list

\* Mutant: the thread is inserted again without list_remove.
ReshuffleTwice(list, t, prio) == InsertOrdered(list, t, prio)

\* shuffle_ready_thread: the place of t in the list after its priority changed.
Reshuffle(list, t, prio) == InsertOrdered(Without(list, t), t, prio)

\* Mutant: the last waiter is overlooked.
NoOtherWaits(s) == Len(waiters[s]) <= 1

NobodyWaits(s) == waiters[s] = <<>>

-----------------------------------------------------------------------------
(* Thread switches.                                                        *)

\* schedule: the front of the ready list runs, the idle thread if there is
\* none.  The caller has already given the current thread its new status.
Schedule(ready, st) ==
  IF ready = <<>>
  THEN /\ running' = Idle
       /\ readyList' = ready
       /\ status' = st
  ELSE /\ running' = Head(ready)
       /\ readyList' = Tail(ready)
       /\ status' = [st EXCEPT ![Head(ready)] = "running"]

\* thread_yield
YieldTo(t, ready, st, prio) ==
  Schedule(InsertOrdered(ready, t, prio), [st EXCEPT ![t] = "ready"])

\* The test of maybe_yield_to_ready_thread.
Outranked(p, ready, prio) == ready # <<>> /\ p < prio[Head(ready)]

\* maybe_yield_to_ready_thread
MaybeYield(t, ready, st, prio) ==
  IF Outranked(prio[t], ready, prio)
  THEN YieldTo(t, ready, st, prio)
  ELSE /\ readyList' = ready
       /\ status' = st
       /\ running' = running

\* sema_down's loop body: queue up and block.
BlockOn(t, s, ready) ==
  /\ waiters' = [waiters EXCEPT ![s] = Append(@, t)]
  /\ cont' = [cont EXCEPT ![t] = "down"]
  /\ target' = [target EXCEPT ![t] = s]
  /\ Schedule(ready, [status EXCEPT ![t] = "blocked"])

-----------------------------------------------------------------------------
(* Priority donation.                                                      *)

\* The threads that thread_lock_will_wait visits: the holder of l, then the
\* holder of the lock that a blocked thread waits on, and so on.
DonationChain(l) ==
  {d \in Threads : \E n \in 0..MaxNesting - 1 : \E chain \in [0..n -> Threads] :
     /\ chain[0] = holder[l] /\ chain[n] = d
     /\ \A i \in 1..n : LET b == chain[i - 1]
                        IN  /\ status[b] = "blocked" /\ waitingLock[b] # NULL
                            /\ chain[i] = holder[waitingLock[b]]}

\* Mutant: only ready threads are raised.
DoneesReady(l, p) == {d \in DonationChain(l) : status[d] = "ready" /\ priority[d] < p}

\* The visited threads that thread_lock_will_wait raises to priority p.
Donees(l, p) ==
  {d \in DonationChain(l) : status[d] \in {"blocked", "ready"} /\ priority[d] < p}

\* thread_lock_acquired, the caller being the new holder.  A thread that is
\* still inside its lock_release of l keeps a pointer to the moved element.
LockAcquired(t, l) ==
  /\ holder' = [holder EXCEPT ![l] = t]
  /\ locksOwned' = [locksOwned EXCEPT ![t] = <<l>> \o @]
  /\ waitingLock' = [waitingLock EXCEPT ![t] = NULL]
  /\ cont' = [u \in Threads |->
       IF u = t THEN "user"
       ELSE IF cont[u] = "released" /\ target[u] = l THEN "dangling" ELSE cont[u]]
  /\ target' = [target EXCEPT ![t] = NULL]

\* Mutant: list_remove is forgotten.
OwnedWithoutNot(t, l) == locksOwned[t]

\* The locks of t that are left when it has released l.
OwnedWithout(t, l) == Without(locksOwned[t], l)

\* The highest priority among the waiters of the locks in the list, PRI_MIN
\* if there are none.
HighestWaiting(locks, wait, prio) ==
  Max((UNION {{prio[t] : t \in ToSet(wait[l])} : l \in ToSet(locks)}) \cup {PriMin})

\* thread_lock_released: drop l from the list, keep the donations of the
\* remaining locks, and yield if that is not enough to go on.
LockReleased(t, l, ready, st, wait) ==
  LET left    == OwnedWithout(t, l)
      highest == HighestWaiting(left, wait, priority)
      prio    == [priority EXCEPT ![t] = Max({basePriority[t], highest})]
  IN  /\ locksOwned' = [locksOwned EXCEPT ![t] = left]
      /\ cont' = [cont EXCEPT ![t] = "user"]
      /\ target' = [target EXCEPT ![t] = NULL]
      /\ IF highest > priority[t]        \* ASSERT in maybe_lower_priority
         THEN /\ fault' = "assert"
              /\ readyList' = ready
              /\ status' = st
              /\ UNCHANGED <<priority, running>>
         ELSE /\ priority' = prio
              /\ UNCHANGED fault
              /\ MaybeYield(t, ready, st, prio)

-----------------------------------------------------------------------------
Init ==
  /\ \E p \in Priorities :
       /\ priority = [t \in Threads |-> p]
       /\ basePriority = [t \in Threads |-> p]
  /\ status = [t \in Threads |-> IF t = Main THEN "running" ELSE "new"]
  /\ waitingLock = [t \in Threads |-> NULL]
  /\ locksOwned = [t \in Threads |-> <<>>]
  /\ cont = [t \in Threads |-> "user"]
  /\ target = [t \in Threads |-> NULL]
  /\ running = Main
  /\ readyList = <<>>
  /\ value = [s \in Synchs |-> IF s \in Locks THEN 1 ELSE 0]
  /\ waiters = [s \in Synchs |-> <<>>]
  /\ holder = [l \in Locks |-> NULL]
  /\ fault = "none"

\* The running thread, in its own code, calls into the kernel.
Calls(t) == fault = "none" /\ running = t /\ t # Idle /\ cont[t] = "user"

\* thread_create of the thread structure c with priority p.
Create(t, c, p) ==
  LET prio == [priority EXCEPT ![c] = p]
  IN  /\ Calls(t)
      /\ status[c] = "new"
      /\ priority' = prio
      /\ basePriority' = [basePriority EXCEPT ![c] = p]
      /\ MaybeYield(t, InsertOrdered(readyList, c, prio),
                    [status EXCEPT ![c] = "ready"], prio)
      /\ UNCHANGED <<waitingLock, locksOwned, cont, target, semaVars, holder, fault>>

\* thread_exit; a thread exits after it has released its locks.
Exit(t) ==
  /\ Calls(t)
  /\ locksOwned[t] = <<>>
  /\ Schedule(readyList, [status EXCEPT ![t] = "dying"])
  /\ UNCHANGED <<priority, basePriority, waitingLock, locksOwned, cont, target,
                 semaVars, holder, fault>>

\* thread_yield, called or at the end of a time slice.
Yield(t) ==
  /\ Calls(t)
  /\ YieldTo(t, readyList, status, priority)
  /\ UNCHANGED <<priority, basePriority, waitingLock, locksOwned, cont, target,
                 semaVars, holder, fault>>

\* Mutant: a new base priority never lowers the effective one.
PrioritySetRaised(t, p) == IF p > priority[t] THEN p ELSE priority[t]

\* The effective priority after thread_set_priority: a donation that is higher
\* than the new base priority stays.
PrioritySet(t, p) ==
  IF basePriority[t] = priority[t] \/ p > priority[t] THEN p ELSE priority[t]

\* thread_set_priority.  PriorityChange restricts the callers: none, those
\* that own no lock, or all.
SetPriority(t, p) ==
  LET prio == [priority EXCEPT ![t] = PrioritySet(t, p)]
  IN  /\ Calls(t)
      /\ PriorityChange # "never"
      /\ PriorityChange = "unlocked" => locksOwned[t] = <<>>
      /\ priority' = prio
      /\ basePriority' = [basePriority EXCEPT ![t] = p]
      /\ MaybeYield(t, readyList, status, prio)
      /\ UNCHANGED <<waitingLock, locksOwned, cont, target, semaVars, holder, fault>>

\* Mutant: the semaphore of the lock is not looked at.
AcquireTwice(t, l) ==
  /\ Calls(t)
  /\ holder[l] # t
  /\ value' = [value EXCEPT ![l] = @ - 1]
  /\ LockAcquired(t, l)
  /\ UNCHANGED <<status, priority, basePriority, running, readyList, waiters, fault>>

\* lock_acquire of a free lock.
AcquireFree(t, l) ==
  /\ Calls(t)
  /\ holder[l] # t
  /\ value[l] > 0
  /\ value' = [value EXCEPT ![l] = @ - 1]
  /\ LockAcquired(t, l)
  /\ UNCHANGED <<status, priority, basePriority, running, readyList, waiters, fault>>

\* lock_acquire of a lock that is taken: thread_lock_will_wait donates, the
\* raised ready thread is moved up in the ready list, and sema_down blocks.
AcquireTaken(t, l) ==
  LET raised == Donees(l, priority[t])
      prio   == [d \in Threads |-> IF d \in raised THEN priority[t] ELSE priority[d]]
      moved  == {d \in raised : status[d] = "ready"}
      ready  == IF moved = {} THEN readyList
                ELSE LET d == CHOOSE d \in moved : TRUE
                     IN  Reshuffle(readyList, d, prio)
  IN  /\ Calls(t)
      /\ holder[l] # t
      /\ value[l] = 0
      /\ priority' = prio
      /\ waitingLock' = [waitingLock EXCEPT ![t] = l]
      /\ BlockOn(t, l, ready)
      /\ UNCHANGED <<basePriority, locksOwned, value, holder, fault>>

\* sema_down of a plain semaphore.
Down(t, s) ==
  /\ Calls(t)
  /\ IF value[s] > 0
     THEN /\ value' = [value EXCEPT ![s] = @ - 1]
          /\ UNCHANGED <<cont, target, schedVars, waiters>>
     ELSE /\ BlockOn(t, s, readyList)
          /\ UNCHANGED value
  /\ UNCHANGED <<priority, basePriority, waitingLock, locksOwned, holder, fault>>

\* sema_down goes on after thread_block: it tests the value again, and a
\* thread that finds it taken queues up without donating.
ResumeDown(t) ==
  LET s == target[t]
  IN  /\ fault = "none"
      /\ running = t
      /\ t # Idle
      /\ cont[t] = "down"
      /\ \/ /\ value[s] = 0
            /\ BlockOn(t, s, readyList)
            /\ UNCHANGED <<value, holder, locksOwned, waitingLock>>
         \/ /\ value[s] > 0
            /\ value' = [value EXCEPT ![s] = @ - 1]
            /\ IF s \in Locks
               THEN LockAcquired(t, s)
               ELSE /\ cont' = [cont EXCEPT ![t] = "user"]
                    /\ target' = [target EXCEPT ![t] = NULL]
                    /\ UNCHANGED <<holder, locksOwned, waitingLock>>
            /\ UNCHANGED <<schedVars, waiters>>
      /\ UNCHANGED <<priority, basePriority, fault>>

\* sema_up of a plain semaphore by the running thread.
Up(t, s) ==
  /\ Calls(t)
  /\ value[s] < MaxSema
  /\ value' = [value EXCEPT ![s] = @ + 1]
  /\ IF NobodyWaits(s)
     THEN UNCHANGED <<schedVars, waiters>>
     ELSE \E i \in Highest(waiters[s], priority) :
            LET w == waiters[s][i]
            IN  /\ waiters' = [waiters EXCEPT ![s] = RemoveAt(@, i)]
                /\ MaybeYield(t, InsertOrdered(readyList, w, priority),
                              [status EXCEPT ![w] = "ready"], priority)
  /\ UNCHANGED <<priority, basePriority, waitingLock, locksOwned, cont, target,
                 holder, fault>>

\* sema_up in an external interrupt handler, which runs while interrupts are
\* on: a wakened thread of a higher priority takes over on return.
InterruptUp(s) ==
  LET prio  == [t \in Threads \cup {Idle} |-> IF t = Idle THEN PriMin ELSE priority[t]]
      after(ready, st) ==
        IF running # Idle
        THEN MaybeYield(running, ready, st, priority)
        ELSE IF Outranked(PriMin, ready, prio)
        THEN Schedule(ready, st)
        ELSE readyList' = ready /\ status' = st /\ UNCHANGED running
  IN  /\ fault = "none"
      /\ running # Idle => cont[running] = "user"
      /\ value[s] < MaxSema
      /\ value' = [value EXCEPT ![s] = @ + 1]
      /\ IF NobodyWaits(s)
         THEN UNCHANGED <<schedVars, waiters>>
         ELSE \E i \in Highest(waiters[s], priority) :
                LET w == waiters[s][i]
                IN  /\ waiters' = [waiters EXCEPT ![s] = RemoveAt(@, i)]
                    /\ after(InsertOrdered(readyList, w, priority),
                             [status EXCEPT ![w] = "ready"])
      /\ UNCHANGED <<priority, basePriority, waitingLock, locksOwned, cont, target,
                     holder, fault>>

\* lock_release.  Its sema_up switches to the wakened thread if that has a
\* higher priority; thread_lock_released then runs when t is scheduled again.
Release(t, l) ==
  /\ Calls(t)
  /\ holder[l] = t
  /\ holder' = [holder EXCEPT ![l] = NULL]
  /\ value' = [value EXCEPT ![l] = @ + 1]
  /\ IF NobodyWaits(l)
     THEN /\ LockReleased(t, l, readyList, status, waiters)
          /\ UNCHANGED waiters
     ELSE \E i \in Highest(waiters[l], priority) :
            LET w     == waiters[l][i]
                wait  == [waiters EXCEPT ![l] = RemoveAt(@, i)]
                ready == InsertOrdered(readyList, w, priority)
                st    == [status EXCEPT ![w] = "ready"]
            IN  /\ waiters' = wait
                /\ IF Outranked(priority[t], ready, priority)
                   THEN /\ YieldTo(t, ready, st, priority)
                        /\ cont' = [cont EXCEPT ![t] = "released"]
                        /\ target' = [target EXCEPT ![t] = l]
                        /\ UNCHANGED <<priority, locksOwned, fault>>
                   ELSE LockReleased(t, l, ready, st, wait)
  /\ UNCHANGED <<basePriority, waitingLock>>

\* lock_release goes on after its sema_up.  Walking a list whose element was
\* moved to another list leaves the list: undefined behaviour, the fault "list".
ResumeReleased(t) ==
  /\ fault = "none"
  /\ running = t
  /\ t # Idle
  /\ cont[t] \in {"released", "dangling"}
  /\ IF cont[t] = "dangling"
     THEN fault' = "list" /\ UNCHANGED <<threadVars, running, readyList>>
     ELSE LockReleased(t, target[t], readyList, status, waiters)
  /\ UNCHANGED <<basePriority, waitingLock, semaVars, holder>>

\* The idle thread blocks again after an interrupt.
IdleLoop ==
  /\ running = Idle
  /\ readyList # <<>>
  /\ Schedule(readyList, status)
  /\ UNCHANGED <<priority, basePriority, waitingLock, locksOwned, cont, target,
                 semaVars, holder, fault>>

Next ==
  \/ \E t \in Threads :
       \/ \E c \in Threads, p \in Priorities : Create(t, c, p)
       \/ Exit(t)
       \/ Yield(t)
       \/ \E p \in Priorities : SetPriority(t, p)
       \/ \E l \in Locks : AcquireFree(t, l) \/ AcquireTaken(t, l) \/ Release(t, l)
       \/ \E s \in Semas : Down(t, s) \/ Up(t, s)
       \/ ResumeDown(t)
       \/ ResumeReleased(t)
  \/ \E s \in Semas : InterruptUp(s)
  \/ IdleLoop

Spec == Init /\ [][Next]_vars

(* The kernel code of the running thread goes on as long as the CPU does.  *)
(* Threads are finite programs: one that keeps running leaves its critical *)
(* section and ends, which is what the lock clients of the kernel do, and   *)
(* a device whose interrupt a thread sleeps for does interrupt.            *)
FairSpec ==
  /\ Spec
  /\ WF_vars(IdleLoop)
  /\ \A s \in Semas : WF_vars(InterruptUp(s))
  /\ \A t \in Threads :
       /\ WF_vars(ResumeDown(t))
       /\ WF_vars(ResumeReleased(t))
       /\ SF_vars(Exit(t))
       /\ \A l \in Locks : SF_vars(Release(t, l))

-----------------------------------------------------------------------------
(* Properties.                                                             *)

TypeOK ==
  /\ status \in [Threads -> Statuses]
  /\ priority \in [Threads -> Int]
  /\ basePriority \in [Threads -> Int]
  /\ waitingLock \in [Threads -> Locks \cup {NULL}]
  /\ locksOwned \in [Threads -> Seq(Locks)]
  /\ cont \in [Threads -> {"user", "down", "released", "dangling"}]
  /\ target \in [Threads -> Synchs \cup {NULL}]
  /\ running \in Threads \cup {Idle}
  /\ readyList \in Seq(Threads)
  /\ value \in [Synchs -> Nat]
  /\ waiters \in [Synchs -> Seq(Threads)]
  /\ holder \in [Locks -> Threads \cup {NULL}]
  /\ fault \in {"none", "assert", "list"}

\* The list element of a thread has two uses, the ready list and the waiters of
\* one semaphore, and the code relies on their being exclusive (thread.h,
\* struct thread): a ready thread is in the ready list once, a blocked one among
\* the waiters of the semaphore it went down on once, any other in no list.
ElemInOneList ==
  \A t \in Threads :
    LET inReady   == {i \in DOMAIN readyList : readyList[i] = t}
        inWait(s) == {i \in DOMAIN waiters[s] : waiters[s][i] = t}
    IN  /\ Cardinality(inReady) = IF status[t] = "ready" THEN 1 ELSE 0
        /\ \A s \in Synchs : Cardinality(inWait(s)) =
             IF status[t] = "blocked" /\ target[t] = s THEN 1 ELSE 0
        /\ status[t] = "running" <=> running = t

\* A lock is free exactly when its semaphore is up, and it is in the list of the
\* thread that holds it, or of one that is still inside its lock_release, and in
\* no other.
LockOwnership ==
  \A l \in Locks :
    /\ value[l] = IF holder[l] = NULL THEN 1 ELSE 0
    /\ \A t \in Threads : Contains(locksOwned[t], l) <=>
         (holder[l] = t \/ (cont[t] \in {"released", "dangling"} /\ target[t] = l))

\* The scheduler keeps the CPU with a thread of the highest effective priority
\* whenever that thread is in its own code, donations and thread_set_priority
\* included, and the ready list is in the order of the priorities.
HighestPriorityRuns ==
  /\ \A i, j \in DOMAIN readyList :
       i < j => priority[readyList[i]] >= priority[readyList[j]]
  /\ running # Idle /\ cont[running] = "user" /\ fault = "none" =>
       \A i \in DOMAIN readyList : priority[readyList[i]] <= priority[running]

\* No wakeup is lost: while threads queue on a semaphore that is up, as many
\* threads as it has units are already awake inside its sema_down.
NoLostWakeup ==
  \A s \in Synchs :
    waiters[s] # <<>> =>
      value[s] <= Cardinality({t \in Threads : /\ cont[t] = "down" /\ target[t] = s
                                               /\ status[t] \in {"ready", "running"}})

\* A donation is given back: a thread that owns no lock runs at its base
\* priority, and no thread ever runs below it.
DonationReturned ==
  \A t \in Threads :
    /\ priority[t] >= basePriority[t]
    /\ locksOwned[t] = <<>> => priority[t] = basePriority[t]

\* No priority inversion: the holder of a lock has at least the effective
\* priority of every thread that waits for the lock (lock_acquire donates it).
NoInversion ==
  \A l \in Locks : holder[l] # NULL =>
    \A i \in DOMAIN waiters[l] : priority[holder[l]] >= priority[waiters[l][i]]

\* No ASSERT of thread.c fails and no list of owned locks is corrupted.
NoFault == fault = "none"

\* The assertion in maybe_lower_priority: the donations that remain after a
\* lock_release are no higher than the priority the thread has.
LowersOnly == fault # "assert"

\* "If the thread will sleep and it has a higher priority than the owner of the
\* lock, it will donate its priority to the owning thread" (lock_acquire).
DonatesWhenItSleeps ==
  [][\A t \in Threads, l \in Locks :
       (running = t /\ status'[t] = "blocked" /\ target'[t] = l)
         => priority'[holder'[l]] >= priority'[t]]_vars

\* A thread that waits for a lock gets it, once threads leave their critical
\* sections: neither barging nor the order of the priorities keeps it out.
WaiterAcquires ==
  \A t \in Threads, l \in Locks : waitingLock[t] = l ~> holder[l] = t
=============================================================================
