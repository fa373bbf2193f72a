# A TLA+ development of the kernel

The repository holds several copies of a teaching kernel of the Pintos family. `src/pintos` is the
first project (threads), `src/pintos-2_userprog` the second (user programs), `src/pintos-3_vm` the
third (virtual memory); `src/pintos_3/src` contains all of it with the file system and is the most
complete. The modules here are about `src/pintos_3/src`; paths below are relative to it.

## 1. The system

One CPU, preemptive kernel threads, a timer interrupt. Each user process is one kernel thread.
Threads share memory and interact through semaphores, locks with priority donation, and condition
variables (monitors). Nothing survives a shutdown except the disk.

| Component | State | Operations | Interacts with |
|---|---|---|---|
| scheduler (`threads/thread.c`) | `ready_list`, `struct thread` (status, priority, base priority, waiting lock, owned locks) | create, exit, yield, block, unblock, set priority, donate | semaphores and locks call it; interrupts preempt through it |
| semaphores, locks, condition variables (`threads/synch.c`) | value, waiters, holder | sema down and up, lock acquire and release, wait, signal, broadcast | scheduler; everything above |
| timer (`devices/timer.c`, `thread.c`) | `sleep_list` of relative counts | `timer_sleep`, timer interrupt | scheduler |
| mlfqs (`thread.c`, `fixed-point.h`) | `load_avg`, `recent_cpu`, `nice` | update at ticks | scheduler |
| processes (`userprog/process.c`) | child list, `exit_lock`, `exiting`, exit status in the child's own page | execute, start, wait, exit | scheduler frees the pages of dying threads |
| buffer cache (`filesys/buffers.c`) | 64 buffers with flags, `cache` list, waiting counts, read ahead queue | acquire, release, flush all, read ahead | block device; all of the file system |
| free map, inodes, directories, paths | bitmap, open inodes with counts, entries | open, close, remove, extend, lookup | buffer cache |
| frame table, swap, mmap | frames, page infos, clock hand, swap map | load, lock, evict, unload | page directories, file system, swap device |
| allocators (`palloc.c`, `malloc.c`) | bitmaps, arenas, free lists | get and free | everything |
| interrupt queues (`devices/intq.c`) | ring buffer, two waiting threads | get, put | keyboard, serial line |
| system calls (`userprog/syscall.c`) | descriptor table | 20 calls | process, file system, frame table |

What is hard in it:

- *Thread switches in the middle of kernel code.* `sema_up` yields inside `lock_release`, so what
  follows it in `lock_release` runs after other threads have used the lock. `sema_down` tests again
  after it was woken, so a released lock can be taken by a third thread (barging).
- *Donation* relates the priority of one thread to the waiters of all locks it owns, through chains
  of locks, while base priorities change.
- *I/O without the lock.* The cache gives up `cache_lock` while it writes an evicted sector and
  reads the new one; other threads look for both sectors meanwhile.
- *Wakeups that reach one thread.* `cond_signal` wakes one waiter; whoever is woken may find the
  condition false again.
- *Memory that two threads may free.* The page of a thread is freed by its parent, by a parent that
  exits, or by the scheduler, depending on the order in which they end.
- *Frames between two owners.* A frame is emptied and filled with I/O outside `frame_lock`, while
  other processes fault on the old page, on the new one, on the same block of an executable, or write
  to the page without any lock.
- *Names that change under a walk.* A path is walked one locked directory at a time; what was found
  can be removed, emptied or replaced before it is locked for a change.

For each component the properties that make it correct are, in short: scheduler and locks - the
highest priority runs, no thread is in two lists, a lock has one owner, no wakeup is lost, donations
arrive and are given back; timer - every thread wakes at its tick; cache - one copy of a sector, one
owner of a buffer, nothing written is lost, every acquisition returns; processes - every structure
is freed once, after the thread has gone, and a wait returns; frame table - a page is in one frame
or in its backing store, a pinned frame stays, a shared frame is freed once; free map and inodes - a
sector has one owner, an inode one in-memory structure, removal frees its blocks once.
`PROJECT.json` lists the hazards with their lines.

## 2. The modules

| Module | Source | What it is |
|---|---|---|
| `Lists` | `lib/kernel/list.c` | the kernel's linked lists as sequences |
| `Threads` | `threads/thread.c`, `threads/synch.c` | scheduler, semaphores, locks, donation |
| `BufferCache` | `filesys/buffers.c` | the buffer cache with its three kinds of threads |
| `SectorStore` | what `buffers.c` promises its callers | the abstract specification `BufferCache` implements |
| `SleepList` | `devices/timer.c`, `thread.c` | `timer_sleep` and the timer interrupt |
| `Alarm` | what `timer_sleep` promises | the abstract specification `SleepList` implements |
| `Process` | `userprog/process.c`, `thread_exit` | parents, children, exit and wait |
| `FrameTable` | `vm/frametable.c`, `vm/swap.c`, `vm/mmap.c`, page faults, pinned buffers | virtual memory of several processes |
| `UserMemory` | what `vm/` promises a process | the abstract specification `FrameTable` implements |
| `Directory` | `filesys/filesys.c`, `path.c`, `directory.c`, open inodes of `inode.c`, `free-map.c` | the name space of the file system |
| `FileTree` | what the calls on names promise | the abstract specification `Directory` implements |
| `MC...` | | instances for TLC |
| `Lists_proofs` | | lemmas about lists without repetition and about their order, proved |
| `Threads_proofs` | | inductive invariants of the scheduler and the locks, proved |
| `Process_proofs` | | inductive invariant of parents and children, proved |
| `SleepList_proofs` | | the list of relative counts and the alarm it implements, proved |
| `FrameTable_proofs` | | inductive invariant of the frame table, and that pages are private, proved |
| `Directory_proofs` | | the open counts, the locks, the sectors and the tree, proved |
| `BufferCache_proofs` | | inductive invariant of the cache, proved |
| `BufferCacheStore_proofs` | | the cache implements the store, proved |

Definitions named "Mutant" in a comment are plausible mistakes in the operator that follows them;
nothing uses them in the specification. They record which mistake each property detects.

### Threads

*Steps.* Kernel code with interrupts off loses the CPU only where it switches threads, so one action
is what the running thread does up to its next switch: `AcquireFree`, `AcquireTaken` (which donates
and blocks), `Release` (up to the switch in `sema_up`, or to its end), and so on. `cont[t]` says
where a thread that was switched out goes on: in its own code, in the loop of `sema_down`
(`ResumeDown`), or after the `sema_up` of `lock_release` (`ResumeReleased`). `Schedule`, `YieldTo`
and `MaybeYield` are the functions of those names; every wakeup is followed by the yield the code
makes.

*Donation.* `thread_lock_will_wait` walks from the holder of the lock along `waiting_lock` for at
most `PRI_MAX_DONATION_NESTING` steps. `DonationChain` is the set of the threads it visits; the walk
goes on whether or not a thread was raised, so the threads it raises (`Donees`) do not depend on the
order. The ready thread at the end of a chain is moved in the ready list.

*Faults.* `fault` becomes "assert" when the assertion of `maybe_lower_priority` fails and "list"
when `lock_release` walks a list through an element that another thread has moved; every thread
stops there.

*Data.* Priorities are small integers; the stack, names and ids of threads are left out. The order
of threads with equal priority is exact (`list_insert_ordered`, first of the highest in `list_max`).

### BufferCache and SectorStore

`cache_lock` is a monitor: what a thread does while it holds it is one action, and the I/O and the
use of a buffer between two critical sections are actions of their own (`EvictWrite`, `EvictDone`,
`Read`, `Write`, `FlushWrite`, `FlushClean`). `pc` says where a thread is, `want` and `at` are its
locals `sector` and `buffer`. A thread in `cond_wait` is in a "wait..." state; `Signal` moves one of
them on, chosen freely, because which of them `cond_signal` takes depends on priorities. The thread
then competes for the lock with the others, so it looks again only in a later step.

`buffer->waiting` is raised and lowered around the inner loop; where the loop does not wait, both
happen in one step. The two passes of `get_buffer_to_acquire` (a match first, then data before meta
data in the order of the list) are `Matches` and `Victim`. `sector` and `evicting` are never both of
interest for the same search: no buffer matches a sector in two ways (`OneCopy`).

Sector contents are values; a block transfer is one step. `read_ahead` is given an arbitrary sector
(`Prefetch`), which is what its queue of requests comes to, and `main` at shutdown is one of the
`Flushers`, as `buffers_done` calls `flush_all`.

`SectorStore` has no cache: an array of sectors, each owned by at most one user. `Contents` and
`Holder` in `BufferCache` say what the array is: the contents of a sector are in the buffer that
caches it, in the buffer from which it is being evicted, or on the disk.

### SleepList and Alarm

`wakeup_ticks` of a sleeper counts from the wakeup of the sleeper before it, and the comparison
function called by `list_insert_ordered` adjusts the counts as it goes. `Passed` is the number of
threads the walk passes, `Remaining` what is left of the new thread's ticks then. `Alarm` keeps an
absolute count per thread; `Left` is the mapping, the sum of the counts up to a thread, for which
`Sums` is the function of all prefix sums of the list.

### Process

A step is what a process does between two points at which another may run: taking `exit_lock`,
waiting on `exiting`, releasing the lock. `frees[c]` counts the calls of `palloc_free_page` on the
structure of `c`; `useAfterFree` is set when a freed structure is accessed. `Leave` is the end of
`process_exit` together with the switch that frees a dying thread. The variable `mlfqs` is chosen in
the initial state: without it, all processes have the same priority and `lock_release` never
switches away (`ReleaseAndLeave`); with it, a waiting parent may outrank its child and run before
the child has set its status (`ReleaseAndYield`, `LeaveLater`).
After an orphan's structure is freed the model goes on as a build with `NDEBUG` does; other builds
fill the page with 0xcc and panic in `lock_release`: what the other runs show of the states
beyond that point is about `NDEBUG` builds.

### FrameTable and UserMemory

`frame_lock` is a monitor like `cache_lock`: what a process does with it is one action, and I/O
(`Read`, `WriteToFile`, `WriteToSwap`) is done without it, with `io` set in the frame. A load is
`PageFault` or `Pin`, `LoadShared` or `LoadFresh`, `Read`, `Loaded`; an eviction `Evict`, `EvictUnmap`,
the write (`WriteToFile`, or `ScanSwapMap` and `WriteToSwap`), `Evicted`; an unload `Unmap`, `Detach`,
`FileSaved`, `ReleaseFrame`, `DropPage`.
`frameLock` is there for the one place where the lock is kept across two steps: `evict_frame` looks
at the dirty bits of all pages of a frame before it unmaps them, and user code writes in between.
User code is `Access`, and a system call that copies to its locked buffer `CopyToPinned`: they take no
lock, set the accessed and dirty bits, and the first is possible only in a page that is present. `clock` is `frame_list` from `clock_hand` on, so that the hand is its head.
`pins` are the pages of a buffer that a system call has locked with `keep_locked`. A page of an
executable that is not writable has one frame for all processes (`roFrame` is the hash table
`read_only_frames`, for one block).

`fault` ends a run where the kernel stops or the harm is done: "no hash entry" is the assertion of
`evict_frame` that `FrameTable_hash` finds; "no frame available" is the panic when the clock finds
every frame locked or busy, which can happen while frames are only being read; "no swap space", the
panic of a full swap device; and the others are outcomes of races in the code that no comment denies:
"write lost" (a write between the look at the dirty bits and the unmapping), "used after free",
"slot taken" and "has a frame". Every property speaks of the states before, so what they show is
that these named places are the only ones where it goes wrong. `UserMemory` has one private cell per
mapped page; `Contents` says where the cell is: in its frame, in its swap slot, in its file, or in
a frame that is still to be written back.

### Directory and FileTree

A call is a walk (`Begin`, `Walk`, `Descend`) that holds one directory open and locks one at a time,
and then what `filesys_create`, `filesys_mkdir`, `filesys_remove`, `filesys_open` and `filesys_chdir`
do with the directory they found. The parent is unlocked between the end of the walk and the change.
`openCnt`, `removed` and `lock` are those of `struct inode`; `used` is the free map, whose scan and
mark are two steps without a lock (`Scan`, `Flip`); `fault` says that two files were given the same
sector, after which nothing is of interest. Read only steps under a lock are one step with it.
`strays` is history: a directory that was removed while another process was about to lock it still
takes entries. They are inodes in use that the tree does not have; `NoSectorLost` says that nothing
else is. A process that was about to remove a name from the same directory finds such an inode, opens
it and frees it with its last close; otherwise its sector stays in use for ever. `FileTree` has the
names, the directories and the inodes that processes hold; a name appears and disappears at once in it and the
number of an inode that is in use is given to nobody else.

## 3. The runs

| Run | Instance | Shows |
|---|---|---|
| `Threads_lock` | 3 threads, 3 priorities, 1 lock, 1 semaphore, priority changes by threads that own no lock | lists, scheduling, wakeups, donation, no inversion, no fault, and that a waiting thread gets the lock |
| `Threads_nested` | 3 threads, 3 priorities, 2 locks in any order (deadlocks included), priority changes at any time | ownership, scheduling and the return of donations, which hold even where donation goes wrong |
| `Threads_assert` | as above, priorities never change | the assertion in `maybe_lower_priority` can fail |
| `BufferCache_safe` | 2 users, write back, read ahead, 2 buffers, 3 sectors, 2 values, 1 acquisition each | ownership, single copies, waiting counts, cleanliness, wakeups |
| `BufferCache_store` | 2 users with 4 acquisitions each, write back, 1 buffer, 2 sectors, 2 values | the cache implements the store; acquisitions return |
| `BufferCache_evicted` | 3 users, 1 buffer | the second thread that waits for an eviction sleeps for ever |
| `SleepList` | 4 threads, ticks -1, 0, 1, 2, 3, 5 | the relative counts implement the alarm |
| `Process_family` | 3 processes, with and without -mlfqs | freed once and in time; without -mlfqs also no leak, and waits return |
| `Process_mlfqs` | the same | under -mlfqs a wait can sleep for ever |
| `FrameTable` | 2 processes; a shared page of an executable, a stack page, a mapped file page; 2 frames, 1 swap slot | frames, locks and slots are accounted for, pinned pages stay, no wakeup is lost, and every page is a private cell |
| `FrameTable_hash` | the same | one block of an executable gets two frames, and `evict_frame` fails its assertion |
| `Directory` | 2 processes, 3 sectors, 1 name, paths `a`, `a/a`, `../a`; one makes and removes directories, the other creates, removes, opens and changes directory | counts, sectors, locks, and the tree |

Four of the runs are expected to find a violation. Each documents a disagreement between the code and
its own comment or assertion; `findings` in `PROJECT.json` quotes both. Other flaws were met that no
run shows: a wait for a tid that is no child takes the last child for it (`WaitsForAsked` of `Process`
fails with `ArbitraryWaits`), the structure of an orphan is used after it was freed
(`NoUseAfterFree`), with two locks a thread can sleep without having donated (`DonatesWhenItSleeps`),
and a removed directory may be given entries (`RemovedIsEmpty` of `Directory`), because
`filesys_create` and `filesys_mkdir` lock a parent again that `path_lookup_parent` had unlocked, and do
not ask whether it was removed meanwhile. The definitions are there, the hazards in `PROJECT.json`
name the lines.

*Bounds.* Three threads and two locks are the smallest instance with a chain of donations, a barging
thread and a third priority between two; `MaxNesting` 2 cuts chains of three. `MaxSema` bounds the
value of the plain semaphore; it is 1, so that a semaphore that is up and one that is waited on both
occur. Two buffers for three sectors make every acquisition a possible eviction, with another buffer
in which a second copy could appear; one buffer forces the waits. `MaxCalls` bounds the acquisitions
of a user; with four, a sector can be evicted, loaded and evicted again while another thread waits for
the first of these evictions. Two users are enough for one
to wait for what the other evicts, three for two of them to wait for one eviction, which is where
`AcquireReturns` fails. Four sleepers allow an insertion before, between, at and behind others. With three
processes there is a grandparent, so a process is a child and a parent at the same time; four
were tried and showed nothing more. In `FrameTable` each process has a page of the shared block and
one of its own, so that with two frames every load can evict, share, or find its frame busy, and one
slot is enough to be full; frames are symmetric. A larger instance with a second stack page and two
slots (6 million states) held too, but is too long for a run. In `Directory` three sectors are the
root and two inodes, which is a full disk when a third is wanted; one name makes every pair of calls
meet, and `a/a` needs a directory in a directory. With a third process, an
inode in a removed directory can be found again (one process adds it, one removed the directory, one
looks for it); such instances, of one and of two million states, were tried and hold as well, but are
too long for a run, and the theorems cover them. What each process calls is limited to keep the run
short.

Deadlock is not checked where the instance may stop: processes end, users use up their calls, and
two locks can be taken in opposite orders, and in `FrameTable` and `Directory` the runs end in a
fault. `SleepList` never stops and checks it.

*Fairness.* `Threads!FairSpec`: kernel code that a thread has begun goes on while it has the CPU
(weak fairness of `ResumeDown`, `ResumeReleased`, `IdleLoop`); a device that a thread waits for
interrupts; and a thread that gets the CPU again and again leaves its critical section and ends
(strong fairness of `Release` and `Exit`), which is an assumption about the lock's clients that all
of the kernel's critical sections satisfy. The CPU is not assumed to be shared fairly: that a waiter
gets the lock must follow from priorities and donation. `BufferCache!FairSpec`: a thread that is not
waiting makes progress, and an owner releases its buffer; this is a preemptive scheduler with time
slices, with no starvation by threads of higher priority that never block.
`Process!FairSpec`: the same, and processes exit. `SleepList!Spec`: the timer interrupts.
`FrameTable` and `Directory` state no fairness: their properties are about safety, and that a thread
is not forgotten is stated as an invariant (`NoLostWait`, `NoDeadlock`).

*What the conditions mean.* `NoInversion` and `NoFault` hold with locks that are not nested and
priority changes outside critical sections, and fail otherwise: with two locks a thread that was woken for a lock
may sleep again without donating, after which its priority can be higher than the holder's
(`Threads_assert` is one consequence). `NoLeak` and `NoStrandedParent` are stated for processes of equal
priority, the only ones there are without -mlfqs.

## 4. The proofs

TLC checks instances; the theorems below hold for all values of the constants that satisfy the named
assumption of their module.

| Module | Theorems | Assumes |
|---|---|---|
| `Threads_proofs` | `TypeCorrect`, `ElementLinkedOnce`, `LocksOwnedByHolder`, `DonationsEnd`, `WakeupsArrive`, `HighestRuns` | `ThreadsAssumption`: finitely many threads, disjoint kinds, integer priorities |
| | `NoInversionUnlessNested`, `NoFaultUnlessNested`, `DonatesUnlessNested` | also that locks are not nested (`NotNested`), and priorities are not set in critical sections (`PriorityChange # "always"`) |
| | `NoInversionWithOneLock`, `NoFaultWithOneLock`, `DonatesWithOneLock` | also one lock, and the same of priorities |
| `BufferCache_proofs` | `TypeCorrect`, `Ownership`, `SingleCopy`, `WaitersSafe`, `CleanSafe`, `WakeupSafe` | `CacheAssumption`: finitely many threads and buffers, disjoint kinds |
| `BufferCacheStore_proofs` | `Refinement` | the same |
| `Process_proofs` | `TypeCorrect`, `FreedOnce`, `NothingLeaks`, `NoneStranded` | processes wait for their own children (`ArbitraryWaits = FALSE`) |
| `SleepList_proofs` | `TypeCorrect`, `AllCountsSound`, `WakesOnTime` | `TicksAssumption`: ticks are integers |
| `FrameTable_proofs` | `TypeCorrect`, `AllFramesAccounted`, `AllFramesSeparate`, `AllLocksCounted`, `AllPinnedStay`, `AllSlotsAccounted`, `NoWaitIsLost`, `Privacy` | `FrameAssumption`: finitely many processes, pages and frames, disjoint kinds of pages, `NULL` is none of them |
| `Directory_proofs` | `TypeCorrect`, `CountsRight`, `TreeInvariance`, `SectorsKept`, `LocksOrdered`, `CallsAreAtomic` | `DirectoryAssumption`: finitely many processes, `..` is not a plain name, `NULL` is no sector and no process |

`Lists_proofs` has the lemmas that `Threads_proofs`, `SleepList_proofs` and `FrameTable_proofs` share: `RemoveAt`, `InsertAt`, `Tail`, `Append` and a push in
front keep a list without repetitions free of them and change its elements by one (`...Once`);
list_remove and `InsertOrdered` keep the order of the priorities (`...Sorted`), and the head of an
ordered list has the highest. `Beginning` says where the elements of a list before a given one are.

### Scheduler and locks

`Threads_proofs` proves `Spec => []IInv`, then `Spec => []Order` on top of it. `IInv` is `TypeOK`
with

- `Queues`: the ready list and the waiters of every semaphore have no repetitions, and a thread is in
  one of them exactly when its status and its local `target` say so; one thread runs. Every list
  operation needs this to know that what it removes is there and what it inserts is not.
- `Ownership`: `LockOwnership`, and what each place in the code knows of it: a thread in the loop of
  `sema_down` waits for a lock that it does not own, one that was switched out in `lock_release`
  still has the lock in its list, though it is up and may have another holder by then.
- `Donations`: `DonationReturned`, which needs `Ownership` because the priority is recomputed when a
  lock leaves the list.
- `NoLostWakeup`: for each semaphore a count of the threads that are awake for it; a step wakes,
  takes or queues one thread, so it is about `Cardinality` of sets that differ by one.

`Order`: the ready list is in the order of the priorities and the running thread has the
highest. It is proved for every step including a donation to a ready thread, which is taken out and
put in again at its place (`shuffle_ready_thread`), and a change of the base priority. Until the
first fault it holds with any number of locks: wrong donations make a wrong priority, never a wrong
order.

`NoInversion` and `NoFault` do not hold in general, and `Threads_assert` shows why. The theorems say
exactly what is missing: every behaviour in which no thread owns two locks, or waits for one while it
owns another, has neither an inversion nor a fault, and no thread sleeps for a lock without having
donated. `NotNested` is assumed of the clients and is no
invariant; with one lock it is proved to be one. On such behaviours `Calm` is preserved:
`HolderRaised`, the holder has the priority of all that are inside its `sema_down`, those that were
woken and have not run yet included; `HighestAwake`, while threads queue on a free lock, one with the
priority of each of them is awake; and `NoneInRelease`, no `lock_release` was switched out by its own
`sema_up`, because the thread still has the priority of everyone it could wake. The second is
what barging threatens: a thread that takes the lock before the one that was woken may have a lower
priority than the threads that still queue. It cannot, because the woken thread is awake and the
highest runs (`Order`).

### Buffer cache

`BufferCache_proofs` proves `Spec => []IInv`, for the conjunction of `TypeOK`, `OneOwner`, `OneCopy`,
`WaitersKeepSector`, `CleanIsOnDisk` and `BufferWakeup` with two strengthenings:

- `Placed`: which kind of thread can be in which place, and that a thread which owns or waits for a
  buffer has one in `at`;
- `OwnerKnows`: what holds of a buffer that is owned, waited for or evicted. It has a sector; while it
  is being evicted it is dirty, the sector in `evicting` is another one than the new one and some
  thread is evicting it; and after the transfer, before the flags are cleared, the disk has its
  contents.

They are needed because each of the six properties depends on the others. `OneCopy` is preserved by a
miss only if the buffer that is reused has no owner, hence `OneOwner`, and evicts nothing, hence
`OwnerKnows`; `CleanIsOnDisk` is preserved by a transfer only if nobody else writes the buffer
meanwhile; `WaitersKeepSector` needs the count `waiting` to be the number of waiting threads, which
`Cardinality` facts about adding and removing one thread give; and `BufferWakeup` needs that count to
be positive when somebody sleeps. The proof has one lemma for each conjunct (`...Step`), each with
one step per action.

`BufferCacheStore_proofs` proves `Refinement`, `Spec => StoreSpec`. `Contents` and `Holder` are
defined with `CHOOSE`; `ViewsNow` characterises them without it, since by `OneCopy` and `OneOwner`
the copy and the holder are unique. Then every action is matched: taking a free buffer and the end
of a load are `Acquire`, a user's write is `Write`, its release is `Release`, and everything else
(eviction, write back, read ahead, waiting) leaves contents and holders as they are. The start of
a load is the interesting one: the old sector changes its copy from the buffer to the disk or to
the eviction, and the clean buffer that is dropped must equal the disk (`CleanIsOnDisk`).

### Processes

The inductive invariant of `Process_proofs` turns on `Family`: process `p` can reach the structure of
`c` (in its child list, as the target of its wait, or between the start of `c` and its adoption)
exactly when `p` is the parent of `c` and `c` is not freed. So two processes never free the same
structure, and a parent and its child never both do, because the child frees itself only without a
parent (`Life`). `Places` says that the three ways to reach a child exclude each other; `Quiet`, for
a kernel without -mlfqs, that a process keeps its exit_lock until its status is set, which
`NothingLeaks` and `NoneStranded` rest on. The theorems assume that processes wait for their children
only; otherwise they are false, because a child that is waited for in place of a stranger stays in
the list and is freed again.

### Name space

`Directory_proofs` proves that the count of an inode is the number of references to it, with `Places`,
which says what each local refers to at each place. `Recount` does the counting once: if only the
references of one process change, and the count of each inode changes by the references to it that
come and go, the counts stay right. Each action then has to show only its own change. It includes
that the root directory is never freed, since a process that closes it and the initial process are
two references.

*The tree.* On top of `IInv` the module proves `TreeInv`:

- `Locks`: the lock of a directory is held exactly where the code says so, and a child is locked only
  with its parent;
- `Holding`: what a process found under a lock stays true while it holds it - the parent is a
  directory, and the name it looked up still means its child;
- `Acyclic`: every set of inodes has one without an entry for another of the set, stated with sets
  because a rank would have to change with every removal. A new entry is for an inode without
  entries that no directory has, so it closes no cycle;
- unless a run has ended with `fault`, `TreeOnDisk` (a free sector is blank, an entry leads to an inode
  in use that leads back, an inode has one entry, one that is about to be added has none, one that is
  in use has a name or a reason to have none, and only directories that are no longer in the tree have
  entries for strays) and `StraysUnvisited`: a process works in no stray. The exemption of `fault` is
  needed for this part only: it is set when a sector is marked that another process has marked since
  the scan.

`NoSectorLost` (`SectorsKept`) is a consequence of `TreeOnDisk`; `RefCounts` tells when a close is the
last one. `NoDeadlock` (`LocksOrdered`) follows from the first three: who waits for the lock of an
inode holds its parent's lock or none, so in a set of processes that wait for each other the
directories they hold would each have an entry for another one, against `Acyclic`. That walks go up
through `..` does no harm, since a walk holds no lock while it waits for the next.

`CallsAreAtomic` is `Spec => TreeSpec`. `TreeView` is what the disk shows of the tree and `HeldView` the
inodes that are open and no strays. `Begin`, `Walk` and `Find` are the `Hold` of `FileTree` where they
open an inode that was not open, every close is `Release` or nothing, `Add` is its `Add` or, in a
removed directory or with a name in use, nothing, `RemoveEntry` is its `Remove` unless it finds a
stray or a directory with entries; the rest
leaves the view alone. It is `Add` that needs the invariant most: the new name is free, the directory
is in the tree, and nobody has the inode.

### Frame table

`FrameTable_proofs` proves `Spec => []IInv`, where `IInv` is the seven checked invariants with
`Places`, `Presence`, `FramePlaces`, `Handling`, `SlotPlaces` and `DataPlaces`. The parts cannot be
proved one by one: that a frame is not freed twice (`FramesAccounted`) depends on who is emptying it
(`Handling`: of the processes that fill or empty frames no two have the same one), which depends on
the lock counts (`LocksCounted`: a frame with a lock is not chosen), which are sizes of sets of pins and
of processes in the middle of a load. `FramePlaces` says which frames of processes are on the clock, among
them the one that was just emptied and has no page, and `Presence` that a page in a frame is present
unless the frame is being emptied.

`Privacy` is `Spec => PagesArePrivate`: the mapping finds the contents of a page in its frame, its slot,
its file or a frame that is being written back. `SlotPlaces` and `DataPlaces` say that these agree
where there are two: a slot of a page that is also in a frame is only being read, the contents of a
frame of a file that is not dirty are those of the file, what was written to the slot is what is in the
frame. With them every step is a `Map`, `Write` or `Unmap` of `UserMemory`, or changes no cell.

### Sleep list

`SleepList_proofs` proves `TypeOK /\ CountsSound` inductive, then `WakesOnTime`, that every step is one of
`Alarm` under the mapping `Left`. A count is relative to the thread in front, so what a thread still
sleeps is a sum over a prefix of the list. `Sums` is a recursive function, and what it computes is
proved by the least counterexample (`SumsAdd`, from the lemma that a set of naturals has a least
element) in place of an induction; the lemmas after it say how the sums change when the list loses
its head, when the head is counted down and when a thread is inserted with what remains of its ticks.
The fairness of `AlarmSpec` is not part of `WakesOnTime`.

### Only model-checked

All liveness properties (`WaiterAcquires`, `AcquireReturns`, `WaitReturnsAmongEquals` and the fairness
part of `AlarmSpec`), which are out of the prover's reach. Every invariant that a passing run checks
is stated by a theorem, `NoInversion` and `NoFault` under the conditions above, which their run meets;
so is every action property (`DonatesWhenItSleeps` under the same conditions) and every refinement.

## 5. What is not modelled, and the plan

Not modelled:

- condition variables on their own (they appear in their clients), `lock_try_acquire`, the mlfqs
  scheduler and its fixed point arithmetic;
- the read ahead queue and the shutdown handshake of `buffers_done`;
- the blocks of a file (`byte_to_sector`, `get_sector`, growth), file positions, `readdir`, several
  descriptors per process, crashes between two writes (nothing in the code recovers from one);
- the page that carries the arguments of a new process (`PAGE_TYPE_KERNEL`), mappings that fail, several
  mappings of one file, page directories themselves;
- allocators, interrupt queues, the dispatch and argument checks of system calls;
- device drivers (register I/O), boot, console, the C library, test programs;
- the earlier copies of the kernel in the repository (`src/pintos`, `src/pintos-2_userprog`,
  `src/pintos-3_vm`), which `src/pintos_3` contains in a later form. They are most of the code in the
  repository, and a model of them would repeat these modules for older versions.

What the plan has left, the most important first:

1. `Inode` with `FreeMap`: growth block by block, the removal of the blocks, and the buffers a thread
   holds while it acquires others (composed with the cache's number of buffers).
2. `ReadAhead`: the queue, its two locks, and the shutdown handshake.
3. `Monitor`: condition variables over `Threads`' semaphores, with the wait and signal order that the
   cache, the frame table and processes take for granted, and the composition that justifies `Signal`.
4. `Mlfqs` with the fixed point operations at their width; `InterruptQueue`.
