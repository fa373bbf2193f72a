----------------------------- MODULE BufferCache -----------------------------
(***************************************************************************)
(* The buffer cache, filesys/buffers.c: a fixed set of sector buffers,     *)
(* shared by the threads that do file operations, a write back thread and  *)
(* a read ahead thread.                                                    *)
(*                                                                         *)
(* What the code does while it holds cache_lock is one action; block I/O   *)
(* and the owner's use of a buffer happen without the lock and are actions *)
(* of their own.  cond_wait parks a thread in a "wait..." state and        *)
(* cond_signal moves one of them, whichever has the highest priority, on   *)
(* to look again; it competes for the lock with everybody else.            *)
(***************************************************************************)
EXTENDS Integers, FiniteSets, Functions

CONSTANTS
  Users,       \* threads that call buffer_acquire and buffer_release
  Flushers,    \* threads in flush_all: write_back, and main at shutdown
  ReadAheads,  \* threads in read_ahead
  Buffers,     \* the CACHE_SIZE buffers
  Sectors,     \* sectors of the file system device
  NoSector,    \* UINT_MAX, no sector
  Values,      \* sector contents
  MaxCalls,    \* bound on the buffers a user acquires
  NULL

Threads == Users \cup Flushers \cup ReadAheads

ASSUME CacheAssumption ==
  /\ IsFiniteSet(Threads) /\ IsFiniteSet(Buffers)
  /\ Users \cap Flushers = {} /\ Users \cap ReadAheads = {}
  /\ Flushers \cap ReadAheads = {}
  /\ NoSector \notin Sectors
  /\ NULL \notin Threads \cup Buffers
  /\ MaxCalls \in Nat

VARIABLES
  pc,        \* where each thread is, in buffer_acquire, flush_all or read_ahead
  want, at,  \* the sector it wants and the buffer it waits for or owns
  calls,     \* acquisitions a user has begun
  sector, evicting, inUse, dirty, meta, waiting,  \* struct buffer, its flags
  cache,     \* the list `cache', least recently released first
  data,      \* contents of the buffers
  disk       \* contents of the sectors of the device

threadVars == <<pc, want, at, calls>>
bufVars    == <<sector, evicting, inUse, dirty, meta, waiting>>
vars       == <<threadVars, bufVars, cache, data, disk>>

Places == 1..Cardinality(Buffers)

Owning  == {"evictWrite", "evictDone", "read", "held", "wrote",
            "flushWrite", "flushClean", "release"}
Loading == {"evictWrite", "evictDone", "read"}
Waiting == {"waitBuf", "retryBuf"}
Locs    == Owning \cup Waiting \cup {"idle", "look", "waitFree", "waitEvict", "retryEvict"}

-----------------------------------------------------------------------------
(* get_buffer_to_acquire and get_buffer_to_write_back.                     *)

\* Mutant: the sector that is being evicted is not looked for.
MatchesCached(s) == {b \in Buffers : sector[b] = s}

Matches(s) == {b \in Buffers : sector[b] = s \/ evicting[b] = s}

\* Mutant: a buffer is reused although threads wait for it.
UnusedAwaited == {b \in Buffers : ~inUse[b]}

Unused     == {b \in Buffers : waiting[b] = 0 /\ ~inUse[b]}
UnusedData == {b \in Unused : ~meta[b]}

ToWriteBack == {b \in Buffers : dirty[b] /\ evicting[b] = NoSector}

\* b is the first buffer of S in the cache list.
FirstOf(S, b) ==
  \E i \in Places : /\ cache[i] = b
                    /\ b \in S
                    /\ \A j \in Places : j < i => cache[j] \notin S

\* The buffer that is reused for a sector that is not cached: data before meta.
Victim(b) == FirstOf(IF UnusedData # {} THEN UnusedData ELSE Unused, b)

\* Mutant: list_push_back without list_remove.
PushBack(b) == [i \in Places |-> IF i < Cardinality(Buffers) THEN cache[i] ELSE b]

\* list_remove and list_push_back of a buffer that is released.
MoveToBack(b) ==
  LET p == CHOOSE i \in Places : cache[i] = b
  IN  [i \in Places |-> IF i < p THEN cache[i]
                        ELSE IF i < Cardinality(Buffers) THEN cache[i + 1] ELSE b]

-----------------------------------------------------------------------------
\* cond_signal: one of the waiters, if there are any, goes on at `next'.
Signal(sleepers, next, locs) ==
  IF sleepers = {}
  THEN pc' = locs
  ELSE \E w \in sleepers : pc' = [locs EXCEPT ![w] = next]

\* Waits in the inner loop of buffer_acquire and flush_all until the buffer
\* is not in use, and takes it then.
TakeOrWait(t, b, mine) ==
  \/ /\ ~inUse[b]
     /\ inUse' = [inUse EXCEPT ![b] = TRUE]
     /\ pc' = [pc EXCEPT ![t] = mine]
     /\ UNCHANGED waiting
  \/ /\ inUse[b]
     /\ waiting' = [waiting EXCEPT ![b] = @ + 1]
     /\ pc' = [pc EXCEPT ![t] = "waitBuf"]
     /\ UNCHANGED inUse

\* load_buffer up to the point where it gives up the lock.
Load(t, s, b) ==
  /\ inUse' = [inUse EXCEPT ![b] = TRUE]
  /\ \E m \in BOOLEAN : meta' = [meta EXCEPT ![b] = m]
  /\ evicting' = [evicting EXCEPT ![b] = IF dirty[b] THEN sector[b] ELSE @]
  /\ sector' = [sector EXCEPT ![b] = s]
  /\ pc' = [pc EXCEPT ![t] = IF dirty[b] THEN "evictWrite" ELSE "read"]
  /\ at' = [at EXCEPT ![t] = b]
  /\ UNCHANGED <<dirty, waiting>>

-----------------------------------------------------------------------------
Init ==
  /\ pc = [t \in Threads |-> "idle"]
  /\ want = [t \in Threads |-> NoSector]
  /\ at = [t \in Threads |-> NULL]
  /\ calls = [u \in Users |-> 0]
  /\ sector = [b \in Buffers |-> NoSector]
  /\ evicting = [b \in Buffers |-> NoSector]
  /\ inUse = [b \in Buffers |-> FALSE]
  /\ dirty = [b \in Buffers |-> FALSE]
  /\ meta = [b \in Buffers |-> FALSE]
  /\ waiting = [b \in Buffers |-> 0]
  /\ cache \in Bijection(Places, Buffers)
  /\ data \in [Buffers -> Values]
  /\ disk \in [Sectors -> Values]

(* buffer_acquire *)

\* The user is at the top of the loop of buffer_acquire with sector s: it calls
\* it, or was signalled by buffer_available, or finds its eviction over.
AtTop(u, s) ==
  /\ s \in Sectors
  /\ \/ /\ pc[u] = "idle"
        /\ calls[u] < MaxCalls
        /\ calls' = [calls EXCEPT ![u] = @ + 1]
     \/ /\ \/ pc[u] = "look"
           \/ pc[u] = "retryEvict" /\ evicting[at[u]] # want[u]
        /\ s = want[u]
        /\ UNCHANGED calls
  /\ want' = [want EXCEPT ![u] = s]

AcquireHit(u, s, b) ==
  /\ AtTop(u, s)
  /\ sector[b] = s
  /\ at' = [at EXCEPT ![u] = b]
  /\ TakeOrWait(u, b, "held")
  /\ UNCHANGED <<sector, evicting, dirty, meta, cache, data, disk>>

AcquireEvicting(u, s, b) ==
  /\ AtTop(u, s)
  /\ evicting[b] = s
  /\ sector[b] # s
  /\ at' = [at EXCEPT ![u] = b]
  /\ pc' = [pc EXCEPT ![u] = "waitEvict"]
  /\ UNCHANGED <<bufVars, cache, data, disk>>

AcquireMiss(u, s, b) ==
  /\ AtTop(u, s)
  /\ Matches(s) = {}
  /\ Victim(b)
  /\ Load(u, s, b)
  /\ UNCHANGED <<cache, data, disk>>

AcquireNone(u, s) ==
  /\ AtTop(u, s)
  /\ Matches(s) = {}
  /\ Unused = {}
  /\ pc' = [pc EXCEPT ![u] = "waitFree"]
  /\ UNCHANGED <<at, bufVars, cache, data, disk>>

\* Mutant: `if' in place of `while', the buffer is taken without a second test.
RetryBufferUntested(t) ==
  /\ pc[t] = "retryBuf"
  /\ inUse' = [inUse EXCEPT ![at[t]] = TRUE]
  /\ waiting' = [waiting EXCEPT ![at[t]] = @ - 1]
  /\ pc' = [pc EXCEPT ![t] = IF t \in Users THEN "held" ELSE "flushWrite"]
  /\ UNCHANGED <<want, at, calls, sector, evicting, dirty, meta, cache, data, disk>>

\* A signalled thread tests BUF_IN_USE again, with waiting still counting it.
RetryBuffer(t) ==
  LET b == at[t]
  IN  /\ pc[t] = "retryBuf"
      /\ \/ /\ inUse[b]
            /\ pc' = [pc EXCEPT ![t] = "waitBuf"]
            /\ UNCHANGED <<inUse, waiting>>
         \/ /\ ~inUse[b]
            /\ inUse' = [inUse EXCEPT ![b] = TRUE]
            /\ waiting' = [waiting EXCEPT ![b] = @ - 1]
            /\ pc' = [pc EXCEPT ![t] = IF t \in Users THEN "held" ELSE "flushWrite"]
      /\ UNCHANGED <<want, at, calls, sector, evicting, dirty, meta, cache, data, disk>>

\* Signalled, but the sector is being evicted again.
RetryEvicting(u) ==
  /\ pc[u] = "retryEvict"
  /\ evicting[at[u]] = want[u]
  /\ pc' = [pc EXCEPT ![u] = "waitEvict"]
  /\ UNCHANGED <<want, at, calls, bufVars, cache, data, disk>>

(* load_buffer *)

\* block_write of the evicted sector.
EvictWrite(t) ==
  /\ pc[t] = "evictWrite"
  /\ disk' = [disk EXCEPT ![evicting[at[t]]] = data[at[t]]]
  /\ pc' = [pc EXCEPT ![t] = "evictDone"]
  /\ UNCHANGED <<want, at, calls, bufVars, cache, data>>

EvictDone(t) ==
  LET b == at[t]
  IN  /\ pc[t] = "evictDone"
      /\ evicting' = [evicting EXCEPT ![b] = NoSector]
      /\ dirty' = [dirty EXCEPT ![b] = FALSE]
      /\ Signal({w \in Threads : pc[w] = "waitEvict" /\ at[w] = b}, "retryEvict",
                [pc EXCEPT ![t] = "read"])
      /\ UNCHANGED <<want, at, calls, sector, inUse, meta, waiting, cache, data, disk>>

\* block_read of the new sector.
Read(t) ==
  /\ pc[t] = "read"
  /\ data' = [data EXCEPT ![at[t]] = disk[sector[at[t]]]]
  /\ pc' = [pc EXCEPT ![t] = IF t \in Users THEN "held" ELSE "release"]
  /\ UNCHANGED <<want, at, calls, bufVars, cache, disk>>

(* The owner of a buffer. *)

Write(u, v) ==
  /\ u \in Users
  /\ pc[u] \in {"held", "wrote"}
  /\ data' = [data EXCEPT ![at[u]] = v]
  /\ pc' = [pc EXCEPT ![u] = "wrote"]
  /\ UNCHANGED <<want, at, calls, bufVars, cache, disk>>

\* Mutant: the last owner alone decides whether the buffer is dirty.
DirtyAfterLast(t, b) == pc[t] = "wrote"

\* The flag BUF_DIRTY after the release: the owner that wrote passes dirty.
DirtyAfter(t, b) == dirty[b] \/ pc[t] = "wrote"

\* Mutant: one waiter does not count.
AwaitedByTwo(b) == waiting[b] > 1

Awaited(b) == waiting[b] > 0

\* buffer_release
Release(t) ==
  LET b    == at[t]
      locs == [pc EXCEPT ![t] = "idle"]
  IN  /\ pc[t] \in {"held", "wrote", "release"}
      /\ inUse' = [inUse EXCEPT ![b] = FALSE]
      /\ dirty' = [dirty EXCEPT ![b] = DirtyAfter(t, b)]
      /\ IF Awaited(b)
         THEN /\ Signal({w \in Threads : pc[w] = "waitBuf" /\ at[w] = b}, "retryBuf", locs)
              /\ UNCHANGED cache
         ELSE /\ cache' = MoveToBack(b)
              /\ Signal({w \in Threads : pc[w] = "waitFree"}, "look", locs)
      /\ at' = [at EXCEPT ![t] = NULL]
      /\ want' = [want EXCEPT ![t] = NoSector]
      /\ UNCHANGED <<calls, sector, evicting, meta, waiting, data, disk>>

(* flush_all *)

FlushLook(f, b) ==
  /\ f \in Flushers
  /\ pc[f] = "idle"
  /\ FirstOf(ToWriteBack, b)
  /\ at' = [at EXCEPT ![f] = b]
  /\ TakeOrWait(f, b, "flushWrite")
  /\ UNCHANGED <<want, calls, sector, evicting, dirty, meta, cache, data, disk>>

FlushWrite(f) ==
  /\ pc[f] = "flushWrite"
  /\ disk' = [disk EXCEPT ![sector[at[f]]] = data[at[f]]]
  /\ pc' = [pc EXCEPT ![f] = "flushClean"]
  /\ UNCHANGED <<want, at, calls, bufVars, cache, data>>

\* BUF_DIRTY is cleared without cache_lock, by the owner of the buffer.
FlushClean(f) ==
  /\ pc[f] = "flushClean"
  /\ dirty' = [dirty EXCEPT ![at[f]] = FALSE]
  /\ pc' = [pc EXCEPT ![f] = "release"]
  /\ UNCHANGED <<want, at, calls, sector, evicting, inUse, meta, waiting, cache, data, disk>>

(* read_ahead: it loads the sector if it is not cached and a buffer is free. *)

Prefetch(r, s, b) ==
  /\ r \in ReadAheads
  /\ pc[r] = "idle"
  /\ Matches(s) = {}
  /\ Victim(b)
  /\ want' = [want EXCEPT ![r] = s]
  /\ Load(r, s, b)
  /\ UNCHANGED <<calls, cache, data, disk>>

Acquire(u) ==
  \E s \in Sectors :
    \/ AcquireNone(u, s)
    \/ \E b \in Buffers : \/ AcquireHit(u, s, b)
                          \/ AcquireEvicting(u, s, b)
                          \/ AcquireMiss(u, s, b)

\* What a thread does by itself once it is past the top of its loop.
Step(t) ==
  \/ RetryBuffer(t)
  \/ RetryEvicting(t)
  \/ EvictWrite(t)
  \/ EvictDone(t)
  \/ Read(t)
  \/ Release(t)
  \/ FlushWrite(t)
  \/ FlushClean(t)

Next ==
  \/ \E u \in Users : Acquire(u) \/ \E v \in Values : Write(u, v)
  \/ \E f \in Flushers, b \in Buffers : FlushLook(f, b)
  \/ \E r \in ReadAheads, s \in Sectors, b \in Buffers : Prefetch(r, s, b)
  \/ \E t \in Threads : Step(t)

Spec == Init /\ [][Next]_vars

\* Every thread that can run does, the scheduler being preemptive: the owner of
\* a buffer releases it, and a wakened thread looks again.
FairSpec ==
  /\ Spec
  /\ \A t \in Threads : WF_vars(Step(t))
  /\ \A u \in Users : WF_vars(pc[u] # "idle" /\ Acquire(u))

-----------------------------------------------------------------------------
(* Properties.                                                             *)

TypeOK ==
  /\ pc \in [Threads -> Locs]
  /\ want \in [Threads -> Sectors \cup {NoSector}]
  /\ at \in [Threads -> Buffers \cup {NULL}]
  /\ calls \in [Users -> Nat]
  /\ sector \in [Buffers -> Sectors \cup {NoSector}]
  /\ evicting \in [Buffers -> Sectors \cup {NoSector}]
  /\ inUse \in [Buffers -> BOOLEAN]
  /\ dirty \in [Buffers -> BOOLEAN]
  /\ meta \in [Buffers -> BOOLEAN]
  /\ waiting \in [Buffers -> Nat]
  /\ cache \in Bijection(Places, Buffers)
  /\ data \in [Buffers -> Values]
  /\ disk \in [Sectors -> Values]

Owns(t, b)   == pc[t] \in Owning /\ at[t] = b
Loads(t, b)  == pc[t] \in Loading /\ at[t] = b
WaitsFor(b)  == {t \in Threads : pc[t] \in Waiting /\ at[t] = b}

\* "The returned buffer is locked so no other process can acquire it": a buffer
\* that is in use has one owner, among users, loaders and flushers.
OneOwner ==
  /\ \A t, u \in Threads, b \in Buffers : Owns(t, b) /\ Owns(u, b) => t = u
  /\ \A b \in Buffers : inUse[b] <=> \E t \in Threads : Owns(t, b)

\* A sector is cached or on its way to the disk in at most one buffer, so there
\* is never a second, stale copy of it.
OneCopy ==
  \A b, c \in Buffers :
    b # c => {sector[b], evicting[b]} \cap {sector[c], evicting[c]} \subseteq {NoSector}

\* A thread that was woken up for a buffer finds in it the sector it waited for:
\* nobody reuses a buffer that a thread waits for.
WaitersKeepSector ==
  /\ \A b \in Buffers : waiting[b] = Cardinality(WaitsFor(b))
  /\ \A u \in Users : pc[u] \in Waiting \cup Loading \cup {"held", "wrote"} =>
                        sector[at[u]] = want[u]

\* A buffer that is not marked dirty, and is neither being loaded nor being
\* written by its owner, holds what is on the disk: dropping it loses nothing.
CleanIsOnDisk ==
  \A b \in Buffers :
    sector[b] # NoSector /\ ~dirty[b]
      /\ (\A t \in Threads : at[t] = b => pc[t] \notin Loading \cup {"wrote"})
    => data[b] = disk[sector[b]]

\* No wakeup is lost on a buffer: a thread sleeps in cond_wait (&available) only
\* while the buffer has an owner or another of its waiters is awake.
BufferWakeup ==
  \A t \in Threads : pc[t] = "waitBuf" =>
    inUse[at[t]] \/ \E w \in Threads : pc[w] = "retryBuf" /\ at[w] = at[t]

\* The cache implements the store: the contents of a sector are in the buffer
\* that caches it, in the buffer it is being evicted from, or on the disk.
HasCopy(b, s) ==
  evicting[b] = s \/ (sector[b] = s /\ \A t \in Threads : ~Loads(t, b))

Contents ==
  [s \in Sectors |->
     IF \E b \in Buffers : HasCopy(b, s)
     THEN data[CHOOSE b \in Buffers : HasCopy(b, s)] ELSE disk[s]]

Holds(u, s) == pc[u] \in {"held", "wrote"} /\ sector[at[u]] = s

Holder ==
  [s \in Sectors |->
     IF \E u \in Users : Holds(u, s) THEN CHOOSE u \in Users : Holds(u, s) ELSE NULL]

Store == INSTANCE SectorStore WITH contents <- Contents, holder <- Holder

StoreSpec == Store!Spec

\* "If the buffer is currently in use or being evicted, waits until it's
\* available" (buffer_acquire): an acquisition that has begun returns.
AcquireReturns ==
  \A u \in Users :
    (pc[u] \in Locs \ {"idle", "held", "wrote"}) ~> (pc[u] = "held")
=============================================================================
