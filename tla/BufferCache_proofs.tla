------------------------- MODULE BufferCache_proofs -------------------------
(***************************************************************************)
(* Proofs about the buffer cache, for any number of threads, buffers and   *)
(* sectors.                                                                *)
(***************************************************************************)
EXTENDS BufferCache, FiniteSetTheorems, TLAPS

\* Which threads are where, and that they name a buffer there.
Placed ==
  \A t \in Threads :
    /\ pc[t] \in Owning \cup Waiting \cup {"waitEvict", "retryEvict"} => at[t] \in Buffers
    /\ pc[t] \in {"look", "waitFree", "waitEvict", "retryEvict", "held", "wrote"} =>
         t \in Users
    /\ pc[t] \in {"flushWrite", "flushClean"} => t \in Flushers
    /\ pc[t] \in Waiting => t \in Users \cup Flushers
    /\ pc[t] \in Loading => t \in Users \cup ReadAheads
    /\ pc[t] = "release" => t \notin Users

\* What is known of a buffer from what its owner is doing.
OwnerKnows ==
  /\ \A b \in Buffers : dirty[b] => sector[b] \in Sectors
  /\ \A t \in Threads : pc[t] \in Owning \cup Waiting => sector[at[t]] \in Sectors
  /\ \A t \in Threads : pc[t] \in {"evictWrite", "evictDone"} =>
       dirty[at[t]] /\ evicting[at[t]] \in Sectors
  /\ \A b \in Buffers : evicting[b] # NoSector =>
       /\ evicting[b] # sector[b]
       /\ \E t \in Threads : at[t] = b /\ pc[t] \in {"evictWrite", "evictDone"}
  /\ \A t \in Threads : pc[t] = "evictDone" => disk[evicting[at[t]]] = data[at[t]]
  /\ \A t \in Threads : pc[t] = "flushClean" => disk[sector[at[t]]] = data[at[t]]

IInv ==
  /\ TypeOK
  /\ Placed
  /\ OneOwner
  /\ OwnerKnows
  /\ OneCopy
  /\ WaitersKeepSector
  /\ CleanIsOnDisk
  /\ BufferWakeup
-----------------------------------------------------------------------------
(* Facts about the operators. *)

\* A release keeps every buffer in the list once (list_remove, list_push_back).
LEMMA MoveToBackPermutes ==
  ASSUME cache \in Bijection(Places, Buffers), NEW b \in Buffers
  PROVE  MoveToBack(b) \in Bijection(Places, Buffers)
<1> DEFINE N == Cardinality(Buffers)
           p == CHOOSE i \in Places : cache[i] = b
           m == MoveToBack(b)
<1>1. N \in Nat
  BY FS_CardinalityType, CacheAssumption
<1>2. /\ cache \in [Places -> Buffers]
      /\ \A i, j \in Places : cache[i] = cache[j] => i = j
      /\ \A c \in Buffers : \E i \in Places : cache[i] = c
  BY DEF Bijection, Injection, Surjection, IsInjective
<1>3. p \in Places /\ cache[p] = b
  BY <1>2
<1>4. m = [i \in Places |-> IF i < p THEN cache[i] ELSE IF i < N THEN cache[i + 1] ELSE b]
  BY DEF MoveToBack
<1> HIDE DEF p, m, N
<1>5. m \in [Places -> Buffers]
  BY <1>1, <1>2, <1>3, <1>4 DEF Places, N
<1>6. \A i, j \in Places : m[i] = m[j] => i = j
  BY <1>1, <1>2, <1>3, <1>4 DEF Places, N
<1>7. ASSUME NEW c \in Buffers PROVE \E i \in Places : m[i] = c
  <2>1. PICK i \in Places : cache[i] = c
    BY <1>2
  <2>2. CASE i < p
    BY <2>1, <2>2, <1>4
  <2>3. CASE i = p
    BY <2>1, <2>3, <1>1, <1>3, <1>4 DEF Places, N
  <2>4. CASE i > p
    <3>1. i - 1 \in Places /\ m[i - 1] = c
      BY <2>1, <2>4, <1>1, <1>3, <1>4 DEF Places, N
    <3> QED BY <3>1
  <2> QED BY <2>2, <2>3, <2>4, <1>1, <1>3 DEF Places, N
<1>8. m \in Bijection(Places, Buffers)
  BY <1>5, <1>6, <1>7 DEF Bijection, Injection, Surjection, IsInjective
<1> QED BY <1>8 DEF m

\* Finitely many threads wait for a buffer.
LEMMA WaitsForFinite ==
  ASSUME NEW b \in Buffers
  PROVE  IsFiniteSet(WaitsFor(b))
BY FS_Subset, CacheAssumption DEF WaitsFor

\* A buffer whose count is zero has no waiters.
LEMMA NoneWaits ==
  ASSUME TypeOK, WaitersKeepSector, NEW b \in Buffers, NEW t \in Threads, 
         pc[t] \in Waiting, at[t] = b
  PROVE  waiting[b] # 0 /\ waiting[b] - 1 \in Nat
<1>1. t \in WaitsFor(b) /\ waiting[b] = Cardinality(WaitsFor(b))
  BY DEF WaitersKeepSector, WaitsFor
<1>2. Cardinality(WaitsFor(b)) # 0
  BY <1>1, WaitsForFinite, FS_EmptySet
<1>3. waiting[b] \in Nat
  BY DEF TypeOK
<1> QED BY <1>1, <1>2, <1>3

\* A sector of one buffer is not a sector of another.
LEMMA OtherBuffer ==
  ASSUME OneCopy, NEW b \in Buffers, NEW c \in Buffers, b # c,
         NEW s \in Sectors, s = sector[b] \/ s = evicting[b]
  PROVE  s # sector[c] /\ s # evicting[c]
<1>1. {sector[b], evicting[b]} \cap {sector[c], evicting[c]} \subseteq {NoSector}
  BY DEF OneCopy
<1>2. s # NoSector
  BY CacheAssumption
<1>3. s \in {sector[c], evicting[c]} => s \in {NoSector}
  BY <1>1
<1> QED BY <1>2, <1>3

\* What the top of the loop of buffer_acquire changes.
LEMMA AtTopEffect ==
  ASSUME TypeOK, NEW u \in Users, NEW s \in Sectors, AtTop(u, s)
  PROVE  /\ pc[u] \in {"idle", "look", "retryEvict"}
         /\ calls' \in [Users -> Nat]
         /\ want' = [want EXCEPT ![u] = s]
<1>1. CASE pc[u] = "idle" /\ calls' = [calls EXCEPT ![u] = @ + 1]
  BY <1>1 DEF AtTop, TypeOK
<1>2. CASE UNCHANGED calls /\ pc[u] \in {"look", "retryEvict"}
  BY <1>2 DEF AtTop, TypeOK
<1> QED BY <1>1, <1>2 DEF AtTop


SameAt(x) == (pc'[x] \in Waiting <=> pc[x] \in Waiting) /\ (pc[x] \in Waiting => at'[x] = at[x])

Counted == \A b \in Buffers : waiting[b] = Cardinality(WaitsFor(b))

\* The counts stay right if nobody starts or stops waiting.
LEMMA SameWaiters ==
  ASSUME Counted, UNCHANGED waiting, \A x \in Threads : SameAt(x)
  PROVE  Counted'
<1>1. \A b \in Buffers : WaitsFor(b)' = WaitsFor(b)
  BY DEF WaitsFor, SameAt
<1> QED BY <1>1 DEF Counted

\* ... if one more thread waits for b,
LEMMA OneMoreWaiter ==
  ASSUME TypeOK, Counted, NEW t \in Threads, NEW b \in Buffers,
         pc[t] \notin Waiting, pc'[t] \in Waiting, at'[t] = b,
         \A x \in Threads : x # t => SameAt(x),
         waiting' = [waiting EXCEPT ![b] = @ + 1]
  PROVE  Counted'
<1>1. WaitsFor(b)' = WaitsFor(b) \cup {t} /\ t \notin WaitsFor(b)
  BY DEF WaitsFor, SameAt
<1>2. \A c \in Buffers : c # b => WaitsFor(c)' = WaitsFor(c)
  BY DEF WaitsFor, SameAt
<1>3. Cardinality(WaitsFor(b)') = Cardinality(WaitsFor(b)) + 1
  BY <1>1, WaitsForFinite, FS_AddElement
<1> QED BY <1>2, <1>3 DEF Counted, TypeOK

\* ... and if one waiter of b less waits.
LEMMA OneLessWaiter ==
  ASSUME TypeOK, Counted, NEW t \in Threads, NEW b \in Buffers,
         pc[t] \in Waiting, at[t] = b, pc'[t] \notin Waiting,
         \A x \in Threads : x # t => SameAt(x),
         waiting' = [waiting EXCEPT ![b] = @ - 1]
  PROVE  Counted'
<1>1. WaitsFor(b)' = WaitsFor(b) \ {t} /\ t \in WaitsFor(b)
  BY DEF WaitsFor, SameAt
<1>2. \A c \in Buffers : c # b => WaitsFor(c)' = WaitsFor(c)
  BY DEF WaitsFor, SameAt
<1>3. Cardinality(WaitsFor(b)') = Cardinality(WaitsFor(b)) - 1
  BY <1>1, WaitsForFinite, FS_RemoveElement
<1> QED BY <1>2, <1>3 DEF Counted, TypeOK

WantedHere ==
  \A u \in Users : pc[u] \in Waiting \cup Loading \cup {"held", "wrote"} =>
                     sector[at[u]] = want[u]

\* The two halves of WaitersKeepSector, the counts and the sectors.
LEMMA CountedWanted ==
  /\ WaitersKeepSector <=> Counted /\ WantedHere
  /\ WaitersKeepSector' <=> Counted' /\ WantedHere'
BY DEF WaitersKeepSector, Counted, WantedHere

\* The buffer that is reused has neither an owner nor waiters.
LEMMA VictimUnused ==
  ASSUME NEW b \in Buffers, Victim(b)
  PROVE  ~inUse[b] /\ waiting[b] = 0
BY DEF Victim, FirstOf, Unused, UnusedData

\* The types.
LEMMA TypeOKStep ==
  ASSUME IInv, Next
  PROVE  TypeOK'
<1>1. ASSUME NEW u \in Users, NEW s \in Sectors, NEW b \in Buffers, AcquireHit(u, s, b)
      PROVE  TypeOK'
  <2>1. CASE inUse[b]
    <3>1. pc' = [pc EXCEPT ![u] = "waitBuf"] /\ waiting' = [waiting EXCEPT ![b] = @ + 1]
      BY <1>1, <2>1 DEF AcquireHit, TakeOrWait
    <3> QED BY <1>1, <2>1, <3>1, AtTopEffect, IInv
            DEF AcquireHit, TakeOrWait, IInv, TypeOK, Locs, Waiting, Threads
  <2>2. CASE ~inUse[b]
    <3>1. /\ pc' = [pc EXCEPT ![u] = "held"]
          /\ inUse' = [inUse EXCEPT ![b] = TRUE]
          /\ UNCHANGED waiting
      BY <1>1, <2>2 DEF AcquireHit, TakeOrWait
    <3>2. pc' \in [Threads -> Locs]
      BY <3>1, IInv DEF IInv, TypeOK, Locs, Owning
    <3>3. inUse' \in [Buffers -> BOOLEAN]
      BY <3>1, IInv DEF IInv, TypeOK
    <3> QED BY <1>1, <3>1, <3>2, <3>3, AtTopEffect, IInv
            DEF AcquireHit, IInv, TypeOK, Threads
  <2> QED BY <2>1, <2>2
<1>2. ASSUME NEW u \in Users, NEW s \in Sectors, NEW b \in Buffers, AcquireEvicting(u, s, b)
      PROVE  TypeOK'
  BY <1>2, IInv, CacheAssumption
     DEF AcquireEvicting, AtTop, bufVars, IInv, TypeOK, Placed, OwnerKnows, Owning,
         Waiting, Loading, Threads, Locs
<1>3. ASSUME NEW u \in Users, NEW s \in Sectors, NEW b \in Buffers, AcquireMiss(u, s, b)
      PROVE  TypeOK'
  BY <1>3, IInv, CacheAssumption, VictimUnused
     DEF AcquireMiss, AtTop, Load, Matches, IInv, TypeOK, Placed, OwnerKnows,
         Owning, Waiting, Loading, Threads, Locs
<1>4. ASSUME NEW u \in Users, NEW s \in Sectors, AcquireNone(u, s)
      PROVE  TypeOK'
  BY <1>4, IInv, CacheAssumption
     DEF AcquireNone, AtTop, bufVars, IInv, TypeOK, Placed, OwnerKnows, Owning,
         Waiting, Loading, Threads, Locs
<1>5. ASSUME NEW u \in Users, NEW v \in Values, Write(u, v)
      PROVE  TypeOK'
  BY <1>5, IInv, CacheAssumption
     DEF Write, bufVars, IInv, TypeOK, Placed, OwnerKnows, Owning, Waiting, Loading,
         Threads, Locs
<1>6. ASSUME NEW f \in Flushers, NEW b \in Buffers, FlushLook(f, b)
      PROVE  TypeOK'
  <2>1. CASE inUse[b]
    <3>1. pc' = [pc EXCEPT ![f] = "waitBuf"] /\ waiting' = [waiting EXCEPT ![b] = @ + 1]
      BY <1>6, <2>1 DEF FlushLook, TakeOrWait
    <3> QED BY <1>6, <2>1, <3>1, IInv
            DEF FlushLook, TakeOrWait, IInv, TypeOK, Locs, Waiting, Threads
  <2>2. CASE ~inUse[b]
    <3>1. /\ pc' = [pc EXCEPT ![f] = "flushWrite"]
          /\ inUse' = [inUse EXCEPT ![b] = TRUE]
          /\ UNCHANGED waiting
      BY <1>6, <2>2 DEF FlushLook, TakeOrWait
    <3>2. pc' \in [Threads -> Locs]
      BY <3>1, IInv DEF IInv, TypeOK, Locs, Owning
    <3>3. inUse' \in [Buffers -> BOOLEAN]
      BY <3>1, IInv DEF IInv, TypeOK
    <3> QED BY <1>6, <3>1, <3>2, <3>3, IInv
            DEF FlushLook, IInv, TypeOK, Threads
  <2> QED BY <2>1, <2>2
<1>7. ASSUME NEW r \in ReadAheads, NEW s \in Sectors, NEW b \in Buffers, Prefetch(r, s, b)
      PROVE  TypeOK'
  BY <1>7, IInv, CacheAssumption, VictimUnused
     DEF Prefetch, Load, Matches, IInv, TypeOK, Placed, OwnerKnows, Owning, Waiting,
         Loading, Threads, Locs
<1>8. ASSUME NEW t \in Threads, RetryBuffer(t)
      PROVE  TypeOK'
  <2>1. at[t] \in Buffers /\ waiting[at[t]] - 1 \in Nat
    BY <1>8, NoneWaits, IInv DEF IInv, RetryBuffer, Placed, Waiting
  <2>2. CASE inUse[at[t]]
    BY <1>8, <2>2, IInv DEF RetryBuffer, IInv, TypeOK, Locs, Waiting
  <2>3. CASE ~inUse[at[t]]
    <3>1. waiting' \in [Buffers -> Nat] /\ inUse' \in [Buffers -> BOOLEAN]
      BY ZenonT(60), <1>8, <2>1, <2>3, IInv DEF RetryBuffer, IInv, TypeOK
    <3>2. pc' \in [Threads -> Locs]
      BY <1>8, <2>3, IInv DEF RetryBuffer, IInv, TypeOK, Locs, Owning
    <3> QED BY <1>8, <3>1, <3>2, IInv DEF RetryBuffer, IInv, TypeOK
  <2> QED BY <2>2, <2>3
<1>9. ASSUME NEW t \in Threads, RetryEvicting(t)
      PROVE  TypeOK'
  BY <1>9, IInv, CacheAssumption
     DEF RetryEvicting, bufVars, IInv, TypeOK, Placed, OwnerKnows, Owning, Waiting,
         Loading, Threads, Locs
<1>10. ASSUME NEW t \in Threads, EvictWrite(t)
      PROVE  TypeOK'
  BY <1>10, IInv, CacheAssumption
     DEF EvictWrite, bufVars, IInv, TypeOK, Placed, OwnerKnows, Owning, Waiting,
         Loading, Threads, Locs
<1>11. ASSUME NEW t \in Threads, EvictDone(t)
      PROVE  TypeOK'
  BY <1>11, IInv, CacheAssumption
     DEF EvictDone, Signal, IInv, TypeOK, Placed, OwnerKnows, Owning, Waiting,
         Loading, Threads, Locs
<1>12. ASSUME NEW t \in Threads, Read(t)
      PROVE  TypeOK'
  BY <1>12, IInv, CacheAssumption
     DEF Read, bufVars, IInv, TypeOK, Placed, OwnerKnows, Owning, Waiting, Loading,
         Threads, Locs
<1>13. ASSUME NEW t \in Threads, Release(t)
      PROVE  TypeOK'
  <2>1. at[t] \in Buffers
    BY <1>13, IInv DEF Release, IInv, Placed, Owning
  <2>2. cache' \in Bijection(Places, Buffers)
    BY <1>13, <2>1, MoveToBackPermutes, IInv DEF Release, IInv, TypeOK
  <2>3. pc' \in [Threads -> Locs]
    BY <1>13, IInv DEF Release, Signal, IInv, TypeOK, Locs, Waiting
  <2> QED BY <1>13, <2>1, <2>2, <2>3, IInv DEF Release, DirtyAfter, IInv, TypeOK
<1>14. ASSUME NEW t \in Threads, FlushWrite(t)
      PROVE  TypeOK'
  BY <1>14, IInv, CacheAssumption
     DEF FlushWrite, bufVars, IInv, TypeOK, Placed, OwnerKnows, Owning, Waiting,
         Loading, Threads, Locs
<1>15. ASSUME NEW t \in Threads, FlushClean(t)
      PROVE  TypeOK'
  BY <1>15, IInv, CacheAssumption
     DEF FlushClean, IInv, TypeOK, Placed, OwnerKnows, Owning, Waiting, Loading,
         Threads, Locs
<1> QED
  BY <1>1, <1>2, <1>3, <1>4, <1>5, <1>6, <1>7, <1>8, <1>9, <1>10, <1>11, <1>12,
     <1>13, <1>14, <1>15 DEF Next, Acquire, Step

\* Threads are where their kind can be.
LEMMA PlacedStep ==
  ASSUME IInv, Next
  PROVE  Placed'
<1>1. ASSUME NEW u \in Users, NEW s \in Sectors, NEW b \in Buffers, AcquireHit(u, s, b)
      PROVE  Placed'
  BY <1>1, IInv, CacheAssumption
     DEF AcquireHit, AtTop, TakeOrWait, IInv, TypeOK, Placed, Owning, Waiting,
         Loading, Threads
<1>2. ASSUME NEW u \in Users, NEW s \in Sectors, NEW b \in Buffers, AcquireEvicting(u, s, b)
      PROVE  Placed'
  BY <1>2, IInv, CacheAssumption
     DEF AcquireEvicting, AtTop, bufVars, IInv, TypeOK, Placed, Owning, Waiting,
         Loading, Threads
<1>3. ASSUME NEW u \in Users, NEW s \in Sectors, NEW b \in Buffers, AcquireMiss(u, s, b)
      PROVE  Placed'
  BY <1>3, IInv, CacheAssumption, VictimUnused
     DEF AcquireMiss, AtTop, Load, Matches, IInv, TypeOK, Placed, Owning, Waiting,
         Loading, Threads
<1>4. ASSUME NEW u \in Users, NEW s \in Sectors, AcquireNone(u, s)
      PROVE  Placed'
  BY <1>4, IInv, CacheAssumption
     DEF AcquireNone, AtTop, bufVars, IInv, TypeOK, Placed, Owning, Waiting,
         Loading, Threads
<1>5. ASSUME NEW u \in Users, NEW v \in Values, Write(u, v)
      PROVE  Placed'
  BY <1>5, IInv, CacheAssumption
     DEF Write, bufVars, IInv, TypeOK, Placed, Owning, Waiting, Loading, Threads
<1>6. ASSUME NEW f \in Flushers, NEW b \in Buffers, FlushLook(f, b)
      PROVE  Placed'
  BY <1>6, IInv, CacheAssumption
     DEF FlushLook, TakeOrWait, IInv, TypeOK, Placed, Owning, Waiting, Loading,
         Threads
<1>7. ASSUME NEW r \in ReadAheads, NEW s \in Sectors, NEW b \in Buffers, Prefetch(r, s, b)
      PROVE  Placed'
  BY <1>7, IInv, CacheAssumption, VictimUnused
     DEF Prefetch, Load, Matches, IInv, TypeOK, Placed, Owning, Waiting, Loading,
         Threads
<1>8. ASSUME NEW t \in Threads, RetryBuffer(t)
      PROVE  Placed'
  BY <1>8, IInv, CacheAssumption
     DEF RetryBuffer, IInv, TypeOK, Placed, Owning, Waiting, Loading, Threads
<1>9. ASSUME NEW t \in Threads, RetryEvicting(t)
      PROVE  Placed'
  BY <1>9, IInv, CacheAssumption
     DEF RetryEvicting, bufVars, IInv, TypeOK, Placed, Owning, Waiting, Loading,
         Threads
<1>10. ASSUME NEW t \in Threads, EvictWrite(t)
      PROVE  Placed'
  BY <1>10, IInv, CacheAssumption
     DEF EvictWrite, bufVars, IInv, TypeOK, Placed, Owning, Waiting, Loading,
         Threads
<1>11. ASSUME NEW t \in Threads, EvictDone(t)
      PROVE  Placed'
  BY <1>11, IInv, CacheAssumption
     DEF EvictDone, Signal, IInv, TypeOK, Placed, Owning, Waiting, Loading, Threads
<1>12. ASSUME NEW t \in Threads, Read(t)
      PROVE  Placed'
  BY <1>12, IInv, CacheAssumption
     DEF Read, bufVars, IInv, TypeOK, Placed, Owning, Waiting, Loading, Threads
<1>13. ASSUME NEW t \in Threads, Release(t)
      PROVE  Placed'
  BY <1>13, IInv, CacheAssumption
     DEF Release, Signal, DirtyAfter, IInv, TypeOK, Placed, Owning, Waiting,
         Loading, Threads
<1>14. ASSUME NEW t \in Threads, FlushWrite(t)
      PROVE  Placed'
  BY <1>14, IInv, CacheAssumption
     DEF FlushWrite, bufVars, IInv, TypeOK, Placed, Owning, Waiting, Loading,
         Threads
<1>15. ASSUME NEW t \in Threads, FlushClean(t)
      PROVE  Placed'
  BY <1>15, IInv, CacheAssumption
     DEF FlushClean, IInv, TypeOK, Placed, Owning, Waiting, Loading, Threads
<1> QED
  BY <1>1, <1>2, <1>3, <1>4, <1>5, <1>6, <1>7, <1>8, <1>9, <1>10, <1>11, <1>12,
     <1>13, <1>14, <1>15 DEF Next, Acquire, Step

\* A buffer in use has one owner.
LEMMA OneOwnerStep ==
  ASSUME IInv, Next
  PROVE  OneOwner'
<1>1. ASSUME NEW u \in Users, NEW s \in Sectors, NEW b \in Buffers, AcquireHit(u, s, b)
      PROVE  OneOwner'
  BY <1>1, IInv, CacheAssumption
     DEF AcquireHit, AtTop, TakeOrWait, IInv, TypeOK, Placed, OneOwner, Owns,
         Owning, Waiting, Loading, Threads
<1>2. ASSUME NEW u \in Users, NEW s \in Sectors, NEW b \in Buffers, AcquireEvicting(u, s, b)
      PROVE  OneOwner'
  BY <1>2, IInv, CacheAssumption
     DEF AcquireEvicting, AtTop, bufVars, IInv, TypeOK, Placed, OneOwner, Owns,
         Owning, Waiting, Loading, Threads
<1>3. ASSUME NEW u \in Users, NEW s \in Sectors, NEW b \in Buffers, AcquireMiss(u, s, b)
      PROVE  OneOwner'
  BY <1>3, IInv, CacheAssumption, VictimUnused
     DEF AcquireMiss, AtTop, Load, Matches, IInv, TypeOK, Placed, OneOwner, Owns,
         Owning, Waiting, Loading, Threads
<1>4. ASSUME NEW u \in Users, NEW s \in Sectors, AcquireNone(u, s)
      PROVE  OneOwner'
  BY <1>4, IInv, CacheAssumption
     DEF AcquireNone, AtTop, bufVars, IInv, TypeOK, Placed, OneOwner, Owns, Owning,
         Waiting, Loading, Threads
<1>5. ASSUME NEW u \in Users, NEW v \in Values, Write(u, v)
      PROVE  OneOwner'
  BY <1>5, IInv, CacheAssumption
     DEF Write, bufVars, IInv, TypeOK, Placed, OneOwner, Owns, Owning, Waiting,
         Loading, Threads
<1>6. ASSUME NEW f \in Flushers, NEW b \in Buffers, FlushLook(f, b)
      PROVE  OneOwner'
  BY <1>6, IInv, CacheAssumption
     DEF FlushLook, TakeOrWait, IInv, TypeOK, Placed, OneOwner, Owns, Owning,
         Waiting, Loading, Threads
<1>7. ASSUME NEW r \in ReadAheads, NEW s \in Sectors, NEW b \in Buffers, Prefetch(r, s, b)
      PROVE  OneOwner'
  BY <1>7, IInv, CacheAssumption, VictimUnused
     DEF Prefetch, Load, Matches, IInv, TypeOK, Placed, OneOwner, Owns, Owning,
         Waiting, Loading, Threads
<1>8. ASSUME NEW t \in Threads, RetryBuffer(t)
      PROVE  OneOwner'
  BY <1>8, IInv, CacheAssumption
     DEF RetryBuffer, IInv, TypeOK, Placed, OneOwner, Owns, Owning, Waiting,
         Loading, Threads
<1>9. ASSUME NEW t \in Threads, RetryEvicting(t)
      PROVE  OneOwner'
  BY <1>9, IInv, CacheAssumption
     DEF RetryEvicting, bufVars, IInv, TypeOK, Placed, OneOwner, Owns, Owning,
         Waiting, Loading, Threads
<1>10. ASSUME NEW t \in Threads, EvictWrite(t)
      PROVE  OneOwner'
  BY <1>10, IInv, CacheAssumption
     DEF EvictWrite, bufVars, IInv, TypeOK, Placed, OneOwner, Owns, Owning, Waiting,
         Loading, Threads
<1>11. ASSUME NEW t \in Threads, EvictDone(t)
      PROVE  OneOwner'
  BY <1>11, IInv, CacheAssumption
     DEF EvictDone, Signal, IInv, TypeOK, Placed, OneOwner, Owns, Owning, Waiting,
         Loading, Threads
<1>12. ASSUME NEW t \in Threads, Read(t)
      PROVE  OneOwner'
  BY <1>12, IInv, CacheAssumption
     DEF Read, bufVars, IInv, TypeOK, Placed, OneOwner, Owns, Owning, Waiting,
         Loading, Threads
<1>13. ASSUME NEW t \in Threads, Release(t)
      PROVE  OneOwner'
  BY <1>13, IInv, CacheAssumption
     DEF Release, Signal, DirtyAfter, IInv, TypeOK, Placed, OneOwner, Owns, Owning,
         Waiting, Loading, Threads
<1>14. ASSUME NEW t \in Threads, FlushWrite(t)
      PROVE  OneOwner'
  BY <1>14, IInv, CacheAssumption
     DEF FlushWrite, bufVars, IInv, TypeOK, Placed, OneOwner, Owns, Owning, Waiting,
         Loading, Threads
<1>15. ASSUME NEW t \in Threads, FlushClean(t)
      PROVE  OneOwner'
  BY <1>15, IInv, CacheAssumption
     DEF FlushClean, IInv, TypeOK, Placed, OneOwner, Owns, Owning, Waiting, Loading,
         Threads
<1> QED
  BY <1>1, <1>2, <1>3, <1>4, <1>5, <1>6, <1>7, <1>8, <1>9, <1>10, <1>11, <1>12,
     <1>13, <1>14, <1>15 DEF Next, Acquire, Step

\* What the owner of a buffer knows.
LEMMA OwnerKnowsStep ==
  ASSUME IInv, Next
  PROVE  OwnerKnows'
<1>1. ASSUME NEW u \in Users, NEW s \in Sectors, NEW b \in Buffers, AcquireHit(u, s, b)
      PROVE  OwnerKnows'
  BY <1>1, AtTopEffect, IInv
     DEF AcquireHit, TakeOrWait, IInv, TypeOK, Placed, OwnerKnows, Threads, Owning, Waiting
<1>2. ASSUME NEW u \in Users, NEW s \in Sectors, NEW b \in Buffers, AcquireEvicting(u, s, b)
      PROVE  OwnerKnows'
  BY <1>2, IInv, CacheAssumption
     DEF AcquireEvicting, AtTop, bufVars, IInv, TypeOK, Placed, OneOwner,
         OwnerKnows, OneCopy, Owns, Owning, Waiting, Loading, Threads
<1>3. ASSUME NEW u \in Users, NEW s \in Sectors, NEW b \in Buffers, AcquireMiss(u, s, b)
      PROVE  OwnerKnows'
  BY <1>3, IInv, CacheAssumption, VictimUnused
     DEF AcquireMiss, AtTop, Load, Matches, IInv, TypeOK, Placed, OneOwner,
         OwnerKnows, OneCopy, Owns, Owning, Waiting, Loading, Threads
<1>4. ASSUME NEW u \in Users, NEW s \in Sectors, AcquireNone(u, s)
      PROVE  OwnerKnows'
  BY <1>4, IInv, CacheAssumption
     DEF AcquireNone, AtTop, bufVars, IInv, TypeOK, Placed, OneOwner, OwnerKnows,
         OneCopy, Owns, Owning, Waiting, Loading, Threads
<1>5. ASSUME NEW u \in Users, NEW v \in Values, Write(u, v)
      PROVE  OwnerKnows'
  BY <1>5, IInv, CacheAssumption
     DEF Write, bufVars, IInv, TypeOK, Placed, OneOwner, OwnerKnows, OneCopy, Owns,
         Owning, Waiting, Loading, Threads
<1>6. ASSUME NEW f \in Flushers, NEW b \in Buffers, FlushLook(f, b)
      PROVE  OwnerKnows'
  <2>1. dirty[b]
    BY <1>6 DEF FlushLook, FirstOf, ToWriteBack
  <2>2. pc[f] = "idle" /\ pc' = [pc EXCEPT ![f] = pc'[f]] /\ pc'[f] \in {"waitBuf", "flushWrite"}
    BY <1>6, IInv DEF FlushLook, TakeOrWait, IInv, TypeOK, Threads
  <2> QED
    BY <1>6, <2>1, <2>2, IInv, CacheAssumption
    DEF FlushLook, IInv, TypeOK, OwnerKnows, Owning, Waiting, Threads
<1>7. ASSUME NEW r \in ReadAheads, NEW s \in Sectors, NEW b \in Buffers, Prefetch(r, s, b)
      PROVE  OwnerKnows'
  BY <1>7, IInv, CacheAssumption, VictimUnused
     DEF Prefetch, Load, Matches, IInv, TypeOK, Placed, OneOwner, OwnerKnows,
         OneCopy, Owns, Owning, Waiting, Loading, Threads
<1>8. ASSUME NEW t \in Threads, RetryBuffer(t)
      PROVE  OwnerKnows'
  BY <1>8, IInv, CacheAssumption
     DEF RetryBuffer, IInv, TypeOK, Placed, OneOwner, OwnerKnows, OneCopy, Owns,
         Owning, Waiting, Loading, Threads
<1>9. ASSUME NEW t \in Threads, RetryEvicting(t)
      PROVE  OwnerKnows'
  BY <1>9, IInv, CacheAssumption
     DEF RetryEvicting, bufVars, IInv, TypeOK, Placed, OneOwner, OwnerKnows,
         OneCopy, Owns, Owning, Waiting, Loading, Threads
<1>10. ASSUME NEW t \in Threads, EvictWrite(t)
      PROVE  OwnerKnows'
  <2> DEFINE b == at[t]
             e == evicting[b]
  <2>1. b \in Buffers /\ e \in Sectors /\ pc[t] = "evictWrite"
    BY <1>10, IInv DEF EvictWrite, IInv, Placed, OwnerKnows, Owning
  <2>2. \A c \in Buffers : c # b => sector[c] # e /\ evicting[c] # e
    BY <2>1, OtherBuffer, IInv DEF IInv
  <2>3. \A u \in Threads : u # t /\ pc[u] \in Owning => at[u] # b
    BY <2>1, IInv DEF IInv, Placed, OneOwner, Owns, Owning
  <2>4. disk'[e] = data[b] /\ \A s \in Sectors : s # e => disk'[s] = disk[s]
    BY <1>10, <2>1, IInv DEF EvictWrite, IInv, TypeOK
  <2> QED
    BY <1>10, <2>1, <2>2, <2>3, <2>4, IInv, CacheAssumption
    DEF EvictWrite, bufVars, IInv, TypeOK, Placed, OwnerKnows, CleanIsOnDisk, Owning, Waiting, Loading
<1>11. ASSUME NEW t \in Threads, EvictDone(t)
      PROVE  OwnerKnows'
  <2> DEFINE b == at[t]
  <2>1. b \in Buffers /\ pc[t] = "evictDone"
    BY <1>11, IInv DEF EvictDone, IInv, Placed, Owning
  <2>2. /\ pc'[t] = "read"
        /\ \A x \in Threads : x # t =>
             pc'[x] = pc[x] \/ (pc[x] = "waitEvict" /\ pc'[x] = "retryEvict")
    BY <1>11, <2>1, IInv DEF EvictDone, Signal, IInv, TypeOK
  <2>3. \A x \in Threads : x # t /\ pc[x] \in Owning => at[x] # b
    BY <2>1, IInv DEF IInv, Placed, OneOwner, Owns, Owning
  <2> QED
    BY <1>11, <2>1, <2>2, <2>3, IInv, CacheAssumption
    DEF EvictDone, IInv, TypeOK, Placed, OwnerKnows, Owning, Waiting, Loading
<1>12. ASSUME NEW t \in Threads, Read(t)
      PROVE  OwnerKnows'
  BY <1>12, IInv, CacheAssumption
     DEF Read, bufVars, IInv, TypeOK, Placed, OneOwner, OwnerKnows, OneCopy, Owns,
         Owning, Waiting, Loading, Threads
<1>13. ASSUME NEW t \in Threads, Release(t)
      PROVE  OwnerKnows'
  BY <1>13, IInv, CacheAssumption
     DEF Release, Signal, DirtyAfter, IInv, TypeOK, Placed, OneOwner, OwnerKnows,
         OneCopy, Owns, Owning, Waiting, Loading, Threads
<1>14. ASSUME NEW t \in Threads, FlushWrite(t)
      PROVE  OwnerKnows'
  <2> DEFINE b == at[t]
             e == sector[b]
  <2>1. b \in Buffers /\ e \in Sectors /\ pc[t] = "flushWrite"
    BY <1>14, IInv DEF FlushWrite, IInv, Placed, OwnerKnows, Owning
  <2>2. \A c \in Buffers : c # b => sector[c] # e /\ evicting[c] # e
    BY <2>1, OtherBuffer, IInv DEF IInv
  <2>3. \A u \in Threads : u # t /\ pc[u] \in Owning => at[u] # b
    BY <2>1, IInv DEF IInv, Placed, OneOwner, Owns, Owning
  <2>4. disk'[e] = data[b] /\ \A s \in Sectors : s # e => disk'[s] = disk[s]
    BY <1>14, <2>1, IInv DEF FlushWrite, IInv, TypeOK
  <2> QED
    BY <1>14, <2>1, <2>2, <2>3, <2>4, IInv, CacheAssumption
    DEF FlushWrite, bufVars, IInv, TypeOK, Placed, OwnerKnows, CleanIsOnDisk, Owning, Waiting, Loading
<1>15. ASSUME NEW t \in Threads, FlushClean(t)
      PROVE  OwnerKnows'
  BY <1>15, IInv, CacheAssumption
     DEF FlushClean, IInv, TypeOK, Placed, OneOwner, OwnerKnows, OneCopy, Owns,
         Owning, Waiting, Loading, Threads
<1> QED
  BY <1>1, <1>2, <1>3, <1>4, <1>5, <1>6, <1>7, <1>8, <1>9, <1>10, <1>11, <1>12,
     <1>13, <1>14, <1>15 DEF Next, Acquire, Step

\* A sector is in one buffer.
LEMMA OneCopyStep ==
  ASSUME IInv, Next
  PROVE  OneCopy'
<1>1. ASSUME NEW u \in Users, NEW s \in Sectors, NEW b \in Buffers, AcquireHit(u, s, b)
      PROVE  OneCopy'
  BY <1>1, IInv, CacheAssumption
     DEF AcquireHit, AtTop, TakeOrWait, IInv, TypeOK, Placed, OneOwner, OwnerKnows,
         OneCopy, Owns, Owning, Waiting, Loading, Threads
<1>2. ASSUME NEW u \in Users, NEW s \in Sectors, NEW b \in Buffers, AcquireEvicting(u, s, b)
      PROVE  OneCopy'
  BY <1>2, IInv, CacheAssumption
     DEF AcquireEvicting, AtTop, bufVars, IInv, TypeOK, Placed, OneOwner,
         OwnerKnows, OneCopy, Owns, Owning, Waiting, Loading, Threads
<1>3. ASSUME NEW u \in Users, NEW s \in Sectors, NEW b \in Buffers, AcquireMiss(u, s, b)
      PROVE  OneCopy'
  BY <1>3, IInv, CacheAssumption, VictimUnused
     DEF AcquireMiss, AtTop, Load, Matches, IInv, TypeOK, Placed, OneOwner,
         OwnerKnows, OneCopy, Owns, Owning, Waiting, Loading, Threads
<1>4. ASSUME NEW u \in Users, NEW s \in Sectors, AcquireNone(u, s)
      PROVE  OneCopy'
  BY <1>4, IInv, CacheAssumption
     DEF AcquireNone, AtTop, bufVars, IInv, TypeOK, Placed, OneOwner, OwnerKnows,
         OneCopy, Owns, Owning, Waiting, Loading, Threads
<1>5. ASSUME NEW u \in Users, NEW v \in Values, Write(u, v)
      PROVE  OneCopy'
  BY <1>5, IInv, CacheAssumption
     DEF Write, bufVars, IInv, TypeOK, Placed, OneOwner, OwnerKnows, OneCopy, Owns,
         Owning, Waiting, Loading, Threads
<1>6. ASSUME NEW f \in Flushers, NEW b \in Buffers, FlushLook(f, b)
      PROVE  OneCopy'
  BY <1>6, IInv, CacheAssumption
     DEF FlushLook, TakeOrWait, IInv, TypeOK, Placed, OneOwner, OwnerKnows, OneCopy,
         Owns, Owning, Waiting, Loading, Threads
<1>7. ASSUME NEW r \in ReadAheads, NEW s \in Sectors, NEW b \in Buffers, Prefetch(r, s, b)
      PROVE  OneCopy'
  BY <1>7, IInv, CacheAssumption, VictimUnused
     DEF Prefetch, Load, Matches, IInv, TypeOK, Placed, OneOwner, OwnerKnows,
         OneCopy, Owns, Owning, Waiting, Loading, Threads
<1>8. ASSUME NEW t \in Threads, RetryBuffer(t)
      PROVE  OneCopy'
  BY <1>8, IInv, CacheAssumption
     DEF RetryBuffer, IInv, TypeOK, Placed, OneOwner, OwnerKnows, OneCopy, Owns,
         Owning, Waiting, Loading, Threads
<1>9. ASSUME NEW t \in Threads, RetryEvicting(t)
      PROVE  OneCopy'
  BY <1>9, IInv, CacheAssumption
     DEF RetryEvicting, bufVars, IInv, TypeOK, Placed, OneOwner, OwnerKnows,
         OneCopy, Owns, Owning, Waiting, Loading, Threads
<1>10. ASSUME NEW t \in Threads, EvictWrite(t)
      PROVE  OneCopy'
  BY <1>10, IInv, CacheAssumption
     DEF EvictWrite, bufVars, IInv, TypeOK, Placed, OneOwner, OwnerKnows, OneCopy,
         Owns, Owning, Waiting, Loading, Threads
<1>11. ASSUME NEW t \in Threads, EvictDone(t)
      PROVE  OneCopy'
  BY <1>11, IInv, CacheAssumption
     DEF EvictDone, Signal, IInv, TypeOK, Placed, OneOwner, OwnerKnows, OneCopy,
         Owns, Owning, Waiting, Loading, Threads
<1>12. ASSUME NEW t \in Threads, Read(t)
      PROVE  OneCopy'
  BY <1>12, IInv, CacheAssumption
     DEF Read, bufVars, IInv, TypeOK, Placed, OneOwner, OwnerKnows, OneCopy, Owns,
         Owning, Waiting, Loading, Threads
<1>13. ASSUME NEW t \in Threads, Release(t)
      PROVE  OneCopy'
  BY <1>13, IInv, CacheAssumption
     DEF Release, Signal, DirtyAfter, IInv, TypeOK, Placed, OneOwner, OwnerKnows,
         OneCopy, Owns, Owning, Waiting, Loading, Threads
<1>14. ASSUME NEW t \in Threads, FlushWrite(t)
      PROVE  OneCopy'
  BY <1>14, IInv, CacheAssumption
     DEF FlushWrite, bufVars, IInv, TypeOK, Placed, OneOwner, OwnerKnows, OneCopy,
         Owns, Owning, Waiting, Loading, Threads
<1>15. ASSUME NEW t \in Threads, FlushClean(t)
      PROVE  OneCopy'
  BY <1>15, IInv, CacheAssumption
     DEF FlushClean, IInv, TypeOK, Placed, OneOwner, OwnerKnows, OneCopy, Owns,
         Owning, Waiting, Loading, Threads
<1> QED
  BY <1>1, <1>2, <1>3, <1>4, <1>5, <1>6, <1>7, <1>8, <1>9, <1>10, <1>11, <1>12,
     <1>13, <1>14, <1>15 DEF Next, Acquire, Step

\* Waiters are counted and keep their sector.
LEMMA WaitersKeepSectorStep ==
  ASSUME IInv, Next
  PROVE  WaitersKeepSector'
<1>1. ASSUME NEW u \in Users, NEW s \in Sectors, NEW b \in Buffers, AcquireHit(u, s, b)
      PROVE  WaitersKeepSector'
  <2>1. ASSUME inUse[b] PROVE Counted'
    <3>1. /\ pc[u] \notin Waiting
          /\ pc' = [pc EXCEPT ![u] = "waitBuf"]
          /\ at' = [at EXCEPT ![u] = b]
          /\ waiting' = [waiting EXCEPT ![b] = @ + 1]
      BY <1>1, <2>1, AtTopEffect, IInv DEF AcquireHit, TakeOrWait, IInv, Waiting
    <3> QED BY <1>1, <3>1, OneMoreWaiter, CountedWanted, IInv
            DEF IInv, TypeOK, SameAt, Waiting, Threads
  <2>2. ASSUME ~inUse[b] PROVE Counted'
    <3>1. /\ pc[u] \notin Waiting
          /\ pc' = [pc EXCEPT ![u] = "held"]
          /\ at' = [at EXCEPT ![u] = b]
          /\ UNCHANGED waiting
      BY <1>1, <2>2, AtTopEffect, IInv DEF AcquireHit, TakeOrWait, IInv, Waiting
    <3> QED BY <1>1, <3>1, SameWaiters, CountedWanted, IInv
            DEF IInv, TypeOK, SameAt, Waiting, Threads
  <2>3. WantedHere'
    BY <1>1, AtTopEffect, IInv, CacheAssumption
    DEF AcquireHit, TakeOrWait, IInv, TypeOK, Placed, OneOwner, OwnerKnows, WaitersKeepSector, WantedHere, Owns, Owning, Waiting, Loading, Threads
  <2> QED BY <2>1, <2>2, <2>3, CountedWanted
<1>2. ASSUME NEW u \in Users, NEW s \in Sectors, NEW b \in Buffers, AcquireEvicting(u, s, b)
      PROVE  WaitersKeepSector'
  <2>1. Counted'
    <3>1. UNCHANGED waiting /\ \A x \in Threads : SameAt(x)
      BY <1>2, IInv DEF AcquireEvicting, AtTop, bufVars, IInv, TypeOK, Placed, SameAt, Owning, Waiting, Loading, Threads
    <3> QED BY <3>1, SameWaiters, CountedWanted, IInv DEF IInv
  <2>2. WantedHere'
    BY <1>2, IInv, CacheAssumption
    DEF AcquireEvicting, AtTop, bufVars, IInv, TypeOK, Placed, OneOwner, OwnerKnows, WaitersKeepSector, WantedHere, Owns, Owning, Waiting, Loading, Threads
  <2> QED BY <2>1, <2>2, CountedWanted
<1>3. ASSUME NEW u \in Users, NEW s \in Sectors, NEW b \in Buffers, AcquireMiss(u, s, b)
      PROVE  WaitersKeepSector'
  <2>1. Counted'
    <3>1. UNCHANGED waiting /\ \A x \in Threads : SameAt(x)
      BY <1>3, IInv DEF AcquireMiss, AtTop, Load, Matches, IInv, TypeOK, Placed, SameAt, Owning, Waiting, Loading, Threads
    <3> QED BY <3>1, SameWaiters, CountedWanted, IInv DEF IInv
  <2>2. ~inUse[b] /\ \A x \in Threads : pc[x] \in Waiting \cup Owning => at[x] # b
    BY <1>3, VictimUnused, NoneWaits, IInv DEF AcquireMiss, IInv, OneOwner, Owns, Placed
  <2>3. WantedHere'
    BY <1>3, <2>2, IInv, CacheAssumption
    DEF AcquireMiss, AtTop, Load, Matches, IInv, TypeOK, Placed, OwnerKnows, WaitersKeepSector, WantedHere, Owning, Waiting, Loading, Threads
  <2> QED BY <2>1, <2>3, CountedWanted
<1>4. ASSUME NEW u \in Users, NEW s \in Sectors, AcquireNone(u, s)
      PROVE  WaitersKeepSector'
  <2>1. Counted'
    <3>1. UNCHANGED waiting /\ \A x \in Threads : SameAt(x)
      BY <1>4, IInv DEF AcquireNone, AtTop, bufVars, IInv, TypeOK, Placed, SameAt, Owning, Waiting, Loading, Threads
    <3> QED BY <3>1, SameWaiters, CountedWanted, IInv DEF IInv
  <2>2. WantedHere'
    BY <1>4, IInv, CacheAssumption
    DEF AcquireNone, AtTop, bufVars, IInv, TypeOK, Placed, OneOwner, OwnerKnows, WaitersKeepSector, WantedHere, Owns, Owning, Waiting, Loading, Threads
  <2> QED BY <2>1, <2>2, CountedWanted
<1>5. ASSUME NEW u \in Users, NEW v \in Values, Write(u, v)
      PROVE  WaitersKeepSector'
  <2>1. Counted'
    <3>1. UNCHANGED waiting /\ \A x \in Threads : SameAt(x)
      BY <1>5, IInv DEF Write, bufVars, IInv, TypeOK, Placed, SameAt, Owning, Waiting, Loading, Threads
    <3> QED BY <3>1, SameWaiters, CountedWanted, IInv DEF IInv
  <2>2. WantedHere'
    BY <1>5, IInv, CacheAssumption
    DEF Write, bufVars, IInv, TypeOK, Placed, OneOwner, OwnerKnows, WaitersKeepSector, WantedHere, Owns, Owning, Waiting, Loading, Threads
  <2> QED BY <2>1, <2>2, CountedWanted
<1>6. ASSUME NEW f \in Flushers, NEW b \in Buffers, FlushLook(f, b)
      PROVE  WaitersKeepSector'
  <2>1. ASSUME inUse[b] PROVE Counted'
    <3>1. /\ pc[f] \notin Waiting
          /\ pc' = [pc EXCEPT ![f] = "waitBuf"]
          /\ at' = [at EXCEPT ![f] = b]
          /\ waiting' = [waiting EXCEPT ![b] = @ + 1]
      BY <1>6, <2>1, IInv DEF FlushLook, TakeOrWait, IInv, Waiting
    <3> QED BY <1>6, <3>1, OneMoreWaiter, CountedWanted, IInv
            DEF IInv, TypeOK, SameAt, Waiting, Threads
  <2>2. ASSUME ~inUse[b] PROVE Counted'
    <3>1. /\ pc[f] \notin Waiting
          /\ pc' = [pc EXCEPT ![f] = "flushWrite"]
          /\ at' = [at EXCEPT ![f] = b]
          /\ UNCHANGED waiting
      BY <1>6, <2>2, IInv DEF FlushLook, TakeOrWait, IInv, Waiting
    <3> QED BY <1>6, <3>1, SameWaiters, CountedWanted, IInv
            DEF IInv, TypeOK, SameAt, Waiting, Threads
  <2>3. WantedHere'
    BY <1>6, IInv, CacheAssumption
    DEF FlushLook, TakeOrWait, IInv, TypeOK, Placed, OneOwner, OwnerKnows, WaitersKeepSector, WantedHere, Owns, Owning, Waiting, Loading, Threads
  <2> QED BY <2>1, <2>2, <2>3, CountedWanted
<1>7. ASSUME NEW r \in ReadAheads, NEW s \in Sectors, NEW b \in Buffers, Prefetch(r, s, b)
      PROVE  WaitersKeepSector'
  <2>1. Counted'
    <3>1. UNCHANGED waiting /\ \A x \in Threads : SameAt(x)
      BY <1>7, IInv DEF Prefetch, Load, Matches, IInv, TypeOK, Placed, SameAt, Owning, Waiting, Loading, Threads
    <3> QED BY <3>1, SameWaiters, CountedWanted, IInv DEF IInv
  <2>2. ~inUse[b] /\ \A x \in Threads : pc[x] \in Waiting \cup Owning => at[x] # b
    BY <1>7, VictimUnused, NoneWaits, IInv DEF Prefetch, IInv, OneOwner, Owns, Placed
  <2>3. WantedHere'
    BY <1>7, <2>2, IInv, CacheAssumption
    DEF Prefetch, Load, Matches, IInv, TypeOK, Placed, OwnerKnows, WaitersKeepSector, WantedHere, Owning, Waiting, Loading, Threads
  <2> QED BY <2>1, <2>3, CountedWanted
<1>8. ASSUME NEW t \in Threads, RetryBuffer(t)
      PROVE  WaitersKeepSector'
  <2>1. pc[t] = "retryBuf" /\ at[t] \in Buffers /\ UNCHANGED at
    BY <1>8, IInv DEF RetryBuffer, IInv, Placed, Waiting
  <2>2. ASSUME inUse[at[t]] PROVE Counted'
    <3>1. UNCHANGED waiting /\ \A x \in Threads : SameAt(x)
      BY <1>8, <2>1, <2>2, IInv DEF RetryBuffer, IInv, TypeOK, SameAt, Waiting
    <3> QED BY <3>1, SameWaiters, CountedWanted, IInv DEF IInv
  <2>3. ASSUME ~inUse[at[t]] PROVE Counted'
    <3>1. /\ pc'[t] \notin Waiting
          /\ \A x \in Threads : x # t => SameAt(x)
          /\ waiting' = [waiting EXCEPT ![at[t]] = @ - 1]
      BY <1>8, <2>1, <2>3, IInv DEF RetryBuffer, IInv, TypeOK, SameAt, Waiting
    <3> QED BY <2>1, <3>1, OneLessWaiter, CountedWanted, IInv DEF IInv, Waiting
  <2>4. WantedHere'
    BY <1>8, <2>1, IInv, CacheAssumption
    DEF RetryBuffer, IInv, TypeOK, Placed, OneOwner, OwnerKnows, WaitersKeepSector, WantedHere, Owns, Owning, Waiting, Loading, Threads
  <2> QED BY <2>2, <2>3, <2>4, CountedWanted
<1>9. ASSUME NEW t \in Threads, RetryEvicting(t)
      PROVE  WaitersKeepSector'
  <2>1. Counted'
    <3>1. UNCHANGED waiting /\ \A x \in Threads : SameAt(x)
      BY <1>9, IInv DEF RetryEvicting, bufVars, IInv, TypeOK, Placed, SameAt, Owning, Waiting, Loading, Threads
    <3> QED BY <3>1, SameWaiters, CountedWanted, IInv DEF IInv
  <2>2. WantedHere'
    BY <1>9, IInv, CacheAssumption
    DEF RetryEvicting, bufVars, IInv, TypeOK, Placed, OneOwner, OwnerKnows, WaitersKeepSector, WantedHere, Owns, Owning, Waiting, Loading, Threads
  <2> QED BY <2>1, <2>2, CountedWanted
<1>10. ASSUME NEW t \in Threads, EvictWrite(t)
      PROVE  WaitersKeepSector'
  <2>1. Counted'
    <3>1. UNCHANGED waiting /\ \A x \in Threads : SameAt(x)
      BY <1>10, IInv DEF EvictWrite, bufVars, IInv, TypeOK, Placed, SameAt, Owning, Waiting, Loading, Threads
    <3> QED BY <3>1, SameWaiters, CountedWanted, IInv DEF IInv
  <2>2. WantedHere'
    BY <1>10, IInv, CacheAssumption
    DEF EvictWrite, bufVars, IInv, TypeOK, Placed, OneOwner, OwnerKnows, WaitersKeepSector, WantedHere, Owns, Owning, Waiting, Loading, Threads
  <2> QED BY <2>1, <2>2, CountedWanted
<1>11. ASSUME NEW t \in Threads, EvictDone(t)
      PROVE  WaitersKeepSector'
  <2>1. Counted'
    <3>1. UNCHANGED waiting /\ \A x \in Threads : SameAt(x)
      BY <1>11, IInv DEF EvictDone, Signal, IInv, TypeOK, Placed, SameAt, Owning, Waiting, Loading, Threads
    <3> QED BY <3>1, SameWaiters, CountedWanted, IInv DEF IInv
  <2>2. WantedHere'
    BY <1>11, IInv, CacheAssumption
    DEF EvictDone, Signal, IInv, TypeOK, Placed, OneOwner, OwnerKnows, WaitersKeepSector, WantedHere, Owns, Owning, Waiting, Loading, Threads
  <2> QED BY <2>1, <2>2, CountedWanted
<1>12. ASSUME NEW t \in Threads, Read(t)
      PROVE  WaitersKeepSector'
  <2>1. Counted'
    <3>1. UNCHANGED waiting /\ \A x \in Threads : SameAt(x)
      BY <1>12, IInv DEF Read, bufVars, IInv, TypeOK, Placed, SameAt, Owning, Waiting, Loading, Threads
    <3> QED BY <3>1, SameWaiters, CountedWanted, IInv DEF IInv
  <2>2. WantedHere'
    BY <1>12, IInv, CacheAssumption
    DEF Read, bufVars, IInv, TypeOK, Placed, OneOwner, OwnerKnows, WaitersKeepSector, WantedHere, Owns, Owning, Waiting, Loading, Threads
  <2> QED BY <2>1, <2>2, CountedWanted
<1>13. ASSUME NEW t \in Threads, Release(t)
      PROVE  WaitersKeepSector'
  <2>1. Counted'
    <3>1. UNCHANGED waiting /\ \A x \in Threads : SameAt(x)
      BY <1>13, IInv DEF Release, Signal, DirtyAfter, IInv, TypeOK, Placed, SameAt, Owning, Waiting, Loading, Threads
    <3> QED BY <3>1, SameWaiters, CountedWanted, IInv DEF IInv
  <2>2. WantedHere'
    BY <1>13, IInv, CacheAssumption
    DEF Release, Signal, DirtyAfter, IInv, TypeOK, Placed, OneOwner, OwnerKnows, WaitersKeepSector, WantedHere, Owns, Owning, Waiting, Loading, Threads
  <2> QED BY <2>1, <2>2, CountedWanted
<1>14. ASSUME NEW t \in Threads, FlushWrite(t)
      PROVE  WaitersKeepSector'
  <2>1. Counted'
    <3>1. UNCHANGED waiting /\ \A x \in Threads : SameAt(x)
      BY <1>14, IInv DEF FlushWrite, bufVars, IInv, TypeOK, Placed, SameAt, Owning, Waiting, Loading, Threads
    <3> QED BY <3>1, SameWaiters, CountedWanted, IInv DEF IInv
  <2>2. WantedHere'
    BY <1>14, IInv, CacheAssumption
    DEF FlushWrite, bufVars, IInv, TypeOK, Placed, OneOwner, OwnerKnows, WaitersKeepSector, WantedHere, Owns, Owning, Waiting, Loading, Threads
  <2> QED BY <2>1, <2>2, CountedWanted
<1>15. ASSUME NEW t \in Threads, FlushClean(t)
      PROVE  WaitersKeepSector'
  <2>1. Counted'
    <3>1. UNCHANGED waiting /\ \A x \in Threads : SameAt(x)
      BY <1>15, IInv DEF FlushClean, IInv, TypeOK, Placed, SameAt, Owning, Waiting, Loading, Threads
    <3> QED BY <3>1, SameWaiters, CountedWanted, IInv DEF IInv
  <2>2. WantedHere'
    BY <1>15, IInv, CacheAssumption
    DEF FlushClean, IInv, TypeOK, Placed, OneOwner, OwnerKnows, WaitersKeepSector, WantedHere, Owns, Owning, Waiting, Loading, Threads
  <2> QED BY <2>1, <2>2, CountedWanted
<1> QED
  BY <1>1, <1>2, <1>3, <1>4, <1>5, <1>6, <1>7, <1>8, <1>9, <1>10, <1>11, <1>12,
     <1>13, <1>14, <1>15 DEF Next, Acquire, Step

\* A clean buffer is on the disk.
LEMMA CleanIsOnDiskStep ==
  ASSUME IInv, Next
  PROVE  CleanIsOnDisk'
<1>1. ASSUME NEW u \in Users, NEW s \in Sectors, NEW b \in Buffers, AcquireHit(u, s, b)
      PROVE  CleanIsOnDisk'
  BY <1>1, IInv, CacheAssumption
     DEF AcquireHit, AtTop, TakeOrWait, IInv, TypeOK, Placed, OneOwner, OwnerKnows,
         OneCopy, CleanIsOnDisk, Owns, Owning, Waiting, Loading, Threads
<1>2. ASSUME NEW u \in Users, NEW s \in Sectors, NEW b \in Buffers, AcquireEvicting(u, s, b)
      PROVE  CleanIsOnDisk'
  BY <1>2, IInv, CacheAssumption
     DEF AcquireEvicting, AtTop, bufVars, IInv, TypeOK, Placed, OneOwner,
         OwnerKnows, OneCopy, CleanIsOnDisk, Owns, Owning, Waiting, Loading, Threads
<1>3. ASSUME NEW u \in Users, NEW s \in Sectors, NEW b \in Buffers, AcquireMiss(u, s, b)
      PROVE  CleanIsOnDisk'
  BY <1>3, IInv, CacheAssumption, VictimUnused
     DEF AcquireMiss, AtTop, Load, Matches, IInv, TypeOK, Placed, OneOwner,
         OwnerKnows, OneCopy, CleanIsOnDisk, Owns, Owning, Waiting, Loading, Threads
<1>4. ASSUME NEW u \in Users, NEW s \in Sectors, AcquireNone(u, s)
      PROVE  CleanIsOnDisk'
  BY <1>4, IInv, CacheAssumption
     DEF AcquireNone, AtTop, bufVars, IInv, TypeOK, Placed, OneOwner, OwnerKnows,
         OneCopy, CleanIsOnDisk, Owns, Owning, Waiting, Loading, Threads
<1>5. ASSUME NEW u \in Users, NEW v \in Values, Write(u, v)
      PROVE  CleanIsOnDisk'
  BY <1>5, IInv, CacheAssumption
     DEF Write, bufVars, IInv, TypeOK, Placed, OneOwner, OwnerKnows, OneCopy,
         CleanIsOnDisk, Owns, Owning, Waiting, Loading, Threads
<1>6. ASSUME NEW f \in Flushers, NEW b \in Buffers, FlushLook(f, b)
      PROVE  CleanIsOnDisk'
  BY <1>6, IInv, CacheAssumption
     DEF FlushLook, TakeOrWait, IInv, TypeOK, Placed, OneOwner, OwnerKnows, OneCopy,
         CleanIsOnDisk, Owns, Owning, Waiting, Loading, Threads
<1>7. ASSUME NEW r \in ReadAheads, NEW s \in Sectors, NEW b \in Buffers, Prefetch(r, s, b)
      PROVE  CleanIsOnDisk'
  BY <1>7, IInv, CacheAssumption, VictimUnused
     DEF Prefetch, Load, Matches, IInv, TypeOK, Placed, OneOwner, OwnerKnows,
         OneCopy, CleanIsOnDisk, Owns, Owning, Waiting, Loading, Threads
<1>8. ASSUME NEW t \in Threads, RetryBuffer(t)
      PROVE  CleanIsOnDisk'
  BY <1>8, IInv, CacheAssumption
     DEF RetryBuffer, IInv, TypeOK, Placed, OneOwner, OwnerKnows, OneCopy,
         CleanIsOnDisk, Owns, Owning, Waiting, Loading, Threads
<1>9. ASSUME NEW t \in Threads, RetryEvicting(t)
      PROVE  CleanIsOnDisk'
  BY <1>9, IInv, CacheAssumption
     DEF RetryEvicting, bufVars, IInv, TypeOK, Placed, OneOwner, OwnerKnows,
         OneCopy, CleanIsOnDisk, Owns, Owning, Waiting, Loading, Threads
<1>10. ASSUME NEW t \in Threads, EvictWrite(t)
      PROVE  CleanIsOnDisk'
  <2> DEFINE b == at[t]
             e == evicting[b]
  <2>1. b \in Buffers /\ e \in Sectors /\ pc[t] = "evictWrite"
    BY <1>10, IInv DEF EvictWrite, IInv, Placed, OwnerKnows, Owning
  <2>2. \A c \in Buffers : c # b => sector[c] # e /\ evicting[c] # e
    BY <2>1, OtherBuffer, IInv DEF IInv
  <2>3. \A u \in Threads : u # t /\ pc[u] \in Owning => at[u] # b
    BY <2>1, IInv DEF IInv, Placed, OneOwner, Owns, Owning
  <2>4. disk'[e] = data[b] /\ \A s \in Sectors : s # e => disk'[s] = disk[s]
    BY <1>10, <2>1, IInv DEF EvictWrite, IInv, TypeOK
  <2> QED
    BY <1>10, <2>1, <2>2, <2>3, <2>4, IInv, CacheAssumption
    DEF EvictWrite, bufVars, IInv, TypeOK, Placed, OwnerKnows, CleanIsOnDisk, Owning, Waiting, Loading
<1>11. ASSUME NEW t \in Threads, EvictDone(t)
      PROVE  CleanIsOnDisk'
  BY <1>11, IInv, CacheAssumption
     DEF EvictDone, Signal, IInv, TypeOK, Placed, OneOwner, OwnerKnows, OneCopy,
         CleanIsOnDisk, Owns, Owning, Waiting, Loading, Threads
<1>12. ASSUME NEW t \in Threads, Read(t)
      PROVE  CleanIsOnDisk'
  BY <1>12, IInv, CacheAssumption
     DEF Read, bufVars, IInv, TypeOK, Placed, OneOwner, OwnerKnows, OneCopy,
         CleanIsOnDisk, Owns, Owning, Waiting, Loading, Threads
<1>13. ASSUME NEW t \in Threads, Release(t)
      PROVE  CleanIsOnDisk'
  BY <1>13, IInv, CacheAssumption
     DEF Release, Signal, DirtyAfter, IInv, TypeOK, Placed, OneOwner, OwnerKnows,
         OneCopy, CleanIsOnDisk, Owns, Owning, Waiting, Loading, Threads
<1>14. ASSUME NEW t \in Threads, FlushWrite(t)
      PROVE  CleanIsOnDisk'
  <2> DEFINE b == at[t]
             e == sector[b]
  <2>1. b \in Buffers /\ e \in Sectors /\ pc[t] = "flushWrite"
    BY <1>14, IInv DEF FlushWrite, IInv, Placed, OwnerKnows, Owning
  <2>2. \A c \in Buffers : c # b => sector[c] # e /\ evicting[c] # e
    BY <2>1, OtherBuffer, IInv DEF IInv
  <2>3. \A u \in Threads : u # t /\ pc[u] \in Owning => at[u] # b
    BY <2>1, IInv DEF IInv, Placed, OneOwner, Owns, Owning
  <2>4. disk'[e] = data[b] /\ \A s \in Sectors : s # e => disk'[s] = disk[s]
    BY <1>14, <2>1, IInv DEF FlushWrite, IInv, TypeOK
  <2> QED
    BY <1>14, <2>1, <2>2, <2>3, <2>4, IInv, CacheAssumption
    DEF FlushWrite, bufVars, IInv, TypeOK, Placed, OwnerKnows, CleanIsOnDisk, Owning, Waiting, Loading
<1>15. ASSUME NEW t \in Threads, FlushClean(t)
      PROVE  CleanIsOnDisk'
  BY <1>15, IInv, CacheAssumption
     DEF FlushClean, IInv, TypeOK, Placed, OneOwner, OwnerKnows, OneCopy,
         CleanIsOnDisk, Owns, Owning, Waiting, Loading, Threads
<1> QED
  BY <1>1, <1>2, <1>3, <1>4, <1>5, <1>6, <1>7, <1>8, <1>9, <1>10, <1>11, <1>12,
     <1>13, <1>14, <1>15 DEF Next, Acquire, Step

\* No wakeup on a buffer is lost.
LEMMA BufferWakeupStep ==
  ASSUME IInv, Next
  PROVE  BufferWakeup'
<1>1. ASSUME NEW u \in Users, NEW s \in Sectors, NEW b \in Buffers, AcquireHit(u, s, b)
      PROVE  BufferWakeup'
  <2>1. CASE inUse[b]
    BY <1>1, <2>1, AtTopEffect, IInv DEF AcquireHit, TakeOrWait, IInv, TypeOK, BufferWakeup, Threads
  <2>2. CASE ~inUse[b]
    <3>1. pc' = [pc EXCEPT ![u] = "held"] /\ inUse' = [inUse EXCEPT ![b] = TRUE]
      BY <1>1, <2>2 DEF AcquireHit, TakeOrWait
    <3> QED BY <1>1, <3>1, AtTopEffect, IInv DEF AcquireHit, IInv, TypeOK, BufferWakeup, Threads
  <2> QED BY <2>1, <2>2
<1>2. ASSUME NEW u \in Users, NEW s \in Sectors, NEW b \in Buffers, AcquireEvicting(u, s, b)
      PROVE  BufferWakeup'
  BY <1>2, IInv, CacheAssumption
     DEF AcquireEvicting, AtTop, bufVars, IInv, TypeOK, Placed, OneOwner,
         BufferWakeup, Owning, Waiting, Loading, Threads
<1>3. ASSUME NEW u \in Users, NEW s \in Sectors, NEW b \in Buffers, AcquireMiss(u, s, b)
      PROVE  BufferWakeup'
  BY <1>3, IInv, CacheAssumption, VictimUnused
     DEF AcquireMiss, AtTop, Load, Matches, IInv, TypeOK, Placed, OneOwner,
         BufferWakeup, Owning, Waiting, Loading, Threads
<1>4. ASSUME NEW u \in Users, NEW s \in Sectors, AcquireNone(u, s)
      PROVE  BufferWakeup'
  BY <1>4, IInv, CacheAssumption
     DEF AcquireNone, AtTop, bufVars, IInv, TypeOK, Placed, OneOwner, BufferWakeup,
         Owning, Waiting, Loading, Threads
<1>5. ASSUME NEW u \in Users, NEW v \in Values, Write(u, v)
      PROVE  BufferWakeup'
  BY <1>5, IInv, CacheAssumption
     DEF Write, bufVars, IInv, TypeOK, Placed, OneOwner, BufferWakeup, Owning,
         Waiting, Loading, Threads
<1>6. ASSUME NEW f \in Flushers, NEW b \in Buffers, FlushLook(f, b)
      PROVE  BufferWakeup'
  <2>1. CASE inUse[b]
    BY <1>6, <2>1, IInv DEF FlushLook, TakeOrWait, IInv, TypeOK, BufferWakeup, Threads
  <2>2. CASE ~inUse[b]
    <3>1. pc' = [pc EXCEPT ![f] = "flushWrite"] /\ inUse' = [inUse EXCEPT ![b] = TRUE]
      BY <1>6, <2>2 DEF FlushLook, TakeOrWait
    <3> QED BY <1>6, <3>1, IInv DEF FlushLook, IInv, TypeOK, BufferWakeup, Threads
  <2> QED BY <2>1, <2>2
<1>7. ASSUME NEW r \in ReadAheads, NEW s \in Sectors, NEW b \in Buffers, Prefetch(r, s, b)
      PROVE  BufferWakeup'
  BY <1>7, IInv, CacheAssumption, VictimUnused
     DEF Prefetch, Load, Matches, IInv, TypeOK, Placed, OneOwner, BufferWakeup,
         Owning, Waiting, Loading, Threads
<1>8. ASSUME NEW t \in Threads, RetryBuffer(t)
      PROVE  BufferWakeup'
  BY <1>8, IInv, CacheAssumption
     DEF RetryBuffer, IInv, TypeOK, Placed, OneOwner, BufferWakeup, Owning, Waiting,
         Loading, Threads
<1>9. ASSUME NEW t \in Threads, RetryEvicting(t)
      PROVE  BufferWakeup'
  BY <1>9, IInv, CacheAssumption
     DEF RetryEvicting, bufVars, IInv, TypeOK, Placed, OneOwner, BufferWakeup,
         Owning, Waiting, Loading, Threads
<1>10. ASSUME NEW t \in Threads, EvictWrite(t)
      PROVE  BufferWakeup'
  BY <1>10, IInv, CacheAssumption
     DEF EvictWrite, bufVars, IInv, TypeOK, Placed, OneOwner, BufferWakeup, Owning,
         Waiting, Loading, Threads
<1>11. ASSUME NEW t \in Threads, EvictDone(t)
      PROVE  BufferWakeup'
  <2> DEFINE b == at[t]
  <2>1. b \in Buffers /\ pc[t] = "evictDone"
    BY <1>11, IInv DEF EvictDone, IInv, Placed, Owning
  <2>2. /\ pc'[t] = "read"
        /\ \A x \in Threads : x # t =>
             pc'[x] = pc[x] \/ (pc[x] = "waitEvict" /\ pc'[x] = "retryEvict")
    BY <1>11, <2>1, IInv DEF EvictDone, Signal, IInv, TypeOK
  <2> QED
    BY <1>11, <2>1, <2>2, IInv DEF EvictDone, IInv, BufferWakeup
<1>12. ASSUME NEW t \in Threads, Read(t)
      PROVE  BufferWakeup'
  BY <1>12, IInv, CacheAssumption
     DEF Read, bufVars, IInv, TypeOK, Placed, OneOwner, BufferWakeup, Owning,
         Waiting, Loading, Threads
<1>13. ASSUME NEW t \in Threads, Release(t)
      PROVE  BufferWakeup'
  <2> DEFINE b == at[t]
             sleepers == {w \in Threads : pc[w] = "waitBuf" /\ at[w] = b}
  <2>1. b \in Buffers
    BY <1>13, IInv DEF Release, IInv, Placed, Owning
  <2>2. ASSUME NEW w \in Threads, pc'[w] = "waitBuf", at'[w] # b
        PROVE  inUse'[at'[w]] \/ \E x \in Threads : pc'[x] = "retryBuf" /\ at'[x] = at'[w]
    BY <1>13, <2>1, <2>2, IInv DEF Release, Signal, IInv, TypeOK, Placed, BufferWakeup, Waiting
  <2>3. ASSUME NEW w \in Threads, pc'[w] = "waitBuf", at'[w] = b
        PROVE  \E x \in Threads : pc'[x] = "retryBuf" /\ at'[x] = b
    <3>1. w \in sleepers /\ w # t
      BY <1>13, <2>1, <2>3, IInv DEF Release, Signal, IInv, TypeOK
    <3>2. Awaited(b)
      BY <2>1, <3>1, NoneWaits, IInv DEF Awaited, IInv, Waiting, TypeOK
    <3>3. PICK x \in sleepers : pc' = [[pc EXCEPT ![t] = "idle"] EXCEPT ![x] = "retryBuf"]
      BY <1>13, <3>1, <3>2 DEF Release, Signal
    <3> QED BY <1>13, <3>3, IInv DEF Release, IInv, TypeOK
  <2> QED BY <2>2, <2>3 DEF BufferWakeup
<1>14. ASSUME NEW t \in Threads, FlushWrite(t)
      PROVE  BufferWakeup'
  BY <1>14, IInv, CacheAssumption
     DEF FlushWrite, bufVars, IInv, TypeOK, Placed, OneOwner, BufferWakeup, Owning,
         Waiting, Loading, Threads
<1>15. ASSUME NEW t \in Threads, FlushClean(t)
      PROVE  BufferWakeup'
  BY <1>15, IInv, CacheAssumption
     DEF FlushClean, IInv, TypeOK, Placed, OneOwner, BufferWakeup, Owning, Waiting,
         Loading, Threads
<1> QED
  BY <1>1, <1>2, <1>3, <1>4, <1>5, <1>6, <1>7, <1>8, <1>9, <1>10, <1>11, <1>12,
     <1>13, <1>14, <1>15 DEF Next, Acquire, Step

-----------------------------------------------------------------------------
(* The invariant, and the properties that follow from it. *)

\* The invariant holds after buffers_init.
LEMMA InitIInv == Init => IInv
<1> SUFFICES ASSUME Init PROVE IInv
  OBVIOUS
<1>1. \A t \in Threads : pc[t] = "idle"
  BY DEF Init
<1>2. \A b \in Buffers : /\ sector[b] = NoSector /\ evicting[b] = NoSector
                         /\ ~inUse[b] /\ ~dirty[b] /\ waiting[b] = 0
  BY DEF Init
<1>3. TypeOK
  BY DEF Init, TypeOK, Locs
<1>4. Placed /\ OneOwner /\ BufferWakeup /\ CleanIsOnDisk
  BY <1>1, <1>2 DEF Placed, OneOwner, Owns, BufferWakeup, CleanIsOnDisk, Owning, Waiting, Loading
<1>5. OwnerKnows /\ OneCopy
  BY <1>1, <1>2 DEF OwnerKnows, OneCopy, Owning, Waiting
<1>6. \A b \in Buffers : WaitsFor(b) = {}
  BY <1>1 DEF WaitsFor, Waiting
<1>7. WaitersKeepSector
  BY <1>1, <1>2, <1>6, FS_EmptySet DEF WaitersKeepSector, Waiting, Loading, Threads
<1> QED BY <1>3, <1>4, <1>5, <1>7 DEF IInv

\* The invariant depends on the variables of the cache only.
LEMMA StutterIInv ==
  ASSUME IInv, UNCHANGED vars
  PROVE  IInv'
<1> USE DEF IInv, vars, threadVars, bufVars
<1>1. TypeOK'
  BY DEF TypeOK
<1>2. Placed' /\ OneOwner' /\ BufferWakeup'
  BY DEF Placed, OneOwner, Owns, BufferWakeup
<1>3. OwnerKnows' /\ OneCopy' /\ CleanIsOnDisk'
  BY DEF OwnerKnows, OneCopy, CleanIsOnDisk
<1>4. \A b \in Buffers : WaitsFor(b)' = WaitsFor(b)
  BY DEF WaitsFor
<1>5. WaitersKeepSector'
  BY <1>4 DEF WaitersKeepSector
<1> QED BY <1>1, <1>2, <1>3, <1>5

\* IInv is an invariant of the cache.
THEOREM Invariance == Spec => []IInv
<1>1. IInv /\ [Next]_vars => IInv'
  <2>1. ASSUME IInv, Next PROVE IInv'
    BY <2>1, TypeOKStep, PlacedStep, OneOwnerStep, OwnerKnowsStep, OneCopyStep,
       WaitersKeepSectorStep, CleanIsOnDiskStep, BufferWakeupStep DEF IInv
  <2> QED BY <2>1, StutterIInv
<1> QED BY InitIInv, <1>1, PTL DEF Spec

\* Type correctness of the buffer cache; the list of buffers keeps every buffer
\* exactly once.
THEOREM TypeCorrect == Spec => []TypeOK
<1>1. IInv => TypeOK
  BY DEF IInv
<1> QED BY Invariance, <1>1, PTL

\* A buffer that is in use has exactly one owner (buffer_acquire: "no other
\* process can acquire it until buffer_release is called").
THEOREM Ownership == Spec => []OneOwner
<1>1. IInv => OneOwner
  BY DEF IInv
<1> QED BY Invariance, <1>1, PTL

\* A sector is never in two buffers, cached in one and being evicted from
\* another included.
THEOREM SingleCopy == Spec => []OneCopy
<1>1. IInv => OneCopy
  BY DEF IInv
<1> QED BY Invariance, <1>1, PTL

\* The count of waiters is right and keeps the sector in the buffer for them.
THEOREM WaitersSafe == Spec => []WaitersKeepSector
<1>1. IInv => WaitersKeepSector
  BY DEF IInv
<1> QED BY Invariance, <1>1, PTL

\* A buffer that is not dirty can be reused without losing what was written.
THEOREM CleanSafe == Spec => []CleanIsOnDisk
<1>1. IInv => CleanIsOnDisk
  BY DEF IInv
<1> QED BY Invariance, <1>1, PTL

\* Nobody sleeps for a buffer that is free and that nobody else is about to take.
THEOREM WakeupSafe == Spec => []BufferWakeup
<1>1. IInv => BufferWakeup
  BY DEF IInv
<1> QED BY Invariance, <1>1, PTL
=============================================================================
