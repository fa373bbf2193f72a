---------------------- MODULE BufferCacheStore_proofs ----------------------
(***************************************************************************)
(* The buffer cache implements the sector store: the proof that every step *)
(* of BufferCache is a step of SectorStore or leaves it unchanged.         *)
(***************************************************************************)
EXTENDS BufferCache_proofs

\* Contents and Holder without CHOOSE.
ContentsAre ==
  \A s \in Sectors :
    /\ \A b \in Buffers : HasCopy(b, s) => Contents[s] = data[b]
    /\ (\A b \in Buffers : ~HasCopy(b, s)) => Contents[s] = disk[s]

HolderIs ==
  \A s \in Sectors :
    /\ \A u \in Users : Holds(u, s) => Holder[s] = u
    /\ (\A u \in Users : ~Holds(u, s)) => Holder[s] = NULL

\* A sector has at most one copy in the cache and at most one holder.
CopyUnique == \A s \in Sectors, b, c \in Buffers : HasCopy(b, s) /\ HasCopy(c, s) => b = c
HolderUnique == \A s \in Sectors, u, v \in Users : Holds(u, s) /\ Holds(v, s) => u = v

\* They follow from one copy of a sector and one owner of a buffer.
LEMMA Unique == IInv => CopyUnique /\ HolderUnique
<1> SUFFICES ASSUME IInv PROVE CopyUnique /\ HolderUnique
  OBVIOUS
<1>1. CopyUnique
  BY OtherBuffer DEF IInv, CopyUnique, HasCopy
<1>2. ASSUME NEW s \in Sectors, NEW u \in Users, NEW v \in Users, Holds(u, s), Holds(v, s)
      PROVE  u = v
  <2>1. at[u] \in Buffers /\ at[v] \in Buffers
    BY <1>2 DEF IInv, Placed, Holds, Owning, Threads
  <2>2. at[u] = at[v]
    BY <1>2, <2>1, OtherBuffer DEF IInv, Holds
  <2> QED BY <1>2, <2>1, <2>2 DEF IInv, OneOwner, Owns, Owning, Holds, Threads
<1> QED BY <1>1, <1>2 DEF HolderUnique

\* CHOOSE then has nothing to choose from.
LEMMA Characterised == CopyUnique /\ HolderUnique => ContentsAre /\ HolderIs
<1>1. ASSUME CopyUnique, NEW s \in Sectors, NEW b \in Buffers, HasCopy(b, s)
      PROVE  Contents[s] = data[b]
  <2>1. (CHOOSE c \in Buffers : HasCopy(c, s)) = b
    BY <1>1 DEF CopyUnique
  <2> QED BY <1>1, <2>1 DEF Contents
<1>2. ASSUME NEW s \in Sectors, \A b \in Buffers : ~HasCopy(b, s)
      PROVE  Contents[s] = disk[s]
  BY <1>2 DEF Contents
<1>3. ASSUME HolderUnique, NEW s \in Sectors, NEW u \in Users, Holds(u, s)
      PROVE  Holder[s] = u
  <2>1. (CHOOSE v \in Users : Holds(v, s)) = u
    BY <1>3 DEF HolderUnique
  <2> QED BY <1>3, <2>1 DEF Holder
<1>4. ASSUME NEW s \in Sectors, \A u \in Users : ~Holds(u, s)
      PROVE  Holder[s] = NULL
  BY <1>4 DEF Holder
<1> QED BY <1>1, <1>2, <1>3, <1>4 DEF ContentsAre, HolderIs

\* So the invariant of the cache characterises both.
LEMMA ViewsNow ==
  IInv => CopyUnique /\ HolderUnique /\ ContentsAre /\ HolderIs
BY Unique, Characterised

\* The same in the next state.
LEMMA ViewsNext ==
  IInv' => CopyUnique' /\ HolderUnique' /\ ContentsAre' /\ HolderIs'
BY ViewsNow, PTL

\* What a step does to the holders, from what it does to each thread.
LEMMA SameHolder ==
  ASSUME \A u \in Users, s \in Sectors : Holds(u, s)' <=> Holds(u, s), HolderIs, HolderIs'
  PROVE  UNCHANGED Holder
<1>1. ASSUME NEW s \in Sectors PROVE Holder'[s] = Holder[s]
  BY DEF HolderIs
<1> QED BY <1>1 DEF Holder

\* ... if u takes the free sector s,
LEMMA NewHolder ==
  ASSUME HolderIs, HolderIs', NEW u \in Users, NEW s \in Sectors,
         \A x \in Users : ~Holds(x, s), Holds(u, s)',
         \A x \in Users, r \in Sectors : r # s => (Holds(x, r)' <=> Holds(x, r))
  PROVE  Holder[s] = NULL /\ Holder' = [Holder EXCEPT ![s] = u]
<1>1. Holder[s] = NULL /\ Holder'[s] = u
  BY DEF HolderIs
<1>2. ASSUME NEW r \in Sectors, r # s PROVE Holder'[r] = Holder[r]
  BY <1>2 DEF HolderIs
<1> QED BY <1>1, <1>2 DEF Holder

\* ... and if u gives s back.
LEMMA NoHolder ==
  ASSUME HolderIs, HolderIs', NEW u \in Users, NEW s \in Sectors,
         Holds(u, s), \A x \in Users : ~Holds(x, s)',
         \A x \in Users, r \in Sectors : r # s => (Holds(x, r)' <=> Holds(x, r))
  PROVE  Holder[s] = u /\ Holder' = [Holder EXCEPT ![s] = NULL]
<1>1. Holder[s] = u /\ Holder'[s] = NULL
  BY DEF HolderIs
<1>2. ASSUME NEW r \in Sectors, r # s PROVE Holder'[r] = Holder[r]
  BY <1>2 DEF HolderIs
<1> QED BY <1>1, <1>2 DEF Holder

\* A step that moves no copy and writes to no sector without one changes nothing.
LEMMA SameCopies ==
  ASSUME ContentsAre, ContentsAre', UNCHANGED data,
         \A b \in Buffers, s \in Sectors : HasCopy(b, s)' <=> HasCopy(b, s),
         \A s \in Sectors :
           (\A b \in Buffers : ~HasCopy(b, s)) => disk'[s] = disk[s]
  PROVE  UNCHANGED Contents
<1>1. ASSUME NEW s \in Sectors PROVE Contents'[s] = Contents[s]
  BY DEF ContentsAre
<1> QED BY <1>1 DEF Contents

-----------------------------------------------------------------------------
(* Every step of the cache is a step of the store or none. *)

\* Acquire, Write and Release are the steps of an owner that takes, changes and
\* releases its buffer; all other actions leave the store as it is.
LEMMA StepRefines ==
  ASSUME IInv, IInv', Next
  PROVE  Store!Next \/ UNCHANGED Store!vars
<1>1. ASSUME NEW u \in Users, NEW s \in Sectors, NEW b \in Buffers, AcquireHit(u, s, b)
      PROVE  Store!Next \/ UNCHANGED Store!vars
  <2>1. \A c \in Buffers, r \in Sectors : HasCopy(c, r)' <=> HasCopy(c, r)
    BY SMTT(30), <1>1, AtTopEffect
       DEF AcquireHit, TakeOrWait, HasCopy, Loads, Loading, IInv, TypeOK, Placed,
           Threads
  <2>2. UNCHANGED Contents
    BY <1>1, <2>1, ViewsNow, ViewsNext, SameCopies DEF AcquireHit
  <2>3. CASE inUse[b]
    <3>1. \A x \in Users, r \in Sectors : Holds(x, r)' <=> Holds(x, r)
      BY <1>1, <2>3, AtTopEffect
         DEF AcquireHit, TakeOrWait, Holds, IInv, TypeOK, Threads
    <3>2. UNCHANGED Holder
      BY <3>1, ViewsNow, ViewsNext, SameHolder
    <3> QED BY <2>2, <3>2 DEF Store!vars
  <2>4. CASE ~inUse[b]
    <3>1. /\ pc' = [pc EXCEPT ![u] = "held"] /\ at' = [at EXCEPT ![u] = b]
          /\ pc[u] \notin {"held", "wrote"} /\ UNCHANGED sector
      BY <1>1, <2>4, AtTopEffect DEF AcquireHit, TakeOrWait, IInv
    <3>2. \A x \in Users : ~Holds(x, s)
      BY <1>1, <2>4, OtherBuffer
         DEF AcquireHit, Holds, IInv, Placed, OneOwner, Owns, Owning, Threads
    <3>3. Holds(u, s)' /\ \A x \in Users, r \in Sectors : r # s => (Holds(x, r)' <=> Holds(x, r))
      BY <1>1, <3>1 DEF AcquireHit, Holds, IInv, TypeOK, Threads
    <3>4. Holder[s] = NULL /\ Holder' = [Holder EXCEPT ![s] = u]
      BY <3>2, <3>3, ViewsNow, ViewsNext, NewHolder
    <3> QED BY <2>2, <3>4 DEF Store!Next, Store!Acquire
  <2> QED BY <2>3, <2>4
<1>2. ASSUME NEW u \in Users, NEW s \in Sectors, NEW b \in Buffers, AcquireEvicting(u, s, b)
      PROVE  Store!Next \/ UNCHANGED Store!vars
  <2>1. \A c \in Buffers, r \in Sectors : HasCopy(c, r)' <=> HasCopy(c, r)
    BY <1>2, IInv, CacheAssumption
    DEF AcquireEvicting, AtTop, bufVars, HasCopy, Loads, Loading, IInv, TypeOK,
        Placed, Threads
  <2>2. UNCHANGED Contents
    BY <1>2, <2>1, ViewsNow, ViewsNext, SameCopies DEF AcquireEvicting, bufVars
  <2>3. \A x \in Users, r \in Sectors : Holds(x, r)' <=> Holds(x, r)
    BY <1>2, IInv, CacheAssumption
    DEF AcquireEvicting, AtTop, bufVars, Holds, IInv, TypeOK, Placed, Threads,
        OneOwner, Owns, Owning, OwnerKnows
  <2>4. UNCHANGED Holder
    BY <2>3, ViewsNow, ViewsNext, SameHolder
  <2> QED BY <2>2, <2>4 DEF Store!vars
<1>3. ASSUME NEW u \in Users, NEW s \in Sectors, NEW b \in Buffers, AcquireMiss(u, s, b)
      PROVE  Store!Next \/ UNCHANGED Store!vars
  <2> DEFINE old == sector[b]
  <2>1. /\ ~inUse[b] /\ evicting[b] = NoSector
        /\ \A x \in Threads : pc[x] \in Owning => at[x] # b
    BY <1>3, VictimUnused
       DEF AcquireMiss, IInv, TypeOK, Placed, OneOwner, Owns, OwnerKnows, Owning
  <2>2. /\ pc' = [pc EXCEPT ![u] = IF dirty[b] THEN "evictWrite" ELSE "read"]
        /\ at' = [at EXCEPT ![u] = b]
        /\ sector' = [sector EXCEPT ![b] = s]
        /\ evicting' = [evicting EXCEPT ![b] = IF dirty[b] THEN old ELSE @]
        /\ UNCHANGED <<data, disk>>
    BY <1>3 DEF AcquireMiss, Load
  <2>3. \A c \in Buffers : s # sector[c] /\ s # evicting[c]
    BY <1>3 DEF AcquireMiss, Matches
  <2>4. \A c \in Buffers, r \in Sectors : c # b => (HasCopy(c, r)' <=> HasCopy(c, r))
    BY <2>1, <2>2, <1>3, AtTopEffect
       DEF AcquireMiss, HasCopy, Loads, Loading, IInv, TypeOK, Placed, Threads,
           Owning
  <2>5. \A r \in Sectors : HasCopy(b, r) <=> r = old
    BY <2>1, CacheAssumption DEF HasCopy, Loads, Loading, Owning
  <2>6. \A r \in Sectors : HasCopy(b, r)' <=> r = old /\ dirty[b]
    BY <2>1, <2>2, <2>3, CacheAssumption
       DEF HasCopy, Loads, Loading, IInv, TypeOK, Placed, Threads
  <2>7. ~dirty[b] /\ old \in Sectors => data[b] = disk[old]
    BY <2>1, CacheAssumption DEF IInv, CleanIsOnDisk, Owning, Loading, TypeOK
  <2>8. ASSUME NEW r \in Sectors PROVE Contents'[r] = Contents[r]
    BY <2>2, <2>4, <2>5, <2>6, <2>7, ViewsNow, ViewsNext DEF ContentsAre, CopyUnique
  <2>9. UNCHANGED Contents
    BY <2>8 DEF Contents
  <2>10. \A x \in Users, r \in Sectors : Holds(x, r)' <=> Holds(x, r)
    BY <2>1, <2>2, <1>3, AtTopEffect
       DEF AcquireMiss, Holds, IInv, TypeOK, Threads, Owning
  <2>11. UNCHANGED Holder
    BY <2>10, ViewsNow, ViewsNext, SameHolder
  <2> QED BY <2>9, <2>11 DEF Store!vars
<1>4. ASSUME NEW u \in Users, NEW s \in Sectors, AcquireNone(u, s)
      PROVE  Store!Next \/ UNCHANGED Store!vars
  <2>1. \A c \in Buffers, r \in Sectors : HasCopy(c, r)' <=> HasCopy(c, r)
    BY <1>4, IInv, CacheAssumption
    DEF AcquireNone, AtTop, bufVars, HasCopy, Loads, Loading, IInv, TypeOK, Placed,
        Threads
  <2>2. UNCHANGED Contents
    BY <1>4, <2>1, ViewsNow, ViewsNext, SameCopies DEF AcquireNone, bufVars
  <2>3. \A x \in Users, r \in Sectors : Holds(x, r)' <=> Holds(x, r)
    BY <1>4, IInv, CacheAssumption
    DEF AcquireNone, AtTop, bufVars, Holds, IInv, TypeOK, Placed, Threads,
        OneOwner, Owns, Owning, OwnerKnows
  <2>4. UNCHANGED Holder
    BY <2>3, ViewsNow, ViewsNext, SameHolder
  <2> QED BY <2>2, <2>4 DEF Store!vars
<1>5. ASSUME NEW u \in Users, NEW v \in Values, Write(u, v)
      PROVE  Store!Next \/ UNCHANGED Store!vars
  <2>0. PICK b \in Buffers, s \in Sectors : b = at[u] /\ s = sector[b]
    BY <1>5 DEF Write, IInv, Placed, OwnerKnows, Owning, Threads
  <2>1. /\ b \in Buffers /\ s \in Sectors /\ pc[u] \in {"held", "wrote"}
        /\ \A x \in Threads : x # u /\ pc[x] \in Owning => at[x] # b
    BY <1>5, <2>0
       DEF Write, IInv, Placed, OneOwner, Owns, OwnerKnows, Owning, Threads
  <2>2. /\ pc' = [pc EXCEPT ![u] = "wrote"]
        /\ data' = [data EXCEPT ![b] = v]
        /\ UNCHANGED <<at, sector, evicting, disk>>
    BY <1>5, <2>0 DEF Write, bufVars
  <2>3. \A c \in Buffers, r \in Sectors : HasCopy(c, r)' <=> HasCopy(c, r)
    BY <2>0, <2>1, <2>2 DEF HasCopy, Loads, Loading, IInv, TypeOK, Placed, Threads
  <2>4. HasCopy(b, s) /\ \A r \in Sectors : r # s => ~HasCopy(b, r)
    BY SMTT(30), <2>0, <2>1, CacheAssumption
       DEF HasCopy, Loads, Loading, Owning, IInv, OwnerKnows, TypeOK
  <2>5. ASSUME NEW r \in Sectors
        PROVE  Contents'[r] = IF r = s THEN v ELSE Contents[r]
    BY SMTT(30), <2>0, <2>1, <2>2, <2>3, <2>4, ViewsNow, ViewsNext
       DEF ContentsAre, IInv, TypeOK
  <2>6. Contents' = [Contents EXCEPT ![s] = v]
    BY <2>5 DEF Contents
  <2>7. \A x \in Users, r \in Sectors : Holds(x, r)' <=> Holds(x, r)
    BY <2>0, <2>1, <2>2 DEF Holds, IInv, TypeOK, Threads
  <2>8. UNCHANGED Holder
    BY <2>7, ViewsNow, ViewsNext, SameHolder
  <2>9. Holder[s] = u
    BY <2>0, <2>1, ViewsNow, ViewsNext DEF HolderIs, Holds
  <2> QED BY <2>0, <2>1, <2>6, <2>8, <2>9 DEF Store!Next, Store!Write
<1>6. ASSUME NEW f \in Flushers, NEW b \in Buffers, FlushLook(f, b)
      PROVE  Store!Next \/ UNCHANGED Store!vars
  <2>1. \A c \in Buffers, r \in Sectors : HasCopy(c, r)' <=> HasCopy(c, r)
    BY <1>6, IInv, CacheAssumption
    DEF FlushLook, TakeOrWait, HasCopy, Loads, Loading, IInv, TypeOK, Placed,
        Threads
  <2>2. UNCHANGED Contents
    BY <1>6, <2>1, ViewsNow, ViewsNext, SameCopies DEF FlushLook, bufVars
  <2>3. \A x \in Users, r \in Sectors : Holds(x, r)' <=> Holds(x, r)
    BY SMTT(30), <1>6, IInv, CacheAssumption
    DEF FlushLook, TakeOrWait, Holds, IInv, TypeOK, Placed, Threads, OneOwner,
        Owns, Owning, OwnerKnows
  <2>4. UNCHANGED Holder
    BY <2>3, ViewsNow, ViewsNext, SameHolder
  <2> QED BY <2>2, <2>4 DEF Store!vars
<1>7. ASSUME NEW a \in ReadAheads, NEW s \in Sectors, NEW b \in Buffers, Prefetch(a, s, b)
      PROVE  Store!Next \/ UNCHANGED Store!vars
  <2> DEFINE old == sector[b]
  <2>1. /\ ~inUse[b] /\ evicting[b] = NoSector
        /\ \A x \in Threads : pc[x] \in Owning => at[x] # b
    BY <1>7, VictimUnused
       DEF Prefetch, IInv, TypeOK, Placed, OneOwner, Owns, OwnerKnows, Owning
  <2>2. /\ pc' = [pc EXCEPT ![a] = IF dirty[b] THEN "evictWrite" ELSE "read"]
        /\ at' = [at EXCEPT ![a] = b]
        /\ sector' = [sector EXCEPT ![b] = s]
        /\ evicting' = [evicting EXCEPT ![b] = IF dirty[b] THEN old ELSE @]
        /\ UNCHANGED <<data, disk>>
    BY <1>7 DEF Prefetch, Load
  <2>3. \A c \in Buffers : s # sector[c] /\ s # evicting[c]
    BY <1>7 DEF Prefetch, Matches
  <2>4. \A c \in Buffers, r \in Sectors : c # b => (HasCopy(c, r)' <=> HasCopy(c, r))
    BY <2>1, <2>2, <1>7
       DEF Prefetch, HasCopy, Loads, Loading, IInv, TypeOK, Placed, Threads, Owning
  <2>5. \A r \in Sectors : HasCopy(b, r) <=> r = old
    BY <2>1, CacheAssumption DEF HasCopy, Loads, Loading, Owning
  <2>6. \A r \in Sectors : HasCopy(b, r)' <=> r = old /\ dirty[b]
    BY <2>1, <2>2, <2>3, CacheAssumption
       DEF HasCopy, Loads, Loading, IInv, TypeOK, Placed, Threads
  <2>7. ~dirty[b] /\ old \in Sectors => data[b] = disk[old]
    BY <2>1, CacheAssumption DEF IInv, CleanIsOnDisk, Owning, Loading, TypeOK
  <2>8. ASSUME NEW r \in Sectors PROVE Contents'[r] = Contents[r]
    BY <2>2, <2>4, <2>5, <2>6, <2>7, ViewsNow, ViewsNext DEF ContentsAre, CopyUnique
  <2>9. UNCHANGED Contents
    BY <2>8 DEF Contents
  <2>10. \A x \in Users, r \in Sectors : Holds(x, r)' <=> Holds(x, r)
    BY <2>1, <2>2, <1>7 DEF Prefetch, Holds, IInv, TypeOK, Threads, Owning
  <2>11. UNCHANGED Holder
    BY <2>10, ViewsNow, ViewsNext, SameHolder
  <2> QED BY <2>9, <2>11 DEF Store!vars
<1>8. ASSUME NEW t \in Threads, RetryBuffer(t)
      PROVE  Store!Next \/ UNCHANGED Store!vars
  <2>1. pc[t] = "retryBuf" /\ at[t] \in Buffers /\ sector[at[t]] \in Sectors
    BY <1>8 DEF RetryBuffer, IInv, Placed, OwnerKnows, Waiting
  <2>2. \A c \in Buffers, r \in Sectors : HasCopy(c, r)' <=> HasCopy(c, r)
    BY <1>8, <2>1
       DEF RetryBuffer, HasCopy, Loads, Loading, IInv, TypeOK, Placed, Threads
  <2>3. UNCHANGED Contents
    BY <1>8, <2>2, ViewsNow, ViewsNext, SameCopies DEF RetryBuffer
  <2>4. CASE inUse[at[t]] \/ t \notin Users
    <3>1. \A x \in Users, r \in Sectors : Holds(x, r)' <=> Holds(x, r)
      BY <1>8, <2>4 DEF RetryBuffer, Holds, IInv, TypeOK, Threads
    <3>2. UNCHANGED Holder
      BY <3>1, ViewsNow, ViewsNext, SameHolder
    <3> QED BY <2>3, <3>2 DEF Store!vars
  <2>5. CASE ~inUse[at[t]] /\ t \in Users
    <3>0. PICK s \in Sectors : s = sector[at[t]]
      BY <2>1
    <3>1. pc' = [pc EXCEPT ![t] = "held"] /\ UNCHANGED <<at, sector>>
      BY <1>8, <2>5 DEF RetryBuffer
    <3>2. \A x \in Users : ~Holds(x, s)
      BY <2>1, <2>5, <3>0, OtherBuffer
         DEF Holds, IInv, Placed, OneOwner, Owns, Owning, Threads
    <3>3. Holds(t, s)' /\ \A x \in Users, r \in Sectors : r # s => (Holds(x, r)' <=> Holds(x, r))
      BY <2>1, <3>0, <3>1 DEF Holds, IInv, TypeOK, Threads
    <3>4. Holder[s] = NULL /\ Holder' = [Holder EXCEPT ![s] = t]
      BY <2>5, <3>2, <3>3, ViewsNow, ViewsNext, NewHolder
    <3> QED BY <2>1, <2>3, <2>5, <3>0, <3>4 DEF Store!Next, Store!Acquire
  <2> QED BY <2>4, <2>5
<1>9. ASSUME NEW t \in Threads, RetryEvicting(t)
      PROVE  Store!Next \/ UNCHANGED Store!vars
  <2>1. \A c \in Buffers, r \in Sectors : HasCopy(c, r)' <=> HasCopy(c, r)
    BY <1>9, IInv, CacheAssumption
    DEF RetryEvicting, bufVars, HasCopy, Loads, Loading, IInv, TypeOK, Placed,
        Threads
  <2>2. UNCHANGED Contents
    BY <1>9, <2>1, ViewsNow, ViewsNext, SameCopies DEF RetryEvicting, bufVars
  <2>3. \A x \in Users, r \in Sectors : Holds(x, r)' <=> Holds(x, r)
    BY <1>9, IInv, CacheAssumption
    DEF RetryEvicting, bufVars, Holds, IInv, TypeOK, Placed, Threads, OneOwner,
        Owns, Owning, OwnerKnows
  <2>4. UNCHANGED Holder
    BY <2>3, ViewsNow, ViewsNext, SameHolder
  <2> QED BY <2>2, <2>4 DEF Store!vars
<1>10. ASSUME NEW t \in Threads, EvictWrite(t)
      PROVE  Store!Next \/ UNCHANGED Store!vars
  <2>1. \A c \in Buffers, r \in Sectors : HasCopy(c, r)' <=> HasCopy(c, r)
    BY <1>10, IInv, CacheAssumption
    DEF EvictWrite, bufVars, HasCopy, Loads, Loading, IInv, TypeOK, Placed, Threads
  <2>2. at[t] \in Buffers /\ evicting[at[t]] \in Sectors /\ pc[t] = "evictWrite"
    BY <1>10 DEF EvictWrite, IInv, Placed, OwnerKnows, Owning
  <2>3. HasCopy(at[t], evicting[at[t]])
    BY <2>2 DEF IInv, Placed, OneOwner, Owns, Owning, HasCopy, Loads, Loading
  <2>4. \A r \in Sectors : (\A c \in Buffers : ~HasCopy(c, r)) => disk'[r] = disk[r]
    BY <1>10, <2>2, <2>3 DEF EvictWrite, IInv, TypeOK
  <2>5. UNCHANGED Contents
    BY <1>10, <2>1, <2>4, ViewsNow, ViewsNext, SameCopies DEF EvictWrite, bufVars
  <2>6. \A x \in Users, r \in Sectors : Holds(x, r)' <=> Holds(x, r)
    BY <1>10, IInv, CacheAssumption
    DEF EvictWrite, bufVars, Holds, IInv, TypeOK, Placed, Threads, OneOwner, Owns,
        Owning, OwnerKnows
  <2>7. UNCHANGED Holder
    BY <2>6, ViewsNow, ViewsNext, SameHolder
  <2> QED BY <2>5, <2>7 DEF Store!vars
<1>11. ASSUME NEW t \in Threads, EvictDone(t)
      PROVE  Store!Next \/ UNCHANGED Store!vars
  <2>0. PICK b \in Buffers, e \in Sectors : b = at[t] /\ e = evicting[at[t]]
    BY <1>11, CacheAssumption DEF EvictDone, IInv, Placed, OwnerKnows, Owning
  <2>1. /\ b \in Buffers /\ e \in Sectors /\ sector[b] \in Sectors /\ e # sector[b]
        /\ pc[t] = "evictDone" /\ disk[e] = data[b]
    BY <1>11, <2>0, CacheAssumption DEF EvictDone, IInv, Placed, OwnerKnows, Owning
  <2>2. /\ pc'[t] = "read"
        /\ \A x \in Threads : x # t =>
             pc'[x] = pc[x] \/ (pc[x] = "waitEvict" /\ pc'[x] = "retryEvict")
        /\ evicting' = [evicting EXCEPT ![b] = NoSector]
        /\ UNCHANGED <<at, sector, data, disk>>
    BY <1>11, <2>0, <2>1 DEF EvictDone, Signal, IInv, TypeOK
  <2>3. \A c \in Buffers, r \in Sectors : c # b \/ r # e => (HasCopy(c, r)' <=> HasCopy(c, r))
    BY <2>0, <2>1, <2>2, CacheAssumption
       DEF HasCopy, Loads, Loading, IInv, TypeOK, Placed, Threads
  <2>4. HasCopy(b, e) /\ ~HasCopy(b, e)'
    <3>1. evicting'[b] = NoSector /\ sector'[b] # e /\ NoSector # e
      BY <2>1, <2>2, CacheAssumption DEF IInv, TypeOK
    <3> QED BY <2>0, <3>1 DEF HasCopy
  <2>5. ASSUME NEW r \in Sectors PROVE Contents'[r] = Contents[r]
    BY <2>0, <2>1, <2>2, <2>3, <2>4, ViewsNow, ViewsNext DEF ContentsAre, CopyUnique
  <2>6. UNCHANGED Contents
    BY <2>5 DEF Contents
  <2>7. \A x \in Users, r \in Sectors : Holds(x, r)' <=> Holds(x, r)
    BY <2>0, <2>1, <2>2 DEF Holds, Threads
  <2>8. UNCHANGED Holder
    BY <2>7, ViewsNow, ViewsNext, SameHolder
  <2> QED BY <2>6, <2>8 DEF Store!vars
<1>12. ASSUME NEW t \in Threads, Read(t)
      PROVE  Store!Next \/ UNCHANGED Store!vars
  <2>0. PICK b \in Buffers, s \in Sectors : b = at[t] /\ s = sector[b]
    BY <1>12 DEF Read, IInv, Placed, OwnerKnows, Owning, Threads
  <2>1. /\ b \in Buffers /\ s \in Sectors /\ pc[t] = "read"
        /\ \A x \in Threads : x # t /\ pc[x] \in Owning => at[x] # b
    BY <1>12, <2>0 DEF Read, IInv, Placed, OneOwner, Owns, OwnerKnows, Owning
  <2>2. evicting[b] = NoSector
    BY <2>0, <2>1 DEF IInv, OwnerKnows, Owning, TypeOK
  <2>3. /\ pc' = [pc EXCEPT ![t] = IF t \in Users THEN "held" ELSE "release"]
        /\ data' = [data EXCEPT ![b] = disk[s]]
        /\ UNCHANGED <<at, sector, evicting, disk>>
    BY <1>12, <2>0 DEF Read, bufVars
  <2>4. \A c \in Buffers, r \in Sectors : c # b => (HasCopy(c, r)' <=> HasCopy(c, r))
    BY <2>0, <2>1, <2>3 DEF HasCopy, Loads, Loading, IInv, TypeOK, Placed, Threads
  <2>5. \A r \in Sectors : ~HasCopy(b, r)
    BY <2>0, <2>1, <2>2, CacheAssumption DEF HasCopy, Loads, Loading
  <2>6. \A r \in Sectors : HasCopy(b, r)' <=> r = s
    BY <2>0, <2>1, <2>2, <2>3, CacheAssumption
       DEF HasCopy, Loads, Loading, IInv, TypeOK, Placed, Threads, Owning
  <2>7. \A c \in Buffers : c # b => ~HasCopy(c, s)
    BY <2>0, <2>1, OtherBuffer DEF IInv, HasCopy
  <2>8. ASSUME NEW r \in Sectors PROVE Contents'[r] = Contents[r]
    <3>1. CASE r = s
      BY <2>1, <2>3, <2>4, <2>5, <2>6, <2>7, <3>1, ViewsNow, ViewsNext
         DEF ContentsAre, IInv, TypeOK
    <3>2. CASE r # s
      <4>1. \A c \in Buffers : HasCopy(c, r)' <=> HasCopy(c, r)
        BY <2>4, <2>5, <2>6, <3>2
      <4>2. \A c \in Buffers : HasCopy(c, r) => data'[c] = data[c]
        BY <2>3, <2>5 DEF IInv, TypeOK
      <4> QED BY <2>3, <4>1, <4>2, ViewsNow, ViewsNext DEF ContentsAre
    <3> QED BY <3>1, <3>2
  <2>9. UNCHANGED Contents
    BY <2>8 DEF Contents
  <2>10. CASE t \notin Users
    <3>1. \A x \in Users, r \in Sectors : Holds(x, r)' <=> Holds(x, r)
      BY <2>3, <2>10 DEF Holds, IInv, TypeOK, Threads
    <3>2. UNCHANGED Holder
      BY <3>1, ViewsNow, ViewsNext, SameHolder
    <3> QED BY <2>9, <3>2 DEF Store!vars
  <2>11. CASE t \in Users
    <3>1. \A x \in Users : ~Holds(x, s)
      BY <2>0, <2>1, OtherBuffer DEF Holds, IInv, Placed, Owning, Threads
    <3>2. Holds(t, s)' /\ \A x \in Users, r \in Sectors : r # s => (Holds(x, r)' <=> Holds(x, r))
      BY <2>0, <2>1, <2>3, <2>11 DEF Holds, IInv, TypeOK, Threads
    <3>3. Holder[s] = NULL /\ Holder' = [Holder EXCEPT ![s] = t]
      BY <2>0, <2>1, <2>11, <3>1, <3>2, ViewsNow, ViewsNext, NewHolder
    <3> QED BY <2>0, <2>1, <2>9, <2>11, <3>3 DEF Store!Next, Store!Acquire
  <2> QED BY <2>0, <2>10, <2>11
<1>13. ASSUME NEW t \in Threads, Release(t)
      PROVE  Store!Next \/ UNCHANGED Store!vars
  <2>0. PICK b \in Buffers, s \in Sectors : b = at[t] /\ s = sector[b]
    BY <1>13 DEF Release, IInv, Placed, OwnerKnows, Owning, Threads
  <2>1. /\ b \in Buffers /\ s \in Sectors /\ pc[t] \in {"held", "wrote", "release"}
        /\ \A x \in Threads : x # t /\ pc[x] \in Owning => at[x] # b
    BY <1>13, <2>0 DEF Release, IInv, Placed, OneOwner, Owns, OwnerKnows, Owning
  <2>2. /\ pc'[t] = "idle" /\ at' = [at EXCEPT ![t] = NULL]
        /\ \A x \in Threads : x # t =>
             \/ pc'[x] = pc[x]
             \/ pc[x] = "waitBuf" /\ pc'[x] = "retryBuf"
             \/ pc[x] = "waitFree" /\ pc'[x] = "look"
        /\ UNCHANGED <<sector, evicting, data, disk>>
    BY <1>13, <2>0, <2>1 DEF Release, Signal, IInv, TypeOK
  <2>3. \A c \in Buffers, r \in Sectors : HasCopy(c, r)' <=> HasCopy(c, r)
    BY <2>0, <2>1, <2>2, CacheAssumption
       DEF HasCopy, Loads, Loading, IInv, TypeOK, Placed, Threads
  <2>4. UNCHANGED Contents
    BY <2>2, <2>3, ViewsNow, ViewsNext, SameCopies
  <2>5. CASE t \notin Users
    <3>1. \A x \in Users, r \in Sectors : Holds(x, r)' <=> Holds(x, r)
      BY <2>2, <2>5 DEF Holds, IInv, TypeOK, Threads
    <3>2. UNCHANGED Holder
      BY <3>1, ViewsNow, ViewsNext, SameHolder
    <3> QED BY <2>4, <3>2 DEF Store!vars
  <2>6. CASE t \in Users
    <3>1. Holds(t, s)
      BY <2>0, <2>1, <2>6 DEF Holds, IInv, Placed
    <3>2. \A x \in Users : ~Holds(x, s)'
      <4>1. ASSUME NEW x \in Users, x # t PROVE ~Holds(x, s)'
        <5>1. pc[x] \in {"held", "wrote"} => at[x] \in Buffers /\ at[x] # b
          BY <2>1, <4>1 DEF IInv, Placed, Owning, Threads
        <5>2. pc[x] \in {"held", "wrote"} => sector[at[x]] # s
          BY <2>0, <5>1, OtherBuffer DEF IInv
        <5>3. pc'[x] \in {"held", "wrote"} => pc[x] \in {"held", "wrote"}
          BY <2>2, <4>1 DEF Threads
        <5>4. at'[x] = at[x] /\ sector' = sector
          BY <2>2, <4>1 DEF IInv, TypeOK, Threads
        <5> QED BY <5>2, <5>3, <5>4 DEF Holds
      <4>2. ~Holds(t, s)'
        BY <2>2 DEF Holds
      <4> QED BY <4>1, <4>2
    <3>3. \A x \in Users, r \in Sectors : r # s => (Holds(x, r)' <=> Holds(x, r))
      BY <2>0, <2>1, <2>2 DEF Holds, IInv, TypeOK, Threads
    <3>4. Holder[s] = t /\ Holder' = [Holder EXCEPT ![s] = NULL]
      BY <2>0, <2>1, <2>6, <3>1, <3>2, <3>3, ViewsNow, ViewsNext, NoHolder
    <3> QED BY <2>0, <2>1, <2>4, <2>6, <3>4 DEF Store!Next, Store!Release
  <2> QED BY <2>5, <2>6
<1>14. ASSUME NEW t \in Threads, FlushWrite(t)
      PROVE  Store!Next \/ UNCHANGED Store!vars
  <2>1. \A c \in Buffers, r \in Sectors : HasCopy(c, r)' <=> HasCopy(c, r)
    BY <1>14, IInv, CacheAssumption
    DEF FlushWrite, bufVars, HasCopy, Loads, Loading, IInv, TypeOK, Placed, Threads
  <2>2. at[t] \in Buffers /\ sector[at[t]] \in Sectors /\ pc[t] = "flushWrite"
    BY <1>14 DEF FlushWrite, IInv, Placed, OwnerKnows, Owning
  <2>3. HasCopy(at[t], sector[at[t]])
    BY <2>2 DEF IInv, Placed, OneOwner, Owns, Owning, HasCopy, Loads, Loading
  <2>4. \A r \in Sectors : (\A c \in Buffers : ~HasCopy(c, r)) => disk'[r] = disk[r]
    BY <1>14, <2>2, <2>3 DEF FlushWrite, IInv, TypeOK
  <2>5. UNCHANGED Contents
    BY <1>14, <2>1, <2>4, ViewsNow, ViewsNext, SameCopies DEF FlushWrite, bufVars
  <2>6. \A x \in Users, r \in Sectors : Holds(x, r)' <=> Holds(x, r)
    BY <1>14, IInv, CacheAssumption
    DEF FlushWrite, bufVars, Holds, IInv, TypeOK, Placed, Threads, OneOwner, Owns,
        Owning, OwnerKnows
  <2>7. UNCHANGED Holder
    BY <2>6, ViewsNow, ViewsNext, SameHolder
  <2> QED BY <2>5, <2>7 DEF Store!vars
<1>15. ASSUME NEW t \in Threads, FlushClean(t)
      PROVE  Store!Next \/ UNCHANGED Store!vars
  <2>1. \A c \in Buffers, r \in Sectors : HasCopy(c, r)' <=> HasCopy(c, r)
    BY <1>15, IInv, CacheAssumption
    DEF FlushClean, HasCopy, Loads, Loading, IInv, TypeOK, Placed, Threads
  <2>2. UNCHANGED Contents
    BY <1>15, <2>1, ViewsNow, ViewsNext, SameCopies DEF FlushClean, bufVars
  <2>3. \A x \in Users, r \in Sectors : Holds(x, r)' <=> Holds(x, r)
    BY <1>15, IInv, CacheAssumption
    DEF FlushClean, Holds, IInv, TypeOK, Placed, Threads, OneOwner, Owns, Owning,
        OwnerKnows
  <2>4. UNCHANGED Holder
    BY <2>3, ViewsNow, ViewsNext, SameHolder
  <2> QED BY <2>2, <2>4 DEF Store!vars
<1> QED
  BY <1>1, <1>2, <1>3, <1>4, <1>5, <1>6, <1>7, <1>8,
     <1>9, <1>10, <1>11, <1>12, <1>13, <1>14, <1>15 DEF Next, Acquire, Step

\* A step that changes nothing in the cache changes nothing in the store.
LEMMA StutterRefines ==
  ASSUME IInv, IInv', UNCHANGED vars
  PROVE  UNCHANGED Store!vars
<1>1. /\ \A b \in Buffers, s \in Sectors : HasCopy(b, s)' <=> HasCopy(b, s)
      /\ \A u \in Users, s \in Sectors : Holds(u, s)' <=> Holds(u, s)
  BY DEF HasCopy, Loads, Holds, vars, threadVars, bufVars
<1>2. UNCHANGED Contents
  BY <1>1, ViewsNow, ViewsNext, SameCopies DEF vars
<1>3. UNCHANGED Holder
  BY <1>1, ViewsNow, ViewsNext, SameHolder
<1> QED BY <1>2, <1>3 DEF Store!vars

\* The buffer cache implements the store: for its callers it is an array of
\* sectors, each of which one caller at a time owns (buffer_acquire,
\* buffer_release), whatever eviction, read ahead and write back do.
THEOREM Refinement == Spec => StoreSpec
<1>1. Init => Store!Init
  <2> SUFFICES ASSUME Init PROVE Store!Init
    OBVIOUS
  <2>1. \A s \in Sectors : Contents[s] = disk[s] /\ Holder[s] = NULL
    BY CacheAssumption DEF Init, Contents, Holder, HasCopy, Holds, Threads
  <2> QED BY <2>1 DEF Store!Init, Contents, Holder, Init
<1>2. IInv /\ IInv' /\ [Next]_vars => [Store!Next]_(Store!vars)
  BY StepRefines, StutterRefines
<1> QED BY <1>1, <1>2, Invariance, PTL DEF Spec, StoreSpec, Store!Spec

=============================================================================
