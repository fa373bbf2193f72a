--------------------------- MODULE FrameTable_proofs ---------------------------
(***************************************************************************)
(* The frame table neither loses nor shares a frame, counts its locks and  *)
(* swap slots right and keeps the pages of every process private, for any  *)
(* number of processes, pages, frames and slots.                           *)
(***************************************************************************)
EXTENDS FrameTable, Lists_proofs

Idle == {"run", "unpin"}
Fetching == {"read", "finish"}
Sharers == {"waitShared", "shared"}
Sending == {"write", "flip", "written"}
Evicting == Sending \cup {"unmap", "clean"}
Unloading == {"unload", "waitUnload", "release"}

\* Which locals a process uses at each place of a call.
PlaceOf(t) ==
  /\ pc[t] \in Idle => at[t] = NULL
  /\ pc[t] \notin Idle => at[t] \in mapped /\ Owner[at[t]] = t /\ at[t] \notin pins[t]
  /\ fr[t] # NULL <=> pc[t] \in Evicting \cup {"release"}
  /\ pc[t] = "flip" => slot[t] # NULL
  /\ slot[t] # NULL => pc[t] \in {"flip", "written"}
  /\ keep[t] => pc[t] \notin Idle \cup Unloading
  /\ pc[t] \in Unloading => pins[t] = {}
  /\ pc[t] \in {"unmap", "clean"} <=> frameLock = t
  /\ \A p \in pins[t] : Owner[p] = t
  /\ pc[t] \in Fetching \cup Sharers => frameOf[at[t]] # NULL
  /\ pc[t] \in Evicting \cup {"release"} => frameOf[at[t]] = NULL
  /\ pc[t] \in Sharers => at[t] \in TextPages

Places == \A t \in Procs : PlaceOf(t)

\* The frame whose last page was just taken off it, for another.
Emptied == IF frameLock \in Procs /\ pc[frameLock] = "clean" THEN {fr[frameLock]} ELSE {}

\* A frame on the clock has pages, unless it was just emptied.  A frame that is
\* unloaded is not free yet, and if its page was not shared it is on no list.
FramePlaces ==
  /\ \A f \in Range(clock) \ Emptied : \E p \in Pages : frameOf[p] = f
  /\ \A t \in Procs :
       /\ pc[t] \in Evicting => fr[t] \in Range(clock)
       /\ pc[t] = "clean" => \A p \in Pages : frameOf[p] # fr[t]
       /\ pc[t] = "release" => fr[t] \notin pool
       /\ pc[t] = "release" /\ at[t] \notin TextPages => fr[t] \notin Range(clock)
  /\ roFrame # NULL =>
       /\ roFrame \in Range(clock)
       /\ \E p \in Pages : frameOf[p] = roFrame
       /\ \A p \in Pages : frameOf[p] = roFrame => p \in TextPages

\* The frame that a process fills or empties.
Hand(t) == IF pc[t] \in Fetching THEN frameOf[at[t]] ELSE fr[t]

\* One process at a time fills or empties a frame, and what it empties is not
\* present: an unwritten page of memory, or a page of a mapped file.
Handling ==
  /\ \A t, u \in Procs :
       pc[t] \in Fetching \cup Evicting /\ pc[u] \in Fetching \cup Evicting /\ Hand(t) = Hand(u) => t = u
  /\ \A t \in Procs :
       /\ pc[t] \in {"unmap", "clean"} => lockCnt[fr[t]] = 0
       /\ pc[t] \in Sending => \A p \in Pages : frameOf[p] = fr[t] => p \notin TextPages \cup present
       /\ pc[t] = "flip" => \A p \in Pages : frameOf[p] = fr[t] => p \in SwapPages
       /\ pc[t] = "written" => \A p \in Pages : frameOf[p] = fr[t] => (p \in SwapPages <=> slot[t] # NULL)
       /\ pc[t] = "unmap" /\ sawDirty[t] => \A p \in Pages : frameOf[p] = fr[t] => p \notin TextPages

\* A page in a frame is mapped, and present unless the frame is being emptied.
\* A dirty page is present, unless it is being unloaded.
Presence ==
  \A p \in Pages :
    /\ frameOf[p] # NULL => p \in mapped /\ (p \in present \/ \E t \in Procs : pc[t] \in Sending /\ fr[t] = frameOf[p])
    /\ p \in dirty => p \notin TextPages /\ (p \in present \/ (pc[Owner[p]] = "release" /\ at[Owner[p]] = p))

\* The process of page p is at one of the places locs of a call for p.
Doing(p, locs) == pc[Owner[p]] \in locs /\ at[Owner[p]] = p

\* A page is swapped out until it was read.
SlotPlaces ==
  \A p \in Pages : swapSlot[p] # NULL =>
    /\ p \in SwapPages \cap mapped
    /\ frameOf[p] # NULL => Doing(p, {"read"})
    /\ ~Doing(p, {"release"})

\* The frames with pages of a file that are being written.
Saving == {f \in Frames : \E t \in Procs : pc[t] = "write" /\ fr[t] = f}

\* What is in a frame: only what processes write, except for the block of the
\* executable; and a page of a file that is not dirty is what is in the file.
DataPlaces ==
  /\ \A p \in Pages \ TextPages : frameOf[p] # NULL => frameData[frameOf[p]] \in Values
  /\ \A p \in TextPages : frameOf[p] # NULL =>
       frameData[frameOf[p]] = Text \/ Doing(p, {"read", "waitShared"})
  /\ \A p \in MapPages : frameOf[p] \notin Saving \cup {NULL} /\ p \notin dirty /\ ~Doing(p, {"read"}) =>
       frameData[frameOf[p]] = file[p]
  /\ \A p \in MapPages : p \in dirty /\ Doing(p, {"release"}) => frameData[fr[Owner[p]]] \in Values
  /\ \A t \in Procs : pc[t] = "written" /\ slot[t] # NULL => swap[slot[t]] = frameData[fr[t]]

IInv ==
  /\ TypeOK /\ Places /\ Presence
  /\ FramesAccounted /\ FramePlaces /\ FramesSeparate
  /\ LocksCounted /\ Handling /\ PinnedStay /\ NoLostWait
  /\ SlotsAccounted /\ SlotPlaces /\ DataPlaces

-----------------------------------------------------------------------------
(* The branches of the actions, in which the kernel goes on.               *)

PinPresent(t) ==
  LET f == frameOf[at[t]]
  IN  /\ pc[t] = "load" /\ frameLock = NULL
      /\ f # NULL /\ ~io[f] /\ keep[t]
      /\ lockCnt' = [lockCnt EXCEPT ![f] = @ + 1]
      /\ Goto(t, "run")
      /\ EndCall(t)
      /\ UNCHANGED <<pageVars, pteVars, pool, clock, io, roFrame, dataVars, frameLock, fault>>

ShareWait(t) ==
  LET p == at[t]
      f == roFrame
  IN  /\ pc[t] = "load" /\ frameLock = NULL
      /\ frameOf[p] = NULL /\ p \in TextPages /\ f # NULL /\ io[f]
      /\ MapPage(p)
      /\ frameOf' = [frameOf EXCEPT ![p] = f]
      /\ Goto(t, "waitShared")
      /\ lockCnt' = [lockCnt EXCEPT ![f] = @ + 1]
      /\ UNCHANGED <<mapped, swapSlot, pool, clock, io, roFrame, dataVars, localVars, pins, frameLock, fault>>

ShareNow(t) ==
  LET p == at[t]
      f == roFrame
  IN  /\ pc[t] = "load" /\ frameLock = NULL
      /\ frameOf[p] = NULL /\ p \in TextPages /\ f # NULL /\ ~io[f]
      /\ MapPage(p)
      /\ frameOf' = [frameOf EXCEPT ![p] = f]
      /\ Goto(t, "run")
      /\ lockCnt' = [lockCnt EXCEPT ![f] = @ + KeepCount(t)]
      /\ EndCall(t)
      /\ UNCHANGED <<mapped, swapSlot, pool, clock, io, roFrame, dataVars, frameLock, fault>>

Choose(t, f) ==
  /\ NeedsFrame(t) /\ pool = {}
  /\ f \in Range(clock) /\ lockCnt[f] = 0
  /\ accessed' \subseteq accessed
  /\ clock' \in Seq(Frames) /\ Once(clock') /\ Range(clock') = Range(clock)
  /\ fr' = [fr EXCEPT ![t] = f]
  /\ sawDirty' = [sawDirty EXCEPT ![t] = \E p \in dirty : frameOf[p] = f]
  /\ frameLock' = t
  /\ Goto(t, "unmap")
  /\ UNCHANGED <<pageVars, present, dirty, pool, lockCnt, io, roFrame, dataVars, at, keep, slot, pins, fault>>

\* The threads that wait for frame f go on.
Wakes(t, f) ==
  /\ pc' \in [Procs -> Locs]
  /\ \A u \in Procs \ {t} :
       pc'[u] = IF pc[u] \in {"waitLoad", "waitShared", "waitUnload"} /\ frameOf[at[u]] = f
                THEN IF pc[u] = "waitLoad" THEN "load" ELSE IF pc[u] = "waitUnload" THEN "unload" ELSE "shared"
                ELSE pc[u]

LoadDone(t, f) ==
  /\ pc[t] = "finish" /\ frameLock = NULL
  /\ f = frameOf[at[t]]
  /\ lockCnt' = [lockCnt EXCEPT ![f] = @ - 1 + KeepCount(t)]
  /\ io' = [io EXCEPT ![f] = FALSE]
  /\ Wakes(t, f) /\ pc'[t] = "run"
  /\ EndCall(t)
  /\ UNCHANGED <<pageVars, pteVars, pool, clock, roFrame, dataVars, frameLock, fault>>

Unmapped(t) ==
  LET f == fr[t]
  IN  /\ pc[t] = "unmap"
      /\ present' = {p \in present : frameOf[p] # f}
      /\ accessed' = {p \in accessed : frameOf[p] # f}
      /\ dirty' = {p \in dirty : frameOf[p] # f}
      /\ sawDirty[t] \/ \A p \in dirty \cap MapPages : frameOf[p] # f
      /\ UNCHANGED <<mapped, swapSlot, pool, clock, dataVars, localVars, pins, fault>>

UnmapWrite(t) ==
  /\ Unmapped(t)
  /\ sawDirty[t] \/ \A p \in Pages : frameOf[p] = fr[t] => p \in SwapPages
  /\ io' = [io EXCEPT ![fr[t]] = TRUE]
  /\ lockCnt' = [lockCnt EXCEPT ![fr[t]] = @ + 1]
  /\ frameLock' = NULL
  /\ Goto(t, "write")
  /\ UNCHANGED <<frameOf, roFrame>>

UnmapClean(t) ==
  /\ Unmapped(t) /\ ~sawDirty[t]
  /\ \E p \in Pages : frameOf[p] = fr[t] /\ p \notin SwapPages
  /\ frameOf' = [p \in Pages |-> IF frameOf[p] = fr[t] THEN NULL ELSE frameOf[p]]
  /\ roFrame' = IF \A p \in Pages : frameOf[p] = fr[t] => p \in TextPages THEN NULL ELSE roFrame
  /\ Goto(t, "clean")
  /\ UNCHANGED <<io, lockCnt, frameLock>>

TakeSlot(t, s) ==
  /\ pc[t] = "write"
  /\ \A p \in Pages : frameOf[p] = fr[t] => p \in SwapPages
  /\ s \in Slots \ swapMap
  /\ slot' = [slot EXCEPT ![t] = s]
  /\ Goto(t, "flip")
  /\ UNCHANGED <<pageVars, pteVars, frameVars, dataVars, at, keep, fr, sawDirty, frameLock, pins, fault>>

FlipSlot(t) ==
  /\ pc[t] = "flip" /\ slot[t] \notin swapMap
  /\ swapMap' = swapMap \cup {slot[t]}
  /\ swap' = [swap EXCEPT ![slot[t]] = frameData[fr[t]]]
  /\ Goto(t, "written")
  /\ UNCHANGED <<pageVars, pteVars, frameVars, frameData, file, localVars, frameLock, pins, fault>>

\* A frame for page at[t] from the pool, or from an eviction.
Takes(t, f) ==
  \/ NeedsFrame(t) /\ f \in pool
  \/ pc[t] = "clean" /\ f = fr[t]
  \/ pc[t] = "written" /\ frameLock = NULL /\ f = fr[t]

\* The effect of Install.
Installed(t, f) ==
  LET p == at[t]
  IN  /\ f \in Frames /\ Takes(t, f)
      /\ pool' = pool \ {f}
      /\ clock' \in Seq(Frames) /\ Once(clock') /\ Range(clock') = Range(clock) \cup {f}
      /\ present' = present \cup {p} /\ accessed' = accessed \cup {p} /\ dirty' = dirty \ {p}
      /\ frameOf' = [q \in Pages |-> IF q = p THEN f ELSE IF frameOf[q] = f THEN NULL ELSE frameOf[q]]
      /\ swapSlot' = [q \in Pages |-> IF frameOf[q] = f /\ q \in SwapPages THEN slot[t] ELSE swapSlot[q]]
      /\ frameData' = [frameData EXCEPT ![f] = Zero]
      /\ roFrame' = IF p \in TextPages /\ roFrame = NULL THEN f ELSE roFrame
      /\ frameLock' = NULL
      /\ Wakes(t, f)
      /\ UNCHANGED <<mapped, file, swap, swapMap, fault>>

InstallLoad(t, f) ==
  /\ Installed(t, f)
  /\ at[t] \notin ZeroPages \/ swapSlot[at[t]] # NULL
  /\ io' = [io EXCEPT ![f] = TRUE]
  /\ lockCnt' = [lockCnt EXCEPT ![f] = 1]
  /\ pc'[t] = "read"
  /\ fr' = [fr EXCEPT ![t] = NULL]
  /\ slot' = [slot EXCEPT ![t] = NULL]
  /\ sawDirty' = [sawDirty EXCEPT ![t] = FALSE]
  /\ UNCHANGED <<at, keep, pins>>

InstallZero(t, f) ==
  /\ Installed(t, f)
  /\ at[t] \in ZeroPages /\ swapSlot[at[t]] = NULL
  /\ io' = [io EXCEPT ![f] = FALSE]
  /\ lockCnt' = [lockCnt EXCEPT ![f] = KeepCount(t)]
  /\ pc'[t] = "run"
  /\ EndCall(t)

ReleaseLast(t) ==
  LET p == at[t]
      f == fr[t]
  IN  /\ pc[t] = "release"
      /\ \A q \in Pages : frameOf[q] # f
      /\ f \notin Range(clock) /\ \A u \in Procs \ {t} : pc[u] = "release" => fr[u] # f
      /\ pool' = pool \cup {f}
      /\ file' = FileSaved(t)
      /\ frameData' = [frameData EXCEPT ![f] = Zero]
      /\ mapped' = mapped \ {p}
      /\ dirty' = dirty \ {p}
      /\ EndCall(t)
      /\ Goto(t, "run")
      /\ UNCHANGED <<frameOf, swapSlot, present, accessed, clock, lockCnt, io, roFrame, swap, swapMap, frameLock, fault>>

ReleaseShared(t) ==
  LET p == at[t]
  IN  /\ pc[t] = "release"
      /\ \E q \in Pages : frameOf[q] = fr[t]
      /\ mapped' = mapped \ {p}
      /\ dirty' = dirty \ {p}
      /\ EndCall(t)
      /\ Goto(t, "run")
      /\ UNCHANGED <<frameOf, swapSlot, present, accessed, frameVars, dataVars, frameLock, fault>>

GoodStep(t) ==
  \/ LoadWait(t) \/ UnloadWait(t) \/ PinPresent(t) \/ ShareWait(t) \/ ShareNow(t) \/ LoadedShared(t)
  \/ Read(t) \/ UnmapWrite(t) \/ UnmapClean(t) \/ WriteToFile(t) \/ FlipSlot(t)
  \/ \E s \in Slots : TakeSlot(t, s)
  \/ \E f \in Frames : Choose(t, f) \/ LoadDone(t, f) \/ InstallLoad(t, f) \/ InstallZero(t, f)
  \/ Detach(t) \/ ReleaseLast(t) \/ ReleaseShared(t) \/ DropPage(t)
  \/ \E p \in Pages : UserStep(t, p)

-----------------------------------------------------------------------------
(* The clock.                                                              *)

LEMMA RangeContains ==
  ASSUME NEW S, NEW s \in Seq(S), NEW x
  PROVE  /\ x \in Range(s) <=> Contains(s, x)
         /\ x \in Range(s) => x \in S
<1>1. DOMAIN s = 1..Len(s)
  OBVIOUS
<1>2. x \in Range(s) <=> Contains(s, x)
  BY <1>1 DEF Range, Contains
<1> QED BY <1>2 DEF Contains

\* The list of the frames that are in use, when the clock hand moved on.
LEMMA RotatedOnce ==
  ASSUME NEW S, NEW s \in Seq(S), Once(s), NEW n \in 0..Len(s)
  PROVE  /\ Rotated(s, n) \in Seq(S)
         /\ Once(Rotated(s, n))
         /\ Range(Rotated(s, n)) = Range(s)
<1> DEFINE a == SubSeq(s, n + 1, Len(s))
           b == SubSeq(s, 1, n)
           r == Rotated(s, n)
<1>1. a \in Seq(S) /\ Len(a) = Len(s) - n /\ \A i \in 1..Len(s) - n : a[i] = s[i + n]
  OBVIOUS
<1>2. b \in Seq(S) /\ Len(b) = n /\ \A i \in 1..n : b[i] = s[i]
  OBVIOUS
<1>3. r = a \o b
  BY DEF Rotated
<1> HIDE DEF a, b, r
<1>4. /\ r \in Seq(S) /\ Len(r) = Len(s) /\ Len(s) \in Nat /\ n \in Nat
      /\ \A i \in 1..Len(s) : r[i] = IF i <= Len(s) - n THEN s[i + n] ELSE s[i - (Len(s) - n)]
  <2>1. r \in Seq(S) /\ Len(r) = Len(a) + Len(b)
    BY <1>1, <1>2, <1>3
  <2>2. \A i \in 1..Len(a) + Len(b) : r[i] = IF i <= Len(a) THEN a[i] ELSE b[i - Len(a)]
    BY <1>1, <1>2, <1>3
  <2>3. Len(r) = Len(s) /\ Len(s) \in Nat /\ n \in Nat
    BY <1>1, <1>2, <2>1
  <2>4. ASSUME NEW i \in 1..Len(s)
        PROVE  r[i] = IF i <= Len(s) - n THEN s[i + n] ELSE s[i - (Len(s) - n)]
    <3>1. CASE i <= Len(s) - n
      BY <1>1, <1>2, <2>2, <2>3, <3>1
    <3>2. CASE ~(i <= Len(s) - n)
      BY <1>1, <1>2, <2>2, <2>3, <3>2
    <3> QED BY <3>1, <3>2
  <2> QED BY <2>1, <2>3, <2>4
<1>5. PICK m \in Nat : m = Len(s)
  BY <1>4
<1>6. \A i \in 1..m : r[i] = IF i <= m - n THEN s[i + n] ELSE s[i - (m - n)]
  BY <1>4, <1>5
<1>7. Once(r)
  <2> SUFFICES ASSUME NEW i \in 1..m, NEW j \in 1..m, r[i] = r[j]
               PROVE  i = j
    BY <1>4, <1>5 DEF Once
  <2>1. \A k, l \in 1..m : s[k] = s[l] => k = l
    BY <1>5 DEF Once
  <2> DEFINE from(k) == IF k <= m - n THEN k + n ELSE k - (m - n)
  <2>2. \A k \in 1..m : r[k] = s[from(k)] /\ from(k) \in 1..m
    BY <1>4, <1>5, <1>6
  <2>3. from(i) = from(j)
    <3> HIDE DEF from
    <3> QED BY <2>1, <2>2
  <2> QED BY <1>4, <1>5, <2>3
<1>8. ASSUME NEW x
      PROVE  Contains(r, x) <=> Contains(s, x)
  <2>1. ASSUME NEW i \in 1..m
        PROVE  \E j \in 1..m : r[j] = s[i]
    <3>1. CASE i <= n
      <4>1. i + (m - n) \in 1..m
        BY <1>4, <1>5, <3>1
      <4> DEFINE j == i + (m - n)
      <4>2. j \in 1..m /\ ~(j <= m - n) /\ j - (m - n) = i
        BY <1>4, <1>5, <4>1
      <4> HIDE DEF j
      <4> QED BY <1>6, <4>2
    <3>2. CASE ~(i <= n)
      <4> DEFINE j == i - n
      <4>1. j \in 1..m /\ j <= m - n /\ j + n = i
        BY <1>4, <1>5, <3>2
      <4> HIDE DEF j
      <4> QED BY <1>6, <4>1
    <3> QED BY <3>1, <3>2
  <2>2. ASSUME NEW i \in 1..m
        PROVE  \E j \in 1..m : s[j] = r[i]
    <3>1. CASE i <= m - n
      <4>1. i + n \in 1..m /\ r[i] = s[i + n]
        BY <1>4, <1>5, <1>6, <3>1
      <4> QED BY <4>1
    <3>2. CASE ~(i <= m - n)
      <4>1. i - (m - n) \in 1..m /\ r[i] = s[i - (m - n)]
        BY <1>4, <1>5, <1>6, <3>2
      <4> QED BY <4>1
    <3> QED BY <3>1, <3>2
  <2>3. /\ Contains(r, x) <=> \E i \in 1..m : r[i] = x
        /\ Contains(s, x) <=> \E i \in 1..m : s[i] = x
    BY <1>4, <1>5 DEF Contains
  <2> QED BY <2>1, <2>2, <2>3
<1>9. Range(r) = Range(s)
  BY <1>4, <1>8, RangeContains
<1> QED BY <1>4, <1>7, <1>9 DEF r

\* The hand stops at a frame of the clock.
LEMMA HandStops ==
  ASSUME TypeOK, clock # <<>>
  PROVE  Victim \in Range(clock) /\ HandAfter \in 0..Len(clock)
<1> DEFINE cold == {i \in 1..Len(clock) : Cold(clock[i])}
<1>1. clock \in Seq(Frames) /\ Len(clock) \in Nat \ {0} /\ DOMAIN clock = 1..Len(clock)
  BY DEF TypeOK
<1>2. Swept \in 1..Len(clock)
  <2>1. CASE cold = {}
    <3>1. Swept = Len(clock)
      BY <2>1 DEF Swept
    <3> QED BY <1>1, <3>1
  <2>2. CASE cold # {}
    <3>1. cold \in SUBSET Nat
      BY <1>1
    <3> HIDE DEF cold
    <3>2. \E i \in cold : \A j \in cold : i <= j
      BY <2>2, <3>1, LeastNatural
    <3>3. (CHOOSE i \in cold : \A j \in cold : i <= j) \in cold
      BY <3>2
    <3>4. Swept = CHOOSE i \in cold : \A j \in cold : i <= j
      BY <2>2 DEF Swept, cold
    <3> QED BY <3>3, <3>4 DEF cold
  <2> QED BY <2>1, <2>2
<1>3. clock[Swept] \in Range(clock) /\ Head(clock) \in Range(clock)
  <2>1. Head(clock) = clock[1] /\ 1 \in 1..Len(clock)
    BY <1>1
  <2> QED BY <1>1, <1>2, <2>1 DEF Range
<1>4. Victim \in Range(clock)
  BY <1>3 DEF Victim
<1>5. HandAfter \in 0..Len(clock)
  BY <1>1, <1>2 DEF HandAfter
<1> QED BY <1>4, <1>5

\* A frame taken from the pool is new on the clock; one that is unloaded leaves it.
LEMMA ClockChanges ==
  ASSUME TypeOK, FramesAccounted, NEW f \in Frames
  PROVE  /\ Once(clock)
         /\ f \notin Range(clock) => /\ Append(clock, f) \in Seq(Frames) /\ Once(Append(clock, f))
                                     /\ Range(Append(clock, f)) = Range(clock) \cup {f}
         /\ f \in Range(clock) => /\ Without(clock, f) \in Seq(Frames) /\ Once(Without(clock, f))
                                  /\ Range(Without(clock, f)) = Range(clock) \ {f}
<1>1. clock \in Seq(Frames) /\ Once(clock)
  BY DEF TypeOK, FramesAccounted, Once
<1>2. ASSUME f \notin Range(clock)
      PROVE  /\ Append(clock, f) \in Seq(Frames) /\ Once(Append(clock, f))
             /\ Range(Append(clock, f)) = Range(clock) \cup {f}
  <2>1. ~Contains(clock, f)
    BY <1>1, <1>2, RangeContains
  <2>2. /\ Append(clock, f) \in Seq(Frames) /\ Once(Append(clock, f))
        /\ \A x : Contains(Append(clock, f), x) <=> Contains(clock, x) \/ x = f
    BY <1>1, <2>1, AppendOnce
  <2>3. \A x : x \in Range(Append(clock, f)) <=> x \in Range(clock) \/ x = f
    BY <1>1, <2>2, RangeContains
  <2> QED BY <2>2, <2>3
<1>3. ASSUME f \in Range(clock)
      PROVE  /\ Without(clock, f) \in Seq(Frames) /\ Once(Without(clock, f))
             /\ Range(Without(clock, f)) = Range(clock) \ {f}
  <2>1. Contains(clock, f)
    BY <1>1, <1>3, RangeContains
  <2>2. /\ Without(clock, f) \in Seq(Frames) /\ Once(Without(clock, f))
        /\ \A x : Contains(Without(clock, f), x) <=> Contains(clock, x) /\ x # f
    BY <1>1, <2>1, WithoutOnce
  <2>3. \A x : x \in Range(Without(clock, f)) <=> x \in Range(clock) /\ x # f
    BY <1>1, <2>2, RangeContains
  <2> QED BY <2>2, <2>3
<1> QED BY <1>1, <1>2, <1>3

-----------------------------------------------------------------------------
(* Locks.                                                                  *)

\* The pages of frame f that are locked for a system call.
Pinned(f) == {p \in PagesOn(f) : p \in pins[Owner[p]]}

LEMMA LockSets ==
  ASSUME NEW f
  PROVE  /\ IsFiniteSet(Pinned(f)) /\ Cardinality(Pinned(f)) \in Nat
         /\ IsFiniteSet(Filling(f) \cup Emptying(f)) /\ Cardinality(Filling(f) \cup Emptying(f)) \in Nat
         /\ IsFiniteSet(Sharing(f)) /\ Cardinality(Sharing(f)) \in Nat
<1>1. Pinned(f) \subseteq Pages
  BY DEF Pinned, PagesOn
<1>2. Filling(f) \cup Emptying(f) \subseteq Procs /\ Sharing(f) \subseteq Procs
  BY DEF Filling, Emptying, Sharing
<1> QED BY <1>1, <1>2, FS_Subset, FS_CardinalityType, FrameAssumption

\* Nobody uses a frame that is not locked.
LEMMA LockZero ==
  ASSUME TypeOK, LocksCounted, NEW f \in Frames, lockCnt[f] = 0
  PROVE  /\ \A p \in Pages : frameOf[p] = f => p \notin pins[Owner[p]]
         /\ \A t \in Procs : ~(pc[t] \in Fetching /\ frameOf[at[t]] = f)
         /\ \A t \in Procs : ~(pc[t] \in Sending /\ fr[t] = f)
         /\ \A t \in Procs : ~(pc[t] \in Sharers /\ frameOf[at[t]] = f)
         /\ ~io[f]
<1>1. 0 = Cardinality(Pinned(f)) + Cardinality(Filling(f) \cup Emptying(f)) + Cardinality(Sharing(f))
  BY DEF LocksCounted, Pinned
<1>2. Pinned(f) = {} /\ Filling(f) \cup Emptying(f) = {} /\ Sharing(f) = {}
  <2> DEFINE a == Cardinality(Pinned(f))
             b == Cardinality(Filling(f) \cup Emptying(f))
             c == Cardinality(Sharing(f))
  <2>1. a \in Nat /\ b \in Nat /\ c \in Nat /\ 0 = a + b + c
    BY <1>1, LockSets
  <2> HIDE DEF a, b, c
  <2>2. a = 0 /\ b = 0 /\ c = 0
    BY <2>1
  <2> USE DEF a, b, c
  <2> QED BY <2>2, LockSets, FS_EmptySet
<1>3. ~io[f]
  BY <1>2 DEF LocksCounted
<1> QED BY <1>2, <1>3 DEF Pinned, PagesOn, Filling, Emptying, Sharing, Fetching, Sending, Sharers

\* io is set while a process fills or empties the frame.
LEMMA IoMeans ==
  ASSUME TypeOK, LocksCounted, NEW f \in Frames
  PROVE  io[f] <=> \E t \in Procs : \/ pc[t] \in Fetching /\ frameOf[at[t]] = f
                                    \/ pc[t] \in Sending /\ fr[t] = f
BY DEF LocksCounted, Filling, Emptying, Fetching, Sending

-----------------------------------------------------------------------------
(* The branches are all there is.                                          *)

LEMMA FunctionUpdate ==
  ASSUME NEW S, NEW T, NEW g \in [S -> T], NEW x, NEW v \in T
  PROVE  [g EXCEPT ![x] = v] \in [S -> T]
OBVIOUS

LEMMA LoadPresentBranch ==
  ASSUME NEW t \in Procs, LoadPresent(t), fault' = "none"
  PROVE  PinPresent(t)
<1>1. keep[t]
  BY DEF LoadPresent, Stop
<1> QED BY <1>1 DEF LoadPresent, PinPresent

LEMMA LoadSharedBranch ==
  ASSUME NEW t \in Procs, LoadShared(t)
  PROVE  ShareWait(t) \/ ShareNow(t)
<1>1. CASE io[roFrame]
  BY <1>1 DEF LoadShared, ShareWait
<1>2. CASE ~io[roFrame]
  BY <1>2 DEF LoadShared, ShareNow
<1> QED BY <1>1, <1>2

LEMMA EvictBranch ==
  ASSUME TypeOK, FramesAccounted, NEW t \in Procs, Evict(t), fault' = "none"
  PROVE  \E f \in Frames : Choose(t, f)
<1>1. NeedsFrame(t) /\ pool = {} /\ clock # <<>>
  BY DEF Evict
<1>2. Unlocked(Victim)
  BY DEF Evict, Stop
<1>3. /\ accessed' \subseteq accessed
      /\ clock' = Rotated(clock, HandAfter)
      /\ fr' = [fr EXCEPT ![t] = Victim]
      /\ sawDirty' = [sawDirty EXCEPT ![t] = PagesOn(Victim) \cap dirty # {}]
      /\ frameLock' = t
      /\ Goto(t, "unmap")
      /\ UNCHANGED <<pageVars, present, dirty, pool, lockCnt, io, roFrame, dataVars, at, keep, slot, pins, fault>>
  BY <1>2 DEF Evict
<1>4. Victim \in Range(clock) /\ HandAfter \in 0..Len(clock)
  BY <1>1, HandStops
<1>5. clock \in Seq(Frames) /\ Once(clock)
  BY DEF TypeOK, FramesAccounted, Once
<1>6. clock' \in Seq(Frames) /\ Once(clock') /\ Range(clock') = Range(clock)
  BY <1>3, <1>4, <1>5, RotatedOnce
<1>7. Victim \in Frames
  BY <1>4, <1>5, RangeContains
<1>8. (PagesOn(Victim) \cap dirty # {}) <=> (\E p \in dirty : frameOf[p] = Victim)
  BY DEF PagesOn, TypeOK
<1>9. sawDirty' = [sawDirty EXCEPT ![t] = \E p \in dirty : frameOf[p] = Victim]
  BY <1>3, <1>8
<1> QED BY <1>1, <1>2, <1>3, <1>4, <1>6, <1>7, <1>9 DEF Choose, Unlocked

LEMMA EvictUnmapBranch ==
  ASSUME TypeOK, NEW t \in Procs, EvictUnmap(t), fault' = "none"
  PROVE  UnmapWrite(t) \/ UnmapClean(t)
<1> DEFINE f == fr[t]
           ps == PagesOn(f)
<1>1. pc[t] = "unmap"
  BY DEF EvictUnmap
<1>2. ~(~sawDirty[t] /\ ps \cap MapPages \cap dirty # {}) /\ ~(ps \subseteq TextPages /\ roFrame = NULL)
  BY DEF EvictUnmap, Stop
<1>3. /\ present' = present \ ps /\ accessed' = accessed \ ps /\ dirty' = dirty \ ps
      /\ IF sawDirty[t] \/ ps \subseteq SwapPages
         THEN /\ io' = [io EXCEPT ![f] = TRUE]
              /\ lockCnt' = [lockCnt EXCEPT ![f] = @ + 1]
              /\ frameLock' = NULL
              /\ Goto(t, "write")
              /\ UNCHANGED <<frameOf, roFrame>>
         ELSE /\ frameOf' = [p \in Pages |-> IF p \in ps THEN NULL ELSE frameOf[p]]
              /\ roFrame' = IF ps \subseteq TextPages THEN NULL ELSE roFrame
              /\ Goto(t, "clean")
              /\ UNCHANGED <<io, lockCnt, frameLock>>
      /\ UNCHANGED <<mapped, swapSlot, pool, clock, dataVars, localVars, pins, fault>>
  BY <1>2 DEF EvictUnmap
<1>4. Unmapped(t)
  <2>1. present \subseteq Pages /\ accessed \subseteq Pages /\ dirty \subseteq Pages
    BY DEF TypeOK
  <2>2. \A p \in Pages : p \in ps <=> frameOf[p] = f
    BY DEF PagesOn
  <2>3. sawDirty[t] \/ \A p \in dirty \cap MapPages : frameOf[p] # f
    BY <1>2, <2>1, <2>2
  <2> HIDE DEF f, ps
  <2>4. /\ present' = {p \in present : frameOf[p] # f}
        /\ accessed' = {p \in accessed : frameOf[p] # f}
        /\ dirty' = {p \in dirty : frameOf[p] # f}
    BY <1>3, <2>1, <2>2
  <2> USE DEF f
  <2> QED BY <1>1, <1>3, <2>3, <2>4 DEF Unmapped
<1>5. CASE sawDirty[t] \/ ps \subseteq SwapPages
  <2>1. sawDirty[t] \/ \A p \in Pages : frameOf[p] = fr[t] => p \in SwapPages
    BY <1>5 DEF PagesOn
  <2> QED BY <1>3, <1>4, <1>5, <2>1 DEF UnmapWrite
<1>6. CASE ~(sawDirty[t] \/ ps \subseteq SwapPages)
  <2>1. \E p \in Pages : frameOf[p] = fr[t] /\ p \notin SwapPages
    BY <1>6 DEF PagesOn
  <2>2. frameOf' = [p \in Pages |-> IF frameOf[p] = fr[t] THEN NULL ELSE frameOf[p]]
    BY <1>3, <1>6 DEF PagesOn
  <2>3. roFrame' = IF \A p \in Pages : frameOf[p] = fr[t] => p \in TextPages THEN NULL ELSE roFrame
    <3>1. ps \subseteq TextPages <=> \A p \in Pages : frameOf[p] = fr[t] => p \in TextPages
      BY DEF PagesOn
    <3> QED BY <1>3, <1>6, <3>1
  <2> QED BY <1>3, <1>4, <1>6, <2>1, <2>2, <2>3 DEF UnmapClean
<1> QED BY <1>5, <1>6

LEMMA ScanSwapMapBranch ==
  ASSUME TypeOK, NEW t \in Procs, ScanSwapMap(t), fault' = "none"
  PROVE  \E s \in Slots : TakeSlot(t, s)
<1> DEFINE free == Slots \ swapMap
           s == CHOOSE s \in free : \A r \in free : s <= r
<1>1. free # {}
  BY DEF ScanSwapMap, Stop
<1>2. s \in free
  <2>1. free \in SUBSET Nat
    BY FrameAssumption
  <2> HIDE DEF free
  <2>2. \E m \in free : \A r \in free : m <= r
    BY <1>1, <2>1, LeastNatural
  <2> QED BY <2>2
<1>3. /\ pc[t] = "write"
      /\ slot' = [slot EXCEPT ![t] = s]
      /\ Goto(t, "flip")
      /\ UNCHANGED <<pageVars, pteVars, frameVars, dataVars, at, keep, fr, sawDirty, frameLock, pins, fault>>
  BY <1>1 DEF ScanSwapMap
<1>4. \A p \in Pages : frameOf[p] = fr[t] => p \in SwapPages
  BY DEF ScanSwapMap, PagesOn
<1> HIDE DEF s
<1> QED BY <1>2, <1>3, <1>4 DEF TakeSlot

LEMMA WriteToSwapBranch ==
  ASSUME NEW t \in Procs, WriteToSwap(t), fault' = "none"
  PROVE  FlipSlot(t)
<1>1. slot[t] \notin swapMap
  BY DEF WriteToSwap, Stop
<1> QED BY <1>1 DEF WriteToSwap, FlipSlot

LEMMA ReleaseFrameBranch ==
  ASSUME NEW t \in Procs, ReleaseFrame(t), fault' = "none"
  PROVE  ReleaseLast(t) \/ ReleaseShared(t)
<1> DEFINE p == at[t]
           f == fr[t]
<1>1. ~NotToBeFreed(t) /\ pc[t] = "release"
  BY DEF ReleaseFrame, Stop
<1>2. /\ IF Empty(f)
         THEN /\ pool' = pool \cup {f}
              /\ file' = FileSaved(t)
              /\ frameData' = [frameData EXCEPT ![f] = Zero]
         ELSE UNCHANGED <<pool, file, frameData>>
      /\ mapped' = mapped \ {p}
      /\ dirty' = dirty \ {p}
      /\ EndCall(t)
      /\ Goto(t, "run")
      /\ UNCHANGED <<frameOf, swapSlot, present, accessed, clock, lockCnt, io, roFrame, swap, swapMap, frameLock, fault>>
  BY <1>1 DEF ReleaseFrame
<1>3. CASE Empty(f)
  <2>1. \A q \in Pages : frameOf[q] # f
    BY <1>3 DEF Empty, PagesOn
  <2>2. f \notin Range(clock) /\ \A u \in Procs \ {t} : pc[u] = "release" => fr[u] # f
    BY <1>1, <1>3 DEF NotToBeFreed, Empty
  <2> QED BY <1>1, <1>2, <1>3, <2>1, <2>2 DEF ReleaseLast
<1>4. CASE ~Empty(f)
  <2>1. \E q \in Pages : frameOf[q] = f
    BY <1>4 DEF Empty, PagesOn
  <2>2. UNCHANGED <<pool, file, frameData>>
    BY <1>2, <1>4
  <2>3. UNCHANGED <<frameVars, dataVars>>
    BY <1>2, <2>2 DEF frameVars, dataVars
  <2> QED BY <1>1, <1>2, <2>1, <2>3 DEF ReleaseShared
<1> QED BY <1>3, <1>4

\* A frame from the pool or from an eviction, and the page that gets it.
LEMMA Taken ==
  ASSUME IInv, NEW t \in Procs, NEW f, Takes(t, f)
  PROVE  /\ f \in Frames
         /\ at[t] \in Pages /\ Owner[at[t]] = t /\ frameOf[at[t]] = NULL
         /\ at[t] \in mapped /\ at[t] \notin present /\ at[t] \notin pins[t]
         /\ pc[t] \in {"load", "clean", "written"} /\ frameLock \in {t, NULL}
         /\ \A p \in Pages : frameOf[p] = f => pc[t] = "written" /\ p \notin TextPages \cup present
         /\ roFrame # f
         /\ \A u \in Procs \ {t} : pc[u] \in Fetching \cup Evicting => Hand(u) # f
         /\ \/ pc[t] = "load" /\ f \in pool /\ f \notin Range(clock)
            \/ pc[t] \in {"clean", "written"} /\ f \notin pool /\ f \in Range(clock)
<1> USE DEF Idle, Fetching, Sharers, Sending, Evicting, Unloading
<1>1. TypeOK /\ Places /\ FramePlaces /\ FramesAccounted /\ FramesSeparate /\ Handling /\ LocksCounted
  BY DEF IInv
<1>2. pc[t] \in {"load", "clean", "written"}
  BY DEF Takes, NeedsFrame
<1>3. at[t] \in Pages /\ Owner[at[t]] = t /\ at[t] \in mapped /\ at[t] \notin pins[t]
  BY <1>1, <1>2 DEF TypeOK, Places, PlaceOf
<1>4. frameOf[at[t]] = NULL
  BY <1>1 DEF Takes, NeedsFrame, Places, PlaceOf
<1>5. at[t] \notin present
  <2>1. NULL \notin Range(clock)
    BY <1>1, RangeContains, FrameAssumption DEF TypeOK
  <2> QED BY <1>3, <1>4, <2>1, <1>1 DEF FramesSeparate
<1>6. frameLock \in {t, NULL}
  BY <1>1 DEF Takes, NeedsFrame, Places, PlaceOf
<1>7. CASE pc[t] = "load"
  <2>1. f \in pool /\ f \in Frames
    BY <1>1, <1>7 DEF Takes, TypeOK
  <2>2. f \notin Range(clock) /\ \A p \in Pages : frameOf[p] # f
    BY <1>1, <2>1 DEF FramesAccounted, PagesOn
  <2>3. roFrame # f
    BY <1>1, <2>1, <2>2, FrameAssumption DEF FramePlaces
  <2>4. ASSUME NEW u \in Procs \ {t}, pc[u] \in Fetching \cup Evicting
        PROVE  Hand(u) # f
    <3>1. CASE pc[u] \in Fetching
      <4>1. at[u] \in Pages
        BY <1>1, <3>1 DEF Places, PlaceOf, TypeOK
      <4> QED BY <2>2, <3>1, <4>1 DEF Hand
    <3>2. CASE pc[u] \in Evicting
      BY <1>1, <2>2, <3>2 DEF Hand, FramePlaces
    <3> QED BY <2>4, <3>1, <3>2
  <2> QED BY <1>2, <1>3, <1>4, <1>5, <1>6, <1>7, <2>1, <2>2, <2>3, <2>4
<1>8. CASE pc[t] \in {"clean", "written"}
  <2>1. f = fr[t] /\ f \in Range(clock)
    BY <1>1, <1>8 DEF Takes, NeedsFrame, FramePlaces
  <2>2. f \in Frames /\ f \notin pool
    <3>1. f \in Frames
      BY <1>1, <2>1, RangeContains DEF TypeOK
    <3> QED BY <1>1, <2>1, <3>1 DEF FramesAccounted
  <2>3. \A p \in Pages : frameOf[p] = f => pc[t] = "written" /\ p \notin TextPages \cup present
    BY <1>1, <1>8, <2>1 DEF FramePlaces, Handling
  <2>4. roFrame # f
    BY <1>1, <2>2, <2>3, FrameAssumption DEF FramePlaces
  <2>5. ASSUME NEW u \in Procs \ {t}, pc[u] \in Fetching \cup Evicting
        PROVE  Hand(u) # f
    <3>1. Hand(t) = f
      BY <1>8, <2>1 DEF Hand
    <3> QED BY <1>1, <1>8, <2>5, <3>1 DEF Handling
  <2> QED BY <1>2, <1>3, <1>4, <1>5, <1>6, <1>8, <2>1, <2>2, <2>3, <2>4, <2>5
<1> QED BY <1>2, <1>7, <1>8

\* Only the process that evicted it holds a lock on the frame.
LEMMA TakenLock ==
  ASSUME IInv, NEW t \in Procs, NEW f, Takes(t, f)
  PROVE  lockCnt[f] = IF pc[t] = "written" THEN 1 ELSE 0
<1> USE DEF Idle, Fetching, Sharers, Sending, Evicting, Unloading
<1>1. TypeOK /\ Places /\ PinnedStay /\ LocksCounted
  BY DEF IInv
<1>2. Pinned(f) = {}
  <2> SUFFICES ASSUME NEW p \in Pages, frameOf[p] = f, p \in pins[Owner[p]]
               PROVE  FALSE
    BY DEF Pinned, PagesOn
  <2>1. Owner[p] \in Procs
    BY FrameAssumption
  <2>2. p \in present
    BY <1>1, <2>1 DEF PinnedStay
  <2> QED BY <2>2, Taken
<1>3. Sharing(f) = {}
  <2> SUFFICES ASSUME NEW u \in Procs, pc[u] \in Sharers, frameOf[at[u]] = f
               PROVE  FALSE
    BY DEF Sharing
  <2>1. at[u] \in TextPages /\ at[u] \in Pages
    BY <1>1 DEF Places, PlaceOf, Pages
  <2> QED BY <2>1, Taken
<1>4. Filling(f) \cup Emptying(f) = IF pc[t] = "written" THEN {t} ELSE {}
  <2>1. \A u \in Procs \ {t} : u \notin Filling(f) \cup Emptying(f)
    BY Taken DEF Filling, Emptying, Hand
  <2>2. t \notin Filling(f)
    BY Taken DEF Filling
  <2>3. t \in Emptying(f) <=> pc[t] = "written"
    BY Taken DEF Emptying, Takes, NeedsFrame
  <2>4. Filling(f) \cup Emptying(f) \subseteq Procs
    BY DEF Filling, Emptying
  <2> QED BY <2>1, <2>2, <2>3, <2>4
<1>5. lockCnt[f] = Cardinality(Pinned(f)) + Cardinality(Filling(f) \cup Emptying(f)) + Cardinality(Sharing(f))
  BY <1>1, Taken DEF LocksCounted, Pinned
<1>6. CASE pc[t] = "written"
  <2>1. Cardinality(Filling(f) \cup Emptying(f)) = 1
    BY <1>4, <1>6, FS_Singleton
  <2>2. lockCnt[f] = 0 + 1 + 0
    BY <1>2, <1>3, <1>5, <2>1, FS_EmptySet
  <2> QED BY <1>6, <2>2
<1>7. CASE pc[t] # "written"
  <2>1. lockCnt[f] = 0 + 0 + 0
    BY <1>2, <1>3, <1>4, <1>5, <1>7, FS_EmptySet
  <2> QED BY <1>7, <2>1
<1> QED BY <1>6, <1>7

\* cond_broadcast.
LEMMA ResumedWakes ==
  ASSUME TypeOK, Places, NEW f
  PROVE  /\ Resumed(f) \in [Procs -> Locs]
         /\ \A u \in Procs : pc[u] \in {"waitLoad", "waitShared", "waitUnload"} => at[u] \in Pages
         /\ \A u \in Procs :
              Resumed(f)[u] = IF pc[u] \in {"waitLoad", "waitShared", "waitUnload"} /\ frameOf[at[u]] = f
                              THEN IF pc[u] = "waitLoad" THEN "load" ELSE IF pc[u] = "waitUnload" THEN "unload" ELSE "shared"
                              ELSE pc[u]
<1>1. \A u \in Procs : pc[u] \in {"waitLoad", "waitShared", "waitUnload"} => at[u] \in Pages /\ at[u] # NULL
  <2>1. NULL \notin Pages /\ mapped \subseteq Pages
    BY FrameAssumption DEF TypeOK
  <2> QED BY <2>1 DEF Places, PlaceOf, Idle
<1>2. Resumed(f) \in [Procs -> Locs]
  BY DEF Resumed, TypeOK, Locs
<1>3. ASSUME NEW u \in Procs
      PROVE  Resumed(f)[u] = IF pc[u] \in {"waitLoad", "waitShared", "waitUnload"} /\ frameOf[at[u]] = f
                             THEN IF pc[u] = "waitLoad" THEN "load" ELSE IF pc[u] = "waitUnload" THEN "unload" ELSE "shared"
                             ELSE pc[u]
  <2>1. CASE pc[u] \in {"waitLoad", "waitShared", "waitUnload"}
    BY <1>1, <2>1 DEF Resumed
  <2>2. CASE pc[u] \notin {"waitLoad", "waitShared", "waitUnload"}
    BY <2>2 DEF Resumed
  <2> QED BY <2>1, <2>2
<1> QED BY <1>1, <1>2, <1>3

LEMMA LoadedBranch ==
  ASSUME IInv, NEW t \in Procs, Loaded(t)
  PROVE  \E f \in Frames : LoadDone(t, f)
<1> DEFINE f == frameOf[at[t]]
<1>1. TypeOK /\ Places
  BY DEF IInv
<1>2. /\ pc[t] = "finish" /\ frameLock = NULL
      /\ lockCnt' = [lockCnt EXCEPT ![f] = @ - 1 + KeepCount(t)]
      /\ io' = [io EXCEPT ![f] = FALSE]
      /\ pc' = [Resumed(f) EXCEPT ![t] = "run"]
      /\ EndCall(t)
      /\ UNCHANGED <<pageVars, pteVars, pool, clock, roFrame, dataVars, frameLock, fault>>
  BY DEF Loaded
<1>3. f \in Frames
  <2>1. at[t] \in Pages /\ f # NULL
    BY <1>1, <1>2 DEF Places, PlaceOf, TypeOK, Idle, Fetching
  <2> QED BY <1>1, <2>1 DEF TypeOK
<1> HIDE DEF f
<1>4. Wakes(t, f) /\ pc'[t] = "run"
  <2>1. "run" \in Locs
    BY DEF Locs
  <2> QED BY <1>1, <1>2, <2>1, ResumedWakes DEF Wakes
<1>5. LoadDone(t, f)
  BY <1>2, <1>4 DEF LoadDone, f
<1> QED BY <1>3, <1>5

\* Install, with the threads that it wakes.
LEMMA InstallBranch ==
  ASSUME IInv, NEW t \in Procs, NEW f, Takes(t, f), Install(t, f, pc[t] = "written"),
         pool' = pool \ {f}, clock' \in Seq(Frames), Once(clock'),
         Range(clock') = Range(clock) \cup {f}, UNCHANGED <<mapped, file, swap, swapMap, fault>>
  PROVE  InstallLoad(t, f) \/ InstallZero(t, f)
<1> DEFINE p == at[t]
           load == p \notin ZeroPages \/ swapSlot[p] # NULL
           written == pc[t] = "written"
<1>1. TypeOK /\ Places
  BY DEF IInv
<1>2. /\ MapPage(p)
      /\ frameOf' = FramesAfter(p, f)
      /\ swapSlot' = [q \in Pages |-> IF frameOf[q] = f /\ q \in SwapPages THEN slot[t] ELSE swapSlot[q]]
      /\ frameData' = [frameData EXCEPT ![f] = Zero]
      /\ io' = [io EXCEPT ![f] = load]
      /\ lockCnt' = [lockCnt EXCEPT ![f] = @ - EvictionLock(written) + (IF load THEN 1 ELSE KeepCount(t))]
      /\ roFrame' = IF p \in TextPages /\ roFrame = NULL THEN f ELSE roFrame
      /\ frameLock' = NULL
      /\ pc' = [(IF written THEN Resumed(f) ELSE pc) EXCEPT ![t] = IF load THEN "read" ELSE "run"]
      /\ IF load
         THEN /\ fr' = [fr EXCEPT ![t] = NULL]
              /\ slot' = [slot EXCEPT ![t] = NULL]
              /\ sawDirty' = [sawDirty EXCEPT ![t] = FALSE]
              /\ UNCHANGED <<at, keep, pins>>
         ELSE EndCall(t)
  BY DEF Install
<1>3. lockCnt[f] = EvictionLock(written) /\ EvictionLock(written) \in {0, 1}
  BY TakenLock DEF EvictionLock
<1>4. lockCnt[f] - EvictionLock(written) = 0
  BY <1>3
<1>8. pc'[t] = IF load THEN "read" ELSE "run"
  <2>1. (IF written THEN Resumed(f) ELSE pc) \in [Procs -> Locs]
    BY <1>1, ResumedWakes DEF TypeOK
  <2> HIDE DEF load, written
  <2> QED BY <1>2, <2>1
<1>9. Wakes(t, f)
  <2>1. (IF load THEN "read" ELSE "run") \in Locs
    BY DEF Locs
  <2>2. CASE written
    <3>1. pc' = [Resumed(f) EXCEPT ![t] = IF load THEN "read" ELSE "run"]
      BY <1>2, <2>2
    <3> HIDE DEF load, written
    <3> QED BY <1>1, <2>1, <3>1, ResumedWakes DEF Wakes
  <2>3. CASE ~written
    <3>1. pc' = [pc EXCEPT ![t] = IF load THEN "read" ELSE "run"]
      BY <1>2, <2>3
    <3>2. \A u \in Procs : pc[u] \in {"waitLoad", "waitShared", "waitUnload"} => frameOf[at[u]] # f
      BY <1>1, <2>3, ResumedWakes, Taken
    <3>3. pc \in [Procs -> Locs]
      BY <1>1 DEF TypeOK
    <3> HIDE DEF load, written
    <3> QED BY <2>1, <3>1, <3>2, <3>3 DEF Wakes
  <2> QED BY <2>2, <2>3
<1>10. Installed(t, f)
  <2>1. f \in Frames
    BY Taken
  <2> HIDE DEF load, written
  <2>2. frameOf' = [q \in Pages |-> IF q = p THEN f ELSE IF frameOf[q] = f THEN NULL ELSE frameOf[q]]
    BY <1>2 DEF FramesAfter
  <2>3. present' = present \cup {p} /\ accessed' = accessed \cup {p} /\ dirty' = dirty \ {p}
    BY <1>2 DEF MapPage
  <2> QED BY <1>2, <1>8, <1>9, <2>1, <2>2, <2>3 DEF Installed
<1>11. CASE load
  <2>1. lockCnt' = [lockCnt EXCEPT ![f] = 1]
    <3>1. lockCnt[f] - EvictionLock(written) + (IF load THEN 1 ELSE KeepCount(t)) = 1
      BY <1>4, <1>11
    <3> HIDE DEF load, written
    <3> QED BY <1>2, <3>1
  <2>2. io' = [io EXCEPT ![f] = TRUE]
    BY <1>2, <1>11
  <2> QED BY <1>2, <1>8, <1>10, <1>11, <2>1, <2>2 DEF InstallLoad
<1>12. CASE ~load
  <2>1. KeepCount(t) \in Int
    BY DEF KeepCount
  <2>2. lockCnt' = [lockCnt EXCEPT ![f] = KeepCount(t)]
    <3>1. lockCnt[f] - EvictionLock(written) + (IF load THEN 1 ELSE KeepCount(t)) = KeepCount(t)
      BY <1>4, <1>12, <2>1
    <3> HIDE DEF load, written
    <3> QED BY <1>2, <3>1
  <2>3. io' = [io EXCEPT ![f] = FALSE]
    BY <1>2, <1>12
  <2>4. EndCall(t)
    BY <1>2, <1>12
  <2> QED BY <1>8, <1>10, <1>12, <2>2, <2>3, <2>4 DEF InstallZero
<1> QED BY <1>11, <1>12

LEMMA LoadFreshBranch ==
  ASSUME IInv, NEW t \in Procs, LoadFresh(t)
  PROVE  \E f \in Frames : InstallLoad(t, f) \/ InstallZero(t, f)
<1>1. NeedsFrame(t) /\ UNCHANGED <<mapped, file, swap, swapMap, fault>>
  BY DEF LoadFresh
<1>2. PICK f \in pool : pool' = pool \ {f} /\ clock' = Append(clock, f) /\ Install(t, f, FALSE)
  BY DEF LoadFresh
<1>3. Takes(t, f) /\ (pc[t] = "written") = FALSE
  BY <1>1, <1>2 DEF Takes, NeedsFrame
<1>4. f \in Frames /\ f \notin Range(clock)
  BY <1>1, <1>3, Taken DEF NeedsFrame
<1>5. Append(clock, f) \in Seq(Frames) /\ Once(Append(clock, f)) /\ Range(Append(clock, f)) = Range(clock) \cup {f}
  BY <1>4, ClockChanges DEF IInv
<1>6. Install(t, f, pc[t] = "written")
  BY <1>2, <1>3
<1>7. InstallLoad(t, f) \/ InstallZero(t, f)
  BY <1>1, <1>2, <1>3, <1>5, <1>6, InstallBranch
<1> QED BY <1>4, <1>7

LEMMA EvictedBranch ==
  ASSUME IInv, NEW t \in Procs, Evicted(t)
  PROVE  \E f \in Frames : InstallLoad(t, f) \/ InstallZero(t, f)
<1> DEFINE f == fr[t]
<1>1. /\ Takes(t, f) /\ Install(t, f, pc[t] = "written")
      /\ UNCHANGED <<mapped, pool, clock, file, swap, swapMap, fault>>
  BY DEF Evicted, Takes
<1>2. f \in Frames /\ f \in Range(clock) /\ f \notin pool
  <2>1. pc[t] # "load"
    BY DEF Evicted
  <2> QED BY <1>1, <2>1, Taken
<1>3. Once(clock) /\ clock \in Seq(Frames)
  BY <1>2, ClockChanges DEF IInv, TypeOK
<1>4. pool' = pool \ {f} /\ Range(clock') = Range(clock) \cup {f} /\ Once(clock') /\ clock' \in Seq(Frames)
  BY <1>1, <1>2, <1>3
<1> HIDE DEF f
<1>5. InstallLoad(t, f) \/ InstallZero(t, f)
  BY <1>1, <1>4, InstallBranch
<1> QED BY <1>2, <1>5

\* Every step that does not stop the kernel is one of the branches.
LEMMA Branches ==
  ASSUME IInv, Next, fault' = "none"
  PROVE  \E t \in Procs : GoodStep(t)
<1>1. PICK t \in Procs : KernelStep(t) \/ \E p \in Pages : UserStep(t, p)
  BY DEF Next
<1>2. TypeOK /\ FramesAccounted
  BY DEF IInv
<1>3. CASE LoadStep(t)
  BY <1>3, LoadPresentBranch, LoadSharedBranch, LoadFreshBranch, LoadedBranch DEF LoadStep, GoodStep
<1>4. CASE EvictStep(t)
  <2>1. ~EvictNothing(t)
    BY DEF EvictNothing, Stop
  <2> QED BY <1>2, <1>4, <2>1, EvictBranch, EvictUnmapBranch, ScanSwapMapBranch, WriteToSwapBranch, EvictedBranch
          DEF EvictStep, GoodStep
<1>5. CASE UnloadStep(t)
  BY <1>5, ReleaseFrameBranch DEF UnloadStep, GoodStep
<1> QED BY <1>1, <1>3, <1>4, <1>5 DEF KernelStep, GoodStep

-----------------------------------------------------------------------------
(* Every branch preserves every part of the invariant.                     *)

USE FrameAssumption DEF pageVars, pteVars, frameVars, dataVars, localVars,
                        Idle, Fetching, Sharers, Sending, Evicting, Unloading

\* What a broadcast means for another process.
LEMMA WakesMeans ==
  ASSUME TypeOK, NEW t \in Procs, NEW f, Wakes(t, f), NEW u \in Procs \ {t}
  PROVE  \/ pc'[u] = pc[u]
         \/ pc[u] = "waitLoad" /\ pc'[u] = "load" /\ frameOf[at[u]] = f
         \/ pc[u] = "waitShared" /\ pc'[u] = "shared" /\ frameOf[at[u]] = f
         \/ pc[u] = "waitUnload" /\ pc'[u] = "unload" /\ frameOf[at[u]] = f
BY DEF Wakes

\* What the arrival of a page in frame f changes for the processes.
LEMMA InstalledFor ==
  ASSUME IInv, NEW t \in Procs, NEW f, InstallLoad(t, f) \/ InstallZero(t, f)
  PROVE  /\ frameOf'[at[t]] = f
         /\ \A q \in Pages \ {at[t]} : frameOf'[q] = IF frameOf[q] = f THEN NULL ELSE frameOf[q]
         /\ \A u \in Procs \ {t} :
              /\ at'[u] = at[u] /\ fr'[u] = fr[u] /\ slot'[u] = slot[u] /\ keep'[u] = keep[u] /\ pins'[u] = pins[u]
              /\ sawDirty'[u] = sawDirty[u]
              /\ pc[u] \notin {"unmap", "clean"}
              /\ pc[u] \notin Idle => at[u] \in Pages \ {at[t]}
              /\ pc[u] \in Fetching \cup Sharers => frameOf[at[u]] # f /\ frameOf'[at[u]] = frameOf[at[u]]
              /\ pc[u] \in Evicting => fr[u] # f
              /\ \/ pc'[u] = pc[u]
                 \/ pc[u] = "waitLoad" /\ pc'[u] = "load" /\ frameOf[at[u]] = f
                 \/ pc[u] = "waitUnload" /\ pc'[u] = "unload" /\ frameOf[at[u]] = f
<1>0. TypeOK /\ Places /\ FramesSeparate /\ FramePlaces /\ PinnedStay
  BY DEF IInv
<1>1. /\ f \in Frames /\ at[t] \in Pages /\ Owner[at[t]] = t /\ frameOf[at[t]] = NULL
      /\ frameLock \in {t, NULL}
      /\ \A p \in Pages : frameOf[p] = f => p \notin TextPages \cup present
      /\ \A u \in Procs \ {t} : pc[u] \in Fetching \cup Evicting => Hand(u) # f
  BY Taken DEF InstallLoad, InstallZero, Installed
<1>2. /\ frameOf'[at[t]] = f
      /\ \A q \in Pages \ {at[t]} : frameOf'[q] = IF frameOf[q] = f THEN NULL ELSE frameOf[q]
  BY <1>1 DEF InstallLoad, InstallZero, Installed
<1>4. ASSUME NEW u \in Procs \ {t}
      PROVE  /\ at'[u] = at[u] /\ fr'[u] = fr[u] /\ slot'[u] = slot[u] /\ keep'[u] = keep[u] /\ pins'[u] = pins[u]
             /\ sawDirty'[u] = sawDirty[u]
             /\ pc[u] \notin {"unmap", "clean"}
             /\ pc[u] \notin Idle => at[u] \in Pages \ {at[t]}
             /\ pc[u] \in Fetching \cup Sharers => frameOf[at[u]] # f /\ frameOf'[at[u]] = frameOf[at[u]]
             /\ pc[u] \in Evicting => fr[u] # f
             /\ \/ pc'[u] = pc[u]
                \/ pc[u] = "waitLoad" /\ pc'[u] = "load" /\ frameOf[at[u]] = f
                \/ pc[u] = "waitUnload" /\ pc'[u] = "unload" /\ frameOf[at[u]] = f
  <2>1. PlaceOf(u)
    BY <1>0 DEF Places
  <2>2. /\ at'[u] = at[u] /\ fr'[u] = fr[u] /\ slot'[u] = slot[u] /\ keep'[u] = keep[u] /\ pins'[u] = pins[u]
        /\ sawDirty'[u] = sawDirty[u]
    BY <1>0 DEF InstallLoad, InstallZero, Installed, TypeOK, EndCall
  <2>3. pc[u] \notin {"unmap", "clean"}
    BY <1>1, <2>1 DEF PlaceOf
  <2>4. pc[u] \notin Idle => at[u] \in Pages \ {at[t]}
    BY <1>0, <1>1, <2>1 DEF PlaceOf, TypeOK
  <2>5. pc[u] \in Fetching \cup Sharers => frameOf[at[u]] # f
    BY <1>1, <2>1, <2>4 DEF PlaceOf, Hand
  <2>6. pc[u] \in Evicting => fr[u] # f
    BY <1>1 DEF Hand
  <2>7. Wakes(t, f)
    BY DEF InstallLoad, InstallZero, Installed
  <2>8. \/ pc'[u] = pc[u]
        \/ pc[u] = "waitLoad" /\ pc'[u] = "load" /\ frameOf[at[u]] = f
        \/ pc[u] = "waitUnload" /\ pc'[u] = "unload" /\ frameOf[at[u]] = f
    BY <1>0, <2>5, <2>7, WakesMeans
  <2> QED BY <1>2, <2>2, <2>3, <2>4, <2>5, <2>6, <2>8
<1> QED BY <1>2, <1>4

\* Processes call the kernel for pages of their own.
LEMMA OwnPages ==
  ASSUME TypeOK, Places, NEW t \in Procs, pc[t] \notin Idle
  PROVE  /\ at[t] \in Pages /\ at[t] \in mapped /\ at[t] \notin pins[t] /\ Owner[at[t]] = t
         /\ \A u \in Procs \ {t} : at[u] # at[t]
<1>1. PlaceOf(t) /\ \A u \in Procs : PlaceOf(u)
  BY DEF Places
<1> QED BY <1>1 DEF PlaceOf, TypeOK

\* What the unmapping of a clean frame changes.
LEMMA EmptiedFor ==
  ASSUME IInv, NEW t \in Procs, UnmapClean(t)
  PROVE  /\ fr[t] \in Frames /\ lockCnt[fr[t]] = 0 /\ ~io[fr[t]]
         /\ \A p \in Pages : /\ frameOf'[p] = IF frameOf[p] = fr[t] THEN NULL ELSE frameOf[p]
                             /\ frameOf[p] = fr[t] => p \notin pins[Owner[p]]
         /\ pc'[t] = "clean"
         /\ \A u \in Procs \ {t} : /\ pc'[u] = pc[u] /\ pc[u] \notin {"unmap", "clean"}
                                   /\ pc[u] \in Fetching \cup Sharers => /\ at[u] \in Pages /\ frameOf[at[u]] # fr[t]
                                                                         /\ frameOf'[at[u]] = frameOf[at[u]]
                                   /\ pc[u] \in Evicting => fr[u] # fr[t]
<1>1. TypeOK /\ Places /\ LocksCounted /\ Handling
  BY DEF IInv
<1>2. pc[t] = "unmap"
  BY DEF UnmapClean, Unmapped
<1>3. fr[t] \in Frames /\ lockCnt[fr[t]] = 0
  BY <1>1, <1>2 DEF Places, PlaceOf, TypeOK, Handling
<1>4. /\ ~io[fr[t]]
      /\ \A p \in Pages : frameOf[p] = fr[t] => p \notin pins[Owner[p]]
      /\ \A u \in Procs : ~(pc[u] \in Fetching \cup Sharers /\ frameOf[at[u]] = fr[t])
      /\ \A u \in Procs : ~(pc[u] \in Sending /\ fr[u] = fr[t])
  BY <1>1, <1>3, LockZero
<1>5. \A p \in Pages : frameOf'[p] = IF frameOf[p] = fr[t] THEN NULL ELSE frameOf[p]
  BY DEF UnmapClean
<1>6. pc'[t] = "clean" /\ \A u \in Procs \ {t} : pc'[u] = pc[u]
  BY <1>1 DEF UnmapClean, Goto, TypeOK
<1>7. ASSUME NEW u \in Procs \ {t}
      PROVE  /\ pc[u] \notin {"unmap", "clean"}
             /\ pc[u] \in Fetching \cup Sharers => at[u] \in Pages
  BY <1>1, <1>2 DEF Places, PlaceOf, TypeOK
<1> QED BY <1>3, <1>4, <1>5, <1>6, <1>7

\* What the end of a read changes for the processes.
LEMMA LoadDoneFor ==
  ASSUME IInv, NEW t \in Procs, NEW f, LoadDone(t, f)
  PROVE  /\ f \in Frames /\ f = frameOf[at[t]] /\ pc[t] = "finish"
         /\ at[t] \in Pages /\ Owner[at[t]] = t /\ at[t] \notin pins[t]
         /\ pc'[t] = "run" /\ at'[t] = NULL /\ fr'[t] = NULL /\ slot'[t] = NULL /\ keep'[t] = FALSE
         /\ \A u \in Procs \ {t} :
              /\ at'[u] = at[u] /\ fr'[u] = fr[u] /\ slot'[u] = slot[u] /\ keep'[u] = keep[u] /\ pins'[u] = pins[u]
              /\ sawDirty'[u] = sawDirty[u]
              /\ pc[u] \notin {"unmap", "clean"}
              /\ pc[u] \notin Idle => at[u] \in Pages \ {at[t]}
              /\ pc[u] \in Fetching \cup Evicting => Hand(u) # f
              /\ \/ pc'[u] = pc[u]
                 \/ pc[u] = "waitLoad" /\ pc'[u] = "load" /\ frameOf[at[u]] = f
                 \/ pc[u] = "waitShared" /\ pc'[u] = "shared" /\ frameOf[at[u]] = f
                 \/ pc[u] = "waitUnload" /\ pc'[u] = "unload" /\ frameOf[at[u]] = f
<1>0. TypeOK /\ Places /\ Handling
  BY DEF IInv
<1>1. f = frameOf[at[t]] /\ pc[t] = "finish" /\ frameLock = NULL /\ Wakes(t, f) /\ pc'[t] = "run" /\ EndCall(t)
  BY DEF LoadDone
<1>2. PlaceOf(t)
  BY <1>0 DEF Places
<1>3. f \in Frames
  BY <1>0, <1>1, <1>2, OwnPages DEF PlaceOf, TypeOK
<1>4. at'[t] = NULL /\ fr'[t] = NULL /\ slot'[t] = NULL /\ keep'[t] = FALSE
  BY <1>0, <1>1 DEF EndCall, TypeOK
<1>5. ASSUME NEW u \in Procs \ {t}
      PROVE  /\ at'[u] = at[u] /\ fr'[u] = fr[u] /\ slot'[u] = slot[u] /\ keep'[u] = keep[u] /\ pins'[u] = pins[u]
             /\ sawDirty'[u] = sawDirty[u]
             /\ pc[u] \notin {"unmap", "clean"}
             /\ pc[u] \notin Idle => at[u] \in Pages \ {at[t]}
             /\ pc[u] \in Fetching \cup Evicting => Hand(u) # f
  <2>1. PlaceOf(u)
    BY <1>0 DEF Places
  <2>2. /\ at'[u] = at[u] /\ fr'[u] = fr[u] /\ slot'[u] = slot[u] /\ keep'[u] = keep[u] /\ pins'[u] = pins[u]
        /\ sawDirty'[u] = sawDirty[u]
    BY <1>0, <1>1 DEF EndCall, TypeOK
  <2>3. pc[u] \in Fetching \cup Evicting => Hand(u) # f
    BY <1>0, <1>1 DEF Handling, Hand
  <2> QED BY <1>0, <1>1, <2>1, <2>2, <2>3, OwnPages DEF PlaceOf
<1> QED BY <1>0, <1>1, <1>3, <1>4, <1>5, OwnPages, WakesMeans

\* What the end of the last call for a page in a frame changes.
LEMMA DetachedFor ==
  ASSUME IInv, NEW t \in Procs, Detach(t), NEW f, f = frameOf[at[t]]
  PROVE  /\ f \in Frames /\ ~io[f] /\ frameLock = NULL
         /\ at[t] \in Pages /\ Owner[at[t]] = t
         /\ f \notin pool /\ f \in Range(clock)
         /\ frameOf'[at[t]] = NULL /\ \A p \in Pages \ {at[t]} : frameOf'[p] = frameOf[p]
         /\ Once(clock') /\ clock' \in Seq(Frames)
         /\ Range(clock') = IF \A q \in Pages : frameOf[q] = f => q = at[t] THEN Range(clock) \ {f} ELSE Range(clock)
         /\ roFrame' = IF (\A q \in Pages : frameOf[q] = f => q = at[t]) /\ at[t] \in TextPages THEN NULL ELSE roFrame
         /\ pc[t] = "unload" /\ pc'[t] = "release" /\ fr'[t] = f
         /\ \A u \in Procs \ {t} : pc'[u] = pc[u] /\ fr'[u] = fr[u]
         /\ \A u \in Procs \ {t} : pc[u] \notin Idle => at[u] \in Pages \ {at[t]}
         /\ \A u \in Procs : pc[u] \in Fetching => frameOf[at[u]] # f
         /\ \A u \in Procs : pc[u] \in Sending => fr[u] # f
<1>0. TypeOK /\ Places /\ FramesAccounted /\ LocksCounted
  BY DEF IInv
<1>1. /\ pc[t] = "unload" /\ frameLock = NULL /\ f # NULL /\ ~io[f]
      /\ frameOf' = [frameOf EXCEPT ![at[t]] = NULL]
      /\ clock' = IF PagesOn(f) = {at[t]} THEN Without(clock, f) ELSE clock
      /\ roFrame' = IF PagesOn(f) = {at[t]} /\ at[t] \in TextPages THEN NULL ELSE roFrame
      /\ fr' = [fr EXCEPT ![t] = f]
      /\ pc' = [pc EXCEPT ![t] = "release"]
  BY DEF Detach, Goto
<1>2. at[t] \in Pages /\ Owner[at[t]] = t /\ \A u \in Procs \ {t} : pc[u] \notin Idle => at[u] \in Pages \ {at[t]}
  BY <1>0, <1>1, OwnPages
<1>3. f \in Frames
  BY <1>0, <1>1, <1>2 DEF TypeOK
<1>4. f \notin pool /\ f \in Range(clock)
  BY <1>0, <1>2, <1>3 DEF FramesAccounted, PagesOn
<1>5. PagesOn(f) = {at[t]} <=> \A q \in Pages : frameOf[q] = f => q = at[t]
  BY <1>2 DEF PagesOn
<1>6. /\ Once(clock') /\ clock' \in Seq(Frames)
      /\ Range(clock') = IF PagesOn(f) = {at[t]} THEN Range(clock) \ {f} ELSE Range(clock)
  BY <1>0, <1>1, <1>3, <1>4, ClockChanges DEF TypeOK
<1>7. \A u \in Procs : (pc[u] \in Fetching => frameOf[at[u]] # f) /\ (pc[u] \in Sending => fr[u] # f)
  BY <1>0, <1>1, <1>3, IoMeans
<1>8. frameOf'[at[t]] = NULL /\ \A p \in Pages \ {at[t]} : frameOf'[p] = frameOf[p]
  BY <1>0, <1>1, <1>2 DEF TypeOK
<1>9. pc'[t] = "release" /\ fr'[t] = f /\ \A u \in Procs \ {t} : pc'[u] = pc[u] /\ fr'[u] = fr[u]
  BY <1>0, <1>1 DEF TypeOK
<1>10. roFrame' = IF (\A q \in Pages : frameOf[q] = f => q = at[t]) /\ at[t] \in TextPages THEN NULL ELSE roFrame
  BY <1>1, <1>5
<1>11. Range(clock') = IF \A q \in Pages : frameOf[q] = f => q = at[t] THEN Range(clock) \ {f} ELSE Range(clock)
  BY <1>5, <1>6
<1> QED BY <1>1, <1>2, <1>3, <1>4, <1>6, <1>7, <1>8, <1>9, <1>10, <1>11

PageTypes ==
  /\ mapped \subseteq Pages
  /\ frameOf \in [Pages -> Frames \cup {NULL}]
  /\ swapSlot \in [Pages -> Slots \cup {NULL}]
  /\ present \subseteq mapped /\ accessed \subseteq present /\ dirty \subseteq mapped

FrameTypes ==
  /\ pool \subseteq Frames
  /\ clock \in Seq(Frames)
  /\ lockCnt \in [Frames -> Nat]
  /\ io \in [Frames -> BOOLEAN]
  /\ roFrame \in Frames \cup {NULL}
  /\ frameLock \in Procs \cup {NULL}

DataTypes ==
  /\ frameData \in [Frames -> Values \cup {Text}]
  /\ file \in [MapPages -> Values]
  /\ swap \in [Slots -> Values]
  /\ swapMap \subseteq Slots

LocalTypes ==
  /\ pc \in [Procs -> Locs]
  /\ at \in [Procs -> Pages \cup {NULL}]
  /\ keep \in [Procs -> BOOLEAN]
  /\ fr \in [Procs -> Frames \cup {NULL}]
  /\ slot \in [Procs -> Slots \cup {NULL}]
  /\ sawDirty \in [Procs -> BOOLEAN]
  /\ pins \in [Procs -> SUBSET Pages]

LEMMA TypeParts == TypeOK <=> PageTypes /\ FrameTypes /\ DataTypes /\ LocalTypes
BY DEF TypeOK, PageTypes, FrameTypes, DataTypes, LocalTypes

\* Every branch gives the variables values of their types.
LEMMA TypeStep ==
  ASSUME IInv, NEW t \in Procs, GoodStep(t)
  PROVE  TypeOK'
<1>0. TypeOK /\ Places /\ FramesSeparate /\ PinnedStay /\ DataPlaces /\ Presence
  BY DEF IInv
<1> USE <1>0 DEF TypeOK, Places, PlaceOf, FramesSeparate, PinnedStay, DataPlaces, Presence,
    Locs, Doing
<1>1. ASSUME LoadWait(t)
      PROVE  TypeOK'
  <2>1. PageTypes'
    BY <1>1, FunctionUpdate DEF LoadWait, Goto, PageTypes
  <2>2. FrameTypes'
    BY <1>1, FunctionUpdate DEF LoadWait, Goto, FrameTypes
  <2>3. DataTypes'
    BY <1>1, FunctionUpdate DEF LoadWait, Goto, DataTypes
  <2>4. LocalTypes'
    BY <1>1, FunctionUpdate DEF LoadWait, Goto, LocalTypes
  <2> QED BY <2>1, <2>2, <2>3, <2>4 DEF TypeOK, PageTypes, FrameTypes, DataTypes, LocalTypes
<1>2. ASSUME UnloadWait(t)
      PROVE  TypeOK'
  <2>1. PageTypes'
    BY <1>2, FunctionUpdate DEF UnloadWait, Goto, PageTypes
  <2>2. FrameTypes'
    BY <1>2, FunctionUpdate DEF UnloadWait, Goto, FrameTypes
  <2>3. DataTypes'
    BY <1>2, FunctionUpdate DEF UnloadWait, Goto, DataTypes
  <2>4. LocalTypes'
    BY <1>2, FunctionUpdate DEF UnloadWait, Goto, LocalTypes
  <2> QED BY <2>1, <2>2, <2>3, <2>4 DEF TypeOK, PageTypes, FrameTypes, DataTypes, LocalTypes
<1>3. ASSUME PinPresent(t)
      PROVE  TypeOK'
  <2>1. PageTypes'
    BY <1>3, FunctionUpdate DEF PinPresent, Goto, EndCall, PageTypes
  <2>2. FrameTypes'
    BY <1>3, FunctionUpdate DEF PinPresent, Goto, EndCall, FrameTypes
  <2>3. DataTypes'
    BY <1>3, FunctionUpdate DEF PinPresent, Goto, EndCall, DataTypes
  <2>4. LocalTypes'
    BY <1>3, FunctionUpdate DEF PinPresent, Goto, EndCall, LocalTypes
  <2> QED BY <2>1, <2>2, <2>3, <2>4 DEF TypeOK, PageTypes, FrameTypes, DataTypes, LocalTypes
<1>4. ASSUME ShareWait(t)
      PROVE  TypeOK'
  <2>1. PageTypes'
    BY <1>4, FunctionUpdate DEF ShareWait, Goto, MapPage, PageTypes
  <2>2. FrameTypes'
    BY <1>4, FunctionUpdate DEF ShareWait, Goto, MapPage, FrameTypes
  <2>3. DataTypes'
    BY <1>4, FunctionUpdate DEF ShareWait, Goto, MapPage, DataTypes
  <2>4. LocalTypes'
    BY <1>4, FunctionUpdate DEF ShareWait, Goto, MapPage, LocalTypes
  <2> QED BY <2>1, <2>2, <2>3, <2>4 DEF TypeOK, PageTypes, FrameTypes, DataTypes, LocalTypes
<1>5. ASSUME ShareNow(t)
      PROVE  TypeOK'
  <2>1. PageTypes'
    BY <1>5, FunctionUpdate DEF ShareNow, Goto, EndCall, MapPage, KeepCount, PageTypes
  <2>2. FrameTypes'
    BY <1>5, FunctionUpdate DEF ShareNow, Goto, EndCall, MapPage, KeepCount, FrameTypes
  <2>3. DataTypes'
    BY <1>5, FunctionUpdate DEF ShareNow, Goto, EndCall, MapPage, KeepCount, DataTypes
  <2>4. LocalTypes'
    BY <1>5, FunctionUpdate DEF ShareNow, Goto, EndCall, MapPage, KeepCount, LocalTypes
  <2> QED BY <2>1, <2>2, <2>3, <2>4 DEF TypeOK, PageTypes, FrameTypes, DataTypes, LocalTypes
<1>6. ASSUME LoadedShared(t)
      PROVE  TypeOK'
  <2>1. PageTypes'
    BY <1>6, FunctionUpdate DEF LoadedShared, Goto, EndCall, KeepCount, PageTypes
  <2>2. FrameTypes'
    BY <1>6, FunctionUpdate DEF LoadedShared, Goto, EndCall, KeepCount, FrameTypes
  <2>3. DataTypes'
    BY <1>6, FunctionUpdate DEF LoadedShared, Goto, EndCall, KeepCount, DataTypes
  <2>4. LocalTypes'
    BY <1>6, FunctionUpdate DEF LoadedShared, Goto, EndCall, KeepCount, LocalTypes
  <2> QED BY <2>1, <2>2, <2>3, <2>4 DEF TypeOK, PageTypes, FrameTypes, DataTypes, LocalTypes
<1>7. ASSUME Read(t)
      PROVE  TypeOK'
  <2>1. PageTypes'
    BY <1>7, FunctionUpdate DEF Read, Goto, FreeSlot, Source, PageTypes
  <2>2. FrameTypes'
    BY <1>7, FunctionUpdate DEF Read, Goto, FreeSlot, Source, FrameTypes
  <2>3. DataTypes'
    BY <1>7, FunctionUpdate DEF Read, Goto, FreeSlot, Source, DataTypes
  <2>4. LocalTypes'
    BY <1>7, FunctionUpdate DEF Read, Goto, FreeSlot, Source, LocalTypes
  <2> QED BY <2>1, <2>2, <2>3, <2>4 DEF TypeOK, PageTypes, FrameTypes, DataTypes, LocalTypes
<1>8. ASSUME UnmapWrite(t)
      PROVE  TypeOK'
  <2>1. PageTypes'
    BY <1>8, FunctionUpdate DEF UnmapWrite, Unmapped, Goto, PageTypes
  <2>2. FrameTypes'
    BY <1>8, FunctionUpdate DEF UnmapWrite, Unmapped, Goto, FrameTypes
  <2>3. DataTypes'
    BY <1>8, FunctionUpdate DEF UnmapWrite, Unmapped, Goto, DataTypes
  <2>4. LocalTypes'
    BY <1>8, FunctionUpdate DEF UnmapWrite, Unmapped, Goto, LocalTypes
  <2> QED BY <2>1, <2>2, <2>3, <2>4 DEF TypeOK, PageTypes, FrameTypes, DataTypes, LocalTypes
<1>9. ASSUME UnmapClean(t)
      PROVE  TypeOK'
  <2>1. PageTypes'
    BY <1>9, FunctionUpdate DEF UnmapClean, Unmapped, Goto, PageTypes
  <2>2. FrameTypes'
    BY <1>9, FunctionUpdate DEF UnmapClean, Unmapped, Goto, FrameTypes
  <2>3. DataTypes'
    BY <1>9, FunctionUpdate DEF UnmapClean, Unmapped, Goto, DataTypes
  <2>4. LocalTypes'
    BY <1>9, FunctionUpdate DEF UnmapClean, Unmapped, Goto, LocalTypes
  <2> QED BY <2>1, <2>2, <2>3, <2>4 DEF TypeOK, PageTypes, FrameTypes, DataTypes, LocalTypes
<1>10. ASSUME WriteToFile(t)
      PROVE  TypeOK'
  <2>1. PageTypes'
    BY <1>10, FunctionUpdate DEF WriteToFile, Goto, PageTypes
  <2>2. FrameTypes'
    BY <1>10, FunctionUpdate DEF WriteToFile, Goto, FrameTypes
  <2>3. DataTypes'
    BY <1>10, FunctionUpdate DEF WriteToFile, Goto, DataTypes
  <2>4. LocalTypes'
    BY <1>10, FunctionUpdate DEF WriteToFile, Goto, LocalTypes
  <2> QED BY <2>1, <2>2, <2>3, <2>4 DEF TypeOK, PageTypes, FrameTypes, DataTypes, LocalTypes
<1>11. ASSUME FlipSlot(t)
      PROVE  TypeOK'
  <2>1. PageTypes'
    BY <1>11, FunctionUpdate DEF FlipSlot, Goto, PageTypes
  <2>2. FrameTypes'
    BY <1>11, FunctionUpdate DEF FlipSlot, Goto, FrameTypes
  <2>3. DataTypes'
    BY <1>11, FunctionUpdate DEF FlipSlot, Goto, DataTypes
  <2>4. LocalTypes'
    BY <1>11, FunctionUpdate DEF FlipSlot, Goto, LocalTypes
  <2> QED BY <2>1, <2>2, <2>3, <2>4 DEF TypeOK, PageTypes, FrameTypes, DataTypes, LocalTypes
<1>12. ASSUME NEW s \in Slots, TakeSlot(t, s)
      PROVE  TypeOK'
  <2>1. PageTypes'
    BY <1>12, FunctionUpdate DEF TakeSlot, Goto, PageTypes
  <2>2. FrameTypes'
    BY <1>12, FunctionUpdate DEF TakeSlot, Goto, FrameTypes
  <2>3. DataTypes'
    BY <1>12, FunctionUpdate DEF TakeSlot, Goto, DataTypes
  <2>4. LocalTypes'
    BY <1>12, FunctionUpdate DEF TakeSlot, Goto, LocalTypes
  <2> QED BY <2>1, <2>2, <2>3, <2>4 DEF TypeOK, PageTypes, FrameTypes, DataTypes, LocalTypes
<1>13. ASSUME NEW f \in Frames, Choose(t, f)
      PROVE  TypeOK'
  <2>1. PageTypes'
    BY <1>13, FunctionUpdate DEF Choose, NeedsFrame, Goto, PageTypes
  <2>2. FrameTypes'
    BY <1>13, FunctionUpdate DEF Choose, NeedsFrame, Goto, FrameTypes
  <2>3. DataTypes'
    BY <1>13, FunctionUpdate DEF Choose, NeedsFrame, Goto, DataTypes
  <2>4. LocalTypes'
    BY <1>13, FunctionUpdate DEF Choose, NeedsFrame, Goto, LocalTypes
  <2> QED BY <2>1, <2>2, <2>3, <2>4 DEF TypeOK, PageTypes, FrameTypes, DataTypes, LocalTypes
<1>14. ASSUME NEW f \in Frames, LoadDone(t, f)
      PROVE  TypeOK'
  <2>1. PageTypes'
    BY <1>14, FunctionUpdate DEF LoadDone, Wakes, EndCall, KeepCount, PageTypes
  <2>2. FrameTypes'
    BY <1>14, FunctionUpdate DEF LoadDone, Wakes, EndCall, KeepCount, FrameTypes
  <2>3. DataTypes'
    BY <1>14, FunctionUpdate DEF LoadDone, Wakes, EndCall, KeepCount, DataTypes
  <2>4. LocalTypes'
    BY <1>14, FunctionUpdate DEF LoadDone, Wakes, EndCall, KeepCount, LocalTypes
  <2> QED BY <2>1, <2>2, <2>3, <2>4 DEF TypeOK, PageTypes, FrameTypes, DataTypes, LocalTypes
<1>15. ASSUME NEW f \in Frames, InstallLoad(t, f)
      PROVE  TypeOK'
  <2>1. PageTypes'
    BY <1>15, Taken, FunctionUpdate DEF InstallLoad, Installed, Wakes, PageTypes
  <2>2. FrameTypes'
    BY <1>15, Taken, FunctionUpdate DEF InstallLoad, Installed, Wakes, FrameTypes
  <2>3. DataTypes'
    BY <1>15, Taken, FunctionUpdate DEF InstallLoad, Installed, Wakes, DataTypes
  <2>4. LocalTypes'
    BY <1>15, Taken, FunctionUpdate DEF InstallLoad, Installed, Wakes, LocalTypes
  <2> QED BY <2>1, <2>2, <2>3, <2>4 DEF TypeOK, PageTypes, FrameTypes, DataTypes, LocalTypes
<1>16. ASSUME NEW f \in Frames, InstallZero(t, f)
      PROVE  TypeOK'
  <2>1. PageTypes'
    BY <1>16, Taken, FunctionUpdate DEF InstallZero, Installed, Wakes, EndCall, KeepCount, PageTypes
  <2>2. FrameTypes'
    BY <1>16, Taken, FunctionUpdate DEF InstallZero, Installed, Wakes, EndCall, KeepCount, FrameTypes
  <2>3. DataTypes'
    BY <1>16, Taken, FunctionUpdate DEF InstallZero, Installed, Wakes, EndCall, KeepCount, DataTypes
  <2>4. LocalTypes'
    BY <1>16, Taken, FunctionUpdate DEF InstallZero, Installed, Wakes, EndCall, KeepCount, LocalTypes
  <2> QED BY <2>1, <2>2, <2>3, <2>4 DEF TypeOK, PageTypes, FrameTypes, DataTypes, LocalTypes
<1>17. ASSUME Detach(t)
      PROVE  TypeOK'
  <2>1. PageTypes'
    BY <1>17, FunctionUpdate DEF Detach, Goto, PageTypes
  <2>2. FrameTypes'
    BY <1>17, FunctionUpdate DEF Detach, Goto, FrameTypes
  <2>3. DataTypes'
    BY <1>17, FunctionUpdate DEF Detach, Goto, DataTypes
  <2>4. LocalTypes'
    BY <1>17, FunctionUpdate DEF Detach, Goto, LocalTypes
  <2> QED BY <2>1, <2>2, <2>3, <2>4 DEF TypeOK, PageTypes, FrameTypes, DataTypes, LocalTypes
<1>18. ASSUME ReleaseLast(t)
      PROVE  TypeOK'
  <2>1. PageTypes'
    BY <1>18, FunctionUpdate DEF ReleaseLast, Goto, EndCall, FileSaved, PageTypes
  <2>2. FrameTypes'
    BY <1>18, FunctionUpdate DEF ReleaseLast, Goto, EndCall, FileSaved, FrameTypes
  <2>3. DataTypes'
    BY <1>18, FunctionUpdate DEF ReleaseLast, Goto, EndCall, FileSaved, DataTypes
  <2>4. LocalTypes'
    BY <1>18, FunctionUpdate DEF ReleaseLast, Goto, EndCall, FileSaved, LocalTypes
  <2> QED BY <2>1, <2>2, <2>3, <2>4 DEF TypeOK, PageTypes, FrameTypes, DataTypes, LocalTypes
<1>19. ASSUME ReleaseShared(t)
      PROVE  TypeOK'
  <2>1. PageTypes'
    BY <1>19, FunctionUpdate DEF ReleaseShared, Goto, EndCall, PageTypes
  <2>2. FrameTypes'
    BY <1>19, FunctionUpdate DEF ReleaseShared, Goto, EndCall, FrameTypes
  <2>3. DataTypes'
    BY <1>19, FunctionUpdate DEF ReleaseShared, Goto, EndCall, DataTypes
  <2>4. LocalTypes'
    BY <1>19, FunctionUpdate DEF ReleaseShared, Goto, EndCall, LocalTypes
  <2> QED BY <2>1, <2>2, <2>3, <2>4 DEF TypeOK, PageTypes, FrameTypes, DataTypes, LocalTypes
<1>20. ASSUME DropPage(t)
      PROVE  TypeOK'
  <2>1. PageTypes'
    BY <1>20, FunctionUpdate DEF DropPage, Goto, EndCall, FreeSlot, PageTypes
  <2>2. FrameTypes'
    BY <1>20, FunctionUpdate DEF DropPage, Goto, EndCall, FreeSlot, FrameTypes
  <2>3. DataTypes'
    BY <1>20, FunctionUpdate DEF DropPage, Goto, EndCall, FreeSlot, DataTypes
  <2>4. LocalTypes'
    BY <1>20, FunctionUpdate DEF DropPage, Goto, EndCall, FreeSlot, LocalTypes
  <2> QED BY <2>1, <2>2, <2>3, <2>4 DEF TypeOK, PageTypes, FrameTypes, DataTypes, LocalTypes
<1>21. ASSUME NEW p \in Pages, Access(t, p)
      PROVE  TypeOK'
  <2>1. PageTypes'
    BY <1>21, FunctionUpdate DEF Access, PageTypes
  <2>2. FrameTypes'
    BY <1>21, FunctionUpdate DEF Access, FrameTypes
  <2>3. DataTypes'
    BY <1>21, FunctionUpdate DEF Access, DataTypes
  <2>4. LocalTypes'
    BY <1>21, FunctionUpdate DEF Access, LocalTypes
  <2> QED BY <2>1, <2>2, <2>3, <2>4 DEF TypeOK, PageTypes, FrameTypes, DataTypes, LocalTypes
<1>22. ASSUME NEW p \in Pages, CopyToPinned(t, p)
      PROVE  TypeOK'
  <2>1. PageTypes'
    BY <1>22, FunctionUpdate DEF CopyToPinned, PageTypes
  <2>2. FrameTypes'
    BY <1>22, FunctionUpdate DEF CopyToPinned, FrameTypes
  <2>3. DataTypes'
    BY <1>22, FunctionUpdate DEF CopyToPinned, DataTypes
  <2>4. LocalTypes'
    BY <1>22, FunctionUpdate DEF CopyToPinned, LocalTypes
  <2> QED BY <2>1, <2>2, <2>3, <2>4 DEF TypeOK, PageTypes, FrameTypes, DataTypes, LocalTypes
<1>23. ASSUME NEW p \in Pages, Map(t, p)
      PROVE  TypeOK'
  <2>1. PageTypes'
    BY <1>23, FunctionUpdate DEF Map, PageTypes
  <2>2. FrameTypes'
    BY <1>23, FunctionUpdate DEF Map, FrameTypes
  <2>3. DataTypes'
    BY <1>23, FunctionUpdate DEF Map, DataTypes
  <2>4. LocalTypes'
    BY <1>23, FunctionUpdate DEF Map, LocalTypes
  <2> QED BY <2>1, <2>2, <2>3, <2>4 DEF TypeOK, PageTypes, FrameTypes, DataTypes, LocalTypes
<1>24. ASSUME NEW p \in Pages, PageFault(t, p)
      PROVE  TypeOK'
  <2>1. PageTypes'
    BY <1>24, FunctionUpdate DEF PageFault, Call, Goto, PageTypes
  <2>2. FrameTypes'
    BY <1>24, FunctionUpdate DEF PageFault, Call, Goto, FrameTypes
  <2>3. DataTypes'
    BY <1>24, FunctionUpdate DEF PageFault, Call, Goto, DataTypes
  <2>4. LocalTypes'
    BY <1>24, FunctionUpdate DEF PageFault, Call, Goto, LocalTypes
  <2> QED BY <2>1, <2>2, <2>3, <2>4 DEF TypeOK, PageTypes, FrameTypes, DataTypes, LocalTypes
<1>25. ASSUME NEW p \in Pages, Pin(t, p)
      PROVE  TypeOK'
  <2>1. PageTypes'
    BY <1>25, FunctionUpdate DEF Pin, Call, Goto, PageTypes
  <2>2. FrameTypes'
    BY <1>25, FunctionUpdate DEF Pin, Call, Goto, FrameTypes
  <2>3. DataTypes'
    BY <1>25, FunctionUpdate DEF Pin, Call, Goto, DataTypes
  <2>4. LocalTypes'
    BY <1>25, FunctionUpdate DEF Pin, Call, Goto, LocalTypes
  <2> QED BY <2>1, <2>2, <2>3, <2>4 DEF TypeOK, PageTypes, FrameTypes, DataTypes, LocalTypes
<1>26. ASSUME NEW p \in Pages, Unmap(t, p)
      PROVE  TypeOK'
  <2>1. PageTypes'
    BY <1>26, FunctionUpdate DEF Unmap, Call, Goto, PageTypes
  <2>2. FrameTypes'
    BY <1>26, FunctionUpdate DEF Unmap, Call, Goto, FrameTypes
  <2>3. DataTypes'
    BY <1>26, FunctionUpdate DEF Unmap, Call, Goto, DataTypes
  <2>4. LocalTypes'
    BY <1>26, FunctionUpdate DEF Unmap, Call, Goto, LocalTypes
  <2> QED BY <2>1, <2>2, <2>3, <2>4 DEF TypeOK, PageTypes, FrameTypes, DataTypes, LocalTypes
<1>27. ASSUME NEW p \in Pages, Unpin(t, p)
      PROVE  TypeOK'
  <2>1. PageTypes'
    BY <1>27, FunctionUpdate DEF Unpin, Goto, PageTypes
  <2>2. FrameTypes'
    BY <1>27, FunctionUpdate DEF Unpin, Goto, FrameTypes
  <2>3. DataTypes'
    BY <1>27, FunctionUpdate DEF Unpin, Goto, DataTypes
  <2>4. LocalTypes'
    BY <1>27, FunctionUpdate DEF Unpin, Goto, LocalTypes
  <2> QED BY <2>1, <2>2, <2>3, <2>4 DEF TypeOK, PageTypes, FrameTypes, DataTypes, LocalTypes
<1> QED BY <1>1, <1>2, <1>3, <1>4, <1>5, <1>6, <1>7, <1>8, <1>9, <1>10, <1>11, <1>12, <1>13,
  <1>14, <1>15, <1>16, <1>17, <1>18, <1>19, <1>20, <1>21, <1>22, <1>23, <1>24, <1>25, <1>26,
  <1>27 DEF GoodStep, UserStep

LEMMA InstalledPlaces ==
  ASSUME IInv, NEW t \in Procs, NEW f \in Frames, InstallLoad(t, f) \/ InstallZero(t, f)
  PROVE  Places'
<1>0. TypeOK /\ Places
  BY DEF IInv
<1>1. pc[t] \in {"load", "clean", "written"} /\ frameOf'[at[t]] = f
  BY InstalledFor, Taken DEF InstallLoad, InstallZero, Installed
<1>2. PlaceOf(t)
  BY <1>0 DEF Places
<1>3. PlaceOf(t)'
  <2>1. CASE InstallLoad(t, f)
    <3>1. /\ pc'[t] = "read" /\ at'[t] = at[t] /\ fr'[t] = NULL /\ slot'[t] = NULL
          /\ keep'[t] = keep[t] /\ pins'[t] = pins[t] /\ frameLock' = NULL /\ mapped' = mapped
      BY <1>0, <2>1 DEF InstallLoad, Installed, TypeOK
    <3> QED BY <1>1, <1>2, <3>1 DEF PlaceOf
  <2>2. CASE InstallZero(t, f)
    <3>1. /\ pc'[t] = "run" /\ at'[t] = NULL /\ fr'[t] = NULL /\ slot'[t] = NULL /\ keep'[t] = FALSE
          /\ pins'[t] \in {pins[t], pins[t] \cup {at[t]}} /\ frameLock' = NULL
      BY <1>0, <2>2 DEF InstallZero, Installed, EndCall, TypeOK
    <3> QED BY <1>1, <1>2, <3>1 DEF PlaceOf
  <2> QED BY <2>1, <2>2
<1>4. ASSUME NEW u \in Procs \ {t}
      PROVE  PlaceOf(u)'
  <2>1. PlaceOf(u)
    BY <1>0 DEF Places
  <2>2. frameLock' = NULL /\ mapped' = mapped
    BY DEF InstallLoad, InstallZero, Installed
  <2>3. pc[u] \in Evicting \cup {"release"} => frameOf'[at[u]] = NULL
    BY <2>1, InstalledFor DEF PlaceOf
  <2> QED BY <2>1, <2>2, <2>3, InstalledFor DEF PlaceOf
<1> QED BY <1>3, <1>4 DEF Places

LEMMA UnmapCleanPlaces ==
  ASSUME IInv, NEW t \in Procs, UnmapClean(t)
  PROVE  Places'
<1>1. TypeOK /\ Places
  BY DEF IInv
<1>2. UNCHANGED <<mapped, at, keep, fr, slot, pins, frameLock>> /\ pc[t] = "unmap"
  BY DEF UnmapClean, Unmapped
<1>3. ASSUME NEW u \in Procs
      PROVE  PlaceOf(u)'
  <2>1. PlaceOf(u)
    BY <1>1 DEF Places
  <2>2. pc[u] \in Evicting \cup {"release"} => frameOf'[at[u]] = NULL
    BY <1>1, <2>1, OwnPages, EmptiedFor DEF PlaceOf
  <2> QED BY <1>2, <2>1, <2>2, EmptiedFor DEF PlaceOf
<1> QED BY <1>3 DEF Places

LEMMA DetachPlaces ==
  ASSUME IInv, NEW t \in Procs, Detach(t)
  PROVE  Places'
<1>1. TypeOK /\ Places
  BY DEF IInv
<1>2. /\ UNCHANGED <<mapped, at, keep, slot, pins, frameLock>> /\ pc[t] = "unload" 
      /\ frameOf[at[t]] # NULL
  BY DEF Detach
<1>3. /\ frameOf'[at[t]] = NULL /\ \A p \in Pages \ {at[t]} : frameOf'[p] = frameOf[p]
      /\ pc'[t] = "release" /\ fr'[t] # NULL
      /\ \A u \in Procs \ {t} : pc'[u] = pc[u] /\ fr'[u] = fr[u]
  <2>1. at[t] \in Pages
    BY <1>1, <1>2, OwnPages
  <2>2. /\ frameOf' = [frameOf EXCEPT ![at[t]] = NULL]
        /\ fr' = [fr EXCEPT ![t] = frameOf[at[t]]]
        /\ pc' = [pc EXCEPT ![t] = "release"]
    BY DEF Detach, Goto
  <2> QED BY <1>1, <1>2, <2>1, <2>2 DEF TypeOK
<1>4. ASSUME NEW u \in Procs
      PROVE  PlaceOf(u)'
  <2>1. PlaceOf(u) /\ PlaceOf(t)
    BY <1>1 DEF Places
  <2>2. u # t /\ pc[u] \notin Idle => at[u] \in Pages \ {at[t]}
    BY <1>1, <1>2, OwnPages
  <2> QED BY <1>2, <1>3, <2>1, <2>2 DEF PlaceOf
<1> QED BY <1>4 DEF Places

\* Every branch leads a process to a place where its locals are as they should be.
LEMMA PlacesStep ==
  ASSUME IInv, NEW t \in Procs, GoodStep(t)
  PROVE  Places'
<1>0. TypeOK /\ Places /\ FramesSeparate /\ FramePlaces /\ PinnedStay
  BY DEF IInv
<1> USE <1>0 DEF TypeOK, Places, PlaceOf, FramesSeparate, FramePlaces, PinnedStay
<1>1. ASSUME LoadWait(t)
      PROVE  Places'
  BY <1>1 DEF LoadWait, Goto
<1>2. ASSUME UnloadWait(t)
      PROVE  Places'
  BY <1>2 DEF UnloadWait, Goto
<1>3. ASSUME PinPresent(t)
      PROVE  Places'
  BY <1>3 DEF PinPresent, Goto, EndCall
<1>4. ASSUME ShareWait(t)
      PROVE  Places'
  BY <1>4 DEF ShareWait, Goto, MapPage
<1>5. ASSUME ShareNow(t)
      PROVE  Places'
  BY <1>5 DEF ShareNow, Goto, EndCall, MapPage, KeepCount
<1>6. ASSUME LoadedShared(t)
      PROVE  Places'
  BY <1>6 DEF LoadedShared, Goto, EndCall, KeepCount
<1>7. ASSUME Read(t)
      PROVE  Places'
  BY <1>7 DEF Read, Goto, FreeSlot, Source
<1>8. ASSUME UnmapWrite(t)
      PROVE  Places'
  BY <1>8 DEF UnmapWrite, Unmapped, Goto
<1>9. ASSUME UnmapClean(t)
      PROVE  Places'
  BY <1>9, UnmapCleanPlaces
<1>10. ASSUME WriteToFile(t)
      PROVE  Places'
  BY <1>10 DEF WriteToFile, Goto
<1>11. ASSUME FlipSlot(t)
      PROVE  Places'
  BY <1>11 DEF FlipSlot, Goto
<1>12. ASSUME NEW s \in Slots, TakeSlot(t, s)
      PROVE  Places'
  BY <1>12 DEF TakeSlot, Goto
<1>13. ASSUME NEW f \in Frames, Choose(t, f)
      PROVE  Places'
  BY <1>13 DEF Choose, NeedsFrame, Goto
<1>14. ASSUME NEW f \in Frames, LoadDone(t, f)
      PROVE  Places'
  BY <1>14 DEF LoadDone, Wakes, EndCall, KeepCount
<1>15. ASSUME NEW f \in Frames, InstallLoad(t, f)
      PROVE  Places'
  BY <1>15, InstalledPlaces
<1>16. ASSUME NEW f \in Frames, InstallZero(t, f)
      PROVE  Places'
  BY <1>16, InstalledPlaces
<1>17. ASSUME Detach(t)
      PROVE  Places'
  BY <1>17, DetachPlaces
<1>18. ASSUME ReleaseLast(t)
      PROVE  Places'
  BY <1>18 DEF ReleaseLast, Goto, EndCall, FileSaved
<1>19. ASSUME ReleaseShared(t)
      PROVE  Places'
  <2>1. PlaceOf(t) /\ pc[t] = "release" /\ ~keep[t]
    BY <1>19 DEF ReleaseShared
  <2>2. /\ UNCHANGED <<frameOf, frameLock, pins>> /\ mapped' = mapped \ {at[t]}
        /\ pc' = [pc EXCEPT ![t] = "run"] /\ at' = [at EXCEPT ![t] = NULL] /\ keep' = [keep EXCEPT ![t] = FALSE]
        /\ fr' = [fr EXCEPT ![t] = NULL] /\ slot' = [slot EXCEPT ![t] = NULL]
    BY <1>19, <2>1 DEF ReleaseShared, EndCall, Goto
  <2> QED BY <2>1, <2>2
<1>20. ASSUME DropPage(t)
      PROVE  Places'
  BY <1>20 DEF DropPage, Goto, EndCall, FreeSlot
<1>21. ASSUME NEW p \in Pages, Access(t, p)
      PROVE  Places'
  BY <1>21 DEF Access
<1>22. ASSUME NEW p \in Pages, CopyToPinned(t, p)
      PROVE  Places'
  BY <1>22 DEF CopyToPinned
<1>23. ASSUME NEW p \in Pages, Map(t, p)
      PROVE  Places'
  BY <1>23 DEF Map
<1>24. ASSUME NEW p \in Pages, PageFault(t, p)
      PROVE  Places'
  BY <1>24 DEF PageFault, Call, Goto
<1>25. ASSUME NEW p \in Pages, Pin(t, p)
      PROVE  Places'
  BY <1>25 DEF Pin, Call, Goto
<1>26. ASSUME NEW p \in Pages, Unmap(t, p)
      PROVE  Places'
  BY <1>26 DEF Unmap, Call, Goto
<1>27. ASSUME NEW p \in Pages, Unpin(t, p)
      PROVE  Places'
  BY <1>27 DEF Unpin, Goto
<1> QED BY <1>1, <1>2, <1>3, <1>4, <1>5, <1>6, <1>7, <1>8, <1>9, <1>10, <1>11, <1>12, <1>13,
  <1>14, <1>15, <1>16, <1>17, <1>18, <1>19, <1>20, <1>21, <1>22, <1>23, <1>24, <1>25, <1>26,
  <1>27 DEF GoodStep, UserStep

LEMMA InstalledFramePlaces ==
  ASSUME IInv, NEW t \in Procs, NEW f \in Frames, InstallLoad(t, f) \/ InstallZero(t, f)
  PROVE  FramePlaces'
<1>0. TypeOK /\ Places /\ FramePlaces
  BY DEF IInv
<1>1. /\ Takes(t, f) /\ pool' = pool \ {f} /\ Range(clock') = Range(clock) \cup {f} /\ frameLock' = NULL
      /\ roFrame' = IF at[t] \in TextPages /\ roFrame = NULL THEN f ELSE roFrame
      /\ pc'[t] \in {"run", "read"}
  BY DEF InstallLoad, InstallZero, Installed
<1>2. /\ at[t] \in Pages /\ frameOf[at[t]] = NULL /\ roFrame # f /\ frameLock \in {t, NULL}
      /\ \/ f \in pool /\ f \notin Range(clock)
         \/ f \notin pool /\ f \in Range(clock)
  BY <1>1, Taken
<1>3. \A g \in Range(clock)' \ Emptied' : \E p \in Pages : frameOf'[p] = g
  <2> SUFFICES ASSUME NEW g \in Range(clock)' PROVE \E p \in Pages : frameOf'[p] = g
    OBVIOUS
  <2>1. CASE g = f
    BY <1>2, <2>1, InstalledFor
  <2>2. CASE g # f
    <3>1. g \in Range(clock) \ Emptied
      BY <1>0, <1>1, <1>2, <2>2 DEF Emptied, Takes, NeedsFrame
    <3>2. PICK p \in Pages : frameOf[p] = g
      BY <1>0, <3>1 DEF FramePlaces
    <3>3. NULL \notin Range(clock)
      BY <1>0, RangeContains DEF TypeOK
    <3>4. frameOf'[p] = g
      BY <1>2, <2>2, <3>1, <3>2, <3>3, InstalledFor
    <3> QED BY <3>4
  <2> QED BY <2>1, <2>2
<1>4. ASSUME NEW u \in Procs
      PROVE  (/\ pc[u] \in Evicting => fr[u] \in Range(clock)
              /\ pc[u] = "clean" => \A p \in Pages : frameOf[p] # fr[u]
              /\ pc[u] = "release" => fr[u] \notin pool
              /\ pc[u] = "release" /\ at[u] \notin TextPages => fr[u] \notin Range(clock))'
  <2>1. CASE u = t
    BY <1>1, <2>1
  <2>2. CASE u # t
    <3>1. pc'[u] \in Evicting \cup {"release"} => pc[u] = pc'[u] /\ pc[u] # "clean" /\ fr'[u] = fr[u] /\ at'[u] = at[u]
      BY <2>2, InstalledFor
    <3> QED BY <1>0, <1>1, <1>2, <3>1 DEF FramePlaces
  <2> QED BY <2>1, <2>2
<1>5. (roFrame # NULL =>
         /\ roFrame \in Range(clock)
         /\ \E p \in Pages : frameOf[p] = roFrame
         /\ \A p \in Pages : frameOf[p] = roFrame => p \in TextPages)'
  <2>1. CASE roFrame = NULL
    BY <1>1, <1>2, <2>1, InstalledFor
  <2>2. CASE roFrame # NULL
    <3>1. roFrame' = roFrame
      BY <1>1, <2>2
    <3>2. \A p \in Pages : frameOf'[p] = roFrame <=> frameOf[p] = roFrame
      BY <1>2, <2>2, InstalledFor
    <3> QED BY <1>0, <1>1, <2>2, <3>1, <3>2 DEF FramePlaces
  <2> QED BY <2>1, <2>2
<1> QED BY <1>3, <1>4, <1>5 DEF FramePlaces

LEMMA LoadDoneFramePlaces ==
  ASSUME IInv, NEW t \in Procs, NEW f \in Frames, LoadDone(t, f)
  PROVE  FramePlaces'
<1>0. TypeOK /\ Places /\ FramePlaces
  BY DEF IInv
<1>1. UNCHANGED <<frameOf, pool, clock, roFrame, frameLock>> /\ frameLock = NULL
  BY DEF LoadDone
<1>2. ASSUME NEW u \in Procs, pc'[u] \in Evicting \cup {"release"}
      PROVE  pc[u] = pc'[u] /\ fr'[u] = fr[u] /\ at'[u] = at[u]
  BY <1>2, LoadDoneFor
<1>3. Emptied = {} /\ Emptied' = {}
  BY <1>1 DEF Emptied
<1> QED BY <1>0, <1>1, <1>2, <1>3 DEF FramePlaces

LEMMA DetachFramePlaces ==
  ASSUME IInv, NEW t \in Procs, Detach(t)
  PROVE  FramePlaces'
<1> DEFINE f == frameOf[at[t]]
           last == \A q \in Pages : frameOf[q] = f => q = at[t]
<1>0. TypeOK /\ Places /\ FramePlaces /\ FramesSeparate
  BY DEF IInv
<1>1. UNCHANGED <<at, pool, frameLock>> /\ frameLock = NULL /\ f # NULL
  BY DEF Detach
<1>2. /\ f \in Frames /\ f \notin pool
      /\ at[t] \in Pages /\ frameOf'[at[t]] = NULL /\ \A p \in Pages \ {at[t]} : frameOf'[p] = frameOf[p]
      /\ Range(clock') = IF last THEN Range(clock) \ {f} ELSE Range(clock)
      /\ roFrame' = IF last /\ at[t] \in TextPages THEN NULL ELSE roFrame
      /\ pc'[t] = "release" /\ fr'[t] = f
      /\ \A u \in Procs \ {t} : pc'[u] = pc[u] /\ fr'[u] = fr[u]
      /\ \A u \in Procs : pc[u] \in Sending => fr[u] # f
  BY DetachedFor
<1>3. at[t] \notin TextPages => last
  BY <1>0, <1>1, <1>2 DEF FramesSeparate
<1>4. Emptied = {} /\ Emptied' = {}
  BY <1>1 DEF Emptied
<1> HIDE DEF f
<1>5. \A g \in Range(clock)' : \E p \in Pages : frameOf'[p] = g
  <2> SUFFICES ASSUME NEW g \in Range(clock)' PROVE \E p \in Pages : frameOf'[p] = g
    OBVIOUS
  <2>1. PICK p \in Pages : frameOf[p] = g
    BY <1>0, <1>2, <1>4 DEF FramePlaces
  <2>2. CASE p # at[t]
    BY <1>2, <2>1, <2>2
  <2>3. CASE p = at[t]
    <3>1. g = f /\ ~last
      BY <1>2, <2>1, <2>3 DEF f
    <3> QED BY <1>2, <3>1
  <2> QED BY <2>2, <2>3
<1>6. ASSUME NEW u \in Procs
      PROVE  (/\ pc[u] \in Evicting => fr[u] \in Range(clock)
              /\ pc[u] = "clean" => \A p \in Pages : frameOf[p] # fr[u]
              /\ pc[u] = "release" => fr[u] \notin pool
              /\ pc[u] = "release" /\ at[u] \notin TextPages => fr[u] \notin Range(clock))'
  <2>1. CASE u = t
    BY <1>1, <1>2, <1>3, <2>1
  <2>2. CASE u # t
    <3>1. pc[u] \notin {"unmap", "clean"}
      BY <1>0, <1>1 DEF Places, PlaceOf
    <3> QED BY <1>0, <1>1, <1>2, <2>2, <3>1 DEF FramePlaces
  <2> QED BY <2>1, <2>2
<1>7. (roFrame # NULL =>
         /\ roFrame \in Range(clock)
         /\ \E p \in Pages : frameOf[p] = roFrame
         /\ \A p \in Pages : frameOf[p] = roFrame => p \in TextPages)'
  <2> SUFFICES ASSUME roFrame' # NULL
               PROVE  /\ roFrame' \in Range(clock')
                      /\ \E p \in Pages : frameOf'[p] = roFrame'
                      /\ \A p \in Pages : frameOf'[p] = roFrame' => p \in TextPages
    OBVIOUS
  <2>1. roFrame' = roFrame /\ ~(last /\ at[t] \in TextPages)
    BY <1>2
  <2>2. /\ roFrame \in Range(clock)
        /\ \A p \in Pages : frameOf[p] = roFrame => p \in TextPages
    BY <1>0, <2>1 DEF FramePlaces
  <2>3. roFrame' \in Range(clock')
    BY <1>2, <2>1, <2>2 DEF f
  <2>4. \E p \in Pages : frameOf'[p] = roFrame'
    BY <1>5, <2>3
  <2> QED BY <1>2, <2>1, <2>2, <2>3, <2>4
<1> QED BY <1>4, <1>5, <1>6, <1>7 DEF FramePlaces

LEMMA SharedFramePlaces ==
  ASSUME IInv, NEW t \in Procs, ShareWait(t) \/ ShareNow(t)
  PROVE  FramePlaces'
<1>0. TypeOK /\ Places /\ FramePlaces
  BY DEF IInv
<1>1. /\ UNCHANGED <<pool, clock, roFrame, frameLock>> /\ frameLock = NULL /\ roFrame # NULL
      /\ pc[t] = "load" /\ at[t] \in TextPages
      /\ frameOf' = [frameOf EXCEPT ![at[t]] = roFrame]
      /\ at'[t] \in {at[t], NULL} /\ pc'[t] \in {"waitShared", "run"} /\ frameOf[at[t]] = NULL
      /\ \A u \in Procs \ {t} : at'[u] = at[u] /\ pc'[u] = pc[u] /\ fr'[u] = fr[u]
  BY <1>0 DEF ShareWait, ShareNow, Goto, EndCall, TypeOK
<1>2. at[t] \in Pages /\ frameOf'[at[t]] = roFrame /\ \A p \in Pages \ {at[t]} : frameOf'[p] = frameOf[p]
  BY <1>0, <1>1 DEF Pages, TypeOK
<1>3. Emptied = {} /\ Emptied' = {}
  BY <1>1 DEF Emptied
<1>4. \A g \in Range(clock)' : \E p \in Pages : frameOf'[p] = g
  <2> SUFFICES ASSUME NEW g \in Range(clock)' PROVE \E p \in Pages : frameOf'[p] = g
    OBVIOUS
  <2>1. PICK p \in Pages : frameOf[p] = g
    BY <1>0, <1>1, <1>3 DEF FramePlaces
  <2>2. NULL \notin Range(clock)
    BY <1>0, RangeContains DEF TypeOK
  <2>3. frameOf'[p] = g
    BY <1>1, <1>2, <2>1, <2>2
  <2> QED BY <2>3
<1>5. ASSUME NEW u \in Procs
      PROVE  (/\ pc[u] \in Evicting => fr[u] \in Range(clock)
              /\ pc[u] = "clean" => \A p \in Pages : frameOf[p] # fr[u]
              /\ pc[u] = "release" => fr[u] \notin pool
              /\ pc[u] = "release" /\ at[u] \notin TextPages => fr[u] \notin Range(clock))'
  <2>1. pc[u] # "clean"
    BY <1>0, <1>1 DEF Places, PlaceOf
  <2> QED BY <1>0, <1>1, <2>1 DEF FramePlaces
<1> QED BY <1>0, <1>1, <1>2, <1>3, <1>4, <1>5 DEF FramePlaces

\* Every branch keeps the frames where they should be.
LEMMA FramePlacesStep ==
  ASSUME IInv, NEW t \in Procs, GoodStep(t)
  PROVE  FramePlaces'
<1>0. TypeOK /\ Places /\ FramesAccounted /\ FramesSeparate /\ FramePlaces /\ Handling
  BY DEF IInv
<1> USE <1>0 DEF TypeOK, Places, PlaceOf, FramesAccounted, PagesOn, FramesSeparate, FramePlaces,
    Handling, Hand, Emptied
<1>1. ASSUME LoadWait(t)
      PROVE  FramePlaces'
  BY <1>1 DEF LoadWait, Goto
<1>2. ASSUME UnloadWait(t)
      PROVE  FramePlaces'
  BY <1>2 DEF UnloadWait, Goto
<1>3. ASSUME PinPresent(t)
      PROVE  FramePlaces'
  BY <1>3 DEF PinPresent, Goto, EndCall
<1>4. ASSUME ShareWait(t)
      PROVE  FramePlaces'
  BY <1>4, SharedFramePlaces
<1>5. ASSUME ShareNow(t)
      PROVE  FramePlaces'
  BY <1>5, SharedFramePlaces
<1>6. ASSUME LoadedShared(t)
      PROVE  FramePlaces'
  BY <1>6 DEF LoadedShared, Goto, EndCall, KeepCount
<1>7. ASSUME Read(t)
      PROVE  FramePlaces'
  BY <1>7 DEF Read, Goto, FreeSlot, Source
<1>8. ASSUME UnmapWrite(t)
      PROVE  FramePlaces'
  <2>1. Emptied = {} /\ Emptied' = {}
    BY <1>8 DEF UnmapWrite, Unmapped, Emptied
  <2>2. UNCHANGED <<at, fr, frameOf, pool, clock, roFrame>> /\ pc[t] = "unmap" /\ pc' = [pc EXCEPT ![t] = "write"]
    BY <1>8 DEF UnmapWrite, Unmapped, Goto
  <2> QED BY <2>1, <2>2
<1>9. ASSUME UnmapClean(t)
      PROVE  FramePlaces'
  <2>1. (\A f \in Range(clock) \ Emptied : \E p \in Pages : frameOf[p] = f)'
    BY <1>9 DEF UnmapClean, Unmapped, Goto
  <2>2. (\A u \in Procs : pc[u] \in Evicting => fr[u] \in Range(clock))'
    BY <1>9 DEF UnmapClean, Unmapped, Goto
  <2>3. (\A u \in Procs : pc[u] = "clean" => \A p \in Pages : frameOf[p] # fr[u])'
    BY <1>9 DEF UnmapClean, Unmapped, Goto
  <2>4. (\A u \in Procs : pc[u] = "release" => fr[u] \notin pool)'
    BY <1>9 DEF UnmapClean, Unmapped, Goto
  <2>5. (\A u \in Procs :
           pc[u] = "release" /\ at[u] \notin TextPages => fr[u] \notin Range(clock))'
    BY <1>9 DEF UnmapClean, Unmapped, Goto
  <2>6. (roFrame # NULL =>
       /\ roFrame \in Range(clock)
       /\ \E p \in Pages : frameOf[p] = roFrame
       /\ \A p \in Pages : frameOf[p] = roFrame => p \in TextPages)'
    BY <1>9 DEF UnmapClean, Unmapped, Goto
    <2> QED BY <2>1, <2>2, <2>3, <2>4, <2>5, <2>6 DEF FramePlaces
<1>10. ASSUME WriteToFile(t)
      PROVE  FramePlaces'
  BY <1>10 DEF WriteToFile, Goto
<1>11. ASSUME FlipSlot(t)
      PROVE  FramePlaces'
  BY <1>11 DEF FlipSlot, Goto
<1>12. ASSUME NEW s \in Slots, TakeSlot(t, s)
      PROVE  FramePlaces'
  BY <1>12 DEF TakeSlot, Goto
<1>13. ASSUME NEW f \in Frames, Choose(t, f)
      PROVE  FramePlaces'
  <2>1. (\A g \in Range(clock) \ Emptied : \E p \in Pages : frameOf[p] = g)'
    BY <1>13 DEF Choose, NeedsFrame, Goto
  <2>2. (\A u \in Procs : pc[u] \in Evicting => fr[u] \in Range(clock))'
    BY <1>13 DEF Choose, NeedsFrame, Goto
  <2>3. (\A u \in Procs : pc[u] = "clean" => \A p \in Pages : frameOf[p] # fr[u])'
    BY <1>13 DEF Choose, NeedsFrame, Goto
  <2>4. (\A u \in Procs : pc[u] = "release" => fr[u] \notin pool)'
    BY <1>13 DEF Choose, NeedsFrame, Goto
  <2>5. (\A u \in Procs :
           pc[u] = "release" /\ at[u] \notin TextPages => fr[u] \notin Range(clock))'
    BY <1>13 DEF Choose, NeedsFrame, Goto
  <2>6. (roFrame # NULL =>
       /\ roFrame \in Range(clock)
       /\ \E p \in Pages : frameOf[p] = roFrame
       /\ \A p \in Pages : frameOf[p] = roFrame => p \in TextPages)'
    BY <1>13 DEF Choose, NeedsFrame, Goto
    <2> QED BY <2>1, <2>2, <2>3, <2>4, <2>5, <2>6 DEF FramePlaces
<1>14. ASSUME NEW f \in Frames, LoadDone(t, f)
      PROVE  FramePlaces'
  BY <1>14, LoadDoneFramePlaces
<1>15. ASSUME NEW f \in Frames, InstallLoad(t, f)
      PROVE  FramePlaces'
  BY <1>15, InstalledFramePlaces
<1>16. ASSUME NEW f \in Frames, InstallZero(t, f)
      PROVE  FramePlaces'
  BY <1>16, InstalledFramePlaces
<1>17. ASSUME Detach(t)
      PROVE  FramePlaces'
  BY <1>17, DetachFramePlaces
<1>18. ASSUME ReleaseLast(t)
      PROVE  FramePlaces'
  BY <1>18 DEF ReleaseLast, Goto, EndCall, FileSaved
<1>19. ASSUME ReleaseShared(t)
      PROVE  FramePlaces'
  BY <1>19 DEF ReleaseShared, Goto, EndCall
<1>20. ASSUME DropPage(t)
      PROVE  FramePlaces'
  BY <1>20 DEF DropPage, Goto, EndCall, FreeSlot
<1>21. ASSUME NEW p \in Pages, Access(t, p)
      PROVE  FramePlaces'
  BY <1>21 DEF Access
<1>22. ASSUME NEW p \in Pages, CopyToPinned(t, p)
      PROVE  FramePlaces'
  BY <1>22 DEF CopyToPinned
<1>23. ASSUME NEW p \in Pages, Map(t, p)
      PROVE  FramePlaces'
  BY <1>23 DEF Map
<1>24. ASSUME NEW p \in Pages, PageFault(t, p)
      PROVE  FramePlaces'
  BY <1>24 DEF PageFault, Call, Goto
<1>25. ASSUME NEW p \in Pages, Pin(t, p)
      PROVE  FramePlaces'
  BY <1>25 DEF Pin, Call, Goto
<1>26. ASSUME NEW p \in Pages, Unmap(t, p)
      PROVE  FramePlaces'
  BY <1>26 DEF Unmap, Call, Goto
<1>27. ASSUME NEW p \in Pages, Unpin(t, p)
      PROVE  FramePlaces'
  BY <1>27 DEF Unpin, Goto
<1> QED BY <1>1, <1>2, <1>3, <1>4, <1>5, <1>6, <1>7, <1>8, <1>9, <1>10, <1>11, <1>12, <1>13,
  <1>14, <1>15, <1>16, <1>17, <1>18, <1>19, <1>20, <1>21, <1>22, <1>23, <1>24, <1>25, <1>26,
  <1>27 DEF GoodStep, UserStep

LEMMA InstalledHandling ==
  ASSUME IInv, NEW t \in Procs, NEW f \in Frames, InstallLoad(t, f) \/ InstallZero(t, f)
  PROVE  Handling'
<1>0. TypeOK /\ Places /\ Handling
  BY DEF IInv
<1>1. /\ pc'[t] \in {"run", "read"} /\ present' = present \cup {at[t]}
      /\ pc'[t] = "read" => at'[t] = at[t]
  BY DEF InstallLoad, InstallZero, Installed
<1>2. frameOf'[at[t]] = f
  BY InstalledFor
<1>3. ASSUME NEW u \in Procs \ {t}, pc'[u] \in Fetching \cup Evicting
      PROVE  /\ pc'[u] = pc[u] /\ fr'[u] = fr[u] /\ slot'[u] = slot[u] /\ sawDirty'[u] = sawDirty[u]
             /\ pc[u] \notin {"unmap", "clean"}
             /\ pc[u] \in Evicting => fr[u] \notin {f, NULL}
             /\ Hand(u)' = Hand(u) /\ Hand(u) # f
  <2>1. pc'[u] = pc[u]
    BY <1>3, InstalledFor
  <2>2. PlaceOf(u)
    BY <1>0 DEF Places
  <2> QED BY <1>3, <2>1, <2>2, InstalledFor DEF Hand, PlaceOf
<1>4. pc'[t] \in Fetching \cup Evicting => Hand(t)' = f
  BY <1>1, <1>2 DEF Hand
<1>5. \A p \in Pages : frameOf'[p] \notin {f, NULL} => frameOf'[p] = frameOf[p] /\ p # at[t]
  BY <1>2, InstalledFor
<1>6. ASSUME NEW u \in Procs, NEW v \in Procs, pc'[u] \in Fetching \cup Evicting, pc'[v] \in Fetching \cup Evicting,
             Hand(u)' = Hand(v)'
      PROVE  u = v
  <2>1. CASE u = t \/ v = t
    BY <1>3, <1>4, <1>6, <2>1
  <2>2. CASE u # t /\ v # t
    BY <1>0, <1>3, <1>6, <2>2 DEF Handling
  <2> QED BY <2>1, <2>2
<1>7. ASSUME NEW u \in Procs
      PROVE  (/\ pc[u] \in {"unmap", "clean"} => lockCnt[fr[u]] = 0
              /\ pc[u] \in Sending => \A p \in Pages : frameOf[p] = fr[u] => p \notin TextPages \cup present
              /\ pc[u] = "flip" => \A p \in Pages : frameOf[p] = fr[u] => p \in SwapPages
              /\ pc[u] = "written" => \A p \in Pages : frameOf[p] = fr[u] => (p \in SwapPages <=> slot[u] # NULL)
              /\ pc[u] = "unmap" /\ sawDirty[u] => \A p \in Pages : frameOf[p] = fr[u] => p \notin TextPages)'
  <2>1. CASE pc'[u] \in Sending
    <3>1. u # t /\ pc'[u] = pc[u] /\ fr'[u] = fr[u] /\ slot'[u] = slot[u] /\ fr[u] \notin {f, NULL}
      BY <1>1, <1>3, <2>1
    <3>2. \A p \in Pages : frameOf'[p] = fr[u] => frameOf[p] = fr[u] /\ p # at[t]
      BY <1>5, <3>1
    <3> QED BY <1>0, <1>1, <2>1, <3>1, <3>2 DEF Handling
  <2>2. CASE pc'[u] \notin Sending
    <3>1. pc'[u] \notin {"unmap", "clean"}
      BY <1>1, <1>3
    <3> QED BY <2>2, <3>1
  <2> QED BY <2>1, <2>2
<1> QED BY <1>6, <1>7 DEF Handling

LEMMA LoadDoneHandling ==
  ASSUME IInv, NEW t \in Procs, NEW f \in Frames, LoadDone(t, f)
  PROVE  Handling'
<1>0. TypeOK /\ Places /\ Handling
  BY DEF IInv
<1>1. UNCHANGED <<frameOf, present>>
  BY DEF LoadDone
<1>2. ASSUME NEW u \in Procs, pc'[u] \in Fetching \cup Evicting
      PROVE  /\ pc'[u] = pc[u] /\ fr'[u] = fr[u] /\ slot'[u] = slot[u] /\ sawDirty'[u] = sawDirty[u]
             /\ pc[u] \notin {"unmap", "clean"}
             /\ Hand(u)' = Hand(u)
  BY <1>1, <1>2, LoadDoneFor DEF Hand
<1> QED BY <1>0, <1>1, <1>2 DEF Handling

LEMMA ChooseHandling ==
  ASSUME IInv, NEW t \in Procs, NEW f \in Frames, Choose(t, f)
  PROVE  Handling'
<1>0. TypeOK /\ Places /\ Handling /\ Presence /\ LocksCounted
  BY DEF IInv
<1>1. /\ lockCnt[f] = 0 /\ frameLock = NULL /\ pc[t] = "load"
      /\ UNCHANGED <<frameOf, present, lockCnt, slot, at>>
      /\ pc'[t] = "unmap" /\ fr'[t] = f /\ sawDirty'[t] = \E p \in dirty : frameOf[p] = f
      /\ \A u \in Procs \ {t} : pc'[u] = pc[u] /\ fr'[u] = fr[u] /\ sawDirty'[u] = sawDirty[u]
  BY <1>0 DEF Choose, NeedsFrame, Goto, TypeOK
<1>2. \A u \in Procs : pc[u] \notin {"unmap", "clean"}
  BY <1>0, <1>1 DEF Places, PlaceOf
<1>3. \A u \in Procs : pc[u] \in Fetching \cup Evicting => Hand(u) # f
  BY <1>0, <1>1, <1>2, LockZero DEF Hand
<1>4. \A u \in Procs \ {t} : Hand(u)' = Hand(u)
  BY <1>1 DEF Hand
<1>5. Hand(t)' = f
  BY <1>1 DEF Hand
<1>6. ASSUME NEW u \in Procs, NEW v \in Procs, pc'[u] \in Fetching \cup Evicting, pc'[v] \in Fetching \cup Evicting,
             Hand(u)' = Hand(v)'
      PROVE  u = v
  <2>1. CASE u = t \/ v = t
    BY <1>1, <1>3, <1>4, <1>5, <1>6, <2>1
  <2>2. CASE u # t /\ v # t
    BY <1>0, <1>1, <1>4, <1>6, <2>2 DEF Handling
  <2> QED BY <2>1, <2>2
<1>7. (\A p \in Pages : frameOf[p] = f => p \notin TextPages) \/ ~sawDirty'[t]
  <2> SUFFICES ASSUME sawDirty'[t], NEW p \in Pages, frameOf[p] = f
               PROVE  p \notin TextPages
    OBVIOUS
  <2>1. PICK q \in dirty : frameOf[q] = f
    BY <1>1
  <2>2. q \in Pages /\ q \notin TextPages
    BY <1>0, <2>1 DEF Presence, TypeOK
  <2>3. FramesSeparate
    BY DEF IInv
  <2> QED BY <2>1, <2>2, <2>3 DEF FramesSeparate
<1>8. ASSUME NEW u \in Procs
      PROVE  /\ pc'[u] \in {"unmap", "clean"} => lockCnt[fr'[u]] = 0
             /\ pc'[u] \in Sending => \A p \in Pages : frameOf[p] = fr'[u] => p \notin TextPages \cup present
             /\ pc'[u] = "flip" => \A p \in Pages : frameOf[p] = fr'[u] => p \in SwapPages
             /\ pc'[u] = "written" => \A p \in Pages : frameOf[p] = fr'[u] => (p \in SwapPages <=> slot[u] # NULL)
             /\ pc'[u] = "unmap" /\ sawDirty'[u] => \A p \in Pages : frameOf[p] = fr'[u] => p \notin TextPages
  <2>1. CASE u = t
    BY <1>1, <1>7, <2>1
  <2>2. CASE u # t
    <3>1. pc'[u] = pc[u] /\ fr'[u] = fr[u] /\ sawDirty'[u] = sawDirty[u]
      BY <1>1, <2>2
    <3> QED BY <1>0, <1>2, <3>1 DEF Handling
  <2> QED BY <2>1, <2>2
<1> QED BY <1>1, <1>6, <1>8 DEF Handling

\* Every branch leaves each frame in one hand.
LEMMA HandlingStep ==
  ASSUME IInv, NEW t \in Procs, GoodStep(t)
  PROVE  Handling'
<1>0. TypeOK /\ Places /\ FramesAccounted /\ FramesSeparate /\ FramePlaces /\ Handling /\
    Presence
  BY DEF IInv
<1> USE <1>0 DEF TypeOK, Places, PlaceOf, FramesSeparate, FramePlaces, Handling, Hand, Presence,
    PagesOn
<1>1. ASSUME LoadWait(t)
      PROVE  Handling'
  BY <1>1 DEF LoadWait, Goto
<1>2. ASSUME UnloadWait(t)
      PROVE  Handling'
  BY <1>2 DEF UnloadWait, Goto
<1>3. ASSUME PinPresent(t)
      PROVE  Handling'
  BY <1>3 DEF PinPresent, Goto, EndCall
<1>4. ASSUME ShareWait(t)
      PROVE  Handling'
  BY <1>4 DEF ShareWait, Goto, MapPage
<1>5. ASSUME ShareNow(t)
      PROVE  Handling'
  BY <1>5 DEF ShareNow, Goto, EndCall, MapPage, KeepCount
<1>6. ASSUME LoadedShared(t)
      PROVE  Handling'
  BY <1>6 DEF LoadedShared, Goto, EndCall, KeepCount
<1>7. ASSUME Read(t)
      PROVE  Handling'
  BY <1>7 DEF Read, Goto, FreeSlot, Source
<1>8. ASSUME UnmapWrite(t)
      PROVE  Handling'
  BY <1>8 DEF UnmapWrite, Unmapped, Goto
<1>9. ASSUME UnmapClean(t)
      PROVE  Handling'
  <2>1. (\A v, u \in Procs :
           pc[v] \in Fetching \cup Evicting /\ pc[u] \in Fetching \cup Evicting /\ Hand(v) = Hand(u) => v = u)'
    BY <1>9 DEF UnmapClean, Unmapped, Goto
  <2>2. (\A u \in Procs : pc[u] \in {"unmap", "clean"} => lockCnt[fr[u]] = 0)'
    BY <1>9 DEF UnmapClean, Unmapped, Goto
  <2>3. (\A u \in Procs :
           pc[u] \in Sending => \A p \in Pages : frameOf[p] = fr[u] => p \notin TextPages \cup present)'
    BY <1>9 DEF UnmapClean, Unmapped, Goto
  <2>4. (\A u \in Procs :
           pc[u] = "flip" => \A p \in Pages : frameOf[p] = fr[u] => p \in SwapPages)'
    BY <1>9 DEF UnmapClean, Unmapped, Goto
  <2>5. (\A u \in Procs :
           pc[u] = "written" => \A p \in Pages : frameOf[p] = fr[u] => (p \in SwapPages <=> slot[u] # NULL))'
    BY <1>9 DEF UnmapClean, Unmapped, Goto
  <2>6. (\A u \in Procs :
           pc[u] = "unmap" /\ sawDirty[u] => \A p \in Pages : frameOf[p] = fr[u] => p \notin TextPages)'
    BY <1>9 DEF UnmapClean, Unmapped, Goto
    <2> QED BY <2>1, <2>2, <2>3, <2>4, <2>5, <2>6 DEF Handling
<1>10. ASSUME WriteToFile(t)
      PROVE  Handling'
  <2>1. (\A v, u \in Procs :
           pc[v] \in Fetching \cup Evicting /\ pc[u] \in Fetching \cup Evicting /\ Hand(v) = Hand(u) => v = u)'
    BY <1>10 DEF WriteToFile, Goto
  <2>2. (\A u \in Procs : pc[u] \in {"unmap", "clean"} => lockCnt[fr[u]] = 0)'
    BY <1>10 DEF WriteToFile, Goto
  <2>3. (\A u \in Procs :
           pc[u] \in Sending => \A p \in Pages : frameOf[p] = fr[u] => p \notin TextPages \cup present)'
    BY <1>10 DEF WriteToFile, Goto
  <2>4. (\A u \in Procs :
           pc[u] = "flip" => \A p \in Pages : frameOf[p] = fr[u] => p \in SwapPages)'
    BY <1>10 DEF WriteToFile, Goto
  <2>5. (\A u \in Procs :
           pc[u] = "written" => \A p \in Pages : frameOf[p] = fr[u] => (p \in SwapPages <=> slot[u] # NULL))'
    BY <1>10 DEF WriteToFile, Goto
  <2>6. (\A u \in Procs :
           pc[u] = "unmap" /\ sawDirty[u] => \A p \in Pages : frameOf[p] = fr[u] => p \notin TextPages)'
    BY <1>10 DEF WriteToFile, Goto
    <2> QED BY <2>1, <2>2, <2>3, <2>4, <2>5, <2>6 DEF Handling
<1>11. ASSUME FlipSlot(t)
      PROVE  Handling'
  BY <1>11 DEF FlipSlot, Goto
<1>12. ASSUME NEW s \in Slots, TakeSlot(t, s)
      PROVE  Handling'
  BY <1>12 DEF TakeSlot, Goto
<1>13. ASSUME NEW f \in Frames, Choose(t, f)
      PROVE  Handling'
  BY <1>13, ChooseHandling
<1>14. ASSUME NEW f \in Frames, LoadDone(t, f)
      PROVE  Handling'
  BY <1>14, LoadDoneHandling
<1>15. ASSUME NEW f \in Frames, InstallLoad(t, f)
      PROVE  Handling'
  BY <1>15, InstalledHandling
<1>16. ASSUME NEW f \in Frames, InstallZero(t, f)
      PROVE  Handling'
  BY <1>16, InstalledHandling
<1>17. ASSUME Detach(t)
      PROVE  Handling'
  BY <1>17 DEF Detach, Goto
<1>18. ASSUME ReleaseLast(t)
      PROVE  Handling'
  BY <1>18 DEF ReleaseLast, Goto, EndCall, FileSaved
<1>19. ASSUME ReleaseShared(t)
      PROVE  Handling'
  BY <1>19 DEF ReleaseShared, Goto, EndCall
<1>20. ASSUME DropPage(t)
      PROVE  Handling'
  BY <1>20 DEF DropPage, Goto, EndCall, FreeSlot
<1>21. ASSUME NEW p \in Pages, Access(t, p)
      PROVE  Handling'
  BY <1>21 DEF Access
<1>22. ASSUME NEW p \in Pages, CopyToPinned(t, p)
      PROVE  Handling'
  BY <1>22 DEF CopyToPinned
<1>23. ASSUME NEW p \in Pages, Map(t, p)
      PROVE  Handling'
  BY <1>23 DEF Map
<1>24. ASSUME NEW p \in Pages, PageFault(t, p)
      PROVE  Handling'
  BY <1>24 DEF PageFault, Call, Goto
<1>25. ASSUME NEW p \in Pages, Pin(t, p)
      PROVE  Handling'
  BY <1>25 DEF Pin, Call, Goto
<1>26. ASSUME NEW p \in Pages, Unmap(t, p)
      PROVE  Handling'
  BY <1>26 DEF Unmap, Call, Goto
<1>27. ASSUME NEW p \in Pages, Unpin(t, p)
      PROVE  Handling'
  BY <1>27 DEF Unpin, Goto
<1> QED BY <1>1, <1>2, <1>3, <1>4, <1>5, <1>6, <1>7, <1>8, <1>9, <1>10, <1>11, <1>12, <1>13,
  <1>14, <1>15, <1>16, <1>17, <1>18, <1>19, <1>20, <1>21, <1>22, <1>23, <1>24, <1>25, <1>26,
  <1>27 DEF GoodStep, UserStep

LEMMA InstalledPresence ==
  ASSUME IInv, NEW t \in Procs, NEW f \in Frames, InstallLoad(t, f) \/ InstallZero(t, f)
  PROVE  Presence'
<1>0. Presence
  BY DEF IInv
<1>1. /\ present' = present \cup {at[t]} /\ dirty' = dirty \ {at[t]}
      /\ Takes(t, f)
  BY DEF InstallLoad, InstallZero, Installed
<1>2. pc[t] \in Sending => f = fr[t]
  BY <1>1 DEF Takes, NeedsFrame
<1>3. pc[t] # "release"
  BY <1>1, Taken
<1>4. ASSUME NEW p \in Pages, frameOf'[p] # NULL
      PROVE  p \in present' \/ \E u \in Procs : pc'[u] \in Sending /\ fr'[u] = frameOf'[p]
  <2>1. CASE p = at[t] \/ p \in present
    BY <1>1, <2>1
  <2>2. CASE p # at[t] /\ p \notin present
    <3>1. frameOf'[p] = frameOf[p] /\ frameOf[p] # f
      BY <1>4, <2>2, InstalledFor
    <3>2. PICK u \in Procs : pc[u] \in Sending /\ fr[u] = frameOf[p]
      BY <1>0, <1>4, <2>2, <3>1 DEF Presence
    <3>3. u # t
      BY <1>2, <3>1, <3>2
    <3>4. pc'[u] = pc[u] /\ fr'[u] = fr[u]
      BY <3>2, <3>3, InstalledFor
    <3> QED BY <3>1, <3>2, <3>4
  <2> QED BY <2>1, <2>2
<1>5. ASSUME NEW p \in Pages, p \in dirty'
      PROVE  p \notin TextPages /\ (p \in present' \/ (pc'[Owner[p]] = "release" /\ at'[Owner[p]] = p))
  <2>1. p \notin TextPages /\ (p \in present \/ (pc[Owner[p]] = "release" /\ at[Owner[p]] = p))
    BY <1>0, <1>1, <1>5 DEF Presence
  <2>2. CASE pc[Owner[p]] = "release" /\ at[Owner[p]] = p
    <3>1. Owner[p] \in Procs \ {t}
      BY <1>3, <2>2
    <3>2. pc'[Owner[p]] = pc[Owner[p]] /\ at'[Owner[p]] = at[Owner[p]]
      BY <2>2, <3>1, InstalledFor
    <3> QED BY <2>1, <2>2, <3>2
  <2> QED BY <1>1, <2>1, <2>2
<1>6. \A p \in Pages : frameOf'[p] # NULL => p \in mapped'
  <2>1. mapped' = mapped /\ at[t] \in mapped
    BY <1>1, Taken DEF InstallLoad, InstallZero, Installed
  <2>2. \A p \in Pages \ {at[t]} : frameOf'[p] # NULL => frameOf[p] # NULL
    BY InstalledFor
  <2> QED BY <1>0, <2>1, <2>2 DEF Presence
<1> QED BY <1>4, <1>5, <1>6 DEF Presence

LEMMA LoadDonePresence ==
  ASSUME IInv, NEW t \in Procs, NEW f \in Frames, LoadDone(t, f)
  PROVE  Presence'
<1>0. Presence
  BY DEF IInv
<1>1. UNCHANGED <<mapped, frameOf, present, dirty>> /\ pc[t] = "finish"
  BY DEF LoadDone
<1>2. ASSUME NEW u \in Procs, pc[u] \in Sending \cup {"release"}
      PROVE  pc'[u] = pc[u] /\ fr'[u] = fr[u] /\ at'[u] = at[u]
  BY <1>1, <1>2, LoadDoneFor
<1>3. ASSUME NEW p \in Pages, frameOf[p] # NULL
      PROVE  p \in present \/ \E u \in Procs : pc'[u] \in Sending /\ fr'[u] = frameOf[p]
  BY <1>0, <1>2, <1>3 DEF Presence
<1> QED BY <1>0, <1>1, <1>2, <1>3 DEF Presence

LEMMA SharedPresence ==
  ASSUME IInv, NEW t \in Procs, ShareWait(t) \/ ShareNow(t)
  PROVE  Presence'
<1>0. Presence /\ TypeOK
  BY DEF IInv
<1>1. /\ pc[t] = "load" /\ present' = present \cup {at[t]} /\ dirty' = dirty \ {at[t]}
      /\ frameOf' = [frameOf EXCEPT ![at[t]] = roFrame]
      /\ \A u \in Procs \ {t} : at'[u] = at[u] /\ pc'[u] = pc[u] /\ fr'[u] = fr[u]
  BY <1>0 DEF ShareWait, ShareNow, MapPage, Goto, EndCall, TypeOK
<1>2. \A p \in Pages \ {at[t]} : frameOf'[p] = frameOf[p]
  BY <1>0, <1>1 DEF TypeOK
<1>3. ASSUME NEW p \in Pages, frameOf'[p] # NULL
      PROVE  p \in present' \/ \E u \in Procs : pc'[u] \in Sending /\ fr'[u] = frameOf'[p]
  <2>1. CASE p = at[t] \/ p \in present
    BY <1>1, <2>1
  <2>2. CASE p # at[t] /\ p \notin present
    <3>1. PICK u \in Procs : pc[u] \in Sending /\ fr[u] = frameOf[p]
      BY <1>0, <1>2, <1>3, <2>2 DEF Presence
    <3>2. u # t
      BY <1>1, <3>1
    <3> QED BY <1>1, <1>2, <2>2, <3>1, <3>2
  <2> QED BY <2>1, <2>2
<1>4. ASSUME NEW p \in Pages, p \in dirty'
      PROVE  p \notin TextPages /\ (p \in present' \/ (pc'[Owner[p]] = "release" /\ at'[Owner[p]] = p))
  BY <1>0, <1>1, <1>4 DEF Presence
<1>5. \A p \in Pages : frameOf'[p] # NULL => p \in mapped'
  <2>1. mapped' = mapped /\ at[t] \in mapped
    BY <1>0, <1>1, OwnPages DEF ShareWait, ShareNow, IInv
  <2> QED BY <1>0, <1>2, <2>1 DEF Presence
<1> QED BY <1>3, <1>4, <1>5 DEF Presence

LEMMA DetachPresence ==
  ASSUME IInv, NEW t \in Procs, Detach(t)
  PROVE  Presence'
<1>0. Presence
  BY DEF IInv
<1>1. /\ UNCHANGED <<at, dirty, mapped>> /\ present' = present \ {at[t]}
      /\ pc[t] = "unload" /\ pc'[t] = "release" /\ Owner[at[t]] = t
      /\ frameOf'[at[t]] = NULL /\ \A p \in Pages \ {at[t]} : frameOf'[p] = frameOf[p]
      /\ \A u \in Procs \ {t} : pc'[u] = pc[u] /\ fr'[u] = fr[u]
  BY DetachedFor DEF Detach
<1>2. ASSUME NEW p \in Pages, frameOf'[p] # NULL
      PROVE  p \in present' \/ \E u \in Procs : pc'[u] \in Sending /\ fr'[u] = frameOf'[p]
  <2>1. p # at[t] /\ frameOf'[p] = frameOf[p]
    BY <1>1, <1>2
  <2>2. CASE p \in present
    BY <1>1, <2>1, <2>2
  <2>3. CASE p \notin present
    <3>1. PICK u \in Procs : pc[u] \in Sending /\ fr[u] = frameOf[p]
      BY <1>0, <1>2, <2>1, <2>3 DEF Presence
    <3>2. u # t
      BY <1>1, <3>1
    <3> QED BY <1>1, <2>1, <3>1, <3>2
  <2> QED BY <2>2, <2>3
<1>3. ASSUME NEW p \in Pages, p \in dirty
      PROVE  p \notin TextPages /\ (p \in present' \/ (pc'[Owner[p]] = "release" /\ at[Owner[p]] = p))
  <2>1. p \notin TextPages /\ (p \in present \/ (pc[Owner[p]] = "release" /\ at[Owner[p]] = p))
    BY <1>0, <1>3 DEF Presence
  <2>2. Owner[p] \in Procs
    OBVIOUS
  <2> QED BY <1>1, <2>1, <2>2
<1>4. \A p \in Pages : frameOf'[p] # NULL => p \in mapped'
  BY <1>0, <1>1 DEF Presence
<1> QED BY <1>1, <1>2, <1>3, <1>4 DEF Presence

\* Every branch leaves the pages present that are in their frames.
LEMMA PresenceStep ==
  ASSUME IInv, NEW t \in Procs, GoodStep(t)
  PROVE  Presence'
<1>0. TypeOK /\ Places /\ FramesSeparate /\ FramePlaces /\ PinnedStay /\ Presence /\ Handling
  BY DEF IInv
<1> USE <1>0 DEF TypeOK, Places, PlaceOf, FramesSeparate, FramePlaces, Handling, Hand, Presence,
    PinnedStay
<1>1. ASSUME LoadWait(t)
      PROVE  Presence'
  BY <1>1 DEF LoadWait, Goto
<1>2. ASSUME UnloadWait(t)
      PROVE  Presence'
  BY <1>2 DEF UnloadWait, Goto
<1>3. ASSUME PinPresent(t)
      PROVE  Presence'
  BY <1>3 DEF PinPresent, Goto, EndCall
<1>4. ASSUME ShareWait(t)
      PROVE  Presence'
  BY <1>4, SharedPresence
<1>5. ASSUME ShareNow(t)
      PROVE  Presence'
  BY <1>5, SharedPresence
<1>6. ASSUME LoadedShared(t)
      PROVE  Presence'
  BY <1>6 DEF LoadedShared, Goto, EndCall, KeepCount
<1>7. ASSUME Read(t)
      PROVE  Presence'
  BY <1>7 DEF Read, Goto, FreeSlot, Source
<1>8. ASSUME UnmapWrite(t)
      PROVE  Presence'
  BY <1>8 DEF UnmapWrite, Unmapped, Goto
<1>9. ASSUME UnmapClean(t)
      PROVE  Presence'
  BY <1>9 DEF UnmapClean, Unmapped, Goto
<1>10. ASSUME WriteToFile(t)
      PROVE  Presence'
  BY <1>10 DEF WriteToFile, Goto
<1>11. ASSUME FlipSlot(t)
      PROVE  Presence'
  BY <1>11 DEF FlipSlot, Goto
<1>12. ASSUME NEW s \in Slots, TakeSlot(t, s)
      PROVE  Presence'
  BY <1>12 DEF TakeSlot, Goto
<1>13. ASSUME NEW f \in Frames, Choose(t, f)
      PROVE  Presence'
  BY <1>13 DEF Choose, NeedsFrame, Goto
<1>14. ASSUME NEW f \in Frames, LoadDone(t, f)
      PROVE  Presence'
  BY <1>14, LoadDonePresence
<1>15. ASSUME NEW f \in Frames, InstallLoad(t, f)
      PROVE  Presence'
  BY <1>15, InstalledPresence
<1>16. ASSUME NEW f \in Frames, InstallZero(t, f)
      PROVE  Presence'
  BY <1>16, InstalledPresence
<1>17. ASSUME Detach(t)
      PROVE  Presence'
  BY <1>17, DetachPresence
<1>18. ASSUME ReleaseLast(t)
      PROVE  Presence'
  BY <1>18 DEF ReleaseLast, Goto, EndCall, FileSaved
<1>19. ASSUME ReleaseShared(t)
      PROVE  Presence'
  <2>1. (\A p \in Pages :
           frameOf[p] # NULL => p \in mapped /\ (p \in present \/ \E u \in Procs : pc[u] \in Sending /\ fr[u] = frameOf[p]))'
    BY <1>19 DEF ReleaseShared, Goto, EndCall
  <2>2. (\A p \in Pages :
           p \in dirty => p \notin TextPages /\ (p \in present \/ (pc[Owner[p]] = "release" /\ at[Owner[p]] = p)))'
    BY <1>19 DEF ReleaseShared, Goto, EndCall
    <2> QED BY <2>1, <2>2 DEF Presence
<1>20. ASSUME DropPage(t)
      PROVE  Presence'
  BY <1>20 DEF DropPage, Goto, EndCall, FreeSlot
<1>21. ASSUME NEW p \in Pages, Access(t, p)
      PROVE  Presence'
  BY <1>21 DEF Access
<1>22. ASSUME NEW p \in Pages, CopyToPinned(t, p)
      PROVE  Presence'
  BY <1>22 DEF CopyToPinned
<1>23. ASSUME NEW p \in Pages, Map(t, p)
      PROVE  Presence'
  BY <1>23 DEF Map
<1>24. ASSUME NEW p \in Pages, PageFault(t, p)
      PROVE  Presence'
  BY <1>24 DEF PageFault, Call, Goto
<1>25. ASSUME NEW p \in Pages, Pin(t, p)
      PROVE  Presence'
  BY <1>25 DEF Pin, Call, Goto
<1>26. ASSUME NEW p \in Pages, Unmap(t, p)
      PROVE  Presence'
  BY <1>26 DEF Unmap, Call, Goto
<1>27. ASSUME NEW p \in Pages, Unpin(t, p)
      PROVE  Presence'
  BY <1>27 DEF Unpin, Goto
<1> QED BY <1>1, <1>2, <1>3, <1>4, <1>5, <1>6, <1>7, <1>8, <1>9, <1>10, <1>11, <1>12, <1>13,
  <1>14, <1>15, <1>16, <1>17, <1>18, <1>19, <1>20, <1>21, <1>22, <1>23, <1>24, <1>25, <1>26,
  <1>27 DEF GoodStep, UserStep

LEMMA InstalledAccounted ==
  ASSUME IInv, NEW t \in Procs, NEW f \in Frames, InstallLoad(t, f) \/ InstallZero(t, f)
  PROVE  FramesAccounted'
<1>0. TypeOK /\ FramesAccounted
  BY DEF IInv
<1>1. /\ pool' = pool \ {f} /\ Range(clock') = Range(clock) \cup {f} /\ Once(clock') /\ Takes(t, f)
  BY DEF InstallLoad, InstallZero, Installed
<1>2. pc[t] # "release" /\ at[t] \in Pages
  BY <1>1, Taken
<1>3. ASSUME NEW g \in Frames
      PROVE  (\/ g \in pool /\ g \notin Range(clock) /\ PagesOn(g) = {}
              \/ g \notin pool /\ g \in Range(clock)
              \/ g \notin pool \cup Range(clock) /\ PagesOn(g) = {} /\ \E u \in Procs : pc[u] = "release" /\ fr[u] = g)'
  <2>1. CASE g = f
    BY <1>1, <2>1
  <2>2. CASE g # f
    <3>1. PagesOn(g) = {} => PagesOn(g)' = {}
      BY <2>2, InstalledFor DEF PagesOn
    <3>2. \A u \in Procs : pc[u] = "release" => pc'[u] = "release" /\ fr'[u] = fr[u]
      BY <1>2, InstalledFor
    <3> QED BY <1>0, <1>1, <2>2, <3>1, <3>2 DEF FramesAccounted
  <2> QED BY <2>1, <2>2
<1> QED BY <1>1, <1>3 DEF FramesAccounted, Once

LEMMA DetachAccounted ==
  ASSUME IInv, NEW t \in Procs, Detach(t)
  PROVE  FramesAccounted'
<1> DEFINE f == frameOf[at[t]]
<1>0. TypeOK /\ FramesAccounted
  BY DEF IInv
<1>1. pool' = pool
  BY DEF Detach
<1>2. /\ f \in Frames /\ f \notin pool /\ f \in Range(clock) /\ Once(clock')
      /\ at[t] \in Pages /\ frameOf'[at[t]] = NULL /\ \A p \in Pages \ {at[t]} : frameOf'[p] = frameOf[p]
      /\ Range(clock') = IF \A q \in Pages : frameOf[q] = f => q = at[t] THEN Range(clock) \ {f} ELSE Range(clock)
      /\ pc[t] = "unload" /\ pc'[t] = "release" /\ fr'[t] = f
      /\ \A u \in Procs \ {t} : pc'[u] = pc[u] /\ fr'[u] = fr[u]
  BY DetachedFor
<1> HIDE DEF f
<1>3. ASSUME NEW g \in Frames
      PROVE  (\/ g \in pool /\ g \notin Range(clock) /\ PagesOn(g) = {}
              \/ g \notin pool /\ g \in Range(clock)
              \/ g \notin pool \cup Range(clock) /\ PagesOn(g) = {} /\ \E u \in Procs : pc[u] = "release" /\ fr[u] = g)'
  <2>1. CASE g = f
    <3>1. CASE g \in Range(clock')
      BY <1>1, <1>2, <2>1, <3>1
    <3>2. CASE g \notin Range(clock')
      <4>1. \A q \in Pages : frameOf[q] = f => q = at[t]
        BY <1>2, <2>1, <3>2
      <4>2. PagesOn(g)' = {}
        BY <1>2, <2>1, <4>1 DEF PagesOn
      <4> QED BY <1>1, <1>2, <2>1, <3>2, <4>2
    <3> QED BY <3>1, <3>2
  <2>2. CASE g # f
    <3>1. PagesOn(g) = {} => PagesOn(g)' = {}
      BY <1>2, <2>2 DEF PagesOn
    <3>2. \A u \in Procs : pc[u] = "release" => pc'[u] = "release" /\ fr'[u] = fr[u]
      BY <1>2
    <3> QED BY <1>0, <1>1, <1>2, <2>2, <3>1, <3>2 DEF FramesAccounted
  <2> QED BY <2>1, <2>2
<1> QED BY <1>2, <1>3 DEF FramesAccounted, Once

LEMMA LoadDoneAccounted ==
  ASSUME IInv, NEW t \in Procs, NEW f \in Frames, LoadDone(t, f)
  PROVE  FramesAccounted'
<1>1. UNCHANGED <<pool, clock, frameOf>> /\ FramesAccounted
  BY DEF LoadDone, IInv
<1>2. \A u \in Procs : pc[u] = "release" => pc'[u] = "release" /\ fr'[u] = fr[u]
  BY LoadDoneFor
<1> QED BY <1>1, <1>2 DEF FramesAccounted, PagesOn

LEMMA ChooseAccounted ==
  ASSUME IInv, NEW t \in Procs, NEW f \in Frames, Choose(t, f)
  PROVE  FramesAccounted'
<1>1. UNCHANGED <<pool, frameOf>> /\ Range(clock)' = Range(clock) /\ Once(clock') /\ FramesAccounted
  BY DEF Choose, IInv
<1>2. \A u \in Procs : pc[u] = "release" => pc'[u] = "release" /\ fr'[u] = fr[u]
  BY DEF Choose, NeedsFrame, Goto, IInv, TypeOK
<1>3. \A g \in Frames : PagesOn(g)' = PagesOn(g)
  BY <1>1 DEF PagesOn
<1>4. ASSUME NEW g \in Frames
      PROVE  (\/ g \in pool /\ g \notin Range(clock) /\ PagesOn(g) = {}
              \/ g \notin pool /\ g \in Range(clock)
              \/ g \notin pool \cup Range(clock) /\ PagesOn(g) = {} /\ \E u \in Procs : pc[u] = "release" /\ fr[u] = g)'
  BY <1>1, <1>2, <1>3 DEF FramesAccounted
<1> QED BY <1>1, <1>4 DEF FramesAccounted, Once

\* Every branch loses no frame and hands out none twice.
LEMMA AccountedStep ==
  ASSUME IInv, NEW t \in Procs, GoodStep(t)
  PROVE  FramesAccounted'
<1>0. TypeOK /\ Places /\ FramesAccounted /\ FramesSeparate /\ FramePlaces
  BY DEF IInv
<1> USE <1>0 DEF TypeOK, Places, PlaceOf, FramesSeparate, FramePlaces, FramesAccounted, PagesOn
<1>1. ASSUME LoadWait(t)
      PROVE  FramesAccounted'
  BY <1>1 DEF LoadWait, Goto
<1>2. ASSUME UnloadWait(t)
      PROVE  FramesAccounted'
  BY <1>2 DEF UnloadWait, Goto
<1>3. ASSUME PinPresent(t)
      PROVE  FramesAccounted'
  BY <1>3 DEF PinPresent, Goto, EndCall
<1>4. ASSUME ShareWait(t)
      PROVE  FramesAccounted'
  BY <1>4 DEF ShareWait, Goto, MapPage
<1>5. ASSUME ShareNow(t)
      PROVE  FramesAccounted'
  BY <1>5 DEF ShareNow, Goto, EndCall, MapPage, KeepCount
<1>6. ASSUME LoadedShared(t)
      PROVE  FramesAccounted'
  BY <1>6 DEF LoadedShared, Goto, EndCall, KeepCount
<1>7. ASSUME Read(t)
      PROVE  FramesAccounted'
  BY <1>7 DEF Read, Goto, FreeSlot, Source
<1>8. ASSUME UnmapWrite(t)
      PROVE  FramesAccounted'
  BY <1>8 DEF UnmapWrite, Unmapped, Goto
<1>9. ASSUME UnmapClean(t)
      PROVE  FramesAccounted'
  BY <1>9 DEF UnmapClean, Unmapped, Goto
<1>10. ASSUME WriteToFile(t)
      PROVE  FramesAccounted'
  BY <1>10 DEF WriteToFile, Goto
<1>11. ASSUME FlipSlot(t)
      PROVE  FramesAccounted'
  BY <1>11 DEF FlipSlot, Goto
<1>12. ASSUME NEW s \in Slots, TakeSlot(t, s)
      PROVE  FramesAccounted'
  BY <1>12 DEF TakeSlot, Goto
<1>13. ASSUME NEW f \in Frames, Choose(t, f)
      PROVE  FramesAccounted'
  BY <1>13, ChooseAccounted
<1>14. ASSUME NEW f \in Frames, LoadDone(t, f)
      PROVE  FramesAccounted'
  BY <1>14, LoadDoneAccounted
<1>15. ASSUME NEW f \in Frames, InstallLoad(t, f)
      PROVE  FramesAccounted'
  BY <1>15, InstalledAccounted
<1>16. ASSUME NEW f \in Frames, InstallZero(t, f)
      PROVE  FramesAccounted'
  BY <1>16, InstalledAccounted
<1>17. ASSUME Detach(t)
      PROVE  FramesAccounted'
  BY <1>17, DetachAccounted
<1>18. ASSUME ReleaseLast(t)
      PROVE  FramesAccounted'
  BY <1>18 DEF ReleaseLast, Goto, EndCall, FileSaved
<1>19. ASSUME ReleaseShared(t)
      PROVE  FramesAccounted'
  BY <1>19 DEF ReleaseShared, Goto, EndCall
<1>20. ASSUME DropPage(t)
      PROVE  FramesAccounted'
  BY <1>20 DEF DropPage, Goto, EndCall, FreeSlot
<1>21. ASSUME NEW p \in Pages, Access(t, p)
      PROVE  FramesAccounted'
  BY <1>21 DEF Access
<1>22. ASSUME NEW p \in Pages, CopyToPinned(t, p)
      PROVE  FramesAccounted'
  BY <1>22 DEF CopyToPinned
<1>23. ASSUME NEW p \in Pages, Map(t, p)
      PROVE  FramesAccounted'
  BY <1>23 DEF Map
<1>24. ASSUME NEW p \in Pages, PageFault(t, p)
      PROVE  FramesAccounted'
  BY <1>24 DEF PageFault, Call, Goto
<1>25. ASSUME NEW p \in Pages, Pin(t, p)
      PROVE  FramesAccounted'
  BY <1>25 DEF Pin, Call, Goto
<1>26. ASSUME NEW p \in Pages, Unmap(t, p)
      PROVE  FramesAccounted'
  BY <1>26 DEF Unmap, Call, Goto
<1>27. ASSUME NEW p \in Pages, Unpin(t, p)
      PROVE  FramesAccounted'
  BY <1>27 DEF Unpin, Goto
<1> QED BY <1>1, <1>2, <1>3, <1>4, <1>5, <1>6, <1>7, <1>8, <1>9, <1>10, <1>11, <1>12, <1>13,
  <1>14, <1>15, <1>16, <1>17, <1>18, <1>19, <1>20, <1>21, <1>22, <1>23, <1>24, <1>25, <1>26,
  <1>27 DEF GoodStep, UserStep

LEMMA DetachSeparate ==
  ASSUME IInv, NEW t \in Procs, Detach(t)
  PROVE  FramesSeparate'
<1> DEFINE f == frameOf[at[t]]
<1>0. FramesSeparate
  BY DEF IInv
<1>1. /\ present' = present \ {at[t]}
      /\ f # NULL
  BY DEF Detach
<1>2. /\ frameOf'[at[t]] = NULL /\ \A p \in Pages \ {at[t]} : frameOf'[p] = frameOf[p]
      /\ Range(clock') = IF \A q \in Pages : frameOf[q] = f => q = at[t] THEN Range(clock) \ {f} ELSE Range(clock)
  BY DetachedFor
<1> HIDE DEF f
<1>3. present \subseteq Pages
  BY DEF IInv, TypeOK
<1> QED BY <1>0, <1>1, <1>2, <1>3 DEF FramesSeparate

LEMMA SharedSeparate ==
  ASSUME IInv, NEW t \in Procs, ShareWait(t) \/ ShareNow(t)
  PROVE  FramesSeparate'
<1>0. TypeOK /\ FramesSeparate /\ FramePlaces
  BY DEF IInv
<1>1. /\ present' = present \cup {at[t]} /\ clock' = clock /\ roFrame # NULL
      /\ frameOf' = [frameOf EXCEPT ![at[t]] = roFrame] /\ at[t] \in TextPages
  BY DEF ShareWait, ShareNow, MapPage
<1>2. at[t] \in Pages /\ frameOf'[at[t]] = roFrame /\ \A p \in Pages \ {at[t]} : frameOf'[p] = frameOf[p]
  BY <1>0, <1>1 DEF Pages, TypeOK
<1>3. \A p \in present' : frameOf'[p] \in Range(clock')
  BY <1>0, <1>1, <1>2 DEF FramesSeparate, FramePlaces, TypeOK
<1>4. \A p, q \in Pages : frameOf'[p] = frameOf'[q] /\ frameOf'[p] # NULL /\ p # q => {p, q} \subseteq TextPages
  BY <1>0, <1>1, <1>2 DEF FramesSeparate, FramePlaces
<1> QED BY <1>3, <1>4 DEF FramesSeparate

\* Every branch keeps the pages of different processes in different frames.
LEMMA SeparateStep ==
  ASSUME IInv, NEW t \in Procs, GoodStep(t)
  PROVE  FramesSeparate'
<1>0. TypeOK /\ Places /\ FramesSeparate /\ FramePlaces /\ FramesAccounted /\ Handling
  BY DEF IInv
<1> USE <1>0 DEF TypeOK, Places, PlaceOf, FramesSeparate, FramePlaces, FramesAccounted, PagesOn,
    Handling, Hand
<1>1. ASSUME LoadWait(t)
      PROVE  FramesSeparate'
  BY <1>1 DEF LoadWait, Goto
<1>2. ASSUME UnloadWait(t)
      PROVE  FramesSeparate'
  BY <1>2 DEF UnloadWait, Goto
<1>3. ASSUME PinPresent(t)
      PROVE  FramesSeparate'
  BY <1>3 DEF PinPresent, Goto, EndCall
<1>4. ASSUME ShareWait(t)
      PROVE  FramesSeparate'
  BY <1>4, SharedSeparate
<1>5. ASSUME ShareNow(t)
      PROVE  FramesSeparate'
  BY <1>5, SharedSeparate
<1>6. ASSUME LoadedShared(t)
      PROVE  FramesSeparate'
  BY <1>6 DEF LoadedShared, Goto, EndCall, KeepCount
<1>7. ASSUME Read(t)
      PROVE  FramesSeparate'
  BY <1>7 DEF Read, Goto, FreeSlot, Source
<1>8. ASSUME UnmapWrite(t)
      PROVE  FramesSeparate'
  BY <1>8 DEF UnmapWrite, Unmapped, Goto
<1>9. ASSUME UnmapClean(t)
      PROVE  FramesSeparate'
  BY <1>9 DEF UnmapClean, Unmapped, Goto
<1>10. ASSUME WriteToFile(t)
      PROVE  FramesSeparate'
  BY <1>10 DEF WriteToFile, Goto
<1>11. ASSUME FlipSlot(t)
      PROVE  FramesSeparate'
  BY <1>11 DEF FlipSlot, Goto
<1>12. ASSUME NEW s \in Slots, TakeSlot(t, s)
      PROVE  FramesSeparate'
  BY <1>12 DEF TakeSlot, Goto
<1>13. ASSUME NEW f \in Frames, Choose(t, f)
      PROVE  FramesSeparate'
  BY <1>13 DEF Choose, NeedsFrame, Goto
<1>14. ASSUME NEW f \in Frames, LoadDone(t, f)
      PROVE  FramesSeparate'
  BY <1>14 DEF LoadDone, Wakes, EndCall, KeepCount
<1>15. ASSUME NEW f \in Frames, InstallLoad(t, f)
      PROVE  FramesSeparate'
  <2>1. (\A p \in present : frameOf[p] \in Range(clock))'
    BY <1>15, Taken DEF InstallLoad, Installed, Wakes
  <2>2. (\A p, q \in Pages :
           frameOf[p] = frameOf[q] /\ frameOf[p] # NULL /\ p # q => {p, q} \subseteq TextPages)'
    BY <1>15, Taken DEF InstallLoad, Installed, Wakes
    <2> QED BY <2>1, <2>2 DEF FramesSeparate
<1>16. ASSUME NEW f \in Frames, InstallZero(t, f)
      PROVE  FramesSeparate'
  <2>1. (\A p \in present : frameOf[p] \in Range(clock))'
    BY <1>16, Taken DEF InstallZero, Installed, Wakes, EndCall, KeepCount
  <2>2. (\A p, q \in Pages :
           frameOf[p] = frameOf[q] /\ frameOf[p] # NULL /\ p # q => {p, q} \subseteq TextPages)'
    BY <1>16, Taken DEF InstallZero, Installed, Wakes, EndCall, KeepCount
    <2> QED BY <2>1, <2>2 DEF FramesSeparate
<1>17. ASSUME Detach(t)
      PROVE  FramesSeparate'
  BY <1>17, DetachSeparate
<1>18. ASSUME ReleaseLast(t)
      PROVE  FramesSeparate'
  BY <1>18 DEF ReleaseLast, Goto, EndCall, FileSaved
<1>19. ASSUME ReleaseShared(t)
      PROVE  FramesSeparate'
  BY <1>19 DEF ReleaseShared, Goto, EndCall
<1>20. ASSUME DropPage(t)
      PROVE  FramesSeparate'
  BY <1>20 DEF DropPage, Goto, EndCall, FreeSlot
<1>21. ASSUME NEW p \in Pages, Access(t, p)
      PROVE  FramesSeparate'
  BY <1>21 DEF Access
<1>22. ASSUME NEW p \in Pages, CopyToPinned(t, p)
      PROVE  FramesSeparate'
  BY <1>22 DEF CopyToPinned
<1>23. ASSUME NEW p \in Pages, Map(t, p)
      PROVE  FramesSeparate'
  BY <1>23 DEF Map
<1>24. ASSUME NEW p \in Pages, PageFault(t, p)
      PROVE  FramesSeparate'
  BY <1>24 DEF PageFault, Call, Goto
<1>25. ASSUME NEW p \in Pages, Pin(t, p)
      PROVE  FramesSeparate'
  BY <1>25 DEF Pin, Call, Goto
<1>26. ASSUME NEW p \in Pages, Unmap(t, p)
      PROVE  FramesSeparate'
  BY <1>26 DEF Unmap, Call, Goto
<1>27. ASSUME NEW p \in Pages, Unpin(t, p)
      PROVE  FramesSeparate'
  BY <1>27 DEF Unpin, Goto
<1> QED BY <1>1, <1>2, <1>3, <1>4, <1>5, <1>6, <1>7, <1>8, <1>9, <1>10, <1>11, <1>12, <1>13,
  <1>14, <1>15, <1>16, <1>17, <1>18, <1>19, <1>20, <1>21, <1>22, <1>23, <1>24, <1>25, <1>26,
  <1>27 DEF GoodStep, UserStep

\* A page is present if nobody is emptying its frame.
LEMMA PresentUnlessSending ==
  ASSUME IInv, NEW p \in Pages, frameOf[p] # NULL, ~io[frameOf[p]] \/ \E t \in Procs : pc[t] \in Fetching /\ Hand(t) = frameOf[p]
  PROVE  p \in present
<1>0. TypeOK /\ Presence /\ LocksCounted /\ Handling
  BY DEF IInv
<1>1. frameOf[p] \in Frames
  BY <1>0 DEF TypeOK
<1> SUFFICES ASSUME NEW u \in Procs, pc[u] \in Sending, fr[u] = frameOf[p]
             PROVE  FALSE
  BY <1>0 DEF Presence
<1>2. CASE ~io[frameOf[p]]
  BY <1>0, <1>1, <1>2, IoMeans
<1>3. CASE io[frameOf[p]]
  <2>1. PICK t \in Procs : pc[t] \in Fetching /\ Hand(t) = frameOf[p]
    BY <1>3
  <2>2. Hand(u) = frameOf[p]
    BY DEF Hand
  <2> QED BY <1>0, <2>1, <2>2 DEF Handling
<1> QED BY <1>2, <1>3

LEMMA PinPresentPinned ==
  ASSUME IInv, NEW t \in Procs, PinPresent(t)
  PROVE  PinnedStay'
<1>1. TypeOK /\ Places /\ PinnedStay
  BY DEF IInv
<1>2. /\ pc[t] = "load" /\ frameOf[at[t]] # NULL /\ ~io[frameOf[at[t]]]
      /\ present' = present /\ pins' = IF keep[t] THEN [pins EXCEPT ![t] = @ \cup {at[t]}] ELSE pins
  BY DEF PinPresent, EndCall
<1>3. at[t] \in present
  BY <1>1, <1>2, OwnPages, PresentUnlessSending
<1> QED BY <1>1, <1>2, <1>3 DEF PinnedStay, TypeOK

LEMMA LoadDonePinned ==
  ASSUME IInv, NEW t \in Procs, NEW f \in Frames, LoadDone(t, f)
  PROVE  PinnedStay'
<1>1. TypeOK /\ Places /\ PinnedStay
  BY DEF IInv
<1>2. /\ pc[t] = "finish" /\ frameOf[at[t]] = f /\ at[t] \in Pages
      /\ present' = present /\ pins' = IF keep[t] THEN [pins EXCEPT ![t] = @ \cup {at[t]}] ELSE pins
  BY LoadDoneFor DEF LoadDone, EndCall
<1>3. at[t] \in present
  <2>1. Hand(t) = f
    BY <1>2 DEF Hand
  <2> QED BY <1>2, <2>1, PresentUnlessSending
<1> QED BY <1>1, <1>2, <1>3 DEF PinnedStay, TypeOK

LEMMA UnmapPinned ==
  ASSUME IInv, NEW t \in Procs, Unmapped(t)
  PROVE  PinnedStay'
<1>1. TypeOK /\ Places /\ PinnedStay /\ Handling /\ LocksCounted
  BY DEF IInv
<1>2. pc[t] = "unmap" /\ pins' = pins /\ present' = {p \in present : frameOf[p] # fr[t]}
  BY DEF Unmapped
<1>3. \A p \in Pages : frameOf[p] = fr[t] => p \notin pins[Owner[p]]
  <2>1. fr[t] \in Frames /\ lockCnt[fr[t]] = 0
    BY <1>1, <1>2 DEF Places, PlaceOf, TypeOK, Handling
  <2> QED BY <1>1, <2>1, LockZero
<1>4. ASSUME NEW u \in Procs, NEW p \in pins[u]
      PROVE  p \in present'
  <2>1. p \in Pages /\ Owner[p] = u /\ p \in present
    BY <1>1, <1>4 DEF Places, PlaceOf, PinnedStay, TypeOK
  <2> QED BY <1>2, <1>3, <2>1
<1> QED BY <1>2, <1>4 DEF PinnedStay

LEMMA DetachPinned ==
  ASSUME IInv, NEW t \in Procs, Detach(t)
  PROVE  PinnedStay'
<1>1. TypeOK /\ Places /\ PinnedStay
  BY DEF IInv
<1>2. pc[t] = "unload" /\ pins' = pins /\ present' = present \ {at[t]} /\ Owner[at[t]] = t
  BY DetachedFor DEF Detach
<1>3. pins[t] = {}
  BY <1>1, <1>2 DEF Places, PlaceOf
<1>4. \A u \in Procs \ {t} : at[t] \notin pins[u]
  BY <1>1, <1>2 DEF Places, PlaceOf
<1> QED BY <1>1, <1>2, <1>3, <1>4 DEF PinnedStay

\* Every branch leaves present what is locked for a system call.
LEMMA PinnedStep ==
  ASSUME IInv, NEW t \in Procs, GoodStep(t)
  PROVE  PinnedStay'
<1>0. TypeOK /\ Places /\ FramesSeparate /\ FramePlaces /\ Handling /\ PinnedStay /\ Presence
  BY DEF IInv
<1> USE <1>0 DEF TypeOK, Places, PlaceOf, FramesSeparate, FramePlaces, Presence, PinnedStay,
    Handling, Hand
<1>1. ASSUME LoadWait(t)
      PROVE  PinnedStay'
  BY <1>1 DEF LoadWait, Goto
<1>2. ASSUME UnloadWait(t)
      PROVE  PinnedStay'
  BY <1>2 DEF UnloadWait, Goto
<1>3. ASSUME PinPresent(t)
      PROVE  PinnedStay'
  BY <1>3, PinPresentPinned
<1>4. ASSUME ShareWait(t)
      PROVE  PinnedStay'
  BY <1>4 DEF ShareWait, Goto, MapPage
<1>5. ASSUME ShareNow(t)
      PROVE  PinnedStay'
  BY <1>5 DEF ShareNow, Goto, EndCall, MapPage, KeepCount
<1>6. ASSUME LoadedShared(t)
      PROVE  PinnedStay'
  BY <1>6 DEF LoadedShared, Goto, EndCall, KeepCount
<1>7. ASSUME Read(t)
      PROVE  PinnedStay'
  BY <1>7 DEF Read, Goto, FreeSlot, Source
<1>8. ASSUME UnmapWrite(t)
      PROVE  PinnedStay'
  BY <1>8, UnmapPinned DEF UnmapWrite
<1>9. ASSUME UnmapClean(t)
      PROVE  PinnedStay'
  BY <1>9, UnmapPinned DEF UnmapClean
<1>10. ASSUME WriteToFile(t)
      PROVE  PinnedStay'
  BY <1>10 DEF WriteToFile, Goto
<1>11. ASSUME FlipSlot(t)
      PROVE  PinnedStay'
  BY <1>11 DEF FlipSlot, Goto
<1>12. ASSUME NEW s \in Slots, TakeSlot(t, s)
      PROVE  PinnedStay'
  BY <1>12 DEF TakeSlot, Goto
<1>13. ASSUME NEW f \in Frames, Choose(t, f)
      PROVE  PinnedStay'
  BY <1>13 DEF Choose, NeedsFrame, Goto
<1>14. ASSUME NEW f \in Frames, LoadDone(t, f)
      PROVE  PinnedStay'
  BY <1>14, LoadDonePinned
<1>15. ASSUME NEW f \in Frames, InstallLoad(t, f)
      PROVE  PinnedStay'
  BY <1>15, Taken DEF InstallLoad, Installed, Wakes
<1>16. ASSUME NEW f \in Frames, InstallZero(t, f)
      PROVE  PinnedStay'
  BY <1>16, Taken DEF InstallZero, Installed, Wakes, EndCall, KeepCount
<1>17. ASSUME Detach(t)
      PROVE  PinnedStay'
  BY <1>17, DetachPinned
<1>18. ASSUME ReleaseLast(t)
      PROVE  PinnedStay'
  BY <1>18 DEF ReleaseLast, Goto, EndCall, FileSaved
<1>19. ASSUME ReleaseShared(t)
      PROVE  PinnedStay'
  BY <1>19 DEF ReleaseShared, Goto, EndCall
<1>20. ASSUME DropPage(t)
      PROVE  PinnedStay'
  BY <1>20 DEF DropPage, Goto, EndCall, FreeSlot
<1>21. ASSUME NEW p \in Pages, Access(t, p)
      PROVE  PinnedStay'
  BY <1>21 DEF Access
<1>22. ASSUME NEW p \in Pages, CopyToPinned(t, p)
      PROVE  PinnedStay'
  BY <1>22 DEF CopyToPinned
<1>23. ASSUME NEW p \in Pages, Map(t, p)
      PROVE  PinnedStay'
  BY <1>23 DEF Map
<1>24. ASSUME NEW p \in Pages, PageFault(t, p)
      PROVE  PinnedStay'
  BY <1>24 DEF PageFault, Call, Goto
<1>25. ASSUME NEW p \in Pages, Pin(t, p)
      PROVE  PinnedStay'
  BY <1>25 DEF Pin, Call, Goto
<1>26. ASSUME NEW p \in Pages, Unmap(t, p)
      PROVE  PinnedStay'
  BY <1>26 DEF Unmap, Call, Goto
<1>27. ASSUME NEW p \in Pages, Unpin(t, p)
      PROVE  PinnedStay'
  BY <1>27 DEF Unpin, Goto
<1> QED BY <1>1, <1>2, <1>3, <1>4, <1>5, <1>6, <1>7, <1>8, <1>9, <1>10, <1>11, <1>12, <1>13,
  <1>14, <1>15, <1>16, <1>17, <1>18, <1>19, <1>20, <1>21, <1>22, <1>23, <1>24, <1>25, <1>26,
  <1>27 DEF GoodStep, UserStep

LEMMA InstalledWaits ==
  ASSUME IInv, NEW t \in Procs, NEW f \in Frames, InstallLoad(t, f) \/ InstallZero(t, f)
  PROVE  NoLostWait'
<1>0. TypeOK /\ NoLostWait
  BY DEF IInv
<1>1. /\ Wakes(t, f) /\ pc'[t] \in {"run", "read"}
      /\ \A g \in Frames \ {f} : io'[g] = io[g]
  BY <1>0 DEF InstallLoad, InstallZero, Installed, TypeOK
<1> SUFFICES ASSUME NEW u \in Procs, pc'[u] \in {"waitLoad", "waitShared", "waitUnload"}
             PROVE  frameOf'[at'[u]] # NULL /\ io'[frameOf'[at'[u]]]
  BY DEF NoLostWait
<1>2. u # t
  BY <1>1
<1>3. pc'[u] = pc[u] /\ at'[u] = at[u] /\ at[u] \in Pages \ {at[t]} /\ frameOf[at[u]] # f
  BY <1>1, <1>2, InstalledFor DEF Wakes
<1>4. frameOf[at[u]] \in Frames /\ io[frameOf[at[u]]]
  BY <1>0, <1>3 DEF NoLostWait, TypeOK
<1>5. frameOf'[at[u]] = frameOf[at[u]]
  BY <1>3, InstalledFor
<1> QED BY <1>1, <1>3, <1>4, <1>5

LEMMA UnmapCleanWaits ==
  ASSUME IInv, NEW t \in Procs, UnmapClean(t)
  PROVE  NoLostWait'
<1>0. TypeOK /\ NoLostWait /\ Places
  BY DEF IInv
<1>1. io' = io /\ at' = at
  BY DEF UnmapClean, Unmapped
<1> SUFFICES ASSUME NEW u \in Procs, pc'[u] \in {"waitLoad", "waitShared", "waitUnload"}
             PROVE  frameOf'[at[u]] # NULL /\ io[frameOf'[at[u]]]
  BY <1>1 DEF NoLostWait
<1>2. pc[u] = pc'[u]
  BY EmptiedFor
<1>3. at[u] \in Pages /\ frameOf[at[u]] # NULL /\ io[frameOf[at[u]]]
  BY <1>0, <1>2, OwnPages DEF NoLostWait
<1> QED BY <1>3, EmptiedFor

LEMMA ShareWaitWaits ==
  ASSUME IInv, NEW t \in Procs, ShareWait(t)
  PROVE  NoLostWait'
<1>0. TypeOK /\ NoLostWait /\ Places
  BY DEF IInv
<1>1. /\ io' = io /\ at' = at /\ pc[t] = "load" /\ roFrame # NULL /\ io[roFrame]
      /\ frameOf' = [frameOf EXCEPT ![at[t]] = roFrame]
      /\ \A u \in Procs \ {t} : pc'[u] = pc[u]
  BY <1>0 DEF ShareWait, Goto, TypeOK
<1> SUFFICES ASSUME NEW u \in Procs, pc'[u] \in {"waitLoad", "waitShared", "waitUnload"}
             PROVE  frameOf'[at[u]] # NULL /\ io[frameOf'[at[u]]]
  BY <1>1 DEF NoLostWait
<1>2. at[t] \in Pages /\ frameOf'[at[t]] = roFrame /\ \A p \in Pages \ {at[t]} : frameOf'[p] = frameOf[p]
  BY <1>0, <1>1, OwnPages DEF TypeOK
<1>3. CASE u = t
  BY <1>1, <1>2, <1>3
<1>4. CASE u # t
  <2>1. at[u] \in Pages \ {at[t]} /\ frameOf[at[u]] # NULL /\ io[frameOf[at[u]]]
    BY <1>0, <1>1, <1>4, OwnPages DEF NoLostWait
  <2> QED BY <1>2, <2>1
<1> QED BY <1>3, <1>4

\* Every branch leaves io set for those who wait.
LEMMA WaitsStep ==
  ASSUME IInv, NEW t \in Procs, GoodStep(t)
  PROVE  NoLostWait'
<1>0. TypeOK /\ Places /\ FramesSeparate /\ FramePlaces /\ Handling /\ NoLostWait
  BY DEF IInv
<1> USE <1>0 DEF TypeOK, Places, PlaceOf, FramesSeparate, FramePlaces, NoLostWait, Handling,
    Hand
<1>1. ASSUME LoadWait(t)
      PROVE  NoLostWait'
  BY <1>1 DEF LoadWait, Goto
<1>2. ASSUME UnloadWait(t)
      PROVE  NoLostWait'
  BY <1>2 DEF UnloadWait, Goto
<1>3. ASSUME PinPresent(t)
      PROVE  NoLostWait'
  BY <1>3 DEF PinPresent, Goto, EndCall
<1>4. ASSUME ShareWait(t)
      PROVE  NoLostWait'
  BY <1>4, ShareWaitWaits
<1>5. ASSUME ShareNow(t)
      PROVE  NoLostWait'
  BY <1>5 DEF ShareNow, Goto, EndCall, MapPage, KeepCount
<1>6. ASSUME LoadedShared(t)
      PROVE  NoLostWait'
  BY <1>6 DEF LoadedShared, Goto, EndCall, KeepCount
<1>7. ASSUME Read(t)
      PROVE  NoLostWait'
  BY <1>7 DEF Read, Goto, FreeSlot, Source
<1>8. ASSUME UnmapWrite(t)
      PROVE  NoLostWait'
  BY <1>8 DEF UnmapWrite, Unmapped, Goto
<1>9. ASSUME UnmapClean(t)
      PROVE  NoLostWait'
  BY <1>9, UnmapCleanWaits
<1>10. ASSUME WriteToFile(t)
      PROVE  NoLostWait'
  BY <1>10 DEF WriteToFile, Goto
<1>11. ASSUME FlipSlot(t)
      PROVE  NoLostWait'
  BY <1>11 DEF FlipSlot, Goto
<1>12. ASSUME NEW s \in Slots, TakeSlot(t, s)
      PROVE  NoLostWait'
  BY <1>12 DEF TakeSlot, Goto
<1>13. ASSUME NEW f \in Frames, Choose(t, f)
      PROVE  NoLostWait'
  BY <1>13 DEF Choose, NeedsFrame, Goto
<1>14. ASSUME NEW f \in Frames, LoadDone(t, f)
      PROVE  NoLostWait'
  BY <1>14 DEF LoadDone, Wakes, EndCall, KeepCount
<1>15. ASSUME NEW f \in Frames, InstallLoad(t, f)
      PROVE  NoLostWait'
  BY <1>15, InstalledWaits
<1>16. ASSUME NEW f \in Frames, InstallZero(t, f)
      PROVE  NoLostWait'
  BY <1>16, InstalledWaits
<1>17. ASSUME Detach(t)
      PROVE  NoLostWait'
  BY <1>17 DEF Detach, Goto
<1>18. ASSUME ReleaseLast(t)
      PROVE  NoLostWait'
  BY <1>18 DEF ReleaseLast, Goto, EndCall, FileSaved
<1>19. ASSUME ReleaseShared(t)
      PROVE  NoLostWait'
  BY <1>19 DEF ReleaseShared, Goto, EndCall
<1>20. ASSUME DropPage(t)
      PROVE  NoLostWait'
  BY <1>20 DEF DropPage, Goto, EndCall, FreeSlot
<1>21. ASSUME NEW p \in Pages, Access(t, p)
      PROVE  NoLostWait'
  BY <1>21 DEF Access
<1>22. ASSUME NEW p \in Pages, CopyToPinned(t, p)
      PROVE  NoLostWait'
  BY <1>22 DEF CopyToPinned
<1>23. ASSUME NEW p \in Pages, Map(t, p)
      PROVE  NoLostWait'
  BY <1>23 DEF Map
<1>24. ASSUME NEW p \in Pages, PageFault(t, p)
      PROVE  NoLostWait'
  BY <1>24 DEF PageFault, Call, Goto
<1>25. ASSUME NEW p \in Pages, Pin(t, p)
      PROVE  NoLostWait'
  BY <1>25 DEF Pin, Call, Goto
<1>26. ASSUME NEW p \in Pages, Unmap(t, p)
      PROVE  NoLostWait'
  BY <1>26 DEF Unmap, Call, Goto
<1>27. ASSUME NEW p \in Pages, Unpin(t, p)
      PROVE  NoLostWait'
  BY <1>27 DEF Unpin, Goto
<1> QED BY <1>1, <1>2, <1>3, <1>4, <1>5, <1>6, <1>7, <1>8, <1>9, <1>10, <1>11, <1>12, <1>13,
  <1>14, <1>15, <1>16, <1>17, <1>18, <1>19, <1>20, <1>21, <1>22, <1>23, <1>24, <1>25, <1>26,
  <1>27 DEF GoodStep, UserStep

LEMMA InstalledSlotPlaces ==
  ASSUME IInv, NEW t \in Procs, NEW f \in Frames, InstallLoad(t, f) \/ InstallZero(t, f)
  PROVE  SlotPlaces'
<1>0. TypeOK /\ SlotPlaces /\ Handling /\ Places /\ Presence
  BY DEF IInv
<1>1. /\ Takes(t, f) /\ mapped' = mapped
      /\ swapSlot' = [q \in Pages |-> IF frameOf[q] = f /\ q \in SwapPages THEN slot[t] ELSE swapSlot[q]]
  BY DEF InstallLoad, InstallZero, Installed
<1>2. /\ pc[t] \in {"load", "clean", "written"} /\ pc'[t] \in {"read", "run"}
      /\ at[t] \in Pages /\ at[t] \in mapped /\ Owner[at[t]] = t /\ frameOf[at[t]] = NULL
      /\ \A p \in Pages : frameOf[p] = f => pc[t] = "written"
  BY <1>1, Taken DEF InstallLoad, InstallZero
<1>3. ASSUME NEW p \in Pages, swapSlot'[p] # NULL
      PROVE  /\ p \in SwapPages \cap mapped
             /\ frameOf'[p] # NULL => (pc'[Owner[p]] = "read" /\ at'[Owner[p]] = p)
             /\ ~(pc'[Owner[p]] = "release" /\ at'[Owner[p]] = p)
  <2>1. CASE p = at[t]
    <3>1. swapSlot[p] # NULL /\ swapSlot'[p] = swapSlot[p]
      BY <1>1, <1>2, <1>3, <2>1
    <3>2. InstallLoad(t, f)
      BY <3>1, <2>1 DEF InstallZero
    <3>3. pc'[t] = "read" /\ at'[t] = at[t]
      BY <3>2 DEF InstallLoad
    <3> QED BY <1>0, <1>2, <2>1, <3>1, <3>3 DEF SlotPlaces
  <2>2. CASE p # at[t] /\ frameOf[p] = f
    <3>1. frameOf'[p] = NULL
      BY <2>2, InstalledFor
    <3>2. p \in SwapPages
      BY <1>0, <1>1, <1>3, <2>2 DEF SlotPlaces
    <3>3. p \in mapped
      <4>1. f # NULL
        OBVIOUS
      <4> QED BY <1>0, <2>2, <4>1 DEF Presence
    <3>4. ~(pc'[Owner[p]] = "release" /\ at'[Owner[p]] = p)
      <4>1. Owner[p] # t => (pc'[Owner[p]] = "release" => pc[Owner[p]] = "release" /\ at'[Owner[p]] = at[Owner[p]])
        BY InstalledFor
      <4>2. Owner[p] = t => pc'[Owner[p]] # "release"
        BY <1>2
      <4>3. frameOf[p] # NULL
        BY <2>2
      <4> QED BY <1>0, <4>1, <4>2, <4>3 DEF Places, PlaceOf
    <3> QED BY <3>1, <3>2, <3>3, <3>4
  <2>3. CASE p # at[t] /\ frameOf[p] # f
    <3>1. swapSlot[p] # NULL /\ frameOf'[p] = frameOf[p]
      BY <1>1, <1>3, <2>3, InstalledFor
    <3>2. /\ p \in SwapPages \cap mapped
          /\ frameOf[p] # NULL => pc[Owner[p]] = "read" /\ at[Owner[p]] = p
          /\ ~(pc[Owner[p]] = "release" /\ at[Owner[p]] = p)
      BY <1>0, <3>1 DEF SlotPlaces, Doing
    <3>3. CASE Owner[p] = t
      BY <1>2, <3>1, <3>2, <3>3
    <3>4. CASE Owner[p] # t
      <4>1. Owner[p] \in Procs \ {t}
        BY <3>4
      <4>2. \A u \in Procs \ {t} : /\ at'[u] = at[u]
                                   /\ pc'[u] = "release" => pc[u] = "release"
                                   /\ pc[u] = "read" => pc'[u] = "read"
        BY InstalledFor
      <4> QED BY <3>1, <3>2, <4>1, <4>2
    <3> QED BY <3>3, <3>4
  <2> QED BY <2>1, <2>2, <2>3
<1> QED BY <1>1, <1>3 DEF SlotPlaces, Doing

LEMMA ReleaseSlotPlaces ==
  ASSUME IInv, NEW t \in Procs, ReleaseLast(t) \/ ReleaseShared(t)
  PROVE  SlotPlaces'
<1>0. TypeOK /\ Places /\ SlotPlaces
  BY DEF IInv
<1>1. /\ UNCHANGED <<frameOf, swapSlot>> /\ mapped' = mapped \ {at[t]} /\ pc[t] = "release" /\ pc'[t] = "run"
      /\ \A u \in Procs \ {t} : at'[u] = at[u] /\ pc'[u] = pc[u]
  BY <1>0 DEF ReleaseLast, ReleaseShared, Goto, EndCall, TypeOK
<1>2. Owner[at[t]] = t
  BY <1>0, <1>1, OwnPages
<1> SUFFICES ASSUME NEW p \in Pages, swapSlot[p] # NULL
             PROVE  (/\ p \in SwapPages \cap mapped
                     /\ frameOf[p] # NULL => Doing(p, {"read"})
                     /\ ~Doing(p, {"release"}))'
  BY <1>1 DEF SlotPlaces
<1>3. /\ p \in SwapPages \cap mapped /\ p # at[t]
      /\ frameOf[p] # NULL => pc[Owner[p]] = "read" /\ at[Owner[p]] = p
      /\ ~(pc[Owner[p]] = "release" /\ at[Owner[p]] = p)
  BY <1>0, <1>1, <1>2 DEF SlotPlaces, Doing
<1>4. Owner[p] \in Procs
  OBVIOUS
<1> QED BY <1>1, <1>3, <1>4 DEF Doing

\* Every branch leaves swapped out what is in no frame.
LEMMA SlotPlacesStep ==
  ASSUME IInv, NEW t \in Procs, GoodStep(t)
  PROVE  SlotPlaces'
<1>0. TypeOK /\ Places /\ FramesSeparate /\ FramePlaces /\ Handling /\ SlotPlaces
  BY DEF IInv
<1> USE <1>0 DEF TypeOK, Places, PlaceOf, FramesSeparate, FramePlaces, Handling, Hand,
    SlotPlaces, Doing
<1>1. ASSUME LoadWait(t)
      PROVE  SlotPlaces'
  BY <1>1 DEF LoadWait, Goto
<1>2. ASSUME UnloadWait(t)
      PROVE  SlotPlaces'
  BY <1>2 DEF UnloadWait, Goto
<1>3. ASSUME PinPresent(t)
      PROVE  SlotPlaces'
  BY <1>3 DEF PinPresent, Goto, EndCall
<1>4. ASSUME ShareWait(t)
      PROVE  SlotPlaces'
  BY <1>4 DEF ShareWait, Goto, MapPage
<1>5. ASSUME ShareNow(t)
      PROVE  SlotPlaces'
  BY <1>5 DEF ShareNow, Goto, EndCall, MapPage, KeepCount
<1>6. ASSUME LoadedShared(t)
      PROVE  SlotPlaces'
  BY <1>6 DEF LoadedShared, Goto, EndCall, KeepCount
<1>7. ASSUME Read(t)
      PROVE  SlotPlaces'
  BY <1>7 DEF Read, Goto, FreeSlot, Source
<1>8. ASSUME UnmapWrite(t)
      PROVE  SlotPlaces'
  BY <1>8 DEF UnmapWrite, Unmapped, Goto
<1>9. ASSUME UnmapClean(t)
      PROVE  SlotPlaces'
  BY <1>9 DEF UnmapClean, Unmapped, Goto
<1>10. ASSUME WriteToFile(t)
      PROVE  SlotPlaces'
  BY <1>10 DEF WriteToFile, Goto
<1>11. ASSUME FlipSlot(t)
      PROVE  SlotPlaces'
  BY <1>11 DEF FlipSlot, Goto
<1>12. ASSUME NEW s \in Slots, TakeSlot(t, s)
      PROVE  SlotPlaces'
  BY <1>12 DEF TakeSlot, Goto
<1>13. ASSUME NEW f \in Frames, Choose(t, f)
      PROVE  SlotPlaces'
  BY <1>13 DEF Choose, NeedsFrame, Goto
<1>14. ASSUME NEW f \in Frames, LoadDone(t, f)
      PROVE  SlotPlaces'
  BY <1>14 DEF LoadDone, Wakes, EndCall, KeepCount
<1>15. ASSUME NEW f \in Frames, InstallLoad(t, f)
      PROVE  SlotPlaces'
  BY <1>15, InstalledSlotPlaces
<1>16. ASSUME NEW f \in Frames, InstallZero(t, f)
      PROVE  SlotPlaces'
  BY <1>16, InstalledSlotPlaces
<1>17. ASSUME Detach(t)
      PROVE  SlotPlaces'
  BY <1>17 DEF Detach, Goto
<1>18. ASSUME ReleaseLast(t)
      PROVE  SlotPlaces'
  BY <1>18, ReleaseSlotPlaces
<1>19. ASSUME ReleaseShared(t)
      PROVE  SlotPlaces'
  BY <1>19, ReleaseSlotPlaces
<1>20. ASSUME DropPage(t)
      PROVE  SlotPlaces'
  BY <1>20 DEF DropPage, Goto, EndCall, FreeSlot
<1>21. ASSUME NEW p \in Pages, Access(t, p)
      PROVE  SlotPlaces'
  BY <1>21 DEF Access
<1>22. ASSUME NEW p \in Pages, CopyToPinned(t, p)
      PROVE  SlotPlaces'
  BY <1>22 DEF CopyToPinned
<1>23. ASSUME NEW p \in Pages, Map(t, p)
      PROVE  SlotPlaces'
  BY <1>23 DEF Map
<1>24. ASSUME NEW p \in Pages, PageFault(t, p)
      PROVE  SlotPlaces'
  BY <1>24 DEF PageFault, Call, Goto
<1>25. ASSUME NEW p \in Pages, Pin(t, p)
      PROVE  SlotPlaces'
  BY <1>25 DEF Pin, Call, Goto
<1>26. ASSUME NEW p \in Pages, Unmap(t, p)
      PROVE  SlotPlaces'
  BY <1>26 DEF Unmap, Call, Goto
<1>27. ASSUME NEW p \in Pages, Unpin(t, p)
      PROVE  SlotPlaces'
  BY <1>27 DEF Unpin, Goto
<1> QED BY <1>1, <1>2, <1>3, <1>4, <1>5, <1>6, <1>7, <1>8, <1>9, <1>10, <1>11, <1>12, <1>13,
  <1>14, <1>15, <1>16, <1>17, <1>18, <1>19, <1>20, <1>21, <1>22, <1>23, <1>24, <1>25, <1>26,
  <1>27 DEF GoodStep, UserStep

\* The page that was written to a slot is swapped out when its frame is taken.
LEMMA InstalledSlots ==
  ASSUME IInv, NEW t \in Procs, NEW f \in Frames, InstallLoad(t, f) \/ InstallZero(t, f)
  PROVE  SlotsAccounted'
<1>0. TypeOK /\ Places /\ FramesSeparate /\ FramePlaces /\ Handling /\ SlotPlaces /\ SlotsAccounted
  BY DEF IInv
<1>1. /\ Takes(t, f) /\ swapMap' = swapMap
      /\ swapSlot' = [q \in Pages |-> IF frameOf[q] = f /\ q \in SwapPages THEN slot[t] ELSE swapSlot[q]]
      /\ pc'[t] \in {"read", "run"}
  BY DEF InstallLoad, InstallZero, Installed
<1>2. \A p \in Pages : frameOf[p] = f => pc[t] = "written" /\ (p \in SwapPages <=> slot[t] # NULL)
  BY <1>0, <1>1, Taken DEF Handling, Takes, NeedsFrame
<1>3. \A u \in Procs \ {t} : slot'[u] = slot[u] /\ (pc'[u] = "written" <=> pc[u] = "written")
  BY InstalledFor
<1>4. Written' = Written \ {t}
  BY <1>1, <1>3 DEF Written
<1>5. \A u \in Written' : slot'[u] = slot[u]
  BY <1>3, <1>4 DEF Written
<1>6. CASE slot[t] = NULL
  <2>1. Written' = Written
    BY <1>4, <1>6 DEF Written
  <2>2. \A p \in Pages : swapSlot'[p] = swapSlot[p]
    BY <1>1, <1>2, <1>6
  <2>3. SwappedOut' = SwappedOut
    BY <2>2 DEF SwappedOut
  <2>4. {swapSlot[p] : p \in SwappedOut}' = {swapSlot[p] : p \in SwappedOut}
    BY <2>2, <2>3 DEF SwappedOut
  <2>5. {slot[u] : u \in Written}' = {slot[u] : u \in Written}
    BY <1>5, <2>1
  <2>6. \A p \in SwappedOut : p \in Pages
    BY DEF SwappedOut
  <2> QED BY <1>0, <1>1, <1>5, <2>1, <2>2, <2>3, <2>4, <2>5, <2>6 DEF SlotsAccounted
<1>7. CASE slot[t] # NULL
  <2>1. pc[t] = "written" /\ f = fr[t]
    BY <1>0, <1>1, <1>7 DEF Takes, NeedsFrame, Places, PlaceOf
  <2>2. t \in Written
    BY <1>7, <2>1 DEF Written
  <2>3. PICK p0 \in Pages : frameOf[p0] = f
    <3>1. f \notin Emptied
      BY <1>0, <2>1, InstalledFor DEF Emptied, Places, PlaceOf
    <3>2. f \in Range(clock)
      BY <1>0, <2>1 DEF FramePlaces
    <3> QED BY <1>0, <3>1, <3>2 DEF FramePlaces
  <2>4. p0 \in SwapPages /\ p0 \notin TextPages
    BY <1>2, <1>7, <2>3
  <2>5. \A p \in Pages : frameOf[p] = f => p = p0
    BY <1>0, <2>3, <2>4 DEF FramesSeparate
  <2>6. swapSlot'[p0] = slot[t] /\ \A p \in Pages \ {p0} : swapSlot'[p] = swapSlot[p]
    BY <1>1, <2>3, <2>4, <2>5
  <2>7. p0 \notin SwappedOut
    <3>1. ASSUME swapSlot[p0] # NULL PROVE FALSE
      <4>1. pc[Owner[p0]] = "read" /\ at[Owner[p0]] = p0 /\ Owner[p0] \in Procs
        BY <1>0, <2>3, <3>1 DEF SlotPlaces, Doing
      <4>2. Owner[p0] # t
        BY <2>1, <4>1
      <4> QED BY <2>3, <4>1, <4>2, InstalledFor
    <3> QED BY <3>1 DEF SwappedOut
  <2>8. SwappedOut' = SwappedOut \cup {p0}
    BY <1>7, <2>6 DEF SwappedOut
  <2>9. \A p \in SwappedOut : p \in Pages \ {p0} /\ swapSlot'[p] = swapSlot[p]
    BY <2>6, <2>7 DEF SwappedOut
  <2>10. \A x : x \in {swapSlot[p] : p \in SwappedOut}' <=> x \in {swapSlot[p] : p \in SwappedOut} \/ x = slot[t]
    BY <2>6, <2>8, <2>9
  <2>11. \A x : x \in {slot[u] : u \in Written}' \/ x = slot[t] <=> x \in {slot[u] : u \in Written}
    BY <1>4, <1>5, <2>2
  <2>12. swapMap' = {swapSlot[p] : p \in SwappedOut}' \cup {slot[u] : u \in Written}'
    BY <1>0, <1>1, <2>10, <2>11 DEF SlotsAccounted
  <2> QED BY <1>0, <1>4, <1>5, <2>2, <2>6, <2>8, <2>9, <2>12 DEF SlotsAccounted
<1> QED BY <1>6, <1>7

LEMMA LoadDoneSlots ==
  ASSUME IInv, NEW t \in Procs, NEW f \in Frames, LoadDone(t, f)
  PROVE  SlotsAccounted'
<1>0. TypeOK /\ Places /\ SlotsAccounted
  BY DEF IInv
<1>1. UNCHANGED <<swapMap, swapSlot>>
  BY DEF LoadDone
<1>2. \A u \in Procs : (pc'[u] = "written" <=> pc[u] = "written") /\ (pc[u] = "written" => slot'[u] = slot[u])
  BY LoadDoneFor
<1>3. Written' = Written /\ \A u \in Written : slot'[u] = slot[u]
  BY <1>2 DEF Written
<1>4. SwappedOut' = SwappedOut
  BY <1>1 DEF SwappedOut
<1>5. {swapSlot[p] : p \in SwappedOut}' = {swapSlot[p] : p \in SwappedOut}
  BY <1>1, <1>4
<1>6. {slot[u] : u \in Written}' = {slot[u] : u \in Written}
  BY <1>3
<1> QED BY <1>0, <1>1, <1>3, <1>4, <1>5, <1>6 DEF SlotsAccounted

\* The slot of a page that was read or dropped is free.
LEMMA FreedSlots ==
  ASSUME IInv, NEW t \in Procs, Read(t) \/ DropPage(t)
  PROVE  SlotsAccounted'
<1> DEFINE p0 == at[t]
           s == swapSlot[p0]
<1>0. TypeOK /\ Places /\ SlotsAccounted
  BY DEF IInv
<1>1. /\ pc[t] \in {"read", "unload"} /\ swapMap' = swapMap \ {s} /\ swapSlot' = [swapSlot EXCEPT ![p0] = NULL]
      /\ pc'[t] \in {"finish", "run"}
      /\ \A u \in Procs \ {t} : slot'[u] = slot[u] /\ pc'[u] = pc[u]
  BY <1>0 DEF Read, DropPage, FreeSlot, Goto, EndCall, TypeOK
<1>2. p0 \in Pages
  BY <1>0, <1>1, OwnPages
<1> HIDE DEF p0
<1>3. swapSlot'[p0] = NULL /\ \A p \in Pages \ {p0} : swapSlot'[p] = swapSlot[p]
  BY <1>0, <1>1, <1>2 DEF TypeOK
<1>4. Written' = Written /\ \A u \in Written : slot'[u] = slot[u]
  BY <1>1 DEF Written
<1>5. SwappedOut' = SwappedOut \ {p0}
  BY <1>2, <1>3 DEF SwappedOut
<1>6. \A p \in SwappedOut : p \in Pages /\ swapSlot[p] # NULL
  BY DEF SwappedOut
<1>7. \A p \in SwappedOut \ {p0} : swapSlot'[p] = swapSlot[p] /\ swapSlot[p] # s
  <2> SUFFICES ASSUME NEW p \in SwappedOut \ {p0}
               PROVE  swapSlot'[p] = swapSlot[p] /\ swapSlot[p] # s
    OBVIOUS
  <2>1. CASE p0 \in SwappedOut
    BY <1>0, <1>3, <1>6, <2>1 DEF SlotsAccounted
  <2>2. CASE p0 \notin SwappedOut
    BY <1>2, <1>3, <1>6, <2>2 DEF SwappedOut
  <2> QED BY <2>1, <2>2
<1>8. \A u \in Written : slot[u] # s
  <2>1. CASE p0 \in SwappedOut
    BY <1>0, <2>1 DEF SlotsAccounted
  <2>2. CASE p0 \notin SwappedOut
    BY <1>2, <2>2 DEF SwappedOut, Written
  <2> QED BY <2>1, <2>2
<1>9. \A x : x \in {swapSlot[p] : p \in SwappedOut}' <=> x \in {swapSlot[p] : p \in SwappedOut \ {p0}}
  BY <1>5, <1>7
<1>10. \A x : x \in {slot[u] : u \in Written}' <=> x \in {slot[u] : u \in Written}
  BY <1>4
<1>11. \A x : x \in swapMap <=> x \in {swapSlot[p] : p \in SwappedOut} \/ x \in {slot[u] : u \in Written}
  BY <1>0 DEF SlotsAccounted
<1>12. \A x : x \in swapMap' <=> x \in swapMap /\ x # s
  BY <1>1
<1>13. \A x : x \in {swapSlot[p] : p \in SwappedOut} <=> x \in {swapSlot[p] : p \in SwappedOut \ {p0}} \/ (p0 \in SwappedOut /\ x = s)
  BY DEF p0
<1>14. \A x : x \in {swapSlot[p] : p \in SwappedOut \ {p0}} \/ x \in {slot[u] : u \in Written} => x # s
  BY <1>7, <1>8
<1>15. swapMap' = {swapSlot[p] : p \in SwappedOut}' \cup {slot[u] : u \in Written}'
  <2> HIDE DEF s
  <2> QED BY <1>9, <1>10, <1>11, <1>12, <1>13, <1>14
<1>16. \A p, q \in SwappedOut' : swapSlot'[p] = swapSlot'[q] => p = q
  BY <1>0, <1>5, <1>7 DEF SlotsAccounted
<1>17. \A u, v \in Written' : slot'[u] = slot'[v] => u = v
  BY <1>0, <1>4 DEF SlotsAccounted
<1>18. \A p \in SwappedOut', u \in Written' : swapSlot'[p] # slot'[u]
  BY <1>0, <1>4, <1>5, <1>7 DEF SlotsAccounted
<1> QED BY <1>15, <1>16, <1>17, <1>18 DEF SlotsAccounted

\* Every branch leaks no slot and uses none twice.
LEMMA SlotsStep ==
  ASSUME IInv, NEW t \in Procs, GoodStep(t)
  PROVE  SlotsAccounted'
<1>0. TypeOK /\ Places /\ FramesSeparate /\ FramePlaces /\ Handling /\ SlotPlaces /\
    SlotsAccounted
  BY DEF IInv
<1> USE <1>0 DEF TypeOK, Places, PlaceOf, FramesSeparate, FramePlaces, Handling, Hand,
    SlotPlaces, Doing, SlotsAccounted, Written, SwappedOut
<1>1. ASSUME LoadWait(t)
      PROVE  SlotsAccounted'
  BY <1>1 DEF LoadWait, Goto
<1>2. ASSUME UnloadWait(t)
      PROVE  SlotsAccounted'
  BY <1>2 DEF UnloadWait, Goto
<1>3. ASSUME PinPresent(t)
      PROVE  SlotsAccounted'
  BY <1>3 DEF PinPresent, Goto, EndCall
<1>4. ASSUME ShareWait(t)
      PROVE  SlotsAccounted'
  BY <1>4 DEF ShareWait, Goto, MapPage
<1>5. ASSUME ShareNow(t)
      PROVE  SlotsAccounted'
  BY <1>5 DEF ShareNow, Goto, EndCall, MapPage, KeepCount
<1>6. ASSUME LoadedShared(t)
      PROVE  SlotsAccounted'
  BY <1>6 DEF LoadedShared, Goto, EndCall, KeepCount
<1>7. ASSUME Read(t)
      PROVE  SlotsAccounted'
  BY <1>7, FreedSlots
<1>8. ASSUME UnmapWrite(t)
      PROVE  SlotsAccounted'
  BY <1>8 DEF UnmapWrite, Unmapped, Goto
<1>9. ASSUME UnmapClean(t)
      PROVE  SlotsAccounted'
  BY <1>9 DEF UnmapClean, Unmapped, Goto
<1>10. ASSUME WriteToFile(t)
      PROVE  SlotsAccounted'
  BY <1>10 DEF WriteToFile, Goto
<1>11. ASSUME FlipSlot(t)
      PROVE  SlotsAccounted'
  BY <1>11 DEF FlipSlot, Goto
<1>12. ASSUME NEW s \in Slots, TakeSlot(t, s)
      PROVE  SlotsAccounted'
  BY <1>12 DEF TakeSlot, Goto
<1>13. ASSUME NEW f \in Frames, Choose(t, f)
      PROVE  SlotsAccounted'
  BY <1>13 DEF Choose, NeedsFrame, Goto
<1>14. ASSUME NEW f \in Frames, LoadDone(t, f)
      PROVE  SlotsAccounted'
  BY <1>14, LoadDoneSlots
<1>15. ASSUME NEW f \in Frames, InstallLoad(t, f)
      PROVE  SlotsAccounted'
  BY <1>15, InstalledSlots
<1>16. ASSUME NEW f \in Frames, InstallZero(t, f)
      PROVE  SlotsAccounted'
  BY <1>16, InstalledSlots
<1>17. ASSUME Detach(t)
      PROVE  SlotsAccounted'
  BY <1>17 DEF Detach, Goto
<1>18. ASSUME ReleaseLast(t)
      PROVE  SlotsAccounted'
  BY <1>18 DEF ReleaseLast, Goto, EndCall, FileSaved
<1>19. ASSUME ReleaseShared(t)
      PROVE  SlotsAccounted'
  BY <1>19 DEF ReleaseShared, Goto, EndCall
<1>20. ASSUME DropPage(t)
      PROVE  SlotsAccounted'
  BY <1>20, FreedSlots
<1>21. ASSUME NEW p \in Pages, Access(t, p)
      PROVE  SlotsAccounted'
  BY <1>21 DEF Access
<1>22. ASSUME NEW p \in Pages, CopyToPinned(t, p)
      PROVE  SlotsAccounted'
  BY <1>22 DEF CopyToPinned
<1>23. ASSUME NEW p \in Pages, Map(t, p)
      PROVE  SlotsAccounted'
  BY <1>23 DEF Map
<1>24. ASSUME NEW p \in Pages, PageFault(t, p)
      PROVE  SlotsAccounted'
  BY <1>24 DEF PageFault, Call, Goto
<1>25. ASSUME NEW p \in Pages, Pin(t, p)
      PROVE  SlotsAccounted'
  BY <1>25 DEF Pin, Call, Goto
<1>26. ASSUME NEW p \in Pages, Unmap(t, p)
      PROVE  SlotsAccounted'
  BY <1>26 DEF Unmap, Call, Goto
<1>27. ASSUME NEW p \in Pages, Unpin(t, p)
      PROVE  SlotsAccounted'
  BY <1>27 DEF Unpin, Goto
<1> QED BY <1>1, <1>2, <1>3, <1>4, <1>5, <1>6, <1>7, <1>8, <1>9, <1>10, <1>11, <1>12, <1>13,
  <1>14, <1>15, <1>16, <1>17, <1>18, <1>19, <1>20, <1>21, <1>22, <1>23, <1>24, <1>25, <1>26,
  <1>27 DEF GoodStep, UserStep

\* A step of process t ends no call for a page of another process.
LEMMA DoingElsewhere ==
  ASSUME NEW t \in Procs, NEW L, at'[t] \in {at[t], NULL},
         \A u \in Procs \ {t} : at'[u] = at[u] /\ (pc'[u] \in L <=> pc[u] \in L),
         NEW p \in Pages, p # at[t]
  PROVE  Doing(p, L)' <=> Doing(p, L)
<1>1. Owner[p] \in Procs /\ p # NULL
  OBVIOUS
<1>2. CASE Owner[p] = t
  BY <1>1, <1>2 DEF Doing
<1>3. CASE Owner[p] # t
  BY <1>1, <1>3 DEF Doing
<1> QED BY <1>2, <1>3

LEMMA SharedData ==
  ASSUME IInv, NEW t \in Procs, ShareWait(t) \/ ShareNow(t)
  PROVE  DataPlaces'
<1>0. TypeOK /\ Places /\ FramePlaces /\ DataPlaces /\ LocksCounted /\ NoLostWait
  BY DEF IInv
<1>1. /\ UNCHANGED <<frameData, file, swap>> /\ dirty' = dirty \ {at[t]}
      /\ frameOf' = [frameOf EXCEPT ![at[t]] = roFrame] /\ at[t] \in TextPages /\ roFrame # NULL /\ pc[t] = "load"
      /\ \A u \in Procs \ {t} : at'[u] = at[u] /\ pc'[u] = pc[u] /\ fr'[u] = fr[u] /\ slot'[u] = slot[u]
      /\ pc'[t] \in {"waitShared", "run"}
  BY <1>0 DEF ShareWait, ShareNow, MapPage, Goto, EndCall, TypeOK
<1>2. /\ at[t] \in Pages /\ Owner[at[t]] = t
      /\ frameOf'[at[t]] = roFrame /\ \A p \in Pages \ {at[t]} : frameOf'[p] = frameOf[p]
  BY <1>0, <1>1, OwnPages DEF TypeOK
<1>3. Saving' = Saving
  BY <1>1 DEF Saving
<1>4. frameData[roFrame] = Text \/ (pc'[t] = "waitShared" /\ at'[t] = at[t])
  <2>1. CASE ShareWait(t)
    BY <1>0, <2>1 DEF ShareWait, Goto, TypeOK
  <2>2. CASE ShareNow(t)
    <3>1. ~io[roFrame] /\ roFrame \in Frames
      BY <1>0, <1>1, <2>2 DEF ShareNow, TypeOK
    <3>2. PICK q \in Pages : frameOf[q] = roFrame /\ q \in TextPages
      BY <1>0, <1>1 DEF FramePlaces
    <3>3. ~Doing(q, {"read", "waitShared"})
      BY <1>0, <3>1, <3>2, IoMeans DEF Doing, NoLostWait
    <3> QED BY <1>0, <1>1, <3>2, <3>3 DEF DataPlaces
  <2> QED BY <2>1, <2>2
<1>5. ASSUME NEW p \in Pages, NEW L \in SUBSET {"read", "waitShared", "release"}, p # at[t]
      PROVE  Doing(p, L)' <=> Doing(p, L)
  <2>1. at'[t] \in {at[t], NULL}
    BY <1>0 DEF ShareWait, ShareNow, EndCall, TypeOK
  <2> QED BY <1>1, <1>5, <2>1, DoingElsewhere
<1>6. \A p \in Pages \ TextPages : frameOf'[p] # NULL => frameData[frameOf'[p]] \in Values
  BY <1>0, <1>1, <1>2 DEF DataPlaces
<1>7. \A p \in TextPages : frameOf'[p] # NULL => frameData[frameOf'[p]] = Text \/ Doing(p, {"read", "waitShared"})'
  <2> SUFFICES ASSUME NEW p \in TextPages, frameOf'[p] # NULL
               PROVE  frameData[frameOf'[p]] = Text \/ Doing(p, {"read", "waitShared"})'
    OBVIOUS
  <2>1. CASE p = at[t]
    BY <1>2, <1>4, <2>1 DEF Doing
  <2>2. CASE p # at[t]
    <3>1. p \in Pages
      BY DEF Pages
    <3> QED BY <1>0, <1>2, <1>5, <2>2, <3>1 DEF DataPlaces
  <2> QED BY <2>1, <2>2
<1>8. \A p \in MapPages : p \in Pages /\ p # at[t]
  BY <1>1 DEF Pages
<1>9. \A p \in MapPages : frameOf'[p] \notin Saving \cup {NULL} /\ p \notin dirty' /\ ~Doing(p, {"read"})' =>
        frameData[frameOf'[p]] = file[p]
  BY <1>0, <1>1, <1>2, <1>5, <1>8 DEF DataPlaces
<1>10. \A p \in MapPages : p \in dirty' /\ Doing(p, {"release"})' => frameData[fr'[Owner[p]]] \in Values
  <2> SUFFICES ASSUME NEW p \in MapPages, p \in dirty', Doing(p, {"release"})'
               PROVE  frameData[fr'[Owner[p]]] \in Values
    OBVIOUS
  <2>1. p \in dirty /\ Doing(p, {"release"})
    BY <1>1, <1>5, <1>8
  <2>2. Owner[p] \in Procs \ {t}
    BY <1>1, <1>8, <2>1 DEF Doing
  <2> QED BY <1>0, <1>1, <2>1, <2>2 DEF DataPlaces
<1>11. \A u \in Procs : pc'[u] = "written" /\ slot'[u] # NULL => swap[slot'[u]] = frameData[fr'[u]]
  BY <1>0, <1>1 DEF DataPlaces
<1> QED BY <1>1, <1>3, <1>6, <1>7, <1>9, <1>10, <1>11 DEF DataPlaces

LEMMA InstalledData ==
  ASSUME IInv, NEW t \in Procs, NEW f \in Frames, InstallLoad(t, f) \/ InstallZero(t, f)
  PROVE  DataPlaces'
<1>0. TypeOK /\ Places /\ DataPlaces
  BY DEF IInv
<1>1. /\ UNCHANGED <<file, swap>> /\ dirty' = dirty \ {at[t]} /\ frameData' = [frameData EXCEPT ![f] = Zero]
      /\ pc'[t] \in {"read", "run"} /\ at'[t] \in {at[t], NULL} /\ Takes(t, f)
  BY <1>0 DEF InstallLoad, InstallZero, Installed, EndCall, TypeOK
<1>2. at[t] \in Pages /\ Owner[at[t]] = t /\ pc[t] \in {"load", "clean", "written"}
  BY <1>1, Taken
<1>3. frameOf'[at[t]] = f /\ \A q \in Pages \ {at[t]} : frameOf'[q] = IF frameOf[q] = f THEN NULL ELSE frameOf[q]
  BY InstalledFor
<1>4. frameData'[f] = Zero /\ \A g \in Frames \ {f} : frameData'[g] = frameData[g]
  BY <1>0, <1>1 DEF TypeOK
<1>5. Saving' = Saving
  BY <1>1, <1>2, InstalledFor DEF Saving
<1>6. ASSUME NEW p \in Pages, NEW L \in {{"read"}, {"read", "waitShared"}, {"release"}}, p # at[t]
      PROVE  Doing(p, L)' <=> Doing(p, L)
  <2>1. \A u \in Procs \ {t} : at'[u] = at[u] /\ (pc'[u] \in L <=> pc[u] \in L)
    BY InstalledFor
  <2> QED BY <1>1, <1>6, <2>1, DoingElsewhere
<1>7. InstallZero(t, f) => at[t] \notin TextPages \cup MapPages
  BY DEF InstallZero, SwapPages
<1>8. InstallLoad(t, f) => pc'[t] = "read" /\ at'[t] = at[t]
  BY DEF InstallLoad
<1>9. \A p \in Pages \ TextPages : frameOf'[p] # NULL => frameData'[frameOf'[p]] \in Values
  <2> SUFFICES ASSUME NEW p \in Pages \ TextPages, frameOf'[p] # NULL
               PROVE  frameData'[frameOf'[p]] \in Values
    OBVIOUS
  <2>1. CASE p = at[t]
    BY <1>3, <1>4, <2>1
  <2>2. CASE p # at[t]
    <3>1. frameOf'[p] = frameOf[p] /\ frameOf[p] \in Frames \ {f}
      BY <1>0, <1>3, <2>2 DEF TypeOK
    <3> QED BY <1>0, <1>4, <3>1 DEF DataPlaces
  <2> QED BY <2>1, <2>2
<1>10. \A p \in TextPages : frameOf'[p] # NULL => frameData'[frameOf'[p]] = Text \/ Doing(p, {"read", "waitShared"})'
  <2> SUFFICES ASSUME NEW p \in TextPages, frameOf'[p] # NULL
               PROVE  frameData'[frameOf'[p]] = Text \/ Doing(p, {"read", "waitShared"})'
    OBVIOUS
  <2>1. CASE p = at[t]
    <3>1. CASE InstallLoad(t, f)
      BY <1>2, <1>8, <2>1, <3>1 DEF Doing
    <3>2. CASE InstallZero(t, f)
      BY <1>7, <2>1, <3>2
    <3> QED BY <3>1, <3>2
  <2>2. CASE p # at[t]
    <3>1. p \in Pages
      BY DEF Pages
    <3>2. frameOf'[p] = frameOf[p] /\ frameOf[p] \in Frames \ {f}
      BY <1>0, <1>3, <2>2, <3>1 DEF TypeOK
    <3> QED BY <1>0, <1>4, <1>6, <2>2, <3>1, <3>2 DEF DataPlaces
  <2> QED BY <2>1, <2>2
<1>11. \A p \in MapPages : frameOf'[p] \notin Saving \cup {NULL} /\ p \notin dirty' /\ ~Doing(p, {"read"})' =>
         frameData'[frameOf'[p]] = file[p]
  <2> SUFFICES ASSUME NEW p \in MapPages, frameOf'[p] \notin Saving \cup {NULL}, p \notin dirty', ~Doing(p, {"read"})'
               PROVE  frameData'[frameOf'[p]] = file[p]
    OBVIOUS
  <2>1. p # at[t]
    <3>1. CASE InstallLoad(t, f)
      BY <1>2, <1>8, <3>1 DEF Doing
    <3>2. CASE InstallZero(t, f)
      BY <1>7, <3>2
    <3> QED BY <3>1, <3>2
  <2>2. p \in Pages
    BY DEF Pages
  <2>3. frameOf'[p] = frameOf[p] /\ frameOf[p] \in Frames \ {f}
    BY <1>0, <1>3, <2>1, <2>2 DEF TypeOK
  <2>4. ~Doing(p, {"read"})
    BY <1>6, <2>1, <2>2
  <2>5. frameData[frameOf[p]] = file[p]
    BY <1>0, <1>1, <2>1, <2>3, <2>4 DEF DataPlaces
  <2> QED BY <1>4, <2>3, <2>5
<1>12. \A p \in MapPages : p \in dirty' /\ Doing(p, {"release"})' => frameData'[fr'[Owner[p]]] \in Values
  <2> SUFFICES ASSUME NEW p \in MapPages, p \in dirty', Doing(p, {"release"})'
               PROVE  frameData'[fr'[Owner[p]]] \in Values
    OBVIOUS
  <2>1. p \in Pages /\ p \in dirty /\ p # at[t]
    BY <1>1 DEF Pages
  <2>2. Doing(p, {"release"})
    BY <1>6, <2>1
  <2>3. Owner[p] \in Procs \ {t}
    BY <1>2, <2>1, <2>2 DEF Doing
  <2>4. fr'[Owner[p]] = fr[Owner[p]] /\ fr[Owner[p]] \in Frames
    BY <1>0, <2>2, <2>3, InstalledFor DEF Doing, Places, PlaceOf, TypeOK
  <2> QED BY <1>0, <1>4, <2>1, <2>2, <2>4 DEF DataPlaces
<1>13. \A u \in Procs : pc'[u] = "written" /\ slot'[u] # NULL => swap[slot'[u]] = frameData'[fr'[u]]
  <2> SUFFICES ASSUME NEW u \in Procs, pc'[u] = "written", slot'[u] # NULL
               PROVE  swap[slot'[u]] = frameData'[fr'[u]]
    OBVIOUS
  <2>1. u # t /\ pc[u] = "written" /\ slot'[u] = slot[u] /\ fr'[u] = fr[u] /\ fr[u] # f
    BY <1>1, InstalledFor
  <2>2. fr[u] \in Frames
    BY <1>0, <2>1 DEF Places, PlaceOf, TypeOK
  <2> QED BY <1>0, <1>4, <2>1, <2>2 DEF DataPlaces
<1> QED BY <1>1, <1>5, <1>9, <1>10, <1>11, <1>12, <1>13 DEF DataPlaces

LEMMA LoadDoneData ==
  ASSUME IInv, NEW t \in Procs, NEW f \in Frames, LoadDone(t, f)
  PROVE  DataPlaces'
<1>0. TypeOK /\ Places /\ DataPlaces /\ FramesSeparate
  BY DEF IInv
<1>1. /\ UNCHANGED <<frameOf, dirty, frameData, file, swap>>
  BY DEF LoadDone
<1>2. /\ at[t] \in Pages /\ Owner[at[t]] = t /\ pc[t] = "finish" /\ frameOf[at[t]] = f /\ pc'[t] = "run" /\ at'[t] = NULL
  BY LoadDoneFor
<1>9. \A u \in Procs \ {t} :
        /\ at'[u] = at[u] /\ fr'[u] = fr[u] /\ slot'[u] = slot[u]
        /\ \/ pc'[u] = pc[u]
           \/ pc[u] \in {"waitLoad", "waitUnload"} /\ pc'[u] \in {"load", "unload"}
           \/ pc[u] = "waitShared" /\ pc'[u] = "shared" /\ frameOf[at[u]] = f
  <2> SUFFICES ASSUME NEW u \in Procs \ {t}
               PROVE  /\ at'[u] = at[u] /\ fr'[u] = fr[u] /\ slot'[u] = slot[u]
                      /\ \/ pc'[u] = pc[u]
                         \/ pc[u] \in {"waitLoad", "waitUnload"} /\ pc'[u] \in {"load", "unload"}
                         \/ pc[u] = "waitShared" /\ pc'[u] = "shared" /\ frameOf[at[u]] = f
    OBVIOUS
  <2>1. at'[u] = at[u] /\ fr'[u] = fr[u] /\ slot'[u] = slot[u]
    BY LoadDoneFor
  <2>2. \/ pc'[u] = pc[u]
        \/ pc[u] = "waitLoad" /\ pc'[u] = "load" /\ frameOf[at[u]] = f
        \/ pc[u] = "waitShared" /\ pc'[u] = "shared" /\ frameOf[at[u]] = f
        \/ pc[u] = "waitUnload" /\ pc'[u] = "unload" /\ frameOf[at[u]] = f
    BY <1>0, WakesMeans DEF LoadDone
  <2> QED BY <2>1, <2>2
<1>3. Saving' = Saving
  BY <1>2, <1>9 DEF Saving
<1>4. ASSUME NEW p \in Pages, NEW L \in {{"read"}, {"release"}}
      PROVE  Doing(p, L)' <=> Doing(p, L)
  <2>1. \A u \in Procs \ {t} : at'[u] = at[u] /\ (pc'[u] \in L <=> pc[u] \in L)
    BY <1>9
  <2>2. CASE p # at[t]
    BY <1>2, <2>1, <2>2, DoingElsewhere
  <2>3. CASE p = at[t]
    BY <1>2, <2>3 DEF Doing
  <2> QED BY <2>2, <2>3
<1>5. \A p \in TextPages : frameOf[p] # NULL => frameData[frameOf[p]] = Text \/ Doing(p, {"read", "waitShared"})'
  <2> SUFFICES ASSUME NEW p \in TextPages, frameOf[p] # NULL, frameData[frameOf[p]] # Text
               PROVE  Doing(p, {"read", "waitShared"})'
    OBVIOUS
  <2>1. p \in Pages /\ Owner[p] \in Procs
    BY DEF Pages
  <2>2. frameOf[p] # f
    <3>1. ASSUME frameOf[p] = f PROVE FALSE
      <4>1. at[t] \in TextPages
        BY <1>0, <1>2, <2>1, <3>1 DEF FramesSeparate
      <4>2. ~Doing(at[t], {"read", "waitShared"})
        BY <1>2 DEF Doing
      <4> QED BY <1>0, <1>2, <3>1, <4>1, <4>2 DEF DataPlaces
    <3> QED BY <3>1
  <2>3. pc[Owner[p]] \in {"read", "waitShared"} /\ at[Owner[p]] = p
    BY <1>0 DEF DataPlaces, Doing
  <2>4. Owner[p] \in Procs \ {t}
    BY <1>2, <2>1, <2>3
  <2> QED BY <1>9, <2>2, <2>3, <2>4 DEF Doing
<1>6. \A p \in MapPages : p \in Pages
  BY DEF Pages
<1>7. \A p \in MapPages : p \in dirty /\ Doing(p, {"release"})' => frameData[fr'[Owner[p]]] \in Values
  <2> SUFFICES ASSUME NEW p \in MapPages, p \in dirty, Doing(p, {"release"})'
               PROVE  frameData[fr'[Owner[p]]] \in Values
    OBVIOUS
  <2>1. Doing(p, {"release"}) /\ Owner[p] \in Procs \ {t}
    BY <1>2, <1>4, <1>6 DEF Doing
  <2>2. fr'[Owner[p]] = fr[Owner[p]]
    BY <1>9, <2>1
  <2> QED BY <1>0, <2>1, <2>2 DEF DataPlaces
<1>8. \A u \in Procs : pc'[u] = "written" => pc[u] = "written" /\ slot'[u] = slot[u] /\ fr'[u] = fr[u]
  BY LoadDoneFor
<1> QED BY <1>0, <1>1, <1>3, <1>4, <1>5, <1>6, <1>7, <1>8 DEF DataPlaces

LEMMA ReadData ==
  ASSUME IInv, NEW t \in Procs, Read(t)
  PROVE  DataPlaces'
<1> DEFINE p0 == at[t]
           f == frameOf[p0]
           s == swapSlot[p0]
<1>0. /\ TypeOK /\ Places /\ DataPlaces /\ FramesSeparate /\ SlotPlaces
      /\ FramePlaces /\ FramesAccounted /\ Handling /\ SlotsAccounted
  BY DEF IInv
<1>1. /\ pc[t] = "read" /\ UNCHANGED <<frameOf, dirty, file, at, fr, slot>>
      /\ frameData' = [frameData EXCEPT ![f] = IF s = NULL THEN Source(p0) ELSE swap[s]]
      /\ swap' = [r \in Slots |-> IF r = s THEN Zero ELSE swap[r]]
      /\ pc'[t] = "finish" /\ \A u \in Procs \ {t} : pc'[u] = pc[u]
  BY <1>0 DEF Read, Goto, FreeSlot, TypeOK
<1>2. p0 \in Pages /\ Owner[p0] = t
  BY <1>0, <1>1, OwnPages
<1>3. f \in Frames
  BY <1>0, <1>1, <1>2 DEF Places, PlaceOf, TypeOK
<1>4. frameData'[f] = (IF s = NULL THEN Source(p0) ELSE swap[s]) /\ \A g \in Frames \ {f} : frameData'[g] = frameData[g]
  BY <1>0, <1>1, <1>3 DEF TypeOK
<1>5. s # NULL => p0 \in SwapPages /\ s \in Slots /\ swap[s] \in Values
  BY <1>0, <1>2 DEF SlotPlaces, TypeOK
<1>6. /\ p0 \notin TextPages => frameData'[f] \in Values
      /\ p0 \in TextPages => frameData'[f] = Text
      /\ p0 \in MapPages => frameData'[f] = file[p0]
  BY <1>0, <1>2, <1>4, <1>5 DEF Source, TypeOK, SwapPages
<1>7. \A p \in Pages : frameOf[p] = f => p = p0 \/ {p, p0} \subseteq TextPages
  BY <1>0, <1>2, <1>3 DEF FramesSeparate
<1>8. ASSUME NEW p \in Pages, NEW L \in {{"read"}, {"read", "waitShared"}, {"release"}}, p # at[t]
      PROVE  Doing(p, L)' <=> Doing(p, L)
  BY <1>1, <1>8, DoingElsewhere
<1>9. Saving' = Saving
  BY <1>1 DEF Saving
<1>10. f \in Range(clock)
  BY <1>0, <1>2, <1>3 DEF FramesAccounted, PagesOn
<1>11. \A p \in Pages : p = at[t] => ~(pc'[Owner[p]] = "release")
  BY <1>1, <1>2
<1> HIDE DEF p0, f, s
<1>12. \A p \in Pages \ TextPages : frameOf[p] # NULL => frameData'[frameOf[p]] \in Values
  <2> SUFFICES ASSUME NEW p \in Pages \ TextPages, frameOf[p] # NULL
               PROVE  frameData'[frameOf[p]] \in Values
    OBVIOUS
  <2>1. CASE frameOf[p] = f
    <3>1. p = p0
      BY <1>7, <2>1
    <3> QED BY <1>6, <2>1, <3>1
  <2>2. CASE frameOf[p] # f
    <3>1. frameOf[p] \in Frames \ {f}
      BY <1>0, <2>2 DEF TypeOK
    <3> QED BY <1>0, <1>4, <3>1 DEF DataPlaces
  <2> QED BY <2>1, <2>2
<1>13. \A p \in TextPages : frameOf[p] # NULL => frameData'[frameOf[p]] = Text \/ Doing(p, {"read", "waitShared"})'
  <2> SUFFICES ASSUME NEW p \in TextPages, frameOf[p] # NULL
               PROVE  frameData'[frameOf[p]] = Text \/ Doing(p, {"read", "waitShared"})'
    OBVIOUS
  <2>1. p \in Pages
    BY DEF Pages
  <2>2. CASE frameOf[p] = f
    BY <1>6, <1>7, <2>1, <2>2
  <2>3. CASE frameOf[p] # f
    BY <1>0, <1>4, <1>8, <2>1, <2>3 DEF DataPlaces, TypeOK, p0, f
  <2> QED BY <2>2, <2>3
<1>14. \A p \in MapPages : frameOf[p] \notin Saving \cup {NULL} /\ p \notin dirty /\ ~Doing(p, {"read"})' =>
         frameData'[frameOf[p]] = file[p]
  <2> SUFFICES ASSUME NEW p \in MapPages, frameOf[p] \notin Saving \cup {NULL}, p \notin dirty, ~Doing(p, {"read"})'
               PROVE  frameData'[frameOf[p]] = file[p]
    OBVIOUS
  <2>1. p \in Pages /\ p \notin TextPages
    BY DEF Pages
  <2>2. CASE p = p0
    BY <1>6, <2>2 DEF f
  <2>3. CASE p # p0
    BY <1>0, <1>4, <1>7, <1>8, <2>1, <2>3 DEF DataPlaces, TypeOK, p0
  <2> QED BY <2>2, <2>3
<1>15. \A p \in MapPages : p \in dirty /\ Doing(p, {"release"})' => frameData'[fr[Owner[p]]] \in Values
  <2> SUFFICES ASSUME NEW p \in MapPages, p \in dirty, Doing(p, {"release"})'
               PROVE  frameData'[fr[Owner[p]]] \in Values
    OBVIOUS
  <2>1. p \in Pages /\ p \notin TextPages /\ Owner[p] \in Procs
    BY DEF Pages
  <2>2. Doing(p, {"release"})
    <3>1. CASE p = at[t]
      BY <1>11, <2>1, <3>1 DEF Doing
    <3>2. CASE p # at[t]
      BY <1>8, <2>1, <3>2
    <3> QED BY <3>1, <3>2
  <2>3. fr[Owner[p]] \in Frames /\ fr[Owner[p]] # f
    BY <1>0, <1>10, <2>1, <2>2 DEF Doing, FramePlaces, Places, PlaceOf, TypeOK
  <2> QED BY <1>0, <1>4, <2>2, <2>3 DEF DataPlaces
<1>16. \A u \in Procs : pc'[u] = "written" /\ slot[u] # NULL => swap'[slot[u]] = frameData'[fr[u]]
  <2> SUFFICES ASSUME NEW u \in Procs, pc'[u] = "written", slot[u] # NULL
               PROVE  swap'[slot[u]] = frameData'[fr[u]]
    OBVIOUS
  <2>1. pc[u] = "written" /\ u # t
    BY <1>1
  <2>2. fr[u] \in Frames /\ slot[u] \in Slots
    BY <1>0, <2>1 DEF Places, PlaceOf, TypeOK
  <2>3. fr[u] # f
    <3>1. Hand(u) = fr[u] /\ Hand(t) = f
      BY <1>1, <2>1 DEF Hand, f, p0
    <3> QED BY <1>0, <1>1, <2>1, <3>1 DEF Handling
  <2>4. slot[u] # s
    <3>1. u \in Written
      BY <2>1 DEF Written
    <3>2. s # NULL => p0 \in SwappedOut
      BY <1>2 DEF SwappedOut, s
    <3> QED BY <1>0, <3>1, <3>2 DEF SlotsAccounted, s
  <2> QED BY <1>0, <1>1, <1>4, <2>1, <2>2, <2>3, <2>4 DEF DataPlaces
<1> QED BY <1>1, <1>9, <1>12, <1>13, <1>14, <1>15, <1>16 DEF DataPlaces

LEMMA UnmapCleanData ==
  ASSUME IInv, NEW t \in Procs, UnmapClean(t)
  PROVE  DataPlaces'
<1>0. TypeOK /\ Places /\ DataPlaces
  BY DEF IInv
<1>1. UNCHANGED <<frameData, file, swap, at, fr, slot>> /\ dirty' = {p \in dirty : frameOf[p] # fr[t]} /\ pc[t] = "unmap"
  BY DEF UnmapClean, Unmapped
<1>2. pc'[t] = "clean" /\ \A u \in Procs \ {t} : pc'[u] = pc[u]
  BY EmptiedFor
<1>3. \A p \in Pages : frameOf'[p] = IF frameOf[p] = fr[t] THEN NULL ELSE frameOf[p]
  BY EmptiedFor
<1>4. Saving' = Saving
  BY <1>1, <1>2 DEF Saving
<1>5. ASSUME NEW p \in Pages, NEW L \in {{"read"}, {"read", "waitShared"}, {"release"}}
      PROVE  Doing(p, L)' <=> Doing(p, L)
  BY <1>1, <1>2 DEF Doing
<1>6. \A p \in TextPages \cup MapPages : p \in Pages
  BY DEF Pages
<1>7. \A u \in Procs : pc'[u] = "written" => pc[u] = "written"
  BY <1>2
<1>8. \A p \in Pages : frameOf'[p] # NULL => frameOf'[p] = frameOf[p] /\ frameOf[p] # fr[t]
  BY <1>3
<1> QED BY <1>0, <1>1, <1>4, <1>5, <1>6, <1>7, <1>8 DEF DataPlaces

LEMMA SlotData ==
  ASSUME IInv, NEW t \in Procs, FlipSlot(t) \/ \E s \in Slots : TakeSlot(t, s)
  PROVE  DataPlaces'
<1>0. TypeOK /\ Places /\ DataPlaces /\ SlotsAccounted /\ Handling
  BY DEF IInv
<1>1. UNCHANGED <<frameOf, frameData, file, dirty, at, fr>> /\ pc[t] \in {"flip", "write"}
  BY DEF FlipSlot, TakeSlot
<1>2. pc'[t] \in {"written", "flip"} /\ \A u \in Procs \ {t} : pc'[u] = pc[u] /\ slot'[u] = slot[u]
  BY <1>0 DEF FlipSlot, TakeSlot, Goto, TypeOK
<1>3. \A p \in MapPages : frameOf[p] \in Saving => frameOf[p] \in Saving'
  <2>1. \A p \in MapPages : p \in Pages /\ p \notin SwapPages
    BY DEF Pages
  <2>2. pc[t] = "write" => \A p \in MapPages : frameOf[p] # fr[t]
    BY <1>1, <2>1 DEF TakeSlot, FlipSlot
  <2> QED BY <1>1, <1>2, <2>2 DEF Saving
<1>4. ASSUME NEW p \in Pages, NEW L \in {{"read"}, {"read", "waitShared"}, {"release"}}
      PROVE  Doing(p, L)' <=> Doing(p, L)
  BY <1>1, <1>2 DEF Doing
<1>5. \A u \in Procs : pc'[u] = "written" /\ slot'[u] # NULL => swap'[slot'[u]] = frameData[fr[u]]
  <2> SUFFICES ASSUME NEW u \in Procs, pc'[u] = "written", slot'[u] # NULL
               PROVE  swap'[slot'[u]] = frameData[fr[u]]
    OBVIOUS
  <2>1. CASE u = t
    <3>1. FlipSlot(t)
      BY <1>0, <2>1 DEF TakeSlot, Goto, TypeOK
    <3>2. slot' = slot /\ slot[t] \in Slots
      BY <1>0, <2>1, <3>1 DEF FlipSlot, TypeOK
    <3> QED BY <1>0, <2>1, <3>1, <3>2 DEF FlipSlot, TypeOK
  <2>2. CASE u # t
    <3>1. pc[u] = "written" /\ slot'[u] = slot[u]
      BY <1>2, <2>2
    <3>2. swap[slot[u]] = frameData[fr[u]]
      BY <1>0, <3>1 DEF DataPlaces
    <3>3. slot[u] \in swapMap
      BY <1>0, <3>1 DEF SlotsAccounted, Written
    <3>4. FlipSlot(t) => swap'[slot[u]] = swap[slot[u]]
      BY <1>0, <3>3 DEF FlipSlot, TypeOK
    <3>5. swap' = swap \/ FlipSlot(t)
      BY DEF TakeSlot
    <3> QED BY <3>1, <3>2, <3>4, <3>5
  <2> QED BY <2>1, <2>2
<1>6. \A p \in TextPages \cup MapPages : p \in Pages
  BY DEF Pages
<1> QED BY <1>0, <1>1, <1>3, <1>4, <1>5, <1>6 DEF DataPlaces

LEMMA DetachData ==
  ASSUME IInv, NEW t \in Procs, Detach(t)
  PROVE  DataPlaces'
<1>0. TypeOK /\ Places /\ DataPlaces
  BY DEF IInv
<1>1. UNCHANGED <<frameData, file, swap, dirty, at, slot>> /\ pc[t] = "unload"
  BY DEF Detach
<1>2. PICK f \in Frames : f = frameOf[at[t]]
  BY DetachedFor
<1>3. /\ at[t] \in Pages /\ Owner[at[t]] = t
      /\ frameOf'[at[t]] = NULL /\ \A p \in Pages \ {at[t]} : frameOf'[p] = frameOf[p]
      /\ pc'[t] = "release" /\ fr'[t] = f
      /\ \A u \in Procs \ {t} : pc'[u] = pc[u] /\ fr'[u] = fr[u]
  BY <1>2, DetachedFor
<1>4. Saving' = Saving
  BY <1>1, <1>3 DEF Saving
<1>5. ASSUME NEW p \in Pages, NEW L \in {{"read"}, {"read", "waitShared"}, {"release"}}, p # at[t]
      PROVE  Doing(p, L)' <=> Doing(p, L)
  BY <1>1, <1>3, <1>5, DoingElsewhere
<1>6. \A p \in TextPages \cup MapPages : p \in Pages
  BY DEF Pages
<1>7. \A p \in MapPages : p \notin TextPages
  OBVIOUS
<1>8. \A p \in Pages \ TextPages : frameOf'[p] # NULL => frameData[frameOf'[p]] \in Values
  BY <1>0, <1>3 DEF DataPlaces
<1>9. \A p \in TextPages : frameOf'[p] # NULL => frameData[frameOf'[p]] = Text \/ Doing(p, {"read", "waitShared"})'
  BY <1>0, <1>3, <1>5, <1>6 DEF DataPlaces
<1>10. \A p \in MapPages : frameOf'[p] \notin Saving \cup {NULL} /\ p \notin dirty /\ ~Doing(p, {"read"})' =>
         frameData[frameOf'[p]] = file[p]
  BY <1>0, <1>3, <1>5, <1>6 DEF DataPlaces
<1>11. \A p \in MapPages : p \in dirty /\ Doing(p, {"release"})' => frameData[fr'[Owner[p]]] \in Values
  <2> SUFFICES ASSUME NEW p \in MapPages, p \in dirty, Doing(p, {"release"})'
               PROVE  frameData[fr'[Owner[p]]] \in Values
    OBVIOUS
  <2>1. CASE p = at[t]
    BY <1>0, <1>2, <1>3, <1>6, <1>7, <2>1 DEF DataPlaces
  <2>2. CASE p # at[t]
    <3>1. Doing(p, {"release"})
      BY <1>5, <1>6, <2>2
    <3>2. Owner[p] \in Procs \ {t}
      BY <1>1, <1>6, <3>1 DEF Doing
    <3> QED BY <1>0, <1>3, <3>1, <3>2 DEF DataPlaces
  <2> QED BY <2>1, <2>2
<1>12. \A u \in Procs : pc'[u] = "written" => pc[u] = "written" /\ fr'[u] = fr[u]
  BY <1>3
<1> QED BY <1>0, <1>1, <1>4, <1>8, <1>9, <1>10, <1>11, <1>12 DEF DataPlaces

LEMMA ReleaseLastData ==
  ASSUME IInv, NEW t \in Procs, ReleaseLast(t)
  PROVE  DataPlaces'
<1>0. TypeOK /\ Places /\ DataPlaces /\ FramePlaces
  BY DEF IInv
<1>1. PICK f \in Frames : f = fr[t]
  BY <1>0 DEF ReleaseLast, Places, PlaceOf, TypeOK
<1>2. /\ UNCHANGED <<frameOf, swap>> /\ dirty' = dirty \ {at[t]} /\ file' = FileSaved(t) /\ pc[t] = "release"
      /\ frameData' = [frameData EXCEPT ![f] = Zero]
      /\ \A q \in Pages : frameOf[q] # f
      /\ f \notin Range(clock) /\ \A u \in Procs \ {t} : pc[u] = "release" => fr[u] # f
  BY <1>1 DEF ReleaseLast
<1>3. at[t] \in Pages /\ Owner[at[t]] = t /\ frameOf[at[t]] = NULL
  BY <1>0, <1>2, OwnPages DEF Places, PlaceOf
<1>4. /\ pc'[t] = "run" /\ at'[t] = NULL
      /\ \A u \in Procs \ {t} : pc'[u] = pc[u] /\ at'[u] = at[u] /\ fr'[u] = fr[u] /\ slot'[u] = slot[u]
  BY <1>0 DEF ReleaseLast, EndCall, Goto, TypeOK
<1>5. Saving' = Saving
  BY <1>2, <1>4 DEF Saving
<1>6. ASSUME NEW p \in Pages, NEW L \in {{"read"}, {"read", "waitShared"}, {"release"}}, p # at[t]
      PROVE  Doing(p, L)' <=> Doing(p, L)
  BY <1>4, <1>6, DoingElsewhere
<1>7. \A g \in Frames \ {f} : frameData'[g] = frameData[g]
  BY <1>0, <1>2 DEF TypeOK
<1>8. \A p \in MapPages : p # at[t] => file'[p] = file[p]
  BY <1>0, <1>2 DEF FileSaved, TypeOK
<1>9. \A p \in TextPages \cup MapPages : p \in Pages
  BY DEF Pages
<1>10. \A p \in Pages : frameOf[p] # NULL => p # at[t] /\ frameOf[p] \in Frames \ {f}
  BY <1>0, <1>2, <1>3 DEF TypeOK
<1>11. \A p \in Pages \ TextPages : frameOf[p] # NULL => frameData'[frameOf[p]] \in Values
  BY <1>0, <1>7, <1>10 DEF DataPlaces
<1>12. \A p \in TextPages : frameOf[p] # NULL => frameData'[frameOf[p]] = Text \/ Doing(p, {"read", "waitShared"})'
  BY <1>0, <1>6, <1>7, <1>9, <1>10 DEF DataPlaces
<1>13. \A p \in MapPages : frameOf[p] \notin Saving \cup {NULL} /\ p \notin dirty' /\ ~Doing(p, {"read"})' =>
         frameData'[frameOf[p]] = file'[p]
  <2> SUFFICES ASSUME NEW p \in MapPages, frameOf[p] \notin Saving \cup {NULL}, p \notin dirty', ~Doing(p, {"read"})'
               PROVE  frameData'[frameOf[p]] = file'[p]
    OBVIOUS
  <2>1. p \in Pages /\ p # at[t] /\ frameOf[p] \in Frames \ {f}
    BY <1>9, <1>10
  <2>2. p \notin dirty /\ ~Doing(p, {"read"})
    BY <1>2, <1>6, <2>1
  <2> QED BY <1>0, <1>7, <1>8, <2>1, <2>2 DEF DataPlaces
<1>14. \A p \in MapPages : p \in dirty' /\ Doing(p, {"release"})' => frameData'[fr'[Owner[p]]] \in Values
  <2> SUFFICES ASSUME NEW p \in MapPages, p \in dirty', Doing(p, {"release"})'
               PROVE  frameData'[fr'[Owner[p]]] \in Values
    OBVIOUS
  <2>1. p \in Pages /\ p \in dirty /\ p # at[t]
    BY <1>2, <1>9
  <2>2. Doing(p, {"release"})
    BY <1>6, <2>1
  <2>3. Owner[p] \in Procs \ {t}
    BY <2>1, <2>2 DEF Doing
  <2>4. fr'[Owner[p]] = fr[Owner[p]] /\ fr[Owner[p]] \in Frames \ {f}
    BY <1>0, <1>2, <1>4, <2>2, <2>3 DEF Doing, Places, PlaceOf, TypeOK
  <2> QED BY <1>0, <1>7, <2>1, <2>2, <2>4 DEF DataPlaces
<1>15. \A u \in Procs : pc'[u] = "written" /\ slot'[u] # NULL => swap[slot'[u]] = frameData'[fr'[u]]
  <2> SUFFICES ASSUME NEW u \in Procs, pc'[u] = "written", slot'[u] # NULL
               PROVE  swap[slot'[u]] = frameData'[fr'[u]]
    OBVIOUS
  <2>1. u # t /\ pc[u] = "written" /\ slot'[u] = slot[u] /\ fr'[u] = fr[u]
    BY <1>4
  <2>2. fr[u] \in Frames \ {f}
    BY <1>0, <1>2, <2>1 DEF FramePlaces, Places, PlaceOf, TypeOK
  <2> QED BY <1>0, <1>7, <2>1, <2>2 DEF DataPlaces
<1> QED BY <1>2, <1>5, <1>11, <1>12, <1>13, <1>14, <1>15 DEF DataPlaces

LEMMA DropPageData ==
  ASSUME IInv, NEW t \in Procs, DropPage(t)
  PROVE  DataPlaces'
<1>0. TypeOK /\ Places /\ DataPlaces /\ SlotsAccounted
  BY DEF IInv
<1>1. /\ UNCHANGED <<frameOf, frameData, file, dirty>> /\ pc[t] = "unload" /\ frameOf[at[t]] = NULL
      /\ swap' = [r \in Slots |-> IF r = swapSlot[at[t]] THEN Zero ELSE swap[r]]
  BY DEF DropPage, FreeSlot
<1>2. /\ pc'[t] = "run" /\ at'[t] = NULL
      /\ \A u \in Procs \ {t} : pc'[u] = pc[u] /\ at'[u] = at[u] /\ fr'[u] = fr[u] /\ slot'[u] = slot[u]
  BY <1>0 DEF DropPage, EndCall, Goto, TypeOK
<1>3. at[t] \in Pages /\ Owner[at[t]] = t
  BY <1>0, <1>1, OwnPages
<1>4. Saving' = Saving
  BY <1>1, <1>2 DEF Saving
<1>5. ASSUME NEW p \in Pages, NEW L \in {{"read"}, {"read", "waitShared"}, {"release"}}
      PROVE  Doing(p, L)' <=> Doing(p, L)
  <2>1. CASE p = at[t]
    BY <1>1, <1>2, <1>3, <2>1 DEF Doing
  <2>2. CASE p # at[t]
    BY <1>2, <2>2, DoingElsewhere
  <2> QED BY <2>1, <2>2
<1>6. \A p \in TextPages \cup MapPages : p \in Pages
  BY DEF Pages
<1>7. \A p \in MapPages : p \in dirty /\ Doing(p, {"release"})' => frameData[fr'[Owner[p]]] \in Values
  <2> SUFFICES ASSUME NEW p \in MapPages, p \in dirty, Doing(p, {"release"})'
               PROVE  frameData[fr'[Owner[p]]] \in Values
    OBVIOUS
  <2>1. Doing(p, {"release"}) /\ Owner[p] \in Procs \ {t}
    BY <1>1, <1>5, <1>6 DEF Doing
  <2> QED BY <1>0, <1>2, <2>1 DEF DataPlaces
<1>8. \A u \in Procs : pc'[u] = "written" /\ slot'[u] # NULL => swap'[slot'[u]] = frameData[fr'[u]]
  <2> SUFFICES ASSUME NEW u \in Procs, pc'[u] = "written", slot'[u] # NULL
               PROVE  swap'[slot'[u]] = frameData[fr'[u]]
    OBVIOUS
  <2>1. u # t /\ pc[u] = "written" /\ slot'[u] = slot[u] /\ fr'[u] = fr[u] /\ slot[u] \in Slots
    BY <1>0, <1>2 DEF TypeOK
  <2>2. slot[u] # swapSlot[at[t]]
    BY <1>0, <1>2, <1>3, <2>1 DEF SlotsAccounted, Written, SwappedOut
  <2> QED BY <1>0, <1>1, <2>1, <2>2 DEF DataPlaces
<1> QED BY <1>0, <1>1, <1>4, <1>5, <1>6, <1>7, <1>8 DEF DataPlaces

\* A process writes to its own frame only.
LEMMA AccessData ==
  ASSUME IInv, NEW t \in Procs, NEW a \in Pages, Access(t, a) \/ CopyToPinned(t, a)
  PROVE  DataPlaces'
<1>0. TypeOK /\ Places /\ DataPlaces /\ FramesSeparate /\ FramePlaces /\ PinnedStay /\ FramesAccounted /\ Handling
  BY DEF IInv
<1>1. UNCHANGED <<frameOf, file, swap, at, fr, slot, pc>>
  BY DEF Access, CopyToPinned
<1>2. Saving' = Saving
  BY <1>1 DEF Saving
<1>3. \A p \in Pages, L \in SUBSET Locs : Doing(p, L)' <=> Doing(p, L)
  BY <1>1 DEF Doing
<1>4. {"read"} \in SUBSET Locs /\ {"read", "waitShared"} \in SUBSET Locs /\ {"release"} \in SUBSET Locs
  BY DEF Locs
<1>5. \A p \in TextPages \cup MapPages : p \in Pages
  BY DEF Pages
<1>6. CASE UNCHANGED <<dirty, frameData>>
  BY <1>0, <1>1, <1>2, <1>3, <1>4, <1>5, <1>6 DEF DataPlaces
<1>7. CASE ~UNCHANGED <<dirty, frameData>>
  <2>1. /\ a \in present /\ a \notin TextPages
        /\ dirty' = dirty \cup {a} /\ \E v \in Values : frameData' = [frameData EXCEPT ![frameOf[a]] = v]
    BY <1>0, <1>7 DEF Access, CopyToPinned, PinnedStay
  <2>2. PICK f \in Frames : f = frameOf[a] /\ f \in Range(clock)
    BY <1>0, <2>1, RangeContains DEF FramesSeparate, TypeOK
  <2>3. frameData'[f] \in Values /\ \A g \in Frames \ {f} : frameData'[g] = frameData[g]
    BY <1>0, <2>1, <2>2 DEF TypeOK
  <2>4. \A p \in Pages : frameOf[p] = f => p = a
    BY <1>0, <2>1, <2>2 DEF FramesSeparate
  <2>5. \A p \in Pages : frameOf[p] # NULL => frameOf[p] \in Frames
    BY <1>0 DEF TypeOK
  <2>6. \A p \in Pages \ TextPages : frameOf[p] # NULL => frameData'[frameOf[p]] \in Values
    <3> SUFFICES ASSUME NEW p \in Pages \ TextPages, frameOf[p] # NULL
                 PROVE  frameData'[frameOf[p]] \in Values
      OBVIOUS
    <3>1. CASE frameOf[p] = f
      BY <2>3, <3>1
    <3>2. CASE frameOf[p] # f
      BY <1>0, <2>3, <2>5, <3>2 DEF DataPlaces
    <3> QED BY <3>1, <3>2
  <2>7. \A p \in TextPages : frameOf[p] # NULL => frameData'[frameOf[p]] = Text \/ Doing(p, {"read", "waitShared"})'
    <3> SUFFICES ASSUME NEW p \in TextPages, frameOf[p] # NULL
                 PROVE  frameData'[frameOf[p]] = Text \/ Doing(p, {"read", "waitShared"})'
      OBVIOUS
    <3>1. frameOf[p] \in Frames \ {f}
      BY <1>5, <2>1, <2>4, <2>5
    <3> QED BY <1>0, <1>3, <1>4, <1>5, <2>3, <3>1 DEF DataPlaces
  <2>8. \A p \in MapPages : frameOf[p] \notin Saving \cup {NULL} /\ p \notin dirty' /\ ~Doing(p, {"read"})' =>
          frameData'[frameOf[p]] = file[p]
    <3> SUFFICES ASSUME NEW p \in MapPages, frameOf[p] \notin Saving \cup {NULL}, p \notin dirty', ~Doing(p, {"read"})'
                 PROVE  frameData'[frameOf[p]] = file[p]
      OBVIOUS
    <3>1. p \notin dirty /\ ~Doing(p, {"read"}) /\ frameOf[p] \in Frames \ {f}
      BY <1>3, <1>4, <1>5, <2>1, <2>4, <2>5
    <3> QED BY <1>0, <2>3, <3>1 DEF DataPlaces
  <2>9. \A p \in MapPages : p \in dirty' /\ Doing(p, {"release"})' => frameData'[fr[Owner[p]]] \in Values
    <3> SUFFICES ASSUME NEW p \in MapPages, p \in dirty', Doing(p, {"release"})'
                 PROVE  frameData'[fr[Owner[p]]] \in Values
      OBVIOUS
    <3>1. Doing(p, {"release"}) /\ Owner[p] \in Procs
      BY <1>3, <1>4, <1>5
    <3>2. fr[Owner[p]] \in Frames
      BY <1>0, <3>1 DEF Doing, Places, PlaceOf, TypeOK
    <3>3. p # a
      <4>1. frameOf[p] = NULL
        BY <1>0, <3>1 DEF Doing, Places, PlaceOf
      <4> QED BY <2>2, <4>1
    <3>4. frameData[fr[Owner[p]]] \in Values
      BY <1>0, <2>1, <3>1, <3>3 DEF DataPlaces
    <3> QED BY <2>3, <3>2, <3>4
  <2>10. \A u \in Procs : pc[u] = "written" /\ slot[u] # NULL => swap[slot[u]] = frameData'[fr[u]]
    <3> SUFFICES ASSUME NEW u \in Procs, pc[u] = "written", slot[u] # NULL
                 PROVE  swap[slot[u]] = frameData'[fr[u]]
      OBVIOUS
    <3>1. fr[u] \in Frames \ {f}
      BY <1>0, <2>1, <2>2 DEF Handling, Places, PlaceOf, TypeOK
    <3> QED BY <1>0, <2>3, <3>1 DEF DataPlaces
  <2> QED BY <1>1, <1>2, <2>6, <2>7, <2>8, <2>9, <2>10 DEF DataPlaces
<1> QED BY <1>6, <1>7

LEMMA UnpinData ==
  ASSUME IInv, NEW t \in Procs, NEW a \in Pages, Unpin(t, a)
  PROVE  DataPlaces'
<1>0. TypeOK /\ DataPlaces
  BY DEF IInv
<1>1. /\ UNCHANGED <<frameOf, frameData, file, swap, dirty, at, fr, slot>>
      /\ pc[t] \in {"run", "unpin"} /\ pc'[t] \in {"run", "unpin"} /\ \A u \in Procs \ {t} : pc'[u] = pc[u]
  BY <1>0 DEF Unpin, Goto, TypeOK
<1>2. Saving' = Saving
  BY <1>1 DEF Saving
<1>3. ASSUME NEW p \in Pages, NEW L \in {{"read"}, {"read", "waitShared"}, {"release"}}
      PROVE  Doing(p, L)' <=> Doing(p, L)
  BY <1>1 DEF Doing
<1>4. \A p \in TextPages \cup MapPages : p \in Pages
  BY DEF Pages
<1>5. \A u \in Procs : pc'[u] = "written" => pc[u] = "written"
  BY <1>1
<1> QED BY <1>0, <1>1, <1>2, <1>3, <1>4, <1>5 DEF DataPlaces

\* Every branch keeps in the frames what their pages contain.
LEMMA DataStep ==
  ASSUME IInv, NEW t \in Procs, GoodStep(t)
  PROVE  DataPlaces'
<1>0. TypeOK /\ Places /\ FramesSeparate /\ FramePlaces /\ Handling /\ SlotPlaces /\ Presence /\
    DataPlaces /\ PinnedStay
  BY DEF IInv
<1> USE <1>0 DEF TypeOK, Places, PlaceOf, FramesSeparate, FramePlaces, Handling, Hand,
    SlotPlaces, Doing, Presence, DataPlaces, Saving, Source
<1>1. ASSUME LoadWait(t)
      PROVE  DataPlaces'
  <2>1. (\A p \in Pages \ TextPages : frameOf[p] # NULL => frameData[frameOf[p]] \in Values)'
    BY <1>1 DEF LoadWait, Goto
  <2>2. (\A p \in TextPages :
           frameOf[p] # NULL => frameData[frameOf[p]] = Text \/ Doing(p, {"read", "waitShared"}))'
    BY <1>1 DEF LoadWait, Goto
  <2>3. (\A p \in MapPages :
           frameOf[p] \notin Saving \cup {NULL} /\ p \notin dirty /\ ~Doing(p, {"read"}) => frameData[frameOf[p]] = file[p])'
    BY <1>1 DEF LoadWait, Goto
  <2>4. (\A p \in MapPages :
           p \in dirty /\ Doing(p, {"release"}) => frameData[fr[Owner[p]]] \in Values)'
    BY <1>1 DEF LoadWait, Goto
  <2>5. (\A u \in Procs :
           pc[u] = "written" /\ slot[u] # NULL => swap[slot[u]] = frameData[fr[u]])'
    BY <1>1 DEF LoadWait, Goto
    <2> QED BY <2>1, <2>2, <2>3, <2>4, <2>5 DEF DataPlaces
<1>2. ASSUME UnloadWait(t)
      PROVE  DataPlaces'
  <2>1. (\A p \in Pages \ TextPages : frameOf[p] # NULL => frameData[frameOf[p]] \in Values)'
    BY <1>2 DEF UnloadWait, Goto
  <2>2. (\A p \in TextPages :
           frameOf[p] # NULL => frameData[frameOf[p]] = Text \/ Doing(p, {"read", "waitShared"}))'
    BY <1>2 DEF UnloadWait, Goto
  <2>3. (\A p \in MapPages :
           frameOf[p] \notin Saving \cup {NULL} /\ p \notin dirty /\ ~Doing(p, {"read"}) => frameData[frameOf[p]] = file[p])'
    BY <1>2 DEF UnloadWait, Goto
  <2>4. (\A p \in MapPages :
           p \in dirty /\ Doing(p, {"release"}) => frameData[fr[Owner[p]]] \in Values)'
    BY <1>2 DEF UnloadWait, Goto
  <2>5. (\A u \in Procs :
           pc[u] = "written" /\ slot[u] # NULL => swap[slot[u]] = frameData[fr[u]])'
    BY <1>2 DEF UnloadWait, Goto
    <2> QED BY <2>1, <2>2, <2>3, <2>4, <2>5 DEF DataPlaces
<1>3. ASSUME PinPresent(t)
      PROVE  DataPlaces'
  <2>1. (\A p \in Pages \ TextPages : frameOf[p] # NULL => frameData[frameOf[p]] \in Values)'
    BY <1>3 DEF PinPresent, Goto, EndCall
  <2>2. (\A p \in TextPages :
           frameOf[p] # NULL => frameData[frameOf[p]] = Text \/ Doing(p, {"read", "waitShared"}))'
    BY <1>3 DEF PinPresent, Goto, EndCall
  <2>3. (\A p \in MapPages :
           frameOf[p] \notin Saving \cup {NULL} /\ p \notin dirty /\ ~Doing(p, {"read"}) => frameData[frameOf[p]] = file[p])'
    BY <1>3 DEF PinPresent, Goto, EndCall
  <2>4. (\A p \in MapPages :
           p \in dirty /\ Doing(p, {"release"}) => frameData[fr[Owner[p]]] \in Values)'
    BY <1>3 DEF PinPresent, Goto, EndCall
  <2>5. (\A u \in Procs :
           pc[u] = "written" /\ slot[u] # NULL => swap[slot[u]] = frameData[fr[u]])'
    BY <1>3 DEF PinPresent, Goto, EndCall
    <2> QED BY <2>1, <2>2, <2>3, <2>4, <2>5 DEF DataPlaces
<1>4. ASSUME ShareWait(t)
      PROVE  DataPlaces'
  BY <1>4, SharedData
<1>5. ASSUME ShareNow(t)
      PROVE  DataPlaces'
  BY <1>5, SharedData
<1>6. ASSUME LoadedShared(t)
      PROVE  DataPlaces'
  <2>1. (\A p \in Pages \ TextPages : frameOf[p] # NULL => frameData[frameOf[p]] \in Values)'
    BY <1>6 DEF LoadedShared, Goto, EndCall, KeepCount
  <2>2. (\A p \in TextPages :
           frameOf[p] # NULL => frameData[frameOf[p]] = Text \/ Doing(p, {"read", "waitShared"}))'
    BY <1>6 DEF LoadedShared, Goto, EndCall, KeepCount
  <2>3. (\A p \in MapPages :
           frameOf[p] \notin Saving \cup {NULL} /\ p \notin dirty /\ ~Doing(p, {"read"}) => frameData[frameOf[p]] = file[p])'
    BY <1>6 DEF LoadedShared, Goto, EndCall, KeepCount
  <2>4. (\A p \in MapPages :
           p \in dirty /\ Doing(p, {"release"}) => frameData[fr[Owner[p]]] \in Values)'
    BY <1>6 DEF LoadedShared, Goto, EndCall, KeepCount
  <2>5. (\A u \in Procs :
           pc[u] = "written" /\ slot[u] # NULL => swap[slot[u]] = frameData[fr[u]])'
    BY <1>6 DEF LoadedShared, Goto, EndCall, KeepCount
    <2> QED BY <2>1, <2>2, <2>3, <2>4, <2>5 DEF DataPlaces
<1>7. ASSUME Read(t)
      PROVE  DataPlaces'
  BY <1>7, ReadData
<1>8. ASSUME UnmapWrite(t)
      PROVE  DataPlaces'
  <2>1. (\A p \in Pages \ TextPages : frameOf[p] # NULL => frameData[frameOf[p]] \in Values)'
    BY <1>8 DEF UnmapWrite, Unmapped, Goto
  <2>2. (\A p \in TextPages :
           frameOf[p] # NULL => frameData[frameOf[p]] = Text \/ Doing(p, {"read", "waitShared"}))'
    BY <1>8 DEF UnmapWrite, Unmapped, Goto
  <2>3. (\A p \in MapPages :
           frameOf[p] \notin Saving \cup {NULL} /\ p \notin dirty /\ ~Doing(p, {"read"}) => frameData[frameOf[p]] = file[p])'
    BY <1>8 DEF UnmapWrite, Unmapped, Goto
  <2>4. (\A p \in MapPages :
           p \in dirty /\ Doing(p, {"release"}) => frameData[fr[Owner[p]]] \in Values)'
    BY <1>8 DEF UnmapWrite, Unmapped, Goto
  <2>5. (\A u \in Procs :
           pc[u] = "written" /\ slot[u] # NULL => swap[slot[u]] = frameData[fr[u]])'
    BY <1>8 DEF UnmapWrite, Unmapped, Goto
    <2> QED BY <2>1, <2>2, <2>3, <2>4, <2>5 DEF DataPlaces
<1>9. ASSUME UnmapClean(t)
      PROVE  DataPlaces'
  BY <1>9, UnmapCleanData
<1>10. ASSUME WriteToFile(t)
      PROVE  DataPlaces'
  <2>1. (\A p \in Pages \ TextPages : frameOf[p] # NULL => frameData[frameOf[p]] \in Values)'
    BY <1>10 DEF WriteToFile, Goto
  <2>2. (\A p \in TextPages :
           frameOf[p] # NULL => frameData[frameOf[p]] = Text \/ Doing(p, {"read", "waitShared"}))'
    BY <1>10 DEF WriteToFile, Goto
  <2>3. (\A p \in MapPages :
           frameOf[p] \notin Saving \cup {NULL} /\ p \notin dirty /\ ~Doing(p, {"read"}) => frameData[frameOf[p]] = file[p])'
    BY <1>10 DEF WriteToFile, Goto
  <2>4. (\A p \in MapPages :
           p \in dirty /\ Doing(p, {"release"}) => frameData[fr[Owner[p]]] \in Values)'
    BY <1>10 DEF WriteToFile, Goto
  <2>5. (\A u \in Procs :
           pc[u] = "written" /\ slot[u] # NULL => swap[slot[u]] = frameData[fr[u]])'
    BY <1>10 DEF WriteToFile, Goto
    <2> QED BY <2>1, <2>2, <2>3, <2>4, <2>5 DEF DataPlaces
<1>11. ASSUME FlipSlot(t)
      PROVE  DataPlaces'
  BY <1>11, SlotData
<1>12. ASSUME NEW s \in Slots, TakeSlot(t, s)
      PROVE  DataPlaces'
  BY <1>12, SlotData
<1>13. ASSUME NEW f \in Frames, Choose(t, f)
      PROVE  DataPlaces'
  <2>1. (\A p \in Pages \ TextPages : frameOf[p] # NULL => frameData[frameOf[p]] \in Values)'
    BY <1>13 DEF Choose, NeedsFrame, Goto
  <2>2. (\A p \in TextPages :
           frameOf[p] # NULL => frameData[frameOf[p]] = Text \/ Doing(p, {"read", "waitShared"}))'
    BY <1>13 DEF Choose, NeedsFrame, Goto
  <2>3. (\A p \in MapPages :
           frameOf[p] \notin Saving \cup {NULL} /\ p \notin dirty /\ ~Doing(p, {"read"}) => frameData[frameOf[p]] = file[p])'
    BY <1>13 DEF Choose, NeedsFrame, Goto
  <2>4. (\A p \in MapPages :
           p \in dirty /\ Doing(p, {"release"}) => frameData[fr[Owner[p]]] \in Values)'
    BY <1>13 DEF Choose, NeedsFrame, Goto
  <2>5. (\A u \in Procs :
           pc[u] = "written" /\ slot[u] # NULL => swap[slot[u]] = frameData[fr[u]])'
    BY <1>13 DEF Choose, NeedsFrame, Goto
    <2> QED BY <2>1, <2>2, <2>3, <2>4, <2>5 DEF DataPlaces
<1>14. ASSUME NEW f \in Frames, LoadDone(t, f)
      PROVE  DataPlaces'
  BY <1>14, LoadDoneData
<1>15. ASSUME NEW f \in Frames, InstallLoad(t, f)
      PROVE  DataPlaces'
  BY <1>15, InstalledData
<1>16. ASSUME NEW f \in Frames, InstallZero(t, f)
      PROVE  DataPlaces'
  BY <1>16, InstalledData
<1>17. ASSUME Detach(t)
      PROVE  DataPlaces'
  BY <1>17, DetachData
<1>18. ASSUME ReleaseLast(t)
      PROVE  DataPlaces'
  BY <1>18, ReleaseLastData
<1>19. ASSUME ReleaseShared(t)
      PROVE  DataPlaces'
  <2>1. (\A p \in Pages \ TextPages : frameOf[p] # NULL => frameData[frameOf[p]] \in Values)'
    BY <1>19 DEF ReleaseShared, Goto, EndCall
  <2>2. (\A p \in TextPages :
           frameOf[p] # NULL => frameData[frameOf[p]] = Text \/ Doing(p, {"read", "waitShared"}))'
    BY <1>19 DEF ReleaseShared, Goto, EndCall
  <2>3. (\A p \in MapPages :
           frameOf[p] \notin Saving \cup {NULL} /\ p \notin dirty /\ ~Doing(p, {"read"}) => frameData[frameOf[p]] = file[p])'
    BY <1>19 DEF ReleaseShared, Goto, EndCall
  <2>4. (\A p \in MapPages :
           p \in dirty /\ Doing(p, {"release"}) => frameData[fr[Owner[p]]] \in Values)'
    BY <1>19 DEF ReleaseShared, Goto, EndCall
  <2>5. (\A u \in Procs :
           pc[u] = "written" /\ slot[u] # NULL => swap[slot[u]] = frameData[fr[u]])'
    BY <1>19 DEF ReleaseShared, Goto, EndCall
    <2> QED BY <2>1, <2>2, <2>3, <2>4, <2>5 DEF DataPlaces
<1>20. ASSUME DropPage(t)
      PROVE  DataPlaces'
  BY <1>20, DropPageData
<1>21. ASSUME NEW p \in Pages, Access(t, p)
      PROVE  DataPlaces'
  BY <1>21, AccessData
<1>22. ASSUME NEW p \in Pages, CopyToPinned(t, p)
      PROVE  DataPlaces'
  BY <1>22, AccessData
<1>23. ASSUME NEW p \in Pages, Map(t, p)
      PROVE  DataPlaces'
  <2>1. (\A q \in Pages \ TextPages : frameOf[q] # NULL => frameData[frameOf[q]] \in Values)'
    BY <1>23 DEF Map
  <2>2. (\A q \in TextPages :
           frameOf[q] # NULL => frameData[frameOf[q]] = Text \/ Doing(q, {"read", "waitShared"}))'
    BY <1>23 DEF Map
  <2>3. (\A q \in MapPages :
           frameOf[q] \notin Saving \cup {NULL} /\ q \notin dirty /\ ~Doing(q, {"read"}) => frameData[frameOf[q]] = file[q])'
    BY <1>23 DEF Map
  <2>4. (\A q \in MapPages :
           q \in dirty /\ Doing(q, {"release"}) => frameData[fr[Owner[q]]] \in Values)'
    BY <1>23 DEF Map
  <2>5. (\A u \in Procs :
           pc[u] = "written" /\ slot[u] # NULL => swap[slot[u]] = frameData[fr[u]])'
    BY <1>23 DEF Map
    <2> QED BY <2>1, <2>2, <2>3, <2>4, <2>5 DEF DataPlaces
<1>24. ASSUME NEW p \in Pages, PageFault(t, p)
      PROVE  DataPlaces'
  <2>1. (\A q \in Pages \ TextPages : frameOf[q] # NULL => frameData[frameOf[q]] \in Values)'
    BY <1>24 DEF PageFault, Call, Goto
  <2>2. (\A q \in TextPages :
           frameOf[q] # NULL => frameData[frameOf[q]] = Text \/ Doing(q, {"read", "waitShared"}))'
    BY <1>24 DEF PageFault, Call, Goto
  <2>3. (\A q \in MapPages :
           frameOf[q] \notin Saving \cup {NULL} /\ q \notin dirty /\ ~Doing(q, {"read"}) => frameData[frameOf[q]] = file[q])'
    BY <1>24 DEF PageFault, Call, Goto
  <2>4. (\A q \in MapPages :
           q \in dirty /\ Doing(q, {"release"}) => frameData[fr[Owner[q]]] \in Values)'
    BY <1>24 DEF PageFault, Call, Goto
  <2>5. (\A u \in Procs :
           pc[u] = "written" /\ slot[u] # NULL => swap[slot[u]] = frameData[fr[u]])'
    BY <1>24 DEF PageFault, Call, Goto
    <2> QED BY <2>1, <2>2, <2>3, <2>4, <2>5 DEF DataPlaces
<1>25. ASSUME NEW p \in Pages, Pin(t, p)
      PROVE  DataPlaces'
  <2>1. (\A q \in Pages \ TextPages : frameOf[q] # NULL => frameData[frameOf[q]] \in Values)'
    BY <1>25 DEF Pin, Call, Goto
  <2>2. (\A q \in TextPages :
           frameOf[q] # NULL => frameData[frameOf[q]] = Text \/ Doing(q, {"read", "waitShared"}))'
    BY <1>25 DEF Pin, Call, Goto
  <2>3. (\A q \in MapPages :
           frameOf[q] \notin Saving \cup {NULL} /\ q \notin dirty /\ ~Doing(q, {"read"}) => frameData[frameOf[q]] = file[q])'
    BY <1>25 DEF Pin, Call, Goto
  <2>4. (\A q \in MapPages :
           q \in dirty /\ Doing(q, {"release"}) => frameData[fr[Owner[q]]] \in Values)'
    BY <1>25 DEF Pin, Call, Goto
  <2>5. (\A u \in Procs :
           pc[u] = "written" /\ slot[u] # NULL => swap[slot[u]] = frameData[fr[u]])'
    BY <1>25 DEF Pin, Call, Goto
    <2> QED BY <2>1, <2>2, <2>3, <2>4, <2>5 DEF DataPlaces
<1>26. ASSUME NEW p \in Pages, Unmap(t, p)
      PROVE  DataPlaces'
  <2>1. (\A q \in Pages \ TextPages : frameOf[q] # NULL => frameData[frameOf[q]] \in Values)'
    BY <1>26 DEF Unmap, Call, Goto
  <2>2. (\A q \in TextPages :
           frameOf[q] # NULL => frameData[frameOf[q]] = Text \/ Doing(q, {"read", "waitShared"}))'
    BY <1>26 DEF Unmap, Call, Goto
  <2>3. (\A q \in MapPages :
           frameOf[q] \notin Saving \cup {NULL} /\ q \notin dirty /\ ~Doing(q, {"read"}) => frameData[frameOf[q]] = file[q])'
    BY <1>26 DEF Unmap, Call, Goto
  <2>4. (\A q \in MapPages :
           q \in dirty /\ Doing(q, {"release"}) => frameData[fr[Owner[q]]] \in Values)'
    BY <1>26 DEF Unmap, Call, Goto
  <2>5. (\A u \in Procs :
           pc[u] = "written" /\ slot[u] # NULL => swap[slot[u]] = frameData[fr[u]])'
    BY <1>26 DEF Unmap, Call, Goto
    <2> QED BY <2>1, <2>2, <2>3, <2>4, <2>5 DEF DataPlaces
<1>27. ASSUME NEW p \in Pages, Unpin(t, p)
      PROVE  DataPlaces'
  BY <1>27, UnpinData
<1> QED BY <1>1, <1>2, <1>3, <1>4, <1>5, <1>6, <1>7, <1>8, <1>9, <1>10, <1>11, <1>12, <1>13,
  <1>14, <1>15, <1>16, <1>17, <1>18, <1>19, <1>20, <1>21, <1>22, <1>23, <1>24, <1>25, <1>26,
  <1>27 DEF GoodStep, UserStep

\* Who has a lock on frame f: a page, a process that fills or empties it, one
\* that waits to share it.
PinnedOn(p, f) == frameOf[p] = f /\ p \in pins[Owner[p]]
Works(u, f) == (pc[u] \in Fetching /\ frameOf[at[u]] = f) \/ (pc[u] \in Sending /\ fr[u] = f)
Shares(u, f) == pc[u] \in Sharers /\ frameOf[at[u]] = f
Busy(f) == Filling(f) \cup Emptying(f)

LockedFor(f) ==
  /\ lockCnt[f] = Cardinality(Pinned(f)) + Cardinality(Busy(f)) + Cardinality(Sharing(f))
  /\ io[f] <=> Busy(f) # {}

LEMMA LocksPointwise ==
  /\ LocksCounted <=> \A f \in Frames : LockedFor(f)
  /\ \A f : /\ Pinned(f) = {p \in Pages : PinnedOn(p, f)}
            /\ Busy(f) = {u \in Procs : Works(u, f)}
            /\ Sharing(f) = {u \in Procs : Shares(u, f)}
<1>1. LocksCounted <=> \A f \in Frames : LockedFor(f)
  BY DEF LocksCounted, LockedFor, Pinned, Busy
<1>2. ASSUME NEW f
      PROVE  /\ Pinned(f) = {p \in Pages : PinnedOn(p, f)}
             /\ Busy(f) = {u \in Procs : Works(u, f)}
             /\ Sharing(f) = {u \in Procs : Shares(u, f)}
  <2>1. Pinned(f) = {p \in Pages : PinnedOn(p, f)}
    BY DEF Pinned, PagesOn, PinnedOn
  <2>2. Busy(f) = {u \in Procs : Works(u, f)}
    BY DEF Busy, Filling, Emptying, Works
  <2>3. Sharing(f) = {u \in Procs : Shares(u, f)}
    BY DEF Sharing, Shares
  <2> QED BY <2>1, <2>2, <2>3
<1> QED BY <1>1, <1>2

LEMMA LockSizes ==
  ASSUME NEW f
  PROVE  /\ IsFiniteSet(Pinned(f)) /\ IsFiniteSet(Busy(f)) /\ IsFiniteSet(Sharing(f))
         /\ Cardinality(Pinned(f)) \in Nat /\ Cardinality(Busy(f)) \in Nat /\ Cardinality(Sharing(f)) \in Nat
BY LockSets DEF Busy

\* Nothing changes for frame f.
LEMMA SameLocks ==
  ASSUME LocksCounted, NEW f \in Frames, lockCnt'[f] = lockCnt[f], io'[f] = io[f],
         \A p \in Pages : PinnedOn(p, f)' <=> PinnedOn(p, f),
         \A u \in Procs : Works(u, f)' <=> Works(u, f),
         \A u \in Procs : Shares(u, f)' <=> Shares(u, f)
  PROVE  LockedFor(f)'
<1>1. Pinned(f) = {p \in Pages : PinnedOn(p, f)} /\ Pinned(f)' = {p \in Pages : PinnedOn(p, f)'}
  <2>1. Pinned(f) = {p \in Pages : PinnedOn(p, f)}
    BY LocksPointwise
  <2> QED BY <2>1 DEF Pinned, PagesOn, PinnedOn
<1>2. Busy(f) = {u \in Procs : Works(u, f)} /\ Busy(f)' = {u \in Procs : Works(u, f)'}
  BY DEF Busy, Filling, Emptying, Works
<1>3. Sharing(f) = {u \in Procs : Shares(u, f)} /\ Sharing(f)' = {u \in Procs : Shares(u, f)'}
  BY DEF Sharing, Shares
<1>4. Pinned(f)' = Pinned(f) /\ Busy(f)' = Busy(f) /\ Sharing(f)' = Sharing(f)
  BY <1>1, <1>2, <1>3
<1>5. LockedFor(f)
  BY LocksPointwise
<1> QED BY <1>4, <1>5 DEF LockedFor

\* One more, or one less.
LEMMA OneMore ==
  ASSUME NEW S, NEW T, NEW x \in T, IsFiniteSet(S), x \notin S, T = S \cup {x}
  PROVE  Cardinality(T) = Cardinality(S) + 1 /\ Cardinality(S) \in Nat
BY FS_AddElement, FS_CardinalityType

LEMMA LocksAll ==
  LocksCounted' <=> \A f \in Frames : LockedFor(f)'
BY DEF LocksCounted, LockedFor, Pinned, Busy

\* A page gets a lock, if it is to be locked, from the process that had one.
LEMMA PinLocks ==
  ASSUME IInv, NEW t \in Procs, PinPresent(t) \/ LoadedShared(t) \/ \E f \in Frames : LoadDone(t, f)
  PROVE  LocksCounted'
<1>0. TypeOK /\ Places /\ LocksCounted /\ Handling
  BY DEF IInv
<1>1. /\ pc[t] \in {"load", "shared", "finish"} /\ frameOf[at[t]] # NULL /\ UNCHANGED frameOf
      /\ pins' = (IF keep[t] THEN [pins EXCEPT ![t] = @ \cup {at[t]}] ELSE pins)
  BY <1>0 DEF PinPresent, LoadedShared, LoadDone, EndCall, Places, PlaceOf
<1>2. at[t] \in Pages /\ Owner[at[t]] = t /\ at[t] \notin pins[t]
  BY <1>0, <1>1, OwnPages
<1>3. PICK f \in Frames : f = frameOf[at[t]]
  BY <1>0, <1>1, <1>2 DEF TypeOK
<1>4. PICK a \in Pages : a = at[t]
  BY <1>2
<1>5. \A p \in Pages, g \in Frames : PinnedOn(p, g)' <=> PinnedOn(p, g) \/ (p = a /\ g = f /\ keep[t])
  BY <1>0, <1>1, <1>2, <1>3, <1>4 DEF PinnedOn, TypeOK
<1>6. ~PinnedOn(a, f)
  BY <1>2, <1>4 DEF PinnedOn
<1>7. Cardinality(Pinned(f)') = Cardinality(Pinned(f)) + KeepCount(t)
  <2>1. Pinned(f) = {p \in Pages : PinnedOn(p, f)} /\ Pinned(f)' = {p \in Pages : PinnedOn(p, f)'}
    BY DEF Pinned, PagesOn, PinnedOn
  <2>2. CASE keep[t]
    <3>1. Pinned(f)' = Pinned(f) \cup {a} /\ a \notin Pinned(f) /\ a \in Pinned(f)'
      BY <1>5, <1>6, <2>1, <2>2
    <3> QED BY <2>2, <3>1, LockSizes, OneMore DEF KeepCount
  <2>3. CASE ~keep[t]
    <3>1. Pinned(f)' = Pinned(f)
      BY <1>5, <2>1, <2>3
    <3> QED BY <2>3, <3>1, LockSizes DEF KeepCount
  <2> QED BY <2>2, <2>3
<1>8. LockedFor(f) /\ lockCnt[f] \in Nat
  BY <1>0, LocksPointwise DEF TypeOK
<1>9. KeepCount(t) \in {0, 1} /\ Cardinality(Pinned(f)') \in Nat
  BY <1>7, LockSizes DEF KeepCount
<1>10. CASE PinPresent(t)
  <2>1. /\ pc'[t] = "run" /\ pc[t] = "load" /\ keep[t] /\ UNCHANGED io
        /\ \A u \in Procs \ {t} : pc'[u] = pc[u] /\ at'[u] = at[u] /\ fr'[u] = fr[u]
        /\ lockCnt'[f] = lockCnt[f] + 1 /\ \A g \in Frames \ {f} : lockCnt'[g] = lockCnt[g]
    BY <1>0, <1>3, <1>10 DEF PinPresent, EndCall, Goto, TypeOK
  <2>2. ASSUME NEW u \in Procs, NEW g \in Frames
        PROVE  (Works(u, g)' <=> Works(u, g)) /\ (Shares(u, g)' <=> Shares(u, g))
    BY <1>1, <2>1 DEF Works, Shares
  <2>3. ASSUME NEW g \in Frames \ {f}
        PROVE  LockedFor(g)'
    BY <1>0, <1>5, <2>1, <2>2, <2>3, SameLocks
  <2>4. Busy(f)' = Busy(f) /\ Sharing(f)' = Sharing(f)
    BY <2>2 DEF Busy, Filling, Emptying, Sharing, Works, Shares
  <2>5. LockedFor(f)'
    BY <1>7, <1>8, <2>1, <2>4, LockSizes DEF LockedFor, KeepCount
  <2> QED BY <2>3, <2>5, LocksAll
<1>11. CASE LoadedShared(t)
  <2>1. /\ pc'[t] = "run" /\ pc[t] = "shared" /\ UNCHANGED io
        /\ \A u \in Procs \ {t} : pc'[u] = pc[u] /\ at'[u] = at[u] /\ fr'[u] = fr[u]
        /\ lockCnt'[f] = lockCnt[f] - 1 + KeepCount(t) /\ \A g \in Frames \ {f} : lockCnt'[g] = lockCnt[g]
    BY <1>0, <1>3, <1>11 DEF LoadedShared, EndCall, Goto, TypeOK
  <2>2. ASSUME NEW u \in Procs, NEW g \in Frames
        PROVE  (Works(u, g)' <=> Works(u, g)) /\ (Shares(u, g)' <=> Shares(u, g) /\ u # t)
    BY <1>1, <2>1 DEF Works, Shares
  <2>3. ASSUME NEW g \in Frames \ {f}
        PROVE  LockedFor(g)'
    <3>1. ~Shares(t, g)
      BY <1>3 DEF Shares
    <3> QED BY <1>0, <1>5, <2>1, <2>2, <2>3, <3>1, SameLocks
  <2>4. Busy(f)' = Busy(f)
    BY <2>2 DEF Busy, Filling, Emptying, Works
  <2>5. Sharing(f) = Sharing(f)' \cup {t} /\ t \notin Sharing(f)' /\ t \in Sharing(f)
    <3>1. Sharing(f) = {u \in Procs : Shares(u, f)} /\ Sharing(f)' = {u \in Procs : Shares(u, f)'}
      BY DEF Sharing, Shares
    <3>2. Shares(t, f)
      BY <1>3, <2>1 DEF Shares
    <3> QED BY <2>2, <3>1, <3>2
  <2>6. Cardinality(Sharing(f)) = Cardinality(Sharing(f)') + 1 /\ Cardinality(Sharing(f)') \in Nat
    <3>1. IsFiniteSet(Sharing(f)')
      BY <2>5, LockSizes, FS_Subset
    <3> QED BY <2>5, <3>1, OneMore
  <2>7. LockedFor(f)'
    BY <1>7, <1>8, <1>9, <2>1, <2>4, <2>6, LockSizes DEF LockedFor
  <2> QED BY <2>3, <2>7, LocksAll
<1>12. ASSUME NEW h \in Frames, LoadDone(t, h)
       PROVE  LocksCounted'
  <2>0. h = f
    BY <1>3, <1>12 DEF LoadDone
  <2>1. /\ pc'[t] = "run" /\ pc[t] = "finish"
        /\ io'[f] = FALSE /\ \A g \in Frames \ {f} : io'[g] = io[g]
        /\ lockCnt'[f] = lockCnt[f] - 1 + KeepCount(t) /\ \A g \in Frames \ {f} : lockCnt'[g] = lockCnt[g]
    BY <1>0, <1>12, <2>0 DEF LoadDone, TypeOK
  <2>2. ASSUME NEW u \in Procs \ {t}
        PROVE  /\ at'[u] = at[u] /\ fr'[u] = fr[u] /\ (pc[u] \in Fetching \cup Evicting => Hand(u) # f)
               /\ pc'[u] \in Fetching <=> pc[u] \in Fetching
               /\ pc'[u] \in Sending <=> pc[u] \in Sending
               /\ pc'[u] \in Sharers <=> pc[u] \in Sharers
    <3>1. at'[u] = at[u] /\ fr'[u] = fr[u] /\ (pc[u] \in Fetching \cup Evicting => Hand(u) # f)
      BY <1>12, <2>0, LoadDoneFor
    <3>2. Wakes(t, f)
      BY <1>12, <2>0 DEF LoadDone
    <3>3. \/ pc'[u] = pc[u]
          \/ pc[u] = "waitLoad" /\ pc'[u] = "load" /\ frameOf[at[u]] = f
          \/ pc[u] = "waitShared" /\ pc'[u] = "shared" /\ frameOf[at[u]] = f
          \/ pc[u] = "waitUnload" /\ pc'[u] = "unload" /\ frameOf[at[u]] = f
      BY <1>0, <3>2, WakesMeans
    <3> QED BY <3>1, <3>3
  <2>3. ASSUME NEW u \in Procs, NEW g \in Frames
        PROVE  (Works(u, g)' <=> Works(u, g) /\ u # t) /\ (Shares(u, g)' <=> Shares(u, g))
    <3>1. CASE u = t
      BY <2>1, <3>1 DEF Works, Shares
    <3>2. CASE u # t
      BY <1>1, <2>2, <3>2 DEF Works, Shares
    <3> QED BY <3>1, <3>2
  <2>4. ASSUME NEW g \in Frames \ {f}
        PROVE  LockedFor(g)'
    <3>1. ~Works(t, g)
      BY <1>3, <2>1 DEF Works
    <3> QED BY <1>0, <1>5, <2>1, <2>3, <2>4, <3>1, SameLocks
  <2>5. Busy(f) = {t} /\ Busy(f)' = {}
    <3>1. Busy(f) = {u \in Procs : Works(u, f)} /\ Busy(f)' = {u \in Procs : Works(u, f)'}
      BY DEF Busy, Filling, Emptying, Works
    <3>2. Works(t, f) /\ \A u \in Procs \ {t} : ~Works(u, f)
      BY <1>3, <2>1, <2>2 DEF Works, Hand
    <3> QED BY <2>3, <3>1, <3>2
  <2>6. Sharing(f)' = Sharing(f)
    BY <2>3 DEF Sharing, Shares
  <2>7. Cardinality(Busy(f)) = 1 /\ Cardinality(Busy(f)') = 0
    BY <2>5, FS_Singleton, FS_EmptySet
  <2>8. LockedFor(f)'
    BY <1>7, <1>8, <1>9, <2>1, <2>5, <2>6, <2>7, LockSizes DEF LockedFor
  <2> QED BY <2>4, <2>8, LocksAll
<1> QED BY <1>10, <1>11, <1>12

\* A process shares the frame of another page of the executable.
LEMMA ShareLocks ==
  ASSUME IInv, NEW t \in Procs, ShareWait(t) \/ ShareNow(t)
  PROVE  LocksCounted'
<1>0. TypeOK /\ Places /\ LocksCounted
  BY DEF IInv
<1>1. /\ pc[t] = "load" /\ frameOf' = [frameOf EXCEPT ![at[t]] = roFrame] /\ UNCHANGED io
      /\ \A u \in Procs \ {t} : pc'[u] = pc[u] /\ at'[u] = at[u] /\ fr'[u] = fr[u]
      /\ roFrame # NULL /\ frameOf[at[t]] = NULL
  BY <1>0 DEF ShareWait, ShareNow, EndCall, Goto, TypeOK
<1>2. at[t] \in Pages /\ Owner[at[t]] = t /\ at[t] \notin pins[t] /\ \A u \in Procs \ {t} : at[u] # at[t]
  BY <1>0, <1>1, OwnPages
<1>3. PICK f \in Frames : f = roFrame
  BY <1>0, <1>1 DEF TypeOK
<1>4. PICK a \in Pages : a = at[t]
  BY <1>2
<1>5. frameOf'[a] = f /\ \A p \in Pages \ {a} : frameOf'[p] = frameOf[p]
  BY <1>0, <1>1, <1>3, <1>4 DEF TypeOK
<1>6. ASSUME NEW u \in Procs \ {t}, NEW g \in Frames
      PROVE  (Works(u, g)' <=> Works(u, g)) /\ (Shares(u, g)' <=> Shares(u, g))
  <2>1. pc[u] \in Fetching \cup Sharers => at[u] \in Pages \ {a}
    BY <1>0, <1>2, <1>4, OwnPages
  <2> QED BY <1>1, <1>5, <2>1 DEF Works, Shares
<1>7. LockedFor(f) /\ lockCnt[f] \in Nat
  BY <1>0, LocksPointwise DEF TypeOK
<1>8. ~Works(t, f) /\ ~Shares(t, f) /\ \A g \in Frames : ~Works(t, g) /\ ~Shares(t, g)
  BY <1>1 DEF Works, Shares
<1>9. CASE ShareWait(t)
  <2>1. /\ pc'[t] = "waitShared" /\ at'[t] = a /\ UNCHANGED pins
        /\ lockCnt'[f] = lockCnt[f] + 1 /\ \A g \in Frames \ {f} : lockCnt'[g] = lockCnt[g]
    BY <1>0, <1>3, <1>4, <1>9 DEF ShareWait, Goto, TypeOK
  <2>2. \A p \in Pages, g \in Frames : PinnedOn(p, g)' <=> PinnedOn(p, g)
    BY <1>2, <1>4, <1>5, <2>1 DEF PinnedOn
  <2>3. \A g \in Frames : ~Works(t, g)' /\ (Shares(t, g)' <=> g = f)
    BY <1>5, <2>1 DEF Works, Shares
  <2>4. ASSUME NEW g \in Frames \ {f}
        PROVE  LockedFor(g)'
    BY <1>0, <1>1, <1>6, <1>8, <2>1, <2>2, <2>3, <2>4, SameLocks
  <2>5. Pinned(f)' = Pinned(f)
    BY <2>2 DEF Pinned, PagesOn, PinnedOn
  <2>6. Busy(f)' = Busy(f)
    <3>1. \A u \in Procs : Works(u, f)' <=> Works(u, f)
      BY <1>6, <1>8, <2>3
    <3> QED BY <3>1 DEF Busy, Filling, Emptying, Works
  <2>7. Sharing(f)' = Sharing(f) \cup {t} /\ t \notin Sharing(f) /\ t \in Sharing(f)'
    <3>1. Sharing(f) = {u \in Procs : Shares(u, f)} /\ Sharing(f)' = {u \in Procs : Shares(u, f)'}
      BY DEF Sharing, Shares
    <3> QED BY <1>6, <1>8, <2>3, <3>1
  <2>8. Cardinality(Sharing(f)') = Cardinality(Sharing(f)) + 1
    BY <2>7, LockSizes, OneMore
  <2>9. LockedFor(f)'
    BY <1>1, <1>7, <2>1, <2>5, <2>6, <2>8, LockSizes DEF LockedFor
  <2> QED BY <2>4, <2>9, LocksAll
<1>10. CASE ShareNow(t)
  <2>1. /\ pc'[t] = "run" /\ pins' = (IF keep[t] THEN [pins EXCEPT ![t] = @ \cup {a}] ELSE pins)
        /\ lockCnt'[f] = lockCnt[f] + KeepCount(t) /\ \A g \in Frames \ {f} : lockCnt'[g] = lockCnt[g]
    BY <1>0, <1>3, <1>4, <1>10 DEF ShareNow, Goto, EndCall, TypeOK
  <2>2. \A p \in Pages, g \in Frames : PinnedOn(p, g)' <=> PinnedOn(p, g) \/ (p = a /\ g = f /\ keep[t])
    BY <1>0, <1>2, <1>4, <1>5, <2>1 DEF PinnedOn, TypeOK
  <2>3. \A g \in Frames : ~Works(t, g)' /\ ~Shares(t, g)'
    BY <2>1 DEF Works, Shares
  <2>4. ASSUME NEW g \in Frames \ {f}
        PROVE  LockedFor(g)'
    BY <1>0, <1>1, <1>6, <1>8, <2>1, <2>2, <2>3, <2>4, SameLocks
  <2>5. Cardinality(Pinned(f)') = Cardinality(Pinned(f)) + KeepCount(t)
    <3>1. Pinned(f) = {p \in Pages : PinnedOn(p, f)} /\ Pinned(f)' = {p \in Pages : PinnedOn(p, f)'}
      BY DEF Pinned, PagesOn, PinnedOn
    <3>2. ~PinnedOn(a, f)
      BY <1>2, <1>4 DEF PinnedOn
    <3>3. CASE keep[t]
      <4>1. Pinned(f)' = Pinned(f) \cup {a} /\ a \notin Pinned(f) /\ a \in Pinned(f)'
        BY <2>2, <3>1, <3>2, <3>3
      <4> QED BY <3>3, <4>1, LockSizes, OneMore DEF KeepCount
    <3>4. CASE ~keep[t]
      <4>1. Pinned(f)' = Pinned(f)
        BY <2>2, <3>1, <3>4
      <4> QED BY <3>4, <4>1, LockSizes DEF KeepCount
    <3> QED BY <3>3, <3>4
  <2>6. Busy(f)' = Busy(f) /\ Sharing(f)' = Sharing(f)
    <3>1. \A u \in Procs : (Works(u, f)' <=> Works(u, f)) /\ (Shares(u, f)' <=> Shares(u, f))
      BY <1>6, <1>8, <2>3
    <3>2. Busy(f)' = Busy(f)
      BY <3>1 DEF Busy, Filling, Emptying, Works
    <3>3. Sharing(f)' = Sharing(f)
      BY <3>1 DEF Sharing, Shares
    <3> QED BY <3>2, <3>3
  <2>7. KeepCount(t) \in Nat
    BY DEF KeepCount
  <2>8. LockedFor(f)'
    BY <1>1, <1>7, <2>1, <2>5, <2>6, <2>7, LockSizes DEF LockedFor
  <2> QED BY <2>4, <2>8, LocksAll
<1> QED BY <1>9, <1>10

LEMMA UnmapWriteLocks ==
  ASSUME IInv, NEW t \in Procs, UnmapWrite(t)
  PROVE  LocksCounted'
<1>0. TypeOK /\ Places /\ LocksCounted /\ Handling
  BY DEF IInv
<1>1. /\ pc[t] = "unmap" /\ UNCHANGED <<frameOf, at, fr, pins>>
      /\ pc'[t] = "write" /\ \A u \in Procs \ {t} : pc'[u] = pc[u]
  BY <1>0 DEF UnmapWrite, Unmapped, Goto, TypeOK
<1>2. PICK f \in Frames : f = fr[t] /\ lockCnt[f] = 0
  BY <1>0, <1>1 DEF Places, PlaceOf, TypeOK, Handling
<1>3. /\ io'[f] = TRUE /\ \A g \in Frames \ {f} : io'[g] = io[g]
      /\ lockCnt'[f] = lockCnt[f] + 1 /\ \A g \in Frames \ {f} : lockCnt'[g] = lockCnt[g]
  BY <1>0, <1>2 DEF UnmapWrite, TypeOK
<1>4. \A p \in Pages, g \in Frames : PinnedOn(p, g)' <=> PinnedOn(p, g)
  BY <1>1 DEF PinnedOn
<1>5. ASSUME NEW u \in Procs, NEW g \in Frames
      PROVE  (Works(u, g)' <=> Works(u, g) \/ (u = t /\ g = f)) /\ (Shares(u, g)' <=> Shares(u, g))
  <2>1. CASE u = t
    BY <1>1, <1>2, <2>1 DEF Works, Shares
  <2>2. CASE u # t
    BY <1>1, <2>2 DEF Works, Shares
  <2> QED BY <2>1, <2>2
<1>6. ASSUME NEW g \in Frames \ {f}
      PROVE  LockedFor(g)'
  BY <1>0, <1>3, <1>4, <1>5, <1>6, SameLocks
<1>7. Pinned(f)' = Pinned(f) /\ Sharing(f)' = Sharing(f)
  <2>1. Pinned(f)' = Pinned(f)
    BY <1>4 DEF Pinned, PagesOn, PinnedOn
  <2>2. Sharing(f)' = Sharing(f)
    BY <1>5 DEF Sharing, Shares
  <2> QED BY <2>1, <2>2
<1>8. Busy(f)' = Busy(f) \cup {t} /\ t \notin Busy(f) /\ t \in Busy(f)'
  <2>1. Busy(f) = {u \in Procs : Works(u, f)} /\ Busy(f)' = {u \in Procs : Works(u, f)'}
    BY DEF Busy, Filling, Emptying, Works
  <2>2. ~Works(t, f)
    BY <1>1 DEF Works
  <2> QED BY <1>5, <2>1, <2>2
<1>9. Cardinality(Busy(f)') = Cardinality(Busy(f)) + 1
  BY <1>8, LockSizes, OneMore
<1>10. LockedFor(f)
  BY <1>0, LocksPointwise
<1>11. LockedFor(f)'
  BY <1>3, <1>7, <1>8, <1>9, <1>10, LockSizes DEF LockedFor
<1> QED BY <1>6, <1>11, LocksAll

LEMMA UnmapCleanLocks ==
  ASSUME IInv, NEW t \in Procs, UnmapClean(t)
  PROVE  LocksCounted'
<1>0. TypeOK /\ LocksCounted
  BY DEF IInv
<1>1. UNCHANGED <<at, fr, pins, io, lockCnt>> /\ pc[t] = "unmap" /\ pc'[t] = "clean"
  BY EmptiedFor DEF UnmapClean, Unmapped
<1>2. \A p \in Pages : /\ frameOf'[p] = IF frameOf[p] = fr[t] THEN NULL ELSE frameOf[p]
                       /\ frameOf[p] = fr[t] => p \notin pins[Owner[p]]
  BY EmptiedFor
<1>3. \A p \in Pages, g \in Frames : PinnedOn(p, g)' <=> PinnedOn(p, g)
  BY <1>1, <1>2 DEF PinnedOn
<1>4. ASSUME NEW u \in Procs, NEW g \in Frames
      PROVE  (Works(u, g)' <=> Works(u, g)) /\ (Shares(u, g)' <=> Shares(u, g))
  <2>1. CASE u = t
    BY <1>1, <2>1 DEF Works, Shares
  <2>2. CASE u # t
    <3>1. pc'[u] = pc[u] /\ (pc[u] \in Fetching \cup Sharers => frameOf'[at[u]] = frameOf[at[u]])
      BY <2>2, EmptiedFor
    <3> QED BY <1>1, <3>1 DEF Works, Shares
  <2> QED BY <2>1, <2>2
<1>5. ASSUME NEW g \in Frames
      PROVE  LockedFor(g)'
  BY <1>0, <1>1, <1>3, <1>4, SameLocks
<1> QED BY <1>5, LocksAll

LEMMA InstalledLocks ==
  ASSUME IInv, NEW t \in Procs, NEW f \in Frames, InstallLoad(t, f) \/ InstallZero(t, f)
  PROVE  LocksCounted'
<1>0. TypeOK /\ Places /\ LocksCounted /\ PinnedStay
  BY DEF IInv
<1>1. Takes(t, f)
  BY DEF InstallLoad, InstallZero, Installed
<1>2. /\ Owner[at[t]] = t /\ at[t] \notin pins[t] /\ frameOf[at[t]] = NULL
      /\ pc[t] \in {"load", "clean", "written"}
      /\ \A p \in Pages : frameOf[p] = f => p \notin TextPages \cup present
      /\ pc[t] = "written" => f = fr[t]
  BY <1>1, Taken DEF Takes, NeedsFrame
<1>3. PICK a \in Pages : a = at[t]
  BY <1>1, Taken
<1>4. frameOf'[a] = f /\ \A q \in Pages \ {a} : frameOf'[q] = IF frameOf[q] = f THEN NULL ELSE frameOf[q]
  BY <1>3, InstalledFor
<1>5. /\ pc'[t] = (IF InstallLoad(t, f) THEN "read" ELSE "run")
      /\ pins' = (IF ~InstallLoad(t, f) /\ keep[t] THEN [pins EXCEPT ![t] = @ \cup {a}] ELSE pins)
      /\ InstallLoad(t, f) => at'[t] = a
  BY <1>3 DEF InstallLoad, InstallZero, EndCall
<1>6. /\ lockCnt'[f] = (IF InstallLoad(t, f) THEN 1 ELSE KeepCount(t)) /\ \A g \in Frames \ {f} : lockCnt'[g] = lockCnt[g]
      /\ io'[f] = (IF InstallLoad(t, f) THEN TRUE ELSE FALSE) /\ \A g \in Frames \ {f} : io'[g] = io[g]
  BY <1>0 DEF InstallLoad, InstallZero, TypeOK
<1>7. \A p \in Pages : frameOf[p] = f => p \notin pins[Owner[p]]
  BY <1>0, <1>2 DEF PinnedStay
<1>8. ASSUME NEW p \in Pages, NEW g \in Frames
      PROVE  PinnedOn(p, g)' <=> (g # f /\ PinnedOn(p, g)) \/ (g = f /\ p = a /\ ~InstallLoad(t, f) /\ keep[t])
  <2>1. CASE p = a
    BY <1>0, <1>2, <1>3, <1>4, <1>5, <2>1 DEF PinnedOn, TypeOK
  <2>2. CASE p # a
    <3>1. p \in pins'[Owner[p]] <=> p \in pins[Owner[p]]
      BY <1>0, <1>5, <2>2 DEF TypeOK
    <3> QED BY <1>4, <2>2, <3>1 DEF PinnedOn
  <2> QED BY <2>1, <2>2
<1>9. ASSUME NEW u \in Procs \ {t}
      PROVE  /\ at'[u] = at[u] /\ fr'[u] = fr[u]
             /\ pc'[u] \in Fetching <=> pc[u] \in Fetching
             /\ pc'[u] \in Sending <=> pc[u] \in Sending
             /\ pc'[u] \in Sharers <=> pc[u] \in Sharers
             /\ pc[u] \in Fetching \cup Sharers => frameOf[at[u]] # f /\ frameOf'[at[u]] = frameOf[at[u]]
             /\ pc[u] \in Evicting => fr[u] # f
  BY InstalledFor
<1>10. ASSUME NEW u \in Procs, NEW g \in Frames
       PROVE  /\ Works(u, g)' <=> (g # f /\ Works(u, g)) \/ (u = t /\ g = f /\ InstallLoad(t, f))
              /\ Shares(u, g)' <=> g # f /\ Shares(u, g)
  <2>1. CASE u = t
    BY <1>2, <1>4, <1>5, <2>1 DEF Works, Shares
  <2>2. CASE u # t
    BY <1>9, <2>2 DEF Works, Shares
  <2> QED BY <2>1, <2>2
<1>11. ASSUME NEW g \in Frames \ {f}
       PROVE  LockedFor(g)'
  BY <1>0, <1>6, <1>8, <1>10, <1>11, SameLocks
<1>12. /\ Pinned(f)' = {p \in Pages : PinnedOn(p, f)'} /\ Busy(f)' = {u \in Procs : Works(u, f)'}
       /\ Sharing(f)' = {u \in Procs : Shares(u, f)'}
  <2>1. Pinned(f)' = {p \in Pages : PinnedOn(p, f)'}
    BY DEF Pinned, PagesOn, PinnedOn
  <2>2. Busy(f)' = {u \in Procs : Works(u, f)'}
    BY DEF Busy, Filling, Emptying, Works
  <2>3. Sharing(f)' = {u \in Procs : Shares(u, f)'}
    BY DEF Sharing, Shares
  <2> QED BY <2>1, <2>2, <2>3
<1>13. Sharing(f)' = {}
  BY <1>10, <1>12
<1>14. CASE InstallLoad(t, f)
  <2>1. Pinned(f)' = {} /\ Busy(f)' = {t}
    BY <1>8, <1>10, <1>12, <1>14
  <2>2. Cardinality(Pinned(f)') = 0 /\ Cardinality(Busy(f)') = 1 /\ Cardinality(Sharing(f)') = 0
    BY <1>13, <2>1, FS_Singleton, FS_EmptySet
  <2>3. LockedFor(f)'
    BY <1>6, <1>14, <2>1, <2>2 DEF LockedFor
  <2> QED BY <1>11, <2>3, LocksAll
<1>15. CASE ~InstallLoad(t, f)
  <2>1. Busy(f)' = {}
    BY <1>10, <1>12, <1>15
  <2>2. Pinned(f)' = IF keep[t] THEN {a} ELSE {}
    BY <1>8, <1>12, <1>15
  <2>3. Cardinality(Pinned(f)') = KeepCount(t) /\ KeepCount(t) \in Nat
    BY <2>2, FS_Singleton, FS_EmptySet DEF KeepCount
  <2>4. LockedFor(f)'
    BY <1>6, <1>13, <1>15, <2>1, <2>3, FS_EmptySet DEF LockedFor
  <2> QED BY <1>11, <2>4, LocksAll
<1> QED BY <1>14, <1>15

LEMMA UnpinLocks ==
  ASSUME IInv, NEW t \in Procs, NEW a \in Pages, Unpin(t, a)
  PROVE  LocksCounted'
<1>0. TypeOK /\ Places /\ LocksCounted /\ PinnedStay /\ FramesSeparate
  BY DEF IInv
<1>1. /\ UNCHANGED <<frameOf, at, fr, io>> /\ a \in pins[t] /\ pc[t] \in Idle
      /\ pc'[t] \in Idle /\ \A u \in Procs \ {t} : pc'[u] = pc[u]
      /\ pins' = [pins EXCEPT ![t] = @ \ {a}]
  BY <1>0 DEF Unpin, Goto, TypeOK
<1>2. Owner[a] = t
  BY <1>0, <1>1 DEF Places, PlaceOf
<1>3. PICK f \in Frames : f = frameOf[a]
  BY <1>0, <1>1, RangeContains DEF PinnedStay, FramesSeparate, TypeOK
<1>4. lockCnt'[f] = lockCnt[f] - 1 /\ \A g \in Frames \ {f} : lockCnt'[g] = lockCnt[g]
  BY <1>0, <1>3 DEF Unpin, TypeOK
<1>5. ASSUME NEW p \in Pages, NEW g \in Frames
      PROVE  PinnedOn(p, g)' <=> PinnedOn(p, g) /\ p # a
  BY <1>0, <1>1, <1>2 DEF PinnedOn, TypeOK
<1>6. ASSUME NEW u \in Procs, NEW g \in Frames
      PROVE  (Works(u, g)' <=> Works(u, g)) /\ (Shares(u, g)' <=> Shares(u, g))
  <2>1. CASE u = t
    BY <1>1, <2>1 DEF Works, Shares
  <2>2. CASE u # t
    BY <1>1, <2>2 DEF Works, Shares
  <2> QED BY <2>1, <2>2
<1>7. ASSUME NEW g \in Frames \ {f}
      PROVE  LockedFor(g)'
  <2>1. ~PinnedOn(a, g)
    BY <1>3, <1>7 DEF PinnedOn
  <2> QED BY <1>0, <1>1, <1>4, <1>5, <1>6, <1>7, <2>1, SameLocks
<1>8. Pinned(f) = Pinned(f)' \cup {a} /\ a \notin Pinned(f)' /\ a \in Pinned(f)
  <2>1. Pinned(f) = {p \in Pages : PinnedOn(p, f)} /\ Pinned(f)' = {p \in Pages : PinnedOn(p, f)'}
    BY DEF Pinned, PagesOn, PinnedOn
  <2>2. PinnedOn(a, f)
    BY <1>1, <1>2, <1>3 DEF PinnedOn
  <2> QED BY <1>5, <2>1, <2>2
<1>9. Cardinality(Pinned(f)) = Cardinality(Pinned(f)') + 1 /\ Cardinality(Pinned(f)') \in Nat
  <2>1. IsFiniteSet(Pinned(f)')
    BY <1>8, LockSizes, FS_Subset
  <2> QED BY <1>8, <2>1, OneMore
<1>10. Busy(f)' = Busy(f) /\ Sharing(f)' = Sharing(f)
  <2>1. Busy(f)' = Busy(f)
    BY <1>6 DEF Busy, Filling, Emptying, Works
  <2>2. Sharing(f)' = Sharing(f)
    BY <1>6 DEF Sharing, Shares
  <2> QED BY <2>1, <2>2
<1>11. LockedFor(f)
  BY <1>0, LocksPointwise
<1>12. LockedFor(f)'
  BY <1>1, <1>4, <1>9, <1>10, <1>11, LockSizes DEF LockedFor
<1> QED BY <1>7, <1>12, LocksAll

LEMMA DetachLocks ==
  ASSUME IInv, NEW t \in Procs, Detach(t)
  PROVE  LocksCounted'
<1>0. TypeOK /\ Places /\ LocksCounted
  BY DEF IInv
<1>1. UNCHANGED <<at, pins, io, lockCnt>>
  BY DEF Detach
<1>2. PICK f \in Frames : f = frameOf[at[t]]
  BY DetachedFor
<1>3. /\ at[t] \in Pages /\ Owner[at[t]] = t
      /\ frameOf'[at[t]] = NULL /\ \A p \in Pages \ {at[t]} : frameOf'[p] = frameOf[p]
      /\ pc[t] = "unload" /\ pc'[t] = "release"
      /\ \A u \in Procs \ {t} : pc'[u] = pc[u] /\ fr'[u] = fr[u]
      /\ \A u \in Procs \ {t} : pc[u] \notin Idle => at[u] \in Pages \ {at[t]}
  BY <1>2, DetachedFor
<1>4. at[t] \notin pins[t]
  BY <1>0, <1>3, OwnPages
<1>5. \A p \in Pages, g \in Frames : PinnedOn(p, g)' <=> PinnedOn(p, g)
  BY <1>1, <1>3, <1>4 DEF PinnedOn
<1>6. ASSUME NEW u \in Procs, NEW g \in Frames
      PROVE  (Works(u, g)' <=> Works(u, g)) /\ (Shares(u, g)' <=> Shares(u, g))
  <2>1. CASE u = t
    BY <1>3, <2>1 DEF Works, Shares
  <2>2. CASE u # t
    <3>1. pc[u] \in Fetching \cup Sharers => frameOf'[at[u]] = frameOf[at[u]]
      BY <1>3, <2>2
    <3> QED BY <1>1, <1>3, <2>2, <3>1 DEF Works, Shares
  <2> QED BY <2>1, <2>2
<1>7. ASSUME NEW g \in Frames
      PROVE  LockedFor(g)'
  BY <1>0, <1>1, <1>5, <1>6, SameLocks
<1> QED BY <1>7, LocksAll

\* Every branch counts its locks.
LEMMA LocksStep ==
  ASSUME IInv, NEW t \in Procs, GoodStep(t)
  PROVE  LocksCounted'
<1>0. TypeOK /\ Places /\ LocksCounted
  BY DEF IInv
<1> USE <1>0 DEF TypeOK, Places, PlaceOf
<1>1. ASSUME LoadWait(t)
      PROVE  LocksCounted'
  <2>1. UNCHANGED <<frameOf, lockCnt, io>>
    BY <1>1 DEF LoadWait
  <2>2. ASSUME NEW q \in Pages, NEW g \in Frames
        PROVE  PinnedOn(q, g)' <=> PinnedOn(q, g)
    BY <1>1 DEF LoadWait, Goto, PinnedOn
  <2>3. ASSUME NEW u \in Procs, NEW g \in Frames
        PROVE  (Works(u, g)' <=> Works(u, g)) /\ (Shares(u, g)' <=> Shares(u, g))
    BY <1>1 DEF LoadWait, Goto, Works, Shares
  <2> QED BY <2>1, <2>2, <2>3, SameLocks, LocksAll
<1>2. ASSUME UnloadWait(t)
      PROVE  LocksCounted'
  <2>1. UNCHANGED <<frameOf, lockCnt, io>>
    BY <1>2 DEF UnloadWait
  <2>2. ASSUME NEW q \in Pages, NEW g \in Frames
        PROVE  PinnedOn(q, g)' <=> PinnedOn(q, g)
    BY <1>2 DEF UnloadWait, Goto, PinnedOn
  <2>3. ASSUME NEW u \in Procs, NEW g \in Frames
        PROVE  (Works(u, g)' <=> Works(u, g)) /\ (Shares(u, g)' <=> Shares(u, g))
    BY <1>2 DEF UnloadWait, Goto, Works, Shares
  <2> QED BY <2>1, <2>2, <2>3, SameLocks, LocksAll
<1>3. ASSUME PinPresent(t)
      PROVE  LocksCounted'
  BY <1>3, PinLocks
<1>4. ASSUME ShareWait(t)
      PROVE  LocksCounted'
  BY <1>4, ShareLocks
<1>5. ASSUME ShareNow(t)
      PROVE  LocksCounted'
  BY <1>5, ShareLocks
<1>6. ASSUME LoadedShared(t)
      PROVE  LocksCounted'
  BY <1>6, PinLocks
<1>7. ASSUME Read(t)
      PROVE  LocksCounted'
  <2>1. UNCHANGED <<frameOf, lockCnt, io>>
    BY <1>7 DEF Read
  <2>2. ASSUME NEW q \in Pages, NEW g \in Frames
        PROVE  PinnedOn(q, g)' <=> PinnedOn(q, g)
    BY <1>7 DEF Read, Goto, FreeSlot, Source, PinnedOn
  <2>3. ASSUME NEW u \in Procs, NEW g \in Frames
        PROVE  (Works(u, g)' <=> Works(u, g)) /\ (Shares(u, g)' <=> Shares(u, g))
    BY <1>7 DEF Read, Goto, FreeSlot, Source, Works, Shares
  <2> QED BY <2>1, <2>2, <2>3, SameLocks, LocksAll
<1>8. ASSUME UnmapWrite(t)
      PROVE  LocksCounted'
  BY <1>8, UnmapWriteLocks
<1>9. ASSUME UnmapClean(t)
      PROVE  LocksCounted'
  BY <1>9, UnmapCleanLocks
<1>10. ASSUME WriteToFile(t)
      PROVE  LocksCounted'
  <2>1. UNCHANGED <<frameOf, lockCnt, io>>
    BY <1>10 DEF WriteToFile
  <2>2. ASSUME NEW q \in Pages, NEW g \in Frames
        PROVE  PinnedOn(q, g)' <=> PinnedOn(q, g)
    BY <1>10 DEF WriteToFile, Goto, PinnedOn
  <2>3. ASSUME NEW u \in Procs, NEW g \in Frames
        PROVE  (Works(u, g)' <=> Works(u, g)) /\ (Shares(u, g)' <=> Shares(u, g))
    BY <1>10 DEF WriteToFile, Goto, Works, Shares
  <2> QED BY <2>1, <2>2, <2>3, SameLocks, LocksAll
<1>11. ASSUME FlipSlot(t)
      PROVE  LocksCounted'
  <2>1. UNCHANGED <<frameOf, lockCnt, io>>
    BY <1>11 DEF FlipSlot
  <2>2. ASSUME NEW q \in Pages, NEW g \in Frames
        PROVE  PinnedOn(q, g)' <=> PinnedOn(q, g)
    BY <1>11 DEF FlipSlot, Goto, PinnedOn
  <2>3. ASSUME NEW u \in Procs, NEW g \in Frames
        PROVE  (Works(u, g)' <=> Works(u, g)) /\ (Shares(u, g)' <=> Shares(u, g))
    BY <1>11 DEF FlipSlot, Goto, Works, Shares
  <2> QED BY <2>1, <2>2, <2>3, SameLocks, LocksAll
<1>12. ASSUME NEW s \in Slots, TakeSlot(t, s)
      PROVE  LocksCounted'
  <2>1. UNCHANGED <<frameOf, lockCnt, io>>
    BY <1>12 DEF TakeSlot
  <2>2. ASSUME NEW q \in Pages, NEW g \in Frames
        PROVE  PinnedOn(q, g)' <=> PinnedOn(q, g)
    BY <1>12 DEF TakeSlot, Goto, PinnedOn
  <2>3. ASSUME NEW u \in Procs, NEW g \in Frames
        PROVE  (Works(u, g)' <=> Works(u, g)) /\ (Shares(u, g)' <=> Shares(u, g))
    BY <1>12 DEF TakeSlot, Goto, Works, Shares
  <2> QED BY <2>1, <2>2, <2>3, SameLocks, LocksAll
<1>13. ASSUME NEW f \in Frames, Choose(t, f)
      PROVE  LocksCounted'
  <2>1. UNCHANGED <<frameOf, lockCnt, io>>
    BY <1>13 DEF Choose
  <2>2. ASSUME NEW q \in Pages, NEW g \in Frames
        PROVE  PinnedOn(q, g)' <=> PinnedOn(q, g)
    BY <1>13 DEF Choose, NeedsFrame, Goto, PinnedOn
  <2>3. ASSUME NEW u \in Procs, NEW g \in Frames
        PROVE  (Works(u, g)' <=> Works(u, g)) /\ (Shares(u, g)' <=> Shares(u, g))
    BY <1>13 DEF Choose, NeedsFrame, Goto, Works, Shares
  <2> QED BY <2>1, <2>2, <2>3, SameLocks, LocksAll
<1>14. ASSUME NEW f \in Frames, LoadDone(t, f)
      PROVE  LocksCounted'
  BY <1>14, PinLocks
<1>15. ASSUME NEW f \in Frames, InstallLoad(t, f)
      PROVE  LocksCounted'
  BY <1>15, InstalledLocks
<1>16. ASSUME NEW f \in Frames, InstallZero(t, f)
      PROVE  LocksCounted'
  BY <1>16, InstalledLocks
<1>17. ASSUME Detach(t)
      PROVE  LocksCounted'
  BY <1>17, DetachLocks
<1>18. ASSUME ReleaseLast(t)
      PROVE  LocksCounted'
  <2>1. UNCHANGED <<frameOf, lockCnt, io>>
    BY <1>18 DEF ReleaseLast
  <2>2. ASSUME NEW q \in Pages, NEW g \in Frames
        PROVE  PinnedOn(q, g)' <=> PinnedOn(q, g)
    BY <1>18 DEF ReleaseLast, Goto, EndCall, FileSaved, PinnedOn
  <2>3. ASSUME NEW u \in Procs, NEW g \in Frames
        PROVE  (Works(u, g)' <=> Works(u, g)) /\ (Shares(u, g)' <=> Shares(u, g))
    BY <1>18 DEF ReleaseLast, Goto, EndCall, FileSaved, Works, Shares
  <2> QED BY <2>1, <2>2, <2>3, SameLocks, LocksAll
<1>19. ASSUME ReleaseShared(t)
      PROVE  LocksCounted'
  <2>1. UNCHANGED <<frameOf, lockCnt, io>>
    BY <1>19 DEF ReleaseShared
  <2>2. ASSUME NEW q \in Pages, NEW g \in Frames
        PROVE  PinnedOn(q, g)' <=> PinnedOn(q, g)
    BY <1>19 DEF ReleaseShared, Goto, EndCall, PinnedOn
  <2>3. ASSUME NEW u \in Procs, NEW g \in Frames
        PROVE  (Works(u, g)' <=> Works(u, g)) /\ (Shares(u, g)' <=> Shares(u, g))
    BY <1>19 DEF ReleaseShared, Goto, EndCall, Works, Shares
  <2> QED BY <2>1, <2>2, <2>3, SameLocks, LocksAll
<1>20. ASSUME DropPage(t)
      PROVE  LocksCounted'
  <2>1. UNCHANGED <<frameOf, lockCnt, io>>
    BY <1>20 DEF DropPage
  <2>2. ASSUME NEW q \in Pages, NEW g \in Frames
        PROVE  PinnedOn(q, g)' <=> PinnedOn(q, g)
    BY <1>20 DEF DropPage, Goto, EndCall, FreeSlot, PinnedOn
  <2>3. ASSUME NEW u \in Procs, NEW g \in Frames
        PROVE  (Works(u, g)' <=> Works(u, g)) /\ (Shares(u, g)' <=> Shares(u, g))
    BY <1>20 DEF DropPage, Goto, EndCall, FreeSlot, Works, Shares
  <2> QED BY <2>1, <2>2, <2>3, SameLocks, LocksAll
<1>21. ASSUME NEW p \in Pages, Access(t, p)
      PROVE  LocksCounted'
  <2>1. UNCHANGED <<frameOf, lockCnt, io>>
    BY <1>21 DEF Access
  <2>2. ASSUME NEW q \in Pages, NEW g \in Frames
        PROVE  PinnedOn(q, g)' <=> PinnedOn(q, g)
    BY <1>21 DEF Access, PinnedOn
  <2>3. ASSUME NEW u \in Procs, NEW g \in Frames
        PROVE  (Works(u, g)' <=> Works(u, g)) /\ (Shares(u, g)' <=> Shares(u, g))
    BY <1>21 DEF Access, Works, Shares
  <2> QED BY <2>1, <2>2, <2>3, SameLocks, LocksAll
<1>22. ASSUME NEW p \in Pages, CopyToPinned(t, p)
      PROVE  LocksCounted'
  <2>1. UNCHANGED <<frameOf, lockCnt, io>>
    BY <1>22 DEF CopyToPinned
  <2>2. ASSUME NEW q \in Pages, NEW g \in Frames
        PROVE  PinnedOn(q, g)' <=> PinnedOn(q, g)
    BY <1>22 DEF CopyToPinned, PinnedOn
  <2>3. ASSUME NEW u \in Procs, NEW g \in Frames
        PROVE  (Works(u, g)' <=> Works(u, g)) /\ (Shares(u, g)' <=> Shares(u, g))
    BY <1>22 DEF CopyToPinned, Works, Shares
  <2> QED BY <2>1, <2>2, <2>3, SameLocks, LocksAll
<1>23. ASSUME NEW p \in Pages, Map(t, p)
      PROVE  LocksCounted'
  <2>1. UNCHANGED <<frameOf, lockCnt, io>>
    BY <1>23 DEF Map
  <2>2. ASSUME NEW q \in Pages, NEW g \in Frames
        PROVE  PinnedOn(q, g)' <=> PinnedOn(q, g)
    BY <1>23 DEF Map, PinnedOn
  <2>3. ASSUME NEW u \in Procs, NEW g \in Frames
        PROVE  (Works(u, g)' <=> Works(u, g)) /\ (Shares(u, g)' <=> Shares(u, g))
    BY <1>23 DEF Map, Works, Shares
  <2> QED BY <2>1, <2>2, <2>3, SameLocks, LocksAll
<1>24. ASSUME NEW p \in Pages, PageFault(t, p)
      PROVE  LocksCounted'
  <2>1. UNCHANGED <<frameOf, lockCnt, io>>
    BY <1>24 DEF PageFault, Call
  <2>2. ASSUME NEW q \in Pages, NEW g \in Frames
        PROVE  PinnedOn(q, g)' <=> PinnedOn(q, g)
    BY <1>24 DEF PageFault, Call, Goto, PinnedOn
  <2>3. ASSUME NEW u \in Procs, NEW g \in Frames
        PROVE  (Works(u, g)' <=> Works(u, g)) /\ (Shares(u, g)' <=> Shares(u, g))
    BY <1>24 DEF PageFault, Call, Goto, Works, Shares
  <2> QED BY <2>1, <2>2, <2>3, SameLocks, LocksAll
<1>25. ASSUME NEW p \in Pages, Pin(t, p)
      PROVE  LocksCounted'
  <2>1. UNCHANGED <<frameOf, lockCnt, io>>
    BY <1>25 DEF Pin, Call
  <2>2. ASSUME NEW q \in Pages, NEW g \in Frames
        PROVE  PinnedOn(q, g)' <=> PinnedOn(q, g)
    BY <1>25 DEF Pin, Call, Goto, PinnedOn
  <2>3. ASSUME NEW u \in Procs, NEW g \in Frames
        PROVE  (Works(u, g)' <=> Works(u, g)) /\ (Shares(u, g)' <=> Shares(u, g))
    BY <1>25 DEF Pin, Call, Goto, Works, Shares
  <2> QED BY <2>1, <2>2, <2>3, SameLocks, LocksAll
<1>26. ASSUME NEW p \in Pages, Unmap(t, p)
      PROVE  LocksCounted'
  <2>1. UNCHANGED <<frameOf, lockCnt, io>>
    BY <1>26 DEF Unmap, Call
  <2>2. ASSUME NEW q \in Pages, NEW g \in Frames
        PROVE  PinnedOn(q, g)' <=> PinnedOn(q, g)
    BY <1>26 DEF Unmap, Call, Goto, PinnedOn
  <2>3. ASSUME NEW u \in Procs, NEW g \in Frames
        PROVE  (Works(u, g)' <=> Works(u, g)) /\ (Shares(u, g)' <=> Shares(u, g))
    BY <1>26 DEF Unmap, Call, Goto, Works, Shares
  <2> QED BY <2>1, <2>2, <2>3, SameLocks, LocksAll
<1>27. ASSUME NEW p \in Pages, Unpin(t, p)
      PROVE  LocksCounted'
  BY <1>27, UnpinLocks
<1> QED BY <1>1, <1>2, <1>3, <1>4, <1>5, <1>6, <1>7, <1>8, <1>9, <1>10, <1>11, <1>12, <1>13,
  <1>14, <1>15, <1>16, <1>17, <1>18, <1>19, <1>20, <1>21, <1>22, <1>23, <1>24, <1>25, <1>26,
  <1>27 DEF GoodStep, UserStep

-----------------------------------------------------------------------------
(* The invariant.                                                          *)

\* Everything but the harm done.
memory == <<pageVars, pteVars, frameVars, dataVars, localVars, frameLock, pc, pins>>

\* When the kernel stops nothing else changes.
LEMMA StopStep ==
  ASSUME Next, fault' # "none"
  PROVE  UNCHANGED memory
<1>1. PICK t \in Procs : KernelStep(t) \/ \E p \in Pages : UserStep(t, p)
  BY DEF Next
<1>2. fault = "none"
  BY DEF Next
<1>3. CASE LoadStep(t)
  <2>1. LoadPresent(t)
    BY <1>2, <1>3 DEF LoadStep, LoadWait, LoadShared, LoadedShared, LoadFresh, Read, Loaded
  <2>2. Stop("has a frame")
    BY <1>2, <2>1 DEF LoadPresent
  <2> QED BY <2>2 DEF Stop, memory
<1>4. CASE EvictStep(t)
  <2>1. Evict(t) \/ EvictNothing(t) \/ EvictUnmap(t) \/ ScanSwapMap(t) \/ WriteToSwap(t)
    BY <1>2, <1>4 DEF EvictStep, WriteToFile, Evicted
  <2>2. PICK what : Stop(what)
    <3>1. CASE Evict(t)
      <4>1. Stop("no frame available")
        BY <1>2, <3>1 DEF Evict
      <4> QED BY <4>1
    <3>2. CASE EvictNothing(t)
      BY <3>2 DEF EvictNothing
    <3>3. CASE EvictUnmap(t)
      <4>1. Stop("write lost") \/ Stop("no hash entry")
        <5> HIDE DEF pageVars, pteVars, frameVars, dataVars, localVars
        <5> QED BY <1>2, <3>3 DEF EvictUnmap
      <4> QED BY <4>1
    <3>4. CASE ScanSwapMap(t)
      <4>1. Stop("no swap space")
        BY <1>2, <3>4 DEF ScanSwapMap
      <4> QED BY <4>1
    <3>5. CASE WriteToSwap(t)
      <4>1. Stop("slot taken")
        BY <1>2, <3>5 DEF WriteToSwap
      <4> QED BY <4>1
    <3> QED BY <2>1, <3>1, <3>2, <3>3, <3>4, <3>5
  <2> QED BY <2>2 DEF Stop, memory
<1>5. CASE UnloadStep(t)
  <2>1. ReleaseFrame(t)
    BY <1>2, <1>5 DEF UnloadStep, UnloadWait, Detach, DropPage
  <2>2. Stop("used after free")
    BY <1>2, <2>1 DEF ReleaseFrame
  <2> QED BY <2>2 DEF Stop, memory
<1>6. CASE \E p \in Pages : UserStep(t, p)
  BY <1>2, <1>6 DEF UserStep, Access, CopyToPinned, Map, PageFault, Pin, Unmap, Unpin, Call
<1> QED BY <1>1, <1>3, <1>4, <1>5, <1>6 DEF KernelStep

LEMMA SameMemory ==
  ASSUME IInv, UNCHANGED memory
  PROVE  IInv'
<1>0. /\ TypeOK /\ Places /\ Presence
      /\ FramesAccounted /\ FramePlaces /\ FramesSeparate
      /\ LocksCounted /\ Handling /\ PinnedStay /\ NoLostWait
      /\ SlotsAccounted /\ SlotPlaces /\ DataPlaces
  BY DEF IInv
<1> USE DEF memory
<1>1. TypeOK'
  BY <1>0 DEF TypeOK
<1>2. Places'
  BY <1>0 DEF Places, PlaceOf
<1>3. Presence'
  BY <1>0 DEF Presence
<1>4. FramesAccounted'
  BY <1>0 DEF FramesAccounted, PagesOn
<1>5. FramePlaces'
  BY <1>0 DEF FramePlaces, Emptied
<1>6. FramesSeparate'
  BY <1>0 DEF FramesSeparate
<1>7. LocksCounted'
  BY <1>0 DEF LocksCounted, PagesOn, Filling, Emptying, Sharing
<1>8. Handling'
  BY <1>0 DEF Handling, Hand
<1>9. PinnedStay' /\ NoLostWait'
  BY <1>0 DEF PinnedStay, NoLostWait
<1>10. SlotsAccounted'
  BY <1>0 DEF SlotsAccounted, SwappedOut, Written
<1>11. SlotPlaces'
  BY <1>0 DEF SlotPlaces, Doing
<1>12. DataPlaces'
  BY <1>0 DEF DataPlaces, Doing, Saving
<1> QED BY <1>1, <1>2, <1>3, <1>4, <1>5, <1>6, <1>7, <1>8, <1>9, <1>10, <1>11, <1>12 DEF IInv

LEMMA InvInit ==
  ASSUME Init
  PROVE  IInv
<1> USE DEF Init
<1>0. NULL \notin Pages /\ NULL \notin Frames /\ NULL \notin Procs /\ Range(<<>>) = {}
  BY DEF Range
<1>1. TypeOK
  BY DEF TypeOK, Locs
<1>2. Places
  BY DEF Places, PlaceOf
<1>3. Presence
  BY DEF Presence
<1>4. FramesAccounted
  BY <1>0 DEF FramesAccounted, PagesOn
<1>5. FramePlaces
  BY <1>0 DEF FramePlaces, Emptied
<1>6. FramesSeparate
  BY DEF FramesSeparate
<1>7. LocksCounted
  <2> SUFFICES ASSUME NEW f \in Frames
               PROVE  LockedFor(f)
    BY LocksPointwise
  <2>1. Pinned(f) = {} /\ Busy(f) = {} /\ Sharing(f) = {}
    BY LocksPointwise, <1>0 DEF PinnedOn, Works, Shares
  <2> QED BY <2>1, FS_EmptySet DEF LockedFor
<1>8. Handling
  BY DEF Handling
<1>9. PinnedStay /\ NoLostWait
  BY DEF PinnedStay, NoLostWait
<1>10. SlotsAccounted
  <2>1. SwappedOut = {} /\ Written = {}
    BY DEF SwappedOut, Written
  <2> QED BY <2>1 DEF SlotsAccounted
<1>11. SlotPlaces
  BY DEF SlotPlaces
<1>12. DataPlaces
  <2>1. \A p \in Pages : frameOf[p] = NULL /\ p \notin dirty
    OBVIOUS
  <2>2. \A t \in Procs : pc[t] = "run"
    OBVIOUS
  <2>3. TextPages \subseteq Pages /\ MapPages \subseteq Pages
    BY DEF Pages
  <2> QED BY <2>1, <2>2, <2>3 DEF DataPlaces
<1> QED BY <1>1, <1>2, <1>3, <1>4, <1>5, <1>6, <1>7, <1>8, <1>9, <1>10, <1>11, <1>12 DEF IInv

LEMMA InvNext ==
  ASSUME IInv, [Next]_vars
  PROVE  IInv'
<1>1. CASE UNCHANGED vars
  <2>1. UNCHANGED memory
    BY <1>1 DEF vars, memory
  <2> QED BY <2>1, SameMemory
<1>2. CASE Next /\ fault' # "none"
  BY <1>2, StopStep, SameMemory
<1>3. CASE Next /\ fault' = "none"
  <2>1. PICK t \in Procs : GoodStep(t)
    BY <1>3, Branches
  <2>2. /\ TypeOK' /\ Places' /\ Presence'
        /\ FramesAccounted' /\ FramePlaces' /\ FramesSeparate'
        /\ LocksCounted' /\ Handling' /\ PinnedStay' /\ NoLostWait'
        /\ SlotsAccounted' /\ SlotPlaces' /\ DataPlaces'
    BY <2>1, TypeStep, PlacesStep, PresenceStep, AccountedStep, FramePlacesStep, SeparateStep, LocksStep,
       HandlingStep, PinnedStep, WaitsStep, SlotsStep, SlotPlacesStep, DataStep
  <2> QED BY <2>2 DEF IInv
<1> QED BY <1>1, <1>2, <1>3

\* In every reachable state of the frame table the invariant holds.
THEOREM Invariance == Spec => []IInv
<1>1. Init => IInv
  BY InvInit
<1>2. IInv /\ [Next]_vars => IInv'
  BY InvNext
<1> QED BY <1>1, <1>2, PTL DEF Spec

\* Every variable of frametable.c, swap.c and the page tables has its type.
THEOREM TypeCorrect == Spec => []TypeOK
<1>1. IInv => TypeOK
  BY DEF IInv
<1> QED BY <1>1, Invariance, PTL

\* No frame is lost, and none is both free and in use: get_frame_to_evict,
\* allocate_frame and the release at the end of frametable_unload_frame agree
\* on where each page of the user pool is.
THEOREM AllFramesAccounted == Spec => []FramesAccounted
<1>1. IInv => FramesAccounted
  BY DEF IInv
<1> QED BY <1>1, Invariance, PTL

\* No two pages share a frame unless they are the same read only block of an
\* executable, and no page table entry outlives its frame.
THEOREM AllFramesSeparate == Spec => []FramesSeparate
<1>1. IInv => FramesSeparate
  BY DEF IInv
<1> QED BY <1>1, Invariance, PTL

\* The lock count of a frame is the number of those that rely on it, through
\* frametable_lock_frame, evictions, reads and shared loads.
THEOREM AllLocksCounted == Spec => []LocksCounted
<1>1. IInv => LocksCounted
  BY DEF IInv
<1> QED BY <1>1, Invariance, PTL

\* A buffer that a system call locked stays in memory until it is unlocked.
THEOREM AllPinnedStay == Spec => []PinnedStay
<1>1. IInv => PinnedStay
  BY DEF IInv
<1> QED BY <1>1, Invariance, PTL

\* A slot of swap.c is in use exactly while one page needs it.
THEOREM AllSlotsAccounted == Spec => []SlotsAccounted
<1>1. IInv => SlotsAccounted
  BY DEF IInv
<1> QED BY <1>1, Invariance, PTL

\* Nobody waits for io_done of a frame whose input or output has ended.
THEOREM NoWaitIsLost == Spec => []NoLostWait
<1>1. IInv => NoLostWait
  BY DEF IInv
<1> QED BY <1>1, Invariance, PTL
-----------------------------------------------------------------------------
(* Pages are private memory.                                               *)

\* Where the contents of a page are: in a frame that is being unloaded, in its
\* frame, or in its slot or file.
Unsaved(p) == Doing(p, {"release"}) /\ p \in MapPages /\ p \in dirty
Arriving(p) == Doing(p, {"read", "waitShared", "shared"})
Below(p) == IF swapSlot[p] # NULL THEN swap[swapSlot[p]] ELSE Source(p)
View(p) ==
  IF Unsaved(p) THEN frameData[fr[Owner[p]]]
  ELSE IF frameOf[p] # NULL /\ ~Arriving(p) THEN frameData[frameOf[p]]
  ELSE Below(p)

Memory == [p \in Pages |-> Contents(p)]
Live == {p \in mapped : ~(pc[Owner[p]] = "release" /\ at[Owner[p]] = p)}

LEMMA ViewNow ==
  ASSUME Places
  PROVE  Memory = [p \in Pages |-> View(p)]
<1>1. ASSUME NEW p \in Pages
      PROVE  Contents(p) = View(p)
  <2>1. Unsaved(p) => frameOf[p] = NULL
    BY DEF Places, PlaceOf, Unsaved, Doing
  <2>2. Contents(p) = CASE Unsaved(p) -> frameData[fr[Owner[p]]]
                        [] ~Arriving(p) /\ frameOf[p] # NULL -> frameData[frameOf[p]]
                        [] ~Unsaved(p) /\ (frameOf[p] = NULL \/ Arriving(p)) -> Below(p)
    <3>1. Unsaved(p) <=> at[Owner[p]] = p /\ pc[Owner[p]] = "release" /\ p \in MapPages \cap dirty
      BY DEF Unsaved, Doing
    <3>2. Arriving(p) <=> at[Owner[p]] = p /\ pc[Owner[p]] \in {"read", "waitShared", "shared"}
      BY DEF Arriving, Doing
    <3> QED BY <3>1, <3>2 DEF Contents, Below
  <2> HIDE DEF Unsaved, Arriving, Below
  <2>3. CASE Unsaved(p)
    BY <2>1, <2>2, <2>3 DEF View
  <2>4. CASE ~Unsaved(p) /\ frameOf[p] # NULL /\ ~Arriving(p)
    BY <2>2, <2>4 DEF View
  <2>5. CASE ~Unsaved(p) /\ ~(frameOf[p] # NULL /\ ~Arriving(p))
    BY <2>2, <2>5 DEF View
  <2> QED BY <2>3, <2>4, <2>5
<1> QED BY <1>1 DEF Memory

LEMMA ViewNext ==
  ASSUME Places'
  PROVE  Memory' = [p \in Pages |-> View(p)']
<1>1. ASSUME NEW p \in Pages
      PROVE  Contents(p)' = View(p)'
  <2>1. Unsaved(p)' => frameOf'[p] = NULL
    BY DEF Places, PlaceOf, Unsaved, Doing
  <2>2. Contents(p)' = CASE Unsaved(p)' -> frameData'[fr'[Owner[p]]]
                         [] ~Arriving(p)' /\ frameOf'[p] # NULL -> frameData'[frameOf'[p]]
                         [] ~Unsaved(p)' /\ (frameOf'[p] = NULL \/ Arriving(p)') -> Below(p)'
    <3>1. Unsaved(p)' <=> at'[Owner[p]] = p /\ pc'[Owner[p]] = "release" /\ p \in MapPages \cap dirty'
      BY DEF Unsaved, Doing
    <3>2. Arriving(p)' <=> at'[Owner[p]] = p /\ pc'[Owner[p]] \in {"read", "waitShared", "shared"}
      BY DEF Arriving, Doing
    <3> QED BY <3>1, <3>2 DEF Contents, Below
  <2>6. View(p)' = IF Unsaved(p)' THEN frameData'[fr'[Owner[p]]]
                   ELSE IF frameOf'[p] # NULL /\ ~Arriving(p)' THEN frameData'[frameOf'[p]]
                   ELSE Below(p)'
    BY DEF View
  <2> HIDE DEF Unsaved, Arriving, Below
  <2>3. CASE Unsaved(p)'
    BY <2>1, <2>2, <2>3, <2>6
  <2>4. CASE ~Unsaved(p)' /\ frameOf'[p] # NULL /\ ~Arriving(p)'
    BY <2>2, <2>4, <2>6
  <2>5. CASE ~Unsaved(p)' /\ ~(frameOf'[p] # NULL /\ ~Arriving(p)')
    BY <2>2, <2>5, <2>6
  <2> QED BY <2>3, <2>4, <2>5
<1> QED BY <1>1 DEF Memory

\* Nothing changes for page p.
LEMMA QuietView ==
  ASSUME NEW p \in Pages, UNCHANGED <<frameOf, swapSlot, frameData, file, swap>>,
         Unsaved(p)' <=> Unsaved(p), Unsaved(p) => fr'[Owner[p]] = fr[Owner[p]],
         Arriving(p)' <=> Arriving(p)
  PROVE  View(p)' = View(p)
BY DEF View, Below, Source

LEMMA PlainPages ==
  ASSUME IInv, NEW p \in Pages
  PROVE  /\ p \in TextPages \cup MapPages => swapSlot[p] = NULL
         /\ p \in TextPages => Below(p) = Text /\ ~Unsaved(p)
         /\ p \in MapPages => Below(p) = file[p] /\ p \notin TextPages
         /\ p \in TextPages /\ frameOf[p] # NULL /\ ~Arriving(p) => frameData[frameOf[p]] = Text
<1>1. SlotPlaces /\ DataPlaces
  BY DEF IInv
<1>2. p \in TextPages \cup MapPages => swapSlot[p] = NULL
  BY <1>1 DEF SlotPlaces
<1>3. p \in TextPages => Below(p) = Text
  BY <1>2 DEF Below, Source
<1>4. p \in MapPages => Below(p) = file[p] /\ p \notin TextPages
  BY <1>2 DEF Below, Source
<1>5. p \in TextPages => ~Unsaved(p)
  BY DEF Unsaved
<1>6. p \in TextPages /\ frameOf[p] # NULL /\ ~Arriving(p) => frameData[frameOf[p]] = Text
  BY <1>1 DEF DataPlaces, Arriving, Doing
<1> QED BY <1>2, <1>3, <1>4, <1>5, <1>6

LEMMA PlainPagesNext ==
  ASSUME IInv', NEW p \in Pages
  PROVE  p \in TextPages => View(p)' = Text
<1>1. SlotPlaces' /\ DataPlaces'
  BY DEF IInv
<1> SUFFICES ASSUME p \in TextPages
             PROVE  View(p)' = Text
  OBVIOUS
<1>2. swapSlot'[p] = NULL
  BY <1>1 DEF SlotPlaces
<1>3. Below(p)' = Text
  BY <1>2 DEF Below, Source
<1>5. ~Unsaved(p)'
  BY DEF Unsaved
<1>6. frameOf'[p] # NULL /\ ~Arriving(p)' => frameData'[frameOf'[p]] = Text
  BY <1>1 DEF DataPlaces, Arriving, Doing
<1> QED BY <1>3, <1>5, <1>6 DEF View

\* The block of an executable is what a process sees in a page of it.
LEMMA TextView ==
  ASSUME IInv, NEW p \in TextPages
  PROVE  View(p) = Text
<1>1. p \in Pages
  BY DEF Pages
<1> QED BY <1>1, PlainPages DEF View

\* Most steps move no page.
LEMMA QuietSteps ==
  ASSUME IInv, NEW t \in Procs, NEW p \in Pages \ TextPages,
         \/ LoadWait(t) \/ UnloadWait(t) \/ PinPresent(t) \/ LoadedShared(t) \/ UnmapWrite(t)
         \/ \E s \in Slots : TakeSlot(t, s)
         \/ \E f \in Frames : Choose(t, f)
         \/ \E q \in Pages : Map(t, q) \/ PageFault(t, q) \/ Pin(t, q) \/ Unmap(t, q) \/ Unpin(t, q)
  PROVE  View(p)' = View(p)
<1>0. TypeOK /\ Places
  BY DEF IInv
<1>a. Owner[p] \in Procs
  OBVIOUS
<1> USE <1>0, <1>a DEF TypeOK, Places, PlaceOf
<1>1. ASSUME LoadWait(t)
      PROVE  View(p)' = View(p)
  <2>1. UNCHANGED <<frameOf, swapSlot, frameData, file, swap>>
    BY <1>1 DEF LoadWait
  <2>2. (Unsaved(p)' <=> Unsaved(p)) /\ (Unsaved(p) => fr'[Owner[p]] = fr[Owner[p]])
    BY <1>1 DEF LoadWait, Goto, Unsaved, Doing
  <2>3. Arriving(p)' <=> Arriving(p)
    BY <1>1 DEF LoadWait, Goto, Arriving, Doing
  <2> QED BY <2>1, <2>2, <2>3, QuietView
<1>2. ASSUME UnloadWait(t)
      PROVE  View(p)' = View(p)
  <2>1. UNCHANGED <<frameOf, swapSlot, frameData, file, swap>>
    BY <1>2 DEF UnloadWait
  <2>2. (Unsaved(p)' <=> Unsaved(p)) /\ (Unsaved(p) => fr'[Owner[p]] = fr[Owner[p]])
    BY <1>2 DEF UnloadWait, Goto, Unsaved, Doing
  <2>3. Arriving(p)' <=> Arriving(p)
    BY <1>2 DEF UnloadWait, Goto, Arriving, Doing
  <2> QED BY <2>1, <2>2, <2>3, QuietView
<1>3. ASSUME PinPresent(t)
      PROVE  View(p)' = View(p)
  <2>1. UNCHANGED <<frameOf, swapSlot, frameData, file, swap>>
    BY <1>3 DEF PinPresent
  <2>2. (Unsaved(p)' <=> Unsaved(p)) /\ (Unsaved(p) => fr'[Owner[p]] = fr[Owner[p]])
    BY <1>3 DEF PinPresent, Goto, EndCall, Unsaved, Doing
  <2>3. Arriving(p)' <=> Arriving(p)
    BY <1>3 DEF PinPresent, Goto, EndCall, Arriving, Doing
  <2> QED BY <2>1, <2>2, <2>3, QuietView
<1>4. ASSUME LoadedShared(t)
      PROVE  View(p)' = View(p)
  <2>1. UNCHANGED <<frameOf, swapSlot, frameData, file, swap>>
    BY <1>4 DEF LoadedShared
  <2>2. (Unsaved(p)' <=> Unsaved(p)) /\ (Unsaved(p) => fr'[Owner[p]] = fr[Owner[p]])
    BY <1>4 DEF LoadedShared, Goto, EndCall, KeepCount, Unsaved, Doing
  <2>3. Arriving(p)' <=> Arriving(p)
    BY <1>4 DEF LoadedShared, Goto, EndCall, KeepCount, Arriving, Doing
  <2> QED BY <2>1, <2>2, <2>3, QuietView
<1>5. ASSUME UnmapWrite(t)
      PROVE  View(p)' = View(p)
  <2>1. UNCHANGED <<frameOf, swapSlot, frameData, file, swap>>
    BY <1>5 DEF UnmapWrite, Unmapped
  <2>2. (Unsaved(p)' <=> Unsaved(p)) /\ (Unsaved(p) => fr'[Owner[p]] = fr[Owner[p]])
    BY <1>5 DEF UnmapWrite, Unmapped, Goto, Unsaved, Doing
  <2>3. Arriving(p)' <=> Arriving(p)
    BY <1>5 DEF UnmapWrite, Unmapped, Goto, Arriving, Doing
  <2> QED BY <2>1, <2>2, <2>3, QuietView
<1>6. ASSUME NEW s \in Slots, TakeSlot(t, s)
      PROVE  View(p)' = View(p)
  <2>1. UNCHANGED <<frameOf, swapSlot, frameData, file, swap>>
    BY <1>6 DEF TakeSlot
  <2>2. (Unsaved(p)' <=> Unsaved(p)) /\ (Unsaved(p) => fr'[Owner[p]] = fr[Owner[p]])
    BY <1>6 DEF TakeSlot, Goto, Unsaved, Doing
  <2>3. Arriving(p)' <=> Arriving(p)
    BY <1>6 DEF TakeSlot, Goto, Arriving, Doing
  <2> QED BY <2>1, <2>2, <2>3, QuietView
<1>7. ASSUME NEW f \in Frames, Choose(t, f)
      PROVE  View(p)' = View(p)
  <2>1. UNCHANGED <<frameOf, swapSlot, frameData, file, swap>>
    BY <1>7 DEF Choose
  <2>2. (Unsaved(p)' <=> Unsaved(p)) /\ (Unsaved(p) => fr'[Owner[p]] = fr[Owner[p]])
    BY <1>7 DEF Choose, NeedsFrame, Goto, Unsaved, Doing
  <2>3. Arriving(p)' <=> Arriving(p)
    BY <1>7 DEF Choose, NeedsFrame, Goto, Arriving, Doing
  <2> QED BY <2>1, <2>2, <2>3, QuietView
<1>8. ASSUME NEW q \in Pages, Map(t, q)
      PROVE  View(p)' = View(p)
  <2>1. UNCHANGED <<frameOf, swapSlot, frameData, file, swap>>
    BY <1>8 DEF Map
  <2>2. (Unsaved(p)' <=> Unsaved(p)) /\ (Unsaved(p) => fr'[Owner[p]] = fr[Owner[p]])
    BY <1>8 DEF Map, Unsaved, Doing
  <2>3. Arriving(p)' <=> Arriving(p)
    BY <1>8 DEF Map, Arriving, Doing
  <2> QED BY <2>1, <2>2, <2>3, QuietView
<1>9. ASSUME NEW q \in Pages, PageFault(t, q)
      PROVE  View(p)' = View(p)
  <2>1. UNCHANGED <<frameOf, swapSlot, frameData, file, swap>>
    BY <1>9 DEF PageFault, Call
  <2>2. (Unsaved(p)' <=> Unsaved(p)) /\ (Unsaved(p) => fr'[Owner[p]] = fr[Owner[p]])
    BY <1>9 DEF PageFault, Call, Goto, Unsaved, Doing
  <2>3. Arriving(p)' <=> Arriving(p)
    BY <1>9 DEF PageFault, Call, Goto, Arriving, Doing
  <2> QED BY <2>1, <2>2, <2>3, QuietView
<1>10. ASSUME NEW q \in Pages, Pin(t, q)
      PROVE  View(p)' = View(p)
  <2>1. UNCHANGED <<frameOf, swapSlot, frameData, file, swap>>
    BY <1>10 DEF Pin, Call
  <2>2. (Unsaved(p)' <=> Unsaved(p)) /\ (Unsaved(p) => fr'[Owner[p]] = fr[Owner[p]])
    BY <1>10 DEF Pin, Call, Goto, Unsaved, Doing
  <2>3. Arriving(p)' <=> Arriving(p)
    BY <1>10 DEF Pin, Call, Goto, Arriving, Doing
  <2> QED BY <2>1, <2>2, <2>3, QuietView
<1>11. ASSUME NEW q \in Pages, Unmap(t, q)
      PROVE  View(p)' = View(p)
  <2>1. UNCHANGED <<frameOf, swapSlot, frameData, file, swap>>
    BY <1>11 DEF Unmap, Call
  <2>2. (Unsaved(p)' <=> Unsaved(p)) /\ (Unsaved(p) => fr'[Owner[p]] = fr[Owner[p]])
    BY <1>11 DEF Unmap, Call, Goto, Unsaved, Doing
  <2>3. Arriving(p)' <=> Arriving(p)
    BY <1>11 DEF Unmap, Call, Goto, Arriving, Doing
  <2> QED BY <2>1, <2>2, <2>3, QuietView
<1>12. ASSUME NEW q \in Pages, Unpin(t, q)
      PROVE  View(p)' = View(p)
  <2>1. UNCHANGED <<frameOf, swapSlot, frameData, file, swap>>
    BY <1>12 DEF Unpin
  <2>2. (Unsaved(p)' <=> Unsaved(p)) /\ (Unsaved(p) => fr'[Owner[p]] = fr[Owner[p]])
    BY <1>12 DEF Unpin, Goto, Unsaved, Doing
  <2>3. Arriving(p)' <=> Arriving(p)
    BY <1>12 DEF Unpin, Goto, Arriving, Doing
  <2> QED BY <2>1, <2>2, <2>3, QuietView
<1> QED BY <1>1, <1>2, <1>3, <1>4, <1>5, <1>6, <1>7, <1>8, <1>9, <1>10, <1>11, <1>12

\* What page p contains is elsewhere, or not, but the same.
LEMMA PointView ==
  ASSUME NEW p \in Pages, Unsaved(p)' <=> Unsaved(p), Arriving(p)' <=> Arriving(p), frameOf'[p] = frameOf[p],
         Unsaved(p) => frameData'[fr'[Owner[p]]] = frameData[fr[Owner[p]]],
         frameOf[p] # NULL /\ ~Arriving(p) => frameData'[frameOf[p]] = frameData[frameOf[p]],
         Below(p)' = Below(p)
  PROVE  View(p)' = View(p)
BY DEF View

\* A step of process t for another page than p.
LEMMA OtherPage ==
  ASSUME TypeOK, NEW t \in Procs, at'[t] \in {at[t], NULL},
         \A u \in Procs \ {t} : at'[u] = at[u] /\ fr'[u] = fr[u]
                                /\ (pc'[u] = pc[u] \/ {pc[u], pc'[u]} \subseteq {"load", "unload", "waitLoad", "waitUnload"}),
         NEW p \in Pages \ TextPages, p # at[t], p \in dirty' <=> p \in dirty
  PROVE  /\ Unsaved(p)' <=> Unsaved(p)
         /\ Arriving(p)' <=> Arriving(p)
         /\ Unsaved(p) => Owner[p] \in Procs \ {t} /\ fr'[Owner[p]] = fr[Owner[p]]
<1>1. Owner[p] \in Procs /\ p # NULL
  OBVIOUS
<1>2. CASE Owner[p] = t
  BY <1>1, <1>2 DEF Unsaved, Arriving, Doing
<1>3. CASE Owner[p] # t
  BY <1>1, <1>3 DEF Unsaved, Arriving, Doing
<1> QED BY <1>2, <1>3

\* A frame that is unloaded is not on the clock, and not in the pool.
LEMMA UnsavedFrame ==
  ASSUME IInv, NEW p \in Pages, Unsaved(p)
  PROVE  /\ fr[Owner[p]] \in Frames \ (pool \cup Range(clock))
         /\ frameOf[p] = NULL /\ ~Arriving(p)
<1>1. TypeOK /\ Places /\ FramePlaces
  BY DEF IInv
<1>2. Owner[p] \in Procs /\ pc[Owner[p]] = "release" /\ at[Owner[p]] = p /\ p \notin TextPages
  BY DEF Unsaved, Doing
<1> QED BY <1>1, <1>2 DEF FramePlaces, Places, PlaceOf, TypeOK, Arriving, Doing

\* Pages in a frame that is used.
LEMMA FrameUsed ==
  ASSUME IInv, NEW p \in Pages, frameOf[p] # NULL
  PROVE  frameOf[p] \in Frames /\ frameOf[p] \in Range(clock) /\ frameOf[p] \notin pool
BY DEF IInv, TypeOK, FramesAccounted, PagesOn

LEMMA ShareView ==
  ASSUME IInv, NEW t \in Procs, ShareWait(t) \/ ShareNow(t), NEW p \in Pages \ TextPages
  PROVE  View(p)' = View(p)
<1>0. TypeOK
  BY DEF IInv
<1>1. /\ UNCHANGED <<swapSlot, frameData, file, swap>> /\ dirty' = dirty \ {at[t]}
      /\ frameOf' = [frameOf EXCEPT ![at[t]] = roFrame] /\ at[t] \in TextPages
      /\ at'[t] \in {at[t], NULL}
      /\ \A u \in Procs \ {t} : at'[u] = at[u] /\ pc'[u] = pc[u] /\ fr'[u] = fr[u]
  BY <1>0 DEF ShareWait, ShareNow, MapPage, Goto, EndCall, TypeOK
<1>2. p # at[t] /\ frameOf'[p] = frameOf[p]
  BY <1>0, <1>1 DEF TypeOK
<1>3. /\ Unsaved(p)' <=> Unsaved(p)
      /\ Arriving(p)' <=> Arriving(p)
      /\ Unsaved(p) => Owner[p] \in Procs \ {t} /\ fr'[Owner[p]] = fr[Owner[p]]
  BY <1>0, <1>1, <1>2, OtherPage
<1>4. Below(p)' = Below(p)
  BY <1>1 DEF Below, Source
<1> QED BY <1>1, <1>2, <1>3, <1>4, PointView

LEMMA LoadDoneView ==
  ASSUME IInv, NEW t \in Procs, NEW f \in Frames, LoadDone(t, f), NEW p \in Pages \ TextPages
  PROVE  View(p)' = View(p)
<1>0. TypeOK /\ Places
  BY DEF IInv
<1>1. UNCHANGED <<frameOf, swapSlot, frameData, file, swap, dirty>>
  BY DEF LoadDone
<1>2. pc[t] = "finish" /\ pc'[t] = "run" /\ at'[t] = NULL /\ Wakes(t, f)
  BY LoadDoneFor DEF LoadDone
<1>3. PICK u \in Procs : u = Owner[p]
  OBVIOUS
<1>4. CASE u = t
  <2>1. ~Unsaved(p) /\ ~Unsaved(p)' /\ ~Arriving(p) /\ ~Arriving(p)'
    BY <1>2, <1>3, <1>4 DEF Unsaved, Arriving, Doing
  <2> QED BY <1>1, <2>1, QuietView
<1>5. CASE u # t
  <2>1. at'[u] = at[u] /\ fr'[u] = fr[u]
    BY <1>0, <1>5 DEF LoadDone, EndCall, TypeOK
  <2>2. \/ pc'[u] = pc[u]
        \/ pc[u] = "waitLoad" /\ pc'[u] = "load" /\ frameOf[at[u]] = f
        \/ pc[u] = "waitShared" /\ pc'[u] = "shared" /\ frameOf[at[u]] = f
        \/ pc[u] = "waitUnload" /\ pc'[u] = "unload" /\ frameOf[at[u]] = f
    BY <1>0, <1>2, <1>5, WakesMeans
  <2>3. (Unsaved(p)' <=> Unsaved(p)) /\ (Arriving(p)' <=> Arriving(p))
    BY <1>1, <1>3, <2>1, <2>2 DEF Unsaved, Arriving, Doing
  <2> QED BY <1>1, <1>3, <2>1, <2>3, QuietView
<1> QED BY <1>4, <1>5

LEMMA ReadView ==
  ASSUME IInv, NEW t \in Procs, Read(t), NEW p \in Pages \ TextPages
  PROVE  View(p)' = View(p)
<1>0. TypeOK /\ Places /\ FramesSeparate /\ SlotsAccounted
  BY DEF IInv
<1>1. /\ pc[t] = "read" /\ UNCHANGED <<frameOf, dirty, file, at, fr>>
      /\ pc'[t] = "finish" /\ \A u \in Procs \ {t} : pc'[u] = pc[u]
  BY <1>0 DEF Read, Goto, TypeOK
<1>2. at[t] \in Pages /\ Owner[at[t]] = t
  BY <1>0, <1>1, OwnPages
<1>3. PICK a \in Pages : a = at[t]
  BY <1>2
<1>4. PICK f \in Frames : f = frameOf[a]
  BY <1>0, <1>1, <1>3 DEF Places, PlaceOf, TypeOK
<1>5. /\ frameData'[f] = Below(a) /\ \A g \in Frames \ {f} : frameData'[g] = frameData[g]
      /\ \A q \in Pages \ {a} : swapSlot'[q] = swapSlot[q]
      /\ \A s \in Slots : s # swapSlot[a] => swap'[s] = swap[s]
  BY <1>0, <1>3, <1>4 DEF Read, FreeSlot, Below, TypeOK
<1>6. CASE p = a
  <2>1. Arriving(a) /\ ~Unsaved(a) /\ ~Arriving(a)' /\ ~Unsaved(a)'
    BY <1>1, <1>2, <1>3 DEF Arriving, Unsaved, Doing
  <2>2. View(a) = Below(a)
    BY <2>1 DEF View
  <2>3. View(a)' = frameData'[f]
    BY <1>1, <1>4, <2>1 DEF View
  <2> QED BY <1>5, <1>6, <2>2, <2>3
<1>7. CASE p # a
  <2>1. /\ Unsaved(p)' <=> Unsaved(p)
        /\ Arriving(p)' <=> Arriving(p)
    BY <1>0, <1>1, <1>3, <1>7, OtherPage
  <2>2. Below(p)' = Below(p)
    <3>1. swapSlot[p] # NULL => swapSlot[p] \in Slots /\ swapSlot[p] # swapSlot[a]
      BY <1>0, <1>7 DEF SlotsAccounted, SwappedOut, TypeOK
    <3> QED BY <1>1, <1>5, <1>7, <3>1 DEF Below, Source
  <2>3. Unsaved(p) => frameData'[fr[Owner[p]]] = frameData[fr[Owner[p]]]
    <3>1. f \in Range(clock)
      BY <1>4, FrameUsed
    <3> QED BY <1>5, <3>1, UnsavedFrame
  <2>4. frameOf[p] # NULL => frameData'[frameOf[p]] = frameData[frameOf[p]]
    BY <1>0, <1>4, <1>5, <1>7 DEF FramesSeparate, TypeOK
  <2> QED BY <1>1, <2>1, <2>2, <2>3, <2>4, PointView
<1> QED BY <1>6, <1>7

LEMMA UnmapCleanView ==
  ASSUME IInv, NEW t \in Procs, UnmapClean(t), NEW p \in Pages \ TextPages
  PROVE  View(p)' = View(p)
<1>0. TypeOK /\ Places /\ FramesSeparate /\ DataPlaces /\ LocksCounted
  BY DEF IInv
<1>1. /\ UNCHANGED <<frameData, swapSlot, file, swap, at, fr>> /\ dirty' = {q \in dirty : frameOf[q] # fr[t]}
      /\ pc[t] = "unmap" /\ ~sawDirty[t]
      /\ \A q \in dirty \cap MapPages : frameOf[q] # fr[t]
      /\ \E q \in Pages : frameOf[q] = fr[t] /\ q \notin SwapPages
  BY DEF UnmapClean, Unmapped
<1>2. /\ fr[t] \in Frames /\ lockCnt[fr[t]] = 0
      /\ pc'[t] = "clean" /\ \A u \in Procs \ {t} : pc'[u] = pc[u]
      /\ \A q \in Pages : frameOf'[q] = IF frameOf[q] = fr[t] THEN NULL ELSE frameOf[q]
  BY EmptiedFor
<1>3. PICK f \in Frames : f = fr[t]
  BY <1>2
<1>4. Arriving(p)' <=> Arriving(p)
  BY <1>1, <1>2 DEF Arriving, Doing
<1>5. CASE frameOf[p] # f
  <2>1. (Unsaved(p)' <=> Unsaved(p)) /\ frameOf'[p] = frameOf[p] /\ (Below(p)' = Below(p))
    BY <1>1, <1>2, <1>3, <1>5 DEF Unsaved, Doing, Below, Source
  <2> QED BY <1>1, <1>4, <2>1, PointView
<1>6. CASE frameOf[p] = f
  <2>1. p \in MapPages /\ p \notin dirty
    <3>1. PICK q \in Pages : frameOf[q] = fr[t] /\ q \notin SwapPages
      BY <1>1
    <3>2. q = p
      BY <1>0, <1>2, <1>3, <1>6, <3>1 DEF FramesSeparate
    <3>3. p \in MapPages
      BY <3>1, <3>2 DEF Pages, SwapPages
    <3> QED BY <1>1, <1>3, <1>6, <3>3
  <2>2. ~Arriving(p) /\ ~Unsaved(p) /\ ~Unsaved(p)'
    <3>1. \A u \in Procs : ~(pc[u] \in Fetching /\ frameOf[at[u]] = f) /\ ~(pc[u] \in Sharers /\ frameOf[at[u]] = f)
      BY <1>0, <1>2, <1>3, LockZero
    <3> QED BY <1>1, <1>6, <2>1, <3>1 DEF Arriving, Unsaved, Doing
  <2>3. f \notin Saving
    BY <1>0, <1>2, <1>3, LockZero DEF Saving
  <2>4. frameData[f] = file[p]
    BY <1>0, <1>6, <2>1, <2>2, <2>3 DEF DataPlaces, Arriving, Doing
  <2>5. Below(p)' = file[p]
    <3>1. swapSlot[p] = NULL
      BY <2>1, PlainPages
    <3> QED BY <1>1, <2>1, <3>1 DEF Below, Source
  <2>6. View(p) = frameData[f] /\ View(p)' = Below(p)'
    BY <1>2, <1>3, <1>4, <1>6, <2>2 DEF View
  <2> QED BY <2>4, <2>5, <2>6
<1> QED BY <1>5, <1>6

LEMMA WriteToFileView ==
  ASSUME IInv, NEW t \in Procs, WriteToFile(t), NEW p \in Pages \ TextPages
  PROVE  View(p)' = View(p)
<1>0. TypeOK /\ Places /\ Handling
  BY DEF IInv
<1>1. /\ UNCHANGED <<frameOf, frameData, swapSlot, swap, at, fr, dirty>> /\ pc[t] = "write"
      /\ file' = [q \in MapPages |-> IF frameOf[q] = fr[t] THEN frameData[fr[t]] ELSE file[q]]
      /\ pc'[t] = "written" /\ \A u \in Procs \ {t} : pc'[u] = pc[u]
  BY <1>0 DEF WriteToFile, Goto, TypeOK
<1>2. (Arriving(p)' <=> Arriving(p)) /\ (Unsaved(p)' <=> Unsaved(p))
  BY <1>1 DEF Arriving, Unsaved, Doing
<1>3. CASE p \in MapPages /\ frameOf[p] = fr[t]
  <2>1. ~Arriving(p)
    <3> SUFFICES ASSUME Arriving(p)
                 PROVE  FALSE
      OBVIOUS
    <3>1. PICK u \in Procs : u = Owner[p]
      OBVIOUS
    <3>2. pc[u] = "read" /\ at[u] = p
      BY <1>0, <1>3, <3>1 DEF Arriving, Doing, Places, PlaceOf
    <3>3. Hand(u) = fr[t] /\ Hand(t) = fr[t]
      BY <1>1, <1>3, <3>2 DEF Hand
    <3> QED BY <1>0, <1>1, <3>2, <3>3 DEF Handling
  <2>2. fr[t] # NULL
    BY <1>0, <1>1 DEF Places, PlaceOf
  <2> QED BY <1>1, <1>2, <1>3, <2>1, <2>2 DEF View
<1>4. CASE ~(p \in MapPages /\ frameOf[p] = fr[t])
  <2>1. Below(p)' = Below(p)
    BY <1>0, <1>1, <1>4 DEF Below, Source, TypeOK
  <2> QED BY <1>1, <1>2, <2>1, PointView
<1> QED BY <1>3, <1>4

LEMMA FlipSlotView ==
  ASSUME IInv, NEW t \in Procs, FlipSlot(t), NEW p \in Pages \ TextPages
  PROVE  View(p)' = View(p)
<1>0. TypeOK /\ Places /\ SlotsAccounted
  BY DEF IInv
<1>1. /\ UNCHANGED <<frameOf, frameData, swapSlot, file, at, fr, dirty>> /\ pc[t] = "flip"
      /\ slot[t] \notin swapMap /\ \A s \in Slots \ {slot[t]} : swap'[s] = swap[s]
      /\ pc'[t] = "written" /\ \A u \in Procs \ {t} : pc'[u] = pc[u]
  BY <1>0 DEF FlipSlot, Goto, TypeOK
<1>2. (Arriving(p)' <=> Arriving(p)) /\ (Unsaved(p)' <=> Unsaved(p))
  BY <1>1 DEF Arriving, Unsaved, Doing
<1>3. swapSlot[p] # NULL => swapSlot[p] \in swapMap /\ swapSlot[p] \in Slots
  BY <1>0 DEF SlotsAccounted, SwappedOut, TypeOK
<1>4. Below(p)' = Below(p)
  BY <1>1, <1>3 DEF Below, Source
<1> QED BY <1>1, <1>2, <1>4, PointView

LEMMA InstalledView ==
  ASSUME IInv, NEW t \in Procs, NEW f \in Frames, InstallLoad(t, f) \/ InstallZero(t, f), NEW p \in Pages \ TextPages
  PROVE  View(p)' = View(p)
<1>0. TypeOK /\ Places /\ Handling /\ DataPlaces /\ Presence
  BY DEF IInv
<1>1. /\ UNCHANGED <<file, swap>> /\ dirty' = dirty \ {at[t]} /\ frameData' = [frameData EXCEPT ![f] = Zero]
      /\ swapSlot' = [q \in Pages |-> IF frameOf[q] = f /\ q \in SwapPages THEN slot[t] ELSE swapSlot[q]]
      /\ at'[t] \in {at[t], NULL} /\ Takes(t, f)
      /\ pc'[t] = (IF InstallLoad(t, f) THEN "read" ELSE "run")
      /\ InstallLoad(t, f) => at'[t] = at[t]
      /\ ~InstallLoad(t, f) => at[t] \in ZeroPages /\ swapSlot[at[t]] = NULL
  BY <1>0 DEF InstallLoad, InstallZero, Installed, EndCall, TypeOK
<1>2. /\ at[t] \in Pages /\ Owner[at[t]] = t /\ pc[t] \in {"load", "clean", "written"} /\ frameOf[at[t]] = NULL
      /\ \A q \in Pages : frameOf[q] = f => pc[t] = "written" /\ q \notin TextPages \cup present
      /\ \A u \in Procs \ {t} : pc[u] \in Fetching \cup Evicting => Hand(u) # f
      /\ f \in pool \/ f \in Range(clock)
      /\ pc[t] = "written" => f = fr[t]
  BY <1>1, Taken DEF Takes, NeedsFrame
<1>3. PICK a \in Pages : a = at[t]
  BY <1>2
<1>4. frameOf'[a] = f /\ \A q \in Pages \ {a} : frameOf'[q] = IF frameOf[q] = f THEN NULL ELSE frameOf[q]
  BY <1>3, InstalledFor
<1>5. frameData'[f] = Zero /\ \A g \in Frames \ {f} : frameData'[g] = frameData[g]
  BY <1>0, <1>1 DEF TypeOK
<1>6. CASE p = a
  <2>1. ~Unsaved(a) /\ ~Unsaved(a)' /\ ~Arriving(a) /\ (Arriving(a)' <=> InstallLoad(t, f))
    BY <1>1, <1>2, <1>3 DEF Unsaved, Arriving, Doing
  <2>2. swapSlot'[a] = swapSlot[a]
    BY <1>1, <1>2, <1>3
  <2>3. Below(a)' = Below(a) /\ View(a) = Below(a)
    BY <1>1, <1>2, <1>3, <2>1, <2>2 DEF Below, Source, View
  <2>4. ~InstallLoad(t, f) => Below(a) = Zero
    BY <1>1, <1>3 DEF Below, Source, SwapPages
  <2>5. View(a)' = IF InstallLoad(t, f) THEN Below(a)' ELSE frameData'[f]
    BY <1>4, <2>1 DEF View
  <2> QED BY <1>5, <1>6, <2>3, <2>4, <2>5
<1>7. CASE p # a
  <2>1. /\ Unsaved(p)' <=> Unsaved(p)
        /\ Arriving(p)' <=> Arriving(p)
        /\ Unsaved(p) => Owner[p] \in Procs \ {t} /\ fr'[Owner[p]] = fr[Owner[p]]
    <3>1. \A u \in Procs \ {t} : at'[u] = at[u] /\ fr'[u] = fr[u]
            /\ (pc'[u] = pc[u] \/ {pc[u], pc'[u]} \subseteq {"load", "unload", "waitLoad", "waitUnload"})
      BY InstalledFor
    <3>2. p \in dirty' <=> p \in dirty
      BY <1>1, <1>3, <1>7
    <3> QED BY <1>0, <1>1, <1>3, <1>7, <3>1, <3>2, OtherPage
  <2>2. CASE frameOf[p] = f
    <3>1. pc[t] = "written" /\ f = fr[t] /\ p \notin present
      BY <1>2, <2>2
    <3>2. ~Arriving(p) /\ ~Unsaved(p)
      <4>1. ~Arriving(p)
        <5> SUFFICES ASSUME Arriving(p)
                     PROVE  FALSE
          OBVIOUS
        <5>1. PICK u \in Procs : u = Owner[p]
          OBVIOUS
        <5>2. pc[u] = "read" /\ at[u] = p
          BY <1>0, <5>1 DEF Arriving, Doing, Places, PlaceOf
        <5>3. Hand(u) = f /\ u # t
          BY <2>2, <3>1, <5>2 DEF Hand
        <5> QED BY <1>2, <5>2, <5>3
      <4>2. ~Unsaved(p)
        BY <2>2, UnsavedFrame
      <4> QED BY <4>1, <4>2
    <3>3. View(p) = frameData[f] /\ View(p)' = Below(p)'
      BY <1>4, <1>7, <2>1, <2>2, <3>2 DEF View
    <3>4. CASE p \in SwapPages
      <4>1. slot[t] # NULL
        BY <1>0, <2>2, <3>1, <3>4 DEF Handling
      <4>2. swap[slot[t]] = frameData[f]
        BY <1>0, <3>1, <4>1 DEF DataPlaces
      <4>3. swapSlot'[p] = slot[t]
        BY <1>1, <2>2, <3>4
      <4> QED BY <1>1, <3>3, <4>1, <4>2, <4>3 DEF Below
    <3>5. CASE p \notin SwapPages
      <4>1. p \in MapPages
        BY <3>5 DEF Pages, SwapPages
      <4>2. swapSlot'[p] = NULL
        BY <1>1, <3>5, <4>1, PlainPages
      <4>3. Below(p)' = file[p]
        BY <1>1, <4>1, <4>2 DEF Below, Source
      <4>4. f \notin Saving
        <5> SUFFICES ASSUME NEW u \in Procs, pc[u] = "write", fr[u] = f
                     PROVE  FALSE
          BY DEF Saving
        <5>1. u # t /\ Hand(u) = f
          BY <3>1 DEF Hand
        <5> QED BY <1>2, <5>1
      <4>5. p \notin dirty
        BY <1>0, <2>2, <3>1, <3>2, <4>1 DEF Presence, Unsaved, Doing
      <4>6. frameData[f] = file[p]
        BY <1>0, <2>2, <3>2, <4>1, <4>4, <4>5 DEF DataPlaces, Arriving, Doing
      <4> QED BY <3>3, <4>3, <4>6
    <3> QED BY <3>4, <3>5
  <2>3. CASE frameOf[p] # f
    <3>1. Below(p)' = Below(p)
      BY <1>1, <2>3 DEF Below, Source
    <3>2. frameOf'[p] = frameOf[p]
      BY <1>4, <1>7, <2>3
    <3>3. Unsaved(p) => frameData'[fr'[Owner[p]]] = frameData[fr[Owner[p]]]
      BY <1>2, <1>5, <2>1, UnsavedFrame
    <3>4. frameOf[p] # NULL => frameData'[frameOf[p]] = frameData[frameOf[p]]
      BY <1>0, <1>5, <2>3 DEF TypeOK
    <3> QED BY <2>1, <3>1, <3>2, <3>3, <3>4, PointView
  <2> QED BY <2>2, <2>3
<1> QED BY <1>6, <1>7

LEMMA DetachView ==
  ASSUME IInv, NEW t \in Procs, Detach(t), NEW p \in Pages \ TextPages
  PROVE  /\ p # at[t] => View(p)' = View(p)
         /\ p = at[t] /\ p \in MapPages => View(p)' = View(p)
<1>0. TypeOK /\ Places /\ DataPlaces /\ SlotPlaces
  BY DEF IInv
<1>1. UNCHANGED <<frameData, swapSlot, file, swap, dirty, at>>
  BY DEF Detach
<1>2. PICK f \in Frames : f = frameOf[at[t]]
  BY DetachedFor
<1>3. /\ at[t] \in Pages /\ Owner[at[t]] = t
      /\ frameOf'[at[t]] = NULL /\ \A q \in Pages \ {at[t]} : frameOf'[q] = frameOf[q]
      /\ pc[t] = "unload" /\ pc'[t] = "release" /\ fr'[t] = f
      /\ \A u \in Procs \ {t} : pc'[u] = pc[u] /\ fr'[u] = fr[u]
      /\ \A u \in Procs : pc[u] \in Sending => fr[u] # f
  BY <1>2, DetachedFor
<1>4. ASSUME p # at[t]
      PROVE  View(p)' = View(p)
  <2>1. /\ Unsaved(p)' <=> Unsaved(p)
        /\ Arriving(p)' <=> Arriving(p)
        /\ Unsaved(p) => Owner[p] \in Procs \ {t} /\ fr'[Owner[p]] = fr[Owner[p]]
    BY <1>0, <1>1, <1>3, <1>4, OtherPage
  <2>2. Below(p)' = Below(p)
    BY <1>1 DEF Below, Source
  <2> QED BY <1>1, <1>3, <1>4, <2>1, <2>2, PointView
<1>5. ASSUME p = at[t], p \in MapPages
      PROVE  View(p)' = View(p)
  <2>1. ~Unsaved(p) /\ ~Arriving(p) /\ ~Arriving(p)' /\ (Unsaved(p)' <=> p \in dirty)
    BY <1>1, <1>3, <1>5 DEF Unsaved, Arriving, Doing
  <2>2. View(p) = frameData[f] /\ frameOf[p] = f
    BY <1>2, <1>5, <2>1 DEF View
  <2>3. CASE p \in dirty
    BY <1>1, <1>3, <1>5, <2>1, <2>2, <2>3 DEF View
  <2>4. CASE p \notin dirty
    <3>1. View(p)' = Below(p)'
      BY <1>3, <1>5, <2>1, <2>4 DEF View
    <3>2. Below(p)' = file[p]
      <4>1. swapSlot[p] = NULL
        BY <1>5, PlainPages
      <4> QED BY <1>1, <1>5, <4>1 DEF Below, Source
    <3>3. f \notin Saving
      BY <1>3 DEF Saving
    <3>4. frameData[f] = file[p]
      BY <1>0, <1>5, <2>1, <2>2, <2>4, <3>3 DEF DataPlaces, Arriving, Doing
    <3> QED BY <2>2, <3>1, <3>2, <3>4
  <2> QED BY <2>3, <2>4
<1> QED BY <1>4, <1>5

LEMMA ReleaseView ==
  ASSUME IInv, NEW t \in Procs, ReleaseLast(t) \/ ReleaseShared(t), NEW p \in Pages \ TextPages
  PROVE  View(p)' = View(p)
<1>0. TypeOK /\ Places /\ FramePlaces /\ SlotPlaces
  BY DEF IInv
<1>1. /\ UNCHANGED <<frameOf, swapSlot, swap>> /\ dirty' = dirty \ {at[t]} /\ pc[t] = "release"
  BY DEF ReleaseLast, ReleaseShared
<1>2. PICK f \in Frames : f = fr[t]
  BY <1>0, <1>1 DEF Places, PlaceOf, TypeOK
<1>3. /\ pc'[t] = "run" /\ at'[t] = NULL
      /\ \A u \in Procs \ {t} : pc'[u] = pc[u] /\ at'[u] = at[u] /\ fr'[u] = fr[u]
  BY <1>0 DEF ReleaseLast, ReleaseShared, EndCall, Goto, TypeOK
<1>4. at[t] \in Pages /\ Owner[at[t]] = t /\ frameOf[at[t]] = NULL
  BY <1>0, <1>1, OwnPages DEF Places, PlaceOf
<1>5. p # at[t] => /\ Unsaved(p)' <=> Unsaved(p)
                   /\ Arriving(p)' <=> Arriving(p)
                   /\ Unsaved(p) => Owner[p] \in Procs \ {t} /\ fr'[Owner[p]] = fr[Owner[p]]
  BY <1>0, <1>1, <1>3, OtherPage
<1>6. CASE ReleaseShared(t)
  <2>1. UNCHANGED <<frameData, file>>
    BY <1>6 DEF ReleaseShared
  <2>2. p # at[t]
    <3>1. PICK q \in Pages : frameOf[q] = f
      BY <1>2, <1>6 DEF ReleaseShared
    <3>2. f \in Range(clock)
      BY <3>1, FrameUsed
    <3> QED BY <1>0, <1>1, <1>2, <3>2 DEF FramePlaces
  <2>3. Below(p)' = Below(p)
    BY <1>1, <2>1 DEF Below, Source
  <2> QED BY <1>1, <1>5, <2>1, <2>2, <2>3, PointView
<1>7. CASE ReleaseLast(t)
  <2>1. /\ file' = FileSaved(t) /\ frameData' = [frameData EXCEPT ![f] = Zero]
        /\ \A q \in Pages : frameOf[q] # f
        /\ \A u \in Procs \ {t} : pc[u] = "release" => fr[u] # f
    BY <1>2, <1>7 DEF ReleaseLast
  <2>2. \A g \in Frames \ {f} : frameData'[g] = frameData[g]
    BY <1>0, <2>1 DEF TypeOK
  <2>3. CASE p = at[t]
    <3>1. /\ Unsaved(p) <=> p \in MapPages /\ p \in dirty
          /\ ~Unsaved(p)' /\ ~Arriving(p)'
      BY <1>1, <1>3, <1>4, <2>3 DEF Unsaved, Arriving, Doing
    <3>2. swapSlot[p] = NULL
      BY <1>0, <1>1, <1>4, <2>3 DEF SlotPlaces, Doing
    <3>3. View(p)' = IF p \in MapPages THEN file'[p] ELSE Zero
      BY <1>1, <1>4, <2>3, <3>1, <3>2 DEF View, Below, Source
    <3>4. View(p) = IF Unsaved(p) THEN frameData[f] ELSE IF p \in MapPages THEN file[p] ELSE Zero
      BY <1>2, <1>4, <2>3, <3>2 DEF View, Below, Source
    <3>5. p \in MapPages => file'[p] = IF p \in dirty THEN frameData[f] ELSE file[p]
      BY <1>0, <1>2, <2>1, <2>3 DEF FileSaved, TypeOK
    <3> QED BY <3>1, <3>3, <3>4, <3>5
  <2>4. CASE p # at[t]
    <3>1. Below(p)' = Below(p)
      <4>1. p \in MapPages => file'[p] = file[p]
        BY <1>0, <2>1, <2>4 DEF FileSaved, TypeOK
      <4> QED BY <1>1, <4>1 DEF Below, Source
    <3>2. Unsaved(p) => frameData'[fr'[Owner[p]]] = frameData[fr[Owner[p]]]
      <4>1. Unsaved(p) => pc[Owner[p]] = "release"
        BY DEF Unsaved, Doing
      <4> QED BY <1>5, <2>1, <2>2, <2>4, <4>1, UnsavedFrame
    <3>3. frameOf[p] # NULL => frameData'[frameOf[p]] = frameData[frameOf[p]]
      BY <1>0, <2>1, <2>2 DEF TypeOK
    <3> QED BY <1>1, <1>5, <2>4, <3>1, <3>2, <3>3, PointView
  <2> QED BY <2>3, <2>4
<1> QED BY <1>6, <1>7

LEMMA DropPageView ==
  ASSUME IInv, NEW t \in Procs, DropPage(t), NEW p \in Pages \ TextPages
  PROVE  /\ p # at[t] => View(p)' = View(p)
         /\ p = at[t] /\ p \in MapPages => View(p)' = View(p)
<1>0. TypeOK /\ Places /\ SlotsAccounted
  BY DEF IInv
<1>1. /\ UNCHANGED <<frameOf, frameData, file, dirty>> /\ pc[t] = "unload" /\ frameOf[at[t]] = NULL
  BY DEF DropPage
<1>2. /\ pc'[t] = "run" /\ at'[t] = NULL
      /\ \A u \in Procs \ {t} : pc'[u] = pc[u] /\ at'[u] = at[u] /\ fr'[u] = fr[u]
  BY <1>0 DEF DropPage, EndCall, Goto, TypeOK
<1>3. at[t] \in Pages /\ Owner[at[t]] = t
  BY <1>0, <1>1, OwnPages
<1>4. /\ swapSlot'[at[t]] = NULL /\ \A q \in Pages \ {at[t]} : swapSlot'[q] = swapSlot[q]
      /\ \A s \in Slots : s # swapSlot[at[t]] => swap'[s] = swap[s]
  BY <1>0, <1>3 DEF DropPage, FreeSlot, TypeOK
<1>5. ASSUME p # at[t]
      PROVE  View(p)' = View(p)
  <2>1. /\ Unsaved(p)' <=> Unsaved(p)
        /\ Arriving(p)' <=> Arriving(p)
        /\ Unsaved(p) => Owner[p] \in Procs \ {t} /\ fr'[Owner[p]] = fr[Owner[p]]
    BY <1>0, <1>1, <1>2, <1>5, OtherPage
  <2>2. swapSlot[p] # NULL => swapSlot[p] \in Slots /\ swapSlot[p] # swapSlot[at[t]]
    BY <1>0, <1>3, <1>5 DEF SlotsAccounted, SwappedOut, TypeOK
  <2>3. Below(p)' = Below(p)
    BY <1>1, <1>4, <1>5, <2>2 DEF Below, Source
  <2> QED BY <1>1, <2>1, <2>3, PointView
<1>6. ASSUME p = at[t], p \in MapPages
      PROVE  View(p)' = View(p)
  <2>1. ~Unsaved(p) /\ ~Unsaved(p)'
    BY <1>1, <1>2, <1>3, <1>6 DEF Unsaved, Doing
  <2>2. swapSlot[p] = NULL
    BY <1>6, PlainPages
  <2> QED BY <1>1, <1>4, <1>6, <2>1, <2>2 DEF View, Below, Source
<1> QED BY <1>5, <1>6

\* A process writes to one page of its own.
LEMMA AccessView ==
  ASSUME IInv, NEW t \in Procs, NEW a \in Pages, Access(t, a) \/ CopyToPinned(t, a), NEW p \in Pages \ TextPages
  PROVE  \/ \A q \in Pages \ TextPages : View(q)' = View(q)
         \/ /\ a \in present \ TextPages /\ View(a)' \in Values
            /\ p # a => View(p)' = View(p)
<1>0. TypeOK /\ Places /\ FramesSeparate /\ PinnedStay
  BY DEF IInv
<1>1. UNCHANGED <<frameOf, swapSlot, file, swap, at, fr, pc>> /\ pc[t] = "run" /\ Owner[a] = t
  BY <1>0 DEF Access, CopyToPinned, Places, PlaceOf
<1>2. \A q \in Pages : (Arriving(q)' <=> Arriving(q)) /\ (q \in dirty' <=> q \in dirty) => (Unsaved(q)' <=> Unsaved(q))
  BY <1>1 DEF Unsaved, Doing
<1>3. \A q \in Pages : (Arriving(q)' <=> Arriving(q)) /\ Below(q)' = Below(q)
  BY <1>1 DEF Arriving, Doing, Below, Source
<1>4. CASE UNCHANGED <<dirty, frameData>>
  <2>1. ASSUME NEW q \in Pages
        PROVE  View(q)' = View(q)
    BY <1>1, <1>2, <1>3, <1>4, PointView
  <2> QED BY <2>1
<1>5. CASE ~UNCHANGED <<dirty, frameData>>
  <2>1. /\ a \in present /\ a \notin TextPages
        /\ dirty' = dirty \cup {a} /\ \E v \in Values : frameData' = [frameData EXCEPT ![frameOf[a]] = v]
    BY <1>0, <1>5 DEF Access, CopyToPinned, PinnedStay
  <2>2. PICK f \in Frames : f = frameOf[a] /\ f \in Range(clock)
    BY <1>0, <2>1, RangeContains DEF FramesSeparate, TypeOK
  <2>3. frameData'[f] \in Values /\ \A g \in Frames \ {f} : frameData'[g] = frameData[g]
    BY <1>0, <2>1, <2>2 DEF TypeOK
  <2>4. ~Unsaved(a)' /\ ~Arriving(a)'
    BY <1>1 DEF Unsaved, Arriving, Doing
  <2>5. View(a)' \in Values
    <3>1. View(a)' = frameData'[f]
      BY <1>1, <2>2, <2>4 DEF View
    <3> QED BY <2>3, <3>1
  <2>6. ASSUME p # a
        PROVE  View(p)' = View(p)
    <3>1. Unsaved(p)' <=> Unsaved(p)
      BY <1>2, <1>3, <2>1, <2>6
    <3>2. Unsaved(p) => frameData'[fr[Owner[p]]] = frameData[fr[Owner[p]]]
      BY <2>2, <2>3, UnsavedFrame
    <3>3. frameOf[p] # NULL => frameData'[frameOf[p]] = frameData[frameOf[p]]
      BY <1>0, <2>2, <2>3, <2>6 DEF FramesSeparate, TypeOK
    <3> QED BY <1>1, <1>3, <3>1, <3>2, <3>3, PointView
  <2> QED BY <2>1, <2>5, <2>6
<1> QED BY <1>4, <1>5

\* A page is part of the memory of its process until its unmapping takes it out
\* of its frame, or finds that it has none.
LEMMA LivePages ==
  ASSUME IInv
  PROVE  Live = {p \in Pages : p \in mapped /\ ~Doing(p, {"release"})}
BY DEF IInv, TypeOK, Live, Doing

LEMMA LiveNext ==
  ASSUME IInv'
  PROVE  Live' = {p \in Pages : p \in mapped' /\ ~Doing(p, {"release"})'}
<1>1. mapped' \subseteq Pages
  BY DEF IInv, TypeOK
<1>2. \A p \in Pages : Doing(p, {"release"})' <=> (pc'[Owner[p]] = "release" /\ at'[Owner[p]] = p)
  BY DEF Doing
<1> QED BY <1>1, <1>2 DEF Live

\* Most steps neither begin nor end the release of a frame.
LEMMA QuietLive ==
  ASSUME IInv, IInv', NEW t \in Procs,
         \/ LoadWait(t) \/ UnloadWait(t) \/ PinPresent(t) \/ ShareWait(t) \/ ShareNow(t) \/ LoadedShared(t)
         \/ Read(t) \/ UnmapWrite(t) \/ UnmapClean(t) \/ WriteToFile(t) \/ FlipSlot(t)
         \/ \E s \in Slots : TakeSlot(t, s)
         \/ \E f \in Frames : Choose(t, f) \/ LoadDone(t, f) \/ InstallLoad(t, f) \/ InstallZero(t, f)
         \/ \E q \in Pages : Access(t, q) \/ CopyToPinned(t, q) \/ PageFault(t, q) \/ Pin(t, q) \/ Unmap(t, q)
                             \/ Unpin(t, q)
  PROVE  Live' = Live
<1>0. TypeOK
  BY DEF IInv
<1> DEFINE Quiet(u) == (pc[u] = "release" \/ pc'[u] = "release") => pc'[u] = pc[u] /\ at'[u] = at[u]
<1>z. SUFFICES mapped' = mapped /\ \A u \in Procs : Quiet(u)
  <2>1. ASSUME mapped' = mapped, \A u \in Procs : Quiet(u), NEW p \in Pages
        PROVE  Doing(p, {"release"})' <=> Doing(p, {"release"})
    <3>1. PICK u \in Procs : u = Owner[p]
      OBVIOUS
    <3> QED BY <2>1, <3>1 DEF Doing
  <2> QED BY <2>1, LivePages, LiveNext
<1>1. ASSUME LoadWait(t)
      PROVE  mapped' = mapped /\ \A u \in Procs : Quiet(u)
  BY <1>0, <1>1 DEF LoadWait, Goto, TypeOK
<1>2. ASSUME UnloadWait(t)
      PROVE  mapped' = mapped /\ \A u \in Procs : Quiet(u)
  BY <1>0, <1>2 DEF UnloadWait, Goto, TypeOK
<1>3. ASSUME PinPresent(t)
      PROVE  mapped' = mapped /\ \A u \in Procs : Quiet(u)
  BY <1>0, <1>3 DEF PinPresent, Goto, EndCall, TypeOK
<1>4. ASSUME ShareWait(t)
      PROVE  mapped' = mapped /\ \A u \in Procs : Quiet(u)
  BY <1>0, <1>4 DEF ShareWait, Goto, MapPage, TypeOK
<1>5. ASSUME ShareNow(t)
      PROVE  mapped' = mapped /\ \A u \in Procs : Quiet(u)
  BY <1>0, <1>5 DEF ShareNow, Goto, EndCall, MapPage, KeepCount, TypeOK
<1>6. ASSUME LoadedShared(t)
      PROVE  mapped' = mapped /\ \A u \in Procs : Quiet(u)
  BY <1>0, <1>6 DEF LoadedShared, Goto, EndCall, KeepCount, TypeOK
<1>7. ASSUME Read(t)
      PROVE  mapped' = mapped /\ \A u \in Procs : Quiet(u)
  BY <1>0, <1>7 DEF Read, Goto, FreeSlot, Source, TypeOK
<1>8. ASSUME UnmapWrite(t)
      PROVE  mapped' = mapped /\ \A u \in Procs : Quiet(u)
  BY <1>0, <1>8 DEF UnmapWrite, Unmapped, Goto, TypeOK
<1>9. ASSUME UnmapClean(t)
      PROVE  mapped' = mapped /\ \A u \in Procs : Quiet(u)
  BY <1>0, <1>9 DEF UnmapClean, Unmapped, Goto, TypeOK
<1>10. ASSUME WriteToFile(t)
      PROVE  mapped' = mapped /\ \A u \in Procs : Quiet(u)
  BY <1>0, <1>10 DEF WriteToFile, Goto, TypeOK
<1>11. ASSUME FlipSlot(t)
      PROVE  mapped' = mapped /\ \A u \in Procs : Quiet(u)
  BY <1>0, <1>11 DEF FlipSlot, Goto, TypeOK
<1>12. ASSUME NEW s \in Slots, TakeSlot(t, s)
      PROVE  mapped' = mapped /\ \A u \in Procs : Quiet(u)
  BY <1>0, <1>12 DEF TakeSlot, Goto, TypeOK
<1>13. ASSUME NEW f \in Frames, Choose(t, f)
      PROVE  mapped' = mapped /\ \A u \in Procs : Quiet(u)
  BY <1>0, <1>13 DEF Choose, NeedsFrame, Goto, TypeOK
<1>14. ASSUME NEW f \in Frames, LoadDone(t, f)
      PROVE  mapped' = mapped /\ \A u \in Procs : Quiet(u)
  <2>1. mapped' = mapped
    BY <1>14 DEF LoadDone
  <2>2. pc[t] # "release" /\ pc'[t] # "release"
    BY <1>14 DEF LoadDone
  <2>3. ASSUME NEW u \in Procs \ {t}
        PROVE  Quiet(u)
    <3>1. at'[u] = at[u]
      BY <1>0, <1>14 DEF LoadDone, EndCall, TypeOK
    <3>2. Wakes(t, f)
      BY <1>14 DEF LoadDone
    <3>3. \/ pc'[u] = pc[u]
          \/ pc[u] = "waitLoad" /\ pc'[u] = "load" /\ frameOf[at[u]] = f
          \/ pc[u] = "waitShared" /\ pc'[u] = "shared" /\ frameOf[at[u]] = f
          \/ pc[u] = "waitUnload" /\ pc'[u] = "unload" /\ frameOf[at[u]] = f
      BY <1>0, <3>2, WakesMeans
    <3> QED BY <3>1, <3>3
  <2> QED BY <2>1, <2>2, <2>3
<1>15. ASSUME NEW f \in Frames, InstallLoad(t, f)
      PROVE  mapped' = mapped /\ \A u \in Procs : Quiet(u)
  <2>1. mapped' = mapped
    BY <1>15 DEF InstallLoad, Installed
  <2>2. pc[t] # "release" /\ pc'[t] # "release"
    BY <1>15 DEF InstallLoad, Installed, Takes, NeedsFrame
  <2>3. ASSUME NEW u \in Procs \ {t}
        PROVE  Quiet(u)
    <3>1. at'[u] = at[u]
      BY <1>0, <1>15 DEF InstallLoad, Installed, TypeOK
    <3>2. Wakes(t, f)
      BY <1>15 DEF InstallLoad, Installed
    <3>3. \/ pc'[u] = pc[u]
          \/ pc[u] = "waitLoad" /\ pc'[u] = "load" /\ frameOf[at[u]] = f
          \/ pc[u] = "waitShared" /\ pc'[u] = "shared" /\ frameOf[at[u]] = f
          \/ pc[u] = "waitUnload" /\ pc'[u] = "unload" /\ frameOf[at[u]] = f
      BY <1>0, <3>2, WakesMeans
    <3> QED BY <3>1, <3>3
  <2> QED BY <2>1, <2>2, <2>3
<1>16. ASSUME NEW f \in Frames, InstallZero(t, f)
      PROVE  mapped' = mapped /\ \A u \in Procs : Quiet(u)
  <2>1. mapped' = mapped
    BY <1>16 DEF InstallZero, Installed
  <2>2. pc[t] # "release" /\ pc'[t] # "release"
    BY <1>16 DEF InstallZero, Installed, Takes, NeedsFrame
  <2>3. ASSUME NEW u \in Procs \ {t}
        PROVE  Quiet(u)
    <3>1. at'[u] = at[u]
      BY <1>0, <1>16 DEF InstallZero, Installed, EndCall, TypeOK
    <3>2. Wakes(t, f)
      BY <1>16 DEF InstallZero, Installed
    <3>3. \/ pc'[u] = pc[u]
          \/ pc[u] = "waitLoad" /\ pc'[u] = "load" /\ frameOf[at[u]] = f
          \/ pc[u] = "waitShared" /\ pc'[u] = "shared" /\ frameOf[at[u]] = f
          \/ pc[u] = "waitUnload" /\ pc'[u] = "unload" /\ frameOf[at[u]] = f
      BY <1>0, <3>2, WakesMeans
    <3> QED BY <3>1, <3>3
  <2> QED BY <2>1, <2>2, <2>3
<1>17. ASSUME NEW q \in Pages, Access(t, q)
      PROVE  mapped' = mapped /\ \A u \in Procs : Quiet(u)
  BY <1>0, <1>17 DEF Access, TypeOK
<1>18. ASSUME NEW q \in Pages, CopyToPinned(t, q)
      PROVE  mapped' = mapped /\ \A u \in Procs : Quiet(u)
  BY <1>0, <1>18 DEF CopyToPinned, TypeOK
<1>19. ASSUME NEW q \in Pages, PageFault(t, q)
      PROVE  mapped' = mapped /\ \A u \in Procs : Quiet(u)
  BY <1>0, <1>19 DEF PageFault, Call, Goto, TypeOK
<1>20. ASSUME NEW q \in Pages, Pin(t, q)
      PROVE  mapped' = mapped /\ \A u \in Procs : Quiet(u)
  BY <1>0, <1>20 DEF Pin, Call, Goto, TypeOK
<1>21. ASSUME NEW q \in Pages, Unmap(t, q)
      PROVE  mapped' = mapped /\ \A u \in Procs : Quiet(u)
  BY <1>0, <1>21 DEF Unmap, Call, Goto, TypeOK
<1>22. ASSUME NEW q \in Pages, Unpin(t, q)
      PROVE  mapped' = mapped /\ \A u \in Procs : Quiet(u)
  BY <1>0, <1>22 DEF Unpin, Goto, TypeOK
<1> QED BY <1>1, <1>2, <1>3, <1>4, <1>5, <1>6, <1>7, <1>8, <1>9, <1>10, <1>11, <1>12, <1>13,
  <1>14, <1>15, <1>16, <1>17, <1>18, <1>19, <1>20, <1>21, <1>22

LEMMA LiveChanges ==
  ASSUME IInv, IInv', NEW t \in Procs
  PROVE  /\ Detach(t) \/ DropPage(t) => at[t] \in Pages /\ at[t] \in Live /\ Live' = Live \ {at[t]}
         /\ ReleaseLast(t) \/ ReleaseShared(t) => Live' = Live
         /\ \A q \in Pages : Map(t, q) => q \notin Live /\ Live' = Live \cup {q}
<1>0. TypeOK /\ Places
  BY DEF IInv
<1>1. ASSUME Detach(t)
      PROVE  at[t] \in Pages /\ at[t] \in Live /\ Live' = Live \ {at[t]}
  <2>1. /\ UNCHANGED <<mapped, at>> /\ pc[t] = "unload" /\ pc'[t] = "release"
        /\ \A u \in Procs \ {t} : pc'[u] = pc[u]
    BY <1>0, <1>1 DEF Detach, Goto, TypeOK
  <2>2. PICK a \in Pages : a = at[t] /\ Owner[a] = t /\ a \in mapped
    BY <1>0, <2>1, OwnPages
  <2>3. ASSUME NEW p \in Pages
        PROVE  Doing(p, {"release"})' <=> Doing(p, {"release"}) \/ p = a
    <3>1. PICK u \in Procs : u = Owner[p]
      OBVIOUS
    <3> QED BY <2>1, <2>2, <3>1 DEF Doing
  <2>4. ~Doing(a, {"release"})
    BY <2>1, <2>2 DEF Doing
  <2> QED BY <2>1, <2>2, <2>3, <2>4, LivePages, LiveNext
<1>2. ASSUME DropPage(t)
      PROVE  at[t] \in Pages /\ at[t] \in Live /\ Live' = Live \ {at[t]}
  <2>1. /\ mapped' = mapped \ {at[t]} /\ pc[t] = "unload" /\ pc'[t] = "run"
        /\ \A u \in Procs \ {t} : pc'[u] = pc[u] /\ at'[u] = at[u]
    BY <1>0, <1>2 DEF DropPage, EndCall, Goto, TypeOK
  <2>2. PICK a \in Pages : a = at[t] /\ Owner[a] = t /\ a \in mapped
    BY <1>0, <2>1, OwnPages
  <2>3. ASSUME NEW p \in Pages
        PROVE  Doing(p, {"release"})' <=> Doing(p, {"release"})
    <3>1. PICK u \in Procs : u = Owner[p]
      OBVIOUS
    <3> QED BY <2>1, <2>2, <3>1 DEF Doing
  <2>4. ~Doing(a, {"release"})
    BY <2>1, <2>2 DEF Doing
  <2> QED BY <2>1, <2>2, <2>3, <2>4, LivePages, LiveNext
<1>3. ASSUME ReleaseLast(t) \/ ReleaseShared(t)
      PROVE  Live' = Live
  <2>1. /\ mapped' = mapped \ {at[t]} /\ pc[t] = "release" /\ pc'[t] = "run"
        /\ \A u \in Procs \ {t} : pc'[u] = pc[u] /\ at'[u] = at[u]
    BY <1>0, <1>3 DEF ReleaseLast, ReleaseShared, EndCall, Goto, TypeOK
  <2>2. PICK a \in Pages : a = at[t] /\ Owner[a] = t
    BY <1>0, <2>1, OwnPages
  <2>3. ASSUME NEW p \in Pages
        PROVE  Doing(p, {"release"})' <=> Doing(p, {"release"}) /\ p # a
    <3>1. PICK u \in Procs : u = Owner[p]
      OBVIOUS
    <3> QED BY <2>1, <2>2, <3>1 DEF Doing
  <2>4. Doing(a, {"release"})
    BY <2>1, <2>2 DEF Doing
  <2>5. ASSUME NEW p \in Pages
        PROVE  p \in mapped' /\ ~Doing(p, {"release"})' <=> p \in mapped /\ ~Doing(p, {"release"})
    <3>1. p \in mapped' <=> p \in mapped /\ p # a
      BY <2>1, <2>2
    <3> QED BY <2>3, <2>4, <3>1
  <2> QED BY <2>5, LivePages, LiveNext
<1>4. ASSUME NEW q \in Pages, Map(t, q)
      PROVE  q \notin Live /\ Live' = Live \cup {q}
  <2>1. mapped' = mapped \cup {q} /\ q \notin mapped /\ UNCHANGED <<pc, at>> /\ pc[t] = "run" /\ Owner[q] = t
    BY <1>4 DEF Map
  <2>2. \A p \in Pages : Doing(p, {"release"})' <=> Doing(p, {"release"})
    BY <2>1 DEF Doing
  <2>3. ~Doing(q, {"release"})
    BY <2>1 DEF Doing
  <2> QED BY <2>1, <2>2, <2>3, LivePages, LiveNext
<1> QED BY <1>1, <1>2, <1>3, <1>4

\* Processes only ever see what processes, or the executable, wrote.
LEMMA ViewValues ==
  ASSUME IInv', NEW p \in Pages
  PROVE  View(p)' \in Values \cup {Text}
<1>0. TypeOK' /\ DataPlaces' /\ Places'
  BY DEF IInv
<1>1. CASE p \in TextPages
  BY <1>1, PlainPagesNext
<1>2. CASE p \notin TextPages
  <2>1. Unsaved(p)' => frameData'[fr'[Owner[p]]] \in Values
    BY <1>0 DEF Unsaved, DataPlaces
  <2>2. frameOf'[p] # NULL => frameData'[frameOf'[p]] \in Values
    BY <1>0, <1>2 DEF DataPlaces
  <2>3. Below(p)' \in Values
    BY <1>0, <1>2 DEF Below, Source, TypeOK
  <2> QED BY <2>1, <2>2, <2>3 DEF View
<1> QED BY <1>1, <1>2

\* What each branch does to the memory of the processes.
LEMMA StepPrivate ==
  ASSUME IInv, IInv', NEW t \in Procs, GoodStep(t)
  PROVE  UM!Next \/ UNCHANGED <<Memory, Live>>
<1>0. Places /\ Places' /\ Memory = [p \in Pages |-> View(p)] /\ Memory' = [p \in Pages |-> View(p)']
  BY ViewNow, ViewNext DEF IInv
<1>1. \A p \in TextPages : View(p)' = View(p)
  <2>1. \A p \in TextPages : p \in Pages
    BY DEF Pages
  <2> QED BY <2>1, TextView, PlainPagesNext
<1>2. ASSUME \A p \in Pages \ TextPages : View(p)' = View(p)
      PROVE  Memory' = Memory
  BY <1>0, <1>1, <1>2
<1>3. CASE Detach(t) \/ DropPage(t)
  <2>1. PICK a \in Pages : a = at[t] /\ a \in Live /\ Live' = Live \ {a}
    BY <1>3, LiveChanges
  <2>2. \A p \in Pages \ TextPages : p # a => View(p)' = View(p)
    BY <1>3, <2>1, DetachView, DropPageView
  <2>3. a \in MapPages => View(a)' = View(a)
    <3>1. a \in MapPages => a \notin TextPages
      OBVIOUS
    <3> QED BY <1>3, <2>1, <3>1, DetachView, DropPageView
  <2>4. PICK v \in Values \cup {Text} : v = View(a)'
    BY ViewValues
  <2>5. Memory' = [Memory EXCEPT ![a] = IF a \in MapPages THEN @ ELSE v]
    <3>1. \A p \in Pages : p # a => View(p)' = View(p)
      BY <1>1, <2>2
    <3> QED BY <1>0, <2>3, <2>4, <3>1
  <2>6. UM!Unmap(a, v)
    BY <2>1, <2>5 DEF UM!Unmap, Memory, Live
  <2> QED BY <2>4, <2>6 DEF UM!Next
<1>4. CASE \E q \in Pages : Map(t, q)
  <2>1. PICK q \in Pages : Map(t, q)
    BY <1>4
  <2>2. q \notin Live /\ Live' = Live \cup {q}
    BY <2>1, LiveChanges
  <2>3. \A p \in Pages \ TextPages : View(p)' = View(p)
    BY <2>1, QuietSteps
  <2>4. Memory' = Memory
    BY <1>2, <2>3
  <2>5. UM!Map(q)
    BY <2>2, <2>4 DEF UM!Map, Memory, Live
  <2> QED BY <2>5 DEF UM!Next
<1>5. CASE \E q \in Pages : Access(t, q) \/ CopyToPinned(t, q)
  <2>1. PICK a \in Pages : Access(t, a) \/ CopyToPinned(t, a)
    BY <1>5
  <2>2. Live' = Live
    BY <2>1, QuietLive
  <2>3. CASE \A q \in Pages \ TextPages : View(q)' = View(q)
    BY <1>2, <2>2, <2>3
  <2>4. CASE ~\A q \in Pages \ TextPages : View(q)' = View(q)
    <3>1. a \in present \ TextPages /\ View(a)' \in Values
      BY <2>1, <2>4, AccessView
    <3>2. \A p \in Pages \ TextPages : p # a => View(p)' = View(p)
      BY <2>1, <2>4, AccessView
    <3>3. PICK v \in Values : v = View(a)'
      BY <3>1
    <3>4. Memory' = [Memory EXCEPT ![a] = v]
      <4>1. \A p \in Pages : p # a => View(p)' = View(p)
        BY <1>1, <3>2
      <4> QED BY <1>0, <3>3, <4>1
    <3>5. a \in Live
      <4>1. a \in mapped
        BY <3>1 DEF IInv, TypeOK
      <4>2. ~Doing(a, {"release"})
        <5>1. PICK u \in Procs : u = Owner[a]
          OBVIOUS
        <5>2. pc[u] # "release"
          <6>1. pc[t] = "run" /\ (Access(t, a) => Owner[a] = t) /\ (CopyToPinned(t, a) => a \in pins[t])
            BY <2>1 DEF Access, CopyToPinned
          <6>2. u = t
            BY <1>0, <2>1, <5>1, <6>1 DEF Places, PlaceOf
          <6> QED BY <6>1, <6>2
        <5> QED BY <5>1, <5>2 DEF Doing
      <4> QED BY <4>1, <4>2, LivePages
    <3>6. UM!Write(a, v)
      BY <2>2, <3>1, <3>4, <3>5 DEF UM!Write, Memory, Live
    <3> QED BY <3>3, <3>6 DEF UM!Next
  <2> QED BY <2>3, <2>4
<1>6. CASE ReleaseLast(t) \/ ReleaseShared(t)
  <2>1. \A p \in Pages \ TextPages : View(p)' = View(p)
    BY <1>6, ReleaseView
  <2> QED BY <1>2, <1>6, <2>1, LiveChanges
<1>7. CASE \/ LoadWait(t) \/ UnloadWait(t) \/ PinPresent(t) \/ LoadedShared(t) \/ UnmapWrite(t)
           \/ \E s \in Slots : TakeSlot(t, s)
           \/ \E f \in Frames : Choose(t, f)
           \/ \E q \in Pages : PageFault(t, q) \/ Pin(t, q) \/ Unmap(t, q) \/ Unpin(t, q)
  <2>1. \A p \in Pages \ TextPages : View(p)' = View(p)
    BY <1>7, QuietSteps
  <2>2. Live' = Live
    BY <1>7, QuietLive
  <2> QED BY <1>2, <2>1, <2>2
<1>8. CASE \/ ShareWait(t) \/ ShareNow(t) \/ Read(t) \/ UnmapClean(t) \/ WriteToFile(t) \/ FlipSlot(t)
           \/ \E f \in Frames : LoadDone(t, f) \/ InstallLoad(t, f) \/ InstallZero(t, f)
  <2>1. \A p \in Pages \ TextPages : View(p)' = View(p)
    BY <1>8, ShareView, ReadView, UnmapCleanView, WriteToFileView, FlipSlotView, LoadDoneView, InstalledView
  <2>2. Live' = Live
    BY <1>8, QuietLive
  <2> QED BY <1>2, <2>1, <2>2
<1> QED BY <1>3, <1>4, <1>5, <1>6, <1>7, <1>8 DEF GoodStep, UserStep

\* When nothing but the harm done changes, the memory does not.
LEMMA StutterPrivate ==
  ASSUME UNCHANGED memory
  PROVE  UNCHANGED <<Memory, Live>>
<1>1. Live' = Live
  BY DEF memory, Live
<1>2. ASSUME NEW p \in Pages
      PROVE  Contents(p)' = Contents(p)
  BY DEF memory, Contents, Source
<1> QED BY <1>1, <1>2 DEF Memory

\* The frame table, the swap device and the page fault handler implement the
\* private memory of UserMemory: however frames are filled, evicted, shared,
\* written back and freed, a page changes only when its process writes to it.
THEOREM Privacy == Spec => PagesArePrivate
<1>1. Init => UM!Init
  <2> SUFFICES ASSUME Init PROVE UM!Init
    OBVIOUS
  <2>1. ASSUME NEW p \in Pages
        PROVE  Contents(p) \in Values \cup {Text}
    <3>1. IInv
      BY InvInit
    <3>2. Contents(p) = View(p)
      BY <3>1, ViewNow DEF IInv, Memory
    <3>3. View(p) = Source(p)
      BY DEF Init, View, Below, Unsaved, Arriving, Doing
    <3> QED BY <3>2, <3>3 DEF Init, Source
  <2>2. Live \in SUBSET Pages
    BY DEF Init, Live
  <2> QED BY <2>1, <2>2 DEF UM!Init, Live
<1>2. IInv /\ IInv' /\ [Next]_vars => [UM!Next]_<<Memory, Live>>
  <2> SUFFICES ASSUME IInv, IInv', [Next]_vars PROVE UM!Next \/ UNCHANGED <<Memory, Live>>
    OBVIOUS
  <2>1. CASE UNCHANGED vars
    <3>1. UNCHANGED memory
      BY <2>1 DEF vars, memory
    <3> QED BY <3>1, StutterPrivate
  <2>2. CASE Next /\ fault' # "none"
    BY <2>2, StopStep, StutterPrivate
  <2>3. CASE Next /\ fault' = "none"
    BY <2>3, Branches, StepPrivate
  <2> QED BY <2>1, <2>2, <2>3
<1> QED BY <1>1, <1>2, Invariance, PTL DEF Spec, PagesArePrivate, UM!Spec, Memory, Live
=============================================================================
