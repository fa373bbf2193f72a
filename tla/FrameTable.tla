----------------------------- MODULE FrameTable -----------------------------
(***************************************************************************)
(* Virtual memory: vm/frametable.c with the swap map of vm/swap.c and the  *)
(* way the page fault handler, the system calls (which pin the pages of a  *)
(* buffer) and the end of a mapping use them.  All of it is protected by   *)
(* frame_lock, which is given up during I/O: a frame on its way from or to *)
(* a disk has io set.  User code that touches a present page takes no lock *)
(* at all.                                                                 *)
(***************************************************************************)
EXTENDS Lists

CONSTANTS
  Procs,      \* processes, of one thread each
  TextPages,  \* pages of one block of an executable: read from its file, not
              \* writable, in one frame for all processes
  ZeroPages,  \* stack: PAGE_TYPE_ZERO, WRITABLE_TO_SWAP
  DataPages,  \* initialized data: PAGE_TYPE_FILE, WRITABLE_TO_SWAP
  MapPages,   \* mmap: PAGE_TYPE_FILE, WRITABLE_TO_FILE
  Owner,      \* the process of each page
  Frames,     \* the pages of the user pool
  Slots,      \* page size chunks of the swap device, numbered
  Values,     \* contents of writable pages
  Zero,       \* the contents of a page that is all zeroes
  Text,       \* the contents of the executable's block
  NULL

Pages == TextPages \cup ZeroPages \cup DataPages \cup MapPages
SwapPages == ZeroPages \cup DataPages

ASSUME FrameAssumption ==
  /\ IsFiniteSet(Procs) /\ IsFiniteSet(Pages) /\ IsFiniteSet(Frames)
  /\ TextPages \cap (SwapPages \cup MapPages) = {}
  /\ ZeroPages \cap DataPages = {} /\ SwapPages \cap MapPages = {}
  /\ Owner \in [Pages -> Procs]
  /\ Slots \subseteq Nat
  /\ Zero \in Values /\ Text \notin Values
  /\ NULL \notin Frames \cup Slots \cup Pages \cup Procs

VARIABLES
  mapped,     \* pages with a page_info
  frameOf,    \* struct page_info: frame
  swapSlot,   \* struct page_info: data.swap_sector if swapped, else NULL
  present,    \* pages with PTE_P
  accessed,   \* pages with PTE_A, of those present
  dirty,      \* pages with PTE_D, while it will be looked at
  pool,       \* free pages of the user pool
  clock,      \* frame_list, from clock_hand on
  lockCnt,    \* struct frame: lock
  io,         \* struct frame: io
  roFrame,    \* read_only_frames: the frame of the executable's block, or NULL
  frameData,  \* contents of the frames
  file,       \* contents of the mapped file blocks
  swap,       \* contents of the swap device
  swapMap,    \* swap_map: slots in use
  frameLock,  \* who holds frame_lock from one step to the next
  pc,         \* where each process is
  at,         \* locals page_info
  keep,       \* parameter keep_locked
  fr,         \* locals frame
  slot,       \* local swap_sector
  sawDirty,   \* local dirty of evict_frame
  pins,       \* pages locked in memory for a system call
  fault       \* the assertion or panic that stopped the kernel, or the harm done

pageVars == <<mapped, frameOf, swapSlot>>
pteVars == <<present, accessed, dirty>>
frameVars == <<pool, clock, lockCnt, io, roFrame>>
dataVars == <<frameData, file, swap, swapMap>>
localVars == <<at, keep, fr, slot, sawDirty>>
vars == <<pageVars, pteVars, frameVars, dataVars, localVars, frameLock, pc, pins, fault>>

-----------------------------------------------------------------------------
\* page_info_list of a frame.
PagesOn(f) == {p \in Pages : frameOf[p] = f}

\* What the first load of a page finds in its file or its fresh frame.
Source(p) ==
  IF p \in TextPages THEN Text ELSE IF p \in MapPages THEN file[p] ELSE Zero

Init ==
  /\ mapped = {}
  /\ frameOf = [p \in Pages |-> NULL]
  /\ swapSlot = [p \in Pages |-> NULL]
  /\ present = {} /\ accessed = {} /\ dirty = {}
  /\ pool = Frames
  /\ clock = <<>>
  /\ lockCnt = [f \in Frames |-> 0]
  /\ io = [f \in Frames |-> FALSE]
  /\ roFrame = NULL
  /\ frameData = [f \in Frames |-> Zero]
  /\ file = [p \in MapPages |-> Zero]
  /\ swap = [s \in Slots |-> Zero]
  /\ swapMap = {}
  /\ frameLock = NULL
  /\ pc = [t \in Procs |-> "run"]
  /\ at = [t \in Procs |-> NULL]
  /\ keep = [t \in Procs |-> FALSE]
  /\ fr = [t \in Procs |-> NULL]
  /\ slot = [t \in Procs |-> NULL]
  /\ sawDirty = [t \in Procs |-> FALSE]
  /\ pins = [t \in Procs |-> {}]
  /\ fault = "none"

Goto(t, loc) == pc' = [pc EXCEPT ![t] = loc]

\* The kernel stops, or the run is of no further interest.
Stop(what) ==
  /\ fault' = what
  /\ UNCHANGED <<pageVars, pteVars, frameVars, dataVars, localVars, frameLock, pc, pins>>

\* The locals of a call are dead; a page that was to be locked in memory is.
EndCall(t) ==
  /\ at' = [at EXCEPT ![t] = NULL]
  /\ keep' = [keep EXCEPT ![t] = FALSE]
  /\ fr' = [fr EXCEPT ![t] = NULL]
  /\ slot' = [slot EXCEPT ![t] = NULL]
  /\ sawDirty' = [sawDirty EXCEPT ![t] = FALSE]
  /\ pins' = IF keep[t] THEN [pins EXCEPT ![t] = @ \cup {at[t]}] ELSE pins

\* Mutant: a page that the caller wants locked is not.
KeepCountNever(t) == 0

\* What keep_locked adds to the lock count of the frame at the end of a load.
KeepCount(t) == IF keep[t] THEN 1 ELSE 0

\* Mutant: no thread is woken.
NoneResumed(f) == pc

\* cond_broadcast of io_done of a frame: where the threads go that wait for it.
Resumed(f) ==
  [t \in Procs |->
     IF at[t] = NULL \/ frameOf[at[t]] # f THEN pc[t]
     ELSE CASE pc[t] = "waitLoad" -> "load"
            [] pc[t] = "waitShared" -> "shared"
            [] pc[t] = "waitUnload" -> "unload"
            [] OTHER -> pc[t]]

-----------------------------------------------------------------------------
(* User code, and the kernel code that brings it here.                     *)

\* A process in user mode reads or writes a page of its own that is present.
Access(t, p) ==
  /\ pc[t] = "run" /\ pins[t] = {}
  /\ Owner[p] = t /\ p \in present
  /\ accessed' = accessed \cup {p}
  /\ \/ UNCHANGED <<dirty, frameData>>
     \/ /\ p \notin TextPages
        /\ dirty' = dirty \cup {p}
        /\ \E v \in Values : frameData' = [frameData EXCEPT ![frameOf[p]] = v]
  /\ UNCHANGED <<pageVars, present, frameVars, file, swap, swapMap, localVars, frameLock, pc, pins, fault>>

\* The system call for which the page was locked copies data to it.
CopyToPinned(t, p) ==
  /\ pc[t] = "run"
  /\ p \in pins[t] \ TextPages
  /\ accessed' = accessed \cup {p}
  /\ dirty' = dirty \cup {p}
  /\ \E v \in Values : frameData' = [frameData EXCEPT ![frameOf[p]] = v]
  /\ UNCHANGED <<pageVars, present, frameVars, file, swap, swapMap, localVars, frameLock, pc, pins, fault>>

\* mmap, load_segment and maybe_grow_stack: a page_info, but no frame.
Map(t, p) ==
  /\ pc[t] = "run" /\ pins[t] = {}
  /\ Owner[p] = t /\ p \notin mapped
  /\ mapped' = mapped \cup {p}
  /\ UNCHANGED <<frameOf, swapSlot, pteVars, frameVars, dataVars, localVars, frameLock, pc, pins, fault>>

Call(t, p, loc, keepLocked) ==
  /\ Owner[p] = t /\ p \in mapped
  /\ Goto(t, loc)
  /\ at' = [at EXCEPT ![t] = p]
  /\ keep' = [keep EXCEPT ![t] = keepLocked]
  /\ UNCHANGED <<pageVars, pteVars, frameVars, dataVars, fr, slot, sawDirty, frameLock, pins, fault>>

\* page_fault.
PageFault(t, p) ==
  /\ pc[t] = "run" /\ pins[t] = {} /\ p \notin present
  /\ Call(t, p, "load", FALSE)

\* One turn of the loop of lock_buffer.
Pin(t, p) ==
  /\ pc[t] = "run" /\ p \notin pins[t]
  /\ Call(t, p, "load", TRUE)

\* munmap and pagedir_destroy.
Unmap(t, p) ==
  /\ pc[t] = "run" /\ pins[t] = {}
  /\ Call(t, p, "unload", FALSE)

\* frametable_unlock_frame, for one page after another.
Unpin(t, p) ==
  /\ pc[t] \in {"run", "unpin"}
  /\ frameLock = NULL
  /\ p \in pins[t]
  /\ lockCnt' = [lockCnt EXCEPT ![frameOf[p]] = @ - 1]
  /\ pins' = [pins EXCEPT ![t] = @ \ {p}]
  /\ Goto(t, IF pins[t] = {p} THEN "run" ELSE "unpin")
  /\ UNCHANGED <<pageVars, pteVars, pool, clock, io, roFrame, dataVars, localVars, frameLock, fault>>

-----------------------------------------------------------------------------
(* load_frame, with frame_lock.                                            *)

\* The frame of the page is being filled or emptied.
LoadWait(t) ==
  LET f == frameOf[at[t]]
  IN  /\ pc[t] = "load" /\ frameLock = NULL
      /\ f # NULL /\ io[f]
      /\ Goto(t, "waitLoad")
      /\ UNCHANGED <<pageVars, pteVars, frameVars, dataVars, localVars, frameLock, pins, fault>>

\* The page has a frame, which only a caller that locks it may find.
LoadPresent(t) ==
  LET f == frameOf[at[t]]
  IN  /\ pc[t] = "load" /\ frameLock = NULL
      /\ f # NULL /\ ~io[f]
      /\ IF keep[t]
         THEN /\ lockCnt' = [lockCnt EXCEPT ![f] = @ + 1]
              /\ Goto(t, "run")
              /\ EndCall(t)
              /\ UNCHANGED <<pageVars, pteVars, pool, clock, io, roFrame, dataVars, frameLock, fault>>
         ELSE Stop("has a frame")

\* map_page.
MapPage(p) ==
  /\ present' = present \cup {p}
  /\ dirty' = dirty \ {p}
  /\ accessed' = accessed \cup {p}

\* Another process has the block of the executable in a frame.
LoadShared(t) ==
  LET p == at[t]
      f == roFrame
  IN  /\ pc[t] = "load" /\ frameLock = NULL
      /\ frameOf[p] = NULL /\ p \in TextPages /\ f # NULL
      /\ MapPage(p)
      /\ frameOf' = [frameOf EXCEPT ![p] = f]
      /\ IF io[f]
         THEN /\ Goto(t, "waitShared")
              /\ lockCnt' = [lockCnt EXCEPT ![f] = @ + 1]
              /\ UNCHANGED <<localVars, pins>>
         ELSE /\ Goto(t, "run")
              /\ lockCnt' = [lockCnt EXCEPT ![f] = @ + KeepCount(t)]
              /\ EndCall(t)
      /\ UNCHANGED <<mapped, swapSlot, pool, clock, io, roFrame, dataVars, frameLock, fault>>

\* Its contents are there.
LoadedShared(t) ==
  /\ pc[t] = "shared" /\ frameLock = NULL
  /\ lockCnt' = [lockCnt EXCEPT ![frameOf[at[t]]] = @ - 1 + KeepCount(t)]
  /\ Goto(t, "run")
  /\ EndCall(t)
  /\ UNCHANGED <<pageVars, pteVars, pool, clock, io, roFrame, dataVars, frameLock, fault>>

NeedsFrame(t) ==
  /\ pc[t] = "load" /\ frameLock = NULL
  /\ frameOf[at[t]] = NULL
  /\ at[t] \in TextPages => roFrame = NULL

\* Mutant: the pages that frame f held stay linked to it.
FramesKept(p, f) == [frameOf EXCEPT ![p] = f]

\* Frame f has page p and no other.
FramesAfter(p, f) ==
  [q \in Pages |-> IF q = p THEN f ELSE IF frameOf[q] = f THEN NULL ELSE frameOf[q]]

\* Mutant: the lock that evict_frame took is not returned.
EvictionLockKept(written) == 0

\* The lock that evict_frame took if it wrote the frame.
EvictionLock(written) == IF written THEN 1 ELSE 0

\* The pages that frame f held go to the disk it was written to, and the page
\* to load gets the frame.  What is to be read is read without the lock; a page
\* of zeroes is ready.  written: whether f was written, so that threads wait
\* for the end of that.
Install(t, f, written) ==
  LET p    == at[t]
      load == p \notin ZeroPages \/ swapSlot[p] # NULL
  IN  /\ MapPage(p)
      /\ frameOf' = FramesAfter(p, f)
      /\ swapSlot' = [q \in Pages |-> IF frameOf[q] = f /\ q \in SwapPages THEN slot[t] ELSE swapSlot[q]]
      /\ frameData' = [frameData EXCEPT ![f] = Zero]
      /\ io' = [io EXCEPT ![f] = load]
      /\ lockCnt' = [lockCnt EXCEPT ![f] = @ - EvictionLock(written) + (IF load THEN 1 ELSE KeepCount(t))]
      /\ roFrame' = IF p \in TextPages /\ roFrame = NULL THEN f ELSE roFrame
      /\ frameLock' = NULL
      /\ pc' = [(IF written THEN Resumed(f) ELSE pc) EXCEPT ![t] = IF load THEN "read" ELSE "run"]
      /\ IF load
         THEN /\ fr' = [fr EXCEPT ![t] = NULL]
              /\ slot' = [slot EXCEPT ![t] = NULL]
              /\ sawDirty' = [sawDirty EXCEPT ![t] = FALSE]
              /\ UNCHANGED <<at, keep, pins>>
         ELSE EndCall(t)

\* allocate_frame gets a page of the pool.
LoadFresh(t) ==
  /\ NeedsFrame(t)
  /\ \E f \in pool :
       /\ pool' = pool \ {f}
       /\ clock' = Append(clock, f)
       /\ Install(t, f, FALSE)
  /\ UNCHANGED <<mapped, file, swap, swapMap, fault>>

\* Mutant: the slot of a page that is in memory again stays in use.
SlotKept(s) == UNCHANGED <<swapMap, swap>>

\* What is left in a slot that is not in use does not matter.
FreeSlot(s) ==
  /\ swapMap' = swapMap \ {s}
  /\ swap' = [r \in Slots |-> IF r = s THEN Zero ELSE swap[r]]

\* The page comes from swap, whose slot is then free, or from a file.
Read(t) ==
  LET p == at[t]
      f == frameOf[p]
      s == swapSlot[p]
  IN  /\ pc[t] = "read"
      /\ Goto(t, "finish")
      /\ frameData' = [frameData EXCEPT ![f] = IF s = NULL THEN Source(p) ELSE swap[s]]
      /\ swapSlot' = [swapSlot EXCEPT ![p] = NULL]
      /\ FreeSlot(s)
      /\ UNCHANGED <<mapped, frameOf, pteVars, frameVars, file, localVars, frameLock, pins, fault>>

\* load_frame has the lock again.
Loaded(t) ==
  LET f == frameOf[at[t]]
  IN  /\ pc[t] = "finish" /\ frameLock = NULL
      /\ lockCnt' = [lockCnt EXCEPT ![f] = @ - 1 + KeepCount(t)]
      /\ io' = [io EXCEPT ![f] = FALSE]
      /\ pc' = [Resumed(f) EXCEPT ![t] = "run"]
      /\ EndCall(t)
      /\ UNCHANGED <<pageVars, pteVars, pool, clock, roFrame, dataVars, frameLock, fault>>

-----------------------------------------------------------------------------
(* evict_frame.                                                            *)

\* Mutant: a locked frame can be evicted.
UnlockedOrNot(f) == TRUE

Unlocked(f) == lockCnt[f] = 0

\* A frame the clock hand stops at: not locked, and none of its pages accessed.
Cold(f) == Unlocked(f) /\ PagesOn(f) \cap accessed = {}

\* How many frames the clock hand passes.  When it comes round without finding a
\* cold frame it takes the frame it started from.
Swept ==
  LET cold == {i \in 1..Len(clock) : Cold(clock[i])}
  IN  IF cold = {} THEN Len(clock) ELSE CHOOSE i \in cold : \A j \in cold : i <= j

FoundCold == Cold(clock[Swept])

\* The frame to evict, and the position of the clock hand after it.
Victim == IF FoundCold THEN clock[Swept] ELSE Head(clock)
HandAfter == IF FoundCold THEN Swept ELSE 1

Rotated(s, n) == SubSeq(s, n + 1, Len(s)) \o SubSeq(s, 1, n)

\* The pool is empty: get_frame_to_evict, up to the dirty bits.  frame_lock is
\* held, but user code can still write to the pages.
Evict(t) ==
  /\ NeedsFrame(t) /\ pool = {} /\ clock # <<>>
  /\ IF Unlocked(Victim)
     THEN /\ accessed' = {p \in accessed : ~\E i \in 1..Swept : Unlocked(clock[i]) /\ frameOf[p] = clock[i]}
          /\ clock' = Rotated(clock, HandAfter)
          /\ fr' = [fr EXCEPT ![t] = Victim]
          /\ sawDirty' = [sawDirty EXCEPT ![t] = PagesOn(Victim) \cap dirty # {}]
          /\ frameLock' = t
          /\ Goto(t, "unmap")
          /\ UNCHANGED <<pageVars, present, dirty, pool, lockCnt, io, roFrame, dataVars, at, keep, slot, pins, fault>>
     ELSE Stop("no frame available")

\* ASSERT (!list_empty (&frame_list)): the frames are on their way to the pool.
EvictNothing(t) ==
  /\ NeedsFrame(t) /\ pool = {} /\ clock = <<>>
  /\ Stop("no frame available")

\* The pages of the frame become inaccessible.  If they must be written the
\* lock is released for that, else they leave the frame, which for a block of
\* the executable is in the hash table of read only frames.
EvictUnmap(t) ==
  LET f  == fr[t]
      ps == PagesOn(f)
  IN  /\ pc[t] = "unmap"
      /\ CASE ~sawDirty[t] /\ ps \cap MapPages \cap dirty # {} -> Stop("write lost")
           [] ps \subseteq TextPages /\ roFrame = NULL -> Stop("no hash entry")
           [] OTHER ->
                /\ present' = present \ ps /\ accessed' = accessed \ ps /\ dirty' = dirty \ ps
                /\ IF sawDirty[t] \/ ps \subseteq SwapPages
                   THEN /\ io' = [io EXCEPT ![f] = TRUE]
                        /\ lockCnt' = [lockCnt EXCEPT ![f] = @ + 1]
                        /\ frameLock' = NULL
                        /\ Goto(t, "write")
                        /\ UNCHANGED <<frameOf, roFrame>>
                   ELSE /\ frameOf' = [p \in Pages |-> IF p \in ps THEN NULL ELSE frameOf[p]]
                        /\ roFrame' = IF ps \subseteq TextPages THEN NULL ELSE roFrame
                        /\ Goto(t, "clean")
                        /\ UNCHANGED <<io, lockCnt, frameLock>>
                /\ UNCHANGED <<mapped, swapSlot, pool, clock, dataVars, localVars, pins, fault>>

\* file_write_at.
WriteToFile(t) ==
  /\ pc[t] = "write"
  /\ PagesOn(fr[t]) \subseteq MapPages
  /\ file' = [p \in MapPages |-> IF frameOf[p] = fr[t] THEN frameData[fr[t]] ELSE file[p]]
  /\ Goto(t, "written")
  /\ UNCHANGED <<pageVars, pteVars, frameVars, frameData, swap, swapMap, localVars, frameLock, pins, fault>>

\* bitmap_scan finds the first free slot of the swap device.
ScanSwapMap(t) ==
  LET free == Slots \ swapMap
  IN  /\ pc[t] = "write"
      /\ PagesOn(fr[t]) \subseteq SwapPages
      /\ IF free = {} THEN Stop("no swap space")
         ELSE /\ slot' = [slot EXCEPT ![t] = CHOOSE s \in free : \A r \in free : s <= r]
              /\ Goto(t, "flip")
              /\ UNCHANGED <<pageVars, pteVars, frameVars, dataVars, at, keep, fr, sawDirty, frameLock, pins, fault>>

\* bitmap_set_multiple marks it, and the page is written.  Nothing keeps
\* another thread from having found the same slot.
WriteToSwap(t) ==
  /\ pc[t] = "flip"
  /\ IF slot[t] \in swapMap THEN Stop("slot taken")
     ELSE /\ swapMap' = swapMap \cup {slot[t]}
          /\ swap' = [swap EXCEPT ![slot[t]] = frameData[fr[t]]]
          /\ Goto(t, "written")
          /\ UNCHANGED <<pageVars, pteVars, frameVars, frameData, file, localVars, frameLock, pins, fault>>

\* The end of evict_frame, and what load_frame does with the frame.
Evicted(t) ==
  /\ \/ pc[t] = "written" /\ frameLock = NULL
     \/ pc[t] = "clean"
  /\ Install(t, fr[t], pc[t] = "written")
  /\ UNCHANGED <<mapped, pool, clock, file, swap, swapMap, fault>>

-----------------------------------------------------------------------------
(* frametable_unload_frame.                                                *)

UnloadWait(t) ==
  LET f == frameOf[at[t]]
  IN  /\ pc[t] = "unload" /\ frameLock = NULL
      /\ f # NULL /\ io[f]
      /\ Goto(t, "waitUnload")
      /\ UNCHANGED <<pageVars, pteVars, frameVars, dataVars, localVars, frameLock, pins, fault>>

\* The page leaves its frame; the last page takes the frame out of the lists.
Detach(t) ==
  LET p == at[t]
      f == frameOf[p]
      last == PagesOn(f) = {p}
  IN  /\ pc[t] = "unload" /\ frameLock = NULL
      /\ f # NULL /\ ~io[f]
      /\ frameOf' = [frameOf EXCEPT ![p] = NULL]
      /\ present' = present \ {p} /\ accessed' = accessed \ {p}
      /\ clock' = IF last THEN Without(clock, f) ELSE clock
      /\ roFrame' = IF last /\ p \in TextPages THEN NULL ELSE roFrame
      /\ fr' = [fr EXCEPT ![t] = f]
      /\ Goto(t, "release")
      /\ UNCHANGED <<mapped, swapSlot, dirty, pool, lockCnt, io, dataVars, at, keep, slot, sawDirty, frameLock, pins, fault>>

\* Mutant: the list of the pages of the frame is not looked at.
EmptyAlways(f) == TRUE

Empty(f) == PagesOn(f) = {}

\* The frame is in use again, or another thread is about to free it as well.
NotToBeFreed(t) ==
  LET f == fr[t]
  IN  /\ PagesOn(f) = {}
      /\ f \in Range(clock) \/ \E u \in Procs \ {t} : pc[u] = "release" /\ fr[u] = f

\* Mutant: what the process wrote does not go to the file.
FileUnsaved(t) == file

\* The file after page at[t] has left its frame for good.
FileSaved(t) ==
  LET p == at[t]
  IN  IF p \in MapPages \cap dirty THEN [file EXCEPT ![p] = frameData[fr[t]]] ELSE file

\* The lock is released.  The thread writes to its file and frees a frame that
\* has no pages, as it finds now.
ReleaseFrame(t) ==
  LET p == at[t]
      f == fr[t]
  IN  /\ pc[t] = "release"
      /\ IF NotToBeFreed(t) THEN Stop("used after free")
         ELSE /\ IF Empty(f)
                 THEN /\ pool' = pool \cup {f}
                      /\ file' = FileSaved(t)
                      /\ frameData' = [frameData EXCEPT ![f] = Zero]
                 ELSE UNCHANGED <<pool, file, frameData>>
              /\ mapped' = mapped \ {p}
              /\ dirty' = dirty \ {p}
              /\ EndCall(t)
              /\ Goto(t, "run")
              /\ UNCHANGED <<frameOf, swapSlot, present, accessed, clock, lockCnt, io, roFrame, swap, swapMap, frameLock, fault>>

\* A page without a frame: its slot is free for others.
DropPage(t) ==
  LET p == at[t]
  IN  /\ pc[t] = "unload" /\ frameLock = NULL
      /\ frameOf[p] = NULL
      /\ FreeSlot(swapSlot[p])
      /\ swapSlot' = [swapSlot EXCEPT ![p] = NULL]
      /\ mapped' = mapped \ {p}
      /\ Goto(t, "run")
      /\ EndCall(t)
      /\ UNCHANGED <<frameOf, pteVars, frameVars, frameData, file, frameLock, fault>>

-----------------------------------------------------------------------------
LoadStep(t) ==
  \/ LoadWait(t) \/ LoadPresent(t) \/ LoadShared(t) \/ LoadedShared(t)
  \/ LoadFresh(t) \/ Read(t) \/ Loaded(t)
EvictStep(t) ==
  \/ Evict(t) \/ EvictNothing(t) \/ EvictUnmap(t)
  \/ WriteToFile(t) \/ ScanSwapMap(t) \/ WriteToSwap(t) \/ Evicted(t)
UnloadStep(t) ==
  UnloadWait(t) \/ Detach(t) \/ ReleaseFrame(t) \/ DropPage(t)
KernelStep(t) == LoadStep(t) \/ EvictStep(t) \/ UnloadStep(t)

UserStep(t, p) ==
  \/ Access(t, p) \/ CopyToPinned(t, p) \/ Map(t, p)
  \/ PageFault(t, p) \/ Pin(t, p) \/ Unmap(t, p) \/ Unpin(t, p)

\* Nothing more happens once the kernel has panicked or done harm.
Next ==
  /\ fault = "none"
  /\ \E t \in Procs : KernelStep(t) \/ \E p \in Pages : UserStep(t, p)

Spec == Init /\ [][Next]_vars

-----------------------------------------------------------------------------
(* Correctness.                                                            *)

Locs ==
  {"run", "unpin", "load", "waitLoad", "waitShared", "shared", "read", "finish", "unmap", "write",
   "flip", "written", "clean", "unload", "waitUnload", "release"}

TypeOK ==
  /\ mapped \subseteq Pages
  /\ frameOf \in [Pages -> Frames \cup {NULL}]
  /\ swapSlot \in [Pages -> Slots \cup {NULL}]
  /\ present \subseteq mapped /\ accessed \subseteq present /\ dirty \subseteq mapped
  /\ pool \subseteq Frames
  /\ clock \in Seq(Frames)
  /\ lockCnt \in [Frames -> Nat]
  /\ io \in [Frames -> BOOLEAN]
  /\ roFrame \in Frames \cup {NULL}
  /\ frameData \in [Frames -> Values \cup {Text}]
  /\ file \in [MapPages -> Values]
  /\ swap \in [Slots -> Values]
  /\ swapMap \subseteq Slots
  /\ frameLock \in Procs \cup {NULL}
  /\ pc \in [Procs -> Locs]
  /\ at \in [Procs -> Pages \cup {NULL}]
  /\ keep \in [Procs -> BOOLEAN]
  /\ fr \in [Procs -> Frames \cup {NULL}]
  /\ slot \in [Procs -> Slots \cup {NULL}]
  /\ sawDirty \in [Procs -> BOOLEAN]
  /\ pins \in [Procs -> SUBSET Pages]

\* The threads that are between two steps with frame f in their hands.
Filling(f) == {t \in Procs : pc[t] \in {"read", "finish"} /\ frameOf[at[t]] = f}
Emptying(f) == {t \in Procs : pc[t] \in {"write", "flip", "written"} /\ fr[t] = f}
Sharing(f) == {t \in Procs : pc[t] \in {"waitShared", "shared"} /\ frameOf[at[t]] = f}

\* Every frame is in the pool, on the clock or in the hands of the thread that
\* unmapped its last page: none is lost, and none is in use twice.
FramesAccounted ==
  /\ \A f \in Frames :
       \/ f \in pool /\ f \notin Range(clock) /\ PagesOn(f) = {}
       \/ f \notin pool /\ f \in Range(clock)
       \/ f \notin pool \cup Range(clock) /\ PagesOn(f) = {} /\ \E t \in Procs : pc[t] = "release" /\ fr[t] = f
  /\ \A i, j \in 1..Len(clock) : clock[i] = clock[j] => i = j

\* A frame holds the page of one process, unless it is a block of an executable,
\* and a page that the hardware finds present is in a frame on the clock.
FramesSeparate ==
  /\ \A p \in present : frameOf[p] \in Range(clock)
  /\ \A p, q \in Pages : frameOf[p] = frameOf[q] /\ frameOf[p] # NULL /\ p # q => {p, q} \subseteq TextPages

\* The lock of a frame counts the pages locked for system calls, the thread that
\* does I/O on it and those that wait to share it; io is set exactly during I/O.
\* A lock that is not returned makes the frame useless for ever.
LocksCounted ==
  \A f \in Frames :
    /\ lockCnt[f] = Cardinality({p \in PagesOn(f) : p \in pins[Owner[p]]})
                     + Cardinality(Filling(f) \cup Emptying(f)) + Cardinality(Sharing(f))
    /\ io[f] <=> Filling(f) \cup Emptying(f) # {}

\* A page that was locked for a system call stays in its frame until it is
\* unlocked: the kernel does not fault on a user's buffer.
PinnedStay ==
  \A t \in Procs : pins[t] \subseteq present

\* The slots in use are those of the pages that are swapped out and those that
\* were just written for a frame: no slot leaks, and none holds two pages.
Written == {t \in Procs : pc[t] = "written" /\ slot[t] # NULL}
SwappedOut == {p \in Pages : swapSlot[p] # NULL}
SlotsAccounted ==
  /\ swapMap = {swapSlot[p] : p \in SwappedOut} \cup {slot[t] : t \in Written}
  /\ \A p, q \in SwappedOut : swapSlot[p] = swapSlot[q] => p = q
  /\ \A t, u \in Written : slot[t] = slot[u] => t = u
  /\ \A p \in SwappedOut, t \in Written : swapSlot[p] # slot[t]

\* A thread that waits for a frame waits for I/O that has not ended: nobody
\* sleeps through the broadcast.
NoLostWait ==
  \A t \in Procs : pc[t] \in {"waitLoad", "waitShared", "waitUnload"} =>
                    frameOf[at[t]] # NULL /\ io[frameOf[at[t]]]

\* What a process will see in a page.
Contents(p) ==
  LET t == Owner[p]
      arriving == at[t] = p /\ pc[t] \in {"read", "waitShared", "shared"}
      unsaved == at[t] = p /\ pc[t] = "release" /\ p \in MapPages \cap dirty
  IN  CASE unsaved -> frameData[fr[t]]
        [] ~arriving /\ frameOf[p] # NULL -> frameData[frameOf[p]]
        [] ~unsaved /\ (frameOf[p] = NULL \/ arriving) ->
             IF swapSlot[p] # NULL THEN swap[swapSlot[p]] ELSE Source(p)

\* Pages are private memory, whatever the frame table does with them.
UM == INSTANCE UserMemory WITH
  ReadOnly <- TextPages, Persistent <- MapPages, Values <- Values \cup {Text},
  mem <- [p \in Pages |-> Contents(p)],
  mapped <- {p \in mapped : ~(pc[Owner[p]] = "release" /\ at[Owner[p]] = p)}

PagesArePrivate == UM!Spec

\* An unwritten block of an executable that is evicted is in the hash table of
\* read only frames, as evict_frame asserts (frametable.c:429).
HashEntryFound == fault # "no hash entry"

=============================================================================
