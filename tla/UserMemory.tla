----------------------------- MODULE UserMemory -----------------------------
(***************************************************************************)
(* What the frame table, the swap device and the page fault handler        *)
(* promise a user process: every mapped page is a cell that only its own   *)
(* process changes.  A page that is mapped from a file keeps its contents  *)
(* when it is unmapped, any other starts anew.                             *)
(***************************************************************************)
CONSTANTS
  Pages,      \* the pages of all processes
  ReadOnly,   \* pages that are never written
  Persistent, \* pages that are mapped from a file and written back to it
  Values      \* what can be written

VARIABLES
  mem,        \* contents of each page
  mapped      \* pages that are part of their process's address space

Init ==
  /\ mapped \in SUBSET Pages
  /\ mem \in [Pages -> Values]

Map(p) ==
  /\ p \notin mapped
  /\ mapped' = mapped \cup {p}
  /\ UNCHANGED mem

Write(p, v) ==
  /\ p \in mapped \ ReadOnly
  /\ mem' = [mem EXCEPT ![p] = v]
  /\ UNCHANGED mapped

\* Initial: what the page holds when it is mapped for the first time.
Unmap(p, initial) ==
  /\ p \in mapped
  /\ mapped' = mapped \ {p}
  /\ mem' = [mem EXCEPT ![p] = IF p \in Persistent THEN @ ELSE initial]

Next ==
  \E p \in Pages : \/ Map(p)
                   \/ \E v \in Values : Write(p, v) \/ Unmap(p, v)

Spec == Init /\ [][Next]_<<mem, mapped>>
=============================================================================
