----------------------------- MODULE SectorStore -----------------------------
(***************************************************************************)
(* What the buffer cache promises its callers (filesys/buffers.c,          *)
(* buffer_acquire and buffer_release): the disk is an array of sectors,    *)
(* each with the contents last written to it, and a sector that one caller *)
(* has acquired belongs to that caller alone until it is released.  There  *)
(* is no cache, no eviction, no read ahead and no write back.              *)
(***************************************************************************)
CONSTANTS
  Users,     \* threads that call buffer_acquire
  Sectors,   \* disk sectors
  Values,    \* sector contents
  NULL

VARIABLES
  contents,  \* the contents of each sector, as the callers see them
  holder     \* the user that has acquired the sector, or NULL

vars == <<contents, holder>>

Init ==
  /\ contents \in [Sectors -> Values]
  /\ holder = [s \in Sectors |-> NULL]

Acquire(u, s) ==
  /\ holder[s] = NULL
  /\ holder' = [holder EXCEPT ![s] = u]
  /\ UNCHANGED contents

Write(u, s, v) ==
  /\ holder[s] = u
  /\ contents' = [contents EXCEPT ![s] = v]
  /\ UNCHANGED holder

Release(u, s) ==
  /\ holder[s] = u
  /\ holder' = [holder EXCEPT ![s] = NULL]
  /\ UNCHANGED contents

Next ==
  \E u \in Users, s \in Sectors :
    \/ Acquire(u, s)
    \/ \E v \in Values : Write(u, s, v)
    \/ Release(u, s)

Spec == Init /\ [][Next]_vars
=============================================================================
