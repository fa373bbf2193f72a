--------------------------- MODULE Directory_proofs ---------------------------
(***************************************************************************)
(* For every number of processes, sectors, names and paths: the counts of  *)
(* the open inodes are right on all paths through all calls, the locks     *)
(* follow the order of the tree, no sector in use is forgotten, and the    *)
(* calls implement a tree that changes at once.                            *)
(***************************************************************************)
EXTENDS Directory, FiniteSetTheorems, SequenceTheorems, TLAPS

HasChild == {"descend", "lockChild", "remove", "closeChild"}

\* Which locals a process uses at each place of a call.
Places ==
  \A p \in Procs :
    /\ dir[p] = NULL <=> pc[p] = "run"
    /\ child[p] # NULL <=> pc[p] \in HasChild
    /\ pc[p] \in {"flip", "add"} => new[p] # NULL
    /\ new[p] # Root
    /\ path[p] = <<>> => pc[p] \in {"run", "found", "close"}
    /\ pc[p] \in {"find", "lockChild", "remove"} \/ (pc[p] = "lock" /\ op[p] = "remove") =>
         Head(path[p]) # Up
    /\ pc[p] # "run" /\ op[p] = "open" => file[p] = NULL

IInv == TypeOK /\ Places /\ RefCounts

-----------------------------------------------------------------------------
(* Counting the references.                                                *)

Is(x, s) == IF x = s THEN 1 ELSE 0

\* A count is a number, and positive if a process is counted.
LEMMA CountNat ==
  ASSUME NEW f, NEW s
  PROVE  /\ Count(f, s) \in Nat
         /\ \A p \in Procs : f[p] = s => Count(f, s) > 0
<1>1. IsFiniteSet({p \in Procs : f[p] = s})
  <2>1. {p \in Procs : f[p] = s} \subseteq Procs
    OBVIOUS
  <2> QED BY <2>1, FS_Subset, DirectoryAssumption
<1>2. ASSUME NEW p \in Procs, f[p] = s
      PROVE  Count(f, s) > 0
  <2>1. {q \in Procs : f[q] = s} # {}
    BY <1>2
  <2>2. Count(f, s) # 0
    BY <1>1, <2>1, FS_EmptySet DEF Count
  <2> QED BY <1>1, <2>2, FS_CardinalityType DEF Count
<1> QED BY <1>1, <1>2, FS_CardinalityType DEF Count

\* The count of s when the local of one process changes from another value.
LEMMA CountChange ==
  ASSUME NEW f \in [Procs -> Sectors \cup {NULL}], NEW p \in Procs, NEW g,
         g = [f EXCEPT ![p] = g[p]], NEW s
  PROVE  /\ Count(g, s) = Count(f, s) + Is(g[p], s) - Is(f[p], s)
         /\ Count(f, s) \in Nat /\ Count(g, s) \in Nat
<1> DEFINE A == {q \in Procs : f[q] = s}
           B == {q \in Procs : g[q] = s}
           C == A \ {p}
<1>1. \A q \in Procs : q # p => g[q] = f[q]
  OBVIOUS
<1>2. IsFiniteSet(A) /\ IsFiniteSet(B) /\ IsFiniteSet(C) /\ Cardinality(C) \in Nat
  <2>1. A \subseteq Procs /\ B \subseteq Procs /\ C \subseteq Procs
    OBVIOUS
  <2> QED BY <2>1, FS_Subset, FS_CardinalityType, DirectoryAssumption
<1>3. Cardinality(A) = Cardinality(C) + Is(f[p], s)
  <2>1. CASE f[p] = s
    <3>1. A = C \cup {p} /\ p \notin C
      BY <2>1
    <3>2. Cardinality(A) = Cardinality(C) + 1
      BY <1>2, <3>1, FS_AddElement
    <3> QED BY <2>1, <3>2 DEF Is
  <2>2. CASE f[p] # s
    <3>1. A = C
      BY <2>2
    <3> QED BY <1>2, <2>2, <3>1 DEF Is
  <2> QED BY <2>1, <2>2
<1>4. Cardinality(B) = Cardinality(C) + Is(g[p], s)
  <2>1. CASE g[p] = s
    <3>1. B = C \cup {p} /\ p \notin C
      BY <1>1, <2>1
    <3> HIDE DEF B, C
    <3>2. Cardinality(B) = Cardinality(C) + 1
      BY <1>2, <3>1, FS_AddElement
    <3> QED BY <2>1, <3>2 DEF Is
  <2>2. CASE g[p] # s
    <3>1. B = C
      BY <1>1, <2>2
    <3> HIDE DEF B, C
    <3> QED BY <1>2, <2>2, <3>1 DEF Is
  <2> QED BY <2>1, <2>2
<1>5. Count(f, s) = Cardinality(A) /\ Count(g, s) = Cardinality(B)
  BY DEF Count
<1>6. Is(g[p], s) \in {0, 1} /\ Is(f[p], s) \in {0, 1}
  BY DEF Is
<1> HIDE DEF A, B, C
<1>7. Count(g, s) = Count(f, s) + Is(g[p], s) - Is(f[p], s)
  BY <1>2, <1>3, <1>4, <1>5, <1>6
<1> QED BY <1>7, CountNat

\* Only the references of p change, and the count of an inode by those to it.
Refer(p) ==
  /\ cwd' = [cwd EXCEPT ![p] = cwd'[p]]
  /\ file' = [file EXCEPT ![p] = file'[p]]
  /\ dir' = [dir EXCEPT ![p] = dir'[p]]
  /\ child' = [child EXCEPT ![p] = child'[p]]
  /\ openCnt' \in [Sectors -> Int]
  /\ \A s \in Sectors : openCnt'[s] =
       openCnt[s] + (Is(cwd'[p], s) - Is(cwd[p], s)) + (Is(file'[p], s) - Is(file[p], s))
                  + (Is(dir'[p], s) - Is(dir[p], s)) + (Is(child'[p], s) - Is(child[p], s))

\* The counts stay right if every change of a reference is counted.
LEMMA Recount ==
  ASSUME TypeOK, RefCounts, NEW p \in Procs, Refer(p)
  PROVE  RefCounts' /\ \A s \in Sectors : openCnt'[s] \in Nat
<1> SUFFICES ASSUME NEW s \in Sectors
             PROVE  openCnt'[s] = References(s)' /\ openCnt'[s] \in Nat
  BY DEF RefCounts
<1>1. /\ Count(cwd', s) = Count(cwd, s) + Is(cwd'[p], s) - Is(cwd[p], s)
      /\ Count(cwd, s) \in Nat /\ Count(cwd', s) \in Nat
  <2>1. cwd \in [Procs -> Sectors \cup {NULL}] /\ cwd' = [cwd EXCEPT ![p] = cwd'[p]]
    BY DEF Refer, TypeOK
  <2> QED BY <2>1, CountChange
<1>2. /\ Count(file', s) = Count(file, s) + Is(file'[p], s) - Is(file[p], s)
      /\ Count(file, s) \in Nat /\ Count(file', s) \in Nat
  <2>1. file \in [Procs -> Sectors \cup {NULL}] /\ file' = [file EXCEPT ![p] = file'[p]]
    BY DEF Refer, TypeOK
  <2> QED BY <2>1, CountChange
<1>3. /\ Count(dir', s) = Count(dir, s) + Is(dir'[p], s) - Is(dir[p], s)
      /\ Count(dir, s) \in Nat /\ Count(dir', s) \in Nat
  <2>1. dir \in [Procs -> Sectors \cup {NULL}] /\ dir' = [dir EXCEPT ![p] = dir'[p]]
    BY DEF Refer, TypeOK
  <2> QED BY <2>1, CountChange
<1>4. /\ Count(child', s) = Count(child, s) + Is(child'[p], s) - Is(child[p], s)
      /\ Count(child, s) \in Nat /\ Count(child', s) \in Nat
  <2>1. child \in [Procs -> Sectors \cup {NULL}] /\ child' = [child EXCEPT ![p] = child'[p]]
    BY DEF Refer, TypeOK
  <2> QED BY <2>1, CountChange
<1>5. /\ Is(cwd'[p], s) \in Int /\ Is(cwd[p], s) \in Int
      /\ Is(file'[p], s) \in Int /\ Is(file[p], s) \in Int
      /\ Is(dir'[p], s) \in Int /\ Is(dir[p], s) \in Int
      /\ Is(child'[p], s) \in Int /\ Is(child[p], s) \in Int
  BY DEF Is
<1>6. openCnt[s] = Count(cwd, s) + Count(file, s) + Count(dir, s) + Count(child, s)
                   + (IF s = Root THEN 1 ELSE 0)
  BY DEF RefCounts, References
<1>7. openCnt'[s] =
        openCnt[s] + (Is(cwd'[p], s) - Is(cwd[p], s)) + (Is(file'[p], s) - Is(file[p], s))
                   + (Is(dir'[p], s) - Is(dir[p], s)) + (Is(child'[p], s) - Is(child[p], s))
  BY DEF Refer
<1>8. openCnt'[s] = Count(cwd', s) + Count(file', s) + Count(dir', s) + Count(child', s)
                    + (IF s = Root THEN 1 ELSE 0)
  BY <1>1, <1>2, <1>3, <1>4, <1>5, <1>6, <1>7
<1>9. openCnt'[s] \in Nat
  BY <1>1, <1>2, <1>3, <1>4, <1>8
<1> QED BY <1>8, <1>9 DEF References

\* What is on the disk and what is removed.
StoreTypes ==
  /\ Root \in used /\ used \subseteq Sectors
  /\ isDir \in [Sectors -> BOOLEAN]
  /\ entries \in [Sectors -> [Names -> Sectors \cup {NULL}]]
  /\ up \in [Sectors -> Sectors \cup {NULL}]
  /\ removed \in [Sectors -> BOOLEAN]
  /\ strays \subseteq Sectors

\* inode_open counts one reference.
LEMMA OpenCounts ==
  ASSUME TypeOK, NEW s \in Sectors, OpenInode(s)
  PROVE  /\ openCnt' \in [Sectors -> Int]
         /\ \A r \in Sectors : openCnt'[r] = openCnt[r] + Is(s, r)
         /\ removed' = removed
  BY DEF OpenInode, TypeOK, Is

\* inode_close takes one reference away, and never frees the root directory,
\* which the initial process keeps open.
LEMMA CloseCounts ==
  ASSUME TypeOK, RefCounts, NEW p \in Procs, NEW s \in Sectors, CloseInode(s),
         s \in {cwd[p], file[p], dir[p], child[p]}
  PROVE  /\ openCnt' \in [Sectors -> Int]
         /\ \A r \in Sectors : openCnt'[r] = openCnt[r] - Is(s, r)
         /\ StoreTypes'
<1>1. /\ openCnt' \in [Sectors -> Int]
      /\ \A r \in Sectors : openCnt'[r] = openCnt[r] - Is(s, r)
  BY DEF CloseInode, TypeOK, Is
<1>2. Root \notin FreedByClose(s) /\ FreedByClose(s) \subseteq Sectors
  <2>1. SUFFICES ASSUME s = Root
                 PROVE  openCnt[s] # 1
    BY DEF FreedByClose
  <2>2. /\ Count(cwd, s) \in Nat /\ Count(file, s) \in Nat
        /\ Count(dir, s) \in Nat /\ Count(child, s) \in Nat
        /\ Count(cwd, s) > 0 \/ Count(file, s) > 0 \/ Count(dir, s) > 0 \/ Count(child, s) > 0
    BY CountNat
  <2>3. openCnt[s] = Count(cwd, s) + Count(file, s) + Count(dir, s) + Count(child, s) + 1
    BY <2>1 DEF RefCounts, References
  <2> QED BY <2>2, <2>3
<1>3. removed' \in [Sectors -> BOOLEAN]
  BY DEF CloseInode, TypeOK
<1>4. used' = used \ FreedByClose(s)
  BY DEF CloseInode, Free
<1>5. /\ isDir' \in [Sectors -> BOOLEAN]
      /\ up' \in [Sectors -> Sectors \cup {NULL}]
  BY DEF CloseInode, Free, TypeOK
<1>6. entries' \in [Sectors -> [Names -> Sectors \cup {NULL}]]
  BY DEF CloseInode, Free, TypeOK, NoEntries
<1>7. strays' \subseteq Sectors
  BY DEF CloseInode, Free, TypeOK
<1> QED BY <1>1, <1>2, <1>3, <1>4, <1>5, <1>6, <1>7 DEF StoreTypes, TypeOK

\* Changing one entry of one directory.
LEMMA EntrySet ==
  ASSUME NEW e \in [Sectors -> [Names -> Sectors \cup {NULL}]], NEW d, NEW n,
         NEW x \in Sectors \cup {NULL}
  PROVE  [e EXCEPT ![d][n] = x] \in [Sectors -> [Names -> Sectors \cup {NULL}]]
<1> DEFINE f == [e[d] EXCEPT ![n] = x]
<1>1. CASE d \in Sectors
  <2>1. e[d] \in [Names -> Sectors \cup {NULL}]
    BY <1>1
  <2>2. f \in [Names -> Sectors \cup {NULL}]
    BY <2>1
  <2> HIDE DEF f
  <2>3. [e EXCEPT ![d] = f] \in [Sectors -> [Names -> Sectors \cup {NULL}]]
    BY <2>2
  <2> QED BY <2>3 DEF f
<1>2. CASE d \notin Sectors
  BY <1>2
<1> QED BY <1>1, <1>2

-----------------------------------------------------------------------------
(* The steps.                                                              *)

LocalTypes ==
  /\ lock \in [Sectors -> Procs \cup {NULL}]
  /\ cwd \in [Procs -> Sectors]
  /\ file \in [Procs -> Sectors \cup {NULL}]
  /\ pc \in [Procs -> {"run", "walk", "descend", "found", "close", "lock", "scan", "flip", "add",
                       "find", "lockChild", "remove", "closeChild"}]
  /\ op \in [Procs -> Calls \cup {NULL}]
  /\ path \in [Procs -> Seq(Names \cup {Up})]
  /\ dir \in [Procs -> Sectors \cup {NULL}]
  /\ child \in [Procs -> Sectors \cup {NULL}]
  /\ new \in [Procs -> Sectors \cup {NULL}]
  /\ fault \in BOOLEAN

\* Types, places and counts together.
LEMMA Together ==
  ASSUME TypeOK, RefCounts, NEW p \in Procs, Refer(p), StoreTypes', LocalTypes', Places'
  PROVE  IInv'
<1>1. RefCounts' /\ \A s \in Sectors : openCnt'[s] \in Nat
  BY Recount
<1>2. openCnt' \in [Sectors -> Nat]
  BY <1>1 DEF Refer
<1> QED BY <1>1, <1>2 DEF IInv, TypeOK, StoreTypes, LocalTypes

\* What the lemmas need to know about Is.
LEMMA IsBit ==
  ASSUME NEW s \in Sectors
  PROVE  Is(NULL, s) = 0 /\ \A x : Is(x, s) \in {0, 1}
BY DirectoryAssumption DEF Is

\* A step that moves no reference.
LEMMA Unmoved ==
  ASSUME TypeOK, NEW p \in Procs, UNCHANGED <<openCnt, cwd, file, dir, child>>
  PROVE  Refer(p)
<1>1. /\ cwd' = [cwd EXCEPT ![p] = cwd'[p]] /\ file' = [file EXCEPT ![p] = file'[p]]
      /\ dir' = [dir EXCEPT ![p] = dir'[p]] /\ child' = [child EXCEPT ![p] = child'[p]]
  BY DEF TypeOK
<1>2. openCnt' \in [Sectors -> Int]
  BY DEF TypeOK
<1>3. ASSUME NEW s \in Sectors
      PROVE  openCnt'[s] =
        openCnt[s] + (Is(cwd'[p], s) - Is(cwd[p], s)) + (Is(file'[p], s) - Is(file[p], s))
                   + (Is(dir'[p], s) - Is(dir[p], s)) + (Is(child'[p], s) - Is(child[p], s))
  BY <1>2, IsBit
<1> QED BY <1>1, <1>2, <1>3 DEF Refer

\* A step of p that moves its references and changes the count by change[s].
LEMMA Moved ==
  ASSUME TypeOK, NEW p \in Procs,
         cwd' = [cwd EXCEPT ![p] = cwd'[p]], file' = [file EXCEPT ![p] = file'[p]],
         dir' = [dir EXCEPT ![p] = dir'[p]], child' = [child EXCEPT ![p] = child'[p]],
         openCnt' \in [Sectors -> Int],
         \A s \in Sectors :
           openCnt'[s] - openCnt[s]
             = (Is(cwd'[p], s) - Is(cwd[p], s)) + (Is(file'[p], s) - Is(file[p], s))
               + (Is(dir'[p], s) - Is(dir[p], s)) + (Is(child'[p], s) - Is(child[p], s))
  PROVE  Refer(p)
<1>1. ASSUME NEW s \in Sectors
      PROVE  openCnt'[s] =
        openCnt[s] + (Is(cwd'[p], s) - Is(cwd[p], s)) + (Is(file'[p], s) - Is(file[p], s))
                   + (Is(dir'[p], s) - Is(dir[p], s)) + (Is(child'[p], s) - Is(child[p], s))
  <2>1. openCnt[s] \in Int /\ openCnt'[s] \in Int
    BY DEF TypeOK
  <2> QED BY <2>1, IsBit
<1> QED BY <1>1 DEF Refer

\* A path starts in the root or the working directory, which is opened once more.
LEMMA BeginStep ==
  ASSUME IInv, NEW p \in Procs, NEW call \in CallsOf[p], NEW w \in Paths, NEW start,
         Begin(p, call, w, start)
  PROVE  IInv'
<1>1. TypeOK /\ RefCounts /\ Places
  BY DEF IInv
<1>2. /\ start \in Sectors /\ OpenInode(start)
      /\ dir[p] = NULL
      /\ dir' = [dir EXCEPT ![p] = start]
      /\ UNCHANGED <<cwd, file, child>>
  BY <1>1, DirectoryAssumption DEF Begin, OpenInode, Goto, diskVars, TypeOK, Places, HasChild
<1>3. Refer(p)
  <2>1. /\ cwd' = [cwd EXCEPT ![p] = cwd'[p]] /\ file' = [file EXCEPT ![p] = file'[p]]
        /\ dir' = [dir EXCEPT ![p] = dir'[p]] /\ child' = [child EXCEPT ![p] = child'[p]]
    BY <1>1, <1>2 DEF TypeOK
  <2>2. cwd'[p] = cwd[p] /\ file'[p] = file[p] /\ dir'[p] = start /\ child'[p] = child[p]
    BY <1>1, <1>2 DEF TypeOK
  <2>3. /\ openCnt' \in [Sectors -> Int]
        /\ \A s \in Sectors : openCnt'[s] = openCnt[s] + Is(start, s)
    BY <1>1, <1>2, OpenCounts
  <2>4. \A s \in Sectors : openCnt[s] \in Int
    BY <1>1 DEF TypeOK
  <2>5. ASSUME NEW s \in Sectors
        PROVE  openCnt'[s] - openCnt[s]
                 = (Is(cwd'[p], s) - Is(cwd[p], s)) + (Is(file'[p], s) - Is(file[p], s))
                   + (Is(dir'[p], s) - Is(dir[p], s)) + (Is(child'[p], s) - Is(child[p], s))
    BY <1>2, <2>2, <2>3, <2>4, IsBit
  <2> QED BY <1>1, <2>1, <2>3, <2>5, Moved
<1>4. StoreTypes'
  BY <1>1, <1>2, OpenCounts DEF Begin, OpenInode, diskVars, TypeOK, StoreTypes
<1>5. LocalTypes'
  <2>1. w \in Seq(Names \cup {Up}) /\ call \in Calls
    BY <1>1, DirectoryAssumption DEF Calls, Opens
  <2> QED BY <1>1, <1>2, <2>1 DEF Begin, Goto, TypeOK, LocalTypes
<1>6. Places'
  BY <1>1, DirectoryAssumption DEF Begin, Goto, TypeOK, Places, HasChild
<1> QED BY <1>1, <1>3, <1>4, <1>5, <1>6, Together

\* The walk opens the next inode under the lock of the directory, and keeps it in child.
LEMMA WalkStep ==
  ASSUME IInv, NEW p \in Procs, Walk(p)
  PROVE  IInv'
<1>1. TypeOK /\ RefCounts /\ Places
  BY DEF IInv
<1>2. Head(path[p]) \in Names \cup {Up}
  <2>1. path[p] \in Seq(Names \cup {Up}) /\ path[p] # <<>>
    BY <1>1 DEF Walk, TypeOK, Places
  <2> QED BY <2>1
<1>3. Lookup(dir[p], Head(path[p])) \in Sectors \cup {NULL} /\ child[p] = NULL
  <2>1. dir[p] \in Sectors /\ child[p] = NULL
    BY <1>1 DEF Walk, TypeOK, Places, HasChild
  <2>2. /\ up[dir[p]] \in Sectors \cup {NULL}
        /\ \A n \in Names : entries[dir[p]][n] \in Sectors \cup {NULL}
    BY <1>1, <2>1 DEF TypeOK
  <2> QED BY <1>2, <2>1, <2>2 DEF Lookup
<1>4. \/ /\ child[p] = NULL /\ UNCHANGED <<openCnt, removed, child>>
      \/ \E c \in Sectors : /\ OpenInode(c) /\ child[p] = NULL
                             /\ child' = [child EXCEPT ![p] = c]
  BY <1>3 DEF Walk
<1>5. UNCHANGED <<cwd, file, dir>>
  BY DEF Walk
<1>6. Refer(p) /\ removed' = removed
  <2>1. CASE UNCHANGED <<openCnt, removed, child>>
    BY <1>1, <1>5, <2>1, Unmoved
  <2>2. ASSUME NEW c \in Sectors, OpenInode(c), child[p] = NULL, child' = [child EXCEPT ![p] = c]
        PROVE  Refer(p) /\ removed' = removed
    <3>1. /\ openCnt' \in [Sectors -> Int]
          /\ \A s \in Sectors : openCnt'[s] = openCnt[s] + Is(c, s)
          /\ removed' = removed
      BY <1>1, <2>2, OpenCounts
    <3>2. /\ cwd' = [cwd EXCEPT ![p] = cwd'[p]] /\ file' = [file EXCEPT ![p] = file'[p]]
          /\ dir' = [dir EXCEPT ![p] = dir'[p]] /\ child' = [child EXCEPT ![p] = child'[p]]
          /\ child'[p] = c
      BY <1>1, <1>5, <2>2 DEF TypeOK
    <3>3. \A s \in Sectors : openCnt[s] \in Int
      BY <1>1 DEF TypeOK
    <3>4. ASSUME NEW s \in Sectors
          PROVE  openCnt'[s] - openCnt[s]
                   = (Is(cwd'[p], s) - Is(cwd[p], s)) + (Is(file'[p], s) - Is(file[p], s))
                     + (Is(dir'[p], s) - Is(dir[p], s)) + (Is(child'[p], s) - Is(child[p], s))
      BY <1>5, <2>2, <3>1, <3>2, <3>3, IsBit
    <3> QED BY <1>1, <3>1, <3>2, <3>4, Moved
  <2> QED BY <1>4, <2>1, <2>2
<1>7. StoreTypes'
  BY <1>1, <1>6 DEF Walk, diskVars, TypeOK, StoreTypes
<1>8. LocalTypes'
  <2>1. child' \in [Procs -> Sectors \cup {NULL}]
    BY <1>1, <1>4 DEF TypeOK
  <2>2. /\ pc' \in [Procs -> {"run", "walk", "descend", "found", "close", "lock", "scan", "flip",
                            "add", "find", "lockChild", "remove", "closeChild"}]
        /\ lock' \in [Sectors -> Procs \cup {NULL}]
    BY <1>1 DEF Walk, Goto, UnlockParent, TypeOK
  <2> QED BY <1>1, <2>1, <2>2 DEF Walk, TypeOK, LocalTypes
<1>9. Places'
  <2>1. /\ pc[p] = "walk" /\ path[p] # <<>> /\ dir[p] # NULL
        /\ UNCHANGED <<path, dir, new, op, file>>
    BY <1>1 DEF Walk, Places
  <2>2. \/ pc' = [pc EXCEPT ![p] = "close"] /\ UNCHANGED child
        \/ /\ pc' = [pc EXCEPT ![p] = "lock"] /\ UNCHANGED child
           /\ op[p] = "remove" => Head(path[p]) # Up
        \/ \E c \in Sectors : pc' = [pc EXCEPT ![p] = "descend"] /\ child' = [child EXCEPT ![p] = c]
    BY <1>3 DEF Walk, Goto
  <2> QED BY <1>1, <2>1, <2>2, DirectoryAssumption DEF TypeOK, Places, HasChild
<1> QED BY <1>1, <1>6, <1>7, <1>8, <1>9, Together

\* The next directory takes the place of the one that is closed.
LEMMA DescendStep ==
  ASSUME IInv, NEW p \in Procs, Descend(p)
  PROVE  IInv'
<1>1. TypeOK /\ RefCounts /\ Places
  BY DEF IInv
<1>2. /\ dir[p] \in Sectors /\ CloseInode(dir[p])
      /\ child[p] \in Sectors
      /\ dir' = [dir EXCEPT ![p] = child[p]]
      /\ child' = [child EXCEPT ![p] = NULL]
      /\ UNCHANGED <<cwd, file>>
  BY <1>1, DirectoryAssumption DEF Descend, Goto, TypeOK, Places, HasChild
<1>3. Refer(p)
  <2>1. /\ cwd' = [cwd EXCEPT ![p] = cwd'[p]] /\ file' = [file EXCEPT ![p] = file'[p]]
        /\ dir' = [dir EXCEPT ![p] = dir'[p]] /\ child' = [child EXCEPT ![p] = child'[p]]
    BY <1>1, <1>2 DEF TypeOK
  <2>2. cwd'[p] = cwd[p] /\ file'[p] = file[p] /\ dir'[p] = child[p] /\ child'[p] = NULL
    BY <1>1, <1>2 DEF TypeOK
  <2>3. /\ openCnt' \in [Sectors -> Int]
        /\ \A s \in Sectors : openCnt'[s] = openCnt[s] - Is(dir[p], s)
    BY <1>1, <1>2, CloseCounts
  <2>4. \A s \in Sectors : openCnt[s] \in Int
    BY <1>1 DEF TypeOK
  <2>5. ASSUME NEW s \in Sectors
        PROVE  openCnt'[s] - openCnt[s]
                 = (Is(cwd'[p], s) - Is(cwd[p], s)) + (Is(file'[p], s) - Is(file[p], s))
                   + (Is(dir'[p], s) - Is(dir[p], s)) + (Is(child'[p], s) - Is(child[p], s))
    BY <1>2, <2>2, <2>3, <2>4, IsBit
  <2> QED BY <1>1, <2>1, <2>3, <2>5, Moved
<1>4. StoreTypes'
  BY <1>1, <1>2, CloseCounts
<1>5. /\ path[p] # <<>> /\ Tail(path[p]) \in Seq(Names \cup {Up})
      /\ Tail(path[p]) = <<>> <=> Len(path[p]) = 1
      /\ path' = [path EXCEPT ![p] = Tail(path[p])]
  <2>1. path[p] \in Seq(Names \cup {Up}) /\ path[p] # <<>>
    BY <1>1 DEF Descend, TypeOK, Places
  <2>2. /\ Tail(path[p]) \in Seq(Names \cup {Up})
        /\ Len(Tail(path[p])) = Len(path[p]) - 1 /\ Len(path[p]) \in Nat
    BY <2>1
  <2>3. Tail(path[p]) = <<>> <=> Len(Tail(path[p])) = 0
    BY <2>2, EmptySeq
  <2>4. Tail(path[p]) = <<>> <=> Len(path[p]) = 1
    BY <2>2, <2>3
  <2>5. path' = [path EXCEPT ![p] = Tail(path[p])]
    BY DEF Descend
  <2> QED BY <2>1, <2>2, <2>4, <2>5
<1>6. LocalTypes'
  <2>1. /\ path' \in [Procs -> Seq(Names \cup {Up})]
        /\ dir' \in [Procs -> Sectors \cup {NULL}] /\ child' \in [Procs -> Sectors \cup {NULL}]
    BY <1>1, <1>2, <1>5 DEF TypeOK
  <2> QED BY <1>1, <1>2, <2>1 DEF Descend, Goto, TypeOK, LocalTypes
<1>7. Places'
  <2>1. pc[p] = "descend" /\ pc' = [pc EXCEPT ![p] = IF Len(path[p]) = 1 THEN "found" ELSE "walk"]
    BY DEF Descend, Goto
  <2>2. UNCHANGED <<op, new>>
    BY DEF Descend
  <2> QED BY <1>1, <1>2, <1>5, <2>1, <2>2, DirectoryAssumption DEF TypeOK, Places, HasChild
<1> QED BY <1>1, <1>3, <1>4, <1>6, <1>7, Together

\* A call that did not open its path closes the directory.
LEMMA CloseStep ==
  ASSUME IInv, NEW p \in Procs, Close(p)
  PROVE  IInv'
<1>1. TypeOK /\ RefCounts /\ Places
  BY DEF IInv
<1>2. /\ dir[p] \in Sectors /\ CloseInode(dir[p])
      /\ child[p] = NULL
      /\ dir' = [dir EXCEPT ![p] = NULL]
      /\ child' = [child EXCEPT ![p] = NULL]
      /\ UNCHANGED <<cwd, file>>
  BY <1>1, DirectoryAssumption DEF Close, Goto, EndCall, TypeOK, Places, HasChild
<1>3. Refer(p)
  <2>1. /\ cwd' = [cwd EXCEPT ![p] = cwd'[p]] /\ file' = [file EXCEPT ![p] = file'[p]]
        /\ dir' = [dir EXCEPT ![p] = dir'[p]] /\ child' = [child EXCEPT ![p] = child'[p]]
    BY <1>1, <1>2 DEF TypeOK
  <2>2. cwd'[p] = cwd[p] /\ file'[p] = file[p] /\ dir'[p] = NULL /\ child'[p] = NULL
    BY <1>1, <1>2 DEF TypeOK
  <2>3. /\ openCnt' \in [Sectors -> Int]
        /\ \A s \in Sectors : openCnt'[s] = openCnt[s] - Is(dir[p], s)
    BY <1>1, <1>2, CloseCounts
  <2>4. \A s \in Sectors : openCnt[s] \in Int
    BY <1>1 DEF TypeOK
  <2>5. ASSUME NEW s \in Sectors
        PROVE  openCnt'[s] - openCnt[s]
                 = (Is(cwd'[p], s) - Is(cwd[p], s)) + (Is(file'[p], s) - Is(file[p], s))
                   + (Is(dir'[p], s) - Is(dir[p], s)) + (Is(child'[p], s) - Is(child[p], s))
    BY <1>2, <2>2, <2>3, <2>4, IsBit
  <2> QED BY <1>1, <2>1, <2>3, <2>5, Moved
<1>4. StoreTypes'
  BY <1>1, <1>2, CloseCounts
<1>5. LocalTypes'
  BY <1>1 DEF Close, Goto, EndCall, TypeOK, LocalTypes
<1>6. Places'
  BY <1>1, DirectoryAssumption DEF Close, Goto, EndCall, TypeOK, Places, HasChild
<1> QED BY <1>1, <1>3, <1>4, <1>5, <1>6, Together

\* The reference of the walk becomes that of the descriptor.
LEMMA OpenStep ==
  ASSUME IInv, NEW p \in Procs, Open(p)
  PROVE  IInv'
<1>1. TypeOK /\ RefCounts /\ Places
  BY DEF IInv
<1>2. /\ dir[p] \in Sectors /\ UNCHANGED openCnt
      /\ child[p] = NULL /\ file[p] = NULL
      /\ dir' = [dir EXCEPT ![p] = NULL]
      /\ child' = [child EXCEPT ![p] = NULL]
      /\ file' = [file EXCEPT ![p] = dir[p]]
      /\ UNCHANGED cwd
  BY <1>1, DirectoryAssumption
     DEF Open, Goto, EndCall, diskVars, inodeVars, TypeOK, Places, HasChild
<1>3. Refer(p)
  <2>1. /\ cwd' = [cwd EXCEPT ![p] = cwd'[p]] /\ file' = [file EXCEPT ![p] = file'[p]]
        /\ dir' = [dir EXCEPT ![p] = dir'[p]] /\ child' = [child EXCEPT ![p] = child'[p]]
    BY <1>1, <1>2 DEF TypeOK
  <2>2. cwd'[p] = cwd[p] /\ file'[p] = dir[p] /\ dir'[p] = NULL /\ child'[p] = NULL
    BY <1>1, <1>2 DEF TypeOK
  <2>3. /\ openCnt' \in [Sectors -> Int]
        /\ \A s \in Sectors : openCnt'[s] = openCnt[s]
    BY <1>1, <1>2 DEF TypeOK
  <2>4. \A s \in Sectors : openCnt[s] \in Int
    BY <1>1 DEF TypeOK
  <2>5. ASSUME NEW s \in Sectors
        PROVE  openCnt'[s] - openCnt[s]
                 = (Is(cwd'[p], s) - Is(cwd[p], s)) + (Is(file'[p], s) - Is(file[p], s))
                   + (Is(dir'[p], s) - Is(dir[p], s)) + (Is(child'[p], s) - Is(child[p], s))
    BY <1>2, <2>2, <2>3, <2>4, IsBit
  <2> QED BY <1>1, <2>1, <2>3, <2>5, Moved
<1>4. StoreTypes'
  BY <1>1 DEF Open, diskVars, inodeVars, TypeOK, StoreTypes
<1>5. LocalTypes'
  BY <1>1 DEF Open, Goto, EndCall, inodeVars, TypeOK, LocalTypes
<1>6. Places'
  BY <1>1, DirectoryAssumption DEF Open, Goto, EndCall, TypeOK, Places, HasChild
<1> QED BY <1>1, <1>3, <1>4, <1>5, <1>6, Together

\* The reference of the walk becomes the working directory, and the old one is closed.
LEMMA ChDirStep ==
  ASSUME IInv, NEW p \in Procs, ChDir(p)
  PROVE  IInv'
<1>1. TypeOK /\ RefCounts /\ Places
  BY DEF IInv
<1>2. /\ dir[p] \in Sectors /\ cwd[p] \in Sectors /\ CloseInode(cwd[p])
      /\ child[p] = NULL
      /\ dir' = [dir EXCEPT ![p] = NULL]
      /\ child' = [child EXCEPT ![p] = NULL]
      /\ cwd' = [cwd EXCEPT ![p] = dir[p]]
      /\ UNCHANGED file
  BY <1>1, DirectoryAssumption DEF ChDir, Goto, EndCall, TypeOK, Places, HasChild
<1>3. Refer(p)
  <2>1. /\ cwd' = [cwd EXCEPT ![p] = cwd'[p]] /\ file' = [file EXCEPT ![p] = file'[p]]
        /\ dir' = [dir EXCEPT ![p] = dir'[p]] /\ child' = [child EXCEPT ![p] = child'[p]]
    BY <1>1, <1>2 DEF TypeOK
  <2>2. cwd'[p] = dir[p] /\ file'[p] = file[p] /\ dir'[p] = NULL /\ child'[p] = NULL
    BY <1>1, <1>2 DEF TypeOK
  <2>3. /\ openCnt' \in [Sectors -> Int]
        /\ \A s \in Sectors : openCnt'[s] = openCnt[s] - Is(cwd[p], s)
    BY <1>1, <1>2, CloseCounts
  <2>4. \A s \in Sectors : openCnt[s] \in Int
    BY <1>1 DEF TypeOK
  <2>5. ASSUME NEW s \in Sectors
        PROVE  openCnt'[s] - openCnt[s]
                 = (Is(cwd'[p], s) - Is(cwd[p], s)) + (Is(file'[p], s) - Is(file[p], s))
                   + (Is(dir'[p], s) - Is(dir[p], s)) + (Is(child'[p], s) - Is(child[p], s))
    <3>1. Is(dir[p], s) \in Int /\ Is(cwd[p], s) \in Int /\ Is(file[p], s) \in Int /\ Is(NULL, s) = 0
      BY IsBit
    <3>2. openCnt[s] \in Int /\ openCnt'[s] = openCnt[s] - Is(cwd[p], s)
      BY <2>3, <2>4
    <3> QED BY <1>2, <2>2, <3>1, <3>2
  <2> QED BY <1>1, <2>1, <2>3, <2>5, Moved
<1>4. StoreTypes'
  BY <1>1, <1>2, CloseCounts
<1>5. LocalTypes'
  BY <1>1 DEF ChDir, Goto, EndCall, TypeOK, LocalTypes, Places
<1>6. Places'
  BY <1>1, DirectoryAssumption DEF ChDir, Goto, EndCall, TypeOK, Places, HasChild
<1> QED BY <1>1, <1>3, <1>4, <1>5, <1>6, Together

\* A descriptor is closed.
LEMMA CloseFileStep ==
  ASSUME IInv, NEW p \in Procs, CloseFile(p)
  PROVE  IInv'
<1>1. TypeOK /\ RefCounts /\ Places
  BY DEF IInv
<1>2. /\ file[p] \in Sectors /\ CloseInode(file[p])
      /\ file' = [file EXCEPT ![p] = NULL]
      /\ UNCHANGED <<cwd, dir, child>>
  BY <1>1, DirectoryAssumption DEF CloseFile, localVars, TypeOK, Places, HasChild
<1>3. Refer(p)
  <2>1. /\ cwd' = [cwd EXCEPT ![p] = cwd'[p]] /\ file' = [file EXCEPT ![p] = file'[p]]
        /\ dir' = [dir EXCEPT ![p] = dir'[p]] /\ child' = [child EXCEPT ![p] = child'[p]]
    BY <1>1, <1>2 DEF TypeOK
  <2>2. cwd'[p] = cwd[p] /\ file'[p] = NULL /\ dir'[p] = dir[p] /\ child'[p] = child[p]
    BY <1>1, <1>2 DEF TypeOK
  <2>3. /\ openCnt' \in [Sectors -> Int]
        /\ \A s \in Sectors : openCnt'[s] = openCnt[s] - Is(file[p], s)
    BY <1>1, <1>2, CloseCounts
  <2>4. \A s \in Sectors : openCnt[s] \in Int
    BY <1>1 DEF TypeOK
  <2>5. ASSUME NEW s \in Sectors
        PROVE  openCnt'[s] - openCnt[s]
                 = (Is(cwd'[p], s) - Is(cwd[p], s)) + (Is(file'[p], s) - Is(file[p], s))
                   + (Is(dir'[p], s) - Is(dir[p], s)) + (Is(child'[p], s) - Is(child[p], s))
    BY <1>2, <2>2, <2>3, <2>4, IsBit
  <2> QED BY <1>1, <2>1, <2>3, <2>5, Moved
<1>4. StoreTypes'
  BY <1>1, <1>2, CloseCounts
<1>5. LocalTypes'
  BY <1>1 DEF CloseFile, localVars, TypeOK, LocalTypes
<1>6. Places'
  BY <1>1 DEF CloseFile, localVars, Places
<1> QED BY <1>1, <1>3, <1>4, <1>5, <1>6, Together

\* Locks are no references.
LEMMA LockParentStep ==
  ASSUME IInv, NEW p \in Procs, LockParent(p)
  PROVE  IInv'
<1>1. TypeOK /\ RefCounts /\ Places
  BY DEF IInv
<1>2. UNCHANGED <<openCnt, cwd, file, dir, child>>
  BY DEF LockParent, Goto, diskVars, localVars
<1>3. Refer(p)
  BY <1>1, <1>2, Unmoved
<1>4. StoreTypes'
  BY <1>1 DEF LockParent, diskVars, TypeOK, StoreTypes
<1>5. LocalTypes'
  BY <1>1 DEF LockParent, Goto, localVars, TypeOK, LocalTypes
<1>6. Places'
  BY <1>1 DEF LockParent, Goto, localVars, Places, HasChild
<1> QED BY <1>1, <1>3, <1>4, <1>5, <1>6, Together

\* The sector that is found is free, so it is not the root directory's.
LEMMA ScanStep ==
  ASSUME IInv, NEW p \in Procs, Scan(p)
  PROVE  IInv'
<1>1. TypeOK /\ RefCounts /\ Places
  BY DEF IInv
<1>2. UNCHANGED <<openCnt, cwd, file, dir, child>>
  BY DEF Scan, Goto, diskVars, UnlockParent
<1>3. Refer(p)
  BY <1>1, <1>2, Unmoved
<1>4. StoreTypes'
  BY <1>1 DEF Scan, diskVars, TypeOK, StoreTypes
<1>5. LocalTypes'
  <2>1. new' \in [Procs -> Sectors \cup {NULL}]
    BY <1>1 DEF Scan, TypeOK
  <2>2. /\ pc' \in [Procs -> {"run", "walk", "descend", "found", "close", "lock", "scan", "flip",
                            "add", "find", "lockChild", "remove", "closeChild"}]
        /\ lock' \in [Sectors -> Procs \cup {NULL}]
    BY <1>1 DEF Scan, Goto, UnlockParent, TypeOK
  <2> QED BY <1>1, <2>1, <2>2 DEF Scan, TypeOK, LocalTypes
<1>6. Places'
  <2>1. /\ pc[p] = "scan" /\ dir[p] # NULL /\ child[p] = NULL /\ path[p] # <<>>
        /\ UNCHANGED <<dir, child, path, op, file>>
    BY <1>1 DEF Scan, Places, HasChild
  <2>2. \/ pc' = [pc EXCEPT ![p] = "close"] /\ new' = new
        \/ \E s \in Sectors \ {Root, NULL} :
             pc' = [pc EXCEPT ![p] = "flip"] /\ new' = [new EXCEPT ![p] = s]
    BY <1>1, DirectoryAssumption DEF Scan, Goto, TypeOK
  <2> QED BY <1>1, <2>1, <2>2 DEF TypeOK, Places, HasChild
<1> QED BY <1>1, <1>3, <1>4, <1>5, <1>6, Together

\* The sector is marked.
LEMMA FlipStep ==
  ASSUME IInv, NEW p \in Procs, Flip(p)
  PROVE  IInv'
<1>1. TypeOK /\ RefCounts /\ Places
  BY DEF IInv
<1>2. UNCHANGED <<openCnt, cwd, file, dir, child>>
  BY DEF Flip, Goto, inodeVars, localVars
<1>3. Refer(p)
  BY <1>1, <1>2, Unmoved
<1>4. StoreTypes'
  BY <1>1 DEF Flip, inodeVars, TypeOK, StoreTypes, Places
<1>5. LocalTypes'
  BY <1>1 DEF Flip, Goto, inodeVars, localVars, TypeOK, LocalTypes
<1>6. Places'
  BY <1>1 DEF Flip, Goto, localVars, Places, HasChild
<1> QED BY <1>1, <1>3, <1>4, <1>5, <1>6, Together

\* A new inode is not open.
LEMMA AddStep ==
  ASSUME IInv, NEW p \in Procs, Add(p)
  PROVE  IInv'
<1>1. TypeOK /\ RefCounts /\ Places
  BY DEF IInv
<1>2. UNCHANGED <<openCnt, cwd, file, dir, child>>
  BY DEF Add, Goto, UnlockParent, GivenBack, NoEntries
<1>3. Refer(p)
  BY <1>1, <1>2, Unmoved
<1>4. new[p] \in Sectors /\ new[p] # Root
  BY <1>1 DEF Add, TypeOK, Places
<1>5. StoreTypes'
  <2>1. Root \in used' /\ used' \subseteq Sectors
    BY <1>1, <1>4 DEF Add, GivenBack, TypeOK
  <2>2. isDir' \in [Sectors -> BOOLEAN] /\ up' \in [Sectors -> Sectors \cup {NULL}]
    BY <1>1, <1>4 DEF Add, TypeOK, Places
  <2>3. entries' \in [Sectors -> [Names -> Sectors \cup {NULL}]]
    <3>1. NoEntries \in [Names -> Sectors \cup {NULL}]
      BY DEF NoEntries
    <3>2. \/ entries' = entries
          \/ entries' = [entries EXCEPT ![new[p]] = NoEntries, ![dir[p]][Head(path[p])] = new[p]]
      BY DEF Add
    <3>3. entries \in [Sectors -> [Names -> Sectors \cup {NULL}]]
      BY <1>1 DEF TypeOK
    <3> DEFINE d == dir[p]
               n == Head(path[p])
               s == new[p]
               e == [entries EXCEPT ![s] = NoEntries]
    <3>4. e \in [Sectors -> [Names -> Sectors \cup {NULL}]]
      BY <3>1, <3>3
    <3>5. [entries EXCEPT ![s] = NoEntries, ![d][n] = s] = [e EXCEPT ![d][n] = s]
      OBVIOUS
    <3>6. s \in Sectors
      BY <1>4
    <3> HIDE DEF e, s, n, d
    <3>7. [e EXCEPT ![d][n] = s] \in [Sectors -> [Names -> Sectors \cup {NULL}]]
      BY <3>4, <3>6, EntrySet
    <3> QED BY <3>2, <3>3, <3>5, <3>7 DEF s, d, n
  <2>4. strays' \subseteq Sectors
    BY <1>1, <1>4 DEF Add, TypeOK
  <2> QED BY <1>1, <2>1, <2>2, <2>3, <2>4 DEF Add, TypeOK, StoreTypes
<1>6. LocalTypes'
  <2>1. /\ pc' \in [Procs -> {"run", "walk", "descend", "found", "close", "lock", "scan", "flip",
                            "add", "find", "lockChild", "remove", "closeChild"}]
        /\ lock' \in [Sectors -> Procs \cup {NULL}]
        /\ new' \in [Procs -> Sectors \cup {NULL}]
    BY <1>1 DEF Add, Goto, UnlockParent, TypeOK
  <2> QED BY <1>1, <2>1 DEF Add, TypeOK, LocalTypes
<1>7. Places'
  BY <1>1, DirectoryAssumption DEF Add, Goto, TypeOK, Places, HasChild
<1> QED BY <1>1, <1>3, <1>5, <1>6, <1>7, Together

\* The inode that is to be removed is opened.
LEMMA FindStep ==
  ASSUME IInv, NEW p \in Procs, Find(p)
  PROVE  IInv'
<1>1. TypeOK /\ RefCounts /\ Places
  BY DEF IInv
<1>2. Head(path[p]) \in Names \cup {Up} /\ Head(path[p]) # Up
  <2>1. path[p] \in Seq(Names \cup {Up}) /\ path[p] # <<>>
    BY <1>1 DEF Find, TypeOK, Places
  <2> QED BY <1>1, <2>1 DEF Find, Places
<1>3. entries[dir[p]][Head(path[p])] \in Sectors \cup {NULL} /\ child[p] = NULL
  <2>1. dir[p] \in Sectors /\ child[p] = NULL
    BY <1>1 DEF Find, TypeOK, Places, HasChild
  <2>2. \A n \in Names : entries[dir[p]][n] \in Sectors \cup {NULL}
    BY <1>1, <2>1 DEF TypeOK
  <2> QED BY <1>2, <2>1, <2>2
<1>4. \/ /\ child[p] = NULL /\ UNCHANGED <<openCnt, removed, child>>
      \/ \E c \in Sectors : /\ OpenInode(c) /\ child[p] = NULL
                             /\ child' = [child EXCEPT ![p] = c]
  BY <1>3 DEF Find
<1>5. UNCHANGED <<cwd, file, dir>>
  BY DEF Find
<1>6. Refer(p) /\ removed' = removed
  <2>1. CASE UNCHANGED <<openCnt, removed, child>>
    BY <1>1, <1>5, <2>1, Unmoved
  <2>2. ASSUME NEW c \in Sectors, OpenInode(c), child[p] = NULL, child' = [child EXCEPT ![p] = c]
        PROVE  Refer(p) /\ removed' = removed
    <3>1. /\ openCnt' \in [Sectors -> Int]
          /\ \A s \in Sectors : openCnt'[s] = openCnt[s] + Is(c, s)
          /\ removed' = removed
      BY <1>1, <2>2, OpenCounts
    <3>2. /\ cwd' = [cwd EXCEPT ![p] = cwd'[p]] /\ file' = [file EXCEPT ![p] = file'[p]]
          /\ dir' = [dir EXCEPT ![p] = dir'[p]] /\ child' = [child EXCEPT ![p] = child'[p]]
          /\ child'[p] = c
      BY <1>1, <1>5, <2>2 DEF TypeOK
    <3>3. \A s \in Sectors : openCnt[s] \in Int
      BY <1>1 DEF TypeOK
    <3>4. ASSUME NEW s \in Sectors
          PROVE  openCnt'[s] - openCnt[s]
                   = (Is(cwd'[p], s) - Is(cwd[p], s)) + (Is(file'[p], s) - Is(file[p], s))
                     + (Is(dir'[p], s) - Is(dir[p], s)) + (Is(child'[p], s) - Is(child[p], s))
      BY <1>5, <2>2, <3>1, <3>2, <3>3, IsBit
    <3> QED BY <1>1, <3>1, <3>2, <3>4, Moved
  <2> QED BY <1>4, <2>1, <2>2
<1>7. StoreTypes'
  BY <1>1, <1>6 DEF Find, diskVars, TypeOK, StoreTypes
<1>8. LocalTypes'
  <2>1. child' \in [Procs -> Sectors \cup {NULL}]
    BY <1>1, <1>4 DEF TypeOK
  <2>2. /\ pc' \in [Procs -> {"run", "walk", "descend", "found", "close", "lock", "scan", "flip",
                            "add", "find", "lockChild", "remove", "closeChild"}]
        /\ lock' \in [Sectors -> Procs \cup {NULL}]
    BY <1>1 DEF Find, Goto, UnlockParent, TypeOK
  <2> QED BY <1>1, <2>1, <2>2 DEF Find, TypeOK, LocalTypes
<1>9. Places'
  <2>1. /\ pc[p] = "find" /\ path[p] # <<>> /\ Head(path[p]) # Up /\ dir[p] # NULL
        /\ UNCHANGED <<path, dir, new, op, file>>
    BY <1>1 DEF Find, Places
  <2>2. \/ pc' = [pc EXCEPT ![p] = "close"] /\ UNCHANGED child
        \/ \E c \in Sectors, loc \in {"lockChild", "remove"} :
             pc' = [pc EXCEPT ![p] = loc] /\ child' = [child EXCEPT ![p] = c]
    BY <1>3 DEF Find, Goto
  <2> QED BY <1>1, <1>3, <2>1, <2>2, DirectoryAssumption DEF TypeOK, Places, HasChild
<1> QED BY <1>1, <1>6, <1>7, <1>8, <1>9, Together

\* Locks are no references.
LEMMA LockChildStep ==
  ASSUME IInv, NEW p \in Procs, LockChild(p)
  PROVE  IInv'
<1>1. TypeOK /\ RefCounts /\ Places
  BY DEF IInv
<1>2. UNCHANGED <<openCnt, cwd, file, dir, child>>
  BY DEF LockChild, Goto, diskVars, localVars
<1>3. Refer(p)
  BY <1>1, <1>2, Unmoved
<1>4. StoreTypes'
  BY <1>1 DEF LockChild, diskVars, TypeOK, StoreTypes
<1>5. LocalTypes'
  BY <1>1 DEF LockChild, Goto, localVars, TypeOK, LocalTypes
<1>6. Places'
  BY <1>1 DEF LockChild, Goto, localVars, Places, HasChild
<1> QED BY <1>1, <1>3, <1>4, <1>5, <1>6, Together

\* An inode that is removed stays open until the call ends.
LEMMA RemoveEntryStep ==
  ASSUME IInv, NEW p \in Procs, RemoveEntry(p)
  PROVE  IInv'
<1>1. TypeOK /\ RefCounts /\ Places
  BY DEF IInv
<1>2. UNCHANGED <<openCnt, cwd, file, dir, child>>
  BY DEF RemoveEntry, Goto, UnlockChild, localVars
<1>3. Refer(p)
  BY <1>1, <1>2, Unmoved
<1>4. StoreTypes'
  <2>1. \/ entries' = entries
        \/ entries' = [entries EXCEPT ![dir[p]][Head(path[p])] = NULL]
    BY DEF RemoveEntry
  <2>2. entries' \in [Sectors -> [Names -> Sectors \cup {NULL}]]
    <3>1. entries \in [Sectors -> [Names -> Sectors \cup {NULL}]]
      BY <1>1 DEF TypeOK
    <3>2. [entries EXCEPT ![dir[p]][Head(path[p])] = NULL]
            \in [Sectors -> [Names -> Sectors \cup {NULL}]]
      BY <3>1, EntrySet
    <3> QED BY <2>1, <3>1, <3>2
  <2>3. removed' \in [Sectors -> BOOLEAN]
    BY <1>1 DEF RemoveEntry, TypeOK
  <2> QED BY <1>1, <2>2, <2>3 DEF RemoveEntry, TypeOK, StoreTypes
<1>5. LocalTypes'
  BY <1>1 DEF RemoveEntry, Goto, UnlockChild, localVars, TypeOK, LocalTypes
<1>6. Places'
  BY <1>1 DEF RemoveEntry, Goto, localVars, Places, HasChild
<1> QED BY <1>1, <1>3, <1>4, <1>5, <1>6, Together

\* The removed inode is closed.
LEMMA CloseChildStep ==
  ASSUME IInv, NEW p \in Procs, CloseChild(p)
  PROVE  IInv'
<1>1. TypeOK /\ RefCounts /\ Places
  BY DEF IInv
<1>2. /\ child[p] \in Sectors /\ CloseInode(child[p])
      /\ child' = [child EXCEPT ![p] = NULL]
      /\ UNCHANGED <<cwd, file, dir>>
  BY <1>1, DirectoryAssumption DEF CloseChild, Goto, UnlockParent, TypeOK, Places, HasChild
<1>3. Refer(p)
  <2>1. /\ cwd' = [cwd EXCEPT ![p] = cwd'[p]] /\ file' = [file EXCEPT ![p] = file'[p]]
        /\ dir' = [dir EXCEPT ![p] = dir'[p]] /\ child' = [child EXCEPT ![p] = child'[p]]
    BY <1>1, <1>2 DEF TypeOK
  <2>2. cwd'[p] = cwd[p] /\ file'[p] = file[p] /\ dir'[p] = dir[p] /\ child'[p] = NULL
    BY <1>1, <1>2 DEF TypeOK
  <2>3. /\ openCnt' \in [Sectors -> Int]
        /\ \A s \in Sectors : openCnt'[s] = openCnt[s] - Is(child[p], s)
    BY <1>1, <1>2, CloseCounts
  <2>4. \A s \in Sectors : openCnt[s] \in Int
    BY <1>1 DEF TypeOK
  <2>5. ASSUME NEW s \in Sectors
        PROVE  openCnt'[s] - openCnt[s]
                 = (Is(cwd'[p], s) - Is(cwd[p], s)) + (Is(file'[p], s) - Is(file[p], s))
                   + (Is(dir'[p], s) - Is(dir[p], s)) + (Is(child'[p], s) - Is(child[p], s))
    BY SMTT(30), <1>2, <2>2, <2>3, <2>4, IsBit
  <2> QED BY <1>1, <2>1, <2>3, <2>5, Moved
<1>4. StoreTypes'
  BY <1>1, <1>2, CloseCounts
<1>5. LocalTypes'
  BY <1>1 DEF CloseChild, Goto, UnlockParent, TypeOK, LocalTypes
<1>6. Places'
  BY <1>1 DEF CloseChild, Goto, TypeOK, Places, HasChild
<1> QED BY <1>1, <1>3, <1>4, <1>5, <1>6, Together

-----------------------------------------------------------------------------
\* At the start the processes work in the root directory and have nothing else.
LEMMA InitIInv == Init => IInv
<1> SUFFICES ASSUME Init
             PROVE  IInv
  OBVIOUS
<1>1. Cardinality(Procs) \in Nat
  BY FS_CardinalityType, DirectoryAssumption
<1>2. TypeOK
  <2>1. Root \in used /\ used \subseteq Sectors /\ strays \subseteq Sectors /\ fault \in BOOLEAN
    BY DirectoryAssumption DEF Init
  <2>2. /\ isDir \in [Sectors -> BOOLEAN] /\ removed \in [Sectors -> BOOLEAN]
        /\ up \in [Sectors -> Sectors \cup {NULL}] /\ lock \in [Sectors -> Procs \cup {NULL}]
    BY DirectoryAssumption DEF Init
  <2>3. entries \in [Sectors -> [Names -> Sectors \cup {NULL}]]
    BY DEF Init, NoEntries
  <2>4. openCnt \in [Sectors -> Nat]
    BY <1>1 DEF Init
  <2>5. /\ cwd \in [Procs -> Sectors] /\ file \in [Procs -> Sectors \cup {NULL}]
        /\ dir \in [Procs -> Sectors \cup {NULL}] /\ child \in [Procs -> Sectors \cup {NULL}]
        /\ new \in [Procs -> Sectors \cup {NULL}] /\ op \in [Procs -> Calls \cup {NULL}]
    BY DirectoryAssumption DEF Init
  <2>6. <<>> \in Seq(Names \cup {Up})
    OBVIOUS
  <2>7. path \in [Procs -> Seq(Names \cup {Up})]
    BY <2>6 DEF Init
  <2>8. pc \in [Procs -> {"run", "walk", "descend", "found", "close", "lock", "scan", "flip", "add",
                          "find", "lockChild", "remove", "closeChild"}]
    BY DEF Init
  <2> QED BY <2>1, <2>2, <2>3, <2>4, <2>5, <2>7, <2>8 DEF TypeOK
<1>3. Places
  BY DirectoryAssumption DEF Init, Places, HasChild
<1>4. RefCounts
  <2> SUFFICES ASSUME NEW s \in Sectors
               PROVE  openCnt[s] = References(s)
    BY DEF RefCounts
  <2>1. /\ {p \in Procs : file[p] = s} = {}
        /\ {p \in Procs : dir[p] = s} = {}
        /\ {p \in Procs : child[p] = s} = {}
    BY DirectoryAssumption DEF Init
  <2>2. Count(file, s) = 0 /\ Count(dir, s) = 0 /\ Count(child, s) = 0
    BY <2>1, FS_EmptySet DEF Count
  <2>3. CASE s = Root
    <3>1. {p \in Procs : cwd[p] = s} = Procs
      BY <2>3 DEF Init
    <3>2. Count(cwd, s) = Cardinality(Procs)
      BY <3>1 DEF Count
    <3>3. openCnt[s] = Cardinality(Procs) + 1
      BY <2>3 DEF Init
    <3> QED BY <1>1, <2>2, <2>3, <3>2, <3>3 DEF References
  <2>4. CASE s # Root
    <3>1. {p \in Procs : cwd[p] = s} = {}
      BY <2>4 DEF Init
    <3>2. Count(cwd, s) = 0
      BY <3>1, FS_EmptySet DEF Count
    <3>3. openCnt[s] = 0
      BY <2>4 DEF Init
    <3> QED BY <2>2, <2>4, <3>2, <3>3 DEF References
  <2> QED BY <2>3, <2>4
<1> QED BY <1>2, <1>3, <1>4 DEF IInv

\* Every step preserves the types, the places and the counts.
THEOREM Invariance == Spec => []IInv
<1>1. ASSUME IInv, Next
      PROVE  IInv'
  <2>1. PICK p \in Procs :
          \/ Step(p) \/ CloseFile(p)
          \/ \E call \in CallsOf[p], w \in Paths, s \in Sectors : Begin(p, call, w, s)
    BY <1>1 DEF Next
  <2>2. CASE Step(p)
    BY <1>1, <2>2, WalkStep, DescendStep, CloseStep, OpenStep, ChDirStep, LockParentStep,
       ScanStep, FlipStep, AddStep, FindStep, LockChildStep, RemoveEntryStep, CloseChildStep
       DEF Step
  <2>3. CASE CloseFile(p)
    BY <1>1, <2>3, CloseFileStep
  <2>4. CASE \E call \in CallsOf[p], w \in Paths, s \in Sectors : Begin(p, call, w, s)
    BY <1>1, <2>4, BeginStep
  <2> QED BY <2>1, <2>2, <2>3, <2>4
<1>2. ASSUME IInv, UNCHANGED vars
      PROVE  IInv'
  <2>1. TypeOK' /\ Places'
    BY <1>2 DEF IInv, TypeOK, Places, vars, diskVars, inodeVars, localVars
  <2>2. UNCHANGED <<openCnt, cwd, file, dir, child>>
    BY <1>2 DEF vars, inodeVars, localVars
  <2>3. RefCounts'
    BY <1>2, <2>2 DEF IInv, RefCounts, References, Count
  <2> QED BY <2>1, <2>3 DEF IInv
<1>3. IInv /\ [Next]_vars => IInv'
  BY <1>1, <1>2
<1> QED BY InitIInv, <1>3, PTL DEF Spec

\* The variables have their types.
THEOREM TypeCorrect == Spec => []TypeOK
<1>1. IInv => TypeOK
  BY DEF IInv
<1> QED BY <1>1, Invariance, PTL

\* On all paths through all calls an inode is counted open as often as
\* processes refer to it.
THEOREM CountsRight == Spec => []RefCounts
<1>1. IInv => RefCounts
  BY DEF IInv
<1> QED BY <1>1, Invariance, PTL

-----------------------------------------------------------------------------
(* The invariant of the tree and its locks.                                *)

\* Where a process holds the lock of its directory.
InLock == {"scan", "flip", "add", "find", "lockChild", "remove", "closeChild"}

\* Who holds which lock.
Locks ==
  /\ \A p \in Procs : pc[p] \in InLock => lock[dir[p]] = p
  /\ \A s \in Sectors, p \in Procs :
       lock[s] = p => \/ pc[p] \in InLock /\ s = dir[p]
                      \/ pc[p] = "remove" /\ s = child[p]

\* What a process found stays true while it holds the lock.
Holding ==
  \A p \in Procs :
    /\ pc[p] \in InLock \cup {"lock"} => isDir[dir[p]]
    /\ pc[p] \in {"lockChild", "remove"} => entries[dir[p]][Head(path[p])] = child[p]

\* The tree has no cycle: every set of inodes has one without an entry for another.
Acyclic ==
  \A S \in (SUBSET Sectors) \ {{}} : \E s \in S : \A n \in Names : entries[s][n] \notin S

\* An inode without entries.
Bare(s) == \A n \in Names : entries[s][n] = NULL

\* A free sector is blank.
UnusedBare ==
  \A s \in Sectors \ used :
    Bare(s) /\ ~isDir[s] /\ up[s] = NULL /\ ~removed[s] /\ openCnt[s] = 0 /\ s \notin strays

\* An entry leads from a directory in use to an inode in use, and a directory leads
\* back.  Entries of removed directories are the strays.
EntriesGood ==
  \A d \in Sectors, n \in Names : entries[d][n] # NULL =>
    /\ d \in used /\ isDir[d]
    /\ entries[d][n] \in used /\ entries[d][n] # Root /\ ~removed[entries[d][n]]
    /\ isDir[entries[d][n]] => up[entries[d][n]] = d
    /\ removed[d] <=> entries[d][n] \in strays

\* No inode has two entries.
OneName ==
  \A d, e \in Sectors, m, n \in Names :
    entries[d][m] # NULL /\ entries[d][m] = entries[e][n] => d = e /\ m = n

\* What a process is about to add is blank and nobody else has it.
NewGood ==
  \A p \in Procs : pc[p] = "add" =>
    /\ new[p] \in used /\ Bare(new[p]) /\ ~isDir[new[p]] /\ up[new[p]] = NULL
    /\ ~removed[new[p]] /\ openCnt[new[p]] = 0 /\ new[p] \notin strays
    /\ \A d \in Sectors, n \in Names : entries[d][n] # new[p]
    /\ \A q \in Procs : pc[q] = "add" /\ new[q] = new[p] => q = p

\* An inode in use has an entry, or a reason to have none.
HasName ==
  \A s \in used :
    \/ s = Root \/ s \in strays \/ removed[s]
    \/ \E p \in Procs : pc[p] = "add" /\ new[p] = s
    \/ \E d \in Sectors, n \in Names : entries[d][n] = s

\* Strays are empty.
StraysBare == \A s \in strays : s \in used /\ s # Root /\ Bare(s)

\* No process works in a stray or keeps it open.
StraysUnvisited ==
  \A p \in Procs :
    /\ cwd[p] \notin strays /\ dir[p] \notin strays /\ file[p] \notin strays
    /\ pc[p] = "descend" => child[p] \notin strays

\* A removed inode is open.
RemovedOpen == \A s \in Sectors : removed[s] => openCnt[s] > 0 /\ s # Root

\* Every directory has a parent, and the root directory is its own.
DirsGood ==
  /\ \A s \in Sectors : isDir[s] => up[s] # NULL
  /\ isDir[Root] /\ up[Root] = Root

\* What the disk holds is a tree.
TreeOnDisk ==
  /\ UnusedBare /\ EntriesGood /\ OneName /\ NewGood /\ HasName
  /\ StraysBare /\ RemovedOpen /\ DirsGood

TreeInv == Locks /\ Holding /\ Acyclic /\ (fault \/ (TreeOnDisk /\ StraysUnvisited))

-----------------------------------------------------------------------------
\* What a process refers to is open.
LEMMA OpenRefs ==
  ASSUME TypeOK, RefCounts
  PROVE  /\ openCnt[Root] > 0
         /\ \A p \in Procs : openCnt[cwd[p]] > 0
         /\ \A p \in Procs, s \in Sectors :
              s \in {cwd[p], file[p], dir[p], child[p]} => openCnt[s] > 0
<1>1. ASSUME NEW s \in Sectors
      PROVE  /\ s = Root => openCnt[s] > 0
             /\ \A p \in Procs : s \in {cwd[p], file[p], dir[p], child[p]} => openCnt[s] > 0
  <2>1. /\ Count(cwd, s) \in Nat /\ Count(file, s) \in Nat
        /\ Count(dir, s) \in Nat /\ Count(child, s) \in Nat
        /\ \A p \in Procs : s \in {cwd[p], file[p], dir[p], child[p]} =>
             Count(cwd, s) > 0 \/ Count(file, s) > 0 \/ Count(dir, s) > 0 \/ Count(child, s) > 0
    BY CountNat
  <2>2. openCnt[s] = Count(cwd, s) + Count(file, s) + Count(dir, s) + Count(child, s)
                     + (IF s = Root THEN 1 ELSE 0)
    BY DEF RefCounts, References
  <2> DEFINE k1 == Count(cwd, s)
             k2 == Count(file, s)
             k3 == Count(dir, s)
             k4 == Count(child, s)
             r == IF s = Root THEN 1 ELSE 0
             k == openCnt[s]
  <2>3. r \in {0, 1} /\ (s = Root => r = 1)
    OBVIOUS
  <2>4. k1 \in Nat /\ k2 \in Nat /\ k3 \in Nat /\ k4 \in Nat /\ k = k1 + k2 + k3 + k4 + r
    BY <2>1, <2>2
  <2>5. r = 1 \/ k1 > 0 \/ k2 > 0 \/ k3 > 0 \/ k4 > 0 => k > 0
    <3> HIDE DEF k, k1, k2, k3, k4, r
    <3> QED BY <2>3, <2>4
  <2> QED BY <2>1, <2>3, <2>5
<1> QED BY <1>1, DirectoryAssumption DEF TypeOK

LEMMA OpenRefsNext ==
  ASSUME TypeOK', RefCounts'
  PROVE  /\ openCnt'[Root] > 0
         /\ \A p \in Procs : openCnt'[cwd'[p]] > 0
         /\ \A p \in Procs, s \in Sectors :
              s \in {cwd'[p], file'[p], dir'[p], child'[p]} => openCnt'[s] > 0
<1>1. ASSUME NEW s \in Sectors
      PROVE  /\ s = Root => openCnt'[s] > 0
             /\ \A p \in Procs : s \in {cwd'[p], file'[p], dir'[p], child'[p]} => openCnt'[s] > 0
  <2>1. /\ Count(cwd', s) \in Nat /\ Count(file', s) \in Nat
        /\ Count(dir', s) \in Nat /\ Count(child', s) \in Nat
        /\ \A p \in Procs : s \in {cwd'[p], file'[p], dir'[p], child'[p]} =>
             \/ Count(cwd', s) > 0 \/ Count(file', s) > 0
             \/ Count(dir', s) > 0 \/ Count(child', s) > 0
    BY CountNat
  <2>2. openCnt'[s] = Count(cwd', s) + Count(file', s) + Count(dir', s) + Count(child', s)
                      + (IF s = Root THEN 1 ELSE 0)
    BY DEF RefCounts, References
  <2> DEFINE k1 == Count(cwd', s)
             k2 == Count(file', s)
             k3 == Count(dir', s)
             k4 == Count(child', s)
             r == IF s = Root THEN 1 ELSE 0
             k == openCnt'[s]
  <2>3. r \in {0, 1} /\ (s = Root => r = 1)
    OBVIOUS
  <2>4. k1 \in Nat /\ k2 \in Nat /\ k3 \in Nat /\ k4 \in Nat /\ k = k1 + k2 + k3 + k4 + r
    BY <2>1, <2>2
  <2>5. r = 1 \/ k1 > 0 \/ k2 > 0 \/ k3 > 0 \/ k4 > 0 => k > 0
    <3> HIDE DEF k, k1, k2, k3, k4, r
    <3> QED BY <2>3, <2>4
  <2> QED BY <2>1, <2>3, <2>5
<1> QED BY <1>1, DirectoryAssumption DEF TypeOK

-----------------------------------------------------------------------------
\* A step of p leaves the other processes where they are.
Others(p) ==
  \A q \in Procs : q # p =>
    /\ pc'[q] = pc[q] /\ op'[q] = op[q] /\ path'[q] = path[q]
    /\ dir'[q] = dir[q] /\ child'[q] = child[q] /\ new'[q] = new[q]
    /\ cwd'[q] = cwd[q] /\ file'[q] = file[q]

LEMMA StepOthers ==
  ASSUME TypeOK, NEW p \in Procs
  PROVE  /\ Step(p) => Others(p)
         /\ CloseFile(p) => Others(p)
         /\ \A call, w, start : Begin(p, call, w, start) => Others(p)
<1>1. Walk(p) => Others(p)
  BY DEF Walk, Goto, TypeOK, Others
<1>2. Descend(p) => Others(p)
  BY DEF Descend, Goto, TypeOK, Others
<1>3. Close(p) => Others(p)
  BY DEF Close, EndCall, Goto, TypeOK, Others
<1>4. Open(p) => Others(p)
  BY DEF Open, EndCall, Goto, TypeOK, Others
<1>5. ChDir(p) => Others(p)
  BY DEF ChDir, EndCall, Goto, TypeOK, Others
<1>6. LockParent(p) => Others(p)
  BY DEF LockParent, Goto, localVars, TypeOK, Others
<1>7. Scan(p) => Others(p)
  BY DEF Scan, Goto, TypeOK, Others
<1>8. Flip(p) => Others(p)
  BY DEF Flip, Goto, localVars, TypeOK, Others
<1>9. Add(p) => Others(p)
  BY DEF Add, Goto, TypeOK, Others
<1>10. Find(p) => Others(p)
  BY DEF Find, Goto, TypeOK, Others
<1>11. LockChild(p) => Others(p)
  BY DEF LockChild, Goto, localVars, TypeOK, Others
<1>12. RemoveEntry(p) => Others(p)
  BY DEF RemoveEntry, Goto, localVars, TypeOK, Others
<1>13. CloseChild(p) => Others(p)
  BY DEF CloseChild, Goto, TypeOK, Others
<1>14. CloseFile(p) => Others(p)
  BY DEF CloseFile, localVars, TypeOK, Others
<1>15. \A call, w, start : Begin(p, call, w, start) => Others(p)
  BY DEF Begin, Goto, TypeOK, Others
<1> QED BY <1>1, <1>2, <1>3, <1>4, <1>5, <1>6, <1>7, <1>8, <1>9, <1>10, <1>11, <1>12, <1>13,
           <1>14, <1>15 DEF Step

-----------------------------------------------------------------------------
(* The locks.                                                              *)

\* Outside its calls' locks a process holds none.
LEMMA LocksOutside ==
  ASSUME Locks, NEW p \in Procs, Others(p), lock' = lock,
         pc[p] \notin InLock, pc'[p] \notin InLock
  PROVE  Locks'
BY DEF Locks, Others, InLock

\* A step under the lock of the parent.
LEMMA LocksInside ==
  ASSUME Locks, NEW p \in Procs, Others(p), lock' = lock, dir'[p] = dir[p],
         pc[p] \in InLock \ {"remove"}, pc'[p] \in InLock
  PROVE  Locks'
BY DEF Locks, Others, InLock

\* The last step under the lock of the parent.
LEMMA LocksReleased ==
  ASSUME TypeOK, Locks, Places, NEW p \in Procs, Others(p), UnlockParent(p),
         pc[p] \in InLock \ {"remove"}, pc'[p] \notin InLock
  PROVE  Locks'
<1>1. /\ dir[p] \in Sectors
      /\ lock'[dir[p]] = NULL
      /\ \A s \in Sectors : s # dir[p] => lock'[s] = lock[s]
      /\ lock[dir[p]] = p
  BY DEF UnlockParent, TypeOK, Locks, Places, InLock
<1>2. ASSUME NEW q \in Procs, pc'[q] \in InLock
      PROVE  lock'[dir'[q]] = q
  <2>1. q # p /\ pc[q] \in InLock /\ dir'[q] = dir[q] /\ lock[dir[q]] = q
    BY <1>2 DEF Others, Locks
  <2>2. dir[q] # dir[p]
    BY <1>1, <2>1
  <2>3. dir[q] \in Sectors
    BY <2>1 DEF TypeOK, Places, InLock
  <2> QED BY <1>1, <2>1, <2>2, <2>3
<1>3. ASSUME NEW s \in Sectors, NEW q \in Procs, lock'[s] = q
      PROVE  \/ pc'[q] \in InLock /\ s = dir'[q]
             \/ pc'[q] = "remove" /\ s = child'[q]
  <2>1. NULL \notin Procs
    BY DirectoryAssumption
  <2> QED BY <1>1, <1>3, <2>1 DEF Others, Locks, InLock
<1> QED BY <1>2, <1>3 DEF Locks

\* A lock that was free is taken.
LEMMA LocksTaken ==
  ASSUME TypeOK, Locks, Places, NEW p \in Procs, Others(p),
         dir'[p] = dir[p], child'[p] = child[p], NEW x \in Sectors,
         lock[x] = NULL, lock' = [lock EXCEPT ![x] = p],
         \/ x = dir[p] /\ pc[p] \notin InLock /\ pc'[p] \in InLock
         \/ x = child[p] /\ pc[p] \in InLock \ {"remove"} /\ pc'[p] = "remove"
  PROVE  Locks'
<1>1. /\ lock'[x] = p /\ NULL \notin Procs
      /\ \A s \in Sectors : s # x => lock'[s] = lock[s]
  BY DirectoryAssumption DEF TypeOK
<1>2. ASSUME NEW q \in Procs, pc'[q] \in InLock
      PROVE  lock'[dir'[q]] = q
  <2>1. CASE q = p /\ pc[p] \notin InLock
    BY <1>1, <2>1 DEF InLock
  <2>2. CASE pc[q] \in InLock
    <3>1. lock[dir[q]] = q /\ dir'[q] = dir[q] /\ dir[q] \in Sectors
      BY <2>2 DEF Locks, Others, TypeOK, Places, InLock
    <3>2. dir[q] # x
      BY <1>1, <3>1
    <3> QED BY <1>1, <3>1, <3>2
  <2> QED BY <1>2, <2>1, <2>2 DEF Others, InLock
<1>3. ASSUME NEW s \in Sectors, NEW q \in Procs, lock'[s] = q
      PROVE  \/ pc'[q] \in InLock /\ s = dir'[q]
             \/ pc'[q] = "remove" /\ s = child'[q]
  <2>1. CASE s = x
    BY <1>1, <1>3, <2>1 DEF InLock
  <2>2. CASE s # x
    <3>1. lock[s] = q
      BY <1>1, <1>3, <2>2
    <3> QED BY <3>1 DEF Locks, Others, InLock
  <2> QED BY <2>1, <2>2
<1> QED BY <1>2, <1>3 DEF Locks

\* An entry leads to another inode.
LEMMA NoSelfEntry ==
  ASSUME Acyclic, NEW d \in Sectors, NEW n \in Names
  PROVE  entries[d][n] # d
<1>1. {d} \in (SUBSET Sectors) \ {{}}
  OBVIOUS
<1> QED BY <1>1 DEF Acyclic

\* Entries that disappear make no cycle.
LEMMA FewerEntries ==
  ASSUME Acyclic,
         \A s \in Sectors, n \in Names : entries'[s][n] \in {entries[s][n], NULL}
  PROVE  Acyclic'
<1> SUFFICES ASSUME NEW S \in (SUBSET Sectors) \ {{}}
             PROVE  \E s \in S : \A n \in Names : entries'[s][n] \notin S
  BY DEF Acyclic
<1>1. PICK s \in S : \A n \in Names : entries[s][n] \notin S
  BY DEF Acyclic
<1>2. s \in Sectors /\ NULL \notin S
  BY DirectoryAssumption
<1> QED BY <1>1, <1>2

\* Nor does an entry for an inode that has none.
LEMMA OneEntryMore ==
  ASSUME Acyclic, NEW x \in Sectors,
         \A n \in Names : entries'[x][n] = NULL,
         \A s \in Sectors, n \in Names :
           entries'[s][n] \in {entries[s][n], NULL} \/ entries'[s][n] = x
  PROVE  Acyclic'
<1> SUFFICES ASSUME NEW S \in (SUBSET Sectors) \ {{}}
             PROVE  \E s \in S : \A n \in Names : entries'[s][n] \notin S
  BY DEF Acyclic
<1>1. NULL \notin S
  BY DirectoryAssumption
<1>2. CASE x \in S
  BY <1>1, <1>2
<1>3. CASE x \notin S
  <2>1. PICK s \in S : \A n \in Names : entries[s][n] \notin S
    BY DEF Acyclic
  <2>2. s \in Sectors
    OBVIOUS
  <2> QED BY <1>1, <1>3, <2>1, <2>2
<1> QED BY <1>2, <1>3

-----------------------------------------------------------------------------
(* The tree.                                                               *)

\* A step that changes no directory, and opens inodes that are used.
LEMMA TreeOpened ==
  ASSUME TypeOK, TreeOnDisk, NEW p \in Procs, Others(p),
         UNCHANGED <<used, isDir, entries, up, removed, strays>>,
         pc[p] # "add", pc'[p] # "add",
         \A s \in Sectors :
           \/ openCnt'[s] = openCnt[s]
           \/ /\ openCnt'[s] > 0 /\ s \in used
              /\ \A q \in Procs : pc[q] = "add" => new[q] # s
  PROVE  TreeOnDisk'
<1>1. \A q \in Procs : /\ pc'[q] = "add" <=> pc[q] = "add"
                       /\ pc[q] = "add" => new'[q] = new[q]
  BY DEF Others
<1>2. UnusedBare'
  BY DEF TreeOnDisk, UnusedBare, Bare
<1>3. EntriesGood' /\ OneName' /\ StraysBare' /\ DirsGood'
  BY DEF TreeOnDisk, EntriesGood, OneName, StraysBare, DirsGood, Bare
<1>4. NewGood'
  <2> SUFFICES ASSUME NEW q \in Procs, pc'[q] = "add"
               PROVE  /\ new'[q] \in used /\ Bare(new[q]) /\ ~isDir[new[q]] /\ up[new[q]] = NULL
                      /\ ~removed[new[q]] /\ openCnt'[new[q]] = 0 /\ new[q] \notin strays
                      /\ new'[q] = new[q]
                      /\ \A d \in Sectors, n \in Names : entries[d][n] # new[q]
                      /\ \A r \in Procs : pc'[r] = "add" /\ new'[r] = new[q] => r = q
    BY DEF NewGood, Bare
  <2>1. pc[q] = "add" /\ new'[q] = new[q] /\ new[q] \in Sectors
    BY <1>1 DEF TypeOK, TreeOnDisk, NewGood
  <2>2. openCnt'[new[q]] = openCnt[new[q]]
    BY <2>1
  <2> QED BY <1>1, <2>1, <2>2 DEF TreeOnDisk, NewGood
<1>5. HasName'
  BY <1>1 DEF TreeOnDisk, HasName
<1>6. RemovedOpen'
  BY DEF TreeOnDisk, RemovedOpen
<1> QED BY <1>2, <1>3, <1>4, <1>5, <1>6 DEF TreeOnDisk

\* What is left when an inode is closed.
LEMMA AfterClose ==
  ASSUME TypeOK, NEW x \in Sectors, openCnt[x] > 0, CloseInode(x)
  PROVE  LET gone(s) == s = x /\ openCnt[x] = 1 /\ removed[x]
         IN  /\ \A s \in Sectors : openCnt'[s] = IF s = x THEN openCnt[s] - 1 ELSE openCnt[s]
             /\ \A s \in Sectors :
                  /\ s \in used' <=> s \in used /\ ~gone(s)
                  /\ isDir'[s] <=> isDir[s] /\ ~gone(s)
                  /\ removed'[s] <=> removed[s] /\ ~gone(s)
                  /\ up'[s] = IF gone(s) THEN NULL ELSE up[s]
                  /\ s \in strays' <=> s \in strays /\ ~gone(s)
                  /\ \A n \in Names :
                       entries'[s][n] = IF gone(s) THEN NULL ELSE entries[s][n]
<1>1. FreedByClose(x) = {s \in {x} : openCnt[x] = 1 /\ removed[x]}
  BY DEF FreedByClose
<1>2. \A s \in Sectors : s \in FreedByClose(x) <=> (s = x /\ openCnt[x] = 1 /\ removed[x])
  BY <1>1
<1>3. /\ openCnt' = [openCnt EXCEPT ![x] = @ - 1]
      /\ removed' = [removed EXCEPT ![x] = @ /\ x \notin FreedByClose(x)]
      /\ used' = used \ FreedByClose(x)
      /\ isDir' = [s \in Sectors |-> isDir[s] /\ s \notin FreedByClose(x)]
      /\ entries' = [s \in Sectors |-> IF s \in FreedByClose(x) THEN NoEntries ELSE entries[s]]
      /\ up' = [s \in Sectors |-> IF s \in FreedByClose(x) THEN NULL ELSE up[s]]
      /\ strays' = strays \ FreedByClose(x)
  BY DEF CloseInode, Free
<1>4. \A s \in Sectors : openCnt'[s] = IF s = x THEN openCnt[s] - 1 ELSE openCnt[s]
  BY <1>3 DEF TypeOK
<1>5. ASSUME NEW s \in Sectors
      PROVE  /\ s \in used' <=> s \in used /\ s \notin FreedByClose(x)
             /\ isDir'[s] <=> isDir[s] /\ s \notin FreedByClose(x)
             /\ removed'[s] <=> removed[s] /\ s \notin FreedByClose(x)
             /\ up'[s] = IF s \in FreedByClose(x) THEN NULL ELSE up[s]
             /\ s \in strays' <=> s \in strays /\ s \notin FreedByClose(x)
             /\ \A n \in Names :
                  entries'[s][n] = IF s \in FreedByClose(x) THEN NULL ELSE entries[s][n]
  <2>1. removed'[s] <=> removed[s] /\ s \notin FreedByClose(x)
    BY <1>2, <1>3 DEF TypeOK
  <2>2. \A n \in Names :
          entries'[s][n] = IF s \in FreedByClose(x) THEN NULL ELSE entries[s][n]
    BY <1>3 DEF NoEntries
  <2> QED BY <1>3, <2>1, <2>2
<1> HIDE DEF CloseInode
<1> QED BY <1>2, <1>4, <1>5

\* Closing an inode leaves the tree good: what is freed had no name, and no
\* entries but those for strays.
LEMMA TreeClosed ==
  ASSUME TypeOK, TreeOnDisk, NEW p \in Procs, Others(p), pc[p] # "add", pc'[p] # "add",
         NEW x \in Sectors, openCnt[x] > 0, CloseInode(x)
  PROVE  TreeOnDisk'
<1> DEFINE gone(s) == s = x /\ openCnt[x] = 1 /\ removed[x]
<1>1. \A q \in Procs : /\ pc'[q] = "add" <=> pc[q] = "add"
                       /\ pc[q] = "add" => new'[q] = new[q]
  BY DEF Others
<1>2. /\ \A s \in Sectors : openCnt'[s] = IF s = x THEN openCnt[s] - 1 ELSE openCnt[s]
      /\ \A s \in Sectors :
                  /\ s \in used' <=> s \in used /\ ~gone(s)
                  /\ isDir'[s] <=> isDir[s] /\ ~gone(s)
                  /\ removed'[s] <=> removed[s] /\ ~gone(s)
                  /\ up'[s] = IF gone(s) THEN NULL ELSE up[s]
                  /\ s \in strays' <=> s \in strays /\ ~gone(s)
                  /\ \A n \in Names :
                       entries'[s][n] = IF gone(s) THEN NULL ELSE entries[s][n]
  BY AfterClose
<1>3. /\ \A s \in Sectors : gone(s) => s = x /\ openCnt[s] = 1 /\ removed[s] /\ s # Root
      /\ \A d \in Sectors, n \in Names : entries[d][n] # NULL => ~gone(entries[d][n])
      /\ \A q \in Procs : pc[q] = "add" => new[q] # x
      /\ \A d \in Sectors, n \in Names : entries[d][n] \in Sectors \cup {NULL}
      /\ used \subseteq Sectors /\ used' \subseteq Sectors
      /\ x \in used /\ NULL \notin Sectors
      /\ \A s \in Sectors : openCnt[s] \in Nat
  <2>1. \A s \in Sectors : openCnt[s] \in Nat
    BY DEF TypeOK
  <2>2. \A d \in Sectors, n \in Names : entries[d][n] \in Sectors \cup {NULL}
    BY DEF TypeOK
  <2>3. used \subseteq Sectors /\ used' \subseteq Sectors
    BY DEF TypeOK, CloseInode, Free
  <2>4. \A s \in Sectors : gone(s) => s = x /\ openCnt[s] = 1 /\ removed[s] /\ s # Root
    BY DEF TreeOnDisk, RemovedOpen
  <2>5. \A d \in Sectors, n \in Names : entries[d][n] # NULL => ~gone(entries[d][n])
    BY DEF TreeOnDisk, EntriesGood
  <2>6. \A q \in Procs : pc[q] = "add" => new[q] # x
    BY DEF TreeOnDisk, NewGood
  <2>7. x \in used
    BY <2>1 DEF TreeOnDisk, UnusedBare
  <2> QED BY <2>1, <2>2, <2>3, <2>4, <2>5, <2>6, <2>7, DirectoryAssumption
<1> HIDE DEF gone
<1>4. UnusedBare'
  <2> SUFFICES ASSUME NEW s \in Sectors, s \notin used'
               PROVE  /\ ~isDir'[s] /\ up'[s] = NULL /\ ~removed'[s] /\ openCnt'[s] = 0
                      /\ s \notin strays' /\ \A n \in Names : entries'[s][n] = NULL
    BY DEF UnusedBare, Bare
  <2>1. CASE gone(s)
    BY <1>2, <1>3, <2>1
  <2>2. CASE ~gone(s)
    BY <1>2, <1>3, <2>2 DEF TreeOnDisk, UnusedBare, Bare
  <2> QED BY <2>1, <2>2
<1>5. EntriesGood'
  <2> SUFFICES ASSUME NEW d \in Sectors, NEW n \in Names, entries'[d][n] # NULL
               PROVE  /\ d \in used' /\ isDir'[d]
                      /\ entries'[d][n] \in used' /\ entries'[d][n] # Root
                      /\ ~removed'[entries'[d][n]]
                      /\ isDir'[entries'[d][n]] => up'[entries'[d][n]] = d
                      /\ removed'[d] <=> entries'[d][n] \in strays'
    BY DEF EntriesGood
  <2>1. /\ ~gone(d) /\ entries'[d][n] = entries[d][n] /\ entries[d][n] # NULL
        /\ entries[d][n] \in Sectors /\ ~gone(entries[d][n])
    BY <1>2, <1>3
  <2> QED BY <1>2, <2>1 DEF TreeOnDisk, EntriesGood
<1>6. OneName'
  <2>1. \A d \in Sectors, n \in Names : entries'[d][n] # NULL => entries'[d][n] = entries[d][n]
    BY <1>2
  <2> QED BY <2>1 DEF TreeOnDisk, OneName
<1>7. NewGood'
  <2> SUFFICES ASSUME NEW q \in Procs, pc'[q] = "add"
               PROVE  /\ new[q] \in used' /\ ~isDir'[new[q]] /\ up'[new[q]] = NULL
                      /\ \A n \in Names : entries'[new[q]][n] = NULL
                      /\ ~removed'[new[q]] /\ openCnt'[new[q]] = 0 /\ new[q] \notin strays'
                      /\ new'[q] = new[q]
                      /\ \A d \in Sectors, n \in Names : entries'[d][n] # new[q]
                      /\ \A r \in Procs : pc'[r] = "add" /\ new'[r] = new[q] => r = q
    BY DEF NewGood, Bare
  <2>1. /\ pc[q] = "add" /\ new'[q] = new[q] /\ new[q] \in Sectors /\ new[q] # x
        /\ ~gone(new[q])
    BY <1>1, <1>3 DEF TreeOnDisk, NewGood
  <2>2. /\ new[q] \in used /\ ~isDir[new[q]] /\ up[new[q]] = NULL
        /\ \A n \in Names : entries[new[q]][n] = NULL
        /\ ~removed[new[q]] /\ openCnt[new[q]] = 0 /\ new[q] \notin strays
        /\ \A d \in Sectors, n \in Names : entries[d][n] # new[q]
        /\ \A r \in Procs : pc[r] = "add" /\ new[r] = new[q] => r = q
    BY <2>1 DEF TreeOnDisk, NewGood, Bare
  <2>3. \A d \in Sectors, n \in Names : entries'[d][n] # new[q]
    BY <1>2, <1>3, <2>1, <2>2
  <2>4. \A r \in Procs : pc'[r] = "add" /\ new'[r] = new[q] => r = q
    BY <1>1, <2>2
  <2> QED BY <1>2, <2>1, <2>2, <2>3, <2>4
<1>8. HasName'
  <2> SUFFICES ASSUME NEW s \in used'
               PROVE  \/ s = Root \/ s \in strays' \/ removed'[s]
                      \/ \E q \in Procs : pc'[q] = "add" /\ new'[q] = s
                      \/ \E d \in Sectors, n \in Names : entries'[d][n] = s
    BY DEF HasName
  <2>1. s \in Sectors /\ s \in used /\ ~gone(s)
    BY <1>2, <1>3
  <2>2. \/ s = Root \/ s \in strays \/ removed[s]
        \/ \E q \in Procs : pc[q] = "add" /\ new[q] = s
        \/ \E d \in Sectors, n \in Names : entries[d][n] = s /\ s \notin strays
    BY <2>1 DEF TreeOnDisk, HasName
  <2>3. CASE s = Root \/ s \in strays \/ removed[s]
    BY <1>2, <2>1, <2>3
  <2>4. CASE \E q \in Procs : pc[q] = "add" /\ new[q] = s
    BY <1>1, <2>4
  <2>5. ASSUME NEW d \in Sectors, NEW n \in Names, entries[d][n] = s, s \notin strays
        PROVE  entries'[d][n] = s
    <3>1. ~removed[d]
      BY <1>3, <2>1, <2>5 DEF TreeOnDisk, EntriesGood
    <3>2. ~gone(d)
      BY <1>3, <3>1
    <3> QED BY <1>2, <2>5, <3>2
  <2> QED BY <2>2, <2>3, <2>4, <2>5
<1>9. StraysBare'
  <2>1. strays' \subseteq strays /\ strays \subseteq Sectors
    BY DEF CloseInode, Free, TypeOK
  <2> QED BY <1>2, <2>1 DEF TreeOnDisk, StraysBare, Bare
<1>10. RemovedOpen'
  <2> SUFFICES ASSUME NEW s \in Sectors, removed'[s]
               PROVE  openCnt'[s] > 0 /\ s # Root
    BY DEF RemovedOpen
  <2>1. removed[s] /\ ~gone(s) /\ openCnt[s] > 0 /\ s # Root /\ openCnt[s] \in Nat
    BY <1>2, <1>3 DEF TreeOnDisk, RemovedOpen
  <2>2. CASE s = x
    <3>1. openCnt[s] # 1
      BY <2>1, <2>2 DEF gone
    <3> QED BY <1>2, <2>1, <2>2, <3>1
  <2>3. CASE s # x
    BY <1>2, <2>1, <2>3
  <2> QED BY <2>2, <2>3
<1>11. DirsGood'
  <2>1. ~gone(Root) /\ Root \in Sectors
    BY <1>3, DirectoryAssumption
  <2> QED BY <1>2, <2>1 DEF TreeOnDisk, DirsGood
<1> QED BY <1>4, <1>5, <1>6, <1>7, <1>8, <1>9, <1>10, <1>11 DEF TreeOnDisk

\* A sector that was free becomes that of a new inode.
LEMMA TreeFlipped ==
  ASSUME TypeOK, Places, TreeOnDisk, NEW p \in Procs, Others(p), Flip(p), ~fault'
  PROVE  TreeOnDisk'
<1> DEFINE x == new[p]
<1>1. /\ x \in Sectors /\ x \notin used /\ x # NULL /\ used' = used \cup {x}
      /\ pc[p] = "flip" /\ pc'[p] = "add" /\ new' = new
      /\ UNCHANGED <<isDir, entries, up, openCnt, removed, strays>>
  BY DEF Flip, Goto, inodeVars, localVars, TypeOK, Places
<1>2. /\ \A n \in Names : entries[x][n] = NULL
      /\ ~isDir[x] /\ up[x] = NULL /\ ~removed[x] /\ openCnt[x] = 0 /\ x \notin strays
      /\ \A d \in Sectors, n \in Names : entries[d][n] # x
      /\ \A q \in Procs : pc[q] = "add" => new[q] # x
  BY <1>1 DEF TreeOnDisk, UnusedBare, EntriesGood, NewGood, Bare
<1>3. \A q \in Procs : pc'[q] = "add" <=> pc[q] = "add" \/ q = p
  BY <1>1 DEF Others
<1> HIDE DEF x
<1>4. UnusedBare' /\ EntriesGood' /\ OneName' /\ StraysBare' /\ RemovedOpen' /\ DirsGood'
  BY <1>1 DEF TreeOnDisk, UnusedBare, EntriesGood, OneName, StraysBare, RemovedOpen, DirsGood, Bare
<1>5. NewGood'
  <2> SUFFICES ASSUME NEW q \in Procs, pc'[q] = "add"
               PROVE  /\ new[q] \in used' /\ ~isDir[new[q]] /\ up[new[q]] = NULL
                      /\ \A n \in Names : entries[new[q]][n] = NULL
                      /\ ~removed[new[q]] /\ openCnt[new[q]] = 0 /\ new[q] \notin strays
                      /\ \A d \in Sectors, n \in Names : entries[d][n] # new[q]
                      /\ \A r \in Procs : pc'[r] = "add" /\ new[r] = new[q] => r = q
    BY <1>1 DEF NewGood, Bare
  <2>1. CASE q = p
    BY <1>1, <1>2, <1>3, <2>1 DEF x
  <2>2. CASE q # p
    BY <1>1, <1>2, <1>3, <2>2 DEF x, TreeOnDisk, NewGood, Bare
  <2> QED BY <2>1, <2>2
<1>6. HasName'
  <2> SUFFICES ASSUME NEW s \in used'
               PROVE  \/ s = Root \/ s \in strays \/ removed[s]
                      \/ \E q \in Procs : pc'[q] = "add" /\ new[q] = s
                      \/ \E d \in Sectors, n \in Names : entries[d][n] = s
    BY <1>1 DEF HasName
  <2>1. CASE s = x
    BY <1>3, <2>1 DEF x
  <2>2. CASE s # x
    BY <1>1, <1>3, <2>2 DEF TreeOnDisk, HasName
  <2> QED BY <2>1, <2>2
<1> QED BY <1>4, <1>5, <1>6 DEF TreeOnDisk

\* A sector that was not needed is given back.
LEMMA TreeGivenBack ==
  ASSUME TypeOK, TreeOnDisk, NEW p \in Procs, Others(p), pc[p] = "add", pc'[p] # "add",
         used' = used \ {new[p]},
         UNCHANGED <<isDir, entries, up, openCnt, removed, strays>>
  PROVE  TreeOnDisk'
<1> DEFINE x == new[p]
<1>1. \A q \in Procs : /\ pc'[q] = "add" <=> pc[q] = "add" /\ q # p
                       /\ q # p => new'[q] = new[q]
  BY DEF Others
<1>2. /\ \A n \in Names : entries[x][n] = NULL
      /\ ~isDir[x] /\ up[x] = NULL /\ ~removed[x] /\ openCnt[x] = 0 /\ x \notin strays
      /\ \A d \in Sectors, n \in Names : entries[d][n] # x
      /\ \A q \in Procs : pc[q] = "add" /\ q # p => new[q] # x
      /\ \A s \in Sectors : s \notin used' <=> s \notin used \/ s = x
      /\ x \in used /\ used' = used \ {x}
  BY DEF TreeOnDisk, NewGood, Bare
<1> HIDE DEF x
<1>3. UnusedBare'
  BY <1>2 DEF TreeOnDisk, UnusedBare, Bare
<1>4. EntriesGood'
  <2>1. \A d \in Sectors, n \in Names : entries[d][n] # NULL => d # x /\ entries[d][n] # x
    BY <1>2
  <2> QED BY <1>2, <2>1 DEF TreeOnDisk, EntriesGood
<1>5. OneName' /\ RemovedOpen' /\ DirsGood'
  BY DEF TreeOnDisk, OneName, RemovedOpen, DirsGood
<1>6. StraysBare'
  BY <1>2 DEF TreeOnDisk, StraysBare, Bare
<1>7. NewGood'
  <2> SUFFICES ASSUME NEW q \in Procs, pc'[q] = "add"
               PROVE  /\ new'[q] = new[q]
                      /\ new[q] \in used' /\ ~isDir[new[q]] /\ up[new[q]] = NULL
                      /\ \A n \in Names : entries[new[q]][n] = NULL
                      /\ ~removed[new[q]] /\ openCnt[new[q]] = 0 /\ new[q] \notin strays
                      /\ \A d \in Sectors, n \in Names : entries[d][n] # new[q]
                      /\ \A r \in Procs : pc'[r] = "add" /\ new'[r] = new[q] => r = q
    BY DEF NewGood, Bare
  <2>1. pc[q] = "add" /\ q # p /\ new'[q] = new[q]
    BY <1>1
  <2> QED BY <1>1, <1>2, <2>1 DEF TreeOnDisk, NewGood, Bare
<1>8. HasName'
  <2> SUFFICES ASSUME NEW s \in used'
               PROVE  \/ s = Root \/ s \in strays \/ removed[s]
                      \/ \E q \in Procs : pc'[q] = "add" /\ new'[q] = s
                      \/ \E d \in Sectors, n \in Names : entries[d][n] = s
    BY DEF HasName
  <2>1. s \in used /\ s # x
    BY <1>2
  <2>2. \A q \in Procs : pc[q] = "add" /\ new[q] = s => pc'[q] = "add" /\ new'[q] = s
    BY <1>1, <2>1 DEF x
  <2> QED BY <2>1, <2>2 DEF TreeOnDisk, HasName
<1> QED BY <1>3, <1>4, <1>5, <1>6, <1>7, <1>8 DEF TreeOnDisk

\* Inode x gets name n in directory d; it is a stray if d was removed.
AddsName(d, n, x, made) ==
  /\ \A s \in Sectors :
       /\ isDir'[s] = IF s = x THEN made ELSE isDir[s]
       /\ up'[s] = IF s = x THEN (IF made THEN d ELSE NULL) ELSE up[s]
       /\ s \in strays' <=> s \in strays \/ (s = x /\ removed[d])
       /\ \A m \in Names : entries'[s][m] = IF s = d /\ m = n THEN x ELSE entries[s][m]
  /\ UNCHANGED <<used, openCnt, removed>>

\* A new inode gets a name in a directory that somebody has open.
LEMMA TreeAdded ==
  ASSUME TypeOK, TreeOnDisk, NEW p \in Procs, Others(p), pc[p] = "add", pc'[p] # "add",
         NEW d \in Sectors, NEW n \in Names, NEW made \in BOOLEAN, NEW x, x = new[p],
         openCnt[d] > 0, isDir[d], d \notin strays, entries[d][n] = NULL, x # Root,
         x \in Sectors,
         AddsName(d, n, x, made), strays' \subseteq Sectors
  PROVE  TreeOnDisk'
<1> USE DEF AddsName
<1>1. \A q \in Procs : /\ pc'[q] = "add" <=> pc[q] = "add" /\ q # p
                       /\ q # p => new'[q] = new[q]
  BY DEF Others
<1>2. /\ \A m \in Names : entries[x][m] = NULL
      /\ ~isDir[x] /\ up[x] = NULL /\ ~removed[x] /\ openCnt[x] = 0 /\ x \notin strays
      /\ \A e \in Sectors, m \in Names : entries[e][m] # x
      /\ \A q \in Procs : pc[q] = "add" /\ q # p => new[q] # x
      /\ x \in used /\ x # d /\ x # NULL /\ d # NULL
  BY DirectoryAssumption DEF TreeOnDisk, NewGood, Bare
<1>3. d \in used
  BY DEF TreeOnDisk, UnusedBare
<1>4. UnusedBare'
  <2> SUFFICES ASSUME NEW s \in Sectors \ used
               PROVE  /\ ~isDir'[s] /\ up'[s] = NULL /\ ~removed[s] /\ openCnt[s] = 0
                      /\ s \notin strays' /\ \A m \in Names : entries'[s][m] = NULL
    BY DEF UnusedBare, Bare
  <2>1. s # x /\ s # d
    BY <1>2, <1>3
  <2> QED BY <2>1 DEF TreeOnDisk, UnusedBare, Bare
<1>5. EntriesGood'
  <2> SUFFICES ASSUME NEW e \in Sectors, NEW m \in Names, entries'[e][m] # NULL
               PROVE  /\ e \in used /\ isDir'[e]
                      /\ entries'[e][m] \in used /\ entries'[e][m] # Root
                      /\ ~removed[entries'[e][m]]
                      /\ isDir'[entries'[e][m]] => up'[entries'[e][m]] = e
                      /\ removed[e] <=> entries'[e][m] \in strays'
    BY DEF EntriesGood
  <2>1. CASE e = d /\ m = n
    <3>1. entries'[e][m] = x
      BY <2>1
    <3> QED BY <1>2, <1>3, <2>1, <3>1
  <2>2. CASE ~(e = d /\ m = n)
    <3>1. entries'[e][m] = entries[e][m] /\ entries[e][m] # x /\ e # x
      BY <1>2, <2>2
    <3>2. entries[e][m] \in Sectors
      BY <3>1 DEF TypeOK
    <3> QED BY <3>1, <3>2 DEF TreeOnDisk, EntriesGood
  <2> QED BY <2>1, <2>2
<1>6. OneName'
  <2> SUFFICES ASSUME NEW e \in Sectors, NEW f \in Sectors, NEW l \in Names, NEW m \in Names,
                      entries'[e][l] # NULL, entries'[e][l] = entries'[f][m]
               PROVE  e = f /\ l = m
    BY DEF OneName
  <2>1. CASE (e = d /\ l = n) \/ (f = d /\ m = n)
    BY <1>2, <2>1
  <2>2. CASE ~(e = d /\ l = n) /\ ~(f = d /\ m = n)
    BY <2>2 DEF TreeOnDisk, OneName
  <2> QED BY <2>1, <2>2
<1>7. NewGood'
  <2> SUFFICES ASSUME NEW q \in Procs, pc'[q] = "add"
               PROVE  /\ new'[q] = new[q]
                      /\ new[q] \in used /\ ~isDir'[new[q]] /\ up'[new[q]] = NULL
                      /\ \A m \in Names : entries'[new[q]][m] = NULL
                      /\ ~removed[new[q]] /\ openCnt[new[q]] = 0 /\ new[q] \notin strays'
                      /\ \A e \in Sectors, m \in Names : entries'[e][m] # new[q]
                      /\ \A r \in Procs : pc'[r] = "add" /\ new'[r] = new[q] => r = q
    BY DEF NewGood, Bare
  <2>1. pc[q] = "add" /\ q # p /\ new'[q] = new[q] /\ new[q] # x
    BY <1>1, <1>2
  <2>2. /\ new[q] \in used /\ ~isDir[new[q]] /\ up[new[q]] = NULL
        /\ \A m \in Names : entries[new[q]][m] = NULL
        /\ ~removed[new[q]] /\ openCnt[new[q]] = 0 /\ new[q] \notin strays
        /\ \A e \in Sectors, m \in Names : entries[e][m] # new[q]
        /\ \A r \in Procs : pc[r] = "add" /\ new[r] = new[q] => r = q
    BY <2>1 DEF TreeOnDisk, NewGood, Bare
  <2>3. new[q] \in Sectors /\ new[q] # d
    BY <2>2 DEF TypeOK
  <2> QED BY <1>1, <2>1, <2>2, <2>3
<1>8. HasName'
  <2> SUFFICES ASSUME NEW s \in used
               PROVE  \/ s = Root \/ s \in strays' \/ removed[s]
                      \/ \E q \in Procs : pc'[q] = "add" /\ new'[q] = s
                      \/ \E e \in Sectors, m \in Names : entries'[e][m] = s
    BY DEF HasName
  <2>1. CASE s = x
    BY <2>1
  <2>2. CASE s # x
    <3>1. \/ s = Root \/ s \in strays \/ removed[s]
          \/ \E q \in Procs : pc[q] = "add" /\ new[q] = s
          \/ \E e \in Sectors, m \in Names : entries[e][m] = s
      BY DEF TreeOnDisk, HasName
    <3>2. s \in Sectors /\ s # NULL
      BY DirectoryAssumption DEF TypeOK
    <3>3. \A q \in Procs : pc[q] = "add" /\ new[q] = s => pc'[q] = "add" /\ new'[q] = s
      BY <1>1, <2>2
    <3>4. \A e \in Sectors, m \in Names : entries[e][m] = s => entries'[e][m] = s
      BY <3>2
    <3> QED BY <3>1, <3>2, <3>3, <3>4
  <2> QED BY <2>1, <2>2
<1>9. StraysBare'
  <2> SUFFICES ASSUME NEW s \in strays'
               PROVE  s \in used /\ s # Root /\ \A m \in Names : entries'[s][m] = NULL
    BY DEF StraysBare, Bare
  <2>1. s \in Sectors /\ s # d
    BY <1>2
  <2> QED BY <1>2, <2>1 DEF TreeOnDisk, StraysBare, Bare
<1>10. RemovedOpen'
  BY DEF TreeOnDisk, RemovedOpen
<1>11. DirsGood'
  <2>1. isDir'[Root] /\ up'[Root] = Root
    BY DirectoryAssumption DEF TreeOnDisk, DirsGood
  <2>2. ASSUME NEW s \in Sectors, isDir'[s]
        PROVE  up'[s] # NULL
    BY <1>2, <2>2 DEF TreeOnDisk, DirsGood
  <2> QED BY <2>1, <2>2 DEF DirsGood
<1> QED BY <1>4, <1>5, <1>6, <1>7, <1>8, <1>9, <1>10, <1>11 DEF TreeOnDisk

\* Inode c is removed, and its name n in directory d.
RemovesName(d, n, c) ==
  /\ \A s \in Sectors :
       /\ removed'[s] <=> removed[s] \/ s = c
       /\ \A m \in Names : entries'[s][m] = IF s = d /\ m = n THEN NULL ELSE entries[s][m]
  /\ UNCHANGED <<used, isDir, up, openCnt, strays>>

\* An inode that is open, and has no entries, loses its name.
LEMMA TreeRemoved ==
  ASSUME TypeOK, TreeOnDisk, NEW p \in Procs, Others(p), pc[p] # "add", pc'[p] # "add",
         NEW d \in Sectors, NEW n \in Names, NEW c \in Sectors, entries[d][n] = c,
         openCnt[c] > 0, \A m \in Names : entries[c][m] = NULL,
         RemovesName(d, n, c)
  PROVE  TreeOnDisk'
<1> USE DEF RemovesName
<1>1. \A q \in Procs : /\ pc'[q] = "add" <=> pc[q] = "add"
                       /\ pc[q] = "add" => new'[q] = new[q]
  BY DEF Others
<1>2. c # NULL /\ c # Root /\ c \in used /\ used \subseteq Sectors /\ strays \subseteq Sectors
  BY DirectoryAssumption DEF TreeOnDisk, EntriesGood, TypeOK
<1>3. \A e \in Sectors, m \in Names :
        entries'[e][m] # NULL => /\ entries'[e][m] = entries[e][m] /\ entries[e][m] # c
                                 /\ e # c /\ entries[e][m] \in Sectors
  BY <1>2 DEF TreeOnDisk, OneName, TypeOK
<1>4. UnusedBare'
  BY <1>2 DEF TreeOnDisk, UnusedBare, Bare
<1>5. EntriesGood'
  BY <1>3 DEF TreeOnDisk, EntriesGood
<1>6. OneName'
  BY <1>3 DEF TreeOnDisk, OneName
<1>7. NewGood'
  <2> SUFFICES ASSUME NEW q \in Procs, pc'[q] = "add"
               PROVE  /\ new'[q] = new[q]
                      /\ new[q] \in used /\ ~isDir[new[q]] /\ up[new[q]] = NULL
                      /\ \A m \in Names : entries'[new[q]][m] = NULL
                      /\ ~removed'[new[q]] /\ openCnt[new[q]] = 0 /\ new[q] \notin strays
                      /\ \A e \in Sectors, m \in Names : entries'[e][m] # new[q]
                      /\ \A r \in Procs : pc'[r] = "add" /\ new'[r] = new[q] => r = q
    BY DEF NewGood, Bare
  <2>1. pc[q] = "add" /\ new'[q] = new[q]
    BY <1>1
  <2>2. /\ new[q] \in used /\ ~isDir[new[q]] /\ up[new[q]] = NULL
        /\ \A m \in Names : entries[new[q]][m] = NULL
        /\ ~removed[new[q]] /\ openCnt[new[q]] = 0 /\ new[q] \notin strays
        /\ \A e \in Sectors, m \in Names : entries[e][m] # new[q]
        /\ \A r \in Procs : pc[r] = "add" /\ new[r] = new[q] => r = q
    BY <2>1 DEF TreeOnDisk, NewGood, Bare
  <2>3. new[q] \in Sectors /\ new[q] # c /\ new[q] # NULL
    BY <1>2, <2>2, DirectoryAssumption
  <2> QED BY <1>1, <1>3, <2>1, <2>2, <2>3
<1>8. HasName'
  <2> SUFFICES ASSUME NEW s \in used
               PROVE  \/ s = Root \/ s \in strays \/ removed'[s]
                      \/ \E q \in Procs : pc'[q] = "add" /\ new'[q] = s
                      \/ \E e \in Sectors, m \in Names : entries'[e][m] = s
    BY DEF HasName
  <2>1. CASE s = c
    BY <2>1
  <2>2. CASE s # c
    <3>1. \/ s = Root \/ s \in strays \/ removed[s]
          \/ \E q \in Procs : pc[q] = "add" /\ new[q] = s
          \/ \E e \in Sectors, m \in Names : entries[e][m] = s
      BY DEF TreeOnDisk, HasName
    <3>2. \A e \in Sectors, m \in Names : entries[e][m] = s => entries'[e][m] = s
      BY <2>2
    <3> QED BY <1>1, <1>2, <3>1, <3>2
  <2> QED BY <2>1, <2>2
<1>9. StraysBare'
  BY <1>2 DEF TreeOnDisk, StraysBare, Bare
<1>10. RemovedOpen'
  BY <1>2 DEF TreeOnDisk, RemovedOpen
<1>11. DirsGood'
  BY DEF TreeOnDisk, DirsGood
<1> QED BY <1>4, <1>5, <1>6, <1>7, <1>8, <1>9, <1>10, <1>11 DEF TreeOnDisk

-----------------------------------------------------------------------------
(* What the processes know.                                                *)

\* The name that a call looks up in the parent directory.
LEMMA HeadName ==
  ASSUME TypeOK, Places, NEW p \in Procs
  PROVE  /\ path[p] # <<>> => Head(path[p]) \in Names \cup {Up}
         /\ pc[p] \in {"find", "lockChild", "remove"} => Head(path[p]) \in Names
<1>1. path[p] \in Seq(Names \cup {Up})
  BY DEF TypeOK
<1>2. path[p] # <<>> => Head(path[p]) \in Names \cup {Up}
  BY <1>1
<1> QED BY <1>2 DEF Places

\* A step of p leaves the directories of the others as they are: it frees none
\* that is open, and changes none that is locked by somebody else.
LEMMA HoldingKept ==
  ASSUME IInv, IInv', Locks, Holding, NEW p \in Procs, Others(p),
         \A s \in Sectors : openCnt[s] > 0 /\ openCnt'[s] > 0 =>
           /\ isDir'[s] <=> isDir[s]
           /\ lock[s] # p => \A n \in Names : entries'[s][n] = entries[s][n],
         pc'[p] \in InLock \cup {"lock"} => isDir'[dir'[p]],
         pc'[p] \in {"lockChild", "remove"} => entries'[dir'[p]][Head(path'[p])] = child'[p]
  PROVE  Holding'
<1>1. ASSUME NEW q \in Procs, q # p
      PROVE  /\ pc'[q] \in InLock \cup {"lock"} => isDir'[dir'[q]]
             /\ pc'[q] \in {"lockChild", "remove"} => entries'[dir'[q]][Head(path'[q])] = child'[q]
  <2>1. /\ pc'[q] = pc[q] /\ dir'[q] = dir[q] /\ child'[q] = child[q] /\ path'[q] = path[q]
    BY <1>1 DEF Others
  <2>2. ASSUME pc[q] \in InLock \cup {"lock"}
        PROVE  dir[q] \in Sectors /\ openCnt[dir[q]] > 0 /\ openCnt'[dir[q]] > 0
    <3>1. dir[q] \in Sectors
      BY <2>2 DEF IInv, TypeOK, Places, InLock
    <3>2. openCnt[dir[q]] > 0
      BY <3>1, OpenRefs DEF IInv
    <3>3. openCnt'[dir'[q]] > 0
      BY <3>1, <2>1, OpenRefsNext DEF IInv
    <3> QED BY <2>1, <3>1, <3>2, <3>3
  <2>3. pc[q] \in InLock \cup {"lock"} => isDir'[dir'[q]]
    BY <2>1, <2>2 DEF Holding
  <2>4. ASSUME pc[q] \in {"lockChild", "remove"}
        PROVE  entries'[dir[q]][Head(path[q])] = child[q]
    <3>1. Head(path[q]) \in Names
      BY <2>4, HeadName DEF IInv
    <3>2. lock[dir[q]] # p
      BY <1>1, <2>4 DEF Locks, InLock
    <3> QED BY <2>2, <2>4, <3>1, <3>2 DEF Holding, InLock
  <2> QED BY <2>1, <2>3, <2>4
<1> QED BY <1>1 DEF Holding

\* Nobody comes to a stray by a step of p.
LEMMA UnvisitedKept ==
  ASSUME IInv, StraysUnvisited, NEW p \in Procs, Others(p), strays' \subseteq Sectors,
         \A s \in Sectors : s \in strays' => s \in strays \/ openCnt[s] = 0,
         cwd'[p] \notin strays', dir'[p] \notin strays', file'[p] \notin strays',
         pc'[p] = "descend" => child'[p] \notin strays'
  PROVE  StraysUnvisited'
<1>1. ASSUME NEW q \in Procs, NEW s \in Sectors, s \in {cwd[q], file[q], dir[q], child[q]}
      PROVE  openCnt[s] > 0
  BY <1>1, OpenRefs DEF IInv
<1>2. ASSUME NEW q \in Procs, q # p
      PROVE  /\ cwd[q] \notin strays' /\ dir[q] \notin strays' /\ file[q] \notin strays'
             /\ pc[q] = "descend" => child[q] \notin strays'
  <2>1. ASSUME NEW s \in strays', s \in {cwd[q], file[q], dir[q], child[q]}
        PROVE  s \in strays
    <3>1. s \in Sectors /\ openCnt[s] > 0
      BY <1>1, <2>1
    <3> QED BY <3>1
  <2> QED BY <2>1 DEF StraysUnvisited
<1>3. ASSUME NEW q \in Procs
      PROVE  /\ cwd'[q] \notin strays' /\ dir'[q] \notin strays' /\ file'[q] \notin strays'
             /\ pc'[q] = "descend" => child'[q] \notin strays'
  BY <1>2 DEF Others
<1> QED BY <1>3 DEF StraysUnvisited

\* What a name means in a directory that is not removed: an inode of the tree.
LEMMA GoodLookup ==
  ASSUME TypeOK, TreeOnDisk, NEW d \in Sectors, openCnt[d] > 0, d \notin strays,
         isDir[d], ~removed[d], NEW h \in Names \cup {Up}, NEW c, c = Lookup(d, h), c # NULL
  PROVE  /\ c \in used \ strays
         /\ \A q \in Procs : pc[q] = "add" => new[q] # c
         /\ c \in NamedInodes \cup {Root}
<1>1. d \in LiveDirs /\ c \in Sectors
  BY DEF TreeOnDisk, UnusedBare, LiveDirs, Lookup, TypeOK
<1>2. CASE h \in Names
  <2>1. c = entries[d][h]
    BY <1>2, DirectoryAssumption DEF Lookup
  <2>2. c \in NamedInodes
    BY <1>1, <1>2, <2>1 DEF NamedInodes
  <2>3. c \in used /\ c \notin strays
    BY <1>2, <2>1 DEF TreeOnDisk, EntriesGood
  <2>4. \A q \in Procs : pc[q] = "add" => new[q] # c
    BY <1>2, <2>1 DEF TreeOnDisk, NewGood
  <2> QED BY <2>2, <2>3, <2>4
<1>3. CASE h = Up
  <2>1. c = up[d]
    BY <1>3 DEF Lookup
  <2>2. CASE d = Root
    <3>1. c = Root
      BY <2>1, <2>2 DEF TreeOnDisk, DirsGood
    <3>2. Root \in used /\ Root \notin strays /\ \A q \in Procs : pc[q] = "add" => new[q] # Root
      BY <2>2, DirectoryAssumption DEF TypeOK, TreeOnDisk, NewGood
    <3> QED BY <3>1, <3>2
  <2>3. CASE d # Root
    <3>1. d \in used /\ \A q \in Procs : pc[q] = "add" => new[q] # d
      BY <1>1 DEF LiveDirs, TreeOnDisk, NewGood
    <3>2. PICK e \in Sectors, m \in Names : entries[e][m] = d
      BY <2>3, <3>1 DEF TreeOnDisk, HasName
    <3>3. /\ e \in used /\ isDir[e] /\ up[d] = e
          /\ removed[e] <=> d \in strays
      <4>1. entries[e][m] # NULL
        BY <3>2, DirectoryAssumption
      <4> QED BY <3>2, <4>1 DEF TreeOnDisk, EntriesGood
    <3>4. c = e /\ ~removed[e] /\ e \notin strays
      BY <2>1, <3>2, <3>3, DirectoryAssumption DEF TreeOnDisk, StraysBare, Bare
    <3>5. \A q \in Procs : pc[q] = "add" => new[q] # e
      BY <3>2, DirectoryAssumption DEF TreeOnDisk, NewGood, Bare
    <3>6. CASE e = Root
      BY <3>3, <3>4, <3>5, <3>6
    <3>7. CASE e # Root
      <4>1. PICK f \in Sectors, l \in Names : entries[f][l] = e
        BY <3>3, <3>4, <3>5, <3>7 DEF TreeOnDisk, HasName
      <4>2. f \in LiveDirs
        <5>1. entries[f][l] # NULL
          BY <4>1, DirectoryAssumption
        <5>2. f \in used /\ isDir[f] /\ ~removed[f]
          BY <3>4, <4>1, <5>1 DEF TreeOnDisk, EntriesGood
        <5>3. f \notin strays
          BY <5>1 DEF TreeOnDisk, StraysBare, Bare
        <5> QED BY <5>2, <5>3 DEF LiveDirs
      <4>3. e \in NamedInodes
        BY <4>1, <4>2, DirectoryAssumption DEF NamedInodes
      <4> QED BY <3>3, <3>4, <3>5, <4>3
    <3> QED BY <3>6, <3>7
  <2> QED BY <2>2, <2>3
<1> QED BY <1>2, <1>3

-----------------------------------------------------------------------------
(* The steps and the tree.                                                 *)

\* Some inode that is used and no stray is opened, by a process that holds no
\* lock or keeps those it holds.
LEMMA TreeInvOpened ==
  ASSUME IInv, IInv', TreeInv, ~fault, NEW p \in Procs, Others(p),
         UNCHANGED <<used, isDir, entries, up, removed, strays>>,
         cwd'[p] = cwd[p], file'[p] \in {file[p], dir[p]},
         pc[p] # "add", pc'[p] # "add", Locks', Holding',
         openCnt' = openCnt \/ \E c \in used :
           /\ OpenInode(c)
           /\ \A q \in Procs : pc[q] = "add" => new[q] # c,
         dir'[p] \notin strays, pc'[p] = "descend" => child'[p] \notin strays
  PROVE  TreeInv'
<1>1. TypeOK /\ TypeOK' /\ RefCounts /\ TreeOnDisk /\ StraysUnvisited
  BY DEF IInv, TreeInv
<1>2. \A s \in Sectors :
        \/ openCnt'[s] = openCnt[s]
        \/ /\ openCnt'[s] > 0 /\ s \in used
           /\ \A q \in Procs : pc[q] = "add" => new[q] # s
  BY <1>1 DEF OpenInode, TypeOK
<1>3. TreeOnDisk'
  BY <1>1, <1>2, TreeOpened
<1>4. StraysUnvisited'
  <2>1. strays' \subseteq Sectors /\ cwd'[p] \notin strays' /\ file'[p] \notin strays'
    BY <1>1 DEF StraysUnvisited, TypeOK
  <2> QED BY <1>1, <2>1, UnvisitedKept
<1>5. Acyclic'
  BY DEF TreeInv, Acyclic
<1> QED BY <1>3, <1>4, <1>5 DEF TreeInv

LEMMA BeginTree ==
  ASSUME IInv, IInv', TreeInv, ~fault, NEW p \in Procs, NEW call \in CallsOf[p], NEW w \in Paths,
         NEW start, Begin(p, call, w, start), Others(p)
  PROVE  TreeInv'
<1>1. /\ TypeOK /\ RefCounts /\ TreeOnDisk /\ StraysUnvisited /\ Locks /\ Holding
  BY DEF IInv, TreeInv
<1>2. /\ UNCHANGED <<used, isDir, entries, up, removed, strays, cwd, file, lock, child>>
      /\ pc[p] = "run" /\ pc'[p] = "walk" /\ dir'[p] = start
      /\ start \in {Root, cwd[p]} /\ start \in Sectors /\ OpenInode(start)
  BY <1>1, DirectoryAssumption DEF Begin, OpenInode, Goto, diskVars, TypeOK
<1>3. openCnt[start] > 0 /\ start \notin strays
  BY <1>1, <1>2, OpenRefs DEF StraysUnvisited, TreeOnDisk, StraysBare
<1>4. start \in used /\ \A q \in Procs : pc[q] = "add" => new[q] # start
  BY <1>1, <1>2, <1>3 DEF TreeOnDisk, UnusedBare, NewGood
<1>5. Locks'
  BY <1>1, <1>2, LocksOutside DEF InLock
<1>6. Holding'
  BY <1>1, <1>2, HoldingKept DEF InLock
<1>7. cwd'[p] = cwd[p] /\ file'[p] \in {file[p], dir[p]}
  BY <1>2
<1> QED BY <1>2, <1>3, <1>4, <1>5, <1>6, <1>7, TreeInvOpened

LEMMA WalkTree ==
  ASSUME IInv, IInv', TreeInv, ~fault, NEW p \in Procs, Walk(p), Others(p)
  PROVE  TreeInv'
<1> DEFINE c == Lookup(dir[p], Head(path[p]))
<1>1. /\ TypeOK /\ RefCounts /\ TreeOnDisk /\ StraysUnvisited /\ Locks /\ Holding /\ Places
  BY DEF IInv, TreeInv
<1>2. /\ UNCHANGED <<used, isDir, entries, up, strays, cwd, file, dir, lock>>
      /\ pc[p] = "walk" /\ dir[p] \in Sectors /\ path[p] # <<>>
      /\ openCnt[dir[p]] > 0 /\ dir[p] \notin strays
  <2>1. pc[p] = "walk" /\ UNCHANGED <<used, isDir, entries, up, strays, cwd, file, dir, lock>>
    BY DEF Walk, diskVars
  <2>2. dir[p] \in Sectors /\ path[p] # <<>>
    BY <1>1, <2>1 DEF TypeOK, Places
  <2> QED BY <1>1, <2>1, <2>2, OpenRefs DEF StraysUnvisited
<1>3. \/ pc'[p] = "close" /\ UNCHANGED <<openCnt, removed, child>>
      \/ pc'[p] = "lock" /\ isDir[dir[p]] /\ UNCHANGED <<openCnt, removed, child>>
      \/ /\ pc'[p] = "descend" /\ isDir[dir[p]] /\ ~removed[dir[p]] /\ c # NULL
         /\ OpenInode(c) /\ child'[p] = c
  BY <1>1 DEF Walk, Goto, TypeOK
<1>4. /\ pc'[p] \notin InLock /\ pc'[p] # "add" /\ pc[p] \notin InLock /\ pc[p] # "add"
      /\ removed' = removed
      /\ pc'[p] = "lock" => isDir[dir[p]]
  BY <1>2, <1>3 DEF InLock, OpenInode
<1> HIDE DEF c
<1>5. Locks'
  BY <1>1, <1>2, <1>4, LocksOutside
<1>6. Holding'
  BY <1>1, <1>2, <1>4, HoldingKept DEF InLock
<1>7. pc'[p] = "descend" => c \in used \ strays /\ \A q \in Procs : pc[q] = "add" => new[q] # c
  <2>1. Head(path[p]) \in Names \cup {Up}
    BY <1>1, <1>2, HeadName
  <2>2. SUFFICES ASSUME pc'[p] = "descend"
                 PROVE  c \in used \ strays /\ \A q \in Procs : pc[q] = "add" => new[q] # c
    OBVIOUS
  <2>3. isDir[dir[p]] /\ ~removed[dir[p]] /\ c # NULL
    BY <1>3, <2>2
  <2> QED BY <1>1, <1>2, <2>1, <2>3, GoodLookup DEF c
<1>8. openCnt' = openCnt \/ \E x \in used :
           /\ OpenInode(x)
           /\ \A q \in Procs : pc[q] = "add" => new[q] # x
  BY <1>3, <1>7
<1>9. pc'[p] = "descend" => child'[p] \notin strays
  BY <1>3, <1>7
<1>10. dir'[p] \notin strays
  BY <1>2
<1>11. cwd'[p] = cwd[p] /\ file'[p] \in {file[p], dir[p]}
  BY <1>2
<1> QED BY <1>2, <1>4, <1>5, <1>6, <1>8, <1>9, <1>10, <1>11, TreeInvOpened

\* An inode that p refers to is closed, by a process without locks or with that
\* of its parent, which it gives back.
LEMMA TreeInvClosed ==
  ASSUME IInv, IInv', TreeInv, ~fault, NEW p \in Procs, Others(p), NEW x \in Sectors,
         x \in {cwd[p], file[p], dir[p], child[p]}, CloseInode(x),
         pc[p] # "add", pc'[p] \notin InLock \cup {"lock"}, Locks',
         cwd'[p] \in {cwd[p], dir[p]}, file'[p] \in {NULL, file[p]},
         dir'[p] \in {NULL, dir[p]} \/ (dir'[p] = child[p] /\ pc[p] = "descend"),
         pc'[p] # "descend"
  PROVE  TreeInv'
<1>1. /\ TypeOK /\ RefCounts /\ TreeOnDisk /\ StraysUnvisited /\ Locks /\ Holding /\ Acyclic
  BY DEF IInv, TreeInv
<1>2. openCnt[x] > 0
  BY <1>1, OpenRefs
<1>3. TreeOnDisk'
  BY <1>1, <1>2, TreeClosed DEF InLock
<1>4. StraysUnvisited'
  <2>1. strays' \subseteq strays /\ strays \subseteq Sectors
    BY <1>1 DEF CloseInode, Free, TypeOK
  <2>2. /\ cwd'[p] \notin strays' /\ dir'[p] \notin strays' /\ file'[p] \notin strays'
        /\ pc'[p] = "descend" => child'[p] \notin strays'
    BY <1>1, <2>1, DirectoryAssumption DEF StraysUnvisited
  <2>3. strays' \subseteq Sectors /\ \A s \in Sectors : s \in strays' => s \in strays \/ openCnt[s] = 0
    BY <2>1
  <2> QED BY <1>1, <2>2, <2>3, UnvisitedKept
<1>5. /\ \A s \in Sectors, n \in Names : entries'[s][n] \in {entries[s][n], NULL}
      /\ \A s \in Sectors : openCnt[s] > 0 /\ openCnt'[s] > 0 =>
           /\ isDir'[s] <=> isDir[s]
           /\ \A n \in Names : entries'[s][n] = entries[s][n]
  <2> DEFINE gone(s) == s = x /\ openCnt[x] = 1 /\ removed[x]
  <2>1. /\ \A s \in Sectors : openCnt'[s] = IF s = x THEN openCnt[s] - 1 ELSE openCnt[s]
        /\ \A s \in Sectors :
             /\ isDir'[s] <=> isDir[s] /\ ~gone(s)
             /\ \A n \in Names : entries'[s][n] = IF gone(s) THEN NULL ELSE entries[s][n]
    BY <1>1, <1>2, AfterClose
  <2>2. \A s \in Sectors : gone(s) => ~(openCnt'[s] > 0)
    BY <2>1
  <2> HIDE DEF gone
  <2> QED BY <2>1, <2>2
<1>6. Acyclic'
  BY <1>1, <1>5, FewerEntries
<1>7. Holding'
  BY <1>1, <1>5, HoldingKept DEF InLock
<1> QED BY <1>3, <1>4, <1>6, <1>7 DEF TreeInv

LEMMA DescendTree ==
  ASSUME IInv, IInv', TreeInv, ~fault, NEW p \in Procs, Descend(p), Others(p)
  PROVE  TreeInv'
<1>1. TypeOK /\ Places /\ Locks
  BY DEF IInv, TreeInv
<1>2. /\ pc[p] = "descend" /\ pc'[p] \in {"found", "walk"}
      /\ dir[p] \in Sectors /\ CloseInode(dir[p]) /\ dir'[p] = child[p]
      /\ cwd'[p] = cwd[p] /\ file'[p] = file[p] /\ lock' = lock
  BY <1>1 DEF Descend, Goto, TypeOK, Places
<1>3. Locks'
  BY <1>1, <1>2, LocksOutside DEF InLock
<1>4. /\ pc[p] # "add" /\ pc'[p] \notin InLock \cup {"lock"} /\ pc'[p] # "descend"
      /\ cwd'[p] \in {cwd[p], dir[p]} /\ file'[p] \in {NULL, file[p]}
      /\ dir'[p] \in {NULL, dir[p]} \/ (dir'[p] = child[p] /\ pc[p] = "descend")
  BY <1>2 DEF InLock
<1> QED BY <1>2, <1>3, <1>4, TreeInvClosed

LEMMA CloseTree ==
  ASSUME IInv, IInv', TreeInv, ~fault, NEW p \in Procs, Close(p), Others(p)
  PROVE  TreeInv'
<1>1. TypeOK /\ Places /\ Locks
  BY DEF IInv, TreeInv
<1>2. /\ pc[p] = "close" /\ pc'[p] = "run"
      /\ dir[p] \in Sectors /\ CloseInode(dir[p]) /\ dir'[p] = NULL
      /\ cwd'[p] = cwd[p] /\ file'[p] = file[p] /\ lock' = lock
  BY <1>1 DEF Close, EndCall, Goto, TypeOK, Places
<1>3. Locks'
  BY <1>1, <1>2, LocksOutside DEF InLock
<1>4. /\ pc[p] # "add" /\ pc'[p] \notin InLock \cup {"lock"} /\ pc'[p] # "descend"
      /\ cwd'[p] \in {cwd[p], dir[p]} /\ file'[p] \in {NULL, file[p]}
      /\ dir'[p] \in {NULL, dir[p]} \/ (dir'[p] = child[p] /\ pc[p] = "descend")
  BY <1>2 DEF InLock
<1> QED BY <1>2, <1>3, <1>4, TreeInvClosed

LEMMA ChDirTree ==
  ASSUME IInv, IInv', TreeInv, ~fault, NEW p \in Procs, ChDir(p), Others(p)
  PROVE  TreeInv'
<1>1. TypeOK /\ Places /\ Locks
  BY DEF IInv, TreeInv
<1>2. /\ pc[p] = "found" /\ pc'[p] = "run"
      /\ cwd[p] \in Sectors /\ CloseInode(cwd[p]) /\ dir'[p] = NULL
      /\ cwd'[p] = dir[p] /\ file'[p] = file[p] /\ lock' = lock
  BY <1>1 DEF ChDir, EndCall, Goto, TypeOK, Places
<1>3. Locks'
  BY <1>1, <1>2, LocksOutside DEF InLock
<1>4. /\ pc[p] # "add" /\ pc'[p] \notin InLock \cup {"lock"} /\ pc'[p] # "descend"
      /\ cwd'[p] \in {cwd[p], dir[p]} /\ file'[p] \in {NULL, file[p]}
      /\ dir'[p] \in {NULL, dir[p]} \/ (dir'[p] = child[p] /\ pc[p] = "descend")
  BY <1>2 DEF InLock
<1> QED BY <1>2, <1>3, <1>4, TreeInvClosed

LEMMA CloseFileTree ==
  ASSUME IInv, IInv', TreeInv, ~fault, NEW p \in Procs, CloseFile(p), Others(p)
  PROVE  TreeInv'
<1>1. TypeOK /\ Places /\ Locks
  BY DEF IInv, TreeInv
<1>2. /\ pc[p] = "run" /\ pc'[p] = "run"
      /\ file[p] \in Sectors /\ CloseInode(file[p]) /\ dir'[p] = dir[p]
      /\ cwd'[p] = cwd[p] /\ file'[p] = NULL /\ lock' = lock
  BY <1>1 DEF CloseFile, localVars, TypeOK
<1>3. Locks'
  BY <1>1, <1>2, LocksOutside DEF InLock
<1>4. /\ pc[p] # "add" /\ pc'[p] \notin InLock \cup {"lock"} /\ pc'[p] # "descend"
      /\ cwd'[p] \in {cwd[p], dir[p]} /\ file'[p] \in {NULL, file[p]}
      /\ dir'[p] \in {NULL, dir[p]} \/ (dir'[p] = child[p] /\ pc[p] = "descend")
  BY <1>2 DEF InLock
<1> QED BY <1>2, <1>3, <1>4, TreeInvClosed

LEMMA CloseChildTree ==
  ASSUME IInv, IInv', TreeInv, ~fault, NEW p \in Procs, CloseChild(p), Others(p)
  PROVE  TreeInv'
<1>1. TypeOK /\ Places /\ Locks
  BY DEF IInv, TreeInv
<1>2. /\ pc[p] = "closeChild" /\ pc'[p] = "close"
      /\ child[p] \in Sectors /\ CloseInode(child[p]) /\ dir'[p] = dir[p]
      /\ cwd'[p] = cwd[p] /\ file'[p] = file[p] /\ UnlockParent(p)
  BY <1>1 DEF CloseChild, Goto, TypeOK, Places, HasChild
<1>3. Locks'
  BY <1>1, <1>2, LocksReleased DEF InLock
<1>4. /\ pc[p] # "add" /\ pc'[p] \notin InLock \cup {"lock"} /\ pc'[p] # "descend"
      /\ cwd'[p] \in {cwd[p], dir[p]} /\ file'[p] \in {NULL, file[p]}
      /\ dir'[p] \in {NULL, dir[p]} \/ (dir'[p] = child[p] /\ pc[p] = "descend")
  BY <1>2 DEF InLock
<1> QED BY <1>2, <1>3, <1>4, TreeInvClosed

LEMMA OpenTree ==
  ASSUME IInv, IInv', TreeInv, ~fault, NEW p \in Procs, Open(p), Others(p)
  PROVE  TreeInv'
<1>1. TypeOK /\ Places /\ Locks /\ Holding /\ StraysUnvisited
  BY DEF IInv, TreeInv
<1>2. /\ UNCHANGED <<used, isDir, entries, up, removed, strays, openCnt, lock>>
      /\ pc[p] = "found" /\ pc'[p] = "run"
      /\ cwd'[p] = cwd[p] /\ file'[p] = dir[p] /\ dir'[p] = NULL
  BY <1>1 DEF Open, EndCall, Goto, diskVars, inodeVars, TypeOK
<1>3. Locks'
  BY <1>1, <1>2, LocksOutside DEF InLock
<1>4. Holding'
  BY <1>1, <1>2, HoldingKept DEF InLock
<1>5. dir'[p] \notin strays
  BY <1>1, <1>2, DirectoryAssumption DEF TypeOK
<1>6. pc[p] # "add" /\ pc'[p] # "add" /\ pc'[p] # "descend" /\ file'[p] \in {file[p], dir[p]}
  BY <1>2
<1> QED BY <1>2, <1>3, <1>4, <1>5, <1>6, TreeInvOpened

LEMMA LockParentTree ==
  ASSUME IInv, IInv', TreeInv, ~fault, NEW p \in Procs, LockParent(p), Others(p)
  PROVE  TreeInv'
<1>1. TypeOK /\ Places /\ Locks /\ Holding /\ StraysUnvisited
  BY DEF IInv, TreeInv
<1>2. /\ UNCHANGED <<used, isDir, entries, up, removed, strays, openCnt, cwd, file, dir, child>>
      /\ pc[p] = "lock" /\ pc'[p] \in {"find", "scan"}
      /\ dir[p] \in Sectors /\ lock[dir[p]] = NULL /\ lock' = [lock EXCEPT ![dir[p]] = p]
      /\ isDir[dir[p]]
  BY <1>1 DEF LockParent, Goto, diskVars, localVars, TypeOK, Places, Holding
<1>3. pc[p] \notin InLock /\ pc'[p] \in InLock
  BY <1>2 DEF InLock
<1>4. Locks'
  BY <1>1, <1>2, <1>3, LocksTaken
<1>5. Holding'
  <2>1. pc'[p] \notin {"lockChild", "remove"} /\ isDir'[dir'[p]]
    BY <1>2
  <2> QED BY <1>1, <1>2, <2>1, HoldingKept
<1>6. /\ pc[p] # "add" /\ pc'[p] # "add" /\ pc'[p] # "descend" /\ dir'[p] \notin strays
      /\ cwd'[p] = cwd[p] /\ file'[p] \in {file[p], dir[p]}
  BY <1>1, <1>2 DEF StraysUnvisited
<1> QED BY <1>2, <1>4, <1>5, <1>6, TreeInvOpened

LEMMA ScanTree ==
  ASSUME IInv, IInv', TreeInv, ~fault, NEW p \in Procs, Scan(p), Others(p)
  PROVE  TreeInv'
<1>1. TypeOK /\ Places /\ Locks /\ Holding /\ StraysUnvisited
  BY DEF IInv, TreeInv
<1>2. /\ UNCHANGED <<used, isDir, entries, up, removed, strays, openCnt, cwd, file, dir, child>>
      /\ pc[p] = "scan" /\ isDir[dir[p]]
      /\ \/ pc'[p] = "close" /\ UnlockParent(p)
         \/ pc'[p] = "flip" /\ lock' = lock
  BY <1>1 DEF Scan, Goto, diskVars, TypeOK, Holding, InLock
<1>3. Locks'
  <2>1. CASE pc'[p] = "close" /\ UnlockParent(p)
    BY <1>1, <1>2, <2>1, LocksReleased DEF InLock
  <2>2. CASE pc'[p] = "flip" /\ lock' = lock
    BY <1>1, <1>2, <2>2, LocksInside DEF InLock
  <2> QED BY <1>2, <2>1, <2>2
<1>4. Holding'
  <2>1. pc'[p] \notin {"lockChild", "remove"} /\ isDir'[dir'[p]]
    BY <1>2
  <2> QED BY <1>1, <1>2, <2>1, HoldingKept
<1>5. /\ pc[p] # "add" /\ pc'[p] # "add" /\ pc'[p] # "descend" /\ dir'[p] \notin strays
      /\ cwd'[p] = cwd[p] /\ file'[p] \in {file[p], dir[p]}
  BY <1>1, <1>2 DEF StraysUnvisited
<1> QED BY <1>2, <1>3, <1>4, <1>5, TreeInvOpened

LEMMA FindTree ==
  ASSUME IInv, IInv', TreeInv, ~fault, NEW p \in Procs, Find(p), Others(p)
  PROVE  TreeInv'
<1> DEFINE c == entries[dir[p]][Head(path[p])]
<1>1. TypeOK /\ Places /\ Locks /\ Holding /\ StraysUnvisited /\ TreeOnDisk
  BY DEF IInv, TreeInv
<1>2. /\ UNCHANGED <<used, isDir, entries, up, strays, cwd, file, dir, path>>
      /\ pc[p] = "find" /\ dir[p] \in Sectors /\ isDir[dir[p]]
      /\ \/ pc'[p] = "close" /\ UnlockParent(p) /\ UNCHANGED <<openCnt, removed>>
         \/ /\ pc'[p] \in {"lockChild", "remove"} /\ lock' = lock
            /\ c # NULL /\ OpenInode(c) /\ child'[p] = c
  BY <1>1 DEF Find, Goto, diskVars, TypeOK, Holding, Places, InLock
<1>3. Locks'
  <2>1. CASE pc'[p] = "close" /\ UnlockParent(p)
    BY <1>1, <1>2, <2>1, LocksReleased DEF InLock
  <2>2. CASE pc'[p] \in {"lockChild", "remove"} /\ lock' = lock
    BY <1>1, <1>2, <2>2, LocksInside DEF InLock
  <2> QED BY <1>2, <2>1, <2>2
<1>4. Holding'
  <2>1. isDir'[dir'[p]]
    BY <1>2
  <2>2. pc'[p] \in {"lockChild", "remove"} => entries'[dir'[p]][Head(path'[p])] = child'[p]
    BY <1>2
  <2> QED BY <1>1, <1>2, <2>1, <2>2, HoldingKept
<1>5. Head(path[p]) \in Names
  BY <1>1, <1>2, HeadName
<1> HIDE DEF c
<1>6. c # NULL => c \in used /\ \A q \in Procs : pc[q] = "add" => new[q] # c
  BY <1>1, <1>2, <1>5 DEF c, TreeOnDisk, EntriesGood, NewGood
<1>7. removed' = removed /\ (openCnt' = openCnt \/ \E x \in used :
           /\ OpenInode(x)
           /\ \A q \in Procs : pc[q] = "add" => new[q] # x)
  BY <1>2, <1>6 DEF OpenInode
<1>8. /\ pc[p] # "add" /\ pc'[p] # "add" /\ pc'[p] # "descend" /\ dir'[p] \notin strays
      /\ cwd'[p] = cwd[p] /\ file'[p] \in {file[p], dir[p]}
  BY <1>1, <1>2 DEF StraysUnvisited
<1> QED BY <1>2, <1>3, <1>4, <1>7, <1>8, TreeInvOpened

LEMMA LockChildTree ==
  ASSUME IInv, IInv', TreeInv, ~fault, NEW p \in Procs, LockChild(p), Others(p)
  PROVE  TreeInv'
<1>1. TypeOK /\ Places /\ Locks /\ Holding /\ StraysUnvisited
  BY DEF IInv, TreeInv
<1>2. /\ UNCHANGED <<used, isDir, entries, up, removed, strays, openCnt, cwd, file, dir, child, path>>
      /\ pc[p] = "lockChild" /\ pc'[p] = "remove"
      /\ child[p] \in Sectors /\ lock[child[p]] = NULL /\ lock' = [lock EXCEPT ![child[p]] = p]
      /\ isDir[dir[p]] /\ entries[dir[p]][Head(path[p])] = child[p]
  BY <1>1 DEF LockChild, Goto, diskVars, localVars, TypeOK, Places, HasChild, Holding, InLock
<1>3. Locks'
  BY <1>1, <1>2, LocksTaken DEF InLock
<1>4. Holding'
  <2>1. isDir'[dir'[p]] /\ entries'[dir'[p]][Head(path'[p])] = child'[p]
    BY <1>2
  <2> QED BY <1>1, <1>2, <2>1, HoldingKept
<1>5. /\ pc[p] # "add" /\ pc'[p] # "add" /\ pc'[p] # "descend" /\ dir'[p] \notin strays
      /\ cwd'[p] = cwd[p] /\ file'[p] \in {file[p], dir[p]}
  BY <1>1, <1>2 DEF StraysUnvisited
<1> QED BY <1>2, <1>3, <1>4, <1>5, TreeInvOpened

\* If the sector was taken meanwhile nothing is said of the tree any more.
LEMMA FlipTree ==
  ASSUME IInv, IInv', TreeInv, ~fault, NEW p \in Procs, Flip(p), Others(p)
  PROVE  TreeInv'
<1>1. TypeOK /\ Places /\ Locks /\ Holding /\ Acyclic /\ StraysUnvisited /\ TreeOnDisk
  BY DEF IInv, TreeInv
<1>2. /\ UNCHANGED <<isDir, entries, up, removed, strays, openCnt, lock, cwd, file, dir, child, path>>
      /\ pc[p] = "flip" /\ pc'[p] = "add" /\ isDir[dir[p]]
  BY <1>1 DEF Flip, Goto, inodeVars, localVars, TypeOK, Holding, InLock
<1>3. Locks'
  BY <1>1, <1>2, LocksInside DEF InLock
<1>4. Holding'
  <2>1. pc'[p] \notin {"lockChild", "remove"} /\ isDir'[dir'[p]]
    BY <1>2
  <2> QED BY <1>1, <1>2, <2>1, HoldingKept
<1>5. Acyclic'
  BY <1>1, <1>2 DEF Acyclic
<1>6. ASSUME ~fault'
      PROVE  TreeOnDisk' /\ StraysUnvisited'
  <2>1. TreeOnDisk'
    BY <1>1, <1>6, TreeFlipped
  <2>2. StraysUnvisited'
    BY <1>1, <1>2 DEF StraysUnvisited, Others
  <2> QED BY <2>1, <2>2
<1> QED BY <1>3, <1>4, <1>5, <1>6 DEF TreeInv

\* The name is added if nothing has it, to the parent that p has locked.
LEMMA AddEffect ==
  ASSUME IInv, TreeInv, ~fault, NEW p \in Procs, Add(p),
         NEW d, NEW n, NEW x, NEW made,
         d = dir[p], n = Head(path[p]), x = new[p], made = (op[p] = "mkdir")
  PROVE  /\ d \in Sectors /\ isDir[d] /\ openCnt[d] > 0 /\ d \notin strays /\ lock[d] = p
         /\ x \in Sectors /\ x # Root /\ x # d /\ openCnt[x] = 0 /\ x \notin strays
         /\ ~isDir[x] /\ \A m \in Names : entries[x][m] = NULL
         /\ \/ /\ used' = used \ {x}
               /\ UNCHANGED <<isDir, up, entries, openCnt, removed, strays>>
            \/ n \in Names /\ entries[d][n] = NULL /\ AddsName(d, n, x, made)
<1>1. TypeOK /\ Places /\ RefCounts /\ Locks /\ Holding /\ StraysUnvisited /\ TreeOnDisk
  BY DEF IInv, TreeInv
<1>2. /\ d \in Sectors /\ isDir[d] /\ x \in Sectors /\ x # Root /\ path[p] # <<>>
      /\ lock[d] = p /\ UNCHANGED <<removed, openCnt>> /\ pc[p] = "add"
  <2>1. UNCHANGED <<removed, openCnt>> /\ pc[p] = "add"
    BY DEF Add
  <2>2. dir[p] # NULL /\ new[p] # NULL /\ new[p] # Root /\ path[p] # <<>>
    BY <1>1, <2>1 DEF Places
  <2>3. isDir[d] /\ lock[d] = p
    BY <1>1, <2>1 DEF Holding, Locks, InLock
  <2> QED BY <1>1, <2>1, <2>2, <2>3 DEF TypeOK
<1>3. openCnt[d] > 0 /\ d \notin strays
  BY <1>1, <1>2, OpenRefs DEF StraysUnvisited
<1>4. /\ openCnt[x] = 0 /\ x # d /\ x \notin strays /\ ~isDir[x]
      /\ \A m \in Names : entries[x][m] = NULL
  BY <1>1, <1>2, <1>3 DEF TreeOnDisk, NewGood, Bare
<1>5. CASE Lookup(d, n) = NULL
  <2>1. n \in Names
    <3>1. n \in Names \cup {Up}
      BY <1>1, <1>2, HeadName
    <3>2. up[d] # NULL
      BY <1>1, <1>2 DEF TreeOnDisk, DirsGood
    <3> QED BY <1>5, <3>1, <3>2 DEF Lookup
  <2>2. entries[d][n] = NULL
    BY <1>5, <2>1, DirectoryAssumption DEF Lookup
  <2>3. /\ isDir' = [isDir EXCEPT ![x] = made]
        /\ up' = [up EXCEPT ![x] = IF made THEN d ELSE NULL]
        /\ entries' = [entries EXCEPT ![x] = NoEntries, ![d][n] = x]
        /\ strays' = IF removed[d] THEN strays \cup {x} ELSE strays
        /\ used' = used
    BY <1>5 DEF Add
  <2>4. \A s \in Sectors, m \in Names :
          entries'[s][m] = IF s = d /\ m = n THEN x ELSE entries[s][m]
    <3> DEFINE e == [entries EXCEPT ![x] = NoEntries]
    <3>1. \A s \in Sectors, m \in Names : e[s][m] = entries[s][m]
      BY <1>1, <1>2, <1>4 DEF TypeOK, NoEntries
    <3>2. e \in [Sectors -> [Names -> Sectors \cup {NULL}]]
      BY <1>1 DEF TypeOK, NoEntries
    <3>3. entries' = [e EXCEPT ![d][n] = x]
      BY <2>3
    <3> HIDE DEF e
    <3>4. \A s \in Sectors, m \in Names : entries'[s][m] = IF s = d /\ m = n THEN x ELSE e[s][m]
      BY <1>2, <2>1, <3>2, <3>3
    <3> QED BY <3>1, <3>4
  <2>5. \A s \in Sectors :
          /\ isDir'[s] = IF s = x THEN made ELSE isDir[s]
          /\ up'[s] = IF s = x THEN (IF made THEN d ELSE NULL) ELSE up[s]
          /\ s \in strays' <=> s \in strays \/ (s = x /\ removed[d])
    BY <1>1, <2>3 DEF TypeOK
  <2>6. AddsName(d, n, x, made)
    BY <1>2, <2>3, <2>4, <2>5 DEF AddsName
  <2> QED BY <1>2, <1>3, <1>4, <2>1, <2>2, <2>6
<1>6. CASE Lookup(d, n) # NULL
  <2>1. used' = used \ {x} /\ UNCHANGED <<isDir, up, entries, strays>>
    BY <1>6 DEF Add, GivenBack
  <2> QED BY <1>2, <1>3, <1>4, <2>1
<1> QED BY <1>5, <1>6

LEMMA AddTree ==
  ASSUME IInv, IInv', TreeInv, ~fault, NEW p \in Procs, Add(p), Others(p)
  PROVE  TreeInv'
<1> DEFINE d == dir[p]
           n == Head(path[p])
           x == new[p]
           made == op[p] = "mkdir"
<1>1. /\ TypeOK /\ TypeOK' /\ Places /\ RefCounts /\ Locks /\ Holding /\ Acyclic
      /\ StraysUnvisited /\ TreeOnDisk
  BY DEF IInv, TreeInv
<1>2. /\ UNCHANGED <<cwd, file, dir, child, path>>
      /\ pc[p] = "add" /\ pc'[p] = "close" /\ UnlockParent(p)
  BY <1>1 DEF Add, Goto, TypeOK
<1>3. /\ d \in Sectors /\ isDir[d] /\ openCnt[d] > 0 /\ d \notin strays /\ lock[d] = p
      /\ x \in Sectors /\ x # Root /\ x # d /\ openCnt[x] = 0 /\ x \notin strays
      /\ \A m \in Names : entries[x][m] = NULL
      /\ \/ /\ used' = used \ {x}
            /\ UNCHANGED <<isDir, up, entries, openCnt, removed, strays>>
         \/ n \in Names /\ entries[d][n] = NULL /\ AddsName(d, n, x, made)
  BY AddEffect
<1>4. made \in BOOLEAN /\ x = new[p] /\ pc'[p] # "add"
  BY <1>2
<1>5. Locks'
  BY <1>1, <1>2, LocksReleased DEF InLock
<1>6. \A s \in {cwd[p], dir[p], file[p]} : s # x
  BY <1>1, <1>3, OpenRefs
<1>7. pc'[p] \notin InLock \cup {"lock"} /\ pc'[p] \notin {"lockChild", "remove"}
  BY <1>2 DEF InLock
<1> HIDE DEF n, d, x, made
<1>8. CASE n \in Names /\ entries[d][n] = NULL /\ AddsName(d, n, x, made)
  <2>1. TreeOnDisk'
    <3>1. strays' \subseteq Sectors
      BY <1>1 DEF TypeOK
    <3> QED BY <1>1, <1>2, <1>3, <1>4, <1>8, <3>1, TreeAdded
  <2>2. Acyclic'
    <3>1. \A m \in Names : entries'[x][m] = NULL
      BY <1>3, <1>8 DEF AddsName
    <3>2. \A s \in Sectors, m \in Names :
            entries'[s][m] \in {entries[s][m], NULL} \/ entries'[s][m] = x
      BY <1>8 DEF AddsName
    <3> QED BY <1>1, <1>3, <3>1, <3>2, OneEntryMore
  <2>3. Holding'
    <3>1. \A s \in Sectors : openCnt[s] > 0 /\ openCnt'[s] > 0 =>
            /\ isDir'[s] <=> isDir[s]
            /\ lock[s] # p => \A m \in Names : entries'[s][m] = entries[s][m]
      <4>1. ASSUME NEW s \in Sectors, openCnt[s] > 0
            PROVE  s # x
        BY <1>3, <4>1
      <4> QED BY <1>3, <1>8, <4>1 DEF AddsName
    <3> QED BY <1>1, <1>7, <3>1, HoldingKept
  <2>4. StraysUnvisited'
    <3>1. \A s \in Sectors : s \in strays' => s \in strays \/ openCnt[s] = 0
      BY <1>3, <1>8 DEF AddsName
    <3>2. strays' \subseteq strays \cup {x} /\ strays' \subseteq Sectors /\ pc'[p] # "descend"
      BY <1>1, <1>2, <1>8 DEF AddsName, TypeOK
    <3>3. cwd'[p] \notin strays' /\ dir'[p] \notin strays' /\ file'[p] \notin strays'
      BY <1>1, <1>2, <1>6, <3>2 DEF StraysUnvisited
    <3> QED BY <1>1, <3>1, <3>2, <3>3, UnvisitedKept
  <2> QED BY <1>5, <2>1, <2>2, <2>3, <2>4 DEF TreeInv
<1>9. CASE used' = used \ {x} /\ UNCHANGED <<isDir, up, entries, openCnt, removed, strays>>
  <2>1. TreeOnDisk'
    BY <1>1, <1>2, <1>4, <1>9, TreeGivenBack
  <2>2. Acyclic' /\ StraysUnvisited'
    BY <1>1, <1>2, <1>9 DEF Acyclic, StraysUnvisited, Others
  <2>3. Holding'
    BY <1>1, <1>7, <1>9, HoldingKept
  <2> QED BY <1>5, <2>1, <2>2, <2>3 DEF TreeInv
<1> QED BY <1>3, <1>8, <1>9

\* The name is removed that p found, and the inode is open and has no entries.
LEMMA RemoveEffect ==
  ASSUME IInv, TreeInv, ~fault, NEW p \in Procs, RemoveEntry(p),
         NEW d, NEW n, NEW c, d = dir[p], n = Head(path[p]), c = child[p]
  PROVE  /\ d \in Sectors /\ isDir[d] /\ d \notin strays /\ d \in used /\ n \in Names
         /\ c \in Sectors /\ entries[d][n] = c /\ c # d /\ openCnt[c] > 0
         /\ lock' = IF lock[c] = p THEN [lock EXCEPT ![c] = NULL] ELSE lock
         /\ \/ UNCHANGED <<used, isDir, up, openCnt, strays, entries, removed>>
            \/ RemovesName(d, n, c) /\ \A m \in Names : entries[c][m] = NULL
<1>1. TypeOK /\ Places /\ RefCounts /\ Holding /\ Acyclic /\ StraysUnvisited /\ TreeOnDisk
  BY DEF IInv, TreeInv
<1>2. /\ UNCHANGED <<used, isDir, up, openCnt, strays>>
      /\ pc[p] = "remove" /\ d \in Sectors /\ c \in Sectors
      /\ lock' = IF lock[c] = p THEN [lock EXCEPT ![c] = NULL] ELSE lock
  BY <1>1 DEF RemoveEntry, UnlockChild, TypeOK, Places, HasChild
<1>3. isDir[d] /\ entries[d][n] = c
  BY <1>1, <1>2 DEF Holding, InLock
<1>4. n \in Names /\ c # d /\ openCnt[c] > 0 /\ openCnt[d] > 0
  BY <1>1, <1>2, <1>3, HeadName, NoSelfEntry, OpenRefs
<1>5. d \in used /\ d \notin strays
  BY <1>1, <1>2, <1>4 DEF TreeOnDisk, UnusedBare, StraysUnvisited
<1>6. CASE isDir[c] /\ ~IsEmpty(c)
  <2>1. UNCHANGED <<entries, removed>>
    BY <1>6 DEF RemoveEntry
  <2> QED BY <1>2, <1>3, <1>4, <1>5, <2>1
<1>7. CASE ~(isDir[c] /\ ~IsEmpty(c))
  <2>1. /\ entries' = [entries EXCEPT ![d][n] = NULL]
        /\ removed' = [removed EXCEPT ![c] = TRUE]
    BY <1>7 DEF RemoveEntry
  <2>2. \A m \in Names : entries[c][m] = NULL
    <3>1. CASE IsEmpty(c)
      BY <3>1 DEF IsEmpty, NoEntries
    <3>2. CASE ~isDir[c]
      BY <1>1, <1>2, <3>2 DEF TreeOnDisk, EntriesGood
    <3> QED BY <1>7, <3>1, <3>2
  <2>3. \A s \in Sectors : removed'[s] <=> removed[s] \/ s = c
    BY <1>1, <1>2, <2>1 DEF TypeOK
  <2>4. entries \in [Sectors -> [Names -> Sectors \cup {NULL}]]
    BY <1>1 DEF TypeOK
  <2>5. \A s \in Sectors, m \in Names :
          entries'[s][m] = IF s = d /\ m = n THEN NULL ELSE entries[s][m]
    BY <1>2, <1>4, <2>1, <2>4
  <2>6. RemovesName(d, n, c)
    BY <1>2, <2>3, <2>5 DEF RemovesName
  <2> QED BY <1>2, <1>3, <1>4, <1>5, <2>2, <2>6
<1> QED BY <1>6, <1>7

LEMMA RemoveEntryTree ==
  ASSUME IInv, IInv', TreeInv, ~fault, NEW p \in Procs, RemoveEntry(p), Others(p)
  PROVE  TreeInv'
<1> DEFINE d == dir[p]
           n == Head(path[p])
           c == child[p]
<1>1. TypeOK /\ Places /\ Locks /\ Holding /\ Acyclic /\ StraysUnvisited /\ TreeOnDisk
  BY DEF IInv, TreeInv
<1>2. /\ UNCHANGED <<cwd, file, dir, child, path>>
      /\ pc[p] = "remove" /\ pc'[p] = "closeChild"
  BY <1>1 DEF RemoveEntry, Goto, localVars, TypeOK
<1>3. /\ d \in Sectors /\ isDir[d] /\ n \in Names
      /\ c \in Sectors /\ entries[d][n] = c /\ c # d /\ openCnt[c] > 0
      /\ lock' = IF lock[c] = p THEN [lock EXCEPT ![c] = NULL] ELSE lock
      /\ \/ UNCHANGED <<used, isDir, up, openCnt, strays, entries, removed>>
         \/ RemovesName(d, n, c) /\ \A m \in Names : entries[c][m] = NULL
  BY RemoveEffect
<1>4. Locks'
  <2>1. lock[d] = p /\ NULL \notin Procs
    BY <1>1, <1>2, DirectoryAssumption DEF Locks, InLock
  <2>2. \A s \in Sectors : lock'[s] = IF s = c /\ lock[c] = p THEN NULL ELSE lock[s]
    BY <1>1, <1>3 DEF TypeOK
  <2> HIDE DEF c, d
  <2>3. ASSUME NEW q \in Procs, pc'[q] \in InLock
        PROVE  lock'[dir'[q]] = q
    <3>1. pc[q] \in InLock /\ dir'[q] = dir[q]
      BY <1>2, <2>3 DEF Others, InLock
    <3>2. lock[dir[q]] = q /\ dir[q] \in Sectors
      BY <1>1, <3>1 DEF Locks, TypeOK, Places, InLock
    <3> QED BY <1>3, <2>1, <2>2, <3>1, <3>2 DEF d
  <2>4. ASSUME NEW s \in Sectors, NEW q \in Procs, lock'[s] = q
        PROVE  \/ pc'[q] \in InLock /\ s = dir'[q]
               \/ pc'[q] = "remove" /\ s = child'[q]
    <3>1. lock[s] = q /\ ~(s = c /\ q = p)
      BY <2>1, <2>2, <2>4
    <3> QED BY <1>1, <1>2, <3>1 DEF Locks, Others, InLock, c
  <2> QED BY <2>3, <2>4 DEF Locks
<1>5. lock[d] = p /\ pc'[p] \notin {"lockChild", "remove"} /\ pc'[p] # "add" /\ pc[p] # "add"
  BY <1>1, <1>2 DEF Locks, InLock
<1>6. CASE UNCHANGED <<used, isDir, up, openCnt, strays, entries, removed>>
  <2>1. Holding'
    <3>1. isDir'[dir'[p]]
      BY <1>2, <1>3, <1>6
    <3> QED BY <1>1, <1>5, <1>6, <3>1, HoldingKept
  <2>2. /\ pc'[p] # "descend" /\ dir'[p] \notin strays
        /\ cwd'[p] = cwd[p] /\ file'[p] \in {file[p], dir[p]}
    BY <1>1, <1>2 DEF StraysUnvisited
  <2> QED BY <1>4, <1>5, <1>6, <2>1, <2>2, TreeInvOpened
<1>7. CASE RemovesName(d, n, c) /\ \A m \in Names : entries[c][m] = NULL
  <2> HIDE DEF c, d, n
  <2>1. TreeOnDisk'
    BY <1>1, <1>3, <1>5, <1>7, TreeRemoved
  <2>2. Acyclic'
    <3>1. \A s \in Sectors, m \in Names : entries'[s][m] \in {entries[s][m], NULL}
      BY <1>7 DEF RemovesName
    <3> QED BY <1>1, <3>1, FewerEntries
  <2>3. StraysUnvisited'
    BY <1>1, <1>2, <1>7 DEF StraysUnvisited, Others, RemovesName
  <2>4. Holding'
    <3>1. isDir'[dir'[p]]
      BY <1>2, <1>3, <1>7 DEF d, RemovesName
    <3>2. \A s \in Sectors : openCnt[s] > 0 /\ openCnt'[s] > 0 =>
            /\ isDir'[s] <=> isDir[s]
            /\ lock[s] # p => \A m \in Names : entries'[s][m] = entries[s][m]
      BY <1>5, <1>7 DEF RemovesName
    <3> QED BY <1>1, <1>5, <3>1, <3>2, HoldingKept
  <2> QED BY <1>4, <2>1, <2>2, <2>3, <2>4 DEF TreeInv
<1> QED BY <1>3, <1>6, <1>7

\* At the start there is the root directory, with no entries.
LEMMA InitTree == Init => TreeInv
<1> SUFFICES ASSUME Init
             PROVE  TreeInv
  OBVIOUS
<1>1. /\ \A s \in Sectors, n \in Names : entries[s][n] = NULL
      /\ \A s \in Sectors : lock[s] = NULL /\ ~removed[s] /\ (isDir[s] <=> s = Root)
      /\ \A s \in Sectors : s # Root => up[s] = NULL /\ openCnt[s] = 0
      /\ \A p \in Procs : pc[p] = "run" /\ cwd[p] = Root /\ dir[p] = NULL /\ file[p] = NULL
      /\ used = {Root} /\ up[Root] = Root /\ strays = {} /\ Root \in Sectors
      /\ NULL \notin Sectors \cup Procs
  BY DirectoryAssumption DEF Init, NoEntries
<1>2. Locks /\ Holding
  BY <1>1 DEF Locks, Holding, InLock
<1>3. Acyclic
  BY <1>1 DEF Acyclic
<1>4. UnusedBare /\ EntriesGood /\ OneName /\ StraysBare /\ DirsGood
  BY <1>1 DEF UnusedBare, EntriesGood, OneName, StraysBare, DirsGood, Bare
<1>5. NewGood /\ HasName /\ RemovedOpen /\ StraysUnvisited
  BY <1>1 DEF NewGood, HasName, RemovedOpen, StraysUnvisited
<1> QED BY <1>2, <1>3, <1>4, <1>5 DEF TreeInv, TreeOnDisk

LEMMA NextTree ==
  ASSUME IInv, IInv', TreeInv, Next
  PROVE  TreeInv'
<1>1. PICK p \in Procs :
        \/ Step(p) \/ CloseFile(p)
        \/ \E call \in CallsOf[p], w \in Paths, s \in Sectors : Begin(p, call, w, s)
  BY DEF Next
<1>2. ~fault
  BY DEF Next
<1>3. Others(p)
  <2>1. TypeOK
    BY DEF IInv
  <2> QED BY <1>1, <2>1, StepOthers
<1>4. CASE Step(p)
  BY <1>2, <1>3, <1>4, WalkTree, DescendTree, CloseTree, OpenTree, ChDirTree, LockParentTree,
     ScanTree, FlipTree, AddTree, FindTree, LockChildTree, RemoveEntryTree, CloseChildTree
     DEF Step
<1>5. CASE CloseFile(p)
  BY <1>2, <1>3, <1>5, CloseFileTree
<1>6. CASE \E call \in CallsOf[p], w \in Paths, s \in Sectors : Begin(p, call, w, s)
  BY <1>2, <1>3, <1>6, BeginTree
<1> QED BY <1>1, <1>4, <1>5, <1>6

LEMMA StutterTree ==
  ASSUME TreeInv, UNCHANGED vars
  PROVE  TreeInv'
<1>1. UNCHANGED <<used, isDir, entries, up, openCnt, removed, lock, cwd, file, pc, op, path, dir,
                  child, new, strays, fault>>
  BY DEF vars, diskVars, inodeVars, localVars
<1>2. Locks' /\ Holding' /\ Acyclic'
  BY <1>1 DEF TreeInv, Locks, Holding, Acyclic
<1>3. TreeOnDisk => TreeOnDisk'
  BY <1>1 DEF TreeOnDisk, UnusedBare, EntriesGood, OneName, NewGood, HasName, StraysBare,
              RemovedOpen, DirsGood, Bare
<1>4. StraysUnvisited => StraysUnvisited'
  BY <1>1 DEF StraysUnvisited
<1> QED BY <1>1, <1>2, <1>3, <1>4 DEF TreeInv

\* Every step keeps the tree.
THEOREM TreeInvariance == Spec => [](IInv /\ TreeInv)
<1>1. IInv /\ IInv' /\ TreeInv /\ [Next]_vars => TreeInv'
  BY NextTree, StutterTree
<1> QED BY <1>1, InitTree, Invariance, PTL DEF Spec

-----------------------------------------------------------------------------
(* What follows from it.                                                   *)

\* A sector in use has one name in the tree, is open, is about to get a name, or
\* is that of an inode added to a removed directory; the free map, which
\* free_map_release and free_map_allocate change, loses none and shares none.
THEOREM SectorsKept == Spec => []NoSectorLost
<1>1. ASSUME IInv, TreeInv
      PROVE  NoSectorLost
  <2> SUFFICES ASSUME ~fault
               PROVE  /\ used = {Root} \cup NamedInodes \cup OpenInodes \cup NewInodes \cup strays
                      /\ strays \cap (NamedInodes \cup NewInodes) = {}
                      /\ \A d, e \in LiveDirs, m, n \in Names :
                           entries[d][m] # NULL /\ entries[d][m] = entries[e][n] => d = e /\ m = n
                      /\ \A d \in LiveDirs, n \in Names :
                           entries[d][n] # NULL => /\ ~removed[entries[d][n]]
                                                   /\ isDir[entries[d][n]] => up[entries[d][n]] = d
    BY DEF NoSectorLost
  <2>1. TreeOnDisk /\ TypeOK
    BY <1>1 DEF TreeInv, IInv
  <2>2. used \subseteq Sectors /\ Root \in used /\ LiveDirs \subseteq Sectors /\ NULL \notin Sectors
    BY <2>1, DirectoryAssumption DEF TypeOK, LiveDirs
  <2>3. \A s : s \in NamedInodes <=> s # NULL /\ \E d \in LiveDirs, n \in Names : s = entries[d][n]
    BY DEF NamedInodes
  <2>4. \A s : s \in NewInodes <=> \E p \in Procs : pc[p] = "add" /\ s = new[p]
    BY DEF NewInodes
  <2>5. \A s : s \in OpenInodes <=> s \in Sectors /\ openCnt[s] > 0
    BY DEF OpenInodes
  <2>6. \A d \in Sectors, n \in Names : entries[d][n] # NULL =>
          /\ entries[d][n] \in used
          /\ ~removed[entries[d][n]]
          /\ isDir[entries[d][n]] => up[entries[d][n]] = d
          /\ d \in LiveDirs <=> entries[d][n] \notin strays
    <3>1. ASSUME NEW d \in Sectors, NEW n \in Names, entries[d][n] # NULL
          PROVE  d \in LiveDirs <=> entries[d][n] \notin strays
      <4>1. d \in used /\ isDir[d] /\ d \notin strays /\ (removed[d] <=> entries[d][n] \in strays)
        BY <2>1, <3>1 DEF TreeOnDisk, EntriesGood, StraysBare, Bare
      <4> QED BY <4>1 DEF LiveDirs
    <3> QED BY <2>1, <3>1 DEF TreeOnDisk, EntriesGood
  <2>7. ASSUME NEW s \in used
        PROVE  s \in {Root} \cup NamedInodes \cup OpenInodes \cup NewInodes \cup strays
    <3>1. \/ s = Root \/ s \in strays \/ removed[s]
          \/ \E p \in Procs : pc[p] = "add" /\ new[p] = s
          \/ s \notin strays /\ \E d \in Sectors, n \in Names : entries[d][n] = s
      BY <2>1 DEF TreeOnDisk, HasName
    <3>2. CASE removed[s]
      BY <2>1, <2>2, <2>5, <3>2 DEF TreeOnDisk, RemovedOpen
    <3>3. CASE s \notin strays /\ \E d \in Sectors, n \in Names : entries[d][n] = s
      <4>1. PICK d \in Sectors, n \in Names : entries[d][n] = s
        BY <3>3
      <4>2. s # NULL /\ d \in LiveDirs
        BY <2>2, <2>6, <3>3, <4>1
      <4> QED BY <2>3, <4>1, <4>2
    <3> QED BY <2>4, <3>1, <3>2, <3>3
  <2>8. ASSUME NEW s \in {Root} \cup NamedInodes \cup OpenInodes \cup NewInodes \cup strays
        PROVE  s \in used
    <3>1. s \in NamedInodes => s \in used
      BY <2>2, <2>3, <2>6
    <3>2. s \in OpenInodes => s \in used
      BY <2>1, <2>5 DEF TreeOnDisk, UnusedBare
    <3>3. s \in NewInodes \cup strays => s \in used
      BY <2>1, <2>4 DEF TreeOnDisk, NewGood, StraysBare
    <3> QED BY <2>2, <3>1, <3>2, <3>3
  <2>9. ASSUME NEW s \in strays, s \in NamedInodes \cup NewInodes
        PROVE  FALSE
    <3>1. s \notin NewInodes
      BY <2>1, <2>4 DEF TreeOnDisk, NewGood
    <3>2. s \notin NamedInodes
      BY <2>2, <2>3, <2>6
    <3> QED BY <2>9, <3>1, <3>2
  <2>10. \A d, e \in LiveDirs, m, n \in Names :
           entries[d][m] # NULL /\ entries[d][m] = entries[e][n] => d = e /\ m = n
    BY <2>1, <2>2 DEF TreeOnDisk, OneName
  <2> QED BY <2>2, <2>6, <2>7, <2>8, <2>9, <2>10
<1> QED BY <1>1, TreeInvariance, PTL

\* However many processes walk, create and remove at a time, some process of
\* every set of them waits for no lock that another of the set holds.
THEOREM LocksOrdered == Spec => []NoDeadlock
<1>1. ASSUME IInv, TreeInv
      PROVE  NoDeadlock
  <2> SUFFICES ASSUME NEW S \in (SUBSET Procs) \ {{}},
                      \A p \in S : \E q \in S : WaitsFor(p, q)
               PROVE  FALSE
    BY DEF NoDeadlock
  <2>1. TypeOK /\ Places /\ Locks /\ Holding /\ Acyclic
    BY <1>1 DEF IInv, TreeInv
  <2> DEFINE T == {q \in S : pc[q] = "lockChild"}
             D == {child[q] : q \in T}
  <2>2. ASSUME NEW p \in S, NEW q \in S, WaitsFor(p, q)
        PROVE  /\ pc[q] = "lockChild"
               /\ pc[p] = "lockChild" => child[p] = dir[q]
    <3>1. pc[q] \in {"walk", "lock", "lockChild"}
      BY DEF WaitsFor
    <3>2. \A s \in Sectors : lock[s] = q => pc[q] = "lockChild" /\ s = dir[q]
      BY <2>1, <3>1 DEF Locks, InLock
    <3>3. pc[p] = "lockChild" => child[p] \in Sectors
      BY <2>1 DEF TypeOK, Places, HasChild
    <3>4. pc[p] \in {"walk", "lock"} => dir[p] \in Sectors
      BY <2>1 DEF TypeOK, Places
    <3> QED BY <2>2, <3>2, <3>3, <3>4 DEF WaitsFor
  <2>3. T # {}
    BY <2>2
  <2>4. D \in (SUBSET Sectors) \ {{}}
    <3>1. \A q \in T : child[q] \in Sectors
      BY <2>1 DEF TypeOK, Places, HasChild
    <3> QED BY <2>3, <3>1
  <2>5. PICK x \in D : \A n \in Names : entries[x][n] \notin D
    BY <2>1, <2>4 DEF Acyclic
  <2>6. PICK q \in T : x = child[q]
    OBVIOUS
  <2>7. PICK r \in T : x = dir[r]
    BY <2>2, <2>6
  <2>8. Head(path[r]) \in Names /\ entries[x][Head(path[r])] = child[r]
    BY <2>1, <2>7, HeadName DEF Holding
  <2> QED BY <2>5, <2>8
<1> QED BY <1>1, TreeInvariance, PTL

-----------------------------------------------------------------------------
(* The promised tree.                                                      *)

TreeView == [d \in Sectors |-> IF d \in LiveDirs THEN entries[d] ELSE NoEntries]
HeldView == OpenInodes \ strays

\* What a step does to the view: one step of the promised tree, or nothing.
Promised == FT!Next \/ UNCHANGED <<LiveDirs, TreeView, HeldView>>

LEMMA ViewNamed ==
  ASSUME TypeOK
  PROVE  /\ \A s : s \in FT!Named <=> s \in NamedInodes
         /\ \A d \in Sectors : TreeView[d] = IF d \in LiveDirs THEN entries[d] ELSE NoEntries
<1>1. \A d \in LiveDirs : d \in Sectors
  BY DEF LiveDirs, TypeOK
<1>2. \A s : s \in NamedInodes <=> s # NULL /\ \E d \in LiveDirs, n \in Names : s = entries[d][n]
  BY DEF NamedInodes
<1>3. \A s : s \in FT!Named <=>
              s # NULL /\ \E d \in LiveDirs, n \in Names : s = TreeView[d][n]
  BY DEF FT!Named, TreeView
<1>4. \A d \in Sectors : TreeView[d] = IF d \in LiveDirs THEN entries[d] ELSE NoEntries
  BY DEF TreeView
<1> QED BY <1>1, <1>2, <1>3, <1>4

\* The same directories with the same entries look the same.
LEMMA SameView ==
  ASSUME TypeOK, TypeOK', \A d \in Sectors : d \in LiveDirs' <=> d \in LiveDirs,
         \A d \in LiveDirs, n \in Names : entries'[d][n] = entries[d][n]
  PROVE  UNCHANGED <<LiveDirs, TreeView>>
<1>1. LiveDirs \subseteq Sectors /\ LiveDirs' \subseteq Sectors
  BY DEF LiveDirs, TypeOK
<1>2. LiveDirs' = LiveDirs
  BY <1>1
<1>3. ASSUME NEW d \in LiveDirs
      PROVE  entries'[d] = entries[d]
  <2>1. /\ entries[d] \in [Names -> Sectors \cup {NULL}]
        /\ entries'[d] \in [Names -> Sectors \cup {NULL}]
    BY <1>1 DEF TypeOK
  <2> QED BY <2>1
<1>4. TreeView' = TreeView
  BY <1>2, <1>3 DEF TreeView, NoEntries
<1> QED BY <1>2, <1>4

\* Opening an inode of the tree is Hold, and opening a stray is not seen.
LEMMA OpenedView ==
  ASSUME TypeOK, TypeOK', NEW c \in Sectors, OpenInode(c),
         UNCHANGED <<used, isDir, entries, strays>>,
         c \in strays \/ openCnt[c] > 0 \/ c \in NamedInodes \cup {Root}
  PROVE  Promised
<1>1. removed' = removed /\ \A s \in Sectors : openCnt'[s] = IF s = c THEN openCnt[s] + 1 ELSE openCnt[s]
  BY DEF OpenInode, TypeOK
<1>2. UNCHANGED <<LiveDirs, TreeView>>
  BY <1>1, SameView DEF LiveDirs
<1>3. \A s \in Sectors : openCnt[s] \in Nat
  BY DEF TypeOK
<1>4. OpenInodes' = OpenInodes \cup {c}
  BY <1>1, <1>3 DEF OpenInodes
<1>5. CASE c \in strays \/ openCnt[c] > 0
  <2>1. HeldView' = HeldView
    BY <1>4, <1>5 DEF HeldView, OpenInodes
  <2> QED BY <1>2, <2>1 DEF Promised
<1>6. CASE c \in NamedInodes \cup {Root} /\ c \notin strays
  <2>1. HeldView' = HeldView \cup {c}
    BY <1>4, <1>6 DEF HeldView
  <2>2. FT!Hold(c)
    BY <1>2, <1>6, <2>1, ViewNamed DEF FT!Hold, TreeView, HeldView
  <2> QED BY <2>2 DEF Promised, FT!Next
<1> QED BY <1>5, <1>6

\* Closing an inode is Release.
LEMMA ClosedView ==
  ASSUME TypeOK, TypeOK', NEW x \in Sectors, openCnt[x] > 0, CloseInode(x)
  PROVE  Promised
<1> DEFINE gone(s) == s = x /\ openCnt[x] = 1 /\ removed[x]
<1>1. /\ \A s \in Sectors : openCnt'[s] = IF s = x THEN openCnt[s] - 1 ELSE openCnt[s]
      /\ \A s \in Sectors :
           /\ s \in used' <=> s \in used /\ ~gone(s)
           /\ isDir'[s] <=> isDir[s] /\ ~gone(s)
           /\ removed'[s] <=> removed[s] /\ ~gone(s)
           /\ s \in strays' <=> s \in strays /\ ~gone(s)
           /\ \A n \in Names : entries'[s][n] = IF gone(s) THEN NULL ELSE entries[s][n]
  BY AfterClose
<1>2. \A s \in Sectors : gone(s) => s = x /\ removed[s] /\ ~(openCnt'[s] > 0)
  BY <1>1
<1> HIDE DEF gone
<1>3. \A s \in Sectors : /\ s \in LiveDirs' <=> s \in LiveDirs
                         /\ s \in LiveDirs => ~gone(s)
  BY <1>1, <1>2 DEF LiveDirs
<1>4. UNCHANGED <<LiveDirs, TreeView>>
  <2>1. \A d \in LiveDirs, n \in Names : entries'[d][n] = entries[d][n]
    BY <1>1, <1>3 DEF LiveDirs, TypeOK
  <2> QED BY <1>3, <2>1, SameView
<1>5. \A s \in Sectors : s \in HeldView' <=> s \in HeldView /\ openCnt'[s] > 0
  <2>1. \A s \in Sectors : openCnt[s] \in Nat /\ (openCnt'[s] > 0 => openCnt[s] > 0)
    BY <1>1 DEF TypeOK
  <2> QED BY <1>1, <1>2, <2>1 DEF HeldView, OpenInodes
<1>6. HeldView \subseteq Sectors /\ HeldView' \subseteq Sectors
  BY DEF HeldView, OpenInodes
<1>7. \A s \in HeldView : s # x => openCnt'[s] > 0
  BY <1>1, <1>6 DEF HeldView, OpenInodes
<1>8. HeldView' = HeldView \/ HeldView' = HeldView \ {x}
  BY <1>5, <1>6, <1>7
<1>9. CASE HeldView' = HeldView
  BY <1>4, <1>9 DEF Promised
<1>10. CASE HeldView' = HeldView \ {x}
  <2>1. FT!Release(x)
    BY <1>4, <1>10 DEF FT!Release, TreeView, HeldView
  <2> QED BY <2>1 DEF Promised, FT!Next
<1> QED BY <1>8, <1>9, <1>10

\* A step that changes nothing of what is seen.
LEMMA UnseenView ==
  ASSUME TypeOK, TypeOK', UNCHANGED <<isDir, entries, openCnt, removed, strays>>,
         \A s \in Sectors : isDir[s] => (s \in used' <=> s \in used)
  PROVE  Promised
<1>1. UNCHANGED <<LiveDirs, TreeView>>
  <2>1. \A d \in Sectors : d \in LiveDirs' <=> d \in LiveDirs
    BY DEF LiveDirs
  <2> QED BY <2>1, SameView
<1>2. HeldView' = HeldView
  BY DEF HeldView, OpenInodes
<1> QED BY <1>1, <1>2 DEF Promised

\* One entry of the tree that is seen changes.
ShowsAs(d, n, x) ==
  \A s \in Sectors, m \in Names :
    TreeView'[s][m] = IF s = d /\ m = n THEN x ELSE TreeView[s][m]

LEMMA ViewChanged ==
  ASSUME TypeOK, TypeOK', NEW d, NEW n, NEW x, x \in Sectors \cup {NULL}, ShowsAs(d, n, x)
  PROVE  TreeView' = [TreeView EXCEPT ![d][n] = x]
<1> DEFINE v == [TreeView EXCEPT ![d][n] = x]
<1>1. \A s \in Sectors : /\ TreeView[s] \in [Names -> Sectors \cup {NULL}]
                         /\ TreeView'[s] \in [Names -> Sectors \cup {NULL}]
  BY DEF TreeView, TypeOK, NoEntries
<1>2. TreeView = [s \in Sectors |-> TreeView[s]] /\ TreeView' = [s \in Sectors |-> TreeView'[s]]
  BY DEF TreeView
<1>3. TreeView \in [Sectors -> [Names -> Sectors \cup {NULL}]]
  BY <1>1, <1>2
<1>4. TreeView' \in [Sectors -> [Names -> Sectors \cup {NULL}]]
  BY <1>1, <1>2
<1> HIDE DEF TreeView
<1>5. v \in [Sectors -> [Names -> Sectors \cup {NULL}]]
  BY <1>3, EntrySet
<1>6. \A s \in Sectors, m \in Names : v[s][m] = TreeView'[s][m]
  BY <1>3 DEF ShowsAs
<1> HIDE DEF v
<1>7. ASSUME NEW s \in Sectors
      PROVE  v[s] = TreeView'[s]
  <2>1. /\ v[s] \in [Names -> Sectors \cup {NULL}]
        /\ TreeView'[s] \in [Names -> Sectors \cup {NULL}]
    BY <1>4, <1>5
  <2> QED BY <1>6, <2>1
<1>8. v = TreeView'
  BY <1>4, <1>5, <1>7
<1> QED BY <1>8 DEF v

\* A new name is added to the tree if its directory is in the tree.
LEMMA AddedView ==
  ASSUME TypeOK, TypeOK', TreeOnDisk, NEW d \in Sectors, NEW n \in Names, NEW x \in Sectors,
         NEW made \in BOOLEAN, AddsName(d, n, x, made), isDir[d], openCnt[d] > 0, d \notin strays,
         x # d, x # Root, openCnt[x] = 0, x \notin strays, ~isDir[x], ~removed[x], x \in used,
         entries[d][n] = NULL, \A e \in Sectors, m \in Names : entries[e][m] # x
  PROVE  Promised
<1>1. d \in LiveDirs <=> ~removed[d]
  BY DEF LiveDirs, TreeOnDisk, UnusedBare
<1>2. HeldView' = HeldView
  <2>1. \A s \in Sectors : s \in HeldView' <=> s \in HeldView
    BY DEF HeldView, OpenInodes, AddsName
  <2> QED BY <2>1 DEF HeldView, OpenInodes
<1>3. CASE removed[d]
  <2>1. \A s \in Sectors : s \in LiveDirs' <=> s \in LiveDirs
    BY <1>3 DEF LiveDirs, AddsName
  <2>2. \A s \in LiveDirs, m \in Names : entries'[s][m] = entries[s][m]
    BY <1>1, <1>3 DEF AddsName, LiveDirs, TypeOK
  <2> QED BY <1>2, <2>1, <2>2, SameView DEF Promised
<1>4. CASE ~removed[d]
  <2>1. \A s \in Sectors : s \in LiveDirs' <=> s \in LiveDirs \/ (s = x /\ made)
    BY <1>4 DEF LiveDirs, AddsName
  <2>2. LiveDirs \subseteq Sectors /\ LiveDirs' \subseteq Sectors
    BY DEF LiveDirs, TypeOK
  <2>3. LiveDirs' \in {LiveDirs, LiveDirs \cup {x}}
    <3>1. CASE made
      <4>1. LiveDirs' = LiveDirs \cup {x}
        BY <2>1, <2>2, <3>1
      <4> QED BY <4>1
    <3>2. CASE ~made
      <4>1. LiveDirs' = LiveDirs
        BY <2>1, <2>2, <3>2
      <4> QED BY <4>1
    <3> QED BY <3>1, <3>2
  <2>4. \A s \in Sectors, m \in Names :
          TreeView'[s][m] = IF s = d /\ m = n THEN x ELSE TreeView[s][m]
    <3> SUFFICES ASSUME NEW s \in Sectors, NEW m \in Names
                 PROVE  TreeView'[s][m] = IF s = d /\ m = n THEN x ELSE TreeView[s][m]
      OBVIOUS
    <3>1. TreeView[s][m] = IF s \in LiveDirs THEN entries[s][m] ELSE NULL
      BY DEF TreeView, NoEntries
    <3>2. TreeView'[s][m] = IF s \in LiveDirs' THEN entries'[s][m] ELSE NULL
      BY DEF TreeView, NoEntries
    <3>3. entries'[s][m] = IF s = d /\ m = n THEN x ELSE entries[s][m]
      BY DEF AddsName
    <3>4. CASE s = x
      <4>1. entries[s][m] = NULL
        BY <3>4 DEF TreeOnDisk, EntriesGood
      <4>2. s # d
        BY <3>4
      <4> QED BY <3>1, <3>2, <3>3, <4>1, <4>2
    <3>5. CASE s # x
      <4>1. s \in LiveDirs' <=> s \in LiveDirs
        BY <2>1, <3>5
      <4>2. d \in LiveDirs
        BY <1>1, <1>4
      <4> QED BY <3>1, <3>2, <3>3, <4>1, <4>2
    <3> QED BY <3>4, <3>5
  <2>5. TreeView' = [TreeView EXCEPT ![d][n] = x]
    <3>1. ShowsAs(d, n, x)
      BY <2>4 DEF ShowsAs
    <3> QED BY <3>1, ViewChanged
  <2>6. x \notin FT!Named \cup HeldView \cup {Root}
    <3>1. x \notin NamedInodes
      BY <2>2 DEF NamedInodes
    <3> QED BY <3>1, ViewNamed DEF HeldView, OpenInodes
  <2>7. TreeView[d][n] = NULL
    BY <1>1, <1>4 DEF TreeView
  <2>8. d \in LiveDirs
    BY <1>1, <1>4
  <2>9. FT!Add(d, n, x)
    BY <1>2, <2>3, <2>5, <2>6, <2>7, <2>8 DEF FT!Add, TreeView, HeldView
  <2> QED BY <2>9 DEF Promised, FT!Next
<1> QED BY <1>3, <1>4

\* A name is removed from the tree if its directory is in the tree; the inode of
\* a name in a removed directory is a stray.
LEMMA RemovedView ==
  ASSUME TypeOK, TypeOK', TreeOnDisk, NEW d \in Sectors, NEW n \in Names, NEW c \in Sectors,
         RemovesName(d, n, c), isDir[d], d \in used, d \notin strays,
         c # d, entries[d][n] = c, \A m \in Names : entries[c][m] = NULL
  PROVE  Promised
<1>1. /\ d \in LiveDirs <=> ~removed[d]
      /\ removed[d] <=> c \in strays
  <2>1. entries[d][n] # NULL
    BY DirectoryAssumption
  <2> QED BY <2>1 DEF LiveDirs, TreeOnDisk, EntriesGood
<1>2. HeldView' = HeldView
  BY DEF HeldView, OpenInodes, RemovesName
<1>3. CASE removed[d]
  <2>1. \A s \in Sectors : s \in LiveDirs' <=> s \in LiveDirs
    BY <1>1, <1>3 DEF LiveDirs, RemovesName
  <2>2. \A s \in LiveDirs, m \in Names : entries'[s][m] = entries[s][m]
    BY <1>1, <1>3 DEF RemovesName, LiveDirs, TypeOK
  <2> QED BY <1>2, <2>1, <2>2, SameView DEF Promised
<1>4. CASE ~removed[d]
  <2>1. \A s \in Sectors : s \in LiveDirs' <=> s \in LiveDirs /\ s # c
    BY <1>4 DEF LiveDirs, RemovesName
  <2>2. LiveDirs \subseteq Sectors /\ LiveDirs' \subseteq Sectors
    BY DEF LiveDirs, TypeOK
  <2>3. LiveDirs' = LiveDirs \ {c}
    BY <2>1, <2>2
  <2>4. \A s \in Sectors, m \in Names :
          TreeView'[s][m] = IF s = d /\ m = n THEN NULL ELSE TreeView[s][m]
    <3> SUFFICES ASSUME NEW s \in Sectors, NEW m \in Names
                 PROVE  TreeView'[s][m] = IF s = d /\ m = n THEN NULL ELSE TreeView[s][m]
      OBVIOUS
    <3>1. TreeView[s][m] = IF s \in LiveDirs THEN entries[s][m] ELSE NULL
      BY DEF TreeView, NoEntries
    <3>2. TreeView'[s][m] = IF s \in LiveDirs' THEN entries'[s][m] ELSE NULL
      BY DEF TreeView, NoEntries
    <3>3. entries'[s][m] = IF s = d /\ m = n THEN NULL ELSE entries[s][m]
      BY DEF RemovesName
    <3>4. CASE s = c
      BY <3>1, <3>2, <3>3, <3>4
    <3>5. CASE s # c
      BY <2>1, <3>1, <3>2, <3>3, <3>5
    <3> QED BY <3>4, <3>5
  <2>5. TreeView' = [TreeView EXCEPT ![d][n] = NULL]
    <3>1. ShowsAs(d, n, NULL)
      BY <2>4 DEF ShowsAs
    <3> QED BY <3>1, ViewChanged
  <2>6. d \in LiveDirs /\ TreeView[d][n] = c /\ c # NULL
    BY <1>1, <1>4, DirectoryAssumption DEF TreeView
  <2>7. \A m \in Names : TreeView[c][m] = NULL
    BY DEF TreeView, NoEntries
  <2>8. FT!Empty(TreeView[d][n])
    BY <2>6, <2>7 DEF FT!Empty, TreeView
  <2>9. FT!Remove(d, n)
    BY <1>2, <2>3, <2>5, <2>6, <2>8 DEF FT!Remove, TreeView, HeldView
  <2> QED BY <2>9 DEF Promised, FT!Next
<1> QED BY <1>3, <1>4

\* Each step of a process is one of the promised tree or is not seen.
LEMMA StepView ==
  ASSUME IInv, IInv', TreeInv, TreeInv', ~fault, NEW p \in Procs, Step(p) \/ CloseFile(p)
  PROVE  Promised
<1>1. /\ TypeOK /\ TypeOK' /\ Places /\ RefCounts /\ TreeOnDisk /\ StraysUnvisited /\ Holding
  BY DEF IInv, TreeInv
<1>2. ASSUME NEW x \in Sectors, x \in {cwd[p], file[p], dir[p], child[p]}, CloseInode(x)
      PROVE  Promised
  BY <1>1, <1>2, OpenRefs, ClosedView
<1>3. CASE Walk(p)
  <2>1. /\ UNCHANGED <<used, isDir, entries, strays>> /\ pc[p] = "walk"
        /\ \/ UNCHANGED <<openCnt, removed>>
           \/ /\ isDir[dir[p]] /\ ~removed[dir[p]] /\ Lookup(dir[p], Head(path[p])) # NULL
              /\ OpenInode(Lookup(dir[p], Head(path[p])))
    BY <1>3 DEF Walk, diskVars
  <2>2. dir[p] \in Sectors /\ path[p] # <<>>
    BY <1>1, <2>1 DEF TypeOK, Places
  <2>3. openCnt[dir[p]] > 0 /\ dir[p] \notin strays /\ Head(path[p]) \in Names \cup {Up}
    BY <1>1, <2>2, OpenRefs, HeadName DEF StraysUnvisited
  <2>4. CASE UNCHANGED <<openCnt, removed>>
    BY <1>1, <2>1, <2>4, UnseenView
  <2>5. ASSUME NEW c, c = Lookup(dir[p], Head(path[p])), c # NULL, OpenInode(c),
               isDir[dir[p]], ~removed[dir[p]]
        PROVE  Promised
    <3>1. c \in NamedInodes \cup {Root} /\ c \in used \ strays
      BY <1>1, <2>2, <2>3, <2>5, GoodLookup
    <3>2. c \in Sectors
      BY <1>1, <3>1 DEF TypeOK
    <3> QED BY <1>1, <2>1, <2>5, <3>1, <3>2, OpenedView
  <2> QED BY <2>1, <2>4, <2>5
<1>4. CASE Descend(p)
  <2>1. CloseInode(dir[p]) /\ dir[p] \in Sectors
    BY <1>1, <1>4 DEF Descend, TypeOK, Places
  <2> QED BY <1>2, <2>1
<1>5. CASE Close(p)
  <2>1. CloseInode(dir[p]) /\ dir[p] \in Sectors
    BY <1>1, <1>5 DEF Close, TypeOK, Places
  <2> QED BY <1>2, <2>1
<1>6. CASE Open(p)
  BY <1>1, <1>6, UnseenView DEF Open, diskVars, inodeVars
<1>7. CASE ChDir(p)
  <2>1. CloseInode(cwd[p]) /\ cwd[p] \in Sectors
    BY <1>1, <1>7 DEF ChDir, TypeOK
  <2> QED BY <1>2, <2>1
<1>8. CASE LockParent(p)
  BY <1>1, <1>8, UnseenView DEF LockParent, diskVars
<1>9. CASE Scan(p)
  BY <1>1, <1>9, UnseenView DEF Scan, diskVars
<1>10. CASE Flip(p)
  <2>1. pc[p] = "flip" /\ UNCHANGED <<isDir, entries, openCnt, removed, strays>>
        /\ used' = used \cup {new[p]}
    BY <1>10 DEF Flip, inodeVars
  <2>2. \A s \in Sectors : isDir[s] => s \in used
    BY <1>1 DEF TreeOnDisk, UnusedBare
  <2> QED BY <1>1, <2>1, <2>2, UnseenView
<1>11. CASE Add(p)
  <2> DEFINE d == dir[p]
             n == Head(path[p])
             x == new[p]
             made == op[p] = "mkdir"
  <2>1. /\ d \in Sectors /\ isDir[d] /\ openCnt[d] > 0 /\ d \notin strays
        /\ x \in Sectors /\ x # Root /\ x # d /\ openCnt[x] = 0 /\ x \notin strays /\ ~isDir[x]
        /\ \/ /\ used' = used \ {x}
              /\ UNCHANGED <<isDir, up, entries, openCnt, removed, strays>>
           \/ n \in Names /\ entries[d][n] = NULL /\ AddsName(d, n, x, made)
    BY <1>11, AddEffect
  <2>2. ~removed[x] /\ x \in used /\ \A e \in Sectors, m \in Names : entries[e][m] # x
    BY <1>1, <1>11 DEF Add, TreeOnDisk, NewGood
  <2>3. made \in BOOLEAN
    OBVIOUS
  <2> HIDE DEF d, n, x, made
  <2>4. CASE used' = used \ {x} /\ UNCHANGED <<isDir, up, entries, openCnt, removed, strays>>
    BY <1>1, <2>1, <2>4, UnseenView
  <2>5. CASE n \in Names /\ entries[d][n] = NULL /\ AddsName(d, n, x, made)
    BY <1>1, <2>1, <2>2, <2>3, <2>5, AddedView
  <2> QED BY <2>1, <2>4, <2>5
<1>12. CASE Find(p)
  <2> DEFINE d == dir[p]
             n == Head(path[p])
             c == entries[d][n]
  <2>1. /\ UNCHANGED <<used, isDir, entries, strays>> /\ pc[p] = "find"
        /\ \/ UNCHANGED <<openCnt, removed>>
           \/ c # NULL /\ OpenInode(c)
    BY <1>12 DEF Find, diskVars
  <2>2. d \in Sectors /\ n \in Names /\ isDir[d]
    <3>1. d \in Sectors
      BY <1>1, <2>1 DEF TypeOK, Places
    <3>2. isDir[d] /\ n \in Names
      BY <1>1, <2>1, HeadName DEF Holding, InLock
    <3> QED BY <3>1, <3>2
  <2> HIDE DEF d, n
  <2>3. CASE UNCHANGED <<openCnt, removed>>
    BY <1>1, <2>1, <2>3, UnseenView
  <2>4. CASE c # NULL /\ OpenInode(c)
    <3>1. c \in Sectors
      BY <1>1, <2>2, <2>4 DEF TypeOK
    <3>2. d \in used /\ d \notin strays /\ (removed[d] <=> c \in strays)
      BY <1>1, <2>2, <2>4 DEF TreeOnDisk, EntriesGood, StraysBare, Bare
    <3>3. c \in strays \/ c \in NamedInodes
      <4>1. CASE ~removed[d]
        <5>1. d \in LiveDirs
          BY <2>2, <3>2, <4>1 DEF LiveDirs
        <5> QED BY <2>2, <2>4, <5>1 DEF NamedInodes
      <4> QED BY <3>2, <4>1
    <3> HIDE DEF c
    <3> QED BY <1>1, <2>1, <2>4, <3>1, <3>3, OpenedView
  <2> QED BY <2>1, <2>3, <2>4
<1>13. CASE LockChild(p)
  BY <1>1, <1>13, UnseenView DEF LockChild, diskVars
<1>14. CASE RemoveEntry(p)
  <2> DEFINE d == dir[p]
             n == Head(path[p])
             c == child[p]
  <2>1. /\ d \in Sectors /\ isDir[d] /\ d \notin strays /\ d \in used /\ n \in Names
        /\ c \in Sectors /\ entries[d][n] = c /\ c # d
        /\ \/ UNCHANGED <<used, isDir, up, openCnt, strays, entries, removed>>
           \/ RemovesName(d, n, c) /\ \A m \in Names : entries[c][m] = NULL
    BY <1>14, RemoveEffect
  <2> HIDE DEF d, n, c
  <2>2. CASE UNCHANGED <<used, isDir, up, openCnt, strays, entries, removed>>
    BY <1>1, <2>2, UnseenView
  <2>3. CASE RemovesName(d, n, c) /\ \A m \in Names : entries[c][m] = NULL
    BY <1>1, <2>1, <2>3, RemovedView
  <2> QED BY <2>1, <2>2, <2>3
<1>15. CASE CloseChild(p)
  <2>1. CloseInode(child[p]) /\ child[p] \in Sectors
    BY <1>1, <1>15 DEF CloseChild, TypeOK, Places, HasChild
  <2> QED BY <1>2, <2>1
<1>16. CASE CloseFile(p)
  <2>1. CloseInode(file[p]) /\ file[p] \in Sectors
    BY <1>1, <1>16 DEF CloseFile, TypeOK
  <2> QED BY <1>2, <2>1
<1> QED BY <1>3, <1>4, <1>5, <1>6, <1>7, <1>8, <1>9, <1>10, <1>11, <1>12, <1>13, <1>14, <1>15,
           <1>16 DEF Step

\* The root and the working directory are open already.
LEMMA BeginView ==
  ASSUME IInv, IInv', NEW p \in Procs, NEW call, NEW w, NEW start, Begin(p, call, w, start)
  PROVE  Promised
<1>1. TypeOK /\ TypeOK' /\ RefCounts
  BY DEF IInv
<1>2. /\ start \in {Root, cwd[p]} /\ start \in Sectors /\ OpenInode(start)
      /\ UNCHANGED <<used, isDir, entries, strays>>
  BY <1>1, DirectoryAssumption DEF Begin, diskVars, TypeOK
<1>3. openCnt[start] > 0
  BY <1>1, <1>2, OpenRefs
<1> QED BY <1>1, <1>2, <1>3, OpenedView

LEMMA InitView == Init => FT!Init
<1> SUFFICES ASSUME Init
             PROVE  FT!Init
  OBVIOUS
<1>1. Cardinality(Procs) \in Nat
  BY FS_CardinalityType, DirectoryAssumption
<1>2. LiveDirs = {Root}
  BY DirectoryAssumption DEF Init, LiveDirs
<1>3. TreeView = [d \in Sectors |-> [n \in Names |-> NULL]]
  BY DEF Init, TreeView, NoEntries
<1>4. HeldView = {Root}
  <2>1. \A s \in Sectors : openCnt[s] > 0 <=> s = Root
    BY <1>1 DEF Init
  <2> QED BY <2>1, DirectoryAssumption DEF Init, HeldView, OpenInodes
<1> QED BY <1>2, <1>3, <1>4 DEF FT!Init, TreeView, HeldView

\* The calls of filesys.c, each of many steps under several locks, appear to
\* change the tree at once; only an empty directory loses its name, and the
\* number of an inode that a process holds is given to no other file.
THEOREM CallsAreAtomic == Spec => TreeSpec
<1>1. IInv /\ TreeInv /\ IInv' /\ TreeInv' /\ [Next]_vars
        => [FT!Next]_<<LiveDirs, TreeView, HeldView>>
  <2> SUFFICES ASSUME IInv, TreeInv, IInv', TreeInv', [Next]_vars
               PROVE  Promised
    BY DEF Promised
  <2>1. CASE Next
    <3>1. PICK p \in Procs :
            \/ Step(p) \/ CloseFile(p)
            \/ \E call \in CallsOf[p], w \in Paths, s \in Sectors : Begin(p, call, w, s)
      BY <2>1 DEF Next
    <3>2. ~fault
      BY <2>1 DEF Next
    <3> QED BY <3>1, <3>2, StepView, BeginView
  <2>2. CASE UNCHANGED vars
    <3>1. TypeOK /\ TypeOK' /\ UNCHANGED <<used, isDir, entries, openCnt, removed, strays>>
      BY <2>2 DEF IInv, vars, diskVars, inodeVars
    <3> QED BY <3>1, UnseenView
  <2> QED BY <2>1, <2>2
<1>2. TreeSpec <=> FT!Init /\ [][FT!Next]_<<LiveDirs, TreeView, HeldView>>
  BY DEF TreeSpec, FT!Spec, TreeView, HeldView
<1> QED BY <1>1, <1>2, InitView, TreeInvariance, PTL DEF Spec
===============================================================================
