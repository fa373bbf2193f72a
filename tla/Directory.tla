----------------------------- MODULE Directory -----------------------------
(***************************************************************************)
(* The name space of the file system: filesys/filesys.c with path.c,       *)
(* directory.c, the open inodes of inode.c and the free map.  A path is    *)
(* walked one directory at a time, each under its own lock; a directory    *)
(* that changes is locked for the whole change; the open inodes have a     *)
(* lock of their own (one step here); the free map has none.               *)
(***************************************************************************)
EXTENDS Integers, Sequences, FiniteSets

CONSTANTS
  Procs,    \* processes
  Sectors,  \* sectors for inodes, numbered
  Root,     \* ROOT_DIR_SECTOR
  Names,    \* names of entries
  Up,       \* the name ".."
  Paths,    \* sequences of names, what processes ask for
  CallsOf,  \* the calls each process makes
  NULL

ASSUME DirectoryAssumption ==
  /\ IsFiniteSet(Procs)
  /\ Sectors \subseteq Nat /\ Root \in Sectors
  /\ Up \notin Names
  /\ Paths \subseteq Seq(Names \cup {Up}) \ {<<>>}
  /\ NULL \notin Sectors \cup Procs
  /\ CallsOf \in [Procs -> SUBSET {"create", "mkdir", "remove", "open", "chdir"}]

VARIABLES
  used,     \* free_map: sectors in use
  isDir,    \* struct inode_disk: is_dir
  entries,  \* the inodes that the names of a directory refer to, or NULL
  up,       \* the entry ".."
  openCnt,  \* struct inode: open_cnt, 0 for an inode that is not open
  removed,  \* struct inode: removed
  lock,     \* struct inode: holder of lock
  cwd,      \* working directory of each process
  file,     \* the inode that each process has open as a file, or NULL
  pc,       \* where each process is
  op,       \* the call it is in
  path,     \* what is left of its path
  dir,      \* local inode of lookup, dinode of the calls
  child,    \* local next of lookup, inode of filesys_remove
  new,      \* local inode_sector
  strays,   \* history: inodes in use that were added to a removed directory
  fault     \* the harm done

diskVars == <<used, isDir, entries, up>>
inodeVars == <<openCnt, removed, lock>>
localVars == <<op, path, dir, child, new>>
vars == <<diskVars, inodeVars, cwd, file, pc, localVars, strays, fault>>

NoEntries == [n \in Names |-> NULL]

\* The last of the calls that open a path and do not look for its parent.
Opens == {"open", "chdir"}
Calls == Opens \cup {"create", "mkdir", "remove"}

\* The initial process, which is not one of Procs, works in the root directory.
Init ==
  /\ used = {Root}
  /\ isDir = [s \in Sectors |-> s = Root]
  /\ entries = [s \in Sectors |-> NoEntries]
  /\ up = [s \in Sectors |-> IF s = Root THEN Root ELSE NULL]
  /\ openCnt = [s \in Sectors |-> IF s = Root THEN Cardinality(Procs) + 1 ELSE 0]
  /\ removed = [s \in Sectors |-> FALSE]
  /\ lock = [s \in Sectors |-> NULL]
  /\ cwd = [p \in Procs |-> Root]
  /\ file = [p \in Procs |-> NULL]
  /\ pc = [p \in Procs |-> "run"]
  /\ op = [p \in Procs |-> NULL]
  /\ path = [p \in Procs |-> <<>>]
  /\ dir = [p \in Procs |-> NULL]
  /\ child = [p \in Procs |-> NULL]
  /\ new = [p \in Procs |-> NULL]
  /\ strays = {}
  /\ fault = FALSE

Goto(p, loc) == pc' = [pc EXCEPT ![p] = loc]

\* Mutant: an inode that is open already is not counted.
OpenFirst(s) ==
  /\ openCnt' = [openCnt EXCEPT ![s] = IF @ = 0 THEN 1 ELSE @]
  /\ UNCHANGED removed

\* inode_open, inode_reopen.
OpenInode(s) ==
  /\ openCnt' = [openCnt EXCEPT ![s] = @ + 1]
  /\ UNCHANGED removed

\* Mutant: a removed inode is freed when a process closes it, used or not.
FreedBy(s) == IF removed[s] THEN {s} ELSE {}

\* The sectors that are free after inode s is closed: those of a removed inode
\* that nobody else has open.
FreedByClose(s) == IF openCnt[s] = 1 /\ removed[s] THEN {s} ELSE {}

\* free_map_release, and the end of what was stored there.
Free(freed) ==
  /\ used' = used \ freed
  /\ isDir' = [s \in Sectors |-> isDir[s] /\ s \notin freed]
  /\ entries' = [s \in Sectors |-> IF s \in freed THEN NoEntries ELSE entries[s]]
  /\ up' = [s \in Sectors |-> IF s \in freed THEN NULL ELSE up[s]]
  /\ strays' = strays \ freed

\* inode_close.
CloseInode(s) ==
  /\ openCnt' = [openCnt EXCEPT ![s] = @ - 1]
  /\ removed' = [removed EXCEPT ![s] = @ /\ s \notin FreedByClose(s)]
  /\ Free(FreedByClose(s))

\* What name n means in directory d.
Lookup(d, n) == IF n = Up THEN up[d] ELSE entries[d][n]

-----------------------------------------------------------------------------
(* Walking a path: lookup of path.c.                                       *)

\* A call with a path from the root or from the working directory.
Begin(p, call, w, start) ==
  /\ pc[p] = "run"
  /\ start \in {Root, cwd[p]}
  /\ call = "open" => file[p] = NULL
  /\ OpenInode(start)
  /\ Goto(p, "walk")
  /\ op' = [op EXCEPT ![p] = call]
  /\ path' = [path EXCEPT ![p] = w]
  /\ dir' = [dir EXCEPT ![p] = start]
  /\ UNCHANGED <<diskVars, lock, cwd, file, child, new, strays, fault>>

\* One turn of the loop, under the lock of the directory.
Walk(p) ==
  LET d == dir[p]
      c == Lookup(d, Head(path[p]))
      last == Len(path[p]) = 1 /\ op[p] \notin Opens
  IN  /\ pc[p] = "walk" /\ lock[d] = NULL
      /\ \/ /\ ~isDir[d] \/ removed[d] \/ (~last /\ c = NULL)
            /\ Goto(p, "close")
            /\ UNCHANGED <<openCnt, removed, child>>
         \/ /\ isDir[d] /\ ~removed[d] /\ last
            /\ Goto(p, IF op[p] = "remove" /\ Head(path[p]) = Up THEN "close" ELSE "lock")
            /\ UNCHANGED <<openCnt, removed, child>>
         \/ /\ isDir[d] /\ ~removed[d] /\ ~last /\ c # NULL
            /\ OpenInode(c)
            /\ child' = [child EXCEPT ![p] = c]
            /\ Goto(p, "descend")
      /\ UNCHANGED <<diskVars, lock, cwd, file, op, path, dir, new, strays, fault>>

\* The directory is closed and the walk goes on in the next one.
Descend(p) ==
  /\ pc[p] = "descend"
  /\ CloseInode(dir[p])
  /\ dir' = [dir EXCEPT ![p] = child[p]]
  /\ child' = [child EXCEPT ![p] = NULL]
  /\ path' = [path EXCEPT ![p] = Tail(@)]
  /\ Goto(p, IF Len(path[p]) = 1 THEN "found" ELSE "walk")
  /\ UNCHANGED <<lock, cwd, file, op, new, fault>>

\* The locals of a call are dead.
EndCall(p) ==
  /\ Goto(p, "run")
  /\ op' = [op EXCEPT ![p] = NULL]
  /\ path' = [path EXCEPT ![p] = <<>>]
  /\ dir' = [dir EXCEPT ![p] = NULL]
  /\ child' = [child EXCEPT ![p] = NULL]
  /\ new' = [new EXCEPT ![p] = NULL]

\* The end of every call that did not open its path: the directory is closed.
Close(p) ==
  /\ pc[p] = "close"
  /\ CloseInode(dir[p])
  /\ EndCall(p)
  /\ UNCHANGED <<lock, cwd, file, fault>>

\* filesys_open keeps the inode.
Open(p) ==
  /\ pc[p] = "found" /\ op[p] = "open"
  /\ file' = [file EXCEPT ![p] = dir[p]]
  /\ EndCall(p)
  /\ UNCHANGED <<diskVars, inodeVars, cwd, strays, fault>>

\* Mutant: the old working directory is not closed.
ChDirOnly(p) ==
  /\ pc[p] = "found" /\ op[p] = "chdir"
  /\ cwd' = [cwd EXCEPT ![p] = dir[p]]
  /\ EndCall(p)
  /\ UNCHANGED <<diskVars, inodeVars, file, strays, fault>>

\* filesys_chdir: it may be a file.
ChDir(p) ==
  /\ pc[p] = "found" /\ op[p] = "chdir"
  /\ cwd' = [cwd EXCEPT ![p] = dir[p]]
  /\ CloseInode(cwd[p])
  /\ EndCall(p)
  /\ UNCHANGED <<lock, file, fault>>

\* fd_close.
CloseFile(p) ==
  /\ pc[p] = "run" /\ file[p] # NULL
  /\ file' = [file EXCEPT ![p] = NULL]
  /\ CloseInode(file[p])
  /\ UNCHANGED <<lock, cwd, pc, localVars, fault>>

-----------------------------------------------------------------------------
(* filesys_create, filesys_mkdir.                                          *)

\* The parent is locked, which was unlocked since it was found.
LockParent(p) ==
  /\ pc[p] = "lock" /\ lock[dir[p]] = NULL
  /\ lock' = [lock EXCEPT ![dir[p]] = p]
  /\ Goto(p, IF op[p] = "remove" THEN "find" ELSE "scan")
  /\ UNCHANGED <<diskVars, openCnt, removed, cwd, file, localVars, strays, fault>>

UnlockParent(p) == lock' = [lock EXCEPT ![dir[p]] = NULL]

\* bitmap_scan finds the first free sector.
Scan(p) ==
  LET free == Sectors \ used
  IN  /\ pc[p] = "scan"
      /\ \/ /\ free = {}
            /\ UnlockParent(p)
            /\ Goto(p, "close")
            /\ UNCHANGED new
         \/ \E s \in free :
              /\ \A r \in free : s <= r
              /\ new' = [new EXCEPT ![p] = s]
              /\ Goto(p, "flip")
              /\ UNCHANGED lock
      /\ UNCHANGED <<diskVars, openCnt, removed, cwd, file, op, path, dir, child, strays, fault>>

\* bitmap_set_multiple marks it.  Another process may have found the same one,
\* and then two files would share it: nothing that happens then is of interest.
Flip(p) ==
  /\ pc[p] = "flip"
  /\ fault' = (new[p] \in used)
  /\ used' = used \cup {new[p]}
  /\ Goto(p, "add")
  /\ UNCHANGED <<isDir, entries, up, inodeVars, cwd, file, localVars, strays>>

\* Mutant: the sector of a file that could not be added stays in use.
NotGivenBack(s) == used

\* free_map_release of the sector of a file that could not be added.
GivenBack(s) == used \ {s}

\* inode_create and dir_add; the sector is freed again if the name is in use.
Add(p) ==
  LET d == dir[p]
      n == Head(path[p])
      s == new[p]
  IN  /\ pc[p] = "add"
      /\ IF Lookup(d, n) = NULL
         THEN /\ isDir' = [isDir EXCEPT ![s] = op[p] = "mkdir"]
              /\ up' = [up EXCEPT ![s] = IF op[p] = "mkdir" THEN d ELSE NULL]
              /\ entries' = [entries EXCEPT ![s] = NoEntries, ![d][n] = s]
              /\ strays' = IF removed[d] THEN strays \cup {s} ELSE strays
              /\ UNCHANGED used
         ELSE /\ used' = GivenBack(s)
              /\ UNCHANGED <<isDir, up, entries, strays>>
      /\ UnlockParent(p)
      /\ new' = [new EXCEPT ![p] = NULL]
      /\ Goto(p, "close")
      /\ UNCHANGED <<openCnt, removed, cwd, file, op, path, dir, child, fault>>

-----------------------------------------------------------------------------
(* filesys_remove.                                                         *)

\* dir_lookup in the locked parent.
Find(p) ==
  LET c == entries[dir[p]][Head(path[p])]
  IN  /\ pc[p] = "find"
      /\ \/ /\ c = NULL
            /\ UnlockParent(p)
            /\ Goto(p, "close")
            /\ UNCHANGED <<openCnt, removed, child>>
         \/ /\ c # NULL
            /\ OpenInode(c)
            /\ child' = [child EXCEPT ![p] = c]
            /\ Goto(p, IF isDir[c] THEN "lockChild" ELSE "remove")
            /\ UNCHANGED lock
      /\ UNCHANGED <<diskVars, cwd, file, op, path, dir, new, strays, fault>>

\* A directory is locked as well, so that it stays empty.
LockChild(p) ==
  /\ pc[p] = "lockChild" /\ lock[child[p]] = NULL
  /\ lock' = [lock EXCEPT ![child[p]] = p]
  /\ Goto(p, "remove")
  /\ UNCHANGED <<diskVars, openCnt, removed, cwd, file, localVars, strays, fault>>

\* dir_is_empty.
IsEmpty(s) == entries[s] = NoEntries

\* Mutant: a directory that is not empty stays locked.
UnlockEmpty(p, c) ==
  IF lock[c] = p /\ IsEmpty(c) THEN [lock EXCEPT ![c] = NULL] ELSE lock

\* The locks after a directory was unlocked that p holds; files are not locked.
UnlockChild(p, c) == IF lock[c] = p THEN [lock EXCEPT ![c] = NULL] ELSE lock

\* dir_remove and inode_remove, unless it is a directory with entries.
RemoveEntry(p) ==
  LET c == child[p]
  IN  /\ pc[p] = "remove"
      /\ IF isDir[c] /\ ~IsEmpty(c)
         THEN UNCHANGED <<entries, removed>>
         ELSE /\ entries' = [entries EXCEPT ![dir[p]][Head(path[p])] = NULL]
              /\ removed' = [removed EXCEPT ![c] = TRUE]
      /\ lock' = UnlockChild(p, c)
      /\ Goto(p, "closeChild")
      /\ UNCHANGED <<used, isDir, up, openCnt, cwd, file, localVars, strays, fault>>

\* inode_close, and the parent is unlocked.
CloseChild(p) ==
  /\ pc[p] = "closeChild"
  /\ CloseInode(child[p])
  /\ child' = [child EXCEPT ![p] = NULL]
  /\ UnlockParent(p)
  /\ Goto(p, "close")
  /\ UNCHANGED <<cwd, file, op, path, dir, new, fault>>

-----------------------------------------------------------------------------
\* The steps a process takes in a call.
Step(p) ==
  \/ Walk(p) \/ Descend(p) \/ Close(p) \/ Open(p) \/ ChDir(p)
  \/ LockParent(p) \/ Scan(p) \/ Flip(p) \/ Add(p)
  \/ Find(p) \/ LockChild(p) \/ RemoveEntry(p) \/ CloseChild(p)

Next ==
  /\ ~fault
  /\ \E p \in Procs :
       \/ Step(p) \/ CloseFile(p)
       \/ \E call \in CallsOf[p], w \in Paths, s \in Sectors : Begin(p, call, w, s)

Spec == Init /\ [][Next]_vars

-----------------------------------------------------------------------------
(* Correctness.                                                            *)

TypeOK ==
  /\ Root \in used /\ used \subseteq Sectors
  /\ isDir \in [Sectors -> BOOLEAN]
  /\ entries \in [Sectors -> [Names -> Sectors \cup {NULL}]]
  /\ up \in [Sectors -> Sectors \cup {NULL}]
  /\ openCnt \in [Sectors -> Nat]
  /\ removed \in [Sectors -> BOOLEAN]
  /\ lock \in [Sectors -> Procs \cup {NULL}]
  /\ cwd \in [Procs -> Sectors]
  /\ file \in [Procs -> Sectors \cup {NULL}]
  /\ pc \in [Procs -> {"run", "walk", "descend", "found", "close", "lock", "scan", "flip", "add",
                       "find", "lockChild", "remove", "closeChild"}]
  /\ op \in [Procs -> Calls \cup {NULL}]
  /\ path \in [Procs -> Seq(Names \cup {Up})]
  /\ dir \in [Procs -> Sectors \cup {NULL}]
  /\ child \in [Procs -> Sectors \cup {NULL}]
  /\ new \in [Procs -> Sectors \cup {NULL}]
  /\ strays \subseteq Sectors
  /\ fault \in BOOLEAN

\* The counts of the open inodes are the number of references to them, on all
\* paths through all calls: none is freed too early, none stays open for ever.
Count(local, s) == Cardinality({p \in Procs : local[p] = s})
References(s) ==
  Count(cwd, s) + Count(file, s) + Count(dir, s) + Count(child, s) + (IF s = Root THEN 1 ELSE 0)
RefCounts == \A s \in Sectors : openCnt[s] = References(s)

\* The directories that can be reached, and the inodes that their names mean.
LiveDirs == {s \in used : isDir[s] /\ ~removed[s]} \ strays
NamedInodes == {entries[d][n] : d \in LiveDirs, n \in Names} \ {NULL}

OpenInodes == {s \in Sectors : openCnt[s] > 0}
NewInodes == {new[p] : p \in {q \in Procs : pc[q] = "add"}}

\* A sector in use has a name in the tree, is open, or is about to get a name,
\* unless it was added to a removed directory, and then it has no name.
\* It has one name, and ".." leads back to where that is.
NoSectorLost ==
  ~fault =>
    /\ used = {Root} \cup NamedInodes \cup OpenInodes \cup NewInodes \cup strays
    /\ strays \cap (NamedInodes \cup NewInodes) = {}
    /\ \A d, e \in LiveDirs, m, n \in Names :
         entries[d][m] # NULL /\ entries[d][m] = entries[e][n] => d = e /\ m = n
    /\ \A d \in LiveDirs, n \in Names :
         entries[d][n] # NULL => ~removed[entries[d][n]] /\ (isDir[entries[d][n]] => up[entries[d][n]] = d)

\* A removed directory has no entries.  filesys_remove says that two locks see to
\* it; filesys_create and filesys_mkdir lock a parent that may be removed.
RemovedIsEmpty == \A s \in Sectors : removed[s] => IsEmpty(s)

\* The calls that change the tree or hold inodes appear to do so at once.
FT == INSTANCE FileTree WITH
  Inodes <- Sectors, Nothing <- NULL, dirs <- LiveDirs,
  tree <- [d \in Sectors |-> IF d \in LiveDirs THEN entries[d] ELSE NoEntries],
  held <- OpenInodes \ strays
TreeSpec == FT!Spec

\* Nobody waits for himself, and no processes wait for each other: parents are
\* locked before their children, and a call that ends leaves no lock behind.
WaitsFor(p, q) ==
  \/ pc[p] \in {"walk", "lock"} /\ lock[dir[p]] = q
  \/ pc[p] = "lockChild" /\ lock[child[p]] = q
NoDeadlock ==
  \A S \in (SUBSET Procs) \ {{}} : \E p \in S : \A q \in S : ~WaitsFor(p, q)
=============================================================================
