------------------------------ MODULE FileTree ------------------------------
(***************************************************************************)
(* What the file system promises: a tree of named inodes in which a name   *)
(* appears and disappears at once, only an empty directory disappears, and *)
(* the number of an inode that a process still holds is given to no other  *)
(* file.                                                                   *)
(***************************************************************************)
CONSTANTS
  Inodes,   \* numbers of inodes
  Names,    \* names of directory entries
  Root,     \* the root directory
  Nothing   \* what an unused name refers to

VARIABLES
  dirs,     \* inodes that are directories of the tree
  tree,     \* what each name of each inode refers to
  held      \* inodes that some process has open

Named == {tree[d][n] : d \in dirs, n \in Names} \ {Nothing}
Empty(d) == \A n \in Names : tree[d][n] = Nothing

Init ==
  /\ dirs = {Root}
  /\ tree = [d \in Inodes |-> [n \in Names |-> Nothing]]
  /\ held = {Root}

Add(d, n, i) ==
  /\ d \in dirs /\ tree[d][n] = Nothing
  /\ i \notin Named \cup held \cup {Root}
  /\ tree' = [tree EXCEPT ![d][n] = i]
  /\ dirs' \in {dirs, dirs \cup {i}}
  /\ UNCHANGED held

Remove(d, n) ==
  /\ d \in dirs /\ tree[d][n] # Nothing
  /\ Empty(tree[d][n])
  /\ tree' = [tree EXCEPT ![d][n] = Nothing]
  /\ dirs' = dirs \ {tree[d][n]}
  /\ UNCHANGED held

Hold(i) ==
  /\ i \in Named \cup {Root}
  /\ held' = held \cup {i}
  /\ UNCHANGED <<dirs, tree>>

Release(i) ==
  /\ held' = held \ {i}
  /\ UNCHANGED <<dirs, tree>>

Next ==
  \E i \in Inodes :
    \/ Hold(i) \/ Release(i)
    \/ \E d \in Inodes, n \in Names : Add(d, n, i) \/ Remove(d, n)

Spec == Init /\ [][Next]_<<dirs, tree, held>>
=============================================================================
