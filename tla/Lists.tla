-------------------------------- MODULE Lists --------------------------------
(***************************************************************************)
(* The kernel's linked lists (lib/kernel/list.c) as sequences.  An element *)
(* is embedded in the structure it links, so it can be in a list only once *)
(* and list_remove needs no list.                                          *)
(***************************************************************************)
EXTENDS Integers, Sequences, FiniteSets, SequencesExt

\* list_remove: the list without its element e.
Without(list, e) == RemoveAt(list, CHOOSE i \in 1..Len(list) : list[i] = e)

\* Mutant: list_push_back.
InsertLast(list, t, prio) == Append(list, t)

\* list_insert_ordered with thread_priority_compare: before the first thread
\* of a lower priority, so after its equals.
InsertOrdered(list, t, prio) ==
  LET before == {i \in 1..Len(list) : \A j \in 1..i : prio[list[j]] >= prio[t]}
  IN  InsertAt(list, Cardinality(before) + 1, t)

\* list_max: the positions of the threads of the highest priority, of which
\* the first is taken.
Highest(list, prio) ==
  {i \in 1..Len(list) : \A j \in 1..Len(list) :
     /\ prio[list[i]] >= prio[list[j]]
     /\ j < i => prio[list[i]] > prio[list[j]]}
=============================================================================
