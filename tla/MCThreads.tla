------------------------------ MODULE MCThreads ------------------------------
(* Instances of Threads for TLC.                                            *)
EXTENDS Threads, TLC

Symmetric == Permutations(Threads \ {Main})
=============================================================================
