---------------------------- MODULE MCBufferCache ----------------------------
(* Instances of BufferCache for TLC.                                        *)
EXTENDS BufferCache, TLC

Symmetric == Permutations(Users) \cup Permutations(Values)
=============================================================================
