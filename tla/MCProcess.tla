------------------------------ MODULE MCProcess ------------------------------
(* Instances of Process for TLC.                                            *)
EXTENDS Process, TLC

Symmetric == Permutations(Procs \ {Root})
=============================================================================
