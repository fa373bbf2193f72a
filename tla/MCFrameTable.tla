---------------------------- MODULE MCFrameTable ----------------------------
(* FrameTable for TLC: two processes that run the same executable. *)
EXTENDS FrameTable, TLC
CONSTANTS P1, P2, t1, t2, d1, d2, m2, f1, f2

MCOwner == [p \in Pages |-> IF p \in {t1, d1} THEN P1 ELSE P2]
MCFrames == {f1, f2}
FrameSymmetry == Permutations(MCFrames)
=============================================================================
