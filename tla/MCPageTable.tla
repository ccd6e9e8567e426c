----------------------------- MODULE MCPageTable -----------------------------
(* Three pages that share a bucket, so that an item is removed from the     *)
(* head, the middle and the end of a list, and one in another bucket; two   *)
(* of the three are written to, so that a list of the crypto cache has two  *)
(* items.                                                                  *)
EXTENDS PageTable, TLC

MCPages == {0, 1, 2, 4}
MCWritten == {0, 2}
MCCells == 1..3
ThreadSymmetry == Permutations(Threads)
============================================================================
