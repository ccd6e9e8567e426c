------------------------------- MODULE MCMem5 -------------------------------
(***************************************************************************)
(* Instances of Mem5.  A pool of six atoms is carved into blocks of 4 and  *)
(* 2, so that buddies lie beyond the end of the pool; nBlock is nByte / 17 *)
(* in the program and seldom a power of two.                               *)
(***************************************************************************)
EXTENDS Mem5, TLC

Symmetry == Permutations(Threads)
=============================================================================
