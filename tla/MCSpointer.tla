----------------------------- MODULE MCSpointer -----------------------------
(***************************************************************************)
(* Instances of Spointer: pages of four bytes and elements of two, so that *)
(* an access can be at the start, inside or at the end of a page, aligned  *)
(* or across its end.                                                      *)
(***************************************************************************)
EXTENDS Spointer, TLC

Forward  == {1, 2, 4}
Backward == {-1, 1}
Symmetry == Permutations(Aptrs)
=============================================================================
