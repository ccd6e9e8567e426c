------------------------- MODULE MCParameterServer -------------------------
(***************************************************************************)
(* All the programs and arguments: two rounds of two keys, one of them     *)
(* warm-up, a block that covers one round or both, keys inside the table   *)
(* or one beyond it.                                                       *)
(***************************************************************************)
EXTENDS ParameterServer, TLC

AllModes == [suvm : BOOLEAN, reg : BOOLEAN, rpc : BOOLEAN]
=============================================================================
