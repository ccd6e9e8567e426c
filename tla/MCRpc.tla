-------------------------------- MODULE MCRpc --------------------------------
(***************************************************************************)
(* Instance of Rpc: two callers and two workers share a queue of two slots *)
(* and a pool of two requests.  Ints have three bits, so that front and    *)
(* rear go past the end of the array and then overflow; as with 1024       *)
(* slots, the number of non-negative ints is a multiple of the size.       *)
(***************************************************************************)
EXTENDS Rpc
=============================================================================
