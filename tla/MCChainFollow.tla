--------------------------- MODULE MCChainFollow ---------------------------
(***************************************************************************)
(* Model checking ChainFollow: two headers for every height, on a chain    *)
(* that grows, forks at any height above the checkpoint and, where the run *)
(* says so, returns to a chain it left.                                    *)
(***************************************************************************)
EXTENDS ChainFollow

CONSTANTS a, b
=============================================================================
