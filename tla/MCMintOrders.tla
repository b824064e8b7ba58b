---------------------------- MODULE MCMintOrders ----------------------------
(***************************************************************************)
(* Model checking MintOrders: one name through claim, update and release,  *)
(* with the blocks, passes, reorgs and restarts between them.              *)
(***************************************************************************)
EXTENDS MintOrders

CONSTANTS n1, alice, bob

MCNullifiers == 1 .. 12
=============================================================================
