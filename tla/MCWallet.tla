------------------------------ MODULE MCWallet ------------------------------
(***************************************************************************)
(* Model checking Wallet: one Registry note and Treasury payments of more  *)
(* than dust and of dust.                                                  *)
(***************************************************************************)
EXTENDS Wallet

CONSTANTS d1, d2, d3, s1, s2

Payments ==
    (d1 :> [account |-> "treasury", pool |-> "sapling", value |-> 3]) @@
    (d2 :> [account |-> "registry", pool |-> "ironwood", value |-> 0]) @@
    (d3 :> [account |-> "treasury", pool |-> "ironwood", value |-> 1])

(* Two payments spent in turn, across a reorg and a restart. *)
ReorgScope ==
    [deposits |-> {d1, d2}, sends |-> {s1, s2}, owners |-> {},
     height |-> 4, reorgs |-> 1, restarts |-> 1]

(* Dust beside a payment, and outputs locked by one owner. *)
LocksScope ==
    [deposits |-> {d1, d3}, sends |-> {s1, s2}, owners |-> {"a"},
     height |-> 4, reorgs |-> 0, restarts |-> 0]

(* Two owners that contend for the same outputs. *)
OwnersScope ==
    [deposits |-> {d1, d2}, sends |-> {s1}, owners |-> {"a", "b"},
     height |-> 3, reorgs |-> 1, restarts |-> 0]

WalletScopes == {ReorgScope, LocksScope, OwnersScope}
=============================================================================
