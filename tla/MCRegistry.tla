----------------------------- MODULE MCRegistry -----------------------------
(***************************************************************************)
(* Model checking Registry: every transaction shape consensus admits, in   *)
(* every order, with reorgs to every height.                               *)
(***************************************************************************)
EXTENDS RegistryLedger, TLC

CONSTANTS n1, n2, alice

(* No operation tells one name from another. *)
Symmetry == Permutations(Names)

MCNullifiers == 1 .. 6

(* Nullifiers are interchangeable: keep the runs that use them in order.   *)
NullifiersInOrder ==
    \A nf \in Nullifiers : born[nf] # 0 => \A m \in 1 .. nf : born[m] # 0
=============================================================================
