------------------------------ MODULE MCPresale ------------------------------
(* Small instances of Presale for TLC. *)
EXTENDS Presale

CONSTANTS n1, n2
=============================================================================
