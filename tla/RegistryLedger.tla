--------------------------- MODULE RegistryLedger ---------------------------
(***************************************************************************)
(* The Registry as an implementation of NameLedger: the ledger of a block  *)
(* is what the Registry held when that block was the tip.                  *)
(***************************************************************************)
EXTENDS Registry

LedgerOf(s) ==
    [owner |-> s.records,
     free |-> s.live,
     closed |-> s.established # 0]

Ledger ==
    INSTANCE NameLedger WITH
        ledgers <- [i \in 1 .. height + 1 |-> LedgerOf(StoodAt(i - 1))]

(* Whatever transactions consensus admits and whatever reorgs happen, each *)
(* step of the Registry is one step of the ledger or none: a claim turns   *)
(* exactly one standing anchor into its successor, a name moves only while *)
(* it is held, and a rewind uncovers a block's ledger exactly as it was    *)
(* left (accept_*, follow_spends, truncate_to_height).                     *)
ImplementsLedger == Ledger!Spec
=============================================================================
