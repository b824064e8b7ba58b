----------------------------- MODULE NameLedger -----------------------------
(***************************************************************************)
(* What the Registry promises whoever reads it: a stack of ledgers, one    *)
(* for each block of the chain.  Only the ledger of the tip changes, by    *)
(* one transfer at a time, and a reorg uncovers an older ledger as it was  *)
(* left.  A free name is taken only by turning one claim authority into    *)
(* another; authorities come once, all together, and may be lost.          *)
(***************************************************************************)
EXTENDS Naturals, Sequences, FiniteSets

CONSTANT PoolSize

VARIABLE ledgers

Tip == ledgers[Len(ledgers)]

Front(s) == SubSeq(s, 1, Len(s) - 1)

Empty == [owner |-> [n \in {} |-> 0], free |-> {}, closed |-> FALSE]

(* The block is complete, and the next one begins where it ends. *)
Extend ==
    /\ Len(ledgers') = Len(ledgers) + 1
    /\ ledgers' = Append(ledgers, Tip)

(* The claim authorities come into being, once on a chain. *)
Establish(old, new) ==
    /\ ~old.closed /\ new.closed
    /\ Cardinality(new.free) = PoolSize
    /\ new.owner = old.owner

Kept(old, new, names) == \A n \in names : new.owner[n] = old.owner[n]

(* A free name is taken: one authority is turned into a new one. *)
Claim(old, new) ==
    \E n \in DOMAIN new.owner \ DOMAIN old.owner :
        /\ DOMAIN new.owner = DOMAIN old.owner \cup {n}
        /\ Kept(old, new, DOMAIN old.owner)
        /\ Cardinality(old.free \ new.free) = 1
        /\ Cardinality(new.free \ old.free) = 1
        /\ new.closed = old.closed

(* A held name passes to its next holder, or its term is renewed. *)
Pass(old, new) ==
    \E n \in DOMAIN old.owner :
        /\ DOMAIN new.owner = DOMAIN old.owner
        /\ Kept(old, new, DOMAIN old.owner \ {n})
        /\ new.free = old.free
        /\ new.closed = old.closed

(* Names are given up, authorities are lost. *)
Lapse(old, new) ==
    /\ DOMAIN new.owner \subseteq DOMAIN old.owner
    /\ Kept(old, new, DOMAIN new.owner)
    /\ new.free \subseteq old.free
    /\ new.closed = old.closed

(* The tip's ledger changes by one transfer, and no other ledger does. *)
Transfer ==
    /\ Len(ledgers') = Len(ledgers)
    /\ Front(ledgers') = Front(ledgers)
    /\ LET old == Tip
           new == Tip'
       IN  \/ Establish(old, new)
           \/ Claim(old, new)
           \/ Pass(old, new)
           \/ Lapse(old, new)

(* Blocks are orphaned. *)
Uncover ==
    /\ Len(ledgers') < Len(ledgers)
    /\ ledgers' = SubSeq(ledgers, 1, Len(ledgers'))

Init == ledgers = <<Empty>>

Next == Extend \/ Transfer \/ Uncover

Spec == Init /\ [][Next]_ledgers
=============================================================================
