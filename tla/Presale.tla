------------------------------- MODULE Presale -------------------------------
(***************************************************************************)
(* Protected names (src/mint/presale.rs): the table is read from a server  *)
(* at the start of every pass while blocks are applied, installed if the   *)
(* read is confirmed complete, and judged at the median time of the claim  *)
(* (src/main.rs).  The server changes its rows whenever it likes; a reply  *)
(* may fail, be cut short or come without its count.                       *)
(***************************************************************************)
EXTENDS Integers, Sequences, SequencesExt, FiniteSets, FiniteSetsExt

CONSTANTS
    Names,          \* lawful names
    Unlawful,       \* a name that does not parse
    Forever,        \* no expiry
    Garbled,        \* an expiry that does not decode
    Awaited,        \* a read that has not ended
    Failed,         \* a read that did not complete
    None,
    Times,          \* lift moments
    MaxRows,        \* bound: rows of the table
    MaxTime,        \* bound: the clock
    MaxChanges      \* bound: changes of the server's rows

ASSUME PresaleAssumption ==
    /\ Unlawful \notin Names
    /\ Times \subseteq Nat
    /\ {MaxRows, MaxTime, MaxChanges} \subseteq Nat
    /\ {Forever, Garbled, Awaited, Failed, None} \cap Nat = {}
    /\ None \notin {Awaited, Failed}

VARIABLES
    rows,           \* the server's table
    changes,
    mtp,            \* the median time at the tip
    read,           \* PendingRead: None, or the reply it landed or awaits
    table,          \* ProtectedNames
    confirmed,      \* the server's rows at the last read that was confirmed
    phase,          \* "wait", "catchup" or "rules"
    claimed         \* the last claim that was let through without the code

vars == <<rows, changes, mtp, read, table, confirmed, phase, claimed>>

-----------------------------------------------------------------------------
(***************************************************************************)
(* The table                                                               *)
(***************************************************************************)
Row == [name : Names \cup {Unlawful}, expiry : Times \cup {Forever, Garbled}]

(* decode_rows and Name::parse: a row that does not read is skipped *)
Reads(row) == row.name \in Names /\ row.expiry # Garbled

(* ProtectedNames::from_rows: the strongest term of a name *)
FromRows(rs) ==
    LET good == {r \in Range(rs) : Reads(r)}
        terms(n) == {r.expiry : r \in {r \in good : r.name = n}}
    IN  [n \in {r.name : r \in good} |-> IF Forever \in terms(n) THEN Forever ELSE Max(terms(n))]

(* ProtectedNames::is_protected *)
IsProtected(n, t) == n \in DOMAIN table /\ (table[n] = Forever \/ t < table[n])

(* Fault: the count is not compared. *)
CompleteAnyway(reply) == TRUE

(* complete: every counted row landed *)
Complete(reply) == reply.total = Len(reply.rows)

-----------------------------------------------------------------------------
(***************************************************************************)
(* A read: its rows and their count are those of one moment                *)
(***************************************************************************)
Replies ==
    {[rows |-> rows, total |-> Len(rows), of |-> rows],
     [rows |-> rows, total |-> None, of |-> rows]}
    \cup {[rows |-> SubSeq(rows, 1, k), total |-> Len(rows), of |-> rows] : k \in 0 .. Len(rows) - 1}

(* The absence of a read is no reply. *)
ASSUME ReplyAssumption ==
    LET Some == BoundedSeq(Row, MaxRows)
    IN  None \notin [rows : Some, total : Nat \cup {None}, of : Some]

(* fetch_rows, or its timeout *)
ReadLands(reply) ==
    /\ read = Awaited
    /\ read' = reply
    /\ UNCHANGED <<rows, changes, mtp, table, confirmed, phase, claimed>>

(* PendingRead::start, at the start of a pass *)
StartPass ==
    /\ phase = "wait"
    /\ phase' = "catchup"
    /\ read' = Awaited
    /\ claimed' = None
    /\ UNCHANGED <<rows, changes, mtp, table, confirmed>>

(* A block moves the clock; a reorg may move it back. *)
Tick(t) ==
    /\ phase = "catchup"
    /\ t # mtp
    /\ mtp' = t
    /\ UNCHANGED <<rows, changes, read, table, confirmed, phase, claimed>>

(* The pass restarts: the read is cancelled. *)
AbandonPass ==
    /\ phase = "catchup"
    /\ phase' = "wait"
    /\ read' = None
    /\ UNCHANGED <<rows, changes, mtp, table, confirmed, claimed>>

Confirmed == read # Failed /\ Complete(read)

(* PendingRead::install: a failed read keeps the last table *)
Install ==
    /\ phase = "catchup"
    /\ read \notin {None, Awaited}
    /\ phase' = "rules"
    /\ IF Confirmed THEN table' = FromRows(read.rows) /\ confirmed' = read.of
       ELSE UNCHANGED <<table, confirmed>>
    /\ read' = None
    /\ UNCHANGED <<rows, changes, mtp, claimed>>

(* A claim that does not show the name's code; one that is protected is    *)
(* refused, one that is not goes on.                                       *)
Claim(n) ==
    /\ phase = "rules"
    /\ claimed' = IF IsProtected(n, mtp) THEN None ELSE n
    /\ UNCHANGED <<rows, changes, mtp, read, table, confirmed, phase>>

(* The pass ends, its requests decided or its tip check failed. *)
EndPass ==
    /\ phase = "rules"
    /\ phase' = "wait"
    /\ claimed' = None
    /\ UNCHANGED <<rows, changes, mtp, read, table, confirmed>>

(* Boot::start: the table is read until it is confirmed *)
Restart ==
    /\ phase' = "wait"
    /\ read' = None
    /\ table' = FromRows(rows)
    /\ confirmed' = rows
    /\ claimed' = None
    /\ UNCHANGED <<rows, changes, mtp>>

ServerChanges(rs) ==
    /\ changes < MaxChanges
    /\ changes' = changes + 1
    /\ rs # rows
    /\ rows' = rs
    /\ UNCHANGED <<mtp, read, table, confirmed, phase, claimed>>

Init ==
    /\ rows \in BoundedSeq(Row, MaxRows)
    /\ changes = 0
    /\ mtp = 0
    /\ read = None
    /\ table = FromRows(rows)
    /\ confirmed = rows
    /\ phase = "wait"
    /\ claimed = None

Next ==
    \/ \E rs \in BoundedSeq(Row, MaxRows) : ServerChanges(rs)
    \/ StartPass
    \/ \E reply \in Replies \cup {Failed} : ReadLands(reply)
    \/ \E t \in 0 .. MaxTime : Tick(t)
    \/ AbandonPass
    \/ Install
    \/ \E n \in Names : Claim(n)
    \/ EndPass
    \/ Restart

Spec == Init /\ [][Next]_vars

-----------------------------------------------------------------------------
(***************************************************************************)
(* Properties                                                              *)
(***************************************************************************)

(* The variables have their types, and only lawful names are ever stored    *)
(* (ProtectedNames).                                                        *)
PresaleTypeOK ==
    /\ rows \in BoundedSeq(Row, MaxRows) /\ confirmed \in BoundedSeq(Row, MaxRows)
    /\ mtp \in 0 .. MaxTime
    /\ DOMAIN table \subseteq Names
    /\ \A n \in DOMAIN table : table[n] \in Times \cup {Forever}
    /\ phase \in {"wait", "catchup", "rules"}
    /\ claimed \in Names \cup {None}
    /\ phase = "catchup" <=> read # None

(* A claim goes through without its code only if no row of the whole table, *)
(* as the server held it at the last confirmed read, protects the name at   *)
(* the claim's median time (is_protected, from_rows, complete).             *)
ProtectionHonoured ==
    /\ PresaleTypeOK
    /\ claimed # None =>
         \A i \in DOMAIN confirmed :
            LET r == confirmed[i]
            IN  Reads(r) /\ r.name = claimed => r.expiry # Forever /\ mtp >= r.expiry

=============================================================================
