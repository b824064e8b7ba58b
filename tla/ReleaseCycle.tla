---------------------------- MODULE ReleaseCycle ----------------------------
(***************************************************************************)
(* One name from the moment a clock releases it: the pass of src/main.rs   *)
(* that retires sent orders, drops updates, admits the lifecycle release   *)
(* and signs it, against a chain that may mine an order's transaction, let *)
(* it expire or orphan a block, a wallet that keeps the name's note        *)
(* blocked, and a buy that holds the name.                                 *)
(*                                                                         *)
(* The same code as MintOrders, for one name and without heights: an       *)
(* expiry is kept as the blocks left until it, so that the chain may grow  *)
(* for ever.  `left` of a transaction is its expiry height less the tip.   *)
(***************************************************************************)
EXTENDS Integers

CONSTANTS
    Delta,              \* default_tx_expiry_delta
    None,               \* no order, no transaction
    MaxFaults           \* bound: orphaned blocks and restarts

ASSUME CycleAssumption == Delta \in Nat /\ MaxFaults \in Nat

VARIABLES
    live,               \* the name is registered
    due,                \* the tip median would release it
    held,               \* an open buy holds it, and whether that buy is paid
    order,              \* the name's order of NameNoteQueue, or None
    txs,                \* transactions that spend the name's current note
    phase,
    faults

vars == <<live, due, held, order, txs, phase, faults>>

Actions == {"update", "release", "sale"}

Order == [action : Actions, state : {"authorized", "sent", "seen"}, left : 0 .. Delta + 1 + MaxFaults]

(* A broadcast transaction.  known: this process recorded sending it;      *)
(* rooted: the root it proves against is on the applied chain.             *)
Tx == [action : Actions, left : 0 .. Delta + 1 + MaxFaults, known : BOOLEAN, rooted : BOOLEAN]

Authorized(action) == [action |-> action, state |-> "authorized", left |-> 0]

Pending(o) == o # None /\ o.state # "seen"

-----------------------------------------------------------------------------
(***************************************************************************)
(* The pass at the tip                                                     *)
(***************************************************************************)
(* Fault: a sent order waits for its transaction for ever. *)
ExpireSentNever(o) == o

(* expire_sent: the tip can no longer mine the transaction *)
ExpireSent(o) ==
    IF o # None /\ o.state = "sent" /\ o.left <= 1 THEN Authorized(o.action) ELSE o

(* An update the tip median would already release is dropped. *)
DropDueUpdate(o) ==
    IF due /\ o = Authorized("update") THEN None ELSE o

(* releases_due: admitted unless a note is pending or a buy holds the name *)
AdmitRelease(o) ==
    IF live /\ due /\ ~Pending(o) /\ held = "no" THEN Authorized("release") ELSE o

(* Market::poll: a paid buy becomes a sale order *)
PollSale(o) ==
    IF live /\ held = "paid" /\ ~Pending(o) THEN Authorized("sale") ELSE o

EndRules ==
    /\ phase = "tip"
    /\ phase' = "sign"
    /\ order' = AdmitRelease(DropDueUpdate(ExpireSent(PollSale(order))))
    /\ UNCHANGED <<live, due, held, txs, faults>>

(* The wallet refuses a note whose recorded spend may still be mined. *)
CanSpend == ~\E tx \in txs : tx.known /\ tx.left >= 0

(* prepare, submit, mark_sent *)
SignSend ==
    /\ phase = "sign"
    /\ live /\ Pending(order) /\ order.state = "authorized"
    /\ CanSpend
    /\ txs' = txs \cup {[action |-> order.action, left |-> Delta + 1,
                         known |-> TRUE, rooted |-> TRUE]}
    /\ order' = [order EXCEPT !.state = "sent", !.left = Delta + 1]
    /\ phase' = "idle"
    /\ UNCHANGED <<live, due, held, faults>>

(* Nothing to sign, a blocked note, no fee, a refusal: the order waits. *)
SignSkip ==
    /\ phase = "sign"
    /\ phase' = "idle"
    /\ UNCHANGED <<live, due, held, order, txs, faults>>

-----------------------------------------------------------------------------
(***************************************************************************)
(* The owner and the buyer, while the name is not due                      *)
(***************************************************************************)
Answer(action) ==
    /\ live /\ ~due /\ ~Pending(order) /\ held = "no"
    /\ order' = Authorized(action)
    /\ UNCHANGED <<live, due, held, txs, phase, faults>>

OpenBuy ==
    /\ live /\ ~due /\ ~Pending(order) /\ held = "no"
    /\ held' = "open"
    /\ UNCHANGED <<live, due, order, txs, phase, faults>>

(* A block pays the buy, or closes the window of one that is not paid. *)
CloseBuy(paid) ==
    /\ held = "open"
    /\ held' = IF paid THEN "paid" ELSE "no"
    /\ UNCHANGED <<live, due, order, txs, phase, faults>>

-----------------------------------------------------------------------------
(***************************************************************************)
(* The chain                                                               *)
(***************************************************************************)
Older(o) == IF o # None /\ o.state = "sent" /\ o.left > 0 THEN [o EXCEPT !.left = @ - 1] ELSE o

Aged == {[tx EXCEPT !.left = @ - 1] : tx \in {x \in txs : x.left > 0}}

Minable(tx) == tx.rooted /\ tx.left > 0

(* A block without a transaction of the name; the clock may fall due. *)
Block ==
    /\ txs' = Aged
    /\ order' = Older(order)
    /\ due' \in {due, live}
    /\ phase' = "tip"
    /\ UNCHANGED <<live, held, faults>>

(* reconcile_seen: the order of the mined note is seen, one of another     *)
(* note has lost its predecessor                                           *)
Seen(o, action) ==
    IF o # None /\ o.action = action THEN [Authorized(action) EXCEPT !.state = "seen"]
    ELSE None

(* A block with a transaction of the name: its other spends are void, and  *)
(* a new record restarts the liveness clock, though not a lapsed term.     *)
BlockWith(tx) ==
    /\ tx \in txs /\ Minable(tx)
    /\ txs' = {}
    /\ order' = Seen(order, tx.action)
    /\ live' = (tx.action # "release")
    /\ due' \in (IF live' THEN {FALSE, due} ELSE {FALSE})
    /\ held' \in (IF tx.action = "update" THEN {held, "no"} ELSE {"no"})
    /\ phase' = "tip"
    /\ UNCHANGED faults

(* A block is orphaned that did not touch the name: the clock goes back,   *)
(* expiries are further off, a transaction that proved against the block   *)
(* is never mined, and an order admitted in it goes.                       *)
OrphanOther ==
    /\ faults < MaxFaults
    /\ faults' = faults + 1
    /\ \E lost \in BOOLEAN :
          txs' = {[tx EXCEPT !.left = @ + 1, !.rooted = @ /\ ~lost] : tx \in txs}
    /\ order' \in {None, IF order # None /\ order.state = "sent"
                         THEN [order EXCEPT !.left = @ + 1] ELSE order}
    /\ due' \in {due, FALSE}
    /\ held' \in {held, "no"} \cup (IF held = "paid" THEN {"open"} ELSE {})
    /\ phase' = "tip"
    /\ UNCHANGED live

(* The block of the name's newest record is orphaned: the older record is  *)
(* back, the seen order is authorized again unless it was admitted in the  *)
(* block, and its transaction may return to the mempool.                   *)
OrphanMove ==
    /\ faults < MaxFaults
    /\ faults' = faults + 1
    /\ order # None /\ order.state = "seen"
    /\ order' \in {None, Authorized(order.action)}
    /\ txs' \in {{[action |-> order.action, left |-> l, known |-> TRUE, rooted |-> r]} :
                  l \in 1 .. Delta + 1, r \in BOOLEAN}
    /\ live' = TRUE
    /\ due' \in BOOLEAN
    /\ held' \in {held, "no"}
    /\ phase' = "tip"

(* The queues, and what was sent, are memory. *)
Restart ==
    /\ faults < MaxFaults
    /\ faults' = faults + 1
    /\ order' = None
    /\ txs' = {[tx EXCEPT !.known = FALSE] : tx \in txs}
    /\ phase' = "tip"
    /\ UNCHANGED <<live, due, held>>

Init ==
    /\ live = TRUE
    /\ due = FALSE
    /\ held = "no"
    /\ order = None
    /\ txs = {}
    /\ phase = "tip"
    /\ faults = 0

Next ==
    \/ EndRules
    \/ SignSend
    \/ SignSkip
    \/ \E action \in {"update", "release"} : Answer(action)
    \/ OpenBuy
    \/ \E paid \in BOOLEAN : CloseBuy(paid)
    \/ Block
    \/ \E tx \in txs : BlockWith(tx)
    \/ OrphanOther
    \/ OrphanMove
    \/ Restart

(***************************************************************************)
(* Blocks keep coming and close the window of every buy.  Now and then the *)
(* tip stands still for a whole pass, a pass that can sign finds its fee   *)
(* and is not refused, and a transaction the node holds is mined.          *)
(***************************************************************************)
FairSpec ==
    /\ Init /\ [][Next]_vars
    /\ WF_vars(Block)
    /\ WF_vars(\E paid \in BOOLEAN : CloseBuy(paid))
    /\ SF_vars(EndRules)
    /\ SF_vars(SignSend)
    /\ SF_vars(\E tx \in txs : BlockWith(tx))

-----------------------------------------------------------------------------
(***************************************************************************)
(* Properties                                                              *)
(***************************************************************************)
(* A name that a clock releases is released, or moved by an order that was *)
(* sent before, in the end: no expired order, blocked note, orphaned       *)
(* block, restart or open buy keeps it for ever (main.rs: expire_sent, the *)
(* dropped updates, the lifecycle releases).                               *)
DueReleased == due ~> ~due
=============================================================================
