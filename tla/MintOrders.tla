----------------------------- MODULE MintOrders -----------------------------
(***************************************************************************)
(* The run loop of src/main.rs around the Registry: the Name Note queue    *)
(* (NameNoteQueue, src/mint/note.rs), the OTP challenges that authorize    *)
(* updates and releases, the signing pass, the mempool of transactions the *)
(* mint has broadcast, reorgs, and a restart that forgets every queue.     *)
(*                                                                         *)
(* The chain carries only Registry transactions the mint built (the keys   *)
(* are the mint's).  No name is listed, so Market::allows_transition is    *)
(* always true and Market::poll returns nothing.                           *)
(***************************************************************************)
EXTENDS Registry, Queues, SequencesExt

CONSTANTS
    MaxReorgs,      \* bound: rewinds explored
    MaxRestarts     \* bound: process restarts explored

(* Names are finitely many, as their length is bounded.  A nullifier is a *)
(* number of 256 bits; fresh ones are taken in their order.               *)
ASSUME MintBoundsAssumption ==
    /\ MaxReorgs \in Nat /\ MaxRestarts \in Nat
    /\ IsFiniteSet(Names)
    /\ Nullifiers \subseteq Nat

VARIABLES
    phase,          \* where the run loop is
    orders,         \* NameNoteQueue::orders
    todo,           \* what the signing loop still has to visit
    armed,          \* OtpQueue: the relayed challenges
    ruled,          \* requests paid at or below this height are decided
    txs,            \* Name Note transactions broadcast so far
    reorgs,         \* rewinds so far
    restarts        \* restarts so far

queueVars == <<orders, todo, armed, ruled>>
boundVars == <<reorgs, restarts>>
mintVars == <<phase, queueVars, txs, boundVars>>
allVars == <<vars, mintVars>>

(***************************************************************************)
(* The loop applies a block ("block"), reads what the block carried        *)
(* ("arrivals"), decides requests at the tip ("rules"), then signs         *)
(* ("sign"); with nothing left to sign it waits for the next tip.          *)
(***************************************************************************)
Phases == {"block", "arrivals", "rules", "sign", "panicked"}

(* NameNoteState; Sent carries the transaction's expiry height, 0 otherwise *)
Order ==
    [note : NameNote, origin : Nat,
     state : {"authorized", "sent", "seen"}, expiry : Nat]

(* A relayed challenge: the update or release it answers, and (auxiliary) *)
(* the commitment of the record whose controller it was sent to.          *)
Challenge ==
    [action : {"update", "release"}, name : Names, ua : Addrs,
     against : NameCommitment]

(* A broadcast transaction.  known: this process recorded sending it;     *)
(* rooted: the tree root it proves against is on the applied chain.       *)
Tx == [note : NameNote, authority : Nullifiers, nf : Nullifiers,
       successor : Nullifiers \cup {NoNf}, target : Nat,
       known : BOOLEAN, rooted : BOOLEAN]

-----------------------------------------------------------------------------
(***************************************************************************)
(* NameNoteQueue                                                           *)
(***************************************************************************)
Unresolved(os, n) ==
    {i \in DOMAIN os : os[i].state # "seen" /\ os[i].note.name = n}

NotePending(os, n) == Unresolved(os, n) # {}

FirstOf(indices) == CHOOSE i \in indices : \A j \in indices : i <= j

(* Fault: a second order for the name is queued behind the first. *)
AdmitAlways(os, origin, note) ==
    Append(os, [note |-> note, origin |-> origin,
                state |-> "authorized", expiry |-> 0])

Admit(os, origin, note) ==
    IF NotePending(os, note.name) THEN os
    ELSE Append(os, [note |-> note, origin |-> origin,
                     state |-> "authorized", expiry |-> 0])

AuthorizedNotes(os) ==
    LET Kept == Retain(os, {i \in DOMAIN os : os[i].state = "authorized"})
    IN  [i \in DOMAIN Kept |-> Kept[i].note]

(* drop_note: the first unresolved order of the name.  Total only where *)
(* one exists: the code panics otherwise.                               *)
DropNote(os, n) == RemoveAt(os, FirstOf(Unresolved(os, n)))

(* mark_sent: the first authorized order of the name becomes sent *)
AuthorizedOf(os, n) == {i \in Unresolved(os, n) : os[i].state = "authorized"}
MarkSent(os, n, expiry) ==
    [os EXCEPT ![FirstOf(AuthorizedOf(os, n))].state = "sent",
               ![FirstOf(AuthorizedOf(os, n))].expiry = expiry]

ExpireSent(os, tip) ==
    [i \in DOMAIN os |->
       IF os[i].state = "sent" /\ tip + 1 >= os[i].expiry
       THEN [os[i] EXCEPT !.state = "authorized", !.expiry = 0]
       ELSE os[i]]

(* Whether a confirmed record at or after the order's origin is its note *)
Confirmed(o, hist) ==
    \E i \in DOMAIN hist[o.note.name] :
       /\ hist[o.note.name][i].confirmed_height >= o.origin
       /\ hist[o.note.name][i].commitment = Commitment(o.note)

(* Fault: a claim, too, must find its name live. *)
OwnsStrict(note, recs) ==
    /\ note.name \in DOMAIN recs
    /\ recs[note.name].commitment = note.prev

(* An order no longer owns its name once its predecessor is not current *)
Owns(note, recs) ==
    \/ note.action = "claim"
    \/ /\ note.name \in DOMAIN recs
       /\ recs[note.name].commitment = note.prev

ReconcileSeen(os, hist, recs) ==
    LET observed == [i \in DOMAIN os |->
                       IF Confirmed(os[i], hist)
                       THEN [os[i] EXCEPT !.state = "seen", !.expiry = 0] ELSE os[i]]
    IN  Retain(observed, {i \in DOMAIN os :
                            observed[i].state = "seen" \/ Owns(observed[i].note, recs)})

(* Fault: a rewind leaves seen orders seen. *)
RewindKeepsSeen(os, h) == Retain(os, {i \in DOMAIN os : os[i].origin <= h})

RewindTo(os, h) ==
    LET Kept == Retain(os, {i \in DOMAIN os : os[i].origin <= h})
    IN  [i \in DOMAIN Kept |->
           IF Kept[i].state = "seen" THEN [Kept[i] EXCEPT !.state = "authorized"]
           ELSE Kept[i]]

(* OtpQueue::drop_challenges *)
DropChallenges(n) == {c \in armed : c.name # n}

-----------------------------------------------------------------------------
(***************************************************************************)
(* Applying a block                                                        *)
(***************************************************************************)

(* Consensus may mine a broadcast transaction in the open block. *)
Confirmable(tx) ==
    /\ tx.rooted
    /\ born[tx.nf] = 0
    /\ tx.authority \in Spendable
    /\ Minable(tx.target)

OpenBlock(t) ==
    /\ phase \in {"arrivals", "sign"} /\ todo = << >>
    /\ NewBlock(t)
    /\ phase' = "block"
    /\ UNCHANGED <<queueVars, txs, boundVars>>

MineTx(tx) ==
    /\ phase = "block"
    /\ Confirmable(tx)
    /\ IF tx.note.action = "claim"
       THEN ClaimTx(tx.note, tx.nf, tx.successor, {tx.authority}, tx.target)
       ELSE SuccessorTx(tx.note, tx.nf, {tx.authority})
    /\ UNCHANGED mintVars

(* The block is applied: orders reconcile with it, and the challenges     *)
(* whose window its clock closes are dropped (or run out of attempts).    *)
SealBlock ==
    /\ phase = "block"
    /\ phase' = "arrivals"
    /\ orders' = ReconcileSeen(orders, history, records)
    /\ armed' \in SUBSET armed
    /\ UNCHANGED <<vars, todo, ruled, txs, boundVars>>

(* authorize_update and authorize_release at the block's clock *)
Authorizes(c) ==
    /\ c.name \in DOMAIN records
    /\ \/ c.action = "update" /\ ~IsReleaseDue(records[c.name], mtp[height])
       \/ c.action = "release" /\ records[c.name].ua = c.ua

(* Expiry::extend: without a term an update keeps the expiry; with one it *)
(* moves it later, or to forever.                                         *)
Extensions(e) ==
    {e} \cup {x \in ExpiryValues : e # Never /\ (x = Never \/ x > e)}

(* The Name Note an answered challenge stands for *)
TransitionNote(c, e) ==
    LET r == records[c.name] IN
    IF c.action = "update" THEN UpdateNote(c.name, c.ua, e, r.commitment)
    ELSE ReleaseNote(c.name, c.ua, r.commitment)

(* A right code arrives: it spends its challenge, and the transition is   *)
(* ruled on at the block that carried it.  A refusal also covers a term   *)
(* whose payment is short of the price or which passes the horizon.       *)
Respond(c) ==
    /\ phase = "arrivals"
    /\ c \in armed
    /\ \/ /\ ~NotePending(orders, c.name)
          /\ Authorizes(c)
          /\ \E e \in Extensions(records[c.name].expires_at) :
                orders' = Admit(orders, height, TransitionNote(c, e))
          /\ armed' = DropChallenges(c.name)
       \/ /\ \/ NotePending(orders, c.name)
             \/ ~Authorizes(c)
             \/ /\ c.action = "update" /\ c.name \in DOMAIN records
                /\ records[c.name].expires_at # Never
          /\ armed' = armed \ {c}
          /\ UNCHANGED orders
    /\ UNCHANGED <<vars, phase, todo, ruled, txs, boundVars>>

-----------------------------------------------------------------------------
(***************************************************************************)
(* The rules at the tip.  A pass that finds the tip moved is skipped: the  *)
(* next block opens straight from "arrivals".                              *)
(***************************************************************************)
StartRules ==
    /\ phase \in {"arrivals", "sign"} /\ todo = << >>
    /\ phase' = "rules"
    /\ UNCHANGED <<vars, queueVars, txs, boundVars>>

(* A sufficient claim payment of block p is decided at the tip; its order *)
(* originates at the payment.  Any other verdict changes no queue here.   *)
DecideClaim(n, ua, e, p) ==
    /\ phase = "rules"
    /\ p \in ruled + 1 .. height
    /\ IsAvailable(n)
    /\ ~Expired(e, mtp[height])
    /\ ~NotePending(orders, n)
    /\ orders' = Admit(orders, p, ClaimNote(n, ua, e))
    /\ armed' = DropChallenges(n)
    /\ UNCHANGED <<vars, phase, todo, ruled, txs, boundVars>>

(* Fault: a challenge goes out while a transition is pending. *)
AuthorizeChallengeAnytime(n, action, ua) ==
    /\ n \in DOMAIN records
    /\ ~IsReleaseDue(records[n], mtp[height])
    /\ action = "release" => records[n].ua = ua

(* authorize_challenge: the request of a live name nobody has a pending *)
(* note for, its clocks running; a release only from its controller.    *)
AuthorizeChallenge(n, action, ua) ==
    /\ n \in DOMAIN records
    /\ ~NotePending(orders, n)
    /\ ~IsReleaseDue(records[n], mtp[height])
    /\ action = "release" => records[n].ua = ua

(* A request is challenged and its memo relayed to the controller; one *)
(* already live for the same request is left as it is.                 *)
RelayChallenge(n, action, ua) ==
    /\ phase = "rules"
    /\ AuthorizeChallenge(n, action, ua)
    /\ ~\E c \in armed : c.name = n /\ c.action = action /\ c.ua = ua
    /\ armed' = armed \cup {[action |-> action, name |-> n, ua |-> ua,
                             against |-> records[n].commitment]}
    /\ UNCHANGED <<vars, phase, orders, todo, ruled, txs, boundVars>>

(* Updates the tip median would already release are dropped, one *)
(* drop_note each.                                               *)
Due(n) == n \in DOMAIN records /\ IsReleaseDue(records[n], mtp[height])
DropDueUpdates(os) ==
    LET notes == AuthorizedNotes(os)
        due == Retain(notes, {i \in DOMAIN notes :
                                notes[i].action = "update" /\ Due(notes[i].name)})
        upto[k \in 0 .. Len(due)] ==
          IF k = 0 THEN os ELSE DropNote(upto[k - 1], due[k].name)
    IN  upto[Len(due)]

(* Every due name without a pending note is owed a release. *)
AdmitReleases(os) ==
    LET due == SetToSeq({n \in Names : Due(n)})
        Release(n) == ReleaseNote(n, records[n].ua, records[n].commitment)
        upto[k \in 0 .. Len(due)] ==
          IF k = 0 THEN os ELSE Admit(upto[k - 1], height, Release(due[k]))
    IN  upto[Len(due)]

(* expire_sent, the dropped updates, the lifecycle releases, and the copy *)
(* of the authorized notes the signing loop walks.                        *)
EndRules ==
    /\ phase = "rules"
    /\ phase' = "sign"
    /\ LET pruned   == DropDueUpdates(ExpireSent(orders, height))
           admitted == AdmitReleases(pruned)
       IN  /\ orders' = admitted
           /\ todo' = AuthorizedNotes(admitted)
           /\ armed' = {c \in armed : ~(Due(c.name) /\ ~NotePending(pruned, c.name))}
    /\ ruled' = height
    /\ UNCHANGED <<vars, txs, boundVars>>

-----------------------------------------------------------------------------
(***************************************************************************)
(* The signing loop                                                        *)
(***************************************************************************)

(* Fault: a spend stops blocking one block before its last valid block. *)
CanSpendEarly(nf) ==
    ~\E tx \in txs : /\ tx.known /\ tx.authority = nf
                      /\ TxExpiry(tx.target) > height + 1

(* The wallet refuses a note whose recorded spend may still be mined. *)
CanSpend(nf) ==
    ~\E tx \in txs : /\ tx.known /\ tx.authority = nf
                      /\ TxExpiry(tx.target) >= height

(* The order's name moved on: a claimed name is live, or a predecessor is *)
(* no longer current.                                                     *)
Dead(note) ==
    IF note.action = "claim" THEN ~IsAvailable(note.name)
    ELSE ~Owns(note, records)

(* A claim takes the first spendable anchor in the byte order of the     *)
(* nullifiers, so any; another note takes its predecessor.               *)
Authorities(note) ==
    {nf \in (IF note.action = "claim" THEN live
             ELSE {records[note.name].predecessor_nullifier}) : CanSpend(nf)}

(* Nullifiers no note on the chain and no broadcast transaction has *)
Fresh == Unborn \ UNION {{tx.nf, tx.successor} : tx \in txs}

BuiltTx(note, nf) ==
    LET created == FirstOf(Fresh) IN
    [note |-> note, authority |-> nf, nf |-> created,
     successor |-> IF note.action = "claim" THEN FirstOf(Fresh \ {created}) ELSE NoNf,
     target |-> height + 1, known |-> TRUE, rooted |-> TRUE]

SignDrop ==
    /\ phase = "sign" /\ todo # << >>
    /\ Dead(Head(todo))
    /\ IF Unresolved(orders, Head(todo).name) = {}
       THEN phase' = "panicked" /\ UNCHANGED <<orders, todo>>
       ELSE /\ orders' = DropNote(orders, Head(todo).name)
            /\ todo' = Tail(todo)
            /\ UNCHANGED phase
    /\ UNCHANGED <<vars, armed, ruled, txs, boundVars>>

(* No spendable authority, no fee funds, a failed build or a refused *)
(* submission: the order waits for the next pass.                    *)
SignSkip ==
    /\ phase = "sign" /\ todo # << >>
    /\ ~Dead(Head(todo))
    /\ todo' = Tail(todo)
    /\ UNCHANGED <<vars, phase, orders, armed, ruled, txs, boundVars>>

(* prepare, submit, record_sent, mark_sent *)
SignSend(nf) ==
    /\ phase = "sign" /\ todo # << >>
    /\ ~Dead(Head(todo))
    /\ nf \in Authorities(Head(todo))
    /\ Cardinality(Fresh) >= 2
    /\ txs' = txs \cup {BuiltTx(Head(todo), nf)}
    /\ IF AuthorizedOf(orders, Head(todo).name) = {}
       THEN phase' = "panicked" /\ UNCHANGED <<orders, todo>>
       ELSE /\ orders' = MarkSent(orders, Head(todo).name, TxExpiry(height + 1))
            /\ todo' = Tail(todo)
            /\ UNCHANGED phase
    /\ UNCHANGED <<vars, armed, ruled, boundVars>>

-----------------------------------------------------------------------------
(***************************************************************************)
(* Reorg and restart                                                       *)
(***************************************************************************)

(* What is left of the broadcast transactions: one that proves against a  *)
(* lost root is never mined again; the wallet forgets one whose note is   *)
(* gone and otherwise keeps its note blocked.  Every block is taken to    *)
(* move the root: one without Ironwood outputs does not, and a            *)
(* transaction signed on it would stay valid when it is orphaned.         *)
TxsAfterRewind(h) ==
    {[tx EXCEPT !.rooted = @ /\ tx.target <= h + 1] :
       tx \in {x \in txs : /\ born[x.authority] \in 1 .. h
                            /\ (x.known \/ x.target <= h + 1)}}

Rewind(h) ==
    /\ phase \in {"arrivals", "sign"} /\ todo = << >>
    /\ reorgs < MaxReorgs
    /\ h >= established
    /\ Truncate(h)
    /\ phase' = "arrivals"
    /\ orders' = ReconcileSeen(RewindTo(orders, h), history', records')
    /\ armed' = {}
    /\ ruled' = IF ruled > h THEN h ELSE ruled
    /\ txs' = TxsAfterRewind(h)
    /\ reorgs' = reorgs + 1
    /\ UNCHANGED <<todo, restarts>>

(* Boot rebuilds the Registry and the wallet from the chain; every queue *)
(* and the record of what was sent is memory.  Requests in the replayed  *)
(* blocks are not instructions.                                          *)
Restart ==
    /\ restarts < MaxRestarts
    /\ phase' = "arrivals"
    /\ orders' = << >> /\ todo' = << >> /\ armed' = {}
    /\ ruled' = height
    /\ txs' = {[tx EXCEPT !.known = FALSE] : tx \in txs}
    /\ restarts' = restarts + 1
    /\ UNCHANGED <<vars, reorgs>>

-----------------------------------------------------------------------------
(* The chain begins with the ceremony in its first block. *)
MintInit ==
    \E pool \in SUBSET Nullifiers :
      /\ Cardinality(pool) = PoolSize
      /\ \A a \in pool, b \in Nullifiers \ pool : a < b
      /\ height = 1
      /\ mtp = [h \in 0 .. 1 |-> 0]
      /\ records = [n \in {} |-> 0]
      /\ history = [n \in Names |-> << >>]
      /\ live = pool
      /\ checkpoints = [h \in {1} |-> pool]
      /\ established = 1
      /\ born = [nf \in Nullifiers |-> IF nf \in pool THEN 1 ELSE 0]
      /\ spentAt = [nf \in Nullifiers |-> 0]
      /\ targets = [n \in Names |-> << >>]
      /\ snap = [h \in {0} |-> [records |-> records, history |-> history,
                                 live |-> {}, established |-> 0]]
      /\ phase = "arrivals"
      /\ orders = << >> /\ todo = << >> /\ armed = {}
      /\ ruled = 0
      /\ txs = {}
      /\ reorgs = 0 /\ restarts = 0

MintNext ==
    \/ \E t \in 0 .. MaxTime : OpenBlock(t)
    \/ \E tx \in txs : MineTx(tx)
    \/ SealBlock
    \/ \E c \in armed : Respond(c)
    \/ StartRules
    \/ \E n \in Names, ua \in Addrs, e \in ExpiryValues, p \in 1 .. height :
         DecideClaim(n, ua, e, p)
    \/ \E n \in Names, action \in {"update", "release"}, ua \in Addrs :
         RelayChallenge(n, action, ua)
    \/ EndRules
    \/ SignDrop
    \/ SignSkip
    \/ \E nf \in Nullifiers : SignSend(nf)
    \/ \E h \in 1 .. height : Rewind(h)
    \/ Restart

MintSpec == MintInit /\ [][MintNext]_allVars

-----------------------------------------------------------------------------
(***************************************************************************)
(* Properties                                                              *)
(***************************************************************************)

(* The queues, the broadcast transactions and the loop's place have their *)
(* types, and no drop_note or mark_sent met a name without an order (the  *)
(* two `expect`s of NameNoteQueue).                                       *)
MintTypeOK ==
    /\ phase \in Phases \ {"panicked"}
    /\ orders \in Seq(Order)
    /\ todo \in Seq(NameNote)
    /\ armed \subseteq Challenge
    /\ ruled \in 0 .. height
    /\ txs \subseteq Tx

(* The loop never panics on its queue, and outside a half-applied block an *)
(* order is Seen exactly when a record at or after its origin carries its  *)
(* commitment, through every rewind (reconcile_seen, rewind_to).           *)
SeenConfirmed ==
    /\ MintTypeOK
    /\ phase # "block" =>
         \A i \in DOMAIN orders :
           orders[i].state = "seen" <=> Confirmed(orders[i], history)

(* While the chain only grows, "`admit` guarantees at most one unresolved *)
(* order per name" (note.changelog.md), on which drop_note and mark_sent  *)
(* rest: they resolve by name.                                            *)
OneUnresolved ==
    reorgs = 0 => \A n \in Names : Cardinality(Unresolved(orders, n)) <= 1

(* While no reorg or restart made the mint forget an order it broadcast,  *)
(* no challenge outlives the record it was issued against                 *)
(* (otp.changelog.md): a right code moves only the record whose           *)
(* controller was sent it.                                                *)
ChallengesCurrent ==
    phase # "block" /\ reorgs = 0 /\ restarts = 0 =>
      \A c \in armed : /\ c.name \in DOMAIN records
                        /\ records[c.name].commitment = c.against

(* A broadcast that may still be mined, at the tip or in the next block *)
InFlight(tx) ==
    /\ tx.rooted /\ born[tx.nf] = 0
    /\ born[tx.authority] # 0 /\ spentAt[tx.authority] = 0
    /\ height < TxExpiry(tx.target)

(* Each update, release or sale the mint broadcast and the chain mined    *)
(* stands in its name's history under the very commitment that was        *)
(* signed, and every release on the chain is a release note the mint      *)
(* signed: no reorg, restart or late transaction makes the mint burn a    *)
(* name by spending its note without succeeding it.  Nor does the wallet  *)
(* let this process spend one note twice while either transaction may     *)
(* still be mined (accept_*, spend_confirms_or_blocks).                   *)
OwnTxLawful ==
    /\ \A tx \in txs :
         born[tx.nf] # 0 /\ tx.note.action # "claim" =>
           \E i \in DOMAIN history[tx.note.name] :
              /\ history[tx.note.name][i].predecessor_nullifier = tx.nf
              /\ history[tx.note.name][i].commitment = Commitment(tx.note)
    /\ \A n \in Names : \A i \in DOMAIN history[n] :
         history[n][i].action = "release" =>
           \E tx \in txs : /\ tx.note.action = "release"
                           /\ tx.nf = history[n][i].predecessor_nullifier
    /\ \A a, b \in {tx \in txs : tx.known /\ InFlight(tx)} :
         a.authority = b.authority => a = b

(* A decision is never lost: while the chain only grows, and the process   *)
(* lives, an unresolved order leaves the queue only because its name moved *)
(* on (the claimed name is live, the predecessor is no longer current), or *)
(* as an update of a name the tip median would release (drop_note,         *)
(* reconcile_seen).                                                        *)
OrderKept ==
    [][reorgs' = 0 /\ restarts' = restarts => \A i \in DOMAIN orders :
         LET o == orders[i] IN
         \/ o.state = "seen"
         \/ \E j \in DOMAIN orders' :
              orders'[j].note = o.note /\ orders'[j].origin = o.origin
         \/ Dead(o.note)
         \/ o.note.action = "update" /\ Due(o.note.name)]_allVars

(* A broadcast order "is not signed again ... while it can still confirm" *)
(* (note.changelog.md; expire_sent).                                      *)
NotSignedAgain ==
    \A a, b \in {tx \in txs : tx.known /\ InFlight(tx)} :
        a.note = b.note => a = b
=============================================================================
