------------------------------ MODULE Registry ------------------------------
(***************************************************************************)
(* The name-chain state machine of src/mint/registry.rs together with its  *)
(* claim-anchor pool (src/mint/registry/anchor_pool.rs), driven by the     *)
(* confirmation pass of apply_block (src/mint.rs) and by the reorg rewind  *)
(* of the run loop (src/main.rs).                                          *)
(*                                                                         *)
(* A block is opened by NewBlock and then receives transactions one at a   *)
(* time, in block order; a block is complete when the next one opens.  A   *)
(* transaction is offered to the Registry whole: what it spends (nfs), the *)
(* Name Note it creates and that note's nullifier, the zero-value          *)
(* successor anchor it creates, and the height it was built for.  Any      *)
(* transaction that consensus admits may be offered, lawful or not.        *)
(***************************************************************************)
EXTENDS Integers, Sequences, FiniteSets

CONSTANTS
    Names,          \* the names that can be registered
    Addrs,          \* controller unified addresses
    Expiries,       \* fixed expirations a note may carry, beside Never
    Nullifiers,     \* nullifiers of Registry notes; unique per note on a chain
    NoNf,           \* "no successor anchor"
    PoolSize,       \* ANCHOR_POOL_SIZE
    Liveness,       \* LIVENESS_INTERVAL
    Nu7,            \* first height with the longer transaction expiry delta
    OldDelta,       \* default_tx_expiry_delta below Nu7
    NewDelta,       \* default_tx_expiry_delta from Nu7
    MaxHeight,      \* bound: the longest chain explored
    MaxTime         \* bound: the latest median time past

(***************************************************************************)
(* The standing pool is not empty, and the expiry delta never shrinks.     *)
(***************************************************************************)
ASSUME ConstantsAssumption ==
    /\ PoolSize \in Nat \ {0}
    /\ Liveness \in Nat
    /\ Expiries \subseteq Nat
    /\ Nu7 \in Nat /\ OldDelta \in Nat /\ NewDelta \in Nat
    /\ OldDelta <= NewDelta
    /\ MaxHeight \in Nat /\ MaxTime \in Nat
    /\ NoNf \notin Nullifiers
    /\ IsFiniteSet(Nullifiers)

VARIABLES
    height,         \* the applied tip
    mtp,            \* median time past of each applied block
    records,        \* Registry::records: the names live at the tip
    history,        \* Registry::history: every confirmed record, per name
    live,           \* AnchorPool::live
    checkpoints,    \* AnchorPool::checkpoints
    established,    \* AnchorPool::established, 0 for None
    born,           \* chain: height that created each nullifier's note, or 0
    spentAt,        \* chain: height that spent it, or 0
    targets,        \* auxiliary: height each history entry's tx was built for
    snap            \* auxiliary: the Registry as it stood at each lower tip

registryVars == <<records, history, live, checkpoints, established>>
chainVars == <<height, mtp, born, spentAt>>
vars == <<registryVars, chainVars, targets, snap>>

-----------------------------------------------------------------------------
(***************************************************************************)
(* Name Notes.  The rcm of a note is a hash of its verb, name, address,    *)
(* expiry and predecessor rcm, so the commitment is modelled as the list   *)
(* of transitions since the claim: equal exactly when every hashed field   *)
(* is equal.  A claim hashes 32 zero bytes as predecessor.                 *)
(***************************************************************************)
Never == -1
NoPrev == << >>
ExpiryValues == Expiries \cup {Never}
Verbs == {"claim", "update", "release", "sale"}
Transition == Verbs \X Names \X Addrs \X ExpiryValues
NameCommitment == Seq(Transition)

NameNote ==
    [action : Verbs, name : Names, ua : Addrs,
     expires_at : ExpiryValues, prev : NameCommitment]

NameRecord ==
    [name : Names, action : Verbs, ua : Addrs, expires_at : ExpiryValues,
     commitment : NameCommitment, confirmed_height : Nat,
     release_deadline : Nat, predecessor_nullifier : Nullifiers]

(* A release always hashes the expiry field `none`. *)
Commitment(note) ==
    Append(note.prev, <<note.action, note.name, note.ua, note.expires_at>>)

ClaimNote(n, ua, e) ==
    [action |-> "claim", name |-> n, ua |-> ua, expires_at |-> e, prev |-> NoPrev]
UpdateNote(n, ua, e, prev) ==
    [action |-> "update", name |-> n, ua |-> ua, expires_at |-> e, prev |-> prev]
ReleaseNote(n, ua, prev) ==
    [action |-> "release", name |-> n, ua |-> ua, expires_at |-> Never, prev |-> prev]
SaleNote(n, ua, e, prev) ==
    [action |-> "sale", name |-> n, ua |-> ua, expires_at |-> e, prev |-> prev]

(* NameRecord::create: the liveness clock restarts at the block's median. *)
CreateRecord(note, nf, t) ==
    [name |-> note.name, action |-> note.action, ua |-> note.ua,
     expires_at |-> note.expires_at, commitment |-> Commitment(note),
     confirmed_height |-> height, release_deadline |-> t + Liveness,
     predecessor_nullifier |-> nf]

-----------------------------------------------------------------------------
(***************************************************************************)
(* Queries                                                                 *)
(***************************************************************************)
IsAvailable(n) == n \notin DOMAIN records

Expired(e, t) == e # Never /\ t >= e

IsReleaseDue(r, t) == Expired(r.expires_at, t) \/ t >= r.release_deadline

(* names_spent_by: the names whose current notes these nullifiers spend *)
NamesSpentBy(nfs) ==
    {n \in DOMAIN records : records[n].predecessor_nullifier \in nfs}

TxExpiryDelta(h) == IF h < Nu7 THEN OldDelta ELSE NewDelta

(* The mint sets expiry to the target height plus the delta at that height. *)
TxExpiry(target) == target + TxExpiryDelta(target)

(* Fault: the window is read with the delta of the older network rules. *)
BuiltBeforeReleaseOldDelta(n, expiry) ==
    /\ history[n] # << >>
    /\ LET latest == history[n][Len(history[n])] IN
         /\ latest.action = "release"
         /\ expiry <= latest.confirmed_height + OldDelta

BuiltBeforeRelease(n, expiry) ==
    /\ history[n] # << >>
    /\ LET latest == history[n][Len(history[n])] IN
         /\ latest.action = "release"
         /\ expiry <= latest.confirmed_height
                        + TxExpiryDelta(latest.confirmed_height)

(* Fault: a live record is enough, whether or not its note was spent. *)
PredecessorLive(note, nfs) ==
    /\ note.name \in DOMAIN records
    /\ nfs \cap live = {}

(* predecessor_spent: the tx spent this note's own live record, no other *)
(* Name Note and no standing anchor.                                     *)
PredecessorSpent(note, nfs) ==
    /\ NamesSpentBy(nfs) = {note.name}
    /\ nfs \cap live = {}

-----------------------------------------------------------------------------
(***************************************************************************)
(* Writes to the Registry's own state                                      *)
(***************************************************************************)

(* set_record, with the height the writing transaction was built for *)
SetRecord(r, target) ==
    /\ history' = [history EXCEPT ![r.name] = Append(@, r)]
    /\ targets' = [targets EXCEPT ![r.name] = Append(@, target)]
    /\ records' =
         IF r.action = "release"
         THEN [n \in DOMAIN records \ {r.name} |-> records[n]]
         ELSE [n \in DOMAIN records \cup {r.name} |->
                 IF n = r.name THEN r ELSE records[n]]

(* mark_released: set_record of a released copy of each live name spent *)
MarkReleased(nfs, target) ==
    LET gone == NamesSpentBy(nfs) IN
    /\ history' = [n \in Names |->
         IF n \in gone
         THEN Append(history[n], [records[n] EXCEPT !.action = "release",
                                                    !.confirmed_height = height])
         ELSE history[n]]
    /\ targets' = [n \in Names |->
         IF n \in gone THEN Append(targets[n], target) ELSE targets[n]]
    /\ records' = [n \in DOMAIN records \ gone |-> records[n]]

(* BTreeMap::insert of the pool under the current height *)
Checkpoint(pool) ==
    checkpoints' = [h \in DOMAIN checkpoints \cup {height} |->
                      IF h = height THEN pool ELSE checkpoints[h]]

(* AnchorPool::retire_spent: every live anchor spent goes; a successor *)
(* joins only when exactly one anchor retired.                         *)
RetireSpent(nfs, successor) ==
    LET retired == nfs \cap live
        pool == (live \ nfs) \cup
                  (IF (\E a \in retired : retired = {a}) /\ successor # NoNf
                   THEN {successor} ELSE {})
    IN  /\ live' = pool
        /\ IF retired # {} THEN Checkpoint(pool) ELSE UNCHANGED checkpoints
        /\ UNCHANGED established

(* Fault: the pool follows the spends and the records do not. *)
FollowPoolOnly(nfs, target) ==
    /\ RetireSpent(nfs, NoNf)
    /\ UNCHANGED <<records, history, targets>>

FollowSpends(nfs, target) ==
    /\ RetireSpent(nfs, NoNf)
    /\ MarkReleased(nfs, target)

-----------------------------------------------------------------------------
(***************************************************************************)
(* The law: what apply_block offers the Registry for one transaction       *)
(***************************************************************************)

(* adopt_anchor over the outputs of the ceremony transaction: they join, *)
(* in some scan order, until the pool first reaches standing size.       *)
AdoptAnchors(outs) ==
    IF established # 0 \/ Cardinality(live) >= PoolSize
    THEN UNCHANGED <<live, checkpoints, established>>
    ELSE \E joined \in SUBSET outs :
           LET pool == live \cup joined IN
             /\ Cardinality(pool) = PoolSize
             /\ live' = pool
             /\ established' = height
             /\ Checkpoint(pool)

SpendsOneAnchor(nfs) == \E a \in live : nfs \cap live = {a}

(* Fault: the anchor of a refused claim is succeeded all the same. *)
AcceptClaimAnyway(note, nf, successor, nfs, target) ==
    LET backed == SpendsOneAnchor(nfs) /\ NamesSpentBy(nfs) = {} IN
    /\ RetireSpent(nfs, IF backed THEN successor ELSE NoNf)
    /\ IF ~backed \/ successor = NoNf THEN MarkReleased(nfs, target)
       ELSE IF IsAvailable(note.name) /\ ~BuiltBeforeRelease(note.name, TxExpiry(target))
       THEN SetRecord(CreateRecord(note, nf, mtp[height]), target)
       ELSE UNCHANGED <<records, history, targets>>

AcceptClaim(note, nf, successor, nfs, target) ==
    LET backed   == SpendsOneAnchor(nfs) /\ NamesSpentBy(nfs) = {}
        admitted == /\ IsAvailable(note.name)
                    /\ ~BuiltBeforeRelease(note.name, TxExpiry(target))
    IN  /\ RetireSpent(nfs, IF backed /\ admitted THEN successor ELSE NoNf)
        /\ \/ /\ successor = NoNf \/ ~backed
              /\ MarkReleased(nfs, target)
           \/ /\ successor # NoNf /\ backed /\ ~admitted
              /\ UNCHANGED <<records, history, targets>>
           \/ /\ successor # NoNf /\ backed /\ admitted
              /\ SetRecord(CreateRecord(note, nf, mtp[height]), target)

(* The shared body of accept_update, accept_release and accept_sale: an   *)
(* unbacked or malformed note only follows its spends; a spent            *)
(* predecessor the note does not name is released (release_predecessor);  *)
(* otherwise the note becomes the name's newest record.                   *)
SucceedRecord(note, nf, nfs, target) ==
    \/ /\ ~PredecessorSpent(note, nfs)
       /\ FollowSpends(nfs, target)
    \/ /\ PredecessorSpent(note, nfs)
       /\ LET record  == records[note.name]
              written == IF note.prev = record.commitment THEN note
                         ELSE ReleaseNote(note.name, record.ua, record.commitment)
          IN  SetRecord(CreateRecord(written, nf, mtp[height]), target)
       /\ UNCHANGED <<live, checkpoints, established>>

AcceptUpdate(note, nf, nfs, target) ==
    note.action = "update" /\ SucceedRecord(note, nf, nfs, target)
AcceptRelease(note, nf, nfs, target) ==
    note.action = "release" /\ SucceedRecord(note, nf, nfs, target)
AcceptSale(note, nf, nfs, target) ==
    note.action = "sale" /\ SucceedRecord(note, nf, nfs, target)

-----------------------------------------------------------------------------
(***************************************************************************)
(* The chain.  Consensus admits a transaction that spends notes of earlier *)
(* blocks (a spend proves inclusion under an earlier block's root), none   *)
(* of them spent before, and creates notes with new nullifiers.            *)
(***************************************************************************)
Unborn == {nf \in Nullifiers : born[nf] = 0}
Spendable ==
    {nf \in Nullifiers : born[nf] \in 1 .. height - 1 /\ spentAt[nf] = 0}

Mine(nfs, outs) ==
    /\ height > 0
    /\ nfs \subseteq Spendable
    /\ outs \subseteq Unborn
    /\ spentAt' = [nf \in Nullifiers |-> IF nf \in nfs THEN height ELSE spentAt[nf]]
    /\ born' = [nf \in Nullifiers |-> IF nf \in outs THEN height ELSE born[nf]]
    /\ UNCHANGED <<height, mtp, snap>>

(* The mint's transactions reach a block at or after the height they were *)
(* built for, and no later than their expiry height.                      *)
Minable(target) == target \in 1 .. height /\ height <= TxExpiry(target)

(* The keygen transaction: the whole standing set of zero-value Registry *)
(* outputs and no Name Note.  Its follow_spends has nothing to follow:   *)
(* while adoption is open there is neither an anchor nor a name to       *)
(* spend, and once it is closed a fill that spends is an OtherSpendTx.   *)
CeremonyTx(outs) ==
    /\ Cardinality(outs) = PoolSize
    /\ Mine({}, outs)
    /\ AdoptAnchors(outs)
    /\ UNCHANGED <<records, history, targets>>

ClaimTx(note, nf, successor, nfs, target) ==
    /\ nf # successor
    /\ Minable(target)
    /\ Mine(nfs, {nf, successor} \ {NoNf})
    /\ AcceptClaim(note, nf, successor, nfs, target)

SuccessorTx(note, nf, nfs) ==
    /\ Mine(nfs, {nf})
    /\ \/ AcceptUpdate(note, nf, nfs, height)
       \/ AcceptRelease(note, nf, nfs, height)
       \/ AcceptSale(note, nf, nfs, height)

(* A Registry spend with no Name Note, or with several *)
OtherSpendTx(nfs) ==
    /\ nfs # {}
    /\ Mine(nfs, {})
    /\ FollowSpends(nfs, height)

Snapshot ==
    [records |-> records, history |-> history, live |-> live,
     established |-> established]

NewBlock(t) ==
    /\ height < MaxHeight
    /\ t >= mtp[height]
    /\ height' = height + 1
    /\ mtp' = [h \in 0 .. height + 1 |-> IF h = height + 1 THEN t ELSE mtp[h]]
    /\ snap' = [h \in 0 .. height |-> IF h = height THEN Snapshot ELSE snap[h]]
    /\ UNCHANGED <<registryVars, born, spentAt, targets>>

-----------------------------------------------------------------------------
(***************************************************************************)
(* Reorg                                                                   *)
(***************************************************************************)

(* Fault: the entries of block h itself are popped too. *)
KeptLengthBelow(s, h) ==
    CHOOSE k \in 0 .. Len(s) :
      /\ k # 0 => s[k].confirmed_height < h
      /\ \A i \in (k + 1) .. Len(s) : s[i].confirmed_height >= h

(* history.retain: entries above h are popped from the end *)
KeptLength(s, h) ==
    CHOOSE k \in 0 .. Len(s) :
      /\ k # 0 => s[k].confirmed_height <= h
      /\ \A i \in (k + 1) .. Len(s) : s[i].confirmed_height > h

HistoryAt(h) ==
    [n \in Names |-> SubSeq(history[n], 1, KeptLength(history[n], h))]

(* records rebuilt from what each history ends with *)
Rebuilt(hist) ==
    [n \in {m \in Names : hist[m] # << >>
                            /\ hist[m][Len(hist[m])].action # "release"} |->
       hist[n][Len(hist[n])]]

(* AnchorPool::truncate_to: the last checkpoint at or below h *)
IsPoolAt(h, pool) ==
    \/ /\ \A k \in DOMAIN checkpoints : k > h
       /\ pool = {}
    \/ \E k \in DOMAIN checkpoints :
         /\ k <= h
         /\ \A j \in DOMAIN checkpoints : j <= h => j <= k
         /\ pool = checkpoints[k]

(* Fault: adoption stays closed after its block is gone. *)
EstablishedForever(h) == established

EstablishedAt(h) == IF established > h THEN 0 ELSE established

(* Truncate: the chain and the Registry both return to an earlier tip *)
Truncate(h) ==
    /\ h \in 0 .. height - 1
    /\ height' = h
    /\ mtp' = [k \in 0 .. h |-> mtp[k]]
    /\ snap' = [k \in 0 .. h - 1 |-> snap[k]]
    /\ born' = [nf \in Nullifiers |-> IF born[nf] > h THEN 0 ELSE born[nf]]
    /\ spentAt' = [nf \in Nullifiers |-> IF spentAt[nf] > h THEN 0 ELSE spentAt[nf]]
    /\ history' = HistoryAt(h)
    /\ targets' = [n \in Names |->
                     SubSeq(targets[n], 1, KeptLength(history[n], h))]
    /\ records' = Rebuilt(HistoryAt(h))
    /\ live' = CHOOSE pool \in SUBSET Nullifiers : IsPoolAt(h, pool)
    /\ checkpoints' = [k \in {j \in DOMAIN checkpoints : j <= h} |-> checkpoints[k]]
    /\ established' = EstablishedAt(h)

-----------------------------------------------------------------------------
Init ==
    /\ height = 0
    /\ mtp = [h \in {0} |-> 0]
    /\ records = [n \in {} |-> 0]
    /\ history = [n \in Names |-> << >>]
    /\ live = {}
    /\ checkpoints = [h \in {} |-> {}]
    /\ established = 0
    /\ born = [nf \in Nullifiers |-> 0]
    /\ spentAt = [nf \in Nullifiers |-> 0]
    /\ targets = [n \in Names |-> << >>]
    /\ snap = [h \in {} |-> 0]

(* Predecessors a note on chain may name: any commitment of the name so far *)
KnownCommitments(n) == {history[n][i].commitment : i \in DOMAIN history[n]}

SuccessorNotes(n) ==
    {UpdateNote(n, ua, e, p) :
        ua \in Addrs, e \in ExpiryValues, p \in KnownCommitments(n)}
    \cup {SaleNote(n, ua, e, p) :
        ua \in Addrs, e \in ExpiryValues, p \in KnownCommitments(n)}
    \cup {ReleaseNote(n, ua, p) : ua \in Addrs, p \in KnownCommitments(n)}

Next ==
    \/ \E t \in 0 .. MaxTime : NewBlock(t)
    \/ \E outs \in SUBSET Unborn : CeremonyTx(outs)
    \/ \E n \in Names, ua \in Addrs, e \in ExpiryValues, nf \in Unborn,
          successor \in Unborn \cup {NoNf}, nfs \in SUBSET Spendable,
          target \in 1 .. height :
            ClaimTx(ClaimNote(n, ua, e), nf, successor, nfs, target)
    \/ \E n \in Names, nf \in Unborn, nfs \in SUBSET Spendable :
         \E note \in SuccessorNotes(n) : SuccessorTx(note, nf, nfs)
    \/ \E nfs \in SUBSET Spendable : OtherSpendTx(nfs)
    \/ \E h \in 0 .. height : Truncate(h)

Spec == Init /\ [][Next]_vars

-----------------------------------------------------------------------------
(***************************************************************************)
(* Properties                                                              *)
(***************************************************************************)

(* Every field of the Registry, of the pool and of the chain has its type; *)
(* checkpoints and snapshots exist only for heights of the applied chain.  *)
TypeOK ==
    /\ height \in Nat
    /\ mtp \in [0 .. height -> Nat]
    /\ DOMAIN records \subseteq Names
    /\ \A n \in DOMAIN records : records[n] \in NameRecord
    /\ history \in [Names -> Seq(NameRecord)]
    /\ live \in SUBSET Nullifiers
    /\ DOMAIN checkpoints \subseteq 1 .. height
    /\ checkpoints \in [DOMAIN checkpoints -> SUBSET Nullifiers]
    /\ established \in 0 .. height
    /\ born \in [Nullifiers -> 0 .. height]
    /\ spentAt \in [Nullifiers -> 0 .. height]
    /\ targets \in [Names -> Seq(Nat)]
    /\ DOMAIN snap = 0 .. height - 1

StoodAt(h) == IF h = height THEN Snapshot ELSE snap[h]

(* Rewinding to any height gives back exactly the Registry that stood when  *)
(* that height was the tip: histories, the records rebuilt from them, the   *)
(* anchor pool and whether adoption had closed (truncate_to_height).        *)
RewindExact ==
    \A h \in 0 .. height :
        /\ HistoryAt(h) = StoodAt(h).history
        /\ Rebuilt(HistoryAt(h)) = StoodAt(h).records
        /\ IsPoolAt(h, StoodAt(h).live)
        /\ EstablishedAt(h) = StoodAt(h).established

(* Authority is spendable, exclusive and bounded: the note of every live    *)
(* name and every standing anchor is on the chain and unspent, no two live  *)
(* names share a note, no name's note is an anchor, and the anchors are at  *)
(* most the ceremony's, whatever verdict the transactions that touched them *)
(* got (accept_*, follow_spends, AnchorPool).                               *)
AuthorityUnspent ==
    LET OnChain(nf) == born[nf] \in 1 .. height /\ spentAt[nf] = 0 IN
    /\ \A a \in live : OnChain(a)
    /\ Cardinality(live) <= PoolSize
    /\ established = 0 => live = {}
    /\ \A n \in DOMAIN records :
         /\ OnChain(records[n].predecessor_nullifier)
         /\ records[n].predecessor_nullifier \notin live
         /\ \A m \in DOMAIN records \ {n} :
              records[m].predecessor_nullifier # records[n].predecessor_nullifier

(* A name changes hands only by spending its own note: each entry after a   *)
(* live one sits in the very block that spent that entry's note and extends *)
(* its commitment (or is its released copy); only after a release, or first,*)
(* stands a claim.                                                          *)
OwnershipChain ==
    \A n \in Names : \A i \in DOMAIN history[n] :
        LET r == history[n][i] IN
        IF i = 1 \/ history[n][i - 1].action = "release"
        THEN r.action = "claim"
        ELSE LET p == history[n][i - 1] IN
             /\ r.action # "claim"
             /\ spentAt[p.predecessor_nullifier] = r.confirmed_height
             /\ \/ r.commitment = p.commitment /\ r.action = "release"
                \/ /\ Len(r.commitment) = Len(p.commitment) + 1
                   /\ SubSeq(r.commitment, 1, Len(p.commitment)) = p.commitment

(* A claim transaction built before a name's release never registers the    *)
(* name after it, across the change of expiry delta too                     *)
(* (built_before_release).                                                  *)
NoStaleClaim ==
    \A n \in Names : \A i \in DOMAIN history[n] :
        i > 1 /\ history[n][i].action = "claim"
          => targets[n][i] > history[n][i - 1].confirmed_height

=============================================================================
