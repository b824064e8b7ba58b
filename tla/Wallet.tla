------------------------------- MODULE Wallet -------------------------------
(***************************************************************************)
(* The in-memory wallet of src/wallet.rs and src/wallet/: the notes of the *)
(* Treasury and the Registry, the spends recorded against them, the locks, *)
(* the note commitment trees and their checkpoints; applied block by       *)
(* block, rewound by a reorg, and rebuilt from the chain by a restart.     *)
(*                                                                         *)
(* A block is the sequence of its wallet transactions.  The Sapling and    *)
(* the Ironwood lane run the same code, so a note carries its pool and     *)
(* each pool its tree; the ordinary Orchard tree holds no note of the      *)
(* wallet and is left out.  A transaction proves against the tree root of  *)
(* the tip it was built on, so it is valid on every chain with that prefix *)
(* and on no other.                                                        *)
(***************************************************************************)
EXTENDS Integers, Sequences, FiniteSets, SequencesExt

CONSTANTS
    Deposits,       \* transactions of others that pay the mint
    Paid,           \* what each pays: account, pool and value
    Sends,          \* transactions the mint may build
    Amounts,        \* values the mint may pay out
    MARGINAL_FEE,   \* a note worth this or less is dust
    MAX_CHECKPOINTS,
    Delta,          \* blocks until a mint transaction expires
    Owners,         \* lock owners
    Scopes          \* bounds: what the behaviours explored may contain

Accounts == {"treasury", "registry"}
Pools == {"sapling", "ironwood"}

ASSUME WalletAssumption ==
    /\ Paid \in [Deposits -> [account : Accounts, pool : Pools, value : Nat]]
    /\ Deposits \cap Sends = {}
    /\ Amounts \subseteq Nat \ {0}
    /\ {MAX_CHECKPOINTS, Delta} \subseteq Nat \ {0}
    /\ MARGINAL_FEE \in Nat
    /\ Scopes \subseteq [deposits : SUBSET Deposits,  \* payments received
                         sends : SUBSET Sends,        \* transactions built
                         owners : SUBSET Owners,      \* lock owners
                         height : Nat,                \* the longest chain
                         reorgs : Nat,                \* rewinds
                         restarts : Nat]              \* restarts

VARIABLES
    w,              \* the wallet
    mempool,        \* every transaction the mint ever sent
    scope,          \* the bounds of this behaviour
    reorgs,         \* rewinds so far
    restarts        \* restarts so far

vars == <<w, mempool, scope, reorgs, restarts>>

-----------------------------------------------------------------------------
(***************************************************************************)
(* The wallet is a record.  A note is named by its transaction and its     *)
(* account; status 0 is NotInMainChain, any other the height that mined    *)
(* it.  A checkpoint is the size of each tree at the end of its block.     *)
(***************************************************************************)

(* Wallet::new: the origin block is applied and checkpointed. *)
Born ==
    [blocks |-> << >>, zebra_tip |-> 0, raw |-> << >>, statuses |-> << >>,
     notes |-> << >>, note_spends |-> << >>, locks |-> << >>,
     tree |-> [p \in Pools |-> << >>],
     checkpoints |-> [h \in {0} |-> [p \in Pools |-> 0]]]

Tip(x) == Len(x.blocks)
Target(x) == Tip(x) + 1

IsMined(x, tx) == tx \in DOMAIN x.statuses /\ x.statuses[tx] > 0

-----------------------------------------------------------------------------
(***************************************************************************)
(* Which notes can be spent                                                *)
(***************************************************************************)

(* Fault: the last valid block of a spend is already too late for it. *)
BlocksToSoon(x, tx, target) ==
    tx \in DOMAIN x.raw => x.raw[tx].expiry > target

(* An unmined spend stands until the target is past its expiry.  Without *)
(* the raw transaction it stands for good.                               *)
UnminedSpendStillBlocks(x, tx, target) ==
    tx \in DOMAIN x.raw => x.raw[tx].expiry >= target

SpendConfirmsOrBlocks(x, tx, target) ==
    \/ tx \notin DOMAIN x.statuses
    \/ x.statuses[tx] > 0
    \/ UnminedSpendStillBlocks(x, tx, target)

NoteIsSpent(x, n, target) ==
    n \in DOMAIN x.note_spends /\ SpendConfirmsOrBlocks(x, x.note_spends[n], target)

(* lock_is_live; lock_admits under the default policy is its negation *)
LockIsLive(x, n, target) == n \in DOMAIN x.locks /\ x.locks[n].expiry >= target

(* One confirmation for every note *)
ConfirmationsSatisfied(x, n, target) ==
    LET tx == n[1] IN IsMined(x, tx) /\ target - 1 >= x.statuses[tx]

IsDust(value) == value <= MARGINAL_FEE

(* eligible_sapling, eligible_ironwood: oldest first *)
Eligible(x, account, pool, target) ==
    SetToSortSeq(
        {n \in DOMAIN x.notes :
            /\ n[2] = account
            /\ x.notes[n].pool = pool
            /\ ~NoteIsSpent(x, n, target)
            /\ ~LockIsLive(x, n, target)
            /\ ConfirmationsSatisfied(x, n, target)},
        LAMBDA m, n : x.notes[m].position < x.notes[n].position)

(* select_spendable_notes for at least this value, pools in the order of *)
(* sources                                                               *)
SelectSpendable(x, account, sources, value, target) ==
    LET all == FlattenSeq([i \in DOMAIN sources |->
                  Eligible(x, account, sources[i], target)])
        Take(acc, n) ==
            IF IsDust(x.notes[n].value) \/ acc.total >= value THEN acc
            ELSE [notes |-> acc.notes \cup {n}, total |-> acc.total + x.notes[n].value]
    IN  FoldLeft(Take, [notes |-> {}, total |-> 0], all).notes

(* unspent_ironwood_note_by_nullifier, for a Registry note *)
UnspentRegistryNote(x, n, target) ==
    /\ n \in DOMAIN x.notes
    /\ n[2] = "registry"
    /\ ~NoteIsSpent(x, n, target)
    /\ ~LockIsLive(x, n, target)

Worth(x, S) == FoldSet(LAMBDA n, acc : x.notes[n].value + acc, 0, S)

-----------------------------------------------------------------------------
(***************************************************************************)
(* What the summary says: add_note_to_balance of every note not spent at   *)
(* the height after the tip the wallet last heard of                       *)
(***************************************************************************)

(* Fault: the summary ignores what is recorded as sent. *)
BucketForgetsSent(x, n, target) ==
    IF IsDust(x.notes[n].value) THEN "uneconomic"
    ELSE IF ~ConfirmationsSatisfied(x, n, target) THEN "pending"
    ELSE IF LockIsLive(x, n, target) THEN "locked"
    ELSE "spendable"

Bucket(x, n, target) ==
    IF NoteIsSpent(x, n, target) THEN "spent"
    ELSE IF IsDust(x.notes[n].value) THEN "uneconomic"
    ELSE IF ~ConfirmationsSatisfied(x, n, target) THEN "pending"
    ELSE IF LockIsLive(x, n, target) THEN "locked"
    ELSE "spendable"

(* get_wallet_summary: the notes that make up an account's spendable value *)
SummarySpendable(x, account) ==
    {n \in DOMAIN x.notes :
        n[2] = account /\ Bucket(x, n, x.zebra_tip + 1) = "spendable"}

(* The nullifiers the scanner is given: notes with no confirmed spend *)
WatchList(x) ==
    {n \in DOMAIN x.notes :
        ~(n \in DOMAIN x.note_spends /\ IsMined(x, x.note_spends[n]))}

(* get_target_and_anchor_heights: the latest checkpoint at or below the tip *)
AnchorHeight(x) ==
    CHOOSE h \in DOMAIN x.checkpoints :
        /\ h <= Tip(x)
        /\ \A k \in DOMAIN x.checkpoints : k <= Tip(x) => k <= h

-----------------------------------------------------------------------------
(***************************************************************************)
(* A block                                                                 *)
(***************************************************************************)

(* What a transaction does: the notes it creates and the notes it spends *)
Inputs(pool, tx) == IF tx \in DOMAIN pool THEN pool[tx].inputs ELSE {}
Outputs(pool, tx) ==
    IF tx \in DOMAIN pool THEN pool[tx].outputs
    ELSE <<[account |-> Paid[tx].account, pool |-> Paid[tx].pool, value |-> Paid[tx].value]>>

(* Fault: the scanner's own marks are all there are; it cannot decrypt a *)
(* Name Note.                                                            *)
AppendUnmarked(x, tx, out) ==
    LET n == <<tx, out.account>>
        position == Len(x.tree[out.pool]) + 1
    IN  [x EXCEPT
          !.tree[out.pool] = Append(@, [note |-> n, marked |-> out.account = "treasury"]),
          !.notes = (n :> [pool |-> out.pool, value |-> out.value,
                           position |-> position]) @@ @]

(* append_block_commitments for one transaction: each output lands at the  *)
(* end of its pool's tree.  A leaf is marked if the scanner decrypted it   *)
(* or if it is an accepted Name Note.                                      *)
AppendOutput(x, tx, out) ==
    LET n == <<tx, out.account>>
        position == Len(x.tree[out.pool]) + 1
    IN  [x EXCEPT
          !.tree[out.pool] = Append(@, [note |-> n, marked |-> TRUE]),
          !.notes = (n :> [pool |-> out.pool, value |-> out.value,
                           position |-> position]) @@ @]

(* put_blocks_marked and store_name_note for one transaction.  watched is  *)
(* what the scanner matched spends against.                                *)
ApplyTx(x, pool, watched, h, tx) ==
    LET stored == FoldLeft(LAMBDA y, out : AppendOutput(y, tx, out),
                           [x EXCEPT !.statuses = (tx :> h) @@ @], Outputs(pool, tx))
        seen == Inputs(pool, tx) \cap watched
    IN  [stored EXCEPT !.note_spends = [n \in seen |-> tx] @@ @]

(* The store keeps the latest MAX_CHECKPOINTS checkpoints. *)
Retain(cps) ==
    Restrict(cps, {h \in DOMAIN cps :
        Cardinality({k \in DOMAIN cps : k > h}) < MAX_CHECKPOINTS})

(* ensure_block_checkpoint *)
Checkpoint(x, h) ==
    [x EXCEPT !.checkpoints = Retain((h :> [p \in Pools |-> Len(x.tree[p])]) @@ @)]

(* put_blocks_marked: commitments, notes, then spends, then the cursor *)
PutBlock(x, pool, block) ==
    LET h == Target(x)
        watched == WatchList(x)
        applied == FoldLeft(LAMBDA y, tx : ApplyTx(y, pool, watched, h, tx), x, block)
    IN  [Checkpoint(applied, h) EXCEPT !.blocks = Append(@, block), !.zebra_tip = h]

(* A boot scan of the same chain *)
Replay(pool, chain) == FoldLeft(LAMBDA x, block : PutBlock(x, pool, block), Born, chain)

-----------------------------------------------------------------------------
(***************************************************************************)
(* A reorg                                                                 *)
(***************************************************************************)
Orphaned(x, h) == {tx \in DOMAIN x.statuses : x.statuses[tx] > h}

(* Fault: a spend seen only in a dropped block stays recorded. *)
KeepScannedSpends(x, h) == {n \in DOMAIN x.note_spends : n[1] \notin Orphaned(x, h)}

(* The spends that outlive the cut: of notes that do, by transactions that *)
(* do or that the wallet built itself                                      *)
KeptSpends(x, h) ==
    {n \in DOMAIN x.note_spends :
        /\ n[1] \notin Orphaned(x, h)
        /\ x.note_spends[n] \in Orphaned(x, h) => x.note_spends[n] \in DOMAIN x.raw}

KeptLocks(x, h) == {n \in DOMAIN x.locks : n[1] \notin Orphaned(x, h)}

(* drop_applied_above *)
DropAppliedAbove(x, h) ==
    [x EXCEPT
        !.notes = Restrict(@, {n \in DOMAIN @ : n[1] \notin Orphaned(x, h)}),
        !.note_spends = Restrict(@, KeptSpends(x, h)),
        !.statuses = [tx \in DOMAIN @ |-> IF @[tx] > h THEN 0 ELSE @[tx]],
        !.locks = Restrict(@, KeptLocks(x, h)),
        !.blocks = SubSeq(@, 1, h)]

(* try_truncate_trees_to, of all the trees or of none *)
TruncateTrees(x, h) ==
    [x EXCEPT
        !.tree = [p \in Pools |-> SubSeq(@[p], 1, x.checkpoints[h][p])],
        !.checkpoints = Restrict(@, {k \in DOMAIN @ : k <= h})]

(* truncate_to_height and truncate_to_origin, at a retained checkpoint *)
TruncateToHeight(x, h) == DropAppliedAbove(TruncateTrees(x, h), h)

(* truncate_to_chain_state: the frontier the node gives for this height is *)
(* checkpointed again first, so the height need not be retained            *)
TruncateToChainState(x, h, sizes) ==
    LET lower == Restrict(x.checkpoints, {k \in DOMAIN x.checkpoints : k <= h})
        restored == [x EXCEPT !.checkpoints = Retain((h :> sizes) @@ lower)]
    IN  [TruncateToHeight(restored, h) EXCEPT !.zebra_tip = h]

(* rewind_to_chain_state: no deeper than the oldest retained checkpoint *)
RewindFloor(x, h) ==
    LET floor == CHOOSE k \in DOMAIN x.checkpoints : \A j \in DOMAIN x.checkpoints : k <= j
    IN  IF h > floor THEN h ELSE floor

-----------------------------------------------------------------------------
(***************************************************************************)
(* Actions                                                                 *)
(***************************************************************************)
OnChain(chain) == UNION {ToSet(chain[i]) : i \in DOMAIN chain}
SpentOn(chain) == UNION {Inputs(mempool, tx) : tx \in OnChain(chain)}

(* Consensus: the transactions the next block may hold.  The anchor root is *)
(* taken to be the chain it was read on: a block without Ironwood outputs   *)
(* leaves it as it was, and a transaction anchored there outlives the block. *)
Minable ==
    {tx \in scope.deposits : tx \notin OnChain(w.blocks)} \cup
    {tx \in DOMAIN mempool :
        /\ tx \notin OnChain(w.blocks)
        /\ mempool[tx].expiry >= Target(w)
        /\ IsPrefix(mempool[tx].root, w.blocks)
        /\ mempool[tx].inputs \cap SpentOn(w.blocks) = {}}

ApplyBlock(txs) ==
    /\ Tip(w) < scope.height
    /\ txs \subseteq Minable
    /\ \A s, t \in txs : Inputs(mempool, s) \cap Inputs(mempool, t) # {} => s = t
    /\ w' = PutBlock(w, mempool, SetToSeq(txs))
    /\ UNCHANGED <<mempool, scope, reorgs, restarts>>

(* store_transactions_to_be_sent *)
RecordSpends(x, tx, sent) ==
    [x EXCEPT
        !.raw = (tx :> [inputs |-> sent.inputs, expiry |-> sent.expiry]) @@ @,
        !.statuses = @ @@ (tx :> 0),
        !.note_spends = [n \in sent.inputs |-> tx] @@ @,
        !.locks = Restrict(@, DOMAIN @ \ sent.inputs)]

(* record_sent: what is paid for from the Treasury, and for a Name Note    *)
(* the Registry note it succeeds.  The rest comes back as change.          *)
RecordSent(tx, auth, amount) ==
    LET fees == SelectSpendable(w, "treasury", <<"sapling", "ironwood">>, amount, Target(w))
        sent == [inputs |-> fees \cup auth, expiry |-> Target(w) + Delta, root |-> w.blocks,
                 outputs |->
                    <<[account |-> "treasury", pool |-> "ironwood",
                       value |-> Worth(w, fees) - amount]>> \o
                    (IF auth = {} THEN << >>
                     ELSE <<[account |-> "registry", pool |-> "ironwood", value |-> 0]>>)]
    IN  /\ tx \notin DOMAIN mempool
        /\ Worth(w, fees) >= amount
        /\ \A n \in auth : UnspentRegistryNote(w, n, Target(w))
        /\ w' = RecordSpends(w, tx, sent)
        /\ mempool' = (tx :> sent) @@ mempool
        /\ UNCHANGED <<scope, reorgs, restarts>>

IsForeignLockActive(x, n, owner) ==
    /\ n \in DOMAIN x.locks
    /\ x.locks[n].owner # owner
    /\ x.locks[n].expiry > Tip(x)

(* lock_outputs: all of them or none *)
LockOutputs(outputs, owner, expiry) ==
    /\ outputs # {}
    /\ \A n \in outputs : n \in DOMAIN w.notes /\ ~IsForeignLockActive(w, n, owner)
    /\ w' = [w EXCEPT !.locks =
                [n \in outputs |-> [owner |-> owner, expiry |-> expiry]] @@ @]
    /\ UNCHANGED <<mempool, scope, reorgs, restarts>>

UnlockOutput(n) ==
    /\ n \in DOMAIN w.locks
    /\ w' = [w EXCEPT !.locks = Restrict(@, DOMAIN @ \ {n})]
    /\ UNCHANGED <<mempool, scope, reorgs, restarts>>

ClearLockedOutputs(account) ==
    /\ \E n \in DOMAIN w.locks : n[2] = account
    /\ w' = [w EXCEPT !.locks = Restrict(@, {n \in DOMAIN @ : n[2] # account})]
    /\ UNCHANGED <<mempool, scope, reorgs, restarts>>

Truncate(h) ==
    /\ reorgs < scope.reorgs
    /\ h < Tip(w)
    /\ h \in DOMAIN w.checkpoints
    /\ w' = TruncateToHeight(w, h)
    /\ reorgs' = reorgs + 1
    /\ UNCHANGED <<mempool, scope, restarts>>

TruncateState(h) ==
    /\ reorgs < scope.reorgs
    /\ h < Tip(w)
    /\ w' = TruncateToChainState(w, h, [p \in Pools |->
                Len(Replay(mempool, SubSeq(w.blocks, 1, h)).tree[p])])
    /\ reorgs' = reorgs + 1
    /\ UNCHANGED <<mempool, scope, restarts>>

RewindState(h) ==
    /\ reorgs < scope.reorgs
    /\ h < Tip(w)
    /\ RewindFloor(w, h) \in DOMAIN w.checkpoints
    /\ w' = TruncateToHeight(w, RewindFloor(w, h))
    /\ reorgs' = reorgs + 1
    /\ UNCHANGED <<mempool, scope, restarts>>

(* The process starts over, on a chain that may have been rewound past    *)
(* every checkpoint: the scan replays it, and what was sent is forgotten. *)
Restart(h) ==
    /\ restarts < scope.restarts
    /\ w' = Replay(mempool, SubSeq(w.blocks, 1, h))
    /\ restarts' = restarts + 1
    /\ UNCHANGED <<mempool, scope, reorgs>>

Init ==
    /\ w = Born
    /\ mempool = << >>
    /\ scope \in Scopes
    /\ reorgs = 0
    /\ restarts = 0

Next ==
    \/ \E txs \in SUBSET Minable : ApplyBlock(txs)
    \/ \E tx \in scope.sends, amount \in Amounts :
         \E auth \in {{}} \cup {{n} : n \in DOMAIN w.notes} : RecordSent(tx, auth, amount)
    \/ \E outputs \in SUBSET DOMAIN w.notes, owner \in scope.owners :
         \E expiry \in Tip(w) .. Tip(w) + 1 : LockOutputs(outputs, owner, expiry)
    \/ \E n \in DOMAIN w.locks : UnlockOutput(n)
    \/ \E account \in Accounts : ClearLockedOutputs(account)
    \/ \E h \in 0 .. Tip(w) : Truncate(h) \/ TruncateState(h) \/ RewindState(h) \/ Restart(h)

Spec == Init /\ [][Next]_vars

-----------------------------------------------------------------------------
(***************************************************************************)
(* Properties                                                              *)
(***************************************************************************)

(* Every table names notes and transactions the wallet knows, no lock or    *)
(* spend outlives its note, and at most MAX_CHECKPOINTS checkpoints are     *)
(* kept, none above the tip (Wallet).                                       *)
WalletTypeOK ==
    /\ DOMAIN w.raw \subseteq Sends
    /\ DOMAIN w.statuses \subseteq Deposits \cup Sends
    /\ \A tx \in DOMAIN w.statuses : w.statuses[tx] \in 0 .. Tip(w)
    /\ DOMAIN w.notes \subseteq (Deposits \cup Sends) \X Accounts
    /\ DOMAIN w.note_spends \subseteq DOMAIN w.notes
    /\ DOMAIN w.locks \subseteq DOMAIN w.notes
    /\ DOMAIN w.checkpoints \subseteq 0 .. Tip(w)
    /\ Cardinality(DOMAIN w.checkpoints) <= MAX_CHECKPOINTS
    /\ DOMAIN mempool \subseteq Sends

(* What the chain alone determines: what is left of a wallet when what it   *)
(* sent itself is set aside *)
ChainView(x) ==
    [notes |-> x.notes, tree |-> x.tree, watched |-> WatchList(x),
     mined |-> {<<tx, x.statuses[tx]>> : tx \in {t \in DOMAIN x.statuses : x.statuses[t] > 0}},
     spends |-> {<<n, x.note_spends[n]>> :
                   n \in {m \in DOMAIN x.note_spends :
                           IsMined(x, x.note_spends[m]) \/ x.note_spends[m] \notin DOMAIN x.raw}}]

(* Whatever was sent, locked, mined and rewound, the wallet holds the       *)
(* notes, confirmed spends, tree and watch list that a boot scan of its     *)
(* chain would find, and no spend but its own that is not confirmed: such   *)
(* a spend would block its note for good (put_blocks_marked,                *)
(* drop_applied_above).                                                     *)
ReplayAgrees == WalletTypeOK /\ ChainView(w) = ChainView(Replay(mempool, w.blocks))

(* Every note the wallet may spend has a marked leaf at its own position,   *)
(* inside the tree that the tip's checkpoint anchors, so it can be          *)
(* witnessed (store_name_note, append_block_commitments).                   *)
CanWitness ==
    /\ Tip(w) > 0 => AnchorHeight(w) = Tip(w)
    /\ \A n \in DOMAIN w.notes :
         LET note == w.notes[n] IN
         /\ note.position <= w.checkpoints[Tip(w)][note.pool]
         /\ w.tree[note.pool][note.position] = [note |-> n, marked |-> TRUE]

Selectable(n) == ~NoteIsSpent(w, n, Target(w)) /\ ~LockIsLive(w, n, Target(w))

(* Until a reorg, a transaction this process sent reserves its inputs until *)
(* it is mined or can no longer be mined (record_sent: the same notes       *)
(* cannot be selected again until the transaction either mines or expires). *)
ReservedUntilExpiry ==
    reorgs = 0 => \A tx \in DOMAIN w.raw : tx \in Minable =>
        \A n \in w.raw[tx].inputs \cap DOMAIN w.notes : ~Selectable(n)

Spendable(account) ==
    {n \in UNION {ToSet(Eligible(w, account, p, Target(w))) : p \in Pools} :
        ~IsDust(w.notes[n].value)}

(* A selection covers what was asked for whenever the account can, without  *)
(* dust, and leaves out any note it could do without at the end             *)
(* (select_spendable_notes).                                                *)
SelectionCovers ==
    \A amount \in Amounts :
        LET all == Spendable("treasury")
            taken == SelectSpendable(w, "treasury", <<"sapling", "ironwood">>, amount, Target(w))
        IN  /\ \A n \in taken : ~IsDust(w.notes[n].value)
            /\ Worth(w, taken) >= amount <=> Worth(w, all) >= amount
            /\ taken # {} => \E n \in taken : Worth(w, taken \ {n}) < amount

(* Until a reorg, the summary and the selection agree on what can be spent  *)
(* (add_note_to_balance: they can never disagree), and a selection covers   *)
(* what was asked for whenever that is enough.                              *)
BalanceAgrees ==
    /\ reorgs = 0 => \A account \in Accounts :
         SummarySpendable(w, account) = Spendable(account)
    /\ SelectionCovers

=============================================================================
