# The ZNS mint in TLA+

The mint sells names on Zcash. It follows a Zebra node block by block, reads
payments whose memos are instructions, and writes each name's state into a
shielded Name Note of its Registry account. The note is the authority: an
update, release or sale spends the name's current note and creates the next
one, and a claim spends one of a fixed pool of claim anchors. Everything the
mint knows is rebuilt from the chain; its queues are memory.

Paths below are relative to the repository's `src/` directory.

## Inventory

| Part | State | Operations | Interacts with |
| --- | --- | --- | --- |
| Registry (`mint/registry.rs`) | `records`, `history`, listings | `accept_claim/update/release/sale`, `follow_spends`, `truncate_to_height`, the `authorize_*` laws | called by `apply_block` per transaction, by the run loop per decision and on a reorg |
| Anchor pool (`mint/registry/anchor_pool.rs`) | live set, height checkpoints, `established` | `adopt`, `retire_spent`, `truncate_to` | inside the Registry |
| Name Note queue (`mint/note.rs`) | `orders`: note, origin height, Authorized / Sent / Seen | `admit`, `reconcile_seen`, `rewind_to`, `mark_sent`, `expire_sent`, `drop_note` | run loop, Registry histories |
| OTP queue (`mint/treasury/otp.rs`) | challenges, Requested / Relayed, attempts, window | `admit`, `challenge_issued`, `expire`, `drop_challenges`, `complete` | run loop |
| Requests, refunds, sweep (`mint/treasury.rs`, `mint/treasury/refund.rs`) | pending requests, owed refunds | `record`, `resolved`, `admit`, `due`, `paid`, `truncate_to`, `sweep_to_vault` | run loop, wallet |
| Market (`mint/sale.rs`) | listings, challenges, sales, an event log | `admit`, `answer`, `observe`, `expire`, `reconcile`, `poll`, `truncate_to` | Registry, queue, refunds |
| Wallet (`wallet/*.rs`) | notes, nullifiers, spends, statuses, trees, locks | `put_blocks_marked`, `truncate_to_*`, `record_sent`, selection, balance | everything that signs |
| Clock and price (`mint/mtp.rs`, `mint/pricing.rs`) | eleven header times; the day's weighted price | `update`, `header_time_ok`; `accumulate`, `quote` | every deadline and every quote |
| Protected names (`mint/presale.rs`) | table of protected names | `from_rows`, `complete`, `install`, `is_protected` | claim decisions |
| Boot (`boot.rs`) | two published documents | key files, attestation, rescan from a checkpoint | builds all of the above |
| Transport (`zcash/*.rs`) | the tip stream | `next_tip`, `repair`, `block_and_hash`, `submit` | run loop |

The run loop is one task, so nothing in the process interleaves. What
interleaves is the process and the world: the node's chain moves between two
answers; transactions already broadcast are mined late, never, or again after a
reorg; an answer is lost and the call retried; a pass is skipped when the tip
moves while prices are fetched; a restart forgets the queues and not the
mempool; files are replaced while a boot reads them. `PROJECT.json` lists each
hazard at its line, with the properties that cover it.

## Modules

| Module | What it models |
| --- | --- |
| `Registry` | the Registry and its anchor pool under any transaction consensus admits |
| `NameLedger`, `RegistryLedger` | the abstract ledger of names, and the Registry as its implementation |
| `MintOrders` | extends `Registry` with the Name Note queue, the decisions and the signing loop |
| `ReleaseCycle` | the same loop for one name, without heights, so that liveness can be asked |
| `Market` | `sale.rs` and the parts of the loop and of the boot scan that drive it |
| `Queues`, `OtpQueue`, `Treasury` | `Vec::retain`; challenges as operators; requests, refunds, submission and the sweep |
| `Wallet` | notes, spends, locks, trees and their truncation |
| `ChainFollow` | walk back, rewind, clock read, catch-up, tip check and the tip stream against a moving node |
| `Pricing`, `Presale` | the daily price and the protected names, with the passes that read them |
| `Boot` | the steps of `Boot::start`, its files and its documents |
| `Clock`, `Memos` | pure parts: median, terms, falling price; memo grammars and the amount codec |
| `RegistryProofs` | theorems about `Registry`, its refinement of `NameLedger`, and `MintOrders` |
| `PricingProofs` | theorems about `Pricing` and `Clock` |
| `MarketProofs`, `TreasuryProofs`, `BootProofs`, `PresaleProofs`, `FollowProofs` | theorems about the module each is named after |
| `OrderLemmas` | facts of order, induction, sequences and queues that the proofs share |

`MC*.tla` and the `.cfg` files are the model-checking instances. Definitions
introduced by "Fault:" are deliberate mistakes, used to confirm that the
properties notice them; no specification uses them.

**Registry.** A block is opened (`NewBlock`) and receives transactions one at a
time: `CeremonyTx`, `ClaimTx`, `SuccessorTx` (update, release or sale) and
`OtherSpendTx` are the branches of `apply_block`; each offers the transaction
whole, with what it spends, what it creates and the height it was built for.
`Truncate` is `truncate_to_height` together with the chain's own return to that
height. The transactions are not restricted to those the mint would build. The
map from state to code is one to one (`records`, `history`, `live`,
`checkpoints`, `established`); `born` and `spentAt` are the chain, `targets` and
`snap` are auxiliary. A note's commitment hashes its verb, name, address, expiry
and the previous commitment, so it is modelled as the list of those fields since
the claim: after a release, an identical claim has an identical commitment.

**NameLedger.** What the Registry promises a reader: a stack of ledgers, one per
block, of which only the top changes, by one transfer at a time: authorities are
established once, a free name is taken by turning one authority into another, a
held name passes to its next holder, names and authorities lapse. A reorg
uncovers an older ledger as it was left. `RegistryLedger` maps each block to
what the Registry held when it was the tip.

**MintOrders.** `phase` says where the loop is. `OpenBlock`, `MineTx` and
`SealBlock` apply a block whose Registry transactions are ones the mint
broadcast earlier; `Respond` is a right OTP code in that block; `StartRules`
begins the pass at the tip, and a block that opens instead is the skipped pass.
`DecideClaim`, `RelayChallenge` and `EndRules` are the pass up to the signing
loop, which is `SignDrop`, `SignSkip` and `SignSend`. `Rewind` and `Restart` are
the reorg and the reboot. `txs` holds every broadcast; `rooted` is false once
the tree root a transaction proves against has been reorged away, `known` once
the process that sent it is gone. Every block is taken to move that root. A block
without Ironwood outputs does not (`mint/note/assemble.rs:110` anchors at the root), so a
transaction signed on one may really outlive it. `SeenConfirmed` and `OwnTxLawful`
do not depend on it: a note mined late is confirmed by the chain like any other, and it
still spends the note its name stood on, or consensus refuses it. `Wallet` takes
the root to be the chain in the same way; the properties a surviving transaction
could touch are about chains that only grew. No name is listed here, so the market holds
nothing. `ReleaseCycle` keeps an expiry as the blocks left until it, so the
chain may grow for ever; buys that hold the name are part of it.

**Market.** The book (`listings`, `sales`, `challenges`, `events`) is one
record, and each operation of the market is an operator from book to book that
also appends its events. A block is `ApplyBlock` (its notes, then expiry and
reconciliation), its memos one by one (`ArriveList`, `ArriveDelist`,
`ArriveBuy`, `ArriveAnswer`, `ArriveTransition`) and its payments (`EndBlock`).
`Pass` is the pass at the tip: the relays that succeed, the poll of paid sales,
the lifecycle releases and the orders signed. `Rewind` replays the log;
`Restart` replaces the book by `boot`, which applies the same operators to the
same chain as the boot scan does: with no pending notes and without polling.
`txs` holds the notes broadcast and not mined. A reorg drops none of them and returns
those the orphaned blocks had mined: a transaction dies only with its anchor root, and
the blocks that follow may bring back any root that was lost.
Transactions here do not expire within the bound; terms, fees and memo text are
left out, and so are refunds, which are in `Treasury`.

**Treasury.** The node has a `chain` of its own, which grows and reorganizes
while the mint waits; the mint has `applied` and follows (`Follow`,
`ApplyBlock`). In a block, memos become requests, refunds or responses
(`Arrivals`); the pass decides claims and challenges one at a time, relays them,
pays refunds that are due and sweeps. A submission is `RefundAccepted` or
`RefundAnswerLost`, after which `submit` asks again. What the Registry, the
market and the oracle answer is a free choice.

**Wallet.** `w` is the struct, one field per table, and `PutBlock`,
`TruncateToHeight`, `TruncateToChainState`, `RewindState`, `RecordSent` and the
lock calls are operators on it. A tree is the sequence of its leaves with their
marks; a checkpoint is a length. `Replay` is what a boot scan of a chain builds.

**ChainFollow.** Every answer of the node is read in the state the node is in at
that moment, so it may move between any two of them. A block is a mark; two
chains with different marks at a height are different blocks. `missed` is true
when the tip moved while nobody was subscribed.

**Pricing, Presale.** One venue may answer anything; each may fail. A price is a
number of units, of which `ONE` make a dollar. The rate is computed as `accumulate` and
`zats_per_usd` do: the sum over the seconds is divided and rounded (`Average`), COIN is divided
by that and rounded again (`Nearest`, ties to even), and the second quotient is rounded up.
Either rounding may carry the quotient over a whole number, and the ceiling then
adds a zatoshi: an average of 64/3 dollars publishes 4687501, not 4687500. `Decimal`
keeps 28 digits or more of a quotient; the model rounds to `SCALE` parts, and
`DecimalAssumption` says that those are fine enough. They are in the code: with
prices in cents below 10^6 dollars and times of 32 bits it asks for
(10^8 + 10^10 + 1) * 2^32, about 4.4 * 10^19, and an average below 10^6 dollars keeps 22
decimals, which are 10^20 parts of a cent. That is enough for the proof, not the least
that would do. A pre-sale reply may be short, without its
count, undecodable or late. A name stands for its normal form: the normalisation of
a row is not modelled.

**Boot.** Each step reads its file at its own moment and may refuse; a write may
be cut off. The genesis record is written before the later checks, so while no
mint serves, the record of a boot that failed may stand beside an older
identity: `DocumentsAgree` is about a mint that serves.

**Clock, Memos.** A memo is a sequence of fields of a known kind, never of
characters; decimal numbers are sequences of digits, since their trimming and
padding is what `encode_zec` and `decode_zec` must undo.

### Scopes

`Market`, `Treasury` and `Wallet` would be too large if every bound were raised
at once. Each has a constant `Scopes`, a set of records of bounds (which names,
payments or owners appear, how many blocks, reorgs and restarts), and a variable
`scope` that `Init` picks from it and nothing changes. A run explores the union:
each scope is deep in one direction, and every property is checked in all.

## Runs

| Run | Instance | States |
| --- | --- | --- |
| `registry` | 2 names, 6 nullifiers, a pool of 2, heights to 4, expiry delta 2, then 3 from height 3, any reorg | 383,789 |
| `mint_orders` | 1 name, heights to 5, one reorg and one restart | 4,102,344 |
| `market` | three scopes: one name deep with a reorg; a falling clock with a reorg and a restart; two names bought together with colliding codes | 984,016 |
| `wallet` | three scopes: a reorg and a restart; dust and locks; two owners of locks and a reorg | 1,298,077 |
| `treasury` | four scopes: refunds with a restart; a reorg with lost answers; challenges; days and sweeps | 144,001 |
| `follow` | heights to 4, three moves of the node, one failure of the stream | 210,962 |
| `pricing` | four venues, one of them wrong, a day of 3, three rounds | 947,742 |
| `presale` | two names, two rows, one change of the table | 981,920 |
| `boot` | three seeds, two changes of the files, two faults | 496,526 |
| `algorithms` | a window of 3, heights to 6; all memos with at most one edited field | 1,630,950 |
| `release_cycle` | one name, delta 2, two faults, an unbounded chain | 16,931 |
| `signed_again` | heights to 4, no reorg, no restart | `NotSignedAgain` violated |

What they check. Each module's type invariant is a conjunct of the first
property named for it, `TypeOK` for `Registry`.

*Registry*
* `RewindExact`: truncating to any height gives the Registry that stood there.
* `AuthorityUnspent`: live names and standing anchors are unspent and disjoint,
  whatever verdict each transaction got; the pool never outgrows its size and is
  empty until it is established.
* `OwnershipChain`: every entry of a history spends the note before it.
* `NoStaleClaim`: across the change of delta, no claim built before a release
  registers after it.
* `ImplementsLedger`: the Registry implements `NameLedger` (below).

*MintOrders*
* `SeenConfirmed`: through a reorg and a restart, an order is Seen exactly when
  the chain confirms it.
* `OneUnresolved`, `OrderKept`: while the chain only grows a name has one
  unresolved order, which leaves only when its name moved on or lapsed.
* `ChallengesCurrent`: every relayed challenge went to the controller of the
  record it would move, while no reorg or restart intervened.
* `OwnTxLawful`: the mint never burns a name with its own transaction, and one
  process never has two spends of one note in flight.

*Market*
* `LogRebuildsBook`: the log replayed to any height gives the listings, buys and
  challenges that stood there, a restart included, and the expiry after a rewind
  finds nothing to drop.
* `BookCurrent`: nothing on the book outlives the holder or note it was opened
  against; while a buy is open no challenge can touch the listing and only its
  own sale is pending.
* `OnlySaleMoves`: while a buy is open, the name goes to its buyer or stays, under
  one process on a chain that only grows.
* `QuoteHonoured`: a quote sent or paid keeps buyer, code and price, and stays
  paid, until it lapses unpaid, its note moves, or the poll finds that the buyer is
  the seller.
* `OnePaymentOneBuy`: two open bills never coincide, nor two open codes.

*Wallet*
* `ReplayAgrees`: after any blocks, sends, locks and reorgs the scanned part of
  the wallet is the one a boot scan of the same chain builds.
* `CanWitness`: every note has its marked leaf under the tip's checkpoint.
* `ReservedUntilExpiry`: until a reorg, inputs of a transaction that can still
  be mined are not selectable.
* `BalanceAgrees`: until a reorg, what the summary calls spendable is what a
  selection may take; a selection covers a request whenever the account can.

*Treasury and OtpQueue*
* `QueuesBacked`: what waits stands on a memo of the applied chain, waits once
  and in one queue; a relayed challenge can be answered by its own code alone.
* `RefundedOnce`, `RefundKept`: no payment is refunded twice, and a refund is
  forgotten only when paid or when the block of its own payment was orphaned (a
  restart aside).
* `SweptOnce`: no day is swept twice.
* `PaymentsSettled`: every request is decided and every refund paid in the end.

*ChainFollow*
* `ClockOfChain`: the rules run on the clock of the chain that was applied.
* `ReachesTip`: the mint comes to the node's tip again and again, unless the tip
  moved while a boot or a repair left nobody listening.

*Pricing and Presale*
* `RateInHonestBand`: one wrong venue cannot take the rate outside the honest
  prices, and the zatoshis quoted cover the tariff and exceed it by a zatoshi per
  dollar at most.
* `SecondsBilledOnce`: each second between the first and last round weighs once.
* `PricedAtFirstSight`: the pass that saw a payment decides it at the rate it saw.
* `ProtectionHonoured`: a name the last complete reply protects stays protected
  until its deadline.

*Boot*
* `KeysNamed`: the keys in memory are those the manifest and the capsule name.
* `DocumentsAgree`: only attested seeds are published, over an anchor that is
  mined, and a serving mint's two documents agree.
* `BootServes`: with sound files the mint comes to serve, whatever an earlier
  boot left.

*Clock and Memos*
* `MedianAdvances`: the median never falls and moves on within half a window.
* `UpdateKeepsTerm`: an update that buys no term keeps the term.
* `PriceFollowsLine`: the falling price starts and ends as asked, never rises
  and never undercuts the line.
* `OneReading`: no memo is an instruction of two kinds.
* `ReadsBack`: what is written is read back, amounts and notes included.

*ReleaseCycle*
* `DueReleased`: a due name is released or renewed in the end.

### Bounds, and why they suffice

Two names and a pool of two are the smallest Registry in which a transaction
can spend the wrong name, two names, or two anchors. Six nullifiers allow the
ceremony and two claims, or a claim and two transitions; four heights allow
claim, release and re-claim across the delta change. `NullifiersInOrder` keeps
only runs that use the interchangeable nullifiers in order: any other run is a
renaming of one of these, so names stay interchangeable too and the symmetry
over them is sound.

The Name Note queue needs heights, not names: five blocks hold a claim, a
challenge, an update, its expiry, a lapse and a release, and a reorg in between.
Time has two values, since a record is due or it is not. The ceremony is already
in the first block, and rewinds stop there, as the loop's do at the boot origin.

In `Market`, the times 0 and 1 with a challenge life of 1 separate a quote that
stands from one that lapsed, `Liveness` 1 lets the name fall due under a buy,
and two attempts separate a counted guess from the last one. Five heights hold a
listing, its answer, a buy, its payment and the sale's confirmation; with a reorg there
are four, and the blocks below the ancestor are read again after it. One code
for two names forces the equal totals and equal codes that the guards refuse;
the clock begins, falls and ends within the run. Addresses are interchangeable,
each with its own receiver, so the symmetry over them is sound.

In `Wallet`, two checkpoints are retained and the heights reach four, so a reorg
lands on a retained and on a dropped checkpoint; delta 1 lets a send expire.
Three deposits are two payments and one dust output. `Treasury` needs a block
for a payment, one for the tip a refund is built on and one that mines it; a day
of 1 makes each time a day. In `ChainFollow` the window is two headers, shorter
than the chain, and three moves allow an orphan during the walk back and another
during catch-up. In `Pricing` the day is three seconds and time reaches seven,
so a round may skip a whole day. A dollar is two units and a quotient has a thousand
parts: an average of honest prices may be a third of a unit, which is rounded, and
COIN over it then lies just above the whole number it should be, so that the quote
exceeds the tariff by the whole zatoshi per dollar the property allows. Word and money limits are scaled with the
prices, so that a short name for ever costs more than the largest amount; a
median that moves back would make the elapsed seconds wrap. In `Boot` two faults
are a failed boot followed by one that fails later. In `algorithms` the window
of three keeps the median strictly inside it, and the first heights have fewer
headers than that; the listings span one block and two, over which a fall of three is
exact and is rounded.

Deadlock is checked where the system always has a next step. It is off where
the bound on heights or faults ends the behaviour (`wallet`, `follow`, `boot`,
`algorithms`).

### Fairness

* `Treasury`: the node keeps finding blocks while the bound allows (`WF` of
  `Grow`) and the loop keeps running (`WF` of `Loop`): it is one task that
  never waits on itself. `Loop` includes the skipped pass, so that alone would
  allow skipping for ever; the tip moves about every 75 seconds and a pass takes
  less, so a pass at an unmoved tip happens again and again (`SF` of `Catchup`
  and `StartRules`). A submission offered again and again is admitted in the
  end (`SF` of `RefundAccepted`): the wallet is funded and refusals are of one
  transaction, not of all.
* `ChainFollow`: `WF` of the mint's own steps. Nothing is assumed of the node.
* `Boot`: `WF` of the steps of a boot, a new start included: the supervisor
  starts the process again. Faults and file changes are bounded.
* `ReleaseCycle`: `WF` of blocks and of the end of a buy, which is paid or
  lapses; `SF` of a pass that is not skipped, of a signature that succeeds and of
  a block that takes a pending transaction.

### Refinement

`RegistryLedger` maps each block of the Registry's chain to a ledger of
`NameLedger`: who holds each name, by which authority, and which authorities are
free. `ImplementsLedger` says every step of `Registry` is then a step of
`NameLedger` or a stutter: a transaction of any shape moves one name by the
authority that was standing, makes no authority out of nothing, touches nothing
below the tip, and a truncation uncovers what stood there.

## Disagreements with the code's own words

`signed_again` has a run. `expire_sent` (`mint/note.rs`) treats block `expiry` as
too late, while consensus admits the transaction in it and the wallet still
reserves its inputs. A claim is signed again with a second anchor one block
early; if both are mined, the second burns its anchor and the pool shrinks.

The other disagreements are the conditions in the properties. Dropping the
condition named makes TLC show the case, in the run's own instance or in the one
the brackets name.

| Property, without | What happens | The words |
| --- | --- | --- |
| `OneUnresolved`, `reorgs = 0` | A release is mined at h+1; a claim paid at h, whose pass was skipped, is admitted after it. A rewind to h reauthorizes the release beside the claim, and `drop_note` then removes the wrong one. | `note.changelog.md:67` "`admit` guarantees at most one unresolved order per name" |
| `ChallengesCurrent`, `restarts = 0` | A transaction the new process does not know confirms under a challenge issued meanwhile. | `otp.changelog.md:47` "no challenge outlives the record it was issued against" |
| `OnlySaleMoves`, `reorgs = 0` | A release is signed on a tip that is orphaned; `rewind_to` drops its order, authorized above the ancestor, while the transaction stays in the mempool. A buy opens on the name nobody knows to be pending, and the release is mined under it. | `sale.rs:742` "A buy holds the name" |
| `OnlySaleMoves`, `restarts = 0` (a restart in `SaleScope`) | An update broadcast before a restart is not pending after it; a buy opens, and the forgotten note takes the name. | `sale.rs:742` "A buy holds the name" |
| `QuoteHonoured`, `restarts' = 0` (a restart in `SaleScope`) | A paid buy by the controller is closed by the poll, which the boot scan never runs: after a restart it is open, and the buy quoted after it is missing. | `sale.rs:248` "Rebuilt from the chain on startup" |
| `ReservedUntilExpiry`, `reorgs = 0` | A deposit is spent by a sent transaction, orphaned and mined again: the note returns without its spend and can be selected. | `wallet.rs:259` "cannot be selected again until the transaction either mines or expires" |
| `BalanceAgrees`, `reorgs = 0` | `truncate_to_height` leaves the recorded tip at the abandoned height, from which the summary takes its target. | `wallet/read.rs:200` "can never disagree" |
| `RefundedOnce`, `~scope.lost` | The node admits a refund, the answer is lost, a block mines it, the retry is refused, and the refund is sent again. | `zcash/submit.rs:32` "retrying transport uncertainty until the node decides" |
| `RefundedOnce`, `reorgs = 0` (`ReorgScope` with `lost` false) | A payment is refunded, orphaned, mined again and refunded again while the first refund can be mined. | `main.rs:487` "Each request is decided once" |
| `SweptOnce`, `reorgs = 0` (a reorg in `SweepScope`) | A reorg takes the tip back across midnight, and a later catch-up crosses it again. | `main.rs:845` "A new MTP day sweeps the Treasury to the vault once" |
| `ClockOfChain`, `Returns = FALSE` | The node changes branch while the window is read by height and changes back: a header of the other branch stays in the window. | `main.rs:163` "would mix histories after a deep reorg" |
| `UpdateKeepsTerm`, `Median = peak` | After a reorg that lowers the median, an update of a longest term that buys none is refused as beyond the horizon. | `mint/note.rs:222` "`None` leaves the period unchanged" |

Four more are not stated as properties. When the pass that crossed midnight is
skipped, no pass of that day sweeps (`main.rs:845` names one exception, a queued
refund). An announcement still queued from before a catch-up names a lower
height, and blocks on which node and wallet agree are rewound (`main.rs:102`).
A pass that publishes a day and is then skipped leaves its payments to be decided
at the new rate (`main.rs:426`); `PricedAtFirstSight` is about the pass that
decides. After an outage, seconds of earlier days weigh in the next day's average
(`mint/pricing.rs:285` calls it an average of that day's rounds).

## Proofs

Every theorem is about the specification the runs check and holds for every
value of the constants that satisfies the module's named assumptions; TLC
evaluates those on each run. The inductive invariants were first checked by TLC on
the runs' instances.

| Theorem | States | Inductive invariant |
| --- | --- | --- |
| `RegistryProofs!TypeCorrect` | `Spec => []TypeOK` | `Inv` |
| `RegistryProofs!RewindIsExact` | `Spec => []RewindExact` | `Inv` |
| `RegistryProofs!AuthorityIsUnspent` | `Spec => []AuthorityUnspent` | `AuthInv` |
| `RegistryProofs!OwnershipIsChained` | `Spec => []OwnershipChain` | `AuthInv` |
| `RegistryProofs!StaleClaimsNeverLand` | `Spec => []NoStaleClaim` | `AuthInv` |
| `RegistryProofs!RegistryImplementsLedger` | `Spec => ImplementsLedger` | `AuthInv` |
| `RegistryProofs!OwnTransactionsAreLawful` | `MintSpec => []OwnTxLawful` | `BaseInv /\ TxInv` |
| `RegistryProofs!OrdersSeenAreConfirmed` | `MintSpec => []SeenConfirmed` | with `SeenInv` |
| `RegistryProofs!UnresolvedOrdersAreUnique` | `MintSpec => []OneUnresolved` | `BaseInv /\ SingleInv` |
| `RegistryProofs!DecisionsAreKept` | `MintSpec => OrderKept` | `BaseInv /\ SingleInv` |
| `RegistryProofs!ChallengesStayCurrent` | `MintSpec => []ChallengesCurrent` | all of these with `OwnedInv`, `AnsweredInv` |
| `TreasuryProofs!QueuesStayBacked` | `Spec => []QueuesBacked` | `BooksInv` |
| `TreasuryProofs!RefundsAreKept` | `Spec => RefundKept` | `BooksInv` |
| `TreasuryProofs!RefundsPaidOnce` | `Spec => []RefundedOnce` | `BooksInv`, `PrefixInv`, `PaidInv` |
| `TreasuryProofs!DaysSweptOnce` | `Spec => []SweptOnce` | `BooksInv`, `PrefixInv`, `SweepInv` |
| `MarketProofs!LogIsTheMarket` | `Spec => []LogRebuildsBook` | `MarketInv` |
| `MarketProofs!BookStaysCurrent` | `Spec => []BookCurrent` | `MarketInv` |
| `MarketProofs!PaymentsNameOneBuy` | `Spec => []OnePaymentOneBuy` | `MarketInv` |
| `MarketProofs!QuotesAreHonoured` | `Spec => QuoteHonoured` | `MarketInv` |
| `MarketProofs!BuysHoldTheName` | `Spec => OnlySaleMoves` | `MarketInv`, `SentInv` |
| `BootProofs!KeysAreNamed` | `Spec => []KeysNamed` | `BootInv` |
| `BootProofs!DocumentsAreBelievable` | `Spec => []DocumentsAgree` | `BootInv` |
| `PricingProofs!RateStaysHonest` | `Spec => []RateInHonestBand` | `PriceInv` |
| `PricingProofs!SecondsAreBilledOnce` | `Spec => []SecondsBilledOnce` | `PriceInv` |
| `PricingProofs!PricedWhenSeen` | `Spec => PricedAtFirstSight` | `PriceInv` |
| `PricingProofs!MedianAlwaysAdvances` | `ClockSpec => []MedianAdvances` | `ClockInv` |
| `PricingProofs!UpdatesKeepTheTerm` | `ClockSpec => []UpdateKeepsTerm` | `ClockInv` |
| `PricingProofs!PriceFollowsTheLine` | `ClockSpec => []PriceFollowsLine` | `ClockInv` |
| `PresaleProofs!ProtectionIsHonoured` | `Spec => []ProtectionHonoured` | `PresaleInv` |
| `FollowProofs!RulesRunOnOneChain` | `~Returns` gives `Spec => []ClockOfChain` | `FollowInv` |

**Rewinds.** `RewindExact` is not inductive. It speaks of the present histories,
checkpoints and pool at every height, but a rewind to h makes the state at h
present, and the new state must again be exact for every lower height. The
inductive invariant `Inv` is `BaseType /\ Stood`: the types, and for every
height h up to the tip what the Registry that stood at h says of the present
one: its history is the prefix of the present history at or below h and each
prefix ends where the next entry is above h (`HistoryStood`), its records are
rebuilt from that history (`RecordsStood`), its pool is the last checkpoint at
or below h (`PoolStood`), and adoption was closed then exactly if it closed at
or below h (`ClosedStood`). A transaction only appends at the tip, so the
lower heights are undisturbed; a new block adds a height equal to the tip; a
truncation drops heights (`TruncateRestores`). The lemmas `SetRecordStep`,
`MarkReleasedStep`, `RetireSpentStep` and `AdoptAnchorsStep` state that each
write keeps the invariant and are shared by all transaction actions.
`KeptLengthUnique` and `PoolAtUnique` discharge the two CHOOSEs.

**Authority.** `AuthorityUnspent` fails to be inductive for the same reason, and
its proof needs more of the chain: that the Registry standing at each height h
had exactly the notes which stood unspent on the chain cut at h (`Authority`),
that no note is spent before it is made (`SpentAfterBorn`), that histories are in
block order (`Ordered`), and that each entry of a history spends the note of the
entry before it, in its own block (`Linked`, which gives `OwnershipChain`).
`AuthInv` is `Inv` with these four. `Linked` also keeps the target height of each
entry, from which `StaleClaimsNeverLand` follows by the arithmetic of the expiry
delta: a claim built before the release can only be mined while the note that the
release spent still stands.

**Refinement.** `RegistryImplementsLedger` maps each action of `Registry` to a step
of `NameLedger`: a new block repeats the ledger, an accepted claim or successor is
a step that moves one name by the authority `AuthInv` shows to be standing, a
spend that no accepted note follows takes the authority away, and a truncation is
the ledger's own, since the mapped sequence of ledgers is cut where the heights are.

**The mint's orders.** Each step of `MintOrders` is a step of `Registry` or leaves the
Registry alone, so `AuthInv` holds of it; the rest comes in layers, each of which uses the
ones before.

* `BaseInv` adds the loop's own queues (`QueueOK`). Its heart is `Covers`: each note the signing
  loop has still to visit has an order of its own, so neither `drop_note` nor `mark_sent` comes up
  empty and the loop cannot panic, although two orders of one name may exist after a reorg
  and both resolve by name.
* `TxInv` says what the chain knows of every transaction the mint ever broadcast. One whose
  tree root still stands spends the note of an entry in its name's history (`NoteOf`); one that was
  mined wrote its entry (`WrittenBy`); two that one process knows and that spend one note have
  disjoint lifetimes (`TxPair`), which is what `spend_confirms_or_blocks` gives; and every
  entry of a history was written by one of them (`Written`). A rewind keeps these because it
  unroots exactly the transactions built on what it takes away.
* `SeenInv` allows a half-applied block to confirm an order that is not reconciled yet. The new
  cases are the orders just made: a transition of the current record at the tip is not confirmed
  from its origin on, since commitments grow with each transition, and neither is a claim of an
  available name whose payment is undecided, since only the last entry may be of an undecided block.
* `SingleInv`: until a reorg unresolved orders have names of their own, and so do the notes
  still to be signed. `DecisionsAreKept` follows, because what `drop_note` and
  `reconcile_seen` take away is then the order they mean.
* `OwnedInv` says that pending transitions are of the current records, except, within a block, those
  of names the block has moved; `AnsweredInv` that until a reorg or restart a challenge has
  no pending order beside it, and that a transition which may still be mined has one. No
  late transaction can then move a name whose challenge is out.

**Treasury.** `BooksInv` says of each queue, and of the copies a pass walks, that its
entries are backed by the applied chain, distinct, and apart from those of the other queues,
and that a transaction is at one place of a chain only (`Once`). The queues lose entries by
`Retain`, `RemoveAt` and `Tail`, all of which leave a queue `Within` the one before
(`OrderLemmas`), and every conjunct passes to the queues within it. What a block adds is
proved by induction over its memos (`Grown`). `PaidInv` adds that what waits was not paid by any
transaction of the pool; `SweepInv` that the days swept ascend and are not above the day
the pass began with, which needs `PrefixInv`: without a reorg the mint's chain is a
prefix of the node's, whose times ascend.

**Clock.** `MedianAdvances` speaks of a chain of headers each of which was admitted by the
median before it (`Climbs`). Fewer than half of a window lie below its median; a new header above it
takes the place of the oldest, so no more lie below it in the next window, and after half
a window of such headers fewer than half are at or below it. `UpdateKeepsTerm` needs that
every expiry, on the chain or in flight, is within the horizon of the latest median there ever
was (`Horizon`).

**Market.** A rewind makes the book out of the log, so the proof begins with what a
replay computes. By induction over the log (`SeqInduction`): one event does to the
book being rebuilt what `ApplyIs` says; a run of events of one kind does so at once, in any
order (`BulkReplay`); events above a height do not count (`ReplayBelow`), and a
replay cut twice is cut once (`ReplayReplay`). A book is `Logged` at h if its log is in block
order up to h and rebuilds it, but for `relayed` and `attempts`, which the log leaves
out. Each operation is then `Grown`: the book it leaves is logged, and the log says
of every lower block what it said before (`DropSalesLogged`, `OpenLogged`, ...). What
is on the book is `Good` for the records and the clock of its block: `Fresh` (nothing past
its time), `Current` (against the holder and the note), `Apart` (no challenge beside a
buy, no two equal bills) and `Patient` (attempts below the limit).
`BookCurrent` and `OnePaymentOneBuy` are not inductive, since a rewind returns to the
book, the records and the orders of a lower block, and a restart to what the boot scan
computed. `MarketInv` therefore says of every height k up to the tip: the log rebuilds the
book that stood at k and that book was good for the records of k (`PastBook`);
the boot scan of k was logged and good, and the boot log up to k is its log
(`PastBoot`); and an order that was pending at k is the sale of the buy then open on its
name, if one was (`OrdersHeld`). `ExpireNothing` gives the last clause of
`LogRebuildsBook` from `Fresh`. Sealing the boot scan's buys changes the log as well as the book;
`SealReplay` shows that no replay of it changes but for `relayed`. For `QuoteHonoured` each step
is asked which buys it drops: a block only lapsed or moved ones (`BlockBook`), a pass only
those whose buyer already holds the name (`PassKeeps`), a memo none (`Memo`). For
`OnlySaleMoves`, `SentInv` says that until a reorg or a restart everything broadcast and not mined is
an order the queue still holds as sent, on the name's current note. `OrdersHeld`
then makes it the sale of the buy open on its name.

**Boot.** `KeysNamed` and `DocumentsAgree` speak of a boot that serves. `BootInv`
says what is known in each phase before: which file has been read, what the
manifest, the capsule and the attestation then say of each other (`Knows`), and
what a whole document on disk may say whichever boot wrote it and wherever it was
cut off (`Believable`). `ReportAssumption`: no attestation report is the model's `None`.

**Price.** `RateInHonestBand` needs the band to survive weighted sums and the
final division: `SoundOracle` keeps `acc_sum` between the lowest and highest honest
price times `acc_seconds`. The two rounded divisions are taken apart: `Nearest` is
within half of the quotient (`NearestBounds`), it is monotone and exact on multiples, so the rounded average stays
in the band (`AverageOfBand`), and `DecimalAssumption` bounds what both roundings add by
one zatoshi per dollar (`EnoughDigits`, `RoundedRate`). That the median of the venues lies in the honest band is proved
from the definition of the ranked position (`Ranked`): with at most one dishonest
venue, the value ranked in the middle has an honest one at or below it and one at or above.
`SecondsBilledOnce` is inductive with the oracle's types. `PricedAtFirstSight` is an
action property; it needs that the payments collected in a pass carry the rate of
that pass (`payments \subseteq {rate}`).

**Protected names.** `PresaleInv` says that the installed table is `FromRows` of the
rows last confirmed, and that a reply in flight which claims to be whole is the server's
table of some moment (`Honest`). `ReplyAssumption`: no reply is the model's `None`.

**Following the chain.** `ClockOfChain` speaks of the moment the rules run, but the
window may be wrong before: a node that changes branch during a backfill leaves
headers of two chains in it. `FollowInv` therefore says that the window read so far
is of the applied chain, or the node has left a chain that begins with the applied one
(`Tainted`). In the second case the check that the tip is still best before the rules
fails, because `~Returns` keeps the node from going back to what it left. The theorem has
that hypothesis, as the run has `Returns = FALSE`: without it the property is
false, and the table above shows how.

The provers cannot instantiate an operator parameter, so the library's induction
theorems are restated for sets in `OrderLemmas`: a set of naturals that is not empty
has a least element (`HasLeast`), and a set that holds the base and is closed under the
step holds everything (`SetInduction`, `SeqInduction`). For the same reason the models take
the entries of a queue by their places (`Retain`) rather than by a predicate (`SelectSeq`), and
walk a queue with a recursive function rather than with a fold.

The assumptions beyond types: `TreasuryAssumption`, a transaction's memos are a list of known kinds
and payments are finitely many; `ClockAssumption`, the marks for no term, no expiry and no name are
not numbers; `MintBoundsAssumption`, names are finitely many, since their length is bounded, and
nullifiers are numbers.

Only model-checked:

* liveness under fairness (`PaymentsSettled`, `ReachesTip`, `BootServes`,
  `DueReleased`), which the prover does not reach;
* the properties of `Wallet`, whose state is a record of tables built with `@@`, `:>` and folds
  and compared with a replay of the whole chain: the provers know these operators by name
  only, and each needs a lemma by induction first;
* the properties of `Memos`, which say what recursive parsers compute for every memo of a
  bounded set.

## Not modelled

Cryptography (hashes are injective, notes are what they decode to), the proving
and the byte layout of transactions, the wire format of the node's answers, HTTP
and TLS, the AWS attestation calls and metrics. A witness is a marked leaf under
a checkpoint, not a path of hashes. The fee loop is a set of possible fees. The
text of replies and logs is left out.

## Plan

What is left is to prove. In this order:

1. `Wallet`: what the folds over a block's notes keep, then `ReservedUntilExpiry` and
   `BalanceAgrees`, then `ReplayAgrees` by induction over the chain.
