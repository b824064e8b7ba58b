------------------------------- MODULE Market -------------------------------
(***************************************************************************)
(* The market of src/mint/sale.rs: listings, the challenges that authorize *)
(* them, the buys against them, and the event log a rollback rebuilds them *)
(* from; with the run loop of src/main.rs that drives it block by block    *)
(* and tip by tip, and the boot scan of src/boot.rs that recomputes it     *)
(* from the chain.                                                         *)
(*                                                                         *)
(* Of a name's record the market reads who holds it, its commitment and    *)
(* whether its release is due: that is what a record is here.  Of the Name *)
(* Note queue it reads which names have a pending note.  Purchased terms,  *)
(* fees, memo text and refunds are left out.                               *)
(***************************************************************************)
EXTENDS Integers, Sequences, FiniteSets, SequencesExt

CONSTANTS
    Names,          \* names
    Addrs,          \* unified addresses
    TAddrs,         \* transparent addresses
    T1,             \* the transparent receiver on each unified address
    Asks,           \* prices a seller may name
    Codes,          \* one-time codes, as the zatoshis they add to a price
    D_OTP,          \* life of a challenge and of a flat quote
    D_DUTCH,        \* life of a clock quote
    MAX_ATTEMPTS,   \* wrong answers that close a challenge
    Liveness,       \* LIVENESS_INTERVAL
    Scopes          \* bounds: what the behaviours explored may contain

(***************************************************************************)
(* decode admits a clock only when it falls (Clock::is_valid).             *)
(***************************************************************************)
ASSUME MarketAssumption ==
    /\ IsFiniteSet(Names)
    /\ T1 \in [Addrs -> TAddrs]
    /\ \A ask \in Asks :
         /\ ask.dutch \in BOOLEAN
         /\ {ask.start_price, ask.min_price, ask.start, ask.end} \subseteq Nat
         /\ ask.dutch => ask.end > ask.start /\ ask.start_price > ask.min_price
    /\ Codes \subseteq Nat
    /\ {D_OTP, D_DUTCH, MAX_ATTEMPTS} \subseteq Nat \ {0}
    /\ Liveness \in Nat
    /\ Scopes \subseteq [names : SUBSET Names,   \* names registered
                         asks : SUBSET Asks,     \* prices asked
                         codes : SUBSET Codes,   \* codes drawn
                         height : Nat,           \* the longest chain
                         time : Nat,             \* the latest median time past
                         moves : SUBSET {"update", "release"}, \* the owner's orders
                         arrivals : Nat,         \* memos and responses per block
                         reorgs : Nat,           \* rewinds
                         restarts : Nat]         \* process restarts

VARIABLES
    height,         \* the applied tip
    mtp,            \* median time past of each applied block
    records,        \* the names live at the tip
    book,           \* Market and Registry::listings of the running process
    boot,           \* what a boot scan of the same chain would compute
    orders,         \* NameNoteQueue::orders
    txs,            \* notes of the transactions broadcast and not yet mined
    phase,          \* "arrivals": reading a block; "scanned": at its end
    arrived,        \* memos read from this block
    past,           \* auxiliary: what stood at the end of each lower block
    scope,          \* the bounds of this behaviour
    reorgs,         \* rewinds so far
    restarts        \* restarts so far

boundVars == <<scope, reorgs, restarts>>
vars == <<height, mtp, records, book, boot, orders, txs, phase, arrived, past,
          boundVars>>

-----------------------------------------------------------------------------
(***************************************************************************)
(* Records, notes and the book                                             *)
(***************************************************************************)
Commitment(note) == Append(note.prev, <<note.action, note.ua>>)

Due(r, t) == t >= r.deadline

(* The note the order succeeds is still the name's own. *)
Owns(note, recs) ==
    note.name \in DOMAIN recs /\ recs[note.name].commitment = note.prev

NoAsk == [dutch |-> FALSE, start_price |-> 0, min_price |-> 0, start |-> 0, end |-> 0]

Listing == [name : Names, ua : Addrs, pay_to : TAddrs, ask : Asks]

(* MarketChallenge: a delist names no ask *)
Delisting == {[name |-> n, ua |-> ua, pay_to |-> T1[ua], ask |-> NoAsk] :
                n \in Names, ua \in Addrs}
Terms == Listing \cup Delisting

Action(terms) ==
    IF terms.ask = NoAsk THEN "delist"
    ELSE IF terms.ask.dutch THEN "auction" ELSE "list"

EmptyBook ==
    [listings |-> << >>, sales |-> << >>, challenges |-> {}, events |-> << >>]

IsOpen(b, n) == n \in DOMAIN b.sales

IsOwnerListing(owner, listing) ==
    owner = listing.ua /\ T1[owner] = listing.pay_to

(* Clock::price_at for a height within the clock *)
PriceAt(ask, h) ==
    IF ~ask.dutch THEN ask.start_price
    ELSE ask.start_price -
           ((ask.start_price - ask.min_price) * (h - ask.start))
             \div (ask.end - ask.start)

(* The total that pays an open buy *)
PaymentTotal(sale) == sale.price + sale.code

-----------------------------------------------------------------------------
(***************************************************************************)
(* The event log                                                           *)
(***************************************************************************)
Stamped(h, type, bodies) ==
    LET s == SetToSeq(bodies)
    IN  [i \in DOMAIN s |-> [height |-> h, type |-> type, body |-> s[i]]]

Log(b, h, type, bodies) ==
    [b EXCEPT !.events = @ \o Stamped(h, type, bodies)]

Without(f, S) == Restrict(f, DOMAIN f \ S)
With(f, n, x) == [m \in DOMAIN f \cup {n} |-> IF m = n THEN x ELSE f[m]]

(* Fault: a listing leaves without its event. *)
DropListingsUnlogged(b, ns, h) == [b EXCEPT !.listings = Without(@, ns)]

(* remove_listing of each, with its Delist event *)
DropListings(b, ns, h) ==
    Log([b EXCEPT !.listings = Without(@, ns)], h, "delist", ns)

(* close_challenge of each *)
CloseChallenges(b, cs, h) ==
    Log([b EXCEPT !.challenges = @ \ cs], h, "challenge_closed", {c.code : c \in cs})

(* The sales leave with an Expire or a Close event. *)
DropSales(b, ns, h, type) ==
    Log([b EXCEPT !.sales = Without(@, ns)], h, type, ns)

(* One event applied to the book being rebuilt *)
Apply(b, ev) ==
    CASE ev.type = "list" -> [b EXCEPT !.listings = With(@, ev.body.name, ev.body)]
      [] ev.type = "delist" -> [b EXCEPT !.listings = Without(@, {ev.body})]
      [] ev.type = "open" ->
           [b EXCEPT !.sales = IF IsOpen(b, ev.body.name) THEN @
                               ELSE With(@, ev.body.name, ev.body)]
      [] ev.type = "paid" ->
           [b EXCEPT !.sales = [n \in DOMAIN @ |->
              IF n = ev.body.name /\ @[n].code = ev.body.code
              THEN [@[n] EXCEPT !.paid = TRUE] ELSE @[n]]]
      [] ev.type \in {"expire", "close"} -> [b EXCEPT !.sales = Without(@, {ev.body})]
      [] ev.type = "challenge" ->
           IF \E c \in b.challenges : c.code = ev.body.code THEN b
           ELSE [b EXCEPT !.challenges = @ \cup {ev.body}]
      [] ev.type = "challenge_closed" ->
           [b EXCEPT !.challenges = {c \in @ : c.code # ev.body}]

(* The events up to a height, applied one by one to an empty book *)
Replay(evs, h) ==
    LET rebuilt[k \in 0 .. Len(evs)] ==
          IF k = 0 THEN EmptyBook
          ELSE IF evs[k].height <= h
          THEN [Apply(rebuilt[k - 1], evs[k]) EXCEPT !.events = Append(@, evs[k])]
          ELSE rebuilt[k - 1]
    IN  rebuilt[Len(evs)]

(* Market::truncate_to *)
TruncateTo(b, h) == Replay(b.events, h)

(* seal_replayed_buys: in the book and in its Open events *)
SealReplayedBuys(b) ==
    [b EXCEPT
       !.sales = [n \in DOMAIN @ |-> [@[n] EXCEPT !.relayed = TRUE]],
       !.events = [i \in DOMAIN @ |->
          IF @[i].type = "open" THEN [@[i] EXCEPT !.body.relayed = TRUE] ELSE @[i]]]

-----------------------------------------------------------------------------
(***************************************************************************)
(* What a block does to the book before its memos                          *)
(***************************************************************************)

(* finish_clocks: listings past the end of their clock *)
EndedClocks(b, h) ==
    {n \in DOMAIN b.listings : b.listings[n].ask.dutch /\ h > b.listings[n].ask.end}

(* Fault: a paid buy lapses with its quote. *)
LapsedPaidToo(b, t) == {n \in DOMAIN b.sales : t >= b.sales[n].until}

(* SaleQueue::expire: unpaid quotes past their time *)
LapsedSales(b, t) ==
    {n \in DOMAIN b.sales : ~b.sales[n].paid /\ t >= b.sales[n].until}

(* Market::expire *)
Expire(b, t, h) ==
    LET old == {c \in b.challenges : t >= c.expires_at}
    IN  CloseChallenges(
          DropSales(DropListings(b, EndedClocks(b, h), h), LapsedSales(b, t), h, "expire"),
          old, h)

HeldBy(recs, n, ua) == n \in DOMAIN recs /\ recs[n].ua = ua

(* The note the buy captured is still the name's. *)
Captured(sale, recs) ==
    HeldBy(recs, sale.name, sale.alice) /\ recs[sale.name].commitment = sale.held

(* Fault: only the buys follow a change of note. *)
ReconcileSalesOnly(b, recs, h) ==
    DropSales(b, {n \in DOMAIN b.sales : ~Captured(b.sales[n], recs)}, h, "close")

(* Market::reconcile: what a change of holder, or of note, ends *)
Reconcile(b, recs, h) ==
    LET lost == {n \in DOMAIN b.listings : ~HeldBy(recs, n, b.listings[n].ua)}
        stale == {c \in b.challenges : ~HeldBy(recs, c.terms.name, c.terms.ua)}
        moved == {n \in DOMAIN b.sales : ~Captured(b.sales[n], recs)}
    IN  DropSales(
          CloseChallenges(DropListings(b, lost, h), stale, h), moved, h, "close")

-----------------------------------------------------------------------------
(***************************************************************************)
(* What a memo does to the book.  r is the block: its height, its clock,   *)
(* the records and the names with a pending note.  A memo below the fee    *)
(* changes nothing.                                                        *)
(***************************************************************************)
CodeIsOpen(b, code) == \E c \in b.challenges : c.code = code

PushChallenge(b, terms, code, r) ==
    LET c == [terms |-> terms, code |-> code, expires_at |-> r.t + D_OTP,
              relayed |-> FALSE, attempts |-> 0]
    IN  Log([b EXCEPT !.challenges = @ \cup {c}], r.h, "challenge", {c})

ClockReady(ask, h) == ask.dutch => h <= ask.end

(* admit of a list, propose_list *)
ProposeList(b, listing, code, r) ==
    IF /\ listing.name \in DOMAIN r.recs
       /\ ~Due(r.recs[listing.name], r.t)
       /\ listing.name \notin r.pending
       /\ ClockReady(listing.ask, r.h)
       /\ IsOwnerListing(r.recs[listing.name].ua, listing)
       /\ ~IsOpen(b, listing.name)
       /\ ~\E c \in b.challenges : c.terms = listing
       /\ ~CodeIsOpen(b, code)
    THEN PushChallenge(b, listing, code, r)
    ELSE b

(* admit of a delist, propose_delist *)
ProposeDelist(b, terms, code, r) ==
    IF /\ HeldBy(r.recs, terms.name, terms.ua)
       /\ terms.name \notin r.pending
       /\ ~IsOpen(b, terms.name)
       /\ terms.name \in DOMAIN b.listings
       /\ ~\E c \in b.challenges : c.terms = terms
       /\ ~CodeIsOpen(b, code)
    THEN PushChallenge(b, terms, code, r)
    ELSE b

(* Fault: equal totals are not noticed. *)
SamePaymentNever(b, sale) == FALSE

(* An open, unpaid buy already pays this address this total. *)
SamePayment(b, sale) ==
    \E n \in DOMAIN b.sales :
       /\ ~b.sales[n].paid
       /\ b.sales[n].pay_to = sale.pay_to
       /\ PaymentTotal(b.sales[n]) = PaymentTotal(sale)

(* The buy a listing opens at this block: its price is frozen, and the *)
(* name's current note captured.                                       *)
NewSale(listing, bob, code, r) ==
    [name |-> listing.name, bob |-> bob, alice |-> r.recs[listing.name].ua,
     held |-> r.recs[listing.name].commitment, dutch |-> listing.ask.dutch,
     until |-> r.t + (IF listing.ask.dutch THEN D_DUTCH ELSE D_OTP),
     code |-> code, pay_to |-> listing.pay_to, price |-> PriceAt(listing.ask, r.h),
     paid |-> FALSE, relayed |-> FALSE]

(* admit of a buy, open_buy: the name's challenges close with it *)
OpenBuy(b, n, bob, code, r) ==
    IF /\ n \in DOMAIN r.recs
       /\ ~IsOpen(b, n)
       /\ n \in DOMAIN b.listings
       /\ IsOwnerListing(r.recs[n].ua, b.listings[n])
       /\ b.listings[n].ask.dutch => r.h \in b.listings[n].ask.start .. b.listings[n].ask.end
       /\ ~Due(r.recs[n], r.t)
       /\ n \notin r.pending
       /\ ~SamePayment(b, NewSale(b.listings[n], bob, code, r))
    THEN LET sale == NewSale(b.listings[n], bob, code, r)
             opened == Log([b EXCEPT !.sales = With(@, n, sale)], r.h, "open", {sale})
         IN  CloseChallenges(opened, {c \in b.challenges : c.terms.name = n}, r.h)
    ELSE b

(* Market::list and Market::delist, once the challenge is answered *)
List(b, listing, r) ==
    IF /\ ClockReady(listing.ask, r.h)
       /\ listing.name \in DOMAIN r.recs
       /\ IsOwnerListing(r.recs[listing.name].ua, listing)
    THEN Log([b EXCEPT !.listings = With(@, listing.name, listing)],
             r.h, "list", {listing})
    ELSE b

Delist(b, terms, r) ==
    IF HeldBy(r.recs, terms.name, terms.ua) /\ terms.name \in DOMAIN b.listings
    THEN DropListings(b, {terms.name}, r.h)
    ELSE b

(* Market::answer: the right code on the same terms spends its challenge   *)
(* and changes the listing; any other answer costs every challenge it      *)
(* names an attempt.                                                       *)
Answer(b, terms, code, r) ==
    LET named == {c \in b.challenges :
                    /\ c.terms.name = terms.name /\ c.terms.ua = terms.ua
                    /\ Action(c.terms) = Action(terms)}
        right == {c \in named : c.code = code /\ c.terms = terms}
        tried == {[c EXCEPT !.attempts = @ + 1] : c \in named}
        spent == CloseChallenges(b, right, r.h)
    IN  IF right = {}
        THEN CloseChallenges([b EXCEPT !.challenges = (@ \ named) \cup tried],
                             {c \in tried : c.attempts >= MAX_ATTEMPTS}, r.h)
        ELSE IF IsOpen(b, terms.name) THEN spent
        ELSE IF terms \in Delisting THEN Delist(spent, terms, r)
        ELSE List(spent, terms, r)

(* SaleQueue::observe: a payment settles one unpaid buy it matches, while *)
(* the seller still holds the name.                                       *)
Observe(b, pays, r) ==
    LET Matches(p) == {n \in DOMAIN b.sales :
                         /\ ~b.sales[n].paid
                         /\ r.t < b.sales[n].until
                         /\ HeldBy(r.recs, n, b.sales[n].alice)
                         /\ p = <<b.sales[n].pay_to, PaymentTotal(b.sales[n])>>}
        settled == {CHOOSE n \in Matches(p) : TRUE :
                      p \in {q \in pays : Matches(q) # {}}}
    IN  Log([b EXCEPT !.sales = [n \in DOMAIN @ |->
                IF n \in settled THEN [@[n] EXCEPT !.paid = TRUE] ELSE @[n]]],
            r.h, "paid", {[name |-> n, code |-> b.sales[n].code] : n \in settled})

-----------------------------------------------------------------------------
(***************************************************************************)
(* The Name Note queue, as far as the market meets it.  at is the height   *)
(* that confirmed a seen order.                                            *)
(***************************************************************************)
Pending == {o.note.name : o \in {x \in orders : x.state # "seen"}}

NewOrder(note, origin) ==
    [note |-> note, origin |-> origin, state |-> "authorized", at |-> 0]

(* Fault: an order is forgotten once it was broadcast. *)
ReconcileForgetsSent(os, mined, recs, h) ==
    {o \in os : o.state # "sent" /\ (o.state = "seen" \/ Owns(o.note, recs))}

(* reconcile_seen: orders the block confirmed are seen; one whose *)
(* predecessor is no longer current goes.                         *)
ReconcileSeen(os, mined, recs, h) ==
    {o \in {IF o.state # "seen" /\ o.note \in mined
            THEN [o EXCEPT !.state = "seen", !.at = h] ELSE o : o \in os} :
       o.state = "seen" \/ Owns(o.note, recs)}

(* rewind_to and the reconcile_seen after it *)
RewindOrders(os, recs, h) ==
    {o \in {IF o.state = "seen" /\ o.at > h
            THEN [o EXCEPT !.state = "authorized", !.at = 0] ELSE o :
              o \in {x \in os : x.origin <= h}} :
       o.state = "seen" \/ Owns(o.note, recs)}

(* What the chain makes of a confirmed note *)
RecordOf(note, t) ==
    [ua |-> note.ua, commitment |-> Commitment(note), deadline |-> t + Liveness]

AfterNotes(mined, t) ==
    LET gone == {note.name : note \in mined}
        written == {note \in mined : note.action # "release"}
    IN  [n \in (DOMAIN records \ gone) \cup {note.name : note \in written} |->
           IF n \in gone
           THEN RecordOf(CHOOSE note \in written : note.name = n, t)
           ELSE records[n]]

(* The notes a block may confirm: broadcast ones whose predecessor is    *)
(* current, and claims of free names; one per name.                      *)
Claims == {[name |-> n, action |-> "claim", ua |-> ua, prev |-> << >>] :
             n \in scope.names \ DOMAIN records, ua \in Addrs}
Minable ==
    {mined \in SUBSET ({note \in txs : Owns(note, records)} \cup Claims) :
       \A p, q \in mined : p.name = q.name => p = q}

(* Broadcast ones the block leaves: it spent the predecessor of the others. *)
Unmined(mined) ==
    {note \in txs : Owns(note, records) => \A m \in mined : m.name # note.name}

-----------------------------------------------------------------------------
(***************************************************************************)
(* A block: apply_block, reconcile_seen, Market::expire and                *)
(* Market::reconcile, then its memos one by one, then its payments         *)
(***************************************************************************)

(* relayed and attempts are not in the log. *)
View(b) ==
    [listings |-> b.listings,
     sales |-> [n \in DOMAIN b.sales |-> [b.sales[n] EXCEPT !.relayed = FALSE]],
     challenges |-> {[c EXCEPT !.relayed = FALSE, !.attempts = 0] : c \in b.challenges}]

Here == [records |-> records, view |-> View(book), boot |-> boot, txs |-> txs]

ApplyBlock(t, mined) ==
    /\ phase = "scanned"
    /\ height < scope.height
    /\ t >= mtp[height]
    /\ mined \in Minable
    /\ height' = height + 1
    /\ mtp' = [h \in 1 .. height + 1 |-> IF h = height + 1 THEN t ELSE mtp[h]]
    /\ records' = AfterNotes(mined, t)
    /\ orders' = ReconcileSeen(orders, mined, records', height')
    /\ book' = Reconcile(Expire(book, t, height'), records', height')
    /\ boot' = Reconcile(Expire(boot, t, height'), records', height')
    /\ past' = [h \in 1 .. height |-> IF h = height THEN Here ELSE past[h]]
    /\ phase' = "arrivals"
    /\ arrived' = 0
    /\ txs' = Unmined(mined)
    /\ UNCHANGED boundVars

Block(pending) ==
    [h |-> height, t |-> mtp[height], recs |-> records, pending |-> pending]

(* A memo is read by the running process, which knows its pending notes,   *)
(* and would be read the same way by a boot scan, which has none.  A memo  *)
(* that is refused by both is not a step.                                  *)
Reads ==
    /\ phase = "arrivals"
    /\ arrived < scope.arrivals
    /\ arrived' = arrived + 1
    /\ <<book, boot, orders>>' # <<book, boot, orders>>
    /\ UNCHANGED <<height, mtp, records, txs, phase, past, boundVars>>

ArriveList(listing, code) ==
    /\ phase = "arrivals"
    /\ book' = ProposeList(book, listing, code, Block(Pending))
    /\ boot' = ProposeList(boot, listing, code, Block({}))
    /\ UNCHANGED orders
    /\ Reads

ArriveDelist(terms, code) ==
    /\ phase = "arrivals"
    /\ book' = ProposeDelist(book, terms, code, Block(Pending))
    /\ boot' = ProposeDelist(boot, terms, code, Block({}))
    /\ UNCHANGED orders
    /\ Reads

ArriveBuy(n, bob, code) ==
    /\ phase = "arrivals"
    /\ book' = OpenBuy(book, n, bob, code, Block(Pending))
    /\ boot' = OpenBuy(boot, n, bob, code, Block({}))
    /\ UNCHANGED orders
    /\ Reads

ArriveAnswer(terms, code) ==
    /\ phase = "arrivals"
    /\ book' = Answer(book, terms, code, Block(Pending))
    /\ boot' = Answer(boot, terms, code, Block({}))
    /\ UNCHANGED orders
    /\ Reads

(* The answer to an update or release challenge: refused while a buy is *)
(* open, otherwise ruled on here.                                       *)
ArriveTransition(n, action, ua) ==
    /\ phase = "arrivals"
    /\ ~IsOpen(book, n)
    /\ n \notin Pending
    /\ n \in DOMAIN records
    /\ \/ action = "update" /\ ~Due(records[n], mtp[height])
       \/ action = "release" /\ records[n].ua = ua
    /\ orders' = orders \cup
         {NewOrder([name |-> n, action |-> action, ua |-> ua,
                    prev |-> records[n].commitment], height)}
    /\ UNCHANGED <<book, boot>>
    /\ Reads

EndBlock(pays) ==
    /\ phase = "arrivals"
    /\ book' = Observe(book, pays, Block(Pending))
    /\ boot' = Observe(boot, pays, Block({}))
    /\ phase' = "scanned"
    /\ UNCHANGED <<height, mtp, records, orders, txs, arrived, past, boundVars>>

-----------------------------------------------------------------------------
(***************************************************************************)
(* The pass at the tip                                                     *)
(***************************************************************************)

(* unrelayed_challenges, through Registry::challengeable *)
UnrelayedChallenges ==
    {c \in book.challenges :
       LET n == c.terms.name IN
       /\ ~c.relayed
       /\ ~IsOpen(book, n)
       /\ n \notin Pending
       /\ n \in DOMAIN records
       /\ ~Due(records[n], mtp[height])
       /\ IF c.terms.ask = NoAsk THEN records[n].ua = c.terms.ua
          ELSE IsOwnerListing(records[n].ua, c.terms)}

UnrelayedBuys ==
    {n \in DOMAIN book.sales : ~book.sales[n].paid /\ ~book.sales[n].relayed}

Relayed(b, cs, ns) ==
    [b EXCEPT
       !.challenges = (@ \ cs) \cup {[c EXCEPT !.relayed = TRUE] : c \in cs},
       !.sales = [n \in DOMAIN @ |->
          IF n \in ns THEN [@[n] EXCEPT !.relayed = TRUE] ELSE @[n]]]

(* SaleQueue::poll: of the paid sales with no note pending, those to sign  *)
Polled == {n \in DOMAIN book.sales : book.sales[n].paid /\ n \notin Pending}
Owed ==
    {n \in Polled : Captured(book.sales[n], records)
                      /\ records[n].ua # book.sales[n].bob}

SaleTransfer(sale) ==
    [name |-> sale.name, action |-> "sale", ua |-> sale.bob, prev |-> sale.held]

(* What the pass leaves in the order queue: sale notes, no update the tip  *)
(* would already release, and the lifecycle releases no buy holds back     *)
OrdersAtTip ==
    LET DueName(n) == n \in DOMAIN records /\ Due(records[n], mtp[height])
        sold == orders \cup {NewOrder(SaleTransfer(book.sales[n]), height) : n \in Owed}
        kept == {o \in sold : ~(/\ o.state = "authorized"
                                /\ o.note.action = "update"
                                /\ DueName(o.note.name))}
        free == {n \in Names : /\ DueName(n)
                               /\ ~IsOpen(book, n) \/ n \in Polled \ Owed
                               /\ \A o \in kept : o.note.name = n => o.state = "seen"}
    IN  kept \cup {NewOrder([name |-> n, action |-> "release", ua |-> records[n].ua,
                             prev |-> records[n].commitment], height) : n \in free}

(* One pass: the relays that succeed, the poll, the lifecycle, and the *)
(* orders that are signed and broadcast                                *)
Pass(cs, ns, signed) ==
    /\ phase = "scanned"
    /\ cs \subseteq UnrelayedChallenges
    /\ ns \subseteq UnrelayedBuys
    /\ signed \subseteq {o \in OrdersAtTip : o.state = "authorized"}
    /\ book' = DropSales(Relayed(book, cs, ns), Polled \ Owed, height, "close")
    /\ orders' = (OrdersAtTip \ signed) \cup {[o EXCEPT !.state = "sent"] : o \in signed}
    /\ txs' = txs \cup {o.note : o \in signed}
    /\ UNCHANGED <<height, mtp, records, boot, phase, arrived, past, boundVars>>

-----------------------------------------------------------------------------
(***************************************************************************)
(* Reorg and restart                                                       *)
(***************************************************************************)

(* Market::truncate_to, the rewind_to of each queue, Market::expire.  The   *)
(* mempool keeps what was broadcast, on an orphaned tip too, and takes back *)
(* what the orphaned blocks had mined: a transaction dies only with the     *)
(* Ironwood root it is anchored at, and the blocks that follow may bring    *)
(* back every root that was lost.                                           *)
Rewind(h) ==
    /\ phase = "scanned"
    /\ reorgs < scope.reorgs
    /\ h \in 1 .. height - 1
    /\ height' = h
    /\ mtp' = [k \in 1 .. h |-> mtp[k]]
    /\ records' = past[h].records
    /\ book' = Expire(TruncateTo(book, h), mtp[h], h)
    /\ boot' = past[h].boot
    /\ orders' = RewindOrders(orders, records', h)
    /\ txs' = txs \cup UNION {past[k].txs : k \in h .. height - 1}
    /\ past' = [k \in 1 .. h - 1 |-> past[k]]
    /\ reorgs' = reorgs + 1
    /\ UNCHANGED <<phase, arrived, scope, restarts>>

(* The process starts over: the market is what the boot scan computed, its *)
(* unpaid buys sealed; every queue is empty.                               *)
Restart ==
    /\ phase = "scanned"
    /\ restarts < scope.restarts
    /\ book' = SealReplayedBuys(boot)
    /\ orders' = {}
    /\ restarts' = restarts + 1
    /\ past' = [h \in DOMAIN past |-> [past[h] EXCEPT !.view = View(past[h].boot)]]
    /\ UNCHANGED <<height, mtp, records, boot, txs, phase, arrived, scope, reorgs>>

-----------------------------------------------------------------------------
(* Every name was claimed in the first block; nothing is listed yet. *)
Init ==
    /\ height = 1
    /\ mtp = [h \in {1} |-> 0]
    /\ scope \in Scopes
    /\ records \in [scope.names -> {RecordOf(
          [action |-> "claim", ua |-> ua, prev |-> << >>], 0) : ua \in Addrs}]
    /\ book = EmptyBook /\ boot = EmptyBook
    /\ orders = {} /\ txs = {}
    /\ phase = "arrivals" /\ arrived = 0
    /\ past = << >>
    /\ reorgs = 0 /\ restarts = 0

Payable ==
    {<<s.pay_to, PaymentTotal(s)>> :
       s \in {book.sales[n] : n \in DOMAIN book.sales}
               \cup {boot.sales[n] : n \in DOMAIN boot.sales}}

OpenTerms == {c.terms : c \in book.challenges \cup boot.challenges}

Next ==
    \/ \E t \in 0 .. scope.time : \E mined \in Minable : ApplyBlock(t, mined)
    \/ \E listing \in Listing, code \in scope.codes :
         /\ listing.name \in scope.names
         /\ listing.ask \in scope.asks
         /\ ArriveList(listing, code)
    \/ \E terms \in Delisting, code \in scope.codes :
         terms.name \in scope.names /\ ArriveDelist(terms, code)
    \/ \E n \in scope.names, bob \in Addrs, code \in scope.codes :
         ArriveBuy(n, bob, code)
    \/ \E terms \in OpenTerms, code \in scope.codes : ArriveAnswer(terms, code)
    \/ \E n \in scope.names, action \in scope.moves, ua \in Addrs :
         ArriveTransition(n, action, ua)
    \/ \E pays \in SUBSET Payable : EndBlock(pays)
    \/ \E cs \in SUBSET UnrelayedChallenges, ns \in SUBSET UnrelayedBuys :
         \E signed \in SUBSET {o \in OrdersAtTip : o.state = "authorized"} :
            Pass(cs, ns, signed)
    \/ \E h \in 1 .. height - 1 : Rewind(h)
    \/ Restart

Spec == Init /\ [][Next]_vars

-----------------------------------------------------------------------------
(***************************************************************************)
(* Properties                                                              *)
(***************************************************************************)
(* Every listing, sale, challenge, order and record has its type, and the   *)
(* log is stamped with heights of the applied chain, in order               *)
(* (Market::record).                                                        *)
MarketTypeOK ==
    /\ height \in Nat /\ mtp \in [1 .. height -> Nat]
    /\ DOMAIN records \subseteq Names
    /\ \A n \in DOMAIN records : records[n].ua \in Addrs
    /\ \A b \in {book, boot} :
         /\ \A n \in DOMAIN b.listings : b.listings[n] \in Listing /\ b.listings[n].name = n
         /\ \A n \in DOMAIN b.sales : b.sales[n].name = n /\ b.sales[n].bob \in Addrs
         /\ \A c \in b.challenges : c.terms \in Terms /\ c.attempts < MAX_ATTEMPTS
         /\ \A i \in DOMAIN b.events :
              /\ b.events[i].height \in 1 .. height
              /\ i > 1 => b.events[i - 1].height <= b.events[i].height
    /\ \A o \in orders : o.state \in {"authorized", "sent", "seen"} /\ o.origin \in 1 .. height

(* The log is the market: replaying it to any height of the chain gives    *)
(* the listings, buys and challenges that stood at the end of that block,   *)
(* and the expiry that follows a rewind finds nothing to drop               *)
(* (Market::truncate_to).                                                   *)
LogRebuildsBook ==
    \A h \in 1 .. height :
        LET rebuilt == TruncateTo(book, h) IN
        /\ View(rebuilt) = (IF h = height THEN View(book) ELSE past[h].view)
        /\ h < height => Expire(rebuilt, mtp[h], h) = rebuilt

(* Nothing on the book outlives the holder it was opened by: every listing, *)
(* challenge and buy is against the name's current holder, and a buy        *)
(* against the current note, after any block, reorg or restart.  While a    *)
(* buy is open no challenge can change the listing and no note but its own  *)
(* sale is pending (Market::reconcile, open_buy, allows_transition).        *)
BookCurrent ==
    /\ MarketTypeOK
    /\ \A n \in DOMAIN book.listings : HeldBy(records, n, book.listings[n].ua)
    /\ \A c \in book.challenges : HeldBy(records, c.terms.name, c.terms.ua)
    /\ \A n \in DOMAIN book.sales :
         /\ Captured(book.sales[n], records)
         /\ \A c \in book.challenges : c.terms.name # n
         /\ \A o \in orders : o.note.name = n /\ o.state # "seen" =>
               book.sales[n].paid /\ o.note = SaleTransfer(book.sales[n])

(* A payment names one buy: no two unpaid buys are paid by the same total   *)
(* to the same address, and no two challenges answer to one code            *)
(* (same_payment, code_is_open).                                            *)
OnePaymentOneBuy ==
    /\ LET unpaid == {n \in DOMAIN book.sales : ~book.sales[n].paid}
           Bill(n) == <<book.sales[n].pay_to, PaymentTotal(book.sales[n])>>
       IN  \A m, n \in unpaid : Bill(m) = Bill(n) => m = n
    /\ \A c, d \in book.challenges : c.code = d.code => c = d

(* While a buy is open, the only note a new block can confirm for the name  *)
(* is the sale to its buyer ("a buy holds the name").  A restart forgets    *)
(* every order, and a rewind those authorized above the ancestor, while     *)
(* their transactions can still be mined under a later buy: this is about   *)
(* one process on a chain that only grows (allows_transition, rewind_to).   *)
OnlySaleMoves ==
    [][restarts = 0 /\ reorgs = 0 /\ height' > height =>
         \A n \in DOMAIN book.sales :
            \/ n \in DOMAIN records' /\ records'[n] = records[n]
            \/ n \in DOMAIN records' /\ records'[n].commitment =
                  Commitment(SaleTransfer(book.sales[n]))]_vars

(* A quote that was sent is honoured: unless the chain rewinds, the buy     *)
(* stays on the book with its buyer, code and price, and stays paid once    *)
(* paid, until its time is up unpaid or its note moves.  The poll closes a  *)
(* paid buy whose buyer is the seller.  The boot scan may open a buy the    *)
(* old process refused, so this is about one process (SaleQueue::expire,    *)
(* SaleQueue::poll, Market::reconcile).                                     *)
QuoteHonoured ==
    [][restarts' = 0 /\ height' >= height =>
         \A n \in DOMAIN book.sales :
            LET s == book.sales[n] IN
            s.relayed \/ s.paid =>
              \/ /\ n \in DOMAIN book'.sales
                 /\ LET q == book'.sales[n] IN
                    /\ <<q.bob, q.code, q.price>> = <<s.bob, s.code, s.price>>
                    /\ s.paid => q.paid
              \/ ~s.paid /\ mtp'[height'] >= s.until
              \/ ~Captured(s, records')
              \/ s.bob = s.alice]_vars
=============================================================================
