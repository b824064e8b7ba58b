------------------------------- MODULE Pricing -------------------------------
(***************************************************************************)
(* The price of a name: the venues' round, the daily time-weighted rate    *)
(* and the quote (src/mint/pricing.rs), and the pass of src/main.rs that   *)
(* reads the rate, folds a round and prices what was paid.                 *)
(*                                                                         *)
(* A price is a number of units, ONE to the dollar, and even, so that the  *)
(* mean of two is whole.  The two divisions behind a rate are rounded the  *)
(* way Decimal rounds, to SCALE parts of a whole.  The median time is any  *)
(* time a block may give it (Clock).                                       *)
(***************************************************************************)
EXTENDS Integers, Sequences, FiniteSets, FiniteSetsExt

CONSTANTS
    Venues, Trusted,    \* EXCHANGES and the venue that may publish alone
    Dishonest,          \* a venue that may answer anything
    HonestPrices,       \* what the others answer
    WrongPrices,        \* what the dishonest one may answer besides
    ONE,                \* units of a dollar
    SCALE,              \* parts a Decimal quotient is rounded to
    MAX_USD_PRICE,
    COIN,               \* zatoshis of one coin
    MAX_MONEY,          \* the largest amount
    DAY,                \* seconds of a day
    MIN_DAY_SUCCESS_PERCENT,
    WORD,               \* 2^64 in the code: elapsed seconds wrap at it
    None,
    MaxTime,            \* bound: the clock
    MaxRounds           \* bound: rounds folded into one day

ASSUME PricingAssumption ==
    /\ IsFiniteSet(Venues)
    /\ Trusted \in Venues /\ Dishonest \in Venues \ {Trusted}
    /\ HonestPrices # {} /\ HonestPrices \subseteq ONE + 1 .. MAX_USD_PRICE * ONE - 1
    /\ WrongPrices \subseteq Nat
    /\ \A p \in HonestPrices \cup WrongPrices : p % 2 = 0
    /\ {ONE, SCALE, COIN, DAY, WORD} \subseteq Nat \ {0}
    /\ {MAX_USD_PRICE, MAX_MONEY, MIN_DAY_SUCCESS_PERCENT, MaxTime, MaxRounds} \subseteq Nat
    /\ MaxTime < WORD
    /\ None \notin Nat

(***************************************************************************)
(* A Decimal keeps more digits than a day's sum of prices and a day's      *)
(* zatoshis have, so that its rounding is finer than their fractions.      *)
(***************************************************************************)
ASSUME DecimalAssumption ==
    (MAX_USD_PRICE * ONE + COIN * ONE + 1) * (MaxTime + 1) <= SCALE

VARIABLES
    now,            \* the median time at the tip
    oracle,         \* Oracle
    average,        \* what its rate was published from: a sum and its seconds
    phase,          \* "wait", "price" or "check"
    rate,           \* the rate the pass read
    payments,       \* the rates this pass's payments were first seen at
    born, billed    \* when this oracle was made, and every second it weighed

vars == <<now, oracle, average, phase, rate, payments, born, billed>>

-----------------------------------------------------------------------------
(***************************************************************************)
(* A round                                                                 *)
(***************************************************************************)

(* fetch_last: a price outside the plausible band is no answer *)
Plausible(p) == p > ONE /\ p < MAX_USD_PRICE * ONE

Answers(v) == HonestPrices \cup (IF v = Dishonest THEN WrongPrices ELSE {})

(* fetch_round: the venues that answered in time, and what they said *)
Quotes ==
    {q \in UNION {[vs -> HonestPrices \cup WrongPrices] : vs \in SUBSET Venues} :
        \A v \in DOMAIN q : q[v] \in Answers(v) /\ Plausible(q[v])}

(* The venues that answered, in order of what they said *)
Ranked(q) ==
    CHOOSE s \in [1 .. Cardinality(DOMAIN q) -> DOMAIN q] :
        /\ \A i, j \in DOMAIN s : s[i] = s[j] => i = j
        /\ \A i, j \in DOMAIN s : i <= j => q[s[i]] <= q[s[j]]

(* Fault: the mean of two survivors. *)
AggregateMean(q) ==
    LET n == Cardinality(DOMAIN q)
        mid == n \div 2
        rates == [i \in 1 .. n |-> q[Ranked(q)[i]]]
    IN  IF n = 0 THEN None
        ELSE IF n % 2 = 1 THEN rates[mid + 1]
        ELSE (rates[mid] + rates[mid + 1]) \div 2

(* aggregate: the median of three or more, else the trusted venue alone *)
Aggregate(q) ==
    LET n == Cardinality(DOMAIN q)
        mid == n \div 2
        rates == [i \in 1 .. n |-> q[Ranked(q)[i]]]
    IN  IF n <= 2 THEN IF Trusted \in DOMAIN q THEN q[Trusted] ELSE None
        ELSE IF n % 2 = 1 THEN rates[mid + 1]
        ELSE (rates[mid] + rates[mid + 1]) \div 2

RoundPrices == {Aggregate(q) : q \in Quotes}

-----------------------------------------------------------------------------
(***************************************************************************)
(* Oracle                                                                  *)
(***************************************************************************)
CeilDiv(a, b) == (a + b - 1) \div b

(* Division of Decimals: to the nearest part, a tie to the even one *)
Nearest(a, b) ==
    LET q == a \div b
        r == a % b
    IN  IF 2 * r > b \/ (2 * r = b /\ q % 2 = 1) THEN q + 1 ELSE q

(* The average price of a day, in parts of a unit *)
Average(sum, seconds) == Nearest(sum * SCALE, seconds)

(* zats_per_usd of that average: its quotient, then rounded up *)
ZatsPerUsd(sum, seconds) ==
    CeilDiv(Nearest(COIN * ONE * SCALE * SCALE, Average(sum, seconds)), SCALE)

Today(t) == t \div DAY

NewOracle(price, t) ==
    [daily_rate |-> ZatsPerUsd(price, 1), current_day |-> Today(t), acc_sum |-> 0,
     acc_seconds |-> 0, last_price |-> price, last_ts |-> t, attempted |-> 0, seen |-> 0]

Publishes(o, t) ==
    /\ Today(t) > o.current_day
    /\ o.acc_seconds > 0
    /\ o.seen * 100 >= o.attempted * MIN_DAY_SUCCESS_PERCENT

(* A new day: its rate, and an empty accumulator *)
Rollover(o, t) ==
    IF Today(t) <= o.current_day THEN o
    ELSE [o EXCEPT !.daily_rate = IF Publishes(o, t) THEN ZatsPerUsd(o.acc_sum, o.acc_seconds) ELSE @,
                   !.acc_sum = 0, !.acc_seconds = 0, !.attempted = 0, !.seen = 0,
                   !.current_day = Today(t)]

Elapsed(o, t) == (t - o.last_ts) % WORD

(* Fault: a round behind the last one is folded. *)
AccumulateAnytime(o, price, t) ==
    LET r == [Rollover(o, t) EXCEPT !.attempted = @ + 1]
    IN  IF price = None THEN r
        ELSE [r EXCEPT !.acc_sum = @ + r.last_price * Elapsed(o, t), !.acc_seconds = @ + Elapsed(o, t),
                       !.last_price = price, !.last_ts = t, !.seen = @ + 1]

(* A round behind the last one is dropped: its seconds are billed. *)
Accumulate(o, price, t) ==
    LET r == [Rollover(o, t) EXCEPT !.attempted = @ + 1]
    IN  IF t < o.last_ts THEN o
        ELSE IF price = None THEN r
        ELSE [r EXCEPT !.acc_sum = @ + r.last_price * Elapsed(o, t), !.acc_seconds = @ + Elapsed(o, t),
                       !.last_price = price, !.last_ts = t, !.seen = @ + 1]

-----------------------------------------------------------------------------
(***************************************************************************)
(* The quote                                                               *)
(***************************************************************************)
ANNUAL_USD == <<10000, 2500, 800, 400, 100>>
MINIMUM_USD == 20
FOREVER_MULTIPLE == 3

AnnualUsd(length) == IF length <= Len(ANNUAL_USD) THEN ANNUAL_USD[length] ELSE MINIMUM_USD

(* The price of a name of a length for a number of years, or for ever *)
Usd(length, years) == AnnualUsd(length) * (IF years = None THEN FOREVER_MULTIPLE ELSE years)

(* Oracle::quote_at *)
QuoteAt(r, length, years) ==
    IF Usd(length, years) * r > MAX_MONEY THEN None ELSE Usd(length, years) * r

-----------------------------------------------------------------------------
Start(price, t) ==
    /\ oracle = NewOracle(price, t)
    /\ average = [sum |-> price, seconds |-> 1]
    /\ born = t
    /\ billed = 0

Init ==
    /\ now = 0
    /\ \E p \in RoundPrices \ {None} : Start(p, 0)
    /\ phase = "wait"
    /\ rate = oracle.daily_rate
    /\ payments = {}

(* Blocks are applied, or rewound and applied; one may carry a payment. *)
CatchUp(t, paid) ==
    /\ phase = "wait"
    /\ oracle.attempted < MaxRounds \/ Today(t) > oracle.current_day
    /\ now' = t
    /\ payments' = IF paid THEN {oracle.daily_rate} ELSE {}
    /\ phase' = "price"
    /\ UNCHANGED <<oracle, average, rate, born, billed>>

(* Fault: the rate is read after the round. *)
PriceRoundFirst(price) ==
    /\ phase = "price"
    /\ oracle' = Accumulate(oracle, price, now)
    /\ rate' = oracle'.daily_rate
    /\ average' = IF now >= oracle.last_ts /\ Publishes(oracle, now)
                  THEN [sum |-> oracle.acc_sum, seconds |-> oracle.acc_seconds] ELSE average
    /\ billed' = billed + (IF oracle'.last_ts = oracle.last_ts THEN 0 ELSE Elapsed(oracle, now))
    /\ phase' = "check"
    /\ UNCHANGED <<now, payments, born>>

(* The rate is read, then the round folded. *)
PriceRound(price) ==
    /\ phase = "price"
    /\ rate' = oracle.daily_rate
    /\ oracle' = Accumulate(oracle, price, now)
    /\ average' = IF now >= oracle.last_ts /\ Publishes(oracle, now)
                  THEN [sum |-> oracle.acc_sum, seconds |-> oracle.acc_seconds] ELSE average
    /\ billed' = billed + (IF oracle'.last_ts = oracle.last_ts THEN 0 ELSE Elapsed(oracle, now))
    /\ phase' = "check"
    /\ UNCHANGED <<now, payments, born>>

(* The tip moved during the round: nothing is decided, and what was paid   *)
(* waits to be priced by a later pass.                                     *)
SkipPass ==
    /\ phase = "check"
    /\ phase' = "wait"
    /\ payments' = {}
    /\ UNCHANGED <<now, oracle, average, rate, born, billed>>

(* Every payment is priced at the rate the pass read. *)
Decide ==
    /\ phase = "check"
    /\ phase' = "wait"
    /\ payments' = {}
    /\ UNCHANGED <<now, oracle, average, rate, born, billed>>

(* Boot::start: an oracle of the first round that answers *)
Restart(price) ==
    /\ phase = "wait"
    /\ oracle' = NewOracle(price, now)
    /\ average' = [sum |-> price, seconds |-> 1]
    /\ born' = now
    /\ billed' = 0
    /\ rate' = oracle'.daily_rate
    /\ payments' = {}
    /\ UNCHANGED <<now, phase>>

Next ==
    \/ \E t \in 0 .. MaxTime, paid \in BOOLEAN : CatchUp(t, paid)
    \/ \E p \in RoundPrices : PriceRound(p)
    \/ SkipPass
    \/ Decide
    \/ \E p \in RoundPrices \ {None} : Restart(p)

Spec == Init /\ [][Next]_vars

-----------------------------------------------------------------------------
(***************************************************************************)
(* Properties                                                              *)
(***************************************************************************)

(* The variables have their types (Oracle).                                 *)
PricingTypeOK ==
    /\ now \in 0 .. MaxTime
    /\ DOMAIN oracle = DOMAIN NewOracle(1, 0)
    /\ \A f \in DOMAIN oracle : oracle[f] \in Nat
    /\ oracle.seen <= oracle.attempted
    /\ phase \in {"wait", "price", "check"}
    /\ payments \cup {rate} \subseteq Nat

(* A quote is never worth less than its tariff at the exact average of the  *)
(* prices the rate was published from, though two divisions are rounded on  *)
(* the way, and overcharges by no more than a zatoshi per dollar: by one    *)
(* whole zatoshi where the average rounds down and the exact rate is whole  *)
(* (zats_per_usd, quote_at).                                                *)
QuoteCoversTariff ==
    \A length \in 1 .. Len(ANNUAL_USD) + 1, years \in {1, 2, None} :
        LET quote == QuoteAt(oracle.daily_rate, length, years)
            tariff == Usd(length, years)
        IN  quote # None =>
              /\ quote * average.sum >= tariff * (COIN * ONE) * average.seconds
              /\ (quote - tariff) * average.sum <= tariff * (COIN * ONE) * average.seconds

(* One dishonest venue never moves the published rate out of the band of    *)
(* the honest prices, through outages, reorgs and restarts, and the quotes  *)
(* it gives cover their tariff (aggregate: below the quorum the trusted     *)
(* venue alone, never a mean of two; zats_per_usd).                         *)
RateInHonestBand ==
    /\ PricingTypeOK
    /\ QuoteCoversTariff
    /\ oracle.daily_rate \in ZatsPerUsd(Max(HonestPrices), 1) .. ZatsPerUsd(Min(HonestPrices), 1)

(* Every second between the first round and the last is weighed exactly     *)
(* once, however the clock moves back and forth (Oracle::accumulate: those  *)
(* seconds are already billed).                                             *)
SecondsBilledOnce == billed = oracle.last_ts - born

(* A payment decided in the pass that saw it is priced at the rate that     *)
(* stood when it was seen (the run loop: a day this round publishes does    *)
(* not reprice it).                                                         *)
PricedAtFirstSight == [][Decide => payments \subseteq {rate}]_vars
=============================================================================
