-------------------------------- MODULE Clock --------------------------------
(***************************************************************************)
(* The mint's clock and what is reckoned by it: the median of the last     *)
(* headers (src/mint/mtp.rs), the expiry of a registration and its renewal *)
(* (src/mint/note.rs) and the falling price of a clock listing             *)
(* (src/mint/sale.rs).                                                     *)
(*                                                                         *)
(* One name is followed.  Its record after every block is kept beside the  *)
(* headers, so that a rewind restores it; the order that was authorized    *)
(* last survives a rewind, as its transaction does in the node's mempool.  *)
(***************************************************************************)
EXTENDS Integers, Sequences, SequencesExt, FiniteSetsExt

CONSTANTS
    Never,                  \* Expiry::Never
    Forever,                \* Term::Forever
    Nothing,                \* None
    Unclaimed,
    WINDOW,                 \* MTP_WINDOW
    MAX_TIME_SINCE_MEDIAN,
    YEAR,                   \* LIVENESS_INTERVAL
    MAX_TERM_YEARS,
    Years,                  \* the terms customers ask for
    FirstTimes,             \* header times of the first window
    Prices,                 \* start and least prices of a clock listing
    Ends,                   \* its last block
    MaxHeight               \* bound: blocks applied

ASSUME ClockAssumption ==
    /\ {WINDOW, MAX_TIME_SINCE_MEDIAN, YEAR, MAX_TERM_YEARS} \subseteq Nat \ {0}
    /\ Years \subseteq 1 .. MAX_TERM_YEARS
    /\ FirstTimes \cup Prices \cup {MaxHeight} \subseteq Nat
    /\ Ends \subseteq WINDOW .. MaxHeight
    /\ {Never, Forever, Nothing, Unclaimed} \cap Nat = {} /\ Nothing # Unclaimed

VARIABLES
    headers,        \* header times of the applied chain
    records,        \* the name's expiry after each of them
    order,          \* the expiry of the transition in flight, or Nothing
    ask,            \* Ask::Dutch: a clock listing
    peak            \* auxiliary: the latest median so far

clockVars == <<headers, records, order, ask, peak>>

Terms == Years \cup {Forever}

Height == Len(headers)

-----------------------------------------------------------------------------
(***************************************************************************)
(* MtpTracker                                                              *)
(***************************************************************************)
WindowAt(h) == SubSeq(headers, IF h > WINDOW THEN h - WINDOW + 1 ELSE 1, h)

(* MtpTracker::current: the time that a sort leaves at index len / 2,      *)
(* counted from 0                                                          *)
Current(times) ==
    CHOOSE t \in Range(times) :
        /\ Cardinality({i \in DOMAIN times : times[i] < t}) <= Len(times) \div 2
        /\ Cardinality({i \in DOMAIN times : times[i] <= t}) > Len(times) \div 2

MedianAt(h) == Current(WindowAt(h))
Median == MedianAt(Height)

(* Fault: a header at the median passes. *)
HeaderTimeAt(t, median) == t >= median /\ t <= median + MAX_TIME_SINCE_MEDIAN

(* MtpTracker::header_time_ok: any other header ends the process *)
HeaderTimeOk(t, median) == t > median /\ t <= median + MAX_TIME_SINCE_MEDIAN

-----------------------------------------------------------------------------
(***************************************************************************)
(* Expiry and Term                                                         *)
(***************************************************************************)
Expired(expiry, mtp) == expiry \in Nat /\ mtp >= expiry

Duration(term) == IF term = Forever THEN 0 ELSE term * YEAR

ClaimExpiry(term, mtp) == IF term = Forever THEN Never ELSE mtp + Duration(term)

(* The period with its term banked, before the horizon is checked *)
ExtendFreely(expiry, term) ==
    IF term = Nothing THEN expiry
    ELSE IF expiry = Never THEN Nothing
    ELSE IF term = Forever THEN Never
    ELSE expiry + Duration(term)

(* Fault: the horizon itself is out of reach. *)
ExtendBelow(expiry, term, mtp) ==
    LET extended == ExtendFreely(expiry, term)
    IN  IF extended \in Nat /\ extended >= mtp + MAX_TERM_YEARS * YEAR THEN Nothing ELSE extended

(* The successor expiry, or Nothing *)
Extend(expiry, term, mtp) ==
    LET extended == ExtendFreely(expiry, term)
    IN  IF extended \in Nat /\ extended > mtp + MAX_TERM_YEARS * YEAR THEN Nothing ELSE extended

-----------------------------------------------------------------------------
(***************************************************************************)
(* Clock: a falling price                                                  *)
(***************************************************************************)
IsValid(c) == c.end > c.start /\ c.start_price > c.min_price

(* Fault: the block after the last one is part of the span. *)
PriceAtLonger(c, h) ==
    c.start_price - ((c.start_price - c.min_price) * (h - c.start)) \div (c.end + 1 - c.start)

(* The price of a height of the span, in whole zatoshis *)
PriceAt(c, h) ==
    c.start_price - ((c.start_price - c.min_price) * (h - c.start)) \div (c.end - c.start)

-----------------------------------------------------------------------------
ClockInit ==
    /\ headers \in UNION {[1 .. n -> FirstTimes] : n \in 1 .. WINDOW}
    /\ records = [i \in DOMAIN headers |-> Unclaimed]
    /\ order = Nothing
    /\ ask \in {c \in [start_price : Prices, min_price : Prices, start : {WINDOW},
                       end : Ends] : IsValid(c)}
    /\ peak = Median

(* A block, which may carry the transition in flight *)
ApplyBlock(t, mined) ==
    /\ Height < MaxHeight
    /\ mined => order # Nothing
    /\ HeaderTimeOk(t, Median)
    /\ headers' = Append(headers, t)
    /\ records' = Append(records, IF mined THEN order ELSE Last(records))
    /\ order' = IF mined THEN Nothing ELSE order
    /\ peak' = IF Median' > peak THEN Median' ELSE peak
    /\ UNCHANGED ask

(* Blocks are orphaned, and the window read again. *)
Rewind(h) ==
    /\ h \in WINDOW .. Height - 1
    /\ headers' = SubSeq(headers, 1, h)
    /\ records' = SubSeq(records, 1, h)
    /\ UNCHANGED <<order, ask, peak>>

(* A claim, decided by the clock of the tip *)
AuthorizeClaim(term) ==
    /\ order = Nothing
    /\ Last(records) = Unclaimed
    /\ order' = ClaimExpiry(term, Median)
    /\ UNCHANGED <<headers, records, ask, peak>>

(* An update of a live name; a refusal changes nothing *)
AuthorizeUpdate(term) ==
    /\ order = Nothing
    /\ Last(records) # Unclaimed
    /\ ~Expired(Last(records), Median)
    /\ order' = Extend(Last(records), term, Median)
    /\ UNCHANGED <<headers, records, ask, peak>>

(* The lifecycle release of a name whose term has passed *)
ReleaseExpired ==
    /\ order = Nothing
    /\ Last(records) # Unclaimed
    /\ Expired(Last(records), Median)
    /\ order' = Unclaimed
    /\ UNCHANGED <<headers, records, ask, peak>>

ClockNext ==
    \/ \E t \in Median .. Median + MAX_TIME_SINCE_MEDIAN + 1, mined \in BOOLEAN :
          ApplyBlock(t, mined)
    \/ \E h \in 1 .. MaxHeight : Rewind(h)
    \/ \E term \in Terms : AuthorizeClaim(term)
    \/ \E term \in Terms \cup {Nothing} : AuthorizeUpdate(term)
    \/ ReleaseExpired

ClockSpec == ClockInit /\ [][ClockNext]_clockVars

-----------------------------------------------------------------------------
(***************************************************************************)
(* Properties                                                              *)
(***************************************************************************)

(* The variables have their types: every header has the record it left      *)
(* (MtpTracker, Expiry).                                                    *)
ClockTypeOK ==
    /\ headers \in Seq(Nat) /\ Height \in 1 .. MaxHeight
    /\ Len(records) = Height
    /\ Range(records) \cup {order} \subseteq Nat \cup {Never, Unclaimed, Nothing}
    /\ Nothing \notin Range(records)
    /\ IsValid(ask)
    /\ peak \in Nat

(* However the header times jump within their bounds, the clock never falls *)
(* as the chain grows, so a deadline it passed stays passed, and cannot     *)
(* stand still: half a window of blocks moves it, so every deadline is      *)
(* reached while blocks come (header_time_ok, current).                     *)
MedianAdvances ==
    /\ \A h \in WINDOW + 1 .. Height : MedianAt(h) >= MedianAt(h - 1)
    /\ \A h \in WINDOW .. Height :
         h + WINDOW \div 2 + 1 <= Height => MedianAt(h + WINDOW \div 2 + 1) > MedianAt(h)

(* An update that buys no term leaves the period of every live name         *)
(* unchanged (Expiry::extend: None leaves the period unchanged), unless a   *)
(* reorg has set the clock back: the horizon moves back with it.            *)
UpdateKeepsTerm ==
    /\ ClockTypeOK
    /\ Last(records) # Unclaimed /\ Median = peak =>
         Extend(Last(records), Nothing, Median) = Last(records)

(* A clock listing quotes its start price at its first block and its least  *)
(* price at its last, and in between the line from one to the other rounded *)
(* up, so that the price never rises and never undercuts the line           *)
(* (Clock::price_at).                                                       *)
PriceFollowsLine ==
    Height \in ask.start .. ask.end =>
        LET span == ask.end - ask.start
            line == ask.start_price * span - (ask.start_price - ask.min_price) * (Height - ask.start)
            price == PriceAt(ask, Height)
        IN  /\ price * span >= line /\ (price - 1) * span < line
            /\ price \in ask.min_price .. ask.start_price
=============================================================================
