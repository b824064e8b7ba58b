-------------------------------- MODULE Memos --------------------------------
(***************************************************************************)
(* The memo grammars: what the Treasury is told (src/mint.rs), the market  *)
(* sentences and amounts (src/mint/sale.rs) and the Name Note              *)
(* (src/mint/note.rs).                                                     *)
(*                                                                         *)
(* A memo is the sequence of its fields.  A field is a record that keeps   *)
(* what the parsers tell apart: a word, digits, an amount with a point, a  *)
(* number of years, a unified or a transparent address, a commitment.  The *)
(* same field may be several things: digits are a name, a code, a height,  *)
(* an amount and an expiry.                                                *)
(***************************************************************************)
EXTENDS Integers, Sequences, SequencesExt, FiniteSets, FiniteSetsExt

CONSTANTS
    BASE,               \* digits a numeral is written with
    CODE_LEN,           \* digits of a code
    DECIMALS,           \* digits after the point
    MAX_MONEY,          \* the largest amount
    MaxTermYears,       \* MAX_TERM_YEARS
    MaxDigits,          \* bound: digits of a field
    MaxEdits            \* bound: fields a sender changes

ASSUME MemosAssumption ==
    /\ BASE \in Nat \ {0, 1}
    /\ {CODE_LEN, DECIMALS, MaxTermYears, MaxDigits} \subseteq Nat \ {0}
    /\ {MAX_MONEY, MaxEdits} \subseteq Nat

VARIABLES
    memo,           \* the memo on its way to the mint
    sent,           \* what was encoded in it
    edits           \* fields changed since

memoVars == <<memo, sent, edits>>

-----------------------------------------------------------------------------
(***************************************************************************)
(* Fields                                                                  *)
(***************************************************************************)
Numerals == UNION {[1 .. n -> 0 .. BASE - 1] : n \in 1 .. MaxDigits}

Value(s) == FoldLeft(LAMBDA n, d : n * BASE + d, 0, s)

(* No leading zero, except zero itself *)
Canonical(s) == Len(s) = 1 \/ s[1] # 0

Numeral(n) == CHOOSE s \in Numerals : Canonical(s) /\ Value(s) = n

Word(w) == [word |-> w]
Digits(s) == [digits |-> s]
Decimal(s, f) == [digits |-> s, frac |-> f]
YearsOf(s) == [years |-> s]
Ua(u) == [ua |-> u]
T1(t) == [t1 |-> t]
Hash(h) == [hash |-> h]

Verbs == {"claim", "update", "release", "sale", "list", "delist", "auction"}
Words == Verbs \cup {"otp", "buy", "buyotp", "dutch", "held", "wait", "none", "forever", "alice"}

(* Name::parse: lower-case words, digits, and a term too *)
NameFields == {Word(w) : w \in Words} \cup {Digits(s) : s \in Numerals} \cup {YearsOf(s) : s \in Numerals}

(* decode_controller_ua: known receivers, one of them shielded *)
UaFields == {Ua("shielded")}
AnyUa == UaFields \cup {Ua("transparent")}

(* decode_t1: a public-key-hash address *)
T1Fields == {T1("p2pkh")}

(* AccessCode::parse, OtpCode::from_digits *)
CodeFields == {Digits(s) : s \in {s \in Numerals : Len(s) = CODE_LEN}}

(* Term::parse *)
TermFields ==
    {Word("forever")} \cup
    {YearsOf(s) : s \in {s \in Numerals : s[1] # 0 /\ Value(s) <= MaxTermYears}}

(* Expiry::parse *)
ExpiryFields == {Word("none")} \cup {Digits(s) : s \in {s \in Numerals : Canonical(s)}}

(* decode_height *)
HeightFields == {Digits(s) : s \in {s \in Numerals : Canonical(s)}}

-----------------------------------------------------------------------------
(***************************************************************************)
(* Amounts                                                                 *)
(***************************************************************************)
UNIT == BASE ^ DECIMALS

FracOf(f) == IF "frac" \in DOMAIN f THEN f.frac ELSE << >>

ZecValue(f) ==
    Value(f.digits) * UNIT + Value([i \in 1 .. DECIMALS |-> IF i <= Len(FracOf(f)) THEN FracOf(f)[i] ELSE 0])

(* decode_zec *)
ZecFields ==
    LET fracs == UNION {[1 .. n -> 0 .. BASE - 1] : n \in 0 .. DECIMALS}
        wholes == {s \in Numerals : Canonical(s)}
        fields == {Digits(s) : s \in wholes} \cup {Decimal(s, f) : s \in wholes, f \in fracs}
    IN  {f \in fields : ZecValue(f) <= MAX_MONEY}

Trimmed(s) == SubSeq(s, 1, Max({i \in DOMAIN s : s[i] # 0}))

(* Fault: the fraction is not padded. *)
EncodeZecUnpadded(zats) ==
    IF zats % UNIT = 0 THEN Digits(Numeral(zats \div UNIT))
    ELSE Decimal(Numeral(zats \div UNIT), Trimmed(Numeral(zats % UNIT)))

EncodeZec(zats) ==
    IF zats % UNIT = 0 THEN Digits(Numeral(zats \div UNIT))
    ELSE Decimal(Numeral(zats \div UNIT),
                 Trimmed([i \in 1 .. DECIMALS |-> ((zats % UNIT) \div BASE ^ (DECIMALS - i)) % BASE]))

(* Clock::is_valid of the four fields after a t1 *)
ClockFalls(m, i) ==
    /\ ZecValue(m[i]) > ZecValue(m[i + 1])
    /\ Value(m[i + 3].digits) > Value(m[i + 2].digits)

-----------------------------------------------------------------------------
(***************************************************************************)
(* Grammars: a form is what each field may be                              *)
(***************************************************************************)
Lit(w) == {Word(w)}
Fits(m, form) == Len(m) = Len(form) /\ \A i \in DOMAIN form : m[i] \in form[i]

(* A memo with fields left over *)
FitsPrefix(m, form) == Len(m) >= Len(form) /\ \A i \in DOMAIN form : m[i] \in form[i]

ClaimForm == <<Lit("ZNS"), Lit("claim"), TermFields, NameFields, UaFields>>
CodedClaimForm == <<Lit("ZNS"), Lit("claim"), CodeFields, TermFields, NameFields, UaFields>>
UpdateForm == <<Lit("ZNS"), Lit("update"), TermFields \cup Lit("none"), NameFields, UaFields>>
ReleaseForm == <<Lit("ZNS"), Lit("release"), NameFields, UaFields>>

(* Fault: a field left unread is let pass. *)
IsRequestPrefix(m) ==
    \E form \in {ClaimForm, CodedClaimForm, UpdateForm, ReleaseForm} : FitsPrefix(m, form)

(* Request::decode *)
IsRequest(m) == \E form \in {ClaimForm, CodedClaimForm, UpdateForm, ReleaseForm} : Fits(m, form)

ListForm == <<Lit("ZNS"), Lit("list"), NameFields, UaFields, T1Fields, ZecFields>>
AuctionForm == <<Lit("ZNS"), Lit("auction"), NameFields, UaFields, T1Fields, ZecFields, ZecFields,
                 HeightFields, HeightFields>>
DelistForm == <<Lit("ZNS"), Lit("delist"), NameFields, UaFields>>
BuyForm == <<Lit("ZNS"), Lit("buy"), NameFields, UaFields>>

(* MarketRequest::decode *)
IsMarket(m) ==
    \/ \E form \in {ListForm, DelistForm, BuyForm} : Fits(m, form)
    \/ Fits(m, AuctionForm) /\ ClockFalls(m, 6)

OtpForm(verbs) == <<Lit("ZNS"), Lit("otp"), CodeFields, NameFields, {Word(v) : v \in verbs}, UaFields>>

(* OtpMemo::decode *)
IsResponse(m) ==
    \/ Fits(m, OtpForm({"update", "release", "delist"}))
    \/ Fits(m, OtpForm({"list"}) \o <<T1Fields, ZecFields>>)
    \/ /\ Fits(m, OtpForm({"auction"}) \o <<T1Fields, ZecFields, ZecFields, HeightFields, HeightFields>>)
       /\ ClockFalls(m, 8)

NoteForm(verbs, expiries, hashes) ==
    <<Lit("ZNS"), {Word(v) : v \in verbs}, NameFields, AnyUa, expiries, hashes>>

(* NameNote::decode, which also encodes again and compares *)
IsNote(m) ==
    \/ Fits(m, NoteForm({"claim"}, ExpiryFields, {Hash("zero")}))
    \/ Fits(m, NoteForm({"update", "sale"}, ExpiryFields, {Hash("rcm")}))
    \/ Fits(m, NoteForm({"release"}, Lit("none"), {Hash("rcm")}))

(* BuyOtp::encode and returned_intent: what the mint says to a buyer *)
IsReply(m) ==
    \/ Fits(m, <<Lit("ZNS"), Lit("buyotp"), CodeFields, NameFields, UaFields>>)
    \/ Fits(m, <<Lit("ZNS"), Lit("dutch"), CodeFields, NameFields, UaFields, ZecFields, HeightFields>>)
    \/ Fits(m, <<Lit("ZNS"), Lit("held"), NameFields, HeightFields>>)
    \/ Fits(m, <<Lit("ZNS"), Lit("wait"), NameFields, HeightFields>>)

(* MintInbound::decode *)
Inbound(m) ==
    IF IsResponse(m) THEN "response"
    ELSE IF IsRequest(m) THEN "request"
    ELSE IF IsMarket(m) THEN "market"
    ELSE "unrecognized"

-----------------------------------------------------------------------------
(***************************************************************************)
(* What the mint writes, and what it reads back                            *)
(***************************************************************************)
SomeNames == {Word("alice"), Word("none"), Word("claim"), YearsOf(<<1>>), Digits(<<1, 0>>)}
Amounts == 0 .. MAX_MONEY
NoTerms == [listed |-> FALSE]

(* OtpMemo: its fields, amounts by their value *)
Challenges ==
    [kind : {"response"}, code : CodeFields, name : SomeNames, action : {"update", "release", "delist"},
     terms : {NoTerms}]
    \cup [kind : {"response"}, code : CodeFields, name : {Word("alice")}, action : {"list"},
          terms : [price : Amounts]]
    \cup [kind : {"response"}, code : {Digits([i \in 1 .. CODE_LEN |-> 0])}, name : {Word("alice")},
          action : {"auction"},
          terms : {t \in [start_price : Amounts, min_price : Amounts, start : {1}, end : {2}] :
                       t.start_price > t.min_price}]

(* OtpMemo::encode *)
EncodeOtp(c) ==
    <<Word("ZNS"), Word("otp"), c.code, c.name, Word(c.action), Ua("shielded")>> \o
    (CASE c.action = "list" -> <<T1("p2pkh"), EncodeZec(c.terms.price)>>
       [] c.action = "auction" ->
            <<T1("p2pkh"), EncodeZec(c.terms.start_price), EncodeZec(c.terms.min_price),
              Digits(Numeral(c.terms.start)), Digits(Numeral(c.terms.end))>>
       [] OTHER -> << >>)

ReadOtp(m) ==
    [kind |-> "response", code |-> m[3], name |-> m[4], action |-> m[5].word,
     terms |-> CASE m[5].word = "list" -> [price |-> ZecValue(m[8])]
                 [] m[5].word = "auction" ->
                      [start_price |-> ZecValue(m[8]), min_price |-> ZecValue(m[9]),
                       start |-> Value(m[10].digits), end |-> Value(m[11].digits)]
                 [] OTHER -> NoTerms]

(* NameNote; a claim has no predecessor, a release no expiry *)
Notes ==
    {n \in [kind : {"note"}, action : {"claim", "update", "sale", "release"}, name : SomeNames,
            expiry : {Word("none"), Digits(<<1>>)}, prev : {Hash("zero"), Hash("rcm")}] :
        /\ n.action = "claim" <=> n.prev = Hash("zero")
        /\ n.action = "release" => n.expiry = Word("none")}

(* NameNote::encode *)
EncodeNote(n) == <<Word("ZNS"), Word(n.action), n.name, Ua("shielded"), n.expiry, n.prev>>

ReadNote(m) ==
    [kind |-> "note", action |-> m[2].word, name |-> m[3], expiry |-> m[5], prev |-> m[6]]

(* BuyOtp, ReturnedIntent *)
Replies ==
    [kind : {"reply"}, verb : {"buyotp", "dutch"}, code : CodeFields, name : SomeNames]
    \cup [kind : {"reply"}, verb : {"held", "wait"}, code : {Digits(<<1>>)}, name : SomeNames]

EncodeReply(r) ==
    CASE r.verb = "buyotp" -> <<Word("ZNS"), Word("buyotp"), r.code, r.name, Ua("shielded")>>
      [] r.verb = "dutch" ->
           <<Word("ZNS"), Word("dutch"), r.code, r.name, Ua("shielded"), EncodeZec(1), Digits(<<1>>)>>
      [] OTHER -> <<Word("ZNS"), Word(r.verb), r.name, r.code>>

(* What customers write *)
Written ==
    LET zns == Word("ZNS")
        ua == Ua("shielded")
        t1 == T1("p2pkh")
    IN  {<<zns, Word("claim"), t, n, ua>> : t \in TermFields, n \in SomeNames}
        \cup {<<zns, Word("claim"), c, t, n, ua>> : c \in CodeFields, t \in TermFields, n \in SomeNames}
        \cup {<<zns, Word("update"), t, n, ua>> : t \in TermFields \cup Lit("none"), n \in SomeNames}
        \cup {<<zns, Word(v), n, ua>> : v \in {"release", "delist", "buy"}, n \in SomeNames}
        \cup {<<zns, Word("list"), n, ua, t1, EncodeZec(a)>> : n \in SomeNames, a \in Amounts}
        \cup {<<zns, Word("auction"), n, ua, t1, EncodeZec(a), EncodeZec(0), Digits(<<0>>), Digits(<<1>>)>> :
                  n \in SomeNames, a \in Amounts \ {0}}

-----------------------------------------------------------------------------
(***************************************************************************)
(* A memo is sent as it is written, or with fields changed, taken out or   *)
(* put in.                                                                 *)
(***************************************************************************)
Encode(x) ==
    CASE x.kind = "response" -> EncodeOtp(x)
      [] x.kind = "note" -> EncodeNote(x)
      [] x.kind = "reply" -> EncodeReply(x)

Fields ==
    NameFields \cup ZecFields \cup AnyUa
      \cup {Word("ZNS"), T1("p2pkh"), T1("p2sh"), Hash("zero"), Hash("rcm")}

MemoInit ==
    /\ \/ sent \in Challenges \cup Notes \cup Replies /\ memo = Encode(sent)
       \/ sent = [kind |-> "written"] /\ memo \in Written
    /\ edits = 0

Change(i, f) ==
    /\ edits < MaxEdits
    /\ i \in DOMAIN memo
    /\ memo' = [memo EXCEPT ![i] = f]
    /\ edits' = edits + 1
    /\ UNCHANGED sent

TakeOut(i) ==
    /\ edits < MaxEdits
    /\ i \in DOMAIN memo
    /\ memo' = RemoveAt(memo, i)
    /\ edits' = edits + 1
    /\ UNCHANGED sent

PutIn(i, f) ==
    /\ edits < MaxEdits
    /\ i \in 1 .. Len(memo) + 1
    /\ memo' = InsertAt(memo, i, f)
    /\ edits' = edits + 1
    /\ UNCHANGED sent

MemoNext ==
    \/ \E i \in 1 .. 12, f \in Fields : Change(i, f)
    \/ \E i \in 1 .. 12 : TakeOut(i)
    \/ \E i \in 1 .. 12, f \in Fields : PutIn(i, f)

MemoSpec == MemoInit /\ [][MemoNext]_memoVars

-----------------------------------------------------------------------------
(***************************************************************************)
(* Properties                                                              *)
(***************************************************************************)

(* No memo has two readings: a response, a request, a market sentence, a    *)
(* Name Note and a reply to a buyer exclude each other, so the order in     *)
(* which the mint tries its grammars decides nothing (MintInbound::decode,  *)
(* BuyOtp: a wallet cannot read it as a challenge).                         *)
OneReading ==
    Cardinality({k \in 1 .. 5 :
        CASE k = 1 -> IsResponse(memo)
          [] k = 2 -> IsRequest(memo)
          [] k = 3 -> IsMarket(memo)
          [] k = 4 -> IsNote(memo)
          [] k = 5 -> IsReply(memo)}) <= 1

(* A challenge that comes back as it was sent is read as that challenge,    *)
(* its amounts to the zatoshi; a Name Note is read as that note by the scan *)
(* that rebuilds the registry; and no other sentence of the mint is an      *)
(* instruction when it comes back (OtpMemo::encode, NameNote::encode,       *)
(* decode_zec).                                                             *)
ReadsBack ==
    edits = 0 =>
        CASE sent.kind = "response" -> Inbound(memo) = "response" /\ ReadOtp(memo) = sent
          [] sent.kind = "written" -> Inbound(memo) \in {"request", "market"}
          [] sent.kind = "note" ->
                Inbound(memo) = "unrecognized" /\ IsNote(memo) /\ ReadNote(memo) = sent
          [] OTHER -> Inbound(memo) = "unrecognized"

=============================================================================
