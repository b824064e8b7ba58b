---------------------------- MODULE MarketProofs ----------------------------
(***************************************************************************)
(* Proofs about Market, for every set of names, addresses, prices and      *)
(* codes, every chain, reorg and restart: the log rebuilds the book, the   *)
(* book is current, a payment names one buy, and quotes are honoured.      *)
(*                                                                         *)
(* Replay is a recursion over the log, so what it computes is proved by    *)
(* induction over the log: first what one event, or a run of events of one *)
(* kind, does to the book being rebuilt.  On this rests, for each          *)
(* operation, that the log it leaves rebuilds the book it leaves and says  *)
(* nothing new about lower blocks (Grown).  The invariant MarketInv then   *)
(* speaks of every block at once: of the book the log gives for it, of the *)
(* boot scan that stood there, and of the orders pending there, since a    *)
(* rewind brings all three back.                                           *)
(***************************************************************************)
EXTENDS Market, OrderLemmas

-----------------------------------------------------------------------------
(***************************************************************************)
(* Replaying a log                                                         *)
(***************************************************************************)

(* One event of the log, met while replaying to a height *)
Met(b, e, h) ==
    IF e.height <= h THEN [Apply(b, e) EXCEPT !.events = Append(@, e)] ELSE b

IsReplay(g, evs, h, n) ==
    g = [k \in 0 .. n |-> IF k = 0 THEN EmptyBook ELSE Met(g[k - 1], evs[k], h)]

LEMMA ReplayExists ==
    ASSUME NEW evs, NEW h, NEW n \in Nat
    PROVE  \E g : IsReplay(g, evs, h, n)
<1> DEFINE T == {k \in Nat : \E g : IsReplay(g, evs, h, k)}
<1>1. 0 \in T
  <2> DEFINE g == [k \in 0 .. 0 |-> EmptyBook]
  <2>1. IsReplay(g, evs, h, 0)
    BY DEF IsReplay
  <2> QED BY <2>1
<1>2. ASSUME NEW m \in T PROVE m + 1 \in T
  <2>1. PICK f : IsReplay(f, evs, h, m)
    OBVIOUS
  <2>2. m \in Nat
    OBVIOUS
  <2> DEFINE g == [k \in 0 .. m + 1 |-> IF k = m + 1 THEN Met(f[m], evs[m + 1], h) ELSE f[k]]
  <2>3. \A k \in 0 .. m : g[k] = f[k]
    BY <2>2
  <2>4. g[m + 1] = Met(f[m], evs[m + 1], h)
    BY <2>2
  <2>5. \A k \in 0 .. m : f[k] = IF k = 0 THEN EmptyBook ELSE Met(f[k - 1], evs[k], h)
    BY <2>1 DEF IsReplay
  <2> DEFINE G == [k \in 0 .. m + 1 |-> IF k = 0 THEN EmptyBook ELSE Met(g[k - 1], evs[k], h)]
  <2>6. ASSUME NEW k \in 0 .. m + 1 PROVE g[k] = G[k]
    <3> HIDE DEF g
    <3>1. CASE k = m + 1
      <4>1. k # 0 /\ k - 1 = m /\ m \in 0 .. m
        BY <2>2, <3>1
      <4> QED BY <2>3, <2>4, <3>1, <4>1
    <3>2. CASE k # m + 1
      <4>1. k \in 0 .. m /\ (k # 0 => k - 1 \in 0 .. m)
        BY <2>2, <3>2
      <4> QED BY <2>3, <2>5, <4>1
    <3> QED BY <3>1, <3>2
  <2>7. g = G
    BY <2>6
  <2>8. IsReplay(g, evs, h, m + 1)
    <3> HIDE DEF g
    <3> QED BY <2>7 DEF IsReplay
  <2> QED BY <2>2, <2>8
<1>3. T \subseteq Nat
    OBVIOUS
<1> HIDE DEF T
<1>4. n \in T
    BY <1>1, <1>2, <1>3, SetInduction
<1> QED BY <1>4 DEF T

LEMMA ReplaysAgree ==
    ASSUME NEW evs, NEW fvs, NEW h, NEW n \in Nat, NEW f, NEW g,
           IsReplay(f, evs, h, n), IsReplay(g, fvs, h, n + 1),
           \A i \in 1 .. n : evs[i] = fvs[i]
    PROVE  f[n] = g[n]
<1> DEFINE T == {j \in Nat : j <= n => f[j] = g[j]}
<1>1. \A j \in 0 .. n : f[j] = IF j = 0 THEN EmptyBook ELSE Met(f[j - 1], evs[j], h)
    BY DEF IsReplay
<1>2. \A j \in 0 .. n + 1 : g[j] = IF j = 0 THEN EmptyBook ELSE Met(g[j - 1], fvs[j], h)
    BY DEF IsReplay
<1>3. 0 \in T
    BY <1>1, <1>2
<1>4. ASSUME NEW j \in T PROVE j + 1 \in T
  <2>1. SUFFICES ASSUME j + 1 <= n PROVE f[j + 1] = g[j + 1]
    OBVIOUS
  <2>2. /\ j \in Nat /\ j <= n /\ j + 1 \in 0 .. n /\ j + 1 \in 0 .. n + 1 /\ j + 1 # 0
        /\ j + 1 \in 1 .. n /\ (j + 1) - 1 = j
    BY <2>1
  <2>3. f[j + 1] = Met(f[j], evs[j + 1], h) /\ g[j + 1] = Met(g[j], fvs[j + 1], h)
    BY <1>1, <1>2, <2>2
  <2> QED BY <2>2, <2>3
<1>5. T \subseteq Nat
    OBVIOUS
<1> HIDE DEF T
<1>6. n \in T
    BY <1>3, <1>4, <1>5, SetInduction
<1> QED BY <1>6 DEF T

LEMMA ReplayIs ==
    ASSUME NEW evs, NEW h
    PROVE  Replay(evs, h) = (CHOOSE g : IsReplay(g, evs, h, Len(evs)))[Len(evs)]
BY DEF Replay, IsReplay, Met

LEMMA ReplayNil == ASSUME NEW h PROVE Replay(<< >>, h) = EmptyBook
<1> DEFINE g == CHOOSE f : IsReplay(f, << >>, h, Len(<< >>))
<1>1. Len(<< >>) = 0
    OBVIOUS
<1>2. IsReplay(g, << >>, h, 0)
    BY <1>1, ReplayExists
<1> HIDE DEF g
<1>3. g[0] = EmptyBook
    BY <1>2 DEF IsReplay
<1> QED BY <1>1, <1>3, ReplayIs DEF g

LEMMA ReplayAppend ==
    ASSUME NEW S, NEW evs \in Seq(S), NEW e \in S, NEW h
    PROVE  Replay(Append(evs, e), h) = Met(Replay(evs, h), e, h)
<1> DEFINE n == Len(evs)
           fvs == Append(evs, e)
           f == CHOOSE g : IsReplay(g, evs, h, n)
           g == CHOOSE k : IsReplay(k, fvs, h, n + 1)
<1>1. n \in Nat
    BY LenProperties
<1>2. Len(fvs) = n + 1 /\ fvs[n + 1] = e /\ \A i \in 1 .. n : evs[i] = fvs[i]
    BY AppendProperties
<1>3. IsReplay(f, evs, h, n)
    BY <1>1, ReplayExists
<1> HIDE DEF fvs
<1>4. IsReplay(g, fvs, h, n + 1)
  <2>1. n + 1 \in Nat
    BY <1>1
  <2> HIDE DEF n
  <2>2. \E k : IsReplay(k, fvs, h, n + 1)
    BY <2>1, ReplayExists
  <2> QED BY <2>2
<1>5. Replay(evs, h) = f[n]
    BY ReplayIs
<1>6. Replay(fvs, h) = g[n + 1]
    BY <1>2, ReplayIs
<1> HIDE DEF f, g, n
<1>7. f[n] = g[n]
  <2>1. \A i \in 1 .. n : evs[i] = fvs[i]
    BY <1>2
  <2> QED BY <1>1, <1>3, <1>4, <2>1, ReplaysAgree
<1>8. g[n + 1] = Met(g[n], fvs[n + 1], h)
  <2>1. n + 1 \in 0 .. n + 1 /\ n + 1 # 0 /\ (n + 1) - 1 = n
    BY <1>1
  <2> QED BY <1>4, <2>1 DEF IsReplay
<1> QED BY <1>2, <1>5, <1>6, <1>7, <1>8 DEF fvs

-----------------------------------------------------------------------------
(***************************************************************************)
(* The types of the book                                                   *)
(***************************************************************************)
Acts == {"claim", "update", "release", "sale"}
Held == Seq(Acts \X Addrs)

Sale == [name : Names, bob : Addrs, alice : Addrs, held : Held, dutch : BOOLEAN,
         until : Nat, code : Nat, pay_to : TAddrs, price : Int,
         paid : BOOLEAN, relayed : BOOLEAN]

Challenge == [terms : Terms, code : Nat, expires_at : Nat,
              relayed : BOOLEAN, attempts : Nat]

(* A challenge as the log has it *)
BareChallenge == {c \in Challenge : ~c.relayed /\ c.attempts = 0}

Receipt == [name : Names, code : Nat]

Event ==
    [height : Nat, type : {"list"}, body : Listing]
      \cup [height : Nat, type : {"delist", "expire", "close"}, body : Names]
      \cup [height : Nat, type : {"open"}, body : Sale]
      \cup [height : Nat, type : {"paid"}, body : Receipt]
      \cup [height : Nat, type : {"challenge"}, body : BareChallenge]
      \cup [height : Nat, type : {"challenge_closed"}, body : Nat]

(* Functions on some of the names *)
ByName(V) == UNION {[D -> V] : D \in SUBSET Names}

Book == [listings : ByName(Listing), sales : ByName(Sale),
         challenges : SUBSET Challenge, events : Seq(Event)]

Named(b) ==
    /\ \A n \in DOMAIN b.listings : b.listings[n].name = n
    /\ \A n \in DOMAIN b.sales : b.sales[n].name = n

LEMMA ByNameIs ==
    ASSUME NEW V, NEW f
    PROVE  f \in ByName(V) <=> f \in [DOMAIN f -> V] /\ DOMAIN f \subseteq Names
BY DEF ByName

LEMMA EmptyByName == ASSUME NEW V PROVE << >> \in ByName(V) /\ DOMAIN << >> = {}
<1>1. << >> \in Seq(V) /\ Len(<< >>) = 0
    BY EmptySeq
<1>2. << >> \in [1 .. 0 -> V] /\ DOMAIN << >> = 1 .. 0
    BY <1>1, LenProperties
<1>3. 1 .. 0 = {}
    OBVIOUS
<1>4. << >> \in [{} -> V] /\ DOMAIN << >> = {}
    BY <1>2, <1>3
<1> QED BY <1>4 DEF ByName

LEMMA WithoutIs ==
    ASSUME NEW V, NEW f \in ByName(V), NEW S
    PROVE  /\ Without(f, S) \in ByName(V)
           /\ DOMAIN Without(f, S) = DOMAIN f \ S
           /\ \A n \in DOMAIN f \ S : Without(f, S)[n] = f[n]
<1>1. f \in [DOMAIN f -> V] /\ DOMAIN f \subseteq Names
    BY ByNameIs
<1>2. Without(f, S) = [n \in DOMAIN f \ S |-> f[n]]
    BY DEF Without, Restrict
<1>3. Without(f, S) \in [DOMAIN f \ S -> V]
    BY <1>1, <1>2
<1> QED BY <1>1, <1>2, <1>3, ByNameIs

LEMMA WithIs ==
    ASSUME NEW V, NEW f \in ByName(V), NEW n \in Names, NEW x \in V
    PROVE  /\ With(f, n, x) \in ByName(V)
           /\ DOMAIN With(f, n, x) = DOMAIN f \cup {n}
           /\ \A m \in DOMAIN f \cup {n} : With(f, n, x)[m] = IF m = n THEN x ELSE f[m]
<1>1. f \in [DOMAIN f -> V] /\ DOMAIN f \subseteq Names
    BY ByNameIs
<1>2. With(f, n, x) = [m \in DOMAIN f \cup {n} |-> IF m = n THEN x ELSE f[m]]
    BY DEF With
<1>3. With(f, n, x) \in [DOMAIN f \cup {n} -> V]
    BY <1>1, <1>2
<1> QED BY <1>1, <1>2, <1>3, ByNameIs

LEMMA SameByName ==
    ASSUME NEW V, NEW f \in ByName(V), NEW g \in ByName(V), DOMAIN f = DOMAIN g,
           \A n \in DOMAIN f : f[n] = g[n]
    PROVE  f = g
<1>1. f \in [DOMAIN f -> V] /\ g \in [DOMAIN g -> V]
    BY ByNameIs
<1> QED BY <1>1

LEMMA BookParts ==
    ASSUME NEW b \in Book
    PROVE  /\ b = [listings |-> b.listings, sales |-> b.sales,
                   challenges |-> b.challenges, events |-> b.events]
           /\ b.listings \in ByName(Listing) /\ b.sales \in ByName(Sale)
           /\ b.challenges \in SUBSET Challenge /\ b.events \in Seq(Event)
BY DEF Book

LEMMA EventKinds ==
    ASSUME NEW e \in Event
    PROVE  /\ e.height \in Nat
           /\ e.type = "list" => e.body \in Listing
           /\ e.type \in {"delist", "expire", "close"} => e.body \in Names
           /\ e.type = "open" => e.body \in Sale
           /\ e.type = "paid" => e.body \in Receipt
           /\ e.type = "challenge" => e.body \in BareChallenge
           /\ e.type = "challenge_closed" => e.body \in Nat
           /\ e.type \in {"list", "delist", "expire", "close", "open", "paid",
                          "challenge", "challenge_closed"}
BY DEF Event

(* The sales with one of them paid *)
WithPaid(sales, receipt) ==
    [n \in DOMAIN sales |-> IF n = receipt.name /\ sales[n].code = receipt.code
                            THEN [sales[n] EXCEPT !.paid = TRUE] ELSE sales[n]]

(* What an event does to each part of the book *)
ListingsAfter(b, e) ==
    IF e.type = "list" THEN With(b.listings, e.body.name, e.body)
    ELSE IF e.type = "delist" THEN Without(b.listings, {e.body})
    ELSE b.listings

SalesAfter(b, e) ==
    IF e.type = "open"
    THEN IF IsOpen(b, e.body.name) THEN b.sales ELSE With(b.sales, e.body.name, e.body)
    ELSE IF e.type = "paid" THEN WithPaid(b.sales, e.body)
    ELSE IF e.type \in {"expire", "close"} THEN Without(b.sales, {e.body})
    ELSE b.sales

ChallengesAfter(b, e) ==
    IF e.type = "challenge"
    THEN IF CodeIsOpen(b, e.body.code) THEN b.challenges ELSE b.challenges \cup {e.body}
    ELSE IF e.type = "challenge_closed" THEN {c \in b.challenges : c.code # e.body}
    ELSE b.challenges

LEMMA ApplyIs ==
    ASSUME NEW b \in Book, NEW e \in Event
    PROVE  Apply(b, e) = [listings |-> ListingsAfter(b, e), sales |-> SalesAfter(b, e),
                          challenges |-> ChallengesAfter(b, e), events |-> b.events]
<1> DEFINE B == [listings |-> b.listings, sales |-> b.sales,
                 challenges |-> b.challenges, events |-> b.events]
<1>1. b = B
    BY BookParts
<1>2. e.type \in {"list", "delist", "expire", "close", "open", "paid",
                  "challenge", "challenge_closed"}
    BY EventKinds
<1>3. CASE e.type = "list"
    BY <1>1, <1>3 DEF Apply, ListingsAfter, SalesAfter, ChallengesAfter
<1>4. CASE e.type = "delist"
    BY <1>1, <1>4 DEF Apply, ListingsAfter, SalesAfter, ChallengesAfter
<1>5. CASE e.type \in {"expire", "close"}
    BY <1>1, <1>5 DEF Apply, ListingsAfter, SalesAfter, ChallengesAfter
<1>6. CASE e.type = "open"
    BY <1>1, <1>6 DEF Apply, ListingsAfter, SalesAfter, ChallengesAfter
<1>7. CASE e.type = "paid"
    BY <1>1, <1>7 DEF Apply, ListingsAfter, SalesAfter, ChallengesAfter, WithPaid
<1>8. CASE e.type = "challenge"
    BY <1>1, <1>8 DEF Apply, ListingsAfter, SalesAfter, ChallengesAfter, CodeIsOpen
<1>9. CASE e.type = "challenge_closed"
    BY <1>1, <1>9 DEF Apply, ListingsAfter, SalesAfter, ChallengesAfter
<1> QED BY <1>2, <1>3, <1>4, <1>5, <1>6, <1>7, <1>8, <1>9

LEMMA PaidSale ==
    ASSUME NEW s \in Sale
    PROVE  /\ [s EXCEPT !.paid = TRUE] \in Sale
           /\ [s EXCEPT !.paid = TRUE].name = s.name
           /\ [s EXCEPT !.paid = TRUE].code = s.code
BY DEF Sale

LEMMA WithPaidIs ==
    ASSUME NEW f \in ByName(Sale), NEW r
    PROVE  /\ WithPaid(f, r) \in ByName(Sale)
           /\ DOMAIN WithPaid(f, r) = DOMAIN f
           /\ \A n \in DOMAIN f : WithPaid(f, r)[n] =
                IF n = r.name /\ f[n].code = r.code THEN [f[n] EXCEPT !.paid = TRUE] ELSE f[n]
<1>1. f \in [DOMAIN f -> Sale] /\ DOMAIN f \subseteq Names
    BY ByNameIs
<1>2. \A n \in DOMAIN f : f[n] \in Sale /\ [f[n] EXCEPT !.paid = TRUE] \in Sale
    BY <1>1, PaidSale
<1> DEFINE g == WithPaid(f, r)
<1>3. g = [n \in DOMAIN f |-> IF n = r.name /\ f[n].code = r.code
                              THEN [f[n] EXCEPT !.paid = TRUE] ELSE f[n]]
    BY DEF WithPaid
<1>4. g \in [DOMAIN f -> Sale]
    BY <1>2, <1>3
<1>5. DOMAIN g = DOMAIN f
    BY <1>3
<1>6. g \in ByName(Sale)
    BY <1>1, <1>4, <1>5, ByNameIs
<1> QED BY <1>3, <1>5, <1>6

LEMMA BareIsChallenge == BareChallenge \subseteq Challenge
BY DEF BareChallenge

(* A book that a log can rebuild *)
Rebuilt(b) ==
    /\ b \in Book
    /\ Named(b)
    /\ b.challenges \subseteq BareChallenge
    /\ IsFiniteSet(b.challenges)

LEMMA EmptyRebuilt == Rebuilt(EmptyBook)
<1>1. << >> \in ByName(Listing) /\ << >> \in ByName(Sale) /\ DOMAIN << >> = {}
    BY EmptyByName
<1>2. << >> \in Seq(Event)
    BY EmptySeq
<1>3. EmptyBook \in Book
    BY <1>1, <1>2 DEF EmptyBook, Book
<1>4. Named(EmptyBook)
    BY <1>1 DEF EmptyBook, Named
<1>5. IsFiniteSet({})
    BY FS_EmptySet
<1> QED BY <1>3, <1>4, <1>5 DEF Rebuilt, EmptyBook

LEMMA ApplyRebuilt ==
    ASSUME NEW b, Rebuilt(b), NEW e \in Event
    PROVE  /\ Rebuilt(Apply(b, e)) /\ Apply(b, e).events = b.events
           /\ Apply(b, e).listings = ListingsAfter(b, e)
           /\ Apply(b, e).sales = SalesAfter(b, e)
           /\ Apply(b, e).challenges = ChallengesAfter(b, e)
<1>1. b \in Book /\ Named(b) /\ b.challenges \subseteq BareChallenge /\ IsFiniteSet(b.challenges)
    BY DEF Rebuilt
<1> DEFINE a == Apply(b, e)
<1>2. a = [listings |-> ListingsAfter(b, e), sales |-> SalesAfter(b, e),
           challenges |-> ChallengesAfter(b, e), events |-> b.events]
    BY <1>1, ApplyIs
<1> HIDE DEF a
<1>3. /\ a.listings = ListingsAfter(b, e) /\ a.sales = SalesAfter(b, e)
      /\ a.challenges = ChallengesAfter(b, e) /\ a.events = b.events
    BY <1>2
<1>4. /\ b.listings \in ByName(Listing) /\ b.sales \in ByName(Sale) /\ b.events \in Seq(Event)
    BY <1>1, BookParts
<1>l. b.listings \in ByName(Listing)
    BY <1>4
<1>s. b.sales \in ByName(Sale)
    BY <1>4
<1>5. /\ ListingsAfter(b, e) \in ByName(Listing)
      /\ \A n \in DOMAIN ListingsAfter(b, e) : ListingsAfter(b, e)[n].name = n
  <2>1. CASE e.type = "list"
    <3>1. e.body \in Listing
        BY <2>1, EventKinds
    <3>2. e.body.name \in Names
        BY <3>1 DEF Listing
    <3> DEFINE l == With(b.listings, e.body.name, e.body)
    <3>3. l \in ByName(Listing)
        BY <1>l, <3>1, <3>2, WithIs
    <3>5. /\ DOMAIN l = DOMAIN b.listings \cup {e.body.name}
          /\ \A m \in DOMAIN b.listings \cup {e.body.name} :
               l[m] = IF m = e.body.name THEN e.body ELSE b.listings[m]
        BY DEF With
    <3>4. ListingsAfter(b, e) = l
        BY <2>1 DEF ListingsAfter
    <3> HIDE DEF l
    <3> QED BY <1>1, <3>3, <3>4, <3>5 DEF Named
  <2>2. CASE e.type = "delist"
    <3> DEFINE l == Without(b.listings, {e.body})
    <3>0. l \in ByName(Listing)
        BY <1>l, WithoutIs
    <3>1. /\ DOMAIN l = DOMAIN b.listings \ {e.body}
          /\ \A m \in DOMAIN b.listings \ {e.body} : l[m] = b.listings[m]
        BY DEF Without, Restrict
    <3>2. ListingsAfter(b, e) = l
        BY <2>2 DEF ListingsAfter
    <3> HIDE DEF l
    <3> QED BY <1>1, <3>0, <3>1, <3>2 DEF Named
  <2>3. CASE e.type \notin {"list", "delist"}
    <3>1. ListingsAfter(b, e) = b.listings
        BY <2>3 DEF ListingsAfter
    <3> QED BY <1>1, <1>4, <3>1 DEF Named
  <2> QED BY <2>1, <2>2, <2>3
<1>6. /\ SalesAfter(b, e) \in ByName(Sale)
      /\ \A n \in DOMAIN SalesAfter(b, e) : SalesAfter(b, e)[n].name = n
  <2>1. CASE e.type = "open" /\ ~IsOpen(b, e.body.name)
    <3>1. e.body \in Sale
        BY <2>1, EventKinds
    <3>2. e.body.name \in Names
        BY <3>1 DEF Sale
    <3> DEFINE l == With(b.sales, e.body.name, e.body)
    <3>3. l \in ByName(Sale)
        BY <1>s, <3>1, <3>2, WithIs
    <3>5. /\ DOMAIN l = DOMAIN b.sales \cup {e.body.name}
          /\ \A m \in DOMAIN b.sales \cup {e.body.name} :
               l[m] = IF m = e.body.name THEN e.body ELSE b.sales[m]
        BY DEF With
    <3>4. SalesAfter(b, e) = l
        BY <2>1 DEF SalesAfter
    <3> HIDE DEF l
    <3> QED BY <1>1, <3>3, <3>4, <3>5 DEF Named
  <2>2. CASE e.type \in {"expire", "close"}
    <3> DEFINE l == Without(b.sales, {e.body})
    <3>0. l \in ByName(Sale)
        BY <1>s, WithoutIs
    <3>1. /\ DOMAIN l = DOMAIN b.sales \ {e.body}
          /\ \A m \in DOMAIN b.sales \ {e.body} : l[m] = b.sales[m]
        BY DEF Without, Restrict
    <3>2. SalesAfter(b, e) = l
        BY <2>2 DEF SalesAfter
    <3> HIDE DEF l
    <3> QED BY <1>1, <3>0, <3>1, <3>2 DEF Named
  <2>3. CASE e.type = "paid"
    <3> DEFINE l == WithPaid(b.sales, e.body)
    <3>1. /\ l \in ByName(Sale) /\ DOMAIN l = DOMAIN b.sales
          /\ \A n \in DOMAIN b.sales : l[n] =
               IF n = e.body.name /\ b.sales[n].code = e.body.code
               THEN [b.sales[n] EXCEPT !.paid = TRUE] ELSE b.sales[n]
        BY <1>s, WithPaidIs DEF WithPaid
    <3>2. SalesAfter(b, e) = l
        BY <2>3 DEF SalesAfter
    <3> HIDE DEF l
    <3>3. \A n \in DOMAIN b.sales : b.sales[n] \in Sale
        BY <1>4, ByNameIs
    <3>4. \A n \in DOMAIN b.sales : [b.sales[n] EXCEPT !.paid = TRUE].name = b.sales[n].name
        BY <3>3, PaidSale
    <3> QED BY <1>1, <3>1, <3>2, <3>4 DEF Named
  <2>4. CASE e.type \notin {"open", "expire", "close", "paid"}
             \/ (e.type = "open" /\ IsOpen(b, e.body.name))
    <3>1. SalesAfter(b, e) = b.sales
        BY <2>4 DEF SalesAfter
    <3> QED BY <1>1, <1>4, <3>1 DEF Named
  <2> QED BY <2>1, <2>2, <2>3, <2>4
<1>7. ChallengesAfter(b, e) \subseteq BareChallenge /\ IsFiniteSet(ChallengesAfter(b, e))
  <2>1. CASE e.type = "challenge" /\ ~CodeIsOpen(b, e.body.code)
    <3>1. e.body \in BareChallenge
        BY <2>1, EventKinds
    <3>2. ChallengesAfter(b, e) = b.challenges \cup {e.body}
        BY <2>1 DEF ChallengesAfter
    <3>3. IsFiniteSet(b.challenges \cup {e.body})
        BY <1>1, FS_AddElement
    <3> QED BY <1>1, <3>1, <3>2, <3>3
  <2>2. CASE ~(e.type = "challenge" /\ ~CodeIsOpen(b, e.body.code))
    <3>1. ChallengesAfter(b, e) \subseteq b.challenges
        BY <2>2 DEF ChallengesAfter
    <3>2. IsFiniteSet(ChallengesAfter(b, e))
        BY <1>1, <3>1, FS_Subset
    <3> QED BY <1>1, <3>1, <3>2
  <2> QED BY <2>1, <2>2
<1>8. a \in Book
  <2>1. ChallengesAfter(b, e) \in SUBSET Challenge
    BY <1>7, BareIsChallenge
  <2> QED BY <1>2, <1>4, <1>5, <1>6, <2>1 DEF Book
<1>9. Named(a)
    BY <1>3, <1>5, <1>6 DEF Named
<1>10. Rebuilt(a)
    BY <1>3, <1>7, <1>8, <1>9 DEF Rebuilt
<1> QED BY <1>3, <1>10 DEF a

LEMMA MetRebuilt ==
    ASSUME NEW b, Rebuilt(b), NEW e \in Event, NEW h
    PROVE  /\ Rebuilt(Met(b, e, h))
           /\ e.height <= h =>
                /\ Met(b, e, h).listings = ListingsAfter(b, e)
                /\ Met(b, e, h).sales = SalesAfter(b, e)
                /\ Met(b, e, h).challenges = ChallengesAfter(b, e)
                /\ Met(b, e, h).events = Append(b.events, e)
           /\ ~(e.height <= h) => Met(b, e, h) = b
<1>1. CASE e.height <= h
  <2> DEFINE a == Apply(b, e)
             m == Met(b, e, h)
  <2>1. /\ Rebuilt(a) /\ a.events = b.events /\ a.listings = ListingsAfter(b, e)
        /\ a.sales = SalesAfter(b, e) /\ a.challenges = ChallengesAfter(b, e)
    BY ApplyRebuilt
  <2>2. m = [a EXCEPT !.events = Append(@, e)]
    BY <1>1 DEF Met
  <2> HIDE DEF a, m
  <2>3. a \in Book
    BY <2>1 DEF Rebuilt
  <2>4. /\ a = [listings |-> a.listings, sales |-> a.sales,
                challenges |-> a.challenges, events |-> a.events]
        /\ a.listings \in ByName(Listing) /\ a.sales \in ByName(Sale)
        /\ a.challenges \in SUBSET Challenge /\ a.events \in Seq(Event)
    BY <2>3, BookParts
  <2>5. m = [listings |-> a.listings, sales |-> a.sales,
             challenges |-> a.challenges, events |-> Append(a.events, e)]
    BY <2>2, <2>4
  <2>6. Append(a.events, e) \in Seq(Event)
    BY <2>4, AppendProperties
  <2>7. m \in Book
    BY <2>4, <2>5, <2>6 DEF Book
  <2>8. Rebuilt(m)
    BY <2>1, <2>5, <2>7 DEF Rebuilt, Named
  <2>9. /\ m.listings = a.listings /\ m.sales = a.sales /\ m.challenges = a.challenges
        /\ m.events = Append(a.events, e)
    BY <2>5
  <2> QED BY <1>1, <2>1, <2>8, <2>9 DEF m
<1>2. CASE ~(e.height <= h)
    BY <1>2 DEF Met
<1> QED BY <1>1, <1>2

LEMMA ReplayRebuilt ==
    ASSUME NEW evs \in Seq(Event), NEW h
    PROVE  Rebuilt(Replay(evs, h))
<1> DEFINE T == {s \in Seq(Event) : Rebuilt(Replay(s, h))}
<1>1. << >> \in T
    BY ReplayNil, EmptyRebuilt, EmptySeq
<1>2. ASSUME NEW s \in T, NEW e \in Event PROVE Append(s, e) \in T
  <2>1. s \in Seq(Event) /\ Rebuilt(Replay(s, h))
    OBVIOUS
  <2>2. Replay(Append(s, e), h) = Met(Replay(s, h), e, h)
    BY <2>1, ReplayAppend
  <2>3. Rebuilt(Met(Replay(s, h), e, h))
    BY <2>1, MetRebuilt
  <2>4. Append(s, e) \in Seq(Event)
    BY <2>1, AppendProperties
  <2> QED BY <2>2, <2>3, <2>4
<1>3. T \subseteq Seq(Event)
    OBVIOUS
<1> HIDE DEF T
<1>4. T = Seq(Event)
    BY <1>1, <1>2, <1>3, SeqInduction
<1> QED BY <1>4 DEF T

-----------------------------------------------------------------------------
(***************************************************************************)
(* Logs                                                                    *)
(***************************************************************************)

(* A log of the chain up to a height, in the order it was written *)
LogTo(evs, h) ==
    /\ \A i \in 1 .. Len(evs) : evs[i].height \in 1 .. h
    /\ \A i, j \in 1 .. Len(evs) : i <= j => evs[i].height <= evs[j].height

LEMMA LogAppend ==
    ASSUME NEW evs \in Seq(Event), NEW e \in Event, NEW h \in Nat
    PROVE  LogTo(Append(evs, e), h)
             <=> LogTo(evs, e.height) /\ e.height \in 1 .. h
<1> DEFINE n == Len(evs)
           fvs == Append(evs, e)
<1>1. n \in Nat /\ e.height \in Nat /\ \A i \in 1 .. n : evs[i].height \in Nat
    BY LenProperties, ElementOfSeq, EventKinds
<1>2. Len(fvs) = n + 1 /\ fvs[n + 1] = e /\ \A i \in 1 .. n : fvs[i] = evs[i]
    BY AppendProperties
<1> HIDE DEF n, fvs
<1>3. ASSUME LogTo(fvs, h) PROVE LogTo(evs, e.height) /\ e.height \in 1 .. h
  <2>1. n + 1 \in 1 .. n + 1 /\ \A i \in 1 .. n : i \in 1 .. n + 1 /\ i <= n + 1
    BY <1>1
  <2>2. e.height \in 1 .. h
    BY <1>2, <1>3, <2>1 DEF LogTo
  <2>3. \A i \in 1 .. n : evs[i].height <= e.height /\ evs[i].height \in 1 .. h
    BY <1>2, <1>3, <2>1 DEF LogTo
  <2>4. \A i \in 1 .. n : evs[i].height \in 1 .. e.height
    BY <1>1, <2>2, <2>3
  <2>5. \A i, j \in 1 .. n : i <= j => evs[i].height <= evs[j].height
    BY <1>2, <1>3, <2>1 DEF LogTo
  <2> QED BY <2>2, <2>4, <2>5 DEF LogTo, n
<1>4. ASSUME LogTo(evs, e.height), e.height \in 1 .. h PROVE LogTo(fvs, h)
  <2>1. ASSUME NEW i \in 1 .. n PROVE evs[i].height \in 1 .. h /\ evs[i].height <= e.height
    <3>1. evs[i].height \in 1 .. e.height
        BY <1>4 DEF LogTo, n
    <3> QED BY <1>1, <1>4, <3>1
  <2>2. \A i \in 1 .. n + 1 : i = n + 1 \/ i \in 1 .. n
    BY <1>1
  <2>3. \A i \in 1 .. n + 1 : fvs[i].height \in 1 .. h
    BY <1>2, <1>4, <2>1, <2>2
  <2>4. ASSUME NEW i \in 1 .. n + 1, NEW j \in 1 .. n + 1, i <= j
        PROVE  fvs[i].height <= fvs[j].height
    <3>1. CASE j = n + 1 /\ i = n + 1
        BY <1>1, <1>2, <3>1
    <3>2. CASE j = n + 1 /\ i \in 1 .. n
        BY <1>2, <2>1, <3>2
    <3>3. CASE j \in 1 .. n
      <4>1. i \in 1 .. n
        BY <1>1, <2>4, <3>3
      <4> QED BY <1>2, <1>4, <2>4, <3>3, <4>1 DEF LogTo, n
    <3> QED BY <2>2, <3>1, <3>2, <3>3
  <2> QED BY <1>2, <2>3, <2>4 DEF LogTo
<1> QED BY <1>3, <1>4 DEF fvs

(* The log of a rebuilt book is a log of the shorter chain. *)
LEMMA ReplayLog ==
    ASSUME NEW h \in Nat, NEW evs \in Seq(Event), NEW m \in Nat, LogTo(evs, m)
    PROVE  /\ Replay(evs, h).events \in Seq(Event)
           /\ LogTo(Replay(evs, h).events, m)
           /\ \A i \in 1 .. Len(Replay(evs, h).events) : Replay(evs, h).events[i].height <= h
<1> DEFINE R(s) == Replay(s, h).events
           T == {s \in Seq(Event) :
                   /\ \A k \in Nat : LogTo(s, k) => LogTo(R(s), k)
                   /\ \A i \in 1 .. Len(R(s)) : R(s)[i].height <= h}
<1>1. \A s \in Seq(Event) : R(s) \in Seq(Event)
  <2>1. \A s \in Seq(Event) : Replay(s, h) \in Book
    BY ReplayRebuilt DEF Rebuilt
  <2> QED BY <2>1, BookParts
<1>2. << >> \in T
  <2>1. R(<< >>) = << >>
    BY ReplayNil DEF EmptyBook
  <2>2. Len(<< >>) = 0 /\ << >> \in Seq(Event)
    BY EmptySeq
  <2> QED BY <2>1, <2>2
<1>3. ASSUME NEW s \in T, NEW e \in Event PROVE Append(s, e) \in T
  <2> DEFINE t == Append(s, e)
  <2>1. s \in Seq(Event) /\ R(s) \in Seq(Event) /\ t \in Seq(Event) /\ e.height \in Nat
    BY <1>1, AppendProperties, EventKinds
  <2>2. Replay(t, h) = Met(Replay(s, h), e, h) /\ Rebuilt(Replay(s, h))
    BY <2>1, ReplayAppend, ReplayRebuilt
  <2>3. R(t) = IF e.height <= h THEN Append(R(s), e) ELSE R(s)
    <3> DEFINE r == Replay(s, h)
               q == Replay(t, h)
    <3>1. q = Met(r, e, h) /\ Rebuilt(r)
        BY <2>2
    <3> HIDE DEF r, q, T
    <3>2. CASE e.height <= h
      <4>1. q.events = Append(r.events, e)
        BY <3>1, <3>2, MetRebuilt
      <4> QED BY <3>2, <4>1 DEF r, q
    <3>3. CASE ~(e.height <= h)
      <4>1. q = r
        BY <3>1, <3>3 DEF Met
      <4> QED BY <3>3, <4>1 DEF r, q
    <3> QED BY <3>2, <3>3
  <2>4. ASSUME NEW k \in Nat, LogTo(t, k) PROVE LogTo(R(t), k)
    <3>1. LogTo(s, e.height) /\ e.height \in 1 .. k
        BY <2>1, <2>4, LogAppend
    <3>2. LogTo(R(s), e.height)
        BY <2>1, <3>1
    <3>3. CASE e.height <= h
        BY <2>1, <2>3, <3>1, <3>2, <3>3, LogAppend
    <3>4. CASE ~(e.height <= h)
      <4> DEFINE q == R(s)
      <4>1. q \in Seq(Event) /\ LogTo(q, e.height)
        BY <2>1, <3>2
      <4> HIDE DEF q
      <4>2. \A i \in 1 .. Len(q) : q[i].height \in 1 .. k
        BY <2>1, <3>1, <4>1 DEF LogTo
      <4>3. LogTo(q, k)
        BY <4>1, <4>2 DEF LogTo
      <4> QED BY <2>3, <3>4, <4>3 DEF q
    <3> QED BY <3>3, <3>4
  <2>5. \A i \in 1 .. Len(R(t)) : R(t)[i].height <= h
    <3> DEFINE q == R(s)
    <3>1. q \in Seq(Event) /\ Len(q) \in Nat /\ \A i \in 1 .. Len(q) : q[i].height <= h
        BY <2>1, LenProperties
    <3>2. R(t) = IF e.height <= h THEN Append(q, e) ELSE q
        BY <2>3
    <3> HIDE DEF q
    <3>3. CASE e.height <= h
      <4>1. /\ Len(Append(q, e)) = Len(q) + 1 /\ Append(q, e)[Len(q) + 1] = e
            /\ \A i \in 1 .. Len(q) : Append(q, e)[i] = q[i]
        BY <3>1, AppendProperties
      <4>2. \A i \in 1 .. Len(q) + 1 : i = Len(q) + 1 \/ i \in 1 .. Len(q)
        BY <3>1
      <4> QED BY <3>1, <3>2, <3>3, <4>1, <4>2
    <3>4. CASE ~(e.height <= h)
        BY <3>1, <3>2, <3>4
    <3> QED BY <3>3, <3>4
  <2> HIDE DEF R
  <2> QED BY <2>1, <2>4, <2>5
<1>4. T \subseteq Seq(Event)
    OBVIOUS
<1> HIDE DEF T
<1>5. T = Seq(Event)
    BY <1>2, <1>3, <1>4, SeqInduction
<1>6. evs \in T
    BY <1>5
<1> QED BY <1>1, <1>6 DEF T

(* Rewinding twice is rewinding once. *)
LEMMA ReplayReplay ==
    ASSUME NEW h \in Nat, NEW k \in Nat, k <= h, NEW evs \in Seq(Event)
    PROVE  Replay(Replay(evs, h).events, k) = Replay(evs, k)
<1> DEFINE T == {s \in Seq(Event) : Replay(Replay(s, h).events, k) = Replay(s, k)}
<1>1. << >> \in T
  <2>1. Replay(<< >>, h).events = << >>
    BY ReplayNil DEF EmptyBook
  <2> QED BY <2>1, EmptySeq
<1>2. ASSUME NEW s \in T, NEW e \in Event PROVE Append(s, e) \in T
  <2> DEFINE t == Append(s, e)
             r == Replay(s, h)
  <2>1. s \in Seq(Event) /\ t \in Seq(Event) /\ e.height \in Nat
        /\ Replay(r.events, k) = Replay(s, k)
    BY AppendProperties, EventKinds
  <2>2. /\ Replay(t, h) = Met(r, e, h) /\ Replay(t, k) = Met(Replay(s, k), e, k)
        /\ Rebuilt(r)
    BY <2>1, ReplayAppend, ReplayRebuilt
  <2>3. r.events \in Seq(Event)
    BY <2>2, BookParts DEF Rebuilt
  <2> HIDE DEF t, r
  <2>4. CASE e.height <= h
    <3>1. Replay(t, h).events = Append(r.events, e)
        BY <2>2, <2>4, MetRebuilt
    <3>2. Replay(Append(r.events, e), k) = Met(Replay(r.events, k), e, k)
        BY <2>3, ReplayAppend
    <3> QED BY <2>1, <2>2, <3>1, <3>2 DEF t
  <2>5. CASE ~(e.height <= h)
    <3>1. Replay(t, h).events = r.events
        BY <2>2, <2>5, MetRebuilt
    <3>2. ~(e.height <= k)
        BY <2>1, <2>5
    <3>3. Replay(t, k) = Replay(s, k)
        BY <2>2, <3>2 DEF Met
    <3> QED BY <2>1, <3>1, <3>3 DEF t
  <2> QED BY <2>4, <2>5
<1>3. T \subseteq Seq(Event)
    OBVIOUS
<1> HIDE DEF T
<1>4. T = Seq(Event)
    BY <1>1, <1>2, <1>3, SeqInduction
<1> QED BY <1>4 DEF T

(* What is logged at a height does not change what stood below it. *)
LEMMA ReplayBelow ==
    ASSUME NEW k, NEW evs \in Seq(Event), NEW new \in Seq(Event),
           \A i \in 1 .. Len(new) : ~(new[i].height <= k)
    PROVE  Replay(evs \o new, k) = Replay(evs, k)
<1> DEFINE T == {s \in Seq(Event) : (\A i \in 1 .. Len(s) : ~(s[i].height <= k))
                                      => Replay(evs \o s, k) = Replay(evs, k)}
<1>1. << >> \in T
  <2>1. << >> \in Seq(Event) /\ evs \o << >> = evs
    BY EmptySeq, ConcatEmptySeq
  <2> QED BY <2>1
<1>2. ASSUME NEW s \in T, NEW e \in Event PROVE Append(s, e) \in T
  <2> DEFINE t == Append(s, e)
  <2>1. /\ s \in Seq(Event) /\ t \in Seq(Event) /\ Len(t) = Len(s) + 1 /\ Len(s) \in Nat
        /\ t[Len(s) + 1] = e /\ \A i \in 1 .. Len(s) : t[i] = s[i]
    BY AppendProperties, LenProperties
  <2>2. evs \o t = Append(evs \o s, e) /\ evs \o s \in Seq(Event)
    BY <2>1, ConcatAppend
  <2>3. Replay(evs \o t, k) = Met(Replay(evs \o s, k), e, k)
    BY <2>2, ReplayAppend
  <2> HIDE DEF t
  <2>4. ASSUME \A i \in 1 .. Len(t) : ~(t[i].height <= k)
        PROVE  Replay(evs \o t, k) = Replay(evs, k)
    <3>1. Len(s) + 1 \in 1 .. Len(t) /\ \A i \in 1 .. Len(s) : i \in 1 .. Len(t)
        BY <2>1
    <3>2. ~(e.height <= k) /\ \A i \in 1 .. Len(s) : ~(s[i].height <= k)
        BY <2>1, <2>4, <3>1
    <3> QED BY <2>3, <3>2 DEF Met
  <2> QED BY <2>1, <2>4 DEF t
<1>3. T \subseteq Seq(Event)
    OBVIOUS
<1> HIDE DEF T
<1>4. T = Seq(Event)
    BY <1>1, <1>2, <1>3, SeqInduction
<1> QED BY <1>4 DEF T

-----------------------------------------------------------------------------
(***************************************************************************)
(* Events of one kind, logged together                                     *)
(***************************************************************************)
LEMMA StampedIs ==
    ASSUME NEW h \in Nat, NEW type, NEW B, IsFiniteSet(B),
           \A x \in B : [height |-> h, type |-> type, body |-> x] \in Event
    PROVE  LET st == Stamped(h, type, B) IN
           /\ st \in Seq(Event) /\ Len(st) = Cardinality(B)
           /\ \A i \in 1 .. Len(st) :
                st[i].height = h /\ st[i].type = type /\ st[i].body \in B
           /\ \A x \in B : \E i \in 1 .. Len(st) : st[i].body = x
<1> DEFINE s == SetToSeq(B)
           n == Len(s)
           st == Stamped(h, type, B)
           E(x) == [height |-> h, type |-> type, body |-> x]
<1>1. /\ s \in Seq(B) /\ n = Cardinality(B)
      /\ \A x \in B : \E i \in 1 .. n : s[i] = x
    BY SetToSeqIs
<1> HIDE DEF s
<1>2. n \in Nat /\ DOMAIN s = 1 .. n /\ \A i \in 1 .. n : s[i] \in B
    BY <1>1, LenProperties, ElementOfSeq
<1>3. st = [i \in 1 .. n |-> E(s[i])]
    BY <1>2 DEF Stamped, s
<1>4. st \in [1 .. n -> Event]
    BY <1>2, <1>3
<1> HIDE DEF st
<1>5. st \in Seq(Event) /\ Len(st) = n
  <2>1. st \in Seq(Event)
    BY <1>2, <1>4, SeqDef
  <2>2. Len(st) \in Nat /\ DOMAIN st = 1 .. Len(st) /\ DOMAIN st = 1 .. n
    BY <1>4, <2>1, LenProperties
  <2>3. \A a, b \in Nat : 1 .. a = 1 .. b => a = b
    BY IntervalsAlike
  <2> QED BY <1>2, <2>1, <2>2, <2>3
<1> HIDE DEF n
<1> DEFINE v == [i \in 1 .. n |-> E(s[i])]
<1>a. \A i \in 1 .. n : v[i] = E(s[i])
    OBVIOUS
<1>6. \A i \in 1 .. n : st[i] = E(s[i])
    BY <1>3, <1>a
<1>b. \A x : E(x).height = h /\ E(x).type = type /\ E(x).body = x
    OBVIOUS
<1> HIDE DEF E, v
<1>7. \A i \in 1 .. n : st[i].height = h /\ st[i].type = type /\ st[i].body = s[i]
    BY <1>6, <1>b
<1>8. \A i \in 1 .. Len(st) : st[i].height = h /\ st[i].type = type /\ st[i].body \in B
    BY <1>2, <1>5, <1>7
<1>9. \A x \in B : \E i \in 1 .. Len(st) : st[i].body = x
    BY <1>1, <1>5, <1>7
<1>10. Len(st) = Cardinality(B)
    BY <1>1, <1>5
<1> QED BY <1>5, <1>8, <1>9, <1>10 DEF st

Settled(f, B) ==
    [n \in DOMAIN f |-> IF [name |-> n, code |-> f[n].code] \in B
                        THEN [f[n] EXCEPT !.paid = TRUE] ELSE f[n]]

(* What a number of events of one kind did to a book *)
Effect(r, q, type, B) ==
    /\ q.listings = IF type = "delist" THEN Without(r.listings, B) ELSE r.listings
    /\ q.sales = IF type \in {"expire", "close"} THEN Without(r.sales, B)
                 ELSE IF type = "paid" THEN Settled(r.sales, B) ELSE r.sales
    /\ q.challenges = IF type = "challenge_closed" THEN {c \in r.challenges : c.code \notin B}
                      ELSE r.challenges

Bulk == {"delist", "expire", "close", "paid", "challenge_closed"}

LEMMA NoEffect ==
    ASSUME NEW r, Rebuilt(r), NEW type \in Bulk
    PROVE  Effect(r, r, type, {})
<1>1. r.listings \in ByName(Listing)
    BY BookParts DEF Rebuilt
<1>2. r.sales \in ByName(Sale)
    BY BookParts DEF Rebuilt
<1>3. r.listings \in [DOMAIN r.listings -> Listing] /\ r.sales \in [DOMAIN r.sales -> Sale]
    BY <1>1, <1>2, ByNameIs
<1>4. Without(r.listings, {}) = r.listings /\ Without(r.sales, {}) = r.sales
    BY <1>3 DEF Without, Restrict
<1>5. Settled(r.sales, {}) = r.sales
    BY <1>3 DEF Settled
<1>6. {c \in r.challenges : c.code \notin {}} = r.challenges
    OBVIOUS
<1> QED BY <1>4, <1>5, <1>6 DEF Effect

LEMMA SettledMore ==
    ASSUME NEW f \in ByName(Sale), NEW B, NEW x \in Receipt
    PROVE  WithPaid(Settled(f, B), x) = Settled(f, B \cup {x})
<1> DEFINE D == DOMAIN f
           g == Settled(f, B)
           P(n) == [f[n] EXCEPT !.paid = TRUE]
           X(n) == [name |-> n, code |-> f[n].code]
<1>1. \A n \in D : f[n] \in Sale
    BY ByNameIs
<1>2. DOMAIN g = D /\ \A n \in D : g[n] = IF X(n) \in B THEN P(n) ELSE f[n]
    BY DEF Settled
<1>3. \A n \in D : P(n).code = f[n].code /\ [P(n) EXCEPT !.paid = TRUE] = P(n)
    BY <1>1 DEF Sale
<1>4. x = [name |-> x.name, code |-> x.code]
    BY DEF Receipt
<1> HIDE DEF g, P
<1>5. \A n \in D : g[n].code = f[n].code
    BY <1>2, <1>3
<1>6. \A n \in D : (n = x.name /\ f[n].code = x.code) <=> X(n) = x
    BY <1>4
<1>7. ASSUME NEW n \in D
      PROVE  (IF n = x.name /\ g[n].code = x.code THEN [g[n] EXCEPT !.paid = TRUE] ELSE g[n])
               = IF X(n) \in B \cup {x} THEN P(n) ELSE f[n]
  <2>1. CASE X(n) \in B
    <3>1. g[n] = P(n)
        BY <1>2, <2>1
    <3> QED BY <1>3, <2>1, <3>1
  <2>2. CASE X(n) \notin B /\ X(n) = x
    <3>1. g[n] = f[n] /\ n = x.name /\ g[n].code = x.code
        BY <1>2, <1>5, <1>6, <2>2
    <3> QED BY <2>2, <3>1 DEF P
  <2>3. CASE X(n) \notin B /\ X(n) # x
    <3>1. g[n] = f[n] /\ ~(n = x.name /\ g[n].code = x.code)
        BY <1>2, <1>5, <1>6, <2>3
    <3> QED BY <2>3, <3>1
  <2> QED BY <2>1, <2>2, <2>3
<1>8. WithPaid(g, x) = [n \in D |-> IF n = x.name /\ g[n].code = x.code
                                    THEN [g[n] EXCEPT !.paid = TRUE] ELSE g[n]]
    BY <1>2 DEF WithPaid
<1>9. Settled(f, B \cup {x}) = [n \in D |-> IF X(n) \in B \cup {x} THEN P(n) ELSE f[n]]
    BY DEF Settled, P
<1>10. WithPaid(g, x) = Settled(f, B \cup {x})
    BY <1>7, <1>8, <1>9
<1> QED BY <1>10 DEF g

LEMMA MoreEffect ==
    ASSUME NEW r, Rebuilt(r), NEW q, Rebuilt(q), NEW type \in Bulk, NEW B,
           Effect(r, q, type, B), NEW h, NEW e \in Event, e.type = type, e.height <= h
    PROVE  Effect(r, Met(q, e, h), type, B \cup {e.body})
<1> DEFINE m == Met(q, e, h)
           x == e.body
<1>1. /\ m.listings = ListingsAfter(q, e) /\ m.sales = SalesAfter(q, e)
      /\ m.challenges = ChallengesAfter(q, e)
    BY MetRebuilt
<1> HIDE DEF m
<1>2. r.listings \in ByName(Listing)
    BY BookParts DEF Rebuilt
<1>3. r.sales \in ByName(Sale)
    BY BookParts DEF Rebuilt
<1>4. m.listings = IF type = "delist" THEN Without(r.listings, B \cup {x}) ELSE r.listings
  <2>1. Without(Without(r.listings, B), {x}) = Without(r.listings, B \cup {x})
    BY DEF Without, Restrict
  <2> QED BY <1>1, <2>1 DEF ListingsAfter, Effect, Bulk
<1>5. m.challenges = IF type = "challenge_closed"
                     THEN {c \in r.challenges : c.code \notin B \cup {x}} ELSE r.challenges
    BY <1>1 DEF ChallengesAfter, Effect, Bulk
<1>6. m.sales = IF type \in {"expire", "close"} THEN Without(r.sales, B \cup {x})
                ELSE IF type = "paid" THEN Settled(r.sales, B \cup {x}) ELSE r.sales
  <2>1. CASE type \in {"expire", "close"}
    <3>1. Without(Without(r.sales, B), {x}) = Without(r.sales, B \cup {x})
        BY DEF Without, Restrict
    <3>2. m.sales = Without(q.sales, {x}) /\ q.sales = Without(r.sales, B)
        BY <1>1, <2>1 DEF SalesAfter, Effect
    <3> QED BY <2>1, <3>1, <3>2
  <2>2. CASE type = "paid"
    <3>1. m.sales = WithPaid(q.sales, x) /\ q.sales = Settled(r.sales, B)
        BY <1>1, <2>2 DEF SalesAfter, Effect
    <3>2. x \in Receipt
        BY <2>2, EventKinds
    <3> QED BY <1>3, <2>2, <3>1, <3>2, SettledMore
  <2>3. CASE type \notin {"expire", "close", "paid"}
    BY <1>1, <2>3 DEF SalesAfter, Effect, Bulk
  <2> QED BY <2>1, <2>2, <2>3
<1>7. Effect(r, m, type, B \cup {x})
    BY <1>4, <1>5, <1>6 DEF Effect
<1> QED BY <1>7 DEF m

Bodies(s) == {s[i].body : i \in 1 .. Len(s)}

LEMMA BulkReplay ==
    ASSUME NEW evs \in Seq(Event), NEW type \in Bulk, NEW k, NEW st \in Seq(Event),
           \A i \in 1 .. Len(st) : st[i].type = type /\ st[i].height <= k
    PROVE  Effect(Replay(evs, k), Replay(evs \o st, k), type, Bodies(st))
<1> DEFINE r == Replay(evs, k)
           Fits(s) == \A i \in 1 .. Len(s) : s[i].type = type /\ s[i].height <= k
           T == {s \in Seq(Event) :
                   Fits(s) => Effect(r, Replay(evs \o s, k), type, Bodies(s))}
<1>0. Rebuilt(r)
    BY ReplayRebuilt
<1>1. << >> \in T
  <2>1. << >> \in Seq(Event) /\ evs \o << >> = evs /\ Bodies(<< >>) = {}
    BY EmptySeq, ConcatEmptySeq DEF Bodies
  <2>2. Effect(r, r, type, {})
    BY <1>0, NoEffect
  <2> QED BY <2>1, <2>2
<1>2. ASSUME NEW s \in T, NEW e \in Event PROVE Append(s, e) \in T
  <2> DEFINE t == Append(s, e)
             q == Replay(evs \o s, k)
  <2>1. /\ s \in Seq(Event) /\ t \in Seq(Event) /\ Len(t) = Len(s) + 1 /\ Len(s) \in Nat
        /\ t[Len(s) + 1] = e /\ \A i \in 1 .. Len(s) : t[i] = s[i]
    BY AppendProperties, LenProperties
  <2>2. evs \o t = Append(evs \o s, e) /\ evs \o s \in Seq(Event)
    BY <2>1, ConcatAppend
  <2>3. Replay(evs \o t, k) = Met(q, e, k)
    BY <2>2, ReplayAppend
  <2>4. Rebuilt(q)
    BY <2>2, ReplayRebuilt
  <2>5. Fits(s) => Effect(r, q, type, Bodies(s))
    OBVIOUS
  <2> HIDE DEF t, r, q, T
  <2>6. ASSUME Fits(t) PROVE Effect(r, Replay(evs \o t, k), type, Bodies(t))
    <3>1. /\ Len(s) + 1 \in 1 .. Len(t)
          /\ \A i \in 1 .. Len(t) : i = Len(s) + 1 \/ i \in 1 .. Len(s)
          /\ \A i \in 1 .. Len(s) : i \in 1 .. Len(t)
        BY <2>1
    <3>2. e.type = type /\ e.height <= k /\ Fits(s)
        BY <2>1, <2>6, <3>1
    <3>3. Effect(r, Met(q, e, k), type, Bodies(s) \cup {e.body})
        BY <1>0, <2>4, <2>5, <3>2, MoreEffect
    <3>4. Bodies(t) = Bodies(s) \cup {e.body}
        BY <2>1, <3>1 DEF Bodies
    <3> QED BY <2>3, <3>3, <3>4
  <2> QED BY <2>1, <2>6 DEF T, t
<1>3. T \subseteq Seq(Event)
    OBVIOUS
<1>5. Fits(st)
    OBVIOUS
<1> HIDE DEF T
<1>4. T = Seq(Event)
    BY <1>1, <1>2, <1>3, SeqInduction
<1> QED BY <1>4, <1>5 DEF T

(* The effect of a number of entries of one kind, whatever their order *)
LEMMA LogBulk ==
    ASSUME NEW evs \in Seq(Event), NEW type \in Bulk, NEW h \in Nat, NEW B, IsFiniteSet(B),
           \A x \in B : [height |-> h, type |-> type, body |-> x] \in Event
    PROVE  /\ Stamped(h, type, B) \in Seq(Event)
           /\ \A i \in 1 .. Len(Stamped(h, type, B)) : Stamped(h, type, B)[i].height = h
           /\ Effect(Replay(evs, h), Replay(evs \o Stamped(h, type, B), h), type, B)
<1> DEFINE st == Stamped(h, type, B)
<1>1. /\ st \in Seq(Event)
      /\ \A i \in 1 .. Len(st) : st[i].height = h /\ st[i].type = type /\ st[i].body \in B
      /\ \A x \in B : \E i \in 1 .. Len(st) : st[i].body = x
    BY StampedIs
<1> HIDE DEF st
<1>2. Bodies(st) = B
    BY <1>1 DEF Bodies
<1>3. \A i \in 1 .. Len(st) : st[i].type = type /\ st[i].height <= h
    BY <1>1
<1>4. Effect(Replay(evs, h), Replay(evs \o st, h), type, Bodies(st))
    BY <1>1, <1>3, BulkReplay
<1> QED BY <1>1, <1>2, <1>4 DEF st

(* One entry *)
LEMMA LogOne ==
    ASSUME NEW evs \in Seq(Event), NEW h \in Nat, NEW type, NEW x,
           [height |-> h, type |-> type, body |-> x] \in Event
    PROVE  LET e == [height |-> h, type |-> type, body |-> x] IN
           /\ Stamped(h, type, {x}) = <<e>>
           /\ evs \o Stamped(h, type, {x}) = Append(evs, e)
<1> DEFINE e == [height |-> h, type |-> type, body |-> x]
           st == Stamped(h, type, {x})
<1>1. IsFiniteSet({x}) /\ Cardinality({x}) = 1
    BY FS_Singleton
<1>2. \A y \in {x} : [height |-> h, type |-> type, body |-> y] \in Event
    OBVIOUS
<1>3. SetToSeq({x}) \in Seq({x}) /\ Len(SetToSeq({x})) = 1
    BY <1>1, SetToSeqIs
<1>4. SetToSeq({x}) = <<x>>
  <2> DEFINE s == SetToSeq({x})
  <2>1. s \in Seq({x}) /\ Len(s) = 1
    BY <1>3
  <2> HIDE DEF s
  <2>a. 1 \in 1 .. Len(s)
    BY <2>1
  <2>2. s[1] \in {x}
    BY <2>1, <2>a, ElementOfSeq
  <2>3. s = <<x>>
    BY <2>1, <2>2
  <2> QED BY <2>3 DEF s
<1>5. st = <<e>>
  <2>1. st = [i \in DOMAIN <<x>> |-> [height |-> h, type |-> type, body |-> <<x>>[i]]]
    BY <1>4 DEF Stamped
  <2>2. DOMAIN <<x>> = 1 .. 1 /\ <<x>>[1] = x /\ \A i \in 1 .. 1 : i = 1
    OBVIOUS
  <2>3. st = [i \in 1 .. 1 |-> e]
    BY <2>1, <2>2
  <2> QED BY <2>3
<1>6. evs \o <<e>> = Append(evs, e)
    BY AppendIsConcat
<1> QED BY <1>5, <1>6

(* A log of the chain up to a height is replayed whole to any later height. *)
LEMMA ReplayWhole ==
    ASSUME NEW h \in Nat, NEW k \in Nat, h <= k, NEW evs \in Seq(Event), LogTo(evs, h)
    PROVE  Replay(evs, k) = Replay(evs, h) /\ Replay(evs, h).events = evs
<1> DEFINE Low(s) == \A i \in 1 .. Len(s) : s[i].height <= h
           T == {s \in Seq(Event) : Low(s) => /\ Replay(s, k) = Replay(s, h)
                                              /\ Replay(s, h).events = s}
<1>1. << >> \in T
  <2>1. << >> \in Seq(Event) /\ EmptyBook.events = << >>
    BY EmptySeq DEF EmptyBook
  <2>2. Replay(<< >>, k) = EmptyBook /\ Replay(<< >>, h) = EmptyBook
    BY ReplayNil
  <2> QED BY <2>1, <2>2
<1>2. ASSUME NEW s \in T, NEW e \in Event PROVE Append(s, e) \in T
  <2> DEFINE t == Append(s, e)
             r == Replay(s, h)
  <2>1. /\ s \in Seq(Event) /\ t \in Seq(Event) /\ Len(t) = Len(s) + 1 /\ Len(s) \in Nat
        /\ t[Len(s) + 1] = e /\ (\A i \in 1 .. Len(s) : t[i] = s[i]) /\ e.height \in Nat
    BY AppendProperties, LenProperties, EventKinds
  <2>2. Replay(t, h) = Met(r, e, h) /\ Replay(t, k) = Met(Replay(s, k), e, k) /\ Rebuilt(r)
    BY <2>1, ReplayAppend, ReplayRebuilt
  <2>3. Low(s) => Replay(s, k) = r /\ r.events = s
    OBVIOUS
  <2> HIDE DEF t, r, T
  <2>4. ASSUME Low(t) PROVE Replay(t, k) = Replay(t, h) /\ Replay(t, h).events = t
    <3>1. /\ Len(s) + 1 \in 1 .. Len(t)
          /\ \A i \in 1 .. Len(s) : i \in 1 .. Len(t)
        BY <2>1
    <3>2. e.height <= h /\ Low(s)
        BY <2>1, <2>4, <3>1
    <3>3. e.height <= k
        BY <2>1, <3>2
    <3>4. Met(r, e, h) = Met(r, e, k)
        BY <3>2, <3>3 DEF Met
    <3>5. Met(r, e, h).events = Append(r.events, e)
        BY <2>2, <3>2, MetRebuilt
    <3> QED BY <2>2, <2>3, <3>2, <3>4, <3>5 DEF t
  <2> QED BY <2>1, <2>4 DEF T, t
<1>3. T \subseteq Seq(Event)
    OBVIOUS
<1>5. Low(evs)
  <2>1. Len(evs) \in Nat
    BY LenProperties
  <2> QED BY <2>1 DEF LogTo
<1> HIDE DEF T
<1>4. T = Seq(Event)
    BY <1>1, <1>2, <1>3, SeqInduction
<1> QED BY <1>4, <1>5 DEF T

(* Replaying admits one challenge per code. *)
OneCode(cs) == \A c, d \in cs : c.code = d.code => c = d

LEMMA ReplayOneCode ==
    ASSUME NEW evs \in Seq(Event), NEW h
    PROVE  OneCode(Replay(evs, h).challenges)
<1> DEFINE T == {s \in Seq(Event) : OneCode(Replay(s, h).challenges)}
<1>1. << >> \in T
  <2>1. Replay(<< >>, h).challenges = {} /\ << >> \in Seq(Event)
    BY ReplayNil, EmptySeq DEF EmptyBook
  <2> QED BY <2>1 DEF OneCode
<1>2. ASSUME NEW s \in T, NEW e \in Event PROVE Append(s, e) \in T
  <2> DEFINE r == Replay(s, h)
             q == Met(r, e, h)
  <2>1. s \in Seq(Event) /\ OneCode(r.challenges) /\ Append(s, e) \in Seq(Event)
    BY AppendProperties
  <2>2. Replay(Append(s, e), h) = q /\ Rebuilt(r)
    BY <2>1, ReplayAppend, ReplayRebuilt
  <2>3. q.challenges = IF e.height <= h THEN ChallengesAfter(r, e) ELSE r.challenges
    BY <2>2, MetRebuilt
  <2> HIDE DEF r, q
  <2>4. OneCode(ChallengesAfter(r, e))
    BY <2>1 DEF OneCode, ChallengesAfter, CodeIsOpen
  <2> QED BY <2>1, <2>2, <2>3, <2>4
<1>3. T \subseteq Seq(Event)
    OBVIOUS
<1> HIDE DEF T
<1>4. T = Seq(Event)
    BY <1>1, <1>2, <1>3, SeqInduction
<1> QED BY <1>4 DEF T

-----------------------------------------------------------------------------
(***************************************************************************)
(* A book and its log                                                      *)
(***************************************************************************)
Plainly(s) == [s EXCEPT !.relayed = FALSE]
Plain(f) == [n \in DOMAIN f |-> Plainly(f[n])]
Barely(c) == [c EXCEPT !.relayed = FALSE, !.attempts = 0]
Bare(cs) == {Barely(c) : c \in cs}

Typed(b) ==
    /\ b \in Book
    /\ Named(b)
    /\ IsFiniteSet(b.challenges)
    /\ OneCode(b.challenges)

(* The log up to the height rebuilds the book. *)
Logged(b, h) ==
    /\ Typed(b)
    /\ LogTo(b.events, h)
    /\ View(Replay(b.events, h)) = View(b)

(* A change at a height, logged as it is made *)
Grown(b, b2, h) ==
    /\ Logged(b2, h)
    /\ \A k \in Nat : k < h => Replay(b2.events, k) = Replay(b.events, k)

LEMMA GrownTwice ==
    ASSUME NEW a, NEW b, NEW c, NEW h, Grown(a, b, h), Grown(b, c, h)
    PROVE  Grown(a, c, h)
BY DEF Grown

LEMMA ViewIs ==
    ASSUME NEW b
    PROVE  View(b) = [listings |-> b.listings, sales |-> Plain(b.sales),
                      challenges |-> Bare(b.challenges)]
BY DEF View, Plain, Plainly, Bare, Barely

LEMMA SameView ==
    ASSUME NEW a, NEW b
    PROVE  View(a) = View(b) <=> /\ a.listings = b.listings
                                 /\ Plain(a.sales) = Plain(b.sales)
                                 /\ Bare(a.challenges) = Bare(b.challenges)
<1> DEFINE V(x) == [listings |-> x.listings, sales |-> Plain(x.sales),
                    challenges |-> Bare(x.challenges)]
<1>1. View(a) = V(a) /\ View(b) = V(b)
    BY ViewIs
<1>2. /\ V(a).listings = a.listings /\ V(a).sales = Plain(a.sales)
      /\ V(a).challenges = Bare(a.challenges)
      /\ V(b).listings = b.listings /\ V(b).sales = Plain(b.sales)
      /\ V(b).challenges = Bare(b.challenges)
    OBVIOUS
<1>3. ASSUME V(a) = V(b)
      PROVE  /\ a.listings = b.listings
             /\ Plain(a.sales) = Plain(b.sales)
             /\ Bare(a.challenges) = Bare(b.challenges)
    BY <1>2, <1>3
<1>4. ASSUME /\ a.listings = b.listings
             /\ Plain(a.sales) = Plain(b.sales)
             /\ Bare(a.challenges) = Bare(b.challenges)
      PROVE  V(a) = V(b)
    BY <1>4
<1> QED BY <1>1, <1>3, <1>4

LEMMA PlainlyIs ==
    ASSUME NEW s \in Sale
    PROVE  /\ Plainly(s) \in Sale
           /\ Plainly(s).name = s.name /\ Plainly(s).bob = s.bob /\ Plainly(s).alice = s.alice
           /\ Plainly(s).held = s.held /\ Plainly(s).dutch = s.dutch /\ Plainly(s).until = s.until
           /\ Plainly(s).code = s.code /\ Plainly(s).pay_to = s.pay_to
           /\ Plainly(s).price = s.price /\ Plainly(s).paid = s.paid
           /\ Plainly(s).relayed = FALSE
           /\ Plainly([s EXCEPT !.relayed = TRUE]) = Plainly(s)
           /\ Plainly([s EXCEPT !.paid = TRUE]) = [Plainly(s) EXCEPT !.paid = TRUE]
BY DEF Sale, Plainly

LEMMA PlainIs ==
    ASSUME NEW f \in ByName(Sale)
    PROVE  /\ Plain(f) \in ByName(Sale)
           /\ DOMAIN Plain(f) = DOMAIN f
           /\ \A n \in DOMAIN f : Plain(f)[n] = Plainly(f[n]) /\ f[n] \in Sale
<1>1. f \in [DOMAIN f -> Sale] /\ DOMAIN f \subseteq Names
    BY ByNameIs
<1>2. \A n \in DOMAIN f : f[n] \in Sale /\ Plainly(f[n]) \in Sale
    BY <1>1, PlainlyIs
<1>3. DOMAIN Plain(f) = DOMAIN f /\ \A n \in DOMAIN f : Plain(f)[n] = Plainly(f[n])
    BY DEF Plain
<1>4. Plain(f) \in [DOMAIN f -> Sale]
    BY <1>2 DEF Plain
<1>5. Plain(f) \in ByName(Sale)
    BY <1>1, <1>4 DEF ByName
<1> QED BY <1>2, <1>3, <1>5

LEMMA PlainAlike ==
    ASSUME NEW f \in ByName(Sale), NEW g \in ByName(Sale)
    PROVE  Plain(f) = Plain(g)
             <=> DOMAIN f = DOMAIN g /\ \A n \in DOMAIN f : Plainly(f[n]) = Plainly(g[n])
<1>1. DOMAIN Plain(f) = DOMAIN f /\ \A n \in DOMAIN f : Plain(f)[n] = Plainly(f[n])
    BY DEF Plain
<1>2. DOMAIN Plain(g) = DOMAIN g /\ \A n \in DOMAIN g : Plain(g)[n] = Plainly(g[n])
    BY DEF Plain
<1>3. ASSUME DOMAIN f = DOMAIN g, \A n \in DOMAIN f : Plainly(f[n]) = Plainly(g[n])
      PROVE  Plain(f) = Plain(g)
    BY <1>3 DEF Plain
<1> QED BY <1>1, <1>2, <1>3

LEMMA PlainWithout ==
    ASSUME NEW f \in ByName(Sale), NEW g \in ByName(Sale), NEW S, Plain(f) = Plain(g)
    PROVE  Plain(Without(f, S)) = Plain(Without(g, S))
<1> DEFINE p == Without(f, S)
           q == Without(g, S)
<1>1. p \in ByName(Sale)
    BY WithoutIs
<1>2. q \in ByName(Sale)
    BY WithoutIs
<1>3. DOMAIN p = DOMAIN f \ S /\ \A n \in DOMAIN f \ S : p[n] = f[n]
    BY DEF Without, Restrict
<1>4. DOMAIN q = DOMAIN g \ S /\ \A n \in DOMAIN g \ S : q[n] = g[n]
    BY DEF Without, Restrict
<1>5. DOMAIN f = DOMAIN g /\ \A n \in DOMAIN f : Plainly(f[n]) = Plainly(g[n])
    BY PlainAlike
<1> HIDE DEF p, q
<1>6. DOMAIN p = DOMAIN q /\ \A n \in DOMAIN p : Plainly(p[n]) = Plainly(q[n])
    BY <1>3, <1>4, <1>5
<1>7. Plain(p) = Plain(q)
    BY <1>1, <1>2, <1>6, PlainAlike
<1> QED BY <1>7 DEF p, q

LEMMA BarelyIs ==
    ASSUME NEW c \in Challenge
    PROVE  /\ Barely(c) \in BareChallenge
           /\ Barely(c).terms = c.terms /\ Barely(c).code = c.code
           /\ Barely(c).expires_at = c.expires_at
           /\ ~Barely(c).relayed /\ Barely(c).attempts = 0
           /\ c \in BareChallenge => Barely(c) = c
           /\ Barely([c EXCEPT !.relayed = TRUE]) = Barely(c)
           /\ Barely([c EXCEPT !.attempts = @ + 1]) = Barely(c)
           /\ [c EXCEPT !.relayed = TRUE] \in Challenge
           /\ [c EXCEPT !.attempts = @ + 1] \in Challenge
<1>1. Barely(c) \in Challenge
    BY DEF Challenge, Barely
<1>2. Barely(c).terms = c.terms /\ Barely(c).code = c.code /\ Barely(c).expires_at = c.expires_at
    BY DEF Challenge, Barely
<1>3. ~Barely(c).relayed
    BY DEF Challenge, Barely
<1>4. Barely(c).attempts = 0
    BY DEF Challenge, Barely
<1>5. Barely([c EXCEPT !.relayed = TRUE]) = Barely(c)
    BY DEF Challenge, Barely
<1>6. Barely([c EXCEPT !.attempts = @ + 1]) = Barely(c)
    BY DEF Challenge, Barely
<1>7. [c EXCEPT !.relayed = TRUE] \in Challenge
    BY DEF Challenge
<1>8. [c EXCEPT !.attempts = @ + 1] \in Challenge
    BY DEF Challenge
<1>9. ASSUME c \in BareChallenge PROVE Barely(c) = c
  <2>1. c.relayed = FALSE /\ c.attempts = 0
    BY <1>9 DEF Challenge, BareChallenge
  <2> QED BY <2>1 DEF Challenge, Barely
<1> QED BY <1>1, <1>2, <1>3, <1>4, <1>5, <1>6, <1>7, <1>8, <1>9 DEF BareChallenge

LEMMA BareIs ==
    ASSUME NEW cs, cs \subseteq BareChallenge
    PROVE  Bare(cs) = cs
<1>1. \A c \in cs : Barely(c) = c
    BY BarelyIs, BareIsChallenge
<1> QED BY <1>1 DEF Bare

(* The rebuilt book, seen through the book it mirrors *)
LEMMA Mirrored ==
    ASSUME NEW b, NEW h, Logged(b, h)
    PROVE  LET r == Replay(b.events, h) IN
           /\ Rebuilt(r) /\ r \in Book
           /\ b \in Book /\ b.events \in Seq(Event)
           /\ r.listings = b.listings
           /\ r.sales \in ByName(Sale) /\ b.sales \in ByName(Sale)
           /\ Plain(r.sales) = Plain(b.sales)
           /\ r.challenges = Bare(b.challenges)
           /\ b.challenges \subseteq Challenge
<1> DEFINE r == Replay(b.events, h)
<1>1. b \in Book /\ View(r) = View(b)
    BY DEF Logged, Typed
<1>2. b.events \in Seq(Event) /\ b.sales \in ByName(Sale) /\ b.challenges \subseteq Challenge
    BY <1>1, BookParts
<1>3. Rebuilt(r)
    BY <1>2, ReplayRebuilt
<1> HIDE DEF r
<1>4. r \in Book /\ r.challenges \subseteq BareChallenge
    BY <1>3 DEF Rebuilt
<1>5. r.sales \in ByName(Sale)
    BY <1>4, BookParts
<1>6. r.listings = b.listings /\ Plain(r.sales) = Plain(b.sales)
      /\ Bare(r.challenges) = Bare(b.challenges)
    BY <1>1, SameView
<1>7. r.challenges = Bare(b.challenges)
    BY <1>4, <1>6, BareIs
<1>8. /\ Rebuilt(r) /\ r \in Book
      /\ b \in Book /\ b.events \in Seq(Event)
      /\ r.listings = b.listings
      /\ r.sales \in ByName(Sale) /\ b.sales \in ByName(Sale)
      /\ Plain(r.sales) = Plain(b.sales)
      /\ r.challenges = Bare(b.challenges)
      /\ b.challenges \subseteq Challenge
    BY <1>1, <1>2, <1>3, <1>4, <1>5, <1>6, <1>7
<1> QED BY <1>8 DEF r

LEMMA LogConcat ==
    ASSUME NEW h \in Nat \ {0}, NEW evs \in Seq(Event), NEW new \in Seq(Event),
           LogTo(evs, h), \A i \in 1 .. Len(new) : new[i].height = h
    PROVE  LogTo(evs \o new, h)
<1> DEFINE l == Len(evs)
           m == Len(new)
           all == evs \o new
<1>1. /\ l \in Nat /\ m \in Nat /\ Len(all) = l + m
      /\ \A i \in 1 .. l + m : all[i] = IF i <= l THEN evs[i] ELSE new[i - l]
    BY ConcatProperties, LenProperties
<1>2. \A i \in 1 .. l : evs[i].height \in 1 .. h
    BY DEF LogTo
<1>3. \A i, j \in 1 .. l : i <= j => evs[i].height <= evs[j].height
    BY DEF LogTo
<1> HIDE DEF all, l
<1>4. \A i \in 1 .. l + m : (i <= l /\ i \in 1 .. l) \/ (~(i <= l) /\ i - l \in 1 .. m)
    BY <1>1
<1>5. \A i \in 1 .. l + m : IF i <= l THEN i \in 1 .. l /\ all[i].height = evs[i].height
                                      ELSE all[i].height = h
    BY <1>1, <1>4
<1> HIDE DEF m
<1>6. \A i \in 1 .. l + m : all[i].height \in 1 .. h
    BY <1>2, <1>5
<1>7. ASSUME NEW i \in 1 .. l + m, NEW j \in 1 .. l + m, i <= j
      PROVE  all[i].height <= all[j].height
  <2>1. CASE j <= l
    <3>1. i <= l
        BY <1>1, <1>7, <2>1
    <3> QED BY <1>3, <1>5, <1>7, <2>1, <3>1
  <2>2. CASE ~(j <= l)
    BY <1>5, <1>6, <2>2
  <2> QED BY <2>1, <2>2
<1>8. LogTo(all, h)
    BY <1>1, <1>6, <1>7 DEF LogTo
<1> QED BY <1>8 DEF all

LEMMA GrownBy ==
    ASSUME NEW h \in Nat \ {0}, NEW b, Logged(b, h), NEW b2, Typed(b2),
           NEW new \in Seq(Event), \A i \in 1 .. Len(new) : new[i].height = h,
           b2.events = b.events \o new,
           View(Replay(b.events \o new, h)) = View(b2)
    PROVE  Grown(b, b2, h)
<1>1. b.events \in Seq(Event) /\ LogTo(b.events, h)
    BY Mirrored DEF Logged
<1>2. LogTo(b2.events, h)
    BY <1>1, LogConcat
<1>3. ASSUME NEW k \in Nat, k < h PROVE Replay(b2.events, k) = Replay(b.events, k)
  <2>1. \A i \in 1 .. Len(new) : ~(new[i].height <= k)
    BY <1>3
  <2> QED BY <1>1, <2>1, ReplayBelow
<1> QED BY <1>2, <1>3 DEF Grown, Logged

-----------------------------------------------------------------------------
(***************************************************************************)
(* Every change to a book is logged                                        *)
(***************************************************************************)
Parts(b, ls, ss, cs, evs) ==
    b.listings = ls /\ b.sales = ss /\ b.challenges = cs /\ b.events = evs

LEMMA BookOf ==
    ASSUME NEW ls \in ByName(Listing), NEW ss \in ByName(Sale),
           NEW cs \in SUBSET Challenge, NEW evs \in Seq(Event), NEW b,
           b = [listings |-> ls, sales |-> ss, challenges |-> cs, events |-> evs]
    PROVE  b \in Book /\ Parts(b, ls, ss, cs, evs)
BY DEF Book, Parts

Cat(s, t) == s \o t

LEMMA PutIs ==
    ASSUME NEW b, NEW ls, NEW ss, NEW cs, NEW evs,
           b = [listings |-> ls, sales |-> ss, challenges |-> cs, events |-> evs], NEW x
    PROVE  /\ [b EXCEPT !.listings = x] =
                [listings |-> x, sales |-> ss, challenges |-> cs, events |-> evs]
           /\ [b EXCEPT !.sales = x] =
                [listings |-> ls, sales |-> x, challenges |-> cs, events |-> evs]
           /\ [b EXCEPT !.challenges = x] =
                [listings |-> ls, sales |-> ss, challenges |-> x, events |-> evs]
           /\ [b EXCEPT !.events = x] =
                [listings |-> ls, sales |-> ss, challenges |-> cs, events |-> x]
           /\ b.listings = ls /\ b.sales = ss /\ b.challenges = cs /\ b.events = evs
OBVIOUS

LEMMA LogIs ==
    ASSUME NEW b, NEW ls, NEW ss, NEW cs, NEW evs,
           b = [listings |-> ls, sales |-> ss, challenges |-> cs, events |-> evs],
           NEW h, NEW type, NEW B
    PROVE  Log(b, h, type, B) = [listings |-> ls, sales |-> ss, challenges |-> cs,
                                 events |-> Cat(evs, Stamped(h, type, B))]
<1> DEFINE st == Stamped(h, type, B)
           all == Cat(evs, st)
<1>1. Log(b, h, type, B) = [b EXCEPT !.events = Cat(b.events, st)]
    BY DEF Log, Cat
<1>2. b.events = evs
    OBVIOUS
<1>3. Log(b, h, type, B) = [b EXCEPT !.events = all]
    BY <1>1, <1>2
<1> HIDE DEF all
<1>4. Log(b, h, type, B) = [listings |-> ls, sales |-> ss, challenges |-> cs, events |-> all]
    BY <1>3, PutIs
<1> QED BY <1>4 DEF all

LEMMA LoggedParts ==
    ASSUME NEW b, NEW h, Logged(b, h)
    PROVE  /\ b = [listings |-> b.listings, sales |-> b.sales,
                   challenges |-> b.challenges, events |-> b.events]
           /\ b.listings \in ByName(Listing) /\ b.sales \in ByName(Sale)
           /\ b.challenges \in SUBSET Challenge /\ b.events \in Seq(Event)
           /\ Named(b) /\ IsFiniteSet(b.challenges) /\ OneCode(b.challenges)
BY BookParts DEF Logged, Typed

LEMMA NamedWithout ==
    ASSUME NEW V, NEW f \in ByName(V), NEW S, \A n \in DOMAIN f : f[n].name = n
    PROVE  \A n \in DOMAIN Without(f, S) : Without(f, S)[n].name = n
BY DEF Without, Restrict

LEMMA NamesFinite == ASSUME NEW S, S \subseteq Names PROVE IsFiniteSet(S)
BY MarketAssumption, FS_Subset

LEMMA DropListingsLogged ==
    ASSUME NEW h \in Nat \ {0}, NEW b, Logged(b, h), NEW ns, ns \subseteq Names
    PROVE  LET b2 == DropListings(b, ns, h) IN
           /\ Grown(b, b2, h)
           /\ b2.listings = Without(b.listings, ns)
           /\ b2.sales = b.sales /\ b2.challenges = b.challenges
<1> DEFINE b2 == DropListings(b, ns, h)
           new == Stamped(h, "delist", ns)
           r == Replay(b.events, h)
           q == Replay(Cat(b.events, new), h)
           L == Without(b.listings, ns)
<1>1. /\ b.listings \in ByName(Listing) /\ b.sales \in ByName(Sale)
      /\ b.challenges \in SUBSET Challenge /\ b.events \in Seq(Event)
      /\ Named(b) /\ IsFiniteSet(b.challenges) /\ OneCode(b.challenges)
    BY LoggedParts
<1>2. "delist" \in Bulk /\ IsFiniteSet(ns) /\ h \in Nat
      /\ \A x \in ns : [height |-> h, type |-> "delist", body |-> x] \in Event
    BY NamesFinite DEF Bulk, Event
<1>3. /\ new \in Seq(Event) /\ \A i \in 1 .. Len(new) : new[i].height = h
      /\ Effect(r, q, "delist", ns)
    BY <1>1, <1>2, LogBulk DEF Cat
<1>4. Cat(b.events, new) \in Seq(Event)
    BY <1>1, <1>3, ConcatProperties DEF Cat
<1>5. b2 = [listings |-> L, sales |-> b.sales,
            challenges |-> b.challenges, events |-> Cat(b.events, new)]
  <2> DEFINE a == [b EXCEPT !.listings = L]
  <2>1. b = [listings |-> b.listings, sales |-> b.sales,
             challenges |-> b.challenges, events |-> b.events]
    BY LoggedParts
  <2> HIDE DEF L
  <2>2. a = [listings |-> L, sales |-> b.sales,
             challenges |-> b.challenges, events |-> b.events]
    BY <2>1, PutIs
  <2>3. b2 = Log(a, h, "delist", ns)
    BY DEF DropListings, L
  <2> HIDE DEF a, b2
  <2>4. Log(a, h, "delist", ns) = [listings |-> L, sales |-> b.sales, challenges |-> b.challenges,
                              events |-> Cat(b.events, Stamped(h, "delist", ns))]
    BY <2>2, LogIs
  <2> QED BY <2>3, <2>4
<1>6. L \in ByName(Listing)
    BY <1>1, WithoutIs
<1> HIDE DEF b2, new, r, q, L
<1>7. b2 \in Book /\ Parts(b2, L, b.sales, b.challenges, Cat(b.events, new))
    BY <1>1, <1>4, <1>5, <1>6, BookOf
<1>8. \A n \in DOMAIN L : L[n].name = n
    BY <1>1, NamedWithout DEF Named, L
<1>9. Typed(b2)
    BY <1>1, <1>7, <1>8 DEF Typed, Parts, Named
<1>10. r.listings = b.listings /\ Plain(r.sales) = Plain(b.sales)
       /\ r.challenges = Bare(b.challenges) /\ Rebuilt(r)
    BY Mirrored DEF r
<1>11. q.listings = L /\ q.sales = r.sales /\ q.challenges = r.challenges
    BY <1>3, <1>10 DEF Effect, L
<1>12. Bare(r.challenges) = r.challenges
    BY <1>10, BareIs DEF Rebuilt
<1>13. View(q) = View(b2)
    BY <1>7, <1>10, <1>11, <1>12, SameView DEF Parts
<1>14. Grown(b, b2, h)
    BY <1>3, <1>7, <1>9, <1>13, GrownBy DEF Parts, q, Cat
<1> QED BY <1>7, <1>14 DEF Parts, b2, L

LEMMA DropSalesLogged ==
    ASSUME NEW h \in Nat \ {0}, NEW b, Logged(b, h), NEW ns, ns \subseteq Names,
           NEW type \in {"expire", "close"}
    PROVE  LET b2 == DropSales(b, ns, h, type) IN
           /\ Grown(b, b2, h)
           /\ b2.sales = Without(b.sales, ns)
           /\ b2.listings = b.listings /\ b2.challenges = b.challenges
<1> DEFINE b2 == DropSales(b, ns, h, type)
           new == Stamped(h, type, ns)
           r == Replay(b.events, h)
           q == Replay(Cat(b.events, new), h)
           L == Without(b.sales, ns)
<1>1. /\ b.listings \in ByName(Listing) /\ b.sales \in ByName(Sale)
      /\ b.challenges \in SUBSET Challenge /\ b.events \in Seq(Event)
      /\ Named(b) /\ IsFiniteSet(b.challenges) /\ OneCode(b.challenges)
    BY LoggedParts
<1>2. type \in Bulk /\ IsFiniteSet(ns) /\ h \in Nat
      /\ \A x \in ns : [height |-> h, type |-> type, body |-> x] \in Event
    BY NamesFinite DEF Bulk, Event
<1>3. /\ new \in Seq(Event) /\ \A i \in 1 .. Len(new) : new[i].height = h
      /\ Effect(r, q, type, ns)
    BY <1>1, <1>2, LogBulk DEF Cat
<1>4. Cat(b.events, new) \in Seq(Event)
    BY <1>1, <1>3, ConcatProperties DEF Cat
<1>5. b2 = [listings |-> b.listings, sales |-> L,
            challenges |-> b.challenges, events |-> Cat(b.events, new)]
  <2> DEFINE a == [b EXCEPT !.sales = L]
  <2>1. b = [listings |-> b.listings, sales |-> b.sales,
             challenges |-> b.challenges, events |-> b.events]
    BY LoggedParts
  <2> HIDE DEF L
  <2>2. a = [listings |-> b.listings, sales |-> L,
             challenges |-> b.challenges, events |-> b.events]
    BY <2>1, PutIs
  <2>3. b2 = Log(a, h, type, ns)
    BY DEF DropSales, L
  <2> HIDE DEF a, b2
  <2>4. Log(a, h, type, ns) = [listings |-> b.listings, sales |-> L, challenges |-> b.challenges,
                              events |-> Cat(b.events, Stamped(h, type, ns))]
    BY <2>2, LogIs
  <2> QED BY <2>3, <2>4
<1>6. L \in ByName(Sale)
    BY <1>1, WithoutIs
<1> HIDE DEF b2, new, r, q, L
<1>7. b2 \in Book /\ Parts(b2, b.listings, L, b.challenges, Cat(b.events, new))
    BY <1>1, <1>4, <1>5, <1>6, BookOf
<1>8. \A n \in DOMAIN L : L[n].name = n
    BY <1>1, NamedWithout DEF Named, L
<1>9. Typed(b2)
    BY <1>1, <1>7, <1>8 DEF Typed, Parts, Named
<1>10. r.listings = b.listings /\ Plain(r.sales) = Plain(b.sales)
       /\ r.challenges = Bare(b.challenges) /\ Rebuilt(r) /\ r.sales \in ByName(Sale)
    BY Mirrored DEF r
<1>11. q.listings = r.listings /\ q.sales = Without(r.sales, ns) /\ q.challenges = r.challenges
    BY <1>3 DEF Effect
<1>12. Bare(r.challenges) = r.challenges
    BY <1>10, BareIs DEF Rebuilt
<1>a. Plain(Without(r.sales, ns)) = Plain(L)
    BY <1>1, <1>10, PlainWithout DEF L
<1>13. View(q) = View(b2)
    BY <1>7, <1>10, <1>11, <1>12, <1>a, SameView DEF Parts
<1>14. Grown(b, b2, h)
    BY <1>3, <1>7, <1>9, <1>13, GrownBy DEF Parts, q, Cat
<1> QED BY <1>7, <1>14 DEF Parts, b2, L

LEMMA CloseChallengesLogged ==
    ASSUME NEW h \in Nat \ {0}, NEW b, Logged(b, h), NEW cs, cs \subseteq b.challenges
    PROVE  LET b2 == CloseChallenges(b, cs, h) IN
           /\ Grown(b, b2, h)
           /\ b2.challenges = b.challenges \ cs
           /\ b2.listings = b.listings /\ b2.sales = b.sales
<1> DEFINE b2 == CloseChallenges(b, cs, h)
           B == {c.code : c \in cs}
           new == Stamped(h, "challenge_closed", B)
           r == Replay(b.events, h)
           q == Replay(Cat(b.events, new), h)
           L == b.challenges \ cs
<1>1. /\ b.listings \in ByName(Listing) /\ b.sales \in ByName(Sale)
      /\ b.challenges \in SUBSET Challenge /\ b.events \in Seq(Event)
      /\ Named(b) /\ IsFiniteSet(b.challenges) /\ OneCode(b.challenges)
    BY LoggedParts
<1>a. \A c \in b.challenges : c.code \in Nat
    BY <1>1 DEF Challenge
<1>b. IsFiniteSet(B)
  <2> DEFINE f == [c \in cs |-> c.code]
  <2>1. IsFiniteSet(cs)
    BY <1>1, FS_Subset
  <2>2. f \in Surjection(cs, B)
    BY DEF Surjection
  <2> QED BY <2>1, <2>2, FS_Surjection
<1>2. "challenge_closed" \in Bulk /\ h \in Nat
      /\ \A x \in B : [height |-> h, type |-> "challenge_closed", body |-> x] \in Event
    BY <1>a DEF Bulk, Event
<1> HIDE DEF B
<1>3. /\ new \in Seq(Event) /\ \A i \in 1 .. Len(new) : new[i].height = h
      /\ Effect(r, q, "challenge_closed", B)
    BY <1>1, <1>2, <1>b, LogBulk DEF Cat
<1>4. Cat(b.events, new) \in Seq(Event)
    BY <1>1, <1>3, ConcatProperties DEF Cat
<1>5. b2 = [listings |-> b.listings, sales |-> b.sales,
            challenges |-> L, events |-> Cat(b.events, new)]
  <2> DEFINE a == [b EXCEPT !.challenges = L]
  <2>1. b = [listings |-> b.listings, sales |-> b.sales,
             challenges |-> b.challenges, events |-> b.events]
    BY LoggedParts
  <2> HIDE DEF L
  <2>2. a = [listings |-> b.listings, sales |-> b.sales,
             challenges |-> L, events |-> b.events]
    BY <2>1, PutIs
  <2>3. b2 = Log(a, h, "challenge_closed", B)
    BY DEF CloseChallenges, L, B
  <2> HIDE DEF a, b2
  <2>4. Log(a, h, "challenge_closed", B) = [listings |-> b.listings, sales |-> b.sales, challenges |-> L,
                              events |-> Cat(b.events, Stamped(h, "challenge_closed", B))]
    BY <2>2, LogIs
  <2> QED BY <2>3, <2>4
<1> HIDE DEF b2, new, r, q, L
<1>6. L \in SUBSET Challenge /\ IsFiniteSet(L) /\ OneCode(L)
    BY <1>1, FS_Subset DEF L, OneCode
<1>7. b2 \in Book /\ Parts(b2, b.listings, b.sales, L, Cat(b.events, new))
    BY <1>1, <1>4, <1>5, <1>6, BookOf
<1>9. Typed(b2)
    BY <1>1, <1>6, <1>7 DEF Typed, Parts, Named
<1>10. r.listings = b.listings /\ Plain(r.sales) = Plain(b.sales)
       /\ r.challenges = Bare(b.challenges) /\ Rebuilt(r)
    BY Mirrored DEF r
<1>11. q.listings = r.listings /\ q.sales = r.sales
       /\ q.challenges = {c \in r.challenges : c.code \notin B}
    BY <1>3 DEF Effect
<1>12. \A c \in b.challenges : c.code \in B <=> c \in cs
    BY <1>1 DEF B, OneCode
<1>13. \A c \in b.challenges : Barely(c).code = c.code
    BY <1>1, BarelyIs
<1>14. q.challenges = Bare(L)
    BY <1>10, <1>11, <1>12, <1>13 DEF Bare, L
<1>15. Bare(q.challenges) = q.challenges
    BY <1>10, <1>11, BareIs DEF Rebuilt
<1>16. View(q) = View(b2)
    BY <1>7, <1>10, <1>11, <1>14, <1>15, SameView DEF Parts
<1>17. Grown(b, b2, h)
    BY <1>3, <1>7, <1>9, <1>16, GrownBy DEF Parts, q, Cat
<1> QED BY <1>7, <1>17 DEF Parts, b2, L

(* A change with one entry *)
LEMMA OneLogged ==
    ASSUME NEW h \in Nat \ {0}, NEW b, Logged(b, h), NEW type, NEW x, NEW e \in Event,
           e = [height |-> h, type |-> type, body |-> x],
           NEW ls \in ByName(Listing), NEW ss \in ByName(Sale), NEW cs \in SUBSET Challenge,
           \A n \in DOMAIN ls : ls[n].name = n, \A n \in DOMAIN ss : ss[n].name = n,
           IsFiniteSet(cs), OneCode(cs),
           NEW b2, b2 = [listings |-> ls, sales |-> ss, challenges |-> cs,
                         events |-> Cat(b.events, Stamped(h, type, {x}))],
           ListingsAfter(Replay(b.events, h), e) = ls,
           Plain(SalesAfter(Replay(b.events, h), e)) = Plain(ss),
           Bare(ChallengesAfter(Replay(b.events, h), e)) = Bare(cs)
    PROVE  Grown(b, b2, h) /\ b2.listings = ls /\ b2.sales = ss /\ b2.challenges = cs
<1> DEFINE new == Stamped(h, type, {x})
           r == Replay(b.events, h)
           q == Replay(Cat(b.events, new), h)
<1>1. b.events \in Seq(Event)
    BY LoggedParts
<1>2. new = <<e>> /\ Cat(b.events, new) = Append(b.events, e)
  <2> DEFINE d == [height |-> h, type |-> type, body |-> x]
  <2>1. d \in Event /\ h \in Nat
    OBVIOUS
  <2>2. /\ Stamped(h, type, {x}) = <<d>>
        /\ b.events \o Stamped(h, type, {x}) = Append(b.events, d)
    BY <1>1, <2>1, LogOne
  <2>3. e = d
    OBVIOUS
  <2> HIDE DEF d
  <2> QED BY <2>2, <2>3 DEF Cat
<1>3. e.height = h
    OBVIOUS
<1>4. Rebuilt(r)
    BY <1>1, ReplayRebuilt
<1>5. q = Met(r, e, h)
    BY <1>1, <1>2, ReplayAppend
<1> HIDE DEF r, q
<1>6. /\ q.listings = ListingsAfter(r, e) /\ q.sales = SalesAfter(r, e)
      /\ q.challenges = ChallengesAfter(r, e)
    BY <1>3, <1>4, <1>5, MetRebuilt
<1>7. /\ new \in Seq(Event) /\ \A i \in 1 .. Len(new) : new[i].height = h
  <2>1. Len(<<e>>) = 1 /\ <<e>>[1] = e /\ <<e>> \in Seq(Event) /\ \A i \in 1 .. 1 : i = 1
    OBVIOUS
  <2> QED BY <1>2, <1>3, <2>1
<1>8. Cat(b.events, new) \in Seq(Event)
  <2>1. Append(b.events, e) \in Seq(Event)
    BY <1>1, AppendProperties
  <2> QED BY <1>2, <2>1
<1> HIDE DEF new
<1>9. b2 \in Book /\ Parts(b2, ls, ss, cs, Cat(b.events, new))
    BY <1>8, BookOf DEF new
<1>10. Typed(b2)
    BY <1>9 DEF Typed, Parts, Named
<1>11. View(q) = View(b2)
    BY <1>6, <1>9, SameView DEF Parts, r
<1>12. Grown(b, b2, h)
    BY <1>7, <1>9, <1>10, <1>11, GrownBy DEF Parts, q, Cat
<1> QED BY <1>9, <1>12 DEF Parts

LEMMA ListLogged ==
    ASSUME NEW h \in Nat \ {0}, NEW b, Logged(b, h), NEW listing \in Listing
    PROVE  LET b2 == Log([b EXCEPT !.listings = With(@, listing.name, listing)],
                         h, "list", {listing}) IN
           /\ Grown(b, b2, h)
           /\ b2.listings = With(b.listings, listing.name, listing)
           /\ b2.sales = b.sales /\ b2.challenges = b.challenges
<1> DEFINE ls == With(b.listings, listing.name, listing)
           a == [b EXCEPT !.listings = ls]
           b2 == Log(a, h, "list", {listing})
           e == [height |-> h, type |-> "list", body |-> listing]
           r == Replay(b.events, h)
<1>1. /\ b = [listings |-> b.listings, sales |-> b.sales,
              challenges |-> b.challenges, events |-> b.events]
      /\ b.listings \in ByName(Listing) /\ b.sales \in ByName(Sale)
      /\ b.challenges \in SUBSET Challenge
      /\ Named(b) /\ IsFiniteSet(b.challenges) /\ OneCode(b.challenges)
    BY LoggedParts
<1>2. listing.name \in Names
    BY DEF Listing
<1>3. ls \in ByName(Listing)
    BY <1>1, <1>2, WithIs
<1>4. \A n \in DOMAIN ls : ls[n].name = n
    BY <1>1 DEF With, Named
<1>5. e \in Event
    BY DEF Event
<1>6. /\ r.listings = b.listings /\ Plain(r.sales) = Plain(b.sales)
      /\ r.challenges = Bare(b.challenges) /\ Rebuilt(r)
    BY Mirrored
<1>7. /\ ListingsAfter(r, e) = ls /\ Plain(SalesAfter(r, e)) = Plain(b.sales)
      /\ ChallengesAfter(r, e) = r.challenges
    BY <1>6 DEF ListingsAfter, SalesAfter, ChallengesAfter
<1>8. Bare(r.challenges) = r.challenges
    BY <1>6, BareIs DEF Rebuilt
<1> HIDE DEF ls
<1>9. a = [listings |-> ls, sales |-> b.sales,
           challenges |-> b.challenges, events |-> b.events]
    BY <1>1, PutIs
<1> HIDE DEF a, e
<1>10. b2 = [listings |-> ls, sales |-> b.sales, challenges |-> b.challenges,
             events |-> Cat(b.events, Stamped(h, "list", {listing}))]
  <2> DEFINE one == {listing}
  <2> HIDE DEF one
  <2>1. Log(a, h, "list", one) = [listings |-> ls, sales |-> b.sales,
          challenges |-> b.challenges, events |-> Cat(b.events, Stamped(h, "list", one))]
    BY <1>9, LogIs
  <2> QED BY <2>1 DEF one
<1> HIDE DEF b2
<1>11. Bare(ChallengesAfter(r, e)) = Bare(b.challenges)
    BY <1>6, <1>7, <1>8
<1>12. e = [height |-> h, type |-> "list", body |-> listing]
    BY DEF e
<1>13. \A n \in DOMAIN b.sales : b.sales[n].name = n
    BY <1>1 DEF Named
<1>14. Grown(b, b2, h) /\ b2.listings = ls /\ b2.sales = b.sales
       /\ b2.challenges = b.challenges
    BY <1>1, <1>3, <1>4, <1>5, <1>7, <1>10, <1>11, <1>12, <1>13, OneLogged
<1> QED BY <1>14 DEF b2, a, ls

LEMMA OpenLogged ==
    ASSUME NEW h \in Nat \ {0}, NEW b, Logged(b, h), NEW sale \in Sale, NEW n,
           n = sale.name, ~IsOpen(b, n)
    PROVE  LET b2 == Log([b EXCEPT !.sales = With(@, n, sale)], h, "open", {sale}) IN
           /\ Grown(b, b2, h)
           /\ b2.sales = With(b.sales, n, sale)
           /\ b2.listings = b.listings /\ b2.challenges = b.challenges
<1> DEFINE ss == With(b.sales, n, sale)
           a == [b EXCEPT !.sales = ss]
           b2 == Log(a, h, "open", {sale})
           e == [height |-> h, type |-> "open", body |-> sale]
           r == Replay(b.events, h)
<1>1. /\ b = [listings |-> b.listings, sales |-> b.sales,
              challenges |-> b.challenges, events |-> b.events]
      /\ b.listings \in ByName(Listing) /\ b.sales \in ByName(Sale)
      /\ b.challenges \in SUBSET Challenge
      /\ Named(b) /\ IsFiniteSet(b.challenges) /\ OneCode(b.challenges)
    BY LoggedParts
<1>2. n \in Names
    BY DEF Sale
<1>3. ss \in ByName(Sale)
    BY <1>1, <1>2, WithIs
<1>4. \A m \in DOMAIN ss : ss[m].name = m
    BY <1>1 DEF With, Named
<1>5. e \in Event
    BY DEF Event
<1>6. /\ r.listings = b.listings /\ Plain(r.sales) = Plain(b.sales)
      /\ r.challenges = Bare(b.challenges) /\ Rebuilt(r) /\ r.sales \in ByName(Sale)
    BY Mirrored
<1>7. DOMAIN r.sales = DOMAIN b.sales /\ \A m \in DOMAIN b.sales : Plainly(r.sales[m]) = Plainly(b.sales[m])
    BY <1>1, <1>6, PlainAlike
<1> HIDE DEF r
<1>8. SalesAfter(r, e) = With(r.sales, n, sale)
    BY <1>7 DEF SalesAfter, IsOpen
<1>9. Plain(With(r.sales, n, sale)) = Plain(ss)
  <2> DEFINE g == With(r.sales, n, sale)
  <2>1. g \in ByName(Sale)
    BY <1>2, <1>6, WithIs
  <2>2. DOMAIN g = DOMAIN ss /\ \A m \in DOMAIN g : Plainly(g[m]) = Plainly(ss[m])
    BY <1>7 DEF With
  <2> HIDE DEF g, ss
  <2>3. Plain(g) = Plain(ss)
    BY <1>3, <2>1, <2>2, PlainAlike
  <2> QED BY <2>3 DEF g
<1>10. ListingsAfter(r, e) = b.listings /\ ChallengesAfter(r, e) = r.challenges
    BY <1>6 DEF ListingsAfter, ChallengesAfter
<1>11. Bare(r.challenges) = r.challenges
    BY <1>6, BareIs DEF Rebuilt
<1> HIDE DEF ss
<1>12. a = [listings |-> b.listings, sales |-> ss,
            challenges |-> b.challenges, events |-> b.events]
    BY <1>1, PutIs
<1> HIDE DEF a, e
<1>13. b2 = [listings |-> b.listings, sales |-> ss, challenges |-> b.challenges,
             events |-> Cat(b.events, Stamped(h, "open", {sale}))]
  <2> DEFINE one == {sale}
  <2> HIDE DEF one
  <2>1. Log(a, h, "open", one) = [listings |-> b.listings, sales |-> ss,
          challenges |-> b.challenges, events |-> Cat(b.events, Stamped(h, "open", one))]
    BY <1>12, LogIs
  <2> QED BY <2>1 DEF one
<1> HIDE DEF b2
<1>14. Bare(ChallengesAfter(r, e)) = Bare(b.challenges) /\ Plain(SalesAfter(r, e)) = Plain(ss)
    BY <1>6, <1>8, <1>9, <1>10, <1>11
<1>15. e = [height |-> h, type |-> "open", body |-> sale]
    BY DEF e
<1>16. \A m \in DOMAIN b.listings : b.listings[m].name = m
    BY <1>1 DEF Named
<1>17. Grown(b, b2, h) /\ b2.listings = b.listings /\ b2.sales = ss
       /\ b2.challenges = b.challenges
    BY <1>1, <1>3, <1>4, <1>5, <1>10, <1>13, <1>14, <1>15, <1>16, OneLogged DEF r
<1> QED BY <1>17 DEF b2, a, ss

LEMMA ChallengeLogged ==
    ASSUME NEW h \in Nat \ {0}, NEW b, Logged(b, h), NEW c \in BareChallenge,
           ~CodeIsOpen(b, c.code)
    PROVE  LET b2 == Log([b EXCEPT !.challenges = @ \cup {c}], h, "challenge", {c}) IN
           /\ Grown(b, b2, h)
           /\ b2.challenges = b.challenges \cup {c}
           /\ b2.listings = b.listings /\ b2.sales = b.sales
<1> DEFINE cs == b.challenges \cup {c}
           a == [b EXCEPT !.challenges = cs]
           b2 == Log(a, h, "challenge", {c})
           e == [height |-> h, type |-> "challenge", body |-> c]
           r == Replay(b.events, h)
<1>1. /\ b = [listings |-> b.listings, sales |-> b.sales,
              challenges |-> b.challenges, events |-> b.events]
      /\ b.listings \in ByName(Listing) /\ b.sales \in ByName(Sale)
      /\ b.challenges \in SUBSET Challenge
      /\ Named(b) /\ IsFiniteSet(b.challenges) /\ OneCode(b.challenges)
    BY LoggedParts
<1>2. c \in Challenge /\ Barely(c) = c
    BY BareIsChallenge, BarelyIs
<1>3. cs \in SUBSET Challenge /\ IsFiniteSet(cs) /\ OneCode(cs)
  <2>1. IsFiniteSet(cs)
    BY <1>1, FS_AddElement
  <2> QED BY <1>1, <1>2, <2>1 DEF OneCode, CodeIsOpen
<1>5. e \in Event
    BY DEF Event
<1>6. /\ r.listings = b.listings /\ Plain(r.sales) = Plain(b.sales)
      /\ r.challenges = Bare(b.challenges) /\ Rebuilt(r)
    BY Mirrored
<1> HIDE DEF r
<1>7. \A d \in b.challenges : Barely(d).code = d.code
    BY <1>1, BarelyIs
<1>8. ~CodeIsOpen(r, c.code)
    BY <1>6, <1>7 DEF CodeIsOpen, Bare
<1>9. ChallengesAfter(r, e) = r.challenges \cup {c}
    BY <1>8 DEF ChallengesAfter
<1>10. ListingsAfter(r, e) = b.listings /\ Plain(SalesAfter(r, e)) = Plain(b.sales)
    BY <1>6 DEF ListingsAfter, SalesAfter
<1>11. Bare(cs) = r.challenges \cup {c}
    BY <1>2, <1>6 DEF Bare
<1>12. Bare(r.challenges \cup {c}) = r.challenges \cup {c}
    BY <1>6, BareIs DEF Rebuilt
<1> HIDE DEF cs
<1>13. a = [listings |-> b.listings, sales |-> b.sales,
            challenges |-> cs, events |-> b.events]
    BY <1>1, PutIs
<1> HIDE DEF a, e
<1>14. b2 = [listings |-> b.listings, sales |-> b.sales, challenges |-> cs,
             events |-> Cat(b.events, Stamped(h, "challenge", {c}))]
  <2> DEFINE one == {c}
  <2> HIDE DEF one
  <2>1. Log(a, h, "challenge", one) = [listings |-> b.listings, sales |-> b.sales,
          challenges |-> cs, events |-> Cat(b.events, Stamped(h, "challenge", one))]
    BY <1>13, LogIs
  <2> QED BY <2>1 DEF one
<1> HIDE DEF b2
<1>15. Bare(ChallengesAfter(r, e)) = Bare(cs)
    BY <1>9, <1>11, <1>12
<1>16. e = [height |-> h, type |-> "challenge", body |-> c]
    BY DEF e
<1>17. /\ \A m \in DOMAIN b.listings : b.listings[m].name = m
       /\ \A m \in DOMAIN b.sales : b.sales[m].name = m
    BY <1>1 DEF Named
<1>18. Grown(b, b2, h) /\ b2.listings = b.listings /\ b2.sales = b.sales
       /\ b2.challenges = cs
  <2> DEFINE ls == b.listings
             ss == b.sales
  <2>1. /\ ls \in ByName(Listing) /\ ss \in ByName(Sale)
        /\ \A m \in DOMAIN ls : ls[m].name = m
        /\ \A m \in DOMAIN ss : ss[m].name = m
        /\ ListingsAfter(Replay(b.events, h), e) = ls
        /\ Plain(SalesAfter(Replay(b.events, h), e)) = Plain(ss)
    BY <1>1, <1>10, <1>17 DEF r
  <2>2. Bare(ChallengesAfter(Replay(b.events, h), e)) = Bare(cs)
    BY <1>15 DEF r
  <2>3. b2 = [listings |-> ls, sales |-> ss, challenges |-> cs,
              events |-> Cat(b.events, Stamped(h, "challenge", {c}))]
    BY <1>14
  <2> HIDE DEF ls, ss
  <2>4. Grown(b, b2, h) /\ b2.listings = ls /\ b2.sales = ss /\ b2.challenges = cs
    BY <1>3, <1>5, <1>16, <2>1, <2>2, <2>3, OneLogged
  <2> QED BY <2>4 DEF ls, ss
<1> QED BY <1>18 DEF b2, a, cs

(* A change the log does not record *)
LEMMA SilentlyGrown ==
    ASSUME NEW h \in Nat \ {0}, NEW b, Logged(b, h), NEW b2, Typed(b2),
           b2.events = b.events, View(b2) = View(b)
    PROVE  Grown(b, b2, h)
BY DEF Grown, Logged

LEMMA GrownSelf == ASSUME NEW h, NEW b, Logged(b, h) PROVE Grown(b, b, h)
BY DEF Grown

LEMMA GrownLogged == ASSUME NEW h, NEW a, NEW b, Grown(a, b, h) PROVE Logged(b, h)
BY DEF Grown

LEMMA ExpireLogged ==
    ASSUME NEW h \in Nat \ {0}, NEW b, Logged(b, h), NEW t
    PROVE  LET b2 == Expire(b, t, h) IN
           /\ Grown(b, b2, h)
           /\ b2.listings = Without(b.listings, EndedClocks(b, h))
           /\ b2.sales = Without(b.sales, LapsedSales(b, t))
           /\ b2.challenges = b.challenges \ {c \in b.challenges : t >= c.expires_at}
<1> DEFINE old == {c \in b.challenges : t >= c.expires_at}
           x == DropListings(b, EndedClocks(b, h), h)
           y == DropSales(x, LapsedSales(b, t), h, "expire")
           z == CloseChallenges(y, old, h)
<1>1. DOMAIN b.listings \subseteq Names /\ DOMAIN b.sales \subseteq Names
    BY LoggedParts, ByNameIs
<1>2. EndedClocks(b, h) \subseteq Names /\ LapsedSales(b, t) \subseteq Names
    BY <1>1 DEF EndedClocks, LapsedSales
<1>3. /\ Grown(b, x, h) /\ x.listings = Without(b.listings, EndedClocks(b, h))
      /\ x.sales = b.sales /\ x.challenges = b.challenges
    BY <1>2, DropListingsLogged
<1> HIDE DEF x
<1>4. Logged(x, h)
    BY <1>3, GrownLogged
<1>5. /\ Grown(x, y, h) /\ y.sales = Without(x.sales, LapsedSales(b, t))
      /\ y.listings = x.listings /\ y.challenges = x.challenges
    BY <1>2, <1>4, DropSalesLogged
<1> HIDE DEF y
<1>6. Logged(y, h) /\ old \subseteq y.challenges
    BY <1>3, <1>5, GrownLogged
<1> HIDE DEF old
<1>7. /\ Grown(y, z, h) /\ z.challenges = y.challenges \ old
      /\ z.listings = y.listings /\ z.sales = y.sales
    BY <1>6, CloseChallengesLogged
<1>8. z = Expire(b, t, h)
    BY DEF Expire, x, y, old
<1> HIDE DEF z
<1>9. Grown(b, z, h)
  <2>1. Grown(b, y, h)
    BY <1>3, <1>5, GrownTwice
  <2> QED BY <1>7, <2>1, GrownTwice
<1>10. /\ Grown(b, z, h)
       /\ z.listings = Without(b.listings, EndedClocks(b, h))
       /\ z.sales = Without(b.sales, LapsedSales(b, t))
       /\ z.challenges = b.challenges \ old
    BY <1>3, <1>5, <1>7, <1>9
<1> QED BY <1>8, <1>10 DEF old

Lost(b, recs) == {n \in DOMAIN b.listings : ~HeldBy(recs, n, b.listings[n].ua)}
Stale(b, recs) == {c \in b.challenges : ~HeldBy(recs, c.terms.name, c.terms.ua)}
Moved(b, recs) == {n \in DOMAIN b.sales : ~Captured(b.sales[n], recs)}

LEMMA ReconcileLogged ==
    ASSUME NEW h \in Nat \ {0}, NEW b, Logged(b, h), NEW recs
    PROVE  LET b2 == Reconcile(b, recs, h) IN
           /\ Grown(b, b2, h)
           /\ b2.listings = Without(b.listings, Lost(b, recs))
           /\ b2.sales = Without(b.sales, Moved(b, recs))
           /\ b2.challenges = b.challenges \ Stale(b, recs)
<1> DEFINE lost == Lost(b, recs)
           stale == Stale(b, recs)
           moved == Moved(b, recs)
           x == DropListings(b, lost, h)
           y == CloseChallenges(x, stale, h)
           z == DropSales(y, moved, h, "close")
<1>1. DOMAIN b.listings \subseteq Names /\ DOMAIN b.sales \subseteq Names
    BY LoggedParts, ByNameIs
<1>2. lost \subseteq Names /\ moved \subseteq Names /\ stale \subseteq b.challenges
    BY <1>1 DEF Lost, Moved, Stale
<1>3. z = Reconcile(b, recs, h)
    BY DEF Reconcile, Lost, Stale, Moved
<1> HIDE DEF lost, stale, moved
<1>4. /\ Grown(b, x, h) /\ x.listings = Without(b.listings, lost)
      /\ x.sales = b.sales /\ x.challenges = b.challenges
    BY <1>2, DropListingsLogged
<1> HIDE DEF x
<1>5. Logged(x, h) /\ stale \subseteq x.challenges
    BY <1>2, <1>4, GrownLogged
<1>6. /\ Grown(x, y, h) /\ y.challenges = x.challenges \ stale
      /\ y.listings = x.listings /\ y.sales = x.sales
    BY <1>5, CloseChallengesLogged
<1> HIDE DEF y
<1>7. Logged(y, h)
    BY <1>6, GrownLogged
<1>8. /\ Grown(y, z, h) /\ z.sales = Without(y.sales, moved)
      /\ z.listings = y.listings /\ z.challenges = y.challenges
    BY <1>2, <1>7, DropSalesLogged
<1> HIDE DEF z
<1>9. Grown(b, z, h)
  <2>1. Grown(b, y, h)
    BY <1>4, <1>6, GrownTwice
  <2> QED BY <1>8, <2>1, GrownTwice
<1>10. /\ Grown(b, z, h)
       /\ z.listings = Without(b.listings, lost)
       /\ z.sales = Without(b.sales, moved)
       /\ z.challenges = b.challenges \ stale
    BY <1>4, <1>6, <1>8, <1>9
<1> QED BY <1>3, <1>10 DEF lost, moved, stale

LEMMA ObserveLogged ==
    ASSUME NEW h \in Nat \ {0}, NEW b, Logged(b, h), NEW pays, NEW r, r.h = h
    PROVE  LET b2 == Observe(b, pays, r) IN
           /\ Grown(b, b2, h)
           /\ b2.listings = b.listings /\ b2.challenges = b.challenges
           /\ b2.sales \in ByName(Sale) /\ DOMAIN b2.sales = DOMAIN b.sales
           /\ \A n \in DOMAIN b.sales :
                b2.sales[n] = b.sales[n] \/ b2.sales[n] = [b.sales[n] EXCEPT !.paid = TRUE]
<1> DEFINE Matches(p) == {n \in DOMAIN b.sales :
                            /\ ~b.sales[n].paid
                            /\ r.t < b.sales[n].until
                            /\ HeldBy(r.recs, n, b.sales[n].alice)
                            /\ p = <<b.sales[n].pay_to, PaymentTotal(b.sales[n])>>}
           settled == {CHOOSE n \in Matches(p) : TRUE : p \in {q \in pays : Matches(q) # {}}}
           ss == [n \in DOMAIN b.sales |->
                    IF n \in settled THEN [b.sales[n] EXCEPT !.paid = TRUE] ELSE b.sales[n]]
           B == {[name |-> n, code |-> b.sales[n].code] : n \in settled}
           a == [b EXCEPT !.sales = ss]
           b2 == Log(a, h, "paid", B)
           e == Replay(b.events, h)
           new == Stamped(h, "paid", B)
           q == Replay(Cat(b.events, new), h)
<1>1. Observe(b, pays, r) = b2
    BY DEF Observe
<1>2. /\ b = [listings |-> b.listings, sales |-> b.sales,
              challenges |-> b.challenges, events |-> b.events]
      /\ b.listings \in ByName(Listing) /\ b.sales \in ByName(Sale)
      /\ b.challenges \in SUBSET Challenge /\ b.events \in Seq(Event)
      /\ Named(b) /\ IsFiniteSet(b.challenges) /\ OneCode(b.challenges)
    BY LoggedParts
<1>3. settled \subseteq DOMAIN b.sales
    OBVIOUS
<1> HIDE DEF settled
<1>4. DOMAIN b.sales \subseteq Names /\ \A n \in DOMAIN b.sales : b.sales[n] \in Sale
    BY <1>2, ByNameIs
<1>5. IsFiniteSet(B)
  <2> DEFINE f == [n \in settled |-> [name |-> n, code |-> b.sales[n].code]]
  <2>1. IsFiniteSet(settled)
    BY <1>3, <1>4, NamesFinite
  <2>2. f \in Surjection(settled, B)
    BY DEF Surjection
  <2> QED BY <2>1, <2>2, FS_Surjection
<1>6. \A x \in B : x \in Receipt
    BY <1>3, <1>4 DEF Sale, Receipt
<1>7. "paid" \in Bulk /\ h \in Nat
      /\ \A x \in B : [height |-> h, type |-> "paid", body |-> x] \in Event
    BY <1>6 DEF Bulk, Event
<1>8. \A n \in DOMAIN b.sales : [name |-> n, code |-> b.sales[n].code] \in B <=> n \in settled
    OBVIOUS
<1> HIDE DEF B
<1>9. /\ new \in Seq(Event) /\ \A i \in 1 .. Len(new) : new[i].height = h
      /\ Effect(e, q, "paid", B)
    BY <1>2, <1>5, <1>7, LogBulk DEF Cat
<1>10. ss \in ByName(Sale)
  <2>1. \A n \in DOMAIN b.sales : [b.sales[n] EXCEPT !.paid = TRUE] \in Sale
    BY <1>4, PaidSale
  <2>2. ss \in [DOMAIN b.sales -> Sale]
    BY <1>4, <2>1
  <2> QED BY <1>4, <2>2 DEF ByName
<1>11. \A n \in DOMAIN ss : ss[n].name = n
  <2>1. \A n \in DOMAIN b.sales : b.sales[n].name = n /\ [b.sales[n] EXCEPT !.paid = TRUE].name = n
    BY <1>2, <1>4, PaidSale DEF Named
  <2> QED BY <2>1
<1>12. Cat(b.events, new) \in Seq(Event)
    BY <1>2, <1>9, ConcatProperties DEF Cat
<1>13. /\ DOMAIN ss = DOMAIN b.sales
       /\ \A n \in DOMAIN b.sales :
            ss[n] = IF n \in settled THEN [b.sales[n] EXCEPT !.paid = TRUE] ELSE b.sales[n]
    OBVIOUS
<1> HIDE DEF ss
<1>14. a = [listings |-> b.listings, sales |-> ss,
            challenges |-> b.challenges, events |-> b.events]
  <2>1. b = [listings |-> b.listings, sales |-> b.sales,
             challenges |-> b.challenges, events |-> b.events]
    BY <1>2
  <2> QED BY <2>1, PutIs
<1> HIDE DEF a
<1>15. b2 = [listings |-> b.listings, sales |-> ss, challenges |-> b.challenges,
             events |-> Cat(b.events, new)]
    BY <1>14, LogIs
<1> HIDE DEF b2, new, e, q
<1>16. b2 \in Book /\ Parts(b2, b.listings, ss, b.challenges, Cat(b.events, new))
    BY <1>2, <1>10, <1>12, <1>15, BookOf
<1>17. Typed(b2)
    BY <1>2, <1>11, <1>16 DEF Typed, Parts, Named
<1>18. e.listings = b.listings /\ Plain(e.sales) = Plain(b.sales)
       /\ e.challenges = Bare(b.challenges) /\ Rebuilt(e) /\ e.sales \in ByName(Sale)
    BY Mirrored DEF e
<1>19. q.listings = e.listings /\ q.sales = Settled(e.sales, B) /\ q.challenges = e.challenges
    BY <1>9 DEF Effect
<1>20. Bare(e.challenges) = e.challenges
    BY <1>18, BareIs DEF Rebuilt
<1>21. Plain(Settled(e.sales, B)) = Plain(ss)
  <2> DEFINE g == Settled(e.sales, B)
  <2>1. /\ DOMAIN e.sales = DOMAIN b.sales
        /\ \A n \in DOMAIN b.sales : Plainly(e.sales[n]) = Plainly(b.sales[n])
    BY <1>2, <1>18, PlainAlike
  <2>2. \A n \in DOMAIN b.sales : e.sales[n] \in Sale
    BY <1>18, <2>1, ByNameIs
  <2>3. ASSUME NEW n \in DOMAIN b.sales PROVE e.sales[n].code = b.sales[n].code
    <3>1. e.sales[n] \in Sale /\ b.sales[n] \in Sale
        BY <1>4, <2>2
    <3>2. Plainly(e.sales[n]).code = e.sales[n].code /\ Plainly(b.sales[n]).code = b.sales[n].code
        BY <3>1, PlainlyIs
    <3> QED BY <2>1, <3>2
  <2>4. /\ DOMAIN g = DOMAIN b.sales
        /\ \A n \in DOMAIN b.sales :
             g[n] = IF n \in settled THEN [e.sales[n] EXCEPT !.paid = TRUE] ELSE e.sales[n]
    BY <1>8, <2>1, <2>3 DEF Settled
  <2> HIDE DEF g
  <2>5. \A n \in DOMAIN b.sales : /\ Plainly([e.sales[n] EXCEPT !.paid = TRUE])
                                       = [Plainly(e.sales[n]) EXCEPT !.paid = TRUE]
                                  /\ Plainly([b.sales[n] EXCEPT !.paid = TRUE])
                                       = [Plainly(b.sales[n]) EXCEPT !.paid = TRUE]
    BY <1>4, <2>2, PlainlyIs
  <2>6. ASSUME NEW n \in DOMAIN b.sales PROVE Plainly(g[n]) = Plainly(ss[n])
    <3>1. Plainly(e.sales[n]) = Plainly(b.sales[n])
        BY <2>1
    <3>2. CASE n \in settled
      <4>1. g[n] = [e.sales[n] EXCEPT !.paid = TRUE] /\ ss[n] = [b.sales[n] EXCEPT !.paid = TRUE]
        BY <1>13, <2>4, <3>2
      <4> QED BY <2>5, <3>1, <4>1
    <3>3. CASE n \notin settled
      <4>1. g[n] = e.sales[n] /\ ss[n] = b.sales[n]
        BY <1>13, <2>4, <3>3
      <4> QED BY <3>1, <4>1
    <3> QED BY <3>2, <3>3
  <2>7. Plain(g) = Plain(ss)
    BY <1>13, <2>4, <2>6 DEF Plain
  <2> QED BY <2>7 DEF g
<1>22. View(q) = View(b2)
    BY <1>16, <1>18, <1>19, <1>20, <1>21, SameView DEF Parts
<1>23. Grown(b, b2, h)
    BY <1>9, <1>16, <1>17, <1>22, GrownBy DEF Parts, q, Cat
<1> HIDE DEF Matches
<1>24. /\ Grown(b, b2, h)
       /\ b2.listings = b.listings /\ b2.challenges = b.challenges
       /\ b2.sales \in ByName(Sale) /\ DOMAIN b2.sales = DOMAIN b.sales
       /\ \A n \in DOMAIN b.sales :
            b2.sales[n] = b.sales[n] \/ b2.sales[n] = [b.sales[n] EXCEPT !.paid = TRUE]
    BY <1>10, <1>13, <1>16, <1>23 DEF Parts
<1> QED BY <1>1, <1>24

-----------------------------------------------------------------------------
(***************************************************************************)
(* What a book holds                                                       *)
(***************************************************************************)
Record == [ua : Addrs, commitment : Held, deadline : Nat]

(* Nothing on the book is past its time. *)
Fresh(b, t, h) ==
    /\ \A n \in DOMAIN b.listings : ~(b.listings[n].ask.dutch /\ h > b.listings[n].ask.end)
    /\ \A n \in DOMAIN b.sales : b.sales[n].paid \/ ~(t >= b.sales[n].until)
    /\ \A c \in b.challenges : ~(t >= c.expires_at)

(* Everything on the book is against the name's current holder and note. *)
Current(b, recs) ==
    /\ \A n \in DOMAIN b.listings : HeldBy(recs, n, b.listings[n].ua)
    /\ \A n \in DOMAIN b.sales : Captured(b.sales[n], recs)
    /\ \A c \in b.challenges : HeldBy(recs, c.terms.name, c.terms.ua)

Bill(s) == <<s.pay_to, PaymentTotal(s)>>

(* A buy stands alone: no challenge on its name, no other unpaid buy with  *)
(* its bill.                                                               *)
Apart(b) ==
    /\ \A n \in DOMAIN b.sales : \A c \in b.challenges : c.terms.name # n
    /\ \A m, n \in DOMAIN b.sales :
         ~b.sales[m].paid /\ ~b.sales[n].paid /\ Bill(b.sales[m]) = Bill(b.sales[n]) => m = n

Patient(b) == \A c \in b.challenges : c.attempts < MAX_ATTEMPTS

Good(b, recs, t, h) ==
    Fresh(b, t, h) /\ Current(b, recs) /\ Apart(b) /\ Patient(b)

(* The sale is the same, or has been paid or relayed since. *)
SameQuote(s, q) ==
    /\ q.name = s.name /\ q.bob = s.bob /\ q.code = s.code /\ q.price = s.price
    /\ q.held = s.held
    /\ s.paid => q.paid

Keeps(b, b2, pending) ==
    /\ \A n \in DOMAIN b.sales : n \in DOMAIN b2.sales /\ SameQuote(b.sales[n], b2.sales[n])
    /\ \A n \in DOMAIN b2.sales : n \in DOMAIN b.sales \/ n \notin pending

IsBlock(r) ==
    /\ r.h \in Nat \ {0} /\ r.t \in Nat
    /\ r.recs \in ByName(Record)

(* What a memo of a block may make of a book *)
Memo(b, b2, r) ==
    /\ Grown(b, b2, r.h)
    /\ Good(b2, r.recs, r.t, r.h)
    /\ Keeps(b, b2, r.pending)

LEMMA RefusedMemo ==
    ASSUME NEW r, NEW b, Logged(b, r.h), Good(b, r.recs, r.t, r.h)
    PROVE  Memo(b, b, r)
BY GrownSelf DEF Memo, Keeps, SameQuote

LEMMA PushMemo ==
    ASSUME NEW r, IsBlock(r), NEW b, Logged(b, r.h), Good(b, r.recs, r.t, r.h),
           NEW terms \in Terms, NEW code \in Nat,
           ~CodeIsOpen(b, code), HeldBy(r.recs, terms.name, terms.ua), ~IsOpen(b, terms.name)
    PROVE  Memo(b, PushChallenge(b, terms, code, r), r)
<1> DEFINE c == [terms |-> terms, code |-> code, expires_at |-> r.t + D_OTP,
                 relayed |-> FALSE, attempts |-> 0]
           b2 == Log([b EXCEPT !.challenges = @ \cup {c}], r.h, "challenge", {c})
<1>1. D_OTP \in Nat \ {0} /\ MAX_ATTEMPTS \in Nat \ {0} /\ r.t \in Nat /\ r.h \in Nat \ {0}
    BY MarketAssumption DEF IsBlock
<1>2. r.t + D_OTP \in Nat /\ ~(r.t >= r.t + D_OTP)
    BY <1>1
<1>3. c \in Challenge
    BY <1>2 DEF Challenge
<1>4. ~c.relayed
    OBVIOUS
<1>5. c.attempts = 0 /\ c.code = code /\ c.terms = terms /\ c.expires_at = r.t + D_OTP
    OBVIOUS
<1>6. b2 = PushChallenge(b, terms, code, r)
    BY DEF PushChallenge
<1> HIDE DEF c
<1>7. c \in BareChallenge
    BY <1>3, <1>4, <1>5 DEF BareChallenge
<1>8. /\ Grown(b, b2, r.h)
      /\ b2.challenges = b.challenges \cup {c}
      /\ b2.listings = b.listings /\ b2.sales = b.sales
    BY <1>1, <1>5, <1>7, ChallengeLogged
<1> HIDE DEF b2
<1>9. Fresh(b2, r.t, r.h)
    BY <1>2, <1>5, <1>8 DEF Good, Fresh
<1>10. Current(b2, r.recs)
    BY <1>5, <1>8 DEF Good, Current
<1>11. Apart(b2)
    BY <1>5, <1>8 DEF Good, Apart, IsOpen
<1>12. Patient(b2)
    BY <1>1, <1>5, <1>8 DEF Good, Patient
<1>13. Memo(b, b2, r)
    BY <1>8, <1>9, <1>10, <1>11, <1>12 DEF Memo, Good, Keeps, SameQuote
<1> QED BY <1>6, <1>13

LEMMA ProposeListMemo ==
    ASSUME NEW r, IsBlock(r), NEW b, Logged(b, r.h), Good(b, r.recs, r.t, r.h),
           NEW listing \in Listing, NEW code \in Nat
    PROVE  Memo(b, ProposeList(b, listing, code, r), r)
<1>1. CASE ~CodeIsOpen(b, code) /\ listing.name \in DOMAIN r.recs
           /\ IsOwnerListing(r.recs[listing.name].ua, listing) /\ ~IsOpen(b, listing.name)
  <2>1. listing \in Terms /\ HeldBy(r.recs, listing.name, listing.ua)
    BY <1>1 DEF Terms, IsOwnerListing, HeldBy
  <2>2. Memo(b, PushChallenge(b, listing, code, r), r)
    BY <1>1, <2>1, PushMemo
  <2> QED BY <2>2, RefusedMemo DEF ProposeList
<1>2. CASE ~(~CodeIsOpen(b, code) /\ listing.name \in DOMAIN r.recs
             /\ IsOwnerListing(r.recs[listing.name].ua, listing) /\ ~IsOpen(b, listing.name))
    BY <1>2, RefusedMemo DEF ProposeList
<1> QED BY <1>1, <1>2

LEMMA ProposeDelistMemo ==
    ASSUME NEW r, IsBlock(r), NEW b, Logged(b, r.h), Good(b, r.recs, r.t, r.h),
           NEW terms \in Delisting, NEW code \in Nat
    PROVE  Memo(b, ProposeDelist(b, terms, code, r), r)
<1>1. CASE ~CodeIsOpen(b, code) /\ HeldBy(r.recs, terms.name, terms.ua) /\ ~IsOpen(b, terms.name)
  <2>1. terms \in Terms
    BY DEF Terms
  <2>2. Memo(b, PushChallenge(b, terms, code, r), r)
    BY <1>1, <2>1, PushMemo
  <2> QED BY <2>2, RefusedMemo DEF ProposeDelist
<1>2. CASE ~(~CodeIsOpen(b, code) /\ HeldBy(r.recs, terms.name, terms.ua)
             /\ ~IsOpen(b, terms.name))
    BY <1>2, RefusedMemo DEF ProposeDelist
<1> QED BY <1>1, <1>2

LEMMA AskIs ==
    ASSUME NEW ask \in Asks
    PROVE  /\ ask.dutch \in BOOLEAN
           /\ ask.start_price \in Nat /\ ask.min_price \in Nat
           /\ ask.start \in Nat /\ ask.end \in Nat
           /\ ask.dutch => ask.end > ask.start /\ ask.start_price > ask.min_price
BY MarketAssumption

LEMMA PriceIsInt ==
    ASSUME NEW ask \in Asks, NEW h \in Nat
    PROVE  PriceAt(ask, h) \in Int
<1> DEFINE x == (ask.start_price - ask.min_price) * (h - ask.start)
           d == ask.end - ask.start
<1>1. CASE ask.dutch
  <2>1. d \in Nat /\ d > 0 /\ x \in Int
    BY <1>1, AskIs
  <2> HIDE DEF d, x
  <2>2. x \div d \in Int
    BY <2>1
  <2>3. PriceAt(ask, h) = ask.start_price - (x \div d)
    BY <1>1 DEF PriceAt, x, d
  <2>4. ask.start_price \in Int
    BY AskIs
  <2> QED BY <2>2, <2>3, <2>4
<1>2. CASE ~ask.dutch
    BY <1>2, AskIs DEF PriceAt
<1> QED BY <1>1, <1>2

LEMMA NewSaleIs ==
    ASSUME NEW r, IsBlock(r), NEW listing \in Listing, listing.name \in DOMAIN r.recs,
           NEW bob \in Addrs, NEW code \in Nat
    PROVE  LET s == NewSale(listing, bob, code, r) IN
           /\ s \in Sale /\ s.name = listing.name /\ ~s.paid
           /\ s.until \in Nat /\ ~(r.t >= s.until)
           /\ Captured(s, r.recs)
<1> DEFINE s == NewSale(listing, bob, code, r)
           rec == r.recs[listing.name]
           span == IF listing.ask.dutch THEN D_DUTCH ELSE D_OTP
<1>1. listing.ask \in Asks /\ listing.name \in Names /\ listing.pay_to \in TAddrs
    BY DEF Listing
<1>2. rec \in Record
    BY ByNameIs DEF IsBlock
<1>3. rec.ua \in Addrs /\ rec.commitment \in Held
    BY <1>2 DEF Record
<1>4. r.t \in Nat /\ r.h \in Nat /\ span \in Nat \ {0}
    BY MarketAssumption DEF IsBlock
<1>5. r.t + span \in Nat /\ ~(r.t >= r.t + span)
    BY <1>4
<1>6. PriceAt(listing.ask, r.h) \in Int /\ listing.ask.dutch \in BOOLEAN
    BY <1>1, <1>4, PriceIsInt, AskIs
<1> HIDE DEF rec, span
<1>7. s = [name |-> listing.name, bob |-> bob, alice |-> rec.ua, held |-> rec.commitment,
           dutch |-> listing.ask.dutch, until |-> r.t + span, code |-> code,
           pay_to |-> listing.pay_to, price |-> PriceAt(listing.ask, r.h),
           paid |-> FALSE, relayed |-> FALSE]
    BY DEF NewSale, rec, span
<1> HIDE DEF s
<1>8. s \in Sale
    BY <1>1, <1>3, <1>5, <1>6, <1>7 DEF Sale
<1>9. s.name = listing.name /\ s.until = r.t + span /\ s.alice = rec.ua /\ s.held = rec.commitment
    BY <1>7
<1>10. ~s.paid
    BY <1>7
<1>11. Captured(s, r.recs)
    BY <1>9 DEF Captured, HeldBy, rec
<1>12. /\ s \in Sale /\ s.name = listing.name /\ ~s.paid
       /\ s.until \in Nat /\ ~(r.t >= s.until)
       /\ Captured(s, r.recs)
    BY <1>5, <1>8, <1>9, <1>10, <1>11
<1> QED BY <1>12 DEF s

LEMMA OpenBuyMemo ==
    ASSUME NEW r, IsBlock(r), NEW b, Logged(b, r.h), Good(b, r.recs, r.t, r.h),
           NEW n, NEW bob \in Addrs, NEW code \in Nat
    PROVE  Memo(b, OpenBuy(b, n, bob, code, r), r)
<1> DEFINE sale == NewSale(b.listings[n], bob, code, r)
           x == Log([b EXCEPT !.sales = With(@, n, sale)], r.h, "open", {sale})
           cs == {c \in b.challenges : c.terms.name = n}
           y == CloseChallenges(x, cs, r.h)
<1>1. CASE /\ n \in DOMAIN r.recs /\ ~IsOpen(b, n) /\ n \in DOMAIN b.listings
           /\ n \notin r.pending /\ ~SamePayment(b, sale)
  <2>1. b.listings[n] \in Listing /\ b.listings[n].name = n
    <3>1. b.listings \in ByName(Listing) /\ Named(b)
        BY LoggedParts
    <3> QED BY <1>1, <3>1, ByNameIs DEF Named
  <2>2. /\ sale \in Sale /\ sale.name = n /\ ~sale.paid
        /\ ~(r.t >= sale.until)
        /\ Captured(sale, r.recs)
    BY <1>1, <2>1, NewSaleIs
  <2>3. r.h \in Nat \ {0}
    BY DEF IsBlock
  <2>a. OpenBuy(b, n, bob, code, r) = y \/ OpenBuy(b, n, bob, code, r) = b
    BY DEF OpenBuy
  <2>b. ~\E m \in DOMAIN b.sales : ~b.sales[m].paid /\ Bill(b.sales[m]) = Bill(sale)
    BY <1>1 DEF SamePayment, Bill
  <2> HIDE DEF sale
  <2>4. /\ Grown(b, x, r.h)
        /\ x.sales = With(b.sales, n, sale)
        /\ x.listings = b.listings /\ x.challenges = b.challenges
    BY <1>1, <2>2, <2>3, OpenLogged
  <2> HIDE DEF x
  <2>5. Logged(x, r.h) /\ cs \subseteq x.challenges
    BY <2>4, GrownLogged
  <2>6. /\ Grown(x, y, r.h) /\ y.challenges = x.challenges \ cs
        /\ y.listings = x.listings /\ y.sales = x.sales
    BY <2>3, <2>5, CloseChallengesLogged
  <2> HIDE DEF y
  <2>7. Grown(b, y, r.h)
    BY <2>4, <2>6, GrownTwice
  <2>8. /\ DOMAIN y.sales = DOMAIN b.sales \cup {n}
        /\ y.sales[n] = sale
        /\ \A m \in DOMAIN b.sales : m # n /\ y.sales[m] = b.sales[m]
    BY <1>1, <2>4, <2>6 DEF With, IsOpen
  <2>9. y.listings = b.listings /\ y.challenges = b.challenges \ cs
    BY <2>4, <2>6
  <2>10. Fresh(y, r.t, r.h)
    BY <2>2, <2>8, <2>9 DEF Good, Fresh
  <2>11. Current(y, r.recs)
    BY <2>2, <2>8, <2>9 DEF Good, Current
  <2>12. Apart(y)
    <3>1. \A m \in DOMAIN y.sales : \A c \in y.challenges : c.terms.name # m
        BY <2>8, <2>9 DEF Good, Apart
    <3>2. ASSUME NEW l \in DOMAIN y.sales, NEW m \in DOMAIN y.sales, ~y.sales[l].paid,
                 ~y.sales[m].paid, Bill(y.sales[l]) = Bill(y.sales[m])
          PROVE  l = m
      <4>1. CASE l \in DOMAIN b.sales /\ m \in DOMAIN b.sales
        BY <2>8, <3>2, <4>1 DEF Good, Apart
      <4>2. CASE l = n /\ m \in DOMAIN b.sales
        BY <2>8, <2>b, <3>2, <4>2
      <4>3. CASE m = n /\ l \in DOMAIN b.sales
        BY <2>8, <2>b, <3>2, <4>3
      <4> QED BY <2>8, <4>1, <4>2, <4>3
    <3> QED BY <3>1, <3>2 DEF Apart
  <2>13. Patient(y)
    BY <2>9 DEF Good, Patient
  <2>14. Keeps(b, y, r.pending)
    BY <1>1, <2>8 DEF Keeps, SameQuote
  <2>15. Memo(b, y, r)
    BY <2>7, <2>10, <2>11, <2>12, <2>13, <2>14 DEF Memo, Good
  <2> QED BY <2>15, <2>a, RefusedMemo
<1>2. CASE ~(/\ n \in DOMAIN r.recs /\ ~IsOpen(b, n) /\ n \in DOMAIN b.listings
             /\ n \notin r.pending /\ ~SamePayment(b, sale))
    BY <1>2, RefusedMemo DEF OpenBuy
<1> QED BY <1>1, <1>2

(* A book from which entries were taken *)
Fewer(b, b2) ==
    /\ DOMAIN b2.listings \subseteq DOMAIN b.listings
    /\ \A n \in DOMAIN b2.listings : b2.listings[n] = b.listings[n]
    /\ DOMAIN b2.sales \subseteq DOMAIN b.sales
    /\ \A n \in DOMAIN b2.sales : b2.sales[n] = b.sales[n]
    /\ b2.challenges \subseteq b.challenges

LEMMA FewerGood ==
    ASSUME NEW b, NEW b2, Fewer(b, b2), NEW t, NEW h, NEW recs
    PROVE  /\ Fresh(b, t, h) => Fresh(b2, t, h)
           /\ Current(b, recs) => Current(b2, recs)
           /\ Apart(b) => Apart(b2)
           /\ Patient(b) => Patient(b2)
<1>1. Fresh(b, t, h) => Fresh(b2, t, h)
    BY DEF Fewer, Fresh
<1>2. Current(b, recs) => Current(b2, recs)
    BY DEF Fewer, Current
<1>3. ASSUME Apart(b) PROVE Apart(b2)
  <2>1. \A n \in DOMAIN b2.sales : \A c \in b2.challenges : c.terms.name # n
    BY <1>3 DEF Fewer, Apart
  <2>2. ASSUME NEW m \in DOMAIN b2.sales, NEW n \in DOMAIN b2.sales, ~b2.sales[m].paid,
               ~b2.sales[n].paid, Bill(b2.sales[m]) = Bill(b2.sales[n])
        PROVE  m = n
    BY <1>3, <2>2 DEF Fewer, Apart
  <2> QED BY <2>1, <2>2 DEF Apart
<1>4. Patient(b) => Patient(b2)
    BY DEF Fewer, Patient
<1> QED BY <1>1, <1>2, <1>3, <1>4

LEMMA CloseMemo ==
    ASSUME NEW r, IsBlock(r), NEW b, Logged(b, r.h), Good(b, r.recs, r.t, r.h),
           NEW cs, cs \subseteq b.challenges
    PROVE  Memo(b, CloseChallenges(b, cs, r.h), r)
<1> DEFINE x == CloseChallenges(b, cs, r.h)
<1>1. r.h \in Nat \ {0}
    BY DEF IsBlock
<1>2. /\ Grown(b, x, r.h) /\ x.challenges = b.challenges \ cs
      /\ x.listings = b.listings /\ x.sales = b.sales
    BY <1>1, CloseChallengesLogged
<1> HIDE DEF x
<1>3. Fewer(b, x)
    BY <1>2 DEF Fewer
<1>4. Good(x, r.recs, r.t, r.h)
    BY <1>3, FewerGood DEF Good
<1>5. Memo(b, x, r)
    BY <1>2, <1>4 DEF Memo, Keeps, SameQuote
<1> QED BY <1>5 DEF x

LEMMA MemoTwice ==
    ASSUME NEW r, NEW a, NEW b, NEW c, Memo(a, b, r), Memo(b, c, r)
    PROVE  Memo(a, c, r)
<1>1. Grown(a, c, r.h)
    BY GrownTwice DEF Memo
<1>2. Keeps(a, c, r.pending)
    BY DEF Memo, Keeps, SameQuote
<1> QED BY <1>1, <1>2 DEF Memo

LEMMA ListMemo ==
    ASSUME NEW r, IsBlock(r), NEW b, Logged(b, r.h), Good(b, r.recs, r.t, r.h),
           NEW listing \in Listing
    PROVE  Memo(b, List(b, listing, r), r)
<1> DEFINE x == Log([b EXCEPT !.listings = With(@, listing.name, listing)],
                    r.h, "list", {listing})
           n == listing.name
<1>1. CASE ClockReady(listing.ask, r.h) /\ n \in DOMAIN r.recs
           /\ IsOwnerListing(r.recs[n].ua, listing)
  <2>1. r.h \in Nat \ {0}
    BY DEF IsBlock
  <2>2. /\ Grown(b, x, r.h) /\ x.listings = With(b.listings, n, listing)
        /\ x.sales = b.sales /\ x.challenges = b.challenges
    BY <2>1, ListLogged
  <2>3. List(b, listing, r) = x
    BY <1>1 DEF List
  <2> HIDE DEF x
  <2>4. /\ DOMAIN x.listings = DOMAIN b.listings \cup {n} /\ x.listings[n] = listing
        /\ \A m \in DOMAIN b.listings : m # n => x.listings[m] = b.listings[m]
    BY <2>2 DEF With
  <2>5. ~(listing.ask.dutch /\ r.h > listing.ask.end)
    <3>1. listing.ask \in Asks
        BY DEF Listing
    <3>2. listing.ask.end \in Nat
        BY <3>1, AskIs
    <3> QED BY <1>1, <2>1, <3>2 DEF ClockReady
  <2>6. HeldBy(r.recs, n, listing.ua)
    BY <1>1 DEF HeldBy, IsOwnerListing
  <2> HIDE DEF n
  <2>7. Fresh(x, r.t, r.h)
    BY <2>2, <2>4, <2>5 DEF Good, Fresh
  <2>8. Current(x, r.recs)
    BY <2>2, <2>4, <2>6 DEF Good, Current
  <2>9. Apart(x) /\ Patient(x)
    BY <2>2 DEF Good, Apart, Patient
  <2>10. Keeps(b, x, r.pending)
    BY <2>2 DEF Keeps, SameQuote
  <2> QED BY <2>2, <2>3, <2>7, <2>8, <2>9, <2>10 DEF Memo, Good
<1>2. CASE ~(ClockReady(listing.ask, r.h) /\ n \in DOMAIN r.recs
             /\ IsOwnerListing(r.recs[n].ua, listing))
    BY <1>2, RefusedMemo DEF List
<1> QED BY <1>1, <1>2

LEMMA DelistMemo ==
    ASSUME NEW r, IsBlock(r), NEW b, Logged(b, r.h), Good(b, r.recs, r.t, r.h), NEW terms
    PROVE  Memo(b, Delist(b, terms, r), r)
<1> DEFINE x == DropListings(b, {terms.name}, r.h)
<1>1. CASE terms.name \in DOMAIN b.listings
  <2>1. r.h \in Nat \ {0}
    BY DEF IsBlock
  <2>a. terms.name \in Names
    <3>1. b.listings \in ByName(Listing)
        BY LoggedParts
    <3> QED BY <1>1, <3>1, ByNameIs
  <2>2. /\ Grown(b, x, r.h) /\ x.listings = Without(b.listings, {terms.name})
        /\ x.sales = b.sales /\ x.challenges = b.challenges
    BY <2>1, <2>a, DropListingsLogged
  <2>3. Delist(b, terms, r) \in {x, b}
    BY DEF Delist
  <2> HIDE DEF x
  <2>4. Fewer(b, x)
    BY <2>2 DEF Fewer, Without, Restrict
  <2>5. Good(x, r.recs, r.t, r.h)
    BY <2>4, FewerGood DEF Good
  <2>6. Memo(b, x, r)
    BY <2>2, <2>5 DEF Memo, Keeps, SameQuote
  <2> QED BY <2>3, <2>6, RefusedMemo
<1>2. CASE terms.name \notin DOMAIN b.listings
    BY <1>2, RefusedMemo DEF Delist
<1> QED BY <1>1, <1>2

Tried(named) == {[c EXCEPT !.attempts = @ + 1] : c \in named}

(* Attempts are not in the log. *)
LEMMA TriedLogged ==
    ASSUME NEW h \in Nat \ {0}, NEW b, Logged(b, h), NEW named, named \subseteq b.challenges
    PROVE  LET b2 == [b EXCEPT !.challenges = (@ \ named) \cup Tried(named)] IN
           /\ Grown(b, b2, h)
           /\ b2.challenges = (b.challenges \ named) \cup Tried(named)
           /\ b2.listings = b.listings /\ b2.sales = b.sales
<1> DEFINE tried == Tried(named)
           cs == (b.challenges \ named) \cup tried
           b2 == [b EXCEPT !.challenges = cs]
           Up(c) == [c EXCEPT !.attempts = @ + 1]
<1>1. /\ b = [listings |-> b.listings, sales |-> b.sales,
              challenges |-> b.challenges, events |-> b.events]
      /\ b.listings \in ByName(Listing) /\ b.sales \in ByName(Sale)
      /\ b.challenges \in SUBSET Challenge /\ b.events \in Seq(Event)
      /\ Named(b) /\ IsFiniteSet(b.challenges) /\ OneCode(b.challenges)
    BY LoggedParts
<1>2. \A c \in b.challenges : Up(c) \in Challenge /\ Barely(Up(c)) = Barely(c)
    BY <1>1, BarelyIs
<1>3. \A c \in b.challenges : Up(c).code = c.code
    BY <1>1 DEF Challenge
<1>4. tried = {Up(c) : c \in named}
    BY DEF Tried
<1> HIDE DEF Up, tried
<1>5. cs \in SUBSET Challenge
    BY <1>1, <1>2, <1>4
<1>6. IsFiniteSet(cs)
  <2> DEFINE f == [c \in named |-> Up(c)]
  <2>1. IsFiniteSet(named) /\ IsFiniteSet(b.challenges \ named)
    BY <1>1, FS_Subset
  <2>2. f \in Surjection(named, tried)
    BY <1>4 DEF Surjection
  <2>3. IsFiniteSet(tried)
    BY <2>1, <2>2, FS_Surjection
  <2> QED BY <2>1, <2>3, FS_Union
<1>7. OneCode(cs)
  <2>1. ASSUME NEW c \in cs
        PROVE  \E d \in b.challenges : d.code = c.code /\ c = (IF d \in named THEN Up(d) ELSE d)
    BY <1>3, <1>4
  <2>2. ASSUME NEW c \in cs, NEW d \in cs, c.code = d.code PROVE c = d
    <3>1. PICK x \in b.challenges : x.code = c.code /\ c = IF x \in named THEN Up(x) ELSE x
        BY <2>1
    <3>2. PICK y \in b.challenges : y.code = d.code /\ d = IF y \in named THEN Up(y) ELSE y
        BY <2>1
    <3>3. x = y
        BY <1>1, <2>2, <3>1, <3>2 DEF OneCode
    <3> QED BY <3>1, <3>2, <3>3
  <2> QED BY <2>2 DEF OneCode
<1>8. Bare(cs) = Bare(b.challenges)
  <2>1. Bare(cs) \subseteq Bare(b.challenges)
    BY <1>2, <1>4 DEF Bare
  <2>2. ASSUME NEW c \in b.challenges PROVE Barely(c) \in Bare(cs)
    <3>1. CASE c \in named
        BY <1>2, <1>4, <3>1 DEF Bare
    <3>2. CASE c \notin named
        BY <3>2 DEF Bare
    <3> QED BY <3>1, <3>2
  <2> QED BY <2>1, <2>2 DEF Bare
<1> HIDE DEF cs
<1>9. b2 = [listings |-> b.listings, sales |-> b.sales, challenges |-> cs, events |-> b.events]
  <2>1. b = [listings |-> b.listings, sales |-> b.sales,
             challenges |-> b.challenges, events |-> b.events]
    BY <1>1
  <2> QED BY <2>1, PutIs
<1> HIDE DEF b2
<1>10. b2 \in Book /\ Parts(b2, b.listings, b.sales, cs, b.events)
    BY <1>1, <1>5, <1>9, BookOf
<1>11. Typed(b2)
    BY <1>1, <1>6, <1>7, <1>10 DEF Typed, Parts, Named
<1>12. View(b2) = View(b)
    BY <1>8, <1>10, SameView DEF Parts
<1>13. Grown(b, b2, h)
    BY <1>10, <1>11, <1>12, SilentlyGrown DEF Parts
<1>14. b2.challenges = cs /\ b2.listings = b.listings /\ b2.sales = b.sales
    BY <1>10 DEF Parts
<1> QED BY <1>13, <1>14 DEF b2, cs, tried

LEMMA AnswerMemo ==
    ASSUME NEW r, IsBlock(r), NEW b, Logged(b, r.h), Good(b, r.recs, r.t, r.h),
           NEW terms \in Terms, NEW code
    PROVE  Memo(b, Answer(b, terms, code, r), r)
<1> DEFINE named == {c \in b.challenges :
                       /\ c.terms.name = terms.name /\ c.terms.ua = terms.ua
                       /\ Action(c.terms) = Action(terms)}
           right == {c \in named : c.code = code /\ c.terms = terms}
           tried == Tried(named)
           spent == CloseChallenges(b, right, r.h)
           x == [b EXCEPT !.challenges = (@ \ named) \cup tried]
           over == {c \in tried : c.attempts >= MAX_ATTEMPTS}
           y == CloseChallenges(x, over, r.h)
<1>0. r.h \in Nat \ {0}
    BY DEF IsBlock
<1>1. named \subseteq b.challenges /\ right \subseteq b.challenges
    OBVIOUS
<1>2. Answer(b, terms, code, r) =
        IF right = {} THEN y
        ELSE IF IsOpen(b, terms.name) THEN spent
        ELSE IF terms \in Delisting THEN Delist(spent, terms, r)
        ELSE List(spent, terms, r)
    BY DEF Answer, Tried
<1> HIDE DEF named, right
<1>3. Memo(b, spent, r)
    BY <1>1, CloseMemo
<1> HIDE DEF spent
<1>4. Logged(spent, r.h) /\ Good(spent, r.recs, r.t, r.h)
    BY <1>3, GrownLogged DEF Memo
<1>5. Memo(b, Delist(spent, terms, r), r)
    BY <1>3, <1>4, DelistMemo, MemoTwice
<1>6. ASSUME terms \notin Delisting PROVE Memo(b, List(spent, terms, r), r)
  <2>1. terms \in Listing
    BY <1>6 DEF Terms
  <2> QED BY <1>3, <1>4, <2>1, ListMemo, MemoTwice
<1>7. Memo(b, y, r)
  <2>1. /\ Grown(b, x, r.h)
        /\ x.challenges = (b.challenges \ named) \cup tried
        /\ x.listings = b.listings /\ x.sales = b.sales
    BY <1>0, <1>1, TriedLogged
  <2> HIDE DEF x
  <2>2. Logged(x, r.h) /\ over \subseteq x.challenges
    BY <2>1, GrownLogged
  <2>3. /\ Grown(x, y, r.h) /\ y.challenges = x.challenges \ over
        /\ y.listings = x.listings /\ y.sales = x.sales
    BY <1>0, <2>2, CloseChallengesLogged
  <2> HIDE DEF y
  <2>4. Grown(b, y, r.h)
    BY <2>1, <2>3, GrownTwice
  <2>5. y.listings = b.listings /\ y.sales = b.sales
    BY <2>1, <2>3
  <2>6. ASSUME NEW c \in y.challenges
        PROVE  /\ c.attempts < MAX_ATTEMPTS
               /\ \E d \in b.challenges : c.terms = d.terms /\ c.expires_at = d.expires_at
    <3>1. CASE c \in tried
      <4>1. c \notin over
        BY <2>3, <2>6
      <4>2. PICK d \in named : c = [d EXCEPT !.attempts = @ + 1]
        BY <3>1 DEF Tried
      <4>3. d \in Challenge /\ d \in b.challenges
        BY <1>1, LoggedParts
      <4>4. c.attempts = d.attempts + 1 /\ c.terms = d.terms /\ c.expires_at = d.expires_at
            /\ d.attempts \in Nat
        BY <4>2, <4>3 DEF Challenge
      <4>5. c.attempts < MAX_ATTEMPTS
        BY <3>1, <4>1, <4>4, MarketAssumption
      <4> QED BY <4>3, <4>4, <4>5
    <3>2. CASE c \notin tried
      <4>1. c \in b.challenges
        BY <2>1, <2>3, <2>6, <3>2
      <4> QED BY <4>1 DEF Good, Patient
    <3> QED BY <3>1, <3>2
  <2>7. Patient(y)
    BY <2>6 DEF Patient
  <2>8. Fresh(y, r.t, r.h)
    BY <2>5, <2>6 DEF Good, Fresh
  <2>9. Current(y, r.recs)
    BY <2>5, <2>6 DEF Good, Current
  <2>10. Apart(y)
    BY <2>5, <2>6 DEF Good, Apart
  <2>11. Keeps(b, y, r.pending)
    BY <2>5 DEF Keeps, SameQuote
  <2> QED BY <2>4, <2>7, <2>8, <2>9, <2>10, <2>11 DEF Memo, Good
<1> HIDE DEF y
<1> QED BY <1>2, <1>3, <1>5, <1>6, <1>7

LEMMA PaidIs ==
    ASSUME NEW s \in Sale, NEW q, q = [s EXCEPT !.paid = TRUE]
    PROVE  /\ q \in Sale /\ q.paid
           /\ q.name = s.name /\ q.bob = s.bob /\ q.alice = s.alice /\ q.held = s.held
           /\ q.code = s.code /\ q.price = s.price /\ q.until = s.until
BY DEF Sale

LEMMA ObserveMemo ==
    ASSUME NEW r, IsBlock(r), NEW b, Logged(b, r.h), Good(b, r.recs, r.t, r.h), NEW pays
    PROVE  Memo(b, Observe(b, pays, r), r)
<1> DEFINE x == Observe(b, pays, r)
<1>0. r.h \in Nat \ {0}
    BY DEF IsBlock
<1>1. /\ Grown(b, x, r.h)
      /\ x.listings = b.listings /\ x.challenges = b.challenges
      /\ DOMAIN x.sales = DOMAIN b.sales
      /\ \A n \in DOMAIN b.sales :
           x.sales[n] = b.sales[n] \/ x.sales[n] = [b.sales[n] EXCEPT !.paid = TRUE]
    BY <1>0, ObserveLogged
<1>2. \A n \in DOMAIN b.sales : b.sales[n] \in Sale
  <2>1. b.sales \in ByName(Sale)
    BY LoggedParts
  <2> QED BY <2>1, ByNameIs
<1> HIDE DEF x
<1>3. ASSUME NEW n \in DOMAIN b.sales
      PROVE  /\ SameQuote(b.sales[n], x.sales[n])
             /\ x.sales[n].alice = b.sales[n].alice /\ x.sales[n].until = b.sales[n].until
             /\ x.sales[n] = b.sales[n] \/ x.sales[n].paid
  <2>1. CASE x.sales[n] = b.sales[n]
    BY <2>1 DEF SameQuote
  <2>2. CASE x.sales[n] = [b.sales[n] EXCEPT !.paid = TRUE]
    BY <1>2, <2>2, PaidIs DEF SameQuote
  <2> QED BY <1>1, <2>1, <2>2
<1>4. Fresh(x, r.t, r.h)
    BY <1>1, <1>3 DEF Good, Fresh
<1>5. Current(x, r.recs)
    BY <1>1, <1>3 DEF Good, Current, Captured, SameQuote
<1>6. Apart(x)
  <2>1. \A n \in DOMAIN x.sales : \A c \in x.challenges : c.terms.name # n
    BY <1>1 DEF Good, Apart
  <2>2. ASSUME NEW m \in DOMAIN x.sales, NEW n \in DOMAIN x.sales, ~x.sales[m].paid,
               ~x.sales[n].paid, Bill(x.sales[m]) = Bill(x.sales[n])
        PROVE  m = n
    <3>1. x.sales[m] = b.sales[m] /\ x.sales[n] = b.sales[n]
        BY <1>1, <1>3, <2>2
    <3> QED BY <1>1, <2>2, <3>1 DEF Good, Apart
  <2> QED BY <2>1, <2>2 DEF Apart
<1>7. Patient(x)
    BY <1>1 DEF Good, Patient
<1>8. Keeps(b, x, r.pending)
    BY <1>1, <1>3 DEF Keeps
<1>9. Memo(b, x, r)
    BY <1>1, <1>4, <1>5, <1>6, <1>7, <1>8 DEF Memo, Good
<1> QED BY <1>9 DEF x

LEMMA LoggedLater ==
    ASSUME NEW h \in Nat \ {0}, NEW b, Logged(b, h)
    PROVE  Logged(b, h + 1)
<1>1. b.events \in Seq(Event) /\ Len(b.events) \in Nat
    BY LoggedParts, LenProperties
<1>2. h + 1 \in Nat /\ h <= h + 1
    OBVIOUS
<1>3. Replay(b.events, h + 1) = Replay(b.events, h)
    BY <1>1, <1>2, ReplayWhole DEF Logged
<1>4. LogTo(b.events, h + 1)
  <2>1. \A i \in 1 .. Len(b.events) : b.events[i].height \in 1 .. h
    BY DEF Logged, LogTo
  <2>2. \A i \in 1 .. Len(b.events) : b.events[i].height \in 1 .. h + 1
    BY <2>1
  <2> QED BY <2>2 DEF Logged, LogTo
<1> QED BY <1>3, <1>4 DEF Logged

(* A new block: expiry and reconciliation *)
LEMMA BlockBook ==
    ASSUME NEW h \in Nat \ {0}, NEW b, Logged(b, h), Apart(b), Patient(b), NEW t, NEW recs
    PROVE  LET b2 == Reconcile(Expire(b, t, h + 1), recs, h + 1) IN
           /\ Grown(b, b2, h + 1)
           /\ Good(b2, recs, t, h + 1)
           /\ Fewer(b, b2)
           /\ \A n \in DOMAIN b.sales \ DOMAIN b2.sales :
                \/ ~b.sales[n].paid /\ t >= b.sales[n].until
                \/ ~Captured(b.sales[n], recs)
<1> DEFINE k == h + 1
           x == Expire(b, t, k)
           y == Reconcile(x, recs, k)
           old == {c \in b.challenges : t >= c.expires_at}
<1>0. k \in Nat \ {0}
    OBVIOUS
<1>1. Logged(b, k)
    BY LoggedLater
<1> HIDE DEF k
<1>2. /\ Grown(b, x, k)
      /\ x.listings = Without(b.listings, EndedClocks(b, k))
      /\ x.sales = Without(b.sales, LapsedSales(b, t))
      /\ x.challenges = b.challenges \ old
    BY <1>0, <1>1, ExpireLogged
<1> HIDE DEF x
<1>3. Logged(x, k)
    BY <1>2, GrownLogged
<1>4. /\ Grown(x, y, k)
      /\ y.listings = Without(x.listings, Lost(x, recs))
      /\ y.sales = Without(x.sales, Moved(x, recs))
      /\ y.challenges = x.challenges \ Stale(x, recs)
    BY <1>0, <1>3, ReconcileLogged
<1> HIDE DEF y
<1>5. /\ Fewer(b, x) /\ DOMAIN x.listings = DOMAIN b.listings \ EndedClocks(b, k)
      /\ DOMAIN x.sales = DOMAIN b.sales \ LapsedSales(b, t)
    BY <1>2 DEF Fewer, Without, Restrict
<1>6. /\ Fewer(x, y) /\ DOMAIN y.listings = DOMAIN x.listings \ Lost(x, recs)
      /\ DOMAIN y.sales = DOMAIN x.sales \ Moved(x, recs)
    BY <1>4 DEF Fewer, Without, Restrict
<1>7. Fresh(x, t, k)
    BY <1>2, <1>5 DEF Fresh, Fewer, EndedClocks, LapsedSales
<1>8. Current(y, recs)
  <2>1. \A n \in DOMAIN y.listings : HeldBy(recs, n, y.listings[n].ua)
    BY <1>6 DEF Fewer, Lost
  <2>2. \A n \in DOMAIN y.sales : Captured(y.sales[n], recs)
    BY <1>6 DEF Fewer, Moved
  <2>3. \A c \in y.challenges : HeldBy(recs, c.terms.name, c.terms.ua)
    BY <1>4 DEF Stale
  <2> QED BY <2>1, <2>2, <2>3 DEF Current
<1>9. Fresh(y, t, k) /\ Apart(y) /\ Patient(y)
  <2>1. Apart(x) /\ Patient(x)
    BY <1>5, FewerGood
  <2> QED BY <1>6, <1>7, <2>1, FewerGood
<1>10. Fewer(b, y)
    BY <1>5, <1>6 DEF Fewer
<1>11. ASSUME NEW n \in DOMAIN b.sales \ DOMAIN y.sales
       PROVE  \/ ~b.sales[n].paid /\ t >= b.sales[n].until
              \/ ~Captured(b.sales[n], recs)
  <2>1. CASE n \in LapsedSales(b, t)
    BY <2>1 DEF LapsedSales
  <2>2. CASE n \notin LapsedSales(b, t)
    <3>1. n \in DOMAIN x.sales /\ n \in Moved(x, recs) /\ x.sales[n] = b.sales[n]
        BY <1>5, <1>6, <2>2 DEF Fewer
    <3> QED BY <3>1 DEF Moved
  <2> QED BY <2>1, <2>2
<1>12. Grown(b, y, k)
    BY <1>2, <1>4, GrownTwice
<1>13. /\ Grown(b, y, k) /\ Good(y, recs, t, k) /\ Fewer(b, y)
       /\ \A n \in DOMAIN b.sales \ DOMAIN y.sales :
            \/ ~b.sales[n].paid /\ t >= b.sales[n].until
            \/ ~Captured(b.sales[n], recs)
    BY <1>8, <1>9, <1>10, <1>11, <1>12 DEF Good
<1> QED BY <1>13 DEF k, x, y

Told(cs) == {[c EXCEPT !.relayed = TRUE] : c \in cs}

(* The relays of a pass: what was relayed is not in the log. *)
WithTold(b, b2, cs) ==
    /\ b2.challenges = (b.challenges \ cs) \cup Told(cs)
    /\ b2.listings = b.listings
    /\ DOMAIN b2.sales = DOMAIN b.sales
    /\ \A n \in DOMAIN b.sales :
         b2.sales[n] = b.sales[n] \/ b2.sales[n] = [b.sales[n] EXCEPT !.relayed = TRUE]

LEMMA RelayedLogged ==
    ASSUME NEW h \in Nat \ {0}, NEW b, Logged(b, h), NEW cs \in SUBSET b.challenges, NEW ns
    PROVE  /\ Grown(b, Relayed(b, cs, ns), h)
           /\ WithTold(b, Relayed(b, cs, ns), cs)
<1> DEFINE Up(c) == [c EXCEPT !.relayed = TRUE]
           told == {Up(c) : c \in cs}
           ds == (b.challenges \ cs) \cup told
           ss == [n \in DOMAIN b.sales |->
                    IF n \in ns THEN [b.sales[n] EXCEPT !.relayed = TRUE] ELSE b.sales[n]]
           a == [b EXCEPT !.challenges = ds]
           b2 == [a EXCEPT !.sales = ss]
<1>1. /\ b = [listings |-> b.listings, sales |-> b.sales,
              challenges |-> b.challenges, events |-> b.events]
      /\ b.listings \in ByName(Listing) /\ b.sales \in ByName(Sale)
      /\ b.challenges \in SUBSET Challenge /\ b.events \in Seq(Event)
      /\ Named(b) /\ IsFiniteSet(b.challenges) /\ OneCode(b.challenges)
    BY LoggedParts
<1>2. \A c \in b.challenges : Up(c) \in Challenge /\ Barely(Up(c)) = Barely(c)
    BY <1>1, BarelyIs
<1>3. \A c \in b.challenges : Up(c).code = c.code
    BY <1>1 DEF Challenge
<1>a. Relayed(b, cs, ns) = b2
    BY DEF Relayed
<1> HIDE DEF Up
<1>5. ds \in SUBSET Challenge
    BY <1>1, <1>2
<1>6. IsFiniteSet(ds)
  <2> DEFINE f == [c \in cs |-> Up(c)]
  <2>1. IsFiniteSet(cs) /\ IsFiniteSet(b.challenges \ cs)
    BY <1>1, FS_Subset
  <2>2. f \in Surjection(cs, told)
    BY DEF Surjection
  <2>3. IsFiniteSet(told)
    BY <2>1, <2>2, FS_Surjection
  <2> QED BY <2>1, <2>3, FS_Union
<1>7. OneCode(ds)
  <2>1. ASSUME NEW c \in ds
        PROVE  \E d \in b.challenges : d.code = c.code /\ c = (IF d \in cs THEN Up(d) ELSE d)
    BY <1>3
  <2>2. ASSUME NEW c \in ds, NEW d \in ds, c.code = d.code PROVE c = d
    <3>1. PICK x \in b.challenges : x.code = c.code /\ c = IF x \in cs THEN Up(x) ELSE x
        BY <2>1
    <3>2. PICK y \in b.challenges : y.code = d.code /\ d = IF y \in cs THEN Up(y) ELSE y
        BY <2>1
    <3>3. x = y
        BY <1>1, <2>2, <3>1, <3>2 DEF OneCode
    <3> QED BY <3>1, <3>2, <3>3
  <2> QED BY <2>2 DEF OneCode
<1>8. Bare(ds) = Bare(b.challenges)
  <2>1. Bare(ds) \subseteq Bare(b.challenges)
    BY <1>2 DEF Bare
  <2>2. ASSUME NEW c \in b.challenges PROVE Barely(c) \in Bare(ds)
    <3>1. CASE c \in cs
        BY <1>2, <3>1 DEF Bare
    <3>2. CASE c \notin cs
        BY <3>2 DEF Bare
    <3> QED BY <3>1, <3>2
  <2> QED BY <2>1, <2>2 DEF Bare
<1>9. DOMAIN b.sales \subseteq Names /\ \A n \in DOMAIN b.sales : b.sales[n] \in Sale
    BY <1>1, ByNameIs
<1>10. \A n \in DOMAIN b.sales :
         /\ [b.sales[n] EXCEPT !.relayed = TRUE] \in Sale
         /\ [b.sales[n] EXCEPT !.relayed = TRUE].name = b.sales[n].name
         /\ Plainly([b.sales[n] EXCEPT !.relayed = TRUE]) = Plainly(b.sales[n])
  <2>1. \A s \in Sale : [s EXCEPT !.relayed = TRUE] \in Sale
                        /\ [s EXCEPT !.relayed = TRUE].name = s.name
    BY DEF Sale
  <2> QED BY <1>9, <2>1, PlainlyIs
<1>11. /\ DOMAIN ss = DOMAIN b.sales
       /\ \A n \in DOMAIN b.sales :
            ss[n] = b.sales[n] \/ ss[n] = [b.sales[n] EXCEPT !.relayed = TRUE]
    OBVIOUS
<1>12. ss \in ByName(Sale)
  <2>1. ss \in [DOMAIN b.sales -> Sale]
    BY <1>9, <1>10
  <2> QED BY <1>9, <2>1 DEF ByName
<1> HIDE DEF ds, ss
<1>13. Plain(ss) = Plain(b.sales)
    BY <1>10, <1>11 DEF Plain
<1>14. a = [listings |-> b.listings, sales |-> b.sales, challenges |-> ds, events |-> b.events]
  <2>1. b = [listings |-> b.listings, sales |-> b.sales,
             challenges |-> b.challenges, events |-> b.events]
    BY <1>1
  <2> QED BY <2>1, PutIs
<1> HIDE DEF a
<1>15. b2 = [listings |-> b.listings, sales |-> ss, challenges |-> ds, events |-> b.events]
    BY <1>14
<1> HIDE DEF b2
<1>16. b2 \in Book /\ Parts(b2, b.listings, ss, ds, b.events)
    BY <1>1, <1>5, <1>12, <1>15, BookOf
<1>b. \A n \in DOMAIN ss : ss[n].name = n
    BY <1>1, <1>10, <1>11 DEF Named
<1>17. Typed(b2)
    BY <1>1, <1>6, <1>7, <1>16, <1>b DEF Typed, Parts, Named
<1>18. View(b2) = View(b)
    BY <1>8, <1>13, <1>16, SameView DEF Parts
<1>19. Grown(b, b2, h)
    BY <1>16, <1>17, <1>18, SilentlyGrown DEF Parts
<1>20. b2.challenges = ds /\ b2.listings = b.listings /\ b2.sales = ss
    BY <1>16 DEF Parts
<1>c. ds = (b.challenges \ cs) \cup Told(cs)
    BY DEF ds, Up, Told
<1>d. WithTold(b, b2, cs)
    BY <1>11, <1>20, <1>c DEF WithTold
<1> QED BY <1>19, <1>a, <1>d

LEMMA RelayedSale ==
    ASSUME NEW s \in Sale, NEW q, q = [s EXCEPT !.relayed = TRUE]
    PROVE  /\ q.name = s.name /\ q.bob = s.bob /\ q.alice = s.alice /\ q.held = s.held
           /\ q.code = s.code /\ q.price = s.price /\ q.until = s.until
           /\ q.pay_to = s.pay_to /\ q.paid = s.paid
BY DEF Sale

LEMMA PassBook ==
    ASSUME NEW h \in Nat \ {0}, NEW b, Logged(b, h), NEW t, NEW recs, Good(b, recs, t, h),
           NEW cs, cs \subseteq b.challenges, NEW ns, NEW drop, drop \subseteq DOMAIN b.sales
    PROVE  LET b2 == DropSales(Relayed(b, cs, ns), drop, h, "close") IN
           /\ Grown(b, b2, h)
           /\ Good(b2, recs, t, h)
           /\ DOMAIN b2.sales = DOMAIN b.sales \ drop
           /\ \A n \in DOMAIN b2.sales : SameQuote(b.sales[n], b2.sales[n])
<1> DEFINE x == Relayed(b, cs, ns)
           y == DropSales(x, drop, h, "close")
           told == Told(cs)
<1>1. /\ Grown(b, x, h)
      /\ x.challenges = (b.challenges \ cs) \cup told
      /\ x.listings = b.listings
      /\ DOMAIN x.sales = DOMAIN b.sales
      /\ \A n \in DOMAIN b.sales :
           x.sales[n] = b.sales[n] \/ x.sales[n] = [b.sales[n] EXCEPT !.relayed = TRUE]
  <2>1. Grown(b, x, h) /\ WithTold(b, x, cs)
    BY RelayedLogged
  <2> QED BY <2>1 DEF WithTold
<1>2. b.sales \in ByName(Sale) /\ b.challenges \subseteq Challenge
    BY LoggedParts
<1>3. DOMAIN b.sales \subseteq Names /\ \A n \in DOMAIN b.sales : b.sales[n] \in Sale
    BY <1>2, ByNameIs
<1> HIDE DEF x
<1>4. Logged(x, h) /\ drop \subseteq Names
    BY <1>1, <1>3, GrownLogged
<1>5. /\ Grown(x, y, h) /\ y.sales = Without(x.sales, drop)
      /\ y.listings = x.listings /\ y.challenges = x.challenges
    BY <1>4, DropSalesLogged
<1> HIDE DEF y
<1>6. ASSUME NEW c \in x.challenges
      PROVE  \E d \in b.challenges :
               c.terms = d.terms /\ c.expires_at = d.expires_at /\ c.attempts = d.attempts
  <2>1. CASE c \in told
    <3>1. PICK d \in cs : c = [d EXCEPT !.relayed = TRUE]
        BY <2>1 DEF Told
    <3>2. d \in Challenge /\ d \in b.challenges
        BY <1>2
    <3>3. c.terms = d.terms /\ c.expires_at = d.expires_at /\ c.attempts = d.attempts
        BY <3>1, <3>2 DEF Challenge
    <3> QED BY <3>2, <3>3
  <2>2. CASE c \notin told
    <3>1. c \in b.challenges
        BY <1>1, <1>6, <2>2
    <3> QED BY <3>1
  <2> QED BY <2>1, <2>2
<1>7. ASSUME NEW n \in DOMAIN b.sales
      PROVE  /\ SameQuote(b.sales[n], x.sales[n])
             /\ x.sales[n].alice = b.sales[n].alice /\ x.sales[n].until = b.sales[n].until
             /\ x.sales[n].paid = b.sales[n].paid /\ Bill(x.sales[n]) = Bill(b.sales[n])
  <2>1. CASE x.sales[n] = b.sales[n]
    BY <2>1 DEF SameQuote
  <2>2. CASE x.sales[n] = [b.sales[n] EXCEPT !.relayed = TRUE]
    BY <1>3, <2>2, RelayedSale DEF SameQuote, Bill, PaymentTotal
  <2> QED BY <1>1, <2>1, <2>2
<1>8. Fresh(x, t, h)
    BY <1>1, <1>6, <1>7 DEF Good, Fresh
<1>9. Current(x, recs)
    BY <1>1, <1>6, <1>7 DEF Good, Current, Captured, SameQuote
<1>10. Apart(x)
  <2>1. \A n \in DOMAIN x.sales : \A c \in x.challenges : c.terms.name # n
    BY <1>1, <1>6 DEF Good, Apart
  <2>2. ASSUME NEW m \in DOMAIN x.sales, NEW n \in DOMAIN x.sales, ~x.sales[m].paid,
               ~x.sales[n].paid, Bill(x.sales[m]) = Bill(x.sales[n])
        PROVE  m = n
    BY <1>1, <1>7, <2>2 DEF Good, Apart
  <2> QED BY <2>1, <2>2 DEF Apart
<1>11. Patient(x)
    BY <1>6 DEF Good, Patient
<1>12. /\ Fewer(x, y) /\ DOMAIN y.sales = DOMAIN x.sales \ drop
    BY <1>5 DEF Fewer, Without, Restrict
<1>13. Good(y, recs, t, h)
    BY <1>8, <1>9, <1>10, <1>11, <1>12, FewerGood DEF Good
<1>14. Grown(b, y, h)
    BY <1>1, <1>5, GrownTwice
<1>15. \A n \in DOMAIN y.sales : SameQuote(b.sales[n], y.sales[n])
    BY <1>1, <1>7, <1>12 DEF Fewer
<1>16. /\ Grown(b, y, h) /\ Good(y, recs, t, h)
       /\ DOMAIN y.sales = DOMAIN b.sales \ drop
       /\ \A n \in DOMAIN y.sales : SameQuote(b.sales[n], y.sales[n])
    BY <1>1, <1>12, <1>13, <1>14, <1>15
<1> QED BY <1>16 DEF x, y

(* Two books alike but for what the log leaves out *)
LEMMA AlikeBooks ==
    ASSUME NEW a \in Book, NEW b \in Book, View(a) = View(b)
    PROVE  /\ a.listings = b.listings
           /\ DOMAIN a.sales = DOMAIN b.sales
           /\ \A n \in DOMAIN a.sales :
                LET s == a.sales[n]
                    q == b.sales[n]
                IN  /\ s.name = q.name /\ s.bob = q.bob /\ s.alice = q.alice
                    /\ s.held = q.held /\ s.until = q.until /\ s.code = q.code
                    /\ s.pay_to = q.pay_to /\ s.price = q.price /\ s.paid = q.paid
           /\ \A c \in a.challenges : \E d \in b.challenges :
                c.terms = d.terms /\ c.expires_at = d.expires_at
<1>1. /\ a.listings = b.listings /\ Plain(a.sales) = Plain(b.sales)
      /\ Bare(a.challenges) = Bare(b.challenges)
    BY SameView
<1>2. a.sales \in ByName(Sale) /\ a.challenges \subseteq Challenge
    BY BookParts
<1>3. b.sales \in ByName(Sale) /\ b.challenges \subseteq Challenge
    BY BookParts
<1>4. /\ DOMAIN a.sales = DOMAIN b.sales
      /\ \A n \in DOMAIN a.sales : Plainly(a.sales[n]) = Plainly(b.sales[n])
    BY <1>1, <1>2, <1>3, PlainAlike
<1>5. \A n \in DOMAIN a.sales : a.sales[n] \in Sale
    BY <1>2, ByNameIs
<1>6. \A n \in DOMAIN b.sales : b.sales[n] \in Sale
    BY <1>3, ByNameIs
<1>7. ASSUME NEW n \in DOMAIN a.sales
      PROVE  LET s == a.sales[n]
                 q == b.sales[n]
             IN  /\ s.name = q.name /\ s.bob = q.bob /\ s.alice = q.alice
                 /\ s.held = q.held /\ s.until = q.until /\ s.code = q.code
                 /\ s.pay_to = q.pay_to /\ s.price = q.price /\ s.paid = q.paid
  <2> DEFINE s == a.sales[n]
             q == b.sales[n]
  <2>1. s \in Sale /\ q \in Sale /\ Plainly(s) = Plainly(q)
    BY <1>4, <1>5, <1>6
  <2> HIDE DEF s, q
  <2>2. /\ Plainly(s).name = s.name /\ Plainly(s).bob = s.bob /\ Plainly(s).alice = s.alice
        /\ Plainly(s).held = s.held /\ Plainly(s).until = s.until
        /\ Plainly(s).code = s.code /\ Plainly(s).pay_to = s.pay_to
        /\ Plainly(s).price = s.price /\ Plainly(s).paid = s.paid
    BY <2>1, PlainlyIs
  <2>3. /\ Plainly(q).name = q.name /\ Plainly(q).bob = q.bob /\ Plainly(q).alice = q.alice
        /\ Plainly(q).held = q.held /\ Plainly(q).until = q.until
        /\ Plainly(q).code = q.code /\ Plainly(q).pay_to = q.pay_to
        /\ Plainly(q).price = q.price /\ Plainly(q).paid = q.paid
    BY <2>1, PlainlyIs
  <2>4. /\ s.name = q.name /\ s.bob = q.bob /\ s.alice = q.alice
        /\ s.held = q.held /\ s.until = q.until /\ s.code = q.code
        /\ s.pay_to = q.pay_to /\ s.price = q.price /\ s.paid = q.paid
    BY <2>1, <2>2, <2>3
  <2> QED BY <2>4 DEF s, q
<1>8. ASSUME NEW c \in a.challenges
      PROVE  \E d \in b.challenges : c.terms = d.terms /\ c.expires_at = d.expires_at
  <2>1. PICK d \in b.challenges : Barely(c) = Barely(d)
    BY <1>1 DEF Bare
  <2>2. c \in Challenge /\ d \in Challenge
    BY <1>2, <1>3
  <2>3. Barely(c).terms = c.terms /\ Barely(c).expires_at = c.expires_at
        /\ Barely(d).terms = d.terms /\ Barely(d).expires_at = d.expires_at
    BY <2>2, BarelyIs
  <2> QED BY <2>1, <2>3
<1> QED BY <1>1, <1>4, <1>7, <1>8

LEMMA AlikeGood ==
    ASSUME NEW a \in Book, NEW b \in Book, View(a) = View(b), NEW t, NEW h, NEW recs,
           Good(b, recs, t, h), Patient(a)
    PROVE  Good(a, recs, t, h)
<1>1. a.listings = b.listings /\ DOMAIN a.sales = DOMAIN b.sales
    BY AlikeBooks
<1>2. \A n \in DOMAIN a.sales :
        /\ a.sales[n].name = b.sales[n].name /\ a.sales[n].alice = b.sales[n].alice
        /\ a.sales[n].held = b.sales[n].held /\ a.sales[n].until = b.sales[n].until
        /\ a.sales[n].code = b.sales[n].code /\ a.sales[n].pay_to = b.sales[n].pay_to
        /\ a.sales[n].price = b.sales[n].price /\ a.sales[n].paid = b.sales[n].paid
    BY AlikeBooks
<1>3. \A c \in a.challenges : \E d \in b.challenges :
        c.terms = d.terms /\ c.expires_at = d.expires_at
    BY AlikeBooks
<1>4. Fresh(a, t, h)
    BY <1>1, <1>2, <1>3 DEF Good, Fresh
<1>5. Current(a, recs)
    BY <1>1, <1>2, <1>3 DEF Good, Current, Captured
<1>6. Apart(a)
  <2>1. \A n \in DOMAIN a.sales : \A c \in a.challenges : c.terms.name # n
    BY <1>1, <1>3 DEF Good, Apart
  <2>2. \A n \in DOMAIN a.sales : Bill(a.sales[n]) = Bill(b.sales[n])
    BY <1>2 DEF Bill, PaymentTotal
  <2>3. ASSUME NEW m \in DOMAIN a.sales, NEW n \in DOMAIN a.sales, ~a.sales[m].paid,
               ~a.sales[n].paid, Bill(a.sales[m]) = Bill(a.sales[n])
        PROVE  m = n
    BY <1>1, <1>2, <2>2, <2>3 DEF Good, Apart
  <2> QED BY <2>1, <2>3 DEF Apart
<1> QED BY <1>4, <1>5, <1>6 DEF Good

LEMMA BarePatient == ASSUME NEW b, Rebuilt(b) PROVE Patient(b)
<1>1. \A c \in b.challenges : c.attempts = 0
    BY DEF Rebuilt, BareChallenge
<1>2. 0 < MAX_ATTEMPTS
    BY MarketAssumption
<1> QED BY <1>1, <1>2 DEF Patient

LEMMA NothingLogged ==
    ASSUME NEW b \in Book, NEW h, NEW type
    PROVE  Log(b, h, type, {}) = b
<1>1. b = [listings |-> b.listings, sales |-> b.sales,
           challenges |-> b.challenges, events |-> b.events] /\ b.events \in Seq(Event)
    BY BookParts
<1>2. Stamped(h, type, {}) = << >>
  <2> DEFINE s == SetToSeq({})
  <2>1. s \in Seq({}) /\ Len(s) = 0
    BY FS_EmptySet, SetToSeqIs
  <2>2. s = << >>
    BY <2>1
  <2>3. DOMAIN s = {}
    BY <2>2
  <2> QED BY <2>3 DEF Stamped
<1>3. Cat(b.events, Stamped(h, type, {})) = b.events
    BY <1>1, <1>2, ConcatEmptySeq DEF Cat
<1> DEFINE none == {}
<1> HIDE DEF none
<1>4. Log(b, h, type, none) = [listings |-> b.listings, sales |-> b.sales,
        challenges |-> b.challenges, events |-> Cat(b.events, Stamped(h, type, none))]
    BY <1>1, LogIs
<1> QED BY <1>1, <1>3, <1>4 DEF none

LEMMA ExpireNothing ==
    ASSUME NEW b \in Book, NEW t, NEW h, Fresh(b, t, h)
    PROVE  Expire(b, t, h) = b
<1> DEFINE old == {c \in b.challenges : t >= c.expires_at}
<1>1. EndedClocks(b, h) = {} /\ LapsedSales(b, t) = {} /\ old = {}
    BY DEF Fresh, EndedClocks, LapsedSales
<1>2. b = [listings |-> b.listings, sales |-> b.sales,
           challenges |-> b.challenges, events |-> b.events]
    BY BookParts
<1>3. Without(b.listings, {}) = b.listings
  <2>1. b.listings \in ByName(Listing)
    BY BookParts
  <2>2. b.listings \in [DOMAIN b.listings -> Listing]
    BY <2>1, ByNameIs
  <2> QED BY <2>2 DEF Without, Restrict
<1>4. Without(b.sales, {}) = b.sales
  <2>1. b.sales \in ByName(Sale)
    BY BookParts
  <2>2. b.sales \in [DOMAIN b.sales -> Sale]
    BY <2>1, ByNameIs
  <2> QED BY <2>2 DEF Without, Restrict
<1>5. [b EXCEPT !.listings = b.listings] = b /\ [b EXCEPT !.sales = b.sales] = b
      /\ [b EXCEPT !.challenges = b.challenges] = b
    BY <1>2
<1>6. DropListings(b, {}, h) = b
  <2>1. DropListings(b, {}, h) = Log([b EXCEPT !.listings = b.listings], h, "delist", {})
    BY <1>3 DEF DropListings
  <2> QED BY <1>5, <2>1, NothingLogged
<1>7. DropSales(b, {}, h, "expire") = b
  <2>1. DropSales(b, {}, h, "expire") = Log([b EXCEPT !.sales = b.sales], h, "expire", {})
    BY <1>4 DEF DropSales
  <2> QED BY <1>5, <2>1, NothingLogged
<1>8. CloseChallenges(b, {}, h) = b
  <2>1. b.challenges \ {} = b.challenges /\ {c.code : c \in {}} = {}
    OBVIOUS
  <2>2. CloseChallenges(b, {}, h)
          = Log([b EXCEPT !.challenges = b.challenges], h, "challenge_closed", {})
    BY <2>1 DEF CloseChallenges
  <2> QED BY <1>5, <2>2, NothingLogged
<1>9. Expire(b, t, h)
        = CloseChallenges(DropSales(DropListings(b, EndedClocks(b, h), h),
                                    LapsedSales(b, t), h, "expire"), old, h)
    BY DEF Expire
<1> QED BY <1>1, <1>6, <1>7, <1>8, <1>9

-----------------------------------------------------------------------------
(***************************************************************************)
(* Rewinding a book                                                        *)
(***************************************************************************)
LEMMA RewoundLogged ==
    ASSUME NEW h \in Nat, NEW m \in Nat, NEW b, Logged(b, m)
    PROVE  LET r == Replay(b.events, h) IN
           /\ Logged(r, h)
           /\ Rebuilt(r)
           /\ \A k \in Nat : k <= h => Replay(r.events, k) = Replay(b.events, k)
<1> DEFINE r == Replay(b.events, h)
<1>1. b.events \in Seq(Event) /\ LogTo(b.events, m)
    BY LoggedParts DEF Logged
<1>2. Rebuilt(r) /\ OneCode(r.challenges)
    BY <1>1, ReplayRebuilt, ReplayOneCode
<1>3. /\ r.events \in Seq(Event) /\ LogTo(r.events, m)
      /\ \A i \in 1 .. Len(r.events) : r.events[i].height <= h
    BY <1>1, ReplayLog
<1>4. \A k \in Nat : k <= h => Replay(r.events, k) = Replay(b.events, k)
    BY <1>1, ReplayReplay
<1>5. Replay(r.events, h) = r
    BY <1>4
<1> HIDE DEF r
<1>6. LogTo(r.events, h)
  <2>1. \A i \in 1 .. Len(r.events) : r.events[i].height \in 1 .. m
    BY <1>3 DEF LogTo
  <2>2. \A i \in 1 .. Len(r.events) : r.events[i].height \in 1 .. h
    BY <1>3, <2>1
  <2> QED BY <1>3, <2>2 DEF LogTo
<1>7. Typed(r)
    BY <1>2 DEF Typed, Rebuilt
<1>8. Logged(r, h) /\ Rebuilt(r)
      /\ \A k \in Nat : k <= h => Replay(r.events, k) = Replay(b.events, k)
    BY <1>2, <1>4, <1>5, <1>6, <1>7 DEF Logged
<1> QED BY <1>8 DEF r

-----------------------------------------------------------------------------
(***************************************************************************)
(* Sealing the buys of a boot scan                                         *)
(***************************************************************************)
SealEvent(e) == IF e.type = "open" THEN [e EXCEPT !.body.relayed = TRUE] ELSE e
SealLog(evs) == [i \in DOMAIN evs |-> SealEvent(evs[i])]
SealSales(f) == [n \in DOMAIN f |-> [f[n] EXCEPT !.relayed = TRUE]]

LEMMA SealEventIs ==
    ASSUME NEW e \in Event
    PROVE  /\ SealEvent(e) \in Event
           /\ SealEvent(e).height = e.height /\ SealEvent(e).type = e.type
           /\ e.type # "open" => SealEvent(e) = e
           /\ e.type = "open" =>
                /\ SealEvent(e).body = [e.body EXCEPT !.relayed = TRUE]
                /\ SealEvent(e).body \in Sale
<1>1. CASE e.type # "open"
    BY <1>1 DEF SealEvent
<1>2. CASE e.type = "open"
  <2>1. e \in [height : Nat, type : {"open"}, body : Sale]
    BY <1>2 DEF Event
  <2> DEFINE s == [e.body EXCEPT !.relayed = TRUE]
  <2>2. s \in Sale
    BY <2>1 DEF Sale
  <2>3. SealEvent(e) = [e EXCEPT !.body = s]
    BY <1>2 DEF SealEvent
  <2> HIDE DEF s
  <2>4. SealEvent(e) \in [height : Nat, type : {"open"}, body : Sale]
        /\ SealEvent(e).height = e.height /\ SealEvent(e).body = s
    BY <2>1, <2>2, <2>3
  <2>5. SealEvent(e).type = "open" /\ SealEvent(e) \in Event
    BY <2>4 DEF Event
  <2> QED BY <1>2, <2>2, <2>4, <2>5 DEF s
<1> QED BY <1>1, <1>2

LEMMA SealLogIs ==
    ASSUME NEW evs \in Seq(Event)
    PROVE  /\ SealLog(evs) \in Seq(Event)
           /\ Len(SealLog(evs)) = Len(evs)
           /\ \A i \in 1 .. Len(evs) : SealLog(evs)[i] = SealEvent(evs[i])
           /\ \A e \in Event :
                SealLog(Append(evs, e)) = Append(SealLog(evs), SealEvent(e))
<1> DEFINE n == Len(evs)
           s == SealLog(evs)
<1>1. n \in Nat /\ DOMAIN evs = 1 .. n /\ \A i \in 1 .. n : evs[i] \in Event
    BY LenProperties, ElementOfSeq
<1> HIDE DEF n
<1>2. s = [i \in 1 .. n |-> SealEvent(evs[i])]
    BY <1>1 DEF SealLog
<1>3. \A i \in 1 .. n : SealEvent(evs[i]) \in Event
    BY <1>1, SealEventIs
<1>4. s \in [1 .. n -> Event] /\ \A i \in 1 .. n : s[i] = SealEvent(evs[i])
    BY <1>2, <1>3
<1> HIDE DEF s
<1>5. s \in Seq(Event)
    BY <1>1, <1>4, SeqDef
<1>6. Len(s) = n
  <2>1. Len(s) \in Nat /\ DOMAIN s = 1 .. Len(s) /\ DOMAIN s = 1 .. n
    BY <1>4, <1>5, LenProperties
  <2> QED BY <1>1, <2>1, IntervalsAlike
<1>7. ASSUME NEW e \in Event
      PROVE  SealLog(Append(evs, e)) = Append(s, SealEvent(e))
  <2> DEFINE a == Append(evs, e)
             x == SealLog(a)
             y == Append(s, SealEvent(e))
  <2>1. /\ a \in Seq(Event) /\ Len(a) = n + 1 /\ a[n + 1] = e
        /\ \A i \in 1 .. n : a[i] = evs[i]
    BY AppendProperties DEF n
  <2>2. DOMAIN a = 1 .. n + 1
    BY <2>1, LenProperties
  <2> HIDE DEF a
  <2>3. DOMAIN x = 1 .. n + 1 /\ \A i \in 1 .. n + 1 : x[i] = SealEvent(a[i])
    BY <2>2 DEF SealLog
  <2>4. SealEvent(e) \in Event
    BY SealEventIs
  <2>5. /\ y \in Seq(Event) /\ Len(y) = n + 1 /\ y[n + 1] = SealEvent(e)
        /\ \A i \in 1 .. n : y[i] = s[i]
    BY <1>5, <1>6, <2>4, AppendProperties
  <2>6. DOMAIN y = 1 .. n + 1
    BY <2>5, LenProperties
  <2>7. x = [i \in 1 .. n + 1 |-> x[i]] /\ y = [i \in 1 .. n + 1 |-> y[i]]
    <3>1. x = [i \in DOMAIN a |-> SealEvent(a[i])]
        BY DEF SealLog
    <3>2. y \in [1 .. n + 1 -> Event]
        BY <2>5, LenProperties
    <3> QED BY <2>2, <2>3, <3>1, <3>2
  <2> HIDE DEF x, y
  <2>8. \A i \in 1 .. n + 1 : i = n + 1 \/ i \in 1 .. n
    BY <1>1
  <2>9. \A i \in 1 .. n + 1 : x[i] = y[i]
    BY <1>4, <2>1, <2>3, <2>5, <2>8
  <2>10. x = y
    BY <2>7, <2>9
  <2> QED BY <2>10 DEF x, y, a
<1> QED BY <1>4, <1>5, <1>6, <1>7 DEF s, n

LEMMA SealedSale ==
    ASSUME NEW s \in Sale, NEW d, d = [s EXCEPT !.relayed = TRUE]
    PROVE  d \in Sale /\ Plainly(d) = Plainly(s) /\ d.name = s.name /\ d.code = s.code
BY DEF Sale, Plainly

LEMMA SalesAlike ==
    ASSUME NEW p, Rebuilt(p), NEW q, Rebuilt(q), View(p) = View(q), NEW e \in Event
    PROVE  Plain(SalesAfter(p, e)) = Plain(SalesAfter(q, SealEvent(e)))
<1> DEFINE d == SealEvent(e)
<1>1. p \in Book /\ q \in Book
    BY DEF Rebuilt
<1>2. p.sales \in ByName(Sale)
    BY <1>1, BookParts
<1>3. q.sales \in ByName(Sale)
    BY <1>1, BookParts
<1>4. Plain(p.sales) = Plain(q.sales)
    BY SameView
<1>5. DOMAIN p.sales = DOMAIN q.sales /\ \A n \in DOMAIN p.sales : Plainly(p.sales[n]) = Plainly(q.sales[n])
    BY <1>2, <1>3, <1>4, PlainAlike
<1>6. d \in Event /\ d.type = e.type /\ (e.type # "open" => d = e)
    BY SealEventIs
<1>7. CASE e.type = "open"
  <2>1. e.body \in Sale
    BY <1>7, EventKinds
  <2>2. d.body = [e.body EXCEPT !.relayed = TRUE]
    BY <1>7, SealEventIs
  <2> DEFINE s == e.body
             z == d.body
  <2>3. s \in Sale /\ z \in Sale /\ Plainly(z) = Plainly(s) /\ z.name = s.name
    BY <2>1, <2>2, SealedSale
  <2>4. s.name \in Names
    BY <2>1 DEF Sale
  <2> HIDE DEF d
  <2>5. CASE IsOpen(p, s.name)
    <3>1. IsOpen(q, z.name)
        BY <1>5, <2>3, <2>5 DEF IsOpen
    <3>2. SalesAfter(p, e) = p.sales
        BY <1>7, <2>5 DEF SalesAfter
    <3>3. SalesAfter(q, d) = q.sales
        BY <1>6, <1>7, <3>1 DEF SalesAfter
    <3>4. Plain(SalesAfter(p, e)) = Plain(SalesAfter(q, d))
        BY <1>4, <3>2, <3>3
    <3> QED BY <3>4 DEF d
  <2>6. CASE ~IsOpen(p, s.name)
    <3> DEFINE f == With(p.sales, s.name, s)
               g == With(q.sales, s.name, z)
    <3>1. ~IsOpen(q, z.name)
        BY <1>5, <2>3, <2>6 DEF IsOpen
    <3>2. SalesAfter(p, e) = f
        BY <1>7, <2>6 DEF SalesAfter
    <3>3. SalesAfter(q, d) = g
        BY <1>6, <1>7, <2>3, <3>1 DEF SalesAfter
    <3>4. f \in ByName(Sale)
        BY <1>2, <2>3, <2>4, WithIs
    <3>5. g \in ByName(Sale)
        BY <1>3, <2>3, <2>4, WithIs
    <3>6. /\ DOMAIN f = DOMAIN p.sales \cup {s.name}
          /\ \A m \in DOMAIN p.sales \cup {s.name} : f[m] = IF m = s.name THEN s ELSE p.sales[m]
        BY DEF With
    <3>7. /\ DOMAIN g = DOMAIN q.sales \cup {s.name}
          /\ \A m \in DOMAIN q.sales \cup {s.name} : g[m] = IF m = s.name THEN z ELSE q.sales[m]
        BY DEF With
    <3> HIDE DEF f, g, s, z
    <3>8. DOMAIN f = DOMAIN g
        BY <1>5, <3>6, <3>7
    <3>9. \A m \in DOMAIN f : Plainly(f[m]) = Plainly(g[m])
        BY <1>5, <2>3, <3>6, <3>7
    <3>10. Plain(f) = Plain(g)
        BY <3>4, <3>5, <3>8, <3>9, PlainAlike
    <3>11. Plain(SalesAfter(p, e)) = Plain(SalesAfter(q, d))
        BY <3>2, <3>3, <3>10
    <3> QED BY <3>11 DEF d
  <2> QED BY <2>5, <2>6
<1>8. CASE e.type = "paid"
  <2>1. d = e
    BY <1>6, <1>8
  <2> DEFINE f == WithPaid(p.sales, e.body)
             g == WithPaid(q.sales, e.body)
  <2>2. f \in ByName(Sale)
    BY <1>2, WithPaidIs
  <2>3. g \in ByName(Sale)
    BY <1>3, WithPaidIs
  <2>4. SalesAfter(p, e) = f /\ SalesAfter(q, e) = g
    BY <1>8 DEF SalesAfter
  <2>5. /\ DOMAIN f = DOMAIN p.sales
        /\ \A n \in DOMAIN p.sales : f[n] =
             IF n = e.body.name /\ p.sales[n].code = e.body.code
             THEN [p.sales[n] EXCEPT !.paid = TRUE] ELSE p.sales[n]
    BY DEF WithPaid
  <2>6. /\ DOMAIN g = DOMAIN q.sales
        /\ \A n \in DOMAIN q.sales : g[n] =
             IF n = e.body.name /\ q.sales[n].code = e.body.code
             THEN [q.sales[n] EXCEPT !.paid = TRUE] ELSE q.sales[n]
    BY DEF WithPaid
  <2>7. \A n \in DOMAIN p.sales : p.sales[n] \in Sale
    BY <1>2, PlainIs
  <2>8. \A n \in DOMAIN q.sales : q.sales[n] \in Sale
    BY <1>3, PlainIs
  <2> HIDE DEF f, g
  <2>9. ASSUME NEW n \in DOMAIN p.sales PROVE Plainly(f[n]) = Plainly(g[n])
    <3> DEFINE s == p.sales[n]
               z == q.sales[n]
               s1 == [s EXCEPT !.paid = TRUE]
               z1 == [z EXCEPT !.paid = TRUE]
    <3>1. s \in Sale /\ z \in Sale /\ Plainly(s) = Plainly(z)
        BY <1>5, <2>7, <2>8
    <3>2. f[n] = (IF n = e.body.name /\ s.code = e.body.code THEN s1 ELSE s)
        BY <2>5
    <3>3. g[n] = (IF n = e.body.name /\ z.code = e.body.code THEN z1 ELSE z)
        BY <1>5, <2>6
    <3> HIDE DEF s, z
    <3>4. Plainly(s).code = s.code /\ Plainly(s1) = [Plainly(s) EXCEPT !.paid = TRUE]
        BY <3>1, PlainlyIs
    <3>5. Plainly(z).code = z.code /\ Plainly(z1) = [Plainly(z) EXCEPT !.paid = TRUE]
        BY <3>1, PlainlyIs
    <3>6. s.code = z.code /\ Plainly(s1) = Plainly(z1)
        BY <3>1, <3>4, <3>5
    <3> HIDE DEF s1, z1
    <3> QED BY <3>1, <3>2, <3>3, <3>6
  <2>10. DOMAIN f = DOMAIN g /\ \A n \in DOMAIN f : Plainly(f[n]) = Plainly(g[n])
    BY <1>5, <2>5, <2>6, <2>9
  <2>11. Plain(f) = Plain(g)
    BY <2>2, <2>3, <2>10, PlainAlike
  <2> QED BY <2>1, <2>4, <2>11
<1>9. CASE e.type \in {"expire", "close"}
  <2>1. d = e
    BY <1>6, <1>9
  <2>2. SalesAfter(p, e) = Without(p.sales, {e.body}) /\ SalesAfter(q, e) = Without(q.sales, {e.body})
    BY <1>9 DEF SalesAfter
  <2>3. Plain(Without(p.sales, {e.body})) = Plain(Without(q.sales, {e.body}))
    BY <1>2, <1>3, <1>4, PlainWithout
  <2> QED BY <2>1, <2>2, <2>3
<1>10. CASE e.type \notin {"open", "paid", "expire", "close"}
  <2>1. d = e
    BY <1>6, <1>10
  <2>2. SalesAfter(p, e) = p.sales /\ SalesAfter(q, e) = q.sales
    BY <1>10 DEF SalesAfter
  <2> QED BY <1>4, <2>1, <2>2
<1> QED BY <1>7, <1>8, <1>9, <1>10

(* A sealed event does to a book what the event did, as far as the view goes. *)
LEMMA SealStep ==
    ASSUME NEW p, Rebuilt(p), NEW q, Rebuilt(q), View(p) = View(q), NEW e \in Event, NEW k
    PROVE  View(Met(p, e, k)) = View(Met(q, SealEvent(e), k))
<1> DEFINE d == SealEvent(e)
           x == Met(p, e, k)
           y == Met(q, d, k)
<1>1. d \in Event /\ d.height = e.height /\ d.type = e.type /\ (e.type # "open" => d = e)
    BY SealEventIs
<1>2. p.listings = q.listings /\ Plain(p.sales) = Plain(q.sales)
      /\ Bare(p.challenges) = Bare(q.challenges)
    BY SameView
<1>3. p.challenges \subseteq BareChallenge /\ q.challenges \subseteq BareChallenge
    BY DEF Rebuilt
<1>4. p.challenges = q.challenges
    BY <1>2, <1>3, BareIs
<1>5. Plain(SalesAfter(p, e)) = Plain(SalesAfter(q, d))
    BY SalesAlike
<1> HIDE DEF d
<1>6. ListingsAfter(p, e) = ListingsAfter(q, d)
    BY <1>1, <1>2 DEF ListingsAfter
<1>7. ChallengesAfter(p, e) = ChallengesAfter(q, d)
    BY <1>1, <1>4 DEF ChallengesAfter, CodeIsOpen
<1>8. CASE e.height <= k
  <2>1. x.listings = ListingsAfter(p, e) /\ x.sales = SalesAfter(p, e)
        /\ x.challenges = ChallengesAfter(p, e)
    BY <1>8, MetRebuilt
  <2>2. y.listings = ListingsAfter(q, d) /\ y.sales = SalesAfter(q, d)
        /\ y.challenges = ChallengesAfter(q, d)
    BY <1>1, <1>8, MetRebuilt
  <2> HIDE DEF x, y
  <2>3. View(x) = View(y)
    BY <1>5, <1>6, <1>7, <2>1, <2>2, SameView
  <2> QED BY <2>3 DEF x, y, d
<1>9. CASE ~(e.height <= k)
  <2>1. x = p /\ y = q
    BY <1>1, <1>9 DEF Met
  <2> QED BY <2>1 DEF x, y, d
<1> QED BY <1>8, <1>9

LEMMA SealReplay ==
    ASSUME NEW evs \in Seq(Event), NEW k
    PROVE  View(Replay(SealLog(evs), k)) = View(Replay(evs, k))
<1> DEFINE T == {s \in Seq(Event) : View(Replay(SealLog(s), k)) = View(Replay(s, k))}
<1>1. << >> \in T
  <2>1. << >> \in Seq(Event)
    BY EmptySeq
  <2>2. DOMAIN << >> = {}
    BY EmptyByName
  <2>3. SealLog(<< >>) = << >>
    BY <2>2 DEF SealLog
  <2> QED BY <2>1, <2>3
<1>2. ASSUME NEW s \in T, NEW e \in Event PROVE Append(s, e) \in T
  <2> DEFINE r == Replay(s, k)
             q == Replay(SealLog(s), k)
  <2>1. s \in Seq(Event) /\ View(q) = View(r) /\ Append(s, e) \in Seq(Event)
    BY AppendProperties
  <2>2. SealLog(s) \in Seq(Event) /\ SealEvent(e) \in Event
        /\ SealLog(Append(s, e)) = Append(SealLog(s), SealEvent(e))
    BY <2>1, SealLogIs, SealEventIs
  <2>3. Replay(Append(s, e), k) = Met(r, e, k) /\ Rebuilt(r)
    BY <2>1, ReplayAppend, ReplayRebuilt
  <2>4. Replay(Append(SealLog(s), SealEvent(e)), k) = Met(q, SealEvent(e), k) /\ Rebuilt(q)
    BY <2>2, ReplayAppend, ReplayRebuilt
  <2> HIDE DEF r, q
  <2>5. View(Met(r, e, k)) = View(Met(q, SealEvent(e), k))
    BY <2>1, <2>3, <2>4, SealStep
  <2>6. View(Replay(SealLog(Append(s, e)), k)) = View(Replay(Append(s, e), k))
    BY <2>2, <2>3, <2>4, <2>5
  <2> QED BY <2>1, <2>6
<1>3. T \subseteq Seq(Event)
    OBVIOUS
<1> HIDE DEF T
<1>4. T = Seq(Event)
    BY <1>1, <1>2, <1>3, SeqInduction
<1> QED BY <1>4 DEF T

LEMMA SealSalesIs ==
    ASSUME NEW f \in ByName(Sale)
    PROVE  /\ SealSales(f) \in ByName(Sale)
           /\ Plain(SealSales(f)) = Plain(f)
           /\ DOMAIN SealSales(f) = DOMAIN f
           /\ \A n \in DOMAIN f : SealSales(f)[n].name = f[n].name
<1> DEFINE g == SealSales(f)
           Sealed(n) == [f[n] EXCEPT !.relayed = TRUE]
<1>1. f \in [DOMAIN f -> Sale] /\ DOMAIN f \subseteq Names
    BY ByNameIs
<1>2. \A n \in DOMAIN f : f[n] \in Sale
    BY <1>1
<1>3. \A n \in DOMAIN f : /\ Sealed(n) \in Sale /\ Plainly(Sealed(n)) = Plainly(f[n])
                          /\ Sealed(n).name = f[n].name
    BY <1>2, SealedSale
<1>4. g = [n \in DOMAIN f |-> Sealed(n)]
    BY DEF SealSales
<1> HIDE DEF Sealed
<1>5. DOMAIN g = DOMAIN f /\ \A n \in DOMAIN f : g[n] = Sealed(n)
    BY <1>4
<1>6. g \in [DOMAIN f -> Sale]
    BY <1>3, <1>4
<1>7. g \in ByName(Sale)
    BY <1>1, <1>5, <1>6, ByNameIs
<1> HIDE DEF g
<1>8. \A n \in DOMAIN g : Plainly(g[n]) = Plainly(f[n])
    BY <1>3, <1>5
<1>9. Plain(g) = Plain(f)
    BY <1>5, <1>7, <1>8, PlainAlike
<1>10. \A n \in DOMAIN f : g[n].name = f[n].name
    BY <1>3, <1>5
<1> QED BY <1>5, <1>7, <1>9, <1>10 DEF g

LEMMA SealedLogged ==
    ASSUME NEW h \in Nat, NEW b, Logged(b, h)
    PROVE  LET s == SealReplayedBuys(b) IN
           /\ Logged(s, h)
           /\ View(s) = View(b)
           /\ s.challenges = b.challenges
           /\ \A k : View(Replay(s.events, k)) = View(Replay(b.events, k))
<1> DEFINE ss == SealSales(b.sales)
           es == SealLog(b.events)
           s == SealReplayedBuys(b)
<1>1. /\ b = [listings |-> b.listings, sales |-> b.sales,
              challenges |-> b.challenges, events |-> b.events]
      /\ b.listings \in ByName(Listing) /\ b.sales \in ByName(Sale)
      /\ b.challenges \in SUBSET Challenge /\ b.events \in Seq(Event)
      /\ Named(b) /\ IsFiniteSet(b.challenges) /\ OneCode(b.challenges)
    BY LoggedParts
<1>2. /\ ss \in ByName(Sale) /\ Plain(ss) = Plain(b.sales) /\ DOMAIN ss = DOMAIN b.sales
      /\ \A n \in DOMAIN b.sales : ss[n].name = b.sales[n].name
    BY <1>1, SealSalesIs
<1>3. /\ es \in Seq(Event) /\ Len(es) = Len(b.events)
      /\ \A i \in 1 .. Len(b.events) : es[i] = SealEvent(b.events[i])
    BY <1>1, SealLogIs
<1>4. s = [b EXCEPT !.sales = ss, !.events = es]
    BY DEF SealReplayedBuys, SealSales, SealLog, SealEvent
<1>5. \A k : View(Replay(es, k)) = View(Replay(b.events, k))
    BY <1>1, SealReplay
<1> HIDE DEF ss, es, s
<1>6. s = [listings |-> b.listings, sales |-> ss, challenges |-> b.challenges, events |-> es]
    BY <1>1, <1>4
<1>7. /\ s \in Book /\ s.listings = b.listings /\ s.sales = ss
      /\ s.challenges = b.challenges /\ s.events = es
    BY <1>1, <1>2, <1>3, <1>6, BookOf DEF Parts
<1>8. Named(s)
    BY <1>1, <1>2, <1>7 DEF Named
<1>9. Typed(s)
    BY <1>1, <1>7, <1>8 DEF Typed
<1>10. LogTo(es, h)
  <2>1. LogTo(b.events, h) /\ Len(b.events) \in Nat
    BY <1>1, LenProperties DEF Logged
  <2>2. \A i \in 1 .. Len(b.events) : b.events[i] \in Event
    BY <1>1, ElementOfSeq
  <2>3. \A i \in 1 .. Len(b.events) : es[i].height = b.events[i].height
    BY <1>3, <2>2, SealEventIs
  <2> QED BY <1>3, <2>1, <2>3 DEF LogTo
<1>11. View(s) = View(b)
    BY <1>2, <1>7, SameView
<1>12. View(Replay(es, h)) = View(s)
    BY <1>5, <1>11 DEF Logged
<1>13. /\ Logged(s, h) /\ View(s) = View(b) /\ s.challenges = b.challenges
       /\ \A k : View(Replay(s.events, k)) = View(Replay(b.events, k))
    BY <1>5, <1>7, <1>9, <1>10, <1>11, <1>12 DEF Logged
<1> QED BY <1>13 DEF s

-----------------------------------------------------------------------------
(***************************************************************************)
(* The inductive invariant                                                 *)
(***************************************************************************)
Note == [name : Names, action : Acts, ua : Addrs, prev : Held]
Order == [note : Note, origin : Nat \ {0}, state : {"authorized", "sent", "seen"}, at : Nat]

MarketTypes ==
    /\ height \in Nat \ {0} /\ mtp \in [1 .. height -> Nat]
    /\ records \in ByName(Record)
    /\ scope \in Scopes
    /\ orders \subseteq Order
    /\ txs \subseteq Note
    /\ restarts \in Nat
    /\ DOMAIN past = 1 .. height - 1

(* The note of an order, against the buys on the book: no buy on its name, *)
(* or it is that buy's own sale.                                           *)
Holds(sales, note) ==
    note.name \in DOMAIN sales =>
        sales[note.name].paid /\ note = SaleTransfer(sales[note.name])

(* The order was pending at the end of block k. *)
PendingAt(o, k) == o.origin <= k /\ ~(o.state = "seen" /\ o.at <= k)

OrdersHeld ==
    /\ \A o \in orders : o.origin <= height /\ (o.state = "seen" => o.at <= height)
    /\ \A o \in orders : \A k \in 1 .. height :
         PendingAt(o, k) => Holds(Replay(book.events, k).sales, o.note)

(* A book, against the chain it was computed from *)
Sound(b) == Logged(b, height) /\ Good(b, records, mtp[height], height)

(* What stood at the end of each lower block is in the log. *)
PastBook ==
    \A k \in 1 .. height - 1 :
        /\ past[k].records \in ByName(Record)
        /\ View(Replay(book.events, k)) = past[k].view
        /\ Good(Replay(book.events, k), past[k].records, mtp[k], k)

(* The same of the boot scan, which stood there sealed *)
PastBoot ==
    \A k \in 1 .. height - 1 :
        /\ past[k] = [records |-> past[k].records, view |-> past[k].view,
                      boot |-> past[k].boot, txs |-> past[k].txs]
        /\ past[k].txs \subseteq Note
        /\ Logged(past[k].boot, k)
        /\ Good(past[k].boot, past[k].records, mtp[k], k)
        /\ Replay(boot.events, k).events = past[k].boot.events

MarketInv ==
    MarketTypes /\ Sound(book) /\ Sound(boot) /\ PastBook /\ PastBoot /\ OrdersHeld

-----------------------------------------------------------------------------
(* The invariant of the next state, in its parts *)
LEMMA NextInv ==
    ASSUME height' \in Nat \ {0}, mtp' \in [1 .. height' -> Nat],
           records' \in ByName(Record), scope' \in Scopes, orders' \subseteq Order,
           txs' \subseteq Note, restarts' \in Nat, DOMAIN past' = 1 .. height' - 1,
           Logged(book', height'), Good(book', records', mtp'[height'], height'),
           Logged(boot', height'), Good(boot', records', mtp'[height'], height'),
           PastBook', PastBoot', OrdersHeld'
    PROVE  MarketInv'
BY DEF MarketInv, MarketTypes, Sound

LEMMA HoldsAlike ==
    ASSUME NEW a \in Book, NEW b \in Book, View(a) = View(b), NEW note, Holds(a.sales, note)
    PROVE  Holds(b.sales, note)
<1>1. DOMAIN a.sales = DOMAIN b.sales
    BY AlikeBooks
<1>2. \A n \in DOMAIN a.sales :
        /\ a.sales[n].name = b.sales[n].name /\ a.sales[n].bob = b.sales[n].bob
        /\ a.sales[n].held = b.sales[n].held /\ a.sales[n].paid = b.sales[n].paid
    BY AlikeBooks
<1> QED BY <1>1, <1>2 DEF Holds, SaleTransfer

LEMMA HoldsNow ==
    ASSUME NEW h, NEW b, Logged(b, h), NEW note
    PROVE  Holds(Replay(b.events, h).sales, note) <=> Holds(b.sales, note)
<1> DEFINE r == Replay(b.events, h)
<1>1. r \in Book /\ b \in Book /\ View(r) = View(b)
    BY Mirrored DEF Logged
<1> HIDE DEF r
<1>2. Holds(r.sales, note) <=> Holds(b.sales, note)
    BY <1>1, HoldsAlike
<1> QED BY <1>2 DEF r

LEMMA PendingNow ==
    ASSUME MarketInv, NEW o \in orders
    PROVE  /\ PendingAt(o, height) <=> o.state # "seen"
           /\ o.state # "seen" => Holds(book.sales, o.note)
<1>1. height \in Nat \ {0} /\ height \in 1 .. height
    BY DEF MarketInv, MarketTypes
<1>2. o.origin <= height /\ (o.state = "seen" => o.at <= height)
    BY DEF MarketInv, OrdersHeld
<1>3. PendingAt(o, height) <=> o.state # "seen"
    BY <1>2 DEF PendingAt
<1>4. PendingAt(o, height) => Holds(Replay(book.events, height).sales, o.note)
    BY <1>1 DEF MarketInv, OrdersHeld
<1>5. Logged(book, height)
    BY DEF MarketInv, Sound
<1> QED BY <1>3, <1>4, <1>5, HoldsNow

-----------------------------------------------------------------------------
(***************************************************************************)
(* Steps that stay at a height                                             *)
(***************************************************************************)
LEMMA SteadyPast ==
    ASSUME MarketInv, height' = height, mtp' = mtp, records' = records, past' = past,
           Grown(book, book', height), Grown(boot, boot', height)
    PROVE  PastBook' /\ PastBoot'
<1>1. height \in Nat /\ \A k \in 1 .. height - 1 : k \in Nat /\ k < height
    BY DEF MarketInv, MarketTypes
<1>2. \A k \in 1 .. height - 1 : /\ Replay(book'.events, k) = Replay(book.events, k)
                                 /\ Replay(boot'.events, k) = Replay(boot.events, k)
    BY <1>1 DEF Grown
<1>3. PastBook'
    BY <1>2 DEF MarketInv, PastBook
<1>4. PastBoot'
    BY <1>2 DEF MarketInv, PastBoot
<1> QED BY <1>3, <1>4

(* An order already in the queue, after a step that keeps the quotes of the *)
(* buys that stay, and opens none on a name with a pending note.            *)
LEMMA SteadyOrder ==
    ASSUME MarketInv, Grown(book, book', height),
           \A n \in DOMAIN book'.sales : n \in Pending =>
               n \in DOMAIN book.sales /\ SameQuote(book.sales[n], book'.sales[n]),
           NEW o \in orders, NEW k \in 1 .. height, PendingAt(o, k)
    PROVE  Holds(Replay(book'.events, k).sales, o.note)
<1>1. height \in Nat \ {0} /\ k \in Nat /\ (k = height \/ k < height)
    BY DEF MarketInv, MarketTypes
<1>2. Holds(Replay(book.events, k).sales, o.note)
    BY DEF MarketInv, OrdersHeld
<1>3. CASE k < height
  <2>1. Replay(book'.events, k) = Replay(book.events, k)
    BY <1>1, <1>3 DEF Grown
  <2> QED BY <1>2, <2>1
<1>4. CASE k = height
  <2>1. Logged(book', height)
    BY DEF Grown
  <2>2. o.state # "seen" /\ Holds(book.sales, o.note)
    BY <1>4, PendingNow
  <2> DEFINE n == o.note.name
  <2>3. n \in Pending
    BY <2>2 DEF Pending
  <2>4. ASSUME n \in DOMAIN book'.sales
        PROVE  book'.sales[n].paid /\ o.note = SaleTransfer(book'.sales[n])
    <3>1. n \in DOMAIN book.sales /\ SameQuote(book.sales[n], book'.sales[n])
        BY <2>3, <2>4
    <3>2. book.sales[n].paid /\ o.note = SaleTransfer(book.sales[n])
        BY <2>2, <3>1 DEF Holds
    <3> QED BY <3>1, <3>2 DEF SameQuote, SaleTransfer
  <2>5. Holds(book'.sales, o.note)
    BY <2>4 DEF Holds
  <2> QED BY <1>4, <2>1, <2>5, HoldsNow
<1> QED BY <1>1, <1>3, <1>4

LEMMA BlockIs ==
    ASSUME MarketInv, NEW P
    PROVE  /\ IsBlock(Block(P))
           /\ Block(P).h = height /\ Block(P).t = mtp[height]
           /\ Block(P).recs = records /\ Block(P).pending = P
           /\ Logged(book, Block(P).h) /\ Good(book, Block(P).recs, Block(P).t, Block(P).h)
           /\ Logged(boot, Block(P).h) /\ Good(boot, Block(P).recs, Block(P).t, Block(P).h)
<1>1. height \in Nat \ {0} /\ mtp[height] \in Nat /\ records \in ByName(Record)
    BY DEF MarketInv, MarketTypes
<1>2. /\ Block(P).h = height /\ Block(P).t = mtp[height]
      /\ Block(P).recs = records /\ Block(P).pending = P
    BY DEF Block
<1>3. IsBlock(Block(P))
    BY <1>1, <1>2 DEF IsBlock
<1>4. /\ Logged(book, height) /\ Good(book, records, mtp[height], height)
      /\ Logged(boot, height) /\ Good(boot, records, mtp[height], height)
    BY DEF MarketInv, Sound
<1> QED BY <1>2, <1>3, <1>4

LEMMA MemoInv ==
    ASSUME MarketInv, Memo(book, book', Block(Pending)), Memo(boot, boot', Block({})),
           orders' = orders,
           UNCHANGED <<height, mtp, records, txs, past, boundVars>>
    PROVE  MarketInv'
<1>1. /\ height' = height /\ mtp' = mtp /\ records' = records /\ txs' = txs
      /\ past' = past /\ scope' = scope /\ restarts' = restarts
    BY DEF boundVars
<1>2. /\ Grown(book, book', height) /\ Good(book', records, mtp[height], height)
      /\ Keeps(book, book', Pending)
    BY BlockIs DEF Memo
<1>3. Grown(boot, boot', height) /\ Good(boot', records, mtp[height], height)
    BY BlockIs DEF Memo
<1>4. Logged(book', height) /\ Logged(boot', height)
    BY <1>2, <1>3 DEF Grown
<1>5. PastBook' /\ PastBoot'
    BY <1>1, <1>2, <1>3, SteadyPast
<1>6. OrdersHeld'
  <2>1. \A o \in orders : o.origin <= height /\ (o.state = "seen" => o.at <= height)
    BY DEF MarketInv, OrdersHeld
  <2>3. \A n \in DOMAIN book'.sales : n \in Pending =>
          n \in DOMAIN book.sales /\ SameQuote(book.sales[n], book'.sales[n])
    BY <1>2 DEF Keeps
  <2>2. \A o \in orders : \A k \in 1 .. height :
          PendingAt(o, k) => Holds(Replay(book'.events, k).sales, o.note)
    BY <1>2, <2>3, SteadyOrder
  <2> QED BY <1>1, <2>1, <2>2 DEF OrdersHeld
<1>7. MarketTypes
    BY DEF MarketInv
<1> QED BY <1>1, <1>2, <1>3, <1>4, <1>5, <1>6, <1>7, NextInv DEF MarketTypes

LEMMA ScopeIs ==
    ASSUME MarketInv
    PROVE  /\ scope.names \subseteq Names /\ scope.codes \subseteq Nat
           /\ scope.moves \subseteq {"update", "release"} /\ scope.time \in Nat
BY MarketAssumption DEF MarketInv, MarketTypes

LEMMA OpenTermsIs == ASSUME MarketInv PROVE OpenTerms \subseteq Terms
<1>1. Logged(book, height) /\ Logged(boot, height)
    BY DEF MarketInv, Sound
<1>2. book.challenges \subseteq Challenge /\ boot.challenges \subseteq Challenge
    BY <1>1, LoggedParts
<1>3. \A c \in Challenge : c.terms \in Terms
    BY DEF Challenge
<1> QED BY <1>2, <1>3 DEF OpenTerms

(* A memo of each kind, read by the running process and by the boot scan *)
LEMMA ArriveListMemo ==
    ASSUME MarketInv, NEW listing \in Listing, NEW code \in Nat, ArriveList(listing, code)
    PROVE  Memo(book, book', Block(Pending)) /\ Memo(boot, boot', Block({}))
<1>1. /\ book' = ProposeList(book, listing, code, Block(Pending))
      /\ boot' = ProposeList(boot, listing, code, Block({}))
    BY DEF ArriveList
<1> QED BY <1>1, BlockIs, ProposeListMemo

LEMMA ArriveDelistMemo ==
    ASSUME MarketInv, NEW terms \in Delisting, NEW code \in Nat, ArriveDelist(terms, code)
    PROVE  Memo(book, book', Block(Pending)) /\ Memo(boot, boot', Block({}))
<1>1. /\ book' = ProposeDelist(book, terms, code, Block(Pending))
      /\ boot' = ProposeDelist(boot, terms, code, Block({}))
    BY DEF ArriveDelist
<1> QED BY <1>1, BlockIs, ProposeDelistMemo

LEMMA ArriveBuyMemo ==
    ASSUME MarketInv, NEW n, NEW bob \in Addrs, NEW code \in Nat, ArriveBuy(n, bob, code)
    PROVE  Memo(book, book', Block(Pending)) /\ Memo(boot, boot', Block({}))
<1>1. /\ book' = OpenBuy(book, n, bob, code, Block(Pending))
      /\ boot' = OpenBuy(boot, n, bob, code, Block({}))
    BY DEF ArriveBuy
<1> QED BY <1>1, BlockIs, OpenBuyMemo

LEMMA ArriveAnswerMemo ==
    ASSUME MarketInv, NEW terms \in Terms, NEW code, ArriveAnswer(terms, code)
    PROVE  Memo(book, book', Block(Pending)) /\ Memo(boot, boot', Block({}))
<1>1. /\ book' = Answer(book, terms, code, Block(Pending))
      /\ boot' = Answer(boot, terms, code, Block({}))
    BY DEF ArriveAnswer
<1> QED BY <1>1, BlockIs, AnswerMemo

LEMMA EndBlockMemo ==
    ASSUME MarketInv, NEW pays, EndBlock(pays)
    PROVE  Memo(book, book', Block(Pending)) /\ Memo(boot, boot', Block({}))
<1>1. /\ book' = Observe(book, pays, Block(Pending))
      /\ boot' = Observe(boot, pays, Block({}))
    BY DEF EndBlock
<1> QED BY <1>1, BlockIs, ObserveMemo

(* The steps that read a block *)
Arrives ==
    \/ \E listing \in Listing, code \in scope.codes : ArriveList(listing, code)
    \/ \E terms \in Delisting, code \in scope.codes : ArriveDelist(terms, code)
    \/ \E n \in scope.names, bob \in Addrs, code \in scope.codes : ArriveBuy(n, bob, code)
    \/ \E terms \in OpenTerms, code \in scope.codes : ArriveAnswer(terms, code)
    \/ \E pays \in SUBSET Payable : EndBlock(pays)

LEMMA ArrivesMemo ==
    ASSUME MarketInv, Arrives
    PROVE  /\ Memo(book, book', Block(Pending)) /\ Memo(boot, boot', Block({}))
           /\ orders' = orders
           /\ UNCHANGED <<height, mtp, records, txs, past, boundVars>>
<1>1. scope.codes \subseteq Nat /\ OpenTerms \subseteq Terms
    BY ScopeIs, OpenTermsIs
<1>2. CASE \E listing \in Listing, code \in scope.codes : ArriveList(listing, code)
  <2>1. PICK listing \in Listing, code \in scope.codes : ArriveList(listing, code)
    BY <1>2
  <2>2. code \in Nat
    BY <1>1
  <2>3. orders' = orders /\ UNCHANGED <<height, mtp, records, txs, past, boundVars>>
    BY <2>1 DEF ArriveList, Reads
  <2> QED BY <2>1, <2>2, <2>3, ArriveListMemo
<1>3. CASE \E terms \in Delisting, code \in scope.codes : ArriveDelist(terms, code)
  <2>1. PICK terms \in Delisting, code \in scope.codes : ArriveDelist(terms, code)
    BY <1>3
  <2>2. code \in Nat
    BY <1>1
  <2>3. orders' = orders /\ UNCHANGED <<height, mtp, records, txs, past, boundVars>>
    BY <2>1 DEF ArriveDelist, Reads
  <2> QED BY <2>1, <2>2, <2>3, ArriveDelistMemo
<1>4. CASE \E n \in scope.names, bob \in Addrs, code \in scope.codes : ArriveBuy(n, bob, code)
  <2>1. PICK n \in scope.names, bob \in Addrs, code \in scope.codes : ArriveBuy(n, bob, code)
    BY <1>4
  <2>2. code \in Nat
    BY <1>1
  <2>3. orders' = orders /\ UNCHANGED <<height, mtp, records, txs, past, boundVars>>
    BY <2>1 DEF ArriveBuy, Reads
  <2> QED BY <2>1, <2>2, <2>3, ArriveBuyMemo
<1>5. CASE \E terms \in OpenTerms, code \in scope.codes : ArriveAnswer(terms, code)
  <2>1. PICK terms \in OpenTerms, code \in scope.codes : ArriveAnswer(terms, code)
    BY <1>5
  <2>2. terms \in Terms
    BY <1>1
  <2>3. orders' = orders /\ UNCHANGED <<height, mtp, records, txs, past, boundVars>>
    BY <2>1 DEF ArriveAnswer, Reads
  <2> QED BY <2>1, <2>2, <2>3, ArriveAnswerMemo
<1>6. CASE \E pays \in SUBSET Payable : EndBlock(pays)
  <2>1. PICK pays \in SUBSET Payable : EndBlock(pays)
    BY <1>6
  <2>2. orders' = orders /\ UNCHANGED <<height, mtp, records, txs, past, boundVars>>
    BY <2>1 DEF EndBlock
  <2> QED BY <2>1, <2>2, EndBlockMemo
<1> QED BY <1>2, <1>3, <1>4, <1>5, <1>6 DEF Arrives

(* A transition is ordered against the current note, with no buy open. *)
LEMMA TransitionInv ==
    ASSUME MarketInv, NEW n \in Names, NEW action \in {"update", "release"},
           NEW ua \in Addrs, ArriveTransition(n, action, ua)
    PROVE  MarketInv'
<1> DEFINE note == [name |-> n, action |-> action, ua |-> ua, prev |-> records[n].commitment]
           new == NewOrder(note, height)
<1>1. /\ height' = height /\ mtp' = mtp /\ records' = records /\ txs' = txs
      /\ past' = past /\ scope' = scope /\ restarts' = restarts
      /\ book' = book /\ boot' = boot
    BY DEF ArriveTransition, Reads, boundVars
<1>2. orders' = orders \cup {new} /\ ~IsOpen(book, n) /\ n \in DOMAIN records
    BY DEF ArriveTransition
<1>3. MarketTypes /\ height \in Nat \ {0} /\ records \in ByName(Record)
    BY DEF MarketInv, MarketTypes
<1>4. records[n] \in Record
    BY <1>2, <1>3, ByNameIs
<1>5. note \in Note
    BY <1>4 DEF Note, Record, Acts
<1> HIDE DEF note
<1>6. /\ new \in Order /\ new.origin = height /\ new.state = "authorized" /\ new.note = note
    BY <1>3, <1>5 DEF NewOrder, Order
<1>7. note.name = n
    BY DEF note
<1> HIDE DEF new
<1>8. orders' \subseteq Order
    BY <1>2, <1>3, <1>6 DEF MarketTypes
<1>9. Logged(book, height) /\ Logged(boot, height)
      /\ Good(book, records, mtp[height], height) /\ Good(boot, records, mtp[height], height)
    BY DEF MarketInv, Sound
<1>10. Grown(book, book', height) /\ Grown(boot, boot', height)
    BY <1>1, <1>9, GrownSelf
<1>11. PastBook' /\ PastBoot'
    BY <1>1, <1>10, SteadyPast
<1>12. OrdersHeld'
  <2>1. \A o \in orders' : o.origin <= height /\ (o.state = "seen" => o.at <= height)
    BY <1>2, <1>3, <1>6 DEF MarketInv, OrdersHeld
  <2>2. ASSUME NEW o \in orders', NEW k \in 1 .. height, PendingAt(o, k)
        PROVE  Holds(Replay(book.events, k).sales, o.note)
    <3>1. CASE o \in orders
        BY <2>2, <3>1 DEF MarketInv, OrdersHeld
    <3>2. CASE o = new
      <4>1. k = height
        BY <1>3, <1>6, <2>2, <3>2 DEF PendingAt
      <4>2. Holds(book.sales, o.note)
        BY <1>2, <1>6, <1>7, <3>2 DEF Holds, IsOpen
      <4> QED BY <1>9, <4>1, <4>2, HoldsNow
    <3> QED BY <1>2, <3>1, <3>2
  <2> QED BY <1>1, <2>1, <2>2 DEF OrdersHeld
<1> QED BY <1>1, <1>3, <1>8, <1>9, <1>11, <1>12, NextInv DEF MarketTypes

-----------------------------------------------------------------------------
(***************************************************************************)
(* The pass at the tip                                                     *)
(***************************************************************************)

(* An order the pass adds: the sale of an owed buy, or the release of a    *)
(* name no buy is left on.                                                 *)
AddedAtTip(o) ==
    /\ o \in Order /\ o.origin = height /\ o.state = "authorized"
    /\ \/ \E n \in Owed : o.note = SaleTransfer(book.sales[n])
       \/ o.note.name \notin DOMAIN book.sales \/ o.note.name \in Polled \ Owed

LEMMA TipOrders ==
    ASSUME MarketInv, NEW o \in OrdersAtTip
    PROVE  o \in orders \/ AddedAtTip(o)
<1>1. MarketTypes /\ height \in Nat \ {0} /\ records \in ByName(Record) /\ Logged(book, height)
    BY DEF MarketInv, MarketTypes, Sound
<1> DEFINE DueName(n) == n \in DOMAIN records /\ Due(records[n], mtp[height])
           sold == orders \cup {NewOrder(SaleTransfer(book.sales[n]), height) : n \in Owed}
           kept == {x \in sold : ~(/\ x.state = "authorized"
                                   /\ x.note.action = "update"
                                   /\ DueName(x.note.name))}
           free == {n \in Names : /\ DueName(n)
                                  /\ ~IsOpen(book, n) \/ n \in Polled \ Owed
                                  /\ \A x \in kept : x.note.name = n => x.state = "seen"}
           Freed(n) == [name |-> n, action |-> "release", ua |-> records[n].ua,
                        prev |-> records[n].commitment]
<1>2. OrdersAtTip = kept \cup {NewOrder(Freed(n), height) : n \in free}
    BY DEF OrdersAtTip
<1>3. CASE o \in kept
  <2>1. o \in orders \/ \E n \in Owed : o = NewOrder(SaleTransfer(book.sales[n]), height)
    BY <1>3
  <2>2. ASSUME NEW n \in Owed, o = NewOrder(SaleTransfer(book.sales[n]), height)
        PROVE  AddedAtTip(o)
    <3> DEFINE s == book.sales[n]
               note == SaleTransfer(s)
    <3>1. n \in DOMAIN book.sales
        BY DEF Owed, Polled
    <3>2. book.sales \in ByName(Sale)
        BY <1>1, LoggedParts
    <3>3. s \in Sale
        BY <3>1, <3>2, ByNameIs
    <3> HIDE DEF s
    <3>4. note \in Note
        BY <3>3 DEF Sale, SaleTransfer, Note, Acts
    <3> HIDE DEF note
    <3>5. o = NewOrder(note, height)
        BY <2>2 DEF note, s
    <3>6. o \in Order /\ o.origin = height /\ o.state = "authorized" /\ o.note = note
        BY <1>1, <3>4, <3>5 DEF NewOrder, Order
    <3> QED BY <3>6 DEF AddedAtTip, note, s
  <2> QED BY <2>1, <2>2
<1>4. CASE o \in {NewOrder(Freed(n), height) : n \in free}
  <2>1. PICK n \in free : o = NewOrder(Freed(n), height)
    BY <1>4
  <2>2. /\ n \in Names /\ n \in DOMAIN records
        /\ n \notin DOMAIN book.sales \/ n \in Polled \ Owed
    BY DEF IsOpen
  <2>3. records[n] \in Record
    BY <1>1, <2>2, ByNameIs
  <2>4. Freed(n) \in Note /\ Freed(n).name = n
    BY <2>2, <2>3 DEF Note, Record, Acts
  <2> HIDE DEF Freed
  <2>5. o \in Order /\ o.origin = height /\ o.state = "authorized" /\ o.note = Freed(n)
    BY <1>1, <2>1, <2>4 DEF NewOrder, Order
  <2> QED BY <2>2, <2>4, <2>5 DEF AddedAtTip
<1> QED BY <1>2, <1>3, <1>4

LEMMA SentOrder ==
    ASSUME NEW o \in Order, o.state = "authorized", NEW q, q = [o EXCEPT !.state = "sent"]
    PROVE  /\ q \in Order /\ q.note = o.note /\ q.origin = o.origin /\ q.state = "sent"
           /\ q.at = o.at
BY DEF Order

(* The book after a pass *)
LEMMA PassKeeps ==
    ASSUME MarketInv, NEW cs, NEW ns, NEW signed, Pass(cs, ns, signed)
    PROVE  /\ Grown(book, book', height)
           /\ Good(book', records, mtp[height], height)
           /\ DOMAIN book'.sales = DOMAIN book.sales \ (Polled \ Owed)
           /\ \A n \in DOMAIN book'.sales : SameQuote(book.sales[n], book'.sales[n])
<1> DEFINE drop == Polled \ Owed
<1>1. /\ height \in Nat \ {0} /\ Logged(book, height)
      /\ Good(book, records, mtp[height], height)
    BY DEF MarketInv, MarketTypes, Sound
<1>2. cs \subseteq book.challenges /\ drop \subseteq DOMAIN book.sales
    BY DEF Pass, UnrelayedChallenges, Polled
<1> DEFINE t == mtp[height]
           b2 == DropSales(Relayed(book, cs, ns), drop, height, "close")
<1>3. book' = b2
    BY DEF Pass
<1> HIDE DEF drop, t
<1>4. Good(book, records, t, height)
    BY <1>1 DEF t
<1>5. /\ Grown(book, b2, height)
      /\ Good(b2, records, t, height)
      /\ DOMAIN b2.sales = DOMAIN book.sales \ drop
      /\ \A n \in DOMAIN b2.sales : SameQuote(book.sales[n], b2.sales[n])
    BY <1>1, <1>2, <1>4, PassBook
<1> HIDE DEF b2
<1>6. /\ Grown(book, book', height)
      /\ Good(book', records, t, height)
      /\ DOMAIN book'.sales = DOMAIN book.sales \ drop
      /\ \A n \in DOMAIN book'.sales : SameQuote(book.sales[n], book'.sales[n])
    BY <1>3, <1>5
<1> QED BY <1>6 DEF drop, t

LEMMA PassInv ==
    ASSUME MarketInv, NEW cs, NEW ns, NEW signed, Pass(cs, ns, signed)
    PROVE  MarketInv'
<1>1. /\ height' = height /\ mtp' = mtp /\ records' = records /\ boot' = boot
      /\ past' = past /\ scope' = scope /\ restarts' = restarts
    BY DEF Pass, boundVars
<1>2. /\ Grown(book, book', height)
      /\ Good(book', records, mtp[height], height)
      /\ DOMAIN book'.sales = DOMAIN book.sales \ (Polled \ Owed)
      /\ \A n \in DOMAIN book'.sales : SameQuote(book.sales[n], book'.sales[n])
    BY PassKeeps
<1>3. /\ MarketTypes /\ height \in Nat \ {0} /\ orders \subseteq Order /\ txs \subseteq Note
      /\ Logged(boot, height) /\ Good(boot, records, mtp[height], height)
      /\ Logged(book, height)
    BY DEF MarketInv, MarketTypes, Sound
<1>4. Grown(boot, boot', height)
    BY <1>1, <1>3, GrownSelf
<1>5. PastBook' /\ PastBoot'
    BY <1>1, <1>2, <1>4, SteadyPast
<1>6. Logged(book', height)
    BY <1>2 DEF Grown
<1>7. \A o \in OrdersAtTip : o \in Order /\ (o \in orders \/ AddedAtTip(o))
    BY <1>3, TipOrders DEF AddedAtTip
<1>8. ASSUME NEW q \in orders'
      PROVE  \E o \in OrdersAtTip :
               /\ q \in Order /\ q.note = o.note /\ q.origin = o.origin /\ q.at = o.at
               /\ q.state = "seen" <=> o.state = "seen"
  <2>1. CASE q \in OrdersAtTip
    BY <1>7, <2>1
  <2>2. CASE q \in {[o EXCEPT !.state = "sent"] : o \in signed}
    <3>1. PICK o \in signed : q = [o EXCEPT !.state = "sent"]
        BY <2>2
    <3>2. o \in OrdersAtTip /\ o.state = "authorized"
        BY DEF Pass
    <3>3. q \in Order /\ q.note = o.note /\ q.origin = o.origin /\ q.state = "sent"
          /\ q.at = o.at
        BY <1>7, <3>1, <3>2, SentOrder
    <3> QED BY <3>2, <3>3
  <2> QED BY <2>1, <2>2 DEF Pass
<1>9. orders' \subseteq Order
    BY <1>8
<1>10. txs' \subseteq Note
  <2>1. \A o \in signed : o.note \in Note
    BY <1>7 DEF Pass, Order
  <2>2. txs' = txs \cup {o.note : o \in signed}
    BY DEF Pass
  <2> QED BY <1>3, <2>1, <2>2
<1>11. OrdersHeld'
  <2>1. \A o \in OrdersAtTip : o.origin <= height /\ (o.state = "seen" => o.at <= height)
    BY <1>3, <1>7 DEF MarketInv, OrdersHeld, AddedAtTip
  <2>2. \A q \in orders' : q.origin <= height /\ (q.state = "seen" => q.at <= height)
    BY <1>8, <2>1
  <2>3. \A n \in DOMAIN book'.sales : n \in Pending =>
          n \in DOMAIN book.sales /\ SameQuote(book.sales[n], book'.sales[n])
    BY <1>2
  <2>4. ASSUME NEW o \in OrdersAtTip, NEW k \in 1 .. height, PendingAt(o, k)
        PROVE  Holds(Replay(book'.events, k).sales, o.note)
    <3>1. CASE o \in orders
        BY <1>2, <2>3, <2>4, <3>1, SteadyOrder
    <3>2. CASE AddedAtTip(o)
      <4>1. k = height
        BY <1>3, <2>4, <3>2 DEF PendingAt, AddedAtTip
      <4>2. CASE \E n \in Owed : o.note = SaleTransfer(book.sales[n])
        <5>1. PICK n \in Owed : o.note = SaleTransfer(book.sales[n])
            BY <4>2
        <5>2. n \in DOMAIN book.sales /\ book.sales[n].paid
            BY DEF Owed, Polled
        <5>3. n \in DOMAIN book'.sales /\ SameQuote(book.sales[n], book'.sales[n])
            BY <1>2, <5>2
        <5>4. book'.sales[n].paid /\ o.note = SaleTransfer(book'.sales[n])
            BY <5>1, <5>2, <5>3 DEF SameQuote, SaleTransfer
        <5>5. o.note.name = n
          <6>1. book.sales[n].name = n
            BY <1>3, <5>2, LoggedParts DEF Named
          <6> QED BY <5>1, <6>1 DEF SaleTransfer
        <5>6. Holds(book'.sales, o.note)
            BY <5>4, <5>5 DEF Holds
        <5> QED BY <1>6, <4>1, <5>6, HoldsNow
      <4>3. CASE o.note.name \notin DOMAIN book.sales \/ o.note.name \in Polled \ Owed
        <5>1. o.note.name \notin DOMAIN book'.sales
            BY <1>2, <4>3
        <5>2. Holds(book'.sales, o.note)
            BY <5>1 DEF Holds
        <5> QED BY <1>6, <4>1, <5>2, HoldsNow
      <4> QED BY <3>2, <4>2, <4>3 DEF AddedAtTip
    <3> QED BY <1>7, <3>1, <3>2
  <2>5. ASSUME NEW q \in orders', NEW k \in 1 .. height, PendingAt(q, k)
        PROVE  Holds(Replay(book'.events, k).sales, q.note)
    <3>1. PICK o \in OrdersAtTip :
            /\ q.note = o.note /\ q.origin = o.origin /\ q.at = o.at
            /\ q.state = "seen" <=> o.state = "seen"
        BY <1>8
    <3>2. PendingAt(o, k)
        BY <2>5, <3>1 DEF PendingAt
    <3> QED BY <2>4, <3>1, <3>2
  <2> QED BY <1>1, <2>2, <2>5 DEF OrdersHeld
<1> QED BY <1>1, <1>2, <1>3, <1>5, <1>6, <1>9, <1>10, <1>11, NextInv DEF MarketTypes

-----------------------------------------------------------------------------
(***************************************************************************)
(* A block                                                                 *)
(***************************************************************************)
LEMMA MinableNotes == ASSUME MarketInv, NEW mined \in Minable PROVE mined \subseteq Note
<1>1. txs \subseteq Note /\ scope.names \subseteq Names
    BY ScopeIs DEF MarketInv, MarketTypes
<1>2. {note \in txs : Owns(note, records)} \subseteq Note
    BY <1>1
<1>3. << >> \in Held
    BY EmptySeq DEF Held
<1>4. ASSUME NEW c \in Claims PROVE c \in Note
  <2>1. PICK n \in scope.names \ DOMAIN records, ua \in Addrs :
          c = [name |-> n, action |-> "claim", ua |-> ua, prev |-> << >>]
    BY DEF Claims
  <2>2. n \in Names
    BY <1>1
  <2> DEFINE none == << >>
  <2>3. none \in Held
    BY <1>3
  <2>4. c = [name |-> n, action |-> "claim", ua |-> ua, prev |-> none]
    BY <2>1
  <2> HIDE DEF none
  <2> QED BY <2>2, <2>3, <2>4 DEF Note, Acts
<1> QED BY <1>2, <1>4 DEF Minable

LEMMA RecordOfIs ==
    ASSUME NEW note, note.action \in Acts, note.ua \in Addrs, note.prev \in Held,
           NEW t \in Nat
    PROVE  RecordOf(note, t) \in Record
<1>1. t + Liveness \in Nat
    BY MarketAssumption
<1> DEFINE step == <<note.action, note.ua>>
           c == Commitment(note)
<1>2. step \in Acts \X Addrs
    OBVIOUS
<1> HIDE DEF step
<1>3. c \in Held
    BY <1>2, AppendProperties DEF Held, Commitment, step
<1> HIDE DEF c
<1>4. RecordOf(note, t) = [ua |-> note.ua, commitment |-> c, deadline |-> t + Liveness]
    BY DEF RecordOf, c
<1> QED BY <1>1, <1>3, <1>4 DEF Record

LEMMA AfterNotesIs ==
    ASSUME MarketInv, NEW mined \in Minable, NEW t \in Nat
    PROVE  AfterNotes(mined, t) \in ByName(Record)
<1> DEFINE gone == {note.name : note \in mined}
           written == {note \in mined : note.action # "release"}
           D == (DOMAIN records \ gone) \cup {note.name : note \in written}
           Pick(n) == CHOOSE note \in written : note.name = n
           Value(n) == IF n \in gone THEN RecordOf(Pick(n), t) ELSE records[n]
<1>1. records \in [DOMAIN records -> Record] /\ DOMAIN records \subseteq Names
    BY ByNameIs DEF MarketInv, MarketTypes
<1>2. mined \subseteq Note
    BY MinableNotes
<1>3. \A note \in Note : /\ note.name \in Names /\ note.action \in Acts
                         /\ note.ua \in Addrs /\ note.prev \in Held
    BY DEF Note
<1>4. D \subseteq Names
    BY <1>1, <1>2, <1>3
<1>5. ASSUME NEW n \in D PROVE Value(n) \in Record
  <2>1. CASE n \in gone
    <3>1. \E note \in written : note.name = n
        BY <2>1
    <3>2. Pick(n) \in written
        BY <3>1
    <3>3. Pick(n) \in Note
        BY <1>2, <3>2
    <3> HIDE DEF Pick
    <3>4. RecordOf(Pick(n), t) \in Record
        BY <1>3, <3>3, RecordOfIs
    <3> QED BY <2>1, <3>4
  <2>2. CASE n \notin gone
    <3>1. n \in DOMAIN records
        BY <2>2
    <3> QED BY <1>1, <2>2, <3>1
  <2> QED BY <2>1, <2>2
<1>6. AfterNotes(mined, t) = [n \in D |-> Value(n)]
    BY DEF AfterNotes
<1> HIDE DEF D, Value
<1>7. AfterNotes(mined, t) \in [D -> Record]
    BY <1>5, <1>6
<1> QED BY <1>4, <1>7 DEF ByName

SeenAt(o, h) == [o EXCEPT !.state = "seen", !.at = h]

LEMMA SeenOrder ==
    ASSUME NEW o \in Order, NEW h \in Nat, NEW q, q = SeenAt(o, h)
    PROVE  /\ q \in Order /\ q.note = o.note /\ q.origin = o.origin /\ q.state = "seen"
           /\ q.at = h
BY DEF Order, SeenAt

(* An order after the block is the order, or was pending and is now seen. *)
LEMMA SeenOrders ==
    ASSUME NEW os, NEW mined, NEW recs, NEW h, NEW q \in ReconcileSeen(os, mined, recs, h)
    PROVE  \E o \in os : q = o \/ (o.state # "seen" /\ q = SeenAt(o, h))
<1>1. PICK o \in os : q = IF o.state # "seen" /\ o.note \in mined THEN SeenAt(o, h) ELSE o
    BY DEF ReconcileSeen, SeenAt
<1> QED BY <1>1

LEMMA ApplyBlockInv ==
    ASSUME MarketInv, NEW t \in Nat, NEW mined, ApplyBlock(t, mined)
    PROVE  MarketInv'
<1> DEFINE h == height + 1
           recs == AfterNotes(mined, t)
<1>1. /\ height' = h /\ mtp' = [k \in 1 .. h |-> IF k = h THEN t ELSE mtp[k]]
      /\ records' = recs /\ mined \in Minable
      /\ orders' = ReconcileSeen(orders, mined, recs, h)
      /\ book' = Reconcile(Expire(book, t, h), recs, h)
      /\ boot' = Reconcile(Expire(boot, t, h), recs, h)
      /\ past' = [k \in 1 .. height |-> IF k = height THEN Here ELSE past[k]]
      /\ txs' \subseteq txs /\ scope' = scope /\ restarts' = restarts
    BY DEF ApplyBlock, Unmined, boundVars
<1>2. /\ MarketTypes /\ height \in Nat \ {0} /\ mtp \in [1 .. height -> Nat]
      /\ records \in ByName(Record) /\ orders \subseteq Order
      /\ Logged(book, height) /\ Good(book, records, mtp[height], height)
      /\ Logged(boot, height) /\ Good(boot, records, mtp[height], height)
    BY DEF MarketInv, MarketTypes, Sound
<1>3. recs \in ByName(Record)
    BY <1>1, AfterNotesIs
<1>4. /\ h \in Nat \ {0} /\ h - 1 = height /\ 1 .. h - 1 = 1 .. height
      /\ height \in 1 .. height /\ h \in 1 .. h /\ height # h
    BY <1>2
<1>5. mtp' \in [1 .. h -> Nat] /\ mtp'[h] = t /\ \A k \in 1 .. height : mtp'[k] = mtp[k]
    BY <1>1, <1>2
<1>6. /\ Grown(book, book', h) /\ Good(book', recs, t, h)
    BY <1>1, <1>2, BlockBook DEF Good
<1>7. /\ Grown(boot, boot', h) /\ Good(boot', recs, t, h)
    BY <1>1, <1>2, BlockBook DEF Good
<1> HIDE DEF recs
<1>8. Logged(book', h) /\ Logged(boot', h)
    BY <1>6, <1>7 DEF Grown
<1>9. \A k \in 1 .. height : /\ Replay(book'.events, k) = Replay(book.events, k)
                             /\ Replay(boot'.events, k) = Replay(boot.events, k)
  <2>1. \A k \in 1 .. height : k \in Nat /\ k < h
    BY <1>2
  <2> QED BY <1>6, <1>7, <2>1 DEF Grown
<1>10. DOMAIN past' = 1 .. height /\ past'[height] = Here
       /\ \A k \in 1 .. height - 1 : past'[k] = past[k]
    BY <1>1, <1>2
<1>11. \A k \in 1 .. height : k = height \/ k \in 1 .. height - 1
    BY <1>2
<1>12. Here = [records |-> records, view |-> View(book), boot |-> boot, txs |-> txs]
    BY DEF Here
<1>13. PastBook'
  <2>1. ASSUME NEW k \in 1 .. height
        PROVE  /\ past'[k].records \in ByName(Record)
               /\ View(Replay(book'.events, k)) = past'[k].view
               /\ Good(Replay(book'.events, k), past'[k].records, mtp'[k], k)
    <3>1. CASE k = height
      <4> DEFINE r == Replay(book.events, height)
      <4>1. r \in Book /\ book \in Book /\ View(r) = View(book) /\ Rebuilt(r)
        BY <1>2, Mirrored DEF Logged
      <4>2. Good(r, records, mtp[height], height)
        BY <1>2, <4>1, AlikeGood, BarePatient
      <4>3. past'[k].records = records /\ past'[k].view = View(book)
        BY <1>10, <1>12, <3>1
      <4>4. Replay(book'.events, k) = r
        BY <1>9, <3>1
      <4> HIDE DEF r
      <4> QED BY <1>2, <1>5, <3>1, <4>1, <4>2, <4>3, <4>4
    <3>2. CASE k \in 1 .. height - 1
        BY <1>5, <1>9, <1>10, <3>2 DEF MarketInv, PastBook
    <3> QED BY <1>11, <3>1, <3>2
  <2> QED BY <1>1, <1>4, <2>1 DEF PastBook
<1>14. PastBoot'
  <2>1. ASSUME NEW k \in 1 .. height
        PROVE  /\ past'[k] = [records |-> past'[k].records, view |-> past'[k].view,
                              boot |-> past'[k].boot, txs |-> past'[k].txs]
               /\ past'[k].txs \subseteq Note
               /\ Logged(past'[k].boot, k)
               /\ Good(past'[k].boot, past'[k].records, mtp'[k], k)
               /\ Replay(boot'.events, k).events = past'[k].boot.events
    <3>1. CASE k = height
      <4>1. /\ past'[k].records = records /\ past'[k].view = View(book)
            /\ past'[k].boot = boot /\ past'[k].txs = txs
        BY <1>10, <1>12, <3>1
      <4>2. past'[k] = [records |-> past'[k].records, view |-> past'[k].view,
                        boot |-> past'[k].boot, txs |-> past'[k].txs]
        BY <1>10, <1>12, <3>1, <4>1
      <4>3. boot.events \in Seq(Event) /\ LogTo(boot.events, height)
        BY <1>2, LoggedParts DEF Logged
      <4>4. height \in Nat /\ height <= height
        BY <1>2
      <4>5. Replay(boot.events, height).events = boot.events
        BY <4>3, <4>4, ReplayWhole
      <4>6. Replay(boot'.events, k).events = boot.events
        BY <1>9, <3>1, <4>5
      <4>7. txs \subseteq Note
        BY <1>2 DEF MarketTypes
      <4> QED BY <1>2, <1>5, <3>1, <4>1, <4>2, <4>6, <4>7
    <3>2. CASE k \in 1 .. height - 1
        BY <1>5, <1>9, <1>10, <3>2 DEF MarketInv, PastBoot
    <3> QED BY <1>11, <3>1, <3>2
  <2> QED BY <1>1, <1>4, <2>1 DEF PastBoot
<1>15. ASSUME NEW q \in orders'
       PROVE  \E o \in orders : /\ q \in Order /\ q.note = o.note /\ q.origin = o.origin
                                /\ q = o \/ (o.state # "seen" /\ q.state = "seen" /\ q.at = h)
  <2> HIDE DEF h
  <2>0. q \in ReconcileSeen(orders, mined, recs, h)
    BY <1>1
  <2>1. PICK o \in orders : q = o \/ (o.state # "seen" /\ q = SeenAt(o, h))
    BY <2>0, SeenOrders
  <2>2. CASE q = o
    BY <1>2, <2>2
  <2>3. CASE o.state # "seen" /\ q = SeenAt(o, h)
    <3>1. o \in Order /\ h \in Nat
        BY <1>2, <1>4
    <3>2. q \in Order /\ q.note = o.note /\ q.origin = o.origin /\ q.state = "seen" /\ q.at = h
        BY <2>3, <3>1, SeenOrder
    <3> QED BY <2>3, <3>2
  <2> QED BY <2>1, <2>2, <2>3
<1>16. orders' \subseteq Order
    BY <1>15
<1>17. OrdersHeld'
  <2>1. \A o \in orders : /\ o.origin \in Nat /\ o.at \in Nat /\ o.origin <= height
                          /\ o.state = "seen" => o.at <= height
    BY <1>2 DEF MarketInv, OrdersHeld, Order
  <2>2. ASSUME NEW q \in orders'
        PROVE  q.origin <= h /\ (q.state = "seen" => q.at <= h)
    <3>1. PICK o \in orders : q.origin = o.origin /\ (q = o \/ q.at = h)
        BY <1>15
    <3> QED BY <1>2, <2>1, <3>1
  <2>3. ASSUME NEW q \in orders', NEW k \in 1 .. h, PendingAt(q, k)
        PROVE  Holds(Replay(book'.events, k).sales, q.note)
    <3>1. PICK o \in orders : /\ q.note = o.note /\ q.origin = o.origin
                              /\ q = o \/ (o.state # "seen" /\ q.state = "seen" /\ q.at = h)
        BY <1>15
    <3>2. k \in 1 .. height \/ k = h
        BY <1>2
    <3>3. CASE k \in 1 .. height
      <4>1. PendingAt(o, k)
        BY <2>3, <3>1 DEF PendingAt
      <4>2. Holds(Replay(book.events, k).sales, o.note)
        BY <3>3, <4>1 DEF MarketInv, OrdersHeld
      <4> QED BY <1>9, <3>1, <3>3, <4>2
    <3>4. CASE k = h
      <4>1. q = o /\ o.state # "seen"
        BY <1>2, <2>1, <2>3, <3>1, <3>4 DEF PendingAt
      <4>2. Holds(book.sales, o.note)
        BY <4>1, PendingNow
      <4>3. Fewer(book, book')
        <5>1. Apart(book) /\ Patient(book)
            BY <1>2 DEF Good
        <5> QED BY <1>1, <1>2, <5>1, BlockBook
      <4>4. Holds(book'.sales, o.note)
        BY <4>2, <4>3 DEF Fewer, Holds
      <4> QED BY <1>8, <3>4, <4>1, <4>4, HoldsNow
    <3> QED BY <3>2, <3>3, <3>4
  <2> QED BY <1>1, <2>2, <2>3 DEF OrdersHeld
<1> QED BY <1>1, <1>2, <1>3, <1>4, <1>5, <1>6, <1>7, <1>8, <1>10, <1>13, <1>14, <1>16,
        <1>17, NextInv DEF MarketTypes

-----------------------------------------------------------------------------
(***************************************************************************)
(* Reorg and restart                                                       *)
(***************************************************************************)
Reopened(o) == [o EXCEPT !.state = "authorized", !.at = 0]

LEMMA ReopenedOrder ==
    ASSUME NEW o \in Order, NEW q, q = Reopened(o)
    PROVE  q \in Order /\ q.note = o.note /\ q.origin = o.origin /\ q.state = "authorized"
BY DEF Order, Reopened

(* An order that survives a rewind, as the queue had it *)
LEMMA RewoundOrders ==
    ASSUME NEW os, NEW recs, NEW h, NEW q \in RewindOrders(os, recs, h)
    PROVE  \E o \in os : /\ o.origin <= h
                         /\ \/ q = o /\ ~(o.state = "seen" /\ o.at > h)
                            \/ q = Reopened(o) /\ o.state = "seen" /\ o.at > h
<1>1. PICK o \in os : /\ o.origin <= h
                      /\ q = IF o.state = "seen" /\ o.at > h THEN Reopened(o) ELSE o
    BY DEF RewindOrders, Reopened
<1> QED BY <1>1

LEMMA RewindInv ==
    ASSUME MarketInv, NEW h \in 1 .. height - 1, Rewind(h)
    PROVE  MarketInv'
<1> DEFINE r == Replay(book.events, h)
           recs == past[h].records
<1>1. /\ height' = h /\ mtp' = [k \in 1 .. h |-> mtp[k]] /\ records' = recs
      /\ book' = Expire(r, mtp[h], h) /\ boot' = past[h].boot
      /\ orders' = RewindOrders(orders, recs, h)
      /\ txs' = txs \cup UNION {past[k].txs : k \in h .. height - 1}
      /\ past' = [k \in 1 .. h - 1 |-> past[k]]
      /\ scope' = scope /\ restarts' = restarts
    BY DEF Rewind, TruncateTo
<1>2. /\ MarketTypes /\ height \in Nat \ {0} /\ mtp \in [1 .. height -> Nat]
      /\ orders \subseteq Order /\ txs \subseteq Note
      /\ Logged(book, height) /\ Logged(boot, height)
    BY DEF MarketInv, MarketTypes, Sound
<1>3. /\ h \in Nat \ {0} /\ h < height /\ h \in 1 .. h
      /\ \A k \in 1 .. h : k \in 1 .. height - 1 /\ k \in 1 .. height /\ k \in Nat /\ k <= h
      /\ \A k \in 1 .. h - 1 : k \in 1 .. h
    BY <1>2
<1>4. recs \in ByName(Record) /\ Good(r, recs, mtp[h], h)
    BY DEF MarketInv, PastBook
<1>5. /\ Logged(r, h) /\ Rebuilt(r)
      /\ \A k \in Nat : k <= h => Replay(r.events, k) = Replay(book.events, k)
  <2>1. height \in Nat /\ h \in Nat
    BY <1>2, <1>3
  <2> QED BY <1>2, <2>1, RewoundLogged
<1>6. /\ Logged(past[h].boot, h) /\ Good(past[h].boot, recs, mtp[h], h)
      /\ Replay(boot.events, h).events = past[h].boot.events
    BY DEF MarketInv, PastBoot
<1> HIDE DEF r, recs
<1>7. book' = r
  <2>1. r \in Book /\ Fresh(r, mtp[h], h)
    BY <1>4, <1>5 DEF Rebuilt, Good
  <2>2. Expire(r, mtp[h], h) = r
    BY <2>1, ExpireNothing
  <2> QED BY <1>1, <2>2
<1>8. mtp' \in [1 .. h -> Nat] /\ \A k \in 1 .. h : mtp'[k] = mtp[k]
    BY <1>1, <1>2, <1>3
<1>9. DOMAIN past' = 1 .. h - 1 /\ \A k \in 1 .. h - 1 : past'[k] = past[k]
    BY <1>1
<1>10. \A k \in 1 .. h : Replay(book'.events, k) = Replay(book.events, k)
    BY <1>3, <1>5, <1>7
<1>11. PastBook'
  <2>1. \A k \in 1 .. h - 1 :
          /\ past[k].records \in ByName(Record)
          /\ View(Replay(book.events, k)) = past[k].view
          /\ Good(Replay(book.events, k), past[k].records, mtp[k], k)
    BY <1>3 DEF MarketInv, PastBook
  <2>2. \A k \in 1 .. h - 1 :
          /\ past'[k].records \in ByName(Record)
          /\ View(Replay(book'.events, k)) = past'[k].view
          /\ Good(Replay(book'.events, k), past'[k].records, mtp'[k], k)
    BY <1>3, <1>8, <1>9, <1>10, <2>1
  <2> QED BY <1>1, <2>2 DEF PastBook
<1>12. PastBoot'
  <2>1. \A k \in 1 .. h - 1 :
          /\ past[k] = [records |-> past[k].records, view |-> past[k].view,
                        boot |-> past[k].boot, txs |-> past[k].txs]
          /\ past[k].txs \subseteq Note
          /\ Logged(past[k].boot, k)
          /\ Good(past[k].boot, past[k].records, mtp[k], k)
          /\ Replay(boot.events, k).events = past[k].boot.events
    BY <1>3 DEF MarketInv, PastBoot
  <2>2. boot.events \in Seq(Event)
    BY <1>2, LoggedParts
  <2>3. ASSUME NEW k \in 1 .. h - 1
        PROVE  Replay(boot'.events, k) = Replay(boot.events, k)
    <3>1. k \in Nat /\ k <= h /\ h \in Nat
        BY <1>3
    <3>2. Replay(Replay(boot.events, h).events, k) = Replay(boot.events, k)
        BY <2>2, <3>1, ReplayReplay
    <3> QED BY <1>1, <1>6, <3>2
  <2>4. \A k \in 1 .. h - 1 :
          /\ past'[k] = [records |-> past'[k].records, view |-> past'[k].view,
                         boot |-> past'[k].boot, txs |-> past'[k].txs]
          /\ past'[k].txs \subseteq Note
          /\ Logged(past'[k].boot, k)
          /\ Good(past'[k].boot, past'[k].records, mtp'[k], k)
          /\ Replay(boot'.events, k).events = past'[k].boot.events
    BY <1>3, <1>8, <1>9, <2>1, <2>3
  <2> QED BY <1>1, <2>4 DEF PastBoot
<1>13. ASSUME NEW q \in orders'
       PROVE  \E o \in orders :
                /\ q \in Order /\ q.note = o.note /\ q.origin = o.origin /\ o.origin <= h
                /\ \/ q = o /\ ~(o.state = "seen" /\ o.at > h)
                   \/ q.state = "authorized" /\ o.state = "seen" /\ o.at > h
  <2>1. q \in RewindOrders(orders, recs, h)
    BY <1>1
  <2>2. PICK o \in orders : /\ o.origin <= h
                            /\ \/ q = o /\ ~(o.state = "seen" /\ o.at > h)
                               \/ q = Reopened(o) /\ o.state = "seen" /\ o.at > h
    BY <2>1, RewoundOrders
  <2>3. o \in Order
    BY <1>2
  <2>4. CASE q = o /\ ~(o.state = "seen" /\ o.at > h)
    BY <2>2, <2>3, <2>4
  <2>5. CASE q = Reopened(o) /\ o.state = "seen" /\ o.at > h
    <3>1. q \in Order /\ q.note = o.note /\ q.origin = o.origin /\ q.state = "authorized"
        BY <2>3, <2>5, ReopenedOrder
    <3> QED BY <2>2, <2>5, <3>1
  <2> QED BY <2>2, <2>4, <2>5
<1>14. orders' \subseteq Order
    BY <1>13
<1>15. txs' \subseteq Note
  <2>1. \A k \in h .. height - 1 : k \in 1 .. height - 1
    BY <1>2, <1>3
  <2>2. \A k \in h .. height - 1 : past[k].txs \subseteq Note
    BY <2>1 DEF MarketInv, PastBoot
  <2> QED BY <1>1, <1>2, <2>2
<1>16. OrdersHeld'
  <2>1. \A o \in orders : o.at \in Nat /\ o.origin \in Nat
    BY <1>2 DEF Order
  <2>2. ASSUME NEW q \in orders'
        PROVE  q.origin <= h /\ (q.state = "seen" => q.at <= h)
    <3>1. PICK o \in orders :
            /\ q.origin = o.origin /\ o.origin <= h
            /\ \/ q = o /\ ~(o.state = "seen" /\ o.at > h)
               \/ q.state = "authorized" /\ o.state = "seen" /\ o.at > h
        BY <1>13
    <3> QED BY <1>3, <2>1, <3>1
  <2>3. ASSUME NEW q \in orders', NEW k \in 1 .. h, PendingAt(q, k)
        PROVE  Holds(Replay(book'.events, k).sales, q.note)
    <3>1. PICK o \in orders :
            /\ q.note = o.note /\ q.origin = o.origin /\ o.origin <= h
            /\ \/ q = o /\ ~(o.state = "seen" /\ o.at > h)
               \/ q.state = "authorized" /\ o.state = "seen" /\ o.at > h
        BY <1>13
    <3>2. PendingAt(o, k)
        BY <1>3, <2>1, <2>3, <3>1 DEF PendingAt
    <3>3. Holds(Replay(book.events, k).sales, o.note)
        BY <1>3, <3>2 DEF MarketInv, OrdersHeld
    <3> QED BY <1>10, <3>1, <3>3
  <2> QED BY <1>1, <2>2, <2>3 DEF OrdersHeld
<1>17. /\ Logged(book', h) /\ Good(book', records', mtp'[h], h)
       /\ Logged(boot', h) /\ Good(boot', records', mtp'[h], h)
    BY <1>1, <1>3, <1>4, <1>5, <1>6, <1>7, <1>8
<1> QED BY <1>1, <1>2, <1>3, <1>4, <1>8, <1>9, <1>11, <1>12, <1>14, <1>15, <1>16, <1>17,
        NextInv DEF MarketTypes

LEMMA RestartInv == ASSUME MarketInv, Restart PROVE MarketInv'
<1>1. /\ height' = height /\ mtp' = mtp /\ records' = records /\ boot' = boot /\ txs' = txs
      /\ scope' = scope /\ book' = SealReplayedBuys(boot) /\ orders' = {}
      /\ restarts' = restarts + 1
      /\ past' = [k \in DOMAIN past |-> [past[k] EXCEPT !.view = View(past[k].boot)]]
    BY DEF Restart
<1>2. /\ MarketTypes /\ height \in Nat \ {0} /\ restarts \in Nat
      /\ DOMAIN past = 1 .. height - 1
      /\ Logged(boot, height) /\ Good(boot, records, mtp[height], height)
    BY DEF MarketInv, MarketTypes, Sound
<1>3. /\ Logged(book', height) /\ View(book') = View(boot)
      /\ book'.challenges = boot.challenges
      /\ \A k : View(Replay(book'.events, k)) = View(Replay(boot.events, k))
  <2>1. height \in Nat
    BY <1>2
  <2> QED BY <1>1, <1>2, <2>1, SealedLogged
<1>4. Good(book', records, mtp[height], height)
  <2>1. book' \in Book /\ boot \in Book
    BY <1>2, <1>3 DEF Logged, Typed
  <2>2. Patient(book')
    BY <1>2, <1>3 DEF Good, Patient
  <2> QED BY <1>2, <1>3, <2>1, <2>2, AlikeGood
<1>5. ASSUME NEW k \in 1 .. height - 1
      PROVE  /\ past[k].records \in ByName(Record)
             /\ past[k] = [records |-> past[k].records, view |-> past[k].view,
                           boot |-> past[k].boot, txs |-> past[k].txs]
             /\ past[k].txs \subseteq Note
             /\ Logged(past[k].boot, k)
             /\ Good(past[k].boot, past[k].records, mtp[k], k)
             /\ Replay(boot.events, k).events = past[k].boot.events
    BY DEF MarketInv, PastBook, PastBoot
<1>6. ASSUME NEW k \in 1 .. height - 1
      PROVE  /\ past'[k].records = past[k].records /\ past'[k].boot = past[k].boot
             /\ past'[k].view = View(past[k].boot)
             /\ past'[k] = [records |-> past'[k].records, view |-> past'[k].view,
                            boot |-> past'[k].boot, txs |-> past'[k].txs]
             /\ past'[k].txs = past[k].txs
  <2> DEFINE P == past[k]
             v == View(past[k].boot)
  <2>1. past'[k] = [P EXCEPT !.view = v]
    BY <1>1, <1>2
  <2>2. P = [records |-> P.records, view |-> P.view, boot |-> P.boot, txs |-> P.txs]
    BY <1>5
  <2> HIDE DEF P, v
  <2>3. past'[k] = [records |-> P.records, view |-> v, boot |-> P.boot, txs |-> P.txs]
    BY <2>1, <2>2
  <2>4. /\ past'[k].records = P.records /\ past'[k].view = v
        /\ past'[k].boot = P.boot /\ past'[k].txs = P.txs
    BY <2>3
  <2> QED BY <2>3, <2>4 DEF P, v
<1>7. DOMAIN past' = 1 .. height - 1
    BY <1>1, <1>2
<1>8. ASSUME NEW k \in 1 .. height - 1
      PROVE  /\ View(Replay(book'.events, k)) = View(past[k].boot)
             /\ Good(Replay(book'.events, k), past[k].records, mtp[k], k)
  <2> DEFINE r == Replay(book'.events, k)
             o == past[k].boot
  <2>1. book'.events \in Seq(Event) /\ boot.events \in Seq(Event)
    BY <1>2, <1>3, LoggedParts
  <2>2. Rebuilt(r)
    BY <2>1, ReplayRebuilt
  <2>3. k \in Nat /\ k <= k
    BY <1>2
  <2>4. Replay(Replay(boot.events, k).events, k) = Replay(boot.events, k)
    BY <2>1, <2>3, ReplayReplay
  <2>5. View(Replay(o.events, k)) = View(o) /\ o \in Book
    BY <1>5 DEF Logged, Typed
  <2>6. Replay(boot.events, k).events = o.events
    BY <1>5
  <2>7. View(r) = View(o)
    BY <1>3, <2>4, <2>5, <2>6
  <2>8. Good(o, past[k].records, mtp[k], k)
    BY <1>5
  <2> HIDE DEF r, o
  <2>9. r \in Book /\ Patient(r)
    BY <2>2, BarePatient DEF Rebuilt
  <2>10. Good(r, past[k].records, mtp[k], k)
    BY <2>5, <2>7, <2>8, <2>9, AlikeGood
  <2> QED BY <2>7, <2>10 DEF r, o
<1>9. PastBook'
    BY <1>1, <1>5, <1>6, <1>8 DEF PastBook
<1>10. PastBoot'
  <2>1. ASSUME NEW k \in 1 .. height - 1
        PROVE  /\ Logged(past'[k].boot, k)
               /\ Good(past'[k].boot, past'[k].records, mtp'[k], k)
               /\ Replay(boot'.events, k).events = past'[k].boot.events
    <3>1. past'[k].records = past[k].records /\ past'[k].boot = past[k].boot
        BY <1>6
    <3>2. /\ Logged(past[k].boot, k)
          /\ Good(past[k].boot, past[k].records, mtp[k], k)
          /\ Replay(boot.events, k).events = past[k].boot.events
        BY <1>5
    <3> QED BY <1>1, <3>1, <3>2
  <2>2. \A k \in 1 .. height' - 1 :
          /\ past'[k] = [records |-> past'[k].records, view |-> past'[k].view,
                         boot |-> past'[k].boot, txs |-> past'[k].txs]
          /\ past'[k].txs \subseteq Note
    BY <1>1, <1>5, <1>6
  <2>3. \A k \in 1 .. height' - 1 :
          /\ Logged(past'[k].boot, k)
          /\ Good(past'[k].boot, past'[k].records, mtp'[k], k)
          /\ Replay(boot'.events, k).events = past'[k].boot.events
    BY <1>1, <2>1
  <2> QED BY <2>2, <2>3 DEF PastBoot
<1>11. OrdersHeld'
    BY <1>1 DEF OrdersHeld
<1>12. restarts' \in Nat /\ orders' \subseteq Order
    BY <1>1, <1>2
<1> QED BY <1>1, <1>2, <1>3, <1>4, <1>7, <1>9, <1>10, <1>11, <1>12, NextInv DEF MarketTypes

-----------------------------------------------------------------------------
(***************************************************************************)
(* The invariant holds                                                     *)
(***************************************************************************)
LEMMA EmptySound ==
    ASSUME NEW recs, NEW t
    PROVE  Logged(EmptyBook, 1) /\ Good(EmptyBook, recs, t, 1) /\ EmptyBook.events = << >>
<1>1. Rebuilt(EmptyBook)
    BY EmptyRebuilt
<1>2. /\ DOMAIN EmptyBook.listings = {} /\ DOMAIN EmptyBook.sales = {}
      /\ EmptyBook.challenges = {} /\ EmptyBook.events = << >>
    BY EmptyByName DEF EmptyBook
<1>3. Replay(EmptyBook.events, 1) = EmptyBook
    BY <1>2, ReplayNil
<1>4. Len(<< >>) = 0 /\ 1 .. 0 = {}
    OBVIOUS
<1>5. LogTo(EmptyBook.events, 1)
    BY <1>2, <1>4 DEF LogTo
<1>6. Typed(EmptyBook)
    BY <1>1, <1>2 DEF Typed, Rebuilt, OneCode
<1>7. Good(EmptyBook, recs, t, 1)
    BY <1>2 DEF Good, Fresh, Current, Apart, Patient
<1> QED BY <1>2, <1>3, <1>5, <1>6, <1>7 DEF Logged

LEMMA InitMarket == Init => MarketInv
<1> SUFFICES ASSUME Init PROVE MarketInv
    OBVIOUS
<1>1. /\ height = 1 /\ mtp = [h \in {1} |-> 0] /\ scope \in Scopes
      /\ records \in [scope.names -> {RecordOf(
            [action |-> "claim", ua |-> ua, prev |-> << >>], 0) : ua \in Addrs}]
      /\ book = EmptyBook /\ boot = EmptyBook /\ orders = {} /\ txs = {}
      /\ past = << >> /\ restarts = 0
    BY DEF Init
<1>2. scope.names \subseteq Names
    BY <1>1, MarketAssumption
<1>3. ASSUME NEW ua \in Addrs
      PROVE  RecordOf([action |-> "claim", ua |-> ua, prev |-> << >>], 0) \in Record
  <2> DEFINE note == [action |-> "claim", ua |-> ua, prev |-> << >>]
  <2>1. << >> \in Held
    BY EmptySeq DEF Held
  <2>2. note.action \in Acts /\ note.ua \in Addrs /\ note.prev \in Held
    BY <2>1 DEF Acts
  <2> HIDE DEF note
  <2>3. RecordOf(note, 0) \in Record
    BY <2>2, RecordOfIs
  <2> QED BY <2>3 DEF note
<1> DEFINE firsts == {RecordOf([action |-> "claim", ua |-> ua, prev |-> << >>], 0) : ua \in Addrs}
<1>4. firsts \subseteq Record
    BY <1>3
<1>5. records \in [scope.names -> firsts]
    BY <1>1
<1> HIDE DEF firsts
<1>6. records \in [scope.names -> Record]
    BY <1>4, <1>5
<1>7. records \in ByName(Record)
    BY <1>2, <1>6 DEF ByName
<1>8. {1} = 1 .. 1 /\ 1 .. 1 - 1 = {} /\ height \in Nat \ {0}
    BY <1>1
<1>9. mtp \in [1 .. height -> Nat]
  <2>1. mtp = [h \in 1 .. 1 |-> 0]
    BY <1>1, <1>8
  <2> QED BY <1>1, <2>1
<1>10. DOMAIN past = 1 .. height - 1
    BY <1>1, <1>8, EmptyByName
<1>11. MarketTypes
    BY <1>1, <1>7, <1>8, <1>9, <1>10 DEF MarketTypes
<1>12. Sound(book) /\ Sound(boot)
    BY <1>1, EmptySound DEF Sound
<1>13. PastBook /\ PastBoot
    BY <1>1, <1>8 DEF PastBook, PastBoot
<1>14. OrdersHeld
    BY <1>1 DEF OrdersHeld
<1> QED BY <1>11, <1>12, <1>13, <1>14 DEF MarketInv

LEMMA StutterMarket == ASSUME MarketInv, UNCHANGED vars PROVE MarketInv'
<1>1. /\ height' = height /\ mtp' = mtp /\ records' = records /\ book' = book /\ boot' = boot
      /\ orders' = orders /\ txs' = txs /\ past' = past /\ scope' = scope
      /\ restarts' = restarts
    BY DEF vars, boundVars
<1>2. /\ Logged(book, height) /\ Good(book, records, mtp[height], height)
      /\ Logged(boot, height) /\ Good(boot, records, mtp[height], height)
    BY DEF MarketInv, Sound
<1>3. Grown(book, book', height) /\ Grown(boot, boot', height)
    BY <1>1, <1>2, GrownSelf
<1>4. PastBook' /\ PastBoot'
    BY <1>1, <1>3, SteadyPast
<1>5. OrdersHeld'
    BY <1>1 DEF MarketInv, OrdersHeld
<1> QED BY <1>1, <1>2, <1>4, <1>5, NextInv DEF MarketInv, MarketTypes

(* The steps of Next, with the bounds they take their inputs from *)
LEMMA Steps ==
    ASSUME MarketInv, Next
    PROVE  \/ Arrives
           \/ \E t \in Nat : \E mined \in Minable : ApplyBlock(t, mined)
           \/ \E n \in Names, action \in {"update", "release"}, ua \in Addrs :
                ArriveTransition(n, action, ua)
           \/ \E cs, ns, signed : Pass(cs, ns, signed)
           \/ \E h \in 1 .. height - 1 : Rewind(h)
           \/ Restart
<1>1. /\ scope.names \subseteq Names /\ scope.moves \subseteq {"update", "release"}
      /\ scope.time \in Nat
    BY ScopeIs
<1>2. 0 .. scope.time \subseteq Nat
    BY <1>1
<1>3. CASE \E t \in 0 .. scope.time : \E mined \in Minable : ApplyBlock(t, mined)
    BY <1>2, <1>3
<1>4. CASE \E listing \in Listing, code \in scope.codes :
             /\ listing.name \in scope.names
             /\ listing.ask \in scope.asks
             /\ ArriveList(listing, code)
    BY <1>4 DEF Arrives
<1>5. CASE \E terms \in Delisting, code \in scope.codes :
             terms.name \in scope.names /\ ArriveDelist(terms, code)
    BY <1>5 DEF Arrives
<1>6. CASE \E n \in scope.names, bob \in Addrs, code \in scope.codes :
             ArriveBuy(n, bob, code)
    BY <1>6 DEF Arrives
<1>7. CASE \E terms \in OpenTerms, code \in scope.codes : ArriveAnswer(terms, code)
    BY <1>7 DEF Arrives
<1>8. CASE \E n \in scope.names, action \in scope.moves, ua \in Addrs :
             ArriveTransition(n, action, ua)
    BY <1>1, <1>8
<1>9. CASE \E pays \in SUBSET Payable : EndBlock(pays)
    BY <1>9 DEF Arrives
<1>10. CASE \E cs \in SUBSET UnrelayedChallenges, ns \in SUBSET UnrelayedBuys :
              \E signed \in SUBSET {o \in OrdersAtTip : o.state = "authorized"} :
                 Pass(cs, ns, signed)
    BY <1>10
<1>11. CASE \E h \in 1 .. height - 1 : Rewind(h)
    BY <1>11
<1>12. CASE Restart
    BY <1>12
<1> QED BY <1>3, <1>4, <1>5, <1>6, <1>7, <1>8, <1>9, <1>10, <1>11, <1>12 DEF Next

LEMMA NextMarket == MarketInv /\ [Next]_vars => MarketInv'
<1> SUFFICES ASSUME MarketInv, [Next]_vars PROVE MarketInv'
    OBVIOUS
<1>1. CASE UNCHANGED vars
    BY <1>1, StutterMarket
<1>2. CASE Next
  <2>1. CASE Arrives
    BY <2>1, ArrivesMemo, MemoInv
  <2>2. CASE \E t \in Nat : \E mined \in Minable : ApplyBlock(t, mined)
    BY <2>2, ApplyBlockInv
  <2>3. CASE \E n \in Names, action \in {"update", "release"}, ua \in Addrs :
               ArriveTransition(n, action, ua)
    BY <2>3, TransitionInv
  <2>4. CASE \E cs, ns, signed : Pass(cs, ns, signed)
    BY <2>4, PassInv
  <2>5. CASE \E h \in 1 .. height - 1 : Rewind(h)
    BY <2>5, RewindInv
  <2>6. CASE Restart
    BY <2>6, RestartInv
  <2> QED BY <1>2, <2>1, <2>2, <2>3, <2>4, <2>5, <2>6, Steps
<1> QED BY <1>1, <1>2

-----------------------------------------------------------------------------
(***************************************************************************)
(* What the invariant says of the market                                   *)
(***************************************************************************)
LEMMA InvRebuilds == MarketInv => LogRebuildsBook
<1> SUFFICES ASSUME MarketInv, NEW h \in 1 .. height
             PROVE  /\ View(TruncateTo(book, h)) =
                         (IF h = height THEN View(book) ELSE past[h].view)
                    /\ h < height => Expire(TruncateTo(book, h), mtp[h], h) = TruncateTo(book, h)
    BY DEF LogRebuildsBook
<1> DEFINE r == Replay(book.events, h)
<1>1. height \in Nat \ {0} /\ (h = height \/ h \in 1 .. height - 1) /\ Logged(book, height)
    BY DEF MarketInv, MarketTypes, Sound
<1>2. TruncateTo(book, h) = r
    BY DEF TruncateTo
<1>3. CASE h = height
  <2>1. View(r) = View(book)
    BY <1>1, <1>3 DEF Logged
  <2> QED BY <1>1, <1>2, <1>3, <2>1
<1>4. CASE h \in 1 .. height - 1
  <2>1. h # height
    BY <1>1, <1>4
  <2>2. View(r) = past[h].view /\ Good(r, past[h].records, mtp[h], h)
    BY <1>4 DEF MarketInv, PastBook
  <2>3. book.events \in Seq(Event)
    BY <1>1, LoggedParts
  <2>4. r \in Book
    BY <2>3, ReplayRebuilt DEF Rebuilt
  <2> HIDE DEF r
  <2>5. Expire(r, mtp[h], h) = r
    BY <2>2, <2>4, ExpireNothing DEF Good
  <2> QED BY <1>2, <2>1, <2>2, <2>5
<1> QED BY <1>1, <1>3, <1>4

LEMMA BookTypes ==
    ASSUME NEW b, NEW h, Logged(b, h), Patient(b)
    PROVE  /\ \A n \in DOMAIN b.listings : b.listings[n] \in Listing /\ b.listings[n].name = n
           /\ \A n \in DOMAIN b.sales : b.sales[n].name = n /\ b.sales[n].bob \in Addrs
           /\ \A c \in b.challenges : c.terms \in Terms /\ c.attempts < MAX_ATTEMPTS
           /\ \A i \in DOMAIN b.events :
                /\ b.events[i].height \in 1 .. h
                /\ i > 1 => b.events[i - 1].height <= b.events[i].height
<1>1. /\ Named(b) /\ b.challenges \in SUBSET Challenge
      /\ b.events \in Seq(Event) /\ LogTo(b.events, h)
    BY LoggedParts DEF Logged
<1>2. b.listings \in ByName(Listing)
    BY LoggedParts
<1>3. b.sales \in ByName(Sale)
    BY LoggedParts
<1>4. \A n \in DOMAIN b.listings : b.listings[n] \in Listing
    BY <1>2, ByNameIs
<1>5. \A n \in DOMAIN b.sales : b.sales[n] \in Sale
    BY <1>3, ByNameIs
<1>6. \A n \in DOMAIN b.sales : b.sales[n].bob \in Addrs
    BY <1>5 DEF Sale
<1>7. \A c \in b.challenges : c.terms \in Terms
    BY <1>1 DEF Challenge
<1> DEFINE l == Len(b.events)
<1>8. l \in Nat /\ DOMAIN b.events = 1 .. l
    BY <1>1, LenProperties
<1> HIDE DEF l
<1>9. /\ \A i \in 1 .. l : b.events[i].height \in 1 .. h
      /\ \A i, j \in 1 .. l : i <= j => b.events[i].height <= b.events[j].height
    BY <1>1 DEF LogTo, l
<1>10. ASSUME NEW i \in 1 .. l, i > 1 PROVE b.events[i - 1].height <= b.events[i].height
  <2>1. i - 1 \in 1 .. l /\ i - 1 <= i
    BY <1>8, <1>10
  <2> QED BY <1>9, <2>1
<1>11. \A i \in DOMAIN b.events :
         /\ b.events[i].height \in 1 .. h
         /\ i > 1 => b.events[i - 1].height <= b.events[i].height
    BY <1>8, <1>9, <1>10
<1> QED BY <1>1, <1>4, <1>6, <1>7, <1>11 DEF Named, Patient

LEMMA InvCurrent == MarketInv => BookCurrent
<1> SUFFICES ASSUME MarketInv PROVE BookCurrent
    OBVIOUS
<1>1. /\ height \in Nat \ {0} /\ mtp \in [1 .. height -> Nat] /\ records \in ByName(Record)
      /\ orders \subseteq Order
      /\ Logged(book, height) /\ Good(book, records, mtp[height], height)
      /\ Logged(boot, height) /\ Good(boot, records, mtp[height], height)
    BY DEF MarketInv, MarketTypes, Sound
<1>2. DOMAIN records \subseteq Names /\ \A n \in DOMAIN records : records[n] \in Record
    BY <1>1, ByNameIs
<1>3. \A n \in DOMAIN records : records[n].ua \in Addrs
    BY <1>2 DEF Record
<1>4. \A b \in {book, boot} : Logged(b, height) /\ Patient(b)
    BY <1>1 DEF Good
<1>5. \A o \in orders : o.state \in {"authorized", "sent", "seen"} /\ o.origin \in 1 .. height
  <2>1. \A o \in orders : o.origin \in Nat \ {0} /\ o.origin <= height
                          /\ o.state \in {"authorized", "sent", "seen"}
    BY <1>1 DEF MarketInv, OrdersHeld, Order
  <2> QED BY <1>1, <2>1
<1>6. \A b \in {book, boot} :
         /\ \A n \in DOMAIN b.listings : b.listings[n] \in Listing /\ b.listings[n].name = n
         /\ \A n \in DOMAIN b.sales : b.sales[n].name = n /\ b.sales[n].bob \in Addrs
         /\ \A c \in b.challenges : c.terms \in Terms /\ c.attempts < MAX_ATTEMPTS
         /\ \A i \in DOMAIN b.events :
              /\ b.events[i].height \in 1 .. height
              /\ i > 1 => b.events[i - 1].height <= b.events[i].height
    BY <1>4, BookTypes
<1>7. MarketTypeOK
    BY <1>1, <1>2, <1>3, <1>5, <1>6 DEF MarketTypeOK
<1>8. Current(book, records) /\ Apart(book)
    BY <1>1 DEF Good
<1>9. \A o \in orders : o.state # "seen" => Holds(book.sales, o.note)
    BY PendingNow
<1>10. ASSUME NEW n \in DOMAIN book.sales
       PROVE  /\ Captured(book.sales[n], records)
              /\ \A c \in book.challenges : c.terms.name # n
              /\ \A o \in orders : o.note.name = n /\ o.state # "seen" =>
                    book.sales[n].paid /\ o.note = SaleTransfer(book.sales[n])
    BY <1>8, <1>9 DEF Current, Apart, Holds
<1> QED BY <1>7, <1>8, <1>10 DEF BookCurrent, Current

LEMMA InvOnePayment == MarketInv => OnePaymentOneBuy
<1> SUFFICES ASSUME MarketInv PROVE OnePaymentOneBuy
    OBVIOUS
<1>1. Logged(book, height) /\ Apart(book)
    BY DEF MarketInv, Sound, Good
<1>2. OneCode(book.challenges)
    BY <1>1, LoggedParts
<1> QED BY <1>1, <1>2 DEF OnePaymentOneBuy, Apart, OneCode, Bill

-----------------------------------------------------------------------------
(***************************************************************************)
(* Quotes                                                                  *)
(***************************************************************************)

(* What QuoteHonoured asks of one buy *)
Honoured(n) ==
    LET s == book.sales[n] IN
    s.relayed \/ s.paid =>
      \/ /\ n \in DOMAIN book'.sales
         /\ LET q == book'.sales[n] IN
            /\ <<q.bob, q.code, q.price>> = <<s.bob, s.code, s.price>>
            /\ s.paid => q.paid
      \/ ~s.paid /\ mtp'[height'] >= s.until
      \/ ~Captured(s, records')
      \/ s.bob = s.alice

LEMMA KeptQuote ==
    ASSUME NEW n, n \in DOMAIN book'.sales, SameQuote(book.sales[n], book'.sales[n])
    PROVE  Honoured(n)
BY DEF Honoured, SameQuote

LEMMA BlockHonours ==
    ASSUME MarketInv, NEW t \in Nat, NEW mined, ApplyBlock(t, mined),
           NEW n \in DOMAIN book.sales
    PROVE  Honoured(n)
<1> DEFINE h == height + 1
           recs == AfterNotes(mined, t)
<1>1. /\ height' = h /\ mtp' = [k \in 1 .. h |-> IF k = h THEN t ELSE mtp[k]]
      /\ records' = recs /\ book' = Reconcile(Expire(book, t, h), recs, h)
    BY DEF ApplyBlock
<1>2. /\ height \in Nat \ {0} /\ Logged(book, height) /\ Apart(book) /\ Patient(book)
    BY DEF MarketInv, MarketTypes, Sound, Good
<1>3. mtp'[height'] = t
    BY <1>1, <1>2
<1>4. /\ Fewer(book, book')
      /\ \A m \in DOMAIN book.sales \ DOMAIN book'.sales :
           \/ ~book.sales[m].paid /\ t >= book.sales[m].until
           \/ ~Captured(book.sales[m], recs)
    BY <1>1, <1>2, BlockBook
<1> HIDE DEF recs, h
<1>5. CASE n \in DOMAIN book'.sales
  <2>1. book'.sales[n] = book.sales[n]
    BY <1>4, <1>5 DEF Fewer
  <2>2. SameQuote(book.sales[n], book'.sales[n])
    BY <2>1 DEF SameQuote
  <2> QED BY <1>5, <2>2, KeptQuote
<1>6. CASE n \notin DOMAIN book'.sales
  <2>1. \/ ~book.sales[n].paid /\ mtp'[height'] >= book.sales[n].until
        \/ ~Captured(book.sales[n], records')
    BY <1>1, <1>3, <1>4, <1>6
  <2> QED BY <2>1 DEF Honoured
<1> QED BY <1>5, <1>6

LEMMA PassHonours ==
    ASSUME MarketInv, NEW cs, NEW ns, NEW signed, Pass(cs, ns, signed),
           NEW n \in DOMAIN book.sales
    PROVE  Honoured(n)
<1>1. /\ DOMAIN book'.sales = DOMAIN book.sales \ (Polled \ Owed)
      /\ \A m \in DOMAIN book'.sales : SameQuote(book.sales[m], book'.sales[m])
    BY PassKeeps
<1>2. CASE n \in DOMAIN book'.sales
    BY <1>1, <1>2, KeptQuote
<1>3. CASE n \notin DOMAIN book'.sales
  <2>1. n \in Polled /\ n \notin Owed
    BY <1>1, <1>3
  <2>2. Logged(book, height) /\ Current(book, records)
    BY DEF MarketInv, Sound, Good
  <2>3. Captured(book.sales[n], records) /\ book.sales[n].name = n
    BY <2>2, LoggedParts DEF Current, Named
  <2>4. records[n].ua = book.sales[n].alice
    BY <2>3 DEF Captured, HeldBy
  <2>5. records[n].ua = book.sales[n].bob
    BY <2>1, <2>3 DEF Owed
  <2> QED BY <2>4, <2>5 DEF Honoured
<1> QED BY <1>2, <1>3

LEMMA StepHonours ==
    ASSUME MarketInv, Next, restarts' = 0, height' >= height, NEW n \in DOMAIN book.sales
    PROVE  Honoured(n)
<1>1. CASE Arrives
  <2>1. Memo(book, book', Block(Pending))
    BY <1>1, ArrivesMemo
  <2>2. n \in DOMAIN book'.sales /\ SameQuote(book.sales[n], book'.sales[n])
    BY <2>1 DEF Memo, Keeps
  <2> QED BY <2>2, KeptQuote
<1>2. CASE \E t \in Nat : \E mined \in Minable : ApplyBlock(t, mined)
    BY <1>2, BlockHonours
<1>3. CASE \E m \in Names, action \in {"update", "release"}, ua \in Addrs :
             ArriveTransition(m, action, ua)
  <2>1. book' = book
    BY <1>3 DEF ArriveTransition
  <2>2. SameQuote(book.sales[n], book'.sales[n])
    BY <2>1 DEF SameQuote
  <2> QED BY <2>1, <2>2, KeptQuote
<1>4. CASE \E cs, ns, signed : Pass(cs, ns, signed)
    BY <1>4, PassHonours
<1>5. CASE \E h \in 1 .. height - 1 : Rewind(h)
  <2>1. PICK h \in 1 .. height - 1 : Rewind(h)
    BY <1>5
  <2>2. height' = h /\ height \in Nat
    BY <2>1 DEF Rewind, MarketInv, MarketTypes
  <2> QED BY <2>2
<1>6. CASE Restart
  <2>1. restarts' = restarts + 1 /\ restarts \in Nat
    BY <1>6 DEF Restart, MarketInv, MarketTypes
  <2> QED BY <2>1
<1> QED BY <1>1, <1>2, <1>3, <1>4, <1>5, <1>6, Steps

-----------------------------------------------------------------------------
(***************************************************************************)
(* What a buy holds                                                        *)
(***************************************************************************)

(* On a chain that only grew, under one process: what is broadcast is an    *)
(* order the queue still holds as sent, and every pending order succeeds    *)
(* the name's current note.                                                 *)
SentKept ==
    /\ \A note \in txs : \E o \in orders : o.state = "sent" /\ o.note = note
    /\ \A o \in orders : o.state # "seen" => Owns(o.note, records)

SentInv ==
    /\ restarts \in Nat /\ reorgs \in Nat
    /\ restarts = 0 /\ reorgs = 0 => SentKept

LEMMA InitSent == Init => SentInv
BY DEF Init, SentInv, SentKept

(* A memo leaves the queue, the broadcasts and the records alone. *)
LEMMA ArrivesSent ==
    ASSUME SentKept, orders' = orders, txs' = txs, records' = records
    PROVE  SentKept'
BY DEF SentKept, Owns

LEMMA TransitionSent ==
    ASSUME SentKept, NEW n, NEW action, NEW ua, ArriveTransition(n, action, ua)
    PROVE  SentKept'
<1> DEFINE note == [name |-> n, action |-> action, ua |-> ua, prev |-> records[n].commitment]
           o == NewOrder(note, height)
<1>1. /\ orders' = orders \cup {o} /\ txs' = txs /\ records' = records
      /\ n \in DOMAIN records
    BY DEF ArriveTransition, Reads
<1>2. o.note = note
    BY DEF NewOrder
<1>3. Owns(note, records)
    BY <1>1 DEF Owns
<1> HIDE DEF o, note
<1> QED BY <1>1, <1>2, <1>3 DEF SentKept, Owns

(* The pass adds orders on the current note, and forgets none it sent. *)
LEMMA TipSent ==
    ASSUME MarketInv, SentKept
    PROVE  /\ \A o \in orders : o.state = "sent" => o \in OrdersAtTip
           /\ \A o \in OrdersAtTip : o.state # "seen" => Owns(o.note, records)
<1> DEFINE DueName(n) == n \in DOMAIN records /\ Due(records[n], mtp[height])
           sales == {NewOrder(SaleTransfer(book.sales[n]), height) : n \in Owed}
           sold == orders \cup sales
           kept == {o \in sold : ~(/\ o.state = "authorized"
                                   /\ o.note.action = "update"
                                   /\ DueName(o.note.name))}
           free == {n \in Names : /\ DueName(n)
                                  /\ ~IsOpen(book, n) \/ n \in Polled \ Owed
                                  /\ \A o \in kept : o.note.name = n => o.state = "seen"}
           Freed(n) == [name |-> n, action |-> "release", ua |-> records[n].ua,
                        prev |-> records[n].commitment]
           freed == {NewOrder(Freed(n), height) : n \in free}
<1>1. OrdersAtTip = kept \cup freed
    BY DEF OrdersAtTip
<1>2. \A n \in free : n \in DOMAIN records
    OBVIOUS
<1>3. \A o \in freed : \E n \in free : o = NewOrder(Freed(n), height)
    OBVIOUS
<1>4. kept \subseteq sold /\ \A o \in sold : o.state # "authorized" => o \in kept
    OBVIOUS
<1>5. \A o \in sales : \E n \in Owed : o = NewOrder(SaleTransfer(book.sales[n]), height)
    OBVIOUS
<1>6. \A n : Freed(n).name = n /\ Freed(n).prev = records[n].commitment
    OBVIOUS
<1>7. sold = orders \cup sales
    OBVIOUS
<1> HIDE DEF sales, sold, kept, free, Freed, freed
<1>8. \A note : NewOrder(note, height).note = note
    BY DEF NewOrder
<1>9. ASSUME NEW o \in sales PROVE Owns(o.note, records)
  <2>1. PICK n \in Owed : o = NewOrder(SaleTransfer(book.sales[n]), height)
    BY <1>5
  <2>2. Captured(book.sales[n], records)
    BY DEF Owed
  <2>3. o.note = SaleTransfer(book.sales[n])
    BY <1>8, <2>1
  <2>4. o.note.name = book.sales[n].name /\ o.note.prev = book.sales[n].held
    BY <2>3 DEF SaleTransfer
  <2> QED BY <2>2, <2>4 DEF Owns, Captured, HeldBy
<1>10. ASSUME NEW o \in freed PROVE Owns(o.note, records)
  <2>1. PICK n \in free : o = NewOrder(Freed(n), height)
    BY <1>3
  <2>2. o.note = Freed(n)
    BY <1>8, <2>1
  <2> QED BY <1>2, <1>6, <2>2 DEF Owns
<1>11. \A o \in orders : o.state # "seen" => Owns(o.note, records)
    BY DEF SentKept
<1>12. \A o \in OrdersAtTip : o \in orders \/ o \in sales \/ o \in freed
    BY <1>1, <1>4, <1>7
<1>13. \A o \in orders : o.state = "sent" => o \in OrdersAtTip
    BY <1>1, <1>4, <1>7
<1> QED BY <1>9, <1>10, <1>11, <1>12, <1>13

LEMMA PassSent ==
    ASSUME MarketInv, SentKept, NEW cs, NEW ns, NEW signed, Pass(cs, ns, signed)
    PROVE  SentKept'
<1> DEFINE Sent(o) == [o EXCEPT !.state = "sent"]
           sent == {Sent(o) : o \in signed}
<1>1. /\ orders' = (OrdersAtTip \ signed) \cup sent /\ records' = records
      /\ txs' = txs \cup {o.note : o \in signed}
      /\ \A o \in signed : o \in OrdersAtTip /\ o.state = "authorized"
    BY DEF Pass
<1>2. OrdersAtTip \subseteq Order
  <2>1. orders \subseteq Order
    BY DEF MarketInv, MarketTypes
  <2> QED BY <2>1, TipOrders DEF AddedAtTip
<1>3. \A o \in signed : Sent(o).note = o.note /\ Sent(o).state = "sent"
    BY <1>1, <1>2, SentOrder
<1>4. \A q \in sent : \E o \in signed : q = Sent(o)
    OBVIOUS
<1>5. \A o \in signed : Sent(o) \in sent
    OBVIOUS
<1> HIDE DEF sent, Sent
<1>6. ASSUME NEW note \in txs' PROVE \E o \in orders' : o.state = "sent" /\ o.note = note
  <2>1. CASE note \in txs
    <3>1. PICK o \in orders : o.state = "sent" /\ o.note = note
        BY <2>1 DEF SentKept
    <3>2. o \in OrdersAtTip
        BY <3>1, TipSent
    <3> QED BY <1>1, <3>1, <3>2
  <2>2. CASE \E o \in signed : note = o.note
    <3>1. PICK o \in signed : note = o.note
        BY <2>2
    <3> QED BY <1>1, <1>3, <1>5, <3>1
  <2> QED BY <1>1, <2>1, <2>2
<1>7. ASSUME NEW q \in orders', q.state # "seen" PROVE Owns(q.note, records')
  <2>1. \E o \in OrdersAtTip : q.note = o.note /\ o.state # "seen"
    BY <1>1, <1>3, <1>4, <1>7
  <2> QED BY <1>1, <2>1, TipSent
<1> QED BY <1>6, <1>7 DEF SentKept

(* A name the block confirms no note of keeps its record. *)
LEMMA Untouched ==
    ASSUME NEW mined, NEW t, NEW n, \A m \in mined : m.name # n
    PROVE  /\ n \in DOMAIN AfterNotes(mined, t) <=> n \in DOMAIN records
           /\ n \in DOMAIN records => AfterNotes(mined, t)[n] = records[n]
<1> DEFINE gone == {note.name : note \in mined}
           written == {note \in mined : note.action # "release"}
           left == (DOMAIN records \ gone) \cup {note.name : note \in written}
<1>1. n \notin gone /\ n \notin {note.name : note \in written}
    OBVIOUS
<1>2. AfterNotes(mined, t) = [m \in left |->
          IF m \in gone THEN RecordOf(CHOOSE note \in written : note.name = m, t)
          ELSE records[m]]
    BY DEF AfterNotes
<1>3. n \in left <=> n \in DOMAIN records
    BY <1>1
<1> HIDE DEF gone, left, written
<1> QED BY <1>1, <1>2, <1>3

LEMMA BlockSent ==
    ASSUME SentKept, NEW t, NEW mined, ApplyBlock(t, mined)
    PROVE  SentKept'
<1> DEFINE recs == AfterNotes(mined, t)
<1>1. /\ records' = recs /\ txs' = Unmined(mined)
      /\ orders' = ReconcileSeen(orders, mined, recs, height + 1)
    BY DEF ApplyBlock
<1>2. ASSUME NEW note \in txs' PROVE \E o \in orders' : o.state = "sent" /\ o.note = note
  <2>1. note \in txs /\ (Owns(note, records) => \A m \in mined : m.name # note.name)
    BY <1>1 DEF Unmined
  <2>2. PICK o \in orders : o.state = "sent" /\ o.note = note
    BY <2>1 DEF SentKept
  <2>3. Owns(note, records)
    BY <2>2 DEF SentKept
  <2>4. \A m \in mined : m.name # note.name
    BY <2>1, <2>3
  <2>5. /\ note.name \in DOMAIN recs <=> note.name \in DOMAIN records
        /\ note.name \in DOMAIN records => recs[note.name] = records[note.name]
    BY <2>4, Untouched
  <2> HIDE DEF recs
  <2>6. Owns(note, recs)
    BY <2>3, <2>5 DEF Owns
  <2>7. o \in ReconcileSeen(orders, mined, recs, height + 1)
    <3>1. o.note \notin mined
        BY <2>2, <2>4
    <3> QED BY <2>2, <2>6, <3>1 DEF ReconcileSeen
  <2> QED BY <1>1, <2>2, <2>7
<1>3. \A o \in orders' : o.state # "seen" => Owns(o.note, records')
    BY <1>1 DEF ReconcileSeen
<1> QED BY <1>2, <1>3 DEF SentKept

LEMMA NextSent == MarketInv /\ SentInv /\ [Next]_vars => SentInv'
<1> SUFFICES ASSUME MarketInv, SentInv, [Next]_vars PROVE SentInv'
    OBVIOUS
<1>0. restarts \in Nat /\ reorgs \in Nat /\ (restarts = 0 /\ reorgs = 0 => SentKept)
    BY DEF SentInv
<1>1. ASSUME restarts' = restarts, reorgs' = reorgs, SentKept => SentKept' PROVE SentInv'
    BY <1>0, <1>1 DEF SentInv
<1>2. CASE UNCHANGED vars
    BY <1>1, <1>2, ArrivesSent DEF vars, boundVars
<1>3. CASE Next
  <2>1. CASE Arrives
    <3>1. orders' = orders /\ UNCHANGED <<height, mtp, records, txs, past, boundVars>>
        BY <2>1, ArrivesMemo
    <3> QED BY <1>1, <3>1, ArrivesSent DEF boundVars
  <2>2. CASE \E t \in Nat : \E mined \in Minable : ApplyBlock(t, mined)
    <3>1. restarts' = restarts /\ reorgs' = reorgs
        BY <2>2 DEF ApplyBlock, boundVars
    <3> QED BY <1>1, <2>2, <3>1, BlockSent
  <2>3. CASE \E n \in Names, action \in {"update", "release"}, ua \in Addrs :
               ArriveTransition(n, action, ua)
    <3>1. restarts' = restarts /\ reorgs' = reorgs
        BY <2>3 DEF ArriveTransition, Reads, boundVars
    <3> QED BY <1>1, <2>3, <3>1, TransitionSent
  <2>4. CASE \E cs, ns, signed : Pass(cs, ns, signed)
    <3>1. restarts' = restarts /\ reorgs' = reorgs
        BY <2>4 DEF Pass, boundVars
    <3> QED BY <1>1, <2>4, <3>1, PassSent
  <2>5. CASE \E h \in 1 .. height - 1 : Rewind(h)
    <3>1. restarts' = restarts /\ reorgs' = reorgs + 1
        BY <2>5 DEF Rewind
    <3> QED BY <1>0, <3>1 DEF SentInv
  <2>6. CASE Restart
    <3>1. reorgs' = reorgs /\ restarts' = restarts + 1
        BY <2>6 DEF Restart
    <3> QED BY <1>0, <3>1 DEF SentInv
  <2> QED BY <1>3, <2>1, <2>2, <2>3, <2>4, <2>5, <2>6, Steps
<1> QED BY <1>2, <1>3

(* What OnlySaleMoves asks of one name *)
SoldOrStill(n) ==
    \/ n \in DOMAIN records' /\ records'[n] = records[n]
    \/ n \in DOMAIN records' /\ records'[n].commitment =
          Commitment(SaleTransfer(book.sales[n]))

LEMMA BlockSells ==
    ASSUME MarketInv, SentKept, NEW t \in Nat, NEW mined, ApplyBlock(t, mined),
           NEW n \in DOMAIN book.sales
    PROVE  SoldOrStill(n)
<1>1. records' = AfterNotes(mined, t) /\ mined \in Minable
    BY DEF ApplyBlock
<1>2. Captured(book.sales[n], records) /\ book.sales[n].name = n
    BY LoggedParts DEF MarketInv, Sound, Good, Current, Named
<1>3. n \in DOMAIN records
    BY <1>2 DEF Captured, HeldBy
<1>4. CASE \A m \in mined : m.name # n
    BY <1>1, <1>3, <1>4, Untouched DEF SoldOrStill
<1>5. CASE \E m \in mined : m.name = n
  <2>1. PICK m \in mined : m.name = n
    BY <1>5
  <2>2. m \notin Claims
    BY <1>3, <2>1 DEF Claims
  <2>3. m \in txs /\ \A p, q \in mined : p.name = q.name => p = q
    BY <1>1, <2>2 DEF Minable
  <2>4. PICK o \in orders : o.state = "sent" /\ o.note = m
    BY <2>3 DEF SentKept
  <2>5. Holds(book.sales, o.note)
    BY <2>4, PendingNow
  <2>6. m = SaleTransfer(book.sales[n])
    BY <2>1, <2>4, <2>5 DEF Holds
  <2>7. m.action = "sale"
    BY <2>6 DEF SaleTransfer
  <2> DEFINE gone == {note.name : note \in mined}
             written == {note \in mined : note.action # "release"}
             left == (DOMAIN records \ gone) \cup {note.name : note \in written}
  <2>8. m \in written /\ n \in gone /\ n \in left
    BY <2>1, <2>7
  <2>9. (CHOOSE note \in written : note.name = n) = m
    BY <2>1, <2>3, <2>8
  <2>10. AfterNotes(mined, t) = [k \in left |->
           IF k \in gone THEN RecordOf(CHOOSE note \in written : note.name = k, t)
           ELSE records[k]]
    BY DEF AfterNotes
  <2> HIDE DEF gone, left, written
  <2>11. n \in DOMAIN records' /\ records'[n] = RecordOf(m, t)
    BY <1>1, <2>8, <2>9, <2>10
  <2>12. records'[n].commitment = Commitment(m)
    BY <2>11 DEF RecordOf
  <2> QED BY <2>6, <2>11, <2>12 DEF SoldOrStill
<1> QED BY <1>4, <1>5

(* No other step lets the chain grow. *)
LEMMA StepSells ==
    ASSUME MarketInv, SentInv, Next, restarts = 0, reorgs = 0, height' > height,
           NEW n \in DOMAIN book.sales
    PROVE  SoldOrStill(n)
<1>0. SentKept /\ height \in Nat
    BY DEF SentInv, MarketInv, MarketTypes
<1>1. CASE Arrives
    BY <1>0, <1>1, ArrivesMemo
<1>2. CASE \E t \in Nat : \E mined \in Minable : ApplyBlock(t, mined)
    BY <1>0, <1>2, BlockSells
<1>3. CASE \E m \in Names, action \in {"update", "release"}, ua \in Addrs :
             ArriveTransition(m, action, ua)
    BY <1>0, <1>3 DEF ArriveTransition, Reads
<1>4. CASE \E cs, ns, signed : Pass(cs, ns, signed)
    BY <1>0, <1>4 DEF Pass
<1>5. CASE \E h \in 1 .. height - 1 : Rewind(h)
  <2>1. PICK h \in 1 .. height - 1 : Rewind(h)
    BY <1>5
  <2>2. height' = h
    BY <2>1 DEF Rewind
  <2> QED BY <1>0, <2>2
<1>6. CASE Restart
    BY <1>0, <1>6 DEF Restart
<1> QED BY <1>1, <1>2, <1>3, <1>4, <1>5, <1>6, Steps

-----------------------------------------------------------------------------
(* The log is the market: replayed to any height of the chain it gives the  *)
(* listings, buys and challenges that stood there, over any sequence of     *)
(* blocks, memos, passes, reorgs and restarts, and the expiry that follows  *)
(* a rewind finds nothing to drop (Market::truncate_to).                    *)
THEOREM LogIsTheMarket == Spec => []LogRebuildsBook
<1>1. Init => MarketInv
    BY InitMarket
<1>2. MarketInv /\ [Next]_vars => MarketInv'
    BY NextMarket
<1>3. MarketInv => LogRebuildsBook
    BY InvRebuilds
<1> QED
    BY <1>1, <1>2, <1>3, PTL DEF Spec

(* Every listing, challenge and buy is against the name's current holder,   *)
(* a buy against the current note and alone with its own sale               *)
(* (Market::reconcile, open_buy, allows_transition).                        *)
THEOREM BookStaysCurrent == Spec => []BookCurrent
<1>1. Init => MarketInv
    BY InitMarket
<1>2. MarketInv /\ [Next]_vars => MarketInv'
    BY NextMarket
<1>3. MarketInv => BookCurrent
    BY InvCurrent
<1> QED
    BY <1>1, <1>2, <1>3, PTL DEF Spec

(* A payment names one buy and an answer one challenge (same_payment,       *)
(* code_is_open), after any reorg or restart.                               *)
THEOREM PaymentsNameOneBuy == Spec => []OnePaymentOneBuy
<1>1. Init => MarketInv
    BY InitMarket
<1>2. MarketInv /\ [Next]_vars => MarketInv'
    BY NextMarket
<1>3. MarketInv => OnePaymentOneBuy
    BY InvOnePayment
<1> QED
    BY <1>1, <1>2, <1>3, PTL DEF Spec

(* A quote that was sent is honoured until its time is up unpaid or its     *)
(* note moves (SaleQueue::expire, Market::reconcile, SaleQueue::poll).      *)
THEOREM QuotesAreHonoured == Spec => QuoteHonoured
<1>1. Init => MarketInv
    BY InitMarket
<1>2. MarketInv /\ [Next]_vars => MarketInv'
    BY NextMarket
<1>3. MarketInv /\ [Next]_vars =>
        [restarts' = 0 /\ height' >= height =>
           \A n \in DOMAIN book.sales :
              LET s == book.sales[n] IN
              s.relayed \/ s.paid =>
                \/ /\ n \in DOMAIN book'.sales
                   /\ LET q == book'.sales[n] IN
                      /\ <<q.bob, q.code, q.price>> = <<s.bob, s.code, s.price>>
                      /\ s.paid => q.paid
                \/ ~s.paid /\ mtp'[height'] >= s.until
                \/ ~Captured(s, records')
                \/ s.bob = s.alice]_vars
  <2>1. ASSUME MarketInv, Next
        PROVE  restarts' = 0 /\ height' >= height => \A n \in DOMAIN book.sales : Honoured(n)
    BY <2>1, StepHonours
  <2> QED BY <2>1 DEF Honoured
<1> QED
    BY <1>1, <1>2, <1>3, PTL DEF Spec, QuoteHonoured

(* While a buy is open, the only note a new block confirms for its name is  *)
(* the sale to its buyer, under one process on a chain that only grows      *)
(* (allows_transition, SaleQueue::poll, reconcile_seen).                    *)
THEOREM BuysHoldTheName == Spec => OnlySaleMoves
<1>1. Init => MarketInv /\ SentInv
    BY InitMarket, InitSent
<1>2. MarketInv /\ SentInv /\ [Next]_vars => MarketInv' /\ SentInv'
    BY NextMarket, NextSent
<1>3. MarketInv /\ SentInv /\ [Next]_vars =>
        [restarts = 0 /\ reorgs = 0 /\ height' > height =>
           \A n \in DOMAIN book.sales :
              \/ n \in DOMAIN records' /\ records'[n] = records[n]
              \/ n \in DOMAIN records' /\ records'[n].commitment =
                    Commitment(SaleTransfer(book.sales[n]))]_vars
  <2>1. ASSUME MarketInv, SentInv, Next
        PROVE  restarts = 0 /\ reorgs = 0 /\ height' > height =>
                 \A n \in DOMAIN book.sales : SoldOrStill(n)
    BY <2>1, StepSells
  <2> QED BY <2>1 DEF SoldOrStill
<1> QED
    BY <1>1, <1>2, <1>3, PTL DEF Spec, OnlySaleMoves
=============================================================================
