---------------------------- MODULE PricingProofs ----------------------------
(***************************************************************************)
(* Proofs about Pricing, for any venues, prices, day and clock, and about  *)
(* Clock, for any window, term and price.                                  *)
(*                                                                         *)
(* Pricing.  The median: the venues of a round can be ranked (by induction *)
(* on their number), and whoever is ranked neither first nor last lies     *)
(* between two honest venues.  The average: a day's sum of prices, weighed *)
(* by seconds, stays within the band times its seconds.  The quote: every  *)
(* rounding on the way is monotone, and with the digits a Decimal keeps    *)
(* (DecimalAssumption) the two divisions err by less than the exact rate   *)
(* can miss a whole number by.                                             *)
(*                                                                         *)
(* Clock.  The median: fewer than half of the headers of a window lie      *)
(* below it.  A header above it takes the place of the oldest, so no more  *)
(* lie below it in the next window; half a window of them leaves fewer     *)
(* than half at or below it.                                               *)
(***************************************************************************)
EXTENDS Pricing, Clock, OrderLemmas

-----------------------------------------------------------------------------
(* The price no venue may reach *)
TopPrice == MAX_USD_PRICE * ONE

(* What the proofs take from PricingAssumption *)
LEMMA Numbers ==
    /\ IsFiniteSet(Venues) /\ Trusted # Dishonest /\ None \notin Nat
    /\ HonestPrices \subseteq Nat \ {0} /\ WrongPrices \subseteq Nat
    /\ HonestPrices # {} /\ HonestPrices \subseteq 0 .. TopPrice
    /\ ONE \in Nat \ {0} /\ SCALE \in Nat \ {0}
    /\ COIN \in Nat \ {0} /\ DAY \in Nat \ {0} /\ WORD \in Nat \ {0}
    /\ TopPrice \in Nat /\ MaxTime \in Nat /\ MaxTime < WORD
<1>1. COIN \in Nat \ {0} /\ DAY \in Nat \ {0} /\ WORD \in Nat \ {0}
      /\ ONE \in Nat \ {0} /\ SCALE \in Nat \ {0}
    BY PricingAssumption, Zenon
<1>2. MAX_USD_PRICE \in Nat /\ MaxTime \in Nat
    BY PricingAssumption, Zenon
<1>3. IsFiniteSet(Venues) /\ Trusted # Dishonest /\ None \notin Nat /\ MaxTime < WORD
    BY PricingAssumption, Zenon
<1>4. WrongPrices \subseteq Nat /\ HonestPrices # {} /\ HonestPrices \subseteq ONE + 1 .. TopPrice - 1
    BY PricingAssumption, Zenon DEF TopPrice
<1>5. TopPrice \in Nat
    BY <1>1, <1>2 DEF TopPrice
<1>6. ONE + 1 .. TopPrice - 1 \subseteq Nat \ {0} /\ ONE + 1 .. TopPrice - 1 \subseteq 0 .. TopPrice
    BY <1>1, <1>5
<1>7. HonestPrices \subseteq Nat \ {0} /\ HonestPrices \subseteq 0 .. TopPrice
    BY <1>4, <1>6, Zenon
<1> QED
    BY <1>1, <1>2, <1>3, <1>4, <1>5, <1>7

(***************************************************************************)
(* The venues of a round can be ranked.                                    *)
(***************************************************************************)
IsRanking(s, q, S, n) ==
    /\ s \in [1 .. n -> S]
    /\ \A i, j \in 1 .. n : s[i] = s[j] => i = j
    /\ \A i, j \in 1 .. n : i <= j => q[s[i]] <= q[s[j]]

LEMMA CanRank ==
    ASSUME NEW m \in Nat, NEW D, IsFiniteSet(D), NEW q \in [D -> 0 .. m]
    PROVE  \E s : IsRanking(s, q, D, Cardinality(D))
<1> DEFINE Bad == {n \in Nat : \E S \in SUBSET D : Cardinality(S) = n /\ ~\E s : IsRanking(s, q, S, n)}
<1>0. Cardinality(D) \in Nat
    BY FS_CardinalityType
<1>1. SUFFICES Bad = {}
    BY <1>0
<1>2. SUFFICES ASSUME Bad # {} PROVE FALSE
    OBVIOUS
<1>3. PICK n \in Bad : \A k \in Bad : n <= k
  <2>1. Bad \subseteq Nat
    OBVIOUS
  <2> HIDE DEF Bad
  <2> QED
    BY <1>2, <2>1, HasLeast
<1>4. PICK S \in SUBSET D : Cardinality(S) = n /\ ~\E s : IsRanking(s, q, S, n)
    BY <1>3
<1>5. IsFiniteSet(S) /\ n \in Nat
    BY <1>3, FS_Subset
<1>6. CASE S = {}
  <2>1. n = 0
    BY <1>4, <1>6, FS_EmptySet
  <2>2. IsRanking([i \in 1 .. n |-> i], q, S, n)
    BY <2>1 DEF IsRanking
  <2> QED
    BY <1>4, <2>2
<1>7. CASE S # {}
  <2> DEFINE T == {q[v] : v \in S}
  <2>1. T \subseteq 0 .. m /\ T # {}
    BY <1>4, <1>7
  <2> HIDE DEF T
  <2>2. PICK x \in T : \A y \in T : x >= y
    BY <2>1, HasGreatest
  <2>3. PICK v \in S : q[v] = x /\ \A w \in S : q[v] >= q[w]
    BY <2>2 DEF T
  <2> DEFINE R == S \ {v}
  <2>4. IsFiniteSet(R) /\ Cardinality(R) = n - 1 /\ n - 1 \in Nat
    <3>1. IsFiniteSet(R) /\ Cardinality(R) = Cardinality(S) - 1
        BY <1>5, <2>3, FS_RemoveElement
    <3> HIDE DEF R
    <3>2. Cardinality(R) \in Nat
        BY <3>1, FS_CardinalityType
    <3> QED BY <1>4, <3>1, <3>2
  <2>5. n - 1 \notin Bad
    BY <1>3, <1>5
  <2>6. PICK s : IsRanking(s, q, R, n - 1)
    BY <1>4, <2>4, <2>5
  <2> DEFINE z == [i \in 1 .. n |-> IF i = n THEN v ELSE s[i]]
  <2>7. /\ s \in [1 .. n - 1 -> R]
        /\ \A i, j \in 1 .. n - 1 : s[i] = s[j] => i = j
        /\ \A i, j \in 1 .. n - 1 : i <= j => q[s[i]] <= q[s[j]]
    BY <2>6 DEF IsRanking
  <2>8. \A i \in 1 .. n : i # n => i \in 1 .. n - 1 /\ z[i] = s[i] /\ z[i] \in S /\ z[i] # v
    BY <1>5, <2>7
  <2>9. z[n] = v /\ n \in 1 .. n
    BY <1>5, <2>4
  <2>10. z \in [1 .. n -> S]
    BY <2>3, <2>8, <2>9
  <2>11. ASSUME NEW i \in 1 .. n, NEW j \in 1 .. n, z[i] = z[j] PROVE i = j
    <3> HIDE DEF z
    <3> QED BY <2>7, <2>8, <2>9, <2>11
  <2>12. ASSUME NEW i \in 1 .. n, NEW j \in 1 .. n, i <= j PROVE q[z[i]] <= q[z[j]]
    <3> HIDE DEF z
    <3>1. CASE j # n
        BY <1>5, <2>7, <2>8, <2>12, <3>1
    <3>2. CASE j = n
        BY <2>3, <2>9, <2>10, <3>2
    <3> QED BY <3>1, <3>2
  <2>13. IsRanking(z, q, S, n)
    BY <2>10, <2>11, <2>12 DEF IsRanking
  <2> QED
    BY <1>4, <2>13
<1> QED
    BY <1>6, <1>7

-----------------------------------------------------------------------------
(***************************************************************************)
(* A round of which one venue lies                                         *)
(***************************************************************************)
Low == Min(HonestPrices)
High == Max(HonestPrices)
Band == Low .. High

LEMMA BandEnds ==
    /\ Low \in HonestPrices /\ High \in HonestPrices
    /\ Low \in Nat \ {0} /\ High \in Nat \ {0}
    /\ HonestPrices \subseteq Band /\ High <= TopPrice
<1>0. TopPrice \in Nat /\ HonestPrices \subseteq 0 .. TopPrice /\ HonestPrices # {}
      /\ HonestPrices \subseteq Nat /\ 0 \notin HonestPrices
    BY Numbers
<1>1. \E x \in HonestPrices : \A y \in HonestPrices : x <= y
    BY <1>0, HasLeast
<1>2. Low \in HonestPrices /\ \A y \in HonestPrices : Low <= y
    BY <1>1 DEF Low, Min
<1>3. \E x \in HonestPrices : \A y \in HonestPrices : x >= y
    BY <1>0, HasGreatest
<1>4. High \in HonestPrices /\ \A y \in HonestPrices : High >= y
    BY <1>3 DEF High, Max
<1> HIDE DEF Low, High
<1> QED
    BY <1>0, <1>2, <1>4 DEF Band

(* What a quote is *)
LEMMA QuoteShape ==
    ASSUME NEW q \in Quotes
    PROVE  /\ DOMAIN q \subseteq Venues /\ IsFiniteSet(DOMAIN q)
           /\ q \in [DOMAIN q -> 0 .. TopPrice]
           /\ \A v \in DOMAIN q : v # Dishonest => q[v] \in HonestPrices
           /\ Cardinality(DOMAIN q) \in Nat
<1>1. PICK vs \in SUBSET Venues : q \in [vs -> HonestPrices \cup WrongPrices]
    BY DEF Quotes
<1>2. DOMAIN q \subseteq Venues
    BY <1>1
<1>3. \A v \in DOMAIN q : q[v] \in Answers(v) /\ Plausible(q[v])
    BY DEF Quotes
<1>4. HonestPrices \cup WrongPrices \subseteq Nat /\ TopPrice \in Nat
    BY Numbers
<1>5. q \in [DOMAIN q -> 0 .. TopPrice]
  <2>1. \A v \in DOMAIN q : q[v] < TopPrice
    BY <1>3, Zenon DEF Plausible, TopPrice
  <2> QED BY <1>1, <1>4, <2>1
<1>6. \A v \in DOMAIN q : v # Dishonest => q[v] \in HonestPrices
    BY <1>3 DEF Answers
<1>7. IsFiniteSet(DOMAIN q)
    BY <1>2, Numbers, FS_Subset
<1> QED
    BY <1>2, <1>5, <1>6, <1>7, FS_CardinalityType

LEMMA RankedRanks ==
    ASSUME NEW q \in Quotes
    PROVE  IsRanking(Ranked(q), q, DOMAIN q, Cardinality(DOMAIN q))
<1> DEFINE n == Cardinality(DOMAIN q)
<1>1. PICK z : IsRanking(z, q, DOMAIN q, n)
    BY QuoteShape, CanRank, Numbers
<1>2. z \in [1 .. n -> DOMAIN q]
      /\ (\A i, j \in DOMAIN z : z[i] = z[j] => i = j)
      /\ (\A i, j \in DOMAIN z : i <= j => q[z[i]] <= q[z[j]])
    BY <1>1 DEF IsRanking
<1>3. Ranked(q) \in [1 .. n -> DOMAIN q]
      /\ (\A i, j \in DOMAIN Ranked(q) : Ranked(q)[i] = Ranked(q)[j] => i = j)
      /\ (\A i, j \in DOMAIN Ranked(q) : i <= j => q[Ranked(q)[i]] <= q[Ranked(q)[j]])
    BY <1>2 DEF Ranked
<1> QED
    BY <1>3 DEF IsRanking

(* Whoever is neither first nor last is between two honest venues. *)
LEMMA InnerIsHonest ==
    ASSUME NEW q \in Quotes, NEW i \in 2 .. Cardinality(DOMAIN q) - 1
    PROVE  q[Ranked(q)[i]] \in Band
<1> DEFINE n == Cardinality(DOMAIN q)
           s == Ranked(q)
<1>0. n \in Nat /\ q \in [DOMAIN q -> 0 .. TopPrice] /\ TopPrice \in Nat
    BY QuoteShape, Numbers
<1>1. s \in [1 .. n -> DOMAIN q]
      /\ (\A k, j \in 1 .. n : s[k] = s[j] => k = j)
      /\ (\A k, j \in 1 .. n : k <= j => q[s[k]] <= q[s[j]])
    BY RankedRanks DEF IsRanking
<1>2. \A k \in 1 .. n : s[k] # Dishonest => q[s[k]] \in HonestPrices
    BY <1>1, QuoteShape
<1> HIDE DEF n, s
<1>3. i \in 1 .. n /\ i - 1 \in 1 .. n /\ i + 1 \in 1 .. n
    BY <1>0 DEF n
<1>4. CASE s[i] # Dishonest
    BY <1>2, <1>3, <1>4, BandEnds DEF s
<1>5. CASE s[i] = Dishonest
  <2>1. s[i - 1] # Dishonest /\ s[i + 1] # Dishonest
    BY <1>1, <1>3, <1>5
  <2>2. q[s[i - 1]] \in HonestPrices /\ q[s[i + 1]] \in HonestPrices
    BY <1>2, <1>3, <2>1
  <2>3. q[s[i - 1]] <= q[s[i]] /\ q[s[i]] <= q[s[i + 1]]
    BY <1>1, <1>3
  <2>4. q[s[i]] \in Nat
    BY <1>0, <1>1, <1>3
  <2>5. q[s[i - 1]] \in Band /\ q[s[i + 1]] \in Band
    BY <2>2, BandEnds
  <2>6. \A a, b, c : a \in Band /\ c \in Band /\ b \in Nat /\ a <= b /\ b <= c => b \in Band
    BY BandEnds DEF Band
  <2> QED
    BY <2>3, <2>4, <2>5, <2>6 DEF s
<1> QED
    BY <1>4, <1>5

LEMMA RoundInBand ==
    RoundPrices \ {None} \subseteq Band
<1> SUFFICES ASSUME NEW q \in Quotes, Aggregate(q) # None PROVE Aggregate(q) \in Band
    BY DEF RoundPrices
<1> DEFINE n == Cardinality(DOMAIN q)
           mid == n \div 2
           r == [i \in 1 .. n |-> q[Ranked(q)[i]]]
<1>0. n \in Nat
    BY QuoteShape
<1>1. CASE n <= 2
    BY <1>1, QuoteShape, Numbers, BandEnds DEF Aggregate
<1>2. CASE n > 2
  <2>1. \A i \in 2 .. n - 1 : r[i] \in Band
    BY <1>0, InnerIsHonest
  <2>2. Aggregate(q) = IF n % 2 = 1 THEN r[mid + 1] ELSE (r[mid] + r[mid + 1]) \div 2
    BY <1>0, <1>2 DEF Aggregate
  <2> HIDE DEF r, n
  <2>3. CASE n % 2 = 1
    <3>1. mid + 1 \in 2 .. n - 1
        BY <1>0, <1>2, <2>3
    <3> QED BY <2>1, <2>2, <2>3, <3>1
  <2>4. CASE n % 2 # 1
    <3>1. mid \in 2 .. n - 1 /\ mid + 1 \in 2 .. n - 1
        BY <1>0, <1>2, <2>4
    <3>2. \A a, b \in Band : (a + b) \div 2 \in Band
        BY BandEnds DEF Band
    <3> QED BY <2>1, <2>2, <2>4, <3>1, <3>2
  <2> QED
    BY <2>3, <2>4
<1> QED
    BY <1>0, <1>1, <1>2

-----------------------------------------------------------------------------
(***************************************************************************)
(* Rounding up                                                             *)
(***************************************************************************)
LEMMA CeilDivBounds ==
    ASSUME NEW a \in Nat, NEW b \in Nat \ {0}
    PROVE  /\ CeilDiv(a, b) \in Nat
           /\ CeilDiv(a, b) * b >= a
           /\ (CeilDiv(a, b) - 1) * b < a
<1> DEFINE k == (a + b - 1) \div b
<1>1. k \in Int /\ b * k <= a + b - 1 /\ a + b - 1 < b * k + b
    OBVIOUS
<1>2. k * b = b * k /\ (k - 1) * b = b * k - b
    BY <1>1
<1>3. k >= 0
    OBVIOUS
<1> HIDE DEF k
<1>4. b * k \in Int
    BY <1>1
<1>5. k \in Nat /\ k * b >= a /\ (k - 1) * b < a
    BY <1>1, <1>2, <1>3, <1>4
<1> QED
    BY <1>5 DEF k, CeilDiv

(* a / b <= c / d, rounded up *)
LEMMA CeilDivMonotone ==
    ASSUME NEW a \in Nat, NEW b \in Nat \ {0}, NEW c \in Nat, NEW d \in Nat \ {0},
           a * d <= c * b
    PROVE  CeilDiv(a, b) <= CeilDiv(c, d)
<1> DEFINE k == CeilDiv(a, b)
           l == CeilDiv(c, d)
<1>1. k \in Nat /\ (k - 1) * b < a /\ l \in Nat /\ l * d >= c
    BY CeilDivBounds
<1> HIDE DEF k, l
<1>2. SUFFICES ASSUME k > l PROVE FALSE
    BY <1>1 DEF k, l
<1>3. l * b <= (k - 1) * b
    BY <1>1, <1>2
<1>4. l * b < a
    BY <1>1, <1>3
<1>5. (l * b) * d < a * d
    BY <1>1, <1>4
<1>6. (l * d) * b >= c * b
    BY <1>1
<1>7. (l * b) * d = (l * d) * b
    BY <1>1
<1> QED
    BY <1>1, <1>5, <1>6, <1>7

-----------------------------------------------------------------------------
(***************************************************************************)
(* Rounding to the nearest                                                 *)
(***************************************************************************)

(* Quotient and remainder, as what makes them so *)
LEMMA Divided ==
    ASSUME NEW a \in Nat, NEW b \in Nat \ {0}
    PROVE  /\ a \div b \in Nat /\ a % b \in 0 .. b - 1
           /\ a = (a \div b) * b + (a % b)
<1>1. a \div b \in Int /\ b * (a \div b) <= a /\ a < b * (a \div b) + b /\ a \div b >= 0
    OBVIOUS
<1>2. a % b \in 0 .. b - 1
    OBVIOUS
<1>4. a = b * (a \div b) + (a % b)
    OBVIOUS
<1>3. b * (a \div b) = (a \div b) * b
    BY <1>1
<1> QED BY <1>1, <1>2, <1>3, <1>4

Rounds(n, a, b) ==
    \E q \in Nat, r \in 0 .. b - 1 :
        /\ a = q * b + r
        /\ n = IF 2 * r > b \/ (2 * r = b /\ q % 2 = 1) THEN q + 1 ELSE q

LEMMA NearestRounds ==
    ASSUME NEW a \in Nat, NEW b \in Nat \ {0}
    PROVE  Rounds(Nearest(a, b), a, b)
<1> DEFINE q == a \div b
           r == a % b
<1>1. q \in Nat /\ r \in 0 .. b - 1 /\ a = q * b + r
    BY Divided
<1>2. Nearest(a, b) = IF 2 * r > b \/ (2 * r = b /\ q % 2 = 1) THEN q + 1 ELSE q
    BY DEF Nearest
<1> HIDE DEF q, r
<1> QED BY <1>1, <1>2 DEF Rounds

(* What is rounded is off by at most half a part. *)
LEMMA NearestBounds ==
    ASSUME NEW a \in Nat, NEW b \in Nat \ {0}
    PROVE  /\ Nearest(a, b) \in Nat
           /\ 2 * (Nearest(a, b) * b) <= 2 * a + b
           /\ 2 * a <= 2 * (Nearest(a, b) * b) + b
<1>1. PICK q \in Nat, r \in 0 .. b - 1 :
        /\ a = q * b + r
        /\ Nearest(a, b) = IF 2 * r > b \/ (2 * r = b /\ q % 2 = 1) THEN q + 1 ELSE q
    BY NearestRounds DEF Rounds
<1>2. q * b \in Nat /\ (q + 1) * b = q * b + b
    BY <1>1
<1>3. CASE 2 * r > b \/ (2 * r = b /\ q % 2 = 1)
  <2>1. Nearest(a, b) = q + 1 /\ 2 * r >= b
    BY <1>1, <1>3
  <2>2. Nearest(a, b) * b = q * b + b
    BY <1>2, <2>1
  <2> QED BY <1>1, <1>2, <2>1, <2>2
<1>4. CASE ~(2 * r > b \/ (2 * r = b /\ q % 2 = 1))
  <2>1. Nearest(a, b) = q /\ 2 * r <= b
    BY <1>1, <1>4
  <2>2. Nearest(a, b) * b = q * b
    BY <2>1
  <2> QED BY <1>1, <1>2, <2>1, <2>2
<1> QED BY <1>3, <1>4

(* More over less rounds to no less. *)
LEMMA NearestMonotone ==
    ASSUME NEW a \in Nat, NEW b \in Nat \ {0}, NEW c \in Nat, NEW d \in Nat \ {0},
           a <= c, d <= b
    PROVE  Nearest(a, b) <= Nearest(c, d)
<1>1. PICK q \in Nat, r \in 0 .. b - 1 :
        /\ a = q * b + r
        /\ Nearest(a, b) = IF 2 * r > b \/ (2 * r = b /\ q % 2 = 1) THEN q + 1 ELSE q
    BY NearestRounds DEF Rounds
<1>2. PICK s \in Nat, t \in 0 .. d - 1 :
        /\ c = s * d + t
        /\ Nearest(c, d) = IF 2 * t > d \/ (2 * t = d /\ s % 2 = 1) THEN s + 1 ELSE s
    BY NearestRounds DEF Rounds
<1>3. Nearest(a, b) \in q .. q + 1 /\ Nearest(c, d) \in s .. s + 1
    BY <1>1, <1>2
<1>4. q * d <= q * b /\ q * d \in Nat /\ q * b \in Nat /\ s * d \in Nat
    BY <1>1, <1>2
<1>5. q <= s
  <2>1. SUFFICES ASSUME s + 1 <= q PROVE FALSE
    BY <1>1, <1>2
  <2>2. (s + 1) * d <= q * d /\ (s + 1) * d = s * d + d
    BY <1>1, <1>2, <2>1
  <2> QED BY <1>1, <1>2, <1>4, <2>2
<1>6. CASE q < s
    BY <1>1, <1>2, <1>3, <1>6
<1>7. CASE q = s
  <2>1. r <= t
    BY <1>1, <1>2, <1>4, <1>7
  <2>2. ASSUME 2 * r > b \/ (2 * r = b /\ q % 2 = 1)
        PROVE  2 * t > d \/ (2 * t = d /\ s % 2 = 1)
    <3>1. CASE 2 * r > b
        BY <1>1, <1>2, <2>1, <3>1
    <3>2. CASE 2 * r = b /\ q % 2 = 1
      <4>1. s % 2 = 1
        BY <1>7, <3>2
      <4>2. 2 * t >= d
        BY <1>1, <1>2, <2>1, <3>2
      <4> QED BY <1>2, <4>1, <4>2
    <3> QED BY <2>2, <3>1, <3>2
  <2>3. CASE 2 * r > b \/ (2 * r = b /\ q % 2 = 1)
    <3>1. Nearest(a, b) = q + 1
        BY <1>1, <2>3
    <3>2. Nearest(c, d) = s + 1
        BY <1>2, <2>2, <2>3
    <3> QED BY <1>7, <3>1, <3>2
  <2>4. CASE ~(2 * r > b \/ (2 * r = b /\ q % 2 = 1))
    <3>1. Nearest(a, b) = q
        BY <1>1, <2>4
    <3> QED BY <1>3, <1>7, <3>1
  <2> QED BY <2>3, <2>4
<1> QED BY <1>5, <1>6, <1>7

LEMMA NearestExact ==
    ASSUME NEW k \in Nat, NEW b \in Nat \ {0}
    PROVE  Nearest(k * b, b) = k
<1> DEFINE n == Nearest(k * b, b)
<1>1. k * b \in Nat
    OBVIOUS
<1>2. n \in Nat /\ 2 * (n * b) <= 2 * (k * b) + b /\ 2 * (k * b) <= 2 * (n * b) + b
    BY <1>1, NearestBounds
<1> HIDE DEF n
<1>3. n * b \in Nat
    BY <1>2
<1>4. ~(k + 1 <= n)
  <2>1. SUFFICES ASSUME k + 1 <= n PROVE FALSE
    OBVIOUS
  <2>2. (k + 1) * b <= n * b /\ (k + 1) * b = k * b + b
    BY <1>2, <2>1
  <2> QED BY <1>1, <1>2, <1>3, <2>2
<1>5. ~(n + 1 <= k)
  <2>1. SUFFICES ASSUME n + 1 <= k PROVE FALSE
    OBVIOUS
  <2>2. (n + 1) * b <= k * b /\ (n + 1) * b = n * b + b
    BY <1>2, <2>1
  <2> QED BY <1>1, <1>2, <1>3, <2>2
<1>6. n = k
    BY <1>2, <1>4, <1>5
<1> QED BY <1>6 DEF n

LEMMA Scaled ==
    ASSUME NEW x \in Nat, NEW y \in Nat, x <= y, NEW z \in Nat
    PROVE  /\ x * z <= y * z /\ z * x <= z * y
           /\ x * z \in Nat /\ y * z \in Nat /\ z * x \in Nat /\ z * y \in Nat
OBVIOUS

(***************************************************************************)
(* Two roundings on the way, S parts each: A is the average m / s, Q the   *)
(* quotient of Z by it, and r is Q rounded up.  With S past m and Z * s,   *)
(* r covers Z * s / m, and one less does not pass it.                      *)
(***************************************************************************)
LEMMA RoundedRate ==
    ASSUME NEW S \in Nat \ {0}, NEW Z \in Nat \ {0}, NEW m \in Nat \ {0}, NEW s \in Nat \ {0},
           NEW A \in Nat \ {0}, NEW Q \in Nat, NEW r \in Nat,
           2 * (A * s) <= 2 * (m * S) + s, 2 * (m * S) <= 2 * (A * s) + s,
           2 * (Q * A) <= 2 * (Z * S * S) + A, 2 * (Z * S * S) <= 2 * (Q * A) + A,
           r * S >= Q, (r - 1) * S < Q,
           S <= A, s <= m, m + Z * s + s <= S
    PROVE  r * m >= Z * s /\ (r - 1) * m <= Z * s
<1> DEFINE P == S * S
           ZP == Z * P
           ZPs == ZP * s
           mS == m * S
           As == A * s
           Zs == Z * s
<1>1. /\ P \in Nat \ {0} /\ ZP \in Nat /\ ZPs \in Nat /\ mS \in Nat /\ As \in Nat /\ Zs \in Nat
      /\ Z * S * S = ZP
  <2>1. P \in Nat \ {0}
    OBVIOUS
  <2>2. Z * S * S = ZP
    OBVIOUS
  <2> HIDE DEF P
  <2>3. ZP \in Nat
    BY <2>1
  <2> QED BY <2>1, <2>2, <2>3
(* The digits suffice. *)
<1>2. 2 * (Zs * S) + 2 * mS + s < 4 * P
  <2>1. (m + Zs + s) * S <= S * S
    BY <1>1
  <2>2. (m + Zs + s) * S = mS + Zs * S + s * S
    BY <1>1
  <2>3. s <= s * S /\ s * S \in Nat /\ Zs * S \in Nat
    BY <1>1
  <2> HIDE DEF mS, Zs, P
  <2>4. mS + Zs * S + s * S <= P
    BY <2>1, <2>2 DEF P
  <2> QED BY <1>1, <2>3, <2>4
<1>3. ASSUME r * m + 1 <= Zs PROVE FALSE
  <2> DEFINE B == Q * A
             Bs == B * s
             rS == r * S
             rSs == rS * s
             rm == r * m
             rs == r * s
  <2>0. B \in Nat /\ Bs \in Nat /\ rS \in Nat /\ rSs \in Nat /\ rm \in Nat /\ rs \in Nat
    <3>1. B \in Nat /\ rS \in Nat /\ rm \in Nat /\ rs \in Nat
        OBVIOUS
    <3> HIDE DEF B, rS
    <3> QED BY <3>1
  <2>1. 2 * ZPs <= 2 * Bs + As
    <3>1. 2 * ZP <= 2 * B + A
        BY <1>1
    <3> HIDE DEF ZP, B
    <3>2. (2 * ZP) * s <= (2 * B + A) * s
        BY <1>1, <2>0, <3>1
    <3>3. (2 * ZP) * s = 2 * ZPs /\ (2 * B + A) * s = 2 * Bs + As
        BY <1>1, <2>0
    <3> QED BY <3>2, <3>3
  <2>2. Bs <= rS * As
    <3>1. Q * As <= rS * As
        BY <1>1, <2>0
    <3>2. Q * As = Bs
        OBVIOUS
    <3> QED BY <3>1, <3>2
  <2>3. 2 * (rS * As) <= 2 * (rS * mS) + rSs
    <3> HIDE DEF rS, As, mS
    <3>1. rS * (2 * As) <= rS * (2 * mS + s)
        BY <1>1, <2>0 DEF As, mS
    <3>2. rS * (2 * As) = 2 * (rS * As) /\ rS * (2 * mS + s) = 2 * (rS * mS) + rSs
        BY <1>1, <2>0
    <3> QED BY <3>1, <3>2
  <2>4. rS * mS = rm * P
    OBVIOUS
  <2>5. rm * P + P <= ZPs
    <3>1. ZPs = Zs * P
        OBVIOUS
    <3> HIDE DEF P, Zs, rm
    <3>2. (rm + 1) * P <= Zs * P
        BY <1>1, <1>3, <2>0 DEF rm
    <3>3. (rm + 1) * P = rm * P + P
        BY <1>1, <2>0
    <3> QED BY <3>1, <3>2, <3>3
  <2>6. rSs <= Zs * S
    <3>1. rs <= rm
        OBVIOUS
    <3>2. rSs = rs * S
        OBVIOUS
    <3> HIDE DEF rs, rm, Zs
    <3>3. rs <= Zs
        BY <1>1, <1>3, <2>0, <3>1 DEF rm
    <3> QED BY <1>1, <2>0, <3>2, <3>3
  <2>7. rS * As \in Nat /\ rm * P \in Nat /\ Zs * S \in Nat
    <3> HIDE DEF rS, As, rm, P, Zs
    <3> QED BY <1>1, <2>0
  <2>8. 2 * As <= 2 * mS + s
    OBVIOUS
  <2> HIDE DEF P, ZP, ZPs, mS, As, Zs, B, Bs, rS, rSs, rm, rs
  <2> QED BY <1>1, <1>2, <2>0, <2>1, <2>2, <2>3, <2>4, <2>5, <2>6, <2>7, <2>8
<1>4. ASSUME Zs + 1 <= (r - 1) * m PROVE FALSE
  <2> DEFINE k == r - 1
             B == Q * A
             Bs == B * s
             kS == k * S
             kSs == kS * s
             km == k * m
             ks == k * s
  <2>00. k \in Nat
    <3>1. CASE r = 0
      <4>1. (r - 1) * m = 0 - m
        BY <3>1
      <4> HIDE DEF Zs
      <4> QED BY <1>1, <1>4, <4>1
    <3>2. CASE r # 0
        BY <3>2
    <3> QED BY <3>1, <3>2
  <2>01. Zs + 1 <= km /\ kS < Q
    BY <1>4
  <2> HIDE DEF k
  <2>0. B \in Nat /\ Bs \in Nat /\ kS \in Nat /\ kSs \in Nat /\ km \in Nat /\ ks \in Nat
    <3>1. B \in Nat /\ kS \in Nat /\ km \in Nat /\ ks \in Nat
        BY <2>00
    <3> HIDE DEF B, kS
    <3> QED BY <3>1
  <2>1. 2 * Bs <= 2 * ZPs + As
    <3>1. 2 * B <= 2 * ZP + A
        BY <1>1
    <3> HIDE DEF ZP, B
    <3>2. (2 * B) * s <= (2 * ZP + A) * s
        BY <1>1, <2>0, <3>1
    <3>3. (2 * ZP + A) * s = 2 * ZPs + As /\ (2 * B) * s = 2 * Bs
        BY <1>1, <2>0
    <3> QED BY <3>2, <3>3
  <2>2. kS * As <= Bs
    <3>1. kS * As <= Q * As
        BY <1>1, <2>0, <2>01
    <3>2. Q * As = Bs
        OBVIOUS
    <3> QED BY <3>1, <3>2
  <2>3. 2 * (kS * mS) <= 2 * (kS * As) + kSs
    <3> HIDE DEF kS, As, mS
    <3>1. kS * (2 * mS) <= kS * (2 * As + s)
        BY <1>1, <2>0 DEF As, mS
    <3>2. kS * (2 * mS) = 2 * (kS * mS) /\ kS * (2 * As + s) = 2 * (kS * As) + kSs
        BY <1>1, <2>0
    <3> QED BY <3>1, <3>2
  <2>4. kS * mS = km * P
    BY <2>00
  <2>5. ZPs + P <= km * P
    <3>1. ZPs = Zs * P
        OBVIOUS
    <3> HIDE DEF P, Zs, km
    <3>2. (Zs + 1) * P <= km * P
        BY <1>1, <2>01, <2>0
    <3>3. (Zs + 1) * P = Zs * P + P
        BY <1>1, <2>0
    <3> QED BY <3>1, <3>2, <3>3
  <2>6. kSs <= Zs * S
    (* The quotient is no more than Z whole, the average no less than one. *)
    <3>1. Q <= Z * S
      <4>1. SUFFICES ASSUME Z * S + 1 <= Q PROVE FALSE
        OBVIOUS
      <4> DEFINE ZS == Z * S
      <4>2. ZS \in Nat /\ ZS * A \in Nat /\ (ZS + 1) * A = ZS * A + A
        OBVIOUS
      <4>3. (ZS + 1) * A <= B
        BY <4>1
      <4>4. ZP <= ZS * A
        <5>1. ZP = ZS * S
            OBVIOUS
        <5> HIDE DEF ZS, ZP
        <5> QED BY <4>2, <5>1
      <4>5. 2 * B <= 2 * ZP + A
        BY <1>1
      <4> HIDE DEF ZS, B, ZP
      <4> QED BY <1>1, <2>0, <4>2, <4>3, <4>4, <4>5
    <3>2. kS <= Z * S /\ Z * S \in Nat
        BY <2>0, <2>01, <3>1
    <3>3. kS * s <= (Z * S) * s
      <4> HIDE DEF kS
      <4> QED BY <2>0, <3>2, Scaled
    <3>4. (Z * S) * s = Zs * S
        OBVIOUS
    <3> QED BY <3>3, <3>4
  <2>7. kS * As \in Nat /\ km * P \in Nat /\ Zs * S \in Nat
    <3> HIDE DEF kS, As, km, P, Zs
    <3> QED BY <1>1, <2>0
  <2>8. 2 * As <= 2 * mS + s
    OBVIOUS
  <2> HIDE DEF P, ZP, ZPs, mS, As, Zs, B, Bs, kS, kSs, km, ks
  <2> QED BY <1>1, <1>2, <2>0, <2>1, <2>2, <2>3, <2>4, <2>5, <2>6, <2>7, <2>8
<1>5. r * m \in Int /\ (r - 1) * m \in Int
    OBVIOUS
<1> QED BY <1>1, <1>3, <1>4, <1>5 DEF Zs
(* A sum of prices of the band, weighed by seconds *)
InBand(sum, seconds) == Low * seconds <= sum /\ sum <= High * seconds

(* A rounded average of the band is in the band. *)
LEMMA AverageOfBand ==
    ASSUME NEW sum \in Nat \ {0}, NEW seconds \in Nat \ {0}, InBand(sum, seconds)
    PROVE  /\ Average(sum, seconds) \in Nat \ {0}
           /\ Average(sum, seconds) \in Low * SCALE .. High * SCALE
           /\ SCALE <= Average(sum, seconds)
           /\ Average(Low, 1) = Low * SCALE /\ Average(High, 1) = High * SCALE
<1> DEFINE a == Nearest(sum * SCALE, seconds)
<1>0. Low \in Nat \ {0} /\ High \in Nat \ {0} /\ SCALE \in Nat \ {0}
    BY Numbers, BandEnds
<1> HIDE DEF Low, High
<1>1. sum * SCALE \in Nat /\ Low * SCALE \in Nat /\ High * SCALE \in Nat
    BY <1>0
<1>2. (Low * SCALE) * seconds <= sum * SCALE
  <2>1. (Low * seconds) * SCALE <= sum * SCALE
    BY <1>0 DEF InBand
  <2>2. (Low * seconds) * SCALE = (Low * SCALE) * seconds
    BY <1>0
  <2> QED BY <2>1, <2>2
<1>3. sum * SCALE <= (High * SCALE) * seconds
  <2>1. sum * SCALE <= (High * seconds) * SCALE
    BY <1>0 DEF InBand
  <2>2. (High * seconds) * SCALE = (High * SCALE) * seconds
    BY <1>0
  <2> QED BY <2>1, <2>2
<1>4. Nearest((Low * SCALE) * seconds, seconds) = Low * SCALE
      /\ Nearest((High * SCALE) * seconds, seconds) = High * SCALE
    BY <1>1, NearestExact
<1>5. (Low * SCALE) * seconds \in Nat /\ (High * SCALE) * seconds \in Nat /\ seconds <= seconds
    BY <1>1
<1>6. Low * SCALE <= a /\ a <= High * SCALE
    BY <1>1, <1>2, <1>3, <1>4, <1>5, NearestMonotone
<1>7. a \in Nat
    BY <1>1, NearestBounds
<1>8. SCALE <= Low * SCALE
    BY <1>0
<1>9. Nearest((Low * SCALE) * 1, 1) = Low * SCALE /\ Nearest((High * SCALE) * 1, 1) = High * SCALE
  <2>1. ASSUME NEW k \in Nat, NEW b \in Nat \ {0}, b = 1 PROVE Nearest(k * b, b) = k
    BY NearestExact
  <2>2. \A k \in Nat : Nearest(k * 1, 1) = k
    BY <2>1
  <2> QED BY <1>1, <2>2
<1>10. (Low * SCALE) * 1 = Low * SCALE /\ (High * SCALE) * 1 = High * SCALE
    BY <1>1
<1> HIDE DEF a
<1>11. a \in Nat \ {0} /\ a \in Low * SCALE .. High * SCALE /\ SCALE <= a
    BY <1>0, <1>1, <1>6, <1>7, <1>8
<1> QED BY <1>9, <1>10, <1>11 DEF a, Average

(* DecimalAssumption, for the sums of one day *)
LEMMA EnoughDigits ==
    ASSUME NEW sum \in Nat \ {0}, NEW seconds \in Nat \ {0}, InBand(sum, seconds),
           seconds <= MaxTime + 1
    PROVE  /\ COIN * ONE \in Nat \ {0} /\ seconds <= sum
           /\ sum + (COIN * ONE) * seconds + seconds <= SCALE
<1> DEFINE Z == COIN * ONE
           T == MaxTime + 1
<1>0. /\ Low \in Nat \ {0} /\ High \in Nat \ {0} /\ High <= TopPrice /\ TopPrice \in Nat
      /\ T \in Nat /\ seconds <= T /\ SCALE \in Nat
    BY Numbers, BandEnds
<1>1. Z \in Nat \ {0}
    BY Numbers
<1>2. (TopPrice + Z + 1) * T <= SCALE
    BY DecimalAssumption DEF TopPrice
<1> HIDE DEF Low, High, Z, T
<1>3. seconds <= sum
  <2>1. seconds <= Low * seconds
    BY <1>0
  <2>2. Low * seconds \in Nat
    BY <1>0
  <2> QED BY <2>1, <2>2 DEF InBand
<1>4. sum <= TopPrice * T
  <2>1. High * seconds <= TopPrice * seconds /\ TopPrice * seconds <= TopPrice * T
    BY <1>0
  <2>2. High * seconds \in Nat /\ TopPrice * seconds \in Nat /\ TopPrice * T \in Nat
    BY <1>0
  <2> QED BY <2>1, <2>2 DEF InBand
<1>5. Z * seconds <= Z * T /\ Z * seconds \in Nat /\ Z * T \in Nat /\ TopPrice * T \in Nat
    BY <1>0, <1>1
<1>6. (TopPrice + Z + 1) * T = TopPrice * T + Z * T + T
    BY <1>0, <1>1
<1>7. sum + Z * seconds + seconds <= SCALE
    BY <1>0, <1>2, <1>4, <1>5, <1>6
<1> QED BY <1>1, <1>3, <1>7 DEF Z

LEMMA RateOfBand ==
    ASSUME NEW sum \in Nat \ {0}, NEW seconds \in Nat \ {0}, InBand(sum, seconds)
    PROVE  /\ ZatsPerUsd(sum, seconds) \in Nat
           /\ ZatsPerUsd(sum, seconds) \in ZatsPerUsd(High, 1) .. ZatsPerUsd(Low, 1)
<1> DEFINE N == COIN * ONE * SCALE * SCALE
           A == Average(sum, seconds)
           Z(a) == CeilDiv(Nearest(N, a), SCALE)
<1>0. SCALE \in Nat \ {0} /\ N \in Nat
  <2>1. COIN \in Nat /\ ONE \in Nat /\ SCALE \in Nat \ {0}
    BY Numbers
  <2>2. COIN * ONE \in Nat
    BY <2>1
  <2>3. COIN * ONE * SCALE \in Nat
    BY <2>1, <2>2
  <2> QED BY <2>1, <2>3
<1> HIDE DEF N
<1>1. Low * SCALE \in Nat \ {0} /\ High * SCALE \in Nat \ {0}
  <2>1. Low \in Nat \ {0} /\ High \in Nat \ {0}
    BY BandEnds
  <2> HIDE DEF Low, High
  <2> QED BY <1>0, <2>1
<1>2. /\ A \in Nat \ {0} /\ Low * SCALE <= A /\ A <= High * SCALE
      /\ Average(Low, 1) = Low * SCALE /\ Average(High, 1) = High * SCALE
    BY <1>1, AverageOfBand
<1>3. ASSUME NEW a \in Nat \ {0}, NEW b \in Nat \ {0}, a <= b
      PROVE  Z(a) \in Nat /\ Z(b) \in Nat /\ Z(b) <= Z(a)
  <2>1. Nearest(N, a) \in Nat /\ Nearest(N, b) \in Nat
    BY <1>0, NearestBounds
  <2>2. Nearest(N, b) <= Nearest(N, a)
    <3>1. N <= N
        BY <1>0
    <3> QED BY <1>0, <1>3, <3>1, NearestMonotone
  <2>3. Nearest(N, b) * SCALE <= Nearest(N, a) * SCALE
    BY <1>0, <2>1, <2>2, Scaled
  <2> QED BY <1>0, <2>1, <2>3, CeilDivBounds, CeilDivMonotone
<1>4. ZatsPerUsd(sum, seconds) = Z(A)
    BY DEF ZatsPerUsd, N
<1>5. ZatsPerUsd(High, 1) = Z(High * SCALE) /\ ZatsPerUsd(Low, 1) = Z(Low * SCALE)
    BY <1>2 DEF ZatsPerUsd, N
<1> HIDE DEF Z, A
<1>6. Z(A) \in Nat /\ Z(High * SCALE) \in Nat /\ Z(Low * SCALE) \in Nat
      /\ Z(High * SCALE) <= Z(A) /\ Z(A) <= Z(Low * SCALE)
    BY <1>1, <1>2, <1>3
<1> QED BY <1>4, <1>5, <1>6

(* The rate covers the exact one, and one less does not pass it. *)
LEMMA RateIsFair ==
    ASSUME NEW sum \in Nat \ {0}, NEW seconds \in Nat \ {0}, InBand(sum, seconds),
           seconds <= MaxTime + 1
    PROVE  /\ ZatsPerUsd(sum, seconds) * sum >= (COIN * ONE) * seconds
           /\ (ZatsPerUsd(sum, seconds) - 1) * sum <= (COIN * ONE) * seconds
<1> DEFINE Z == COIN * ONE
           A == Average(sum, seconds)
           Q == Nearest(Z * SCALE * SCALE, A)
           r == CeilDiv(Q, SCALE)
<1>1. Z \in Nat \ {0} /\ seconds <= sum /\ sum + Z * seconds + seconds <= SCALE
    BY EnoughDigits
<1>2. SCALE \in Nat \ {0}
    BY Numbers
<1> HIDE DEF Z
<1>3. A \in Nat \ {0} /\ SCALE <= A
    BY AverageOfBand
<1>4. 2 * (A * seconds) <= 2 * (sum * SCALE) + seconds
      /\ 2 * (sum * SCALE) <= 2 * (A * seconds) + seconds
  <2>1. sum * SCALE \in Nat
    BY <1>2
  <2> QED BY <2>1, NearestBounds DEF Average
<1> HIDE DEF A
<1>5. Q \in Nat /\ 2 * (Q * A) <= 2 * (Z * SCALE * SCALE) + A
      /\ 2 * (Z * SCALE * SCALE) <= 2 * (Q * A) + A
  <2>1. Z * SCALE \in Nat
    BY <1>1, <1>2
  <2>2. Z * SCALE * SCALE \in Nat
    BY <1>2, <2>1
  <2> QED BY <1>3, <2>2, NearestBounds
<1> HIDE DEF Q
<1>6. r \in Nat /\ r * SCALE >= Q /\ (r - 1) * SCALE < Q
    BY <1>2, <1>5, CeilDivBounds
<1>7. ZatsPerUsd(sum, seconds) = r
    BY DEF ZatsPerUsd, Q, A, Z
<1> HIDE DEF r
<1>8. r * sum >= Z * seconds /\ (r - 1) * sum <= Z * seconds
    BY <1>1, <1>2, <1>3, <1>4, <1>5, <1>6, RoundedRate
<1> QED BY <1>7, <1>8 DEF Z

-----------------------------------------------------------------------------
(***************************************************************************)
(* The invariant: an accumulator, and the average a rate was published     *)
(* from, hold nothing but prices of the band; and a payment of this pass   *)
(* waits beside the rate it was seen at, whichever variable holds it.      *)
(***************************************************************************)
OracleType ==
    [daily_rate : Nat, current_day : Nat, acc_sum : Nat, acc_seconds : Nat,
     last_price : Band, last_ts : 0 .. MaxTime, attempted : Nat, seen : Nat]

SoundOracle(o) ==
    /\ o \in OracleType
    /\ o.seen <= o.attempted
    /\ InBand(o.acc_sum, o.acc_seconds)
    /\ o.acc_seconds <= o.last_ts

SoundAverage(a) ==
    /\ a \in [sum : Nat \ {0}, seconds : Nat \ {0}]
    /\ InBand(a.sum, a.seconds)
    /\ a.seconds <= MaxTime + 1

PriceInv ==
    /\ now \in 0 .. MaxTime
    /\ SoundOracle(oracle)
    /\ SoundAverage(average)
    /\ oracle.daily_rate = ZatsPerUsd(average.sum, average.seconds)
    /\ phase \in {"wait", "price", "check"}
    /\ rate \in Nat /\ payments \subseteq Nat
    /\ born \in Nat
    /\ SecondsBilledOnce
    /\ phase = "price" => payments \subseteq {oracle.daily_rate}
    /\ phase = "check" => payments \subseteq {rate}

USE DEF OracleType

LEMMA TodayIsDay ==
    ASSUME NEW t \in Nat PROVE Today(t) \in Nat
BY Numbers DEF Today

LEMMA SmallAverage ==
    ASSUME NEW p \in Band
    PROVE  /\ SoundAverage([sum |-> p, seconds |-> 1])
           /\ ZatsPerUsd(p, 1) \in Nat
<1>1. Low \in Nat \ {0} /\ High \in Nat \ {0}
    BY BandEnds
<1> HIDE DEF Low, High
<1>2. p \in Nat \ {0} /\ InBand(p, 1)
    BY <1>1 DEF Band, InBand
<1>3. 1 <= MaxTime + 1
    BY Numbers
<1> QED
    BY <1>2, <1>3, RateOfBand DEF SoundAverage

LEMMA NewOracleSound ==
    ASSUME NEW p \in Band, NEW t \in 0 .. MaxTime
    PROVE  SoundOracle(NewOracle(p, t))
<1>1. Low \in Nat /\ High \in Nat /\ t \in Nat
    BY BandEnds, Numbers
<1> HIDE DEF Low, High
<1>2. InBand(0, 0)
    BY <1>1 DEF InBand
<1>3. NewOracle(p, t) \in OracleType
    BY <1>1, TodayIsDay, SmallAverage DEF NewOracle
<1> QED
    BY <1>1, <1>2, <1>3 DEF SoundOracle, NewOracle

(* Rollover publishes an average of the band, or keeps the rate. *)
LEMMA PublishedAverage ==
    ASSUME NEW o, SoundOracle(o), NEW t \in 0 .. MaxTime, Publishes(o, t)
    PROVE  SoundAverage([sum |-> o.acc_sum, seconds |-> o.acc_seconds])
<1>1. Low \in Nat \ {0} /\ High \in Nat \ {0}
    BY BandEnds
<1> HIDE DEF Low, High
<1>2. o.acc_sum \in Nat /\ o.acc_seconds \in Nat \ {0} /\ InBand(o.acc_sum, o.acc_seconds)
    BY DEF SoundOracle, Publishes
<1>3. \A s \in Nat \ {0} : Low * s > 0
    BY <1>1
<1>4. o.acc_sum > 0
    BY <1>1, <1>2, <1>3 DEF InBand
<1>5. o.acc_seconds <= MaxTime + 1
  <2>1. o.acc_seconds <= o.last_ts /\ o.last_ts \in 0 .. MaxTime /\ MaxTime \in Nat
    BY Numbers DEF SoundOracle
  <2> QED BY <1>2, <2>1
<1> QED
    BY <1>2, <1>4, <1>5 DEF SoundAverage

LEMMA RolloverSound ==
    ASSUME NEW o, SoundOracle(o), NEW t \in 0 .. MaxTime
    PROVE  /\ SoundOracle(Rollover(o, t))
           /\ Rollover(o, t).last_ts = o.last_ts
           /\ Rollover(o, t).daily_rate =
                IF Publishes(o, t) THEN ZatsPerUsd(o.acc_sum, o.acc_seconds) ELSE o.daily_rate
<1>0. o \in OracleType /\ t \in Nat /\ Today(t) \in Nat
    BY TodayIsDay, Numbers DEF SoundOracle
<1>1. CASE Today(t) <= o.current_day
  <2>1. Rollover(o, t) = o /\ ~Publishes(o, t)
    BY <1>0, <1>1 DEF Rollover, Publishes
  <2> QED BY <2>1
<1>2. CASE Today(t) > o.current_day
  <2> DEFINE d == IF Publishes(o, t) THEN ZatsPerUsd(o.acc_sum, o.acc_seconds) ELSE o.daily_rate
  <2>1. d \in Nat
    <3>1. CASE Publishes(o, t)
      <4>1. SoundAverage([sum |-> o.acc_sum, seconds |-> o.acc_seconds])
        BY <3>1, PublishedAverage
      <4> QED BY <3>1, <4>1, RateOfBand DEF SoundAverage
    <3> QED BY <1>0, <3>1
  <2>2. Rollover(o, t) = [o EXCEPT !.daily_rate = d, !.acc_sum = 0, !.acc_seconds = 0,
                                   !.attempted = 0, !.seen = 0, !.current_day = Today(t)]
    BY <1>0, <1>2 DEF Rollover
  <2> HIDE DEF d
  <2>3. Low \in Nat /\ High \in Nat
    BY BandEnds
  <2>4. InBand(0, 0)
    <3> HIDE DEF Low, High
    <3> QED BY <2>3 DEF InBand
  <2>5. Rollover(o, t) \in OracleType
    <3>1. Rollover(o, t) = [daily_rate |-> d, current_day |-> Today(t), acc_sum |-> 0,
                            acc_seconds |-> 0, last_price |-> o.last_price,
                            last_ts |-> o.last_ts, attempted |-> 0, seen |-> 0]
        BY <1>0, <2>2
    <3>2. o.last_price \in Band /\ o.last_ts \in 0 .. MaxTime
        BY <1>0
    <3> QED BY <1>0, <2>1, <3>1, <3>2
  <2>6. /\ Rollover(o, t).seen = 0 /\ Rollover(o, t).attempted = 0
        /\ Rollover(o, t).acc_sum = 0 /\ Rollover(o, t).acc_seconds = 0
        /\ Rollover(o, t).last_ts = o.last_ts /\ Rollover(o, t).daily_rate = d
    BY <1>0, <2>2
  <2>7. SoundOracle(Rollover(o, t))
    <3>1. 0 <= o.last_ts
        BY <1>0, Numbers
    <3> HIDE DEF OracleType
    <3> QED BY <2>4, <2>5, <2>6, <3>1 DEF SoundOracle
  <2> QED BY <2>6, <2>7 DEF d
<1> QED
    BY <1>0, <1>1, <1>2

LEMMA ElapsedIsTime ==
    ASSUME NEW o, SoundOracle(o), NEW t \in 0 .. MaxTime, ~(t < o.last_ts)
    PROVE  Elapsed(o, t) = t - o.last_ts /\ t - o.last_ts \in Nat
<1>1. o.last_ts \in 0 .. MaxTime /\ MaxTime \in Nat /\ WORD \in Nat \ {0} /\ MaxTime < WORD
    BY Numbers DEF SoundOracle
<1>2. \A x \in Nat, w \in Nat \ {0} : x < w => x % w = x
    OBVIOUS
<1> QED
    BY <1>1, <1>2 DEF Elapsed

(* A folded round bills the seconds since the last one. *)
LEMMA AccumulateSound ==
    ASSUME NEW o, SoundOracle(o), NEW t \in 0 .. MaxTime, NEW p \in Band \cup {None}
    PROVE  /\ SoundOracle(Accumulate(o, p, t))
           /\ Accumulate(o, p, t).last_ts = IF t < o.last_ts \/ p = None THEN o.last_ts ELSE t
           /\ Accumulate(o, p, t).daily_rate =
                IF t >= o.last_ts /\ Publishes(o, t)
                THEN ZatsPerUsd(o.acc_sum, o.acc_seconds) ELSE o.daily_rate
<1> DEFINE a == Rollover(o, t)
           r == [a EXCEPT !.attempted = @ + 1]
           e == Elapsed(o, t)
<1>0. o \in OracleType /\ t \in Nat /\ o.last_ts \in Nat
    BY Numbers DEF SoundOracle
<1>1. CASE t < o.last_ts
    BY <1>0, <1>1 DEF Accumulate
<1>2. CASE ~(t < o.last_ts)
  <2>1. /\ SoundOracle(a)
        /\ a.last_ts = o.last_ts
        /\ a.daily_rate = IF Publishes(o, t) THEN ZatsPerUsd(o.acc_sum, o.acc_seconds)
                          ELSE o.daily_rate
    BY RolloverSound
  <2>2. e \in Nat
    BY <1>2, ElapsedIsTime
  <2>3. Accumulate(o, p, t) =
          IF p = None THEN r
          ELSE [r EXCEPT !.acc_sum = @ + r.last_price * e, !.acc_seconds = @ + e,
                         !.last_price = p, !.last_ts = t, !.seen = @ + 1]
    BY <1>2 DEF Accumulate
  <2> HIDE DEF a, e
  <2>4. /\ a \in OracleType /\ a.seen <= a.attempted /\ InBand(a.acc_sum, a.acc_seconds)
        /\ a.acc_seconds <= a.last_ts
    BY <2>1 DEF SoundOracle
  <2>5. r = [daily_rate |-> a.daily_rate, current_day |-> a.current_day, acc_sum |-> a.acc_sum,
             acc_seconds |-> a.acc_seconds, last_price |-> a.last_price,
             last_ts |-> a.last_ts, attempted |-> a.attempted + 1, seen |-> a.seen]
    BY <2>4
  <2>6. /\ a.daily_rate \in Nat /\ a.current_day \in Nat /\ a.acc_sum \in Nat
        /\ a.acc_seconds \in Nat /\ a.last_price \in Band /\ a.last_ts \in 0 .. MaxTime
        /\ a.attempted \in Nat /\ a.seen \in Nat
    BY <2>4
  <2> HIDE DEF r
  <2>7. CASE p = None
    <3>1. Accumulate(o, p, t) = r
        BY <2>3, <2>7
    <3>2. r \in OracleType /\ r.seen <= r.attempted /\ InBand(r.acc_sum, r.acc_seconds)
          /\ r.acc_seconds <= r.last_ts
        BY <2>4, <2>5, <2>6
    <3>3. r.last_ts = o.last_ts /\ r.daily_rate = a.daily_rate
        BY <2>1, <2>5
    <3> QED BY <1>0, <1>2, <2>1, <2>7, <3>1, <3>2, <3>3 DEF SoundOracle
  <2>8. CASE p # None
    <3> DEFINE x == Accumulate(o, p, t)
               sum == a.acc_sum + a.last_price * e
               seconds == a.acc_seconds + e
    <3>1. x = [daily_rate |-> a.daily_rate, current_day |-> a.current_day, acc_sum |-> sum,
               acc_seconds |-> seconds, last_price |-> p,
               last_ts |-> t, attempted |-> a.attempted + 1, seen |-> a.seen + 1]
        BY <2>3, <2>5, <2>8
    <3>2. Low \in Nat /\ High \in Nat
        BY BandEnds
    <3> HIDE DEF Low, High
    <3>3. a.last_price \in Nat /\ Low <= a.last_price /\ a.last_price <= High
        BY <2>6, <3>2 DEF Band
    <3>4. sum \in Nat /\ seconds \in Nat
        BY <2>2, <2>6, <3>3
    <3>5. InBand(sum, seconds)
      <4>1. Low * a.acc_seconds <= a.acc_sum /\ a.acc_sum <= High * a.acc_seconds
        BY <2>4 DEF InBand
      <4>2. Low * e <= a.last_price * e /\ a.last_price * e <= High * e
        BY <2>2, <3>2, <3>3
      <4>3. Low * seconds = Low * a.acc_seconds + Low * e
            /\ High * seconds = High * a.acc_seconds + High * e
        BY <2>2, <2>6, <3>2
      <4>4. /\ Low * a.acc_seconds \in Int /\ High * a.acc_seconds \in Int
            /\ Low * e \in Int /\ High * e \in Int /\ a.last_price * e \in Int
        BY <2>2, <2>6, <3>2, <3>3
      <4> QED BY <2>6, <4>1, <4>2, <4>3, <4>4 DEF InBand
    <3> HIDE DEF sum, seconds
    <3>6. x \in OracleType
        BY <2>6, <2>8, <3>1, <3>4
    <3>7. x.seen <= x.attempted
        BY <2>4, <2>6, <3>1
    <3>8. x.acc_sum = sum /\ x.acc_seconds = seconds /\ x.last_ts = t /\ x.daily_rate = a.daily_rate
        BY <3>1
    <3>9. SoundOracle(x)
      <4>1. e = t - o.last_ts
        BY <1>2, ElapsedIsTime DEF e
      <4>2. seconds <= t
        BY <1>0, <2>1, <2>2, <2>4, <2>6, <4>1 DEF seconds
      <4> HIDE DEF x, OracleType
      <4> QED BY <3>5, <3>6, <3>7, <3>8, <4>2 DEF SoundOracle
    <3> QED BY <1>0, <1>2, <2>1, <2>8, <3>8, <3>9
  <2> QED BY <2>7, <2>8
<1> QED
    BY <1>1, <1>2

-----------------------------------------------------------------------------
LEMMA InitPriceInv == Init => PriceInv
<1> SUFFICES ASSUME Init PROVE PriceInv
    OBVIOUS
<1>1. PICK p \in RoundPrices \ {None} : Start(p, 0)
    BY DEF Init
<1>2. p \in Band /\ 0 \in 0 .. MaxTime
    BY <1>1, RoundInBand, Numbers
<1>3. SoundOracle(NewOracle(p, 0)) /\ SoundAverage([sum |-> p, seconds |-> 1])
      /\ ZatsPerUsd(p, 1) \in Nat
    BY <1>2, NewOracleSound, SmallAverage
<1>4. oracle = NewOracle(p, 0) /\ average = [sum |-> p, seconds |-> 1] /\ born = 0 /\ billed = 0
    BY <1>1 DEF Start
<1>5. oracle.daily_rate = ZatsPerUsd(p, 1) /\ oracle.last_ts = 0
    BY <1>4 DEF NewOracle
<1>6. average.sum = p /\ average.seconds = 1
    BY <1>4
<1>7. now = 0 /\ phase = "wait" /\ rate = oracle.daily_rate /\ payments = {}
    BY DEF Init
<1> HIDE DEF OracleType
<1> QED
    BY <1>2, <1>3, <1>4, <1>5, <1>6, <1>7 DEF PriceInv, SecondsBilledOnce

LEMMA NextPriceInv == PriceInv /\ [Next]_vars => PriceInv'
<1> SUFFICES ASSUME PriceInv, [Next]_vars PROVE PriceInv'
    OBVIOUS
<1> HIDE DEF OracleType
<1>0. /\ now \in 0 .. MaxTime
      /\ SoundOracle(oracle)
      /\ SoundAverage(average)
      /\ oracle.daily_rate = ZatsPerUsd(average.sum, average.seconds)
      /\ phase \in {"wait", "price", "check"}
      /\ rate \in Nat /\ payments \subseteq Nat
      /\ born \in Nat
      /\ billed = oracle.last_ts - born
      /\ phase = "price" => payments \subseteq {oracle.daily_rate}
      /\ phase = "check" => payments \subseteq {rate}
    BY DEF PriceInv, SecondsBilledOnce
<1>00. oracle.daily_rate \in Nat /\ oracle.last_ts \in 0 .. MaxTime /\ MaxTime \in Nat
    BY <1>0, Numbers DEF SoundOracle, OracleType
<1>1. ASSUME NEW t \in 0 .. MaxTime, NEW paid \in BOOLEAN, CatchUp(t, paid) PROVE PriceInv'
    BY <1>0, <1>00, <1>1 DEF CatchUp, PriceInv, SecondsBilledOnce
<1>2. ASSUME NEW p \in RoundPrices, PriceRound(p) PROVE PriceInv'
  <2> DEFINE o == Accumulate(oracle, p, now)
  <2>1. p \in Band \cup {None}
    BY RoundInBand
  <2>2. /\ SoundOracle(o)
        /\ o.last_ts = IF now < oracle.last_ts \/ p = None THEN oracle.last_ts ELSE now
        /\ o.daily_rate = IF now >= oracle.last_ts /\ Publishes(oracle, now)
                          THEN ZatsPerUsd(oracle.acc_sum, oracle.acc_seconds) ELSE oracle.daily_rate
    BY <1>0, <2>1, AccumulateSound
  <2>3. oracle' = o /\ rate' = oracle.daily_rate /\ phase' = "check" /\ phase = "price"
        /\ now' = now /\ payments' = payments /\ born' = born
    BY <1>2 DEF PriceRound
  <2> HIDE DEF o
  <2>4. SoundAverage(average)' /\ o.daily_rate = ZatsPerUsd(average'.sum, average'.seconds)
    <3>1. CASE now >= oracle.last_ts /\ Publishes(oracle, now)
      <4>1. average' = [sum |-> oracle.acc_sum, seconds |-> oracle.acc_seconds]
        BY <1>2, <3>1 DEF PriceRound
      <4>2. SoundAverage(average')
        BY <1>0, <3>1, <4>1, PublishedAverage
      <4> QED BY <2>2, <3>1, <4>1, <4>2
    <3>2. CASE ~(now >= oracle.last_ts /\ Publishes(oracle, now))
        BY <1>0, <1>2, <2>2, <3>2 DEF PriceRound
    <3> QED BY <3>1, <3>2
  <2>5. billed' = o.last_ts - born
    <3>1. billed' = billed + (IF o.last_ts = oracle.last_ts THEN 0 ELSE Elapsed(oracle, now))
        BY <1>2, <2>3 DEF PriceRound
    <3>2. CASE o.last_ts = oracle.last_ts
        BY <1>0, <1>00, <3>1, <3>2
    <3>3. CASE o.last_ts # oracle.last_ts
      <4>1. ~(now < oracle.last_ts) /\ o.last_ts = now
        BY <2>2, <3>3
      <4>2. Elapsed(oracle, now) = now - oracle.last_ts
        BY <1>0, <4>1, ElapsedIsTime
      <4> QED BY <1>0, <1>00, <3>1, <3>3, <4>1, <4>2
    <3> QED BY <3>2, <3>3
  <2> QED
    BY <1>0, <1>00, <2>2, <2>3, <2>4, <2>5 DEF PriceInv, SecondsBilledOnce
<1>3. ASSUME SkipPass \/ Decide PROVE PriceInv'
    BY <1>0, <1>00, <1>3 DEF SkipPass, Decide, PriceInv, SecondsBilledOnce
<1>4. ASSUME NEW p \in RoundPrices \ {None}, Restart(p) PROVE PriceInv'
  <2>1. p \in Band
    BY RoundInBand
  <2>2. SoundOracle(NewOracle(p, now)) /\ SoundAverage([sum |-> p, seconds |-> 1])
        /\ ZatsPerUsd(p, 1) \in Nat
    BY <1>0, <2>1, NewOracleSound, SmallAverage
  <2>3. /\ oracle' = NewOracle(p, now) /\ average' = [sum |-> p, seconds |-> 1] /\ born' = now
        /\ billed' = 0 /\ rate' = oracle'.daily_rate /\ payments' = {} /\ now' = now
        /\ phase = "wait" /\ phase' = phase
    BY <1>4 DEF Restart
  <2>4. oracle'.daily_rate = ZatsPerUsd(p, 1) /\ oracle'.last_ts = now
    BY <2>3 DEF NewOracle
  <2>5. average'.sum = p /\ average'.seconds = 1
    BY <2>3
  <2> QED
    BY <1>0, <1>00, <2>2, <2>3, <2>4, <2>5 DEF PriceInv, SecondsBilledOnce
<1>5. CASE UNCHANGED vars
    BY <1>5 DEF vars, PriceInv, SecondsBilledOnce
<1> QED
    BY <1>1, <1>2, <1>3, <1>4, <1>5 DEF Next

(* A quote is the rate times the tariff, so its rounding error is at most  *)
(* one zatoshi for each dollar.                                            *)
LEMMA QuoteIsFair ==
    ASSUME NEW u \in Nat \ {0}, NEW r \in Nat, NEW a, SoundAverage(a),
           r = ZatsPerUsd(a.sum, a.seconds)
    PROVE  /\ (u * r) * a.sum >= u * (COIN * ONE) * a.seconds
           /\ (u * r - u) * a.sum <= u * (COIN * ONE) * a.seconds
<1> DEFINE Z == COIN * ONE
<1>0. /\ a.sum \in Nat \ {0} /\ a.seconds \in Nat \ {0} /\ InBand(a.sum, a.seconds)
      /\ a.seconds <= MaxTime + 1 /\ Z \in Nat
    BY Numbers DEF SoundAverage
<1>1. r * a.sum >= Z * a.seconds /\ (r - 1) * a.sum <= Z * a.seconds
    BY <1>0, RateIsFair
<1> HIDE DEF Z
<1>2. \A x, y, z \in Nat : (u * x) * y = u * (x * y) /\ u * y * z = u * (y * z)
    OBVIOUS
<1>3. (u * r - u) * a.sum = u * ((r - 1) * a.sum)
    BY <1>0
<1>4. u * (r * a.sum) >= u * (Z * a.seconds)
    BY <1>0, <1>1
<1>5. u * ((r - 1) * a.sum) <= u * (Z * a.seconds)
    BY <1>0, <1>1
<1>6. (u * r) * a.sum >= u * Z * a.seconds /\ (u * r - u) * a.sum <= u * Z * a.seconds
    BY <1>0, <1>2, <1>3, <1>4, <1>5
<1> QED
    BY <1>6 DEF Z

LEMMA TariffIsPositive ==
    ASSUME NEW length \in 1 .. Len(ANNUAL_USD) + 1, NEW years \in {1, 2, None}
    PROVE  Usd(length, years) \in Nat \ {0}
<1>1. length \in 1 .. 6
    BY DEF ANNUAL_USD
<1>2. AnnualUsd(length) \in Nat \ {0}
    BY <1>1 DEF AnnualUsd, ANNUAL_USD, MINIMUM_USD
<1>3. (IF years = None THEN FOREVER_MULTIPLE ELSE years) \in Nat \ {0}
    BY Numbers DEF FOREVER_MULTIPLE
<1> QED
    BY <1>2, <1>3 DEF Usd

LEMMA PriceInvGivesBand == PriceInv => RateInHonestBand
<1> SUFFICES ASSUME PriceInv PROVE RateInHonestBand
    OBVIOUS
<1>1. PricingTypeOK
  <2>1. oracle \in OracleType /\ oracle.seen <= oracle.attempted
    BY DEF PriceInv, SoundOracle
  <2>2. DOMAIN oracle = DOMAIN NewOracle(1, 0)
    BY <2>1 DEF NewOracle
  <2>3. Band \subseteq Nat
    BY BandEnds DEF Band
  <2>4. \A f \in DOMAIN oracle : oracle[f] \in Nat
    <3>1. DOMAIN oracle = {"daily_rate", "current_day", "acc_sum", "acc_seconds", "last_price",
                           "last_ts", "attempted", "seen"}
        BY <2>1
    <3>2. oracle.last_price \in Nat
        BY <2>1, <2>3
    <3>3. oracle.last_ts \in Nat
        BY <2>1, Numbers
    <3>4. /\ oracle.daily_rate \in Nat /\ oracle.current_day \in Nat /\ oracle.acc_sum \in Nat
          /\ oracle.acc_seconds \in Nat /\ oracle.attempted \in Nat /\ oracle.seen \in Nat
        BY <2>1
    <3> HIDE DEF OracleType
    <3> QED BY <3>1, <3>2, <3>3, <3>4
  <2> QED
    BY <2>1, <2>2, <2>4 DEF PriceInv, PricingTypeOK
<1>2. SoundAverage(average) /\ oracle.daily_rate = ZatsPerUsd(average.sum, average.seconds)
      /\ oracle.daily_rate \in Nat
    BY DEF PriceInv, SoundOracle
<1>3. oracle.daily_rate \in ZatsPerUsd(High, 1) .. ZatsPerUsd(Low, 1)
    BY <1>2, RateOfBand DEF SoundAverage
<1>4. QuoteCoversTariff
  <2> SUFFICES ASSUME NEW length \in 1 .. Len(ANNUAL_USD) + 1, NEW years \in {1, 2, None},
                      QuoteAt(oracle.daily_rate, length, years) # None
               PROVE  LET quote == QuoteAt(oracle.daily_rate, length, years)
                          tariff == Usd(length, years)
                      IN  /\ quote * average.sum >= tariff * (COIN * ONE) * average.seconds
                          /\ (quote - tariff) * average.sum
                               <= tariff * (COIN * ONE) * average.seconds
    BY DEF QuoteCoversTariff
  <2> DEFINE u == Usd(length, years)
  <2>1. u \in Nat \ {0}
    BY TariffIsPositive
  <2>2. QuoteAt(oracle.daily_rate, length, years) = u * oracle.daily_rate
    BY DEF QuoteAt
  <2> HIDE DEF u
  <2>3. /\ (u * oracle.daily_rate) * average.sum >= u * (COIN * ONE) * average.seconds
        /\ (u * oracle.daily_rate - u) * average.sum <= u * (COIN * ONE) * average.seconds
    BY <1>2, <2>1, QuoteIsFair
  <2> QED
    BY <2>2, <2>3 DEF u
<1> QED
    BY <1>1, <1>3, <1>4 DEF RateInHonestBand, Low, High

(* One venue that lies never moves the published rate out of what the      *)
(* honest ones said, whatever venues are down, however the clock moves and *)
(* wherever the process restarts.  The quotes cover their tariff at the    *)
(* exact average through both roundings, and exceed it by no more than a   *)
(* zatoshi per dollar (aggregate, Oracle::accumulate, zats_per_usd).       *)
THEOREM RateStaysHonest == Spec => []RateInHonestBand
<1>1. Init => PriceInv
    BY InitPriceInv
<1>2. PriceInv /\ [Next]_vars => PriceInv'
    BY NextPriceInv
<1>3. PriceInv => RateInHonestBand
    BY PriceInvGivesBand
<1> QED
    BY <1>1, <1>2, <1>3, PTL DEF Spec

(* Every second between the first round and the last is weighed once       *)
(* (Oracle::accumulate drops a round behind the last).                     *)
THEOREM SecondsAreBilledOnce == Spec => []SecondsBilledOnce
<1>1. Init => PriceInv
    BY InitPriceInv
<1>2. PriceInv /\ [Next]_vars => PriceInv'
    BY NextPriceInv
<1>3. PriceInv => SecondsBilledOnce
    BY DEF PriceInv
<1> QED
    BY <1>1, <1>2, <1>3, PTL DEF Spec

(* A payment decided in the pass that saw it is priced at the rate of the  *)
(* moment it was seen, even when the pass's own round publishes a new one  *)
(* (the run loop reads the rate before it folds the round).                *)
THEOREM PricedWhenSeen == Spec => PricedAtFirstSight
<1>1. Init => PriceInv
    BY InitPriceInv
<1>2. PriceInv /\ [Next]_vars => PriceInv'
    BY NextPriceInv
<1>3. PriceInv => [Decide => payments \subseteq {rate}]_vars
    BY DEF PriceInv, Decide
<1> QED
    BY <1>1, <1>2, <1>3, PTL DEF Spec, PricedAtFirstSight

-----------------------------------------------------------------------------
(***************************************************************************)
(* The clock                                                               *)
(***************************************************************************)
-----------------------------------------------------------------------------
(* What the proofs take from ClockAssumption *)
LEMMA ClockNumbers ==
    /\ WINDOW \in Nat \ {0} /\ MAX_TIME_SINCE_MEDIAN \in Nat \ {0}
    /\ YEAR \in Nat \ {0} /\ MAX_TERM_YEARS \in Nat \ {0}
    /\ Years \subseteq 1 .. MAX_TERM_YEARS
    /\ FirstTimes \subseteq Nat /\ Prices \subseteq Nat /\ MaxHeight \in Nat
    /\ Ends \subseteq WINDOW .. MaxHeight
    /\ Never \notin Nat /\ Forever \notin Nat /\ Nothing \notin Nat /\ Unclaimed \notin Nat
    /\ Nothing # Unclaimed
BY ClockAssumption

-----------------------------------------------------------------------------
(***************************************************************************)
(* The median of a window                                                  *)
(***************************************************************************)
IsMedian(t, times) ==
    /\ t \in Range(times)
    /\ Cardinality({i \in DOMAIN times : times[i] < t}) <= Len(times) \div 2
    /\ Cardinality({i \in DOMAIN times : times[i] <= t}) > Len(times) \div 2

LEMMA HalfOf ==
    ASSUME NEW n \in Nat
    PROVE  n \div 2 \in Nat /\ n <= 2 * (n \div 2) + 1 /\ 2 * (n \div 2) <= n
OBVIOUS

LEMMA MedianExists ==
    ASSUME NEW times \in Seq(Nat), Len(times) # 0
    PROVE  IsMedian(Current(times), times)
<1> DEFINE n == Len(times)
           At(t) == {i \in DOMAIN times : times[i] <= t}
           Good == {t \in Range(times) : Cardinality(At(t)) > n \div 2}
<1>1. n \in Nat \ {0} /\ DOMAIN times = 1 .. n /\ \A i \in 1 .. n : times[i] \in Nat
    BY LenProperties, ElementOfSeq
<1>2. times \in [1 .. n -> Nat]
    BY <1>1
<1>h. n \div 2 \in Nat /\ n > n \div 2
    BY <1>1, HalfOf
<1>3. Range(times) \subseteq Nat /\ Range(times) # {}
  <2>1. times[1] \in Range(times)
    BY <1>1 DEF Range
  <2> QED BY <1>1, <2>1 DEF Range
<1>4. Good # {}
  <2>1. PICK m \in Nat : \A i \in 1 .. n : times[i] <= m
    <3> HIDE DEF n
    <3> QED BY <1>1, <1>2, ValuesBounded
  <2>2. Range(times) \subseteq 0 .. m
    BY <1>1, <2>1 DEF Range
  <2>3. PICK v \in Range(times) : \A y \in Range(times) : v >= y
    BY <1>3, <2>2, HasGreatest
  <2>4. At(v) = 1 .. n
    BY <1>1, <2>3 DEF Range
  <2>5. Cardinality(1 .. n) = n
    BY <1>1, FS_Interval
  <2> QED BY <1>h, <2>3, <2>4, <2>5
<1>5. PICK t \in Good : \A y \in Good : t <= y
  <2>1. Good \subseteq Nat
    BY <1>3
  <2> HIDE DEF Good
  <2> QED BY <1>4, <2>1, HasLeast
<1>6. t \in Range(times) /\ t \in Nat /\ Cardinality(At(t)) > n \div 2
    BY <1>3, <1>5
<1> DEFINE Below == {i \in DOMAIN times : times[i] < t}
<1>7. Cardinality(Below) <= n \div 2
  <2>1. SUFFICES ASSUME ~(Cardinality(Below) <= n \div 2) PROVE FALSE
    OBVIOUS
  <2>2. Below \subseteq 1 .. n /\ IsFiniteSet(Below) /\ Cardinality(Below) \in Nat
    <3>1. Below \subseteq 1 .. n
        BY <1>1
    <3>2. IsFiniteSet(1 .. n)
        BY <1>1, FS_Interval
    <3> HIDE DEF Below
    <3> QED BY <3>1, <3>2, FS_Subset, FS_CardinalityType
  <2>3. Cardinality(Below) > n \div 2
    BY <1>h, <2>1, <2>2
  <2>4. Below # {}
    BY <1>h, <2>3, FS_EmptySet
  <2> DEFINE V == {times[i] : i \in Below}
  <2>5. V \subseteq 0 .. t /\ V # {}
    BY <1>1, <1>6, <2>4
  <2> HIDE DEF V
  <2>6. PICK u \in V : \A y \in V : u >= y
    BY <1>6, <2>5, HasGreatest
  <2>7. u \in Range(times) /\ u < t /\ u \in Nat
    BY <1>1, <2>6 DEF V, Range
  <2>8. At(u) = Below
    <3>1. ASSUME NEW i \in Below PROVE i \in At(u)
        BY <2>6 DEF V
    <3>2. ASSUME NEW i \in At(u) PROVE i \in Below
        BY <1>1, <1>6, <2>7
    <3> QED BY <3>1, <3>2
  <2>9. u \in Good
    BY <2>3, <2>7, <2>8
  <2> QED BY <1>5, <1>6, <2>7, <2>9
<1>8. IsMedian(t, times)
    BY <1>6, <1>7 DEF IsMedian
<1> QED
    BY <1>8 DEF Current, IsMedian

(* A median is a time. *)
LEMMA MedianIsTime ==
    ASSUME NEW times \in Seq(Nat), Len(times) # 0
    PROVE  Current(times) \in Nat
<1>1. Current(times) \in Range(times)
    BY MedianExists DEF IsMedian
<1>2. \A i \in DOMAIN times : times[i] \in Nat
    BY ElementOfSeq, LenProperties
<1> QED BY <1>1, <1>2 DEF Range

(* If at most half of a window lies at or below v, its median is above v. *)
LEMMA MedianAbove ==
    ASSUME NEW times \in Seq(Nat), Len(times) # 0, NEW v \in Int,
           NEW S, S \subseteq DOMAIN times, Cardinality(S) <= Len(times) \div 2,
           \A i \in DOMAIN times \ S : times[i] > v
    PROVE  Current(times) > v
<1> DEFINE m == Current(times)
           At == {i \in DOMAIN times : times[i] <= m}
           n == Len(times)
<1>1. n \in Nat /\ DOMAIN times = 1 .. n /\ \A i \in 1 .. n : times[i] \in Nat
    BY LenProperties, ElementOfSeq
<1>2. Cardinality(At) > n \div 2 /\ m \in Nat
    BY MedianExists, MedianIsTime DEF IsMedian
<1>3. SUFFICES ASSUME ~(m > v) PROVE FALSE
    OBVIOUS
<1>4. At \subseteq S
    BY <1>1, <1>2, <1>3
<1>5. IsFiniteSet(S)
  <2>1. IsFiniteSet(1 .. n)
    BY <1>1, FS_Interval
  <2> QED BY <1>1, <2>1, FS_Subset
<1> HIDE DEF At
<1>6. Cardinality(At) <= Cardinality(S) /\ Cardinality(At) \in Nat /\ Cardinality(S) \in Nat
    BY <1>4, <1>5, FS_Subset, FS_CardinalityType
<1> QED BY <1>1, <1>2, <1>6, HalfOf

-----------------------------------------------------------------------------
(***************************************************************************)
(* The windows of a chain of headers                                       *)
(***************************************************************************)
Window(hs, h) == SubSeq(hs, IF h > WINDOW THEN h - WINDOW + 1 ELSE 1, h)

LEMMA WindowShape ==
    ASSUME NEW hs \in Seq(Nat), NEW h \in 1 .. Len(hs)
    PROVE  /\ Window(hs, h) \in Seq(Nat) /\ Len(Window(hs, h)) # 0
           /\ Current(Window(hs, h)) \in Nat
           /\ h >= WINDOW =>
                /\ Len(Window(hs, h)) = WINDOW
                /\ \A j \in 1 .. WINDOW : Window(hs, h)[j] = hs[h - WINDOW + j]
<1> DEFINE a == IF h > WINDOW THEN h - WINDOW + 1 ELSE 1
<1>0. h \in Nat /\ h >= 1 /\ Len(hs) \in Nat /\ h <= Len(hs) /\ WINDOW \in Nat \ {0}
    BY ClockNumbers, LenProperties
<1>1. a \in 1 .. h /\ (h >= WINDOW => a = h - WINDOW + 1)
    BY <1>0
<1> HIDE DEF a
<1>2. /\ SubSeq(hs, a, h) \in Seq(Nat)
      /\ Len(SubSeq(hs, a, h)) = h - a + 1
      /\ \A j \in 1 .. h - a + 1 : SubSeq(hs, a, h)[j] = hs[a + j - 1]
    BY <1>0, <1>1, SubSeqProperties
<1>3. Window(hs, h) = SubSeq(hs, a, h)
    BY DEF a, Window
<1>4. Window(hs, h) \in Seq(Nat) /\ Len(Window(hs, h)) # 0
    BY <1>0, <1>1, <1>2, <1>3
<1>5. Current(Window(hs, h)) \in Nat
    BY <1>4, MedianIsTime
<1>6. ASSUME h >= WINDOW
      PROVE  /\ Len(Window(hs, h)) = WINDOW
             /\ \A j \in 1 .. WINDOW : Window(hs, h)[j] = hs[h - WINDOW + j]
  <2>1. a = h - WINDOW + 1 /\ h - a + 1 = WINDOW
    BY <1>0, <1>1, <1>6
  <2>2. ASSUME NEW j \in 1 .. WINDOW PROVE Window(hs, h)[j] = hs[h - WINDOW + j]
    <3>1. a + j - 1 = h - WINDOW + j /\ j \in 1 .. h - a + 1
        BY <1>0, <2>1
    <3>2. SubSeq(hs, a, h)[j] = hs[a + j - 1]
        BY <1>2, <3>1
    <3> QED BY <1>3, <3>1, <3>2
  <2>3. Len(Window(hs, h)) = WINDOW
    BY <1>2, <1>3, <2>1
  <2> QED BY <2>2, <2>3
<1> QED BY <1>4, <1>5, <1>6

(* A header above the median in place of the oldest: the median stands. *)
LEMMA MedianNeverFalls ==
    ASSUME NEW hs \in Seq(Nat), NEW h \in Nat, WINDOW <= h, h + 1 <= Len(hs),
           hs[h + 1] > Current(Window(hs, h))
    PROVE  Current(Window(hs, h + 1)) >= Current(Window(hs, h))
<1> DEFINE old == Window(hs, h)
           new == Window(hs, h + 1)
           m == Current(old)
           O == {i \in DOMAIN old : old[i] < m}
           S == {j \in DOMAIN new : new[j] < m}
<1>0. WINDOW \in Nat \ {0} /\ h \in 1 .. Len(hs) /\ h + 1 \in 1 .. Len(hs) /\ h + 1 >= WINDOW
    BY ClockNumbers, LenProperties
<1>1. /\ old \in Seq(Nat) /\ Len(old) = WINDOW /\ m \in Nat
      /\ \A j \in 1 .. WINDOW : old[j] = hs[h - WINDOW + j]
    BY <1>0, WindowShape
<1>2. /\ new \in Seq(Nat) /\ Len(new) = WINDOW /\ Current(new) \in Nat
      /\ \A j \in 1 .. WINDOW : new[j] = hs[(h + 1) - WINDOW + j]
    BY <1>0, WindowShape
<1> HIDE DEF old, new
<1>3. DOMAIN old = 1 .. WINDOW /\ DOMAIN new = 1 .. WINDOW
    BY <1>1, <1>2, LenProperties
<1>4. Cardinality(O) <= WINDOW \div 2
  <2>1. Len(old) # 0
    BY <1>0, <1>1
  <2> QED BY <1>1, <2>1, MedianExists DEF IsMedian
<1>5. \A j \in S : j + 1 \in O
  <2> SUFFICES ASSUME NEW j \in S PROVE j + 1 \in O
    OBVIOUS
  <2>1. j \in 1 .. WINDOW /\ new[j] < m
    BY <1>3
  <2>2. (h + 1) - WINDOW + WINDOW = h + 1 /\ WINDOW \in 1 .. WINDOW
    BY <1>0
  <2>3. new[WINDOW] = hs[h + 1]
    BY <1>2, <2>2
  <2>4. hs[h + 1] > m
    BY DEF old
  <2>5. hs[h + 1] \in Nat
    BY <1>0, ElementOfSeq
  <2> HIDE DEF m
  <2>6. j # WINDOW
    BY <1>1, <2>1, <2>3, <2>4, <2>5
  <2>7. j + 1 \in 1 .. WINDOW /\ (h + 1) - WINDOW + j = h - WINDOW + (j + 1)
    BY <1>0, <2>1, <2>6
  <2>8. old[j + 1] = new[j]
    BY <1>1, <1>2, <2>1, <2>7
  <2> QED BY <1>3, <2>1, <2>7, <2>8
<1>6. IsFiniteSet(O)
  <2>1. IsFiniteSet(1 .. WINDOW)
    BY <1>0, FS_Interval
  <2> QED BY <1>3, <2>1, FS_Subset
<1>7. Cardinality(S) <= Cardinality(O) /\ Cardinality(S) \in Nat /\ Cardinality(O) \in Nat
  <2> DEFINE f == [j \in S |-> j + 1]
  <2>1. S \subseteq Nat
    BY <1>3
  <2>2. f \in Injection(S, O)
    <3>1. f \in [S -> O]
        BY <1>5
    <3>2. \A a, b \in S : f[a] = f[b] => a = b
        BY <2>1
    <3> QED BY <3>1, <3>2 DEF Injection, IsInjective
  <2> HIDE DEF f, S, O
  <2> QED BY <1>6, <2>2, FS_Injection, FS_CardinalityType
<1>8. /\ S \subseteq DOMAIN new /\ Cardinality(S) <= Len(new) \div 2 /\ Len(new) # 0
      /\ m - 1 \in Int
  <2>1. S \subseteq DOMAIN new
    OBVIOUS
  <2>2. WINDOW \div 2 \in Nat
    BY <1>0, HalfOf
  <2> HIDE DEF S, O, m
  <2>3. Cardinality(S) <= WINDOW \div 2
    BY <1>4, <1>7, <2>2
  <2>4. Cardinality(S) <= Len(new) \div 2
    BY <1>2, <2>3
  <2>5. Len(new) # 0 /\ m - 1 \in Int
    BY <1>0, <1>1, <1>2
  <2> QED BY <2>1, <2>4, <2>5
<1>9. \A j \in DOMAIN new \ S : new[j] > m - 1
  <2>1. \A j \in DOMAIN new : new[j] \in Nat
    BY <1>2, <1>3, ElementOfSeq
  <2> QED BY <1>1, <2>1
<1>10. Current(new) > m - 1
  <2> HIDE DEF S, m
  <2> QED BY <1>2, <1>8, <1>9, MedianAbove
<1>11. Current(new) >= m
  <2> HIDE DEF m
  <2> QED BY <1>1, <1>2, <1>10
<1> QED BY <1>11 DEF old, new

Climbs(hs) ==
    \A h \in WINDOW .. Len(hs) - 1 : hs[h + 1] > Current(Window(hs, h))

LEMMA MedianClimbs ==
    ASSUME NEW hs \in Seq(Nat), Climbs(hs), NEW h \in Nat, WINDOW <= h, h <= Len(hs),
           NEW k \in Nat, h + k <= Len(hs)
    PROVE  Current(Window(hs, h + k)) >= Current(Window(hs, h))
<1> DEFINE M(i) == Current(Window(hs, i))
           T == {j \in Nat : h + j <= Len(hs) => M(h + j) >= M(h)}
<1>0. WINDOW \in Nat \ {0} /\ Len(hs) \in Nat
    BY ClockNumbers, LenProperties
<1>1. \A i \in WINDOW .. Len(hs) : M(i) \in Nat
  <2>1. WINDOW .. Len(hs) \subseteq 1 .. Len(hs)
    BY <1>0
  <2> QED BY <2>1, WindowShape
<1>2. 0 \in T
  <2>1. h + 0 = h /\ h \in WINDOW .. Len(hs)
    BY <1>0
  <2>2. M(h) \in Nat
    BY <1>1, <2>1
  <2> HIDE DEF M
  <2> QED BY <2>1, <2>2
<1>3. ASSUME NEW j \in T PROVE j + 1 \in T
  <2>1. SUFFICES ASSUME h + (j + 1) <= Len(hs) PROVE M(h + (j + 1)) >= M(h)
    OBVIOUS
  <2> DEFINE i == h + j
  <2>2. i \in Nat /\ WINDOW <= i /\ i + 1 <= Len(hs) /\ h + (j + 1) = i + 1
        /\ i \in WINDOW .. Len(hs) - 1 /\ {i, i + 1, h} \subseteq WINDOW .. Len(hs)
    BY <1>0, <2>1
  <2>3. M(i) >= M(h)
    BY <2>2
  <2> HIDE DEF i
  <2>4. hs[i + 1] > M(i)
    BY <2>2 DEF Climbs
  <2>5. M(i + 1) >= M(i)
    BY <2>2, <2>4, MedianNeverFalls
  <2>6. M(i) \in Nat /\ M(i + 1) \in Nat /\ M(h) \in Nat
    BY <1>1, <2>2
  <2> HIDE DEF M
  <2> QED BY <2>2, <2>3, <2>5, <2>6
<1>4. T \subseteq Nat
    OBVIOUS
<1> HIDE DEF T
<1>5. k \in T
    BY <1>2, <1>3, <1>4, SetInduction
<1> QED BY <1>5 DEF T

(* Half a window of headers, each above the median it met, moves it. *)
LEMMA MedianMoves ==
    ASSUME NEW hs \in Seq(Nat), Climbs(hs), NEW h \in Nat, WINDOW <= h,
           h + WINDOW \div 2 + 1 <= Len(hs)
    PROVE  Current(Window(hs, h + WINDOW \div 2 + 1)) > Current(Window(hs, h))
<1> DEFINE r == WINDOW \div 2 + 1
           g == h + WINDOW \div 2 + 1
           new == Window(hs, g)
           m == Current(Window(hs, h))
           S == 1 .. WINDOW - r
<1>0. /\ WINDOW \in Nat \ {0} /\ Len(hs) \in Nat /\ WINDOW \div 2 \in Nat
      /\ WINDOW <= 2 * (WINDOW \div 2) + 1 /\ 2 * (WINDOW \div 2) <= WINDOW
    BY ClockNumbers, LenProperties, HalfOf
<1>1. /\ r \in 1 .. WINDOW /\ WINDOW - r \in Nat /\ WINDOW - r <= WINDOW \div 2
      /\ g = h + r /\ g \in 1 .. Len(hs) /\ g >= WINDOW /\ h \in 1 .. Len(hs)
  <2> DEFINE q == WINDOW \div 2
  <2>1. q \in Nat /\ WINDOW <= 2 * q + 1 /\ 2 * q <= WINDOW /\ h + q + 1 <= Len(hs)
    BY <1>0
  <2> HIDE DEF q
  <2>2. q + 1 \in 1 .. WINDOW /\ WINDOW - (q + 1) \in Nat /\ WINDOW - (q + 1) <= q
    BY <1>0, <2>1
  <2>3. h + q + 1 = h + (q + 1) /\ h + q + 1 \in 1 .. Len(hs) /\ h + q + 1 >= WINDOW
        /\ h \in 1 .. Len(hs)
    BY <1>0, <2>1
  <2> QED BY <2>2, <2>3 DEF q
<1>2. m \in Nat
    BY <1>1, WindowShape
<1>3. /\ new \in Seq(Nat) /\ Len(new) = WINDOW
      /\ \A j \in 1 .. WINDOW : new[j] = hs[g - WINDOW + j]
  <2> HIDE DEF g
  <2> QED BY <1>1, WindowShape
<1> HIDE DEF g, r
<1>4. ASSUME NEW j \in (1 .. WINDOW) \ S PROVE new[j] > m
  <2> DEFINE k == r + j - WINDOW - 1
  <2>1. k \in Nat /\ g - WINDOW + j = h + k + 1 /\ h + k + 1 <= Len(hs) /\ h + k <= Len(hs)
        /\ h + k \in WINDOW .. Len(hs) - 1 /\ h <= Len(hs) /\ h + k \in 1 .. Len(hs)
    BY <1>0, <1>1
  <2> HIDE DEF k
  <2>2. Current(Window(hs, h + k)) >= m
    BY <2>1, MedianClimbs
  <2>3. hs[h + k + 1] > Current(Window(hs, h + k))
    BY <2>1 DEF Climbs
  <2>4. Current(Window(hs, h + k)) \in Nat
    BY <2>1, WindowShape
  <2>5. hs[h + k + 1] \in Nat
    BY <1>0, <2>1, ElementOfSeq
  <2>6. new[j] = hs[h + k + 1]
    BY <1>3, <2>1
  <2> HIDE DEF m, new
  <2> QED BY <1>2, <2>2, <2>3, <2>4, <2>5, <2>6
<1>5. /\ S \subseteq 1 .. WINDOW /\ Cardinality(S) <= WINDOW \div 2
  <2>1. Cardinality(S) = WINDOW - r
    BY <1>1, FS_Interval
  <2> QED BY <1>0, <1>1, <2>1
<1> HIDE DEF new, m, S
<1>6. DOMAIN new = 1 .. WINDOW /\ Len(new) # 0
    BY <1>0, <1>3, LenProperties
<1>7. Current(new) > m
  <2>1. S \subseteq DOMAIN new /\ \A j \in DOMAIN new \ S : new[j] > m
    BY <1>4, <1>5, <1>6
  <2>2. Cardinality(S) <= Len(new) \div 2
    BY <1>3, <1>5
  <2>3. m \in Int
    BY <1>2
  <2> QED BY <1>3, <1>6, <2>1, <2>2, <2>3, MedianAbove
<1> QED BY <1>7 DEF new, m, g

-----------------------------------------------------------------------------
(***************************************************************************)
(* The falling price                                                       *)
(***************************************************************************)

(* What a division rounds down *)
LEMMA DivBounds ==
    ASSUME NEW x \in Nat, NEW d \in Nat \ {0}
    PROVE  x \div d \in Nat /\ (x \div d) * d <= x /\ x < (x \div d) * d + d
OBVIOUS

LEMMA PriceOnLine ==
    ASSUME NEW a \in Nat, NEW b \in Nat, a > b, NEW s \in Nat, NEW e \in Nat, e > s,
           NEW h \in s .. e
    PROVE  LET span == e - s
               line == a * span - (a - b) * (h - s)
               price == a - ((a - b) * (h - s)) \div span
           IN  /\ price * span >= line /\ (price - 1) * span < line
               /\ price \in b .. a
<1> DEFINE d == a - b
           n == e - s
           x == h - s
           q == (d * x) \div n
<1>1. d \in Nat \ {0} /\ n \in Nat \ {0} /\ x \in Nat /\ x <= n
    OBVIOUS
<1>2. d * x \in Nat /\ d * x <= d * n
    BY <1>1
<1>3. q \in Nat /\ q * n <= d * x /\ d * x < q * n + n
  <2> HIDE DEF d, n, x
  <2> QED BY <1>1, <1>2, DivBounds
<1>4. q <= d
  <2> HIDE DEF d, n, x, q
  <2>1. SUFFICES ASSUME q >= d + 1 PROVE FALSE
    BY <1>1, <1>3
  <2>2. q * n >= (d + 1) * n
    BY <1>1, <1>3, <2>1
  <2>3. (d + 1) * n = d * n + n
    BY <1>1
  <2>4. q * n \in Nat /\ d * n \in Nat
    BY <1>1, <1>3
  <2> QED BY <1>1, <1>2, <1>3, <2>2, <2>3, <2>4
<1>5. a = b + d
    OBVIOUS
<1> HIDE DEF d, n, x, q
<1>6. (a - q) * n = a * n - q * n /\ (a - q - 1) * n = a * n - q * n - n
    BY <1>1, <1>3
<1>7. a * n \in Nat /\ q * n \in Nat
    BY <1>1, <1>3
<1>8. (a - q) * n >= a * n - d * x /\ ((a - q) - 1) * n < a * n - d * x
    BY <1>1, <1>2, <1>3, <1>6, <1>7
<1>9. a - q \in b .. a
    BY <1>1, <1>3, <1>4, <1>5
<1> QED BY <1>8, <1>9 DEF d, n, x, q

-----------------------------------------------------------------------------
(***************************************************************************)
(* The inductive invariant.  Medians are named by the chain of headers     *)
(* they are taken from, so that a step is a step of that chain.            *)
(***************************************************************************)
Horizon == peak + MAX_TERM_YEARS * YEAR

ClockInv ==
    /\ headers \in Seq(Nat) /\ Len(headers) \in 1 .. MaxHeight
    /\ records \in Seq(Nat \cup {Never, Unclaimed, Nothing}) /\ Len(records) = Len(headers)
    /\ \A i \in DOMAIN records : records[i] # Nothing
    /\ order \in Nat \cup {Never, Unclaimed, Nothing}
    /\ ask.start \in Nat /\ ask.end \in Nat /\ ask.start_price \in Nat /\ ask.min_price \in Nat
    /\ IsValid(ask)
    /\ peak \in Nat
    /\ Climbs(headers)
    /\ Current(Window(headers, Len(headers))) <= peak
    /\ \A h \in WINDOW .. Len(headers) : Current(Window(headers, h)) <= peak
    /\ \A i \in DOMAIN records : records[i] \in Nat => records[i] <= Horizon
    /\ order \in Nat => order <= Horizon

LEMMA MedianIs == Median = Current(Window(headers, Len(headers)))
BY DEF Median, MedianAt, WindowAt, Window, Height

LEMMA InitClockInv == ClockInit => ClockInv
<1> SUFFICES ASSUME ClockInit PROVE ClockInv
    OBVIOUS
<1>0. /\ WINDOW \in Nat \ {0} /\ MaxHeight \in Nat /\ FirstTimes \subseteq Nat
      /\ Prices \subseteq Nat /\ Ends \subseteq WINDOW .. MaxHeight /\ Nothing # Unclaimed
    BY ClockNumbers
<1>1. PICK n \in 1 .. WINDOW : headers \in [1 .. n -> FirstTimes]
    BY DEF ClockInit
<1>2. /\ ask.start_price \in Nat /\ ask.min_price \in Nat /\ ask.start = WINDOW
      /\ ask.end \in WINDOW .. MaxHeight /\ IsValid(ask)
    BY <1>0 DEF ClockInit
<1>3. WINDOW < MaxHeight /\ n \in Nat
    BY <1>0, <1>2 DEF IsValid
<1>4. headers \in Seq(Nat) /\ Len(headers) = n /\ DOMAIN headers = 1 .. n
  <2>1. headers \in [1 .. n -> Nat]
    BY <1>0, <1>1
  <2> QED BY <1>3, <2>1
<1>5. records = [i \in 1 .. n |-> Unclaimed]
    BY <1>4 DEF ClockInit
<1>6. /\ records \in Seq(Nat \cup {Never, Unclaimed, Nothing}) /\ Len(records) = n
      /\ \A i \in DOMAIN records : records[i] = Unclaimed
    BY <1>3, <1>5
<1>7. peak = Current(Window(headers, n)) /\ order = Nothing
    BY <1>4, MedianIs DEF ClockInit
<1>8. peak \in Nat
    BY <1>1, <1>4, <1>7, WindowShape
<1>9. Climbs(headers)
    BY <1>0, <1>1, <1>4 DEF Climbs
<1>10. ASSUME NEW h \in WINDOW .. n PROVE Current(Window(headers, h)) <= peak
  <2>1. h = n
    BY <1>0, <1>1
  <2> QED BY <1>7, <1>8, <2>1
<1>11. Unclaimed \notin Nat /\ Nothing \notin Nat
    BY ClockNumbers
<1>12. Len(headers) \in 1 .. MaxHeight
    BY <1>0, <1>1, <1>3, <1>4
<1> QED BY <1>0, <1>2, <1>3, <1>4, <1>6, <1>7, <1>8, <1>9, <1>10, <1>11, <1>12 DEF ClockInv

(* A window is made of the headers up to its height. *)
LEMMA WindowKept ==
    ASSUME NEW hs \in Seq(Nat), NEW gs \in Seq(Nat), NEW h \in Nat \ {0},
           h <= Len(hs), h <= Len(gs), \A i \in 1 .. h : hs[i] = gs[i]
    PROVE  Window(hs, h) = Window(gs, h)
<1> DEFINE a == IF h > WINDOW THEN h - WINDOW + 1 ELSE 1
<1>1. a \in 1 .. h
  <2>1. WINDOW \in Nat \ {0}
    BY ClockNumbers
  <2> QED BY <2>1
<1> HIDE DEF a
<1>2. SubSeq(hs, a, h) = SubSeq(gs, a, h)
  <2>1. /\ SubSeq(hs, a, h) = [j \in 1 .. h - a + 1 |-> hs[a + j - 1]]
        /\ SubSeq(gs, a, h) = [j \in 1 .. h - a + 1 |-> gs[a + j - 1]]
    BY <1>1
  <2>2. \A j \in 1 .. h - a + 1 : a + j - 1 \in 1 .. h
    BY <1>1
  <2> QED BY <2>1, <2>2
<1> QED BY <1>2 DEF Window, a

(* What a chain shares with its successor, the medians included *)
LEMMA ClimbsKept ==
    ASSUME NEW hs \in Seq(Nat), NEW gs \in Seq(Nat), Climbs(hs),
           Len(gs) <= Len(hs), \A i \in 1 .. Len(gs) : hs[i] = gs[i]
    PROVE  Climbs(gs)
<1>0. Len(gs) \in Nat /\ Len(hs) \in Nat /\ WINDOW \in Nat \ {0}
    BY LenProperties, ClockNumbers
<1>1. ASSUME NEW h \in WINDOW .. Len(gs) - 1 PROVE gs[h + 1] > Current(Window(gs, h))
  <2>0. h \in Nat /\ WINDOW <= h /\ h + 1 <= Len(gs)
    BY <1>0
  <2>1. /\ h \in Nat \ {0} /\ h <= Len(gs) /\ h <= Len(hs) /\ h + 1 \in 1 .. Len(gs)
        /\ h \in WINDOW .. Len(hs) - 1 /\ \A i \in 1 .. h : i \in 1 .. Len(gs)
    <3>1. h \in Nat \ {0} /\ h <= Len(gs) /\ h <= Len(hs)
        BY <1>0, <2>0
    <3>2. h + 1 \in 1 .. Len(gs)
        BY <1>0, <2>0
    <3>3. h \in WINDOW .. Len(hs) - 1
        BY <1>0, <2>0
    <3>4. \A i \in 1 .. h : i \in 1 .. Len(gs)
        BY <1>0, <2>0
    <3> QED BY <3>1, <3>2, <3>3, <3>4
  <2>2. hs[h + 1] > Current(Window(hs, h))
    BY <2>1 DEF Climbs
  <2>3. Window(hs, h) = Window(gs, h)
    BY <2>1, WindowKept
  <2> QED BY <2>1, <2>2, <2>3
<1> QED BY <1>1 DEF Climbs

LEMMA ClimbsOn ==
    ASSUME NEW hs \in Seq(Nat), Climbs(hs), NEW t \in Nat,
           Len(hs) # 0, t > Current(Window(hs, Len(hs)))
    PROVE  Climbs(Append(hs, t))
<1> DEFINE gs == Append(hs, t)
           n == Len(hs)
<1>0. n \in Nat \ {0} /\ WINDOW \in Nat \ {0} /\ gs \in Seq(Nat) /\ Len(gs) = n + 1
      /\ gs[n + 1] = t /\ \A i \in 1 .. n : gs[i] = hs[i]
    BY LenProperties, AppendProperties, ClockNumbers
<1> HIDE DEF gs
<1>1. ASSUME NEW h \in WINDOW .. Len(gs) - 1 PROVE gs[h + 1] > Current(Window(gs, h))
  <2>1. h \in Nat \ {0} /\ h <= n /\ h <= Len(gs) /\ \A i \in 1 .. h : i \in 1 .. n
    BY <1>0
  <2>2. Window(gs, h) = Window(hs, h)
    BY <1>0, <2>1, WindowKept
  <2>3. CASE h = n
    BY <1>0, <2>2, <2>3
  <2>4. CASE h # n
    <3>1. h \in WINDOW .. n - 1 /\ h + 1 \in 1 .. n
        BY <1>0, <2>1, <2>4
    <3> QED BY <1>0, <2>2, <3>1 DEF Climbs
  <2> QED BY <2>3, <2>4
<1> QED BY <1>1 DEF Climbs, gs

LEMMA ApplyBlockInv ==
    ASSUME ClockInv, NEW t \in Nat, NEW mined \in BOOLEAN, ApplyBlock(t, mined)
    PROVE  ClockInv'
<1> DEFINE n == Len(headers)
           E == Nat \cup {Never, Unclaimed, Nothing}
           r == IF mined THEN order ELSE Last(records)
<1>0. /\ n \in Nat \ {0} /\ headers \in Seq(Nat) /\ MaxHeight \in Nat /\ WINDOW \in Nat \ {0}
      /\ n + 1 <= MaxHeight /\ records \in Seq(E) /\ Len(records) = n
      /\ n \in 1 .. n
    BY ClockNumbers DEF ClockInv, ApplyBlock, Height
<1>1. headers' = Append(headers, t) /\ records' = Append(records, r)
      /\ UNCHANGED ask /\ order' = (IF mined THEN Nothing ELSE order)
    BY DEF ApplyBlock
<1>2. t > Current(Window(headers, n))
    BY MedianIs DEF ApplyBlock, HeaderTimeOk
<1>3. /\ headers' \in Seq(Nat) /\ Len(headers') = n + 1 /\ \A i \in 1 .. n : headers'[i] = headers[i]
    BY <1>0, <1>1, AppendProperties
<1>4. r \in E /\ r # Nothing /\ (r \in Nat => r <= Horizon)
  <2>1. CASE mined
    BY <2>1 DEF ClockInv, ApplyBlock
  <2>2. CASE ~mined
    <3>1. r = records[n] /\ n \in DOMAIN records
        BY <1>0, <2>2, LenProperties DEF Last
    <3>2. records[n] \in E
        BY <1>0, ElementOfSeq
    <3> QED BY <3>1, <3>2 DEF ClockInv
  <2> QED BY <2>1, <2>2
<1> HIDE DEF r, E
<1>5. /\ records' \in Seq(E) /\ Len(records') = n + 1 /\ records'[n + 1] = r
      /\ \A i \in 1 .. n : records'[i] = records[i]
    BY <1>0, <1>1, <1>4, AppendProperties
<1>6. Climbs(headers')
    BY <1>0, <1>1, <1>2, ClimbsOn DEF ClockInv
<1>7. Median' = Current(Window(headers', n + 1)) /\ Median' \in Nat
  <2>1. (Median = Current(Window(headers, Len(headers))))'
    BY MedianIs, PTL
  <2>2. n + 1 \in 1 .. Len(headers')
    BY <1>0, <1>3
  <2> QED BY <1>3, <2>1, <2>2, WindowShape
<1>8. peak' \in Nat /\ peak' >= peak /\ peak' >= Median'
  <2>1. peak' = (IF Median' > peak THEN Median' ELSE peak) /\ peak \in Nat
    BY DEF ApplyBlock, ClockInv
  <2> QED BY <1>7, <2>1
<1>9. ASSUME NEW h \in WINDOW .. n + 1 PROVE Current(Window(headers', h)) <= peak'
  <2>1. CASE h = n + 1
    BY <1>7, <1>8, <2>1
  <2>2. CASE h # n + 1
    <3>1. h \in WINDOW .. n /\ h \in Nat \ {0} /\ h <= n /\ h <= Len(headers')
          /\ h \in 1 .. n /\ \A i \in 1 .. h : i \in 1 .. n
        BY <1>0, <1>3, <2>2
    <3>2. Window(headers', h) = Window(headers, h)
        BY <1>0, <1>3, <3>1, WindowKept
    <3>3. Current(Window(headers, h)) <= peak /\ peak \in Nat
        BY <3>1 DEF ClockInv
    <3>4. Current(Window(headers, h)) \in Nat
        BY <1>0, <3>1, WindowShape
    <3> QED BY <1>8, <3>2, <3>3, <3>4
  <2> QED BY <2>1, <2>2
<1>10. Horizon \in Nat /\ Horizon' \in Nat /\ Horizon <= Horizon'
  <2>1. MAX_TERM_YEARS * YEAR \in Nat
    BY ClockNumbers
  <2>2. peak \in Nat
    BY DEF ClockInv
  <2> QED BY <1>8, <2>1, <2>2 DEF Horizon
<1>11. ASSUME NEW i \in 1 .. n + 1
       PROVE  records'[i] # Nothing /\ (records'[i] \in Nat => records'[i] <= Horizon')
  <2>1. CASE i = n + 1
    BY <1>4, <1>5, <1>10, <2>1
  <2>2. CASE i # n + 1
    <3>1. i \in 1 .. n /\ i \in DOMAIN records
        BY <1>0, <2>2, LenProperties
    <3>2. records[i] # Nothing /\ (records[i] \in Nat => records[i] <= Horizon)
        BY <3>1 DEF ClockInv
    <3> QED BY <1>5, <1>10, <3>1, <3>2
  <2> QED BY <2>1, <2>2
<1>12. DOMAIN records' = 1 .. n + 1
    BY <1>5, LenProperties
<1>13. order' \in E /\ (order' \in Nat => order' <= Horizon')
  <2>1. Nothing \notin Nat
    BY ClockNumbers
  <2> QED BY <1>1, <1>10, <2>1 DEF ClockInv, E
<1>14. n + 1 \in 1 .. MaxHeight
    BY <1>0
<1>15. Current(Window(headers', Len(headers'))) <= peak'
    BY <1>3, <1>7, <1>8
<1>16. \A h \in WINDOW .. Len(headers') : Current(Window(headers', h)) <= peak'
    BY <1>3, <1>9
<1>17. /\ ask'.start \in Nat /\ ask'.end \in Nat /\ ask'.start_price \in Nat
       /\ ask'.min_price \in Nat /\ IsValid(ask')
    BY <1>1 DEF ClockInv
<1>18. \A i \in DOMAIN records' : records'[i] # Nothing /\ (records'[i] \in Nat => records'[i] <= Horizon')
    BY <1>11, <1>12
<1> QED BY <1>3, <1>5, <1>6, <1>8, <1>13, <1>14, <1>15, <1>16, <1>17, <1>18 DEF ClockInv, E

LEMMA RewindInv ==
    ASSUME ClockInv, NEW h \in Nat, Rewind(h)
    PROVE  ClockInv'
<1> DEFINE n == Len(headers)
           E == Nat \cup {Never, Unclaimed, Nothing}
<1>0. /\ n \in Nat \ {0} /\ headers \in Seq(Nat) /\ WINDOW \in Nat \ {0} /\ n <= MaxHeight
      /\ records \in Seq(E) /\ Len(records) = n /\ MaxHeight \in Nat
    BY ClockNumbers DEF ClockInv
<1>1. h \in WINDOW .. n - 1 /\ h \in 1 .. n /\ h + 1 - 1 = h
    BY <1>0 DEF Rewind, Height
<1>2. /\ headers' \in Seq(Nat) /\ Len(headers') = h /\ \A i \in 1 .. h : headers'[i] = headers[i]
  <2>1. headers' = SubSeq(headers, 1, h)
    BY DEF Rewind
  <2> QED BY <1>0, <1>1, <2>1, SubSeqProperties
<1> HIDE DEF E
<1>3. /\ records' \in Seq(E) /\ Len(records') = h /\ \A i \in 1 .. h : records'[i] = records[i]
  <2>1. records' = SubSeq(records, 1, h)
    BY DEF Rewind
  <2> QED BY <1>0, <1>1, <2>1, SubSeqProperties
<1>4. Climbs(headers')
  <2>1. Len(headers') <= Len(headers) /\ Climbs(headers)
    BY <1>0, <1>1, <1>2 DEF ClockInv
  <2> QED BY <1>0, <1>2, <2>1, ClimbsKept
<1>5. ASSUME NEW k \in WINDOW .. h PROVE Current(Window(headers', k)) <= peak
  <2>1. k \in WINDOW .. n /\ k \in Nat \ {0} /\ k <= n /\ k <= Len(headers')
        /\ \A i \in 1 .. k : i \in 1 .. h
    BY <1>0, <1>1, <1>2
  <2>2. Window(headers', k) = Window(headers, k)
    BY <1>0, <1>2, <2>1, WindowKept
  <2> QED BY <2>1, <2>2 DEF ClockInv
<1>6. UNCHANGED <<order, ask, peak>>
    BY DEF Rewind
<1>7. \A i \in DOMAIN records' : records'[i] # Nothing /\ (records'[i] \in Nat => records'[i] <= Horizon)
  <2>1. DOMAIN records' = 1 .. h /\ 1 .. h \subseteq DOMAIN records
    BY <1>0, <1>1, <1>3, LenProperties
  <2> QED BY <1>3, <2>1 DEF ClockInv
<1>8. Len(headers') \in 1 .. MaxHeight /\ h \in WINDOW .. h
    BY <1>0, <1>1, <1>2
<1>9. Horizon' = Horizon
    BY <1>6 DEF Horizon
<1>10. Current(Window(headers', Len(headers'))) <= peak'
    BY <1>2, <1>5, <1>6, <1>8
<1>11. \A k \in WINDOW .. Len(headers') : Current(Window(headers', k)) <= peak'
    BY <1>2, <1>5, <1>6
<1>12. /\ ask'.start \in Nat /\ ask'.end \in Nat /\ ask'.start_price \in Nat
       /\ ask'.min_price \in Nat /\ IsValid(ask') /\ peak' \in Nat
       /\ order' \in E /\ (order' \in Nat => order' <= Horizon')
    BY <1>6, <1>9 DEF ClockInv, E
<1> QED BY <1>2, <1>3, <1>4, <1>7, <1>8, <1>9, <1>10, <1>11, <1>12 DEF ClockInv, E

(* An order that keeps within the horizon keeps the invariant. *)
LEMMA OrderInv ==
    ASSUME ClockInv, UNCHANGED <<headers, records, ask, peak>>,
           order' \in Nat \cup {Never, Unclaimed, Nothing}, order' \in Nat => order' <= Horizon
    PROVE  ClockInv'
<1>1. Horizon' = Horizon
    BY DEF Horizon
<1> QED BY <1>1 DEF ClockInv

LEMMA TipMedian ==
    ASSUME ClockInv
    PROVE  Median \in Nat /\ Median <= peak
<1>1. headers \in Seq(Nat) /\ Len(headers) \in 1 .. Len(headers)
    BY LenProperties DEF ClockInv
<1> QED BY <1>1, MedianIs, WindowShape DEF ClockInv

LEMMA AuthorizeClaimInv ==
    ASSUME ClockInv, NEW term \in Terms, AuthorizeClaim(term)
    PROVE  ClockInv'
<1>1. Median \in Nat /\ Median <= peak /\ peak \in Nat
    BY TipMedian DEF ClockInv
<1>2. order' = ClaimExpiry(term, Median) /\ UNCHANGED <<headers, records, ask, peak>>
    BY DEF AuthorizeClaim
<1>3. CASE term = Forever
  <2>1. order' = Never /\ Never \notin Nat
    BY <1>2, <1>3, ClockNumbers DEF ClaimExpiry
  <2> QED BY <1>2, <2>1, OrderInv
<1>4. CASE term # Forever
  <2>1. /\ term \in 1 .. MAX_TERM_YEARS /\ YEAR \in Nat \ {0} /\ MAX_TERM_YEARS \in Nat \ {0}
        /\ term \in Nat
    BY <1>4, ClockNumbers DEF Terms
  <2>2. term * YEAR \in Nat /\ term * YEAR <= MAX_TERM_YEARS * YEAR /\ MAX_TERM_YEARS * YEAR \in Nat
    BY <2>1
  <2>3. order' = Median + term * YEAR
    BY <1>2, <1>4 DEF ClaimExpiry, Duration
  <2>4. order' \in Nat /\ order' <= Horizon
    BY <1>1, <2>2, <2>3 DEF Horizon
  <2> QED BY <1>2, <2>4, OrderInv
<1> QED BY <1>3, <1>4

LEMMA AuthorizeUpdateInv ==
    ASSUME ClockInv, NEW term \in Terms \cup {Nothing}, AuthorizeUpdate(term)
    PROVE  ClockInv'
<1> DEFINE e == Last(records)
           x == ExtendFreely(e, term)
<1>1. Median \in Nat /\ Median <= peak /\ peak \in Nat
    BY TipMedian DEF ClockInv
<1>2. order' = Extend(e, term, Median) /\ UNCHANGED <<headers, records, ask, peak>> /\ e # Unclaimed
    BY DEF AuthorizeUpdate
<1>3. /\ MAX_TERM_YEARS * YEAR \in Nat /\ YEAR \in Nat /\ Years \subseteq Nat
      /\ Nothing \notin Nat /\ Never \notin Nat
    BY ClockNumbers
<1>4. e \in Nat \cup {Never}
  <2>1. /\ records \in Seq(Nat \cup {Never, Unclaimed, Nothing}) /\ Len(records) \in 1 .. Len(records)
        /\ DOMAIN records = 1 .. Len(records)
    BY LenProperties DEF ClockInv
  <2>2. e = records[Len(records)] /\ e \in Nat \cup {Never, Unclaimed, Nothing}
    BY <2>1, ElementOfSeq DEF Last
  <2>3. e # Nothing
    BY <2>1, <2>2 DEF ClockInv
  <2> HIDE DEF e
  <2> QED BY <1>2, <2>2, <2>3
<1> HIDE DEF e
<1>5. x \in Nat \cup {Never, Nothing}
  <2>1. CASE term = Nothing \/ e = Never \/ term = Forever
    BY <1>4, <2>1 DEF ExtendFreely
  <2>2. CASE ~(term = Nothing \/ e = Never \/ term = Forever)
    <3>1. term \in Nat /\ e \in Nat /\ x = e + term * YEAR
        BY <1>3, <1>4, <2>2 DEF ExtendFreely, Duration, Terms
    <3>2. term * YEAR \in Nat
        BY <1>3, <3>1
    <3> QED BY <3>1, <3>2
  <2> QED BY <2>1, <2>2
<1>6. order' = IF x \in Nat /\ x > Median + MAX_TERM_YEARS * YEAR THEN Nothing ELSE x
    BY <1>2 DEF Extend
<1> HIDE DEF x
<1>7. order' \in Nat \cup {Never, Unclaimed, Nothing}
    BY <1>5, <1>6
<1>8. ASSUME order' \in Nat PROVE order' <= Horizon
  <2>1. order' = x /\ ~(x > Median + MAX_TERM_YEARS * YEAR)
    BY <1>3, <1>6, <1>8
  <2> QED BY <1>1, <1>3, <1>8, <2>1 DEF Horizon
<1> QED BY <1>2, <1>7, <1>8, OrderInv

LEMMA NextClockInv == ClockInv /\ [ClockNext]_clockVars => ClockInv'
<1> SUFFICES ASSUME ClockInv, [ClockNext]_clockVars PROVE ClockInv'
    OBVIOUS
<1>1. CASE \E t \in Median .. Median + MAX_TIME_SINCE_MEDIAN + 1, mined \in BOOLEAN :
              ApplyBlock(t, mined)
  <2>0. Median \in Nat
    BY TipMedian
  <2>1. PICK t \in Int, mined \in BOOLEAN : ApplyBlock(t, mined)
    BY <1>1, <2>0
  <2>2. t > Median /\ Median \in Nat
    BY <2>0, <2>1 DEF ApplyBlock, HeaderTimeOk
  <2>3. t \in Nat
    BY <2>2
  <2> QED BY <2>1, <2>3, ApplyBlockInv
<1>2. CASE \E h \in 1 .. MaxHeight : Rewind(h)
  <2>1. PICK h \in Nat : Rewind(h)
    BY <1>2, ClockNumbers
  <2> QED BY <2>1, RewindInv
<1>3. CASE \E term \in Terms : AuthorizeClaim(term)
    BY <1>3, AuthorizeClaimInv
<1>4. CASE \E term \in Terms \cup {Nothing} : AuthorizeUpdate(term)
    BY <1>4, AuthorizeUpdateInv
<1>5. CASE ReleaseExpired
  <2>1. order' = Unclaimed /\ UNCHANGED <<headers, records, ask, peak>> /\ Unclaimed \notin Nat
    BY <1>5, ClockNumbers DEF ReleaseExpired
  <2> QED BY <2>1, OrderInv
<1>6. CASE UNCHANGED clockVars
    BY <1>6 DEF ClockInv, clockVars, Horizon
<1> QED BY <1>1, <1>2, <1>3, <1>4, <1>5, <1>6 DEF ClockNext

LEMMA ClockAlways == ClockSpec => []ClockInv
BY InitClockInv, NextClockInv, PTL DEF ClockSpec

LEMMA InvGivesAdvance == ClockInv => MedianAdvances
<1> SUFFICES ASSUME ClockInv PROVE MedianAdvances
    OBVIOUS
<1>0. /\ headers \in Seq(Nat) /\ Len(headers) \in Nat /\ Climbs(headers)
      /\ WINDOW \in Nat \ {0} /\ WINDOW \div 2 \in Nat
    BY ClockNumbers, LenProperties, HalfOf DEF ClockInv
<1>1. \A h : MedianAt(h) = Current(Window(headers, h))
    BY DEF MedianAt, WindowAt, Window
<1>2. ASSUME NEW h \in WINDOW + 1 .. Height PROVE MedianAt(h) >= MedianAt(h - 1)
  <2> DEFINE g == h - 1
  <2>1. g \in Nat /\ WINDOW <= g /\ g + 1 <= Len(headers) /\ g + 1 = h /\ g \in WINDOW .. Len(headers) - 1
    BY <1>0, <1>2 DEF Height
  <2> HIDE DEF g
  <2>2. Current(Window(headers, g + 1)) >= Current(Window(headers, g))
    BY <1>0, <2>1, MedianNeverFalls DEF Climbs
  <2> QED BY <1>1, <2>1, <2>2 DEF g
<1>3. ASSUME NEW h \in WINDOW .. Height, h + WINDOW \div 2 + 1 <= Height
      PROVE  MedianAt(h + WINDOW \div 2 + 1) > MedianAt(h)
  <2>1. h \in Nat /\ WINDOW <= h /\ h + WINDOW \div 2 + 1 <= Len(headers)
    BY <1>0, <1>3 DEF Height
  <2> QED BY <1>0, <1>1, <2>1, MedianMoves
<1> QED BY <1>2, <1>3 DEF MedianAdvances

LEMMA InvGivesTerm == ClockInv => UpdateKeepsTerm
<1> SUFFICES ASSUME ClockInv PROVE UpdateKeepsTerm
    OBVIOUS
<1>1. ClockTypeOK
  <2>1. Range(records) \cup {order} \subseteq Nat \cup {Never, Unclaimed, Nothing}
    <3>1. \A i \in DOMAIN records : records[i] \in Nat \cup {Never, Unclaimed, Nothing}
        BY ElementOfSeq, LenProperties DEF ClockInv
    <3> QED BY <3>1 DEF ClockInv, Range
  <2> QED BY <2>1 DEF ClockInv, ClockTypeOK, Height, Range
<1>2. ASSUME Last(records) # Unclaimed, Median = peak
      PROVE  Extend(Last(records), Nothing, Median) = Last(records)
  <2>1. Len(records) \in DOMAIN records /\ Last(records) = records[Len(records)]
    BY LenProperties DEF ClockInv, Last
  <2>2. Last(records) \in Nat => Last(records) <= Median + MAX_TERM_YEARS * YEAR
    BY <1>2, <2>1 DEF ClockInv, Horizon
  <2>3. ExtendFreely(Last(records), Nothing) = Last(records)
    BY DEF ExtendFreely
  <2>4. MAX_TERM_YEARS * YEAR \in Nat /\ peak \in Nat
    BY ClockNumbers DEF ClockInv
  <2> QED BY <1>2, <2>2, <2>3, <2>4 DEF Extend
<1> QED BY <1>1, <1>2 DEF UpdateKeepsTerm

LEMMA InvGivesLine == ClockInv => PriceFollowsLine
<1> SUFFICES ASSUME ClockInv, Height \in ask.start .. ask.end
             PROVE  LET span == ask.end - ask.start
                        line == ask.start_price * span
                                  - (ask.start_price - ask.min_price) * (Height - ask.start)
                        price == PriceAt(ask, Height)
                    IN  /\ price * span >= line /\ (price - 1) * span < line
                        /\ price \in ask.min_price .. ask.start_price
    BY DEF PriceFollowsLine
<1>1. /\ ask.start_price \in Nat /\ ask.min_price \in Nat /\ ask.start_price > ask.min_price
      /\ ask.start \in Nat /\ ask.end \in Nat /\ ask.end > ask.start
    BY DEF ClockInv, IsValid
<1> QED BY <1>1, PriceOnLine DEF PriceAt

-----------------------------------------------------------------------------
(***************************************************************************)
(* The theorems                                                            *)
(***************************************************************************)

(* Whatever the headers say within header_time_ok, and however the chain    *)
(* is rewound, the median that MtpTracker::current reads never falls from   *)
(* one applied block to the next, and half a window of blocks moves it.     *)
THEOREM MedianAlwaysAdvances == ClockSpec => []MedianAdvances
BY ClockAlways, InvGivesAdvance, PTL

(* Expiry::extend without a term leaves every live name's period as it is,  *)
(* for any horizon, unless a reorg has set the clock back.                  *)
THEOREM UpdatesKeepTheTerm == ClockSpec => []UpdateKeepsTerm
BY ClockAlways, InvGivesTerm, PTL

(* Clock::price_at follows the line from the start price to the least,      *)
(* rounded up, whatever the prices and the span of a clock listing.         *)
THEOREM PriceFollowsTheLine == ClockSpec => []PriceFollowsLine
BY ClockAlways, InvGivesLine, PTL
==============================================================================
