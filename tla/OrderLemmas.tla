----------------------------- MODULE OrderLemmas -----------------------------
(***************************************************************************)
(* Facts that the proofs of several components rest on.                    *)
(*                                                                         *)
(* Numbers: a set of numbers has a least element, a bounded one a          *)
(* greatest, and what holds of 0 and passes from each number to the next   *)
(* holds of all.                                                           *)
(*                                                                         *)
(* Queues: what Append, Tail, Retain and removal keep of a sequence.       *)
(***************************************************************************)
EXTENDS Queues, SequencesExt, FiniteSetTheorems, SequenceTheorems, TLAPS

LEMMA HasLeast ==
    ASSUME NEW T, T \subseteq Nat, T # {}
    PROVE  \E x \in T : \A y \in T : x <= y
<1> DEFINE R == {ss \in Nat \X Nat : ss[1] < ss[2]}
<1>1. IsWellFoundedOn(R, Nat)
    BY NatLessThanWellFounded DEF OpToRel
<1> HIDE DEF R
<1>2. PICK x \in T : \A y \in T : ~(<<y, x>> \in R)
    BY <1>1, WFMin
<1>3. \A y \in Nat : y < x => <<y, x>> \in R
    BY <1>2 DEF R
<1>4. ASSUME NEW y \in T PROVE x <= y
  <2>1. x \in Nat /\ y \in Nat
    BY <1>2
  <2>2. ~(y < x)
    BY <1>2, <1>3, <2>1
  <2> QED
    BY <2>1, <2>2
<1> QED
    BY <1>4

LEMMA HasGreatest ==
    ASSUME NEW m \in Nat, NEW T, T \subseteq 0 .. m, T # {}
    PROVE  \E x \in T : \A y \in T : x >= y
<1> DEFINE D == {m - t : t \in T}
<1>1. D \subseteq Nat /\ D # {}
  <2>1. \A t \in T : m - t \in Nat
    OBVIOUS
  <2>2. D \subseteq Nat
    BY <2>1
  <2>3. D # {}
    <3>1. PICK t : t \in T
        OBVIOUS
    <3>2. m - t \in D
        BY <3>1
    <3> QED BY <3>2
  <2> QED BY <2>2, <2>3
<1> HIDE DEF D
<1>2. PICK d \in D : \A e \in D : d <= e
    BY <1>1, HasLeast
<1>3. PICK t \in T : d = m - t
    BY <1>2 DEF D
<1>4. \A y \in T : m - y \in D
    BY DEF D
<1>5. \A y \in T : t >= y
    BY <1>2, <1>3, <1>4
<1> QED
    BY <1>5

(* Induction, for a property given as the set of numbers that have it *)
LEMMA SetInduction ==
    ASSUME NEW T, T \subseteq Nat, 0 \in T, \A n \in T : n + 1 \in T
    PROVE  T = Nat
<1> DEFINE B == Nat \ T
<1>1. SUFFICES ASSUME B # {} PROVE FALSE
    OBVIOUS
<1>2. PICK b \in B : \A c \in B : b <= c
  <2>1. B \subseteq Nat
    OBVIOUS
  <2> HIDE DEF B
  <2> QED BY <1>1, <2>1, HasLeast
<1>3. b \in Nat \ {0} /\ b - 1 \in Nat /\ b - 1 \notin B
    BY <1>2
<1>4. b - 1 \in T
    BY <1>3
<1>5. (b - 1) + 1 \in T
    BY <1>4
<1> QED
    BY <1>2, <1>3, <1>5

(* The values of a finite sequence are bounded. *)
LEMMA ValuesBounded ==
    ASSUME NEW n \in Nat, NEW f \in [1 .. n -> Nat]
    PROVE  \E m \in Nat : \A i \in 1 .. n : f[i] <= m
<1> DEFINE T == {k \in Nat : k <= n => \E m \in Nat : \A i \in 1 .. k : f[i] <= m}
<1>1. 0 \in T
  <2>1. \A i \in 1 .. 0 : f[i] <= 0
    OBVIOUS
  <2> QED BY <2>1
<1>2. ASSUME NEW k \in T PROVE k + 1 \in T
  <2>1. SUFFICES ASSUME k + 1 <= n PROVE \E m \in Nat : \A i \in 1 .. k + 1 : f[i] <= m
    OBVIOUS
  <2>2. PICK m \in Nat : \A i \in 1 .. k : f[i] <= m
    BY <2>1
  <2>3. f[k + 1] \in Nat
    BY <2>1
  <2> DEFINE b == IF m >= f[k + 1] THEN m ELSE f[k + 1]
  <2>4. b \in Nat /\ b >= m /\ b >= f[k + 1]
    BY <2>3
  <2> HIDE DEF b
  <2>5. ASSUME NEW i \in 1 .. k + 1 PROVE f[i] <= b
    <3>1. CASE i = k + 1
        BY <2>4, <3>1
    <3>2. CASE i # k + 1
      <4>1. i \in 1 .. k /\ f[i] \in Nat
        BY <2>1, <3>2
      <4> QED BY <2>2, <2>4, <4>1
    <3> QED BY <3>1, <3>2
  <2> QED BY <2>4, <2>5
<1>3. T \subseteq Nat
    OBVIOUS
<1> HIDE DEF T
<1>4. n \in T
    BY <1>1, <1>2, <1>3, SetInduction
<1> QED
    BY <1>4 DEF T

(* Induction over sequences, for a property given as a set of sequences *)
LEMMA SeqInduction ==
    ASSUME NEW S, NEW T, T \subseteq Seq(S), << >> \in T,
           \A s \in T, e \in S : Append(s, e) \in T
    PROVE  T = Seq(S)
<1> DEFINE K == {k \in Nat : \A s \in Seq(S) : Len(s) = k => s \in T}
<1>1. 0 \in K
  <2>1. \A s \in Seq(S) : Len(s) = 0 => s = << >>
    OBVIOUS
  <2> QED BY <2>1
<1>2. ASSUME NEW k \in K PROVE k + 1 \in K
  <2>1. SUFFICES ASSUME NEW s \in Seq(S), Len(s) = k + 1 PROVE s \in T
    OBVIOUS
  <2>2. s # << >>
    BY <2>1, EmptySeq
  <2>3. PICK f \in Seq(S), e \in S : s = Append(f, e)
    BY <2>2, SequenceEmptyOrAppend
  <2>4. Len(s) = Len(f) + 1 /\ Len(f) \in Nat
    BY <2>3, AppendProperties, LenProperties
  <2>5. f \in T
    BY <2>1, <2>4
  <2> QED BY <2>3, <2>5
<1>3. K \subseteq Nat
    OBVIOUS
<1> HIDE DEF K
<1>4. K = Nat
    BY <1>1, <1>2, <1>3, SetInduction
<1>5. \A s \in Seq(S) : Len(s) \in Nat
    OBVIOUS
<1> QED
    BY <1>4, <1>5 DEF K

LEMMA IntervalsAlike == \A a, b \in Nat : 1 .. a = 1 .. b => a = b
<1> SUFFICES ASSUME NEW a \in Nat, NEW b \in Nat, 1 .. a = 1 .. b, a < b PROVE FALSE
    OBVIOUS
<1>1. b \in 1 .. b /\ b \notin 1 .. a
    OBVIOUS
<1> QED BY <1>1

LEMMA FunctionIsSeq ==
    ASSUME NEW S, NEW n \in Nat, NEW f \in [1 .. n -> S]
    PROVE  f \in Seq(S) /\ Len(f) = n
<1>1. f \in Seq(S)
    BY SeqDef
<1>2. Len(f) \in Nat /\ DOMAIN f = 1 .. Len(f) /\ DOMAIN f = 1 .. n
    BY <1>1, LenProperties
<1> QED BY <1>1, <1>2, IntervalsAlike

LEMMA ConcatAppend ==
    ASSUME NEW S, NEW s \in Seq(S), NEW t \in Seq(S), NEW e \in S
    PROVE  s \o Append(t, e) = Append(s \o t, e) /\ s \o << >> = s /\ s \o t \in Seq(S)
<1>1. <<e>> \in Seq(S) /\ s \o t \in Seq(S)
    BY ConcatProperties
<1>2. Append(t, e) = t \o <<e>> /\ Append(s \o t, e) = (s \o t) \o <<e>>
    BY <1>1, AppendIsConcat
<1>3. (s \o t) \o <<e>> = s \o (t \o <<e>>)
    BY <1>1, ConcatAssociative
<1> QED BY <1>1, <1>2, <1>3, ConcatEmptySeq

LEMMA SetToSeqIs ==
    ASSUME NEW S, IsFiniteSet(S)
    PROVE  /\ SetToSeq(S) \in Seq(S)
           /\ Len(SetToSeq(S)) = Cardinality(S)
           /\ \A x \in S : \E i \in 1 .. Len(SetToSeq(S)) : SetToSeq(S)[i] = x
           /\ \A i, j \in 1 .. Len(SetToSeq(S)) : SetToSeq(S)[i] = SetToSeq(S)[j] => i = j
<1> DEFINE n == Cardinality(S)
           s == SetToSeq(S)
<1>1. n \in Nat /\ ExistsBijection(1 .. n, S)
    BY FS_CardinalityType
<1>2. \E f \in [1 .. n -> S] : IsInjective(f)
    BY <1>1 DEF ExistsBijection, Bijection, Injection
<1>3. s \in [1 .. n -> S] /\ IsInjective(s)
    BY <1>2 DEF SetToSeq
<1> HIDE DEF s
<1>4. s \in Seq(S) /\ Len(s) = n
  <2>1. s \in Seq(S)
    BY <1>1, <1>3, SeqDef
  <2>2. Len(s) \in Nat /\ DOMAIN s = 1 .. Len(s) /\ DOMAIN s = 1 .. n
    BY <1>3, <2>1, LenProperties
  <2> QED BY <1>1, <2>1, <2>2
<1>5. s \in Surjection(1 .. n, S)
  <2>1. s \in Injection(1 .. n, S)
    BY <1>3 DEF Injection
  <2>2. Cardinality(1 .. n) = Cardinality(S)
    <3>1. IsFiniteSet(1 .. n) /\ Cardinality(1 .. n) = IF 1 > n THEN 0 ELSE n - 1 + 1
        BY <1>1, FS_Interval
    <3> QED BY <1>1, <3>1
  <2> QED BY <2>1, <2>2, FS_Injection
<1>6. \A i, j \in 1 .. n : s[i] = s[j] => i = j
    BY <1>3 DEF IsInjective
<1> QED BY <1>4, <1>5, <1>6 DEF Surjection, s

-----------------------------------------------------------------------------
(***************************************************************************)
(* Retain keeps the entries of a queue at the places it is given, each     *)
(* once and in order, and no other.                                        *)
(***************************************************************************)
RetainStep(r, e, k, places) == IF k \in places THEN Append(r, e) ELSE r

IsRetain(g, s, n, places) ==
    g = [k \in 0 .. n |-> IF k = 0 THEN << >> ELSE RetainStep(g[k - 1], s[k], k, places)]

LEMMA RetainExists ==
    ASSUME NEW s, NEW n \in Nat, NEW places
    PROVE  \E g : IsRetain(g, s, n, places)
<1> DEFINE T == {k \in Nat : \E g : IsRetain(g, s, k, places)}
<1>1. 0 \in T
  <2> DEFINE g == [k \in 0 .. 0 |-> << >>]
  <2>1. IsRetain(g, s, 0, places)
    BY DEF IsRetain
  <2> QED BY <2>1
<1>2. ASSUME NEW m \in T PROVE m + 1 \in T
  <2>1. PICK f : IsRetain(f, s, m, places)
    OBVIOUS
  <2>2. m \in Nat
    OBVIOUS
  <2> DEFINE g == [k \in 0 .. m + 1 |-> IF k = m + 1 THEN RetainStep(f[m], s[m + 1], m + 1, places) ELSE f[k]]
  <2>3. \A k \in 0 .. m : g[k] = f[k]
    BY <2>2
  <2>4. g[m + 1] = RetainStep(f[m], s[m + 1], m + 1, places)
    BY <2>2
  <2>5. \A k \in 0 .. m : f[k] = IF k = 0 THEN << >> ELSE RetainStep(f[k - 1], s[k], k, places)
    BY <2>1 DEF IsRetain
  <2> DEFINE G == [k \in 0 .. m + 1 |-> IF k = 0 THEN << >> ELSE RetainStep(g[k - 1], s[k], k, places)]
  <2>6. ASSUME NEW k \in 0 .. m + 1 PROVE g[k] = G[k]
    <3> HIDE DEF g
    <3>1. CASE k = m + 1
      <4>1. k # 0 /\ k - 1 = m /\ m \in 0 .. m
        BY <2>2, <3>1
      <4> QED BY <2>3, <2>4, <3>1, <4>1
    <3>2. CASE k # m + 1
      <4>1. k \in 0 .. m /\ (k # 0 => k - 1 \in 0 .. m)
        BY <2>2, <3>2
      <4> QED BY <2>3, <2>5, <4>1
    <3> QED BY <3>1, <3>2
  <2>7. g = G
    BY <2>6
  <2>8. IsRetain(g, s, m + 1, places)
    <3> HIDE DEF g
    <3> QED BY <2>7 DEF IsRetain
  <2> QED BY <2>2, <2>8
<1>3. T \subseteq Nat
    OBVIOUS
<1> HIDE DEF T
<1>4. n \in T
    BY <1>1, <1>2, <1>3, SetInduction
<1> QED BY <1>4 DEF T

LEMMA RetainsAgree ==
    ASSUME NEW s, NEW t, NEW n \in Nat, NEW f, NEW g, NEW places,
           IsRetain(f, s, n, places), IsRetain(g, t, n + 1, places), \A i \in 1 .. n : s[i] = t[i]
    PROVE  f[n] = g[n]
<1> DEFINE T == {j \in Nat : j <= n => f[j] = g[j]}
<1>1. \A j \in 0 .. n : f[j] = IF j = 0 THEN << >> ELSE RetainStep(f[j - 1], s[j], j, places)
    BY DEF IsRetain
<1>2. \A j \in 0 .. n + 1 : g[j] = IF j = 0 THEN << >> ELSE RetainStep(g[j - 1], t[j], j, places)
    BY DEF IsRetain
<1>3. 0 \in T
    BY <1>1, <1>2
<1>4. ASSUME NEW j \in T PROVE j + 1 \in T
  <2>1. SUFFICES ASSUME j + 1 <= n PROVE f[j + 1] = g[j + 1]
    OBVIOUS
  <2>2. /\ j \in Nat /\ j <= n /\ j + 1 \in 0 .. n /\ j + 1 \in 0 .. n + 1 /\ j + 1 # 0
        /\ j + 1 \in 1 .. n /\ (j + 1) - 1 = j
    BY <2>1
  <2>3. /\ f[j + 1] = RetainStep(f[j], s[j + 1], j + 1, places)
        /\ g[j + 1] = RetainStep(g[j], t[j + 1], j + 1, places)
    BY <1>1, <1>2, <2>2
  <2> QED BY <2>2, <2>3
<1>5. T \subseteq Nat
    OBVIOUS
<1> HIDE DEF T
<1>6. n \in T
    BY <1>3, <1>4, <1>5, SetInduction
<1> QED BY <1>6 DEF T

LEMMA RetainIs ==
    ASSUME NEW s, NEW places
    PROVE  Retain(s, places) = (CHOOSE g : IsRetain(g, s, Len(s), places))[Len(s)]
BY DEF Retain, IsRetain, RetainStep

LEMMA RetainNil == ASSUME NEW places PROVE  Retain(<< >>, places) = << >>
<1> DEFINE g == CHOOSE f : IsRetain(f, << >>, Len(<< >>), places)
<1>1. Len(<< >>) = 0
    OBVIOUS
<1>2. IsRetain(g, << >>, 0, places)
    BY <1>1, RetainExists
<1> HIDE DEF g
<1>3. g[0] = << >>
    BY <1>2 DEF IsRetain
<1> QED BY <1>1, <1>3, RetainIs DEF g

LEMMA RetainAppend ==
    ASSUME NEW S, NEW s \in Seq(S), NEW e \in S, NEW places
    PROVE  Retain(Append(s, e), places) = RetainStep(Retain(s, places), e, Len(s) + 1, places)
<1> DEFINE n == Len(s)
           t == Append(s, e)
           f == CHOOSE g : IsRetain(g, s, n, places)
           g == CHOOSE k : IsRetain(k, t, n + 1, places)
<1>1. n \in Nat
    BY LenProperties
<1>2. Len(t) = n + 1 /\ t[n + 1] = e /\ \A i \in 1 .. n : s[i] = t[i]
    BY AppendProperties
<1>3. IsRetain(f, s, n, places)
    BY <1>1, RetainExists
<1> HIDE DEF t
<1>4. IsRetain(g, t, n + 1, places)
  <2>1. n + 1 \in Nat
    BY <1>1
  <2> HIDE DEF n
  <2>2. \E k : IsRetain(k, t, n + 1, places)
    BY <2>1, RetainExists
  <2> QED BY <2>2
<1>5. Retain(s, places) = f[n]
    BY RetainIs
<1>6. Retain(t, places) = g[n + 1]
    BY <1>2, RetainIs
<1> HIDE DEF f, g, n
<1>7. f[n] = g[n]
  <2>1. \A i \in 1 .. n : s[i] = t[i]
    BY <1>2
  <2> QED BY <1>1, <1>3, <1>4, <2>1, RetainsAgree
<1>8. g[n + 1] = RetainStep(g[n], t[n + 1], n + 1, places)
  <2>1. n + 1 \in 0 .. n + 1 /\ n + 1 # 0 /\ (n + 1) - 1 = n
    BY <1>1
  <2> QED BY <1>4, <2>1 DEF IsRetain
<1> QED BY <1>2, <1>5, <1>6, <1>7, <1>8 DEF t, n

(* from[k] is the place that the k-th entry retained came from. *)
IsOrigin(from, q, places, r) ==
    /\ from \in [1 .. Len(r) -> 1 .. Len(q)]
    /\ \A k \in 1 .. Len(r) : from[k] \in places /\ r[k] = q[from[k]]
    /\ \A k, l \in 1 .. Len(r) : k < l => from[k] < from[l]
    /\ \A i \in 1 .. Len(q) : i \in places => \E k \in 1 .. Len(r) : from[k] = i

LEMMA RetainFrom ==
    ASSUME NEW S, NEW q \in Seq(S), NEW places
    PROVE  /\ Retain(q, places) \in Seq(S)
           /\ \E from : IsOrigin(from, q, places, Retain(q, places))
<1> DEFINE R(s) == Retain(s, places)
           T == {s \in Seq(S) : R(s) \in Seq(S) /\ \E from : IsOrigin(from, s, places, R(s))}
<1>1. << >> \in T
  <2>1. R(<< >>) = << >>
    BY RetainNil
  <2>2. IsOrigin([k \in 1 .. 0 |-> k], << >>, places, << >>)
    BY DEF IsOrigin
  <2>3. << >> \in Seq(S)
    BY EmptySeq
  <2> QED BY <2>1, <2>2, <2>3
<1>2. ASSUME NEW s \in T, NEW e \in S PROVE Append(s, e) \in T
  <2> DEFINE t == Append(s, e)
             n == Len(s)
             r == R(s)
             m == Len(r)
  <2>1. s \in Seq(S) /\ r \in Seq(S) /\ n \in Nat /\ m \in Nat
    BY LenProperties
  <2>2. PICK f : IsOrigin(f, s, places, r)
    OBVIOUS
  <2>3. t \in Seq(S) /\ Len(t) = n + 1 /\ t[n + 1] = e /\ \A i \in 1 .. n : t[i] = s[i]
    BY <2>1, AppendProperties
  <2>4. R(t) = IF n + 1 \in places THEN Append(r, e) ELSE r
    BY <2>1, RetainAppend DEF RetainStep
  <2> HIDE DEF t, R, n, T
  <2>5. /\ f \in [1 .. m -> 1 .. n]
        /\ \A k \in 1 .. m : f[k] \in places /\ r[k] = s[f[k]]
        /\ \A k, l \in 1 .. m : k < l => f[k] < f[l]
        /\ \A i \in 1 .. n : i \in places => \E k \in 1 .. m : f[k] = i
    BY <2>2 DEF IsOrigin, n
  <2>6. CASE n + 1 \in places
    <3> DEFINE z == Append(r, e)
               g == [k \in 1 .. m + 1 |-> IF k = m + 1 THEN n + 1 ELSE f[k]]
    <3>1. z \in Seq(S) /\ Len(z) = m + 1 /\ z[m + 1] = e /\ \A k \in 1 .. m : z[k] = r[k]
        BY <2>1, AppendProperties
    <3> HIDE DEF z, r, m
    <3>2. \A k \in 1 .. m + 1 : k # m + 1 => k \in 1 .. m /\ g[k] = f[k] /\ f[k] \in 1 .. n
        BY <2>1, <2>5
    <3>3. g[m + 1] = n + 1 /\ m + 1 \in 1 .. m + 1
        BY <2>1
    <3>4. g \in [1 .. m + 1 -> 1 .. n + 1]
        BY <2>1, <2>5
    <3> HIDE DEF g
    <3>5. ASSUME NEW k \in 1 .. m + 1 PROVE g[k] \in places /\ z[k] = t[g[k]]
      <4>1. CASE k = m + 1
        BY <2>3, <2>6, <3>1, <3>3, <4>1
      <4>2. CASE k # m + 1
        BY <2>3, <2>5, <3>1, <3>2, <4>2
      <4> QED BY <4>1, <4>2
    <3>6. ASSUME NEW k \in 1 .. m + 1, NEW l \in 1 .. m + 1, k < l PROVE g[k] < g[l]
      <4>1. k # m + 1 /\ k \in 1 .. m /\ g[k] = f[k] /\ f[k] \in 1 .. n
        BY <2>1, <3>2, <3>6
      <4>2. CASE l = m + 1
        BY <2>1, <3>3, <4>1, <4>2
      <4>3. CASE l # m + 1
        BY <2>5, <3>2, <3>6, <4>1, <4>3
      <4> QED BY <4>2, <4>3
    <3>7. ASSUME NEW i \in 1 .. n + 1, i \in places PROVE \E k \in 1 .. m + 1 : g[k] = i
      <4>1. CASE i = n + 1
        BY <3>3, <4>1
      <4>2. CASE i # n + 1
        <5>1. i \in 1 .. n
            BY <2>1, <4>2
        <5>2. PICK k \in 1 .. m : f[k] = i
            BY <2>5, <3>7, <5>1
        <5>3. k \in 1 .. m + 1 /\ k # m + 1
            BY <2>1
        <5> QED BY <3>2, <5>2, <5>3
      <4> QED BY <4>1, <4>2
    <3>8. IsOrigin(g, t, places, z)
        BY <2>3, <3>1, <3>4, <3>5, <3>6, <3>7 DEF IsOrigin
    <3>9. R(t) = z
        BY <2>4, <2>6 DEF z
    <3> QED BY <2>3, <3>1, <3>8, <3>9 DEF T, t
  <2>7. CASE n + 1 \notin places
    <3>1. f \in [1 .. m -> 1 .. n + 1]
        BY <2>1, <2>5
    <3>2. \A k \in 1 .. m : r[k] = t[f[k]]
        BY <2>3, <2>5
    <3>3. ASSUME NEW i \in 1 .. n + 1, i \in places PROVE i \in 1 .. n
        BY <2>1, <2>7, <3>3
    <3>4. \A i \in 1 .. n + 1 : i \in places => \E k \in 1 .. m : f[k] = i
        BY <2>5, <3>3
    <3>5. IsOrigin(f, t, places, r)
        BY <2>3, <2>5, <3>1, <3>2, <3>4 DEF IsOrigin
    <3>6. R(t) = r
        BY <2>4, <2>7
    <3> QED BY <2>1, <2>3, <3>5, <3>6 DEF T, t
  <2> QED BY <2>6, <2>7
<1>3. T \subseteq Seq(S)
    OBVIOUS
<1> HIDE DEF T
<1>4. q \in T
    BY <1>1, <1>2, <1>3, SeqInduction
<1> QED BY <1>4 DEF T

-----------------------------------------------------------------------------
(***************************************************************************)
(* A queue within another: each of its entries is one of the other's, and  *)
(* no two are the same one.  What is retained, what is left once one entry *)
(* is removed, and the rest behind the first are within the queue.         *)
(***************************************************************************)
IsWithin(from, r, q) ==
    /\ from \in [1 .. Len(r) -> 1 .. Len(q)]
    /\ \A k \in 1 .. Len(r) : r[k] = q[from[k]]
    /\ \A k, l \in 1 .. Len(r) : from[k] = from[l] => k = l

Within(r, q) == \E from : IsWithin(from, r, q)

LEMMA OriginWithin ==
    ASSUME NEW r, NEW q, NEW places, NEW from, IsOrigin(from, q, places, r),
           Len(r) \in Nat, Len(q) \in Nat
    PROVE  /\ IsWithin(from, r, q) /\ Within(r, q)
           /\ \A k \in 1 .. Len(r) : \E i \in 1 .. Len(q) : i \in places /\ r[k] = q[i]
           /\ \A i \in 1 .. Len(q) : i \in places => \E k \in 1 .. Len(r) : r[k] = q[i]
<1>3. /\ from \in [1 .. Len(r) -> 1 .. Len(q)]
      /\ \A k \in 1 .. Len(r) : from[k] \in places /\ r[k] = q[from[k]]
      /\ \A k, l \in 1 .. Len(r) : k < l => from[k] < from[l]
      /\ \A i \in 1 .. Len(q) : i \in places => \E k \in 1 .. Len(r) : from[k] = i
    BY DEF IsOrigin
<1>4. ASSUME NEW k \in 1 .. Len(r), NEW l \in 1 .. Len(r), from[k] = from[l] PROVE k = l
  <2>1. from[k] \in 1 .. Len(q)
    BY <1>3
  <2>2. ~(k < l) /\ ~(l < k)
    BY <1>3, <1>4, <2>1
  <2> QED BY <2>2
<1>5. IsWithin(from, r, q)
    BY <1>3, <1>4 DEF IsWithin
<1>6. \A k \in 1 .. Len(r) : \E i \in 1 .. Len(q) : i \in places /\ r[k] = q[i]
    BY <1>3
<1>7. \A i \in 1 .. Len(q) : i \in places => \E k \in 1 .. Len(r) : r[k] = q[i]
    BY <1>3
<1> QED BY <1>5, <1>6, <1>7 DEF Within

LEMMA RetainWithin ==
    ASSUME NEW S, NEW q \in Seq(S), NEW places
    PROVE  LET r == Retain(q, places) IN
           /\ r \in Seq(S) /\ Within(r, q)
           /\ \A k \in 1 .. Len(r) : \E i \in 1 .. Len(q) : i \in places /\ r[k] = q[i]
           /\ \A i \in 1 .. Len(q) : i \in places => \E k \in 1 .. Len(r) : r[k] = q[i]
<1> DEFINE r == Retain(q, places)
<1>1. r \in Seq(S) /\ Len(r) \in Nat /\ Len(q) \in Nat
    BY RetainFrom, LenProperties
<1>2. PICK from : IsOrigin(from, q, places, r)
    BY RetainFrom
<1> HIDE DEF r
<1>3. /\ Within(r, q)
      /\ \A k \in 1 .. Len(r) : \E i \in 1 .. Len(q) : i \in places /\ r[k] = q[i]
      /\ \A i \in 1 .. Len(q) : i \in places => \E k \in 1 .. Len(r) : r[k] = q[i]
    BY <1>1, <1>2, OriginWithin
<1> QED BY <1>1, <1>3 DEF r

LEMMA TailWithin ==
    ASSUME NEW S, NEW q \in Seq(S), q # << >>
    PROVE  /\ Tail(q) \in Seq(S) /\ Within(Tail(q), q)
           /\ Head(q) = q[1] /\ 1 \in 1 .. Len(q)
           /\ Len(Tail(q)) = Len(q) - 1
           /\ \A k \in 1 .. Len(q) - 1 : Tail(q)[k] = q[k + 1]
<1> DEFINE r == Tail(q)
<1>1. /\ r \in Seq(S) /\ Len(r) = Len(q) - 1 /\ Len(q) \in Nat /\ Len(q) # 0
      /\ \A k \in 1 .. Len(q) - 1 : r[k] = q[k + 1]
    BY HeadTailProperties, LenProperties, EmptySeq
<1>2. Head(q) = q[1]
    BY HeadTailProperties
<1> HIDE DEF r
<1> DEFINE from == [k \in 1 .. Len(r) |-> k + 1]
<1>3. IsWithin(from, r, q)
  <2>1. \A k \in 1 .. Len(r) : k \in 1 .. Len(q) - 1 /\ k + 1 \in 1 .. Len(q) /\ from[k] = k + 1
    BY <1>1
  <2>2. from \in [1 .. Len(r) -> 1 .. Len(q)]
    BY <2>1
  <2> HIDE DEF from
  <2>3. \A k \in 1 .. Len(r) : r[k] = q[from[k]]
    BY <1>1, <2>1
  <2>4. \A k, l \in 1 .. Len(r) : from[k] = from[l] => k = l
    BY <2>1
  <2> QED BY <2>2, <2>3, <2>4 DEF IsWithin
<1> QED BY <1>1, <1>2, <1>3 DEF Within, r

LEMMA RemoveAtFrom ==
    ASSUME NEW S, NEW q \in Seq(S), NEW n \in 1 .. Len(q)
    PROVE  /\ RemoveAt(q, n) \in Seq(S)
           /\ \E from : IsOrigin(from, q, (1 .. Len(q)) \ {n}, RemoveAt(q, n))
<1> DEFINE m == Len(q)
           a == SubSeq(q, 1, n - 1)
           b == SubSeq(q, n + 1, m)
           r == RemoveAt(q, n)
<1>1. m \in Nat /\ n \in 1 .. m
    BY LenProperties
<1>0. \A i \in 1 .. m : q[i] \in S
    BY ElementOfSeq
<1>2. a \in Seq(S) /\ Len(a) = n - 1 /\ \A i \in 1 .. n - 1 : a[i] = q[i]
  <2>1. 1 \in Int /\ n - 1 \in Int /\ \A i \in 1 .. n - 1 : q[i] \in S
    BY <1>0, <1>1
  <2>2. /\ a \in Seq(S) /\ Len(a) = IF 1 <= n - 1 THEN (n - 1) - 1 + 1 ELSE 0
        /\ \A i \in 1 .. (n - 1) - 1 + 1 : a[i] = q[1 + i - 1]
    BY <2>1, SubSeqProperties
  <2> HIDE DEF a
  <2> QED BY <1>1, <2>2
<1>3. b \in Seq(S) /\ Len(b) = m - n /\ \A i \in 1 .. m - n : b[i] = q[n + i]
  <2>1. n + 1 \in Int /\ m \in Int /\ \A i \in n + 1 .. m : q[i] \in S
    BY <1>0, <1>1
  <2> HIDE DEF m
  <2>2. /\ b \in Seq(S) /\ Len(b) = IF n + 1 <= m THEN m - (n + 1) + 1 ELSE 0
        /\ \A i \in 1 .. m - (n + 1) + 1 : b[i] = q[(n + 1) + i - 1]
    BY <2>1, SubSeqProperties
  <2> HIDE DEF b
  <2>3. ASSUME NEW i \in 1 .. m - n PROVE b[i] = q[n + i]
    <3>1. i \in 1 .. m - (n + 1) + 1 /\ (n + 1) + i - 1 = n + i
        BY <1>1
    <3> QED BY <2>2, <3>1
  <2>4. Len(b) = m - n
    BY <1>1, <2>2
  <2> QED BY <2>2, <2>3, <2>4
<1>4. r = a \o b
    BY DEF RemoveAt
<1> HIDE DEF a, b, r
<1>5. /\ r \in Seq(S) /\ Len(r) = m - 1
      /\ \A i \in 1 .. m - 1 : r[i] = IF i <= n - 1 THEN a[i] ELSE b[i - (n - 1)]
  <2> HIDE DEF m
  <2>1. /\ a \o b \in Seq(S) /\ Len(a \o b) = Len(a) + Len(b)
        /\ \A i \in 1 .. Len(a) + Len(b) :
             (a \o b)[i] = IF i <= Len(a) THEN a[i] ELSE b[i - Len(a)]
    BY <1>2, <1>3, ConcatProperties
  <2>2. Len(a) = n - 1 /\ Len(a) + Len(b) = m - 1
    BY <1>1, <1>2, <1>3
  <2> QED BY <1>4, <2>1, <2>2
<1> HIDE DEF m
<1> DEFINE from == [k \in 1 .. Len(r) |-> IF k < n THEN k ELSE k + 1]
<1>6. \A k \in 1 .. m - 1 : r[k] = q[IF k < n THEN k ELSE k + 1]
  <2>1. ASSUME NEW k \in 1 .. m - 1 PROVE r[k] = q[IF k < n THEN k ELSE k + 1]
    <3>1. CASE k < n
      <4>1. k \in 1 .. n - 1 /\ k <= n - 1
        BY <1>1, <3>1
      <4> QED BY <1>2, <1>5, <3>1, <4>1
    <3>2. CASE ~(k < n)
      <4>1. k - (n - 1) \in 1 .. m - n /\ n + (k - (n - 1)) = k + 1 /\ ~(k <= n - 1)
        BY <1>1, <3>2
      <4> QED BY <1>3, <1>5, <3>2, <4>1
    <3> QED BY <3>1, <3>2
  <2> QED BY <2>1
<1>7. \A k \in 1 .. Len(r) : from[k] \in 1 .. m /\ from[k] # n /\ r[k] = q[from[k]]
                             /\ from[k] = IF k < n THEN k ELSE k + 1
    BY <1>1, <1>5, <1>6
<1>8. from \in [1 .. Len(r) -> 1 .. m]
    BY <1>7
<1> HIDE DEF from
<1>9. ASSUME NEW k \in 1 .. Len(r), NEW l \in 1 .. Len(r), k < l PROVE from[k] < from[l]
  <2>1. /\ from[k] = (IF k < n THEN k ELSE k + 1)
        /\ from[l] = (IF l < n THEN l ELSE l + 1)
    BY <1>7
  <2>2. k \in Int /\ l \in Int /\ n \in Int
    BY <1>1
  <2> QED BY <1>9, <2>1, <2>2
<1>10. ASSUME NEW i \in 1 .. m, i # n PROVE \E k \in 1 .. Len(r) : from[k] = i
  <2>1. CASE i < n
    <3>1. i \in 1 .. Len(r)
        BY <1>1, <1>5, <2>1
    <3> QED BY <1>7, <2>1, <3>1
  <2>2. CASE ~(i < n)
    <3>1. i - 1 \in 1 .. Len(r) /\ ~(i - 1 < n) /\ (i - 1) + 1 = i
        BY <1>1, <1>5, <1>10, <2>2
    <3> QED BY <1>7, <3>1
  <2> QED BY <2>1, <2>2
<1>11. IsOrigin(from, q, (1 .. m) \ {n}, r)
  <2>1. \A k \in 1 .. Len(r) : from[k] \in (1 .. m) \ {n} /\ r[k] = q[from[k]]
    BY <1>7
  <2>2. \A i \in 1 .. m : i \in (1 .. m) \ {n} => \E k \in 1 .. Len(r) : from[k] = i
    BY <1>10
  <2> QED BY <1>8, <1>9, <2>1, <2>2 DEF IsOrigin, m
<1> QED BY <1>5, <1>11 DEF r, m

LEMMA RemoveAtWithin ==
    ASSUME NEW S, NEW q \in Seq(S), NEW n \in 1 .. Len(q)
    PROVE  LET r == RemoveAt(q, n) IN
           /\ r \in Seq(S) /\ Within(r, q)
           /\ \A k \in 1 .. Len(r) : \E i \in 1 .. Len(q) : i # n /\ r[k] = q[i]
           /\ \A i \in 1 .. Len(q) : i # n => \E k \in 1 .. Len(r) : r[k] = q[i]
<1> DEFINE r == RemoveAt(q, n)
           places == (1 .. Len(q)) \ {n}
<1>1. r \in Seq(S) /\ Len(r) \in Nat /\ Len(q) \in Nat
    BY RemoveAtFrom, LenProperties
<1>2. PICK from : IsOrigin(from, q, places, r)
    BY RemoveAtFrom
<1> HIDE DEF r, places
<1>3. /\ Within(r, q)
      /\ \A k \in 1 .. Len(r) : \E i \in 1 .. Len(q) : i \in places /\ r[k] = q[i]
      /\ \A i \in 1 .. Len(q) : i \in places => \E k \in 1 .. Len(r) : r[k] = q[i]
    BY <1>1, <1>2, OriginWithin
<1> QED BY <1>1, <1>3 DEF r, places
=============================================================================
