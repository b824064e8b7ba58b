---------------------------- MODULE FollowProofs ----------------------------
(***************************************************************************)
(* What is proved of ChainFollow, for every set of headers, every window   *)
(* and every length of chain: whatever the node does while its headers are *)
(* read, the rules run on the clock of the chain that was applied.         *)
(*                                                                         *)
(* The headers of a window are read one by one from a node that may move   *)
(* between any two of them, so the window can hold headers of two chains.  *)
(* Such a window is Tainted: the node was on a chain that begins with the  *)
(* applied one and has left it below its end.  A node that does not return *)
(* to what it left cannot stand on the applied chain again, and the rules  *)
(* ask for exactly that before they run.                                   *)
(***************************************************************************)
EXTENDS ChainFollow, OrderLemmas

-----------------------------------------------------------------------------
(***************************************************************************)
(* Sequences that begin alike                                              *)
(***************************************************************************)
Alike(c, d, k) == k <= Len(c) /\ k <= Len(d) /\ \A i \in 1 .. k : c[i] = d[i]

LEMMA Beginning ==
    ASSUME NEW c \in Seq(Marks), NEW k \in 0 .. Len(c)
    PROVE  /\ SubSeq(c, 1, k) \in Seq(Marks)
           /\ Len(SubSeq(c, 1, k)) = k
           /\ \A i \in 1 .. k : SubSeq(c, 1, k)[i] = c[i]
<1>1. Len(c) \in Nat /\ \A i \in 1 .. Len(c) : c[i] \in Marks
    BY LenProperties, ElementOfSeq
<1>2. k \in Int /\ 1 \in Int /\ \A i \in 1 .. k : c[i] \in Marks
    BY <1>1
<1>3. /\ SubSeq(c, 1, k) \in Seq(Marks)
      /\ Len(SubSeq(c, 1, k)) = IF 1 <= k THEN k - 1 + 1 ELSE 0
      /\ \A i \in 1 .. k - 1 + 1 : SubSeq(c, 1, k)[i] = c[1 + i - 1]
    BY <1>2, SubSeqProperties
<1> QED
    BY <1>1, <1>3

LEMMA SameBeginning ==
    ASSUME NEW c \in Seq(Marks), NEW d \in Seq(Marks), NEW k \in Nat,
           k <= Len(c), k <= Len(d)
    PROVE  SubSeq(c, 1, k) = SubSeq(d, 1, k) <=> Alike(c, d, k)
<1> DEFINE p == SubSeq(c, 1, k)
           q == SubSeq(d, 1, k)
<1>1. k \in 0 .. Len(c) /\ k \in 0 .. Len(d)
    BY LenProperties
<1>2. p \in Seq(Marks) /\ Len(p) = k /\ \A i \in 1 .. k : p[i] = c[i]
    BY <1>1, Beginning
<1>3. q \in Seq(Marks) /\ Len(q) = k /\ \A i \in 1 .. k : q[i] = d[i]
    BY <1>1, Beginning
<1> HIDE DEF p, q
<1>4. p = q => \A i \in 1 .. k : c[i] = d[i]
    BY <1>2, <1>3
<1>5. (\A i \in 1 .. k : c[i] = d[i]) => p = q
    BY <1>2, <1>3, SeqEqual
<1> QED
    BY <1>4, <1>5 DEF p, q, Alike

LEMMA PrefixIsAlike ==
    ASSUME NEW c \in Seq(Marks), NEW d \in Seq(Marks)
    PROVE  IsPrefix(c, d) <=> Alike(c, d, Len(c))
<1>1. Len(c) \in Nat /\ Len(d) \in Nat
    BY LenProperties
<1>2. CASE Len(c) <= Len(d)
    BY <1>1, <1>2, SameBeginning DEF IsPrefix
<1>3. CASE ~(Len(c) <= Len(d))
    BY <1>3 DEF IsPrefix, Alike
<1> QED
    BY <1>2, <1>3

LEMMA SharedIsLongest ==
    ASSUME NEW c \in Seq(Marks), NEW d \in Seq(Marks)
    PROVE  /\ Shared(c, d) \in Nat
           /\ Alike(c, d, Shared(c, d))
           /\ \A k \in Nat : Alike(c, d, k) => k <= Shared(c, d)
<1> DEFINE common == CommonPrefixes({c, d})
           lens == {Len(p) : p \in common}
<1>1. Len(c) \in Nat /\ Len(d) \in Nat
    BY LenProperties
<1>2. ASSUME NEW p \in common
      PROVE  p \in Seq(Marks) /\ Len(p) \in Nat /\ Alike(c, d, Len(p))
  <2>1. PICK e \in {c, d} : p \in Prefixes(e)
    BY <1>2 DEF CommonPrefixes
  <2>2. e \in Seq(Marks) /\ Len(e) \in Nat
    BY <1>1
  <2>3. PICK l \in 0 .. Len(e) : p = SubSeq(e, 1, l)
    BY <2>1 DEF Prefixes
  <2>4. p \in Seq(Marks)
    BY <2>2, <2>3, Beginning
  <2>5. IsPrefix(p, c) /\ IsPrefix(p, d)
    BY <1>2 DEF CommonPrefixes
  <2>6. Alike(p, c, Len(p)) /\ Alike(p, d, Len(p))
    BY <2>4, <2>5, PrefixIsAlike
  <2> QED
    BY <2>4, <2>6, LenProperties DEF Alike
<1>3. ASSUME NEW k \in Nat, Alike(c, d, k)
      PROVE  SubSeq(c, 1, k) \in common /\ Len(SubSeq(c, 1, k)) = k
  <2> DEFINE p == SubSeq(c, 1, k)
  <2>1. k \in 0 .. Len(c) /\ k <= Len(d)
    BY <1>1, <1>3 DEF Alike
  <2>2. p \in Seq(Marks) /\ Len(p) = k /\ \A i \in 1 .. k : p[i] = c[i]
    BY <2>1, Beginning
  <2>3. p \in Prefixes(c)
    BY <2>1 DEF Prefixes
  <2> HIDE DEF p
  <2>4. Alike(p, c, k) /\ Alike(p, d, k)
    BY <1>3, <2>1, <2>2 DEF Alike
  <2>5. IsPrefix(p, c) /\ IsPrefix(p, d)
    BY <2>2, <2>4, PrefixIsAlike
  <2>6. p \in common
    BY <2>3, <2>5 DEF CommonPrefixes
  <2> QED
    BY <2>2, <2>6 DEF p
<1>4. 0 \in lens
  <2>1. Alike(c, d, 0)
    BY <1>1 DEF Alike
  <2>2. SubSeq(c, 1, 0) \in common /\ Len(SubSeq(c, 1, 0)) = 0
    BY <1>3, <2>1
  <2> QED
    BY <2>2
<1>5. lens \subseteq 0 .. Len(c)
  <2>1. \A p \in common : Len(p) \in 0 .. Len(c)
    BY <1>1, <1>2 DEF Alike
  <2> HIDE DEF common
  <2> QED
    BY <2>1
<1> DEFINE L == LongestCommonPrefix({c, d})
<1>6. L \in common /\ \A q \in common : Len(q) <= Len(L)
  <2> HIDE DEF lens
  <2>1. PICK m \in lens : \A x \in lens : m >= x
    BY <1>1, <1>4, <1>5, HasGreatest
  <2>2. PICK p \in common : m = Len(p)
    BY <2>1 DEF lens
  <2>3. \A q \in common : Len(q) <= Len(p)
    BY <1>2, <2>1, <2>2 DEF lens
  <2> QED
    BY <2>3 DEF LongestCommonPrefix
<1> HIDE DEF common, L
<1>7. Shared(c, d) = Len(L)
    BY DEF Shared, L
<1>8. Len(L) \in Nat /\ Alike(c, d, Len(L))
    BY <1>2, <1>6
<1>9. \A k \in Nat : Alike(c, d, k) => k <= Len(L)
    BY <1>3, <1>6
<1> QED
    BY <1>7, <1>8, <1>9

-----------------------------------------------------------------------------
(***************************************************************************)
(* The window                                                              *)
(***************************************************************************)
Kept(n) == IF n > WINDOW THEN WINDOW ELSE n
Lo(t) == t - Kept(t) + 1

LEMMA KeptFacts ==
    ASSUME NEW t \in Nat
    PROVE  /\ Kept(t) \in 0 .. t /\ Kept(t) <= WINDOW /\ t - Lo(t) + 1 = Kept(t)
           /\ Lo(t) \in 1 .. t + 1
           /\ t > 0 => Lo(t) <= t
           /\ Lo(t) = IF t > WINDOW THEN t - WINDOW + 1 ELSE 1
<1>1. WINDOW \in Nat /\ WINDOW > 0
    BY FollowAssumption
<1>2. CASE t > WINDOW
  <2>1. Kept(t) = WINDOW /\ Lo(t) = t - WINDOW + 1
    BY <1>1, <1>2 DEF Kept, Lo
  <2> QED
    BY <1>1, <1>2, <2>1
<1>3. CASE ~(t > WINDOW)
  <2>1. Kept(t) = t /\ Lo(t) = t - t + 1
    BY <1>1, <1>3 DEF Kept, Lo
  <2> QED
    BY <1>1, <1>3, <2>1
<1> QED
    BY <1>2, <1>3

LEMMA LastFacts ==
    ASSUME NEW s \in Seq(Marks)
    PROVE  /\ LastOf(s, WINDOW) \in Seq(Marks)
           /\ LastOf(s, WINDOW) = SubSeq(s, Lo(Len(s)), Len(s))
           /\ Len(LastOf(s, WINDOW)) = Kept(Len(s))
           /\ \A i \in 1 .. Kept(Len(s)) :
                LastOf(s, WINDOW)[i] = s[Len(s) - Kept(Len(s)) + i]
<1> DEFINE n == Len(s)
           lo == Lo(Len(s))
           last == SubSeq(s, lo, n)
<1>1. n \in Nat /\ \A i \in 1 .. n : s[i] \in Marks
    BY LenProperties, ElementOfSeq
<1>3. /\ Kept(n) \in 0 .. n /\ lo \in 1 .. n + 1 /\ n - lo + 1 = Kept(n)
      /\ lo = IF n > WINDOW THEN n - WINDOW + 1 ELSE 1
    BY <1>1, KeptFacts
<1>4. LastOf(s, WINDOW) = last
    BY <1>3 DEF LastOf
<1>5. \A i \in lo .. n : s[i] \in Marks
    BY <1>1, <1>3
<1> HIDE DEF n, lo
<1>6. /\ last \in Seq(Marks)
      /\ Len(last) = IF lo <= n THEN n - lo + 1 ELSE 0
      /\ \A i \in 1 .. n - lo + 1 : last[i] = s[lo + i - 1]
    BY <1>1, <1>3, <1>5, SubSeqProperties
<1> HIDE DEF last
<1>7. Len(last) = Kept(n)
    BY <1>1, <1>3, <1>6
<1>8. \A i \in 1 .. Kept(n) : last[i] = s[n - Kept(n) + i]
  <2>1. \A i \in 1 .. Kept(n) : lo + i - 1 = n - Kept(n) + i
    BY <1>1, <1>3
  <2> QED
    BY <1>3, <1>6, <2>1
<1> QED
    BY <1>4, <1>6, <1>7, <1>8 DEF n, lo, last

LEMMA LastIsShort ==
    ASSUME NEW s \in Seq(Marks)
    PROVE  LastOf(s, WINDOW) \in Seq(Marks) /\ Len(LastOf(s, WINDOW)) <= WINDOW
<1>1. Len(s) \in Nat
    BY LenProperties
<1>2. Kept(Len(s)) <= WINDOW
    BY <1>1, KeptFacts
<1>3. LastOf(s, WINDOW) \in Seq(Marks) /\ Len(LastOf(s, WINDOW)) = Kept(Len(s))
    BY LastFacts
<1> QED
    BY <1>2, <1>3

(* Feeding the window a block's header gives the window of the longer chain *)
LEMMA SlideLast ==
    ASSUME NEW s \in Seq(Marks), NEW x \in Marks
    PROVE  Slide(LastOf(s, WINDOW), x) = LastOf(Append(s, x), WINDOW)
<1> DEFINE n == Len(s)
           m == Kept(n)
           w == LastOf(s, WINDOW)
           u == Append(w, x)
           a == Append(s, x)
           k == Kept(n + 1)
           p == LastOf(u, WINDOW)
           q == LastOf(a, WINDOW)
<1>1. n \in Nat /\ WINDOW \in Nat \ {0}
    BY LenProperties, FollowAssumption
<1>2. m \in 0 .. n /\ m <= WINDOW /\ k \in 1 .. n + 1 /\ k = Kept(m + 1) /\ k <= m + 1
    BY <1>1 DEF Kept
<1>3. w \in Seq(Marks) /\ Len(w) = m /\ \A i \in 1 .. m : w[i] = s[n - m + i]
    BY LastFacts
<1> HIDE DEF w, m
<1>4. /\ a \in Seq(Marks) /\ Len(a) = n + 1 /\ a[n + 1] = x
      /\ \A i \in 1 .. n : a[i] = s[i]
    BY AppendProperties
<1>5. /\ u \in Seq(Marks) /\ Len(u) = m + 1 /\ u[m + 1] = x
      /\ \A i \in 1 .. m : u[i] = w[i]
    BY <1>3, AppendProperties
<1> HIDE DEF u, a
<1>6. p \in Seq(Marks) /\ Len(p) = k /\ \A i \in 1 .. k : p[i] = u[m + 1 - k + i]
  <2>1. /\ p \in Seq(Marks) /\ Len(p) = Kept(Len(u))
        /\ \A i \in 1 .. Kept(Len(u)) : p[i] = u[Len(u) - Kept(Len(u)) + i]
    BY <1>5, LastFacts
  <2>2. Len(u) = m + 1 /\ Kept(Len(u)) = k
    BY <1>2, <1>5
  <2>3. k \in Int /\ m \in Int
    BY <1>1, <1>2
  <2> HIDE DEF p, k
  <2> QED BY <2>1, <2>2, <2>3
<1>7. q \in Seq(Marks) /\ Len(q) = k /\ \A i \in 1 .. k : q[i] = a[n + 1 - k + i]
  <2>1. /\ q \in Seq(Marks) /\ Len(q) = Kept(Len(a))
        /\ \A i \in 1 .. Kept(Len(a)) : q[i] = a[Len(a) - Kept(Len(a)) + i]
    BY <1>4, LastFacts
  <2>2. Len(a) = n + 1 /\ Kept(Len(a)) = k
    BY <1>4
  <2>3. k \in Int /\ n \in Int
    BY <1>1, <1>2
  <2> HIDE DEF q, k, n
  <2>4. q \in Seq(Marks) /\ Len(q) = k
    BY <2>1, <2>2
  <2>5. \A i \in 1 .. k : q[i] = a[n + 1 - k + i]
    BY <2>1, <2>2, <2>3
  <2> QED BY <2>4, <2>5
<1> HIDE DEF p, q, n, k
<1>8. ASSUME NEW i \in 1 .. k PROVE p[i] = q[i]
  <2>1. p[i] = u[m + 1 - k + i] /\ q[i] = a[n + 1 - k + i]
    BY <1>6, <1>7
  <2>2. CASE i = k
    <3>1. m + 1 - k + i = m + 1 /\ n + 1 - k + i = n + 1
        BY <1>1, <1>2, <2>2
    <3> QED BY <1>4, <1>5, <2>1, <3>1
  <2>3. CASE i # k
    <3>1. /\ m + 1 - k + i \in 1 .. m /\ n + 1 - k + i \in 1 .. n
          /\ n - m + (m + 1 - k + i) = n + 1 - k + i
        BY <1>1, <1>2, <2>3
    <3>2. u[m + 1 - k + i] = s[n + 1 - k + i]
        BY <1>3, <1>5, <3>1
    <3> QED BY <1>4, <2>1, <3>1, <3>2
  <2> QED BY <2>2, <2>3
<1>9. p = q
    BY <1>6, <1>7, <1>8, SeqEqual
<1> QED
    BY <1>9 DEF Slide, p, q, u, a, w

(* So does feeding it the next header of a backfill *)
LEMMA SlideSlice ==
    ASSUME NEW s \in Seq(Marks), NEW k \in Lo(Len(s)) .. Len(s)
    PROVE  Slide(SubSeq(s, Lo(Len(s)), k - 1), s[k]) = SubSeq(s, Lo(Len(s)), k)
<1> DEFINE n == Len(s)
           lo == Lo(Len(s))
           w == SubSeq(s, lo, k - 1)
           u == Append(w, s[k])
           q == SubSeq(s, lo, k)
           p == LastOf(u, WINDOW)
           m == k - lo
<1>1. n \in Nat /\ WINDOW \in Nat \ {0} /\ \A i \in 1 .. n : s[i] \in Marks
    BY LenProperties, ElementOfSeq, FollowAssumption
<1>2. /\ lo \in 1 .. n + 1 /\ k \in lo .. n /\ m \in Nat /\ m + 1 <= WINDOW
      /\ Kept(m + 1) = m + 1
  <2>1. lo \in 1 .. n + 1 /\ n - lo + 1 = Kept(n) /\ Kept(n) <= WINDOW
    BY <1>1, KeptFacts
  <2>2. k \in lo .. n
    OBVIOUS
  <2>3. Kept(n) \in Int
    BY <1>1, KeptFacts
  <2> HIDE DEF lo, n
  <2>4. m \in Nat /\ m + 1 <= WINDOW
    BY <1>1, <2>1, <2>2, <2>3
  <2> HIDE DEF m
  <2>5. Kept(m + 1) = m + 1
    BY <1>1, <2>4 DEF Kept
  <2> QED BY <2>1, <2>2, <2>4, <2>5
<1>3. s[k] \in Marks /\ (\A i \in lo .. k - 1 : s[i] \in Marks) /\ \A i \in lo .. k : s[i] \in Marks
    BY <1>1, <1>2
<1> HIDE DEF n, lo
<1>4. w \in Seq(Marks) /\ Len(w) = m /\ \A i \in 1 .. m : w[i] = s[lo + i - 1]
  <2>1. lo \in Int /\ k - 1 \in Int
    BY <1>1, <1>2
  <2>2. /\ w \in Seq(Marks)
        /\ Len(w) = IF lo <= k - 1 THEN (k - 1) - lo + 1 ELSE 0
        /\ \A i \in 1 .. (k - 1) - lo + 1 : w[i] = s[lo + i - 1]
    BY <1>3, <2>1, SubSeqProperties
  <2>3. (k - 1) - lo + 1 = m /\ (~(lo <= k - 1) => m = 0)
    BY <1>1, <1>2
  <2> HIDE DEF w
  <2> QED BY <2>2, <2>3
<1>5. q \in Seq(Marks) /\ Len(q) = m + 1 /\ \A i \in 1 .. m + 1 : q[i] = s[lo + i - 1]
  <2>1. lo \in Int /\ k \in Int
    BY <1>1, <1>2
  <2>2. /\ q \in Seq(Marks)
        /\ Len(q) = IF lo <= k THEN k - lo + 1 ELSE 0
        /\ \A i \in 1 .. k - lo + 1 : q[i] = s[lo + i - 1]
    BY <1>3, <2>1, SubSeqProperties
  <2>3. lo <= k
    BY <1>1, <1>2
  <2> HIDE DEF q
  <2> QED BY <2>2, <2>3
<1> HIDE DEF w, q
<1>6. /\ u \in Seq(Marks) /\ Len(u) = m + 1 /\ u[m + 1] = s[k]
      /\ \A i \in 1 .. m : u[i] = w[i]
    BY <1>3, <1>4, AppendProperties
<1> HIDE DEF u
<1>7. p \in Seq(Marks) /\ Len(p) = m + 1 /\ \A i \in 1 .. m + 1 : p[i] = u[i]
  <2>1. /\ p \in Seq(Marks) /\ Len(p) = Kept(Len(u))
        /\ \A i \in 1 .. Kept(Len(u)) : p[i] = u[Len(u) - Kept(Len(u)) + i]
    BY <1>6, LastFacts
  <2>2. Len(u) = m + 1 /\ Kept(Len(u)) = m + 1
    BY <1>2, <1>6
  <2>3. \A i \in 1 .. m + 1 : m + 1 - (m + 1) + i = i
    BY <1>2
  <2> HIDE DEF p, m
  <2> QED BY <2>1, <2>2, <2>3
<1> HIDE DEF p
<1>8. ASSUME NEW i \in 1 .. m + 1 PROVE p[i] = q[i]
  <2>1. CASE i = m + 1
    <3>1. lo + i - 1 = k
        BY <1>1, <1>2, <2>1
    <3> QED BY <1>5, <1>6, <1>7, <2>1, <3>1
  <2>2. CASE i # m + 1
    <3>1. i \in 1 .. m
        BY <1>2, <2>2
    <3> QED BY <1>4, <1>5, <1>6, <1>7, <3>1
  <2> QED BY <2>1, <2>2
<1>9. p = q
    BY <1>5, <1>7, <1>8, SeqEqual
<1> QED
    BY <1>9 DEF Slide, p, q, u, w, lo

LEMMA Heights ==
    ASSUME NEW t \in Nat
    PROVE  /\ HeadersTo(t) = Lo(t) .. t
           /\ Lo(t) \in 1 .. t + 1
           /\ t > 0 => Lo(t) <= t
           /\ Min(HeadersTo(t) \cup {t}) = IF t = 0 THEN 0 ELSE Lo(t)
<1>1. WINDOW \in Nat \ {0}
    BY FollowAssumption
<1>2. Lo(t) \in 1 .. t + 1 /\ (t > 0 => Lo(t) <= t)
    BY KeptFacts
<1>3. Max({t - WINDOW + 1, 1}) = Lo(t)
  <2>1. Lo(t) \in {t - WINDOW + 1, 1} /\ \A y \in {t - WINDOW + 1, 1} : Lo(t) >= y
    BY <1>1, KeptFacts
  <2>2. \A x \in {t - WINDOW + 1, 1} :
          (\A y \in {t - WINDOW + 1, 1} : x >= y) => x = Lo(t)
    BY <1>1, <2>1
  <2> QED
    BY <2>1, <2>2 DEF Max
<1>4. HeadersTo(t) = Lo(t) .. t
    BY <1>3 DEF HeadersTo
<1> DEFINE S == HeadersTo(t) \cup {t}
           x0 == IF t = 0 THEN 0 ELSE Lo(t)
<1>5. x0 \in S /\ \A y \in S : x0 <= y
    BY <1>2, <1>4
<1>6. \A x \in S : x \in Int
    BY <1>2, <1>4
<1>7. x0 \in Int
    BY <1>2
<1> HIDE DEF S, x0
<1>8. \A x \in S : (\A y \in S : x =< y) => x = x0
    BY <1>5, <1>6, <1>7
<1>9. Min(S) = x0
    BY <1>5, <1>8 DEF Min
<1> QED
    BY <1>2, <1>4, <1>9 DEF S, x0

-----------------------------------------------------------------------------
(***************************************************************************)
(* The inductive invariant                                                 *)
(***************************************************************************)
Push == [height : Origin + 1 .. MaxHeight, ok : BOOLEAN]
Phases == {"down", "boot", "wait", "repair", "walk", "backfill", "apply", "check", "rules"}

ChainsTyped ==
    /\ chain \in Seq(Marks) /\ Len(chain) > Origin /\ Len(chain) <= MaxHeight
    /\ applied \in Seq(Marks) /\ Origin <= Len(applied) /\ Len(applied) <= MaxHeight
    /\ window \in Seq(Marks) /\ Len(window) <= WINDOW
    /\ \A d \in left : d \in Seq(Marks)

PassTyped ==
    /\ pushes \in Seq(Push)
    /\ stream \in {"open", "dead", "closed"}
    /\ phase \in Phases
    /\ best \in 0 .. MaxHeight
    /\ cursor \in 0 .. MaxHeight + 1
    /\ phase \in {"down", "boot"} <=> stream = "closed"

(* A walk stays between the checkpoint and the applied tip, a backfill in   *)
(* the window of the applied tip.                                           *)
Positions ==
    /\ phase = "repair" => best > Origin
    /\ phase = "walk" => cursor \in Origin .. Len(applied)
    /\ phase = "backfill" =>
         cursor \in Lo(Top) .. Top + 1 \/ (Top = 0 /\ cursor = 0)

(* No reorg reaches below the checkpoint. *)
Rooted == Alike(applied, chain, Origin)

(* The node was on a chain that begins with the applied one, and is on one  *)
(* that does not.                                                           *)
Tainted ==
    \E d \in left : Alike(applied, d, Len(applied)) /\ Shared(chain, d) < Len(applied)

(* What was read of the window so far is of the applied chain. *)
ReadRight ==
    IF phase = "backfill"
    THEN /\ Alike(applied, chain, Len(applied))
         /\ window = SubSeq(applied, Lo(Top), cursor - 1)
    ELSE phase # "down" => window = LastOf(applied, WINDOW)

FollowInv ==
    /\ ChainsTyped
    /\ PassTyped
    /\ Positions
    /\ Rooted
    /\ Tainted \/ ReadRight
    /\ phase = "rules" => window = LastOf(applied, WINDOW)

LEMMA Numbers ==
    /\ Origin \in Nat /\ MaxHeight \in Nat /\ Origin + 2 <= MaxHeight
    /\ WINDOW \in Nat \ {0}
    /\ Marks # {}
BY FollowAssumption

LEMMA BoundedIs ==
    ASSUME NEW S, NEW n \in Nat, NEW s
    PROVE  s \in BoundedSeq(S, n) <=> s \in Seq(S) /\ Len(s) <= n
<1>1. ASSUME s \in BoundedSeq(S, n) PROVE s \in Seq(S) /\ Len(s) <= n
  <2>1. PICK m \in 0 .. n : s \in [1 .. m -> S]
    BY <1>1 DEF BoundedSeq, SeqOf
  <2>2. m \in Nat /\ m <= n
    OBVIOUS
  <2>3. s \in Seq(S)
    BY <2>1, <2>2, SeqDef
  <2>4. Len(s) \in Nat /\ DOMAIN s = 1 .. Len(s) /\ DOMAIN s = 1 .. m
    BY <2>1, <2>3, LenProperties
  <2> QED BY <2>2, <2>3, <2>4
<1>2. ASSUME s \in Seq(S), Len(s) <= n PROVE s \in BoundedSeq(S, n)
  <2>1. Len(s) \in 0 .. n /\ s \in [1 .. Len(s) -> S]
    BY <1>2, LenProperties
  <2> QED BY <2>1 DEF BoundedSeq, SeqOf
<1> QED BY <1>1, <1>2

LEMMA ChainsAre ==
    ASSUME NEW c
    PROVE  c \in Chains <=> c \in Seq(Marks) /\ Len(c) > Origin /\ Len(c) <= MaxHeight
BY Numbers, BoundedIs DEF Chains

(* A chain on which the node stands and which begins with the applied one   *)
(* is none that it left below the applied tip.                              *)
LEMMA OnAppliedIsClean ==
    ASSUME ChainsTyped, Alike(applied, chain, Len(applied))
    PROVE  ~Tainted
<1>1. SUFFICES ASSUME NEW d \in left, Alike(applied, d, Len(applied)),
                      Shared(chain, d) < Len(applied)
               PROVE  FALSE
    BY DEF Tainted
<1>2. /\ chain \in Seq(Marks) /\ d \in Seq(Marks) /\ applied \in Seq(Marks)
      /\ Len(applied) \in Nat
    BY LenProperties DEF ChainsTyped
<1>3. Alike(chain, d, Len(applied))
    BY <1>1 DEF Alike
<1>4. Shared(chain, d) \in Nat /\ Len(applied) <= Shared(chain, d)
    BY <1>2, <1>3, SharedIsLongest
<1> QED BY <1>1, <1>2, <1>4

LEMMA InitFollow == Init => FollowInv
<1>1. SUFFICES ASSUME Init PROVE FollowInv
    OBVIOUS
<1> DEFINE m0 == CHOOSE m \in Marks : TRUE
<1>2. m0 \in Marks
    BY Numbers
<1> HIDE DEF m0
<1>3. chain = [i \in 1 .. Origin + 2 |-> m0] /\ Origin + 2 \in Nat
    BY <1>1, Numbers DEF Init, m0
<1>4. chain \in [1 .. Origin + 2 -> Marks]
    BY <1>2, <1>3
<1>5. chain \in Seq(Marks)
    BY <1>3, <1>4, SeqDef
<1>6. Len(chain) = Origin + 2
  <2>1. Len(chain) \in Nat /\ DOMAIN chain = 1 .. Len(chain)
    BY <1>5, LenProperties
  <2> QED BY <1>3, <1>4, <2>1
<1>7. /\ applied \in Seq(Marks) /\ Len(applied) = Origin
      /\ \A i \in 1 .. Origin : applied[i] = chain[i]
  <2>1. Origin \in 0 .. Len(chain)
    BY <1>6, Numbers
  <2>2. applied = SubSeq(chain, 1, Origin)
    BY <1>1 DEF Init
  <2> QED BY <1>5, <2>1, <2>2, Beginning
<1>8. window = LastOf(applied, WINDOW)
    BY <1>1 DEF Init
<1>9. window \in Seq(Marks) /\ Len(window) <= WINDOW
    BY <1>7, <1>8, LastIsShort
<1>10. ChainsTyped
  <2>1. left = {}
    BY <1>1 DEF Init
  <2> QED BY <1>5, <1>6, <1>7, <1>9, <2>1, Numbers DEF ChainsTyped
<1>11. PassTyped
  <2>1. pushes \in Seq(Push)
    BY <1>1, EmptySeq DEF Init
  <2>2. best = 0 /\ cursor = 0 /\ phase = "down" /\ stream = "closed"
    BY <1>1 DEF Init
  <2> QED BY <2>1, <2>2, Numbers DEF PassTyped, Phases
<1>12. Rooted
    BY <1>6, <1>7, Numbers DEF Rooted, Alike
<1>13. phase = "down"
    BY <1>1 DEF Init
<1>14. Positions /\ ReadRight
    BY <1>13 DEF Positions, ReadRight
<1> QED
    BY <1>10, <1>11, <1>12, <1>13, <1>14 DEF FollowInv

-----------------------------------------------------------------------------
(***************************************************************************)
(* Steps that leave the chains and the window alone                        *)
(***************************************************************************)
LEMMA ChainsUnchanged ==
    ASSUME FollowInv, UNCHANGED <<chain, left, applied, window>>
    PROVE  ChainsTyped' /\ Rooted' /\ (Tainted => Tainted')
<1>1. chain' = chain /\ left' = left /\ applied' = applied /\ window' = window
    OBVIOUS
<1>2. ChainsTyped'
    BY <1>1 DEF FollowInv, ChainsTyped
<1>3. Rooted'
    BY <1>1 DEF FollowInv, Rooted, Alike
<1>4. Tainted => Tainted'
    BY <1>1 DEF Tainted, Alike
<1> QED BY <1>2, <1>3, <1>4

LEMMA SamePhase ==
    ASSUME FollowInv, UNCHANGED <<chain, left, applied, window, phase, best, cursor>>,
           PassTyped'
    PROVE  FollowInv'
<1>1. ChainsTyped' /\ Rooted' /\ (Tainted => Tainted')
    BY ChainsUnchanged
<1>2. /\ chain' = chain /\ applied' = applied /\ window' = window /\ phase' = phase
      /\ best' = best /\ cursor' = cursor
    OBVIOUS
<1>3. Positions'
    BY <1>2 DEF FollowInv, Positions, Lo, Kept, Top
<1>4. ReadRight => ReadRight'
    BY <1>2 DEF ReadRight, Lo, Kept, Top, Alike, LastOf
<1>5. phase' = "rules" => window' = LastOf(applied', WINDOW)
    BY <1>2 DEF FollowInv, LastOf
<1> QED BY <1>1, <1>3, <1>4, <1>5 DEF FollowInv

LEMMA QuietStep ==
    ASSUME FollowInv, UNCHANGED <<chain, left, applied, window>>,
           PassTyped', Positions',
           phase' \notin {"backfill", "rules"},
           phase' = "down" \/ phase \notin {"backfill", "down"}
    PROVE  FollowInv'
<1>1. ChainsTyped' /\ Rooted' /\ (Tainted => Tainted')
    BY ChainsUnchanged
<1>2. applied' = applied /\ window' = window
    OBVIOUS
<1>3. ReadRight => ReadRight'
    BY <1>2 DEF ReadRight, LastOf
<1> QED BY <1>1, <1>3 DEF FollowInv

LEMMA StreamDiesStep == FollowInv /\ StreamDies => FollowInv'
<1>1. SUFFICES ASSUME FollowInv, StreamDies PROVE FollowInv'
    OBVIOUS
<1>2. /\ UNCHANGED <<chain, left, applied, window, phase, best, cursor>>
      /\ stream = "open" /\ stream' = "dead" /\ pushes' = << >>
    BY <1>1 DEF StreamDies, node
<1>3. PassTyped'
    BY <1>1, <1>2, EmptySeq DEF FollowInv, PassTyped, Phases
<1> QED BY <1>1, <1>2, <1>3, SamePhase

LEMMA StutterStep == FollowInv /\ UNCHANGED vars => FollowInv'
<1>1. SUFFICES ASSUME FollowInv, UNCHANGED vars PROVE FollowInv'
    OBVIOUS
<1>2. /\ UNCHANGED <<chain, left, applied, window, phase, best, cursor>>
      /\ stream' = stream /\ pushes' = pushes
    BY <1>1 DEF vars
<1>3. PassTyped'
    BY <1>1, <1>2 DEF FollowInv, PassTyped
<1> QED BY <1>1, <1>2, <1>3, SamePhase

LEMMA FailsStep == ASSUME NEW e \in Errors PROVE FollowInv /\ Fails(e) => FollowInv'
<1>1. SUFFICES ASSUME FollowInv, Fails(e) PROVE FollowInv'
    OBVIOUS
<1>2. /\ UNCHANGED <<chain, left, applied, window>> /\ best' = best /\ cursor' = cursor
      /\ phase' = AfterError(e) /\ phase' # phase
      /\ phase \in {"walk", "backfill", "apply", "check", "boot", "wait"}
      /\ stream' = IF phase' = "down" THEN "closed" ELSE stream
      /\ pushes' = IF phase' = "down" THEN << >> ELSE pushes
    BY <1>1 DEF Fails, node
<1>3. /\ phase' \in {"down", "wait"}
      /\ phase' = "wait" => phase \in {"walk", "apply", "check"}
    BY <1>2 DEF AfterError
<1>4. PassTyped'
  <2>1. pushes' \in Seq(Push)
    BY <1>1, <1>2, EmptySeq DEF FollowInv, PassTyped
  <2>2. PassTyped
    BY <1>1 DEF FollowInv
  <2> QED BY <1>2, <1>3, <2>1, <2>2 DEF PassTyped, Phases
<1>5. Positions'
    BY <1>3 DEF Positions
<1> QED BY <1>1, <1>2, <1>3, <1>4, <1>5, QuietStep

LEMMA WalkFromIs ==
    ASSUME ChainsTyped, NEW h \in Origin + 1 .. MaxHeight
    PROVE  WalkFrom(h) \in Origin .. Len(applied)
<1>1. Len(applied) \in Nat /\ Origin <= Len(applied) /\ h \in Nat /\ Origin <= h /\ Origin \in Nat
    BY LenProperties, Numbers DEF ChainsTyped
<1> DEFINE n == Len(applied)
           x0 == IF h <= n THEN h ELSE n
<1> HIDE DEF n
<1>2. x0 \in {h, n} /\ \A y \in {h, n} : x0 <= y
    BY <1>1 DEF n
<1>3. \A x \in {h, n} : (\A y \in {h, n} : x =< y) => x = x0
    BY <1>1 DEF n
<1>4. Min({h, n}) = x0
    BY <1>2, <1>3 DEF Min
<1> QED BY <1>1, <1>4 DEF WalkFrom, Top, n

LEMMA StartedWalk ==
    ASSUME FollowInv, UNCHANGED <<chain, left, applied, window>>,
           NEW h \in Origin + 1 .. MaxHeight, StartWalk(h), phase' = "walk",
           stream' = "open", pushes' \in Seq(Push),
           phase \in {"wait", "repair"}
    PROVE  FollowInv'
<1>1. /\ best' = h /\ cursor' \in Origin .. Len(applied) /\ ChainsTyped
    BY WalkFromIs DEF StartWalk, FollowInv
<1>2. PassTyped'
  <2>1. h \in 0 .. MaxHeight /\ cursor' \in 0 .. MaxHeight + 1
    BY <1>1, Numbers, LenProperties DEF ChainsTyped
  <2> QED BY <1>1, <2>1 DEF PassTyped, Phases
<1>3. Positions'
    BY <1>1 DEF Positions
<1> QED BY <1>2, <1>3, QuietStep

LEMMA AnnouncedStep == FollowInv /\ Announced => FollowInv'
<1>1. SUFFICES ASSUME FollowInv, Announced PROVE FollowInv'
    OBVIOUS
<1>2. /\ UNCHANGED <<chain, left, applied, window>>
      /\ phase = "wait" /\ phase' = "walk" /\ stream = "open" /\ stream' = "open"
      /\ pushes # << >> /\ pushes' = Tail(pushes)
    BY <1>1 DEF Announced
<1>3. pushes \in Seq(Push)
    BY <1>1 DEF FollowInv, PassTyped
<1>4. Head(pushes) \in Push /\ pushes' \in Seq(Push)
    BY <1>2, <1>3, HeadTailProperties
<1> DEFINE h == IF Head(pushes).ok THEN Head(pushes).height ELSE Len(chain)
<1>5. Head(pushes).height \in Origin + 1 .. MaxHeight
    BY <1>4 DEF Push
<1>6. Len(chain) \in Origin + 1 .. MaxHeight
    BY <1>1, LenProperties, Numbers DEF FollowInv, ChainsTyped
<1>7. h \in Origin + 1 .. MaxHeight
    BY <1>5, <1>6
<1>8. StartWalk(h)
    BY <1>1 DEF Announced
<1> HIDE DEF h
<1> QED BY <1>1, <1>2, <1>4, <1>7, <1>8, StartedWalk

LEMMA StreamFailedStep == FollowInv /\ StreamFailed => FollowInv'
<1>1. SUFFICES ASSUME FollowInv, StreamFailed PROVE FollowInv'
    OBVIOUS
<1>2. /\ UNCHANGED <<chain, left, applied, window>>
      /\ phase = "wait" /\ phase' = "repair" /\ best' = Len(chain)
      /\ stream' = stream /\ stream = "dead" /\ pushes' = pushes /\ cursor' = cursor
    BY <1>1 DEF StreamFailed
<1>3. best' \in 0 .. MaxHeight /\ best' > Origin
    BY <1>1, <1>2, LenProperties, Numbers DEF FollowInv, ChainsTyped
<1>4. PassTyped' /\ Positions'
    BY <1>1, <1>2, <1>3 DEF FollowInv, PassTyped, Phases, Positions
<1> QED BY <1>1, <1>2, <1>4, QuietStep

LEMMA RepairStep == FollowInv /\ Repair => FollowInv'
<1>1. SUFFICES ASSUME FollowInv, Repair PROVE FollowInv'
    OBVIOUS
<1>2. /\ UNCHANGED <<chain, left, applied, window>>
      /\ phase = "repair" /\ phase' = "walk" /\ stream' = "open" /\ pushes' = pushes
      /\ StartWalk(best)
    BY <1>1 DEF Repair, node
<1>3. best \in Origin + 1 .. MaxHeight
    BY <1>1, <1>2, Numbers DEF FollowInv, PassTyped, Positions
<1>4. pushes' \in Seq(Push)
    BY <1>1, <1>2 DEF FollowInv, PassTyped
<1> QED BY <1>1, <1>2, <1>3, <1>4, StartedWalk

(* The walk stops at the checkpoint at the latest. *)
LEMMA WalkBackStep == FollowInv /\ WalkBack => FollowInv'
<1>1. SUFFICES ASSUME FollowInv, WalkBack PROVE FollowInv'
    OBVIOUS
<1>2. /\ UNCHANGED <<chain, left, applied, window>>
      /\ phase = "walk" /\ phase' = "walk" /\ stream' = stream /\ pushes' = pushes
      /\ best' = best /\ cursor' = cursor - 1 /\ ~HashesAgree(cursor)
    BY <1>1 DEF WalkBack, node
<1>3. cursor \in Origin .. Len(applied) /\ Origin \in Nat /\ Len(applied) \in Nat
    BY <1>1, <1>2, Numbers, LenProperties DEF FollowInv, Positions, ChainsTyped
<1>4. HashesAgree(Origin)
  <2>1. /\ applied \in Seq(Marks) /\ chain \in Seq(Marks)
        /\ Origin <= Len(applied) /\ Origin <= Len(chain)
    BY <1>1 DEF FollowInv, ChainsTyped, Rooted, Alike
  <2> QED BY <1>1, <1>3, <2>1, SameBeginning DEF HashesAgree, FollowInv, Rooted
<1>5. cursor # Origin
    BY <1>2, <1>4
<1>6. cursor' \in Origin .. Len(applied) /\ cursor' \in 0 .. MaxHeight + 1
  <2>1. Len(applied) <= MaxHeight
    BY <1>1 DEF FollowInv, ChainsTyped
  <2> QED BY <1>2, <1>3, <1>5, <2>1, Numbers
<1>7. PassTyped' /\ Positions'
    BY <1>1, <1>2, <1>6 DEF FollowInv, PassTyped, Phases, Positions
<1> QED BY <1>1, <1>2, <1>7, QuietStep

LEMMA PhaseOnlyStep ==
    FollowInv /\ (Discard \/ Scanned \/ Ruled \/ BootDone) => FollowInv'
<1>1. SUFFICES ASSUME FollowInv, Discard \/ Scanned \/ Ruled \/ BootDone PROVE FollowInv'
    OBVIOUS
<1>2. /\ UNCHANGED <<chain, left, applied, window>>
      /\ pushes' = pushes /\ best' = best /\ cursor' = cursor
    BY <1>1 DEF Discard, Scanned, Ruled, BootDone, node
<1>3. \/ phase = "boot" /\ phase' = "down" /\ stream' = stream
      \/ phase = "apply" /\ phase' = "wait" /\ stream' = stream
      \/ phase = "apply" /\ phase' = "check" /\ stream' = stream
      \/ phase = "rules" /\ phase' = "wait" /\ stream' = stream
      \/ phase = "boot" /\ phase' = "wait" /\ stream' = "open"
    BY <1>1 DEF Discard, Scanned, Ruled, BootDone
<1>4. PassTyped' /\ Positions'
    BY <1>1, <1>2, <1>3 DEF FollowInv, PassTyped, Phases, Positions
<1> QED BY <1>1, <1>2, <1>3, <1>4, QuietStep

-----------------------------------------------------------------------------
(***************************************************************************)
(* Steps that read the chain                                               *)
(***************************************************************************)

(* The rules run only when the node stands on the applied chain, and then   *)
(* nothing was read of another.                                             *)
LEMMA CheckStep == FollowInv /\ Check => FollowInv'
<1>1. SUFFICES ASSUME FollowInv, Check PROVE FollowInv'
    OBVIOUS
<1>2. /\ UNCHANGED <<chain, left, applied, window>>
      /\ pushes' = pushes /\ best' = best /\ cursor' = cursor /\ stream' = stream
      /\ phase = "check" /\ phase' = IF chain = applied THEN "rules" ELSE "wait"
    BY <1>1 DEF Check, node
<1>3. PassTyped' /\ Positions'
    BY <1>1, <1>2 DEF FollowInv, PassTyped, Phases, Positions
<1>4. CASE phase' = "wait"
    BY <1>1, <1>2, <1>3, <1>4, QuietStep
<1>5. CASE phase' = "rules"
  <2>1. chain = applied
    BY <1>2, <1>5
  <2>2. Alike(applied, chain, Len(applied))
    BY <1>1, <2>1, LenProperties DEF Alike, FollowInv, ChainsTyped
  <2>3. ~Tainted
    BY <1>1, <2>2, OnAppliedIsClean DEF FollowInv
  <2>4. window = LastOf(applied, WINDOW)
    BY <1>1, <1>2, <2>3 DEF FollowInv, ReadRight
  <2>5. window' = LastOf(applied', WINDOW)
    BY <1>2, <2>4
  <2>6. ReadRight'
    BY <1>5, <2>5 DEF ReadRight
  <2>7. ChainsTyped' /\ Rooted'
    BY <1>1, <1>2, ChainsUnchanged
  <2> QED BY <1>3, <2>5, <2>6, <2>7 DEF FollowInv
<1> QED BY <1>2, <1>4, <1>5

LEMMA WalkEndsStep ==
    ASSUME NEW rewound \in {cursor, Origin}
    PROVE  FollowInv /\ WalkEnds(rewound) => FollowInv'
<1>1. SUFFICES ASSUME FollowInv, WalkEnds(rewound) PROVE FollowInv'
    OBVIOUS
<1>2. /\ phase = "walk" /\ HashesAgree(cursor) /\ cursor <= Len(chain)
      /\ chain' = chain /\ left' = left
      /\ stream' = stream /\ pushes' = pushes /\ best' = best
    BY <1>1 DEF WalkEnds, node
<1>3. /\ chain \in Seq(Marks) /\ applied \in Seq(Marks) /\ Len(chain) \in Nat
      /\ Len(applied) \in Nat /\ Origin \in Nat /\ Origin <= Len(applied)
      /\ cursor \in Origin .. Len(applied) /\ Len(applied) <= MaxHeight
      /\ MaxHeight \in Nat
    BY <1>1, <1>2, LenProperties, Numbers DEF FollowInv, ChainsTyped, Positions
<1>4. CASE ~(cursor < Top)
  <2>1. UNCHANGED <<applied, window, cursor>> /\ phase' = "apply"
    BY <1>1, <1>4 DEF WalkEnds
  <2>2. PassTyped' /\ Positions'
    BY <1>1, <1>2, <2>1 DEF FollowInv, PassTyped, Phases, Positions
  <2> QED BY <1>1, <1>2, <2>1, <2>2, QuietStep
<1>5. CASE cursor < Top
  <2>1. /\ applied' = SubSeq(applied, 1, rewound) /\ window' = << >>
        /\ phase' = "backfill" /\ cursor' = Min(HeadersTo(rewound) \cup {rewound})
    BY <1>1, <1>5 DEF WalkEnds
  <2>2. rewound \in Nat /\ Origin <= rewound /\ rewound <= cursor /\ cursor \in Nat
    BY <1>3
  <2>3. /\ applied' \in Seq(Marks) /\ Len(applied') = rewound
        /\ \A i \in 1 .. rewound : applied'[i] = applied[i]
    BY <1>3, <2>1, <2>2, Beginning
  <2>4. Alike(applied, chain, cursor)
    BY <1>2, <1>3, <2>2, SameBeginning DEF HashesAgree
  <2>5. Alike(applied', chain', Len(applied'))
    BY <1>2, <1>3, <2>2, <2>3, <2>4 DEF Alike
  <2>6. Rooted'
    BY <1>2, <1>3, <2>2, <2>3, <2>5 DEF Rooted, Alike
  <2>7. ChainsTyped'
    <3>1. window' \in Seq(Marks) /\ Len(window') <= WINDOW
        BY <2>1, EmptySeq, Numbers
    <3> QED BY <1>1, <1>2, <1>3, <2>2, <2>3, <3>1 DEF FollowInv, ChainsTyped
  <2>8. cursor' = (IF rewound = 0 THEN 0 ELSE Lo(rewound)) /\ Lo(rewound) \in 1 .. rewound + 1
        /\ (rewound > 0 => Lo(rewound) <= rewound)
    BY <2>1, <2>2, Heights
  <2>9. Positions'
    <3>1. cursor' \in Lo(rewound) .. rewound + 1 \/ (rewound = 0 /\ cursor' = 0)
        BY <2>2, <2>8
    <3> QED BY <2>1, <2>3, <3>1 DEF Positions, Top, Lo, Kept
  <2>10. PassTyped'
    <3>1. cursor' \in 0 .. MaxHeight + 1
        BY <1>3, <2>2, <2>8
    <3> QED BY <1>1, <1>2, <2>1, <3>1 DEF FollowInv, PassTyped, Phases
  <2>11. window' = SubSeq(applied', Lo(Len(applied')), cursor' - 1)
    <3>1. cursor' - 1 \in Int /\ Lo(rewound) \in Int /\ cursor' - 1 < Lo(rewound)
        BY <2>2, <2>8
    <3> QED BY <2>1, <2>3, <3>1, SubSeqEmpty
  <2>12. ReadRight'
    BY <2>1, <2>5, <2>11 DEF ReadRight, Top, Lo, Kept
  <2> QED BY <2>1, <2>6, <2>7, <2>9, <2>10, <2>12 DEF FollowInv
<1> QED BY <1>4, <1>5

LEMMA BackfillStep == FollowInv /\ Backfill => FollowInv'
<1>1. SUFFICES ASSUME FollowInv, Backfill PROVE FollowInv'
    OBVIOUS
<1>2. /\ phase = "backfill" /\ phase' = "backfill"
      /\ cursor \in HeadersTo(Top) /\ cursor <= Len(chain)
      /\ window' = Slide(window, chain[cursor]) /\ cursor' = cursor + 1
      /\ chain' = chain /\ left' = left /\ applied' = applied
      /\ stream' = stream /\ pushes' = pushes /\ best' = best
    BY <1>1 DEF Backfill, node
<1>3. /\ chain \in Seq(Marks) /\ applied \in Seq(Marks) /\ window \in Seq(Marks)
      /\ Len(applied) \in Nat /\ Len(chain) \in Nat /\ Len(applied) <= MaxHeight
      /\ MaxHeight \in Nat
    BY <1>1, LenProperties, Numbers DEF FollowInv, ChainsTyped
<1>4. cursor \in Lo(Len(applied)) .. Len(applied) /\ Lo(Len(applied)) \in 1 .. Len(applied) + 1
    BY <1>2, <1>3, Heights DEF Top
<1>5. window' \in Seq(Marks) /\ Len(window') <= WINDOW
  <2>1. chain[cursor] \in Marks
    BY <1>2, <1>3, <1>4, ElementOfSeq
  <2>2. Append(window, chain[cursor]) \in Seq(Marks)
    BY <1>3, <2>1, AppendProperties
  <2> QED BY <1>2, <2>2, LastIsShort DEF Slide
<1>6. ChainsTyped'
    BY <1>1, <1>2, <1>5 DEF FollowInv, ChainsTyped
<1>7. PassTyped'
  <2>1. cursor' \in 0 .. MaxHeight + 1
    BY <1>2, <1>3, <1>4
  <2> QED BY <1>1, <1>2, <2>1 DEF FollowInv, PassTyped
<1>8. Positions'
  <2>1. cursor' \in Lo(Len(applied)) .. Len(applied) + 1
    BY <1>2, <1>3, <1>4
  <2> QED BY <1>2, <2>1 DEF Positions, Top, Lo, Kept
<1>9. Rooted'
    BY <1>1, <1>2 DEF FollowInv, Rooted, Alike
<1>10. Tainted => Tainted'
    BY <1>2 DEF Tainted, Alike
<1>11. ASSUME ReadRight PROVE ReadRight'
  <2>1. /\ Alike(applied, chain, Len(applied))
        /\ window = SubSeq(applied, Lo(Len(applied)), cursor - 1)
    BY <1>2, <1>11 DEF ReadRight, Top
  <2>2. chain[cursor] = applied[cursor]
    BY <1>3, <1>4, <2>1 DEF Alike
  <2>3. window' = SubSeq(applied, Lo(Len(applied)), cursor)
    BY <1>2, <1>3, <1>4, <2>1, <2>2, SlideSlice
  <2>4. cursor' - 1 = cursor
    BY <1>2, <1>3, <1>4
  <2>5. window' = SubSeq(applied', Lo(Len(applied')), cursor' - 1)
    BY <1>2, <2>3, <2>4
  <2>6. Alike(applied', chain', Len(applied'))
    BY <1>2, <2>1 DEF Alike
  <2> QED BY <1>2, <2>5, <2>6 DEF ReadRight, Top, Lo, Kept
<1> QED BY <1>1, <1>2, <1>6, <1>7, <1>8, <1>9, <1>10, <1>11 DEF FollowInv

LEMMA BackfillDoneStep == FollowInv /\ BackfillDone => FollowInv'
<1>1. SUFFICES ASSUME FollowInv, BackfillDone PROVE FollowInv'
    OBVIOUS
<1>2. /\ UNCHANGED <<chain, left, applied, window>>
      /\ phase = "backfill" /\ phase' = "apply" /\ cursor \notin HeadersTo(Top)
      /\ stream' = stream /\ pushes' = pushes /\ best' = best /\ cursor' = cursor
    BY <1>1 DEF BackfillDone, node
<1>3. ChainsTyped' /\ Rooted' /\ (Tainted => Tainted')
    BY <1>1, <1>2, ChainsUnchanged
<1>4. PassTyped' /\ Positions'
    BY <1>1, <1>2 DEF FollowInv, PassTyped, Phases, Positions
<1>5. applied \in Seq(Marks) /\ Len(applied) \in Nat
    BY <1>1, LenProperties DEF FollowInv, ChainsTyped
<1>6. ASSUME ReadRight PROVE ReadRight'
  <2> DEFINE n == Len(applied)
  <2>1. window = SubSeq(applied, Lo(n), cursor - 1)
    BY <1>2, <1>6 DEF ReadRight, Top
  <2>2. cursor \in Lo(n) .. n + 1 \/ (n = 0 /\ cursor = 0)
    BY <1>1, <1>2 DEF FollowInv, Positions, Top
  <2>3. cursor \notin Lo(n) .. n /\ Lo(n) \in 1 .. n + 1
    BY <1>2, <1>5, Heights DEF Top
  <2>4. LastOf(applied, WINDOW) = SubSeq(applied, Lo(n), n)
    BY <1>5, LastFacts
  <2>5. CASE cursor = n + 1
    <3>1. cursor - 1 = n
        BY <1>5, <2>5
    <3>2. window' = LastOf(applied', WINDOW)
        BY <1>2, <2>1, <2>4, <3>1
    <3> QED BY <1>2, <3>2 DEF ReadRight
  <2>6. CASE n = 0 /\ cursor = 0
    <3>1. /\ Lo(n) \in Int /\ cursor - 1 \in Int /\ cursor - 1 < Lo(n)
          /\ n \in Int /\ n < Lo(n)
        BY <2>3, <2>6
    <3>2. window = << >> /\ SubSeq(applied, Lo(n), n) = << >>
        BY <2>1, <3>1, SubSeqEmpty
    <3>3. window' = LastOf(applied', WINDOW)
        BY <1>2, <2>4, <3>2
    <3> QED BY <1>2, <3>3 DEF ReadRight
  <2>7. cursor = n + 1 \/ (n = 0 /\ cursor = 0)
    <3> HIDE DEF n
    <3>1. n \in Nat
        BY <1>5 DEF n
    <3> QED BY <2>2, <2>3, <3>1
  <2> QED BY <2>5, <2>6, <2>7
<1> QED BY <1>1, <1>2, <1>3, <1>4, <1>6 DEF FollowInv

(* A block is applied only from the chain the applied one is the beginning  *)
(* of, so the window that is fed it is right.                               *)
LEMMA ApplyStep == FollowInv /\ Apply => FollowInv'
<1>1. SUFFICES ASSUME FollowInv, Apply PROVE FollowInv'
    OBVIOUS
<1> DEFINE n == Len(applied)
           x == chain[n + 1]
<1>2. /\ phase \in {"apply", "boot"} /\ phase' = phase
      /\ n < Len(chain) /\ IsPrefix(applied, chain)
      /\ applied' = Append(applied, x) /\ window' = Slide(window, x)
      /\ chain' = chain /\ left' = left
      /\ stream' = stream /\ pushes' = pushes /\ best' = best /\ cursor' = cursor
    BY <1>1 DEF Apply, node, Top
<1>3. /\ chain \in Seq(Marks) /\ applied \in Seq(Marks)
      /\ n \in Nat /\ Len(chain) \in Nat /\ Origin \in Nat
      /\ Origin <= n /\ Len(chain) <= MaxHeight /\ MaxHeight \in Nat
    BY <1>1, LenProperties, Numbers DEF FollowInv, ChainsTyped
<1>4. x \in Marks
    BY <1>2, <1>3, ElementOfSeq
<1>5. Alike(applied, chain, n)
    BY <1>2, <1>3, PrefixIsAlike
<1>6. window = LastOf(applied, WINDOW)
  <2>1. ~Tainted
    BY <1>1, <1>5, OnAppliedIsClean DEF FollowInv
  <2> QED BY <1>1, <1>2, <2>1 DEF FollowInv, ReadRight
<1>7. window' = LastOf(applied', WINDOW)
    BY <1>2, <1>3, <1>4, <1>6, SlideLast
<1> HIDE DEF x
<1>8. applied' \in Seq(Marks) /\ Len(applied') = n + 1 /\ \A i \in 1 .. n : applied'[i] = applied[i]
    BY <1>2, <1>3, <1>4, AppendProperties
<1>9. window' \in Seq(Marks) /\ Len(window') <= WINDOW
    BY <1>7, <1>8, LastIsShort
<1> HIDE DEF n
<1>10. ChainsTyped'
  <2>1. Origin <= n + 1 /\ n + 1 <= MaxHeight
    BY <1>2, <1>3
  <2> QED BY <1>1, <1>2, <1>8, <1>9, <2>1 DEF FollowInv, ChainsTyped
<1>11. PassTyped' /\ Positions'
    BY <1>1, <1>2 DEF FollowInv, PassTyped, Phases, Positions
<1>12. Rooted'
  <2>1. \A i \in 1 .. Origin : i \in 1 .. n
    BY <1>3
  <2>2. Origin <= n + 1 /\ Origin <= Len(chain)
    BY <1>2, <1>3
  <2>3. \A i \in 1 .. Origin : applied'[i] = chain'[i]
    BY <1>2, <1>5, <1>8, <2>1 DEF Alike
  <2> QED BY <1>2, <1>8, <2>2, <2>3 DEF Rooted, Alike
<1>13. ReadRight'
    BY <1>2, <1>7 DEF ReadRight
<1> QED BY <1>2, <1>7, <1>10, <1>11, <1>12, <1>13 DEF FollowInv

LEMMA BootStartStep == FollowInv /\ BootStart => FollowInv'
<1>1. SUFFICES ASSUME FollowInv, BootStart PROVE FollowInv'
    OBVIOUS
<1>2. /\ phase = "down" /\ phase' = "boot" /\ applied' = SubSeq(chain, 1, Origin)
      /\ window' = LastOf(applied', WINDOW) /\ best' = Len(chain) /\ cursor' = Origin
      /\ chain' = chain /\ left' = left /\ stream' = stream /\ pushes' = pushes
    BY <1>1 DEF BootStart
<1>3. /\ chain \in Seq(Marks) /\ Len(chain) \in Nat /\ Origin \in Nat /\ MaxHeight \in Nat
      /\ Origin < Len(chain) /\ Len(chain) <= MaxHeight
    BY <1>1, LenProperties, Numbers DEF FollowInv, ChainsTyped
<1>4. /\ applied' \in Seq(Marks) /\ Len(applied') = Origin
      /\ \A i \in 1 .. Origin : applied'[i] = chain[i]
    BY <1>2, <1>3, Beginning
<1>5. window' \in Seq(Marks) /\ Len(window') <= WINDOW
    BY <1>2, <1>4, LastIsShort
<1>6. ChainsTyped'
    BY <1>1, <1>2, <1>3, <1>4, <1>5 DEF FollowInv, ChainsTyped
<1>7. PassTyped'
  <2>1. best' \in 0 .. MaxHeight /\ cursor' \in 0 .. MaxHeight + 1
    BY <1>2, <1>3
  <2> QED BY <1>1, <1>2, <2>1 DEF FollowInv, PassTyped, Phases
<1>8. Positions' /\ ReadRight'
    BY <1>2 DEF Positions, ReadRight
<1>9. Rooted'
    BY <1>2, <1>3, <1>4 DEF Rooted, Alike
<1> QED BY <1>2, <1>6, <1>7, <1>8, <1>9 DEF FollowInv

LEMMA MoveStep ==
    ASSUME ~Returns, NEW c \in Chains, NEW told \in BOOLEAN, NEW ok \in BOOLEAN
    PROVE  FollowInv /\ Move(c, told, ok) => FollowInv'
<1>1. SUFFICES ASSUME FollowInv, Move(c, told, ok) PROVE FollowInv'
    OBVIOUS
<1>2. /\ chain' = c /\ left' = IF IsPrefix(chain, c) THEN left ELSE left \cup {chain}
      /\ applied' = applied /\ window' = window /\ stream' = stream /\ phase' = phase
      /\ best' = best /\ cursor' = cursor
      /\ pushes' = IF stream # "open" THEN pushes
                   ELSE Append(IF told THEN pushes ELSE << >>, [height |-> Len(c), ok |-> ok])
      /\ Better(c)
    BY <1>1 DEF Move
<1>3. /\ c \in Seq(Marks) /\ Len(c) \in Nat /\ Len(c) > Origin /\ Len(c) <= MaxHeight
      /\ chain \in Seq(Marks) /\ Len(chain) \in Nat /\ Len(chain) > Origin
      /\ applied \in Seq(Marks) /\ Len(applied) \in Nat
      /\ \A d \in left : d \in Seq(Marks)
      /\ Origin \in Nat /\ MaxHeight \in Nat
    BY <1>1, ChainsAre, LenProperties, Numbers DEF FollowInv, ChainsTyped
<1>4. SubSeq(c, 1, Origin) = SubSeq(chain, 1, Origin)
      /\ \A d \in left : Shared(c, d) <= Shared(chain, d)
    BY <1>2 DEF Better
<1>5. ChainsTyped'
  <2>1. \A d \in left' : d \in Seq(Marks)
    BY <1>2, <1>3
  <2> QED BY <1>1, <1>2, <1>3, <2>1 DEF FollowInv, ChainsTyped
<1>6. PassTyped'
  <2> DEFINE note == [height |-> Len(c), ok |-> ok]
             told0 == IF told THEN pushes ELSE << >>
  <2>1. note \in Push
    <3>1. Len(c) \in Origin + 1 .. MaxHeight
        BY <1>3
    <3> QED BY <3>1 DEF Push
  <2>2. pushes \in Seq(Push) /\ told0 \in Seq(Push)
    BY <1>1, EmptySeq DEF FollowInv, PassTyped
  <2> HIDE DEF note, told0
  <2>3. Append(told0, note) \in Seq(Push)
    BY <2>1, <2>2, AppendProperties
  <2>4. pushes' \in Seq(Push)
    BY <1>2, <2>2, <2>3 DEF note, told0
  <2> QED BY <1>1, <1>2, <2>4 DEF FollowInv, PassTyped
<1>7. Positions'
    BY <1>1, <1>2 DEF FollowInv, Positions, Top, Lo, Kept
<1>8. Rooted'
  <2>1. Alike(c, chain, Origin)
    BY <1>3, <1>4, SameBeginning
  <2> QED BY <1>1, <1>2, <2>1 DEF FollowInv, Rooted, Alike
<1>9. ASSUME Tainted PROVE Tainted'
  <2>1. PICK d \in left : Alike(applied, d, Len(applied)) /\ Shared(chain, d) < Len(applied)
    BY <1>9 DEF Tainted
  <2>2. Shared(c, d) \in Nat /\ Shared(chain, d) \in Nat /\ Shared(c, d) <= Shared(chain, d)
    BY <1>3, <1>4, SharedIsLongest
  <2>3. d \in left' /\ Shared(chain', d) < Len(applied') /\ Alike(applied', d, Len(applied'))
    BY <1>2, <1>3, <2>1, <2>2
  <2> QED BY <2>3 DEF Tainted
<1>10. ASSUME ReadRight PROVE Tainted' \/ ReadRight'
  <2>1. CASE phase # "backfill"
    BY <1>2, <1>10, <2>1 DEF ReadRight
  <2>2. CASE phase = "backfill" /\ Alike(applied, c, Len(applied))
    BY <1>2, <1>10, <2>2 DEF ReadRight, Top, Lo, Kept
  <2>3. CASE phase = "backfill" /\ ~Alike(applied, c, Len(applied))
    <3>1. Alike(applied, chain, Len(applied))
        BY <1>10, <2>3 DEF ReadRight
    <3>2. Shared(c, chain) \in Nat /\ Alike(c, chain, Shared(c, chain))
        BY <1>3, SharedIsLongest
    <3>3. Shared(c, chain) < Len(applied)
      <4>1. SUFFICES ASSUME Len(applied) <= Shared(c, chain) PROVE FALSE
        BY <1>3, <3>2
      <4>2. \A i \in 1 .. Len(applied) : i \in 1 .. Shared(c, chain)
        BY <1>3, <3>2, <4>1
      <4>3. Alike(applied, c, Len(applied))
        BY <1>3, <3>1, <3>2, <4>1, <4>2 DEF Alike
      <4> QED BY <2>3, <4>3
    <3>4. chain \in left'
      <4>1. SUFFICES ASSUME IsPrefix(chain, c) PROVE FALSE
        BY <1>2
      <4>2. Alike(chain, c, Len(chain))
        BY <1>3, <4>1, PrefixIsAlike
      <4>3. Alike(applied, c, Len(applied))
        BY <1>3, <3>1, <4>2 DEF Alike
      <4> QED BY <2>3, <4>3
    <3>5. Tainted'
      <4>1. Shared(chain', chain) < Len(applied') /\ Alike(applied', chain, Len(applied'))
        BY <1>2, <3>1, <3>3
      <4> QED BY <3>4, <4>1 DEF Tainted
    <3> QED BY <3>5
  <2> QED BY <2>1, <2>2, <2>3
<1>11. phase' = "rules" => window' = LastOf(applied', WINDOW)
    BY <1>1, <1>2 DEF FollowInv
<1> QED BY <1>1, <1>5, <1>6, <1>7, <1>8, <1>9, <1>10, <1>11 DEF FollowInv

-----------------------------------------------------------------------------
LEMMA NextFollow == ASSUME ~Returns PROVE FollowInv /\ [Next]_vars => FollowInv'
<1>1. SUFFICES ASSUME FollowInv, [Next]_vars PROVE FollowInv'
    OBVIOUS
<1>2. CASE \E c \in Chains, told, ok \in BOOLEAN : Move(c, told, ok)
    BY <1>1, <1>2, MoveStep
<1>3. CASE StreamDies
    BY <1>1, <1>3, StreamDiesStep
<1>4. CASE \E e \in Errors : Fails(e)
    BY <1>1, <1>4, FailsStep
<1>5. CASE Mint
  <2>1. CASE Announced \/ StreamFailed \/ Repair \/ WalkBack
    BY <1>1, <2>1, AnnouncedStep, StreamFailedStep, RepairStep, WalkBackStep
  <2>2. CASE \E rewound \in {cursor, Origin} : WalkEnds(rewound)
    BY <1>1, <2>2, WalkEndsStep
  <2>3. CASE Backfill \/ BackfillDone \/ Apply \/ Check \/ BootStart
    BY <1>1, <2>3, BackfillStep, BackfillDoneStep, ApplyStep, CheckStep, BootStartStep
  <2>4. CASE Discard \/ Scanned \/ Ruled \/ BootDone
    BY <1>1, <2>4, PhaseOnlyStep
  <2>5. CASE Fails("not_found")
    BY <1>1, <2>5, FailsStep DEF Errors
  <2> QED BY <1>5, <2>1, <2>2, <2>3, <2>4, <2>5 DEF Mint
<1>6. CASE UNCHANGED vars
    BY <1>1, <1>6, StutterStep
<1> QED BY <1>1, <1>2, <1>3, <1>4, <1>5, <1>6 DEF Next

LEMMA InvGivesClock == FollowInv => ClockOfChain
<1>1. SUFFICES ASSUME FollowInv PROVE ClockOfChain
    OBVIOUS
<1>2. chain \in Chains
    BY <1>1, ChainsAre DEF FollowInv, ChainsTyped
<1>3. applied \in BoundedSeq(Marks, MaxHeight) /\ window \in BoundedSeq(Marks, WINDOW)
    BY <1>1, BoundedIs, Numbers DEF FollowInv, ChainsTyped
<1>4. {best, cursor} \subseteq 0 .. MaxHeight + 1
    BY <1>1, Numbers DEF FollowInv, PassTyped
<1>5. FollowTypeOK
    BY <1>1, <1>2, <1>3, <1>4 DEF FollowInv, PassTyped, Phases, FollowTypeOK
<1> QED BY <1>1, <1>5 DEF FollowInv, ClockOfChain

(* With a node that does not return to a chain it left, the rules run on    *)
(* the clock of the applied chain, however the node moves while the headers *)
(* of a rewind, a catch-up or a boot scan are read, and whatever fails (the *)
(* rewind and catch-up of main.rs: no histories are mixed in the window).   *)
THEOREM RulesRunOnOneChain ==
    ASSUME ~Returns
    PROVE  Spec => []ClockOfChain
<1>1. Init => FollowInv
    BY InitFollow
<1>2. FollowInv /\ [Next]_vars => FollowInv'
    BY NextFollow
<1>3. FollowInv => ClockOfChain
    BY InvGivesClock
<1> QED
    BY <1>1, <1>2, <1>3, PTL DEF Spec
=============================================================================
