--------------------------- MODULE TreasuryProofs ---------------------------
(***************************************************************************)
(* Proofs about Treasury, for every set of payments, memos, codes, prices  *)
(* and fees, every chain, reorg and restart: what waits is backed by the   *)
(* applied chain, a refund is only forgotten once it is paid or orphaned,  *)
(* no payment is refunded twice, no day is swept twice.                    *)
(*                                                                         *)
(* The queues lose entries by Retain, RemoveAt and Tail, which all leave a *)
(* queue within the one before (OrderLemmas), and every invariant of a     *)
(* queue passes to the queues within it.  What a block adds is proved by   *)
(* induction over its memos.                                               *)
(***************************************************************************)
EXTENDS Treasury, OrderLemmas

Request == [memo : Memos, height : Nat]
Refund == [memo : Memos, amount : Nat, height : Nat]
Challenge == [request : Requests, code : Codes, expires_at : Nat, attempts : Nat,
              state : {"requested", "relayed"}]
BlockOf(pool) == [txs : Seq(Payments \cup pool), time : Nat, branch : Nat]

(* A transaction is at one place of a chain only. *)
Once(c) ==
    \A i, j \in 1 .. Len(c) : \A k \in 1 .. Len(c[i].txs), l \in 1 .. Len(c[j].txs) :
        c[i].txs[k] = c[j].txs[l] => i = j /\ k = l

Backed(q, c) ==
    \A i \in 1 .. Len(q) :
        /\ q[i].height \in 1 .. Len(c)
        /\ \E k \in 1 .. Len(c[q[i].height].txs) : c[q[i].height].txs[k] = q[i].memo[1]

Distinct(q) == \A i, j \in 1 .. Len(q) : q[i].memo = q[j].memo => i = j
Apart(q, r) == \A i \in 1 .. Len(q), j \in 1 .. Len(r) : q[i].memo # r[j].memo
Payable(q) == \A i \in 1 .. Len(q) : q[i].amount \in 1 .. MemoAt(q[i].memo).paid

(* A queue of challenges that are answerable at this time *)
Open(q, count, now) ==
    /\ \A i \in 1 .. Len(q) :
         now < q[i].expires_at /\ count[q[i].request] = q[i].attempts
                               /\ q[i].attempts < MAX_ATTEMPTS
    /\ \A i, j \in 1 .. Len(q) : q[i].request = q[j].request => i = j
    /\ \A i, j \in 1 .. Len(q) :
         SameKey(q[i].request, q[j].request) /\ q[i].code = q[j].code => i = j

Node ==
    /\ scope \in Scopes
    /\ reorgs \in Nat /\ restarts \in Nat
    /\ IsFiniteSet(mempool)
    /\ chain \in Seq(BlockOf(mempool))
    /\ Once(chain)

Mint ==
    /\ fee_rule \in Nat
    /\ applied \in Seq(BlockOf(mempool))
    /\ Once(applied)
    /\ requests \in Seq(Request)
    /\ refunds \in Seq(Refund)
    /\ challenges \in Seq(Challenge)
    /\ missed \in [Requests -> Nat]
    /\ Open(challenges, missed, TimeOf(applied))

Queued ==
    /\ Backed(requests, applied) /\ Distinct(requests)
    /\ Backed(refunds, applied) /\ Distinct(refunds)
    /\ Apart(requests, refunds)
    /\ Payable(refunds)

(* What the pass walks, while it decides and while it refunds *)
Deciding ==
    phase = "decide" =>
        /\ todo \in Seq(Request)
        /\ Backed(todo, applied) /\ Distinct(todo) /\ Apart(todo, refunds)

Refunding ==
    phase = "refund" =>
        /\ todo \in Seq(Refund)
        /\ Distinct(todo)
        /\ \A i \in 1 .. Len(todo) : \E j \in 1 .. Len(refunds) : refunds[j] = todo[i]

(* Inductive: for QueuesBacked and RefundKept *)
BooksInv ==
    /\ Node
    /\ Mint
    /\ Queued
    /\ Deciding
    /\ Refunding

(* Nothing in the queue was paid by a transaction of the pool. *)
Clear(q, pool) == \A t \in pool : \A i \in 1 .. Len(q) : q[i].memo # t.memo

(* Inductive upon BooksInv: for RefundedOnce *)
PaidInv ==
    reorgs = 0 /\ ~scope.lost =>
        /\ \A t \in mempool : t.memo[1] \in OnChain(applied)
        /\ Clear(requests, mempool) /\ Clear(refunds, mempool)
        /\ phase \in {"decide", "refund"} => Clear(todo, mempool)
        /\ \A s, t \in mempool : s.memo = t.memo => s = t

(* While the chain is not reorganized the mint follows it. *)
PrefixInv == reorgs = 0 => IsPrefix(applied, chain)

Ascending(c) == \A i, j \in 1 .. Len(c) : i <= j => c[i].time <= c[j].time

(* Inductive upon PrefixInv: for SweptOnce *)
SweepInv ==
    reorgs = 0 =>
        /\ Ascending(chain)
        /\ sweeps \in Seq(Nat)
        /\ \A i, j \in 1 .. Len(sweeps) : i < j => sweeps[i] < sweeps[j]
        /\ phase = "wait" => \A i \in 1 .. Len(sweeps) : sweeps[i] <= DayOf(applied)
        /\ phase # "wait" => /\ previous_day \in Nat /\ previous_day <= DayOf(applied)
                             /\ \A i \in 1 .. Len(sweeps) : sweeps[i] <= previous_day

-----------------------------------------------------------------------------
(***************************************************************************)
(* Queues within queues                                                    *)
(***************************************************************************)
LEMMA WithinKeeps ==
    ASSUME NEW q, NEW r, Within(r, q)
    PROVE  /\ Distinct(q) => Distinct(r)
           /\ Payable(q) => Payable(r)
           /\ \A c : Backed(q, c) => Backed(r, c)
           /\ \A x : Apart(q, x) => Apart(r, x)
           /\ \A x : Apart(x, q) => Apart(x, r)
           /\ \A count, now : Open(q, count, now) => Open(r, count, now)
<1>1. PICK from : IsWithin(from, r, q)
    BY DEF Within
<1>2. /\ \A k \in 1 .. Len(r) : from[k] \in 1 .. Len(q) /\ r[k] = q[from[k]]
      /\ \A k, l \in 1 .. Len(r) : from[k] = from[l] => k = l
    BY <1>1 DEF IsWithin
<1>3. Distinct(q) => Distinct(r)
    BY <1>2 DEF Distinct
<1>4. ASSUME Payable(q) PROVE Payable(r)
  <2>1. ASSUME NEW k \in 1 .. Len(r) PROVE r[k].amount \in 1 .. MemoAt(r[k].memo).paid
    <3>1. r[k] = q[from[k]] /\ from[k] \in 1 .. Len(q)
        BY <1>2
    <3>2. q[from[k]].amount \in 1 .. MemoAt(q[from[k]].memo).paid
        BY <1>4, <3>1 DEF Payable
    <3> QED BY <3>1, <3>2
  <2> QED BY <2>1 DEF Payable
<1>5. ASSUME NEW c, Backed(q, c) PROVE Backed(r, c)
  <2>1. ASSUME NEW k \in 1 .. Len(r)
        PROVE  /\ r[k].height \in 1 .. Len(c)
               /\ \E j \in 1 .. Len(c[r[k].height].txs) : c[r[k].height].txs[j] = r[k].memo[1]
    <3>1. r[k] = q[from[k]] /\ from[k] \in 1 .. Len(q)
        BY <1>2
    <3> QED BY <1>5, <3>1 DEF Backed
  <2> QED BY <2>1 DEF Backed
<1>6. ASSUME NEW x, Apart(q, x) PROVE Apart(r, x)
    BY <1>2, <1>6 DEF Apart
<1>7. ASSUME NEW x, Apart(x, q) PROVE Apart(x, r)
    BY <1>2, <1>7 DEF Apart
<1>8. ASSUME NEW count, NEW now, Open(q, count, now) PROVE Open(r, count, now)
  <2>1. \A i \in 1 .. Len(r) :
         now < r[i].expires_at /\ count[r[i].request] = r[i].attempts
                               /\ r[i].attempts < MAX_ATTEMPTS
    BY <1>2, <1>8 DEF Open
  <2>2. ASSUME NEW i \in 1 .. Len(r), NEW j \in 1 .. Len(r), r[i].request = r[j].request
        PROVE  i = j
    BY <1>2, <1>8, <2>2 DEF Open
  <2>3. ASSUME NEW i \in 1 .. Len(r), NEW j \in 1 .. Len(r),
               SameKey(r[i].request, r[j].request), r[i].code = r[j].code
        PROVE  i = j
    BY <1>2, <1>8, <2>3 DEF Open
  <2> QED BY <2>1, <2>2, <2>3 DEF Open
<1> QED BY <1>3, <1>4, <1>5, <1>6, <1>7, <1>8

LEMMA NilKeeps ==
    /\ Distinct(<< >>) /\ Payable(<< >>)
    /\ \A c : Backed(<< >>, c) /\ Apart(<< >>, c) /\ Apart(c, << >>)
    /\ \A count, now : Open(<< >>, count, now)
BY DEF Distinct, Payable, Backed, Apart, Open

(* One more entry, of a memo that waits nowhere yet *)
LEMMA AppendKeeps ==
    ASSUME NEW S, NEW q \in Seq(S), NEW e \in S
    PROVE  LET r == Append(q, e) IN
           /\ r \in Seq(S)
           /\ Distinct(q) /\ (\A i \in 1 .. Len(q) : q[i].memo # e.memo) => Distinct(r)
           /\ Payable(q) /\ e.amount \in 1 .. MemoAt(e.memo).paid => Payable(r)
           /\ \A c : (/\ Backed(q, c) /\ e.height \in 1 .. Len(c)
                      /\ \E k \in 1 .. Len(c[e.height].txs) : c[e.height].txs[k] = e.memo[1])
                     => Backed(r, c)
           /\ \A x : Apart(q, x) /\ (\A i \in 1 .. Len(x) : x[i].memo # e.memo)
                     => Apart(r, x) /\ Apart(x, r)
<1> DEFINE r == Append(q, e)
           n == Len(q)
<1>1. n \in Nat /\ r \in Seq(S) /\ Len(r) = n + 1
      /\ \A i \in 1 .. n + 1 : (i = n + 1 /\ r[i] = e) \/ (i \in 1 .. n /\ r[i] = q[i])
    BY AppendProperties, LenProperties
<1> HIDE DEF r, n
<1>2. ASSUME Distinct(q), \A i \in 1 .. n : q[i].memo # e.memo PROVE Distinct(r)
    BY <1>1, <1>2 DEF Distinct, n
<1>3. ASSUME Payable(q), e.amount \in 1 .. MemoAt(e.memo).paid PROVE Payable(r)
    BY <1>1, <1>3 DEF Payable, n
<1>4. ASSUME NEW c, Backed(q, c), e.height \in 1 .. Len(c),
             \E k \in 1 .. Len(c[e.height].txs) : c[e.height].txs[k] = e.memo[1]
      PROVE  Backed(r, c)
    BY <1>1, <1>4 DEF Backed, n
<1>5. ASSUME NEW x, Apart(q, x), \A i \in 1 .. Len(x) : x[i].memo # e.memo
      PROVE  Apart(r, x) /\ Apart(x, r)
    BY <1>1, <1>5 DEF Apart, n
<1> QED BY <1>1, <1>2, <1>3, <1>4, <1>5 DEF r, n

-----------------------------------------------------------------------------
(***************************************************************************)
(* What each operation of the OTP queue leaves is answerable.              *)
(***************************************************************************)
LEMMA DropKeeps ==
    ASSUME NEW q \in Seq(Challenge), NEW name
    PROVE  /\ DropChallenges(q, name) \in Seq(Challenge)
           /\ \A count, now : Open(q, count, now) => Open(DropChallenges(q, name), count, now)
<1> DEFINE P == {i \in DOMAIN q : q[i].request.name # name}
<1>1. DropChallenges(q, name) = Retain(q, P)
    BY DEF DropChallenges
<1> HIDE DEF P
<1>2. Retain(q, P) \in Seq(Challenge) /\ Within(Retain(q, P), q)
    BY RetainWithin
<1> QED BY <1>1, <1>2, WithinKeeps

LEMMA ExpireKeeps ==
    ASSUME NEW q \in Seq(Challenge), NEW count, NEW now, NEW time, Open(q, count, now)
    PROVE  /\ ExpireChallenges(q, time) \in Seq(Challenge)
           /\ Open(ExpireChallenges(q, time), count, time)
<1> DEFINE P == {i \in DOMAIN q : time < q[i].expires_at}
           r == Retain(q, P)
<1>1. ExpireChallenges(q, time) = r
    BY DEF ExpireChallenges
<1>2. \A i \in P : time < q[i].expires_at
    OBVIOUS
<1> HIDE DEF P
<1>3. /\ r \in Seq(Challenge) /\ Within(r, q)
      /\ \A k \in 1 .. Len(r) : \E i \in 1 .. Len(q) : i \in P /\ r[k] = q[i]
    BY RetainWithin
<1> HIDE DEF r
<1>4. Open(r, count, now)
    BY <1>3, WithinKeeps
<1>5. \A k \in 1 .. Len(r) : time < r[k].expires_at
    BY <1>2, <1>3
<1>6. Open(r, count, time)
    BY <1>4, <1>5 DEF Open
<1> QED BY <1>1, <1>3, <1>6

LEMMA IssueKeeps ==
    ASSUME NEW q \in Seq(Challenge), NEW request
    PROVE  /\ ChallengeIssued(q, request) \in Seq(Challenge)
           /\ \A count, now : Open(q, count, now) => Open(ChallengeIssued(q, request), count, now)
<1> DEFINE n == Len(q)
           Mark(c) == IF c.request = request THEN [c EXCEPT !.state = "relayed"] ELSE c
           r == [i \in 1 .. n |-> Mark(q[i])]
<1>1. n \in Nat /\ DOMAIN q = 1 .. n /\ \A i \in 1 .. n : q[i] \in Challenge
    BY LenProperties, ElementOfSeq
<1>2. ChallengeIssued(q, request) = r
    BY <1>1 DEF ChallengeIssued
<1>3. ASSUME NEW c \in Challenge
      PROVE  /\ Mark(c) \in Challenge
             /\ Mark(c).request = c.request /\ Mark(c).code = c.code
             /\ Mark(c).expires_at = c.expires_at /\ Mark(c).attempts = c.attempts
    BY DEF Challenge
<1> HIDE DEF Mark
<1>4. \A i \in 1 .. n : r[i] = Mark(q[i])
    OBVIOUS
<1>5. r \in [1 .. n -> Challenge]
    BY <1>1, <1>3
<1> HIDE DEF r, n
<1>6. r \in Seq(Challenge) /\ Len(r) = n
    BY <1>1, <1>5, FunctionIsSeq
<1>7. \A i \in 1 .. n : /\ r[i].request = q[i].request /\ r[i].code = q[i].code
                        /\ r[i].expires_at = q[i].expires_at /\ r[i].attempts = q[i].attempts
    BY <1>1, <1>3, <1>4
<1>8. ASSUME NEW count, NEW now, Open(q, count, now) PROVE Open(r, count, now)
    BY <1>6, <1>7, <1>8 DEF Open, n
<1> QED BY <1>2, <1>6, <1>8

LEMMA AdmitKeeps ==
    ASSUME NEW q \in Seq(Challenge), NEW request \in Requests, NEW code \in Codes, NEW now \in Nat,
           NEW count \in [Requests -> Nat], Open(q, count, now),
           (~\E i \in DOMAIN q : q[i].request = request) => ~CodeTaken(q, request, code)
    PROVE  LET fresh == ~\E i \in DOMAIN q : q[i].request = request
               left == IF fresh THEN [count EXCEPT ![request] = 0] ELSE count
               r == AdmitChallenge(q, request, code, now)
           IN  /\ r \in Seq(Challenge) /\ left \in [Requests -> Nat] /\ Open(r, left, now)
<1> DEFINE fresh == ~\E i \in DOMAIN q : q[i].request = request
           left == [count EXCEPT ![request] = 0]
           e == [request |-> request, code |-> code, expires_at |-> now + D_OTP,
                 attempts |-> 0, state |-> "requested"]
           n == Len(q)
           r == Append(q, e)
<1>1. n \in Nat /\ DOMAIN q = 1 .. n /\ \A i \in 1 .. n : q[i] \in Challenge
    BY LenProperties, ElementOfSeq
<1>2. CASE ~fresh
    BY <1>2 DEF AdmitChallenge
<1>3. CASE fresh
  <2>1. AdmitChallenge(q, request, code, now) = r
    BY <1>3 DEF AdmitChallenge
  <2>2. e \in Challenge
    BY OtpAssumption DEF Challenge
  <2>3. e.request = request /\ e.code = code /\ now < e.expires_at /\ e.attempts = 0
        /\ 0 < MAX_ATTEMPTS
    BY OtpAssumption
  <2>4. left \in [Requests -> Nat] /\ left[request] = 0
        /\ \A x \in Requests : x # request => left[x] = count[x]
    OBVIOUS
  <2>5. \A i \in 1 .. n : q[i].request # request
    BY <1>1, <1>3
  <2>6. \A i \in 1 .. n : ~(SameKey(q[i].request, request) /\ q[i].code = code)
    BY <1>1, <1>3 DEF CodeTaken
  <2> HIDE DEF e, left, fresh
  <2>7. r \in Seq(Challenge) /\ Len(r) = n + 1
        /\ \A i \in 1 .. n + 1 : (i = n + 1 /\ r[i] = e) \/ (i \in 1 .. n /\ r[i] = q[i])
    BY <1>1, <2>2, AppendProperties
  <2> HIDE DEF r, n
  <2>8. \A i \in 1 .. n : q[i].request \in Requests
    BY <1>1 DEF Challenge
  <2>9. ASSUME NEW i \in 1 .. n + 1
        PROVE  /\ now < r[i].expires_at /\ left[r[i].request] = r[i].attempts
               /\ r[i].attempts < MAX_ATTEMPTS
    BY <2>3, <2>4, <2>5, <2>7, <2>8 DEF Open, n
  <2>10. ASSUME NEW i \in 1 .. n + 1, NEW j \in 1 .. n + 1, r[i].request = r[j].request
         PROVE  i = j
    BY <2>3, <2>5, <2>7, <2>10 DEF Open, n
  <2>11. ASSUME NEW i \in 1 .. n + 1, NEW j \in 1 .. n + 1,
                SameKey(r[i].request, r[j].request), r[i].code = r[j].code
         PROVE  i = j
    <3>1. \A a, b : SameKey(a, b) => SameKey(b, a)
        BY DEF SameKey
    <3> QED BY <2>3, <2>6, <2>7, <2>11, <3>1 DEF Open, n
  <2>12. Open(r, left, now)
    BY <2>7, <2>9, <2>10, <2>11 DEF Open
  <2> QED BY <1>3, <2>1, <2>4, <2>7, <2>12 DEF left, fresh
<1> QED BY <1>2, <1>3

(* A right code spends its challenge. *)
LEMMA CompleteKeeps ==
    ASSUME NEW q \in Seq(Challenge), NEW response, RightOnes(q, response) # {}
    PROVE  /\ Complete(q, response).queue \in Seq(Challenge)
           /\ \A count, now : Open(q, count, now) => Open(Complete(q, response).queue, count, now)
<1> DEFINE right == RightOnes(q, response)
           first == CHOOSE i \in right : \A j \in right : i <= j
<1>1. right \subseteq 1 .. Len(q) /\ right \subseteq Nat
    BY LenProperties DEF RightOnes
<1>2. \E i \in right : \A j \in right : i <= j
    BY <1>1, HasLeast
<1>3. first \in 1 .. Len(q)
    BY <1>1, <1>2
<1>4. Complete(q, response).queue = RemoveAt(q, first)
    BY DEF Complete
<1> HIDE DEF first
<1>5. RemoveAt(q, first) \in Seq(Challenge) /\ Within(RemoveAt(q, first), q)
    BY <1>3, RemoveAtWithin
<1> QED BY <1>4, <1>5, WithinKeeps

(* A wrong code counts against every challenge it names, once. *)
Counted(q, response, count) ==
    [r \in DOMAIN count |->
        IF \E i \in DOMAIN q : q[i].request = r /\ Named(q[i], response)
        THEN count[r] + 1 ELSE count[r]]

LEMMA WrongKeeps ==
    ASSUME NEW q \in Seq(Challenge), NEW response, NEW count \in [Requests -> Nat], NEW now,
           Open(q, count, now)
    PROVE  /\ CountWrong(q, response) \in Seq(Challenge)
           /\ Counted(q, response, count) \in [Requests -> Nat]
           /\ Open(CountWrong(q, response), Counted(q, response, count), now)
<1> DEFINE n == Len(q)
           Try(c) == IF Named(c, response) THEN [c EXCEPT !.attempts = @ + 1] ELSE c
           tried == [i \in 1 .. n |-> Try(q[i])]
           P == {i \in DOMAIN tried : Named(tried[i], response) => tried[i].attempts < MAX_ATTEMPTS}
           r == Retain(tried, P)
           left == Counted(q, response, count)
<1>1. n \in Nat /\ DOMAIN q = 1 .. n /\ \A i \in 1 .. n : q[i] \in Challenge
    BY LenProperties, ElementOfSeq
<1>2. CountWrong(q, response) = r
    BY <1>1 DEF CountWrong
<1>3. ASSUME NEW c \in Challenge
      PROVE  /\ Try(c) \in Challenge
             /\ Try(c).request = c.request /\ Try(c).code = c.code
             /\ Try(c).expires_at = c.expires_at
             /\ Try(c).attempts = IF Named(c, response) THEN c.attempts + 1 ELSE c.attempts
             /\ Named(Try(c), response) <=> Named(c, response)
  <2>1. CASE Named(c, response)
    <3> DEFINE d == [c EXCEPT !.attempts = @ + 1]
    <3>1. d \in Challenge /\ d.request = c.request /\ d.code = c.code /\ d.state = c.state
          /\ d.expires_at = c.expires_at /\ d.attempts = c.attempts + 1
        BY DEF Challenge
    <3> HIDE DEF d
    <3>2. Named(d, response) <=> Named(c, response)
        BY <3>1 DEF Named
    <3>3. Try(c) = d
        BY <2>1 DEF d
    <3> QED BY <2>1, <3>1, <3>2, <3>3
  <2>2. CASE ~Named(c, response)
    BY <2>2
  <2> QED BY <2>1, <2>2
<1> HIDE DEF Try
<1>4. \A i \in 1 .. n : tried[i] = Try(q[i])
    OBVIOUS
<1>5. tried \in [1 .. n -> Challenge]
    BY <1>1, <1>3
<1>a. \A i \in P : Named(tried[i], response) => tried[i].attempts < MAX_ATTEMPTS
    OBVIOUS
<1> HIDE DEF tried, n, P
<1>6. tried \in Seq(Challenge) /\ Len(tried) = n
    BY <1>1, <1>5, FunctionIsSeq
<1>7. /\ r \in Seq(Challenge) /\ Within(r, tried)
      /\ \A k \in 1 .. Len(r) : \E i \in 1 .. n : i \in P /\ r[k] = tried[i]
    BY <1>6, RetainWithin
<1> HIDE DEF r
<1>8. left \in [Requests -> Nat]
    BY DEF Counted
<1>9. \A x \in Requests : left[x] = IF \E i \in DOMAIN q : q[i].request = x /\ Named(q[i], response)
                                   THEN count[x] + 1 ELSE count[x]
    BY DEF Counted
<1> HIDE DEF left
<1>10. \A i, j \in 1 .. n : q[i].request = q[j].request => i = j
    BY DEF Open, n
<1>11. ASSUME NEW i \in 1 .. n
       PROVE  /\ tried[i].request = q[i].request /\ tried[i].code = q[i].code
              /\ now < tried[i].expires_at
              /\ left[tried[i].request] = tried[i].attempts
              /\ Named(tried[i], response) \/ tried[i].attempts < MAX_ATTEMPTS
  <2>1. /\ q[i] \in Challenge /\ q[i].request \in Requests /\ tried[i] = Try(q[i])
        /\ now < q[i].expires_at /\ count[q[i].request] = q[i].attempts
        /\ q[i].attempts < MAX_ATTEMPTS
    BY <1>1, <1>4 DEF Open, n, Challenge
  <2>2. (\E j \in DOMAIN q : q[j].request = q[i].request /\ Named(q[j], response))
          <=> Named(q[i], response)
    BY <1>1, <1>10
  <2>3. left[q[i].request] = IF Named(q[i], response) THEN count[q[i].request] + 1
                             ELSE count[q[i].request]
    BY <1>9, <2>1, <2>2
  <2> QED BY <1>3, <2>1, <2>3
<1>12. PICK from : IsWithin(from, r, tried)
    BY <1>7 DEF Within
<1>13. /\ \A k \in 1 .. Len(r) : from[k] \in 1 .. n /\ r[k] = tried[from[k]]
       /\ \A k, l \in 1 .. Len(r) : from[k] = from[l] => k = l
    BY <1>6, <1>12 DEF IsWithin
<1>14. ASSUME NEW k \in 1 .. Len(r)
       PROVE  now < r[k].expires_at /\ left[r[k].request] = r[k].attempts
                                    /\ r[k].attempts < MAX_ATTEMPTS
  <2>1. PICK i \in 1 .. n : i \in P /\ r[k] = tried[i]
    BY <1>7
  <2> QED BY <1>a, <1>11, <2>1
<1>15. ASSUME NEW k \in 1 .. Len(r), NEW l \in 1 .. Len(r), r[k].request = r[l].request
       PROVE  k = l
    BY <1>10, <1>11, <1>13, <1>15
<1>16. ASSUME NEW k \in 1 .. Len(r), NEW l \in 1 .. Len(r),
              SameKey(r[k].request, r[l].request), r[k].code = r[l].code
       PROVE  k = l
  <2>1. \A i, j \in 1 .. n : SameKey(q[i].request, q[j].request) /\ q[i].code = q[j].code => i = j
    BY DEF Open, n
  <2> QED BY <1>11, <1>13, <1>16, <2>1
<1>17. Open(r, left, now)
    BY <1>14, <1>15, <1>16 DEF Open
<1> QED BY <1>2, <1>7, <1>8, <1>17 DEF left

-----------------------------------------------------------------------------
(***************************************************************************)
(* One memo of a block                                                     *)
(***************************************************************************)
Books == [requests : Seq(Request), refunds : Seq(Refund), missed : [Requests -> Nat],
          challenges : Seq(Challenge)]

MadeRefund(m, amount, height) == [memo |-> m, amount |-> amount, height |-> height]
MadeRequest(m, height) == [memo |-> m, height |-> height]

(* A refund of some of what was paid, or none *)
Repays(q, r, m, height) ==
    \/ r = q
    \/ \E a \in 1 .. MemoAt(m).paid : r = Append(q, MadeRefund(m, a, height))

(* A memo is queued once at most: to be decided, or to be paid back. *)
Takes(x, y, m, height) ==
    \/ y.requests = Append(x.requests, MadeRequest(m, height)) /\ y.refunds = x.refunds
    \/ y.requests = x.requests /\ Repays(x.refunds, y.refunds, m, height)

LEMMA MemoIs ==
    ASSUME NEW m \in Memos
    PROVE  /\ MemoAt(m).kind \in Kinds /\ MemoAt(m).paid \in Nat
           /\ MemoAt(m).kind = "request" => MemoAt(m).request \in Requests
           /\ m[1] \in Payments /\ m[2] \in DOMAIN MemosOf[m[1]] /\ m = <<m[1], m[2]>>
<1>1. PICK p \in Payments : m \in {<<p, i>> : i \in DOMAIN MemosOf[p]}
    BY DEF Memos
<1>2. PICK i \in DOMAIN MemosOf[p] : m = <<p, i>>
    BY <1>1
<1>3. m[1] = p /\ m[2] = i
    BY <1>2
<1>4. MemoAt(m) = MemosOf[p][i]
    BY <1>3 DEF MemoAt
<1>5. MemoAt(m).kind \in Kinds /\ MemoAt(m).paid \in Nat
    BY <1>4, TreasuryAssumption
<1>6. MemoAt(m).kind = "request" => MemoAt(m).request \in Requests
    BY DEF Requests
<1> QED BY <1>2, <1>3, <1>5, <1>6

LEMMA AdmitRepays ==
    ASSUME NEW q \in Seq(Refund), NEW m \in Memos, NEW refundable \in Nat, NEW height \in Nat,
           refundable <= MemoAt(m).paid, fee_rule \in Nat
    PROVE  /\ AdmitRefund(q, m, refundable, height) \in Seq(Refund)
           /\ Repays(q, AdmitRefund(q, m, refundable, height), m, height)
<1> DEFINE amount == refundable - FEE_ACTIONS * fee_rule
           e == MadeRefund(m, amount, height)
<1>1. FEE_ACTIONS * fee_rule \in Nat
    BY TreasuryAssumption
<1>2. AdmitRefund(q, m, refundable, height) = IF amount > 0 THEN Append(q, e) ELSE q
    BY DEF AdmitRefund, MadeRefund
<1>3. CASE amount > 0
  <2>1. amount \in 1 .. MemoAt(m).paid /\ amount \in Nat
    BY <1>1, <1>3, MemoIs
  <2> HIDE DEF amount
  <2>2. e \in Refund
    BY <2>1 DEF MadeRefund, Refund
  <2> HIDE DEF e
  <2>3. Append(q, e) \in Seq(Refund)
    BY <2>2, AppendProperties
  <2>4. Repays(q, Append(q, e), m, height)
    BY <2>1 DEF Repays, e
  <2> QED BY <1>2, <1>3, <2>3, <2>4
<1>4. CASE ~(amount > 0)
    BY <1>2, <1>4 DEF Repays
<1> QED BY <1>3, <1>4

LEMMA BooksParts ==
    ASSUME NEW x, x \in Books
    PROVE  /\ x.requests \in Seq(Request) /\ x.refunds \in Seq(Refund)
           /\ x.missed \in [Requests -> Nat] /\ x.challenges \in Seq(Challenge)
BY DEF Books

LEMMA RespondIs ==
    ASSUME NEW x, x \in Books, NEW m \in Memos, NEW height \in Nat, NEW ruling \in Rulings,
           NEW now, Open(x.challenges, x.missed, now), fee_rule \in Nat
    PROVE  LET y == Respond(x, m, height, ruling) IN
           y \in Books /\ Open(y.challenges, y.missed, now) /\ Takes(x, y, m, height)
<1> DEFINE response == MemoAt(m)
           q == x.challenges
           back == AdmitRefund(x.refunds, m, response.paid, height)
           result == Complete(q, response)
           y == Respond(x, m, height, ruling)
<1>1. /\ x.requests \in Seq(Request) /\ x.refunds \in Seq(Refund)
      /\ x.missed \in [Requests -> Nat] /\ q \in Seq(Challenge)
    BY BooksParts
<1>2. back \in Seq(Refund) /\ Repays(x.refunds, back, m, height)
  <2>1. response.paid \in Nat /\ response.paid <= response.paid
    BY MemoIs
  <2> QED BY <1>1, <2>1, AdmitRepays
<1>3. Repays(x.refunds, x.refunds, m, height)
    BY DEF Repays
<1>4. ASSUME NEW c \in Seq(Challenge), NEW r \in Seq(Refund), NEW w \in [Requests -> Nat],
             NEW z, z = [x EXCEPT !.challenges = c, !.refunds = r, !.missed = w],
             Open(c, w, now), Repays(x.refunds, r, m, height)
      PROVE  z \in Books /\ Open(z.challenges, z.missed, now) /\ Takes(x, z, m, height)
  <2>1. z \in Books /\ z.requests = x.requests /\ z.refunds = r /\ z.missed = w /\ z.challenges = c
    BY <1>4 DEF Books
  <2> QED BY <1>4, <2>1 DEF Takes
<1>5. ASSUME NEW c \in Seq(Challenge), NEW r \in Seq(Refund),
             NEW z, z = [x EXCEPT !.challenges = c, !.refunds = r],
             Open(c, x.missed, now), Repays(x.refunds, r, m, height)
      PROVE  z \in Books /\ Open(z.challenges, z.missed, now) /\ Takes(x, z, m, height)
  <2>1. z \in Books /\ z.requests = x.requests /\ z.refunds = r /\ z.missed = x.missed
        /\ z.challenges = c
    BY <1>5 DEF Books
  <2> QED BY <1>5, <2>1 DEF Takes
<1>6. CASE ruling.held
  <2> DEFINE c == DropChallenges(q, response.name)
  <2>1. c \in Seq(Challenge) /\ Open(c, x.missed, now)
    BY <1>1, DropKeeps
  <2>2. y = [x EXCEPT !.challenges = c, !.refunds = back]
    BY <1>6 DEF Respond
  <2> HIDE DEF c, back, y
  <2> QED BY <1>2, <1>5, <2>1, <2>2 DEF y
<1>7. CASE ~ruling.held /\ RightOnes(q, response) = {}
  <2> DEFINE c == CountWrong(q, response)
             w == Counted(q, response, x.missed)
  <2>1. c \in Seq(Challenge) /\ w \in [Requests -> Nat] /\ Open(c, w, now)
    BY <1>1, WrongKeeps
  <2>2. result.queue = c
    BY <1>7 DEF Complete
  <2>3. y = [x EXCEPT !.challenges = c, !.refunds = back, !.missed = w]
    BY <1>7, <2>2 DEF Respond, Counted
  <2> HIDE DEF c, back, y, w
  <2> QED BY <1>2, <1>4, <2>1, <2>3 DEF y
<1>8. CASE ~ruling.held /\ RightOnes(q, response) # {}
  <2> DEFINE c == result.queue
             d == DropChallenges(c, response.name)
             r == IF result.done[1].request.term = 0 THEN back ELSE x.refunds
  <2>1. c \in Seq(Challenge) /\ Open(c, x.missed, now)
    BY <1>1, <1>8, CompleteKeeps
  <2>2. d \in Seq(Challenge) /\ Open(d, x.missed, now)
    <3> HIDE DEF c
    <3> QED BY <2>1, DropKeeps
  <2>3. r \in Seq(Refund) /\ Repays(x.refunds, r, m, height)
    BY <1>1, <1>2, <1>3
  <2>4. y = IF ~ruling.authorized THEN [x EXCEPT !.challenges = c, !.refunds = back]
            ELSE [x EXCEPT !.challenges = d, !.refunds = r]
    BY <1>8 DEF Respond
  <2> HIDE DEF c, d, r, back, y
  <2>5. CASE ruling.authorized
    BY <1>5, <2>2, <2>3, <2>4, <2>5 DEF y
  <2>6. CASE ~ruling.authorized
    BY <1>2, <1>5, <2>1, <2>4, <2>6 DEF y
  <2> QED BY <2>5, <2>6
<1> QED BY <1>6, <1>7, <1>8

LEMMA ReceiveIs ==
    ASSUME NEW x, x \in Books, NEW m \in Memos, NEW height \in Nat, NEW ruling \in Rulings,
           NEW now, Open(x.challenges, x.missed, now), fee_rule \in Nat
    PROVE  LET y == Receive(x, m, height, ruling) IN
           y \in Books /\ Open(y.challenges, y.missed, now) /\ Takes(x, y, m, height)
<1> DEFINE memo == MemoAt(m)
           q == x.challenges
           back == AdmitRefund(x.refunds, m, memo.paid, height)
           y == Receive(x, m, height, ruling)
<1>1. /\ x.requests \in Seq(Request) /\ x.refunds \in Seq(Refund)
      /\ x.missed \in [Requests -> Nat] /\ q \in Seq(Challenge)
    BY BooksParts
<1>2. back \in Seq(Refund) /\ Repays(x.refunds, back, m, height)
  <2>1. memo.paid \in Nat /\ memo.paid <= memo.paid
    BY MemoIs
  <2> QED BY <1>1, <2>1, AdmitRepays
<1>3. Repays(x.refunds, x.refunds, m, height)
    BY DEF Repays
<1>4. memo.kind \in Kinds
    BY MemoIs
<1>5. CASE memo.kind = "response"
  <2>1. y = Respond(x, m, height, ruling)
    BY <1>5 DEF Receive
  <2> QED BY <2>1, RespondIs
<1>6. CASE memo.kind = "answer"
  <2>1. y = [x EXCEPT !.refunds = back]
    BY <1>6 DEF Receive
  <2> HIDE DEF back, y
  <2>2. y \in Books /\ y.requests = x.requests /\ y.refunds = back /\ y.missed = x.missed
        /\ y.challenges = q
    BY <1>2, <2>1 DEF Books
  <2> QED BY <1>2, <2>2 DEF Takes, y
<1>7. CASE memo.kind = "intent"
  <2> DEFINE r == IF ruling.intent = "returned" THEN back ELSE x.refunds
             c == IF ruling.intent = "opened" THEN DropChallenges(q, memo.name) ELSE q
  <2>1. y = [x EXCEPT !.refunds = r, !.challenges = c]
    BY <1>7 DEF Receive
  <2>2. r \in Seq(Refund) /\ Repays(x.refunds, r, m, height)
    BY <1>1, <1>2, <1>3
  <2>3. c \in Seq(Challenge) /\ Open(c, x.missed, now)
    BY <1>1, DropKeeps
  <2> HIDE DEF r, c, y
  <2>4. y \in Books /\ y.requests = x.requests /\ y.refunds = r /\ y.missed = x.missed
        /\ y.challenges = c
    BY <2>1, <2>2, <2>3 DEF Books
  <2> QED BY <2>2, <2>3, <2>4 DEF Takes, y
<1>8. CASE memo.kind \in {"claim", "request"}
  <2> DEFINE e == MadeRequest(m, height)
             r == Append(x.requests, e)
  <2>1. y = [x EXCEPT !.requests = r]
    BY <1>8 DEF Receive, MadeRequest
  <2>2. e \in Request
    BY DEF Request, MadeRequest
  <2> HIDE DEF e
  <2>3. r \in Seq(Request)
    BY <1>1, <2>2, AppendProperties
  <2> HIDE DEF r, y
  <2>4. y \in Books /\ y.requests = r /\ y.refunds = x.refunds /\ y.missed = x.missed
        /\ y.challenges = q
    BY <2>1, <2>3 DEF Books
  <2> QED BY <2>4 DEF Takes, y, r, e
<1>9. CASE memo.kind = "unrecognized"
  <2>1. y = x
    BY <1>9 DEF Receive
  <2> QED BY <1>3, <2>1 DEF Takes
<1> QED BY <1>4, <1>5, <1>6, <1>7, <1>8, <1>9 DEF Kinds

-----------------------------------------------------------------------------
(***************************************************************************)
(* All the memos of a block.  None of them waits yet, and none comes twice,*)
(* so each is queued once.                                                 *)
(***************************************************************************)

(* What a queue gained are memos among the first n of s. *)
Grown(q, r, s, n, height) ==
    /\ Len(q) <= Len(r)
    /\ \A i \in 1 .. Len(q) : r[i] = q[i]
    /\ \A i \in Len(q) + 1 .. Len(r) :
         r[i].height = height /\ \E k \in 1 .. n : r[i].memo = s[k]

Fresh(q, s) == \A i \in 1 .. Len(q), k \in 1 .. Len(s) : q[i].memo # s[k]
Injective(s) == \A i, j \in 1 .. Len(s) : s[i] = s[j] => i = j

LEMMA GrownStart ==
    ASSUME NEW q, Len(q) \in Nat, NEW s, NEW height
    PROVE  Grown(q, q, s, 0, height)
BY DEF Grown

LEMMA GrownNew ==
    ASSUME NEW q, NEW r, NEW s, NEW n \in Nat, NEW height, Grown(q, r, s, n, height),
           Len(q) \in Nat, Len(r) \in Nat, Len(s) \in Nat,
           Fresh(q, s), Injective(s), n + 1 <= Len(s), NEW i \in 1 .. Len(r)
    PROVE  r[i].memo # s[n + 1]
<1>1. n + 1 \in 1 .. Len(s)
    OBVIOUS
<1>2. CASE i \in 1 .. Len(q)
    BY <1>1, <1>2 DEF Grown, Fresh
<1>3. CASE i \notin 1 .. Len(q)
  <2>1. i \in Len(q) + 1 .. Len(r)
    BY <1>3
  <2>2. PICK k \in 1 .. n : r[i].memo = s[k]
    BY <2>1 DEF Grown
  <2>3. k \in 1 .. Len(s) /\ k # n + 1
    OBVIOUS
  <2> QED BY <1>1, <2>2, <2>3 DEF Injective
<1> QED BY <1>2, <1>3

LEMMA GrownMore ==
    ASSUME NEW q, NEW r, NEW s, NEW n \in Nat, NEW height, Grown(q, r, s, n, height)
    PROVE  Grown(q, r, s, n + 1, height)
<1>1. \A k \in 1 .. n : k \in 1 .. n + 1
    OBVIOUS
<1> QED BY <1>1 DEF Grown

LEMMA GrownAppend ==
    ASSUME NEW S, NEW q \in Seq(S), NEW r \in Seq(S), NEW s, NEW n \in Nat, NEW height,
           Grown(q, r, s, n, height), NEW e \in S, e.height = height, e.memo = s[n + 1]
    PROVE  Grown(q, Append(r, e), s, n + 1, height)
<1> DEFINE m == Len(r)
           z == Append(r, e)
           l == Len(q)
<1>1. /\ m \in Nat /\ l \in Nat /\ Len(z) = m + 1 /\ z[m + 1] = e
      /\ \A i \in 1 .. m : z[i] = r[i]
    BY AppendProperties, LenProperties
<1>2. /\ l <= m /\ \A i \in 1 .. l : r[i] = q[i]
      /\ \A i \in l + 1 .. m : r[i].height = height /\ \E k \in 1 .. n : r[i].memo = s[k]
    BY DEF Grown
<1> HIDE DEF m, z, l
<1>3. \A i \in 1 .. l : z[i] = q[i]
    BY <1>1, <1>2
<1>4. ASSUME NEW i \in l + 1 .. m + 1
      PROVE  z[i].height = height /\ \E k \in 1 .. n + 1 : z[i].memo = s[k]
  <2>1. CASE i = m + 1
    <3>1. n + 1 \in 1 .. n + 1
        OBVIOUS
    <3> QED BY <1>1, <2>1, <3>1
  <2>2. CASE i # m + 1
    <3>1. i \in l + 1 .. m /\ i \in 1 .. m
        BY <1>1, <2>2
    <3>2. PICK k \in 1 .. n : r[i].memo = s[k]
        BY <1>2, <3>1
    <3>3. k \in 1 .. n + 1
        OBVIOUS
    <3> QED BY <1>1, <1>2, <3>1, <3>2, <3>3
  <2> QED BY <2>1, <2>2
<1>5. l <= m + 1
    BY <1>1, <1>2
<1> QED BY <1>1, <1>3, <1>4, <1>5 DEF Grown, z, l

(* Where the first n memos of a block left its books *)
Received(x, y, s, n, height, now) ==
    /\ y \in Books /\ Open(y.challenges, y.missed, now)
    /\ Grown(x.requests, y.requests, s, n, height)
    /\ Grown(x.refunds, y.refunds, s, n, height)
    /\ Distinct(y.requests) /\ Distinct(y.refunds) /\ Apart(y.requests, y.refunds)
    /\ Payable(y.refunds)

LEMMA ReceivesOne ==
    ASSUME NEW x, x \in Books, NEW y, NEW s \in Seq(Memos), NEW n \in Nat, n + 1 <= Len(s),
           NEW height \in Nat, NEW now, NEW ruling \in Rulings, fee_rule \in Nat,
           Fresh(x.requests, s), Fresh(x.refunds, s), Injective(s),
           Received(x, y, s, n, height, now)
    PROVE  Received(x, Receive(y, s[n + 1], height, ruling), s, n + 1, height, now)
<1> DEFINE m == s[n + 1]
           z == Receive(y, m, height, ruling)
<1>1. m \in Memos /\ Len(s) \in Nat
  <2>1. n + 1 \in 1 .. Len(s)
    BY LenProperties
  <2> QED BY <2>1, ElementOfSeq, LenProperties
<1>2. /\ x.requests \in Seq(Request) /\ x.refunds \in Seq(Refund)
      /\ y.requests \in Seq(Request) /\ y.refunds \in Seq(Refund)
    BY BooksParts DEF Received
<1>3. /\ Len(x.requests) \in Nat /\ Len(x.refunds) \in Nat
      /\ Len(y.requests) \in Nat /\ Len(y.refunds) \in Nat
    BY <1>2, LenProperties
<1>4. /\ Grown(x.requests, y.requests, s, n, height) /\ Grown(x.refunds, y.refunds, s, n, height)
      /\ Distinct(y.requests) /\ Distinct(y.refunds) /\ Apart(y.requests, y.refunds)
      /\ Payable(y.refunds) /\ y \in Books /\ Open(y.challenges, y.missed, now)
    BY DEF Received
<1>5. z \in Books /\ Open(z.challenges, z.missed, now) /\ Takes(y, z, m, height)
    BY <1>1, <1>4, ReceiveIs
<1>6. \A i \in 1 .. Len(y.requests) : y.requests[i].memo # m
    BY <1>1, <1>3, <1>4, GrownNew
<1>7. \A i \in 1 .. Len(y.refunds) : y.refunds[i].memo # m
    BY <1>1, <1>3, <1>4, GrownNew
<1>8. /\ Grown(x.requests, y.requests, s, n + 1, height)
      /\ Grown(x.refunds, y.refunds, s, n + 1, height)
    BY <1>4, GrownMore
<1> HIDE DEF z
<1>9. CASE z.requests = Append(y.requests, MadeRequest(m, height)) /\ z.refunds = y.refunds
  <2> DEFINE e == MadeRequest(m, height)
             q == y.requests
             r == Append(q, e)
  <2>1. e \in Request /\ e.memo = m /\ e.height = height
    BY <1>1 DEF Request, MadeRequest
  <2> HIDE DEF e, m
  <2>2. Grown(x.requests, r, s, n + 1, height)
    BY <1>2, <1>4, <2>1, GrownAppend DEF m
  <2>3. Distinct(r) /\ Apart(r, y.refunds)
    BY <1>2, <1>4, <1>6, <1>7, <2>1, AppendKeeps
  <2> QED BY <1>4, <1>5, <1>8, <1>9, <2>2, <2>3 DEF Received, e, z, m
<1>10. CASE z.requests = y.requests /\ z.refunds = y.refunds
    BY <1>4, <1>5, <1>8, <1>10 DEF Received, z
<1>11. ASSUME z.requests = y.requests, NEW a \in 1 .. MemoAt(m).paid,
              z.refunds = Append(y.refunds, MadeRefund(m, a, height))
       PROVE  Received(x, z, s, n + 1, height, now)
  <2> DEFINE e == MadeRefund(m, a, height)
             q == y.refunds
             r == Append(q, e)
  <2>1. e \in Refund /\ e.memo = m /\ e.height = height /\ e.amount = a
    <3>1. a \in Nat
        BY <1>1, <1>11, MemoIs
    <3> QED BY <1>1, <3>1 DEF Refund, MadeRefund
  <2>2. e.amount \in 1 .. MemoAt(e.memo).paid
    BY <1>11, <2>1
  <2> HIDE DEF e, m
  <2>3. Grown(x.refunds, r, s, n + 1, height)
    BY <1>2, <1>4, <2>1, GrownAppend DEF m
  <2>4. Apart(q, y.requests)
    BY <1>4 DEF Apart
  <2>5. Distinct(r) /\ Apart(y.requests, r) /\ Payable(r)
    BY <1>2, <1>4, <1>6, <1>7, <2>1, <2>2, <2>4, AppendKeeps
  <2> QED BY <1>4, <1>5, <1>8, <1>11, <2>3, <2>5 DEF Received, e
<1>12. \/ z.requests = Append(y.requests, MadeRequest(m, height)) /\ z.refunds = y.refunds
       \/ z.requests = y.requests /\ z.refunds = y.refunds
       \/ /\ z.requests = y.requests
          /\ \E a \in 1 .. MemoAt(m).paid : z.refunds = Append(y.refunds, MadeRefund(m, a, height))
    BY <1>5 DEF Takes, Repays
<1> QED BY <1>9, <1>10, <1>11, <1>12 DEF z

IsReceive(g, x, s, n, height, ruling) ==
    g = [k \in 0 .. n |-> IF k = 0 THEN x ELSE Receive(g[k - 1], s[k], height, ruling)]

LEMMA ReceiveExists ==
    ASSUME NEW x, NEW s, NEW n \in Nat, NEW height, NEW ruling
    PROVE  \E g : IsReceive(g, x, s, n, height, ruling)
<1> DEFINE T == {k \in Nat : \E g : IsReceive(g, x, s, k, height, ruling)}
           Step(y, k) == Receive(y, s[k], height, ruling)
<1>1. 0 \in T
  <2> DEFINE g == [k \in 0 .. 0 |-> x]
  <2>1. IsReceive(g, x, s, 0, height, ruling)
    BY DEF IsReceive
  <2> QED BY <2>1
<1>2. ASSUME NEW m \in T PROVE m + 1 \in T
  <2>1. PICK f : IsReceive(f, x, s, m, height, ruling)
    OBVIOUS
  <2>2. m \in Nat
    OBVIOUS
  <2> DEFINE g == [k \in 0 .. m + 1 |-> IF k = m + 1 THEN Step(f[m], m + 1) ELSE f[k]]
  <2>5. \A k \in 0 .. m : f[k] = IF k = 0 THEN x ELSE Step(f[k - 1], k)
    BY <2>1 DEF IsReceive
  <2> HIDE DEF Step
  <2>3. \A k \in 0 .. m : g[k] = f[k]
    BY <2>2
  <2>4. g[m + 1] = Step(f[m], m + 1)
    BY <2>2
  <2> DEFINE G == [k \in 0 .. m + 1 |-> IF k = 0 THEN x ELSE Step(g[k - 1], k)]
  <2>6. ASSUME NEW k \in 0 .. m + 1 PROVE g[k] = G[k]
    <3> HIDE DEF g
    <3>1. CASE k = m + 1
      <4>1. k # 0 /\ k - 1 = m /\ m \in 0 .. m
        BY <2>2, <3>1
      <4> QED BY <2>3, <2>4, <3>1, <4>1
    <3>2. CASE k # m + 1
      <4>1. k \in 0 .. m /\ (k # 0 => k - 1 \in 0 .. m)
        BY <2>2, <3>2
      <4> QED BY <2>3, <2>5, <4>1
    <3> QED BY <3>1, <3>2
  <2>7. g = G
    BY <2>6
  <2>8. IsReceive(g, x, s, m + 1, height, ruling)
    <3> HIDE DEF g
    <3> QED BY <2>7 DEF IsReceive, Step
  <2> QED BY <2>2, <2>8
<1>3. T \subseteq Nat
    OBVIOUS
<1> HIDE DEF T
<1>4. n \in T
    BY <1>1, <1>2, <1>3, SetInduction
<1> QED BY <1>4 DEF T

LEMMA ReceivesAll ==
    ASSUME NEW x, x \in Books, NEW s \in Seq(Memos), NEW height \in Nat, NEW now,
           NEW ruling \in Rulings, fee_rule \in Nat, Open(x.challenges, x.missed, now),
           Distinct(x.requests), Distinct(x.refunds), Apart(x.requests, x.refunds),
           Payable(x.refunds), Fresh(x.requests, s), Fresh(x.refunds, s), Injective(s)
    PROVE  Received(x, ReceiveAll(x, s, height, ruling), s, Len(s), height, now)
<1> DEFINE n == Len(s)
           g == CHOOSE f : IsReceive(f, x, s, n, height, ruling)
           T == {k \in Nat : k <= n => Received(x, g[k], s, k, height, now)}
<1>1. n \in Nat
    BY LenProperties
<1>2. IsReceive(g, x, s, n, height, ruling)
    BY <1>1, ReceiveExists
<1>3. ReceiveAll(x, s, height, ruling) = g[n]
    BY DEF ReceiveAll, IsReceive
<1> HIDE DEF g, n
<1>4. g[0] = x /\ \A k \in 0 .. n : k # 0 => g[k] = Receive(g[k - 1], s[k], height, ruling)
    BY <1>1, <1>2 DEF IsReceive
<1>5. 0 \in T
  <2>1. Len(x.requests) \in Nat /\ Len(x.refunds) \in Nat
    BY BooksParts, LenProperties
  <2>2. Received(x, x, s, 0, height, now)
    BY <2>1, GrownStart DEF Received
  <2> QED BY <1>4, <2>2
<1>6. ASSUME NEW k \in T PROVE k + 1 \in T
  <2>1. SUFFICES ASSUME k + 1 <= n PROVE Received(x, g[k + 1], s, k + 1, height, now)
    OBVIOUS
  <2>2. k \in Nat /\ k + 1 \in 0 .. n /\ k + 1 # 0 /\ (k + 1) - 1 = k /\ k <= n
    BY <1>1, <2>1
  <2>3. Received(x, g[k], s, k, height, now)
    BY <2>2
  <2>4. g[k + 1] = Receive(g[k], s[k + 1], height, ruling)
    BY <1>4, <2>2
  <2> HIDE DEF T
  <2> QED BY <2>1, <2>2, <2>3, <2>4, ReceivesOne DEF n
<1>7. T \subseteq Nat
    OBVIOUS
<1> HIDE DEF T
<1>8. n \in T
    BY <1>1, <1>5, <1>6, <1>7, SetInduction
<1>9. Received(x, g[n], s, n, height, now)
    BY <1>1, <1>8 DEF T
<1> QED BY <1>3, <1>9 DEF n

-----------------------------------------------------------------------------
(***************************************************************************)
(* The memos a block brings                                                *)
(***************************************************************************)
IsFlatten(g, s, n) == g = [i \in 1 .. n |-> IF i = 1 THEN s[i] ELSE g[i - 1] \o s[i]]

LEMMA FlattenExists ==
    ASSUME NEW s, NEW n \in Nat
    PROVE  \E g : IsFlatten(g, s, n)
<1> DEFINE T == {k \in Nat : \E g : IsFlatten(g, s, k)}
           Step(y, k) == y \o s[k]
<1>1. 0 \in T
  <2> DEFINE g == [k \in 1 .. 0 |-> s]
  <2>1. IsFlatten(g, s, 0)
    BY DEF IsFlatten
  <2> QED BY <2>1
<1>2. ASSUME NEW m \in T PROVE m + 1 \in T
  <2>1. PICK f : IsFlatten(f, s, m)
    OBVIOUS
  <2>2. m \in Nat
    OBVIOUS
  <2> DEFINE g == [k \in 1 .. m + 1 |->
                     IF k = m + 1 THEN IF k = 1 THEN s[k] ELSE Step(f[m], k) ELSE f[k]]
  <2>5. \A k \in 1 .. m : f[k] = IF k = 1 THEN s[k] ELSE Step(f[k - 1], k)
    BY <2>1 DEF IsFlatten
  <2> HIDE DEF Step
  <2>3. \A k \in 1 .. m : g[k] = f[k]
    BY <2>2
  <2>4. g[m + 1] = IF m + 1 = 1 THEN s[m + 1] ELSE Step(f[m], m + 1)
    BY <2>2
  <2> DEFINE G == [k \in 1 .. m + 1 |-> IF k = 1 THEN s[k] ELSE Step(g[k - 1], k)]
  <2>6. ASSUME NEW k \in 1 .. m + 1 PROVE g[k] = G[k]
    <3> HIDE DEF g
    <3>1. CASE k = m + 1
      <4>1. k - 1 = m /\ (k # 1 => m \in 1 .. m)
        BY <2>2, <3>1
      <4> QED BY <2>3, <2>4, <3>1, <4>1
    <3>2. CASE k # m + 1
      <4>1. k \in 1 .. m /\ (k # 1 => k - 1 \in 1 .. m)
        BY <2>2, <3>2
      <4> QED BY <2>3, <2>5, <4>1
    <3> QED BY <3>1, <3>2
  <2>7. g = G
    BY <2>6
  <2>8. IsFlatten(g, s, m + 1)
    <3> HIDE DEF g
    <3> QED BY <2>7 DEF IsFlatten, Step
  <2> QED BY <2>2, <2>8
<1>3. T \subseteq Nat
    OBVIOUS
<1> HIDE DEF T
<1>4. n \in T
    BY <1>1, <1>2, <1>3, SetInduction
<1> QED BY <1>4 DEF T

(* The memos of one transaction, none if it is no payment *)
MemosIn(tx) == IF tx \in Payments THEN [j \in DOMAIN MemosOf[tx] |-> <<tx, j>>] ELSE << >>

LEMMA MemosInIs ==
    ASSUME NEW tx
    PROVE  /\ MemosIn(tx) \in Seq(Memos) /\ Injective(MemosIn(tx))
           /\ \A i \in 1 .. Len(MemosIn(tx)) : MemosIn(tx)[i][1] = tx
<1>1. CASE tx \notin Payments
  <2>1. MemosIn(tx) = << >>
    BY <1>1 DEF MemosIn
  <2> QED BY <2>1, EmptySeq DEF Injective
<1>2. CASE tx \in Payments
  <2> DEFINE n == Len(MemosOf[tx])
             f == [j \in 1 .. n |-> <<tx, j>>]
  <2>1. n \in Nat /\ DOMAIN MemosOf[tx] = 1 .. n
    BY <1>2, TreasuryAssumption
  <2>2. MemosIn(tx) = f
    BY <1>2, <2>1 DEF MemosIn
  <2>3. \A j \in 1 .. n : <<tx, j>> \in Memos
    BY <1>2, <2>1 DEF Memos
  <2>4. f \in [1 .. n -> Memos] /\ \A j \in 1 .. n : f[j] = <<tx, j>>
    BY <2>3
  <2> HIDE DEF f, n
  <2>5. f \in Seq(Memos) /\ Len(f) = n
    BY <2>1, <2>4, FunctionIsSeq
  <2>6. Injective(f) /\ \A i \in 1 .. Len(f) : f[i][1] = tx
    BY <2>4, <2>5 DEF Injective
  <2> QED BY <2>2, <2>5, <2>6
<1> QED BY <1>1, <1>2

(* Memos of the first n transactions, each once *)
Brought(a, txs, n) ==
    /\ a \in Seq(Memos) /\ Injective(a)
    /\ \A i \in 1 .. Len(a) : \E k \in 1 .. n : txs[k] = a[i][1]

LEMMA BroughtMore ==
    ASSUME NEW a, NEW txs, NEW n \in Nat, Brought(a, txs, n),
           NEW N \in Nat, n + 1 <= N, \A k, l \in 1 .. N : txs[k] = txs[l] => k = l
    PROVE  Brought(a \o MemosIn(txs[n + 1]), txs, n + 1)
<1> DEFINE tx == txs[n + 1]
           b == MemosIn(tx)
           r == a \o b
<1>1. /\ a \in Seq(Memos) /\ Injective(a)
      /\ \A i \in 1 .. Len(a) : \E k \in 1 .. n : txs[k] = a[i][1]
    BY DEF Brought
<1>2. b \in Seq(Memos) /\ Injective(b) /\ \A i \in 1 .. Len(b) : b[i][1] = tx
    BY MemosInIs
<1> HIDE DEF b
<1>3. Len(a) \in Nat /\ Len(b) \in Nat
    BY <1>1, <1>2, LenProperties
<1>4. /\ r \in Seq(Memos) /\ Len(r) = Len(a) + Len(b)
      /\ \A i \in 1 .. Len(a) + Len(b) : r[i] = IF i <= Len(a) THEN a[i] ELSE b[i - Len(a)]
    BY <1>1, <1>2, ConcatProperties
<1> HIDE DEF r
<1>5. \A i \in 1 .. Len(r) : \/ i \in 1 .. Len(a) /\ r[i] = a[i]
                             \/ i - Len(a) \in 1 .. Len(b) /\ r[i] = b[i - Len(a)]
    BY <1>3, <1>4
<1>6. \A i \in 1 .. Len(a) : a[i][1] # tx
  <2>1. \A k \in 1 .. n : k \in 1 .. N /\ n + 1 \in 1 .. N /\ k # n + 1
    OBVIOUS
  <2>2. \A k \in 1 .. n : txs[k] # tx
    BY <2>1
  <2> HIDE DEF tx
  <2> QED BY <1>1, <2>2
<1>7. ASSUME NEW i \in 1 .. Len(r), NEW j \in 1 .. Len(r), r[i] = r[j] PROVE i = j
  <2>1. CASE i \in 1 .. Len(a) /\ r[i] = a[i] /\ j \in 1 .. Len(a) /\ r[j] = a[j]
    BY <1>1, <1>7, <2>1 DEF Injective
  <2>2. CASE /\ i - Len(a) \in 1 .. Len(b) /\ r[i] = b[i - Len(a)]
             /\ j - Len(a) \in 1 .. Len(b) /\ r[j] = b[j - Len(a)]
    <3>1. i - Len(a) = j - Len(a)
        BY <1>2, <1>7, <2>2 DEF Injective
    <3>2. i \in Int /\ j \in Int
        OBVIOUS
    <3> QED BY <1>3, <3>1, <3>2
  <2>3. CASE i \in 1 .. Len(a) /\ r[i] = a[i] /\ j - Len(a) \in 1 .. Len(b) /\ r[j] = b[j - Len(a)]
    BY <1>2, <1>6, <1>7, <2>3
  <2>4. CASE j \in 1 .. Len(a) /\ r[j] = a[j] /\ i - Len(a) \in 1 .. Len(b) /\ r[i] = b[i - Len(a)]
    BY <1>2, <1>6, <1>7, <2>4
  <2> QED BY <1>5, <2>1, <2>2, <2>3, <2>4
<1>8. ASSUME NEW i \in 1 .. Len(r) PROVE \E k \in 1 .. n + 1 : txs[k] = r[i][1]
  <2>1. CASE i \in 1 .. Len(a) /\ r[i] = a[i]
    <3>1. PICK k \in 1 .. n : txs[k] = a[i][1]
        BY <1>1, <2>1
    <3>2. k \in 1 .. n + 1
        OBVIOUS
    <3> QED BY <2>1, <3>1, <3>2
  <2>2. CASE i - Len(a) \in 1 .. Len(b) /\ r[i] = b[i - Len(a)]
    <3>1. n + 1 \in 1 .. n + 1
        OBVIOUS
    <3> QED BY <1>2, <2>2, <3>1
  <2> QED BY <1>5, <2>1, <2>2
<1> QED BY <1>4, <1>7, <1>8 DEF Brought, Injective, r, b

LEMMA ArrivalsAre ==
    ASSUME NEW block, NEW S, block.txs \in Seq(S),
           \A k, l \in 1 .. Len(block.txs) : block.txs[k] = block.txs[l] => k = l
    PROVE  Brought(Arrivals(block), block.txs, Len(block.txs))
<1> DEFINE txs == block.txs
           n == Len(txs)
           s == [i \in 1 .. n |-> MemosIn(txs[i])]
           g == CHOOSE f : IsFlatten(f, s, n)
           T == {k \in Nat : k + 1 <= n => Brought(g[k + 1], txs, k + 1)}
<1>1. n \in Nat /\ DOMAIN txs = 1 .. n
    BY LenProperties
<1>2. Arrivals(block) = FlattenSeq(s)
    BY <1>1 DEF Arrivals, MemosIn
<1>3. \A i \in 1 .. n : s[i] = MemosIn(txs[i])
    OBVIOUS
<1>4. s \in Seq(Seq(Memos)) /\ Len(s) = n
  <2>1. s \in [1 .. n -> Seq(Memos)]
    BY MemosInIs
  <2> HIDE DEF s, n
  <2> QED BY <1>1, <2>1, FunctionIsSeq
<1> HIDE DEF s, n
<1>5. CASE n = 0
  <2>1. FlattenSeq(s) = s /\ s = << >>
    BY <1>4, <1>5, EmptySeq DEF FlattenSeq
  <2> QED BY <1>2, <2>1, EmptySeq DEF Brought, Injective
<1>6. CASE n # 0
  <2>1. IsFlatten(g, s, n)
    BY <1>1, FlattenExists
  <2>2. FlattenSeq(s) = g[n]
    BY <1>4, <1>6 DEF FlattenSeq, IsFlatten
  <2> HIDE DEF g
  <2>3. \A i \in 1 .. n : g[i] = IF i = 1 THEN s[i] ELSE g[i - 1] \o s[i]
    BY <2>1 DEF IsFlatten
  <2>4. 0 \in T
    <3>1. 1 \in 1 .. n /\ g[1] = MemosIn(txs[1])
        BY <1>1, <1>3, <1>6, <2>3
    <3>2. Brought(MemosIn(txs[1]), txs, 1)
      <4>1. 1 \in 1 .. 1
        OBVIOUS
      <4> QED BY <4>1, MemosInIs DEF Brought
    <3> QED BY <3>1, <3>2
  <2>5. ASSUME NEW k \in T PROVE k + 1 \in T
    <3>1. SUFFICES ASSUME (k + 1) + 1 <= n PROVE Brought(g[(k + 1) + 1], txs, (k + 1) + 1)
        OBVIOUS
    <3> DEFINE m == k + 1
    <3>2. k \in Nat /\ m \in Nat /\ m + 1 \in 1 .. n /\ m + 1 # 1 /\ (m + 1) - 1 = m /\ m + 1 <= n
        BY <1>1, <3>1
    <3>3. Brought(g[m], txs, m)
        BY <1>1, <3>2
    <3> HIDE DEF m, T
    <3>4. g[m + 1] = g[m] \o MemosIn(txs[m + 1])
        BY <1>3, <2>3, <3>2
    <3>5. Brought(g[m + 1], txs, m + 1)
      <4>1. \A i, j \in 1 .. n : txs[i] = txs[j] => i = j
        BY DEF n
      <4> HIDE DEF txs
      <4>2. Brought(g[m] \o MemosIn(txs[m + 1]), txs, m + 1)
        BY <1>1, <3>2, <3>3, <4>1, BroughtMore
      <4> QED BY <3>4, <4>2
    <3> QED BY <3>5 DEF m
  <2>6. T \subseteq Nat
    OBVIOUS
  <2> HIDE DEF T
  <2>7. n - 1 \in T /\ (n - 1) + 1 = n
    <3>1. T = Nat
        BY <2>4, <2>5, <2>6, SetInduction
    <3> QED BY <1>1, <1>6, <3>1
  <2>8. Brought(g[n], txs, n)
    BY <1>1, <2>7 DEF T
  <2> QED BY <1>2, <2>2, <2>8 DEF n
<1> QED BY <1>5, <1>6

-----------------------------------------------------------------------------
(***************************************************************************)
(* Chains                                                                  *)
(***************************************************************************)
LEMMA PrefixIs ==
    ASSUME NEW S, NEW s \in Seq(S), NEW t \in Seq(S)
    PROVE  IsPrefix(s, t) <=> Len(s) <= Len(t) /\ \A i \in 1 .. Len(s) : s[i] = t[i]
<1> DEFINE n == Len(s)
<1>1. n \in Nat /\ Len(t) \in Nat
    BY LenProperties
<1>2. SubSeq(s, 1, n) = [i \in 1 .. n |-> s[i]]
    BY <1>1
<1>3. SUFFICES ASSUME n <= Len(t)
               PROVE  SubSeq(s, 1, n) = SubSeq(t, 1, n) <=> \A i \in 1 .. n : s[i] = t[i]
    BY DEF IsPrefix
<1>4. SubSeq(t, 1, n) = [i \in 1 .. n |-> t[i]]
    BY <1>1, <1>3
<1> HIDE DEF n
<1>5. [i \in 1 .. n |-> s[i]] = [i \in 1 .. n |-> t[i]] <=> \A i \in 1 .. n : s[i] = t[i]
  <2> DEFINE f == [i \in 1 .. n |-> s[i]]
             g == [i \in 1 .. n |-> t[i]]
  <2>1. \A i \in 1 .. n : f[i] = s[i] /\ g[i] = t[i]
    OBVIOUS
  <2>2. ASSUME f = g PROVE \A i \in 1 .. n : s[i] = t[i]
    <3> HIDE DEF f, g
    <3> QED BY <2>1, <2>2
  <2>3. ASSUME \A i \in 1 .. n : s[i] = t[i] PROVE f = g
    BY <2>3
  <2> QED BY <2>2, <2>3
<1> QED BY <1>2, <1>4, <1>5

LEMMA CutIs ==
    ASSUME NEW S, NEW c \in Seq(S), NEW h \in 0 .. Len(c)
    PROVE  /\ SubSeq(c, 1, h) \in Seq(S) /\ Len(SubSeq(c, 1, h)) = h
           /\ \A i \in 1 .. h : SubSeq(c, 1, h)[i] = c[i]
           /\ h = Len(c) => SubSeq(c, 1, h) = c
<1>1. Len(c) \in Nat /\ h \in Nat /\ \A i \in 1 .. h : c[i] \in S
    BY LenProperties, ElementOfSeq
<1> DEFINE d == SubSeq(c, 1, h)
<1>2. d = [i \in 1 .. h |-> c[i]]
    BY <1>1
<1>3. \A i \in 1 .. h : d[i] = c[i]
    BY <1>2
<1>4. d \in [1 .. h -> S]
    BY <1>1, <1>2
<1> HIDE DEF d
<1>5. d \in Seq(S) /\ Len(d) = h
    BY <1>1, <1>4, FunctionIsSeq
<1>6. ASSUME h = Len(c) PROVE d = c
  <2>1. Len(d) = Len(c) /\ \A i \in 1 .. Len(d) : d[i] = c[i]
    BY <1>3, <1>5, <1>6
  <2> QED BY <1>5, <2>1, SeqEqual
<1> QED BY <1>3, <1>5, <1>6 DEF d

LEMMA AncestorIs ==
    ASSUME NEW S, NEW a \in Seq(S), NEW b \in Seq(S)
    PROVE  /\ Ancestor(a, b) \in 0 .. Len(a)
           /\ IsPrefix(SubSeq(a, 1, Ancestor(a, b)), b)
           /\ IsPrefix(a, b) => Ancestor(a, b) = Len(a)
<1> DEFINE n == Len(a)
           T == {h \in 0 .. n : IsPrefix(SubSeq(a, 1, h), b)}
           h == Ancestor(a, b)
<1>1. n \in Nat /\ Len(b) \in Nat
    BY LenProperties
<1>2. 0 \in T
  <2>1. 0 \in 0 .. n
    BY <1>1
  <2> DEFINE e == SubSeq(a, 1, 0)
  <2>2. e \in Seq(S) /\ Len(e) = 0
    BY <2>1, CutIs
  <2> HIDE DEF e
  <2>3. IsPrefix(e, b)
    <3>1. Len(e) <= Len(b) /\ \A i \in 1 .. Len(e) : e[i] = b[i]
        BY <1>1, <2>2
    <3> QED BY <2>2, <3>1, PrefixIs
  <2> QED BY <2>1, <2>3 DEF e
<1>3. PICK g \in T : \A k \in T : g >= k
  <2>1. T \subseteq 0 .. n /\ T # {}
    BY <1>2
  <2> HIDE DEF T, n
  <2> QED BY <1>1, <2>1, HasGreatest
<1>4. \A k \in g + 1 .. n : ~IsPrefix(SubSeq(a, 1, k), b)
  <2>1. ASSUME NEW k \in g + 1 .. n, IsPrefix(SubSeq(a, 1, k), b) PROVE FALSE
    <3>1. g \in Nat /\ k \in 0 .. n /\ k > g
        BY <1>1
    <3>2. k \in T
        BY <2>1, <3>1
    <3> QED BY <1>3, <3>1, <3>2
  <2> QED BY <2>1
<1>5. /\ h \in 0 .. n /\ IsPrefix(SubSeq(a, 1, h), b)
      /\ \A k \in h + 1 .. n : ~IsPrefix(SubSeq(a, 1, k), b)
    BY <1>3, <1>4 DEF Ancestor
<1> HIDE DEF h, T
<1>6. ASSUME IsPrefix(a, b) PROVE h = n
  <2>1. n \in 0 .. n
    BY <1>1
  <2>2. SubSeq(a, 1, n) = a
    BY <2>1, CutIs
  <2>3. n \notin h + 1 .. n
    BY <1>5, <1>6, <2>2
  <2> QED BY <1>1, <1>5, <2>3
<1> QED BY <1>5, <1>6 DEF h, n

LEMMA OncePart ==
    ASSUME NEW c, NEW d, Once(c), Len(c) \in Nat, Len(d) \in Nat, Len(d) <= Len(c),
           \A i \in 1 .. Len(d) : d[i] = c[i]
    PROVE  Once(d)
<1>1. \A i \in 1 .. Len(d) : i \in 1 .. Len(c)
    OBVIOUS
<1>2. ASSUME NEW i \in 1 .. Len(d), NEW j \in 1 .. Len(d),
             NEW k \in 1 .. Len(d[i].txs), NEW l \in 1 .. Len(d[j].txs), d[i].txs[k] = d[j].txs[l]
      PROVE  i = j /\ k = l
  <2>1. d[i] = c[i] /\ d[j] = c[j] /\ i \in 1 .. Len(c) /\ j \in 1 .. Len(c)
    BY <1>1
  <2>2. k \in 1 .. Len(c[i].txs) /\ l \in 1 .. Len(c[j].txs) /\ c[i].txs[k] = c[j].txs[l]
    BY <1>2, <2>1
  <2> QED BY <2>1, <2>2 DEF Once
<1> QED BY <1>2 DEF Once

LEMMA OnChainIs ==
    ASSUME NEW pool, NEW c \in Seq(BlockOf(pool)), NEW tx
    PROVE  tx \in OnChain(c) <=> \E i \in 1 .. Len(c) : \E k \in 1 .. Len(c[i].txs) : c[i].txs[k] = tx
<1>1. DOMAIN c = 1 .. Len(c) /\ \A i \in 1 .. Len(c) : c[i] \in BlockOf(pool)
    BY LenProperties, ElementOfSeq
<1>2. \A i \in 1 .. Len(c) : c[i].txs \in Seq(Payments \cup pool)
    BY <1>1 DEF BlockOf
<1>3. \A i \in 1 .. Len(c) : DOMAIN c[i].txs = 1 .. Len(c[i].txs)
    BY <1>2, LenProperties
<1>4. ASSUME NEW i \in 1 .. Len(c)
      PROVE  tx \in ToSet(c[i].txs) <=> \E k \in 1 .. Len(c[i].txs) : c[i].txs[k] = tx
    BY <1>3 DEF ToSet
<1>5. tx \in OnChain(c) <=> \E i \in 1 .. Len(c) : tx \in ToSet(c[i].txs)
    BY <1>1 DEF OnChain
<1> QED BY <1>4, <1>5

LEMMA TimeIs ==
    ASSUME NEW pool, NEW c \in Seq(BlockOf(pool))
    PROVE  /\ TimeOf(c) \in Nat
           /\ \A b \in BlockOf(pool) : TimeOf(Append(c, b)) = b.time
           /\ c # << >> => Len(c) \in 1 .. Len(c) /\ TimeOf(c) = c[Len(c)].time
<1>1. ASSUME c = << >> PROVE TimeOf(c) \in Nat
    BY <1>1 DEF TimeOf
<1>2. ASSUME c # << >>
      PROVE  Len(c) \in 1 .. Len(c) /\ TimeOf(c) = c[Len(c)].time /\ TimeOf(c) \in Nat
  <2>1. Len(c) \in Nat /\ Len(c) # 0
    BY <1>2, LenProperties, EmptySeq
  <2>2. Len(c) \in 1 .. Len(c)
    BY <2>1
  <2>3. c[Len(c)] \in BlockOf(pool)
    BY <2>2, ElementOfSeq
  <2>4. c[Len(c)].time \in Nat
    BY <2>3 DEF BlockOf
  <2> QED BY <1>2, <2>2, <2>4 DEF TimeOf, Last
<1>3. ASSUME NEW b \in BlockOf(pool) PROVE TimeOf(Append(c, b)) = b.time
  <2> DEFINE d == Append(c, b)
  <2>1. d \in Seq(BlockOf(pool)) /\ Len(d) = Len(c) + 1 /\ d[Len(c) + 1] = b /\ Len(c) \in Nat
    BY AppendProperties, LenProperties
  <2> HIDE DEF d
  <2>2. d # << >>
    BY <2>1, EmptySeq
  <2>3. TimeOf(d) = b.time
    BY <2>1, <2>2 DEF TimeOf, Last
  <2> QED BY <2>3 DEF d
<1> QED BY <1>1, <1>2, <1>3

LEMMA PoolGrows ==
    ASSUME NEW pool, NEW more, pool \subseteq more, NEW c \in Seq(BlockOf(pool))
    PROVE  c \in Seq(BlockOf(more))
<1>1. Len(c) \in Nat /\ \A i \in 1 .. Len(c) : c[i] \in BlockOf(pool)
    BY LenProperties, ElementOfSeq
<1>2. ASSUME NEW b \in BlockOf(pool) PROVE b \in BlockOf(more)
  <2>1. b.txs \in Seq(Payments \cup pool)
    BY DEF BlockOf
  <2>2. Len(b.txs) \in Nat /\ \A i \in 1 .. Len(b.txs) : b.txs[i] \in Payments \cup more
    BY <2>1, LenProperties, ElementOfSeq
  <2>3. b.txs \in [1 .. Len(b.txs) -> Payments \cup more]
    BY <2>1, <2>2, LenProperties
  <2>4. b.txs \in Seq(Payments \cup more)
    BY <2>2, <2>3, SeqDef
  <2> QED BY <2>4 DEF BlockOf
<1>3. c \in [1 .. Len(c) -> BlockOf(more)]
    BY <1>1, <1>2, LenProperties
<1> QED BY <1>1, <1>3, SeqDef

-----------------------------------------------------------------------------
(***************************************************************************)
(* BooksInv is inductive.  First the actions of the node.                  *)
(***************************************************************************)
LEMMA GrowBooks ==
    ASSUME BooksInv, Grow
    PROVE  BooksInv'
<1>1. PICK txs \in SUBSET (scope.payments \cup mempool), time \in TimeOf(chain) .. scope.time :
        Mine(txs, time)
    BY DEF Grow
<1> DEFINE s == SetToSeq(txs)
           b == [txs |-> s, time |-> time, branch |-> reorgs]
           n == Len(chain)
           B == BlockOf(mempool)
<1>2. /\ scope \in Scopes /\ reorgs \in Nat /\ restarts \in Nat /\ IsFiniteSet(mempool)
      /\ chain \in Seq(B) /\ Once(chain) /\ n \in Nat
    BY LenProperties DEF BooksInv, Node
<1>3. chain' = Append(chain, b) /\ txs \cap OnChain(chain) = {}
    BY <1>1 DEF Mine
<1>4. UNCHANGED <<applied, fee_rule, requests, refunds, challenges, missed, phase, todo,
                  previous_day, mempool, sweeps, scope, reorgs, restarts>>
    BY <1>1 DEF Mine, queues
<1>5. scope.payments \subseteq Payments /\ scope.time \in Nat
    BY <1>2, TreasuryAssumption
<1>6. IsFiniteSet(txs) /\ txs \subseteq Payments \cup mempool
  <2>1. IsFiniteSet(Payments \cup mempool)
    BY <1>2, TreasuryAssumption, FS_Union
  <2>2. txs \subseteq Payments \cup mempool
    BY <1>1, <1>5
  <2> QED BY <2>1, <2>2, FS_Subset
<1>7. s \in Seq(txs) /\ Len(s) \in Nat /\ \A k, l \in 1 .. Len(s) : s[k] = s[l] => k = l
    BY <1>6, SetToSeqIs, LenProperties
<1>8. \A k \in 1 .. Len(s) : s[k] \in txs
    BY <1>7, ElementOfSeq
<1> HIDE DEF s
<1>9. s \in Seq(Payments \cup mempool)
  <2>1. s \in [1 .. Len(s) -> Payments \cup mempool]
    BY <1>6, <1>7, <1>8, LenProperties
  <2> QED BY <1>7, <2>1, SeqDef
<1>10. time \in Nat
  <2>1. TimeOf(chain) \in Nat
    BY <1>2, TimeIs
  <2> QED BY <1>5, <2>1
<1>11. b \in B /\ b.txs = s
    BY <1>2, <1>9, <1>10 DEF BlockOf
<1> HIDE DEF b, B
<1>12. /\ chain' \in Seq(B) /\ Len(chain') = n + 1 /\ chain'[n + 1] = b
       /\ \A i \in 1 .. n : chain'[i] = chain[i]
    BY <1>2, <1>3, <1>11, AppendProperties
<1>13. \A i \in 1 .. n : \A k \in 1 .. Len(chain[i].txs) : chain[i].txs[k] \notin txs
  <2>1. \A tx : (\E i \in 1 .. n : \E k \in 1 .. Len(chain[i].txs) : chain[i].txs[k] = tx)
                  => tx \in OnChain(chain)
    BY <1>2, OnChainIs DEF B
  <2> QED BY <1>3, <2>1
<1>14. Once(chain')
  <2> DEFINE c == chain'
  <2>1. /\ Len(c) = n + 1 /\ c[n + 1].txs = s
        /\ \A i \in 1 .. n : c[i] = chain[i]
    BY <1>11, <1>12
  <2> HIDE DEF c
  <2>2. ASSUME NEW i \in 1 .. n + 1, NEW j \in 1 .. n + 1,
               NEW k \in 1 .. Len(c[i].txs), NEW l \in 1 .. Len(c[j].txs),
               c[i].txs[k] = c[j].txs[l]
        PROVE  i = j /\ k = l
    <3>1. CASE i \in 1 .. n /\ j \in 1 .. n
      <4>1. c[i] = chain[i] /\ c[j] = chain[j]
        BY <2>1, <3>1
      <4>2. k \in 1 .. Len(chain[i].txs) /\ l \in 1 .. Len(chain[j].txs)
            /\ chain[i].txs[k] = chain[j].txs[l]
        BY <2>2, <4>1
      <4> QED BY <1>2, <3>1, <4>2 DEF Once, n
    <3>2. CASE i = n + 1 /\ j = n + 1
      <4>1. c[i].txs = s /\ c[j].txs = s
        BY <2>1, <3>2
      <4>2. k \in 1 .. Len(s) /\ l \in 1 .. Len(s) /\ s[k] = s[l]
        BY <2>2, <4>1
      <4> QED BY <1>7, <3>2, <4>2
    <3>3. CASE i \in 1 .. n /\ j = n + 1
      <4>1. c[i] = chain[i] /\ c[j].txs = s
        BY <2>1, <3>3
      <4>2. k \in 1 .. Len(chain[i].txs) /\ l \in 1 .. Len(s) /\ chain[i].txs[k] = s[l]
        BY <2>2, <4>1
      <4> QED BY <1>8, <1>13, <3>3, <4>2
    <3>4. CASE i = n + 1 /\ j \in 1 .. n
      <4>1. c[j] = chain[j] /\ c[i].txs = s
        BY <2>1, <3>4
      <4>2. l \in 1 .. Len(chain[j].txs) /\ k \in 1 .. Len(s) /\ chain[j].txs[l] = s[k]
        BY <2>2, <4>1
      <4> QED BY <1>8, <1>13, <3>4, <4>2
    <3>5. (i \in 1 .. n \/ i = n + 1) /\ (j \in 1 .. n \/ j = n + 1)
        BY <1>2
    <3> QED BY <3>1, <3>2, <3>3, <3>4, <3>5
  <2>3. Once(c)
    BY <2>1, <2>2 DEF Once
  <2> QED BY <2>3 DEF c
<1>15. Node'
    BY <1>2, <1>4, <1>12, <1>14 DEF Node, B
<1>16. Mint' /\ Queued' /\ Deciding' /\ Refunding'
  <2>1. Mint /\ Queued /\ Deciding /\ Refunding
    BY DEF BooksInv
  <2>2. Mint'
    BY <1>4, <2>1 DEF Mint
  <2>3. Queued'
    BY <1>4, <2>1 DEF Queued
  <2>4. Deciding' /\ Refunding'
    BY <1>4, <2>1 DEF Deciding, Refunding
  <2> QED BY <2>2, <2>3, <2>4
<1> QED BY <1>15, <1>16 DEF BooksInv

LEMMA ReorgBooks ==
    ASSUME BooksInv, NEW h \in 0 .. Len(chain), Reorg(h)
    PROVE  BooksInv'
<1> DEFINE B == BlockOf(mempool)
<1>1. /\ scope \in Scopes /\ reorgs \in Nat /\ restarts \in Nat /\ IsFiniteSet(mempool)
      /\ chain \in Seq(B) /\ Once(chain) /\ Len(chain) \in Nat
    BY LenProperties DEF BooksInv, Node
<1>2. chain' = SubSeq(chain, 1, h) /\ reorgs' = reorgs + 1
    BY DEF Reorg
<1>3. UNCHANGED <<applied, fee_rule, requests, refunds, challenges, missed, phase, todo,
                  previous_day, mempool, sweeps, scope, restarts>>
    BY DEF Reorg, queues
<1>4. /\ chain' \in Seq(B) /\ Len(chain') = h /\ \A i \in 1 .. h : chain'[i] = chain[i]
    BY <1>1, <1>2, CutIs
<1>5. Once(chain')
    BY <1>1, <1>4, OncePart
<1>6. Node'
    BY <1>1, <1>2, <1>3, <1>4, <1>5 DEF Node
<1>7. Mint /\ Queued /\ Deciding /\ Refunding
    BY DEF BooksInv
<1>8. Mint'
    BY <1>3, <1>7 DEF Mint
<1>9. Queued'
    BY <1>3, <1>7 DEF Queued
<1>10. Deciding' /\ Refunding'
    BY <1>3, <1>7 DEF Deciding, Refunding
<1> QED BY <1>6, <1>8, <1>9, <1>10 DEF BooksInv

(* The node, while the mint acts *)
LEMMA NodeKept ==
    ASSUME Node, UNCHANGED <<scope, reorgs, chain>>, restarts' \in Nat,
           \/ mempool' = mempool
           \/ \E t : mempool' = mempool \cup {t}
    PROVE  Node' /\ \A c \in Seq(BlockOf(mempool)) : c \in Seq(BlockOf(mempool'))
<1>1. mempool \subseteq mempool' /\ IsFiniteSet(mempool')
    BY FS_AddElement DEF Node
<1>2. \A c \in Seq(BlockOf(mempool)) : c \in Seq(BlockOf(mempool'))
    BY <1>1, PoolGrows
<1>3. chain' \in Seq(BlockOf(mempool'))
    BY <1>2 DEF Node
<1>4. Once(chain')
    BY DEF Node
<1> QED BY <1>1, <1>2, <1>3, <1>4 DEF Node

LEMMA LostBooks ==
    ASSUME BooksInv, RefundAnswerLost
    PROVE  BooksInv'
<1>1. /\ UNCHANGED <<chain, scope, reorgs, restarts, applied, fee_rule, requests, refunds,
                     challenges, missed, phase, todo>>
      /\ mempool' = mempool \cup {RefundTx(Head(todo))}
    BY DEF RefundAnswerLost, world, queues
<1>2. Node /\ Mint /\ Queued /\ Deciding /\ Refunding /\ restarts \in Nat
    BY DEF BooksInv, Node
<1>3. Node' /\ \A c \in Seq(BlockOf(mempool)) : c \in Seq(BlockOf(mempool'))
    BY <1>1, <1>2, NodeKept
<1>4. applied' \in Seq(BlockOf(mempool'))
    BY <1>1, <1>2, <1>3 DEF Mint
<1>5. Mint'
    BY <1>1, <1>2, <1>4 DEF Mint
<1>6. Queued'
    BY <1>1, <1>2 DEF Queued
<1>7. Deciding' /\ Refunding'
    BY <1>1, <1>2 DEF Deciding, Refunding
<1> QED BY <1>3, <1>5, <1>6, <1>7 DEF BooksInv

LEMMA RestartBooks ==
    ASSUME BooksInv, Restart
    PROVE  BooksInv'
<1>1. /\ UNCHANGED <<chain, scope, reorgs, missed, mempool>>
      /\ restarts' = restarts + 1 /\ applied' = chain /\ fee_rule' \in Fees
      /\ requests' = << >> /\ refunds' = << >> /\ challenges' = << >>
      /\ phase' = "wait"
    BY DEF Restart
<1>2. Node /\ Mint
    BY DEF BooksInv
<1>3. Node'
  <2>1. restarts' \in Nat
    BY <1>1, <1>2 DEF Node
  <2> QED BY <1>1, <1>2, <2>1, NodeKept
<1>4. Mint'
  <2>1. << >> \in Seq(Request) /\ << >> \in Seq(Refund) /\ << >> \in Seq(Challenge)
    BY EmptySeq
  <2>2. fee_rule' \in Nat
    BY <1>1, TreasuryAssumption
  <2>3. applied' \in Seq(BlockOf(mempool')) /\ Once(applied')
    BY <1>1, <1>2 DEF Node
  <2>4. Open(challenges', missed', TimeOf(applied'))
    BY <1>1, NilKeeps
  <2>5. missed' \in [Requests -> Nat]
    BY <1>1, <1>2 DEF Mint
  <2> QED BY <1>1, <2>1, <2>2, <2>3, <2>4, <2>5 DEF Mint
<1>5. Queued'
    BY <1>1, NilKeeps DEF Queued
<1>6. Deciding' /\ Refunding'
    BY <1>1 DEF Deciding, Refunding
<1> QED BY <1>3, <1>4, <1>5, <1>6 DEF BooksInv

-----------------------------------------------------------------------------
(***************************************************************************)
(* The catch-up                                                            *)
(***************************************************************************)
LEMMA TruncateKeeps ==
    ASSUME NEW S, NEW q \in Seq(S), NEW c, NEW d, NEW h \in Nat, Backed(q, c),
           Len(d) = h, \A i \in 1 .. h : d[i] = c[i]
    PROVE  /\ TruncateTo(q, h) \in Seq(S) /\ Within(TruncateTo(q, h), q)
           /\ Backed(TruncateTo(q, h), d)
<1> DEFINE P == {i \in DOMAIN q : q[i].height <= h}
           r == Retain(q, P)
<1>1. TruncateTo(q, h) = r
    BY DEF TruncateTo
<1>2. \A i \in P : q[i].height <= h
    OBVIOUS
<1> HIDE DEF P
<1>3. /\ r \in Seq(S) /\ Within(r, q)
      /\ \A k \in 1 .. Len(r) : \E i \in 1 .. Len(q) : i \in P /\ r[k] = q[i]
    BY RetainWithin
<1> HIDE DEF r
<1>4. ASSUME NEW k \in 1 .. Len(r)
      PROVE  /\ r[k].height \in 1 .. Len(d)
             /\ \E j \in 1 .. Len(d[r[k].height].txs) : d[r[k].height].txs[j] = r[k].memo[1]
  <2>1. PICK i \in 1 .. Len(q) : i \in P /\ r[k] = q[i]
    BY <1>3
  <2>2. r[k].height <= h /\ r[k].height \in 1 .. Len(c)
    BY <1>2, <2>1 DEF Backed
  <2>3. r[k].height \in 1 .. h
    BY <2>2
  <2>4. d[r[k].height] = c[r[k].height]
    BY <2>3
  <2>5. \E j \in 1 .. Len(c[r[k].height].txs) : c[r[k].height].txs[j] = r[k].memo[1]
    BY <2>1 DEF Backed
  <2> QED BY <2>3, <2>4, <2>5
<1>5. Backed(r, d)
    BY <1>4 DEF Backed
<1> QED BY <1>1, <1>3, <1>5

LEMMA FollowBooks ==
    ASSUME BooksInv, Follow
    PROVE  BooksInv'
<1> DEFINE h == Ancestor(applied, chain)
           B == BlockOf(mempool)
<1>1. /\ UNCHANGED <<chain, scope, reorgs, restarts, fee_rule, mempool, missed>>
      /\ applied' = SubSeq(applied, 1, h) /\ phase' = "apply"
      /\ IF h < Len(applied)
         THEN /\ challenges' = << >> /\ requests' = TruncateTo(requests, h)
              /\ refunds' = TruncateTo(refunds, h)
         ELSE UNCHANGED <<requests, refunds, challenges>>
    BY DEF Follow, world, queues
<1>2. Node /\ Mint /\ Queued
    BY DEF BooksInv
<1>3. Node'
  <2>1. restarts' \in Nat
    BY <1>1, <1>2 DEF Node
  <2> QED BY <1>1, <1>2, <2>1, NodeKept
<1>4. /\ applied \in Seq(B) /\ chain \in Seq(B) /\ Once(applied) /\ Len(applied) \in Nat
      /\ requests \in Seq(Request) /\ refunds \in Seq(Refund)
    BY <1>2, LenProperties DEF Mint, Node
<1>5. h \in 0 .. Len(applied)
    BY <1>4, AncestorIs
<1> HIDE DEF h, B
<1>6. /\ applied' \in Seq(B) /\ Len(applied') = h /\ \A i \in 1 .. h : applied'[i] = applied[i]
      /\ h = Len(applied) => applied' = applied
    BY <1>1, <1>4, <1>5, CutIs
<1>7. Once(applied')
    BY <1>4, <1>5, <1>6, OncePart
<1>8. Deciding' /\ Refunding'
    BY <1>1 DEF Deciding, Refunding
<1>9. CASE h < Len(applied)
  <2>1. /\ Backed(requests, applied) /\ Distinct(requests)
        /\ Backed(refunds, applied) /\ Distinct(refunds)
        /\ Apart(requests, refunds) /\ Payable(refunds)
    BY <1>2 DEF Queued
  <2>2. h \in Nat /\ requests' = TruncateTo(requests, h) /\ refunds' = TruncateTo(refunds, h)
        /\ challenges' = << >>
    BY <1>1, <1>5, <1>9
  <2>3. /\ requests' \in Seq(Request) /\ Within(requests', requests) /\ Backed(requests', applied')
    BY <1>4, <1>6, <2>1, <2>2, TruncateKeeps
  <2>4. /\ refunds' \in Seq(Refund) /\ Within(refunds', refunds) /\ Backed(refunds', applied')
    BY <1>4, <1>6, <2>1, <2>2, TruncateKeeps
  <2>5. Distinct(requests') /\ Distinct(refunds') /\ Payable(refunds')
    BY <2>1, <2>3, <2>4, WithinKeeps
  <2>6. Apart(requests', refunds)
    BY <2>1, <2>3, WithinKeeps
  <2>7. Apart(requests', refunds')
    BY <2>4, <2>6, WithinKeeps
  <2>8. Queued'
    BY <2>3, <2>4, <2>5, <2>7 DEF Queued
  <2>9. Mint'
    <3>1. challenges' \in Seq(Challenge) /\ Open(challenges', missed', TimeOf(applied'))
        BY <2>2, NilKeeps, EmptySeq
    <3> QED BY <1>1, <1>2, <1>6, <1>7, <2>3, <2>4, <3>1 DEF Mint, B
  <2> QED BY <1>3, <1>8, <2>8, <2>9 DEF BooksInv
<1>10. CASE ~(h < Len(applied))
  <2>1. applied' = applied
    BY <1>4, <1>5, <1>6, <1>10
  <2>2. UNCHANGED <<requests, refunds, challenges>>
    BY <1>1, <1>10
  <2>3. Mint'
    BY <1>1, <1>2, <2>1, <2>2 DEF Mint
  <2>4. Queued'
    BY <1>2, <2>1, <2>2 DEF Queued
  <2> QED BY <1>3, <1>8, <2>3, <2>4 DEF BooksInv
<1> QED BY <1>9, <1>10

(* d is c with one more block, which holds the memos of s. *)
OneMore(c, d, s, height) ==
    /\ height \in Nat /\ Len(c) \in Nat /\ height = Len(c) + 1 /\ Len(d) = height
    /\ \A i \in 1 .. Len(c) : d[i] = c[i]
    /\ \A k \in 1 .. Len(s) : \E j \in 1 .. Len(d[height].txs) : d[height].txs[j] = s[k][1]

LEMMA GrownBacked ==
    ASSUME NEW q, NEW r, NEW s, NEW height, Grown(q, r, s, Len(s), height),
           Len(q) \in Nat, Len(r) \in Nat, NEW c, NEW d, Backed(q, c), OneMore(c, d, s, height)
    PROVE  Backed(r, d)
<1> DEFINE n == Len(s)
<1>0. /\ height \in Nat /\ Len(c) \in Nat /\ height = Len(c) + 1 /\ Len(d) = height
      /\ \A i \in 1 .. Len(c) : d[i] = c[i]
      /\ \A k \in 1 .. n : \E j \in 1 .. Len(d[height].txs) : d[height].txs[j] = s[k][1]
    BY DEF OneMore
<1>1. ASSUME NEW i \in 1 .. Len(r)
      PROVE  /\ r[i].height \in 1 .. Len(d)
             /\ \E j \in 1 .. Len(d[r[i].height].txs) : d[r[i].height].txs[j] = r[i].memo[1]
  <2>1. CASE i \in 1 .. Len(q)
    <3>1. r[i] = q[i]
        BY <2>1 DEF Grown
    <3>2. q[i].height \in 1 .. Len(c)
          /\ \E j \in 1 .. Len(c[q[i].height].txs) : c[q[i].height].txs[j] = q[i].memo[1]
        BY <2>1 DEF Backed
    <3>3. q[i].height \in 1 .. Len(d) /\ d[q[i].height] = c[q[i].height]
        BY <1>0, <3>2
    <3> QED BY <3>1, <3>2, <3>3
  <2>2. CASE i \notin 1 .. Len(q)
    <3>1. i \in Len(q) + 1 .. Len(r)
        BY <2>2
    <3>2. r[i].height = height /\ \E k \in 1 .. n : r[i].memo = s[k]
        BY <3>1 DEF Grown
    <3>3. height \in 1 .. Len(d)
        BY <1>0
    <3>4. PICK k \in 1 .. n : r[i].memo = s[k]
        BY <3>2
    <3>5. \E j \in 1 .. Len(d[height].txs) : d[height].txs[j] = s[k][1]
        BY <1>0, <3>4
    <3> QED BY <3>2, <3>3, <3>4, <3>5
  <2> QED BY <2>1, <2>2
<1> QED BY <1>1 DEF Backed

(* What applying a block leaves, and which memos it queues *)
LEMMA ApplyBooks ==
    ASSUME BooksInv, NEW ruling \in Rulings, ApplyBlock(ruling)
    PROVE  /\ BooksInv'
           /\ \A i \in 1 .. Len(refunds) : i \in 1 .. Len(refunds') /\ refunds'[i] = refunds[i]
           /\ \A i \in 1 .. Len(requests') :
                (i \in 1 .. Len(requests) /\ requests'[i] = requests[i])
                    \/ requests'[i].memo[1] \notin OnChain(applied)
           /\ \A i \in 1 .. Len(refunds') :
                (i \in 1 .. Len(refunds) /\ refunds'[i] = refunds[i])
                    \/ refunds'[i].memo[1] \notin OnChain(applied)
<1> DEFINE B == BlockOf(mempool)
           n == Len(applied)
           height == n + 1
           block == chain[height]
           x == [requests |-> requests, refunds |-> refunds, missed |-> missed,
                 challenges |-> ExpireChallenges(challenges, block.time)]
           s == Arrivals(block)
           y == ReceiveAll(x, s, height, ruling)
<1>1. /\ UNCHANGED <<chain, scope, reorgs, restarts, fee_rule, mempool, phase, todo>>
      /\ phase = "apply" /\ height <= Len(chain) /\ IsPrefix(applied, chain)
      /\ applied' = Append(applied, block)
      /\ requests' = y.requests /\ refunds' = y.refunds
      /\ challenges' = y.challenges /\ missed' = y.missed
    BY DEF ApplyBlock, world
<1>2. Node /\ Mint /\ Queued
    BY DEF BooksInv
<1>3. Node'
  <2>1. restarts' \in Nat
    BY <1>1, <1>2 DEF Node
  <2> QED BY <1>1, <1>2, <2>1, NodeKept
<1>4. /\ applied \in Seq(B) /\ chain \in Seq(B) /\ Once(chain) /\ n \in Nat /\ Len(chain) \in Nat
      /\ requests \in Seq(Request) /\ refunds \in Seq(Refund) /\ challenges \in Seq(Challenge)
      /\ missed \in [Requests -> Nat] /\ fee_rule \in Nat
      /\ Open(challenges, missed, TimeOf(applied))
    BY <1>2, LenProperties DEF Mint, Node
<1>5. \A i \in 1 .. n : applied[i] = chain[i]
    BY <1>1, <1>4, PrefixIs
<1>6. height \in Nat /\ height \in 1 .. Len(chain)
    BY <1>1, <1>4
<1>7. block \in B /\ block.txs \in Seq(Payments \cup mempool)
  <2>1. block \in B
    BY <1>4, <1>6, ElementOfSeq
  <2> HIDE DEF block
  <2> QED BY <2>1 DEF BlockOf
<1>8. \A k, l \in 1 .. Len(block.txs) : block.txs[k] = block.txs[l] => k = l
    BY <1>4, <1>6 DEF Once
<1>9. Brought(s, block.txs, Len(block.txs))
  <2> HIDE DEF block
  <2> QED BY <1>7, <1>8, ArrivalsAre
<1>10. \A i \in 1 .. n : \A k \in 1 .. Len(applied[i].txs), l \in 1 .. Len(block.txs) :
            applied[i].txs[k] # block.txs[l]
  <2>1. \A i \in 1 .. n : i \in 1 .. Len(chain) /\ i # height /\ applied[i] = chain[i]
    BY <1>1, <1>4, <1>5
  <2> HIDE DEF height
  <2> QED BY <1>4, <1>6, <2>1 DEF Once
<1> HIDE DEF block
<1>11. /\ s \in Seq(Memos) /\ Injective(s) /\ Len(s) \in Nat
       /\ \A i \in 1 .. Len(s) : \E k \in 1 .. Len(block.txs) : block.txs[k] = s[i][1]
    BY <1>9, LenProperties DEF Brought
<1> HIDE DEF s
<1>12. ASSUME NEW q, Backed(q, applied) PROVE Fresh(q, s)
  <2>1. ASSUME NEW i \in 1 .. Len(q), NEW k \in 1 .. Len(s), q[i].memo = s[k] PROVE FALSE
    <3>1. PICK j \in 1 .. Len(applied[q[i].height].txs) :
            applied[q[i].height].txs[j] = q[i].memo[1]
        BY <1>12 DEF Backed
    <3>2. q[i].height \in 1 .. n
        BY <1>12 DEF Backed
    <3>3. PICK l \in 1 .. Len(block.txs) : block.txs[l] = s[k][1]
        BY <1>11
    <3> QED BY <1>10, <2>1, <3>1, <3>2, <3>3
  <2> QED BY <2>1 DEF Fresh
<1>13. /\ Backed(requests, applied) /\ Distinct(requests)
       /\ Backed(refunds, applied) /\ Distinct(refunds)
       /\ Apart(requests, refunds) /\ Payable(refunds)
    BY <1>2 DEF Queued
<1>14. Fresh(requests, s) /\ Fresh(refunds, s)
    BY <1>12, <1>13
<1>15. /\ ExpireChallenges(challenges, block.time) \in Seq(Challenge)
       /\ Open(ExpireChallenges(challenges, block.time), missed, block.time)
    BY <1>4, ExpireKeeps
<1>16. /\ x \in Books /\ x.requests = requests /\ x.refunds = refunds /\ x.missed = missed
       /\ x.challenges = ExpireChallenges(challenges, block.time)
    BY <1>4, <1>15 DEF Books
<1> HIDE DEF x, height
<1>17. Received(x, y, s, Len(s), height, block.time)
    BY <1>4, <1>6, <1>11, <1>13, <1>14, <1>15, <1>16, ReceivesAll
<1> HIDE DEF y
<1>18. /\ y \in Books /\ Open(y.challenges, y.missed, block.time)
       /\ Grown(requests, requests', s, Len(s), height)
       /\ Grown(refunds, refunds', s, Len(s), height)
       /\ Distinct(requests') /\ Distinct(refunds') /\ Apart(requests', refunds')
       /\ Payable(refunds')
    BY <1>1, <1>16, <1>17 DEF Received
<1>19. /\ requests' \in Seq(Request) /\ refunds' \in Seq(Refund)
       /\ challenges' \in Seq(Challenge) /\ missed' \in [Requests -> Nat]
    BY <1>1, <1>18, BooksParts
<1>20. /\ Len(requests) \in Nat /\ Len(refunds) \in Nat /\ Len(requests') \in Nat
       /\ Len(refunds') \in Nat
    BY <1>4, <1>19, LenProperties
<1>21. /\ applied' \in Seq(B) /\ Len(applied') = n + 1 /\ applied'[n + 1] = block
       /\ \A i \in 1 .. n : applied'[i] = applied[i]
  <2> HIDE DEF B
  <2> QED BY <1>1, <1>4, <1>7, AppendProperties
<1>22. Once(applied')
  <2> DEFINE d == applied'
  <2>1. Len(d) = height /\ d[height] = chain[height] /\ \A i \in 1 .. n : d[i] = chain[i]
    BY <1>5, <1>21 DEF height, block
  <2>2. \A i \in 1 .. Len(d) : i \in 1 .. n \/ i = height
    BY <1>4, <2>1 DEF height
  <2> HIDE DEF d
  <2>3. \A i \in 1 .. Len(d) : d[i] = chain[i]
    BY <2>1, <2>2
  <2>4. Len(d) \in Nat /\ Len(d) <= Len(chain)
    BY <1>6, <2>1
  <2>5. Once(d)
    BY <1>4, <2>3, <2>4, OncePart
  <2> QED BY <2>5 DEF d
<1>23. TimeOf(applied') = block.time
    BY <1>1, <1>4, <1>7, TimeIs
<1>24. Mint'
    BY <1>1, <1>4, <1>18, <1>19, <1>21, <1>22, <1>23 DEF Mint
<1>25. Backed(requests', applied') /\ Backed(refunds', applied')
  <2> DEFINE d == applied'
  <2>1. Len(d) = height /\ d[height] = block /\ \A i \in 1 .. n : d[i] = applied[i]
    BY <1>21 DEF height
  <2> HIDE DEF d
  <2>2. \A k \in 1 .. Len(s) : \E j \in 1 .. Len(d[height].txs) : d[height].txs[j] = s[k][1]
    BY <1>11, <2>1
  <2>3. height = Len(applied) + 1 /\ Len(applied) \in Nat /\ height \in Nat
    BY <1>4, <1>6 DEF height
  <2>7. OneMore(applied, d, s, height)
    <3>1. Len(d) = height /\ \A i \in 1 .. Len(applied) : d[i] = applied[i]
        BY <2>1
    <3> HIDE DEF n, s, height, block
    <3> QED BY <2>2, <2>3, <3>1 DEF OneMore
  <2>6. ASSUME NEW q, NEW r, Len(q) \in Nat, Len(r) \in Nat, Backed(q, applied),
               Grown(q, r, s, Len(s), height)
        PROVE  Backed(r, d)
    <3> HIDE DEF n, s, height, block
    <3> QED BY <2>6, <2>7, GrownBacked
  <2>4. Backed(requests', d)
    BY <1>13, <1>18, <1>20, <2>6
  <2>5. Backed(refunds', d)
    BY <1>13, <1>18, <1>20, <2>6
  <2> QED BY <2>4, <2>5 DEF d
<1>26. Queued'
    BY <1>18, <1>25 DEF Queued
<1>27. Deciding' /\ Refunding'
    BY <1>1 DEF Deciding, Refunding
<1>28. BooksInv'
    BY <1>3, <1>24, <1>26, <1>27 DEF BooksInv
<1>29. \A i \in 1 .. Len(refunds) : i \in 1 .. Len(refunds') /\ refunds'[i] = refunds[i]
    BY <1>18, <1>20 DEF Grown
<1>30. \A k \in 1 .. Len(s) : s[k][1] \notin OnChain(applied)
  <2>1. ASSUME NEW k \in 1 .. Len(s), s[k][1] \in OnChain(applied) PROVE FALSE
    <3> DEFINE tx == s[k][1]
    <3>3. applied \in Seq(BlockOf(mempool)) /\ tx \in OnChain(applied)
        BY <1>4, <2>1
    <3>4. \E i \in 1 .. n : \E j \in 1 .. Len(applied[i].txs) : applied[i].txs[j] = tx
      <4> HIDE DEF tx
      <4> QED BY <3>3, OnChainIs
    <3>1. PICK i \in 1 .. n : \E j \in 1 .. Len(applied[i].txs) : applied[i].txs[j] = s[k][1]
        BY <3>4
    <3>2. PICK l \in 1 .. Len(block.txs) : block.txs[l] = s[k][1]
        BY <1>11
    <3> QED BY <1>10, <3>1, <3>2
  <2> QED BY <2>1
<1>31. ASSUME NEW q, NEW r, Len(q) \in Nat, Len(r) \in Nat, Grown(q, r, s, Len(s), height),
              NEW i \in 1 .. Len(r)
       PROVE  (i \in 1 .. Len(q) /\ r[i] = q[i]) \/ r[i].memo[1] \notin OnChain(applied)
  <2>1. CASE i \in 1 .. Len(q)
    BY <1>31, <2>1 DEF Grown
  <2>2. CASE i \notin 1 .. Len(q)
    <3>1. i \in Len(q) + 1 .. Len(r)
        BY <1>31, <2>2
    <3>2. PICK k \in 1 .. Len(s) : r[i].memo = s[k]
        BY <1>31, <3>1 DEF Grown
    <3> QED BY <1>30, <3>2
  <2> QED BY <2>1, <2>2
<1>32. \A i \in 1 .. Len(requests') :
          (i \in 1 .. Len(requests) /\ requests'[i] = requests[i])
              \/ requests'[i].memo[1] \notin OnChain(applied)
    BY <1>18, <1>20, <1>31
<1>33. \A i \in 1 .. Len(refunds') :
          (i \in 1 .. Len(refunds) /\ refunds'[i] = refunds[i])
              \/ refunds'[i].memo[1] \notin OnChain(applied)
    BY <1>18, <1>20, <1>31
<1> QED BY <1>28, <1>29, <1>32, <1>33

-----------------------------------------------------------------------------
(***************************************************************************)
(* The rules                                                               *)
(***************************************************************************)
LEMMA StepBooks ==
    ASSUME BooksInv, SkipPass \/ StartRelays \/ \E moved \in BOOLEAN : Sweep(moved)
    PROVE  BooksInv'
<1>1. /\ UNCHANGED <<chain, scope, reorgs, restarts, applied, fee_rule, requests, refunds,
                     challenges, missed, mempool>>
      /\ phase' # "decide" /\ phase' # "refund"
    BY DEF SkipPass, StartRelays, Sweep, world, queues
<1>2. Node /\ Mint /\ Queued
    BY DEF BooksInv
<1>3. Node'
  <2>1. restarts' \in Nat
    BY <1>1, <1>2 DEF Node
  <2> QED BY <1>1, <1>2, <2>1, NodeKept
<1>4. Mint'
    BY <1>1, <1>2 DEF Mint
<1>5. Queued'
    BY <1>1, <1>2 DEF Queued
<1>6. Deciding' /\ Refunding'
    BY <1>1 DEF Deciding, Refunding
<1> QED BY <1>3, <1>4, <1>5, <1>6 DEF BooksInv

LEMMA StartRulesBooks ==
    ASSUME BooksInv, StartRules
    PROVE  BooksInv'
<1>1. /\ UNCHANGED <<chain, scope, reorgs, restarts, applied, requests, refunds,
                     challenges, missed, mempool>>
      /\ phase' = "decide" /\ todo' = requests /\ fee_rule' \in Fees \cup {fee_rule}
    BY DEF StartRules, Pending, world, queues
<1>2. Node /\ Mint /\ Queued
    BY DEF BooksInv
<1>3. Node'
  <2>1. restarts' \in Nat
    BY <1>1, <1>2 DEF Node
  <2> QED BY <1>1, <1>2, <2>1, NodeKept
<1>4. Mint'
  <2>1. fee_rule' \in Nat
    BY <1>1, <1>2, TreasuryAssumption DEF Mint
  <2> QED BY <1>1, <1>2, <2>1 DEF Mint
<1>5. Queued'
    BY <1>1, <1>2 DEF Queued
<1>6. Refunding'
    BY <1>1 DEF Refunding
<1>7. Deciding'
  <2>1. todo' \in Seq(Request) /\ Backed(todo', applied') /\ Distinct(todo') /\ Apart(todo', refunds')
    BY <1>1, <1>2 DEF Mint, Queued
  <2> QED BY <2>1 DEF Deciding
<1> QED BY <1>3, <1>4, <1>5, <1>6, <1>7 DEF BooksInv

LEMMA ClaimBackIs ==
    ASSUME NEW claim, claim.paid \in Nat, NEW facts \in Facts
    PROVE  ClaimBack(claim, facts) \in Nat /\ ClaimBack(claim, facts) <= claim.paid
<1> DEFINE price == facts.price
<1>1. price \in Nat
  <2>1. price \in Prices \cup {0}
    BY DEF Facts
  <2>2. \A p \in Prices : p \in Nat
    BY TreasuryAssumption
  <2> HIDE DEF price
  <2>3. price \in Prices \/ price = 0
    BY <2>1
  <2> QED BY <2>2, <2>3
<1>2. price \div 100 \in Nat /\ price \div 100 <= price
    BY <1>1
<1>3. ASSUME price <= claim.paid
      PROVE  claim.paid - price \div 100 \in Nat /\ claim.paid - price \div 100 <= claim.paid
    BY <1>1, <1>2, <1>3
<1>4. ~(claim.paid < price) => price <= claim.paid
    BY <1>1
<1>5. \/ ClaimBack(claim, facts) = claim.paid
      \/ ClaimBack(claim, facts) = 0
      \/ /\ ~(claim.paid < price)
         /\ ClaimBack(claim, facts) = claim.paid - price \div 100
    BY DEF ClaimBack, access_code_penalty
<1> QED BY <1>3, <1>4, <1>5

LEMMA ResolvedIs ==
    ASSUME NEW q \in Seq(Request), NEW m
    PROVE  /\ Resolved(q, m) \in Seq(Request) /\ Within(Resolved(q, m), q)
           /\ \A k \in 1 .. Len(Resolved(q, m)) : Resolved(q, m)[k].memo # m
<1> DEFINE P == {i \in DOMAIN q : q[i].memo[1] # m[1]}
           r == Retain(q, P)
<1>1. Resolved(q, m) = r
    BY DEF Resolved
<1>2. \A i \in P : q[i].memo[1] # m[1]
    OBVIOUS
<1> HIDE DEF P
<1>3. /\ r \in Seq(Request) /\ Within(r, q)
      /\ \A k \in 1 .. Len(r) : \E i \in 1 .. Len(q) : i \in P /\ r[k] = q[i]
    BY RetainWithin
<1> HIDE DEF r
<1>4. \A k \in 1 .. Len(r) : r[k].memo # m
    BY <1>2, <1>3
<1> QED BY <1>1, <1>3, <1>4

(* The request at the head of the walk, and what is left of the walk *)
AtHead(e, rest) ==
    /\ e \in Request /\ rest \in Seq(Request)
    /\ e.height \in 1 .. Len(applied)
    /\ \E k \in 1 .. Len(applied[e.height].txs) : applied[e.height].txs[k] = e.memo[1]
    /\ \A i \in 1 .. Len(refunds) : refunds[i].memo # e.memo
    /\ \A i \in 1 .. Len(rest) : rest[i].memo # e.memo
    /\ Backed(rest, applied) /\ Distinct(rest) /\ Apart(rest, refunds)

LEMMA AtHeadIs ==
    ASSUME BooksInv, phase = "decide", todo # << >>
    PROVE  AtHead(Head(todo), Tail(todo))
<1> DEFINE e == Head(todo)
           rest == Tail(todo)
<1>1. /\ todo \in Seq(Request)
      /\ Backed(todo, applied) /\ Distinct(todo) /\ Apart(todo, refunds)
    BY DEF BooksInv, Deciding
<1>2. /\ rest \in Seq(Request) /\ Within(rest, todo) /\ e = todo[1] /\ 1 \in 1 .. Len(todo)
      /\ Len(rest) = Len(todo) - 1 /\ \A k \in 1 .. Len(todo) - 1 : rest[k] = todo[k + 1]
    BY <1>1, TailWithin
<1>3. e \in Request
    BY <1>1, <1>2, ElementOfSeq
<1>4. Backed(rest, applied) /\ Distinct(rest) /\ Apart(rest, refunds)
    BY <1>1, <1>2, WithinKeeps
<1> HIDE DEF e, rest
<1>5. /\ e.height \in 1 .. Len(applied)
      /\ \E k \in 1 .. Len(applied[e.height].txs) : applied[e.height].txs[k] = e.memo[1]
    BY <1>1, <1>2 DEF Backed
<1>6. \A i \in 1 .. Len(refunds) : refunds[i].memo # e.memo
    BY <1>1, <1>2 DEF Apart
<1>7. ASSUME NEW i \in 1 .. Len(rest), rest[i].memo = e.memo PROVE FALSE
  <2>1. i \in 1 .. Len(todo) - 1 /\ i + 1 \in 1 .. Len(todo) /\ i + 1 # 1
    BY <1>1, <1>2, LenProperties
  <2> QED BY <1>1, <1>2, <1>7, <2>1 DEF Distinct
<1> QED BY <1>2, <1>3, <1>4, <1>5, <1>6, <1>7 DEF AtHead, e, rest

LEMMA DecideClaimBooks ==
    ASSUME BooksInv, NEW facts \in Facts, DecideClaim(facts)
    PROVE  /\ BooksInv'
           /\ Within(requests', requests)
           /\ Repays(refunds, refunds', Head(todo).memo, Head(todo).height)
<1> DEFINE e == Head(todo)
           rest == Tail(todo)
           m == e.memo
           claim == MemoAt(m)
           back == ClaimBack(claim, facts)
<1>1. /\ UNCHANGED <<chain, scope, reorgs, restarts, applied, fee_rule, missed, phase, mempool>>
      /\ phase = "decide" /\ todo # << >> /\ todo' = rest
      /\ requests' = Resolved(requests, m)
      /\ refunds' = AdmitRefund(refunds, m, back, e.height)
      /\ challenges' = challenges \/ challenges' = DropChallenges(challenges, claim.name)
    BY DEF DecideClaim, world
<1>2. Node /\ Mint /\ Queued
    BY DEF BooksInv
<1>3. Node'
  <2>1. restarts' \in Nat
    BY <1>1, <1>2 DEF Node
  <2> QED BY <1>1, <1>2, <2>1, NodeKept
<1>4. AtHead(e, rest)
    BY <1>1, AtHeadIs
<1> HIDE DEF e, rest
<1>5. m \in Memos /\ e.height \in Nat /\ e \in Request
    BY <1>4 DEF AtHead, Request
<1>6. back \in Nat /\ back <= MemoAt(m).paid
    BY <1>5, MemoIs, ClaimBackIs
<1> HIDE DEF back, claim
<1>7. requests \in Seq(Request) /\ refunds \in Seq(Refund) /\ challenges \in Seq(Challenge)
      /\ fee_rule \in Nat
    BY <1>2 DEF Mint
<1>8. refunds' \in Seq(Refund) /\ Repays(refunds, refunds', m, e.height)
    BY <1>1, <1>5, <1>6, <1>7, AdmitRepays
<1>9. /\ requests' \in Seq(Request) /\ Within(requests', requests)
      /\ \A k \in 1 .. Len(requests') : requests'[k].memo # m
    BY <1>1, <1>7, ResolvedIs
<1>10. Mint'
  <2>1. challenges' \in Seq(Challenge) /\ Open(challenges', missed', TimeOf(applied'))
    BY <1>1, <1>2, <1>7, DropKeeps DEF Mint
  <2> QED BY <1>1, <1>2, <1>8, <1>9, <2>1 DEF Mint
<1>11. /\ Backed(requests, applied) /\ Distinct(requests)
       /\ Backed(refunds, applied) /\ Distinct(refunds)
       /\ Apart(requests, refunds) /\ Payable(refunds)
    BY <1>2 DEF Queued
<1>12. Backed(requests', applied) /\ Distinct(requests') /\ Apart(requests', refunds)
    BY <1>9, <1>11, WithinKeeps
<1>13. /\ \A i \in 1 .. Len(refunds) : refunds[i].memo # m
       /\ \A i \in 1 .. Len(rest) : rest[i].memo # m
       /\ Backed(rest, applied) /\ Distinct(rest) /\ Apart(rest, refunds) /\ rest \in Seq(Request)
    BY <1>4 DEF AtHead
<1>14. /\ Backed(refunds', applied) /\ Distinct(refunds') /\ Payable(refunds')
       /\ Apart(requests', refunds') /\ Apart(rest, refunds')
  <2>1. CASE refunds' = refunds
    BY <1>11, <1>12, <1>13, <2>1
  <2>2. ASSUME NEW a \in 1 .. MemoAt(m).paid, refunds' = Append(refunds, MadeRefund(m, a, e.height))
        PROVE  /\ Backed(refunds', applied) /\ Distinct(refunds') /\ Payable(refunds')
               /\ Apart(requests', refunds') /\ Apart(rest, refunds')
    <3> DEFINE z == MadeRefund(m, a, e.height)
    <3>1. a \in Nat
        BY <1>5, <2>2, MemoIs
    <3>2. z \in Refund /\ z.memo = m /\ z.amount = a /\ z.height = e.height
        BY <1>5, <3>1 DEF MadeRefund, Refund
    <3>3. /\ z.height \in 1 .. Len(applied)
          /\ \E k \in 1 .. Len(applied[z.height].txs) : applied[z.height].txs[k] = z.memo[1]
        BY <1>4, <3>2 DEF AtHead
    <3>4. z.amount \in 1 .. MemoAt(z.memo).paid
        BY <2>2, <3>2
    <3>5. refunds' = Append(refunds, z)
        BY <2>2
    <3> HIDE DEF z
    <3>6. Backed(refunds', applied) /\ Distinct(refunds') /\ Payable(refunds')
        BY <1>7, <1>11, <1>13, <3>2, <3>3, <3>4, <3>5, AppendKeeps
    <3>7. ASSUME NEW x, Apart(x, refunds), \A i \in 1 .. Len(x) : x[i].memo # m
          PROVE  Apart(x, refunds')
      <4>1. Apart(refunds, x)
        BY <3>7 DEF Apart
      <4> QED BY <1>7, <3>2, <3>5, <3>7, <4>1, AppendKeeps
    <3>8. Apart(requests', refunds')
        BY <1>9, <1>12, <3>7
    <3>9. Apart(rest, refunds')
        BY <1>13, <3>7
    <3> QED BY <3>6, <3>8, <3>9
  <2> QED BY <1>8, <2>1, <2>2 DEF Repays
<1>15. Queued'
    BY <1>1, <1>12, <1>14 DEF Queued
<1>16. Deciding'
    BY <1>1, <1>13, <1>14 DEF Deciding
<1>17. Refunding'
    BY <1>1 DEF Refunding
<1>18. BooksInv'
    BY <1>3, <1>10, <1>15, <1>16, <1>17 DEF BooksInv
<1> QED BY <1>8, <1>9, <1>18 DEF e

LEMMA DecideChallengeBooks ==
    ASSUME BooksInv, NEW authorized \in BOOLEAN, NEW code \in Codes,
           DecideChallenge(authorized, code)
    PROVE  BooksInv' /\ Within(requests', requests)
<1> DEFINE e == Head(todo)
           rest == Tail(todo)
           m == e.memo
           memo == MemoAt(m)
           fresh == ~\E i \in DOMAIN challenges : challenges[i].request = memo.request
           left == IF fresh THEN [missed EXCEPT ![memo.request] = 0] ELSE missed
           admitted == AdmitChallenge(challenges, memo.request, code, TimeOf(applied))
<1>1. /\ UNCHANGED <<chain, scope, reorgs, restarts, applied, fee_rule, refunds, phase, mempool>>
      /\ phase = "decide" /\ todo # << >> /\ todo' = rest
      /\ requests' = Resolved(requests, m)
      /\ memo.kind = "request"
      /\ fresh => ~CodeTaken(challenges, memo.request, code)
      /\ \/ challenges' = admitted /\ missed' = left
         \/ challenges' = challenges /\ missed' = missed
    BY DEF DecideChallenge, world
<1>2. Node /\ Mint /\ Queued
    BY DEF BooksInv
<1>3. Node'
  <2>1. restarts' \in Nat
    BY <1>1, <1>2 DEF Node
  <2> QED BY <1>1, <1>2, <2>1, NodeKept
<1>4. AtHead(e, rest)
    BY <1>1, AtHeadIs
<1> HIDE DEF e, rest
<1>5. m \in Memos
    BY <1>4 DEF AtHead, Request
<1>6. memo.request \in Requests
    BY <1>1, <1>5, MemoIs
<1>7. requests \in Seq(Request) /\ challenges \in Seq(Challenge) /\ missed \in [Requests -> Nat]
      /\ Open(challenges, missed, TimeOf(applied)) /\ TimeOf(applied) \in Nat
    BY <1>2, TimeIs DEF Mint
<1>8. admitted \in Seq(Challenge) /\ left \in [Requests -> Nat]
      /\ Open(admitted, left, TimeOf(applied))
  <2> HIDE DEF memo
  <2> QED BY <1>1, <1>6, <1>7, AdmitKeeps
<1> HIDE DEF admitted, left, fresh
<1>9. /\ requests' \in Seq(Request) /\ Within(requests', requests)
    BY <1>1, <1>7, ResolvedIs
<1>10. challenges' \in Seq(Challenge) /\ missed' \in [Requests -> Nat]
       /\ Open(challenges', missed', TimeOf(applied'))
    BY <1>1, <1>7, <1>8
<1>11. Mint'
    BY <1>1, <1>2, <1>9, <1>10 DEF Mint
<1>12. Backed(requests', applied) /\ Distinct(requests') /\ Apart(requests', refunds)
    BY <1>2, <1>9, WithinKeeps DEF Queued
<1>13. Queued'
    BY <1>1, <1>2, <1>12 DEF Queued
<1>14. Deciding'
    BY <1>1, <1>4 DEF Deciding, AtHead
<1>15. Refunding'
    BY <1>1 DEF Refunding
<1> QED BY <1>3, <1>9, <1>11, <1>13, <1>14, <1>15 DEF BooksInv

LEMMA RelayBooks ==
    ASSUME BooksInv, NEW issued \in BOOLEAN, Relay(issued)
    PROVE  BooksInv'
<1> DEFINE c == ChallengeIssued(challenges, Head(todo).request)
<1>1. /\ UNCHANGED <<chain, scope, reorgs, restarts, applied, fee_rule, requests, refunds, missed,
                     phase, mempool>>
      /\ phase = "relay" /\ (challenges' = c \/ challenges' = challenges)
    BY DEF Relay, world
<1>2. Node /\ Mint /\ Queued
    BY DEF BooksInv
<1>3. Node'
  <2>1. restarts' \in Nat
    BY <1>1, <1>2 DEF Node
  <2> QED BY <1>1, <1>2, <2>1, NodeKept
<1>4. challenges' \in Seq(Challenge) /\ Open(challenges', missed', TimeOf(applied'))
    BY <1>1, <1>2, IssueKeeps DEF Mint
<1>5. Mint'
    BY <1>1, <1>2, <1>4 DEF Mint
<1>6. Queued'
    BY <1>1, <1>2 DEF Queued
<1>7. Deciding' /\ Refunding'
    BY <1>1 DEF Deciding, Refunding
<1> QED BY <1>3, <1>5, <1>6, <1>7 DEF BooksInv

LEMMA StartRefundsBooks ==
    ASSUME BooksInv, StartRefunds
    PROVE  BooksInv' /\ Within(todo', refunds)
<1> DEFINE P == {i \in DOMAIN refunds : refunds[i].height < Len(applied)}
<1>1. /\ UNCHANGED <<chain, scope, reorgs, restarts, applied, fee_rule, requests, refunds,
                     challenges, missed, mempool>>
      /\ phase' = "refund" /\ todo' = Retain(refunds, P)
    BY DEF StartRefunds, Due, world, queues
<1>2. Node /\ Mint /\ Queued
    BY DEF BooksInv
<1>3. Node'
  <2>1. restarts' \in Nat
    BY <1>1, <1>2 DEF Node
  <2> QED BY <1>1, <1>2, <2>1, NodeKept
<1>4. Mint'
    BY <1>1, <1>2 DEF Mint
<1>5. Queued'
    BY <1>1, <1>2 DEF Queued
<1> HIDE DEF P
<1>6. refunds \in Seq(Refund)
    BY <1>2 DEF Mint
<1>7. /\ todo' \in Seq(Refund) /\ Within(todo', refunds)
      /\ \A k \in 1 .. Len(todo') : \E i \in 1 .. Len(refunds) : todo'[k] = refunds[i]
    BY <1>1, <1>6, RetainWithin
<1>8. Distinct(todo')
    BY <1>2, <1>7, WithinKeeps DEF Queued
<1>9. Refunding'
    BY <1>1, <1>7, <1>8 DEF Refunding
<1>10. Deciding'
    BY <1>1 DEF Deciding
<1> QED BY <1>3, <1>4, <1>5, <1>7, <1>9, <1>10 DEF BooksInv

LEMMA PayIs ==
    ASSUME NEW q \in Seq(Refund), NEW e, NEW j \in 1 .. Len(q), q[j] = e
    PROVE  /\ Pay(q, e) \in Seq(Refund) /\ Within(Pay(q, e), q)
           /\ \A i \in 1 .. Len(q) : q[i] # e => \E k \in 1 .. Len(Pay(q, e)) : Pay(q, e)[k] = q[i]
           /\ Distinct(q) => \A k \in 1 .. Len(Pay(q, e)) : Pay(q, e)[k].memo # e.memo
<1> DEFINE T == {i \in 1 .. Len(q) : q[i] = e}
           first == CHOOSE i \in DOMAIN q : q[i] = e /\ \A l \in 1 .. i - 1 : q[l] # e
           r == RemoveAt(q, first)
<1>1. DOMAIN q = 1 .. Len(q) /\ Len(q) \in Nat
    BY LenProperties
<1>2. PICK i \in T : \A l \in T : i <= l
  <2>1. T \subseteq Nat /\ j \in T
    BY <1>1
  <2> HIDE DEF T
  <2> QED BY <2>1, HasLeast
<1>3. ASSUME NEW l \in 1 .. i - 1 PROVE q[l] # e
  <2>1. i \in 1 .. Len(q) /\ l \in 1 .. Len(q) /\ ~(i <= l)
    BY <1>1
  <2> QED BY <1>2, <2>1
<1>4. first \in 1 .. Len(q) /\ q[first] = e
    BY <1>1, <1>2, <1>3
<1>5. Pay(q, e) = r
    BY DEF Pay, Contains
<1> HIDE DEF first
<1>6. /\ r \in Seq(Refund) /\ Within(r, q)
      /\ \A k \in 1 .. Len(r) : \E l \in 1 .. Len(q) : l # first /\ r[k] = q[l]
      /\ \A l \in 1 .. Len(q) : l # first => \E k \in 1 .. Len(r) : r[k] = q[l]
    BY <1>4, RemoveAtWithin
<1> HIDE DEF r
<1>7. ASSUME Distinct(q), NEW k \in 1 .. Len(r) PROVE r[k].memo # e.memo
  <2>1. PICK l \in 1 .. Len(q) : l # first /\ r[k] = q[l]
    BY <1>6
  <2> QED BY <1>4, <1>7, <2>1 DEF Distinct
<1>8. \A l \in 1 .. Len(q) : q[l] # e => \E k \in 1 .. Len(r) : r[k] = q[l]
    BY <1>4, <1>6
<1> QED BY <1>5, <1>6, <1>7, <1>8

(* The refund at the head of the walk, and what is left of the walk *)
LEMMA FirstRefund ==
    ASSUME BooksInv, phase = "refund", todo # << >>
    PROVE  /\ Tail(todo) \in Seq(Refund) /\ Distinct(Tail(todo)) /\ Within(Tail(todo), todo)
           /\ \E j \in 1 .. Len(refunds) : refunds[j] = Head(todo)
           /\ \A i \in 1 .. Len(Tail(todo)) :
                /\ Tail(todo)[i].memo # Head(todo).memo
                /\ \E j \in 1 .. Len(refunds) : refunds[j] = Tail(todo)[i]
           /\ 1 \in 1 .. Len(todo) /\ Head(todo) = todo[1]
<1> DEFINE e == Head(todo)
           rest == Tail(todo)
<1>1. /\ todo \in Seq(Refund) /\ Distinct(todo)
      /\ \A i \in 1 .. Len(todo) : \E j \in 1 .. Len(refunds) : refunds[j] = todo[i]
    BY DEF BooksInv, Refunding
<1>2. /\ rest \in Seq(Refund) /\ Within(rest, todo) /\ e = todo[1] /\ 1 \in 1 .. Len(todo)
      /\ Len(rest) = Len(todo) - 1 /\ \A k \in 1 .. Len(todo) - 1 : rest[k] = todo[k + 1]
    BY <1>1, TailWithin
<1>3. Distinct(rest)
    BY <1>1, <1>2, WithinKeeps
<1> HIDE DEF e, rest
<1>4. ASSUME NEW i \in 1 .. Len(rest)
      PROVE  rest[i].memo # e.memo /\ \E j \in 1 .. Len(refunds) : refunds[j] = rest[i]
  <2>1. i \in 1 .. Len(todo) - 1 /\ i + 1 \in 1 .. Len(todo) /\ i + 1 # 1
    BY <1>1, <1>2, LenProperties
  <2>2. rest[i] = todo[i + 1]
    BY <1>2, <2>1
  <2>3. rest[i].memo # e.memo
    BY <1>1, <1>2, <2>1, <2>2 DEF Distinct
  <2> QED BY <1>1, <2>1, <2>2, <2>3
<1>5. \E j \in 1 .. Len(refunds) : refunds[j] = e
    BY <1>1, <1>2
<1> QED BY <1>2, <1>3, <1>4, <1>5 DEF e, rest

LEMMA DeferredBooks ==
    ASSUME BooksInv, RefundDeferred
    PROVE  BooksInv'
<1>1. /\ UNCHANGED <<chain, scope, reorgs, restarts, applied, fee_rule, requests, refunds,
                     challenges, missed, phase, mempool>>
      /\ phase = "refund" /\ todo # << >> /\ todo' = Tail(todo)
    BY DEF RefundDeferred, world, queues
<1>2. Node /\ Mint /\ Queued
    BY DEF BooksInv
<1>3. Node'
  <2>1. restarts' \in Nat
    BY <1>1, <1>2 DEF Node
  <2> QED BY <1>1, <1>2, <2>1, NodeKept
<1>4. Mint'
    BY <1>1, <1>2 DEF Mint
<1>5. Queued'
    BY <1>1, <1>2 DEF Queued
<1>6. Refunding'
    BY <1>1, FirstRefund DEF Refunding
<1>7. Deciding'
    BY <1>1 DEF Deciding
<1> QED BY <1>3, <1>4, <1>5, <1>6, <1>7 DEF BooksInv

LEMMA AcceptedBooks ==
    ASSUME BooksInv, RefundAccepted
    PROVE  /\ BooksInv'
           /\ Within(refunds', refunds)
           /\ \A i \in 1 .. Len(refunds) :
                refunds[i] # Head(todo) => \E k \in 1 .. Len(refunds') : refunds'[k] = refunds[i]
           /\ \A k \in 1 .. Len(refunds') : refunds'[k].memo # Head(todo).memo
<1> DEFINE e == Head(todo)
           rest == Tail(todo)
<1>1. /\ UNCHANGED <<chain, scope, reorgs, restarts, applied, fee_rule, requests,
                     challenges, missed, phase>>
      /\ phase = "refund" /\ todo # << >> /\ todo' = rest /\ refunds' = Pay(refunds, e)
      /\ mempool' = mempool \cup {RefundTx(e)}
    BY DEF RefundAccepted, world
<1>2. Node /\ Mint /\ Queued /\ restarts \in Nat
    BY DEF BooksInv, Node
<1>3. Node' /\ \A c \in Seq(BlockOf(mempool)) : c \in Seq(BlockOf(mempool'))
    BY <1>1, <1>2, NodeKept
<1>4. /\ rest \in Seq(Refund) /\ Distinct(rest)
      /\ \E j \in 1 .. Len(refunds) : refunds[j] = e
      /\ \A i \in 1 .. Len(rest) :
            rest[i].memo # e.memo /\ \E j \in 1 .. Len(refunds) : refunds[j] = rest[i]
    BY <1>1, FirstRefund
<1> HIDE DEF e, rest
<1>5. /\ refunds \in Seq(Refund) /\ Distinct(refunds) /\ Backed(refunds, applied)
      /\ Payable(refunds) /\ Apart(requests, refunds)
    BY <1>2 DEF Mint, Queued
<1>6. PICK j \in 1 .. Len(refunds) : refunds[j] = e
    BY <1>4
<1>7. /\ refunds' \in Seq(Refund) /\ Within(refunds', refunds)
      /\ \A i \in 1 .. Len(refunds) : refunds[i] # e
            => \E k \in 1 .. Len(refunds') : refunds'[k] = refunds[i]
      /\ \A k \in 1 .. Len(refunds') : refunds'[k].memo # e.memo
    BY <1>1, <1>5, <1>6, PayIs
<1>8. /\ Distinct(refunds') /\ Backed(refunds', applied)
      /\ Payable(refunds') /\ Apart(requests, refunds')
    BY <1>5, <1>7, WithinKeeps
<1>9. applied' \in Seq(BlockOf(mempool'))
    BY <1>1, <1>2, <1>3 DEF Mint
<1>10. Mint'
    BY <1>1, <1>2, <1>7, <1>9 DEF Mint
<1>11. Queued'
    BY <1>1, <1>2, <1>8 DEF Queued
<1>12. ASSUME NEW i \in 1 .. Len(rest) PROVE \E k \in 1 .. Len(refunds') : refunds'[k] = rest[i]
  <2>1. PICK l \in 1 .. Len(refunds) : refunds[l] = rest[i]
    BY <1>4
  <2>2. refunds[l] # e
    BY <1>4, <2>1
  <2> QED BY <1>7, <2>1, <2>2
<1>13. Refunding'
    BY <1>1, <1>4, <1>12 DEF Refunding
<1>14. Deciding'
    BY <1>1 DEF Deciding
<1> QED BY <1>3, <1>7, <1>10, <1>11, <1>13, <1>14 DEF BooksInv, e

-----------------------------------------------------------------------------
(***************************************************************************)
(* The first theorems                                                      *)
(***************************************************************************)
LEMMA InitBooks == ASSUME Init PROVE BooksInv
<1>1. /\ chain = << >> /\ applied = << >> /\ fee_rule \in Fees
      /\ requests = << >> /\ refunds = << >> /\ challenges = << >> /\ phase = "wait"
      /\ mempool = {} /\ missed = [r \in Requests |-> 0] /\ scope \in Scopes
      /\ reorgs = 0 /\ restarts = 0
    BY DEF Init
<1>2. \A S : << >> \in Seq(S)
    BY EmptySeq
<1>3. Once(<< >>)
    BY DEF Once
<1>4. Node
    BY <1>1, <1>2, <1>3, FS_EmptySet DEF Node
<1>5. Mint
  <2>1. fee_rule \in Nat
    BY <1>1, TreasuryAssumption
  <2>2. missed \in [Requests -> Nat]
    BY <1>1
  <2> QED BY <1>1, <1>2, <1>3, <2>1, <2>2, NilKeeps DEF Mint
<1>6. Queued
    BY <1>1, NilKeeps DEF Queued
<1>7. Deciding /\ Refunding
    BY <1>1 DEF Deciding, Refunding
<1> QED BY <1>4, <1>5, <1>6, <1>7 DEF BooksInv

LEMMA LoopCases ==
    ASSUME Loop
    PROVE  \/ Follow
           \/ \E ruling \in Rulings : ApplyBlock(ruling)
           \/ SkipPass \/ StartRelays \/ \E moved \in BOOLEAN : Sweep(moved)
           \/ StartRules
           \/ \E facts \in Facts : DecideClaim(facts)
           \/ \E authorized \in BOOLEAN, code \in Codes : DecideChallenge(authorized, code)
           \/ \E issued \in BOOLEAN : Relay(issued)
           \/ StartRefunds
           \/ RefundDeferred
           \/ RefundAccepted
BY DEF Loop, Catchup

LEMMA NextBooks == ASSUME BooksInv, [Next]_vars PROVE BooksInv'
<1>1. CASE Grow
    BY <1>1, GrowBooks
<1>2. ASSUME NEW h \in 0 .. Len(chain), Reorg(h) PROVE BooksInv'
    BY <1>2, ReorgBooks
<1>3. CASE RefundAnswerLost
    BY <1>3, LostBooks
<1>4. CASE Restart
    BY <1>4, RestartBooks
<1>5. CASE Loop
  <2>1. CASE Follow
    BY <2>1, FollowBooks
  <2>2. ASSUME NEW ruling \in Rulings, ApplyBlock(ruling) PROVE BooksInv'
    BY <2>2, ApplyBooks
  <2>3. CASE SkipPass \/ StartRelays \/ \E moved \in BOOLEAN : Sweep(moved)
    BY <2>3, StepBooks
  <2>4. CASE StartRules
    BY <2>4, StartRulesBooks
  <2>5. ASSUME NEW facts \in Facts, DecideClaim(facts) PROVE BooksInv'
    BY <2>5, DecideClaimBooks
  <2>6. ASSUME NEW authorized \in BOOLEAN, NEW code \in Codes, DecideChallenge(authorized, code)
        PROVE  BooksInv'
    BY <2>6, DecideChallengeBooks
  <2>7. ASSUME NEW issued \in BOOLEAN, Relay(issued) PROVE BooksInv'
    BY <2>7, RelayBooks
  <2>8. CASE StartRefunds
    BY <2>8, StartRefundsBooks
  <2>9. CASE RefundDeferred
    BY <2>9, DeferredBooks
  <2>10. CASE RefundAccepted
    BY <2>10, AcceptedBooks
  <2> QED BY <1>5, <2>1, <2>2, <2>3, <2>4, <2>5, <2>6, <2>7, <2>8, <2>9, <2>10, LoopCases
<1>6. CASE UNCHANGED vars
  <2>1. UNCHANGED <<chain, scope, reorgs, restarts, applied, fee_rule, requests, refunds,
                    challenges, missed, phase, todo, mempool>>
    BY <1>6 DEF vars, queues
  <2>2. Node /\ Mint /\ Queued /\ Deciding /\ Refunding
    BY DEF BooksInv
  <2>3. Node'
    BY <2>1, <2>2 DEF Node
  <2>4. Mint'
    BY <2>1, <2>2 DEF Mint
  <2>5. Queued'
    BY <2>1, <2>2 DEF Queued
  <2>6. Deciding' /\ Refunding'
    BY <2>1, <2>2 DEF Deciding, Refunding
  <2> QED BY <2>3, <2>4, <2>5, <2>6 DEF BooksInv
<1> QED BY <1>1, <1>2, <1>3, <1>4, <1>5, <1>6 DEF Next

LEMMA BooksAlways == Spec => []BooksInv
<1>1. Init => BooksInv
    BY InitBooks
<1>2. BooksInv /\ [Next]_vars => BooksInv'
    BY NextBooks
<1> QED BY <1>1, <1>2, PTL DEF Spec

LEMMA WaitsIs ==
    ASSUME NEW S, NEW q \in Seq(S), NEW m
    PROVE  Waits(q, m) <=> \E i \in 1 .. Len(q) : q[i].memo = m
BY LenProperties DEF Waits

LEMMA BooksBacked == ASSUME BooksInv PROVE QueuesBacked
<1>1. Mint /\ Queued
    BY DEF BooksInv
<1>2. /\ DOMAIN requests = 1 .. Len(requests) /\ DOMAIN refunds = 1 .. Len(refunds)
      /\ DOMAIN challenges = 1 .. Len(challenges)
      /\ requests \in Seq(Request) /\ refunds \in Seq(Refund)
      /\ applied \in Seq(BlockOf(mempool))
    BY <1>1, LenProperties DEF Mint
<1>3. ChallengesAnswerable
  <2>1. Open(challenges, missed, TimeOf(applied))
    BY <1>1 DEF Mint
  <2>2. ASSUME NEW i \in 1 .. Len(challenges)
        PROVE  TimeOf(applied) < challenges[i].expires_at
               /\ missed[challenges[i].request] < MAX_ATTEMPTS
    BY <2>1 DEF Open
  <2>3. ASSUME NEW i \in 1 .. Len(challenges), NEW j \in 1 .. Len(challenges),
               SameKey(challenges[i].request, challenges[j].request)
                   /\ challenges[i].code = challenges[j].code
        PROVE  i = j
    BY <2>1, <2>3 DEF Open
  <2> QED BY <1>2, <2>2, <2>3 DEF ChallengesAnswerable
<1>4. ASSUME NEW q, Backed(q, applied), Distinct(q), DOMAIN q = 1 .. Len(q), NEW i \in DOMAIN q
      PROVE  /\ q[i].height \in 1 .. Len(applied)
             /\ q[i].memo[1] \in ToSet(applied[q[i].height].txs)
             /\ \A j \in DOMAIN q : q[i].memo = q[j].memo => i = j
  <2>1. /\ q[i].height \in 1 .. Len(applied)
        /\ \E k \in 1 .. Len(applied[q[i].height].txs) : applied[q[i].height].txs[k] = q[i].memo[1]
    BY <1>4 DEF Backed
  <2> DEFINE h == q[i].height
             txs == applied[h].txs
  <2>2. txs \in Seq(Payments \cup mempool)
    <3>1. applied[h] \in BlockOf(mempool)
        BY <1>2, <2>1, ElementOfSeq
    <3> QED BY <3>1 DEF BlockOf
  <2>3. DOMAIN txs = 1 .. Len(txs)
    <3> HIDE DEF txs
    <3> QED BY <2>2, LenProperties
  <2>4. q[i].memo[1] \in ToSet(txs)
    BY <2>1, <2>3 DEF ToSet
  <2>5. \A j \in DOMAIN q : q[i].memo = q[j].memo => i = j
    BY <1>4 DEF Distinct
  <2> QED BY <2>1, <2>4, <2>5
<1>5. \A q \in {requests, refunds} : \A i \in DOMAIN q :
         /\ q[i].height \in 1 .. Len(applied)
         /\ q[i].memo[1] \in ToSet(applied[q[i].height].txs)
         /\ \A j \in DOMAIN q : q[i].memo = q[j].memo => i = j
  <2>1. Backed(requests, applied) /\ Distinct(requests) /\ Backed(refunds, applied) /\ Distinct(refunds)
    BY <1>1 DEF Queued
  <2> QED BY <1>2, <1>4, <2>1
<1>6. \A m \in Memos : ~(Waits(requests, m) /\ Waits(refunds, m))
  <2>1. Apart(requests, refunds)
    BY <1>1 DEF Queued
  <2> QED BY <1>2, <2>1 DEF Apart, Waits
<1>7. \A i \in DOMAIN refunds : refunds[i].amount \in 1 .. MemoAt(refunds[i].memo).paid
    BY <1>1, <1>2 DEF Queued, Payable
<1> QED BY <1>3, <1>5, <1>6, <1>7 DEF QueuesBacked

(* What waits can be acted on, whatever chain the node serves and however  *)
(* often it reorganizes: requests and refunds answer one memo each, held   *)
(* by the applied chain at its height, a refund is of some of what was     *)
(* paid, and a challenge can be answered, by its own code only             *)
(* (RequestQueue, RefundQueue, OtpQueue and the rewind).                   *)
THEOREM QueuesStayBacked == Spec => []QueuesBacked
<1>1. BooksInv => QueuesBacked
    BY BooksBacked
<1> QED BY <1>1, BooksAlways, PTL

LEMMA StillWaits ==
    ASSUME NEW q \in Seq(Refund), NEW r \in Seq(Refund), NEW m, Waits(q, m),
           \A i \in 1 .. Len(q) : \E k \in 1 .. Len(r) : r[k].memo = q[i].memo
    PROVE  Waits(r, m)
BY WaitsIs

(* A rewind takes no more than what lies above it. *)
LEMMA TruncateSpares ==
    ASSUME NEW S, NEW q \in Seq(S), NEW h, NEW i \in 1 .. Len(q), q[i].height <= h
    PROVE  \E k \in 1 .. Len(TruncateTo(q, h)) : TruncateTo(q, h)[k] = q[i]
<1> DEFINE P == {j \in DOMAIN q : q[j].height <= h}
           r == Retain(q, P)
<1>1. TruncateTo(q, h) = r
    BY DEF TruncateTo
<1>2. i \in P
    BY LenProperties
<1> HIDE DEF P
<1>3. PICK from : IsOrigin(from, q, P, r)
    BY RetainFrom
<1> HIDE DEF r
<1>4. PICK k \in 1 .. Len(r) : from[k] = i
    BY <1>2, <1>3 DEF IsOrigin
<1>5. r[k] = q[i]
    BY <1>3, <1>4 DEF IsOrigin
<1> QED BY <1>1, <1>5

LEMMA RefundStays ==
    ASSUME BooksInv, BooksInv', Next, NEW n \in DOMAIN refunds, ~Waits(refunds', refunds[n].memo)
    PROVE  \/ \E t \in mempool' : t.memo = refunds[n].memo
           \/ refunds[n].height > Len(applied')
           \/ restarts' # restarts
<1>0. PICK m : m = refunds[n].memo
    OBVIOUS
<1>1. /\ refunds \in Seq(Refund) /\ refunds' \in Seq(Refund)
      /\ n \in 1 .. Len(refunds) /\ Waits(refunds, m) /\ ~Waits(refunds', m)
  <2>1. refunds \in Seq(Refund) /\ refunds' \in Seq(Refund)
    BY DEF BooksInv, Mint
  <2>2. n \in 1 .. Len(refunds)
    BY <2>1, LenProperties
  <2> QED BY <1>0, <2>1, <2>2, WaitsIs
<1>2. ASSUME refunds' = refunds PROVE FALSE
    BY <1>1, <1>2
<1>3. ASSUME \A i \in 1 .. Len(refunds) : \E k \in 1 .. Len(refunds') : refunds'[k].memo = refunds[i].memo
      PROVE  FALSE
    BY <1>1, <1>3, StillWaits
<1>4. CASE Grow
    BY <1>2, <1>4 DEF Grow, Mine, queues
<1>5. ASSUME NEW h \in 0 .. Len(chain), Reorg(h) PROVE FALSE
    BY <1>2, <1>5 DEF Reorg, queues
<1>6. CASE RefundAnswerLost
    BY <1>2, <1>6 DEF RefundAnswerLost, queues
<1>7. CASE Restart
  <2>1. restarts' = restarts + 1 /\ restarts \in Nat
    BY <1>7 DEF Restart, BooksInv, Node
  <2> QED BY <2>1
<1>8. CASE Loop
  <2>1. CASE Follow
    <3> DEFINE h == Ancestor(applied, chain)
    <3>1. /\ applied' = SubSeq(applied, 1, h) /\ (~(h < Len(applied)) => refunds' = refunds)
          /\ (h < Len(applied) => refunds' = TruncateTo(refunds, h))
        BY <2>1 DEF Follow, queues
    <3>2. applied \in Seq(BlockOf(mempool)) /\ chain \in Seq(BlockOf(mempool))
        BY DEF BooksInv, Node, Mint
    <3>3. h \in 0 .. Len(applied)
        BY <3>2, AncestorIs
    <3> HIDE DEF h
    <3>4. Len(applied') = h
        BY <3>1, <3>2, <3>3, CutIs
    <3>5. refunds' = TruncateTo(refunds, h)
        BY <1>2, <3>1
    <3>6. ~(refunds[n].height <= h)
      <4>1. SUFFICES ASSUME refunds[n].height <= h PROVE FALSE
        OBVIOUS
      <4>2. PICK k \in 1 .. Len(refunds') : refunds'[k] = refunds[n]
        BY <1>1, <3>5, <4>1, TruncateSpares
      <4>3. refunds'[k].memo = m
        BY <1>0, <4>2
      <4> QED BY <1>1, <4>3, WaitsIs
    <3>7. refunds[n].height \in Nat
      <4>1. refunds[n] \in Refund
        BY <1>1, ElementOfSeq
      <4> QED BY <4>1 DEF Refund
    <3> QED BY <3>3, <3>4, <3>6, <3>7
  <2>2. ASSUME NEW ruling \in Rulings, ApplyBlock(ruling) PROVE FALSE
    <3>1. \A i \in 1 .. Len(refunds) : i \in 1 .. Len(refunds') /\ refunds'[i] = refunds[i]
        BY <2>2, ApplyBooks
    <3> QED BY <1>3, <3>1
  <2>3. CASE SkipPass \/ StartRelays \/ \E moved \in BOOLEAN : Sweep(moved)
    BY <1>2, <2>3 DEF SkipPass, StartRelays, Sweep, queues
  <2>4. CASE StartRules
    BY <1>2, <2>4 DEF StartRules, queues
  <2>5. ASSUME NEW facts \in Facts, DecideClaim(facts) PROVE FALSE
    <3>1. Repays(refunds, refunds', Head(todo).memo, Head(todo).height)
        BY <2>5, DecideClaimBooks
    <3>2. CASE refunds' = refunds
        BY <1>2, <3>2
    <3>3. ASSUME NEW e, refunds' = Append(refunds, e) PROVE FALSE
      <4>1. \A i \in 1 .. Len(refunds) : i \in 1 .. Len(refunds') /\ refunds'[i] = refunds[i]
        BY <1>1, <3>3, LenProperties
      <4> QED BY <1>3, <4>1
    <3> QED BY <3>1, <3>2, <3>3 DEF Repays
  <2>6. ASSUME NEW authorized \in BOOLEAN, NEW code \in Codes, DecideChallenge(authorized, code)
        PROVE  FALSE
    BY <1>2, <2>6 DEF DecideChallenge
  <2>7. ASSUME NEW issued \in BOOLEAN, Relay(issued) PROVE FALSE
    BY <1>2, <2>7 DEF Relay
  <2>8. CASE StartRefunds
    BY <1>2, <2>8 DEF StartRefunds, queues
  <2>9. CASE RefundDeferred
    BY <1>2, <2>9 DEF RefundDeferred, queues
  <2>10. CASE RefundAccepted
    <3> DEFINE e == Head(todo)
    <3>1. mempool' = mempool \cup {RefundTx(e)}
        BY <2>10 DEF RefundAccepted
    <3>2. \A i \in 1 .. Len(refunds) :
            refunds[i] # e => \E k \in 1 .. Len(refunds') : refunds'[k] = refunds[i]
        BY <2>10, AcceptedBooks
    <3> HIDE DEF e
    <3>3. PICK i \in 1 .. Len(refunds) : refunds[i].memo = m
        BY <1>1, WaitsIs
    <3>4. ~\E k \in 1 .. Len(refunds') : refunds'[k].memo = m
        BY <1>1, WaitsIs
    <3>5. refunds[i] = e
        BY <3>2, <3>3, <3>4
    <3>6. RefundTx(e).memo = m
        BY <3>3, <3>5 DEF RefundTx
    <3> QED BY <1>0, <3>1, <3>6
  <2> QED BY <1>8, <2>1, <2>2, <2>3, <2>4, <2>5, <2>6, <2>7, <2>8, <2>9, <2>10, LoopCases
<1> QED BY <1>4, <1>5, <1>6, <1>7, <1>8 DEF Next

(* No step forgets a queued refund: it leaves the queue when a transaction *)
(* that pays it was admitted, when the block of that payment, and not just *)
(* any block, is orphaned, or in a restart (RefundQueue::paid,             *)
(* RefundQueue::truncate_to).                                              *)
THEOREM RefundsAreKept == Spec => RefundKept
<1>1. BooksInv /\ BooksInv' /\ [Next]_vars =>
        [restarts' = restarts =>
           \A i \in DOMAIN refunds :
              ~Waits(refunds', refunds[i].memo) =>
                 \/ \E t \in mempool' : t.memo = refunds[i].memo
                 \/ refunds[i].height > Len(applied')]_vars
  <2>1. ASSUME BooksInv, BooksInv', Next, restarts' = restarts, NEW n \in DOMAIN refunds,
               ~Waits(refunds', refunds[n].memo)
        PROVE  \/ \E t \in mempool' : t.memo = refunds[n].memo
               \/ refunds[n].height > Len(applied')
    BY <2>1, RefundStays
  <2> QED BY <2>1, Zenon
<1> QED BY <1>1, BooksAlways, PTL DEF Spec, RefundKept

-----------------------------------------------------------------------------
(***************************************************************************)
(* A chain that is not reorganized                                         *)
(***************************************************************************)
LEMMA AppliedStays ==
    ASSUME BooksInv, IsPrefix(applied, chain), Follow
    PROVE  applied' = applied /\ UNCHANGED <<requests, refunds>>
<1> DEFINE h == Ancestor(applied, chain)
<1>1. applied \in Seq(BlockOf(mempool)) /\ chain \in Seq(BlockOf(mempool))
      /\ Len(applied) \in Nat
    BY LenProperties DEF BooksInv, Node, Mint
<1>2. h = Len(applied)
    BY <1>1, AncestorIs
<1>3. applied' = SubSeq(applied, 1, h) /\ (~(h < Len(applied)) => UNCHANGED <<requests, refunds>>)
    BY DEF Follow, queues
<1> HIDE DEF h
<1>4. h \in 0 .. Len(applied) /\ ~(h < Len(applied))
    BY <1>1, <1>2
<1>5. applied' = applied
    BY <1>1, <1>2, <1>3, <1>4, CutIs
<1> QED BY <1>3, <1>4, <1>5

LEMMA ReorgsKept ==
    ASSUME BooksInv, [Next]_vars, reorgs' = 0
    PROVE  /\ reorgs = 0 /\ scope' = scope
           /\ ~\E h \in 0 .. Len(chain) : Reorg(h)
<1>1. reorgs \in Nat
    BY DEF BooksInv, Node
<1>2. ASSUME NEW h \in 0 .. Len(chain), Reorg(h) PROVE FALSE
    BY <1>1, <1>2 DEF Reorg
<1>3. CASE Grow
    BY <1>2, <1>3 DEF Grow, Mine
<1>4. CASE RefundAnswerLost
    BY <1>2, <1>4 DEF RefundAnswerLost, world
<1>5. CASE Restart
    BY <1>2, <1>5 DEF Restart
<1>6. CASE Loop
  <2>1. reorgs' = reorgs /\ scope' = scope
    BY <1>6 DEF Loop, Follow, Catchup, ApplyBlock, SkipPass, StartRules, DecideClaim, DecideChallenge,
                StartRelays, Relay, StartRefunds, RefundDeferred, RefundAccepted, Sweep, world
  <2> QED BY <1>2, <2>1
<1>7. CASE UNCHANGED vars
    BY <1>2, <1>7 DEF vars
<1> QED BY <1>2, <1>3, <1>4, <1>5, <1>6, <1>7 DEF Next

(* Of the actions of the loop only these move the applied chain. *)
LEMMA AppliedMoves ==
    ASSUME Loop
    PROVE  \/ Follow
           \/ \E ruling \in Rulings : ApplyBlock(ruling)
           \/ UNCHANGED <<chain, applied>>
<1>1. UNCHANGED chain
    BY DEF Loop, Follow, Catchup, ApplyBlock, SkipPass, StartRules, DecideClaim, DecideChallenge,
           StartRelays, Relay, StartRefunds, RefundDeferred, RefundAccepted, Sweep, world
<1>2. \/ Follow
      \/ \E ruling \in Rulings : ApplyBlock(ruling)
      \/ UNCHANGED applied
    BY DEF Loop, Catchup, SkipPass, StartRules, DecideClaim, DecideChallenge,
           StartRelays, Relay, StartRefunds, RefundDeferred, RefundAccepted, Sweep
<1> QED BY <1>1, <1>2

LEMMA NextPrefix == ASSUME BooksInv, BooksInv', PrefixInv, [Next]_vars PROVE PrefixInv'
<1>1. SUFFICES ASSUME reorgs' = 0 PROVE IsPrefix(applied', chain')
    BY DEF PrefixInv
<1> DEFINE B == BlockOf(mempool)
<1>2. /\ IsPrefix(applied, chain) /\ applied \in Seq(B) /\ chain \in Seq(B)
      /\ Len(applied) \in Nat /\ Len(chain) \in Nat /\ chain' \in Seq(BlockOf(mempool'))
    BY <1>1, ReorgsKept, LenProperties DEF PrefixInv, BooksInv, Node, Mint
<1>3. Len(applied) <= Len(chain) /\ \A i \in 1 .. Len(applied) : applied[i] = chain[i]
    BY <1>2, PrefixIs
<1>4. CASE Grow
  <2>1. PICK b : chain' = Append(chain, b)
    BY <1>4 DEF Grow, Mine
  <2>2. applied' = applied /\ mempool' = mempool
    BY <1>4 DEF Grow, Mine
  <2>3. Len(chain') = Len(chain) + 1 /\ \A i \in 1 .. Len(chain) : chain'[i] = chain[i]
    BY <1>2, <2>1
  <2>4. Len(applied) <= Len(chain') /\ \A i \in 1 .. Len(applied) : applied[i] = chain'[i]
    BY <1>2, <1>3, <2>3
  <2> HIDE DEF B
  <2>5. chain' \in Seq(B)
    BY <1>2, <2>2 DEF B
  <2> QED BY <1>2, <2>2, <2>4, <2>5, PrefixIs
<1>5. CASE RefundAnswerLost
    BY <1>2, <1>5 DEF RefundAnswerLost, world
<1>6. CASE Restart
  <2>1. applied' = chain /\ chain' = chain
    BY <1>6 DEF Restart
  <2>2. IsPrefix(chain, chain)
    BY DEF IsPrefix
  <2> QED BY <1>2, <2>1, PrefixIs
<1>7. CASE Follow
  <2>1. applied' = applied /\ chain' = chain
    BY <1>2, <1>7, AppliedStays DEF Follow, world
  <2> QED BY <1>2, <2>1
<1>8. ASSUME NEW ruling \in Rulings, ApplyBlock(ruling) PROVE IsPrefix(applied', chain')
  <2> DEFINE n == Len(applied)
  <2>1. chain' = chain /\ applied' = Append(applied, chain[n + 1]) /\ n + 1 <= Len(chain)
    BY <1>8 DEF ApplyBlock, world
  <2>2. chain[n + 1] \in B
    BY <1>2, <2>1, ElementOfSeq
  <2> HIDE DEF B
  <2>3. /\ applied' \in Seq(B) /\ Len(applied') = n + 1 /\ applied'[n + 1] = chain[n + 1]
        /\ \A i \in 1 .. n : applied'[i] = applied[i]
    BY <1>2, <2>1, <2>2, AppendProperties
  <2>4. \A i \in 1 .. n + 1 : applied'[i] = chain[i]
    BY <1>2, <1>3, <2>3
  <2> QED BY <1>2, <2>1, <2>3, <2>4, PrefixIs
<1>9. CASE UNCHANGED <<chain, applied>>
    BY <1>2, <1>9
<1>10. CASE UNCHANGED vars
    BY <1>2, <1>10 DEF vars
<1> QED BY <1>1, <1>4, <1>5, <1>6, <1>7, <1>8, <1>9, <1>10, ReorgsKept, AppliedMoves DEF Next

LEMMA PrefixAlways == Spec => []PrefixInv
<1>1. Init => PrefixInv
  <2>1. ASSUME Init PROVE PrefixInv
    <3>1. applied = << >> /\ chain = << >>
        BY <2>1 DEF Init
    <3> QED BY <3>1 DEF PrefixInv, IsPrefix
  <2> QED BY <2>1
<1>2. BooksInv /\ BooksInv' /\ PrefixInv /\ [Next]_vars => PrefixInv'
    BY NextPrefix
<1> QED BY <1>1, <1>2, BooksAlways, PTL DEF Spec

(* What was on the applied chain stays on it. *)
LEMMA OnChainGrows ==
    ASSUME NEW pool, NEW c \in Seq(BlockOf(pool)), NEW d \in Seq(BlockOf(pool)), IsPrefix(c, d),
           NEW tx, tx \in OnChain(c)
    PROVE  tx \in OnChain(d)
<1>1. Len(c) \in Nat /\ Len(d) \in Nat
    BY LenProperties
<1>2. Len(c) <= Len(d) /\ \A i \in 1 .. Len(c) : c[i] = d[i]
    BY PrefixIs
<1>3. PICK i \in 1 .. Len(c) : \E k \in 1 .. Len(c[i].txs) : c[i].txs[k] = tx
    BY OnChainIs
<1>4. i \in 1 .. Len(d) /\ d[i] = c[i]
    BY <1>1, <1>2
<1>5. \E j \in 1 .. Len(d) : \E k \in 1 .. Len(d[j].txs) : d[j].txs[k] = tx
    BY <1>3, <1>4
<1> QED BY <1>5, OnChainIs

LEMMA ClearWithin ==
    ASSUME NEW q, NEW r, NEW pool, Within(r, q), Clear(q, pool)
    PROVE  Clear(r, pool)
<1>1. PICK from : IsWithin(from, r, q)
    BY DEF Within
<1> QED BY <1>1 DEF IsWithin, Clear

(* The invariant's parts, once the chain was not reorganized and no answer *)
(* was lost                                                                *)
Paid(pool, c, reqs, refs) ==
    /\ \A t \in pool : t.memo[1] \in OnChain(c)
    /\ Clear(reqs, pool) /\ Clear(refs, pool)
    /\ \A s, t \in pool : s.memo = t.memo => s = t

LEMMA NextPaid ==
    ASSUME BooksInv, BooksInv', PrefixInv, PaidInv, [Next]_vars
    PROVE  PaidInv'
<1>1. SUFFICES ASSUME reorgs' = 0, ~scope'.lost
               PROVE  /\ Paid(mempool', applied', requests', refunds')
                      /\ phase' \in {"decide", "refund"} => Clear(todo', mempool')
    BY DEF PaidInv, Paid
<1>2. reorgs = 0 /\ ~scope.lost /\ IsPrefix(applied, chain) /\ ~\E h \in 0 .. Len(chain) : Reorg(h)
    BY <1>1, ReorgsKept DEF PrefixInv
<1>3. /\ Paid(mempool, applied, requests, refunds)
      /\ phase \in {"decide", "refund"} => Clear(todo, mempool)
    BY <1>2 DEF PaidInv, Paid
<1>4. /\ applied \in Seq(BlockOf(mempool)) /\ chain \in Seq(BlockOf(mempool))
      /\ requests \in Seq(Request) /\ refunds \in Seq(Refund)
    BY DEF BooksInv, Node, Mint
<1>5. ASSUME UNCHANGED <<mempool, applied, requests, refunds>>
      PROVE  Paid(mempool', applied', requests', refunds')
    BY <1>3, <1>5
<1>6. CASE Grow
  <2>1. UNCHANGED <<mempool, applied, requests, refunds, phase, todo>>
    BY <1>6 DEF Grow, Mine, queues
  <2> QED BY <1>3, <1>5, <2>1
<1>7. CASE RefundAnswerLost
    BY <1>2, <1>7 DEF RefundAnswerLost
<1>8. CASE Restart
  <2>1. /\ mempool' = mempool /\ applied' = chain /\ requests' = << >> /\ refunds' = << >>
        /\ phase' = "wait"
    BY <1>8 DEF Restart
  <2>2. \A t \in mempool : t.memo[1] \in OnChain(chain)
    <3>1. ASSUME NEW t \in mempool PROVE t.memo[1] \in OnChain(chain)
      <4> DEFINE tx == t.memo[1]
      <4>1. tx \in OnChain(applied)
        BY <1>3 DEF Paid
      <4> HIDE DEF tx
      <4>2. tx \in OnChain(chain)
        BY <1>2, <1>4, <4>1, OnChainGrows
      <4> QED BY <4>2 DEF tx
    <3> QED BY <3>1
  <2>3. Clear(<< >>, mempool)
    BY DEF Clear
  <2> QED BY <1>3, <2>1, <2>2, <2>3 DEF Paid
<1>9. CASE Follow
  <2>1. UNCHANGED <<applied, requests, refunds>>
    BY <1>2, <1>9, AppliedStays
  <2>2. mempool' = mempool /\ phase' = "apply"
    BY <1>9 DEF Follow
  <2> QED BY <1>5, <2>1, <2>2
<1>10. ASSUME NEW ruling \in Rulings, ApplyBlock(ruling)
       PROVE  /\ Paid(mempool', applied', requests', refunds')
              /\ phase' \in {"decide", "refund"} => Clear(todo', mempool')
  <2>1. mempool' = mempool /\ phase' = "apply"
        /\ applied' = Append(applied, chain[Len(applied) + 1])
    BY <1>10 DEF ApplyBlock
  <2>2. applied' \in Seq(BlockOf(mempool))
    BY <2>1 DEF BooksInv, Mint
  <2>3. IsPrefix(applied, applied')
    <3>1. /\ Len(applied') = Len(applied) + 1 /\ Len(applied) \in Nat
          /\ \A i \in 1 .. Len(applied) : applied'[i] = applied[i]
        BY <1>4, <2>1, LenProperties
    <3>2. Len(applied) <= Len(applied')
        BY <3>1
    <3> QED BY <1>4, <2>2, <3>1, <3>2, PrefixIs
  <2>4. ASSUME NEW t \in mempool PROVE t.memo[1] \in OnChain(applied')
    <3> DEFINE tx == t.memo[1]
    <3>1. tx \in OnChain(applied)
        BY <1>3 DEF Paid
    <3> HIDE DEF tx
    <3>2. tx \in OnChain(applied')
        BY <1>4, <2>2, <2>3, <3>1, OnChainGrows
    <3> QED BY <3>2 DEF tx
  <2>5. ASSUME NEW q, NEW r, Clear(q, mempool),
               \A i \in 1 .. Len(r) : (i \in 1 .. Len(q) /\ r[i] = q[i])
                                        \/ r[i].memo[1] \notin OnChain(applied)
        PROVE  Clear(r, mempool)
    <3>1. ASSUME NEW t \in mempool, NEW i \in 1 .. Len(r), r[i].memo = t.memo PROVE FALSE
      <4>1. t.memo[1] \in OnChain(applied)
        BY <1>3 DEF Paid
      <4>2. r[i].memo[1] \in OnChain(applied)
        BY <3>1, <4>1
      <4>3. i \in 1 .. Len(q) /\ r[i] = q[i]
        BY <2>5, <4>2
      <4> QED BY <2>5, <3>1, <4>3 DEF Clear
    <3> QED BY <3>1 DEF Clear
  <2>6. Clear(requests, mempool) /\ Clear(refunds, mempool)
    BY <1>3 DEF Paid
  <2>7. Clear(requests', mempool)
    BY <1>10, <2>5, <2>6, ApplyBooks
  <2>8. Clear(refunds', mempool)
    BY <1>10, <2>5, <2>6, ApplyBooks
  <2> QED BY <1>3, <2>1, <2>4, <2>7, <2>8 DEF Paid
<1>11. CASE SkipPass \/ StartRelays \/ \E moved \in BOOLEAN : Sweep(moved)
  <2>1. UNCHANGED <<mempool, applied, requests, refunds>> /\ phase' \in {"wait", "relay"}
    BY <1>11 DEF SkipPass, StartRelays, Sweep, queues
  <2> QED BY <1>5, <2>1
<1>12. CASE StartRules
  <2>1. UNCHANGED <<mempool, applied, requests, refunds>> /\ todo' = requests
    BY <1>12 DEF StartRules, Pending, queues
  <2> QED BY <1>3, <1>5, <2>1 DEF Paid
<1>13. ASSUME NEW facts \in Facts, DecideClaim(facts)
       PROVE  /\ Paid(mempool', applied', requests', refunds')
              /\ phase' \in {"decide", "refund"} => Clear(todo', mempool')
  <2> DEFINE e == Head(todo)
  <2>1. /\ UNCHANGED <<mempool, applied, phase>> /\ phase = "decide" /\ todo # << >>
        /\ todo' = Tail(todo)
    BY <1>13 DEF DecideClaim
  <2>2. /\ Within(requests', requests) /\ Repays(refunds, refunds', e.memo, e.height)
    BY <1>13, DecideClaimBooks
  <2>3. todo \in Seq(Request) /\ Clear(todo, mempool)
    BY <1>3, <2>1 DEF BooksInv, Deciding
  <2>4. Within(Tail(todo), todo) /\ e = todo[1] /\ 1 \in 1 .. Len(todo)
    BY <2>1, <2>3, TailWithin
  <2> HIDE DEF e
  <2>5. Clear(todo', mempool)
    BY <2>1, <2>3, <2>4, ClearWithin
  <2>6. Clear(requests', mempool)
    BY <1>3, <2>2, ClearWithin DEF Paid
  <2>7. \A t \in mempool : t.memo # e.memo
    BY <2>3, <2>4 DEF Clear
  <2>8. Clear(refunds', mempool)
    <3>1. Clear(refunds, mempool)
        BY <1>3 DEF Paid
    <3>2. CASE refunds' = refunds
        BY <3>1, <3>2
    <3>3. ASSUME NEW a, refunds' = Append(refunds, MadeRefund(e.memo, a, e.height))
          PROVE  Clear(refunds', mempool)
      <4> DEFINE z == MadeRefund(e.memo, a, e.height)
                 n == Len(refunds)
      <4>1. z.memo = e.memo
        BY DEF MadeRefund
      <4>2. refunds' = Append(refunds, z)
        BY <3>3
      <4> HIDE DEF z
      <4>3. /\ n \in Nat /\ Len(refunds') = n + 1
            /\ \A i \in 1 .. n + 1 : (i = n + 1 /\ refunds'[i] = z)
                                      \/ (i \in 1 .. n /\ refunds'[i] = refunds[i])
        BY <1>4, <4>2, LenProperties
      <4> HIDE DEF n
      <4> QED BY <2>7, <3>1, <4>1, <4>3 DEF Clear, n
    <3> QED BY <2>2, <3>2, <3>3 DEF Repays
  <2> QED BY <1>3, <2>1, <2>5, <2>6, <2>8 DEF Paid
<1>14. ASSUME NEW authorized \in BOOLEAN, NEW code \in Codes, DecideChallenge(authorized, code)
       PROVE  /\ Paid(mempool', applied', requests', refunds')
              /\ phase' \in {"decide", "refund"} => Clear(todo', mempool')
  <2>1. /\ UNCHANGED <<mempool, applied, phase, refunds>> /\ phase = "decide" /\ todo # << >>
        /\ todo' = Tail(todo)
    BY <1>14 DEF DecideChallenge
  <2>2. Within(requests', requests)
    BY <1>14, DecideChallengeBooks
  <2>3. todo \in Seq(Request) /\ Clear(todo, mempool)
    BY <1>3, <2>1 DEF BooksInv, Deciding
  <2>4. Within(Tail(todo), todo)
    BY <2>1, <2>3, TailWithin
  <2>5. Clear(todo', mempool)
    BY <2>1, <2>3, <2>4, ClearWithin
  <2>6. Clear(requests', mempool)
    BY <1>3, <2>2, ClearWithin DEF Paid
  <2> QED BY <1>3, <2>1, <2>5, <2>6 DEF Paid
<1>15. ASSUME NEW issued \in BOOLEAN, Relay(issued)
       PROVE  /\ Paid(mempool', applied', requests', refunds')
              /\ phase' \in {"decide", "refund"} => Clear(todo', mempool')
  <2>1. UNCHANGED <<mempool, applied, requests, refunds>> /\ phase' = "relay"
    BY <1>15 DEF Relay
  <2> QED BY <1>5, <2>1
<1>16. CASE StartRefunds
  <2>1. UNCHANGED <<mempool, applied, requests, refunds>>
    BY <1>16 DEF StartRefunds, queues
  <2>2. Within(todo', refunds)
    BY <1>16, StartRefundsBooks
  <2>3. Clear(todo', mempool)
    BY <1>3, <2>2, ClearWithin DEF Paid
  <2> QED BY <1>5, <2>1, <2>3
<1>17. CASE RefundDeferred
  <2>1. UNCHANGED <<mempool, applied, requests, refunds>> /\ phase = "refund" /\ todo # << >>
        /\ todo' = Tail(todo)
    BY <1>17 DEF RefundDeferred, queues
  <2>2. Clear(todo, mempool) /\ Within(Tail(todo), todo)
    BY <1>3, <2>1, FirstRefund
  <2> QED BY <1>5, <2>1, <2>2, ClearWithin
<1>18. CASE RefundAccepted
  <2> DEFINE e == Head(todo)
             rest == Tail(todo)
             x == RefundTx(e)
  <2>1. /\ UNCHANGED <<applied, requests>> /\ phase = "refund" /\ todo # << >>
        /\ todo' = rest /\ mempool' = mempool \cup {x}
    BY <1>18 DEF RefundAccepted
  <2>2. x.memo = e.memo
    BY DEF RefundTx
  <2>3. /\ Within(rest, todo) /\ \E j \in 1 .. Len(refunds) : refunds[j] = e
        /\ \A i \in 1 .. Len(rest) : rest[i].memo # e.memo
        /\ 1 \in 1 .. Len(todo) /\ e = todo[1]
    BY <2>1, FirstRefund
  <2>4. Within(refunds', refunds) /\ \A k \in 1 .. Len(refunds') : refunds'[k].memo # e.memo
    BY <1>18, AcceptedBooks
  <2> HIDE DEF e, rest, x
  <2>5. Clear(todo, mempool)
    BY <1>3, <2>1
  <2>6. Clear(rest, mempool) /\ Clear(refunds', mempool)
    BY <1>3, <2>3, <2>4, <2>5, ClearWithin DEF Paid
  <2>7. PICK j \in 1 .. Len(refunds) : refunds[j] = e
    BY <2>3
  <2>8. \A i \in 1 .. Len(requests) : requests[i].memo # e.memo
    BY <2>7 DEF BooksInv, Queued, Apart
  <2>9. e.memo[1] \in OnChain(applied)
    <3> DEFINE tx == e.memo[1]
    <3>1. /\ e.height \in 1 .. Len(applied)
          /\ \E k \in 1 .. Len(applied[e.height].txs) : applied[e.height].txs[k] = tx
        BY <2>7 DEF BooksInv, Queued, Backed
    <3> HIDE DEF tx
    <3>2. tx \in OnChain(applied)
        BY <1>4, <3>1, OnChainIs
    <3> QED BY <3>2 DEF tx
  <2>10. \A t \in mempool : t.memo # e.memo
    BY <2>3, <2>5 DEF Clear
  <2>11. \A t \in mempool' : t \in mempool \/ t = x
    BY <2>1
  <2>12. \A t \in mempool' : t.memo[1] \in OnChain(applied)
    BY <1>3, <2>2, <2>9, <2>11 DEF Paid
  <2>13. Clear(requests, mempool')
    BY <1>3, <2>2, <2>8, <2>11 DEF Paid, Clear
  <2>14. Clear(refunds', mempool')
    BY <2>2, <2>4, <2>6, <2>11 DEF Clear
  <2>15. Clear(rest, mempool')
    BY <2>2, <2>3, <2>6, <2>11 DEF Clear
  <2>16. \A s, t \in mempool' : s.memo = t.memo => s = t
    BY <1>3, <2>2, <2>10, <2>11 DEF Paid
  <2> QED BY <2>1, <2>12, <2>13, <2>14, <2>15, <2>16 DEF Paid
<1>19. CASE UNCHANGED vars
  <2>1. UNCHANGED <<mempool, applied, requests, refunds, phase, todo>>
    BY <1>19 DEF vars, queues
  <2> QED BY <1>3, <1>5, <2>1
<1>20. CASE Loop
    BY <1>9, <1>10, <1>11, <1>12, <1>13, <1>14, <1>15, <1>16, <1>17, <1>18, <1>20, LoopCases
<1> QED BY <1>2, <1>6, <1>7, <1>8, <1>19, <1>20 DEF Next

LEMMA PaidAlways == Spec => []PaidInv
<1>1. Init => PaidInv
    BY DEF Init, PaidInv, Clear
<1>2. BooksInv /\ BooksInv' /\ PrefixInv /\ PaidInv /\ [Next]_vars => PaidInv'
    BY NextPaid
<1> QED BY <1>1, <1>2, BooksAlways, PrefixAlways, PTL DEF Spec

(* No payment is refunded twice, for every number of passes, restarts and  *)
(* refused submissions, as long as the chain is not reorganized and the    *)
(* node's answers arrive (issue_refund, RefundQueue::paid).                *)
THEOREM RefundsPaidOnce == Spec => []RefundedOnce
<1>1. BooksInv /\ PaidInv => RefundedOnce
  <2>1. SUFFICES ASSUME BooksInv, PaidInv, reorgs = 0, ~scope.lost
                 PROVE  /\ \A s, t \in mempool : s.memo = t.memo /\ Stands(s) /\ Stands(t) => s = t
                        /\ phase = "wait" => \A t \in mempool : Stands(t) => ~Waits(refunds, t.memo)
    BY DEF RefundedOnce
  <2>2. Clear(refunds, mempool) /\ \A s, t \in mempool : s.memo = t.memo => s = t
    BY <2>1 DEF PaidInv
  <2>3. refunds \in Seq(Refund)
    BY <2>1 DEF BooksInv, Mint
  <2>4. ASSUME NEW t \in mempool PROVE ~Waits(refunds, t.memo)
    <3> DEFINE m == t.memo
    <3>1. \A i \in 1 .. Len(refunds) : refunds[i].memo # m
        BY <2>2 DEF Clear
    <3> HIDE DEF m
    <3>2. ~Waits(refunds, m)
        BY <2>3, <3>1, WaitsIs
    <3> QED BY <3>2 DEF m
  <2> QED BY <2>2, <2>4
<1> QED BY <1>1, BooksAlways, PaidAlways, PTL

-----------------------------------------------------------------------------
(***************************************************************************)
(* Days                                                                    *)
(***************************************************************************)
LEMMA DivMono ==
    ASSUME NEW a \in Nat, NEW b \in Nat, a <= b, NEW d \in Nat \ {0}
    PROVE  a \div d \in Nat /\ b \div d \in Nat /\ a \div d <= b \div d
<1> DEFINE p == a \div d
           q == b \div d
<1>1. p \in Nat /\ q \in Nat /\ p * d <= a /\ b < q * d + d
    OBVIOUS
<1> HIDE DEF p, q
<1>2. p <= q
  <2>1. SUFFICES ASSUME p >= q + 1 PROVE FALSE
    BY <1>1
  <2>2. p * d >= (q + 1) * d
    BY <1>1, <2>1
  <2>3. (q + 1) * d = q * d + d
    BY <1>1
  <2>4. p * d \in Nat /\ q * d \in Nat
    BY <1>1
  <2> QED BY <1>1, <2>2, <2>3, <2>4
<1> QED BY <1>1, <1>2 DEF p, q

(* Along a chain whose times ascend, days do. *)
LEMMA DayGrows ==
    ASSUME NEW pool, NEW c \in Seq(BlockOf(pool)), NEW d \in Seq(BlockOf(pool)),
           IsPrefix(c, d), Ascending(d)
    PROVE  DayOf(c) \in Nat /\ DayOf(d) \in Nat /\ DayOf(c) <= DayOf(d)
<1>1. /\ Len(c) \in Nat /\ Len(d) \in Nat
      /\ Len(c) <= Len(d) /\ \A i \in 1 .. Len(c) : c[i] = d[i]
    BY LenProperties, PrefixIs
<1>2. TimeOf(c) \in Nat /\ TimeOf(d) \in Nat
    BY TimeIs
<1>3. TimeOf(c) <= TimeOf(d)
  <2>1. CASE c = << >>
    BY <1>2, <2>1 DEF TimeOf
  <2>2. CASE c # << >>
    <3>1. Len(c) \in 1 .. Len(c) /\ TimeOf(c) = c[Len(c)].time
        BY <2>2, TimeIs
    <3>2. d # << >>
        BY <1>1, <3>1
    <3>3. Len(d) \in 1 .. Len(d) /\ TimeOf(d) = d[Len(d)].time
        BY <3>2, TimeIs
    <3>4. d[Len(c)].time <= d[Len(d)].time
        BY <1>1, <3>1, <3>3 DEF Ascending
    <3> QED BY <1>1, <3>1, <3>3, <3>4
  <2> QED BY <2>1, <2>2
<1>4. DAY \in Nat \ {0}
    BY TreasuryAssumption
<1> QED BY <1>2, <1>3, <1>4, DivMono DEF DayOf

(* The invariant's parts, once the chain was not reorganized *)
Swept(c, days) ==
    /\ Ascending(c) /\ days \in Seq(Nat)
    /\ \A i, j \in 1 .. Len(days) : i < j => days[i] < days[j]

NoLater(days, day) == \A i \in 1 .. Len(days) : days[i] <= day

LEMMA NextSweep ==
    ASSUME BooksInv, BooksInv', PrefixInv, PrefixInv', SweepInv, [Next]_vars
    PROVE  SweepInv'
<1>1. SUFFICES ASSUME reorgs' = 0
               PROVE  /\ Swept(chain', sweeps')
                      /\ phase' = "wait" => NoLater(sweeps', DayOf(applied'))
                      /\ phase' # "wait" => /\ previous_day' \in Nat
                                            /\ previous_day' <= DayOf(applied')
                                            /\ NoLater(sweeps', previous_day')
    BY DEF SweepInv, Swept, NoLater
<1>2. /\ reorgs = 0 /\ IsPrefix(applied, chain) /\ IsPrefix(applied', chain')
      /\ ~\E h \in 0 .. Len(chain) : Reorg(h)
    BY <1>1, ReorgsKept DEF PrefixInv
<1>3. /\ Swept(chain, sweeps)
      /\ phase = "wait" => NoLater(sweeps, DayOf(applied))
      /\ phase # "wait" => /\ previous_day \in Nat /\ previous_day <= DayOf(applied)
                           /\ NoLater(sweeps, previous_day)
    BY <1>2 DEF SweepInv, Swept, NoLater
<1> DEFINE B == BlockOf(mempool)
<1>4. applied \in Seq(B) /\ chain \in Seq(B)
    BY DEF BooksInv, Node, Mint
<1>5. DayOf(applied) \in Nat /\ DayOf(chain) \in Nat /\ DayOf(applied) <= DayOf(chain)
    BY <1>2, <1>3, <1>4, DayGrows DEF Swept
<1>6. sweeps \in Seq(Nat) /\ Len(sweeps) \in Nat /\ \A i \in 1 .. Len(sweeps) : sweeps[i] \in Nat
    BY <1>3, LenProperties, ElementOfSeq DEF Swept
<1>7. ASSUME NEW a \in Nat, NEW b \in Nat, a <= b, NoLater(sweeps, a) PROVE NoLater(sweeps, b)
    BY <1>6, <1>7 DEF NoLater
<1>8. phase # "wait" => NoLater(sweeps, DayOf(applied))
    BY <1>3, <1>5, <1>7
<1>9. CASE Grow
  <2>1. PICK txs \in SUBSET (scope.payments \cup mempool), time \in TimeOf(chain) .. scope.time :
            Mine(txs, time)
    BY <1>9 DEF Grow
  <2> DEFINE b == [txs |-> SetToSeq(txs), time |-> time, branch |-> reorgs]
             n == Len(chain)
  <2>2. /\ chain' = Append(chain, b) /\ b.time = time
        /\ UNCHANGED <<applied, phase, previous_day, sweeps, mempool>>
    BY <2>1 DEF Mine
  <2> HIDE DEF b
  <2>3. /\ n \in Nat /\ Len(chain') = n + 1 /\ chain'[n + 1] = b
        /\ \A i \in 1 .. n : chain'[i] = chain[i]
    BY <1>4, <2>2, LenProperties
  <2>4. \A i \in 1 .. n : chain[i].time \in Nat
    <3>1. \A i \in 1 .. n : chain[i] \in B
        BY <1>4, ElementOfSeq
    <3> QED BY <3>1 DEF BlockOf
  <2>5. TimeOf(chain) \in Nat /\ time \in Int /\ TimeOf(chain) <= time
    <3>1. TimeOf(chain) \in Nat
        BY <1>4, TimeIs
    <3> QED BY <2>1, <3>1
  <2>6. \A i \in 1 .. n : chain[i].time <= time
    <3>1. ASSUME NEW i \in 1 .. n PROVE chain[i].time <= time
      <4>1. chain # << >>
        BY <2>3, <3>1
      <4>2. n \in 1 .. n /\ TimeOf(chain) = chain[n].time
        BY <1>4, <4>1, TimeIs
      <4>3. chain[i].time <= chain[n].time
        BY <1>3, <2>3, <4>2 DEF Swept, Ascending
      <4> QED BY <2>4, <2>5, <4>2, <4>3
    <3> QED BY <3>1
  <2>7. Ascending(chain')
    <3>1. ASSUME NEW i \in 1 .. Len(chain'), NEW j \in 1 .. Len(chain'), i <= j
          PROVE  chain'[i].time <= chain'[j].time
      <4>1. CASE j \in 1 .. n
        <5>1. i \in 1 .. n
            BY <2>3, <3>1, <4>1
        <5>2. chain[i].time <= chain[j].time
            BY <1>3, <3>1, <4>1, <5>1 DEF Swept, Ascending
        <5> QED BY <2>3, <4>1, <5>1, <5>2
      <4>2. CASE j = n + 1 /\ i \in 1 .. n
        BY <2>2, <2>3, <2>6, <4>2
      <4>3. CASE j = n + 1 /\ i = n + 1
        BY <2>2, <2>3, <2>5, <4>3
      <4> QED BY <2>3, <3>1, <4>1, <4>2, <4>3
    <3> QED BY <3>1 DEF Ascending
  <2> QED BY <1>3, <2>2, <2>7 DEF Swept
<1>10. CASE RefundAnswerLost
  <2>1. UNCHANGED <<chain, applied, phase, previous_day, sweeps>>
    BY <1>10 DEF RefundAnswerLost, world
  <2> QED BY <1>3, <2>1
<1>11. CASE Restart
  <2>1. applied' = chain /\ phase' = "wait" /\ UNCHANGED <<chain, sweeps>>
    BY <1>11 DEF Restart
  <2>2. NoLater(sweeps, DayOf(chain))
    BY <1>3, <1>5, <1>7, <1>8
  <2> QED BY <1>3, <2>1, <2>2
<1>12. CASE Follow
  <2>1. applied' = applied
    BY <1>2, <1>12, AppliedStays
  <2>2. /\ UNCHANGED <<chain, sweeps>> /\ phase = "wait" /\ phase' = "apply"
        /\ previous_day' = DayOf(applied')
    BY <1>12 DEF Follow, world
  <2>3. previous_day' = DayOf(applied)
    BY <2>1, <2>2
  <2> QED BY <1>3, <1>5, <2>1, <2>2, <2>3
<1>13. ASSUME NEW ruling \in Rulings, ApplyBlock(ruling)
       PROVE  /\ Swept(chain', sweeps')
              /\ phase' # "wait" /\ previous_day' \in Nat /\ previous_day' <= DayOf(applied')
              /\ NoLater(sweeps', previous_day')
  <2> DEFINE n == Len(applied)
             b == chain[n + 1]
  <2>1. /\ UNCHANGED <<chain, phase, previous_day, sweeps, mempool>> /\ phase = "apply"
        /\ applied' = Append(applied, b)
    BY <1>13 DEF ApplyBlock, world
  <2>2. applied' \in Seq(B)
    BY <2>1 DEF BooksInv, Mint
  <2> HIDE DEF b
  <2>3. IsPrefix(applied, applied')
    <3>1. /\ Len(applied') = n + 1 /\ n \in Nat
          /\ \A i \in 1 .. n : applied'[i] = applied[i]
        BY <1>4, <2>1, LenProperties
    <3>2. n <= Len(applied')
        BY <3>1
    <3> QED BY <1>4, <2>2, <3>1, <3>2, PrefixIs
  <2>4. Ascending(applied')
    <3>1. IsPrefix(applied', chain) /\ Len(applied') \in Nat /\ Len(chain) \in Nat
        BY <1>2, <1>4, <2>1, <2>2, LenProperties
    <3>2. Len(applied') <= Len(chain) /\ \A i \in 1 .. Len(applied') : applied'[i] = chain[i]
        BY <1>4, <2>2, <3>1, PrefixIs
    <3>3. \A i \in 1 .. Len(applied') : i \in 1 .. Len(chain)
        BY <3>1, <3>2
    <3>4. ASSUME NEW i \in 1 .. Len(applied'), NEW j \in 1 .. Len(applied'), i <= j
          PROVE  applied'[i].time <= applied'[j].time
        BY <1>3, <3>2, <3>3, <3>4 DEF Swept, Ascending
    <3> QED BY <3>4 DEF Ascending
  <2>5. DayOf(applied') \in Nat /\ DayOf(applied) <= DayOf(applied')
    BY <1>4, <2>2, <2>3, <2>4, DayGrows
  <2>6. previous_day \in Nat /\ previous_day <= DayOf(applied) /\ NoLater(sweeps, previous_day)
    BY <1>3, <2>1
  <2>7. previous_day' \in Nat /\ previous_day' <= DayOf(applied')
    BY <1>5, <2>1, <2>5, <2>6
  <2> QED BY <1>3, <2>1, <2>6, <2>7
<1>14. CASE SkipPass
  <2>1. UNCHANGED <<chain, sweeps, applied>> /\ phase = "apply" /\ phase' = "wait"
    BY <1>14 DEF SkipPass, world
  <2> QED BY <1>3, <1>8, <2>1
<1>15. ASSUME NEW moved \in BOOLEAN, Sweep(moved)
       PROVE  /\ Swept(chain', sweeps') /\ phase' = "wait" /\ NoLater(sweeps', DayOf(applied'))
  <2> DEFINE day == DayOf(applied)
             n == Len(sweeps)
  <2>1. UNCHANGED <<chain, applied>> /\ phase = "refund" /\ phase' = "wait"
    BY <1>15 DEF Sweep, world
  <2>2. sweeps' = sweeps \/ (previous_day < day /\ sweeps' = Append(sweeps, day))
    BY <1>15 DEF Sweep, SweepDue
  <2>3. CASE sweeps' = sweeps
    BY <1>3, <1>8, <2>1, <2>3
  <2>4. CASE previous_day < day /\ sweeps' = Append(sweeps, day)
    <3>1. day \in Nat
        BY <1>5
    <3>2. previous_day \in Nat /\ NoLater(sweeps, previous_day)
        BY <1>3, <2>1
    <3>3. applied' = applied /\ DayOf(applied') = day
        BY <2>1
    <3> HIDE DEF day
    <3>4. /\ sweeps' \in Seq(Nat) /\ Len(sweeps') = n + 1 /\ n \in Nat
          /\ \A i \in 1 .. n + 1 : (i = n + 1 /\ sweeps'[i] = day)
                                      \/ (i \in 1 .. n /\ sweeps'[i] = sweeps[i])
        BY <1>6, <2>4, <3>1
    <3>5. \A i \in 1 .. n : sweeps[i] < day
        BY <1>6, <2>4, <3>1, <3>2 DEF NoLater
    <3>6. \A i, j \in 1 .. n : i < j => sweeps[i] < sweeps[j]
        BY <1>3 DEF Swept
    <3>7. ASSUME NEW i \in 1 .. Len(sweeps'), NEW j \in 1 .. Len(sweeps'), i < j
          PROVE  sweeps'[i] < sweeps'[j]
      <4>1. i \in 1 .. n /\ sweeps'[i] = sweeps[i]
        BY <3>4, <3>7
      <4> QED BY <3>4, <3>5, <3>6, <3>7, <4>1
    <3>8. \A i \in 1 .. Len(sweeps') : sweeps'[i] <= day
        BY <1>6, <3>1, <3>4, <3>5
    <3> QED BY <1>3, <2>1, <3>3, <3>4, <3>7, <3>8 DEF Swept, NoLater
  <2> QED BY <2>2, <2>3, <2>4
<1>16. CASE /\ UNCHANGED <<chain, applied, previous_day, sweeps>>
            /\ phase # "wait" /\ phase' # "wait"
    BY <1>3, <1>16
<1>17. CASE UNCHANGED vars
    BY <1>3, <1>17 DEF vars
<1>18. CASE Loop
  <2>1. \/ Follow \/ \E ruling \in Rulings : ApplyBlock(ruling)
        \/ SkipPass \/ \E moved \in BOOLEAN : Sweep(moved)
        \/ /\ UNCHANGED <<chain, applied, previous_day, sweeps>>
           /\ phase # "wait" /\ phase' # "wait"
    BY <1>18 DEF Loop, Catchup, StartRules, DecideClaim, DecideChallenge,
                 StartRelays, Relay, StartRefunds, RefundDeferred, RefundAccepted, world
  <2> QED BY <1>12, <1>13, <1>14, <1>15, <1>16, <2>1
<1> QED BY <1>2, <1>9, <1>10, <1>11, <1>17, <1>18 DEF Next

LEMMA SweepAlways == Spec => []SweepInv
<1>1. Init => SweepInv
    BY DEF Init, SweepInv, Ascending
<1>2. BooksInv /\ BooksInv' /\ PrefixInv /\ PrefixInv' /\ SweepInv /\ [Next]_vars => SweepInv'
    BY NextSweep
<1> QED BY <1>1, <1>2, BooksAlways, PrefixAlways, PTL DEF Spec

(* No day is swept twice, however often the mint restarts in the day or    *)
(* the sweep does not go through, as long as the chain is not reorganized  *)
(* (the run loop's previous_day, sweep_to_vault).                          *)
THEOREM DaysSweptOnce == Spec => []SweptOnce
<1>1. ASSUME SweepInv, reorgs = 0, NEW i \in DOMAIN sweeps, NEW j \in DOMAIN sweeps,
             sweeps[i] = sweeps[j]
      PROVE  i = j
  <2>1. /\ sweeps \in Seq(Nat)
        /\ \A k, l \in 1 .. Len(sweeps) : k < l => sweeps[k] < sweeps[l]
    BY <1>1 DEF SweepInv
  <2>2. /\ i \in 1 .. Len(sweeps) /\ j \in 1 .. Len(sweeps) /\ Len(sweeps) \in Nat
        /\ sweeps[i] \in Nat /\ sweeps[j] \in Nat
    BY <1>1, <2>1, LenProperties, ElementOfSeq
  <2> QED BY <1>1, <2>1, <2>2
<1>2. SweepInv => SweptOnce
    BY <1>1 DEF SweptOnce
<1> QED BY <1>2, SweepAlways, PTL
=============================================================================
