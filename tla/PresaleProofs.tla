---------------------------- MODULE PresaleProofs ----------------------------
(***************************************************************************)
(* Proofs about Presale: for any names, rows, lift moments and server      *)
(* behaviour, a claim passes without its code only if the whole table the  *)
(* mint last confirmed does not protect its name.                          *)
(*                                                                         *)
(* The table the rules consult keeps one term per name and the property    *)
(* speaks of every row, so the proof shows that from_rows loses no         *)
(* protection; and a read is installed long after its rows were counted,   *)
(* so the invariant says what a reply that counts as complete contains.    *)
(***************************************************************************)
EXTENDS Presale, OrderLemmas, SequenceTheorems

Tables == BoundedSeq(Row, MaxRows)

LEMMA TableShape ==
    ASSUME NEW rs \in Tables
    PROVE  /\ rs \in Seq(Row) /\ Len(rs) \in Nat
           /\ rs \in [1 .. Len(rs) -> Row] /\ DOMAIN rs = 1 .. Len(rs)
           /\ Range(rs) = {rs[i] : i \in 1 .. Len(rs)}
<1>1. PICK m \in 0 .. MaxRows : rs \in [1 .. m -> Row]
    BY DEF Tables, BoundedSeq, SeqOf
<1>2. m \in Nat
    BY <1>1, PresaleAssumption
<1>3. rs \in Seq(Row) /\ Len(rs) = m
    BY <1>1, <1>2
<1> QED
    BY <1>1, <1>2, <1>3 DEF Range

-----------------------------------------------------------------------------
(***************************************************************************)
(* from_rows                                                               *)
(***************************************************************************)
Good(rs) == {r \in Range(rs) : Reads(r)}
Terms(rs, n) == {r.expiry : r \in {r \in Good(rs) : r.name = n}}

LEMMA TermsBounded ==
    ASSUME NEW rs \in Tables, NEW n, Forever \notin Terms(rs, n), Terms(rs, n) # {}
    PROVE  /\ Max(Terms(rs, n)) \in Terms(rs, n)
           /\ Terms(rs, n) \subseteq Times
           /\ \A t \in Terms(rs, n) : t <= Max(Terms(rs, n))
<1> DEFINE T == Terms(rs, n)
<1>1. rs \in [1 .. Len(rs) -> Row] /\ Len(rs) \in Nat /\ Range(rs) = {rs[i] : i \in 1 .. Len(rs)}
    BY TableShape
<1>2. ASSUME NEW t \in T PROVE \E i \in 1 .. Len(rs) : rs[i].expiry = t /\ t \in Times
  <2>1. PICK r \in Range(rs) : Reads(r) /\ r.name = n /\ t = r.expiry
    BY DEF Terms, Good
  <2>2. PICK i \in 1 .. Len(rs) : r = rs[i]
    BY <1>1, <2>1
  <2>3. r.expiry \in Times \cup {Forever, Garbled}
    BY <1>1, <2>2 DEF Row
  <2>4. t # Garbled /\ t # Forever
    BY <2>1 DEF Reads
  <2> QED BY <2>1, <2>2, <2>3, <2>4
<1> HIDE DEF T
<1>3. T \subseteq Times /\ T \subseteq Nat
    BY <1>2, PresaleAssumption
<1> DEFINE f == [i \in 1 .. Len(rs) |-> IF rs[i].expiry \in Nat THEN rs[i].expiry ELSE 0]
<1>4. f \in [1 .. Len(rs) -> Nat]
    OBVIOUS
<1>5. \A t \in T : \E i \in 1 .. Len(rs) : f[i] = t
    BY <1>2, <1>3
<1> HIDE DEF f
<1>6. PICK m \in Nat : \A i \in 1 .. Len(rs) : f[i] <= m
    BY <1>1, <1>4, ValuesBounded
<1>7. T \subseteq 0 .. m
    BY <1>3, <1>5, <1>6
<1>8. T # {}
    BY DEF T
<1>9. \E x \in T : \A y \in T : x >= y
    BY <1>7, <1>8, HasGreatest
<1>10. Max(T) \in T /\ \A y \in T : Max(T) >= y
    BY <1>9 DEF Max
<1>11. \A y \in T : y <= Max(T)
    BY <1>3, <1>10
<1> QED
    BY <1>3, <1>10, <1>11 DEF T

LEMMA FromRowsIs ==
    ASSUME NEW rs
    PROVE  FromRows(rs) = [n \in {r.name : r \in Good(rs)} |->
              IF Forever \in Terms(rs, n) THEN Forever ELSE Max(Terms(rs, n))]
BY DEF FromRows, Good, Terms

(* A name has at least the protection of each of its rows. *)
LEMMA NoProtectionLost ==
    ASSUME NEW rs \in Tables, NEW i \in DOMAIN rs, Reads(rs[i])
    PROVE  /\ rs[i].name \in DOMAIN FromRows(rs)
           /\ FromRows(rs)[rs[i].name] # Forever =>
                /\ rs[i].expiry \in Nat
                /\ FromRows(rs)[rs[i].name] \in Nat
                /\ rs[i].expiry <= FromRows(rs)[rs[i].name]
<1> DEFINE r == rs[i]
           n == rs[i].name
<1>1. r \in Good(rs)
    BY DEF Good, Range
<1>2. n \in DOMAIN FromRows(rs)
    BY <1>1, FromRowsIs
<1>3. r.expiry \in Terms(rs, n)
    BY <1>1 DEF Terms
<1>4. FromRows(rs)[n] = IF Forever \in Terms(rs, n) THEN Forever ELSE Max(Terms(rs, n))
    BY <1>1, FromRowsIs
<1>5. ASSUME FromRows(rs)[n] # Forever
      PROVE  r.expiry \in Nat /\ FromRows(rs)[n] \in Nat /\ r.expiry <= FromRows(rs)[n]
  <2>1. Forever \notin Terms(rs, n)
    BY <1>4, <1>5
  <2>2. FromRows(rs)[n] = Max(Terms(rs, n))
    BY <1>4, <2>1
  <2> QED BY <1>3, <2>1, <2>2, TermsBounded, PresaleAssumption
<1> QED
    BY <1>2, <1>5

(* Only lawful names are stored, each with a term. *)
LEMMA TableTyped ==
    ASSUME NEW rs \in Tables
    PROVE  /\ DOMAIN FromRows(rs) \subseteq Names
           /\ \A n \in DOMAIN FromRows(rs) : FromRows(rs)[n] \in Times \cup {Forever}
<1>1. DOMAIN FromRows(rs) = {r.name : r \in Good(rs)}
    BY FromRowsIs
<1>2. DOMAIN FromRows(rs) \subseteq Names
    BY <1>1 DEF Good, Reads
<1>3. ASSUME NEW n \in DOMAIN FromRows(rs) PROVE FromRows(rs)[n] \in Times \cup {Forever}
  <2>1. FromRows(rs)[n] = IF Forever \in Terms(rs, n) THEN Forever ELSE Max(Terms(rs, n))
    BY <1>1, FromRowsIs
  <2>2. Terms(rs, n) # {}
    <3>1. PICK r \in Good(rs) : n = r.name
        BY <1>1
    <3>2. r.expiry \in Terms(rs, n)
        BY <3>1 DEF Terms
    <3> QED BY <3>2
  <2>3. CASE Forever \in Terms(rs, n)
    BY <2>1, <2>3
  <2>4. CASE Forever \notin Terms(rs, n)
    BY <2>1, <2>2, <2>4, TermsBounded
  <2> QED BY <2>3, <2>4
<1> QED
    BY <1>2, <1>3

-----------------------------------------------------------------------------
(***************************************************************************)
(* The invariant                                                           *)
(***************************************************************************)

(* A reply is about one table of the server, and holds all of it if its    *)
(* count says so.                                                          *)
Honest(reply) ==
    /\ reply.of \in Tables
    /\ Complete(reply) => reply.rows = reply.of

PresaleInv ==
    /\ rows \in Tables /\ confirmed \in Tables
    /\ mtp \in 0 .. MaxTime
    /\ phase \in {"wait", "catchup", "rules"}
    /\ claimed \in Names \cup {None}
    /\ phase = "catchup" <=> read # None
    /\ table = FromRows(confirmed)
    /\ read \in {None, Awaited, Failed} \/ Honest(read)
    /\ claimed # None => phase = "rules" /\ ~IsProtected(claimed, mtp)

LEMMA RepliesHonest ==
    ASSUME rows \in Tables, NEW reply \in Replies
    PROVE  Honest(reply) /\ reply # None
<1>0. rows \in Seq(Row) /\ Len(rows) \in Nat
    BY TableShape
<1>1. \A k \in 0 .. Len(rows) - 1 :
        SubSeq(rows, 1, k) \in Tables /\ Len(SubSeq(rows, 1, k)) = k
  <2> TAKE k \in 0 .. Len(rows) - 1
  <2>1. PICK m \in 0 .. MaxRows : rows \in [1 .. m -> Row]
    BY DEF Tables, BoundedSeq, SeqOf
  <2>2. MaxRows \in Nat /\ Len(rows) = m
    BY <2>1, PresaleAssumption
  <2>3. SubSeq(rows, 1, k) \in [1 .. k -> Row] /\ Len(SubSeq(rows, 1, k)) = k
    <3>1. 1 \in Int /\ k \in Int /\ k \in Nat /\ \A i \in 1 .. k : rows[i] \in Row
        BY <1>0, <2>1, <2>2
    <3>2. SubSeq(rows, 1, k) \in Seq(Row)
          /\ Len(SubSeq(rows, 1, k)) = IF 1 <= k THEN k - 1 + 1 ELSE 0
        BY <3>1, SubSeqProperties
    <3> DEFINE z == SubSeq(rows, 1, k)
    <3> HIDE DEF z
    <3>3. z \in Seq(Row) /\ Len(z) = k
        BY <3>1, <3>2 DEF z
    <3>4. z \in [1 .. Len(z) -> Row]
        BY <3>3
    <3> QED BY <3>3, <3>4 DEF z
  <2>4. k \in 0 .. MaxRows
    BY <2>1, <2>2
  <2> QED BY <2>3, <2>4 DEF Tables, BoundedSeq, SeqOf
<1>2. reply \in [rows : Tables, total : Nat \cup {None}, of : Tables]
      /\ reply.of = rows
  <2>1. CASE \E k \in 0 .. Len(rows) - 1 :
               reply = [rows |-> SubSeq(rows, 1, k), total |-> Len(rows), of |-> rows]
    BY <1>0, <1>1, <2>1
  <2>2. CASE reply = [rows |-> rows, total |-> Len(rows), of |-> rows]
    BY <1>0, <2>2
  <2>3. CASE reply = [rows |-> rows, total |-> None, of |-> rows]
    BY <1>0, <2>3
  <2> QED BY <2>1, <2>2, <2>3 DEF Replies
<1>3. reply # None
    BY <1>2, ReplyAssumption DEF Tables
<1>4. CASE reply.rows = rows
    BY <1>2, <1>3, <1>4 DEF Honest
<1>5. CASE reply.rows # rows
  <2>1. PICK k \in 0 .. Len(rows) - 1 : reply.rows = SubSeq(rows, 1, k) /\ reply.total = Len(rows)
    BY <1>5 DEF Replies
  <2>2. ~Complete(reply)
    BY <1>0, <1>1, <2>1 DEF Complete
  <2> QED BY <1>2, <1>3, <2>2 DEF Honest
<1> QED
    BY <1>4, <1>5

LEMMA InitPresaleInv == Init => PresaleInv
BY PresaleAssumption DEF Init, PresaleInv, Tables

LEMMA NextPresaleInv == PresaleInv /\ [Next]_vars => PresaleInv'
<1> SUFFICES ASSUME PresaleInv, [Next]_vars PROVE PresaleInv'
    OBVIOUS
<1> USE DEF PresaleInv
<1>0. None # Awaited /\ None # Failed
    BY PresaleAssumption
<1>1. ASSUME NEW rs \in BoundedSeq(Row, MaxRows), ServerChanges(rs) PROVE PresaleInv'
    BY <1>1 DEF ServerChanges, Tables, IsProtected
<1>2. ASSUME StartPass PROVE PresaleInv'
    BY <1>0, <1>2 DEF StartPass
<1>3. ASSUME NEW reply \in Replies \cup {Failed}, ReadLands(reply) PROVE PresaleInv'
  <2>1. reply # None /\ (reply = Failed \/ Honest(reply))
    BY <1>0, RepliesHonest
  <2> QED BY <1>0, <1>3, <2>1 DEF ReadLands, IsProtected
<1>4. ASSUME NEW t \in 0 .. MaxTime, Tick(t) PROVE PresaleInv'
    BY <1>4 DEF Tick
<1>5. ASSUME AbandonPass PROVE PresaleInv'
    BY <1>5 DEF AbandonPass
<1>6. ASSUME Install PROVE PresaleInv'
  <2>1. claimed = None
    BY <1>6 DEF Install
  <2>2. CASE Confirmed
    <3>1. Honest(read) /\ read.rows = read.of
        BY <1>6, <2>2 DEF Install, Confirmed, Honest
    <3> QED BY <1>6, <2>1, <2>2, <3>1 DEF Install, Honest
  <2>3. CASE ~Confirmed
    BY <1>6, <2>1, <2>3 DEF Install
  <2> QED BY <2>2, <2>3
<1>7. ASSUME NEW n \in Names, Claim(n) PROVE PresaleInv'
    BY <1>7 DEF Claim, IsProtected
<1>8. ASSUME EndPass PROVE PresaleInv'
    BY <1>8 DEF EndPass
<1>9. ASSUME Restart PROVE PresaleInv'
    BY <1>9 DEF Restart
<1>10. CASE UNCHANGED vars
    BY <1>10 DEF vars, IsProtected
<1> QED
    BY <1>1, <1>2, <1>3, <1>4, <1>5, <1>6, <1>7, <1>8, <1>9, <1>10 DEF Next

LEMMA PresaleInvProtects == PresaleInv => ProtectionHonoured
<1> SUFFICES ASSUME PresaleInv PROVE ProtectionHonoured
    OBVIOUS
<1>1. PresaleTypeOK
    BY TableTyped DEF PresaleInv, PresaleTypeOK, Tables
<1>2. ASSUME claimed # None, NEW i \in DOMAIN confirmed,
             Reads(confirmed[i]), confirmed[i].name = claimed
      PROVE  confirmed[i].expiry # Forever /\ mtp >= confirmed[i].expiry
  <2>1. confirmed \in Tables /\ table = FromRows(confirmed) /\ ~IsProtected(claimed, mtp)
        /\ mtp \in Nat
    BY <1>2, PresaleAssumption DEF PresaleInv
  <2>2. claimed \in DOMAIN table
        /\ (table[claimed] # Forever =>
              /\ confirmed[i].expiry \in Nat /\ table[claimed] \in Nat
              /\ confirmed[i].expiry <= table[claimed])
    BY <1>2, <2>1, NoProtectionLost
  <2>3. table[claimed] # Forever /\ ~(mtp < table[claimed])
    BY <2>1, <2>2 DEF IsProtected
  <2>4. confirmed[i].expiry \in Nat /\ mtp >= confirmed[i].expiry
    BY <2>1, <2>2, <2>3
  <2>5. Forever \notin Nat
    BY PresaleAssumption
  <2> QED BY <2>4, <2>5
<1> QED
    BY <1>1, <1>2 DEF ProtectionHonoured

(* Whatever the server changes and whichever replies fail, are cut short   *)
(* or come without their count, a claim without its code is let through    *)
(* only if no row of the table last confirmed protects its name at the     *)
(* claim's median time (is_protected, from_rows, PendingRead::install).    *)
THEOREM ProtectionIsHonoured == Spec => []ProtectionHonoured
<1>1. Init => PresaleInv
    BY InitPresaleInv
<1>2. PresaleInv /\ [Next]_vars => PresaleInv'
    BY NextPresaleInv
<1>3. PresaleInv => ProtectionHonoured
    BY PresaleInvProtects
<1> QED
    BY <1>1, <1>2, <1>3, PTL DEF Spec
=============================================================================
