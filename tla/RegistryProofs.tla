--------------------------- MODULE RegistryProofs ---------------------------
(***************************************************************************)
(* Proofs about the Registry, about the ledger it implements and about the *)
(* mint that orders its transitions, for every set of names, addresses and *)
(* nullifiers, every pool size and every chain length.                     *)
(*                                                                         *)
(* The Registry.  The inductive invariant Inv says, of each height h up to *)
(* the tip, how the Registry that stood at h sits inside the present one:  *)
(* its histories are the prefixes of the present histories up to h, its    *)
(* pool is the one the checkpoints give for h.  Types alone are not        *)
(* inductive: Truncate picks a length and a pool with CHOOSE, and only Inv *)
(* says they exist.                                                        *)
(*                                                                         *)
(* The ledger.  Init maps to the empty ledger, and each step of the        *)
(* Registry to one step of the ledger or to none.  Inv is needed in two    *)
(* places: a claim turns one authority into another only because the       *)
(* anchor it spends is on the chain and the successor is not yet, and a    *)
(* rewind uncovers a ledger only because the Registry it gives back is the *)
(* one that stood.                                                         *)
(*                                                                         *)
(* The mint.  Every step of MintOrders is a step of the Registry or leaves *)
(* it alone, so what is proved of the Registry holds of the mint's.  On    *)
(* top of it each result adds one layer: BaseInv, the loop's own queues;   *)
(* TxInv, what the chain says of the transactions the mint built; SeenInv, *)
(* which orders are seen; SingleInv, one unresolved order a name; OwnedInv *)
(* and AnsweredInv, whose names the orders and the challenges are.         *)
(***************************************************************************)
EXTENDS RegistryLedger, MintOrders, OrderLemmas

(* k is the number of entries of s that survive a rewind to h. *)
Kept(s, h, k) ==
    /\ k \in 0 .. Len(s)
    /\ k # 0 => s[k].confirmed_height <= h
    /\ \A i \in (k + 1) .. Len(s) : s[i].confirmed_height > h

HistoryStood(h) ==
    /\ StoodAt(h).history \in [Names -> Seq(NameRecord)]
    /\ \A n \in Names :
         /\ Kept(history[n], h, Len(StoodAt(h).history[n]))
         /\ \A i \in 1 .. Len(StoodAt(h).history[n]) :
              StoodAt(h).history[n][i] = history[n][i]

RecordsStood(h) == StoodAt(h).records = Rebuilt(StoodAt(h).history)

PoolStood(h) ==
    /\ StoodAt(h).live \in SUBSET Nullifiers
    /\ IsPoolAt(h, StoodAt(h).live)

ClosedStood(h) == StoodAt(h).established = EstablishedAt(h)

Stood ==
    \A h \in 0 .. height :
        HistoryStood(h) /\ RecordsStood(h) /\ PoolStood(h) /\ ClosedStood(h)

(* The types of what is not derived from the histories *)
BaseType ==
    /\ height \in Nat
    /\ mtp \in [0 .. height -> Nat]
    /\ history \in [Names -> Seq(NameRecord)]
    /\ live \in SUBSET Nullifiers
    /\ DOMAIN checkpoints \subseteq 1 .. height
    /\ checkpoints \in [DOMAIN checkpoints -> SUBSET Nullifiers]
    /\ established \in 0 .. height
    /\ born \in [Nullifiers -> 0 .. height]
    /\ spentAt \in [Nullifiers -> 0 .. height]
    /\ targets \in [Names -> Seq(Nat)]
    /\ \A n \in Names : Len(targets[n]) = Len(history[n])
    /\ DOMAIN snap = 0 .. height - 1

Inv == BaseType /\ Stood

-----------------------------------------------------------------------------
(***************************************************************************)
(* Operators                                                               *)
(***************************************************************************)

(* The length truncate_to_height keeps is the only one that fits. *)
LEMMA KeptLengthUnique ==
    ASSUME NEW s, NEW h \in Nat, NEW k, Len(s) \in Nat, Kept(s, h, k),
           \A i \in 1 .. Len(s) : s[i].confirmed_height \in Nat
    PROVE  KeptLength(s, h) = k
<1> DEFINE P(j) == /\ j # 0 => s[j].confirmed_height <= h
                   /\ \A i \in (j + 1) .. Len(s) : s[i].confirmed_height > h
<1>1. k \in 0 .. Len(s) /\ P(k)
  BY DEF Kept
<1>2. ASSUME NEW j \in 0 .. Len(s), P(j)
      PROVE  j = k
  <2>1. CASE j < k
    BY <2>1, <1>1, <1>2
  <2>2. CASE k < j
    BY <2>2, <1>1, <1>2
  <2> QED
    BY <2>1, <2>2, <1>1
<1>3. KeptLength(s, h) = CHOOSE j \in 0 .. Len(s) : P(j)
  BY DEF KeptLength
<1> HIDE DEF P
<1> QED
  BY <1>1, <1>2, <1>3

LEMMA HeightsAreNat ==
    ASSUME NEW s \in Seq(NameRecord)
    PROVE  \A i \in 1 .. Len(s) : s[i].confirmed_height \in Nat
<1> SUFFICES ASSUME NEW i \in 1 .. Len(s) PROVE s[i].confirmed_height \in Nat
  OBVIOUS
<1>1. s[i] \in NameRecord
  BY ElementOfSeq
<1> QED
  BY <1>1 DEF NameRecord

(* At most one pool stands at a height. *)
LEMMA PoolAtUnique ==
    ASSUME NEW h \in Nat, NEW p, NEW q, DOMAIN checkpoints \subseteq Nat,
           IsPoolAt(h, p), IsPoolAt(h, q)
    PROVE  p = q
BY DEF IsPoolAt

(* What is rebuilt is the last record of each history that stays live. *)
LEMMA RebuiltType ==
    ASSUME NEW hist \in [Names -> Seq(NameRecord)]
    PROVE  /\ DOMAIN Rebuilt(hist) \subseteq Names
           /\ \A n \in DOMAIN Rebuilt(hist) :
                /\ Rebuilt(hist)[n] \in NameRecord
                /\ hist[n] # << >>
                /\ Rebuilt(hist)[n] = hist[n][Len(hist[n])]
                /\ hist[n][Len(hist[n])].action # "release"
<1> SUFFICES ASSUME NEW n \in DOMAIN Rebuilt(hist)
             PROVE  /\ n \in Names
                    /\ Rebuilt(hist)[n] \in NameRecord
                    /\ hist[n] # << >>
                    /\ Rebuilt(hist)[n] = hist[n][Len(hist[n])]
                    /\ hist[n][Len(hist[n])].action # "release"
  OBVIOUS
<1>1. n \in Names /\ hist[n] # << >> /\ hist[n][Len(hist[n])].action # "release"
      /\ Rebuilt(hist)[n] = hist[n][Len(hist[n])]
  BY DEF Rebuilt
<1>2. hist[n] \in Seq(NameRecord) /\ Len(hist[n]) \in 1 .. Len(hist[n])
  BY <1>1, EmptySeq
<1> QED
  BY <1>1, <1>2, ElementOfSeq

(* Inv gives the type invariant and the rewind property. *)
LEMMA InvGivesTypeOK == Inv => TypeOK
<1> SUFFICES ASSUME Inv PROVE TypeOK
  OBVIOUS
<1>1. records = Rebuilt(history)
  <2>1. height \in 0 .. height
    BY DEF Inv, BaseType
  <2>2. RecordsStood(height)
    BY <2>1 DEF Inv, Stood
  <2> QED
    BY <2>2 DEF RecordsStood, StoodAt, Snapshot
<1>2. history \in [Names -> Seq(NameRecord)]
  BY DEF Inv, BaseType
<1> QED
  BY <1>1, <1>2, RebuiltType DEF Inv, BaseType, TypeOK

LEMMA InvGivesRewindExact == Inv => RewindExact
<1> SUFFICES ASSUME Inv, NEW h \in 0 .. height
             PROVE  /\ HistoryAt(h) = StoodAt(h).history
                    /\ Rebuilt(HistoryAt(h)) = StoodAt(h).records
                    /\ IsPoolAt(h, StoodAt(h).live)
                    /\ EstablishedAt(h) = StoodAt(h).established
  BY DEF RewindExact
<1>1. HistoryStood(h) /\ RecordsStood(h) /\ PoolStood(h) /\ ClosedStood(h)
  BY DEF Inv, Stood
<1>2. HistoryAt(h) = StoodAt(h).history
  <2> DEFINE old == StoodAt(h).history
  <2>1. old \in [Names -> Seq(NameRecord)]
    BY <1>1 DEF HistoryStood
  <2>2. ASSUME NEW n \in Names
        PROVE  SubSeq(history[n], 1, KeptLength(history[n], h)) = old[n]
    <3>1. history[n] \in Seq(NameRecord) /\ old[n] \in Seq(NameRecord)
          /\ Len(old[n]) \in Nat /\ h \in Nat /\ Len(history[n]) \in Nat
      BY <2>1 DEF Inv, BaseType
    <3>2. Kept(history[n], h, Len(old[n]))
          /\ \A i \in 1 .. Len(old[n]) : old[n][i] = history[n][i]
      BY <1>1 DEF HistoryStood
    <3>3. \A i \in 1 .. Len(history[n]) : history[n][i].confirmed_height \in Nat
      BY <3>1, HeightsAreNat
    <3>4. KeptLength(history[n], h) = Len(old[n])
      BY <3>1, <3>2, <3>3, KeptLengthUnique
    <3> DEFINE cut == SubSeq(history[n], 1, Len(old[n]))
    <3>5. \A i \in 1 .. Len(old[n]) : history[n][i] \in NameRecord
      BY <3>1, <3>2, ElementOfSeq
    <3>6. cut \in Seq(NameRecord) /\ Len(cut) = Len(old[n])
          /\ \A i \in 1 .. Len(old[n]) : cut[i] = history[n][i]
      BY <3>1, <3>5, SubSeqProperties
    <3> HIDE DEF cut
    <3>7. cut = old[n]
      BY <3>1, <3>2, <3>6, SeqEqual
    <3> QED
      BY <3>4, <3>7 DEF cut
  <2> QED
    BY <2>1, <2>2 DEF HistoryAt
<1> QED
  BY <1>1, <1>2 DEF RecordsStood, PoolStood, ClosedStood

-----------------------------------------------------------------------------
(***************************************************************************)
(* Steps.  Whatever the verdict, a transaction appends at most one record  *)
(* of the current height to each history (HistoryStep) and changes the     *)
(* pool only under a checkpoint of the current height (PoolStep).          *)
(***************************************************************************)
HistoryStep ==
    /\ history' \in [Names -> Seq(NameRecord)]
    /\ \A n \in Names :
         \/ history'[n] = history[n]
         \/ \E r \in NameRecord :
              r.confirmed_height = height /\ history'[n] = Append(history[n], r)
    /\ targets' \in [Names -> Seq(Nat)]
    /\ \A n \in Names : Len(targets'[n]) = Len(history'[n])
    /\ records' = Rebuilt(history')

PoolStep ==
    /\ live' \in SUBSET Nullifiers
    /\ \/ live' = live /\ checkpoints' = checkpoints
       \/ Checkpoint(live')
    /\ \/ established' = established
       \/ established = 0 /\ established' = height

LEMMA CurrentStood ==
    ASSUME Inv
    PROVE  /\ height \in Nat
           /\ history \in [Names -> Seq(NameRecord)]
           /\ records = Rebuilt(history)
           /\ IsPoolAt(height, live)
           /\ \A n \in Names : Kept(history[n], height, Len(history[n]))
<1>1. height \in 0 .. height
  BY DEF Inv, BaseType
<1>2. HistoryStood(height) /\ RecordsStood(height) /\ PoolStood(height)
  BY <1>1 DEF Inv, Stood
<1>3. StoodAt(height) = Snapshot
  BY DEF StoodAt
<1> QED
  BY <1>2, <1>3
  DEF HistoryStood, RecordsStood, PoolStood, Snapshot, Inv, BaseType

LEMMA SetRecordStep ==
    ASSUME Inv, NEW r \in NameRecord, r.confirmed_height = height,
           NEW target \in Nat, SetRecord(r, target)
    PROVE  HistoryStep
<1> DEFINE m == r.name
<1>1. m \in Names
  BY DEF NameRecord
<1>2. history \in [Names -> Seq(NameRecord)] /\ targets \in [Names -> Seq(Nat)]
      /\ \A n \in Names : Len(targets[n]) = Len(history[n])
  BY DEF Inv, BaseType
<1>3. history' = [history EXCEPT ![m] = Append(history[m], r)]
      /\ targets' = [targets EXCEPT ![m] = Append(targets[m], target)]
  BY DEF SetRecord
<1>4. /\ Append(history[m], r) \in Seq(NameRecord)
      /\ Append(history[m], r) # << >>
      /\ Len(Append(history[m], r)) = Len(history[m]) + 1
      /\ Append(history[m], r)[Len(history[m]) + 1] = r
  BY <1>1, <1>2, AppendProperties
<1>5. Append(targets[m], target) \in Seq(Nat)
      /\ Len(Append(targets[m], target)) = Len(targets[m]) + 1
  BY <1>1, <1>2, AppendProperties
<1>6. /\ history' \in [Names -> Seq(NameRecord)]
      /\ history'[m] = Append(history[m], r)
      /\ \A n \in Names \ {m} : history'[n] = history[n]
  BY <1>1, <1>2, <1>3, <1>4
<1>7. /\ targets' \in [Names -> Seq(Nat)]
      /\ \A n \in Names : Len(targets'[n]) = Len(history'[n])
  BY <1>1, <1>2, <1>3, <1>4, <1>5
<1>8. records' = Rebuilt(history')
  <2> DEFINE D == {n \in Names : history[n] # << >>
                     /\ history[n][Len(history[n])].action # "release"}
             E == {n \in Names : history'[n] # << >>
                     /\ history'[n][Len(history'[n])].action # "release"}
  <2>1. records = [n \in D |-> history[n][Len(history[n])]] /\ DOMAIN records = D
    BY CurrentStood DEF Rebuilt
  <2>2. Rebuilt(history') = [n \in E |-> history'[n][Len(history'[n])]]
    BY DEF Rebuilt
  <2>3. history'[m][Len(history'[m])] = r /\ history'[m] # << >>
    BY <1>4, <1>6
  <2>4. CASE r.action = "release"
    <3>1. E = D \ {m}
      BY <1>1, <1>6, <2>3, <2>4
    <3>2. records' = [n \in D \ {m} |-> records[n]]
      BY <2>1, <2>4 DEF SetRecord
    <3> QED
      BY <2>1, <2>2, <3>1, <3>2, <1>6
  <2>5. CASE r.action # "release"
    <3>1. E = D \cup {m}
      BY <1>1, <1>6, <2>3, <2>5
    <3>2. records' = [n \in D \cup {m} |-> IF n = m THEN r ELSE records[n]]
      BY <2>1, <2>5 DEF SetRecord
    <3> QED
      BY <2>1, <2>2, <2>3, <3>1, <3>2, <1>6
  <2> QED
    BY <2>4, <2>5
<1> QED
  BY <1>6, <1>7, <1>8 DEF HistoryStep

LEMMA MarkReleasedStep ==
    ASSUME Inv, NEW nfs, NEW target \in Nat, MarkReleased(nfs, target)
    PROVE  HistoryStep
<1> DEFINE gone == NamesSpentBy(nfs)
           Copy(n) == [records[n] EXCEPT !.action = "release",
                                         !.confirmed_height = height]
<1>1. history \in [Names -> Seq(NameRecord)] /\ targets \in [Names -> Seq(Nat)]
      /\ (\A n \in Names : Len(targets[n]) = Len(history[n])) /\ height \in Nat
  BY DEF Inv, BaseType
<1>2. records = Rebuilt(history) /\ DOMAIN records \subseteq Names
  BY <1>1, CurrentStood, RebuiltType
<1>3. gone \subseteq DOMAIN records /\ gone \subseteq Names
  BY <1>2 DEF NamesSpentBy
<1>4. ASSUME NEW n \in gone
      PROVE  /\ Copy(n) \in NameRecord
             /\ Copy(n).confirmed_height = height
             /\ Copy(n).action = "release"
  <2>1. records[n] \in NameRecord
    BY <1>1, <1>2, <1>3, RebuiltType
  <2> QED
    BY <2>1, <1>1 DEF NameRecord, Verbs
<1>5. ASSUME NEW n \in gone
      PROVE  /\ Append(history[n], Copy(n)) \in Seq(NameRecord)
             /\ Append(history[n], Copy(n)) # << >>
             /\ Len(Append(history[n], Copy(n))) = Len(history[n]) + 1
             /\ Append(history[n], Copy(n))[Len(history[n]) + 1] = Copy(n)
             /\ Append(targets[n], target) \in Seq(Nat)
             /\ Len(Append(targets[n], target)) = Len(targets[n]) + 1
  <2>1. Copy(n) \in NameRecord /\ n \in Names
    BY <1>3, <1>4
  <2> HIDE DEF Copy
  <2> QED
    BY <2>1, <1>1, AppendProperties
<1>6. /\ history' = [n \in Names |->
                     IF n \in gone THEN Append(history[n], Copy(n)) ELSE history[n]]
      /\ targets' = [n \in Names |->
                     IF n \in gone THEN Append(targets[n], target) ELSE targets[n]]
      /\ records' = [n \in DOMAIN records \ gone |-> records[n]]
  BY DEF MarkReleased
<1> HIDE DEF gone, Copy
<1>7. /\ history' \in [Names -> Seq(NameRecord)]
      /\ targets' \in [Names -> Seq(Nat)]
      /\ \A n \in Names : Len(targets'[n]) = Len(history'[n])
  BY <1>1, <1>5, <1>6
<1>8. ASSUME NEW n \in Names
      PROVE  \/ history'[n] = history[n]
             \/ \E r \in NameRecord :
                  r.confirmed_height = height /\ history'[n] = Append(history[n], r)
  BY <1>4, <1>6
<1>9. records' = Rebuilt(history')
  <2> DEFINE D == {n \in Names : history[n] # << >>
                     /\ history[n][Len(history[n])].action # "release"}
             E == {n \in Names : history'[n] # << >>
                     /\ history'[n][Len(history'[n])].action # "release"}
  <2>1. records = [n \in D |-> history[n][Len(history[n])]] /\ DOMAIN records = D
    BY <1>2 DEF Rebuilt
  <2>2. Rebuilt(history') = [n \in E |-> history'[n][Len(history'[n])]]
    BY DEF Rebuilt
  <2>3. \A n \in gone : /\ history'[n][Len(history'[n])].action = "release"
    BY <1>3, <1>4, <1>5, <1>6
  <2>4. \A n \in Names \ gone : history'[n] = history[n]
    BY <1>6
  <2>5. E = D \ gone
    BY <2>3, <2>4
  <2> QED
    BY <2>1, <2>2, <2>4, <2>5, <1>6
<1> QED
  BY <1>7, <1>8, <1>9 DEF HistoryStep

LEMMA RetireSpentStep ==
    ASSUME Inv, NEW nfs, NEW successor \in Nullifiers \cup {NoNf},
           RetireSpent(nfs, successor)
    PROVE  PoolStep
<1>1. live \in SUBSET Nullifiers
  BY DEF Inv, BaseType
<1>2. live' \in SUBSET Nullifiers
  BY <1>1, ConstantsAssumption DEF RetireSpent
<1>3. CASE nfs \cap live # {}
  BY <1>2, <1>3 DEF RetireSpent, PoolStep
<1>4. CASE nfs \cap live = {}
  <2>1. live' = live /\ checkpoints' = checkpoints /\ established' = established
    BY <1>4 DEF RetireSpent
  <2> QED
    BY <2>1, <1>2 DEF PoolStep
<1> QED
  BY <1>3, <1>4

LEMMA AdoptAnchorsStep ==
    ASSUME Inv, NEW outs \in SUBSET Nullifiers, AdoptAnchors(outs)
    PROVE  PoolStep
<1>1. live \in SUBSET Nullifiers
  BY DEF Inv, BaseType
<1>2. CASE established # 0 \/ Cardinality(live) >= PoolSize
  BY <1>1, <1>2 DEF AdoptAnchors, PoolStep
<1>3. CASE ~(established # 0 \/ Cardinality(live) >= PoolSize)
  <2>1. PICK joined \in SUBSET outs :
           /\ live' = live \cup joined
           /\ established' = height
           /\ Checkpoint(live \cup joined)
    BY <1>3 DEF AdoptAnchors
  <2> QED
    BY <1>1, <1>3, <2>1 DEF PoolStep
<1> QED
  BY <1>2, <1>3

LEMMA UnchangedHistoryStep ==
    ASSUME Inv, UNCHANGED <<records, history, targets>>
    PROVE  HistoryStep
<1>1. records = Rebuilt(history)
  BY CurrentStood
<1>2. Rebuilt(history') = Rebuilt(history)
  BY DEF Rebuilt
<1> QED
  BY <1>1, <1>2 DEF HistoryStep, Inv, BaseType

(* A transaction preserves Inv, whatever it writes within those limits. *)
LEMMA TxPreservesInv ==
    ASSUME Inv, NEW nfs, NEW outs, Mine(nfs, outs), HistoryStep, PoolStep
    PROVE  Inv'
<1>1. /\ height' = height /\ snap' = snap /\ mtp' = mtp /\ height \in Nat /\ height > 0
      /\ height \in 1 .. height
  BY DEF Mine, Inv, BaseType
<1>2. DOMAIN checkpoints \subseteq 1 .. height
      /\ checkpoints \in [DOMAIN checkpoints -> SUBSET Nullifiers]
      /\ established \in 0 .. height
  BY DEF Inv, BaseType
<1>3. BaseType'
  <2>1. born' \in [Nullifiers -> 0 .. height] /\ spentAt' \in [Nullifiers -> 0 .. height]
    BY <1>1 DEF Mine, Inv, BaseType
  <2>2. /\ DOMAIN checkpoints' \subseteq 1 .. height
        /\ checkpoints' \in [DOMAIN checkpoints' -> SUBSET Nullifiers]
    <3>1. CASE checkpoints' = checkpoints
      BY <3>1, <1>2
    <3>2. CASE Checkpoint(live')
      <4>1. /\ checkpoints' = [h \in DOMAIN checkpoints \cup {height} |->
                               IF h = height THEN live' ELSE checkpoints[h]]
            /\ live' \in SUBSET Nullifiers
        BY <3>2 DEF Checkpoint, PoolStep
      <4> QED
        BY <4>1, <1>1, <1>2
    <3> QED
      BY <3>1, <3>2 DEF PoolStep
  <2>3. established' \in 0 .. height
    BY <1>1, <1>2 DEF PoolStep
  <2> QED
    BY <1>1, <2>1, <2>2, <2>3 DEF BaseType, HistoryStep, PoolStep, Inv
<1>4. ASSUME NEW h \in 0 .. height, h # height
      PROVE  StoodAt(h)' = snap[h] /\ StoodAt(h) = snap[h]
  BY <1>1, <1>4 DEF StoodAt
<1>5. ASSUME NEW h \in 0 .. height, h = height
      PROVE  StoodAt(h)' = Snapshot'
  BY <1>1, <1>5 DEF StoodAt
<1>6. ASSUME NEW h \in 0 .. height
      PROVE  HistoryStood(h)'
  <2>1. ASSUME NEW n \in Names
        PROVE  LET old == StoodAt(h)'.history[n] IN
               /\ old \in Seq(NameRecord)
               /\ Kept(history'[n], h, Len(old))
               /\ \A i \in 1 .. Len(old) : old[i] = history'[n][i]
    <3>0. history[n] \in Seq(NameRecord) /\ history'[n] \in Seq(NameRecord)
          /\ Len(history[n]) \in Nat /\ Len(history'[n]) \in Nat
      BY DEF HistoryStep, Inv, BaseType
    <3>1. Len(history'[n]) = Len(history[n]) \/ Len(history'[n]) = Len(history[n]) + 1
      BY <3>0, AppendProperties DEF HistoryStep
    <3>2. /\ Len(history'[n]) = Len(history[n]) + 1 =>
               history'[n][Len(history[n]) + 1].confirmed_height = height
          /\ \A i \in 1 .. Len(history[n]) : history'[n][i] = history[n][i]
      <4>1. CASE history'[n] = history[n]
        BY <4>1, <3>0
      <4>2. CASE \E r \in NameRecord :
                    r.confirmed_height = height /\ history'[n] = Append(history[n], r)
        BY <4>2, <3>0, AppendProperties
      <4> QED
        BY <4>1, <4>2 DEF HistoryStep
    <3>3. CASE h = height
      <4>1. StoodAt(h)'.history = history'
        BY <3>3, <1>5 DEF Snapshot
      <4>2. Kept(history[n], height, Len(history[n]))
        BY CurrentStood
      <4>3. Kept(history'[n], height, Len(history'[n]))
        BY <4>2, <3>0, <3>1, <3>2, <1>1 DEF Kept
      <4> QED
        BY <4>1, <4>3, <3>0, <3>3
    <3>4. CASE h # height
      <4>1. StoodAt(h)' = snap[h] /\ StoodAt(h) = snap[h]
        BY <3>4, <1>4
      <4> DEFINE old == snap[h].history[n]
      <4>2. /\ old \in Seq(NameRecord)
            /\ Kept(history[n], h, Len(old))
            /\ \A i \in 1 .. Len(old) : old[i] = history[n][i]
        <5>1. HistoryStood(h)
          BY DEF Inv, Stood
        <5> QED
          BY <5>1, <4>1 DEF HistoryStood
      <4> HIDE DEF old
      <4>3. Kept(history'[n], h, Len(old))
        <5>1. h < height
          BY <3>4, <1>1
        <5>2. Len(old) \in 0 .. Len(history[n])
          BY <4>2 DEF Kept
        <5>3. \A i \in (Len(old) + 1) .. Len(history'[n]) :
                 history'[n][i].confirmed_height > h
          BY <5>1, <5>2, <4>2, <3>0, <3>1, <3>2, <1>1 DEF Kept
        <5> QED
          BY <5>2, <5>3, <4>2, <3>0, <3>1, <3>2 DEF Kept
      <4>4. \A i \in 1 .. Len(old) : old[i] = history'[n][i]
        BY <4>2, <3>0, <3>2 DEF Kept
      <4> QED
        BY <4>1, <4>2, <4>3, <4>4 DEF old
    <3> QED
      BY <3>3, <3>4
  <2>2. StoodAt(h)'.history \in [Names -> Seq(NameRecord)]
    <3>1. CASE h = height
      BY <3>1, <1>5 DEF Snapshot, HistoryStep
    <3>2. CASE h # height
      <4>1. HistoryStood(h)
        BY DEF Inv, Stood
      <4> QED
        BY <3>2, <1>4, <4>1 DEF HistoryStood
    <3> QED
      BY <3>1, <3>2
  <2> QED
    BY <2>1, <2>2 DEF HistoryStood, Kept
<1>7. ASSUME NEW h \in 0 .. height
      PROVE  RecordsStood(h)'
  <2>1. CASE h = height
    <3>1. StoodAt(h)'.records = records' /\ StoodAt(h)'.history = history'
      BY <2>1, <1>5 DEF Snapshot
    <3>2. records' = Rebuilt(history')
      BY DEF HistoryStep
    <3> QED
      BY <3>1, <3>2 DEF RecordsStood
  <2>2. CASE h # height
    <3>1. RecordsStood(h)
      BY DEF Inv, Stood
    <3> QED
      BY <2>2, <1>4, <3>1 DEF RecordsStood, Rebuilt
  <2> QED
    BY <2>1, <2>2
<1>8. ASSUME NEW h \in 0 .. height
      PROVE  PoolStood(h)'
  <2>1. CASE h = height
    <3>1. StoodAt(h)'.live = live'
      BY <2>1, <1>5 DEF Snapshot
    <3>2. IsPoolAt(height, live)'
      <4>1. CASE live' = live /\ checkpoints' = checkpoints
        BY <4>1, <1>1, CurrentStood DEF IsPoolAt
      <4>2. CASE Checkpoint(live')
        <5>1. checkpoints' = [k \in DOMAIN checkpoints \cup {height} |->
                               IF k = height THEN live' ELSE checkpoints[k]]
          BY <4>2 DEF Checkpoint
        <5>2. height \in DOMAIN checkpoints' /\ checkpoints'[height] = live'
          BY <5>1
        <5> QED
          BY <5>2, <1>1 DEF IsPoolAt
      <4> QED
        BY <4>1, <4>2 DEF PoolStep
    <3> QED
      BY <2>1, <3>1, <3>2, <1>1 DEF PoolStood, PoolStep, IsPoolAt
  <2>2. CASE h # height
    <3>1. PoolStood(h) /\ StoodAt(h)' = StoodAt(h) /\ h < height
      BY <2>2, <1>1, <1>4 DEF Inv, Stood
    <3>2. CASE checkpoints' = checkpoints
      BY <3>1, <3>2 DEF PoolStood, IsPoolAt
    <3>3. CASE Checkpoint(live')
      <4>1. checkpoints' = [k \in DOMAIN checkpoints \cup {height} |->
                             IF k = height THEN live' ELSE checkpoints[k]]
        BY <3>3 DEF Checkpoint
      <4>2. \A k : k \in DOMAIN checkpoints' /\ k <= h <=>
                    k \in DOMAIN checkpoints /\ k <= h
        BY <4>1, <3>1, <1>1, <1>2
      <4>3. \A k \in DOMAIN checkpoints : k <= h => checkpoints'[k] = checkpoints[k]
        BY <4>1, <3>1, <1>1, <1>2
      <4>4. \A k \in DOMAIN checkpoints' : k \in Nat
        BY <4>1, <1>1, <1>2
      <4> QED
        BY <3>1, <4>2, <4>3, <4>4, <1>2 DEF PoolStood, IsPoolAt
    <3> QED
      BY <3>2, <3>3 DEF PoolStep
  <2> QED
    BY <2>1, <2>2
<1>9. ASSUME NEW h \in 0 .. height
      PROVE  ClosedStood(h)'
  <2>1. CASE h = height
    <3>1. established' \in 0 .. height
      BY <1>1, <1>2 DEF PoolStep
    <3> QED
      BY <2>1, <3>1, <1>1, <1>5 DEF ClosedStood, EstablishedAt, Snapshot
  <2>2. CASE h # height
    <3>1. ClosedStood(h) /\ StoodAt(h)' = StoodAt(h) /\ h < height /\ h \in Nat
      BY <2>2, <1>1, <1>4 DEF Inv, Stood
    <3> QED
      BY <3>1, <1>1, <1>2 DEF ClosedStood, EstablishedAt, PoolStep
  <2> QED
    BY <2>1, <2>2
<1> QED
  BY <1>1, <1>3, <1>6, <1>7, <1>8, <1>9 DEF Inv, Stood

(* A new block files the Registry of the old tip and changes none of it. *)
LEMMA NewBlockPreservesInv ==
    ASSUME Inv, NEW t \in Nat, NewBlock(t)
    PROVE  Inv'
<1>1. /\ height \in Nat /\ height' = height + 1
      /\ snap' = [h \in 0 .. height |-> IF h = height THEN Snapshot ELSE snap[h]]
      /\ UNCHANGED <<records, history, live, checkpoints, established, born, spentAt, targets>>
  BY DEF NewBlock, registryVars, Inv, BaseType
<1>2. BaseType'
  <2>1. mtp' \in [0 .. height' -> Nat]
    BY <1>1 DEF NewBlock, Inv, BaseType
  <2>2. DOMAIN snap' = 0 .. height' - 1
    BY <1>1
  <2> QED
    BY <1>1, <2>1, <2>2 DEF Inv, BaseType
<1>3. ASSUME NEW h \in 0 .. height
      PROVE  StoodAt(h)' = StoodAt(h)
  BY <1>1 DEF StoodAt
<1>4. ASSUME NEW h \in 0 .. height', h = height + 1
      PROVE  StoodAt(h)' = Snapshot
  BY <1>1, <1>4 DEF StoodAt, Snapshot
<1>5. ASSUME NEW h \in 0 .. height
      PROVE  (HistoryStood(h) /\ RecordsStood(h) /\ PoolStood(h) /\ ClosedStood(h))'
  <2>1. HistoryStood(h) /\ RecordsStood(h) /\ PoolStood(h) /\ ClosedStood(h)
    BY DEF Inv, Stood
  <2>2. HistoryStood(h)'
    BY <1>1, <1>3, <2>1 DEF HistoryStood, Kept
  <2>3. RecordsStood(h)'
    BY <1>3, <2>1 DEF RecordsStood
  <2>4. PoolStood(h)'
    BY <1>1, <1>3, <2>1 DEF PoolStood, IsPoolAt
  <2>5. ClosedStood(h)'
    BY <1>1, <1>3, <2>1 DEF ClosedStood, EstablishedAt
  <2> QED
    BY <2>2, <2>3, <2>4, <2>5
<1>6. ASSUME NEW h \in 0 .. height', h = height + 1
      PROVE  (HistoryStood(h) /\ RecordsStood(h) /\ PoolStood(h) /\ ClosedStood(h))'
  <2>1. /\ StoodAt(h)'.history = history /\ StoodAt(h)'.records = records
        /\ StoodAt(h)'.live = live /\ StoodAt(h)'.established = established
    BY <1>4, <1>6 DEF Snapshot
  <2>2. /\ history \in [Names -> Seq(NameRecord)] /\ records = Rebuilt(history)
        /\ IsPoolAt(height, live)
        /\ \A n \in Names : Kept(history[n], height, Len(history[n]))
    BY CurrentStood
  <2>3. DOMAIN checkpoints \subseteq 1 .. height /\ established \in 0 .. height
        /\ live \in SUBSET Nullifiers
    BY DEF Inv, BaseType
  <2>4. HistoryStood(h)'
    <3>1. ASSUME NEW n \in Names
          PROVE  Kept(history[n], h, Len(history[n]))
      <4>1. Kept(history[n], height, Len(history[n])) /\ Len(history[n]) \in Nat
            /\ \A i \in 1 .. Len(history[n]) : history[n][i].confirmed_height \in Nat
        BY <2>2, HeightsAreNat
      <4> QED
        BY <4>1, <1>1, <1>6 DEF Kept
    <3> QED
      BY <3>1, <2>1, <2>2, <1>1 DEF HistoryStood, Kept
  <2>5. RecordsStood(h)'
    BY <2>1, <2>2 DEF RecordsStood
  <2>6. PoolStood(h)'
    BY <2>1, <2>2, <2>3, <1>1, <1>6 DEF PoolStood, IsPoolAt
  <2>7. ClosedStood(h)'
    BY <2>1, <2>3, <1>1, <1>6 DEF ClosedStood, EstablishedAt
  <2> QED
    BY <2>4, <2>5, <2>6, <2>7
<1>7. \A h \in 0 .. height' : h \in 0 .. height \/ h = height + 1
  BY <1>1
<1> QED
  BY <1>2, <1>5, <1>6, <1>7 DEF Inv, Stood

(* A rewind to h0 puts back, field by field, the Registry that stood there. *)
LEMMA TruncateRestores ==
    ASSUME Inv, NEW h0 \in 0 .. height - 1, Truncate(h0)
    PROVE  /\ history' = snap[h0].history /\ records' = snap[h0].records
           /\ live' = snap[h0].live /\ established' = snap[h0].established
<1>1. height \in Nat /\ h0 \in Nat /\ h0 \in 0 .. height /\ StoodAt(h0) = snap[h0]
      /\ DOMAIN checkpoints \subseteq Nat
  BY DEF StoodAt, Inv, BaseType
<1>2. RewindExact
  BY InvGivesRewindExact
<1>3. /\ HistoryAt(h0) = snap[h0].history
      /\ Rebuilt(HistoryAt(h0)) = snap[h0].records
      /\ EstablishedAt(h0) = snap[h0].established
      /\ IsPoolAt(h0, snap[h0].live)
  BY <1>1, <1>2 DEF RewindExact
<1>4. snap[h0].live \in SUBSET Nullifiers
  <2>1. PoolStood(h0)
    BY <1>1 DEF Inv, Stood
  <2> QED
    BY <2>1, <1>1 DEF PoolStood
<1>5. live' = snap[h0].live
  <2>1. live' = CHOOSE pool \in SUBSET Nullifiers : IsPoolAt(h0, pool)
    BY DEF Truncate
  <2>2. IsPoolAt(h0, live')
    BY <2>1, <1>3, <1>4
  <2> QED
    BY <2>2, <1>1, <1>3, PoolAtUnique
<1> QED
  BY <1>3, <1>5 DEF Truncate

LEMMA TruncatePreservesInv ==
    ASSUME Inv, NEW h0 \in 0 .. height - 1, Truncate(h0)
    PROVE  Inv'
<1>1. /\ height \in Nat /\ h0 \in Nat /\ h0 < height /\ height' = h0
      /\ mtp' = [k \in 0 .. h0 |-> mtp[k]]
      /\ snap' = [k \in 0 .. h0 - 1 |-> snap[k]]
      /\ checkpoints' = [k \in {j \in DOMAIN checkpoints : j <= h0} |-> checkpoints[k]]
      /\ established' = EstablishedAt(h0)
  BY DEF Truncate, Inv, BaseType
<1>2. /\ history' = snap[h0].history /\ records' = snap[h0].records
      /\ live' = snap[h0].live /\ established' = snap[h0].established
  BY TruncateRestores
<1>3. DOMAIN checkpoints \subseteq 1 .. height /\ established \in 0 .. height
      /\ checkpoints \in [DOMAIN checkpoints -> SUBSET Nullifiers]
  BY DEF Inv, BaseType
<1>4. ASSUME NEW h \in 0 .. h0
      PROVE  /\ StoodAt(h) = snap[h]
             /\ StoodAt(h)'.history = snap[h].history
             /\ StoodAt(h)'.records = snap[h].records
             /\ StoodAt(h)'.live = snap[h].live
             /\ StoodAt(h)'.established = snap[h].established
  <2>1. StoodAt(h) = snap[h]
    BY <1>1 DEF StoodAt
  <2>2. CASE h = h0
    BY <2>1, <2>2, <1>1, <1>2 DEF StoodAt, Snapshot
  <2>3. CASE h # h0
    BY <2>1, <2>3, <1>1 DEF StoodAt
  <2> QED
    BY <2>1, <2>2, <2>3
<1>5. ASSUME NEW h \in 0 .. h0
      PROVE  HistoryStood(h) /\ RecordsStood(h) /\ PoolStood(h) /\ ClosedStood(h)
  BY <1>1 DEF Inv, Stood
<1>6. h0 \in 0 .. h0
  BY <1>1
<1>7. ASSUME NEW n \in Names
      PROVE  LET cut == history'[n] IN
             /\ cut \in Seq(NameRecord) /\ Len(cut) \in Nat
             /\ Kept(history[n], h0, Len(cut))
             /\ \A i \in 1 .. Len(cut) : cut[i] = history[n][i]
  <2>1. HistoryStood(h0) /\ StoodAt(h0) = snap[h0]
    BY <1>4, <1>5, <1>6
  <2> QED
    BY <2>1, <1>2 DEF HistoryStood
<1>8. BaseType'
  <2>1. mtp' \in [0 .. h0 -> Nat]
    BY <1>1 DEF Inv, BaseType
  <2>2. history' \in [Names -> Seq(NameRecord)] /\ live' \in SUBSET Nullifiers
    <3>1. HistoryStood(h0) /\ PoolStood(h0) /\ StoodAt(h0) = snap[h0]
      BY <1>4, <1>5, <1>6
    <3> QED
      BY <3>1, <1>2 DEF HistoryStood, PoolStood
  <2>3. /\ DOMAIN checkpoints' \subseteq 1 .. h0
        /\ checkpoints' \in [DOMAIN checkpoints' -> SUBSET Nullifiers]
    BY <1>1, <1>3
  <2>4. established' \in 0 .. h0
    BY <1>1, <1>3 DEF EstablishedAt
  <2>5. born' \in [Nullifiers -> 0 .. h0] /\ spentAt' \in [Nullifiers -> 0 .. h0]
    BY <1>1 DEF Truncate, Inv, BaseType
  <2>6. ASSUME NEW n \in Names
        PROVE  SubSeq(targets[n], 1, KeptLength(history[n], h0)) \in Seq(Nat)
               /\ Len(SubSeq(targets[n], 1, KeptLength(history[n], h0))) = Len(history'[n])
    <3>1. history[n] \in Seq(NameRecord) /\ targets[n] \in Seq(Nat)
          /\ Len(targets[n]) = Len(history[n])
          /\ Len(history[n]) \in Nat
      BY DEF Inv, BaseType
    <3>2. KeptLength(history[n], h0) = Len(history'[n])
      BY <3>1, <1>1, <1>7, HeightsAreNat, KeptLengthUnique
    <3>3. Len(history'[n]) \in 0 .. Len(targets[n])
      BY <3>1, <1>7 DEF Kept
    <3>4. \A i \in 1 .. Len(history'[n]) : targets[n][i] \in Nat
      BY <3>1, <3>3, ElementOfSeq
    <3> QED
      BY <3>2, <3>3, <3>4, SubSeqProperties
  <2>7. targets' \in [Names -> Seq(Nat)]
        /\ \A n \in Names : Len(targets'[n]) = Len(history'[n])
    BY <2>6 DEF Truncate
  <2> QED
    BY <1>1, <2>1, <2>2, <2>3, <2>4, <2>5, <2>7 DEF BaseType
<1>9. ASSUME NEW h \in 0 .. h0
      PROVE  HistoryStood(h)'
  <2>1. /\ snap[h].history \in [Names -> Seq(NameRecord)]
        /\ \A n \in Names :
             /\ Kept(history[n], h, Len(snap[h].history[n]))
             /\ \A i \in 1 .. Len(snap[h].history[n]) :
                  snap[h].history[n][i] = history[n][i]
    BY <1>4, <1>5 DEF HistoryStood
  <2>2. ASSUME NEW n \in Names
        PROVE  LET old == snap[h].history[n] IN
               /\ Kept(history'[n], h, Len(old))
               /\ \A i \in 1 .. Len(old) : old[i] = history'[n][i]
    <3> DEFINE old == snap[h].history[n]
               cut == history'[n]
               s == history[n]
    <3>1. /\ Kept(s, h, Len(old)) /\ Kept(s, h0, Len(cut))
          /\ (\A i \in 1 .. Len(old) : old[i] = s[i])
          /\ (\A i \in 1 .. Len(cut) : cut[i] = s[i])
          /\ Len(cut) \in Nat
      BY <2>1, <1>7
    <3>2. s \in Seq(NameRecord) /\ Len(s) \in Nat /\ old \in Seq(NameRecord)
          /\ Len(old) \in Nat
      BY <2>1 DEF Inv, BaseType
    <3>3. \A i \in 1 .. Len(s) : s[i].confirmed_height \in Nat
      BY <3>2, HeightsAreNat
    <3> HIDE DEF old, cut, s
    <3>4. Len(old) <= Len(cut)
      BY <3>1, <3>2, <3>3, <1>1 DEF Kept
    <3>5. Kept(cut, h, Len(old))
      BY <3>1, <3>2, <3>4 DEF Kept
    <3>6. \A i \in 1 .. Len(old) : old[i] = cut[i]
      BY <3>1, <3>2, <3>4
    <3> QED
      BY <3>5, <3>6 DEF old, cut
  <2>3. StoodAt(h)'.history = snap[h].history
        /\ snap[h].history \in [Names -> Seq(NameRecord)]
    BY <2>1, <1>4
  <2> QED
    BY <2>2, <2>3 DEF HistoryStood, Kept
<1>10. ASSUME NEW h \in 0 .. h0
       PROVE  RecordsStood(h)'
  BY <1>4, <1>5 DEF RecordsStood
<1>11. ASSUME NEW h \in 0 .. h0
       PROVE  PoolStood(h)'
  <2>1. snap[h].live \in SUBSET Nullifiers /\ IsPoolAt(h, snap[h].live)
    BY <1>4, <1>5 DEF PoolStood
  <2>2. \A k : k \in DOMAIN checkpoints' /\ k <= h <=> k \in DOMAIN checkpoints /\ k <= h
    BY <1>1, <1>3
  <2>3. \A k \in DOMAIN checkpoints' : k \in Nat /\ checkpoints'[k] = checkpoints[k]
    BY <1>1, <1>3
  <2> QED
    BY <2>1, <2>2, <2>3, <1>1, <1>3, <1>4 DEF PoolStood, IsPoolAt
<1>12. ASSUME NEW h \in 0 .. h0
       PROVE  ClosedStood(h)'
  BY <1>1, <1>3, <1>4, <1>5 DEF ClosedStood, EstablishedAt
<1> QED
  BY <1>1, <1>8, <1>9, <1>10, <1>11, <1>12 DEF Inv, Stood

(* The notes a transaction may carry are Name Notes, and so are records. *)
LEMMA CreateRecordType ==
    ASSUME Inv, NEW note \in NameNote, NEW nf \in Nullifiers
    PROVE  /\ CreateRecord(note, nf, mtp[height]) \in NameRecord
           /\ CreateRecord(note, nf, mtp[height]).confirmed_height = height
<1>1. height \in Nat /\ mtp[height] \in Nat
  BY DEF Inv, BaseType
<1>2. mtp[height] + Liveness \in Nat
  BY <1>1, ConstantsAssumption
<1>3. note.prev \in Seq(Transition)
      /\ <<note.action, note.name, note.ua, note.expires_at>> \in Transition
  BY DEF NameNote, NameCommitment, Transition
<1>4. Commitment(note) \in NameCommitment
  BY <1>3, AppendProperties DEF Commitment, NameCommitment
<1> HIDE DEF Commitment
<1> QED
  BY <1>1, <1>2, <1>4 DEF CreateRecord, NameRecord, NameNote

LEMMA ClaimNoteType ==
    ASSUME NEW n \in Names, NEW ua \in Addrs, NEW e \in ExpiryValues
    PROVE  ClaimNote(n, ua, e) \in NameNote
<1>1. NoPrev \in NameCommitment
  BY EmptySeq DEF NoPrev, NameCommitment
<1> QED
  BY <1>1 DEF ClaimNote, NameNote, Verbs

LEMMA ReleaseNoteType ==
    ASSUME NEW n \in Names, NEW ua \in Addrs, NEW p \in NameCommitment
    PROVE  ReleaseNote(n, ua, p) \in NameNote
BY DEF ReleaseNote, NameNote, Verbs, ExpiryValues

LEMMA SuccessorNoteType ==
    ASSUME Inv, NEW n \in Names, NEW note \in SuccessorNotes(n)
    PROVE  note \in NameNote
<1>1. KnownCommitments(n) \subseteq NameCommitment
  <2>1. history[n] \in Seq(NameRecord) /\ DOMAIN history[n] = 1 .. Len(history[n])
    BY DEF Inv, BaseType
  <2>2. \A i \in 1 .. Len(history[n]) : history[n][i] \in NameRecord
    BY <2>1, ElementOfSeq
  <2> QED
    BY <2>1, <2>2 DEF KnownCommitments, NameRecord
<1>2. \A ua \in Addrs, p \in KnownCommitments(n) :
        /\ ReleaseNote(n, ua, p) \in NameNote
        /\ \A e \in ExpiryValues :
             UpdateNote(n, ua, e, p) \in NameNote /\ SaleNote(n, ua, e, p) \in NameNote
  BY <1>1 DEF UpdateNote, SaleNote, ReleaseNote, NameNote, Verbs, ExpiryValues
<1> QED
  BY <1>2 DEF SuccessorNotes

LEMMA ClaimTxStep ==
    ASSUME Inv, NEW note \in NameNote, NEW nf \in Nullifiers,
           NEW successor \in Nullifiers \cup {NoNf}, NEW nfs, NEW target \in Nat,
           AcceptClaim(note, nf, successor, nfs, target)
    PROVE  HistoryStep /\ PoolStep
<1>1. PoolStep
  <2>1. \E s \in {successor, NoNf} : RetireSpent(nfs, s)
    BY DEF AcceptClaim
  <2> QED
    BY <2>1, RetireSpentStep
<1>2. HistoryStep
  <2>1. CASE MarkReleased(nfs, target)
    BY <2>1, MarkReleasedStep
  <2>2. CASE UNCHANGED <<records, history, targets>>
    BY <2>2, UnchangedHistoryStep
  <2>3. CASE SetRecord(CreateRecord(note, nf, mtp[height]), target)
    BY <2>3, CreateRecordType, SetRecordStep
  <2> QED
    BY <2>1, <2>2, <2>3 DEF AcceptClaim
<1> QED
  BY <1>1, <1>2

LEMMA SucceedRecordStep ==
    ASSUME Inv, NEW note \in NameNote, NEW nf \in Nullifiers, NEW nfs,
           NEW target \in Nat, SucceedRecord(note, nf, nfs, target)
    PROVE  HistoryStep /\ PoolStep
<1>1. CASE FollowSpends(nfs, target)
  <2>1. RetireSpent(nfs, NoNf) /\ MarkReleased(nfs, target)
    BY <1>1 DEF FollowSpends
  <2> QED
    BY <2>1, RetireSpentStep, MarkReleasedStep
<1>2. CASE ~FollowSpends(nfs, target)
  <2> DEFINE record == records[note.name]
             written == IF note.prev = record.commitment THEN note
                        ELSE ReleaseNote(note.name, record.ua, record.commitment)
  <2>1. /\ PredecessorSpent(note, nfs)
        /\ SetRecord(CreateRecord(written, nf, mtp[height]), target)
        /\ UNCHANGED <<live, checkpoints, established>>
    BY <1>2 DEF SucceedRecord
  <2>2. records[note.name] \in NameRecord
    <3>1. note.name \in DOMAIN records
      BY <2>1 DEF PredecessorSpent, NamesSpentBy
    <3>2. records = Rebuilt(history) /\ history \in [Names -> Seq(NameRecord)]
      BY CurrentStood
    <3> QED
      BY <3>1, <3>2, RebuiltType
  <2>3. note.name \in Names /\ records[note.name].ua \in Addrs
        /\ records[note.name].commitment \in NameCommitment
    BY <2>2 DEF NameNote, NameRecord
  <2>4. written \in NameNote
    BY <2>3, ReleaseNoteType
  <2> HIDE DEF written
  <2>5. HistoryStep
    BY <2>1, <2>4, CreateRecordType, SetRecordStep
  <2>6. PoolStep
    BY <2>1 DEF PoolStep, Inv, BaseType
  <2> QED
    BY <2>5, <2>6
<1> QED
  BY <1>1, <1>2

-----------------------------------------------------------------------------
(***************************************************************************)
(* Theorems                                                                *)
(***************************************************************************)

LEMMA InitInv == Init => Inv
<1> SUFFICES ASSUME Init PROVE Inv
  OBVIOUS
<1>1. << >> \in Seq(NameRecord) /\ << >> \in Seq(Nat) /\ Len(<< >>) = 0
  BY EmptySeq
<1>2. BaseType
  BY <1>1 DEF Init, BaseType
<1>3. ASSUME NEW h \in 0 .. height
      PROVE  HistoryStood(h) /\ RecordsStood(h) /\ PoolStood(h) /\ ClosedStood(h)
  <2>1. h = 0 /\ StoodAt(h) = Snapshot
    BY DEF Init, StoodAt
  <2>2. HistoryStood(h)
    BY <1>1, <2>1 DEF HistoryStood, Kept, Snapshot, Init
  <2>3. RecordsStood(h)
    <3>1. {m \in Names : history[m] # << >>
                          /\ history[m][Len(history[m])].action # "release"} = {}
      BY DEF Init
    <3>2. Rebuilt(history) = [n \in {} |-> history[n][Len(history[n])]]
      BY <3>1 DEF Rebuilt
    <3>3. records = Rebuilt(history)
      BY <3>2 DEF Init
    <3> QED
      BY <2>1, <3>3 DEF RecordsStood, Snapshot
  <2>4. PoolStood(h)
    BY <2>1 DEF PoolStood, IsPoolAt, Snapshot, Init
  <2>5. ClosedStood(h)
    BY <2>1 DEF ClosedStood, EstablishedAt, Snapshot, Init
  <2> QED
    BY <2>2, <2>3, <2>4, <2>5
<1> QED
  BY <1>2, <1>3 DEF Inv, Stood

LEMMA NextInv == Inv /\ [Next]_vars => Inv'
<1> SUFFICES ASSUME Inv, [Next]_vars PROVE Inv'
  OBVIOUS
<1>0. height \in Nat
  BY DEF Inv, BaseType
<1>1. ASSUME NEW t \in 0 .. MaxTime, NewBlock(t)
      PROVE  Inv'
  BY <1>1, NewBlockPreservesInv
<1>2. ASSUME NEW outs \in SUBSET Unborn, CeremonyTx(outs)
      PROVE  Inv'
  <2>1. outs \in SUBSET Nullifiers
    BY DEF Unborn
  <2>2. Mine({}, outs) /\ AdoptAnchors(outs) /\ UNCHANGED <<records, history, targets>>
    BY <1>2 DEF CeremonyTx
  <2> QED
    BY <2>1, <2>2, AdoptAnchorsStep, UnchangedHistoryStep, TxPreservesInv
<1>3. ASSUME NEW n \in Names, NEW ua \in Addrs, NEW e \in ExpiryValues, NEW nf \in Unborn,
             NEW successor \in Unborn \cup {NoNf}, NEW nfs \in SUBSET Spendable,
             NEW target \in 1 .. height,
             ClaimTx(ClaimNote(n, ua, e), nf, successor, nfs, target)
      PROVE  Inv'
  <2>1. nf \in Nullifiers /\ successor \in Nullifiers \cup {NoNf} /\ target \in Nat
    BY <1>0 DEF Unborn
  <2>2. /\ Mine(nfs, {nf, successor} \ {NoNf})
        /\ AcceptClaim(ClaimNote(n, ua, e), nf, successor, nfs, target)
    BY <1>3 DEF ClaimTx
  <2>3. ClaimNote(n, ua, e) \in NameNote
    BY ClaimNoteType
  <2> QED
    BY <2>1, <2>2, <2>3, ClaimTxStep, TxPreservesInv
<1>4. ASSUME NEW n \in Names, NEW nf \in Unborn, NEW nfs \in SUBSET Spendable,
             NEW note \in SuccessorNotes(n), SuccessorTx(note, nf, nfs)
      PROVE  Inv'
  <2>1. nf \in Nullifiers /\ note \in NameNote
    BY SuccessorNoteType DEF Unborn
  <2>2. Mine(nfs, {nf}) /\ SucceedRecord(note, nf, nfs, height)
    BY <1>4 DEF SuccessorTx, AcceptUpdate, AcceptRelease, AcceptSale
  <2> QED
    BY <1>0, <2>1, <2>2, SucceedRecordStep, TxPreservesInv
<1>5. ASSUME NEW nfs \in SUBSET Spendable, OtherSpendTx(nfs)
      PROVE  Inv'
  <2>1. Mine(nfs, {}) /\ RetireSpent(nfs, NoNf) /\ MarkReleased(nfs, height)
    BY <1>5 DEF OtherSpendTx, FollowSpends
  <2> QED
    BY <1>0, <2>1, RetireSpentStep, MarkReleasedStep, TxPreservesInv
<1>6. ASSUME NEW h \in 0 .. height, Truncate(h)
      PROVE  Inv'
  <2>1. h \in 0 .. height - 1
    BY <1>6 DEF Truncate
  <2> QED
    BY <1>6, <2>1, TruncatePreservesInv
<1>7. CASE UNCHANGED vars
  <2>1. UNCHANGED <<height, mtp, records, history, live, checkpoints, established,
                    born, spentAt, targets, snap>>
    BY <1>7 DEF vars, registryVars, chainVars
  <2>2. BaseType'
    BY <2>1 DEF Inv, BaseType
  <2>3. Stood'
    BY <2>1 DEF Inv, Stood, HistoryStood, RecordsStood, PoolStood, ClosedStood,
                StoodAt, Snapshot, Kept, IsPoolAt, EstablishedAt
  <2> QED
    BY <2>2, <2>3 DEF Inv
<1> QED
  BY <1>1, <1>2, <1>3, <1>4, <1>5, <1>6, <1>7 DEF Next

(* Every reachable state of the Registry, its pool and the chain is well    *)
(* typed, through any sequence of transactions and rewinds.                 *)
THEOREM TypeCorrect == Spec => []TypeOK
<1>1. Inv => TypeOK
  BY InvGivesTypeOK
<1> QED
  BY <1>1, InitInv, NextInv, PTL DEF Spec

(* truncate_to_height gives back exactly the Registry that stood at the     *)
(* height it rewinds to, for every height below the tip.                    *)
THEOREM RewindIsExact == Spec => []RewindExact
<1>1. Inv => RewindExact
  BY InvGivesRewindExact
<1> QED
  BY <1>1, InitInv, NextInv, PTL DEF Spec

-----------------------------------------------------------------------------
(***************************************************************************)
(* Authority over names is neither lost track of nor made up.              *)
(*                                                                         *)
(* Unspent notes are a fact about a height: a rewind gives back the        *)
(* Registry of a lower block together with the notes that were unspent     *)
(* then.  The invariant therefore speaks of every block at once            *)
(* (Authority), and needs that a note is spent after it was made           *)
(* (SpentAfterBorn).  The histories are linked entry by entry (Linked) and *)
(* in block order (Ordered), so a rewind only shortens them.               *)
(***************************************************************************)
(* The note of nf was on the chain and unspent when h was the tip, in a    *)
(* chain that makes and spends notes at these heights.                     *)
OnChain(nf, h, made, spent) ==
    /\ made[nf] \in 1 .. h
    /\ spent[nf] = 0 \/ spent[nf] > h

(* What AuthorityUnspent says of the Registry s that stood at h *)
AuthorityIn(s, h, made, spent) ==
    /\ \A a \in s.live : OnChain(a, h, made, spent)
    /\ Cardinality(s.live) <= PoolSize
    /\ s.established = 0 => s.live = {}
    /\ \A n \in DOMAIN s.records :
         /\ OnChain(s.records[n].predecessor_nullifier, h, made, spent)
         /\ s.records[n].predecessor_nullifier \notin s.live
         /\ \A m \in DOMAIN s.records \ {n} :
              s.records[m].predecessor_nullifier # s.records[n].predecessor_nullifier

Authority == \A h \in 0 .. height : AuthorityIn(StoodAt(h), h, born, spentAt)

SpentAfterBorn ==
    \A nf \in Nullifiers : spentAt[nf] # 0 => born[nf] \in 1 .. spentAt[nf] - 1

(* r may follow p, which the block of r spent. *)
Extends(p, r) ==
    \/ r.commitment = p.commitment /\ r.action = "release"
    \/ /\ Len(r.commitment) = Len(p.commitment) + 1
       /\ SubSeq(r.commitment, 1, Len(p.commitment)) = p.commitment

(* Entry r of a transaction built for height t follows entry p. *)
LinkedTo(p, r, t, spent) ==
    IF p.action = "release"
    THEN r.action = "claim" /\ t > p.confirmed_height
    ELSE /\ r.action # "claim"
         /\ spent[p.predecessor_nullifier] = r.confirmed_height
         /\ Extends(p, r)

Linked ==
    \A n \in Names : \A i \in 1 .. Len(history[n]) :
        /\ history[n][i].confirmed_height > 0
        /\ i = 1 => history[n][i].action = "claim"
        /\ i > 1 => LinkedTo(history[n][i - 1], history[n][i], targets[n][i], spentAt)

(* Each history is in block order. *)
Ordered ==
    \A n \in Names : \A i, j \in 1 .. Len(history[n]) :
        i <= j => history[n][i].confirmed_height <= history[n][j].confirmed_height

AuthInv == Inv /\ Authority /\ SpentAfterBorn /\ Ordered /\ Linked

-----------------------------------------------------------------------------
(***************************************************************************)
(* The invariant gives the properties                                      *)
(***************************************************************************)
LEMMA AuthInvGivesAuthorityUnspent == AuthInv => AuthorityUnspent
<1> SUFFICES ASSUME AuthInv PROVE AuthorityUnspent
  OBVIOUS
<1>1. height \in 0 .. height /\ StoodAt(height) = Snapshot
  BY DEF AuthInv, Inv, BaseType, StoodAt
<1>2. AuthorityIn(Snapshot, height, born, spentAt)
  BY <1>1 DEF AuthInv, Authority
<1>3. \A nf \in Nullifiers : OnChain(nf, height, born, spentAt) =>
          born[nf] \in 1 .. height /\ spentAt[nf] = 0
  BY DEF OnChain, AuthInv, Inv, BaseType
<1>4. TypeOK
  BY InvGivesTypeOK DEF AuthInv
<1>5. live \subseteq Nullifiers
      /\ \A n \in DOMAIN records : records[n].predecessor_nullifier \in Nullifiers
  BY <1>4 DEF TypeOK, NameRecord
<1> QED
  BY <1>2, <1>3, <1>5 DEF AuthorityIn, AuthorityUnspent, Snapshot

LEMMA AuthInvGivesOwnershipChain == AuthInv => OwnershipChain
<1> SUFFICES ASSUME AuthInv, NEW n \in Names, NEW i \in DOMAIN history[n]
             PROVE  LET r == history[n][i] IN
                    IF i = 1 \/ history[n][i - 1].action = "release"
                    THEN r.action = "claim"
                    ELSE LET p == history[n][i - 1] IN
                         /\ r.action # "claim"
                         /\ spentAt[p.predecessor_nullifier] = r.confirmed_height
                         /\ Extends(p, r)
  BY DEF OwnershipChain, Extends
<1>1. i \in 1 .. Len(history[n]) /\ Len(history[n]) \in Nat
  BY DEF AuthInv, Inv, BaseType
<1>2. /\ i = 1 => history[n][i].action = "claim"
      /\ i > 1 => LinkedTo(history[n][i - 1], history[n][i], targets[n][i], spentAt)
  BY <1>1 DEF AuthInv, Linked
<1> QED
  BY <1>1, <1>2 DEF LinkedTo

LEMMA AuthInvGivesNoStaleClaim == AuthInv => NoStaleClaim
<1> SUFFICES ASSUME AuthInv, NEW n \in Names, NEW i \in DOMAIN history[n],
                    i > 1, history[n][i].action = "claim"
             PROVE  targets[n][i] > history[n][i - 1].confirmed_height
  BY DEF NoStaleClaim
<1>1. i \in 1 .. Len(history[n])
  BY DEF AuthInv, Inv, BaseType
<1>2. LinkedTo(history[n][i - 1], history[n][i], targets[n][i], spentAt)
  BY <1>1 DEF AuthInv, Linked
<1> QED
  BY <1>2 DEF LinkedTo

-----------------------------------------------------------------------------
(***************************************************************************)
(* Operators                                                               *)
(***************************************************************************)

(* Notes that stay on the chain keep the authority that rests on them. *)
LEMMA AuthorityCarries ==
    ASSUME NEW s, NEW h, NEW made, NEW spent, NEW h2, NEW made2, NEW spent2,
           AuthorityIn(s, h, made, spent),
           s.live \subseteq Nullifiers,
           \A n \in DOMAIN s.records : s.records[n].predecessor_nullifier \in Nullifiers,
           \A nf \in Nullifiers : OnChain(nf, h, made, spent) => OnChain(nf, h2, made2, spent2)
    PROVE  AuthorityIn(s, h2, made2, spent2)
BY DEF AuthorityIn

(* What stood at each height is typed. *)
LEMMA StoodTyped ==
    ASSUME Inv, NEW h \in 0 .. height
    PROVE  /\ StoodAt(h).live \subseteq Nullifiers
           /\ \A n \in DOMAIN StoodAt(h).records :
                StoodAt(h).records[n].predecessor_nullifier \in Nullifiers
<1>1. HistoryStood(h) /\ RecordsStood(h) /\ PoolStood(h)
  BY DEF Inv, Stood
<1>2. \A n \in DOMAIN StoodAt(h).records : StoodAt(h).records[n] \in NameRecord
  BY <1>1, RebuiltType DEF HistoryStood, RecordsStood
<1> QED
  BY <1>1, <1>2 DEF PoolStood, NameRecord

(* The standing pool never outgrows a change that replaces at most one.    *)
LEMMA PoolNoLarger ==
    ASSUME NEW pool \in SUBSET Nullifiers, NEW nfs, NEW a, NEW b
    PROVE  /\ Cardinality(pool \ nfs) <= Cardinality(pool)
           /\ nfs \cap pool = {a} =>
                Cardinality((pool \ nfs) \cup {b}) <= Cardinality(pool)
<1> DEFINE rest == pool \ nfs
<1>1. IsFiniteSet(pool) /\ rest \in SUBSET pool
  BY ConstantsAssumption, FS_Subset
<1>2. IsFiniteSet(rest) /\ Cardinality(rest) <= Cardinality(pool)
  BY <1>1, FS_Subset
<1>3. ASSUME nfs \cap pool = {a}
      PROVE  Cardinality(rest \cup {b}) <= Cardinality(pool)
  <2>1. rest = pool \ {a} /\ a \in pool
    BY <1>3
  <2> HIDE DEF rest
  <2>2. Cardinality(rest) = Cardinality(pool) - 1
    BY <1>1, <2>1, FS_RemoveElement
  <2>3. Cardinality(pool) \in Nat /\ Cardinality(rest) \in Nat
    BY <1>1, <1>2, FS_CardinalityType
  <2>4. Cardinality(rest \cup {b}) \in {Cardinality(rest), Cardinality(rest) + 1}
    BY <1>2, FS_AddElement
  <2> QED
    BY <2>2, <2>3, <2>4
<1> QED
  BY <1>2, <1>3

(* A commitment grows by the transition of its note. *)
LEMMA CommitmentExtends ==
    ASSUME NEW note \in NameNote
    PROVE  /\ Len(Commitment(note)) = Len(note.prev) + 1
           /\ SubSeq(Commitment(note), 1, Len(note.prev)) = note.prev
<1> DEFINE e == <<note.action, note.name, note.ua, note.expires_at>>
           c == Append(note.prev, e)
           cut == SubSeq(c, 1, Len(note.prev))
<1>1. note.prev \in Seq(Transition) /\ e \in Transition
  BY DEF NameNote, NameCommitment, Transition
<1> HIDE DEF e
<1>2. /\ c \in Seq(Transition) /\ Len(c) = Len(note.prev) + 1
      /\ \A i \in 1 .. Len(note.prev) : c[i] = note.prev[i]
      /\ Len(note.prev) \in Nat
  BY <1>1, AppendProperties
<1> HIDE DEF c
<1>3. \A i \in 1 .. Len(note.prev) : c[i] \in Transition
  BY <1>2, ElementOfSeq
<1>4. cut \in Seq(Transition) /\ Len(cut) = Len(note.prev)
      /\ \A i \in 1 .. Len(note.prev) : cut[i] = c[i]
  BY <1>2, <1>3, SubSeqProperties
<1> HIDE DEF cut
<1>5. cut = note.prev
  BY <1>1, <1>2, <1>4, SeqEqual
<1> QED
  BY <1>2, <1>5 DEF c, e, cut, Commitment

-----------------------------------------------------------------------------
(***************************************************************************)
(* Steps.  Whatever its verdict, a transaction keeps only authority it     *)
(* does not spend and gains only notes it makes (AuthorityStep), and each  *)
(* entry it writes follows the one before (LinkStep).                      *)
(***************************************************************************)
PoolKeeps(nfs, outs) ==
    /\ live' \subseteq (live \ nfs) \cup outs
    /\ Cardinality(live') <= PoolSize
    /\ established' = 0 => live' = {}

RecordsKeep(nfs, outs) ==
    \A n \in DOMAIN records' :
        \/ /\ n \in DOMAIN records /\ records'[n] = records[n]
           /\ records[n].predecessor_nullifier \notin nfs
        \/ /\ records'[n].predecessor_nullifier \in outs \ live'
           /\ \A m \in DOMAIN records' \ {n} :
                m \in DOMAIN records /\ records'[m] = records[m]

AuthorityStep(nfs, outs) == PoolKeeps(nfs, outs) /\ RecordsKeep(nfs, outs)

LinkStep(nfs) ==
    \A n \in Names :
        \/ history'[n] = history[n] /\ targets'[n] = targets[n]
        \/ \E r \in NameRecord, t \in Nat :
             /\ history'[n] = Append(history[n], r)
             /\ targets'[n] = Append(targets[n], t)
             /\ r.confirmed_height = height
             /\ IF n \in DOMAIN records
                THEN /\ r.action # "claim"
                     /\ records[n].predecessor_nullifier \in nfs
                     /\ Extends(records[n], r)
                ELSE /\ r.action = "claim"
                     /\ history[n] # << >> =>
                          t > history[n][Len(history[n])].confirmed_height

(* Consensus: what a transaction spends is unspent and older than its      *)
(* block, what it makes is new.                                            *)
LEMMA MineFacts ==
    ASSUME AuthInv, NEW nfs, NEW outs, Mine(nfs, outs)
    PROVE  /\ height \in Nat /\ height > 0 /\ height' = height
           /\ nfs \subseteq Nullifiers /\ outs \subseteq Nullifiers
           /\ \A nf \in nfs : /\ born[nf] \in 1 .. height - 1 /\ spentAt[nf] = 0
                              /\ spentAt'[nf] = height /\ born'[nf] = born[nf]
           /\ \A nf \in outs : /\ born[nf] = 0 /\ born'[nf] = height
                               /\ spentAt[nf] = 0 /\ spentAt'[nf] = 0
           /\ \A nf \in Nullifiers \ nfs : spentAt'[nf] = spentAt[nf]
           /\ \A nf \in Nullifiers \ outs : born'[nf] = born[nf]
<1>1. height \in Nat /\ height > 0 /\ height' = height
  BY DEF Mine, AuthInv, Inv, BaseType
<1>2. /\ nfs \subseteq Nullifiers /\ outs \subseteq Nullifiers
      /\ \A nf \in nfs : born[nf] \in 1 .. height - 1 /\ spentAt[nf] = 0
      /\ \A nf \in outs : born[nf] = 0
  BY DEF Mine, Spendable, Unborn
<1>3. \A nf \in outs : spentAt[nf] = 0 /\ nf \notin nfs
  BY <1>1, <1>2 DEF AuthInv, SpentAfterBorn, Inv, BaseType
<1>4. /\ spentAt' = [nf \in Nullifiers |-> IF nf \in nfs THEN height ELSE spentAt[nf]]
      /\ born' = [nf \in Nullifiers |-> IF nf \in outs THEN height ELSE born[nf]]
  BY DEF Mine
<1>5. \A nf \in nfs : nf \notin outs
  BY <1>1, <1>2
<1> QED
  BY <1>1, <1>2, <1>3, <1>4, <1>5

LEMMA MineKeepsSpentAfterBorn ==
    ASSUME AuthInv, NEW nfs, NEW outs, Mine(nfs, outs)
    PROVE  SpentAfterBorn'
<1> SUFFICES ASSUME NEW nf \in Nullifiers, spentAt'[nf] # 0
             PROVE  born'[nf] \in 1 .. spentAt'[nf] - 1
  BY DEF SpentAfterBorn
<1>1. CASE nf \in nfs
  BY <1>1, MineFacts
<1>2. CASE nf \notin nfs
  <2>1. spentAt[nf] # 0 /\ spentAt'[nf] = spentAt[nf]
    BY <1>2, MineFacts
  <2>2. born[nf] \in 1 .. spentAt[nf] - 1 /\ spentAt[nf] \in Nat
    BY <2>1 DEF AuthInv, SpentAfterBorn, Inv, BaseType
  <2>3. nf \notin outs
    BY <2>2, MineFacts
  <2> QED
    BY <2>1, <2>2, <2>3, MineFacts
<1> QED
  BY <1>1, <1>2

LEMMA TxKeepsAuthority ==
    ASSUME AuthInv, NEW nfs, NEW outs, Mine(nfs, outs), AuthorityStep(nfs, outs), Inv'
    PROVE  Authority'
<1>1. /\ height \in Nat /\ height > 0 /\ height' = height /\ snap' = snap
  BY MineFacts DEF Mine
<1>2. ASSUME NEW h \in 0 .. height, h # height
      PROVE  AuthorityIn(StoodAt(h)', h, born', spentAt')
  <2>1. StoodAt(h)' = snap[h] /\ StoodAt(h) = snap[h] /\ h \in Nat /\ h < height
    BY <1>1, <1>2 DEF StoodAt
  <2>2. AuthorityIn(snap[h], h, born, spentAt)
    BY <2>1 DEF AuthInv, Authority
  <2>3. ASSUME NEW nf \in Nullifiers, OnChain(nf, h, born, spentAt)
        PROVE  OnChain(nf, h, born', spentAt')
    <3>1. nf \notin outs
      BY <2>1, <2>3, MineFacts DEF OnChain
    <3>2. born'[nf] = born[nf] /\ (spentAt'[nf] = spentAt[nf] \/ spentAt'[nf] = height)
      BY <3>1, MineFacts
    <3> QED
      BY <2>1, <2>3, <3>2 DEF OnChain
  <2>4. /\ snap[h].live \subseteq Nullifiers
        /\ \A n \in DOMAIN snap[h].records :
             snap[h].records[n].predecessor_nullifier \in Nullifiers
    BY <2>1, StoodTyped DEF AuthInv
  <2>5. AuthorityIn(snap[h], h, born', spentAt')
    BY <2>2, <2>3, <2>4, AuthorityCarries
  <2> QED
    BY <2>1, <2>5
<1>3. AuthorityIn(Snapshot', height, born', spentAt')
  <2>1. AuthorityUnspent
    BY AuthInvGivesAuthorityUnspent
  <2>2. \A nf \in outs : OnChain(nf, height, born', spentAt')
    BY <1>1, MineFacts DEF OnChain
  <2>3. ASSUME NEW nf \in Nullifiers \ nfs, born[nf] \in 1 .. height, spentAt[nf] = 0
        PROVE  OnChain(nf, height, born', spentAt') /\ nf \notin outs
    <3>1. nf \notin outs
      BY <2>3, MineFacts
    <3> QED
      BY <2>3, <3>1, MineFacts DEF OnChain
  <2>4. TypeOK
    BY InvGivesTypeOK DEF AuthInv
  <2>5. /\ \A a \in live : a \in Nullifiers /\ born[a] \in 1 .. height /\ spentAt[a] = 0
        /\ \A n \in DOMAIN records :
             LET nf == records[n].predecessor_nullifier IN
             /\ nf \in Nullifiers /\ born[nf] \in 1 .. height /\ spentAt[nf] = 0
             /\ nf \notin live
             /\ \A m \in DOMAIN records \ {n} : records[m].predecessor_nullifier # nf
    BY <2>1, <2>4 DEF AuthorityUnspent, TypeOK, NameRecord
  <2>6. \A a \in live' : OnChain(a, height, born', spentAt')
    BY <2>2, <2>3, <2>5 DEF AuthorityStep, PoolKeeps, RecordsKeep
  <2>7. Cardinality(live') <= PoolSize /\ (established' = 0 => live' = {})
    BY DEF AuthorityStep, PoolKeeps, RecordsKeep
  <2>8. ASSUME NEW n \in DOMAIN records'
        PROVE  LET nf == records'[n].predecessor_nullifier IN
               /\ OnChain(nf, height, born', spentAt')
               /\ nf \notin live'
               /\ \A m \in DOMAIN records' \ {n} : records'[m].predecessor_nullifier # nf
    <3>1. CASE /\ n \in DOMAIN records /\ records'[n] = records[n]
               /\ records[n].predecessor_nullifier \notin nfs
      <4> DEFINE nf == records[n].predecessor_nullifier
      <4>1. OnChain(nf, height, born', spentAt') /\ nf \notin outs
        BY <3>1, <2>3, <2>5
      <4>2. nf \notin live'
        BY <3>1, <4>1, <2>5 DEF AuthorityStep, PoolKeeps, RecordsKeep
      <4>3. ASSUME NEW m \in DOMAIN records' \ {n}
            PROVE  records'[m].predecessor_nullifier # nf
        BY <3>1, <4>1, <2>5 DEF AuthorityStep, PoolKeeps, RecordsKeep
      <4> QED
        BY <3>1, <4>1, <4>2, <4>3
    <3>2. CASE /\ records'[n].predecessor_nullifier \in outs \ live'
               /\ \A m \in DOMAIN records' \ {n} :
                    m \in DOMAIN records /\ records'[m] = records[m]
      <4>1. \A m \in DOMAIN records : records[m].predecessor_nullifier \notin outs
        BY <2>5, MineFacts
      <4> QED
        BY <3>2, <4>1, <2>2
    <3> QED
      BY <3>1, <3>2 DEF AuthorityStep, PoolKeeps, RecordsKeep
  <2> QED
    BY <2>6, <2>7, <2>8 DEF AuthorityIn, Snapshot
<1>4. ASSUME NEW h \in 0 .. height
      PROVE  AuthorityIn(StoodAt(h)', h, born', spentAt')
  <2>1. CASE h = height
    BY <2>1, <1>1, <1>3 DEF StoodAt
  <2>2. CASE h # height
    BY <2>2, <1>2
  <2> QED
    BY <2>1, <2>2
<1> QED
  BY <1>1, <1>4 DEF Authority

(* What a live name's record is, read off its history. *)
LEMMA RecordIsLast ==
    ASSUME Inv, NEW n \in Names
    PROVE  /\ history[n] \in Seq(NameRecord) /\ Len(history[n]) \in Nat
           /\ n \in DOMAIN records <=>
                history[n] # << >> /\ history[n][Len(history[n])].action # "release"
           /\ n \in DOMAIN records => records[n] = history[n][Len(history[n])]
           /\ history[n] # << >> => Len(history[n]) >= 1
<1>1. history \in [Names -> Seq(NameRecord)] /\ records = Rebuilt(history)
  BY CurrentStood
<1>2. history[n] \in Seq(NameRecord)
  BY <1>1
<1> QED
  BY <1>1, <1>2, EmptySeq DEF Rebuilt

LEMMA TxKeepsLinked ==
    ASSUME AuthInv, NEW nfs, NEW outs, Mine(nfs, outs), LinkStep(nfs)
    PROVE  Linked'
<1> SUFFICES ASSUME NEW n \in Names, NEW i \in 1 .. Len(history'[n])
             PROVE  /\ history'[n][i].confirmed_height > 0
                    /\ i = 1 => history'[n][i].action = "claim"
                    /\ i > 1 => LinkedTo(history'[n][i - 1], history'[n][i],
                                         targets'[n][i], spentAt')
  BY DEF Linked
<1>1. /\ history[n] \in Seq(NameRecord) /\ Len(history[n]) \in Nat
      /\ targets[n] \in Seq(Nat) /\ Len(targets[n]) = Len(history[n])
  BY DEF AuthInv, Inv, BaseType
<1>2. \A j \in 1 .. Len(history[n]) :
        /\ history[n][j].confirmed_height > 0
        /\ history[n][j].predecessor_nullifier \in Nullifiers
        /\ history[n][j].confirmed_height \in Nat
  <2>1. \A j \in 1 .. Len(history[n]) : history[n][j] \in NameRecord
    BY <1>1, ElementOfSeq
  <2> QED
    BY <2>1 DEF AuthInv, Linked, NameRecord
<1>3. ASSUME NEW j \in 1 .. Len(history[n])
      PROVE  /\ history[n][j].confirmed_height > 0
             /\ j = 1 => history[n][j].action = "claim"
             /\ j > 1 => LinkedTo(history[n][j - 1], history[n][j],
                                  targets[n][j], spentAt')
  <2>1. /\ history[n][j].confirmed_height > 0
        /\ j = 1 => history[n][j].action = "claim"
        /\ j > 1 => LinkedTo(history[n][j - 1], history[n][j], targets[n][j], spentAt)
    BY DEF AuthInv, Linked
  <2>2. ASSUME j > 1
        PROVE  LinkedTo(history[n][j - 1], history[n][j], targets[n][j], spentAt')
    <3> DEFINE nf == history[n][j - 1].predecessor_nullifier
    <3>1. nf \in Nullifiers
      BY <1>1, <1>2, <2>2
    <3>2. CASE history[n][j - 1].action = "release"
      BY <2>1, <2>2, <3>2 DEF LinkedTo
    <3>3. CASE history[n][j - 1].action # "release"
      <4>1. spentAt[nf] = history[n][j].confirmed_height /\ spentAt[nf] # 0
        BY <1>2, <2>1, <2>2, <3>3 DEF LinkedTo
      <4>2. nf \notin nfs
        BY <4>1, MineFacts
      <4>3. spentAt'[nf] = spentAt[nf]
        BY <3>1, <4>2, MineFacts
      <4> QED
        BY <2>1, <2>2, <3>3, <4>3 DEF LinkedTo
    <3> QED
      BY <3>2, <3>3
  <2> QED
    BY <2>1, <2>2
<1>4. CASE history'[n] = history[n] /\ targets'[n] = targets[n]
  BY <1>3, <1>4
<1>5. ASSUME NEW r \in NameRecord, NEW t \in Nat,
             history'[n] = Append(history[n], r),
             targets'[n] = Append(targets[n], t),
             r.confirmed_height = height,
             IF n \in DOMAIN records
             THEN /\ r.action # "claim"
                  /\ records[n].predecessor_nullifier \in nfs
                  /\ Extends(records[n], r)
             ELSE /\ r.action = "claim"
                  /\ history[n] # << >> =>
                       t > history[n][Len(history[n])].confirmed_height
      PROVE  /\ history'[n][i].confirmed_height > 0
             /\ i = 1 => history'[n][i].action = "claim"
             /\ i > 1 => LinkedTo(history'[n][i - 1], history'[n][i],
                                  targets'[n][i], spentAt')
  <2> DEFINE s == history[n]
             k == Len(s)
  <2>1. /\ Len(history'[n]) = k + 1 /\ history'[n][k + 1] = r
        /\ \A j \in 1 .. k : history'[n][j] = s[j]
    BY <1>1, <1>5, AppendProperties
  <2>2. targets'[n][k + 1] = t /\ \A j \in 1 .. k : targets'[n][j] = targets[n][j]
    BY <1>1, <1>5, AppendProperties
  <2>3. CASE i <= k
    <3>1. i \in 1 .. k /\ (i > 1 => i - 1 \in 1 .. k)
      BY <1>1, <2>3
    <3>2. /\ history'[n][i] = s[i] /\ targets'[n][i] = targets[n][i]
          /\ i > 1 => history'[n][i - 1] = s[i - 1]
      BY <2>1, <2>2, <3>1
    <3> QED
      BY <1>3, <3>1, <3>2
  <2>4. CASE i = k + 1
    <3>1. height > 0 /\ history'[n][i] = r /\ targets'[n][i] = t
      BY <2>1, <2>2, <2>4, MineFacts
    <3>2. CASE i = 1
      <4>1. s = << >>
        BY <1>1, <2>4, <3>2, EmptySeq
      <4>2. n \notin DOMAIN records
        BY <4>1, RecordIsLast DEF AuthInv
      <4> QED
        BY <1>5, <3>1, <3>2, <4>2
    <3>3. CASE i > 1
      <4>1. s # << >> /\ k \in 1 .. k /\ history'[n][i - 1] = s[k]
        BY <1>1, <2>1, <2>4, <3>3, EmptySeq
      <4>2. CASE n \in DOMAIN records
        <5>1. records[n] = s[k] /\ s[k].action # "release"
          BY <4>2, RecordIsLast DEF AuthInv
        <5>2. spentAt'[s[k].predecessor_nullifier] = height
          BY <1>5, <4>2, <5>1, MineFacts
        <5> QED
          BY <1>5, <3>1, <3>3, <4>1, <4>2, <5>1, <5>2 DEF LinkedTo
      <4>3. CASE n \notin DOMAIN records
        <5>1. s[k].action = "release"
          BY <4>1, <4>3, RecordIsLast DEF AuthInv
        <5> QED
          BY <1>5, <3>1, <3>3, <4>1, <4>3, <5>1 DEF LinkedTo
      <4> QED
        BY <4>2, <4>3
    <3> QED
      BY <1>1, <2>4, <3>1, <3>2, <3>3, <1>5
  <2> QED
    BY <1>1, <2>1, <2>3, <2>4
<1> QED
  BY <1>4, <1>5 DEF LinkStep

-----------------------------------------------------------------------------
(***************************************************************************)
(* The writes of each verdict are such steps                               *)
(***************************************************************************)
LEMMA RetireSpentKeeps ==
    ASSUME AuthInv, NEW nfs, NEW outs, NEW successor \in outs \cup {NoNf},
           RetireSpent(nfs, successor)
    PROVE  /\ PoolKeeps(nfs, outs)
           /\ live' \subseteq (live \ nfs) \cup ({successor} \ {NoNf})
<1> DEFINE retired == nfs \cap live
           one == \E a \in retired : retired = {a}
<1>1. /\ live \in SUBSET Nullifiers /\ Cardinality(live) <= PoolSize
      /\ established = 0 => live = {}
  <2>1. AuthorityUnspent
    BY AuthInvGivesAuthorityUnspent
  <2> QED
    BY <2>1 DEF AuthInv, Inv, BaseType, AuthorityUnspent
<1>2. /\ live' = (live \ nfs) \cup (IF one /\ successor # NoNf THEN {successor} ELSE {})
      /\ established' = established
  BY DEF RetireSpent
<1>3. established' = 0 => live' = {}
  BY <1>1, <1>2
<1>4. Cardinality(live') <= PoolSize
  <2>1. /\ Cardinality(live \ nfs) <= Cardinality(live)
        /\ \A a, b : nfs \cap live = {a} =>
             Cardinality((live \ nfs) \cup {b}) <= Cardinality(live)
    BY <1>1, PoolNoLarger
  <2>2. /\ Cardinality(live) \in Nat
        /\ Cardinality(live') \in Nat
    <3>1. live' \ {successor} \subseteq live
      BY <1>2
    <3>2. IsFiniteSet(live) /\ IsFiniteSet(live')
      <4>1. IsFiniteSet(live)
        BY <1>1, ConstantsAssumption, FS_Subset
      <4>2. IsFiniteSet(live \cup {successor}) /\ live' \subseteq live \cup {successor}
        BY <3>1, <4>1, FS_AddElement
      <4> QED
        BY <4>1, <4>2, FS_Subset
    <3> QED
      BY <3>2, FS_CardinalityType
  <2>3. CASE one /\ successor # NoNf
    <3>1. PICK a \in retired : retired = {a}
      BY <2>3
    <3>2. live' = (live \ nfs) \cup {successor}
      BY <1>2, <2>3
    <3>3. Cardinality(live') <= Cardinality(live)
      BY <2>1, <3>1, <3>2
    <3> QED
      BY <1>1, <2>2, <3>3, ConstantsAssumption
  <2>4. CASE ~(one /\ successor # NoNf)
    <3>1. live' = live \ nfs
      BY <1>2, <2>4
    <3>2. Cardinality(live') <= Cardinality(live)
      BY <2>1, <3>1
    <3> QED
      BY <1>1, <2>2, <3>2, ConstantsAssumption
  <2> QED
    BY <2>3, <2>4
<1>5. live' \subseteq (live \ nfs) \cup ({successor} \ {NoNf})
  BY <1>2
<1> QED
  BY <1>3, <1>4, <1>5 DEF PoolKeeps

LEMMA MarkReleasedKeeps ==
    ASSUME AuthInv, NEW nfs, NEW outs, NEW target \in Nat, MarkReleased(nfs, target)
    PROVE  RecordsKeep(nfs, outs) /\ LinkStep(nfs)
<1> DEFINE gone == NamesSpentBy(nfs)
           Copy(n) == [records[n] EXCEPT !.action = "release",
                                         !.confirmed_height = height]
<1>1. RecordsKeep(nfs, outs)
  BY DEF RecordsKeep, MarkReleased, NamesSpentBy
<1>2. ASSUME NEW n \in Names
      PROVE  \/ history'[n] = history[n] /\ targets'[n] = targets[n]
             \/ \E r \in NameRecord, t \in Nat :
                  /\ history'[n] = Append(history[n], r)
                  /\ targets'[n] = Append(targets[n], t)
                  /\ r.confirmed_height = height
                  /\ n \in DOMAIN records
                  /\ r.action # "claim"
                  /\ records[n].predecessor_nullifier \in nfs
                  /\ Extends(records[n], r)
  <2>1. CASE n \notin gone
    BY <2>1 DEF MarkReleased
  <2>2. CASE n \in gone
    <3>1. n \in DOMAIN records /\ records[n].predecessor_nullifier \in nfs
      BY <2>2 DEF NamesSpentBy
    <3>2. records[n] \in NameRecord /\ height \in Nat
      BY <3>1, InvGivesTypeOK DEF AuthInv, TypeOK
    <3>3. /\ Copy(n) \in NameRecord /\ Copy(n).confirmed_height = height
          /\ Copy(n).action = "release" /\ Copy(n).commitment = records[n].commitment
      BY <3>2 DEF NameRecord, Verbs
    <3>4. /\ history'[n] = Append(history[n], Copy(n))
          /\ targets'[n] = Append(targets[n], target)
      BY <2>2 DEF MarkReleased
    <3> HIDE DEF Copy
    <3> QED
      BY <3>1, <3>3, <3>4 DEF Extends
  <2> QED
    BY <2>1, <2>2
<1>3. LinkStep(nfs)
  BY <1>2 DEF LinkStep
<1> QED
  BY <1>1, <1>3

LEMMA FollowSpendsKeeps ==
    ASSUME AuthInv, NEW nfs, NEW outs, NEW target \in Nat, FollowSpends(nfs, target)
    PROVE  AuthorityStep(nfs, outs) /\ LinkStep(nfs)
<1>1. RetireSpent(nfs, NoNf) /\ MarkReleased(nfs, target)
  BY DEF FollowSpends
<1>2. PoolKeeps(nfs, outs)
  BY <1>1, RetireSpentKeeps
<1> QED
  BY <1>1, <1>2, MarkReleasedKeeps DEF AuthorityStep

LEMMA SetRecordKeeps ==
    ASSUME AuthInv, NEW nfs, NEW outs, NEW r \in NameRecord, NEW target \in Nat,
           SetRecord(r, target),
           r.confirmed_height = height,
           r.predecessor_nullifier \in outs \ live',
           \A n \in DOMAIN records \ {r.name} : records[n].predecessor_nullifier \notin nfs,
           IF r.name \in DOMAIN records
           THEN /\ r.action # "claim"
                /\ records[r.name].predecessor_nullifier \in nfs
                /\ Extends(records[r.name], r)
           ELSE /\ r.action = "claim"
                /\ history[r.name] # << >> =>
                     target > history[r.name][Len(history[r.name])].confirmed_height
    PROVE  RecordsKeep(nfs, outs) /\ LinkStep(nfs)
<1>1. r.name \in Names
  BY DEF NameRecord
<1>2. RecordsKeep(nfs, outs)
  <2>1. CASE r.action = "release"
    BY <2>1 DEF RecordsKeep, SetRecord
  <2>2. CASE r.action # "release"
    <3>1. records' = [n \in DOMAIN records \cup {r.name} |->
                        IF n = r.name THEN r ELSE records[n]]
      BY <2>2 DEF SetRecord
    <3>2. /\ DOMAIN records' = DOMAIN records \cup {r.name}
          /\ records'[r.name] = r
          /\ \A n \in DOMAIN records \ {r.name} : records'[n] = records[n]
      BY <3>1
    <3> QED
      BY <3>2 DEF RecordsKeep
  <2> QED
    BY <2>1, <2>2
<1>3. LinkStep(nfs)
  <2>1. history \in [Names -> Seq(NameRecord)] /\ targets \in [Names -> Seq(Nat)]
    BY DEF AuthInv, Inv, BaseType
  <2>2. /\ history'[r.name] = Append(history[r.name], r)
        /\ targets'[r.name] = Append(targets[r.name], target)
        /\ \A n \in Names \ {r.name} : history'[n] = history[n] /\ targets'[n] = targets[n]
    BY <1>1, <2>1 DEF SetRecord
  <2> QED
    BY <1>1, <2>2 DEF LinkStep
<1> QED
  BY <1>2, <1>3

(* A transaction whose expiry lies past the window of a release was built  *)
(* after it, whichever side of the change of expiry delta each is on.      *)
LEMMA ExpiryOrdersTargets ==
    ASSUME NEW target \in Nat, NEW h \in Nat,
           ~(TxExpiry(target) <= h + TxExpiryDelta(h))
    PROVE  target > h
BY ConstantsAssumption DEF TxExpiry, TxExpiryDelta

LEMMA ClaimTxKeeps ==
    ASSUME AuthInv, NEW n \in Names, NEW ua \in Addrs, NEW e \in ExpiryValues,
           NEW nf \in Unborn, NEW successor \in Unborn \cup {NoNf},
           NEW nfs, NEW target \in Nat,
           ClaimTx(ClaimNote(n, ua, e), nf, successor, nfs, target)
    PROVE  /\ AuthorityStep(nfs, {nf, successor} \ {NoNf})
           /\ LinkStep(nfs)
<1> DEFINE note == ClaimNote(n, ua, e)
           outs == {nf, successor} \ {NoNf}
           backed == SpendsOneAnchor(nfs) /\ NamesSpentBy(nfs) = {}
           admitted == /\ IsAvailable(note.name)
                       /\ ~BuiltBeforeRelease(note.name, TxExpiry(target))
           r == CreateRecord(note, nf, mtp[height])
<1>1. /\ nf \in Nullifiers /\ nf # NoNf /\ nf # successor /\ nf \in outs
      /\ successor \in outs \cup {NoNf}
      /\ Mine(nfs, outs) /\ AcceptClaim(note, nf, successor, nfs, target)
  BY ConstantsAssumption DEF ClaimTx, Unborn
<1>2. note \in NameNote /\ note.name = n /\ note.action = "claim"
  BY ClaimNoteType DEF ClaimNote
<1> HIDE DEF note
<1>3. PICK kept \in {successor, NoNf} :
        /\ RetireSpent(nfs, kept)
        /\ \/ MarkReleased(nfs, target)
           \/ /\ backed
              /\ UNCHANGED <<records, history, targets>>
           \/ /\ backed /\ admitted
              /\ SetRecord(r, target)
  BY <1>1 DEF AcceptClaim
<1>4. /\ PoolKeeps(nfs, outs)
      /\ live' \subseteq (live \ nfs) \cup ({kept} \ {NoNf})
  <2>1. kept \in outs \cup {NoNf}
    BY <1>1, <1>3
  <2>2. RetireSpent(nfs, kept)
    BY <1>3
  <2> HIDE DEF outs
  <2> QED
    BY <2>1, <2>2, RetireSpentKeeps
<1>5. CASE MarkReleased(nfs, target)
  BY <1>4, <1>5, MarkReleasedKeeps DEF AuthorityStep
<1>6. CASE backed /\ UNCHANGED <<records, history, targets>>
  BY <1>4, <1>6 DEF AuthorityStep, RecordsKeep, LinkStep, NamesSpentBy
<1>7. CASE backed /\ admitted /\ SetRecord(r, target)
  <2>1. /\ r \in NameRecord /\ r.confirmed_height = height
        /\ r.name = n /\ r.action = "claim" /\ r.predecessor_nullifier = nf
    BY <1>1, <1>2, CreateRecordType DEF CreateRecord, AuthInv
  <2> HIDE DEF r
  <2>2. nf \notin live'
    <3>1. \A a \in live : born[a] # 0
      BY AuthInvGivesAuthorityUnspent DEF AuthorityUnspent
    <3>2. born[nf] = 0
      BY DEF Unborn
    <3> QED
      BY <1>1, <1>4, <3>1, <3>2
  <2>3. \A m \in DOMAIN records \ {n} : records[m].predecessor_nullifier \notin nfs
    BY <1>7 DEF NamesSpentBy
  <2>4. n \notin DOMAIN records
    BY <1>2, <1>7 DEF IsAvailable
  <2>5. ASSUME history[n] # << >>
        PROVE  target > history[n][Len(history[n])].confirmed_height
    <3> DEFINE latest == history[n][Len(history[n])]
    <3>1. latest.action = "release"
      BY <2>4, <2>5, RecordIsLast DEF AuthInv
    <3>2. latest.confirmed_height \in Nat
      <4>1. history[n] \in Seq(NameRecord) /\ Len(history[n]) \in 1 .. Len(history[n])
        BY <2>5, RecordIsLast DEF AuthInv
      <4>2. latest \in NameRecord
        BY <4>1, ElementOfSeq
      <4> QED
        BY <4>2 DEF NameRecord
    <3>3. ~(TxExpiry(target) <= latest.confirmed_height
                                  + TxExpiryDelta(latest.confirmed_height))
      BY <1>2, <1>7, <2>5, <3>1 DEF BuiltBeforeRelease
    <3> QED
      BY <3>2, <3>3, ExpiryOrdersTargets
  <2>6. RecordsKeep(nfs, outs) /\ LinkStep(nfs)
    BY <1>1, <1>7, <2>1, <2>2, <2>3, <2>4, <2>5, SetRecordKeeps
  <2> QED
    BY <1>4, <2>6 DEF AuthorityStep
<1> QED
  BY <1>3, <1>5, <1>6, <1>7

LEMMA SucceedRecordKeeps ==
    ASSUME AuthInv, NEW note \in NameNote, note.action # "claim", NEW nf \in Unborn,
           NEW nfs, NEW target \in Nat, SucceedRecord(note, nf, nfs, target)
    PROVE  AuthorityStep(nfs, {nf}) /\ LinkStep(nfs)
<1>1. CASE FollowSpends(nfs, target)
  BY <1>1, FollowSpendsKeeps
<1>2. CASE ~FollowSpends(nfs, target)
  <2> DEFINE record == records[note.name]
             written == IF note.prev = record.commitment THEN note
                        ELSE ReleaseNote(note.name, record.ua, record.commitment)
             r == CreateRecord(written, nf, mtp[height])
  <2>1. /\ PredecessorSpent(note, nfs)
        /\ SetRecord(r, target)
        /\ UNCHANGED <<live, checkpoints, established>>
    BY <1>2 DEF SucceedRecord
  <2>2. NamesSpentBy(nfs) = {note.name} /\ nfs \cap live = {}
    BY <2>1 DEF PredecessorSpent
  <2>3. /\ note.name \in DOMAIN records /\ record.predecessor_nullifier \in nfs
        /\ \A m \in DOMAIN records \ {note.name} :
             records[m].predecessor_nullifier \notin nfs
    BY <2>2 DEF NamesSpentBy
  <2>4. record \in NameRecord /\ TypeOK
    BY <2>3, InvGivesTypeOK DEF AuthInv, TypeOK
  <2>5. note.name \in Names /\ record.ua \in Addrs /\ record.commitment \in NameCommitment
    BY <2>4 DEF NameNote, NameRecord
  <2>6. ReleaseNote(note.name, record.ua, record.commitment) \in NameNote
    BY <2>5, ReleaseNoteType
  <2>7. /\ written \in NameNote /\ written.name = note.name
        /\ written.action # "claim" /\ written.prev = record.commitment
    BY <2>6 DEF ReleaseNote
  <2> HIDE DEF written
  <2>8. nf \in Nullifiers /\ born[nf] = 0
    BY DEF Unborn
  <2>9. /\ r \in NameRecord /\ r.confirmed_height = height
        /\ r.name = note.name /\ r.action # "claim" /\ r.predecessor_nullifier = nf
        /\ r.commitment = Commitment(written)
    BY <2>7, <2>8, CreateRecordType DEF CreateRecord, AuthInv
  <2> HIDE DEF r
  <2>10. Extends(record, r)
    BY <2>7, <2>9, CommitmentExtends DEF Extends
  <2>11. /\ \A a \in live : born[a] # 0
         /\ Cardinality(live) <= PoolSize
         /\ established = 0 => live = {}
    BY AuthInvGivesAuthorityUnspent DEF AuthorityUnspent
  <2>12. nf \in {nf} \ live'
    BY <2>1, <2>8, <2>11
  <2>13. PoolKeeps(nfs, {nf})
    BY <2>1, <2>2, <2>11 DEF PoolKeeps
  <2>14. RecordsKeep(nfs, {nf}) /\ LinkStep(nfs)
    BY <2>1, <2>3, <2>9, <2>10, <2>12, SetRecordKeeps
  <2> QED
    BY <2>13, <2>14 DEF AuthorityStep
<1> QED
  BY <1>1, <1>2

LEMMA CeremonyTxKeeps ==
    ASSUME AuthInv, NEW outs \in SUBSET Nullifiers, CeremonyTx(outs)
    PROVE  AuthorityStep({}, outs) /\ LinkStep({})
<1>1. /\ AdoptAnchors(outs) /\ UNCHANGED <<records, history, targets>>
  BY DEF CeremonyTx
<1>2. /\ Cardinality(live) <= PoolSize
      /\ established = 0 => live = {}
      /\ height \in Nat /\ height > 0
  BY AuthInvGivesAuthorityUnspent
  DEF AuthorityUnspent, CeremonyTx, Mine, AuthInv, Inv, BaseType
<1>3. PoolKeeps({}, outs)
  <2>1. CASE UNCHANGED <<live, checkpoints, established>>
    BY <1>2, <2>1 DEF PoolKeeps
  <2>2. CASE ~ UNCHANGED <<live, checkpoints, established>>
    <3>1. PICK joined \in SUBSET outs :
            /\ Cardinality(live \cup joined) = PoolSize
            /\ live' = live \cup joined
            /\ established' = height
      BY <1>1, <2>2 DEF AdoptAnchors
    <3>2. Cardinality(live') = PoolSize /\ established' # 0
      BY <1>2, <3>1
    <3> QED
      BY <3>1, <3>2, ConstantsAssumption DEF PoolKeeps
  <2> QED
    BY <2>1, <2>2
<1> QED
  BY <1>1, <1>3 DEF AuthorityStep, RecordsKeep, LinkStep

-----------------------------------------------------------------------------
(***************************************************************************)
(* Blocks and rewinds                                                      *)
(***************************************************************************)
LEMMA TxKeepsOrdered ==
    ASSUME AuthInv, NEW nfs, LinkStep(nfs)
    PROVE  Ordered'
<1> SUFFICES ASSUME NEW n \in Names,
                    NEW i \in 1 .. Len(history'[n]), NEW j \in 1 .. Len(history'[n]), i <= j
             PROVE  history'[n][i].confirmed_height <= history'[n][j].confirmed_height
  BY DEF Ordered
<1> DEFINE s == history[n]
           k == Len(s)
<1>1. /\ s \in Seq(NameRecord) /\ k \in Nat /\ height \in Nat
      /\ k # 0 => s[k].confirmed_height <= height
      /\ \A a \in 1 .. k : s[a].confirmed_height \in Nat
  BY CurrentStood, HeightsAreNat DEF AuthInv, Inv, BaseType, Kept
<1>2. \A a, b \in 1 .. k : a <= b => s[a].confirmed_height <= s[b].confirmed_height
  BY DEF AuthInv, Ordered
<1>3. \A a \in 1 .. k : s[a].confirmed_height <= height
  BY <1>1, <1>2
<1>4. CASE history'[n] = s
  BY <1>2, <1>4
<1>5. ASSUME NEW r \in NameRecord, history'[n] = Append(s, r), r.confirmed_height = height
      PROVE  history'[n][i].confirmed_height <= history'[n][j].confirmed_height
  <2>1. /\ Len(history'[n]) = k + 1 /\ history'[n][k + 1] = r
        /\ \A a \in 1 .. k : history'[n][a] = s[a]
    BY <1>1, <1>5, AppendProperties
  <2>2. CASE j \in 1 .. k
    <3>1. i \in 1 .. k
      BY <1>1, <2>1, <2>2
    <3>2. history'[n][i] = s[i] /\ history'[n][j] = s[j]
      BY <2>1, <2>2, <3>1
    <3>3. s[i].confirmed_height <= s[j].confirmed_height
      BY <1>2, <2>2, <3>1
    <3> QED
      BY <3>2, <3>3
  <2>3. CASE j = k + 1
    <3>1. i \in 1 .. k \/ i = k + 1
      BY <1>1, <2>1
    <3> QED
      BY <1>1, <1>3, <1>5, <2>1, <2>3, <3>1
  <2> QED
    BY <1>1, <2>1, <2>2, <2>3
<1> QED
  BY <1>4, <1>5 DEF LinkStep

LEMMA TxKeepsAuthInv ==
    ASSUME AuthInv, NEW nfs, NEW outs, Mine(nfs, outs),
           AuthorityStep(nfs, outs), LinkStep(nfs), Inv'
    PROVE  AuthInv'
BY TxKeepsAuthority, MineKeepsSpentAfterBorn, TxKeepsOrdered, TxKeepsLinked DEF AuthInv

LEMMA NewBlockKeepsAuthInv ==
    ASSUME AuthInv, NEW t \in Nat, NewBlock(t), Inv'
    PROVE  AuthInv'
<1>1. /\ height \in Nat /\ height' = height + 1
      /\ snap' = [h \in 0 .. height |-> IF h = height THEN Snapshot ELSE snap[h]]
      /\ UNCHANGED <<records, history, live, checkpoints, established,
                     born, spentAt, targets>>
  BY DEF NewBlock, registryVars, AuthInv, Inv, BaseType
<1>2. Snapshot' = Snapshot
  BY <1>1 DEF Snapshot
<1>3. ASSUME NEW h \in 0 .. height
      PROVE  StoodAt(h)' = StoodAt(h)
  BY <1>1 DEF StoodAt
<1>4. ASSUME NEW h, h = height + 1
      PROVE  StoodAt(h)' = StoodAt(height)
  BY <1>1, <1>2, <1>4 DEF StoodAt
<1>5. ASSUME NEW h \in 0 .. height + 1
      PROVE  AuthorityIn(StoodAt(h)', h, born', spentAt')
  <2>1. CASE h \in 0 .. height
    <3>1. AuthorityIn(StoodAt(h), h, born, spentAt)
      BY <2>1 DEF AuthInv, Authority
    <3> QED
      BY <2>1, <3>1, <1>1, <1>3
  <2>2. CASE h = height + 1
    <3>1. AuthorityIn(StoodAt(height), height, born, spentAt) /\ height \in 0 .. height
      BY <1>1 DEF AuthInv, Authority
    <3>2. \A nf \in Nullifiers : OnChain(nf, height, born, spentAt) =>
                                   OnChain(nf, height + 1, born, spentAt)
      BY <1>1 DEF OnChain, AuthInv, Inv, BaseType
    <3>3. /\ StoodAt(height).live \subseteq Nullifiers
          /\ \A n \in DOMAIN StoodAt(height).records :
               StoodAt(height).records[n].predecessor_nullifier \in Nullifiers
      BY <3>1, StoodTyped DEF AuthInv
    <3>4. AuthorityIn(StoodAt(height), height + 1, born, spentAt)
      BY <3>1, <3>2, <3>3, AuthorityCarries
    <3> QED
      BY <2>2, <3>4, <1>1, <1>4
  <2> QED
    BY <1>1, <2>1, <2>2
<1>6. Authority'
  BY <1>1, <1>5 DEF Authority
<1>7. SpentAfterBorn' /\ Ordered' /\ Linked'
  BY <1>1 DEF AuthInv, SpentAfterBorn, Ordered, Linked
<1> QED
  BY <1>6, <1>7 DEF AuthInv

LEMMA TruncateKeepsAuthInv ==
    ASSUME AuthInv, NEW h0 \in 0 .. height - 1, Truncate(h0), Inv'
    PROVE  AuthInv'
<1>1. /\ height \in Nat /\ h0 \in Nat /\ h0 < height /\ height' = h0
      /\ snap' = [k \in 0 .. h0 - 1 |-> snap[k]]
      /\ born' = [nf \in Nullifiers |-> IF born[nf] > h0 THEN 0 ELSE born[nf]]
      /\ spentAt' = [nf \in Nullifiers |-> IF spentAt[nf] > h0 THEN 0 ELSE spentAt[nf]]
      /\ targets' = [n \in Names |->
                       SubSeq(targets[n], 1, KeptLength(history[n], h0))]
  BY DEF Truncate, AuthInv, Inv, BaseType
<1>2. /\ history' = snap[h0].history /\ records' = snap[h0].records
      /\ live' = snap[h0].live /\ established' = snap[h0].established
  BY TruncateRestores DEF AuthInv
<1>3. \A nf \in Nullifiers : born[nf] \in Nat /\ spentAt[nf] \in Nat
  BY DEF AuthInv, Inv, BaseType
<1>4. Authority'
  <2>1. ASSUME NEW h \in 0 .. h0
        PROVE  AuthorityIn(StoodAt(h)', h, born', spentAt')
    <3>1. StoodAt(h) = snap[h] /\ h \in 0 .. height
      BY <1>1 DEF StoodAt
    <3>2. AuthorityIn(snap[h], h, born, spentAt)
      BY <3>1 DEF AuthInv, Authority
    <3>3. \A nf \in Nullifiers : OnChain(nf, h, born, spentAt) => OnChain(nf, h, born', spentAt')
      BY <1>1, <1>3 DEF OnChain
    <3>4. /\ snap[h].live \subseteq Nullifiers
          /\ \A n \in DOMAIN snap[h].records :
               snap[h].records[n].predecessor_nullifier \in Nullifiers
      BY <3>1, StoodTyped DEF AuthInv
    <3>5. AuthorityIn(snap[h], h, born', spentAt')
      BY <3>2, <3>3, <3>4, AuthorityCarries
    <3>6. /\ StoodAt(h)'.live = snap[h].live
          /\ StoodAt(h)'.records = snap[h].records
          /\ StoodAt(h)'.established = snap[h].established
      <4>1. CASE h = h0
        BY <4>1, <1>1, <1>2 DEF StoodAt, Snapshot
      <4>2. CASE h # h0
        BY <4>2, <1>1 DEF StoodAt
      <4> QED
        BY <4>1, <4>2
    <3> QED
      BY <3>5, <3>6 DEF AuthorityIn
  <2> QED
    BY <1>1, <2>1 DEF Authority
<1>5. SpentAfterBorn'
  BY <1>1, <1>3 DEF AuthInv, SpentAfterBorn
<1>6. ASSUME NEW n \in Names
      PROVE  LET s == history[n]  cut == history'[n]  k == Len(cut) IN
             /\ k \in 0 .. Len(s) /\ Len(s) \in Nat
             /\ \A j \in 1 .. k :
                  /\ cut[j] = s[j] /\ targets'[n][j] = targets[n][j]
                  /\ s[j].confirmed_height \in 0 .. h0
                  /\ s[j].predecessor_nullifier \in Nullifiers
  <2> DEFINE s == history[n]
             cut == history'[n]
             k == Len(cut)
  <2>1. /\ cut \in Seq(NameRecord) /\ k \in Nat
        /\ Kept(s, h0, k)
        /\ \A j \in 1 .. k : cut[j] = s[j]
    <3>1. h0 \in 0 .. height /\ StoodAt(h0) = snap[h0]
      BY <1>1 DEF StoodAt
    <3>2. HistoryStood(h0)
      BY <3>1 DEF AuthInv, Inv, Stood
    <3> QED
      BY <1>2, <3>1, <3>2 DEF HistoryStood
  <2>2. s \in Seq(NameRecord) /\ Len(s) \in Nat /\ targets[n] \in Seq(Nat)
        /\ Len(targets[n]) = Len(s)
    BY DEF AuthInv, Inv, BaseType
  <2>3. KeptLength(s, h0) = k
    BY <1>1, <2>1, <2>2, HeightsAreNat, KeptLengthUnique
  <2>4. k \in 0 .. Len(s) /\ (k # 0 => s[k].confirmed_height <= h0)
    BY <2>1 DEF Kept
  <2>5. \A j \in 1 .. k : targets'[n][j] = targets[n][j]
    <3>1. targets'[n] = SubSeq(targets[n], 1, k)
      BY <1>1, <2>3
    <3>2. \A j \in 1 .. k : targets[n][j] \in Nat
      BY <2>2, <2>4, ElementOfSeq
    <3> QED
      BY <2>1, <3>1, <3>2, SubSeqProperties
  <2>6. \A j \in 1 .. k : s[j] \in NameRecord
    BY <2>2, <2>4, ElementOfSeq
  <2>7. \A j \in 1 .. k : s[j].confirmed_height \in Nat
                         /\ s[j].predecessor_nullifier \in Nullifiers
    BY <2>6 DEF NameRecord
  <2>8. \A j \in 1 .. k : s[j].confirmed_height <= s[k].confirmed_height
    <3>1. \A i, j \in 1 .. Len(s) : i <= j => s[i].confirmed_height <= s[j].confirmed_height
      BY DEF AuthInv, Ordered
    <3> HIDE DEF s, k
    <3> QED
      BY <2>2, <2>4, <3>1
  <2>9. \A j \in 1 .. k : s[j].confirmed_height \in 0 .. h0
    BY <1>1, <2>1, <2>4, <2>7, <2>8
  <2> QED
    BY <2>1, <2>2, <2>4, <2>5, <2>7, <2>9
<1>7. Ordered'
  <2> SUFFICES ASSUME NEW n \in Names,
                      NEW i \in 1 .. Len(history'[n]), NEW j \in 1 .. Len(history'[n]), i <= j
               PROVE  history'[n][i].confirmed_height <= history'[n][j].confirmed_height
    BY DEF Ordered
  <2>1. /\ i \in 1 .. Len(history[n]) /\ j \in 1 .. Len(history[n])
        /\ history'[n][i] = history[n][i] /\ history'[n][j] = history[n][j]
    BY <1>6
  <2> QED
    BY <2>1 DEF AuthInv, Ordered
<1>8. Linked'
  <2> SUFFICES ASSUME NEW n \in Names, NEW i \in 1 .. Len(history'[n])
               PROVE  /\ history'[n][i].confirmed_height > 0
                      /\ i = 1 => history'[n][i].action = "claim"
                      /\ i > 1 => LinkedTo(history'[n][i - 1], history'[n][i],
                                           targets'[n][i], spentAt')
    BY DEF Linked
  <2> DEFINE s == history[n]
  <2>1. /\ i \in 1 .. Len(s) /\ history'[n][i] = s[i] /\ targets'[n][i] = targets[n][i]
        /\ s[i].confirmed_height \in 0 .. h0
    BY <1>6
  <2>2. /\ s[i].confirmed_height > 0
        /\ i = 1 => s[i].action = "claim"
        /\ i > 1 => LinkedTo(s[i - 1], s[i], targets[n][i], spentAt)
    BY <2>1 DEF AuthInv, Linked
  <2>3. ASSUME i > 1
        PROVE  LinkedTo(s[i - 1], s[i], targets[n][i], spentAt') /\ history'[n][i - 1] = s[i - 1]
    <3>1. /\ history'[n][i - 1] = s[i - 1]
          /\ s[i - 1].predecessor_nullifier \in Nullifiers
      <4>1. i - 1 \in 1 .. Len(history'[n])
        BY <1>6, <2>3
      <4> QED
        BY <1>6, <4>1
    <3>2. \A nf \in Nullifiers : spentAt[nf] <= h0 => spentAt'[nf] = spentAt[nf]
      BY <1>1, <1>3
    <3>3. LinkedTo(s[i - 1], s[i], targets[n][i], spentAt)
      BY <2>2, <2>3
    <3> QED
      BY <1>1, <2>1, <3>1, <3>2, <3>3 DEF LinkedTo
  <2> QED
    BY <2>1, <2>2, <2>3
<1> QED
  BY <1>4, <1>5, <1>7, <1>8 DEF AuthInv

-----------------------------------------------------------------------------
(***************************************************************************)
(* Theorems                                                                *)
(***************************************************************************)
LEMMA InitAuthInv == Init => AuthInv
<1> SUFFICES ASSUME Init PROVE AuthInv
  OBVIOUS
<1>1. Inv
  BY InitInv
<1>2. ASSUME NEW h \in 0 .. height
      PROVE  AuthorityIn(StoodAt(h), h, born, spentAt)
  <2>1. h = 0 /\ StoodAt(h) = Snapshot
    BY DEF Init, StoodAt
  <2>2. Cardinality({}) = 0
    BY FS_EmptySet
  <2>3. /\ Snapshot.live = {} /\ DOMAIN Snapshot.records = {}
        /\ Cardinality(Snapshot.live) <= PoolSize
    BY <2>2, ConstantsAssumption DEF Snapshot, Init
  <2> QED
    BY <2>1, <2>3 DEF AuthorityIn
<1>3. SpentAfterBorn
  BY DEF Init, SpentAfterBorn
<1>4. Ordered /\ Linked
  <2>1. \A n \in Names : Len(history[n]) = 0
    BY EmptySeq DEF Init
  <2> QED
    BY <2>1 DEF Ordered, Linked
<1> QED
  BY <1>1, <1>2, <1>3, <1>4 DEF AuthInv, Authority

LEMMA NextAuthInv == AuthInv /\ [Next]_vars => AuthInv'
<1> SUFFICES ASSUME AuthInv, [Next]_vars PROVE AuthInv'
  OBVIOUS
<1>0. height \in Nat /\ Inv /\ Inv'
  <2>1. Inv
    BY DEF AuthInv
  <2> QED
    BY <2>1, NextInv DEF Inv, BaseType
<1>1. ASSUME NEW t \in 0 .. MaxTime, NewBlock(t)
      PROVE  AuthInv'
  BY <1>0, <1>1, NewBlockKeepsAuthInv
<1>2. ASSUME NEW outs \in SUBSET Unborn, CeremonyTx(outs)
      PROVE  AuthInv'
  <2>1. outs \in SUBSET Nullifiers /\ Mine({}, outs)
    BY <1>2 DEF Unborn, CeremonyTx
  <2> QED
    BY <1>0, <1>2, <2>1, CeremonyTxKeeps, TxKeepsAuthInv
<1>3. ASSUME NEW n \in Names, NEW ua \in Addrs, NEW e \in ExpiryValues, NEW nf \in Unborn,
             NEW successor \in Unborn \cup {NoNf}, NEW nfs \in SUBSET Spendable,
             NEW target \in 1 .. height,
             ClaimTx(ClaimNote(n, ua, e), nf, successor, nfs, target)
      PROVE  AuthInv'
  <2> DEFINE outs == {nf, successor} \ {NoNf}
  <2>1. target \in Nat /\ Mine(nfs, outs)
    BY <1>0, <1>3 DEF ClaimTx
  <2>2. AuthorityStep(nfs, outs) /\ LinkStep(nfs)
    BY <1>3, <2>1, ClaimTxKeeps
  <2> HIDE DEF outs
  <2> QED
    BY <1>0, <2>1, <2>2, TxKeepsAuthInv
<1>4. ASSUME NEW n \in Names, NEW nf \in Unborn, NEW nfs \in SUBSET Spendable,
             NEW note \in SuccessorNotes(n), SuccessorTx(note, nf, nfs)
      PROVE  AuthInv'
  <2>1. note \in NameNote
    BY <1>0, SuccessorNoteType
  <2>2. /\ Mine(nfs, {nf}) /\ SucceedRecord(note, nf, nfs, height)
        /\ note.action # "claim"
    BY <1>4 DEF SuccessorTx, AcceptUpdate, AcceptRelease, AcceptSale
  <2> QED
    BY <1>0, <2>1, <2>2, SucceedRecordKeeps, TxKeepsAuthInv
<1>5. ASSUME NEW nfs \in SUBSET Spendable, OtherSpendTx(nfs)
      PROVE  AuthInv'
  <2>1. Mine(nfs, {}) /\ FollowSpends(nfs, height)
    BY <1>5 DEF OtherSpendTx
  <2> QED
    BY <1>0, <2>1, FollowSpendsKeeps, TxKeepsAuthInv
<1>6. ASSUME NEW h \in 0 .. height, Truncate(h)
      PROVE  AuthInv'
  <2>1. h \in 0 .. height - 1
    BY <1>6 DEF Truncate
  <2> QED
    BY <1>0, <1>6, <2>1, TruncateKeepsAuthInv
<1>7. CASE UNCHANGED vars
  <2>1. UNCHANGED <<height, records, history, live, established,
                    born, spentAt, targets, snap>>
    BY <1>7 DEF vars, registryVars, chainVars
  <2>2. \A h : StoodAt(h)' = StoodAt(h)
    BY <2>1 DEF StoodAt, Snapshot
  <2>3. Authority'
    BY <2>1, <2>2 DEF AuthInv, Authority
  <2>4. SpentAfterBorn' /\ Ordered' /\ Linked'
    BY <2>1 DEF AuthInv, SpentAfterBorn, Ordered, Linked
  <2> QED
    BY <1>0, <2>3, <2>4 DEF AuthInv
<1> QED
  BY <1>1, <1>2, <1>3, <1>4, <1>5, <1>6, <1>7 DEF Next

(* Whatever verdicts accept_claim, accept_update, accept_release,           *)
(* accept_sale and follow_spends hand out, and through any rewind, the note *)
(* of every live name and every standing anchor is on the chain, unspent    *)
(* and nobody else's, and the anchors never outnumber the ceremony's.       *)
THEOREM AuthorityIsUnspent == Spec => []AuthorityUnspent
<1>1. AuthInv => AuthorityUnspent
  BY AuthInvGivesAuthorityUnspent
<1> QED
  BY <1>1, InitAuthInv, NextAuthInv, PTL DEF Spec

(* Each confirmed record of a name follows the spend of the one before it   *)
(* and extends its commitment; only a release makes room for a claim        *)
(* (accept_*, release_predecessor, truncate_to_height).                     *)
THEOREM OwnershipIsChained == Spec => []OwnershipChain
<1>1. AuthInv => OwnershipChain
  BY AuthInvGivesOwnershipChain
<1> QED
  BY <1>1, InitAuthInv, NextAuthInv, PTL DEF Spec

(* built_before_release keeps every claim that was signed before a release  *)
(* from registering the name after it, for every pair of expiry deltas the  *)
(* later of which is no shorter, wherever the network upgrade falls.        *)
THEOREM StaleClaimsNeverLand == Spec => []NoStaleClaim
<1>1. AuthInv => NoStaleClaim
  BY AuthInvGivesNoStaleClaim
<1> QED
  BY <1>1, InitAuthInv, NextAuthInv, PTL DEF Spec

-----------------------------------------------------------------------------
(***************************************************************************)
(* The Registry implements NameLedger                                      *)
(***************************************************************************)
(* The refinement mapping *)
Ledgers == [i \in 1 .. height + 1 |-> LedgerOf(StoodAt(i - 1))]

LEMMA IsAppend ==
    ASSUME NEW k \in Nat, k > 0, NEW S, NEW f \in [1 .. k -> S], NEW g \in [1 .. k + 1 -> S],
           \A i \in 1 .. k : g[i] = f[i], g[k + 1] = f[k]
    PROVE  Len(g) = Len(f) + 1 /\ g = Append(f, f[Len(f)])
<1>1. /\ f \in Seq(S) /\ Len(f) = k /\ g \in Seq(S) /\ Len(g) = k + 1 /\ f[k] \in S
  BY FunctionIsSeq
<1> DEFINE a == Append(f, f[k])
<1>2. /\ a \in Seq(S) /\ Len(a) = k + 1 /\ a[k + 1] = f[k]
      /\ \A i \in 1 .. k : a[i] = f[i]
  BY <1>1, AppendProperties
<1> HIDE DEF a
<1>3. \A i \in 1 .. k + 1 : g[i] = a[i]
  BY <1>2
<1>4. g = a
  BY <1>1, <1>2, <1>3, SeqEqual
<1> QED
  BY <1>1, <1>4 DEF a

LEMMA PrefixIs ==
    ASSUME NEW k \in Nat, NEW m \in 0 .. k, NEW S, NEW f \in [1 .. k -> S],
           NEW g \in [1 .. m -> S], \A i \in 1 .. m : g[i] = f[i]
    PROVE  g = SubSeq(f, 1, m)
<1>1. /\ f \in Seq(S) /\ Len(f) = k /\ g \in Seq(S) /\ Len(g) = m
  BY FunctionIsSeq
<1> DEFINE c == SubSeq(f, 1, m)
<1>2. /\ c \in Seq(S) /\ Len(c) = m /\ \A i \in 1 .. m : c[i] = f[i]
  BY <1>1, SubSeqProperties
<1> HIDE DEF c
<1>3. g = c
  BY <1>1, <1>2, SeqEqual
<1> QED
  BY <1>3 DEF c

LEMMA SameFront ==
    ASSUME NEW k \in Nat, k > 0, NEW S, NEW f \in [1 .. k -> S], NEW g \in [1 .. k -> S],
           \A i \in 1 .. k - 1 : g[i] = f[i]
    PROVE  Len(g) = Len(f) /\ SubSeq(g, 1, Len(g) - 1) = SubSeq(f, 1, Len(f) - 1)
<1> DEFINE e == [i \in 1 .. k - 1 |-> f[i]]
<1>1. e \in [1 .. k - 1 -> S] /\ \A i \in 1 .. k - 1 : e[i] = f[i] /\ e[i] = g[i]
  OBVIOUS
<1>2. k - 1 \in 0 .. k /\ Len(f) = k /\ Len(g) = k
  BY FunctionIsSeq
<1> HIDE DEF e
<1>3. e = SubSeq(f, 1, k - 1) /\ e = SubSeq(g, 1, k - 1)
  BY <1>1, <1>2, PrefixIs
<1> QED
  BY <1>2, <1>3

-----------------------------------------------------------------------------
(***************************************************************************)
(* The stack of ledgers                                                    *)
(***************************************************************************)

(* A new block lays a copy of the tip's ledger on the stack. *)
LEMMA NewBlockExtends ==
    ASSUME AuthInv, NEW t \in Nat, NewBlock(t)
    PROVE  Ledger!Extend
<1> DEFINE f == Ledgers
           g == Ledgers'
           S == {f[i] : i \in 1 .. height + 1} \cup {g[i] : i \in 1 .. height + 2}
<1>1. /\ height \in Nat /\ height' = height + 1
      /\ snap' = [h \in 0 .. height |-> IF h = height THEN Snapshot ELSE snap[h]]
      /\ Snapshot' = Snapshot
  BY DEF NewBlock, registryVars, AuthInv, Inv, BaseType, Snapshot
<1>2. ASSUME NEW h \in 0 .. height + 1
      PROVE  StoodAt(h)' = IF h = height + 1 THEN StoodAt(height) ELSE StoodAt(h)
  BY <1>1 DEF StoodAt
<1>3. /\ f = [i \in 1 .. height + 1 |-> LedgerOf(StoodAt(i - 1))]
      /\ g = [i \in 1 .. height + 2 |-> LedgerOf(StoodAt(i - 1)')]
  BY <1>1 DEF Ledgers, LedgerOf
<1>4. /\ f \in [1 .. height + 1 -> S] /\ g \in [1 .. (height + 1) + 1 -> S]
  BY <1>1, <1>3
<1>5. ASSUME NEW i \in 1 .. height + 1
      PROVE  g[i] = f[i]
  <2>1. i - 1 \in 0 .. height + 1 /\ i - 1 # height + 1 /\ i \in 1 .. height + 2
    BY <1>1
  <2>2. StoodAt(i - 1)' = StoodAt(i - 1)
    BY <1>2, <2>1
  <2> QED
    BY <1>3, <2>1, <2>2
<1>6. g[height + 2] = f[height + 1]
  <2>1. (height + 1) \in 0 .. height + 1 /\ height + 2 \in 1 .. height + 2
        /\ height + 1 \in 1 .. height + 1
        /\ (height + 2) - 1 = height + 1 /\ (height + 1) - 1 = height
    BY <1>1
  <2>2. ASSUME NEW h, h = height + 1
        PROVE  StoodAt(h)' = StoodAt(height)
    BY <1>2, <2>1, <2>2
  <2> QED
    BY <1>3, <2>1, <2>2
<1>7. (height + 1) \in Nat /\ height + 1 > 0 /\ (height + 1) + 1 = height + 2
  BY <1>1
<1> HIDE DEF f, g, S
<1>8. Len(g) = Len(f) + 1 /\ g = Append(f, f[Len(f)])
  BY <1>4, <1>5, <1>6, <1>7, IsAppend
<1> QED
  BY <1>8 DEF f, g, Ledgers, Ledger!Extend, Ledger!Tip

(* A rewind takes ledgers off the stack and leaves the others alone. *)
LEMMA TruncateUncovers ==
    ASSUME AuthInv, NEW h0 \in 0 .. height - 1, Truncate(h0)
    PROVE  Ledger!Uncover
<1> DEFINE f == Ledgers
           g == Ledgers'
           S == {f[i] : i \in 1 .. height + 1} \cup {g[i] : i \in 1 .. h0 + 1}
<1>1. /\ height \in Nat /\ h0 \in Nat /\ h0 < height /\ height' = h0
      /\ snap' = [k \in 0 .. h0 - 1 |-> snap[k]]
  BY DEF Truncate, AuthInv, Inv, BaseType
<1>2. /\ records' = snap[h0].records
      /\ live' = snap[h0].live /\ established' = snap[h0].established
  BY TruncateRestores DEF AuthInv
<1>3. ASSUME NEW h \in 0 .. h0
      PROVE  LedgerOf(StoodAt(h)') = LedgerOf(StoodAt(h))
  <2>1. StoodAt(h) = snap[h]
    BY <1>1 DEF StoodAt
  <2>2. CASE h = h0
    BY <2>1, <2>2, <1>1, <1>2 DEF StoodAt, Snapshot, LedgerOf
  <2>3. CASE h # h0
    BY <2>1, <2>3, <1>1 DEF StoodAt
  <2> QED
    BY <2>2, <2>3
<1>4. /\ f = [i \in 1 .. height + 1 |-> LedgerOf(StoodAt(i - 1))]
      /\ g = [i \in 1 .. h0 + 1 |-> LedgerOf(StoodAt(i - 1)')]
  BY <1>1 DEF Ledgers, LedgerOf
<1>5. f \in [1 .. height + 1 -> S] /\ g \in [1 .. h0 + 1 -> S]
  BY <1>1, <1>4
<1>6. ASSUME NEW i \in 1 .. h0 + 1
      PROVE  g[i] = f[i]
  <2>1. i - 1 \in 0 .. h0 /\ i \in 1 .. height + 1
    BY <1>1
  <2> QED
    BY <1>3, <1>4, <2>1
<1>7. height + 1 \in Nat /\ h0 + 1 \in 0 .. height + 1 /\ h0 + 1 \in Nat
      /\ h0 + 1 < height + 1
  BY <1>1
<1> HIDE DEF f, g, S
<1>8. Len(f) = height + 1 /\ Len(g) = h0 + 1
  BY <1>5, <1>7, FunctionIsSeq
<1>9. g = SubSeq(f, 1, h0 + 1)
  BY <1>5, <1>6, <1>7, PrefixIs
<1>10. Len(g) < Len(f) /\ g = SubSeq(f, 1, Len(g))
  BY <1>7, <1>8, <1>9
<1> QED
  BY <1>10 DEF f, g, Ledgers, Ledger!Uncover

(* A transaction changes the ledger of the tip only. *)
LEMMA TxTransfers ==
    ASSUME AuthInv, height' = height, snap' = snap,
           LET old == LedgerOf(Snapshot)
               new == LedgerOf(Snapshot')
           IN  \/ Ledger!Establish(old, new)
               \/ Ledger!Claim(old, new)
               \/ Ledger!Pass(old, new)
               \/ Ledger!Lapse(old, new)
    PROVE  Ledger!Transfer
<1> DEFINE f == Ledgers
           g == Ledgers'
           k == height + 1
           S == {f[i] : i \in 1 .. k} \cup {g[i] : i \in 1 .. k}
<1>1. height \in Nat /\ k \in Nat /\ k > 0 /\ k - 1 = height /\ k \in 1 .. k
  BY DEF AuthInv, Inv, BaseType
<1>2. /\ f = [i \in 1 .. k |-> LedgerOf(StoodAt(i - 1))]
      /\ g = [i \in 1 .. k |-> LedgerOf(StoodAt(i - 1)')]
  BY DEF Ledgers, LedgerOf
<1>3. f \in [1 .. k -> S] /\ g \in [1 .. k -> S]
  BY <1>2
<1>4. ASSUME NEW i \in 1 .. k - 1
      PROVE  g[i] = f[i]
  <2>1. i \in 1 .. k /\ i - 1 # height
    BY <1>1
  <2>2. StoodAt(i - 1)' = StoodAt(i - 1)
    BY <2>1 DEF StoodAt
  <2> QED
    BY <1>2, <2>1, <2>2
<1>5. f[k] = LedgerOf(Snapshot) /\ g[k] = LedgerOf(Snapshot')
  <2>1. ASSUME NEW h, h = height
        PROVE  StoodAt(h) = Snapshot /\ StoodAt(h)' = Snapshot'
    BY <2>1 DEF StoodAt
  <2> QED
    BY <1>1, <1>2, <2>1
<1> HIDE DEF f, g, S
<1>6. /\ Len(f) = k /\ Len(g) = Len(f)
      /\ SubSeq(g, 1, Len(g) - 1) = SubSeq(f, 1, Len(f) - 1)
  BY <1>1, <1>3, <1>4, FunctionIsSeq, SameFront
<1>7. /\ Len(g) = Len(f)
      /\ SubSeq(g, 1, Len(g) - 1) = SubSeq(f, 1, Len(f) - 1)
      /\ LET old == f[Len(f)]
             new == g[Len(g)]
         IN  \/ Ledger!Establish(old, new)
             \/ Ledger!Claim(old, new)
             \/ Ledger!Pass(old, new)
             \/ Ledger!Lapse(old, new)
  BY <1>5, <1>6
<1> QED
  BY <1>7 DEF f, g, Ledgers, Ledger!Transfer, Ledger!Tip, Ledger!Front

-----------------------------------------------------------------------------
(***************************************************************************)
(* Each verdict is one transfer                                            *)
(***************************************************************************)

(* follow_spends gives names up and loses authorities, and adds none. *)
LEMMA FollowSpendsLapses ==
    ASSUME NEW nfs, NEW target, RetireSpent(nfs, NoNf),
           MarkReleased(nfs, target) \/ UNCHANGED <<records, history, targets>>
    PROVE  Ledger!Lapse(LedgerOf(Snapshot), LedgerOf(Snapshot'))
<1>1. live' \subseteq live /\ established' = established
  BY DEF RetireSpent
<1>2. DOMAIN records' \subseteq DOMAIN records
      /\ \A n \in DOMAIN records' : records'[n] = records[n]
  BY DEF MarkReleased
<1> QED
  BY <1>1, <1>2 DEF Ledger!Lapse, Ledger!Kept, LedgerOf, Snapshot

(* The ledger counts as the Registry does. *)
LEMMA SameCount == \A S : Ledger!Cardinality(S) = Cardinality(S)
BY DEF Ledger!Cardinality, Cardinality

LEMMA CeremonyTransfers ==
    ASSUME AuthInv, NEW outs, CeremonyTx(outs)
    PROVE  \/ Ledger!Establish(LedgerOf(Snapshot), LedgerOf(Snapshot'))
           \/ Ledger!Lapse(LedgerOf(Snapshot), LedgerOf(Snapshot'))
<1>1. /\ AdoptAnchors(outs) /\ records' = records
      /\ height \in Nat /\ height > 0
  BY DEF CeremonyTx, Mine, AuthInv, Inv, BaseType
<1>2. CASE established # 0 \/ Cardinality(live) >= PoolSize
  <2>1. live' = live /\ established' = established
    BY <1>1, <1>2 DEF AdoptAnchors
  <2> QED
    BY <1>1, <2>1 DEF Ledger!Lapse, Ledger!Kept, LedgerOf, Snapshot
<1>3. CASE ~(established # 0 \/ Cardinality(live) >= PoolSize)
  <2>1. Cardinality(live') = PoolSize /\ established' = height /\ established = 0
    BY <1>1, <1>3 DEF AdoptAnchors
  <2> DEFINE old == LedgerOf(Snapshot)
             new == LedgerOf(Snapshot')
  <2>2. established' # 0
    BY <1>1, <2>1
  <2>3. ~old.closed /\ new.closed
    BY <2>1, <2>2, Zenon DEF LedgerOf, Snapshot
  <2>4. new.owner = old.owner /\ new.free = live'
    BY <1>1 DEF LedgerOf, Snapshot
  <2> HIDE DEF old, new
  <2>5. Ledger!Establish(old, new)
    BY <2>1, <2>3, <2>4, SameCount DEF Ledger!Establish
  <2> QED
    BY <2>5 DEF old, new
<1> QED
  BY <1>2, <1>3

LEMMA ClaimTransfers ==
    ASSUME AuthInv, NEW note, NEW nf \in Unborn, NEW successor \in Unborn \cup {NoNf},
           NEW nfs, NEW target, AcceptClaim(note, nf, successor, nfs, target),
           note.action = "claim"
    PROVE  \/ Ledger!Claim(LedgerOf(Snapshot), LedgerOf(Snapshot'))
           \/ Ledger!Lapse(LedgerOf(Snapshot), LedgerOf(Snapshot'))
<1> DEFINE backed == SpendsOneAnchor(nfs) /\ NamesSpentBy(nfs) = {}
           admitted == /\ IsAvailable(note.name)
                       /\ ~BuiltBeforeRelease(note.name, TxExpiry(target))
           r == CreateRecord(note, nf, mtp[height])
<1>1. CASE ~(successor # NoNf /\ backed /\ admitted)
  <2>1. /\ RetireSpent(nfs, NoNf)
        /\ MarkReleased(nfs, target) \/ UNCHANGED <<records, history, targets>>
    BY <1>1 DEF AcceptClaim
  <2> QED
    BY <2>1, FollowSpendsLapses
<1>2. CASE successor # NoNf /\ backed /\ admitted
  <2>1. RetireSpent(nfs, successor) /\ SetRecord(r, target)
    BY <1>2 DEF AcceptClaim
  <2>2. PICK a \in live : nfs \cap live = {a}
    BY <1>2 DEF SpendsOneAnchor
  <2>3. live' = (live \ nfs) \cup {successor} /\ established' = established
    BY <1>2, <2>1, <2>2 DEF RetireSpent
  <2>4. successor \notin live
    <3>1. \A b \in live : born[b] # 0
      BY AuthInvGivesAuthorityUnspent DEF AuthorityUnspent
    <3> QED
      BY <1>2, <3>1 DEF Unborn
  <2>5. live \ live' = {a} /\ live' \ live = {successor}
    BY <2>2, <2>3, <2>4
  <2>6. \A x : Cardinality({x}) = 1
    BY FS_Singleton
  <2>7. Cardinality(live \ live') = 1 /\ Cardinality(live' \ live) = 1
    BY <2>5, <2>6
  <2>8. note.name \notin DOMAIN records
    BY <1>2 DEF IsAvailable
  <2>9. /\ DOMAIN records' = DOMAIN records \cup {note.name}
        /\ \A m \in DOMAIN records : records'[m] = records[m]
    <3>1. r.action = "claim" /\ r.name = note.name
      BY DEF CreateRecord
    <3> HIDE DEF r
    <3> QED
      BY <2>1, <2>8, <3>1 DEF SetRecord
  <2> QED
    BY <2>3, <2>7, <2>8, <2>9, SameCount DEF Ledger!Claim, Ledger!Kept, LedgerOf, Snapshot
<1> QED
  BY <1>1, <1>2

LEMMA SucceedRecordTransfers ==
    ASSUME NEW note, NEW nf, NEW nfs, NEW target, SucceedRecord(note, nf, nfs, target)
    PROVE  \/ Ledger!Pass(LedgerOf(Snapshot), LedgerOf(Snapshot'))
           \/ Ledger!Lapse(LedgerOf(Snapshot), LedgerOf(Snapshot'))
<1>1. CASE FollowSpends(nfs, target)
  BY <1>1, FollowSpendsLapses DEF FollowSpends
<1>2. CASE ~FollowSpends(nfs, target)
  <2> DEFINE record == records[note.name]
             written == IF note.prev = record.commitment THEN note
                        ELSE ReleaseNote(note.name, record.ua, record.commitment)
             r == CreateRecord(written, nf, mtp[height])
  <2>1. /\ PredecessorSpent(note, nfs)
        /\ SetRecord(r, target)
        /\ live' = live /\ established' = established
    BY <1>2 DEF SucceedRecord
  <2>2. note.name \in DOMAIN records
    BY <2>1 DEF PredecessorSpent, NamesSpentBy
  <2>3. r.name = note.name
    BY DEF CreateRecord, ReleaseNote
  <2> HIDE DEF r
  <2>4. CASE r.action = "release"
    <3>1. DOMAIN records' \subseteq DOMAIN records
          /\ \A n \in DOMAIN records' : records'[n] = records[n]
      BY <2>1, <2>4 DEF SetRecord
    <3> QED
      BY <2>1, <3>1 DEF Ledger!Lapse, Ledger!Kept, LedgerOf, Snapshot
  <2>5. CASE r.action # "release"
    <3>1. DOMAIN records' = DOMAIN records
          /\ \A n \in DOMAIN records \ {note.name} : records'[n] = records[n]
      BY <2>1, <2>2, <2>3, <2>5 DEF SetRecord
    <3> QED
      BY <2>1, <2>2, <3>1 DEF Ledger!Pass, Ledger!Kept, LedgerOf, Snapshot
  <2> QED
    BY <2>4, <2>5
<1> QED
  BY <1>1, <1>2

-----------------------------------------------------------------------------
(***************************************************************************)
(* Refinement                                                              *)
(***************************************************************************)
LEMMA InitLedger == Init => Ledger!Init
<1> SUFFICES ASSUME Init PROVE Ledger!Init
  OBVIOUS
<1>1. /\ height = 0 /\ Snapshot.records = [n \in {} |-> 0]
      /\ Snapshot.live = {} /\ Snapshot.established = 0
  BY DEF Init, Snapshot
<1>2. LedgerOf(Snapshot) = Ledger!Empty
  BY <1>1 DEF LedgerOf, Ledger!Empty
<1>3. ASSUME NEW i \in 1 .. height + 1
      PROVE  LedgerOf(StoodAt(i - 1)) = Ledger!Empty
  BY <1>1, <1>2 DEF StoodAt
<1>4. [i \in 1 .. height + 1 |-> LedgerOf(StoodAt(i - 1))] = <<Ledger!Empty>>
  <2>1. 1 .. height + 1 = {1}
    BY <1>1
  <2> QED
    BY <1>3, <2>1
<1> QED
  BY <1>4 DEF Ledger!Init

LEMMA NextLedger ==
    ASSUME AuthInv, [Next]_vars
    PROVE  [Ledger!Next]_([i \in 1 .. height + 1 |-> LedgerOf(StoodAt(i - 1))])
<1>0. height \in Nat /\ Inv
  BY DEF AuthInv, Inv, BaseType
<1>1. ASSUME NEW t \in 0 .. MaxTime, NewBlock(t)
      PROVE  Ledger!Next
  BY <1>1, NewBlockExtends DEF Ledger!Next
<1>2. ASSUME NEW outs \in SUBSET Unborn, CeremonyTx(outs)
      PROVE  Ledger!Next
  <2>1. height' = height /\ snap' = snap
    BY <1>2 DEF CeremonyTx, Mine
  <2> QED
    BY <1>2, <2>1, CeremonyTransfers, TxTransfers DEF Ledger!Next
<1>3. ASSUME NEW n \in Names, NEW ua \in Addrs, NEW e \in ExpiryValues, NEW nf \in Unborn,
             NEW successor \in Unborn \cup {NoNf}, NEW nfs \in SUBSET Spendable,
             NEW target \in 1 .. height,
             ClaimTx(ClaimNote(n, ua, e), nf, successor, nfs, target)
      PROVE  Ledger!Next
  <2>1. /\ height' = height /\ snap' = snap
        /\ AcceptClaim(ClaimNote(n, ua, e), nf, successor, nfs, target)
    BY <1>3 DEF ClaimTx, Mine
  <2>2. ClaimNote(n, ua, e).action = "claim"
    BY DEF ClaimNote
  <2> QED
    BY <2>1, <2>2, ClaimTransfers, TxTransfers DEF Ledger!Next
<1>4. ASSUME NEW n \in Names, NEW nf \in Unborn, NEW nfs \in SUBSET Spendable,
             NEW note \in SuccessorNotes(n), SuccessorTx(note, nf, nfs)
      PROVE  Ledger!Next
  <2>1. height' = height /\ snap' = snap /\ SucceedRecord(note, nf, nfs, height)
    BY <1>4 DEF SuccessorTx, Mine, AcceptUpdate, AcceptRelease, AcceptSale
  <2> QED
    BY <2>1, SucceedRecordTransfers, TxTransfers DEF Ledger!Next
<1>5. ASSUME NEW nfs \in SUBSET Spendable, OtherSpendTx(nfs)
      PROVE  Ledger!Next
  <2>1. /\ height' = height /\ snap' = snap
        /\ RetireSpent(nfs, NoNf) /\ MarkReleased(nfs, height)
    BY <1>5 DEF OtherSpendTx, Mine, FollowSpends
  <2> QED
    BY <2>1, FollowSpendsLapses, TxTransfers DEF Ledger!Next
<1>6. ASSUME NEW h \in 0 .. height, Truncate(h)
      PROVE  Ledger!Next
  <2>1. h \in 0 .. height - 1
    BY <1>6 DEF Truncate
  <2> QED
    BY <1>6, <2>1, TruncateUncovers DEF Ledger!Next
<1>7. CASE UNCHANGED vars
  <2>1. UNCHANGED <<height, records, history, live, established, snap>>
    BY <1>7 DEF vars, registryVars, chainVars
  <2> QED
    BY <2>1 DEF StoodAt, Snapshot, LedgerOf
<1> QED
  BY <1>1, <1>2, <1>3, <1>4, <1>5, <1>6, <1>7 DEF Next

(* The Registry implements its ledger: whatever transactions consensus      *)
(* admits and whatever reorgs happen, each confirmed transaction is one     *)
(* transfer in the tip's ledger, a new block copies it, and                 *)
(* truncate_to_height uncovers an older ledger exactly as it was left.      *)
THEOREM RegistryImplementsLedger == Spec => ImplementsLedger
<1>1. AuthInv /\ [Next]_vars =>
        [Ledger!Next]_([i \in 1 .. height + 1 |-> LedgerOf(StoodAt(i - 1))])
  BY NextLedger
<1> QED
  BY <1>1, InitAuthInv, NextAuthInv, InitLedger, PTL
  DEF Spec, ImplementsLedger, Ledger!Spec

-----------------------------------------------------------------------------
(***************************************************************************)
(* The mint's orders                                                       *)
(***************************************************************************)
(* The notes the mint orders: a claim has no predecessor. *)
SoundNotes ==
    {note \in NameNote : note.action # "sale" /\ (note.action = "claim" => note.prev = NoPrev)}
SoundOrders ==
    [note : SoundNotes, origin : Nat, state : {"authorized", "sent", "seen"}, expiry : Nat]

-----------------------------------------------------------------------------
(***************************************************************************)
(* What the operations of the queue keep.  An order of the new queue is    *)
(* one of the old: its note, its origin and whether it was seen.           *)
(***************************************************************************)
Same(p, o) ==
    p.note = o.note /\ p.origin = o.origin /\ (p.state = "seen" <=> o.state = "seen")

IsThinned(from, r, q) ==
    /\ from \in [1 .. Len(r) -> 1 .. Len(q)]
    /\ \A k \in 1 .. Len(r) : Same(r[k], q[from[k]])
    /\ \A k, l \in 1 .. Len(r) : from[k] = from[l] => k = l

Thinned(r, q) == \E from : IsThinned(from, r, q)

(* Unresolved orders have names of their own. *)
Single(q) ==
    \A i, j \in 1 .. Len(q) :
        q[i].state # "seen" /\ q[j].state # "seen" /\ q[i].note.name = q[j].note.name => i = j

(* The queue holds this order, unresolved. *)
Holds(q, o) ==
    \E k \in 1 .. Len(q) : q[k].note = o.note /\ q[k].origin = o.origin /\ q[k].state # "seen"

LEMMA ThinnedSelf == ASSUME NEW q PROVE Thinned(q, q)
<1> DEFINE from == [k \in 1 .. Len(q) |-> k]
<1>1. IsThinned(from, q, q)
    BY DEF IsThinned, Same
<1> QED BY <1>1 DEF Thinned

LEMMA ThinnedTwice ==
    ASSUME NEW p, NEW q, NEW r, Thinned(r, q), Thinned(q, p)
    PROVE  Thinned(r, p)
<1>1. PICK f : IsThinned(f, r, q)
    BY DEF Thinned
<1>2. PICK g : IsThinned(g, q, p)
    BY DEF Thinned
<1> DEFINE h == [k \in 1 .. Len(r) |-> g[f[k]]]
<1>3. \A k \in 1 .. Len(r) : f[k] \in 1 .. Len(q) /\ g[f[k]] \in 1 .. Len(p) /\ h[k] = g[f[k]]
    BY <1>1, <1>2 DEF IsThinned
<1>4. h \in [1 .. Len(r) -> 1 .. Len(p)]
    BY <1>3
<1> HIDE DEF h
<1>5. ASSUME NEW k \in 1 .. Len(r) PROVE Same(r[k], p[h[k]])
  <2>1. Same(r[k], q[f[k]]) /\ Same(q[f[k]], p[g[f[k]]])
    BY <1>1, <1>2, <1>3 DEF IsThinned
  <2> QED BY <1>3, <2>1 DEF Same
<1>6. ASSUME NEW k \in 1 .. Len(r), NEW l \in 1 .. Len(r), h[k] = h[l] PROVE k = l
  <2>1. g[f[k]] = g[f[l]] /\ f[k] \in 1 .. Len(q) /\ f[l] \in 1 .. Len(q)
    BY <1>3, <1>6
  <2>2. f[k] = f[l]
    BY <1>2, <2>1 DEF IsThinned
  <2> QED BY <1>1, <2>2 DEF IsThinned
<1>7. IsThinned(h, r, p)
    BY <1>4, <1>5, <1>6 DEF IsThinned
<1> QED BY <1>7 DEF Thinned

LEMMA ThinnedSingle ==
    ASSUME NEW q, NEW r, Thinned(r, q), Single(q)
    PROVE  Single(r)
<1>1. PICK from : IsThinned(from, r, q)
    BY DEF Thinned
<1>2. ASSUME NEW i \in 1 .. Len(r), NEW j \in 1 .. Len(r), r[i].state # "seen", r[j].state # "seen",
             r[i].note.name = r[j].note.name
      PROVE  i = j
  <2>1. /\ Same(r[i], q[from[i]]) /\ Same(r[j], q[from[j]])
        /\ from[i] \in 1 .. Len(q) /\ from[j] \in 1 .. Len(q)
    BY <1>1 DEF IsThinned
  <2>2. from[i] = from[j]
    BY <1>2, <2>1 DEF Same, Single
  <2> QED BY <1>1, <2>2 DEF IsThinned
<1> QED BY <1>2 DEF Single

LEMMA ThinnedFrom ==
    ASSUME NEW q, NEW r, Thinned(r, q), NEW k \in 1 .. Len(r)
    PROVE  \E i \in 1 .. Len(q) : Same(r[k], q[i])
BY DEF Thinned, IsThinned

LEMMA OriginThinned ==
    ASSUME NEW q, NEW r, NEW places, NEW from, IsOrigin(from, q, places, r),
           Len(r) \in Nat, Len(q) \in Nat
    PROVE  Thinned(r, q)
<1>1. IsWithin(from, r, q)
    BY OriginWithin
<1>2. IsThinned(from, r, q)
    BY <1>1 DEF IsWithin, IsThinned, Same
<1> QED BY <1>2 DEF Thinned

-----------------------------------------------------------------------------
(***************************************************************************)
(* Orders by name: the first one that is unresolved, or authorized         *)
(***************************************************************************)
LEMMA FirstOfIs ==
    ASSUME NEW T, T \subseteq Nat, T # {}
    PROVE  FirstOf(T) \in T
<1>1. \E x \in T : \A y \in T : x <= y
    BY HasLeast
<1> QED BY <1>1 DEF FirstOf

LEMMA UnresolvedIs ==
    ASSUME NEW S, NEW q \in Seq(S), NEW n
    PROVE  /\ \A i : i \in Unresolved(q, n) <=>
                i \in 1 .. Len(q) /\ q[i].state # "seen" /\ q[i].note.name = n
           /\ \A i : i \in AuthorizedOf(q, n) <=>
                i \in 1 .. Len(q) /\ q[i].state = "authorized" /\ q[i].note.name = n
           /\ Unresolved(q, n) \subseteq Nat /\ AuthorizedOf(q, n) \subseteq Nat
           /\ NotePending(q, n) <=> \E i \in 1 .. Len(q) : q[i].state # "seen" /\ q[i].note.name = n
<1>1. DOMAIN q = 1 .. Len(q) /\ Len(q) \in Nat
    BY LenProperties
<1> QED BY <1>1 DEF Unresolved, AuthorizedOf, NotePending

(* drop_note takes one unresolved order of the name off the queue. *)
LEMMA DropNoteIs ==
    ASSUME NEW S, NEW q \in Seq(S), NEW n, Unresolved(q, n) # {}
    PROVE  LET r == DropNote(q, n)
               i == FirstOf(Unresolved(q, n))
           IN  /\ i \in 1 .. Len(q) /\ q[i].state # "seen" /\ q[i].note.name = n
               /\ r \in Seq(S)
               /\ \E from : IsOrigin(from, q, (1 .. Len(q)) \ {i}, r)
               /\ Thinned(r, q)
<1> DEFINE r == DropNote(q, n)
           T == Unresolved(q, n)
           i == FirstOf(T)
<1>1. T \subseteq Nat /\ \A j \in T : j \in 1 .. Len(q) /\ q[j].state # "seen" /\ q[j].note.name = n
    BY UnresolvedIs
<1>2. i \in T
    BY <1>1, FirstOfIs
<1>3. r = RemoveAt(q, i)
    BY DEF DropNote
<1> HIDE DEF T, i, r
<1>4. i \in 1 .. Len(q) /\ q[i].state # "seen" /\ q[i].note.name = n
    BY <1>1, <1>2
<1>5. r \in Seq(S) /\ \E from : IsOrigin(from, q, (1 .. Len(q)) \ {i}, r)
    BY <1>3, <1>4, RemoveAtFrom
<1>6. Thinned(r, q)
    BY <1>5, LenProperties, OriginThinned
<1> QED BY <1>4, <1>5, <1>6 DEF T, i, r

(* mark_sent leaves the queue as it was but for one authorized order of    *)
(* the name, which is now sent.                                            *)
LEMMA MarkSentIs ==
    ASSUME NEW q \in Seq(SoundOrders), NEW n, AuthorizedOf(q, n) # {}, NEW expiry \in Nat
    PROVE  LET r == MarkSent(q, n, expiry)
               i == FirstOf(AuthorizedOf(q, n))
           IN  /\ i \in 1 .. Len(q) /\ q[i].state = "authorized" /\ q[i].note.name = n
               /\ r \in Seq(SoundOrders) /\ Len(r) = Len(q)
               /\ \A k \in 1 .. Len(q) : k # i => r[k] = q[k]
               /\ \A k \in 1 .. Len(q) : Same(r[k], q[k])
               /\ Thinned(r, q)
<1> DEFINE r == MarkSent(q, n, expiry)
           T == AuthorizedOf(q, n)
           i == FirstOf(T)
           m == Len(q)
<1>1. /\ T \subseteq Nat
      /\ \A j \in T : j \in 1 .. m /\ q[j].state = "authorized" /\ q[j].note.name = n
    BY UnresolvedIs
<1>2. i \in T
    BY <1>1, FirstOfIs
<1>3. r = [q EXCEPT ![i].state = "sent", ![i].expiry = expiry]
    BY DEF MarkSent
<1> HIDE DEF T, i, r
<1>4. i \in 1 .. m /\ q[i].state = "authorized" /\ q[i].note.name = n
    BY <1>1, <1>2
<1>5. m \in Nat /\ q \in [1 .. m -> SoundOrders]
    BY LenProperties, ElementOfSeq
<1> DEFINE o == [q[i] EXCEPT !.state = "sent", !.expiry = expiry]
<1>6. r = [k \in 1 .. m |-> IF k = i THEN o ELSE q[k]]
    BY <1>3, <1>4, <1>5
<1>7. o \in SoundOrders /\ Same(o, q[i])
  <2>1. q[i] \in SoundOrders
    BY <1>4, <1>5
  <2> QED BY <1>4, <2>1 DEF SoundOrders, Same
<1> HIDE DEF o
<1>8. r \in [1 .. m -> SoundOrders]
    BY <1>5, <1>6, <1>7
<1>9. r \in Seq(SoundOrders) /\ Len(r) = m
    BY <1>5, <1>8, FunctionIsSeq
<1>10. /\ \A k \in 1 .. m : k # i => r[k] = q[k]
       /\ \A k \in 1 .. m : Same(r[k], q[k])
    BY <1>6, <1>7 DEF Same
<1> DEFINE from == [k \in 1 .. m |-> k]
<1>11. IsThinned(from, r, q)
    BY <1>9, <1>10 DEF IsThinned
<1> QED BY <1>4, <1>9, <1>10, <1>11 DEF Thinned, T, i, r, m

-----------------------------------------------------------------------------
(***************************************************************************)
(* What the signing loop walks.  Each note from place m + 1 on has an      *)
(* authorized order of its name in the queue, and no two have the same     *)
(* one: what drop_note and mark_sent take off is one of them at most.      *)
(***************************************************************************)
IsCover(f, q, s, m) ==
    /\ f \in [m + 1 .. Len(s) -> 1 .. Len(q)]
    /\ \A k \in m + 1 .. Len(s) : q[f[k]].state = "authorized" /\ q[f[k]].note.name = s[k].name
    /\ \A k, l \in m + 1 .. Len(s) : f[k] = f[l] => k = l

Covers(q, s, m) == \E f : IsCover(f, q, s, m)

(* An order of the name of the first note can be done without. *)
LEMMA CoverWithout ==
    ASSUME NEW q, NEW s, Len(s) \in Nat, NEW m \in Nat, m < Len(s), Covers(q, s, m),
           NEW i, q[i].note.name = s[m + 1].name
    PROVE  \E g : IsCover(g, q, s, m + 1) /\ \A k \in m + 2 .. Len(s) : g[k] # i
<1>1. PICK f : IsCover(f, q, s, m)
    BY DEF Covers
<1> DEFINE first == m + 1
           rest == m + 2 .. Len(s)
           g == [k \in rest |-> IF f[k] = i THEN f[first] ELSE f[k]]
<1>2. /\ first \in m + 1 .. Len(s) /\ \A k \in rest : k \in m + 1 .. Len(s) /\ k # first
      /\ (m + 1) + 1 = m + 2
    OBVIOUS
<1>3. /\ \A k \in m + 1 .. Len(s) : /\ f[k] \in 1 .. Len(q) /\ q[f[k]].state = "authorized"
                                    /\ q[f[k]].note.name = s[k].name
      /\ \A k, l \in m + 1 .. Len(s) : f[k] = f[l] => k = l
    BY <1>1 DEF IsCover
<1>4. \A k \in rest : g[k] = (IF f[k] = i THEN f[first] ELSE f[k]) /\ g[k] \in 1 .. Len(q)
    BY <1>2, <1>3
<1>5. g \in [rest -> 1 .. Len(q)]
    BY <1>4
<1> HIDE DEF g, first
<1>6. ASSUME NEW k \in rest
      PROVE  g[k] # i /\ q[g[k]].state = "authorized" /\ q[g[k]].note.name = s[k].name
  <2>1. CASE f[k] = i
    <3>1. g[k] = f[first] /\ f[first] # f[k]
        BY <1>2, <1>3, <1>4, <2>1
    <3>2. s[k].name = s[m + 1].name
        BY <1>2, <1>3, <2>1
    <3> QED BY <1>2, <1>3, <2>1, <3>1, <3>2 DEF first
  <2>2. CASE f[k] # i
    BY <1>2, <1>3, <1>4, <2>2
  <2> QED BY <2>1, <2>2
<1>7. ASSUME NEW k \in rest, NEW l \in rest, g[k] = g[l] PROVE k = l
  <2>1. k # first /\ l # first /\ k \in m + 1 .. Len(s) /\ l \in m + 1 .. Len(s)
    BY <1>2
  <2> QED BY <1>2, <1>3, <1>4, <1>7, <2>1
<1>8. IsCover(g, q, s, m + 1)
  <2>1. (m + 1) + 1 .. Len(s) = rest
    BY <1>2
  <2> HIDE DEF rest
  <2> QED BY <1>5, <1>6, <1>7, <2>1 DEF IsCover
<1> QED BY <1>6, <1>8

LEMMA DropCovers ==
    ASSUME NEW S, NEW q \in Seq(S), NEW s, Len(s) \in Nat, NEW m \in Nat, m < Len(s),
           Covers(q, s, m)
    PROVE  /\ Unresolved(q, s[m + 1].name) # {}
           /\ Covers(DropNote(q, s[m + 1].name), s, m + 1)
<1> DEFINE n == s[m + 1].name
           r == DropNote(q, n)
           i == FirstOf(Unresolved(q, n))
           rest == (m + 1) + 1 .. Len(s)
<1>1. Unresolved(q, n) # {}
  <2>1. PICK f : IsCover(f, q, s, m)
    BY DEF Covers
  <2>2. m + 1 \in m + 1 .. Len(s)
    OBVIOUS
  <2>3. f[m + 1] \in 1 .. Len(q) /\ q[f[m + 1]].state = "authorized" /\ q[f[m + 1]].note.name = n
    BY <2>1, <2>2 DEF IsCover
  <2> QED BY <2>3, UnresolvedIs
<1>2. /\ q[i].note.name = n /\ r \in Seq(S)
      /\ \E from : IsOrigin(from, q, (1 .. Len(q)) \ {i}, r)
    BY <1>1, DropNoteIs
<1>3. PICK from : IsOrigin(from, q, (1 .. Len(q)) \ {i}, r)
    BY <1>2
<1> HIDE DEF i, r
<1>4. PICK g : IsCover(g, q, s, m + 1) /\ \A k \in m + 2 .. Len(s) : g[k] # i
    BY <1>2, CoverWithout
<1>5. rest = m + 2 .. Len(s)
    OBVIOUS
<1> HIDE DEF rest, n
<1>6. \A k \in rest : /\ g[k] \in 1 .. Len(q) /\ g[k] # i /\ q[g[k]].state = "authorized"
                      /\ q[g[k]].note.name = s[k].name
    BY <1>4, <1>5 DEF IsCover, rest
<1>7. \A k \in rest : \E j \in 1 .. Len(r) : from[j] = g[k]
    BY <1>3, <1>6 DEF IsOrigin
<1> DEFINE h == [k \in rest |-> CHOOSE j \in 1 .. Len(r) : from[j] = g[k]]
<1>8. \A k \in rest : h[k] \in 1 .. Len(r) /\ from[h[k]] = g[k]
    BY <1>7
<1>9. h \in [rest -> 1 .. Len(r)]
    BY <1>8
<1> HIDE DEF h
<1>10. \A k \in rest : r[h[k]] = q[g[k]]
    BY <1>3, <1>8 DEF IsOrigin
<1>11. ASSUME NEW k \in rest, NEW l \in rest, h[k] = h[l] PROVE k = l
  <2>1. g[k] = g[l]
    BY <1>8, <1>11
  <2> QED BY <1>4, <1>5, <2>1 DEF IsCover, rest
<1>12. \A k \in rest : r[h[k]].state = "authorized" /\ r[h[k]].note.name = s[k].name
    BY <1>6, <1>10
<1>13. IsCover(h, r, s, m + 1)
    BY <1>9, <1>11, <1>12 DEF IsCover, rest
<1> QED BY <1>1, <1>13 DEF Covers, r, n

LEMMA SentCovers ==
    ASSUME NEW q \in Seq(SoundOrders), NEW s, Len(s) \in Nat, NEW m \in Nat, m < Len(s),
           Covers(q, s, m), NEW expiry \in Nat
    PROVE  /\ AuthorizedOf(q, s[m + 1].name) # {}
           /\ Covers(MarkSent(q, s[m + 1].name, expiry), s, m + 1)
<1> DEFINE n == s[m + 1].name
           r == MarkSent(q, n, expiry)
           i == FirstOf(AuthorizedOf(q, n))
<1>1. AuthorizedOf(q, n) # {}
  <2>1. PICK f : IsCover(f, q, s, m)
    BY DEF Covers
  <2>2. m + 1 \in m + 1 .. Len(s)
    OBVIOUS
  <2>3. f[m + 1] \in 1 .. Len(q) /\ q[f[m + 1]].state = "authorized" /\ q[f[m + 1]].note.name = n
    BY <2>1, <2>2 DEF IsCover
  <2> QED BY <2>3, UnresolvedIs
<1>2. /\ q[i].note.name = n /\ Len(r) = Len(q) /\ \A k \in 1 .. Len(q) : k # i => r[k] = q[k]
    BY <1>1, MarkSentIs
<1> HIDE DEF i, r
<1>3. PICK g : IsCover(g, q, s, m + 1) /\ \A k \in m + 2 .. Len(s) : g[k] # i
    BY <1>2, CoverWithout
<1>4. (m + 1) + 1 .. Len(s) = m + 2 .. Len(s)
    OBVIOUS
<1>5. \A k \in (m + 1) + 1 .. Len(s) : g[k] \in 1 .. Len(q) /\ r[g[k]] = q[g[k]]
    BY <1>2, <1>3, <1>4 DEF IsCover
<1>6. IsCover(g, r, s, m + 1)
    BY <1>2, <1>3, <1>5 DEF IsCover
<1> QED BY <1>1, <1>6 DEF Covers, r, n

LEMMA CoversTail ==
    ASSUME NEW S, NEW s \in Seq(S), s # << >>, NEW q, Covers(q, s, 1)
    PROVE  Covers(q, Tail(s), 0)
<1> DEFINE r == Tail(s)
<1>1. /\ Len(r) = Len(s) - 1 /\ Len(s) \in Nat
      /\ \A k \in 1 .. Len(s) - 1 : r[k] = s[k + 1]
    BY TailWithin, LenProperties
<1> HIDE DEF r
<1>2. PICK f : IsCover(f, q, s, 1)
    BY DEF Covers
<1> DEFINE g == [k \in 0 + 1 .. Len(r) |-> f[k + 1]]
<1>3. \A k \in 0 + 1 .. Len(r) : /\ k + 1 \in 1 + 1 .. Len(s) /\ k \in 1 .. Len(s) - 1
                                 /\ g[k] = f[k + 1] /\ r[k] = s[k + 1]
    BY <1>1
<1>4. g \in [0 + 1 .. Len(r) -> 1 .. Len(q)]
    BY <1>2, <1>3 DEF IsCover
<1> HIDE DEF g
<1>5. \A k \in 0 + 1 .. Len(r) : q[g[k]].state = "authorized" /\ q[g[k]].note.name = r[k].name
    BY <1>2, <1>3 DEF IsCover
<1>6. ASSUME NEW k \in 0 + 1 .. Len(r), NEW l \in 0 + 1 .. Len(r), g[k] = g[l] PROVE k = l
  <2>1. k + 1 = l + 1
    BY <1>2, <1>3, <1>6 DEF IsCover
  <2> QED BY <2>1
<1>7. IsCover(g, q, r, 0)
    BY <1>4, <1>5, <1>6 DEF IsCover
<1> QED BY <1>7 DEF Covers, r

LEMMA ExpireSentIs ==
    ASSUME NEW q \in Seq(SoundOrders), NEW tip
    PROVE  LET r == ExpireSent(q, tip) IN
           /\ r \in Seq(SoundOrders) /\ Len(r) = Len(q)
           /\ \A k \in 1 .. Len(q) : Same(r[k], q[k])
           /\ Thinned(r, q)
<1> DEFINE m == Len(q)
           New(k) == IF q[k].state = "sent" /\ tip + 1 >= q[k].expiry
                     THEN [q[k] EXCEPT !.state = "authorized", !.expiry = 0] ELSE q[k]
           r == ExpireSent(q, tip)
<1>1. m \in Nat /\ DOMAIN q = 1 .. m /\ \A k \in 1 .. m : q[k] \in SoundOrders
    BY LenProperties, ElementOfSeq
<1>2. r = [k \in 1 .. m |-> New(k)]
    BY <1>1 DEF ExpireSent
<1>3. ASSUME NEW k \in 1 .. m PROVE New(k) \in SoundOrders /\ Same(New(k), q[k])
  <2>1. q[k] \in SoundOrders
    BY <1>1
  <2> QED BY <2>1 DEF SoundOrders, Same
<1> HIDE DEF New, r
<1>4. r \in [1 .. m -> SoundOrders] /\ \A k \in 1 .. m : Same(r[k], q[k])
    BY <1>2, <1>3
<1>5. r \in Seq(SoundOrders) /\ Len(r) = m
    BY <1>1, <1>4, FunctionIsSeq
<1> DEFINE from == [k \in 1 .. m |-> k]
<1>6. IsThinned(from, r, q)
    BY <1>4, <1>5 DEF IsThinned
<1> QED BY <1>4, <1>5, <1>6 DEF Thinned, r

(* The notes to sign are those of the authorized orders, one each. *)
IsNotes(f, q, s) ==
    /\ f \in [1 .. Len(s) -> 1 .. Len(q)]
    /\ \A k \in 1 .. Len(s) : q[f[k]].state = "authorized" /\ q[f[k]].note = s[k]
    /\ \A k, l \in 1 .. Len(s) : f[k] = f[l] => k = l

LEMMA AuthorizedNotesIs ==
    ASSUME NEW q \in Seq(SoundOrders)
    PROVE  /\ AuthorizedNotes(q) \in Seq(SoundNotes)
           /\ \E f : IsNotes(f, q, AuthorizedNotes(q))
<1> DEFINE places == {i \in DOMAIN q : q[i].state = "authorized"}
           kept == Retain(q, places)
           m == Len(kept)
           s == AuthorizedNotes(q)
<1>1. kept \in Seq(SoundOrders) /\ \E from : IsOrigin(from, q, places, kept)
    BY RetainFrom
<1>2. PICK f : IsOrigin(f, q, places, kept)
    BY <1>1
<1>3. s = [i \in DOMAIN kept |-> kept[i].note]
    BY DEF AuthorizedNotes
<1>4. \A i \in places : q[i].state = "authorized"
    OBVIOUS
<1> HIDE DEF places, kept, s
<1>5. m \in Nat /\ DOMAIN kept = 1 .. m /\ \A i \in 1 .. m : kept[i] \in SoundOrders
    BY <1>1, LenProperties, ElementOfSeq
<1>6. \A i \in 1 .. m : kept[i].note \in SoundNotes
    BY <1>5 DEF SoundOrders
<1>7. s \in [1 .. m -> SoundNotes] /\ \A i \in 1 .. m : s[i] = kept[i].note
    BY <1>3, <1>5, <1>6
<1>8. s \in Seq(SoundNotes) /\ Len(s) = m
    BY <1>5, <1>7, FunctionIsSeq
<1>9. Len(q) \in Nat
    BY LenProperties
<1>10. IsWithin(f, kept, q)
    BY <1>2, <1>5, <1>9, OriginWithin
<1>11. /\ f \in [1 .. m -> 1 .. Len(q)]
       /\ \A k, l \in 1 .. m : f[k] = f[l] => k = l
    BY <1>10 DEF IsWithin
<1>12. \A k \in 1 .. m : f[k] \in places /\ kept[k] = q[f[k]]
    BY <1>2 DEF IsOrigin
<1> HIDE DEF m
<1>13. \A k \in 1 .. m : q[f[k]].state = "authorized" /\ q[f[k]].note = s[k]
    BY <1>4, <1>7, <1>12
<1>14. IsNotes(f, q, s)
    BY <1>8, <1>11, <1>13 DEF IsNotes
<1> QED BY <1>8, <1>14 DEF s

LEMMA NotesCover ==
    ASSUME NEW q, NEW s, NEW f, IsNotes(f, q, s), Len(s) \in Nat
    PROVE  Covers(q, s, 0)
<1>1. 0 + 1 .. Len(s) = 1 .. Len(s)
    OBVIOUS
<1>2. IsCover(f, q, s, 0)
    BY <1>1 DEF IsNotes, IsCover
<1> QED BY <1>2 DEF Covers

LEMMA AdmitIs ==
    ASSUME NEW q \in Seq(SoundOrders), NEW origin \in Nat, NEW note \in SoundNotes
    PROVE  LET r == Admit(q, origin, note)
               o == [note |-> note, origin |-> origin, state |-> "authorized", expiry |-> 0]
           IN  /\ r \in Seq(SoundOrders)
               /\ Len(q) \in Nat /\ Len(r) \in Len(q) .. Len(q) + 1
               /\ \A k \in 1 .. Len(q) : r[k] = q[k]
               /\ \A k \in Len(q) + 1 .. Len(r) : r[k] = o
               /\ NotePending(r, note.name)
               /\ Single(q) => Single(r)
               /\ NotePending(q, note.name) => r = q
               /\ ~NotePending(q, note.name) => Len(r) = Len(q) + 1
<1> DEFINE r == Admit(q, origin, note)
           o == [note |-> note, origin |-> origin, state |-> "authorized", expiry |-> 0]
<1>0. o \in SoundOrders /\ o.state = "authorized" /\ o.note = note
    BY DEF SoundOrders
<1>00. Len(q) \in Nat
    BY LenProperties
<1>1. CASE NotePending(q, note.name)
  <2>1. r = q
    BY <1>1 DEF Admit
  <2> QED BY <1>00, <1>1, <2>1
<1>2. CASE ~NotePending(q, note.name)
  <2>1. r = Append(q, o)
    BY <1>2 DEF Admit
  <2> HIDE DEF o
  <2>2. /\ r \in Seq(SoundOrders) /\ Len(r) = Len(q) + 1
        /\ \A k \in 1 .. Len(q) : r[k] = q[k]
        /\ r[Len(q) + 1] = o
    BY <1>0, <2>1, AppendProperties
  <2> HIDE DEF r
  <2>3. NotePending(r, note.name)
    <3>1. Len(r) \in 1 .. Len(r) /\ r[Len(r)].state # "seen" /\ r[Len(r)].note.name = note.name
        BY <1>0, <1>00, <2>2
    <3> QED BY <2>2, <3>1, UnresolvedIs
  <2>4. ASSUME Single(q) PROVE Single(r)
    <3>1. \A i \in 1 .. Len(q) : q[i].state # "seen" => q[i].note.name # note.name
        BY <1>2, UnresolvedIs
    <3>2. \A i \in 1 .. Len(r) : i \in 1 .. Len(q) \/ i = Len(q) + 1
        BY <1>00, <2>2
    <3>3. ASSUME NEW i \in 1 .. Len(r), NEW j \in 1 .. Len(r), r[i].state # "seen",
                 r[j].state # "seen", r[i].note.name = r[j].note.name
          PROVE  i = j
      <4>1. CASE i \in 1 .. Len(q) /\ j \in 1 .. Len(q)
        BY <2>2, <2>4, <3>3, <4>1 DEF Single
      <4>2. CASE i \in 1 .. Len(q) /\ j = Len(q) + 1
        BY <1>0, <2>2, <3>1, <3>3, <4>2
      <4>3. CASE j \in 1 .. Len(q) /\ i = Len(q) + 1
        BY <1>0, <2>2, <3>1, <3>3, <4>3
      <4> QED BY <3>2, <4>1, <4>2, <4>3
    <3> QED BY <3>3 DEF Single
  <2>5. \A k \in Len(q) + 1 .. Len(r) : r[k] = o
    BY <1>00, <2>2
  <2>6. Len(r) \in Len(q) .. Len(q) + 1
    BY <1>00, <2>2
  <2> QED BY <1>00, <1>2, <2>2, <2>3, <2>4, <2>5, <2>6 DEF o, r
<1> QED BY <1>1, <1>2

LEMMA DueTyped == ASSUME NEW n PROVE Due(n) \in BOOLEAN
BY DEF Due

-----------------------------------------------------------------------------
(***************************************************************************)
(* The updates the tip median would release are dropped, each by a         *)
(* drop_note of its name; the due names without a note are owed a release. *)
(***************************************************************************)
DropStep(r, note) == DropNote(r, note.name)

IsDropping(g, s, n, q) ==
    g = [k \in 0 .. n |-> IF k = 0 THEN q ELSE DropStep(g[k - 1], s[k])]

LEMMA DroppingExists ==
    ASSUME NEW s, NEW n \in Nat, NEW q
    PROVE  \E g : IsDropping(g, s, n, q)
<1> DEFINE T == {k \in Nat : \E g : IsDropping(g, s, k, q)}
<1>1. 0 \in T
  <2> DEFINE g == [k \in 0 .. 0 |-> q]
  <2>1. IsDropping(g, s, 0, q)
    BY DEF IsDropping
  <2> QED BY <2>1
<1>2. ASSUME NEW m \in T PROVE m + 1 \in T
  <2>1. PICK f : IsDropping(f, s, m, q)
    OBVIOUS
  <2>2. m \in Nat
    OBVIOUS
  <2> DEFINE g == [k \in 0 .. m + 1 |-> IF k = m + 1 THEN DropStep(f[m], s[m + 1]) ELSE f[k]]
  <2>3. \A k \in 0 .. m : g[k] = f[k]
    BY <2>2
  <2>4. g[m + 1] = DropStep(f[m], s[m + 1])
    BY <2>2
  <2>5. \A k \in 0 .. m : f[k] = IF k = 0 THEN q ELSE DropStep(f[k - 1], s[k])
    BY <2>1 DEF IsDropping
  <2> DEFINE G == [k \in 0 .. m + 1 |-> IF k = 0 THEN q ELSE DropStep(g[k - 1], s[k])]
  <2>6. ASSUME NEW k \in 0 .. m + 1 PROVE g[k] = G[k]
    <3> HIDE DEF g
    <3>1. CASE k = m + 1
      <4>1. k # 0 /\ k - 1 = m /\ m \in 0 .. m
        BY <2>2, <3>1
      <4> QED BY <2>3, <2>4, <3>1, <4>1
    <3>2. CASE k # m + 1
      <4>1. k \in 0 .. m /\ (k # 0 => k - 1 \in 0 .. m)
        BY <2>2, <3>2
      <4> QED BY <2>3, <2>5, <4>1
    <3> QED BY <3>1, <3>2
  <2>7. g = G
    BY <2>6
  <2>8. IsDropping(g, s, m + 1, q)
    <3> HIDE DEF g
    <3> QED BY <2>7 DEF IsDropping
  <2> QED BY <2>2, <2>8
<1>3. T \subseteq Nat
    OBVIOUS
<1> HIDE DEF T
<1>4. n \in T
    BY <1>1, <1>2, <1>3, SetInduction
<1> QED BY <1>4 DEF T


DueUpdates(q) ==
    LET notes == AuthorizedNotes(q)
    IN  Retain(notes, {i \in DOMAIN notes : notes[i].action = "update" /\ Due(notes[i].name)})

LEMMA DroppingIs ==
    ASSUME NEW q
    PROVE  DropDueUpdates(q) =
             (CHOOSE g : IsDropping(g, DueUpdates(q), Len(DueUpdates(q)), q))[Len(DueUpdates(q))]
BY DEF DropDueUpdates, DueUpdates, IsDropping, DropStep

LEMMA DueUpdatesAre ==
    ASSUME NEW q \in Seq(SoundOrders)
    PROVE  LET s == DueUpdates(q) IN
           /\ s \in Seq(SoundNotes) /\ Len(s) \in Nat
           /\ \A k \in 1 .. Len(s) : s[k].action = "update" /\ Due(s[k].name)
           /\ \E f : IsNotes(f, q, s)
<1> DEFINE notes == AuthorizedNotes(q)
           places == {i \in DOMAIN notes : notes[i].action = "update" /\ Due(notes[i].name)}
           s == DueUpdates(q)
<1>1. s = Retain(notes, places)
    BY DEF DueUpdates
<1>2. notes \in Seq(SoundNotes) /\ \E f : IsNotes(f, q, notes)
    BY AuthorizedNotesIs
<1>3. \A i \in places : notes[i].action = "update" /\ Due(notes[i].name)
    OBVIOUS
<1> HIDE DEF notes, places, s
<1>4. PICK f : IsNotes(f, q, notes)
    BY <1>2
<1>5. s \in Seq(SoundNotes) /\ \E g : IsOrigin(g, notes, places, s)
    BY <1>1, <1>2, RetainFrom
<1>6. PICK g : IsOrigin(g, notes, places, s)
    BY <1>5
<1>7. Len(s) \in Nat /\ Len(notes) \in Nat
    BY <1>2, <1>5, LenProperties
<1>8. IsWithin(g, s, notes)
    BY <1>6, <1>7, OriginWithin
<1>9. \A k \in 1 .. Len(s) : g[k] \in places /\ s[k] = notes[g[k]]
    BY <1>6 DEF IsOrigin
<1>10. \A k \in 1 .. Len(s) : s[k].action = "update" /\ Due(s[k].name)
    BY <1>3, <1>9
<1> DEFINE h == [k \in 1 .. Len(s) |-> f[g[k]]]
<1>11. \A k \in 1 .. Len(s) : /\ g[k] \in 1 .. Len(notes) /\ h[k] = f[g[k]]
                              /\ f[g[k]] \in 1 .. Len(q)
    BY <1>4, <1>8 DEF IsNotes, IsWithin
<1>12. h \in [1 .. Len(s) -> 1 .. Len(q)]
    BY <1>11
<1> HIDE DEF h
<1>13. \A k \in 1 .. Len(s) : q[h[k]].state = "authorized" /\ q[h[k]].note = s[k]
    BY <1>4, <1>9, <1>11 DEF IsNotes
<1>14. ASSUME NEW k \in 1 .. Len(s), NEW l \in 1 .. Len(s), h[k] = h[l] PROVE k = l
  <2>1. g[k] = g[l]
    BY <1>4, <1>11, <1>14 DEF IsNotes
  <2> QED BY <1>8, <2>1 DEF IsWithin
<1>15. IsNotes(h, q, s)
    BY <1>12, <1>13, <1>14 DEF IsNotes
<1> QED BY <1>5, <1>7, <1>10, <1>15 DEF s

(* An unresolved order is still there, or it was an update of a due name. *)
Spared(r, q) ==
    \A i \in 1 .. Len(q) : q[i].state # "seen" =>
        Holds(r, q[i]) \/ (q[i].note.action = "update" /\ Due(q[i].note.name))

Dropped(r, q, s, k) ==
    /\ r \in Seq(SoundOrders) /\ Thinned(r, q) /\ Covers(r, s, k)
    /\ Single(q) => Spared(r, q)

LEMMA DropOneMore ==
    ASSUME NEW q \in Seq(SoundOrders), NEW s \in Seq(SoundNotes),
           \A k \in 1 .. Len(s) : s[k].action = "update" /\ Due(s[k].name),
           NEW f, IsNotes(f, q, s),
           NEW k \in Nat, k < Len(s), NEW r, Dropped(r, q, s, k)
    PROVE  Dropped(DropStep(r, s[k + 1]), q, s, k + 1)
<1> DEFINE n == s[k + 1].name
           t == DropNote(r, n)
           i == FirstOf(Unresolved(r, n))
<1>0. Len(s) \in Nat /\ k + 1 \in 1 .. Len(s) /\ Len(q) \in Nat
    BY LenProperties
<1>1. r \in Seq(SoundOrders) /\ Thinned(r, q) /\ Covers(r, s, k)
    BY DEF Dropped
<1>2. Unresolved(r, n) # {} /\ Covers(t, s, k + 1)
    BY <1>0, <1>1, DropCovers
<1>3. /\ i \in 1 .. Len(r) /\ r[i].state # "seen" /\ r[i].note.name = n
      /\ t \in Seq(SoundOrders) /\ Thinned(t, r)
      /\ \E from : IsOrigin(from, r, (1 .. Len(r)) \ {i}, t)
    BY <1>1, <1>2, DropNoteIs
<1>4. Thinned(t, q)
    BY <1>1, <1>3, ThinnedTwice
<1>5. PICK from : IsOrigin(from, r, (1 .. Len(r)) \ {i}, t)
    BY <1>3
<1> HIDE DEF t, i
<1>6. ASSUME Single(q) PROVE Spared(t, q)
  <2>1. ASSUME NEW j \in 1 .. Len(q), q[j].state # "seen",
               ~(q[j].note.action = "update" /\ Due(q[j].note.name))
        PROVE  Holds(t, q[j])
    <3>1. Holds(r, q[j])
        BY <1>6, <2>1 DEF Dropped, Spared
    <3>2. PICK l \in 1 .. Len(r) : /\ r[l].note = q[j].note /\ r[l].origin = q[j].origin
                                   /\ r[l].state # "seen"
        BY <3>1 DEF Holds
    <3>3. l # i
      <4> SUFFICES ASSUME l = i PROVE FALSE
        OBVIOUS
      <4>1. f[k + 1] \in 1 .. Len(q) /\ q[f[k + 1]].state = "authorized" /\ q[f[k + 1]].note = s[k + 1]
        BY <1>0 DEF IsNotes
      <4>2. f[k + 1] = j
        BY <1>3, <1>6, <2>1, <3>2, <4>1 DEF Single
      <4>3. s[k + 1].action = "update" /\ Due(s[k + 1].name)
        BY <1>0
      <4> QED BY <2>1, <4>1, <4>2, <4>3
    <3>4. PICK m \in 1 .. Len(t) : from[m] = l
        BY <1>5, <3>3 DEF IsOrigin
    <3>5. t[m] = r[l]
        BY <1>5, <3>4 DEF IsOrigin
    <3> QED BY <3>2, <3>5 DEF Holds
  <2> QED BY <2>1 DEF Spared
<1> QED BY <1>2, <1>3, <1>4, <1>6 DEF Dropped, DropStep, t

LEMMA DropDueUpdatesIs ==
    ASSUME NEW q \in Seq(SoundOrders)
    PROVE  LET r == DropDueUpdates(q) IN
           r \in Seq(SoundOrders) /\ Thinned(r, q) /\ (Single(q) => Spared(r, q))
<1> DEFINE s == DueUpdates(q)
           m == Len(s)
           g == CHOOSE g : IsDropping(g, s, m, q)
           T == {k \in Nat : k <= m => Dropped(g[k], q, s, k)}
<1>1. /\ s \in Seq(SoundNotes) /\ m \in Nat
      /\ \A k \in 1 .. m : s[k].action = "update" /\ Due(s[k].name)
      /\ \E f : IsNotes(f, q, s)
    BY DueUpdatesAre
<1>2. PICK f : IsNotes(f, q, s)
    BY <1>1
<1>3. DropDueUpdates(q) = g[m]
    BY DroppingIs
<1> HIDE DEF s
<1>4. IsDropping(g, s, m, q)
    BY <1>1, DroppingExists
<1> HIDE DEF g
<1>5. /\ g[0] = q
      /\ \A k \in Nat : k < m => g[k + 1] = DropStep(g[k], s[k + 1])
  <2>1. \A k \in 0 .. m : g[k] = IF k = 0 THEN q ELSE DropStep(g[k - 1], s[k])
    BY <1>4 DEF IsDropping
  <2>2. ASSUME NEW k \in Nat, k < m PROVE g[k + 1] = DropStep(g[k], s[k + 1])
    <3>1. k + 1 \in 0 .. m /\ k + 1 # 0 /\ (k + 1) - 1 = k
        BY <1>1, <2>2
    <3> QED BY <2>1, <3>1
  <2> QED BY <1>1, <2>1, <2>2
<1>6. Dropped(q, q, s, 0)
  <2>1. Covers(q, s, 0)
    BY <1>1, <1>2, NotesCover
  <2>2. Spared(q, q)
    BY DEF Spared, Holds
  <2> QED BY <2>1, <2>2, ThinnedSelf DEF Dropped
<1>7. 0 \in T
    BY <1>5, <1>6
<1>8. ASSUME NEW k \in T PROVE k + 1 \in T
  <2>1. SUFFICES ASSUME k + 1 <= m PROVE Dropped(g[k + 1], q, s, k + 1)
    OBVIOUS
  <2>2. k \in Nat /\ k < m /\ Dropped(g[k], q, s, k)
    BY <1>1, <2>1
  <2>3. Dropped(DropStep(g[k], s[k + 1]), q, s, k + 1)
    BY <1>1, <1>2, <2>2, DropOneMore
  <2> QED BY <1>5, <2>2, <2>3
<1>9. T \subseteq Nat
    OBVIOUS
<1> HIDE DEF T
<1>10. m \in T
    BY <1>1, <1>7, <1>8, <1>9, SetInduction
<1>11. Dropped(g[m], q, s, m)
    BY <1>1, <1>10 DEF T
<1> QED BY <1>3, <1>11 DEF Dropped

LifecycleRelease(n) == ReleaseNote(n, records[n].ua, records[n].commitment)
DueNames == {n \in Names : Due(n)}
AdmitStep(r, n) == Admit(r, height, LifecycleRelease(n))

IsAdmitting(g, s, n, q) ==
    g = [k \in 0 .. n |-> IF k = 0 THEN q ELSE AdmitStep(g[k - 1], s[k])]

LEMMA AdmittingExists ==
    ASSUME NEW s, NEW n \in Nat, NEW q
    PROVE  \E g : IsAdmitting(g, s, n, q)
<1> DEFINE T == {k \in Nat : \E g : IsAdmitting(g, s, k, q)}
<1>1. 0 \in T
  <2> DEFINE g == [k \in 0 .. 0 |-> q]
  <2>1. IsAdmitting(g, s, 0, q)
    BY DEF IsAdmitting
  <2> QED BY <2>1
<1>2. ASSUME NEW m \in T PROVE m + 1 \in T
  <2>1. PICK f : IsAdmitting(f, s, m, q)
    OBVIOUS
  <2>2. m \in Nat
    OBVIOUS
  <2> DEFINE g == [k \in 0 .. m + 1 |-> IF k = m + 1 THEN AdmitStep(f[m], s[m + 1]) ELSE f[k]]
  <2>3. \A k \in 0 .. m : g[k] = f[k]
    BY <2>2
  <2>4. g[m + 1] = AdmitStep(f[m], s[m + 1])
    BY <2>2
  <2>5. \A k \in 0 .. m : f[k] = IF k = 0 THEN q ELSE AdmitStep(f[k - 1], s[k])
    BY <2>1 DEF IsAdmitting
  <2> DEFINE G == [k \in 0 .. m + 1 |-> IF k = 0 THEN q ELSE AdmitStep(g[k - 1], s[k])]
  <2>6. ASSUME NEW k \in 0 .. m + 1 PROVE g[k] = G[k]
    <3> HIDE DEF g
    <3>1. CASE k = m + 1
      <4>1. k # 0 /\ k - 1 = m /\ m \in 0 .. m
        BY <2>2, <3>1
      <4> QED BY <2>3, <2>4, <3>1, <4>1
    <3>2. CASE k # m + 1
      <4>1. k \in 0 .. m /\ (k # 0 => k - 1 \in 0 .. m)
        BY <2>2, <3>2
      <4> QED BY <2>3, <2>5, <4>1
    <3> QED BY <3>1, <3>2
  <2>7. g = G
    BY <2>6
  <2>8. IsAdmitting(g, s, m + 1, q)
    <3> HIDE DEF g
    <3> QED BY <2>7 DEF IsAdmitting
  <2> QED BY <2>2, <2>8
<1>3. T \subseteq Nat
    OBVIOUS
<1> HIDE DEF T
<1>4. n \in T
    BY <1>1, <1>2, <1>3, SetInduction
<1> QED BY <1>4 DEF T

LEMMA AdmittingIs ==
    ASSUME NEW q
    PROVE  AdmitReleases(q) =
             (CHOOSE g : IsAdmitting(g, SetToSeq(DueNames), Len(SetToSeq(DueNames)), q))
               [Len(SetToSeq(DueNames))]
BY DEF AdmitReleases, DueNames, IsAdmitting, AdmitStep, LifecycleRelease

(* r is q and, behind it, releases owed to due names. *)
Owed(r, q) ==
    /\ r \in Seq(SoundOrders) /\ Len(q) \in Nat /\ Len(r) \in Nat /\ Len(q) <= Len(r)
    /\ \A k \in 1 .. Len(q) : r[k] = q[k]
    /\ \A k \in Len(q) + 1 .. Len(r) :
         \E n \in DueNames :
            r[k] = [note |-> LifecycleRelease(n), origin |-> height,
                    state |-> "authorized", expiry |-> 0]
    /\ Single(q) => Single(r)

LEMMA LifecycleReleaseSound ==
    ASSUME Inv, NEW n \in DueNames
    PROVE  /\ LifecycleRelease(n) \in SoundNotes
           /\ LifecycleRelease(n).name = n /\ LifecycleRelease(n).action = "release"
           /\ LifecycleRelease(n).prev = records[n].commitment
           /\ n \in DOMAIN records
<1>1. n \in Names /\ n \in DOMAIN records
    BY DEF DueNames, Due
<1>2. records[n] \in NameRecord
    BY <1>1, InvGivesTypeOK DEF TypeOK
<1>3. records[n].ua \in Addrs /\ records[n].commitment \in NameCommitment
    BY <1>2 DEF NameRecord
<1>4. LifecycleRelease(n) \in NameNote
    BY <1>1, <1>3, ReleaseNoteType DEF LifecycleRelease
<1>5. /\ LifecycleRelease(n).name = n /\ LifecycleRelease(n).action = "release"
      /\ LifecycleRelease(n).prev = records[n].commitment
    BY DEF LifecycleRelease, ReleaseNote
<1> QED BY <1>1, <1>4, <1>5 DEF SoundNotes

Admitted(r, q, s, k) ==
    Owed(r, q) /\ \A j \in 1 .. k : NotePending(r, s[j])

LEMMA AdmitOneMore ==
    ASSUME Inv, NEW q \in Seq(SoundOrders), NEW s \in Seq(DueNames), NEW k \in Nat, k < Len(s),
           NEW r, Admitted(r, q, s, k)
    PROVE  Admitted(AdmitStep(r, s[k + 1]), q, s, k + 1)
<1> DEFINE n == s[k + 1]
           note == LifecycleRelease(n)
           o == [note |-> note, origin |-> height, state |-> "authorized", expiry |-> 0]
           t == Admit(r, height, note)
<1>0. Len(s) \in Nat /\ k + 1 \in 1 .. Len(s) /\ height \in Nat
    BY LenProperties DEF Inv, BaseType
<1>1. n \in DueNames
    BY <1>0, ElementOfSeq
<1>2. note \in SoundNotes /\ note.name = n
    BY <1>1, LifecycleReleaseSound
<1>3. /\ r \in Seq(SoundOrders) /\ Len(q) \in Nat /\ Len(r) \in Nat /\ Len(q) <= Len(r)
      /\ \A j \in 1 .. Len(q) : r[j] = q[j]
      /\ \A j \in Len(q) + 1 .. Len(r) :
           \E x \in DueNames :
              r[j] = [note |-> LifecycleRelease(x), origin |-> height,
                      state |-> "authorized", expiry |-> 0]
      /\ Single(q) => Single(r)
      /\ \A j \in 1 .. k : NotePending(r, s[j])
    BY DEF Admitted, Owed
<1> HIDE DEF note, n
<1>4. /\ t \in Seq(SoundOrders) /\ Len(t) \in Len(r) .. Len(r) + 1
      /\ \A j \in 1 .. Len(r) : t[j] = r[j]
      /\ \A j \in Len(r) + 1 .. Len(t) : t[j] = o
      /\ NotePending(t, note.name)
      /\ Single(r) => Single(t)
    BY <1>0, <1>2, <1>3, AdmitIs
<1> HIDE DEF t
<1>5. Len(t) \in Nat /\ Len(q) <= Len(t) /\ \A j \in 1 .. Len(q) : t[j] = q[j]
  <2>1. Len(q) \in Nat /\ Len(r) \in Nat /\ Len(q) <= Len(r) /\ Len(t) \in Len(r) .. Len(r) + 1
    BY <1>3, <1>4
  <2>2. ASSUME NEW j \in 1 .. Len(q) PROVE t[j] = q[j]
    <3>1. j \in 1 .. Len(r)
        BY <2>1
    <3> QED BY <1>3, <1>4, <3>1
  <2> QED BY <2>1, <2>2
<1>6. ASSUME NEW j \in Len(q) + 1 .. Len(t)
      PROVE  \E x \in DueNames :
                t[j] = [note |-> LifecycleRelease(x), origin |-> height,
                        state |-> "authorized", expiry |-> 0]
  <2>1. CASE j \in Len(q) + 1 .. Len(r)
    <3>1. t[j] = r[j]
        BY <1>3, <1>4, <2>1
    <3> QED BY <1>3, <2>1, <3>1
  <2>2. CASE j \in Len(r) + 1 .. Len(t)
    BY <1>1, <1>4, <2>2 DEF note
  <2> QED BY <1>3, <1>5, <2>1, <2>2
<1>7. ASSUME NEW j \in 1 .. k + 1 PROVE NotePending(t, s[j])
  <2>1. CASE j = k + 1
    BY <1>2, <1>4, <2>1 DEF n
  <2>2. CASE j \in 1 .. k
    <3>1. NotePending(r, s[j])
        BY <1>3, <2>2
    <3>2. PICK i \in 1 .. Len(r) : r[i].state # "seen" /\ r[i].note.name = s[j]
      <4>1. r \in Seq(SoundOrders)
        BY <1>3
      <4> QED BY <3>1, <4>1, UnresolvedIs
    <3>3. i \in 1 .. Len(t) /\ t[i] = r[i]
        BY <1>3, <1>4
    <3> QED BY <1>4, <3>2, <3>3, UnresolvedIs
  <2> QED BY <2>1, <2>2
<1> QED BY <1>3, <1>4, <1>5, <1>6, <1>7 DEF Admitted, Owed, AdmitStep, t, n, note

LEMMA AdmitReleasesIs ==
    ASSUME Inv, NEW q \in Seq(SoundOrders)
    PROVE  Owed(AdmitReleases(q), q) /\ \A n \in DueNames : NotePending(AdmitReleases(q), n)
<1> DEFINE s == SetToSeq(DueNames)
           m == Len(s)
           g == CHOOSE g : IsAdmitting(g, s, m, q)
           T == {k \in Nat : k <= m => Admitted(g[k], q, s, k)}
<1>1. s \in Seq(DueNames) /\ m \in Nat /\ \A n \in DueNames : \E i \in 1 .. m : s[i] = n
  <2>1. DueNames \in SUBSET Names /\ IsFiniteSet(Names)
    BY MintBoundsAssumption DEF DueNames
  <2>2. IsFiniteSet(DueNames)
    BY <2>1, FS_Subset
  <2> QED BY <2>2, SetToSeqIs, LenProperties
<1>3. AdmitReleases(q) = g[m]
    BY AdmittingIs
<1> HIDE DEF s
<1>4. IsAdmitting(g, s, m, q)
    BY <1>1, AdmittingExists
<1> HIDE DEF g
<1>5. /\ g[0] = q
      /\ \A k \in Nat : k < m => g[k + 1] = AdmitStep(g[k], s[k + 1])
  <2>1. \A k \in 0 .. m : g[k] = IF k = 0 THEN q ELSE AdmitStep(g[k - 1], s[k])
    BY <1>4 DEF IsAdmitting
  <2>2. ASSUME NEW k \in Nat, k < m PROVE g[k + 1] = AdmitStep(g[k], s[k + 1])
    <3>1. k + 1 \in 0 .. m /\ k + 1 # 0 /\ (k + 1) - 1 = k
        BY <1>1, <2>2
    <3> QED BY <2>1, <3>1
  <2> QED BY <1>1, <2>1, <2>2
<1>6. Admitted(q, q, s, 0)
  <2>1. Len(q) \in Nat
    BY LenProperties
  <2> QED BY <2>1 DEF Admitted, Owed
<1>7. 0 \in T
    BY <1>5, <1>6
<1>8. ASSUME NEW k \in T PROVE k + 1 \in T
  <2>1. SUFFICES ASSUME k + 1 <= m PROVE Admitted(g[k + 1], q, s, k + 1)
    OBVIOUS
  <2>2. k \in Nat /\ k < m /\ Admitted(g[k], q, s, k)
    BY <1>1, <2>1
  <2>3. Admitted(AdmitStep(g[k], s[k + 1]), q, s, k + 1)
    BY <1>1, <2>2, AdmitOneMore
  <2> QED BY <1>5, <2>2, <2>3
<1>9. T \subseteq Nat
    OBVIOUS
<1> HIDE DEF T
<1>10. m \in T
    BY <1>1, <1>7, <1>8, <1>9, SetInduction
<1>11. Admitted(g[m], q, s, m)
    BY <1>1, <1>10 DEF T
<1> QED BY <1>1, <1>3, <1>11 DEF Admitted

-----------------------------------------------------------------------------
(***************************************************************************)
(* The queue after a block and after a rewind                              *)
(***************************************************************************)
Observed(o, hist) ==
    IF Confirmed(o, hist) THEN [o EXCEPT !.state = "seen", !.expiry = 0] ELSE o

IsReconciled(from, r, q, hist, recs) ==
    /\ from \in [1 .. Len(r) -> 1 .. Len(q)]
    /\ \A k \in 1 .. Len(r) : r[k] = Observed(q[from[k]], hist)
    /\ \A k, l \in 1 .. Len(r) : from[k] = from[l] => k = l
    /\ \A k \in 1 .. Len(r) : r[k].state = "seen" \/ Owns(r[k].note, recs)
    /\ \A i \in 1 .. Len(q) :
         Observed(q[i], hist).state = "seen" \/ Owns(q[i].note, recs) =>
           \E k \in 1 .. Len(r) : from[k] = i

LEMMA ObservedIs ==
    ASSUME NEW o \in SoundOrders, NEW hist
    PROVE  /\ Observed(o, hist) \in SoundOrders
           /\ Observed(o, hist).note = o.note /\ Observed(o, hist).origin = o.origin
           /\ Observed(o, hist).state = (IF Confirmed(o, hist) THEN "seen" ELSE o.state)
BY DEF Observed, SoundOrders

LEMMA ReconcileSeenIs ==
    ASSUME NEW q \in Seq(SoundOrders), NEW hist, NEW recs
    PROVE  /\ ReconcileSeen(q, hist, recs) \in Seq(SoundOrders)
           /\ \E from : IsReconciled(from, ReconcileSeen(q, hist, recs), q, hist, recs)
<1> DEFINE m == Len(q)
           seen == [i \in DOMAIN q |->
                      IF Confirmed(q[i], hist)
                      THEN [q[i] EXCEPT !.state = "seen", !.expiry = 0] ELSE q[i]]
           places == {i \in DOMAIN q : seen[i].state = "seen" \/ Owns(seen[i].note, recs)}
           r == ReconcileSeen(q, hist, recs)
<1>1. r = Retain(seen, places)
    BY DEF ReconcileSeen
<1>2. m \in Nat /\ DOMAIN q = 1 .. m /\ \A k \in 1 .. m : q[k] \in SoundOrders
    BY LenProperties, ElementOfSeq
<1>3. seen = [i \in 1 .. m |-> Observed(q[i], hist)]
    BY <1>2 DEF Observed
<1>4. places = {i \in 1 .. m : seen[i].state = "seen" \/ Owns(seen[i].note, recs)}
    BY <1>2
<1> HIDE DEF seen, places, r
<1>5. \A i \in 1 .. m : Observed(q[i], hist) \in SoundOrders /\ Observed(q[i], hist).note = q[i].note
    BY <1>2, ObservedIs
<1>6. seen \in [1 .. m -> SoundOrders] /\ \A i \in 1 .. m : seen[i] = Observed(q[i], hist)
    BY <1>3, <1>5
<1>7. seen \in Seq(SoundOrders) /\ Len(seen) = m
    BY <1>2, <1>6, FunctionIsSeq
<1>8. r \in Seq(SoundOrders) /\ \E from : IsOrigin(from, seen, places, r)
    BY <1>1, <1>7, RetainFrom
<1>9. PICK from : IsOrigin(from, seen, places, r)
    BY <1>8
<1>10. Len(r) \in Nat
    BY <1>8, LenProperties
<1>11. IsWithin(from, r, seen)
    BY <1>2, <1>7, <1>9, <1>10, OriginWithin
<1>12. /\ from \in [1 .. Len(r) -> 1 .. m]
       /\ \A k \in 1 .. Len(r) : r[k] = seen[from[k]] /\ from[k] \in places /\ from[k] \in 1 .. m
       /\ \A k, l \in 1 .. Len(r) : from[k] = from[l] => k = l
       /\ \A i \in 1 .. m : i \in places => \E k \in 1 .. Len(r) : from[k] = i
    BY <1>7, <1>9, <1>11 DEF IsOrigin, IsWithin
<1>13. \A k \in 1 .. Len(r) : r[k] = Observed(q[from[k]], hist)
    BY <1>6, <1>12
<1>14. \A k \in 1 .. Len(r) : r[k].state = "seen" \/ Owns(r[k].note, recs)
    BY <1>4, <1>12
<1>15. \A i \in 1 .. m : Observed(q[i], hist).state = "seen" \/ Owns(q[i].note, recs) => i \in places
    BY <1>4, <1>5, <1>6
<1>16. IsReconciled(from, r, q, hist, recs)
    BY <1>12, <1>13, <1>14, <1>15 DEF IsReconciled
<1> QED BY <1>8, <1>16 DEF r

LEMMA RewindToIs ==
    ASSUME NEW q \in Seq(SoundOrders), NEW h
    PROVE  LET r == RewindTo(q, h) IN
           /\ r \in Seq(SoundOrders)
           /\ \A k \in 1 .. Len(r) : r[k].origin <= h /\ r[k].state # "seen"
<1> DEFINE places == {i \in DOMAIN q : q[i].origin <= h}
           kept == Retain(q, places)
           m == Len(kept)
           New(i) == IF kept[i].state = "seen" THEN [kept[i] EXCEPT !.state = "authorized"] ELSE kept[i]
           r == RewindTo(q, h)
<1>1. kept \in Seq(SoundOrders) /\ \E from : IsOrigin(from, q, places, kept)
    BY RetainFrom
<1>2. \A i \in places : q[i].origin <= h
    OBVIOUS
<1>3. r = [i \in DOMAIN kept |-> New(i)]
    BY DEF RewindTo
<1> HIDE DEF places, kept, r
<1>4. m \in Nat /\ DOMAIN kept = 1 .. m /\ \A i \in 1 .. m : kept[i] \in SoundOrders
    BY <1>1, LenProperties, ElementOfSeq
<1>5. \A i \in 1 .. m : kept[i].origin <= h
    BY <1>1, <1>2 DEF IsOrigin
<1>6. ASSUME NEW i \in 1 .. m
      PROVE  New(i) \in SoundOrders /\ New(i).origin = kept[i].origin /\ New(i).state # "seen"
  <2>1. kept[i] \in SoundOrders
    BY <1>4
  <2> QED BY <2>1 DEF SoundOrders
<1> HIDE DEF New
<1>7. /\ r \in [1 .. m -> SoundOrders]
      /\ \A i \in 1 .. m : r[i].origin <= h /\ r[i].state # "seen"
    BY <1>3, <1>4, <1>5, <1>6
<1> QED BY <1>4, <1>7, FunctionIsSeq DEF r

-----------------------------------------------------------------------------
(***************************************************************************)
(* The loop's queues and transactions                                      *)
(***************************************************************************)
(* The transactions the mint builds carry the notes it orders. *)
SoundTxs == {tx \in Tx : tx.note \in SoundNotes}

(* The loop's own state: the types; no order is of a block to come; each   *)
(* note still to be visited has an order of its own (Covers), so neither   *)
(* drop_note nor mark_sent comes up empty; requests are decided up to the  *)
(* tip before anything is signed, and a new block is not decided yet.      *)
QueueOK ==
    /\ phase \in Phases \ {"panicked"}
    /\ orders \in Seq(SoundOrders)
    /\ \A i \in 1 .. Len(orders) : orders[i].origin <= height
    /\ todo \in Seq(SoundNotes)
    /\ phase # "sign" => todo = << >>
    /\ Covers(orders, todo, 0)
    /\ armed \subseteq Challenge
    /\ ruled \in 0 .. height
    /\ phase = "sign" => ruled = height
    /\ phase = "block" => ruled < height
    /\ reorgs \in Nat /\ restarts \in Nat
    /\ txs \subseteq SoundTxs

BaseInv == AuthInv /\ QueueOK

LEMMA MintInitAuthInv == MintInit => AuthInv
<1> SUFFICES ASSUME MintInit PROVE AuthInv
  OBVIOUS
<1>1. PICK pool \in SUBSET Nullifiers :
      /\ Cardinality(pool) = PoolSize
      /\ height = 1
      /\ mtp = [h \in 0 .. 1 |-> 0]
      /\ records = [n \in {} |-> 0]
      /\ history = [n \in Names |-> << >>]
      /\ live = pool
      /\ checkpoints = [h \in {1} |-> pool]
      /\ established = 1
      /\ born = [nf \in Nullifiers |-> IF nf \in pool THEN 1 ELSE 0]
      /\ spentAt = [nf \in Nullifiers |-> 0]
      /\ targets = [n \in Names |-> << >>]
      /\ snap = [h \in {0} |-> [records |-> records, history |-> history,
                                 live |-> {}, established |-> 0]]
    BY DEF MintInit
<1>2. << >> \in Seq(NameRecord) /\ << >> \in Seq(Nat) /\ Len(<< >>) = 0
    BY EmptySeq
<1>3. BaseType
  <2>1. DOMAIN snap = {0} /\ 0 .. height - 1 = {0}
    BY <1>1
  <2>2. DOMAIN checkpoints = {1} /\ checkpoints \in [{1} -> SUBSET Nullifiers]
    BY <1>1
  <2> QED BY <1>1, <1>2, <2>1, <2>2 DEF BaseType
<1>4. records = Rebuilt(history)
  <2>1. {m \in Names : history[m] # << >>
                        /\ history[m][Len(history[m])].action # "release"} = {}
    BY <1>1
  <2>2. Rebuilt(history) = [n \in {} |-> history[n][Len(history[n])]]
    BY <2>1 DEF Rebuilt
  <2> QED BY <1>1, <2>2
<1>5. ASSUME NEW h \in 0 .. height
      PROVE  /\ h = 0 \/ h = 1
             /\ StoodAt(h).records = records /\ StoodAt(h).history = history
             /\ StoodAt(h).live = (IF h = 0 THEN {} ELSE pool)
             /\ StoodAt(h).established = h
  <2>1. h = 0 \/ h = 1
    BY <1>1
  <2>2. CASE h = 0
    <3>1. StoodAt(h) = snap[0]
        BY <1>1, <2>2 DEF StoodAt
    <3> QED BY <1>1, <2>2, <3>1
  <2>3. CASE h = 1
    <3>1. StoodAt(h) = Snapshot
        BY <1>1, <2>3 DEF StoodAt
    <3> QED BY <1>1, <2>3, <3>1 DEF Snapshot
  <2> QED BY <2>1, <2>2, <2>3
<1>6. ASSUME NEW h \in 0 .. height
      PROVE  HistoryStood(h) /\ RecordsStood(h) /\ PoolStood(h) /\ ClosedStood(h)
  <2>1. HistoryStood(h)
    <3>1. /\ StoodAt(h).history \in [Names -> Seq(NameRecord)]
          /\ \A n \in Names : StoodAt(h).history[n] = << >> /\ history[n] = << >>
      <4>1. history = [n \in Names |-> << >>] /\ StoodAt(h).history = history
        BY <1>1, <1>5
      <4> QED BY <1>2, <4>1
    <3>2. \A n \in Names : Kept(history[n], h, Len(StoodAt(h).history[n]))
        BY <1>2, <3>1 DEF Kept
    <3>3. \A n \in Names : 1 .. Len(StoodAt(h).history[n]) = {}
        BY <1>2, <3>1
    <3> QED BY <3>1, <3>2, <3>3 DEF HistoryStood
  <2>2. RecordsStood(h)
    BY <1>4, <1>5 DEF RecordsStood
  <2>3. PoolStood(h)
    BY <1>1, <1>5 DEF PoolStood, IsPoolAt
  <2>4. ClosedStood(h)
    BY <1>1, <1>5 DEF ClosedStood, EstablishedAt
  <2> QED BY <2>1, <2>2, <2>3, <2>4
<1>7. Inv
    BY <1>3, <1>6 DEF Inv, Stood
<1>8. ASSUME NEW h \in 0 .. height
      PROVE  AuthorityIn(StoodAt(h), h, born, spentAt)
  <2>1. DOMAIN StoodAt(h).records = {}
    BY <1>1, <1>5
  <2>2. Cardinality(StoodAt(h).live) <= PoolSize
    <3>1. Cardinality({}) = 0
        BY FS_EmptySet
    <3>2. StoodAt(h).live = {} \/ StoodAt(h).live = pool
        BY <1>5
    <3>3. PoolSize \in Nat
        BY ConstantsAssumption
    <3>4. CASE StoodAt(h).live = {}
        BY <3>1, <3>3, <3>4
    <3>5. CASE StoodAt(h).live = pool
      <4>1. Cardinality(pool) = PoolSize
        BY <1>1
      <4> QED BY <3>3, <3>5, <4>1
    <3> QED BY <3>2, <3>4, <3>5
  <2>3. \A a \in StoodAt(h).live : OnChain(a, h, born, spentAt)
    BY <1>1, <1>5 DEF OnChain
  <2>4. StoodAt(h).established = 0 => StoodAt(h).live = {}
    BY <1>5
  <2> QED BY <2>1, <2>2, <2>3, <2>4 DEF AuthorityIn
<1>9. SpentAfterBorn
    BY <1>1 DEF SpentAfterBorn
<1>10. Ordered /\ Linked
  <2>1. \A n \in Names : Len(history[n]) = 0
    BY <1>1, <1>2
  <2> QED BY <2>1 DEF Ordered, Linked
<1> QED BY <1>7, <1>8, <1>9, <1>10 DEF AuthInv, Authority

(* A claim the mint built is the claim note of its name. *)
LEMMA SoundClaim ==
    ASSUME NEW note \in SoundNotes, note.action = "claim"
    PROVE  /\ note = ClaimNote(note.name, note.ua, note.expires_at)
           /\ note.name \in Names /\ note.ua \in Addrs /\ note.expires_at \in ExpiryValues
BY DEF SoundNotes, NameNote, ClaimNote

LEMMA SoundTxTyped ==
    ASSUME NEW tx \in SoundTxs
    PROVE  /\ tx.note \in SoundNotes /\ tx.note \in NameNote /\ tx.note.name \in Names
           /\ tx.note.action \in {"claim", "update", "release"}
           /\ tx.authority \in Nullifiers /\ tx.nf \in Nullifiers
           /\ tx.successor \in Nullifiers \cup {NoNf}
           /\ tx.target \in Nat /\ tx.known \in BOOLEAN /\ tx.rooted \in BOOLEAN
<1>1. tx \in Tx /\ tx.note \in SoundNotes
    BY DEF SoundTxs
<1>2. tx.note \in NameNote /\ tx.note.action # "sale"
    BY <1>1 DEF SoundNotes
<1>3. tx.note.name \in Names /\ tx.note.action \in {"claim", "update", "release"}
    BY <1>2 DEF NameNote, Verbs
<1> QED BY <1>1, <1>2, <1>3 DEF Tx

LEMMA MineTxAuthInv ==
    ASSUME AuthInv, NEW tx \in SoundTxs, MineTx(tx)
    PROVE  AuthInv'
<1> DEFINE note == tx.note
<1>0. /\ note \in SoundNotes /\ note \in NameNote /\ tx.nf \in Nullifiers
      /\ tx.successor \in Nullifiers \cup {NoNf} /\ tx.target \in Nat /\ tx.authority \in Nullifiers
    BY SoundTxTyped
<1>1. CASE note.action = "claim"
  <2>1. ClaimTx(note, tx.nf, tx.successor, {tx.authority}, tx.target)
    BY <1>1 DEF MineTx
  <2>2. note = ClaimNote(note.name, note.ua, note.expires_at)
        /\ note.name \in Names /\ note.ua \in Addrs /\ note.expires_at \in ExpiryValues
    BY <1>0, <1>1, SoundClaim
  <2>3. /\ tx.target \in 1 .. height /\ Mine({tx.authority}, {tx.nf, tx.successor} \ {NoNf})
    BY <2>1 DEF ClaimTx, Minable
  <2>4. /\ tx.nf \in Unborn /\ tx.successor \in Unborn \cup {NoNf}
        /\ {tx.authority} \in SUBSET Spendable
    BY <1>0, <2>3, ConstantsAssumption DEF Mine
  <2>5. Next
    BY <2>1, <2>2, <2>3, <2>4 DEF Next
  <2> QED BY <2>5, NextAuthInv
<1>2. CASE note.action # "claim"
  <2>1. /\ Mine({tx.authority}, {tx.nf})
        /\ SucceedRecord(note, tx.nf, {tx.authority}, height)
    BY <1>2 DEF MineTx, SuccessorTx, AcceptUpdate, AcceptRelease, AcceptSale
  <2>2. tx.nf \in Unborn /\ height \in Nat /\ Inv
    BY <2>1 DEF Mine, AuthInv, Inv, BaseType
  <2>3. HistoryStep /\ PoolStep
    BY <1>0, <2>1, <2>2, SucceedRecordStep
  <2>4. Inv'
    BY <2>1, <2>2, <2>3, TxPreservesInv
  <2> QED BY <1>0, <1>2, <2>1, <2>2, <2>4, SucceedRecordKeeps, TxKeepsAuthInv
<1> QED BY <1>1, <1>2

LEMMA MintNextAuthInv == BaseInv /\ [MintNext]_allVars => AuthInv'
<1> SUFFICES ASSUME BaseInv, [MintNext]_allVars PROVE AuthInv'
  OBVIOUS
<1>1. AuthInv /\ txs \subseteq SoundTxs
    BY DEF BaseInv, QueueOK
<1>2. ASSUME NEW tx \in txs, MineTx(tx) PROVE AuthInv'
    BY <1>1, <1>2, MineTxAuthInv
<1>3. ASSUME NEW t \in 0 .. MaxTime, OpenBlock(t) PROVE AuthInv'
  <2>1. Next
    BY <1>3 DEF OpenBlock, Next
  <2> QED BY <1>1, <2>1, NextAuthInv
<1>4. ASSUME NEW h \in 1 .. height, Rewind(h) PROVE AuthInv'
  <2>1. height \in Nat
    BY <1>1 DEF AuthInv, Inv, BaseType
  <2>2. h \in 0 .. height /\ Truncate(h)
    BY <1>4, <2>1 DEF Rewind
  <2>3. Next
    BY <2>2 DEF Next
  <2> QED BY <1>1, <2>3, NextAuthInv
<1>5. CASE UNCHANGED vars
    BY <1>1, <1>5, NextAuthInv
<1>6. CASE SealBlock
    BY <1>5, <1>6 DEF SealBlock
<1>7. ASSUME NEW c \in armed, Respond(c) PROVE AuthInv'
    BY <1>5, <1>7 DEF Respond
<1>8. CASE StartRules
    BY <1>5, <1>8 DEF StartRules
<1>9. ASSUME NEW n, NEW ua, NEW e, NEW p, DecideClaim(n, ua, e, p) PROVE AuthInv'
    BY <1>5, <1>9 DEF DecideClaim
<1>10. ASSUME NEW n, NEW action, NEW ua, RelayChallenge(n, action, ua) PROVE AuthInv'
    BY <1>5, <1>10 DEF RelayChallenge
<1>11. CASE EndRules
    BY <1>5, <1>11 DEF EndRules
<1>12. CASE SignDrop \/ SignSkip
    BY <1>5, <1>12 DEF SignDrop, SignSkip
<1>13. ASSUME NEW nf, SignSend(nf) PROVE AuthInv'
    BY <1>5, <1>13 DEF SignSend
<1>14. CASE Restart
    BY <1>5, <1>14 DEF Restart
<1>15. CASE UNCHANGED allVars
    BY <1>5, <1>15 DEF allVars
<1> QED BY <1>2, <1>3, <1>4, <1>6, <1>7, <1>8, <1>9, <1>10, <1>11, <1>12, <1>13, <1>14, <1>15 DEF MintNext

-----------------------------------------------------------------------------
(***************************************************************************)
(* What the steps write                                                    *)
(***************************************************************************)
LEMMA CoversNil == ASSUME NEW q PROVE Covers(q, << >>, 0)
<1> DEFINE f == [k \in {} |-> 0]
<1>1. Len(<< >>) = 0 /\ 0 + 1 .. 0 = {}
    OBVIOUS
<1>2. IsCover(f, q, << >>, 0)
    BY <1>1 DEF IsCover
<1> QED BY <1>2 DEF Covers

LEMMA TransitionNoteSound ==
    ASSUME Inv, NEW c \in Challenge, c.name \in DOMAIN records,
           NEW e \in Extensions(records[c.name].expires_at)
    PROVE  LET note == TransitionNote(c, e) IN
           /\ note \in SoundNotes /\ note.name = c.name /\ note.action # "claim"
           /\ note.prev = records[c.name].commitment
<1> DEFINE r == records[c.name]
           note == TransitionNote(c, e)
<1>1. r \in NameRecord /\ c.name \in Names /\ c.ua \in Addrs /\ c.action \in {"update", "release"}
    BY InvGivesTypeOK DEF TypeOK, Challenge
<1>2. r.expires_at \in ExpiryValues /\ r.commitment \in NameCommitment
    BY <1>1 DEF NameRecord
<1>3. e \in ExpiryValues
    BY <1>2 DEF Extensions
<1> HIDE DEF r
<1>4. CASE c.action = "update"
  <2>1. note = UpdateNote(c.name, c.ua, e, r.commitment)
    BY <1>4 DEF TransitionNote, r
  <2>2. note \in NameNote /\ note.name = c.name /\ note.action = "update" /\ note.prev = r.commitment
    BY <1>1, <1>2, <1>3, <2>1 DEF UpdateNote, NameNote, Verbs
  <2> QED BY <2>2 DEF SoundNotes, r
<1>5. CASE c.action = "release"
  <2>1. note = ReleaseNote(c.name, c.ua, r.commitment)
    BY <1>5 DEF TransitionNote, r
  <2>2. note \in NameNote /\ note.name = c.name /\ note.action = "release" /\ note.prev = r.commitment
    BY <1>1, <1>2, <2>1 DEF ReleaseNote, NameNote, Verbs, ExpiryValues
  <2> QED BY <2>2 DEF SoundNotes, r
<1> QED BY <1>1, <1>4, <1>5

LEMMA ClaimNoteSound ==
    ASSUME NEW n \in Names, NEW ua \in Addrs, NEW e \in ExpiryValues
    PROVE  /\ ClaimNote(n, ua, e) \in SoundNotes /\ ClaimNote(n, ua, e).name = n
           /\ ClaimNote(n, ua, e).action = "claim"
<1>1. ClaimNote(n, ua, e) \in NameNote
    BY ClaimNoteType
<1>2. /\ ClaimNote(n, ua, e).action = "claim" /\ ClaimNote(n, ua, e).prev = NoPrev
      /\ ClaimNote(n, ua, e).name = n
    BY DEF ClaimNote
<1> QED BY <1>1, <1>2 DEF SoundNotes

LEMMA TxExpiryNat == ASSUME NEW t \in Nat PROVE TxExpiry(t) \in Nat /\ TxExpiry(t) >= t
BY ConstantsAssumption DEF TxExpiry, TxExpiryDelta

(* A new transaction creates notes no other has. *)
LEMMA BuiltIs ==
    ASSUME BaseInv, NEW note \in SoundNotes, NEW nf \in Nullifiers, Cardinality(Fresh) >= 2
    PROVE  LET tx == BuiltTx(note, nf) IN
           /\ tx \in SoundTxs
           /\ tx.note = note /\ tx.authority = nf /\ tx.target = height + 1
           /\ tx.known = TRUE /\ tx.rooted = TRUE
           /\ tx.nf \in Fresh
           /\ IF note.action = "claim" THEN tx.successor \in Fresh \ {tx.nf} ELSE tx.successor = NoNf
<1> DEFINE created == FirstOf(Fresh)
           rest == Fresh \ {created}
           tx == BuiltTx(note, nf)
<1>1. Fresh \subseteq Nullifiers /\ Nullifiers \subseteq Nat /\ IsFiniteSet(Nullifiers)
    BY MintBoundsAssumption, ConstantsAssumption DEF Fresh, Unborn
<1>2. IsFiniteSet(Fresh)
    BY <1>1, FS_Subset
<1>3. Fresh # {}
  <2>1. Cardinality({}) = 0
    BY FS_EmptySet
  <2> QED BY <2>1
<1>4. created \in Fresh
    BY <1>1, <1>3, FirstOfIs
<1> HIDE DEF created
<1>5. rest # {}
  <2> SUFFICES ASSUME rest = {} PROVE FALSE
    OBVIOUS
  <2>1. Fresh = {created}
    BY <1>4
  <2>2. Cardinality({created}) = 1
    BY FS_Singleton
  <2> HIDE DEF rest
  <2> QED BY <2>1, <2>2
<1>6. rest \subseteq Nat
    BY <1>1
<1>7. FirstOf(rest) \in rest
    BY <1>5, <1>6, FirstOfIs
<1>8. tx = [note |-> note, authority |-> nf, nf |-> created,
            successor |-> IF note.action = "claim" THEN FirstOf(rest) ELSE NoNf,
            target |-> height + 1, known |-> TRUE, rooted |-> TRUE]
    BY DEF BuiltTx, created
<1> HIDE DEF tx
<1>9. /\ tx.note = note /\ tx.authority = nf /\ tx.target = height + 1
      /\ tx.known = TRUE /\ tx.rooted = TRUE /\ tx.nf = created
      /\ tx.successor = IF note.action = "claim" THEN FirstOf(rest) ELSE NoNf
    BY <1>8
<1>10. IF note.action = "claim" THEN tx.successor \in Fresh \ {tx.nf} ELSE tx.successor = NoNf
    BY <1>7, <1>9
<1>11. height + 1 \in Nat /\ note \in NameNote /\ created \in Nullifiers
       /\ (IF note.action = "claim" THEN FirstOf(rest) ELSE NoNf) \in Nullifiers \cup {NoNf}
  <2>1. height \in Nat
    BY DEF BaseInv, AuthInv, Inv, BaseType
  <2>2. note \in NameNote
    BY DEF SoundNotes
  <2>3. created \in Nullifiers
    BY <1>1, <1>4
  <2>4. FirstOf(rest) \in Nullifiers
    BY <1>1, <1>7
  <2> HIDE DEF rest
  <2> QED BY <2>1, <2>2, <2>3, <2>4
<1> HIDE DEF rest
<1>12. tx \in Tx
    BY <1>8, <1>11 DEF Tx
<1> QED BY <1>4, <1>9, <1>10, <1>12 DEF SoundTxs, tx

LEMMA AuthoritiesTyped ==
    ASSUME Inv, NEW note \in SoundNotes, ~Dead(note), NEW nf \in Authorities(note)
    PROVE  /\ nf \in Nullifiers /\ CanSpend(nf)
           /\ note.action = "claim" => nf \in live /\ note.name \notin DOMAIN records
           /\ note.action # "claim" => /\ note.name \in DOMAIN records
                                       /\ nf = records[note.name].predecessor_nullifier
                                       /\ records[note.name].commitment = note.prev
<1>1. TypeOK
    BY InvGivesTypeOK
<1>2. CASE note.action = "claim"
    BY <1>1, <1>2 DEF Authorities, TypeOK, Dead, IsAvailable
<1>3. CASE note.action # "claim"
  <2>1. note.name \in DOMAIN records /\ records[note.name].commitment = note.prev
    BY <1>3 DEF Dead, Owns
  <2>2. records[note.name] \in NameRecord
    BY <1>1, <2>1 DEF TypeOK
  <2>3. nf = records[note.name].predecessor_nullifier /\ CanSpend(nf)
    BY <1>3 DEF Authorities
  <2> QED BY <1>3, <2>1, <2>2, <2>3 DEF NameRecord
<1> QED BY <1>2, <1>3

LEMMA RewoundTx ==
    ASSUME NEW tx \in SoundTxs, NEW b \in BOOLEAN
    PROVE  LET ux == [tx EXCEPT !.rooted = b] IN
           /\ ux \in SoundTxs /\ ux.note = tx.note /\ ux.authority = tx.authority
           /\ ux.nf = tx.nf /\ ux.successor = tx.successor /\ ux.target = tx.target
           /\ ux.known = tx.known /\ ux.rooted = b
BY DEF SoundTxs, Tx

LEMMA ForgottenTx ==
    ASSUME NEW tx \in SoundTxs
    PROVE  LET ux == [tx EXCEPT !.known = FALSE] IN
           /\ ux \in SoundTxs /\ ux.note = tx.note /\ ux.authority = tx.authority
           /\ ux.nf = tx.nf /\ ux.successor = tx.successor /\ ux.target = tx.target
           /\ ux.known = FALSE /\ ux.rooted = tx.rooted
BY DEF SoundTxs, Tx

(* The transactions a rewind leaves *)
LEMMA AfterRewind ==
    ASSUME txs \subseteq SoundTxs, NEW h \in Nat, NEW ux \in TxsAfterRewind(h)
    PROVE  ux \in SoundTxs /\ \E tx \in txs :
             /\ ux.note = tx.note /\ ux.authority = tx.authority
             /\ ux.nf = tx.nf /\ ux.successor = tx.successor /\ ux.target = tx.target
             /\ ux.known = tx.known
             /\ ux.rooted <=> (tx.rooted /\ tx.target <= h + 1)
             /\ born[tx.authority] \in 1 .. h
             /\ tx.known \/ tx.target <= h + 1
             /\ ux = [tx EXCEPT !.rooted = tx.rooted /\ tx.target <= h + 1]
<1>1. PICK tx \in txs : /\ born[tx.authority] \in 1 .. h
                        /\ tx.known \/ tx.target <= h + 1
                        /\ ux = [tx EXCEPT !.rooted = @ /\ tx.target <= h + 1]
    BY DEF TxsAfterRewind
<1> DEFINE b == tx.rooted /\ tx.target <= h + 1
<1>2. tx \in SoundTxs /\ b \in BOOLEAN
    BY SoundTxTyped
<1>3. ux = [tx EXCEPT !.rooted = b]
    BY <1>1, <1>2 DEF SoundTxs, Tx
<1>4. b <=> (tx.rooted /\ tx.target <= h + 1)
    OBVIOUS
<1> HIDE DEF b
<1>5. /\ ux \in SoundTxs /\ ux.note = tx.note /\ ux.authority = tx.authority
      /\ ux.nf = tx.nf /\ ux.successor = tx.successor /\ ux.target = tx.target
      /\ ux.known = tx.known /\ ux.rooted = b
    BY <1>2, <1>3, RewoundTx
<1>6. ux = [tx EXCEPT !.rooted = tx.rooted /\ tx.target <= h + 1]
    BY <1>3 DEF b
<1>7. (ux.rooted <=> (tx.rooted /\ tx.target <= h + 1))
    BY <1>4, <1>5
<1> QED BY <1>1, <1>5, <1>6, <1>7

-----------------------------------------------------------------------------
(***************************************************************************)
(* Every step of the loop keeps its queues in order                        *)
(***************************************************************************)
LEMMA MintInitQueueOK == MintInit => QueueOK
<1> SUFFICES ASSUME MintInit PROVE QueueOK
  OBVIOUS
<1>1. /\ height = 1 /\ phase = "arrivals" /\ orders = << >> /\ todo = << >> /\ armed = {}
      /\ ruled = 0 /\ txs = {} /\ reorgs = 0 /\ restarts = 0
    BY DEF MintInit
<1>2. << >> \in Seq(SoundOrders) /\ << >> \in Seq(SoundNotes) /\ Len(<< >>) = 0
    BY EmptySeq
<1>3. Covers(orders, todo, 0)
    BY <1>1, CoversNil
<1> QED BY <1>1, <1>2, <1>3 DEF QueueOK, Phases

LEMMA OpenBlockQueueOK ==
    ASSUME BaseInv, NEW t \in 0 .. MaxTime, OpenBlock(t)
    PROVE  QueueOK'
<1>1. /\ height \in Nat /\ height' = height + 1
      /\ phase' = "block" /\ orders' = orders /\ todo' = todo /\ armed' = armed
      /\ ruled' = ruled /\ txs' = txs /\ reorgs' = reorgs /\ restarts' = restarts /\ todo = << >>
    BY DEF OpenBlock, NewBlock, queueVars, boundVars, BaseInv, AuthInv, Inv, BaseType
<1>2. ruled \in 0 .. height + 1 /\ ruled < height + 1
    BY <1>1 DEF BaseInv, QueueOK
<1>3. \A i \in 1 .. Len(orders) : orders[i].origin <= height + 1
  <2>1. \A i \in 1 .. Len(orders) : orders[i] \in SoundOrders
    BY ElementOfSeq DEF BaseInv, QueueOK
  <2>2. \A i \in 1 .. Len(orders) : orders[i].origin \in Nat /\ orders[i].origin <= height
    BY <2>1 DEF SoundOrders, BaseInv, QueueOK
  <2> QED BY <1>1, <2>2
<1> QED BY <1>1, <1>2, <1>3 DEF BaseInv, QueueOK, Phases

LEMMA MineTxQueueOK ==
    ASSUME BaseInv, NEW tx \in txs, MineTx(tx)
    PROVE  QueueOK'
<1>1. height' = height
    BY DEF MineTx, ClaimTx, SuccessorTx, Mine
<1>2. /\ phase' = phase /\ orders' = orders /\ todo' = todo /\ armed' = armed
      /\ ruled' = ruled /\ txs' = txs /\ reorgs' = reorgs /\ restarts' = restarts
    BY DEF MineTx, mintVars, queueVars, boundVars
<1> QED BY <1>1, <1>2 DEF BaseInv, QueueOK

LEMMA SealBlockQueueOK ==
    ASSUME BaseInv, SealBlock
    PROVE  QueueOK'
<1> DEFINE r == ReconcileSeen(orders, history, records)
<1>1. /\ phase = "block" /\ phase' = "arrivals" /\ orders' = r /\ armed' \in SUBSET armed
      /\ height' = height /\ todo' = todo
      /\ ruled' = ruled /\ txs' = txs /\ reorgs' = reorgs /\ restarts' = restarts
    BY DEF SealBlock, vars, chainVars, boundVars
<1>2. todo = << >> /\ orders \in Seq(SoundOrders)
    BY <1>1 DEF BaseInv, QueueOK
<1>3. r \in Seq(SoundOrders) /\ \E from : IsReconciled(from, r, orders, history, records)
    BY <1>2, ReconcileSeenIs
<1> HIDE DEF r
<1>4. PICK from : IsReconciled(from, r, orders, history, records)
    BY <1>3
<1>5. ASSUME NEW k \in 1 .. Len(r) PROVE r[k].origin <= height
  <2>1. from[k] \in 1 .. Len(orders) /\ r[k] = Observed(orders[from[k]], history)
    BY <1>4 DEF IsReconciled
  <2>2. orders[from[k]] \in SoundOrders
    BY <1>2, <2>1, ElementOfSeq
  <2>3. r[k].origin = orders[from[k]].origin
    BY <2>1, <2>2, ObservedIs
  <2> QED BY <2>1, <2>3 DEF BaseInv, QueueOK
<1>6. Covers(r, << >>, 0)
    BY CoversNil
<1> QED BY <1>1, <1>2, <1>3, <1>5, <1>6 DEF BaseInv, QueueOK, Phases

(* One more order is queued while nothing is being signed. *)
LEMMA AdmitQueueOK ==
    ASSUME BaseInv, NEW note \in SoundNotes, NEW origin \in Nat, origin <= height,
           phase \in {"arrivals", "rules"},
           \/ orders' = Admit(orders, origin, note)
           \/ orders' = orders,
           armed' \subseteq armed,
           UNCHANGED <<vars, phase, todo, ruled, txs, boundVars>>
    PROVE  QueueOK'
<1>1. /\ height' = height /\ phase' = phase /\ todo' = todo
      /\ ruled' = ruled /\ txs' = txs /\ reorgs' = reorgs /\ restarts' = restarts
    BY DEF vars, chainVars, boundVars
<1>2. todo = << >> /\ orders \in Seq(SoundOrders)
    BY DEF BaseInv, QueueOK
<1>3. Covers(orders', << >>, 0)
    BY CoversNil
<1>4. orders' \in Seq(SoundOrders) /\ \A i \in 1 .. Len(orders') : orders'[i].origin <= height
  <2>1. CASE orders' = orders
    BY <1>2, <2>1 DEF BaseInv, QueueOK
  <2>2. CASE orders' = Admit(orders, origin, note)
    <3> DEFINE o == [note |-> note, origin |-> origin, state |-> "authorized", expiry |-> 0]
    <3>1. /\ orders' \in Seq(SoundOrders)
          /\ Len(orders) \in Nat /\ Len(orders') \in Len(orders) .. Len(orders) + 1
          /\ \A k \in 1 .. Len(orders) : orders'[k] = orders[k]
          /\ \A k \in Len(orders) + 1 .. Len(orders') : orders'[k] = o
        BY <1>2, <2>2, AdmitIs
    <3>2. o.origin = origin
        OBVIOUS
    <3> HIDE DEF o
    <3>3. ASSUME NEW i \in 1 .. Len(orders') PROVE orders'[i].origin <= height
      <4>1. i \in 1 .. Len(orders) \/ i \in Len(orders) + 1 .. Len(orders')
        BY <3>1
      <4>2. CASE i \in 1 .. Len(orders)
        BY <3>1, <4>2 DEF BaseInv, QueueOK
      <4>3. CASE i \in Len(orders) + 1 .. Len(orders')
        BY <3>1, <3>2, <4>3
      <4> QED BY <4>1, <4>2, <4>3
    <3> QED BY <3>1, <3>3
  <2> QED BY <2>1, <2>2
<1> QED BY <1>1, <1>2, <1>3, <1>4 DEF BaseInv, QueueOK

LEMMA RespondQueueOK ==
    ASSUME BaseInv, NEW c \in armed, Respond(c)
    PROVE  QueueOK'
<1>1. /\ phase = "arrivals" /\ UNCHANGED <<vars, phase, todo, ruled, txs, boundVars>>
      /\ height \in Nat /\ Inv /\ c \in Challenge
    BY DEF Respond, BaseInv, QueueOK, AuthInv, Inv, BaseType
<1>2. CASE Authorizes(c) /\ armed' = DropChallenges(c.name)
           /\ \E e \in Extensions(records[c.name].expires_at) :
                orders' = Admit(orders, height, TransitionNote(c, e))
  <2>1. PICK e \in Extensions(records[c.name].expires_at) :
                orders' = Admit(orders, height, TransitionNote(c, e))
    BY <1>2
  <2>2. TransitionNote(c, e) \in SoundNotes
    BY <1>1, <1>2, TransitionNoteSound DEF Authorizes
  <2>3. armed' \subseteq armed
    BY <1>2 DEF DropChallenges
  <2> QED BY <1>1, <2>1, <2>2, <2>3, AdmitQueueOK
<1>3. CASE armed' = armed \ {c} /\ UNCHANGED orders
  <2>1. c.name \in Names /\ c.ua \in Addrs
    BY <1>1 DEF Challenge
  <2>2. ClaimNote(c.name, c.ua, Never) \in SoundNotes
    BY <2>1, ClaimNoteSound DEF ExpiryValues
  <2> QED BY <1>1, <1>3, <2>2, AdmitQueueOK
<1> QED BY <1>2, <1>3 DEF Respond

LEMMA DecideClaimQueueOK ==
    ASSUME BaseInv, NEW n \in Names, NEW ua \in Addrs, NEW e \in ExpiryValues,
           NEW p \in 1 .. height, DecideClaim(n, ua, e, p)
    PROVE  QueueOK'
<1>1. /\ phase = "rules" /\ UNCHANGED <<vars, phase, todo, ruled, txs, boundVars>>
      /\ orders' = Admit(orders, p, ClaimNote(n, ua, e)) /\ armed' = DropChallenges(n)
    BY DEF DecideClaim
<1>2. ClaimNote(n, ua, e) \in SoundNotes /\ p \in Nat /\ p <= height
    BY ClaimNoteSound DEF BaseInv, AuthInv, Inv, BaseType
<1>3. armed' \subseteq armed
    BY <1>1 DEF DropChallenges
<1> QED BY <1>1, <1>2, <1>3, AdmitQueueOK

LEMMA StartRulesQueueOK ==
    ASSUME BaseInv, StartRules
    PROVE  QueueOK'
<1>1. /\ phase' = "rules" /\ todo = << >>
      /\ height' = height /\ orders' = orders /\ todo' = todo /\ armed' = armed
      /\ ruled' = ruled /\ txs' = txs /\ reorgs' = reorgs /\ restarts' = restarts
    BY DEF StartRules, vars, chainVars, queueVars, boundVars
<1> QED BY <1>1 DEF BaseInv, QueueOK, Phases

LEMMA RelayChallengeQueueOK ==
    ASSUME BaseInv, NEW n \in Names, NEW action \in {"update", "release"}, NEW ua \in Addrs,
           RelayChallenge(n, action, ua)
    PROVE  QueueOK'
<1> DEFINE c == [action |-> action, name |-> n, ua |-> ua, against |-> records[n].commitment]
<1>1. /\ phase' = phase /\ n \in DOMAIN records /\ armed' = armed \cup {c}
      /\ height' = height /\ orders' = orders /\ todo' = todo
      /\ ruled' = ruled /\ txs' = txs /\ reorgs' = reorgs /\ restarts' = restarts
    BY DEF RelayChallenge, AuthorizeChallenge, vars, chainVars, boundVars
<1>2. records[n] \in NameRecord
    BY <1>1, InvGivesTypeOK DEF TypeOK, BaseInv, AuthInv
<1>3. c \in Challenge
    BY <1>2 DEF Challenge, NameRecord
<1> HIDE DEF c
<1> QED BY <1>1, <1>3 DEF BaseInv, QueueOK

LEMMA EndRulesQueueOK ==
    ASSUME BaseInv, EndRules
    PROVE  QueueOK'
<1> DEFINE expired == ExpireSent(orders, height)
           pruned == DropDueUpdates(expired)
           admitted == AdmitReleases(pruned)
           notes == AuthorizedNotes(admitted)
<1>1. /\ phase' = "sign" /\ orders' = admitted /\ todo' = notes /\ armed' \subseteq armed
      /\ ruled' = height /\ height' = height /\ txs' = txs
      /\ reorgs' = reorgs /\ restarts' = restarts
    BY DEF EndRules, vars, chainVars, boundVars
<1>2. expired \in Seq(SoundOrders) /\ Thinned(expired, orders)
    BY ExpireSentIs DEF BaseInv, QueueOK
<1> HIDE DEF expired
<1>3. pruned \in Seq(SoundOrders) /\ Thinned(pruned, expired)
    BY <1>2, DropDueUpdatesIs
<1> HIDE DEF pruned
<1>4. Owed(admitted, pruned)
    BY <1>3, AdmitReleasesIs DEF BaseInv, AuthInv
<1> HIDE DEF admitted
<1>5. admitted \in Seq(SoundOrders)
    BY <1>4 DEF Owed
<1>6. notes \in Seq(SoundNotes) /\ \E f : IsNotes(f, admitted, notes)
    BY <1>5, AuthorizedNotesIs
<1> HIDE DEF notes
<1>7. Covers(admitted, notes, 0)
    BY <1>6, NotesCover, LenProperties
<1>8. ASSUME NEW k \in 1 .. Len(admitted) PROVE admitted[k].origin <= height
  <2>1. height \in Nat /\ Len(pruned) \in Nat /\ Len(admitted) \in Nat
    BY <1>4 DEF Owed, BaseInv, AuthInv, Inv, BaseType
  <2>2. CASE k \in 1 .. Len(pruned)
    <3>1. admitted[k] = pruned[k]
        BY <1>4, <2>2 DEF Owed
    <3>2. PICK i \in 1 .. Len(orders) : Same(pruned[k], orders[i])
      <4>1. Thinned(pruned, orders)
        BY <1>2, <1>3, ThinnedTwice
      <4> QED BY <2>2, <4>1, ThinnedFrom
    <3> QED BY <3>1, <3>2 DEF Same, BaseInv, QueueOK
  <2>3. CASE k \in Len(pruned) + 1 .. Len(admitted)
    <3>1. PICK n \in DueNames : admitted[k] = [note |-> LifecycleRelease(n), origin |-> height,
                                              state |-> "authorized", expiry |-> 0]
        BY <1>4, <2>3 DEF Owed
    <3> QED BY <2>1, <3>1
  <2> QED BY <2>1, <2>2, <2>3
<1>9. ruled' \in 0 .. height
    BY <1>1 DEF BaseInv, AuthInv, Inv, BaseType
<1> QED BY <1>1, <1>5, <1>6, <1>7, <1>8, <1>9 DEF BaseInv, QueueOK, Phases

(* What the signing loop does with the head of its list *)
LEMMA HeadFacts ==
    ASSUME BaseInv, phase = "sign", todo # << >>
    PROVE  /\ Head(todo) = todo[1] /\ Head(todo) \in SoundNotes /\ Head(todo).name \in Names
           /\ Tail(todo) \in Seq(SoundNotes) /\ orders \in Seq(SoundOrders)
           /\ Unresolved(orders, Head(todo).name) # {}
           /\ AuthorizedOf(orders, Head(todo).name) # {}
           /\ Covers(DropNote(orders, Head(todo).name), Tail(todo), 0)
           /\ \A e \in Nat : Covers(MarkSent(orders, Head(todo).name, e), Tail(todo), 0)
           /\ Covers(orders, Tail(todo), 0)
<1>1. todo \in Seq(SoundNotes) /\ orders \in Seq(SoundOrders) /\ Covers(orders, todo, 0)
    BY DEF BaseInv, QueueOK
<1>2. /\ Tail(todo) \in Seq(SoundNotes) /\ Head(todo) = todo[1] /\ 1 \in 1 .. Len(todo)
    BY <1>1, TailWithin
<1>3. Len(todo) \in Nat /\ 0 < Len(todo) /\ todo[0 + 1] = todo[1] /\ 0 + 1 = 1
    BY <1>1, <1>2, LenProperties
<1>4. todo[1] \in SoundNotes
    BY <1>1, <1>2, ElementOfSeq
<1>5. todo[1].name \in Names
    BY <1>4 DEF SoundNotes, NameNote
<1>6. Unresolved(orders, todo[1].name) # {} /\ Covers(DropNote(orders, todo[1].name), todo, 1)
  <2>1. Unresolved(orders, todo[0 + 1].name) # {}
        /\ Covers(DropNote(orders, todo[0 + 1].name), todo, 0 + 1)
    BY <1>1, <1>3, DropCovers
  <2> QED BY <1>3, <2>1
<1>7. Covers(DropNote(orders, todo[1].name), Tail(todo), 0)
    BY <1>1, <1>6, CoversTail
<1>8. ASSUME NEW e \in Nat
      PROVE  /\ AuthorizedOf(orders, todo[1].name) # {}
             /\ Covers(MarkSent(orders, todo[1].name, e), todo, 1)
  <2>1. /\ AuthorizedOf(orders, todo[0 + 1].name) # {}
        /\ Covers(MarkSent(orders, todo[0 + 1].name, e), todo, 0 + 1)
    BY <1>1, <1>3, SentCovers
  <2> QED BY <1>3, <2>1
<1>9. \A e \in Nat : Covers(MarkSent(orders, todo[1].name, e), Tail(todo), 0)
    BY <1>1, <1>8, CoversTail
<1>10. AuthorizedOf(orders, todo[1].name) # {}
  <2>1. 0 \in Nat
    OBVIOUS
  <2> QED BY <1>8, <2>1
<1>11. Covers(orders, Tail(todo), 0)
  <2>1. PICK f : IsCover(f, orders, todo, 0)
    BY <1>1 DEF Covers
  <2> DEFINE g == [k \in 1 + 1 .. Len(todo) |-> f[k]]
  <2>2. \A k \in 1 + 1 .. Len(todo) : k \in 0 + 1 .. Len(todo)
    BY <1>3
  <2>3. IsCover(g, orders, todo, 1)
    BY <2>1, <2>2 DEF IsCover
  <2>4. Covers(orders, todo, 1)
    BY <2>3 DEF Covers
  <2> QED BY <1>1, <2>4, CoversTail
<1> QED BY <1>1, <1>2, <1>4, <1>5, <1>6, <1>7, <1>9, <1>10, <1>11

LEMMA SignDropQueueOK ==
    ASSUME BaseInv, SignDrop
    PROVE  /\ QueueOK' /\ orders' = DropNote(orders, Head(todo).name) /\ todo' = Tail(todo)
           /\ phase' = phase
<1> DEFINE n == Head(todo).name
           r == DropNote(orders, n)
<1>1. phase = "sign" /\ todo # << >>
    BY DEF SignDrop
<1>2. /\ Tail(todo) \in Seq(SoundNotes) /\ orders \in Seq(SoundOrders)
      /\ Unresolved(orders, n) # {} /\ Covers(r, Tail(todo), 0)
    BY <1>1, HeadFacts
<1>3. /\ orders' = r /\ todo' = Tail(todo) /\ phase' = phase
      /\ height' = height /\ armed' = armed /\ ruled' = ruled /\ txs' = txs
      /\ reorgs' = reorgs /\ restarts' = restarts
    BY <1>2 DEF SignDrop, vars, chainVars, boundVars
<1>4. r \in Seq(SoundOrders) /\ Thinned(r, orders)
    BY <1>2, DropNoteIs
<1> HIDE DEF r
<1>5. \A k \in 1 .. Len(r) : r[k].origin <= height
  <2>1. \A k \in 1 .. Len(r) : \E i \in 1 .. Len(orders) : Same(r[k], orders[i])
    BY <1>4, ThinnedFrom
  <2> QED BY <2>1 DEF Same, BaseInv, QueueOK
<1>6. QueueOK'
    BY <1>1, <1>2, <1>3, <1>4, <1>5 DEF BaseInv, QueueOK
<1> QED BY <1>3, <1>6 DEF r

LEMMA SignSkipQueueOK ==
    ASSUME BaseInv, SignSkip
    PROVE  QueueOK'
<1>1. phase = "sign" /\ todo # << >>
    BY DEF SignSkip
<1>2. Tail(todo) \in Seq(SoundNotes) /\ Covers(orders, Tail(todo), 0)
    BY <1>1, HeadFacts
<1>3. /\ orders' = orders /\ todo' = Tail(todo) /\ phase' = phase
      /\ height' = height /\ armed' = armed /\ ruled' = ruled /\ txs' = txs
      /\ reorgs' = reorgs /\ restarts' = restarts
    BY DEF SignSkip, vars, chainVars, boundVars
<1> QED BY <1>1, <1>2, <1>3 DEF BaseInv, QueueOK

LEMMA SignSendQueueOK ==
    ASSUME BaseInv, NEW nf \in Nullifiers, SignSend(nf)
    PROVE  /\ QueueOK' /\ orders' = MarkSent(orders, Head(todo).name, TxExpiry(height + 1))
           /\ todo' = Tail(todo) /\ phase' = phase
           /\ txs' = txs \cup {BuiltTx(Head(todo), nf)}
<1> DEFINE n == Head(todo).name
           e == TxExpiry(height + 1)
           r == MarkSent(orders, n, e)
           tx == BuiltTx(Head(todo), nf)
<1>1. phase = "sign" /\ todo # << >> /\ Cardinality(Fresh) >= 2
    BY DEF SignSend
<1>2. e \in Nat
  <2>1. height + 1 \in Nat
    BY DEF BaseInv, AuthInv, Inv, BaseType
  <2> QED BY <2>1, TxExpiryNat
<1> HIDE DEF e
<1>3. /\ Tail(todo) \in Seq(SoundNotes) /\ orders \in Seq(SoundOrders) /\ Head(todo) \in SoundNotes
      /\ AuthorizedOf(orders, n) # {} /\ Covers(r, Tail(todo), 0)
    BY <1>1, <1>2, HeadFacts
<1>4. /\ orders' = r /\ todo' = Tail(todo) /\ phase' = phase /\ txs' = txs \cup {tx}
      /\ height' = height /\ armed' = armed /\ ruled' = ruled
      /\ reorgs' = reorgs /\ restarts' = restarts
    BY <1>3 DEF SignSend, vars, chainVars, boundVars, e
<1>5. r \in Seq(SoundOrders) /\ Thinned(r, orders)
    BY <1>2, <1>3, MarkSentIs
<1>6. tx \in SoundTxs
    BY <1>1, <1>3, BuiltIs
<1> HIDE DEF r, tx
<1>7. \A k \in 1 .. Len(r) : r[k].origin <= height
  <2>1. \A k \in 1 .. Len(r) : \E i \in 1 .. Len(orders) : Same(r[k], orders[i])
    BY <1>5, ThinnedFrom
  <2> QED BY <2>1 DEF Same, BaseInv, QueueOK
<1>8. txs' \subseteq SoundTxs
    BY <1>4, <1>6 DEF BaseInv, QueueOK
<1>9. QueueOK'
    BY <1>1, <1>3, <1>4, <1>5, <1>7, <1>8 DEF BaseInv, QueueOK
<1> QED BY <1>4, <1>9 DEF r, tx, e

LEMMA RewindQueueOK ==
    ASSUME BaseInv, NEW h \in 1 .. height, Rewind(h)
    PROVE  QueueOK'
<1> DEFINE q == RewindTo(orders, h)
           r == ReconcileSeen(q, history', records')
<1>0. height \in Nat /\ h \in Nat /\ height' = h
    BY DEF Rewind, Truncate, BaseInv, AuthInv, Inv, BaseType
<1>1. /\ todo = << >> /\ phase' = "arrivals" /\ orders' = r /\ armed' = {}
      /\ ruled' = (IF ruled > h THEN h ELSE ruled) /\ txs' = TxsAfterRewind(h)
      /\ reorgs' = reorgs + 1 /\ todo' = todo /\ restarts' = restarts
    BY DEF Rewind
<1>2. q \in Seq(SoundOrders) /\ \A k \in 1 .. Len(q) : q[k].origin <= h /\ q[k].state # "seen"
    BY RewindToIs DEF BaseInv, QueueOK
<1> HIDE DEF q
<1>3. r \in Seq(SoundOrders) /\ \E from : IsReconciled(from, r, q, history', records')
    BY <1>2, ReconcileSeenIs
<1> HIDE DEF r
<1>4. PICK from : IsReconciled(from, r, q, history', records')
    BY <1>3
<1>5. ASSUME NEW k \in 1 .. Len(r) PROVE r[k].origin <= h
  <2>1. from[k] \in 1 .. Len(q) /\ r[k] = Observed(q[from[k]], history')
    BY <1>4 DEF IsReconciled
  <2>2. q[from[k]] \in SoundOrders
    BY <1>2, <2>1, ElementOfSeq
  <2>3. r[k].origin = q[from[k]].origin
    BY <2>1, <2>2, ObservedIs
  <2> QED BY <1>2, <2>1, <2>3
<1>6. Covers(r, << >>, 0)
    BY CoversNil
<1>7. ruled' \in 0 .. h
    BY <1>0, <1>1 DEF BaseInv, QueueOK
<1>8. txs' \subseteq SoundTxs
    BY <1>0, <1>1, AfterRewind DEF BaseInv, QueueOK
<1>9. reorgs' \in Nat /\ todo \in Seq(SoundNotes) /\ restarts \in Nat
    BY <1>1 DEF BaseInv, QueueOK
<1> QED BY <1>0, <1>1, <1>3, <1>5, <1>6, <1>7, <1>8, <1>9 DEF QueueOK, Phases

LEMMA RestartQueueOK ==
    ASSUME BaseInv, Restart
    PROVE  QueueOK'
<1>1. /\ phase' = "arrivals" /\ orders' = << >> /\ todo' = << >> /\ armed' = {}
      /\ ruled' = height /\ height' = height
      /\ txs' = {[tx EXCEPT !.known = FALSE] : tx \in txs}
      /\ restarts' = restarts + 1 /\ reorgs' = reorgs
    BY DEF Restart, vars, chainVars
<1>2. << >> \in Seq(SoundOrders) /\ << >> \in Seq(SoundNotes) /\ Len(<< >>) = 0
    BY EmptySeq
<1>3. Covers(orders', todo', 0)
    BY <1>1, CoversNil
<1>4. txs' \subseteq SoundTxs
    BY <1>1, ForgottenTx DEF BaseInv, QueueOK
<1>5. height \in Nat /\ restarts' \in Nat /\ reorgs \in Nat
    BY <1>1 DEF BaseInv, QueueOK, AuthInv, Inv, BaseType
<1> QED BY <1>1, <1>2, <1>3, <1>4, <1>5 DEF QueueOK, Phases

LEMMA MintNextBaseInv == BaseInv /\ [MintNext]_allVars => BaseInv'
<1> SUFFICES ASSUME BaseInv, [MintNext]_allVars PROVE BaseInv'
  OBVIOUS
<1>1. AuthInv'
    BY MintNextAuthInv
<1>2. CASE UNCHANGED allVars
  <2>1. QueueOK'
    BY <1>2 DEF BaseInv, QueueOK, allVars, mintVars, queueVars, boundVars, vars, chainVars
  <2> QED BY <1>1, <2>1 DEF BaseInv
<1>3. ASSUME MintNext PROVE QueueOK'
    BY <1>3, OpenBlockQueueOK, MineTxQueueOK, SealBlockQueueOK, RespondQueueOK, StartRulesQueueOK,
       DecideClaimQueueOK, RelayChallengeQueueOK, EndRulesQueueOK, SignDropQueueOK,
       SignSkipQueueOK, SignSendQueueOK, RewindQueueOK, RestartQueueOK
    DEF MintNext
<1> QED BY <1>1, <1>2, <1>3 DEF BaseInv

LEMMA MintInitBaseInv == MintInit => BaseInv
BY MintInitAuthInv, MintInitQueueOK DEF BaseInv

LEMMA QueueTyped ==
    ASSUME BaseInv
    PROVE  MintTypeOK
<1>1. SoundOrders \subseteq Order /\ SoundNotes \subseteq NameNote
    BY DEF SoundOrders, SoundNotes, Order
<1>2. orders \in Seq(Order)
  <2>1. orders \in Seq(SoundOrders) /\ Len(orders) \in Nat
    BY LenProperties DEF BaseInv, QueueOK
  <2>2. orders \in [1 .. Len(orders) -> Order]
    BY <1>1, <2>1, ElementOfSeq, LenProperties
  <2> QED BY <2>1, <2>2, FunctionIsSeq
<1>3. todo \in Seq(NameNote)
  <2>1. todo \in Seq(SoundNotes) /\ Len(todo) \in Nat
    BY LenProperties DEF BaseInv, QueueOK
  <2>2. todo \in [1 .. Len(todo) -> NameNote]
    BY <1>1, <2>1, ElementOfSeq, LenProperties
  <2> QED BY <2>1, <2>2, FunctionIsSeq
<1> QED BY <1>2, <1>3 DEF BaseInv, QueueOK, MintTypeOK, SoundTxs

-----------------------------------------------------------------------------
(***************************************************************************)
(* What the chain says of the transactions the mint built                  *)
(***************************************************************************)
(* Entry i of the history s is the record whose note tx spends. *)
NoteOf(s, i, tx) ==
    /\ s[i].action # "release" /\ s[i].predecessor_nullifier = tx.authority
    /\ s[i].commitment = tx.note.prev /\ s[i].confirmed_height < tx.target

(* tx wrote entry i: notes are made at these heights, requests are decided *)
(* up to this one.                                                         *)
WrittenBy(s, i, tx, made, upto) ==
    /\ tx.nf = s[i].predecessor_nullifier /\ tx.note.action = s[i].action
    /\ Commitment(tx.note) = s[i].commitment
    /\ tx.target <= s[i].confirmed_height /\ tx.target <= upto + 1
    /\ made[tx.authority] \in 1 .. s[i].confirmed_height - 1
    /\ i > 1 => s[i - 1].confirmed_height < tx.target

TxBuilt(tx, s, made, upto) ==
    /\ made[tx.authority] # 0
    /\ tx.successor \in IF tx.note.action = "claim" THEN Nullifiers ELSE {NoNf}
    /\ tx.rooted => tx.target <= upto + 1
    /\ tx.rooted /\ tx.note.action # "claim" => \E i \in 1 .. Len(s) : NoteOf(s, i, tx)
    /\ made[tx.nf] # 0 /\ tx.note.action # "claim" =>
         \E i \in 1 .. Len(s) : WrittenBy(s, i, tx, made, upto)

TxsBuilt == \A tx \in txs : TxBuilt(tx, history[tx.note.name], born, ruled)

TxPair(a, b) ==
    /\ a.nf = b.nf => a = b
    /\ a.nf # b.successor
    /\ a.note.action = "claim" => a.authority # b.nf
    /\ a.known /\ b.known /\ a.rooted /\ b.rooted /\ a.authority = b.authority /\ a # b =>
         TxExpiry(a.target) < b.target - 1 \/ TxExpiry(b.target) < a.target - 1

TxsApart == \A a, b \in txs : TxPair(a, b)

AnchorsApart == \A h \in 0 .. height : \A x \in StoodAt(h).live : \A tx \in txs : tx.nf # x

Written ==
    \A n \in Names : \A i \in 1 .. Len(history[n]) :
        /\ born[history[n][i].predecessor_nullifier] = history[n][i].confirmed_height
        /\ \E tx \in txs : WrittenBy(history[n], i, tx, born, ruled)

TxInv == TxsBuilt /\ TxsApart /\ AnchorsApart /\ Written

-----------------------------------------------------------------------------
(***************************************************************************)
(* What the layers below say, before and after a step                      *)
(***************************************************************************)
LEMMA BaseFacts ==
    ASSUME BaseInv
    PROVE  /\ AuthInv /\ Inv /\ height \in Nat /\ ruled \in Nat /\ ruled <= height
           /\ txs \subseteq SoundTxs /\ orders \in Seq(SoundOrders) /\ todo \in Seq(SoundNotes)
<1>1. Inv /\ AuthInv
    BY DEF BaseInv, AuthInv
<1>2. height \in Nat
    BY <1>1 DEF Inv, BaseType
<1> QED BY <1>1, <1>2 DEF BaseInv, QueueOK

LEMMA BaseFactsNext ==
    ASSUME BaseInv'
    PROVE  /\ AuthInv' /\ Inv' /\ height' \in Nat /\ ruled' \in Nat /\ ruled' <= height'
           /\ txs' \subseteq SoundTxs /\ orders' \in Seq(SoundOrders) /\ todo' \in Seq(SoundNotes)
           /\ history' \in [Names -> Seq(NameRecord)]
<1>1. Inv' /\ AuthInv'
    BY DEF BaseInv, AuthInv
<1>2. height' \in Nat /\ history' \in [Names -> Seq(NameRecord)]
    BY <1>1 DEF Inv, BaseType
<1> QED BY <1>1, <1>2 DEF BaseInv, QueueOK

-----------------------------------------------------------------------------
(***************************************************************************)
(* The histories                                                           *)
(***************************************************************************)
LEMMA EntryTyped ==
    ASSUME AuthInv, NEW n \in Names
    PROVE  /\ history[n] \in Seq(NameRecord) /\ Len(history[n]) \in Nat
           /\ \A i \in 1 .. Len(history[n]) :
                /\ history[n][i] \in NameRecord
                /\ history[n][i].confirmed_height \in 1 .. height
                /\ history[n][i].predecessor_nullifier \in Nullifiers
                /\ history[n][i].commitment \in NameCommitment
<1>1. history[n] \in Seq(NameRecord) /\ Len(history[n]) \in Nat /\ height \in Nat
    BY LenProperties DEF AuthInv, Inv, BaseType
<1> DEFINE s == history[n]
           m == Len(s)
<1>2. ASSUME NEW i \in 1 .. m PROVE s[i] \in NameRecord /\ s[i].confirmed_height \in Nat
                /\ s[i].predecessor_nullifier \in Nullifiers /\ s[i].commitment \in NameCommitment
  <2>1. s[i] \in NameRecord
    BY <1>1, ElementOfSeq
  <2> QED BY <2>1 DEF NameRecord
<1>3. ASSUME NEW i \in 1 .. m PROVE s[i].confirmed_height \in 1 .. height
  <2>1. s[i].confirmed_height > 0
    BY DEF AuthInv, Linked
  <2>2. s[m].confirmed_height <= height
    <3>1. Kept(s, height, m)
        BY CurrentStood DEF AuthInv
    <3> QED BY <1>1, <3>1 DEF Kept
  <2>3. i <= m /\ m \in 1 .. m /\ i \in 1 .. m
    BY <1>1
  <2>4. s[i].confirmed_height <= s[m].confirmed_height
    BY <2>3 DEF AuthInv, Ordered
  <2>5. s[m].confirmed_height \in Nat /\ s[i].confirmed_height \in Nat
    BY <1>2, <2>3
  <2> HIDE DEF s, m
  <2> QED BY <1>1, <2>1, <2>2, <2>4, <2>5
<1> QED BY <1>1, <1>2, <1>3

(* An entry whose note is unspent is the name's record. *)
LEMMA UnspentIsRecord ==
    ASSUME AuthInv, NEW n \in Names, NEW i \in 1 .. Len(history[n]),
           history[n][i].action # "release",
           spentAt[history[n][i].predecessor_nullifier] = 0
    PROVE  /\ i = Len(history[n]) /\ n \in DOMAIN records /\ records[n] = history[n][i]
<1> DEFINE s == history[n]
           m == Len(s)
<1>1. m \in Nat /\ \A k \in 1 .. m : s[k].confirmed_height \in 1 .. height
    BY EntryTyped
<1>2. i = m
  <2> SUFFICES ASSUME i # m PROVE FALSE
    OBVIOUS
  <2>1. i + 1 \in 1 .. m /\ i + 1 > 1 /\ (i + 1) - 1 = i
    BY <1>1
  <2>2. LinkedTo(s[(i + 1) - 1], s[i + 1], targets[n][i + 1], spentAt)
    BY <2>1 DEF AuthInv, Linked
  <2>3. LinkedTo(s[i], s[i + 1], targets[n][i + 1], spentAt)
    BY <2>1, <2>2
  <2>4. spentAt[s[i].predecessor_nullifier] = s[i + 1].confirmed_height
    BY <2>3 DEF LinkedTo
  <2> QED BY <1>1, <2>1, <2>4
<1>3. s # << >>
    BY <1>1, EmptySeq
<1> QED BY <1>2, <1>3, RecordIsLast DEF AuthInv

(* The first entries of a history stay what they are while it grows. *)
LEMMA LastEntry ==
    ASSUME NEW s \in Seq(NameRecord), NEW r \in NameRecord
    PROVE  LET t == Append(s, r) IN
           /\ t \in Seq(NameRecord) /\ Len(t) = Len(s) + 1 /\ t[Len(s) + 1] = r
           /\ \A i \in 1 .. Len(s) : t[i] = s[i] /\ i \in 1 .. Len(t)
           /\ \A i \in 1 .. Len(t) : i \in 1 .. Len(s) \/ i = Len(s) + 1
           /\ Len(s) \in Nat /\ Len(s) + 1 \in 1 .. Len(t)
<1> DEFINE t == Append(s, r)
<1>1. /\ t \in Seq(NameRecord) /\ Len(t) = Len(s) + 1 /\ t[Len(s) + 1] = r
      /\ \A i \in 1 .. Len(s) : t[i] = s[i]
    BY AppendProperties
<1>2. Len(s) \in Nat
    BY LenProperties
<1> HIDE DEF t
<1> QED BY <1>1, <1>2 DEF t

-----------------------------------------------------------------------------
(***************************************************************************)
(* What a mined transaction does: it writes its own note, or it is a claim *)
(* that came too late and writes nothing.                                  *)
(***************************************************************************)
Records(tx) == CreateRecord(tx.note, tx.nf, mtp[height])

Writes(tx) ==
    LET n == tx.note.name IN
    /\ SetRecord(Records(tx), IF tx.note.action = "claim" THEN tx.target ELSE height)
    /\ history[n] # << >> => history[n][Len(history[n])].confirmed_height < tx.target
    /\ IF tx.note.action = "claim" THEN n \notin DOMAIN records
       ELSE /\ n \in DOMAIN records /\ records[n].predecessor_nullifier = tx.authority
            /\ records[n].commitment = tx.note.prev

MineFactsOf(tx) ==
    /\ tx.rooted /\ born[tx.nf] = 0 /\ spentAt[tx.authority] = 0
    /\ tx.target \in 1 .. height /\ height <= TxExpiry(tx.target)
    /\ born[tx.authority] \in 1 .. height - 1
    /\ height' = height /\ snap' = snap /\ UNCHANGED mintVars
    /\ Mine({tx.authority}, {tx.nf, tx.successor} \ {NoNf})
    /\ live' \subseteq live \cup ({tx.successor} \ {NoNf})

LEMMA MineNonClaim ==
    ASSUME BaseInv, TxInv, NEW tx \in txs, MineTx(tx), tx.note.action # "claim"
    PROVE  MineFactsOf(tx) /\ Writes(tx)
<1> DEFINE note == tx.note
           n == note.name
           a == tx.authority
<1>0. /\ AuthInv /\ Inv /\ tx \in SoundTxs /\ height \in Nat
      /\ TxBuilt(tx, history[n], born, ruled)
    BY DEF BaseInv, QueueOK, AuthInv, Inv, BaseType, TxInv, TxsBuilt
<1>1. n \in Names /\ a \in Nullifiers /\ tx.nf \in Nullifiers /\ tx.target \in Nat
    BY <1>0, SoundTxTyped
<1>2. /\ Mine({a}, {tx.nf}) /\ SucceedRecord(note, tx.nf, {a}, height)
      /\ tx.rooted /\ born[tx.nf] = 0 /\ a \in Spendable /\ Minable(tx.target) /\ UNCHANGED mintVars
    BY DEF MineTx, SuccessorTx, AcceptUpdate, AcceptRelease, AcceptSale, Confirmable
<1>3. /\ spentAt[a] = 0 /\ born[a] \in 1 .. height - 1
      /\ tx.target \in 1 .. height /\ height <= TxExpiry(tx.target)
    BY <1>2 DEF Spendable, Minable
<1>4. PICK i \in 1 .. Len(history[n]) : NoteOf(history[n], i, tx)
    BY <1>0, <1>2 DEF TxBuilt
<1>5. i = Len(history[n]) /\ n \in DOMAIN records /\ records[n] = history[n][i]
    BY <1>0, <1>1, <1>3, <1>4, UnspentIsRecord DEF NoteOf
<1>6. records[n].predecessor_nullifier = a /\ records[n].commitment = note.prev
      /\ history[n][Len(history[n])].confirmed_height < tx.target
    BY <1>4, <1>5 DEF NoteOf
<1>7. PredecessorSpent(note, {a})
  <2>1. AuthorityUnspent
    BY <1>0, AuthInvGivesAuthorityUnspent
  <2>2. a \notin live /\ \A m \in DOMAIN records \ {n} : records[m].predecessor_nullifier # a
    BY <1>5, <1>6, <2>1 DEF AuthorityUnspent
  <2> QED BY <1>5, <1>6, <2>2 DEF PredecessorSpent, NamesSpentBy
<1>8. SetRecord(CreateRecord(note, tx.nf, mtp[height]), height) /\ live' = live
    BY <1>2, <1>6, <1>7 DEF SucceedRecord
<1>9. Writes(tx)
    BY <1>5, <1>6, <1>8 DEF Writes, Records
<1>10. {tx.nf, tx.successor} \ {NoNf} = {tx.nf}
    BY <1>0, <1>1, ConstantsAssumption DEF TxBuilt
<1>11. height' = height /\ snap' = snap
    BY <1>2 DEF Mine
<1> QED BY <1>2, <1>3, <1>8, <1>9, <1>10, <1>11 DEF MineFactsOf

LEMMA MineClaim ==
    ASSUME BaseInv, TxInv, NEW tx \in txs, MineTx(tx), tx.note.action = "claim"
    PROVE  MineFactsOf(tx) /\ (Writes(tx) \/ UNCHANGED <<records, history>>)
<1> DEFINE note == tx.note
           n == note.name
           a == tx.authority
           backed == SpendsOneAnchor({a}) /\ NamesSpentBy({a}) = {}
           admitted == IsAvailable(n) /\ ~BuiltBeforeRelease(n, TxExpiry(tx.target))
<1>0. /\ AuthInv /\ Inv /\ tx \in SoundTxs /\ height \in Nat
      /\ TxBuilt(tx, history[n], born, ruled)
    BY DEF BaseInv, QueueOK, AuthInv, Inv, BaseType, TxInv, TxsBuilt
<1>1. /\ n \in Names /\ a \in Nullifiers /\ tx.nf \in Nullifiers /\ tx.target \in Nat
      /\ tx.successor \in Nullifiers \cup {NoNf}
    BY <1>0, SoundTxTyped
<1>2. /\ Mine({a}, {tx.nf, tx.successor} \ {NoNf})
      /\ AcceptClaim(note, tx.nf, tx.successor, {a}, tx.target)
      /\ tx.rooted /\ born[tx.nf] = 0 /\ a \in Spendable /\ Minable(tx.target) /\ UNCHANGED mintVars
    BY DEF MineTx, ClaimTx, Confirmable
<1>3. /\ spentAt[a] = 0 /\ born[a] \in 1 .. height - 1
      /\ tx.target \in 1 .. height /\ height <= TxExpiry(tx.target)
      /\ height' = height /\ snap' = snap
    BY <1>2 DEF Spendable, Minable, Mine
<1>4. tx.successor # NoNf
    BY <1>0, ConstantsAssumption DEF TxBuilt
<1>5. NamesSpentBy({a}) = {}
  <2> SUFFICES ASSUME NEW m \in DOMAIN records, records[m].predecessor_nullifier = a PROVE FALSE
    BY DEF NamesSpentBy
  <2>1. m \in Names
    BY <1>0, InvGivesTypeOK DEF TypeOK
  <2>2. records[m] = history[m][Len(history[m])] /\ Len(history[m]) \in 1 .. Len(history[m])
    BY <1>0, <2>1, RecordIsLast
  <2>3. PICK b \in txs : WrittenBy(history[m], Len(history[m]), b, born, ruled)
    BY <2>1, <2>2 DEF TxInv, Written
  <2>4. b.nf = a
    BY <2>2, <2>3 DEF WrittenBy
  <2> QED BY <2>4 DEF TxInv, TxsApart, TxPair
<1>6. live' \subseteq live \cup ({tx.successor} \ {NoNf})
  <2> DEFINE made == IF backed /\ admitted THEN tx.successor ELSE NoNf
             outs == {tx.nf, tx.successor} \ {NoNf}
  <2>1. RetireSpent({a}, made)
    BY <1>2 DEF AcceptClaim
  <2>2. made \in outs \cup {NoNf} /\ ({made} \ {NoNf}) \subseteq ({tx.successor} \ {NoNf})
    OBVIOUS
  <2> HIDE DEF made, outs
  <2>3. live' \subseteq (live \ {a}) \cup ({made} \ {NoNf})
    BY <1>0, <2>1, <2>2, RetireSpentKeeps
  <2> QED BY <2>2, <2>3
<1>7. MineFactsOf(tx)
    BY <1>2, <1>3, <1>6 DEF MineFactsOf
<1>8. CASE MarkReleased({a}, tx.target)
  <2>1. /\ history' = [m \in Names |-> history[m]]
        /\ records' = [m \in DOMAIN records |-> records[m]]
    BY <1>5, <1>8 DEF MarkReleased
  <2>2. history \in [Names -> Seq(NameRecord)] /\ records = Rebuilt(history)
    BY <1>0, CurrentStood
  <2>3. records = [m \in DOMAIN records |-> records[m]]
    BY <2>2 DEF Rebuilt
  <2> QED BY <1>7, <2>1, <2>2, <2>3
<1>9. CASE UNCHANGED <<records, history, targets>>
    BY <1>7, <1>9
<1>10. CASE admitted /\ SetRecord(CreateRecord(note, tx.nf, mtp[height]), tx.target)
  <2>1. ASSUME history[n] # << >>
        PROVE  history[n][Len(history[n])].confirmed_height < tx.target
    <3> DEFINE last == history[n][Len(history[n])]
    <3>1. Len(history[n]) \in 1 .. Len(history[n]) /\ last.action = "release"
        BY <1>0, <1>1, <1>10, <2>1, RecordIsLast DEF IsAvailable
    <3>2. last.confirmed_height \in 1 .. height
        BY <1>0, <1>1, <3>1, EntryTyped
    <3>3. ~(TxExpiry(tx.target) <= last.confirmed_height + TxExpiryDelta(last.confirmed_height))
        BY <1>10, <2>1, <3>1 DEF BuiltBeforeRelease
    <3> DEFINE h == last.confirmed_height
    <3>4. h \in Nat /\ ~(TxExpiry(tx.target) <= h + TxExpiryDelta(h))
        BY <3>2, <3>3
    <3> HIDE DEF h
    <3>5. tx.target > h
        BY <1>1, <3>4, ExpiryOrdersTargets
    <3> QED BY <1>1, <3>4, <3>5 DEF h
  <2> QED BY <1>7, <1>10, <2>1 DEF Writes, Records, IsAvailable
<1> QED BY <1>2, <1>4, <1>5, <1>8, <1>9, <1>10 DEF AcceptClaim

LEMMA MineEffect ==
    ASSUME BaseInv, TxInv, NEW tx \in txs, MineTx(tx)
    PROVE  /\ MineFactsOf(tx)
           /\ Writes(tx) \/ (tx.note.action = "claim" /\ UNCHANGED <<records, history>>)
BY MineNonClaim, MineClaim

(* What Writes makes of the histories *)
LEMMA WritesHistory ==
    ASSUME AuthInv, NEW tx \in SoundTxs, Writes(tx)
    PROVE  LET n == tx.note.name
               s == history[n]
               r == Records(tx)
           IN  /\ n \in Names /\ s \in Seq(NameRecord) /\ r \in NameRecord
               /\ history'[n] = Append(s, r)
               /\ \A m \in Names \ {n} : history'[m] = history[m]
               /\ r.confirmed_height = height /\ r.predecessor_nullifier = tx.nf
               /\ r.action = tx.note.action /\ r.commitment = Commitment(tx.note) /\ r.name = n
<1> DEFINE n == tx.note.name
           r == Records(tx)
<1>1. n \in Names /\ tx.note \in NameNote /\ tx.nf \in Nullifiers
    BY SoundTxTyped
<1>2. r \in NameRecord
    BY <1>1, CreateRecordType DEF Records, AuthInv
<1>3. /\ r.confirmed_height = height /\ r.predecessor_nullifier = tx.nf
      /\ r.action = tx.note.action /\ r.commitment = Commitment(tx.note) /\ r.name = n
    BY DEF Records, CreateRecord
<1>4. history \in [Names -> Seq(NameRecord)]
    BY DEF AuthInv, Inv, BaseType
<1> HIDE DEF r
<1>5. history' = [history EXCEPT ![n] = Append(history[n], r)]
    BY <1>3 DEF Writes, SetRecord, r
<1> QED BY <1>1, <1>2, <1>3, <1>4, <1>5 DEF r

-----------------------------------------------------------------------------
(***************************************************************************)
(* The facts about the transactions are kept                               *)
(***************************************************************************)
Prefix(s, t) == Len(s) <= Len(t) /\ \A i \in 1 .. Len(s) : t[i] = s[i]

LEMMA WrittenGrows ==
    ASSUME NEW s, NEW t, NEW i \in Nat, i > 0, NEW tx \in SoundTxs, NEW made, NEW made2,
           NEW u \in Nat, NEW v, v \in Int, u <= v \/ tx.target <= v + 1,
           t[i] = s[i], i > 1 => t[i - 1] = s[i - 1],
           WrittenBy(s, i, tx, made, u), made2[tx.authority] = made[tx.authority]
    PROVE  WrittenBy(t, i, tx, made2, v)
<1>1. tx.target \in Nat
    BY SoundTxTyped
<1> QED BY <1>1 DEF WrittenBy

LEMMA BuiltGrows ==
    ASSUME NEW s, NEW t, Len(s) \in Nat, Len(t) \in Nat, Prefix(s, t),
           NEW tx \in SoundTxs, NEW made, NEW made2, NEW u \in Nat, NEW v \in Nat, u <= v,
           TxBuilt(tx, s, made, u),
           made2[tx.authority] = made[tx.authority],
           \/ made2[tx.nf] # 0 => made[tx.nf] # 0
           \/ \E i \in 1 .. Len(t) : WrittenBy(t, i, tx, made2, v)
    PROVE  TxBuilt(tx, t, made2, v)
<1>1. tx.target \in Nat
    BY SoundTxTyped
<1>2. \A i \in 1 .. Len(s) : i \in 1 .. Len(t) /\ t[i] = s[i] /\ (i > 1 => t[i - 1] = s[i - 1])
    BY DEF Prefix
<1>3. tx.rooted => tx.target <= v + 1
    BY <1>1 DEF TxBuilt
<1>4. ASSUME tx.rooted, tx.note.action # "claim" PROVE \E i \in 1 .. Len(t) : NoteOf(t, i, tx)
  <2>1. PICK i \in 1 .. Len(s) : NoteOf(s, i, tx)
    BY <1>4 DEF TxBuilt
  <2>2. NoteOf(t, i, tx)
    BY <1>2, <2>1 DEF NoteOf
  <2> QED BY <1>2, <2>2
<1>5. ASSUME made2[tx.nf] # 0, tx.note.action # "claim"
      PROVE  \E i \in 1 .. Len(t) : WrittenBy(t, i, tx, made2, v)
  <2>1. CASE made[tx.nf] # 0
    <3>1. PICK i \in 1 .. Len(s) : WrittenBy(s, i, tx, made, u)
        BY <1>5, <2>1 DEF TxBuilt
    <3>2. i \in Nat /\ i > 0 /\ v \in Int
        OBVIOUS
    <3>3. WrittenBy(t, i, tx, made2, v)
        BY <1>2, <3>1, <3>2, WrittenGrows
    <3> QED BY <1>2, <3>3
  <2> QED BY <1>5, <2>1
<1> QED BY <1>3, <1>4, <1>5 DEF TxBuilt

(* Steps that leave the chain and the transactions alone *)
LEMMA TxInvSame ==
    ASSUME BaseInv, BaseInv', TxInv, UNCHANGED <<history, born, txs>>, ruled <= ruled',
           \A h \in 0 .. height' : \E k \in 0 .. height : StoodAt(h)'.live \subseteq StoodAt(k).live
    PROVE  TxInv'
<1>1. ruled \in Nat /\ ruled' \in Nat /\ txs \subseteq SoundTxs /\ AuthInv
    BY BaseFacts, BaseFactsNext
<1>2. \A tx \in txs : tx \in SoundTxs /\ tx.note.name \in Names
    BY <1>1, SoundTxTyped
<1>3. TxsBuilt'
  <2> SUFFICES ASSUME NEW tx \in txs PROVE TxBuilt(tx, history[tx.note.name], born, ruled')
    BY DEF TxsBuilt
  <2>1. Len(history[tx.note.name]) \in Nat
    BY <1>1, <1>2, EntryTyped
  <2>2. Prefix(history[tx.note.name], history[tx.note.name])
    BY <2>1 DEF Prefix
  <2>3. TxBuilt(tx, history[tx.note.name], born, ruled) /\ tx \in SoundTxs
    BY <1>1 DEF TxInv, TxsBuilt
  <2> QED BY <1>1, <2>1, <2>2, <2>3, BuiltGrows
<1>4. TxsApart'
    BY DEF TxInv, TxsApart
<1>5. AnchorsApart'
    BY DEF TxInv, AnchorsApart
<1>6. Written'
  <2> SUFFICES ASSUME NEW n \in Names, NEW i \in 1 .. Len(history[n])
               PROVE  /\ born[history[n][i].predecessor_nullifier] = history[n][i].confirmed_height
                      /\ \E tx \in txs : WrittenBy(history[n], i, tx, born, ruled')
    BY DEF Written
  <2>1. PICK tx \in txs : WrittenBy(history[n], i, tx, born, ruled)
    BY DEF TxInv, Written
  <2>2. i \in Nat /\ i > 0 /\ ruled' \in Int
    BY <1>1
  <2>3. WrittenBy(history[n], i, tx, born, ruled')
    BY <1>1, <1>2, <2>1, <2>2, WrittenGrows
  <2> QED BY <2>3 DEF TxInv, Written
<1> QED BY <1>3, <1>4, <1>5, <1>6 DEF TxInv

LEMMA SameStood ==
    ASSUME UNCHANGED vars
    PROVE  \A h \in 0 .. height' : \E k \in 0 .. height : StoodAt(h)'.live \subseteq StoodAt(k).live
<1>1. height' = height /\ \A h : StoodAt(h)' = StoodAt(h)
    BY DEF vars, registryVars, chainVars, StoodAt, Snapshot
<1> QED BY <1>1

LEMMA OpenBlockTxInv ==
    ASSUME BaseInv, BaseInv', TxInv, NEW t \in 0 .. MaxTime, OpenBlock(t)
    PROVE  TxInv'
<1>1. /\ height \in Nat /\ height' = height + 1
      /\ snap' = [h \in 0 .. height |-> IF h = height THEN Snapshot ELSE snap[h]]
      /\ UNCHANGED <<records, history, live, established, born, txs, ruled>>
    BY DEF OpenBlock, NewBlock, registryVars, queueVars, BaseInv, AuthInv, Inv, BaseType
<1>2. ASSUME NEW h \in 0 .. height'
      PROVE  \E k \in 0 .. height : StoodAt(h)'.live \subseteq StoodAt(k).live
  <2>1. CASE h = height + 1
    <3>1. StoodAt(h)'.live = live
        BY <1>1, <2>1 DEF StoodAt, Snapshot
    <3>2. StoodAt(height).live = live /\ height \in 0 .. height
        BY <1>1 DEF StoodAt, Snapshot
    <3> QED BY <3>1, <3>2
  <2>2. CASE h # height + 1
    <3>1. h \in 0 .. height /\ StoodAt(h)' = StoodAt(h)
        BY <1>1, <2>2 DEF StoodAt
    <3> QED BY <3>1
  <2> QED BY <2>1, <2>2
<1>3. ruled <= ruled'
    BY <1>1 DEF BaseInv, QueueOK
<1> QED BY <1>1, <1>2, <1>3, TxInvSame

LEMMA MineTxTxInv ==
    ASSUME BaseInv, BaseInv', TxInv, NEW tx \in txs, MineTx(tx)
    PROVE  TxInv'
<1> DEFINE n == tx.note.name
           outs == {tx.nf, tx.successor} \ {NoNf}
<1>0. /\ AuthInv /\ AuthInv' /\ txs \subseteq SoundTxs /\ ruled \in Nat /\ height \in Nat
    BY BaseFacts, BaseFactsNext
<1>1. /\ MineFactsOf(tx)
      /\ Writes(tx) \/ (tx.note.action = "claim" /\ UNCHANGED <<records, history>>)
    BY MineEffect
<1>2. /\ height' = height /\ snap' = snap /\ txs' = txs /\ ruled' = ruled
      /\ Mine({tx.authority}, outs)
    BY <1>1 DEF MineFactsOf, mintVars, queueVars
<1>3. /\ \A x \in outs : born[x] = 0 /\ born'[x] = height
      /\ \A x \in Nullifiers \ outs : born'[x] = born[x]
    BY <1>0, <1>2, MineFacts
<1>4. tx \in SoundTxs /\ n \in Names /\ tx.nf \in Nullifiers /\ tx.target \in Nat
    BY <1>0, SoundTxTyped
<1>5. \A m \in Names : Len(history[m]) \in Nat /\ Len(history'[m]) \in Nat
  <2>1. \A m \in Names : Len(history[m]) \in Nat
    BY <1>0, EntryTyped
  <2>2. history' \in [Names -> Seq(NameRecord)]
    BY <1>0 DEF AuthInv, Inv, BaseType
  <2> QED BY <2>1, <2>2, LenProperties
<1>6. \A m \in Names : Prefix(history[m], history'[m])
  <2>1. CASE Writes(tx)
    <3>1. /\ history'[n] = Append(history[n], Records(tx)) /\ history[n] \in Seq(NameRecord)
          /\ Records(tx) \in NameRecord /\ \A m \in Names \ {n} : history'[m] = history[m]
        BY <1>0, <1>4, <2>1, WritesHistory
    <3>2. Prefix(history[n], history'[n])
      <4> DEFINE t == Append(history[n], Records(tx))
      <4>1. /\ Len(t) = Len(history[n]) + 1 /\ Len(history[n]) \in Nat
            /\ \A i \in 1 .. Len(history[n]) : t[i] = history[n][i]
        BY <3>1, LastEntry
      <4> HIDE DEF t
      <4>2. Prefix(history[n], t)
        BY <4>1 DEF Prefix
      <4> QED BY <3>1, <4>2 DEF t
    <3>3. \A m \in Names \ {n} : Prefix(history[m], history'[m])
        BY <1>5, <3>1 DEF Prefix
    <3> QED BY <3>2, <3>3
  <2>2. CASE UNCHANGED <<records, history>>
    BY <1>5, <2>2 DEF Prefix
  <2> QED BY <1>1, <2>1, <2>2
<1>7. ASSUME Writes(tx)
      PROVE  LET k == Len(history[n]) + 1 IN
             /\ k \in 1 .. Len(history'[n])
             /\ WrittenBy(history'[n], k, tx, born', ruled)
             /\ born'[history'[n][k].predecessor_nullifier] = history'[n][k].confirmed_height
             /\ \A i \in 1 .. Len(history'[n]) : i \in 1 .. Len(history[n]) \/ i = k
             /\ \A m \in Names \ {n} : history'[m] = history[m]
  <2> DEFINE s == history[n]
             r == Records(tx)
             k == Len(s) + 1
  <2>1. /\ history'[n] = Append(s, r) /\ s \in Seq(NameRecord)
        /\ r \in NameRecord /\ \A m \in Names \ {n} : history'[m] = history[m]
        /\ r.confirmed_height = height /\ r.predecessor_nullifier = tx.nf
        /\ r.action = tx.note.action /\ r.commitment = Commitment(tx.note)
    BY <1>0, <1>4, <1>7, WritesHistory
  <2> HIDE DEF r
  <2>2. /\ history'[n][k] = r
        /\ \A i \in 1 .. Len(s) : history'[n][i] = s[i]
        /\ \A i \in 1 .. Len(history'[n]) : i \in 1 .. Len(s) \/ i = k
        /\ Len(s) \in Nat /\ k \in 1 .. Len(history'[n])
    BY <2>1, LastEntry
  <2>3. /\ tx.rooted /\ tx.target \in 1 .. height /\ born[tx.authority] \in 1 .. height - 1
    BY <1>1 DEF MineFactsOf
  <2>4. tx.target <= ruled + 1
    BY <2>3 DEF TxInv, TxsBuilt, TxBuilt
  <2>5. born'[tx.authority] = born[tx.authority]
    <3>1. tx.authority \in Nullifiers
        BY <1>4, SoundTxTyped
    <3> QED BY <1>0, <1>3, <2>3, <3>1
  <2>6. k > 1 => history'[n][k - 1].confirmed_height < tx.target
    <3> SUFFICES ASSUME k > 1 PROVE history'[n][k - 1].confirmed_height < tx.target
        OBVIOUS
    <3>1. Len(s) \in 1 .. Len(s) /\ k - 1 = Len(s)
        BY <2>2
    <3>2. s # << >>
        BY <3>1, EmptySeq
    <3>3. s[Len(s)].confirmed_height < tx.target
        BY <1>7, <3>2 DEF Writes
    <3> QED BY <2>2, <3>1, <3>3
  <2> HIDE DEF k, s
  <2>7. WrittenBy(history'[n], k, tx, born', ruled)
    BY <2>1, <2>2, <2>3, <2>4, <2>5, <2>6 DEF WrittenBy
  <2>8. born'[tx.nf] = height
    BY <1>3, <1>4, ConstantsAssumption
  <2> QED BY <2>1, <2>2, <2>7, <2>8 DEF k, s
<1>8. TxsBuilt'
  <2> SUFFICES ASSUME NEW b \in txs PROVE TxBuilt(b, history'[b.note.name], born', ruled)
    BY <1>2 DEF TxsBuilt
  <2>1. /\ b \in SoundTxs /\ b.note.name \in Names /\ b.authority \in Nullifiers /\ b.nf \in Nullifiers
        /\ TxBuilt(b, history[b.note.name], born, ruled)
    BY <1>0, SoundTxTyped DEF TxInv, TxsBuilt
  <2>2. born'[b.authority] = born[b.authority]
    BY <1>3, <2>1 DEF TxBuilt
  <2>3. CASE b = tx /\ Writes(tx)
    <3>1. \E i \in 1 .. Len(history'[n]) : WrittenBy(history'[n], i, tx, born', ruled)
        BY <1>7, <2>3
    <3> QED BY <1>0, <1>5, <1>6, <2>1, <2>2, <2>3, <3>1, BuiltGrows
  <2>4. CASE b # tx
    <3>1. b.nf \notin outs
        BY <2>1, <2>4, ConstantsAssumption DEF TxInv, TxsApart, TxPair
    <3>2. born'[b.nf] = born[b.nf]
        BY <1>3, <2>1, <3>1
    <3> QED BY <1>0, <1>5, <1>6, <2>1, <2>2, <3>2, BuiltGrows
  <2>5. CASE b = tx /\ tx.note.action = "claim" /\ UNCHANGED <<records, history>>
    <3>1. history'[n] = history[n] /\ born'[tx.authority] = born[tx.authority]
        BY <2>2, <2>5
    <3> QED BY <2>1, <2>5, <3>1 DEF TxBuilt
  <2> QED BY <1>1, <2>3, <2>4, <2>5
<1>9. TxsApart'
    BY <1>2 DEF TxInv, TxsApart
<1>10. AnchorsApart'
  <2> SUFFICES ASSUME NEW h \in 0 .. height, NEW x \in StoodAt(h)'.live, NEW b \in txs
               PROVE  b.nf # x
    BY <1>2 DEF AnchorsApart
  <2>1. CASE h # height
    <3>1. StoodAt(h)' = StoodAt(h)
        BY <1>2, <2>1 DEF StoodAt
    <3> QED BY <3>1 DEF TxInv, AnchorsApart
  <2>2. CASE h = height
    <3>1. StoodAt(h)'.live = live' /\ StoodAt(height).live = live /\ height \in 0 .. height
        BY <1>0, <1>2, <2>2 DEF StoodAt, Snapshot
    <3>2. x \in live \/ x = tx.successor
        BY <1>1, <3>1 DEF MineFactsOf
    <3>3. CASE x \in live
        BY <3>1, <3>3 DEF TxInv, AnchorsApart
    <3>4. CASE x = tx.successor
        BY <3>4 DEF TxInv, TxsApart, TxPair
    <3> QED BY <3>2, <3>3, <3>4
  <2> QED BY <2>1, <2>2
<1>11. Written'
  <2> SUFFICES ASSUME NEW m \in Names, NEW i \in 1 .. Len(history'[m])
               PROVE  /\ born'[history'[m][i].predecessor_nullifier] = history'[m][i].confirmed_height
                      /\ \E b \in txs : WrittenBy(history'[m], i, b, born', ruled)
    BY <1>2 DEF Written
  <2>1. CASE i \in 1 .. Len(history[m])
    <3>1. /\ history[m][i].predecessor_nullifier \in Nullifiers
          /\ history[m][i].confirmed_height \in 1 .. height
        BY <1>0, <2>1, EntryTyped
    <3>2. /\ history'[m][i] = history[m][i] /\ i \in Nat /\ i > 0
          /\ i > 1 => history'[m][i - 1] = history[m][i - 1]
        BY <1>5, <1>6, <2>1 DEF Prefix
    <3>3. born[history[m][i].predecessor_nullifier] = history[m][i].confirmed_height
        BY <2>1 DEF TxInv, Written
    <3>4. born'[history'[m][i].predecessor_nullifier] = history'[m][i].confirmed_height
        BY <1>3, <3>1, <3>2, <3>3
    <3>5. PICK b \in txs : WrittenBy(history[m], i, b, born, ruled)
        BY <2>1 DEF TxInv, Written
    <3>6. b \in SoundTxs /\ b.authority \in Nullifiers
        BY <1>0, SoundTxTyped
    <3>7. born'[b.authority] = born[b.authority]
        BY <1>3, <3>6 DEF TxInv, TxsBuilt, TxBuilt
    <3>8. WrittenBy(history'[m], i, b, born', ruled)
      <4>1. ruled \in Nat /\ ruled \in Int /\ ruled <= ruled
        BY <1>0
      <4> QED BY <4>1, <3>2, <3>5, <3>6, <3>7, WrittenGrows
    <3> QED BY <3>4, <3>8
  <2>2. CASE i \notin 1 .. Len(history[m])
    <3>1. Writes(tx) /\ m = n
        BY <1>1, <1>7, <2>2
    <3> QED BY <1>7, <2>2, <3>1
  <2> QED BY <2>1, <2>2
<1> QED BY <1>8, <1>9, <1>10, <1>11 DEF TxInv

LEMMA SignSendTxInv ==
    ASSUME BaseInv, BaseInv', TxInv, NEW nf \in Nullifiers, SignSend(nf)
    PROVE  TxInv'
<1> DEFINE note == Head(todo)
           n == note.name
           tx == BuiltTx(note, nf)
<1>0. /\ AuthInv /\ Inv /\ txs \subseteq SoundTxs /\ ruled \in Nat /\ height \in Nat
    BY BaseFacts
<1>1. /\ phase = "sign" /\ todo # << >> /\ ~Dead(note) /\ nf \in Authorities(note)
      /\ Cardinality(Fresh) >= 2
    BY DEF SignSend
<1>2. note \in SoundNotes /\ n \in Names
    BY <1>1, HeadFacts
<1>3. /\ txs' = txs \cup {tx} /\ ruled' = ruled /\ ruled = height
    BY <1>1, SignSendQueueOK DEF SignSend, BaseInv, QueueOK
<1>4. /\ height' = height /\ history' = history /\ born' = born
      /\ \A h : StoodAt(h)' = StoodAt(h)
    BY DEF SignSend, vars, registryVars, chainVars, StoodAt, Snapshot
<1>5. /\ tx \in SoundTxs
      /\ tx.note = note /\ tx.authority = nf /\ tx.target = height + 1
      /\ tx.known = TRUE /\ tx.rooted = TRUE
      /\ tx.nf \in Fresh
      /\ IF note.action = "claim" THEN tx.successor \in Fresh \ {tx.nf} ELSE tx.successor = NoNf
    BY <1>1, <1>2, BuiltIs
<1>6. /\ CanSpend(nf)
      /\ note.action = "claim" => nf \in live /\ n \notin DOMAIN records
      /\ note.action # "claim" => /\ n \in DOMAIN records
                                  /\ nf = records[n].predecessor_nullifier
                                  /\ records[n].commitment = note.prev
    BY <1>0, <1>1, <1>2, AuthoritiesTyped
<1> HIDE DEF tx, note
<1>7. \A x \in Fresh : /\ x \in Nullifiers /\ born[x] = 0
                       /\ \A b \in txs : x # b.nf /\ x # b.successor
    BY DEF Fresh, Unborn
<1>8. born[nf] # 0
  <2>1. AuthorityUnspent
    BY <1>0, AuthInvGivesAuthorityUnspent
  <2> QED BY <1>0, <1>6, <2>1 DEF AuthorityUnspent
<1>9. TxBuilt(tx, history[n], born, ruled)
  <2>1. tx.successor \in IF tx.note.action = "claim" THEN Nullifiers ELSE {NoNf}
    BY <1>5, <1>7
  <2>2. tx.target <= ruled + 1
    BY <1>0, <1>3, <1>5
  <2>3. born[tx.nf] = 0
    BY <1>5, <1>7
  <2>4. ASSUME note.action # "claim" PROVE \E i \in 1 .. Len(history[n]) : NoteOf(history[n], i, tx)
    <3> DEFINE k == Len(history[n])
    <3>1. /\ records[n] = history[n][k] /\ k \in 1 .. k /\ history[n][k].action # "release"
        BY <1>0, <1>2, <1>6, <2>4, RecordIsLast
    <3>2. history[n][k].confirmed_height \in 1 .. height
        BY <1>0, <1>2, <3>1, EntryTyped
    <3>3. NoteOf(history[n], k, tx)
        BY <1>0, <1>5, <1>6, <2>4, <3>1, <3>2 DEF NoteOf
    <3> QED BY <3>1, <3>3
  <2> QED BY <1>5, <1>8, <2>1, <2>2, <2>3, <2>4 DEF TxBuilt
<1>10. TxsBuilt'
    BY <1>3, <1>4, <1>5, <1>9 DEF TxInv, TxsBuilt
<1>11. TxsApart'
  <2>1. TxPair(tx, tx)
    BY <1>5, <1>7, <1>8, ConstantsAssumption DEF TxPair
  <2>2. ASSUME NEW b \in txs PROVE TxPair(tx, b) /\ TxPair(b, tx)
    <3>1. /\ b \in SoundTxs /\ b.nf \in Nullifiers /\ b.target \in Nat /\ born[b.authority] # 0
          /\ b.successor \in Nullifiers \cup {NoNf}
        BY <1>0, SoundTxTyped DEF TxInv, TxsBuilt, TxBuilt
    <3>2. /\ tx.nf # b.nf /\ tx.nf # b.successor /\ b.nf # tx.successor
        BY <1>5, <1>7, <3>1, ConstantsAssumption
    <3>3. tx.note.action = "claim" => tx.authority # b.nf
      <4> SUFFICES ASSUME note.action = "claim" PROVE nf # b.nf
        BY <1>5
      <4>1. nf \in StoodAt(height).live /\ height \in 0 .. height
        BY <1>0, <1>6 DEF StoodAt, Snapshot
      <4> QED BY <4>1 DEF TxInv, AnchorsApart
    <3>4. b.note.action = "claim" => b.authority # tx.nf
        BY <1>5, <1>7, <3>1
    <3>5. b.known /\ tx.authority = b.authority => TxExpiry(b.target) < tx.target - 1
      <4> SUFFICES ASSUME b.known, b.authority = nf PROVE TxExpiry(b.target) < tx.target - 1
        BY <1>5
      <4>1. ~(TxExpiry(b.target) >= height)
        BY <1>6 DEF CanSpend
      <4>2. TxExpiry(b.target) \in Nat
        BY <3>1, TxExpiryNat
      <4> QED BY <1>0, <1>5, <4>1, <4>2
    <3> QED BY <3>2, <3>3, <3>4, <3>5 DEF TxPair
  <2> QED BY <1>3, <2>1, <2>2 DEF TxInv, TxsApart
<1>12. AnchorsApart'
  <2> SUFFICES ASSUME NEW h \in 0 .. height, NEW x \in StoodAt(h).live PROVE tx.nf # x
    BY <1>3, <1>4 DEF TxInv, AnchorsApart
  <2>1. AuthorityIn(StoodAt(h), h, born, spentAt)
    BY <1>0 DEF AuthInv, Authority
  <2>2. born[x] \in 1 .. h
    BY <2>1 DEF AuthorityIn, OnChain
  <2> QED BY <1>5, <1>7, <2>2
<1>13. Written'
    BY <1>3, <1>4 DEF TxInv, Written
<1> QED BY <1>10, <1>11, <1>12, <1>13 DEF TxInv

(* A rewind keeps the entries of the blocks it keeps, and no other. *)
LEMMA TruncatedHistory ==
    ASSUME AuthInv, NEW h \in 0 .. height - 1, Truncate(h), NEW n \in Names
    PROVE  /\ Len(history'[n]) \in 0 .. Len(history[n])
           /\ \A j \in 1 .. Len(history'[n]) : /\ history'[n][j] = history[n][j]
                                               /\ history[n][j].confirmed_height <= h
           /\ \A j \in 1 .. Len(history[n]) :
                history[n][j].confirmed_height <= h => j \in 1 .. Len(history'[n])
<1> DEFINE s == history[n]
           cut == history'[n]
           k == Len(cut)
<1>1. height \in Nat /\ h \in Nat /\ h \in 0 .. height /\ StoodAt(h) = snap[h] /\ history' = snap[h].history
    BY TruncateRestores DEF AuthInv, Inv, BaseType, StoodAt
<1>2. HistoryStood(h)
    BY <1>1 DEF AuthInv, Inv, Stood
<1>3. Kept(s, h, k) /\ \A j \in 1 .. k : cut[j] = s[j]
    BY <1>1, <1>2 DEF HistoryStood
<1>4. Len(s) \in Nat /\ \A j \in 1 .. Len(s) : s[j].confirmed_height \in 1 .. height
    BY EntryTyped
<1>5. k \in 0 .. Len(s)
    BY <1>3 DEF Kept
<1>6. ASSUME NEW j \in 1 .. k PROVE s[j].confirmed_height <= h
  <2>1. k \in 1 .. Len(s) /\ j \in 1 .. Len(s) /\ j <= k /\ k # 0
    BY <1>4, <1>5
  <2>2. s[k].confirmed_height <= h
    BY <1>3, <2>1 DEF Kept
  <2>3. s[j].confirmed_height <= s[k].confirmed_height
    BY <2>1 DEF AuthInv, Ordered
  <2>4. s[j].confirmed_height \in Nat /\ s[k].confirmed_height \in Nat
    BY <1>1, <1>4, <2>1
  <2> HIDE DEF s, k
  <2> QED BY <1>1, <2>2, <2>3, <2>4
<1>7. ASSUME NEW j \in 1 .. Len(s), s[j].confirmed_height <= h PROVE j \in 1 .. k
  <2>1. s[j].confirmed_height \in Nat
    BY <1>1, <1>4
  <2>2. j \notin (k + 1) .. Len(s)
    BY <1>1, <1>3, <1>7, <2>1 DEF Kept
  <2> HIDE DEF s, k
  <2> QED BY <1>4, <1>5, <2>2
<1> QED BY <1>3, <1>5, <1>6, <1>7

LEMMA RewindTxInv ==
    ASSUME BaseInv, BaseInv', TxInv, NEW h \in 1 .. height, Rewind(h)
    PROVE  TxInv'
<1>0. /\ AuthInv /\ Inv /\ txs \subseteq SoundTxs /\ ruled \in Nat /\ height \in Nat
    BY BaseFacts
<1>1. /\ h \in Nat /\ h \in 0 .. height - 1 /\ Truncate(h) /\ height' = h /\ h \in 0 .. height
      /\ txs' = TxsAfterRewind(h) /\ ruled' = (IF ruled > h THEN h ELSE ruled)
      /\ snap' = [k \in 0 .. h - 1 |-> snap[k]]
      /\ born' = [x \in Nullifiers |-> IF born[x] > h THEN 0 ELSE born[x]]
    BY <1>0 DEF Rewind, Truncate
<1>2. ruled' \in Nat /\ ruled' \in Int
    BY <1>0, <1>1
<1>3. \A x \in Nullifiers : born[x] \in Nat
    BY <1>0 DEF Inv, BaseType
<1>4. \A x \in Nullifiers : (born[x] <= h => born'[x] = born[x]) /\ (born'[x] # 0 => born'[x] = born[x])
    BY <1>1, <1>3
<1>5. \A n \in Names : Len(history[n]) \in Nat
    BY <1>0, EntryTyped
(* an entry that is kept is written by what wrote it *)
<1>6. ASSUME NEW n \in Names, NEW i \in 1 .. Len(history[n]), history[n][i].confirmed_height <= h,
             NEW tx \in SoundTxs, WrittenBy(history[n], i, tx, born, ruled)
      PROVE  /\ i \in 1 .. Len(history'[n])
             /\ WrittenBy(history'[n], i, tx, born', ruled')
             /\ born[tx.authority] \in 1 .. h /\ tx.target <= h + 1
  <2>1. /\ i \in 1 .. Len(history'[n]) /\ history'[n][i] = history[n][i]
        /\ i > 1 => history'[n][i - 1] = history[n][i - 1]
    <3>1. i \in 1 .. Len(history'[n]) /\ Len(history'[n]) \in 0 .. Len(history[n])
        BY <1>0, <1>1, <1>6, TruncatedHistory
    <3>2. \A j \in 1 .. Len(history'[n]) : history'[n][j] = history[n][j]
        BY <1>0, <1>1, TruncatedHistory
    <3>3. i > 1 => i - 1 \in 1 .. Len(history'[n])
        BY <1>5, <3>1
    <3> QED BY <3>1, <3>2, <3>3
  <2>2. /\ history[n][i].confirmed_height \in 1 .. height
        /\ tx.target \in Nat /\ tx.authority \in Nullifiers
    BY <1>0, EntryTyped, SoundTxTyped
  <2>3. /\ born[tx.authority] \in 1 .. history[n][i].confirmed_height - 1
        /\ tx.target <= history[n][i].confirmed_height /\ tx.target <= ruled + 1
    BY <1>6 DEF WrittenBy
  <2>4. born[tx.authority] \in 1 .. h /\ tx.target <= h + 1 /\ tx.target <= ruled' + 1
    <3> DEFINE e == history[n][i].confirmed_height
               b == born[tx.authority]
    <3>1. e \in Nat /\ e <= h /\ h \in Nat /\ ruled \in Nat /\ tx.target \in Nat
        BY <1>0, <1>1, <1>6, <2>2
    <3>2. b \in 1 .. e - 1 /\ tx.target <= e /\ tx.target <= ruled + 1
        BY <2>3
    <3>3. ruled' = h \/ ruled' = ruled
        BY <1>1
    <3> HIDE DEF e, b
    <3>4. b \in 1 .. h /\ tx.target <= h + 1
        BY <3>1, <3>2
    <3>5. tx.target <= ruled' + 1
        BY <3>1, <3>2, <3>3, <3>4
    <3> QED BY <3>4, <3>5 DEF b
  <2>5. born'[tx.authority] = born[tx.authority]
    BY <1>1, <1>4, <2>2, <2>4
  <2>6. i \in Nat /\ i > 0
    OBVIOUS
  <2>7. WrittenBy(history'[n], i, tx, born', ruled')
    BY <1>0, <1>2, <1>6, <2>1, <2>4, <2>5, <2>6, WrittenGrows
  <2> QED BY <2>1, <2>4, <2>7
<1>7. TxsBuilt'
  <2> SUFFICES ASSUME NEW b \in txs' PROVE TxBuilt(b, history'[b.note.name], born', ruled')
    BY DEF TxsBuilt
  <2>0. b \in SoundTxs
    BY <1>0, <1>1, AfterRewind
  <2>1. PICK tx \in txs :
             /\ b.note = tx.note /\ b.authority = tx.authority
             /\ b.nf = tx.nf /\ b.successor = tx.successor /\ b.target = tx.target
             /\ b.known = tx.known
             /\ b.rooted <=> (tx.rooted /\ tx.target <= h + 1)
             /\ born[tx.authority] \in 1 .. h
    BY <1>0, <1>1, AfterRewind
  <2> DEFINE n == tx.note.name
  <2>2. /\ tx \in SoundTxs /\ n \in Names /\ tx.authority \in Nullifiers /\ tx.nf \in Nullifiers
        /\ tx.target \in Nat /\ TxBuilt(tx, history[n], born, ruled)
    BY <1>0, SoundTxTyped DEF TxInv, TxsBuilt
  <2>3. born'[tx.authority] = born[tx.authority] /\ born'[tx.authority] # 0
    BY <1>1, <1>4, <2>1, <2>2
  <2>4. b.rooted => b.target <= ruled' + 1
    BY <1>0, <1>1, <2>1, <2>2 DEF TxBuilt
  <2>5. ASSUME b.rooted, b.note.action # "claim"
        PROVE  \E i \in 1 .. Len(history'[n]) : NoteOf(history'[n], i, b)
    <3>1. PICK i \in 1 .. Len(history[n]) : NoteOf(history[n], i, tx)
        BY <2>1, <2>2, <2>5 DEF TxBuilt
    <3>2. history[n][i].confirmed_height \in 1 .. height
        BY <1>0, <2>2, EntryTyped
    <3>3. history[n][i].confirmed_height < tx.target /\ tx.target <= h + 1
        BY <2>1, <2>5, <3>1 DEF NoteOf
    <3>4. history[n][i].confirmed_height <= h
        BY <1>1, <2>2, <3>2, <3>3
    <3>5. i \in 1 .. Len(history'[n])
        BY <1>0, <1>1, <2>2, <3>4, TruncatedHistory
    <3>6. history'[n][i] = history[n][i]
        BY <1>0, <1>1, <2>2, <3>5, TruncatedHistory
    <3>7. NoteOf(history'[n], i, b)
        BY <2>1, <3>1, <3>6 DEF NoteOf
    <3> QED BY <3>5, <3>7
  <2>6. ASSUME born'[b.nf] # 0, b.note.action # "claim"
        PROVE  \E i \in 1 .. Len(history'[n]) : WrittenBy(history'[n], i, b, born', ruled')
    <3>1. born[tx.nf] # 0 /\ born'[tx.nf] = born[tx.nf] /\ tx.note.action # "claim"
        BY <1>4, <2>1, <2>2, <2>6
    <3>2. PICK i \in 1 .. Len(history[n]) : WrittenBy(history[n], i, tx, born, ruled)
        BY <2>2, <3>1 DEF TxBuilt
    <3>3. /\ history[n][i].predecessor_nullifier = tx.nf
          /\ born[tx.nf] = history[n][i].confirmed_height
      <4>1. history[n][i].predecessor_nullifier = tx.nf
        BY <3>2 DEF WrittenBy
      <4>2. born[history[n][i].predecessor_nullifier] = history[n][i].confirmed_height
        BY <2>2 DEF TxInv, Written
      <4> QED BY <4>1, <4>2
    <3>4. history[n][i].confirmed_height <= h
        BY <1>1, <1>3, <2>2, <3>1, <3>3
    <3>5. /\ i \in 1 .. Len(history'[n])
          /\ WrittenBy(history'[n], i, tx, born', ruled')
        BY <1>6, <2>2, <3>2, <3>4
    <3>6. WrittenBy(history'[n], i, b, born', ruled')
        BY <2>1, <3>5 DEF WrittenBy
    <3> QED BY <3>5, <3>6
  <2>7. b.successor \in IF b.note.action = "claim" THEN Nullifiers ELSE {NoNf}
    BY <2>1, <2>2 DEF TxBuilt
  <2> QED BY <2>1, <2>3, <2>4, <2>5, <2>6, <2>7 DEF TxBuilt
<1>8. TxsApart'
  <2> SUFFICES ASSUME NEW a \in txs', NEW b \in txs' PROVE TxPair(a, b)
    BY DEF TxsApart
  <2> DEFINE Left(u, x) ==
             /\ u.note = x.note /\ u.authority = x.authority
             /\ u.nf = x.nf /\ u.successor = x.successor /\ u.target = x.target
             /\ u.known = x.known
             /\ u.rooted <=> (x.rooted /\ x.target <= h + 1)
             /\ u = [x EXCEPT !.rooted = x.rooted /\ x.target <= h + 1]
  <2>1. PICK x \in txs : Left(a, x)
    BY <1>0, <1>1, AfterRewind
  <2>2. PICK y \in txs : Left(b, y)
    BY <1>0, <1>1, AfterRewind
  <2>3. x = y => a = b
    BY <2>1, <2>2
  <2>4. TxPair(x, y)
    BY DEF TxInv, TxsApart
  <2> QED BY <2>1, <2>2, <2>3, <2>4 DEF TxPair
<1>9. AnchorsApart'
  <2> SUFFICES ASSUME NEW k \in 0 .. h, NEW x \in StoodAt(k)'.live, NEW b \in txs'
               PROVE  b.nf # x
    BY <1>1 DEF AnchorsApart
  <2>1. k \in 0 .. height /\ StoodAt(k)'.live = StoodAt(k).live
    <3>1. k \in 0 .. height /\ StoodAt(k) = snap[k]
        BY <1>0, <1>1 DEF StoodAt
    <3>2. CASE k = h
      <4>1. live' = snap[h].live
        BY <1>0, <1>1, TruncateRestores
      <4>2. StoodAt(k)'.live = live'
        BY <1>1, <3>2 DEF StoodAt, Snapshot
      <4> QED BY <3>1, <3>2, <4>1, <4>2
    <3>3. CASE k # h
        BY <1>1, <3>1, <3>3 DEF StoodAt
    <3> QED BY <3>2, <3>3, <3>1
  <2>2. \E tx \in txs : b.nf = tx.nf
    BY <1>0, <1>1, AfterRewind
  <2> QED BY <2>1, <2>2 DEF TxInv, AnchorsApart
<1>10. Written'
  <2> SUFFICES ASSUME NEW n \in Names, NEW i \in 1 .. Len(history'[n])
               PROVE  /\ born'[history'[n][i].predecessor_nullifier] = history'[n][i].confirmed_height
                      /\ \E b \in txs' : WrittenBy(history'[n], i, b, born', ruled')
    BY DEF Written
  <2>1. /\ i \in 1 .. Len(history[n]) /\ history'[n][i] = history[n][i]
        /\ history[n][i].confirmed_height <= h
    <3>1. Len(history'[n]) \in 0 .. Len(history[n])
        BY <1>0, <1>1, TruncatedHistory
    <3>2. history'[n][i] = history[n][i] /\ history[n][i].confirmed_height <= h
        BY <1>0, <1>1, TruncatedHistory
    <3> QED BY <1>5, <3>1, <3>2
  <2>2. /\ history[n][i].predecessor_nullifier \in Nullifiers
        /\ born[history[n][i].predecessor_nullifier] = history[n][i].confirmed_height
    BY <1>0, <2>1, EntryTyped DEF TxInv, Written
  <2>3. born'[history'[n][i].predecessor_nullifier] = history'[n][i].confirmed_height
    BY <1>4, <2>1, <2>2
  <2>4. PICK tx \in txs : WrittenBy(history[n], i, tx, born, ruled)
    BY <2>1 DEF TxInv, Written
  <2>5. /\ WrittenBy(history'[n], i, tx, born', ruled')
        /\ born[tx.authority] \in 1 .. h /\ tx.target <= h + 1
    BY <1>0, <1>6, <2>1, <2>4
  <2> DEFINE b == [tx EXCEPT !.rooted = @ /\ tx.target <= h + 1]
  <2>6. b \in txs'
    BY <1>1, <2>5 DEF TxsAfterRewind
  <2>7. /\ b.note = tx.note /\ b.authority = tx.authority /\ b.nf = tx.nf /\ b.target = tx.target
    <3>1. tx \in Tx
        BY <1>0 DEF SoundTxs
    <3> QED BY <3>1 DEF Tx
  <2> HIDE DEF b
  <2>8. WrittenBy(history'[n], i, b, born', ruled')
    BY <2>5, <2>7 DEF WrittenBy
  <2> QED BY <2>3, <2>6, <2>8
<1> QED BY <1>7, <1>8, <1>9, <1>10 DEF TxInv

LEMMA RestartTxInv ==
    ASSUME BaseInv, BaseInv', TxInv, Restart
    PROVE  TxInv'
<1>0. /\ AuthInv /\ txs \subseteq SoundTxs /\ ruled \in Nat /\ height \in Nat /\ ruled <= height
    BY BaseFacts
<1>1. /\ txs' = {[tx EXCEPT !.known = FALSE] : tx \in txs} /\ ruled' = height
      /\ history' = history /\ born' = born /\ height' = height
      /\ \A h : StoodAt(h)' = StoodAt(h)
    BY DEF Restart, vars, registryVars, chainVars, StoodAt, Snapshot
<1> DEFINE Forgets(u, x) ==
             /\ u.note = x.note /\ u.authority = x.authority
             /\ u.nf = x.nf /\ u.successor = x.successor /\ u.target = x.target
             /\ u.known = FALSE /\ u.rooted = x.rooted
             /\ u = [x EXCEPT !.known = FALSE] /\ u \in SoundTxs
<1>9. ASSUME NEW x \in txs PROVE Forgets([x EXCEPT !.known = FALSE], x)
  <2>1. x \in SoundTxs
    BY <1>0
  <2> QED BY <2>1, ForgottenTx
<1>2. ASSUME NEW u \in txs' PROVE \E x \in txs : Forgets(u, x)
  <2>1. PICK x \in txs : u = [x EXCEPT !.known = FALSE]
    BY <1>1
  <2> HIDE DEF Forgets
  <2> QED BY <1>9, <2>1
<1>3. ASSUME NEW x \in txs PROVE \E u \in txs' : Forgets(u, x)
  <2>1. [x EXCEPT !.known = FALSE] \in txs'
    BY <1>1
  <2> HIDE DEF Forgets
  <2> QED BY <1>9, <2>1
<1>4. \A tx \in txs : tx \in SoundTxs /\ tx.note.name \in Names
    BY <1>0, SoundTxTyped
<1>5. TxsBuilt'
  <2> SUFFICES ASSUME NEW u \in txs' PROVE TxBuilt(u, history[u.note.name], born, height)
    BY <1>1 DEF TxsBuilt
  <2>1. PICK x \in txs : Forgets(u, x)
    BY <1>2
  <2> DEFINE s == history[x.note.name]
  <2>2. Len(s) \in Nat
    BY <1>0, <1>4, EntryTyped
  <2>3. Prefix(s, s)
    BY <2>2 DEF Prefix
  <2>4. TxBuilt(x, s, born, ruled) /\ x \in SoundTxs
    BY <1>4 DEF TxInv, TxsBuilt
  <2>5. TxBuilt(x, s, born, height)
    BY <1>0, <2>2, <2>3, <2>4, BuiltGrows
  <2> HIDE DEF s
  <2>6. TxBuilt(u, s, born, height)
    BY <2>1, <2>5 DEF TxBuilt, NoteOf, WrittenBy
  <2> QED BY <2>1, <2>6 DEF s
<1>6. TxsApart'
  <2> SUFFICES ASSUME NEW a \in txs', NEW b \in txs' PROVE TxPair(a, b)
    BY DEF TxsApart
  <2>1. PICK x \in txs : Forgets(a, x)
    BY <1>2
  <2>2. PICK y \in txs : Forgets(b, y)
    BY <1>2
  <2>3. x = y => a = b
    BY <2>1, <2>2
  <2>4. TxPair(x, y)
    BY DEF TxInv, TxsApart
  <2> QED BY <2>1, <2>2, <2>3, <2>4 DEF TxPair
<1>7. AnchorsApart'
  <2> SUFFICES ASSUME NEW h \in 0 .. height, NEW z \in StoodAt(h).live, NEW u \in txs'
               PROVE  u.nf # z
    BY <1>1 DEF AnchorsApart
  <2>1. PICK x \in txs : Forgets(u, x)
    BY <1>2
  <2> QED BY <2>1 DEF TxInv, AnchorsApart
<1>8. Written'
  <2> SUFFICES ASSUME NEW n \in Names, NEW i \in 1 .. Len(history[n])
               PROVE  /\ born[history[n][i].predecessor_nullifier] = history[n][i].confirmed_height
                      /\ \E u \in txs' : WrittenBy(history[n], i, u, born, height)
    BY <1>1 DEF Written
  <2>1. PICK x \in txs : WrittenBy(history[n], i, x, born, ruled)
    BY DEF TxInv, Written
  <2>2. i \in Nat /\ i > 0 /\ height \in Int
    BY <1>0
  <2>3. WrittenBy(history[n], i, x, born, height)
    BY <1>0, <1>4, <2>1, <2>2, WrittenGrows
  <2>4. PICK u \in txs' : Forgets(u, x)
    BY <1>3
  <2>5. WrittenBy(history[n], i, u, born, height)
    BY <2>3, <2>4 DEF WrittenBy
  <2> QED BY <2>5 DEF TxInv, Written
<1> QED BY <1>5, <1>6, <1>7, <1>8 DEF TxInv

LEMMA MintInitTxInv == MintInit => TxInv
<1> SUFFICES ASSUME MintInit PROVE TxInv
  OBVIOUS
<1>1. txs = {} /\ history = [n \in Names |-> << >>]
    BY DEF MintInit
<1>2. Len(<< >>) = 0
    BY EmptySeq
<1>3. \A n \in Names : Len(history[n]) = 0
    BY <1>1, <1>2
<1> QED BY <1>1, <1>3 DEF TxInv, TxsBuilt, TxsApart, AnchorsApart, Written

LEMMA MintNextTxInv ==
    ASSUME BaseInv, BaseInv', TxInv, [MintNext]_allVars
    PROVE  TxInv'
<1>0. ruled \in Nat /\ height \in Nat /\ ruled <= height
    BY BaseFacts
<1>1. ASSUME UNCHANGED vars, txs' = txs, ruled <= ruled' PROVE TxInv'
  <2>1. UNCHANGED <<history, born, txs>>
    BY <1>1 DEF vars, registryVars, chainVars
  <2> QED BY <1>1, <2>1, SameStood, TxInvSame
<1>2. CASE SealBlock \/ StartRules \/ SignDrop \/ SignSkip
    BY <1>0, <1>1, <1>2 DEF SealBlock, StartRules, SignDrop, SignSkip, queueVars
<1>3. CASE EndRules
    BY <1>0, <1>1, <1>3 DEF EndRules
<1>4. ASSUME NEW c \in armed, Respond(c) PROVE TxInv'
    BY <1>0, <1>1, <1>4 DEF Respond
<1>5. ASSUME NEW n, NEW ua, NEW e, NEW p, DecideClaim(n, ua, e, p) PROVE TxInv'
    BY <1>0, <1>1, <1>5 DEF DecideClaim
<1>6. ASSUME NEW n, NEW action, NEW ua, RelayChallenge(n, action, ua) PROVE TxInv'
    BY <1>0, <1>1, <1>6 DEF RelayChallenge
<1>7. CASE UNCHANGED allVars
    BY <1>0, <1>1, <1>7 DEF allVars, mintVars, queueVars
<1> QED BY <1>2, <1>3, <1>4, <1>5, <1>6, <1>7, OpenBlockTxInv, MineTxTxInv, SignSendTxInv,
           RewindTxInv, RestartTxInv DEF MintNext

LEMMA TxInvLawful ==
    ASSUME BaseInv, TxInv
    PROVE  OwnTxLawful
<1>0. /\ AuthInv /\ txs \subseteq SoundTxs /\ ruled \in Nat /\ height \in Nat /\ ruled <= height
    BY BaseFacts
<1>1. \A n \in Names : DOMAIN history[n] = 1 .. Len(history[n])
  <2>1. \A n \in Names : history[n] \in Seq(NameRecord)
    BY <1>0, EntryTyped
  <2> QED BY <2>1, LenProperties
<1>2. ASSUME NEW tx \in txs, born[tx.nf] # 0, tx.note.action # "claim"
      PROVE  \E i \in DOMAIN history[tx.note.name] :
               /\ history[tx.note.name][i].predecessor_nullifier = tx.nf
               /\ history[tx.note.name][i].commitment = Commitment(tx.note)
  <2>1. tx.note.name \in Names
    BY <1>0, SoundTxTyped
  <2>2. PICK i \in 1 .. Len(history[tx.note.name]) :
             WrittenBy(history[tx.note.name], i, tx, born, ruled)
    BY <1>2 DEF TxInv, TxsBuilt, TxBuilt
  <2> QED BY <1>1, <2>1, <2>2 DEF WrittenBy
<1>3. ASSUME NEW n \in Names, NEW i \in DOMAIN history[n], history[n][i].action = "release"
      PROVE  \E tx \in txs : /\ tx.note.action = "release"
                             /\ tx.nf = history[n][i].predecessor_nullifier
  <2>1. i \in 1 .. Len(history[n])
    BY <1>1, <1>3
  <2>2. PICK tx \in txs : WrittenBy(history[n], i, tx, born, ruled)
    BY <2>1 DEF TxInv, Written
  <2> QED BY <1>3, <2>2 DEF WrittenBy
<1>4. ASSUME NEW a \in txs, NEW b \in txs, a.known, b.known, InFlight(a), InFlight(b),
             a.authority = b.authority, a # b
      PROVE  FALSE
  <2>1. /\ a.target \in Nat /\ b.target \in Nat
        /\ TxExpiry(a.target) \in Nat /\ TxExpiry(b.target) \in Nat
    BY <1>0, SoundTxTyped, TxExpiryNat
  <2>2. a.rooted /\ b.rooted /\ height < TxExpiry(a.target) /\ height < TxExpiry(b.target)
    BY <1>4 DEF InFlight
  <2>3. a.target <= ruled + 1 /\ b.target <= ruled + 1
    BY <2>2 DEF TxInv, TxsBuilt, TxBuilt
  <2>4. TxExpiry(a.target) < b.target - 1 \/ TxExpiry(b.target) < a.target - 1
    BY <1>4, <2>2 DEF TxInv, TxsApart, TxPair
  <2> QED BY <1>0, <2>1, <2>2, <2>3, <2>4
<1> QED BY <1>2, <1>3, <1>4 DEF OwnTxLawful

(* Through every reorg, restart and late transaction, what the mint        *)
(* broadcast and the chain mined stands in its name's history as signed,   *)
(* no name is burned by a release nobody signed, and no note is spent by   *)
(* two transactions that may both be mined (accept_update, accept_release, *)
(* Wallet::spend_confirms_or_blocks).                                      *)
THEOREM OwnTransactionsAreLawful == MintSpec => []OwnTxLawful
<1>1. MintInit => BaseInv /\ TxInv
    BY MintInitBaseInv, MintInitTxInv
<1>2. BaseInv /\ TxInv /\ [MintNext]_allVars => BaseInv' /\ TxInv'
    BY MintNextBaseInv, MintNextTxInv
<1>3. BaseInv /\ TxInv => OwnTxLawful
    BY TxInvLawful
<1> QED BY <1>1, <1>2, <1>3, PTL DEF MintSpec

-----------------------------------------------------------------------------
(***************************************************************************)
(* Which record confirms an order                                          *)
(***************************************************************************)
LEMMA CommitmentIs ==
    ASSUME NEW note \in NameNote
    PROVE  LET c == Commitment(note) IN
           /\ c \in NameCommitment /\ Len(note.prev) \in Nat /\ Len(c) = Len(note.prev) + 1
           /\ c[Len(c)][1] = note.action
           /\ c # note.prev
<1> DEFINE e == <<note.action, note.name, note.ua, note.expires_at>>
           c == Commitment(note)
<1>1. note.prev \in Seq(Transition) /\ e \in Transition
    BY DEF NameNote, NameCommitment, Transition
<1>2. c = Append(note.prev, e) /\ e[1] = note.action
    BY DEF Commitment
<1> HIDE DEF e, c
<1>3. /\ c \in Seq(Transition) /\ Len(c) = Len(note.prev) + 1 /\ c[Len(note.prev) + 1] = e
    BY <1>1, <1>2, AppendProperties
<1>4. Len(note.prev) \in Nat
    BY <1>1, LenProperties
<1> QED BY <1>2, <1>3, <1>4 DEF NameCommitment, c

(* A name's records rise with their blocks, and only the last may be of a  *)
(* block that is not decided yet.                                          *)
LEMMA RisingHeights ==
    ASSUME BaseInv, TxInv, NEW n \in Names, NEW i \in 1 .. Len(history[n]), i # Len(history[n])
    PROVE  /\ history[n][i].confirmed_height < history[n][Len(history[n])].confirmed_height
           /\ history[n][i].confirmed_height <= ruled
<1> DEFINE s == history[n]
           m == Len(s)
<1>0. AuthInv /\ txs \subseteq SoundTxs /\ ruled \in Nat /\ height \in Nat
    BY BaseFacts
<1>1. m \in Nat /\ \A k \in 1 .. m : s[k].confirmed_height \in 1 .. height
    BY <1>0, EntryTyped
<1>2. m \in 1 .. m /\ m - 1 \in 1 .. m /\ i \in 1 .. m /\ i <= m - 1 /\ m > 1
    BY <1>1
<1>3. PICK tx \in txs : WrittenBy(s, m, tx, born, ruled)
    BY <1>2 DEF TxInv, Written
<1>4. tx.target \in Nat
    BY <1>0, SoundTxTyped
<1>5. s[m - 1].confirmed_height < tx.target /\ tx.target <= s[m].confirmed_height /\ tx.target <= ruled + 1
    BY <1>2, <1>3 DEF WrittenBy
<1>6. s[i].confirmed_height <= s[m - 1].confirmed_height
    BY <1>0, <1>2 DEF AuthInv, Ordered
<1>7. s[i].confirmed_height \in Nat /\ s[m - 1].confirmed_height \in Nat /\ s[m].confirmed_height \in Nat
    BY <1>0, <1>1, <1>2
<1> HIDE DEF s, m
<1>8. s[i].confirmed_height < s[m].confirmed_height /\ s[i].confirmed_height <= ruled
    BY <1>0, <1>4, <1>5, <1>6, <1>7
<1> QED BY <1>8 DEF s, m

LEMMA ConfirmedIs ==
    ASSUME AuthInv, NEW o, o.note.name \in Names
    PROVE  Confirmed(o, history) <=>
             \E i \in 1 .. Len(history[o.note.name]) :
               /\ history[o.note.name][i].confirmed_height >= o.origin
               /\ history[o.note.name][i].commitment = Commitment(o.note)
<1>1. history[o.note.name] \in Seq(NameRecord)
    BY EntryTyped
<1>2. DOMAIN history[o.note.name] = 1 .. Len(history[o.note.name])
    BY <1>1, LenProperties
<1> QED BY <1>2 DEF Confirmed

(* A transition of the current record that originates at the tip is not on *)
(* the chain yet.                                                          *)
LEMMA NewTransitionUnconfirmed ==
    ASSUME BaseInv, TxInv, NEW o, o.note \in SoundNotes, o.note.name \in DOMAIN records,
           o.note.prev = records[o.note.name].commitment, o.origin = height
    PROVE  ~Confirmed(o, history)
<1> DEFINE n == o.note.name
           s == history[n]
           m == Len(s)
<1>0. AuthInv /\ Inv /\ ruled \in Nat /\ height \in Nat
    BY BaseFacts
<1>1. o.note \in NameNote /\ n \in Names
    BY DEF SoundNotes, NameNote
<1> SUFFICES ASSUME NEW i \in 1 .. m, s[i].confirmed_height >= o.origin,
                    s[i].commitment = Commitment(o.note)
             PROVE  FALSE
    BY <1>0, <1>1, ConfirmedIs
<1>2. m \in Nat /\ \A k \in 1 .. m : s[k].confirmed_height \in 1 .. height
    BY <1>0, <1>1, EntryTyped
<1>3. i = m
  <2> SUFFICES ASSUME i # m PROVE FALSE
    OBVIOUS
  <2>1. s[i].confirmed_height < s[m].confirmed_height
    BY <1>1, RisingHeights
  <2>2. s[m].confirmed_height \in 1 .. height /\ s[i].confirmed_height \in 1 .. height
    BY <1>2
  <2>3. s[i].confirmed_height >= height
    OBVIOUS
  <2> HIDE DEF s, m
  <2> QED BY <1>0, <2>1, <2>2, <2>3
<1>4. records[n] = s[m]
    BY <1>0, <1>1, RecordIsLast
<1>5. Commitment(o.note) # o.note.prev
    BY <1>1, CommitmentIs
<1> QED BY <1>3, <1>4, <1>5

(* Neither is a claim of an available name whose payment is undecided. *)
LEMMA NewClaimUnconfirmed ==
    ASSUME BaseInv, TxInv, NEW o, o.note \in SoundNotes, o.note.action = "claim",
           o.note.name \notin DOMAIN records, o.origin \in ruled + 1 .. height
    PROVE  ~Confirmed(o, history)
<1> DEFINE n == o.note.name
           s == history[n]
           m == Len(s)
<1>0. AuthInv /\ Inv /\ ruled \in Nat /\ height \in Nat /\ txs \subseteq SoundTxs
    BY BaseFacts
<1>1. o.note \in NameNote /\ n \in Names
    BY DEF SoundNotes, NameNote
<1> SUFFICES ASSUME NEW i \in 1 .. m, s[i].confirmed_height >= o.origin,
                    s[i].commitment = Commitment(o.note)
             PROVE  FALSE
    BY <1>0, <1>1, ConfirmedIs
<1>2. m \in Nat /\ \A k \in 1 .. m : s[k].confirmed_height \in 1 .. height
    BY <1>0, <1>1, EntryTyped
<1>3. i = m
  <2> SUFFICES ASSUME i # m PROVE FALSE
    OBVIOUS
  <2>1. s[i].confirmed_height <= ruled
    BY <1>1, RisingHeights
  <2>2. s[i].confirmed_height \in 1 .. height
    BY <1>2
  <2>3. s[i].confirmed_height >= o.origin
    OBVIOUS
  <2> HIDE DEF s, m
  <2> QED BY <1>0, <2>1, <2>2, <2>3
<1>4. s # << >>
    BY <1>2, <1>3, EmptySeq
<1>5. s[m].action = "release"
    BY <1>0, <1>1, <1>4, RecordIsLast
<1>6. PICK tx \in txs : WrittenBy(s, m, tx, born, ruled)
    BY <1>1, <1>3 DEF TxInv, Written
<1>7. tx.note \in NameNote
    BY <1>0, SoundTxTyped
<1>8. Commitment(tx.note) = Commitment(o.note) /\ tx.note.action = "release"
    BY <1>3, <1>5, <1>6 DEF WrittenBy
<1>9. tx.note.action = o.note.action
  <2>1. Commitment(tx.note)[Len(Commitment(tx.note))][1] = tx.note.action
    BY <1>7, CommitmentIs
  <2>2. Commitment(o.note)[Len(Commitment(o.note))][1] = o.note.action
    BY <1>1, CommitmentIs
  <2> QED BY <1>8, <2>1, <2>2
<1> QED BY <1>8, <1>9

-----------------------------------------------------------------------------
(***************************************************************************)
(* Seen orders.  While a block is being applied a confirmed order may not  *)
(* have been reconciled yet.                                               *)
(***************************************************************************)
SeenIn(q, hist) == \A k \in 1 .. Len(q) : q[k].state = "seen" <=> Confirmed(q[k], hist)

SeenInv ==
    /\ \A k \in 1 .. Len(orders) : orders[k].state = "seen" => Confirmed(orders[k], history)
    /\ phase # "block" => SeenIn(orders, history)

LEMMA SameConfirmed ==
    ASSUME NEW p, NEW o, NEW hist, p.note = o.note, p.origin = o.origin
    PROVE  Confirmed(p, hist) <=> Confirmed(o, hist)
BY DEF Confirmed

LEMMA ThinnedSeen ==
    ASSUME NEW q, NEW r, NEW hist, Thinned(r, q), SeenIn(q, hist)
    PROVE  SeenIn(r, hist)
<1> SUFFICES ASSUME NEW k \in 1 .. Len(r) PROVE r[k].state = "seen" <=> Confirmed(r[k], hist)
    BY DEF SeenIn
<1>1. PICK i \in 1 .. Len(q) : Same(r[k], q[i])
    BY ThinnedFrom
<1>2. Confirmed(r[k], hist) <=> Confirmed(q[i], hist)
    BY <1>1, SameConfirmed DEF Same
<1> QED BY <1>1, <1>2 DEF Same, SeenIn

LEMMA AdmitSeen ==
    ASSUME NEW q \in Seq(SoundOrders), NEW origin \in Nat, NEW note \in SoundNotes, NEW hist,
           SeenIn(q, hist),
           ~Confirmed([note |-> note, origin |-> origin, state |-> "authorized", expiry |-> 0], hist)
    PROVE  SeenIn(Admit(q, origin, note), hist)
<1> DEFINE r == Admit(q, origin, note)
           o == [note |-> note, origin |-> origin, state |-> "authorized", expiry |-> 0]
<1>1. /\ Len(q) \in Nat /\ Len(r) \in Len(q) .. Len(q) + 1
      /\ \A k \in 1 .. Len(q) : r[k] = q[k]
      /\ \A k \in Len(q) + 1 .. Len(r) : r[k] = o
    BY AdmitIs
<1>2. o.state = "authorized" /\ ~Confirmed(o, hist)
    OBVIOUS
<1> HIDE DEF o, r
<1>3. ASSUME NEW k \in 1 .. Len(r) PROVE r[k].state = "seen" <=> Confirmed(r[k], hist)
  <2>1. k \in 1 .. Len(q) \/ k \in Len(q) + 1 .. Len(r)
    BY <1>1
  <2>2. CASE k \in 1 .. Len(q)
    BY <1>1, <2>2 DEF SeenIn
  <2>3. CASE k \in Len(q) + 1 .. Len(r)
    BY <1>1, <1>2, <2>3
  <2> QED BY <2>1, <2>2, <2>3
<1> QED BY <1>3 DEF SeenIn, r

LEMMA ReconciledSeen ==
    ASSUME NEW q \in Seq(SoundOrders), NEW hist, NEW recs,
           \A k \in 1 .. Len(q) : q[k].state = "seen" => Confirmed(q[k], hist)
    PROVE  SeenIn(ReconcileSeen(q, hist, recs), hist)
<1> DEFINE r == ReconcileSeen(q, hist, recs)
<1>1. PICK from : IsReconciled(from, r, q, hist, recs)
    BY ReconcileSeenIs
<1> HIDE DEF r
<1>2. ASSUME NEW k \in 1 .. Len(r) PROVE r[k].state = "seen" <=> Confirmed(r[k], hist)
  <2> DEFINE o == q[from[k]]
  <2>1. from[k] \in 1 .. Len(q) /\ r[k] = Observed(o, hist)
    BY <1>1 DEF IsReconciled
  <2>2. o \in SoundOrders
    BY <2>1, ElementOfSeq
  <2>3. o.state = "seen" => Confirmed(o, hist)
    BY <2>1
  <2> HIDE DEF o
  <2>4. /\ r[k].note = o.note /\ r[k].origin = o.origin
        /\ r[k].state = (IF Confirmed(o, hist) THEN "seen" ELSE o.state)
    BY <2>1, <2>2, ObservedIs
  <2>5. Confirmed(r[k], hist) <=> Confirmed(o, hist)
    BY <2>4, SameConfirmed
  <2> QED BY <2>3, <2>4, <2>5
<1> QED BY <1>2 DEF SeenIn, r

(* A history that grows confirms what it confirmed. *)
LEMMA ConfirmedGrows ==
    ASSUME AuthInv, AuthInv', NEW o, o.note.name \in Names,
           Prefix(history[o.note.name], history'[o.note.name]), Confirmed(o, history)
    PROVE  Confirmed(o, history')
<1> DEFINE s == history[o.note.name]
           t == history'[o.note.name]
<1>1. s \in Seq(NameRecord) /\ Len(s) \in Nat
    BY EntryTyped
<1>2. t \in Seq(NameRecord)
    BY DEF AuthInv, Inv, BaseType
<1>3. DOMAIN s = 1 .. Len(s) /\ DOMAIN t = 1 .. Len(t) /\ Len(t) \in Nat
    BY <1>1, <1>2, LenProperties
<1>4. PICK i \in DOMAIN s : s[i].confirmed_height >= o.origin /\ s[i].commitment = Commitment(o.note)
    BY DEF Confirmed
<1>5. i \in DOMAIN t /\ t[i] = s[i]
    BY <1>1, <1>3, <1>4 DEF Prefix
<1> QED BY <1>4, <1>5 DEF Confirmed

LEMMA OrderTyped ==
    ASSUME BaseInv, NEW k \in 1 .. Len(orders)
    PROVE  /\ orders[k] \in SoundOrders /\ orders[k].note \in SoundNotes
           /\ orders[k].note \in NameNote /\ orders[k].note.name \in Names
           /\ orders[k].origin \in Nat
<1>1. orders[k] \in SoundOrders
    BY BaseFacts, ElementOfSeq
<1>2. orders[k].note \in SoundNotes /\ orders[k].origin \in Nat
    BY <1>1 DEF SoundOrders
<1> QED BY <1>1, <1>2 DEF SoundNotes, NameNote

LEMMA MineGrows ==
    ASSUME BaseInv, BaseInv', TxInv, NEW tx \in txs, MineTx(tx), NEW m \in Names
    PROVE  /\ Len(history[m]) \in Nat /\ Len(history'[m]) \in Nat
           /\ Prefix(history[m], history'[m])
           /\ m # tx.note.name => history'[m] = history[m]
<1> DEFINE n == tx.note.name
<1>0. AuthInv /\ txs \subseteq SoundTxs
    BY BaseFacts
<1>1. MineFactsOf(tx) /\ (Writes(tx) \/ (tx.note.action = "claim" /\ UNCHANGED <<records, history>>))
    BY MineEffect
<1>2. history' \in [Names -> Seq(NameRecord)]
    BY BaseFactsNext
<1>3. Len(history[m]) \in Nat /\ Len(history'[m]) \in Nat
    BY <1>0, <1>2, EntryTyped, LenProperties
<1>4. tx \in SoundTxs
    BY <1>0
<1>5. CASE Writes(tx)
  <2>1. /\ history'[n] = Append(history[n], Records(tx)) /\ history[n] \in Seq(NameRecord)
        /\ Records(tx) \in NameRecord /\ \A x \in Names \ {n} : history'[x] = history[x]
    BY <1>0, <1>4, <1>5, WritesHistory
  <2>2. CASE m = n
    <3> DEFINE t == Append(history[n], Records(tx))
    <3>1. /\ Len(t) = Len(history[n]) + 1 /\ Len(history[n]) \in Nat
          /\ \A i \in 1 .. Len(history[n]) : t[i] = history[n][i]
        BY <2>1, LastEntry
    <3> HIDE DEF t
    <3>2. Prefix(history[n], t)
        BY <3>1 DEF Prefix
    <3> QED BY <1>3, <2>1, <2>2, <3>2 DEF t
  <2>3. CASE m # n
    BY <1>3, <2>1, <2>3 DEF Prefix
  <2> QED BY <2>2, <2>3
<1>6. CASE UNCHANGED <<records, history>>
    BY <1>3, <1>6 DEF Prefix
<1> QED BY <1>1, <1>5, <1>6

(* What the rules make of the queue *)
LEMMA EndRulesOrders ==
    ASSUME BaseInv, EndRules
    PROVE  LET expired == ExpireSent(orders, height)
               pruned  == DropDueUpdates(expired)
           IN  /\ expired \in Seq(SoundOrders) /\ Len(expired) = Len(orders)
               /\ \A k \in 1 .. Len(orders) : Same(expired[k], orders[k])
               /\ pruned \in Seq(SoundOrders) /\ Thinned(pruned, orders)
               /\ Single(orders) => Single(expired) /\ Single(pruned) /\ Spared(pruned, expired)
               /\ Owed(orders', pruned) /\ \A n \in DueNames : NotePending(orders', n)
               /\ todo' = AuthorizedNotes(orders')
               /\ armed' = {c \in armed : ~(Due(c.name) /\ ~NotePending(pruned, c.name))}
               /\ phase = "rules" /\ phase' = "sign" /\ ruled' = height
               /\ UNCHANGED <<vars, txs, boundVars>>
<1> DEFINE expired == ExpireSent(orders, height)
           pruned == DropDueUpdates(expired)
<1>0. Inv /\ orders \in Seq(SoundOrders)
    BY BaseFacts
<1>1. /\ phase' = "sign" /\ orders' = AdmitReleases(pruned) /\ todo' = AuthorizedNotes(orders')
      /\ armed' = {c \in armed : ~(Due(c.name) /\ ~NotePending(pruned, c.name))}
      /\ phase = "rules" /\ ruled' = height /\ UNCHANGED <<vars, txs, boundVars>>
    BY DEF EndRules
<1>2. /\ expired \in Seq(SoundOrders) /\ Thinned(expired, orders) /\ Len(expired) = Len(orders)
      /\ \A k \in 1 .. Len(orders) : Same(expired[k], orders[k])
    BY <1>0, ExpireSentIs
<1> HIDE DEF expired
<1>3. pruned \in Seq(SoundOrders) /\ Thinned(pruned, expired) /\ (Single(expired) => Spared(pruned, expired))
    BY <1>2, DropDueUpdatesIs
<1> HIDE DEF pruned
<1>4. Thinned(pruned, orders)
    BY <1>2, <1>3, ThinnedTwice
<1>5. Owed(AdmitReleases(pruned), pruned) /\ \A n \in DueNames : NotePending(AdmitReleases(pruned), n)
    BY <1>0, <1>3, AdmitReleasesIs
<1>6. Single(orders) => Single(expired) /\ Single(pruned)
    BY <1>2, <1>4, ThinnedSingle
<1> QED BY <1>1, <1>2, <1>3, <1>4, <1>5, <1>6 DEF expired, pruned

LEMMA EndRulesSeen ==
    ASSUME BaseInv, TxInv, SeenInv, EndRules
    PROVE  SeenIn(orders', history)
<1> DEFINE pruned == DropDueUpdates(ExpireSent(orders, height))
<1>1. Thinned(pruned, orders) /\ Owed(orders', pruned) /\ phase = "rules"
    BY EndRulesOrders
<1> HIDE DEF pruned
<1>2. SeenIn(pruned, history)
    BY <1>1, ThinnedSeen DEF SeenInv
<1>3. Inv
    BY BaseFacts
<1>4. ASSUME NEW k \in 1 .. Len(orders') PROVE orders'[k].state = "seen" <=> Confirmed(orders'[k], history)
  <2>1. k \in 1 .. Len(pruned) \/ k \in Len(pruned) + 1 .. Len(orders')
    BY <1>1 DEF Owed
  <2>2. CASE k \in 1 .. Len(pruned)
    BY <1>1, <1>2, <2>2 DEF SeenIn, Owed
  <2>3. CASE k \in Len(pruned) + 1 .. Len(orders')
    <3>1. PICK n \in DueNames : orders'[k] = [note |-> LifecycleRelease(n), origin |-> height,
                                              state |-> "authorized", expiry |-> 0]
        BY <1>1, <2>3 DEF Owed
    <3> DEFINE o == orders'[k]
    <3>2. o.note = LifecycleRelease(n) /\ o.origin = height /\ o.state = "authorized"
        BY <3>1
    <3> HIDE DEF o
    <3>3. /\ o.note \in SoundNotes /\ o.note.name \in DOMAIN records
          /\ o.note.prev = records[o.note.name].commitment
        BY <1>3, <3>2, LifecycleReleaseSound
    <3>4. ~Confirmed(o, history)
        BY <3>2, <3>3, NewTransitionUnconfirmed
    <3> QED BY <3>2, <3>4 DEF o
  <2> QED BY <2>1, <2>2, <2>3
<1> QED BY <1>4 DEF SeenIn

LEMMA RespondSeen ==
    ASSUME BaseInv, TxInv, SeenInv, NEW c \in armed, Respond(c)
    PROVE  SeenIn(orders', history)
<1>0. /\ Inv /\ height \in Nat /\ orders \in Seq(SoundOrders) /\ c \in Challenge
    BY BaseFacts DEF BaseInv, QueueOK
<1>1. SeenIn(orders, history)
    BY DEF Respond, SeenInv
<1>2. CASE UNCHANGED orders
    BY <1>1, <1>2
<1>3. ASSUME NEW e \in Extensions(records[c.name].expires_at), Authorizes(c),
             orders' = Admit(orders, height, TransitionNote(c, e))
      PROVE  SeenIn(orders', history)
  <2> DEFINE note == TransitionNote(c, e)
             o == [note |-> note, origin |-> height, state |-> "authorized", expiry |-> 0]
  <2>1. c.name \in DOMAIN records
    BY <1>3 DEF Authorizes
  <2>2. note \in SoundNotes /\ note.name = c.name /\ note.prev = records[c.name].commitment
    BY <1>0, <2>1, TransitionNoteSound
  <2> HIDE DEF note
  <2>3. o.note = note /\ o.origin = height
    OBVIOUS
  <2> HIDE DEF o
  <2>4. ~Confirmed(o, history)
    BY <2>1, <2>2, <2>3, NewTransitionUnconfirmed
  <2> QED BY <1>0, <1>1, <1>3, <2>2, <2>4, AdmitSeen DEF o, note
<1> QED BY <1>2, <1>3 DEF Respond

LEMMA DecideClaimSeen ==
    ASSUME BaseInv, TxInv, SeenInv, NEW n \in Names, NEW ua \in Addrs, NEW e \in ExpiryValues,
           NEW p \in 1 .. height, DecideClaim(n, ua, e, p)
    PROVE  SeenIn(orders', history)
<1> DEFINE note == ClaimNote(n, ua, e)
           o == [note |-> note, origin |-> p, state |-> "authorized", expiry |-> 0]
<1>0. /\ Inv /\ height \in Nat /\ orders \in Seq(SoundOrders)
    BY BaseFacts
<1>1. SeenIn(orders, history) /\ n \notin DOMAIN records /\ p \in ruled + 1 .. height
      /\ orders' = Admit(orders, p, note)
    BY DEF DecideClaim, SeenInv, IsAvailable
<1>2. note \in SoundNotes /\ note.name = n /\ note.action = "claim" /\ p \in Nat
    BY <1>0, ClaimNoteSound
<1> HIDE DEF note
<1>3. o.note = note /\ o.origin = p
    OBVIOUS
<1> HIDE DEF o
<1>4. ~Confirmed(o, history)
    BY <1>1, <1>2, <1>3, NewClaimUnconfirmed
<1> QED BY <1>0, <1>1, <1>2, <1>4, AdmitSeen DEF o

LEMMA MintNextSeenInv ==
    ASSUME BaseInv, BaseInv', TxInv, SeenInv, [MintNext]_allVars
    PROVE  SeenInv'
<1>0. /\ orders \in Seq(SoundOrders) /\ AuthInv
    BY BaseFacts
<1>1. ASSUME SeenIn(orders', history), history' = history PROVE SeenInv'
    BY <1>1 DEF SeenInv, SeenIn
<1>2. ASSUME orders' = orders, phase # "block", history' = history PROVE SeenInv'
    BY <1>1, <1>2 DEF SeenInv
<1>3. CASE SealBlock
  <2>1. SeenIn(orders', history) /\ history' = history
    BY <1>0, <1>3, ReconciledSeen DEF SealBlock, SeenInv, vars, registryVars
  <2> QED BY <1>1, <2>1
<1>4. ASSUME NEW t \in 0 .. MaxTime, OpenBlock(t) PROVE SeenInv'
  <2>1. orders' = orders /\ history' = history /\ phase # "block"
    BY <1>4 DEF OpenBlock, NewBlock, queueVars, registryVars
  <2> QED BY <1>2, <2>1
<1>5. ASSUME NEW tx \in txs, MineTx(tx) PROVE SeenInv'
  <2>1. orders' = orders /\ phase = "block" /\ phase' = "block"
    BY <1>5 DEF MineTx, mintVars, queueVars
  <2>2. AuthInv'
    BY BaseFactsNext
  <2>3. ASSUME NEW k \in 1 .. Len(orders), orders[k].state = "seen"
        PROVE  Confirmed(orders[k], history')
    <3>1. orders[k].note.name \in Names
        BY OrderTyped
    <3>2. Prefix(history[orders[k].note.name], history'[orders[k].note.name])
        BY <1>5, <3>1, MineGrows
    <3> QED BY <1>0, <2>2, <2>3, <3>1, <3>2, ConfirmedGrows DEF SeenInv
  <2> QED BY <2>1, <2>3 DEF SeenInv
<1>6. ASSUME NEW c \in armed, Respond(c) PROVE SeenInv'
  <2>1. history' = history
    BY <1>6 DEF Respond, vars, registryVars
  <2> QED BY <1>1, <1>6, <2>1, RespondSeen
<1>7. CASE StartRules \/ SignSkip
  <2>1. orders' = orders /\ history' = history /\ phase # "block"
    BY <1>7 DEF StartRules, SignSkip, queueVars, vars, registryVars
  <2> QED BY <1>2, <2>1
<1>8. ASSUME NEW n \in Names, NEW ua \in Addrs, NEW e \in ExpiryValues, NEW p \in 1 .. height,
             DecideClaim(n, ua, e, p)
      PROVE  SeenInv'
  <2>1. history' = history
    BY <1>8 DEF DecideClaim, vars, registryVars
  <2> QED BY <1>1, <1>8, <2>1, DecideClaimSeen
<1>9. ASSUME NEW n, NEW action, NEW ua, RelayChallenge(n, action, ua) PROVE SeenInv'
  <2>1. orders' = orders /\ history' = history /\ phase # "block"
    BY <1>9 DEF RelayChallenge, vars, registryVars
  <2> QED BY <1>2, <2>1
<1>10. CASE EndRules
  <2>1. history' = history
    BY <1>10 DEF EndRules, vars, registryVars
  <2> QED BY <1>1, <1>10, <2>1, EndRulesSeen
<1>11. CASE SignDrop
  <2>1. phase = "sign" /\ todo # << >> /\ history' = history
    BY <1>11 DEF SignDrop, vars, registryVars
  <2>2. orders' = DropNote(orders, Head(todo).name) /\ Unresolved(orders, Head(todo).name) # {}
    BY <1>11, <2>1, SignDropQueueOK, HeadFacts
  <2>3. Thinned(orders', orders)
    BY <1>0, <2>2, DropNoteIs
  <2>4. SeenIn(orders', history)
    BY <2>1, <2>3, ThinnedSeen DEF SeenInv
  <2> QED BY <1>1, <2>1, <2>4
<1>12. ASSUME NEW nf \in Nullifiers, SignSend(nf) PROVE SeenInv'
  <2>1. phase = "sign" /\ todo # << >> /\ history' = history
    BY <1>12 DEF SignSend, vars, registryVars
  <2> DEFINE e == TxExpiry(height + 1)
  <2>2. e \in Nat
    <3>1. height + 1 \in Nat
        BY BaseFacts
    <3> QED BY <3>1, TxExpiryNat
  <2>3. orders' = MarkSent(orders, Head(todo).name, e) /\ AuthorizedOf(orders, Head(todo).name) # {}
    BY <1>12, <2>1, SignSendQueueOK, HeadFacts
  <2> HIDE DEF e
  <2>4. Thinned(orders', orders)
    BY <1>0, <2>2, <2>3, MarkSentIs
  <2>5. SeenIn(orders', history)
    BY <2>1, <2>4, ThinnedSeen DEF SeenInv
  <2> QED BY <1>1, <2>1, <2>5
<1>13. ASSUME NEW h \in 1 .. height, Rewind(h) PROVE SeenInv'
  <2> DEFINE q == RewindTo(orders, h)
  <2>1. orders' = ReconcileSeen(q, history', records')
    BY <1>13 DEF Rewind
  <2>2. q \in Seq(SoundOrders) /\ \A k \in 1 .. Len(q) : q[k].state # "seen"
    BY <1>0, RewindToIs
  <2> HIDE DEF q
  <2>3. SeenIn(orders', history')
    BY <2>1, <2>2, ReconciledSeen
  <2> QED BY <2>3 DEF SeenInv, SeenIn
<1>14. CASE Restart
  <2>1. orders' = << >>
    BY <1>14 DEF Restart
  <2>2. 1 .. Len(orders') = {}
    BY <2>1
  <2> QED BY <2>2 DEF SeenInv, SeenIn
<1>15. CASE UNCHANGED allVars
    BY <1>15 DEF allVars, vars, registryVars, mintVars, queueVars, SeenInv, SeenIn
<1> QED BY <1>3, <1>4, <1>5, <1>6, <1>7, <1>8, <1>9, <1>10, <1>11, <1>12, <1>13, <1>14, <1>15 DEF MintNext

(* The loop never panics on its queue, and outside a half-applied block an *)
(* order is Seen exactly when the chain confirms it, through every reorg   *)
(* and restart (NameNoteQueue::reconcile_seen, rewind_to, and the two      *)
(* `expect`s of drop_note and mark_sent).                                  *)
THEOREM OrdersSeenAreConfirmed == MintSpec => []SeenConfirmed
<1>1. MintInit => BaseInv /\ TxInv /\ SeenInv
  <2>1. MintInit => SeenInv
    BY DEF MintInit, SeenInv, SeenIn
  <2> QED BY <2>1, MintInitBaseInv, MintInitTxInv
<1>2. BaseInv /\ TxInv /\ SeenInv /\ [MintNext]_allVars => BaseInv' /\ TxInv' /\ SeenInv'
    BY MintNextBaseInv, MintNextTxInv, MintNextSeenInv
<1>3. BaseInv /\ SeenInv => SeenConfirmed
  <2> SUFFICES ASSUME BaseInv, SeenInv PROVE SeenConfirmed
    OBVIOUS
  <2>1. DOMAIN orders = 1 .. Len(orders)
    BY BaseFacts, LenProperties
  <2> QED BY <2>1, QueueTyped DEF SeenConfirmed, SeenInv, SeenIn
<1> QED BY <1>1, <1>2, <1>3, PTL DEF MintSpec

-----------------------------------------------------------------------------
(***************************************************************************)
(* While the chain only grows: unresolved orders have names of their own,  *)
(* and so do the notes the signing loop has still to visit; each of these  *)
(* is the note of an authorized order.                                     *)
(***************************************************************************)
Listed(q, s) ==
    /\ \A k, l \in 1 .. Len(s) : s[k].name = s[l].name => k = l
    /\ \A k \in 1 .. Len(s) :
         \E i \in 1 .. Len(q) : q[i].state = "authorized" /\ q[i].note = s[k]

SingleInv == reorgs = 0 => Single(orders) /\ Listed(orders, todo)

LEMMA ListedNil == ASSUME NEW q PROVE Listed(q, << >>)
<1>1. 1 .. Len(<< >>) = {}
    OBVIOUS
<1> QED BY <1>1 DEF Listed

LEMMA NotesListed ==
    ASSUME NEW q \in Seq(SoundOrders), Single(q)
    PROVE  Listed(q, AuthorizedNotes(q))
<1> DEFINE s == AuthorizedNotes(q)
<1>1. PICK f : IsNotes(f, q, s)
    BY AuthorizedNotesIs
<1> HIDE DEF s
<1>2. \A k \in 1 .. Len(s) : f[k] \in 1 .. Len(q) /\ q[f[k]].state = "authorized" /\ q[f[k]].note = s[k]
    BY <1>1 DEF IsNotes
<1>3. ASSUME NEW k \in 1 .. Len(s), NEW l \in 1 .. Len(s), s[k].name = s[l].name PROVE k = l
  <2>1. f[k] = f[l]
    BY <1>2, <1>3 DEF Single
  <2> QED BY <1>1, <2>1 DEF IsNotes
<1> QED BY <1>2, <1>3 DEF Listed, s

(* What is visited next is the note of the one unresolved order of its     *)
(* name, and the notes behind it are of other names.                       *)
LEMMA HeadListed ==
    ASSUME NEW q \in Seq(SoundOrders), Single(q), NEW s \in Seq(SoundNotes), s # << >>, Listed(q, s)
    PROVE  /\ \A i \in 1 .. Len(q) :
                q[i].state # "seen" /\ q[i].note.name = Head(s).name => q[i].note = Head(s)
           /\ \A k, l \in 1 .. Len(Tail(s)) : Tail(s)[k].name = Tail(s)[l].name => k = l
           /\ \A k \in 1 .. Len(Tail(s)) :
                /\ Tail(s)[k].name # Head(s).name
                /\ \E i \in 1 .. Len(q) : q[i].state = "authorized" /\ q[i].note = Tail(s)[k]
<1> DEFINE t == Tail(s)
<1>1. /\ Head(s) = s[1] /\ 1 \in 1 .. Len(s) /\ Len(s) \in Nat
      /\ Len(t) = Len(s) - 1 /\ \A k \in 1 .. Len(s) - 1 : t[k] = s[k + 1]
    BY TailWithin, LenProperties
<1> HIDE DEF t
<1>2. \A k \in 1 .. Len(t) : k + 1 \in 1 .. Len(s) /\ k + 1 # 1 /\ t[k] = s[k + 1]
    BY <1>1
<1>3. PICK j \in 1 .. Len(q) : q[j].state = "authorized" /\ q[j].note = s[1]
    BY <1>1 DEF Listed
<1>4. ASSUME NEW i \in 1 .. Len(q), q[i].state # "seen", q[i].note.name = s[1].name
      PROVE  q[i].note = s[1]
  <2>1. i = j
    BY <1>3, <1>4 DEF Single
  <2> QED BY <1>3, <2>1
<1>7. /\ \A x, y \in 1 .. Len(s) : s[x].name = s[y].name => x = y
      /\ \A x \in 1 .. Len(s) :
           \E i \in 1 .. Len(q) : q[i].state = "authorized" /\ q[i].note = s[x]
    BY DEF Listed
<1>5. ASSUME NEW k \in 1 .. Len(t), NEW l \in 1 .. Len(t), t[k].name = t[l].name PROVE k = l
  <2> DEFINE x == k + 1
             y == l + 1
  <2>1. x \in 1 .. Len(s) /\ y \in 1 .. Len(s) /\ s[x].name = s[y].name /\ k = x - 1 /\ l = y - 1
    BY <1>2, <1>5
  <2> HIDE DEF x, y
  <2>2. x = y
    BY <1>7, <2>1
  <2> QED BY <2>1, <2>2
<1>6. ASSUME NEW k \in 1 .. Len(t)
      PROVE  /\ t[k].name # s[1].name
             /\ \E i \in 1 .. Len(q) : q[i].state = "authorized" /\ q[i].note = t[k]
  <2> DEFINE x == k + 1
  <2>1. x \in 1 .. Len(s) /\ x # 1 /\ t[k] = s[x]
    BY <1>2
  <2> HIDE DEF x
  <2> QED BY <1>1, <1>7, <2>1
<1> QED BY <1>1, <1>4, <1>5, <1>6 DEF t

LEMMA ReconciledSingle ==
    ASSUME NEW q \in Seq(SoundOrders), NEW r, NEW hist, NEW recs, NEW from,
           IsReconciled(from, r, q, hist, recs), Single(q)
    PROVE  Single(r)
<1>1. ASSUME NEW k \in 1 .. Len(r), r[k].state # "seen"
      PROVE  from[k] \in 1 .. Len(q) /\ q[from[k]].state # "seen" /\ r[k].note = q[from[k]].note
  <2>1. from[k] \in 1 .. Len(q) /\ r[k] = Observed(q[from[k]], hist)
    BY DEF IsReconciled
  <2>2. q[from[k]] \in SoundOrders
    BY <2>1, ElementOfSeq
  <2> QED BY <1>1, <2>1, <2>2, ObservedIs
<1>2. ASSUME NEW k \in 1 .. Len(r), NEW l \in 1 .. Len(r), r[k].state # "seen", r[l].state # "seen",
             r[k].note.name = r[l].note.name
      PROVE  k = l
  <2>1. from[k] = from[l]
    BY <1>1, <1>2 DEF Single
  <2> QED BY <2>1 DEF IsReconciled
<1> QED BY <1>2 DEF Single

(* What reconcile_seen keeps: an order that is not kept lost its name. *)
LEMMA ReconciledKeeps ==
    ASSUME NEW q \in Seq(SoundOrders), NEW r, NEW hist, NEW recs, NEW from,
           IsReconciled(from, r, q, hist, recs), NEW i \in 1 .. Len(q)
    PROVE  \/ \E k \in 1 .. Len(r) : r[k].note = q[i].note /\ r[k].origin = q[i].origin
           \/ ~Owns(q[i].note, recs)
<1> SUFFICES ASSUME Owns(q[i].note, recs)
             PROVE  \E k \in 1 .. Len(r) : r[k].note = q[i].note /\ r[k].origin = q[i].origin
    OBVIOUS
<1>1. PICK k \in 1 .. Len(r) : from[k] = i
    BY DEF IsReconciled
<1>2. r[k] = Observed(q[i], hist) /\ q[i] \in SoundOrders
    BY <1>1, ElementOfSeq DEF IsReconciled
<1> QED BY <1>2, ObservedIs

(* drop_note on the head of the list takes off the very order it visits. *)
LEMMA SignDropOrders ==
    ASSUME BaseInv, SignDrop, Single(orders), Listed(orders, todo)
    PROVE  /\ Thinned(orders', orders) /\ Listed(orders', todo')
           /\ \A i \in 1 .. Len(orders) :
                \/ \E k \in 1 .. Len(orders') : orders'[k] = orders[i]
                \/ orders[i].note = Head(todo)
<1> DEFINE n == Head(todo).name
           i == FirstOf(Unresolved(orders, n))
           r == DropNote(orders, n)
           t == Tail(todo)
<1>1. phase = "sign" /\ todo # << >>
    BY DEF SignDrop
<1>2. orders' = r /\ todo' = t
    BY SignDropQueueOK
<1>3. orders \in Seq(SoundOrders) /\ todo \in Seq(SoundNotes) /\ Unresolved(orders, n) # {}
    BY <1>1, BaseFacts, HeadFacts
<1>4. /\ i \in 1 .. Len(orders) /\ orders[i].state # "seen" /\ orders[i].note.name = n
      /\ Thinned(r, orders)
      /\ \E from : IsOrigin(from, orders, (1 .. Len(orders)) \ {i}, r)
    BY <1>3, DropNoteIs
<1>5. PICK from : IsOrigin(from, orders, (1 .. Len(orders)) \ {i}, r)
    BY <1>4
<1>6. /\ orders[i].note = Head(todo)
      /\ \A k, l \in 1 .. Len(t) : t[k].name = t[l].name => k = l
      /\ \A k \in 1 .. Len(t) :
           /\ t[k].name # n
           /\ \E j \in 1 .. Len(orders) : orders[j].state = "authorized" /\ orders[j].note = t[k]
    BY <1>1, <1>3, <1>4, HeadListed
<1> HIDE DEF i, r, t
<1>7. ASSUME NEW j \in 1 .. Len(orders), j # i PROVE \E k \in 1 .. Len(r) : r[k] = orders[j]
  <2>1. PICK k \in 1 .. Len(r) : from[k] = j
    BY <1>5, <1>7 DEF IsOrigin
  <2> QED BY <1>5, <2>1 DEF IsOrigin
<1>8. Listed(r, t)
  <2>1. ASSUME NEW k \in 1 .. Len(t)
        PROVE  \E j \in 1 .. Len(r) : r[j].state = "authorized" /\ r[j].note = t[k]
    <3>1. PICK j \in 1 .. Len(orders) : orders[j].state = "authorized" /\ orders[j].note = t[k]
        BY <1>6
    <3>2. j # i
        BY <1>4, <1>6, <3>1
    <3> QED BY <1>7, <3>1, <3>2
  <2> QED BY <1>6, <2>1 DEF Listed
<1> QED BY <1>2, <1>4, <1>6, <1>7, <1>8

LEMMA SignSendOrders ==
    ASSUME BaseInv, NEW nf \in Nullifiers, SignSend(nf)
    PROVE  /\ Len(orders') = Len(orders) /\ Thinned(orders', orders)
           /\ \A k \in 1 .. Len(orders) :
                /\ Same(orders'[k], orders[k])
                /\ orders[k].note.name # Head(todo).name => orders'[k] = orders[k]
           /\ todo' = Tail(todo) /\ phase = "sign" /\ todo # << >> /\ phase' = phase
<1> DEFINE n == Head(todo).name
           e == TxExpiry(height + 1)
           i == FirstOf(AuthorizedOf(orders, n))
           r == MarkSent(orders, n, e)
<1>1. phase = "sign" /\ todo # << >>
    BY DEF SignSend
<1>2. e \in Nat
  <2>1. height + 1 \in Nat
    BY BaseFacts
  <2> QED BY <2>1, TxExpiryNat
<1>3. orders' = r /\ todo' = Tail(todo) /\ phase' = phase
    BY SignSendQueueOK
<1> HIDE DEF e
<1>4. orders \in Seq(SoundOrders) /\ AuthorizedOf(orders, n) # {}
    BY <1>1, BaseFacts, HeadFacts
<1>5. /\ Len(r) = Len(orders) /\ Thinned(r, orders) /\ orders[i].note.name = n
      /\ \A k \in 1 .. Len(orders) : k # i => r[k] = orders[k]
      /\ \A k \in 1 .. Len(orders) : Same(r[k], orders[k])
    BY <1>2, <1>4, MarkSentIs
<1> HIDE DEF i, r
<1> QED BY <1>1, <1>3, <1>5

LEMMA AdmitKeeps ==
    ASSUME NEW q \in Seq(SoundOrders), NEW origin \in Nat, NEW note \in SoundNotes,
           NEW i \in 1 .. Len(q)
    PROVE  LET r == Admit(q, origin, note) IN i \in 1 .. Len(r) /\ r[i] = q[i]
<1> DEFINE r == Admit(q, origin, note)
<1>1. /\ Len(q) \in Nat /\ Len(r) \in Len(q) .. Len(q) + 1
      /\ \A k \in 1 .. Len(q) : r[k] = q[k]
    BY AdmitIs
<1> HIDE DEF r
<1>2. i \in 1 .. Len(r) /\ r[i] = q[i]
    BY <1>1
<1> QED BY <1>2 DEF r

(* An answered challenge and a decided claim add at most one order. *)
LEMMA RespondOrders ==
    ASSUME BaseInv, NEW c \in armed, Respond(c)
    PROVE  /\ Single(orders) => Single(orders')
           /\ \A i \in 1 .. Len(orders) : i \in 1 .. Len(orders') /\ orders'[i] = orders[i]
<1>0. /\ Inv /\ height \in Nat /\ orders \in Seq(SoundOrders) /\ c \in Challenge
    BY BaseFacts DEF BaseInv, QueueOK
<1>1. CASE UNCHANGED orders
    BY <1>1
<1>2. ASSUME NEW e \in Extensions(records[c.name].expires_at), Authorizes(c),
             orders' = Admit(orders, height, TransitionNote(c, e))
      PROVE  /\ Single(orders) => Single(orders')
             /\ \A i \in 1 .. Len(orders) : i \in 1 .. Len(orders') /\ orders'[i] = orders[i]
  <2> DEFINE note == TransitionNote(c, e)
  <2>1. note \in SoundNotes
    BY <1>0, <1>2, TransitionNoteSound DEF Authorizes
  <2> HIDE DEF note
  <2>2. orders' = Admit(orders, height, note)
    BY <1>2 DEF note
  <2>3. Single(orders) => Single(orders')
    BY <1>0, <2>1, <2>2, AdmitIs
  <2> QED BY <1>0, <2>1, <2>2, <2>3, AdmitKeeps
<1> QED BY <1>1, <1>2 DEF Respond

LEMMA DecideClaimOrders ==
    ASSUME BaseInv, NEW n \in Names, NEW ua \in Addrs, NEW e \in ExpiryValues,
           NEW p \in 1 .. height, DecideClaim(n, ua, e, p)
    PROVE  /\ Single(orders) => Single(orders')
           /\ \A i \in 1 .. Len(orders) : i \in 1 .. Len(orders') /\ orders'[i] = orders[i]
<1> DEFINE note == ClaimNote(n, ua, e)
<1>0. height \in Nat /\ orders \in Seq(SoundOrders)
    BY BaseFacts
<1>1. note \in SoundNotes /\ p \in Nat
    BY <1>0, ClaimNoteSound
<1>2. orders' = Admit(orders, p, note)
    BY DEF DecideClaim
<1> HIDE DEF note
<1>3. Single(orders) => Single(orders')
    BY <1>0, <1>1, <1>2, AdmitIs
<1> QED BY <1>0, <1>1, <1>2, <1>3, AdmitKeeps

LEMMA MintNextSingleInv ==
    ASSUME BaseInv, BaseInv', SingleInv, [MintNext]_allVars
    PROVE  SingleInv'
<1> SUFFICES ASSUME reorgs' = 0 PROVE Single(orders') /\ Listed(orders', todo')
    BY DEF SingleInv
<1>0. /\ orders \in Seq(SoundOrders) /\ todo \in Seq(SoundNotes)
      /\ phase # "sign" => todo = << >>
      /\ reorgs \in Nat
    BY BaseFacts DEF BaseInv, QueueOK
<1>1. ASSUME UNCHANGED <<orders, todo, reorgs>> PROVE Single(orders') /\ Listed(orders', todo')
    BY <1>1 DEF SingleInv
<1>2. ASSUME reorgs' = reorgs, todo = << >>, todo' = todo, Single(orders) => Single(orders')
      PROVE  Single(orders') /\ Listed(orders', todo')
    BY <1>2, ListedNil DEF SingleInv
<1>3. ASSUME NEW t, OpenBlock(t) PROVE Single(orders') /\ Listed(orders', todo')
    BY <1>1, <1>3 DEF OpenBlock, queueVars, boundVars
<1>4. ASSUME NEW tx \in txs, MineTx(tx) PROVE Single(orders') /\ Listed(orders', todo')
    BY <1>1, <1>4 DEF MineTx, mintVars, queueVars, boundVars
<1>5. CASE SealBlock
  <2>1. /\ orders' = ReconcileSeen(orders, history, records) /\ phase = "block" /\ todo' = todo
        /\ reorgs' = reorgs
    BY <1>5 DEF SealBlock, boundVars
  <2>2. PICK from : IsReconciled(from, orders', orders, history, records)
    BY <1>0, <2>1, ReconcileSeenIs
  <2>3. Single(orders) => Single(orders')
    BY <1>0, <2>2, ReconciledSingle
  <2> QED BY <1>0, <1>2, <2>1, <2>3
<1>6. ASSUME NEW c \in armed, Respond(c) PROVE Single(orders') /\ Listed(orders', todo')
  <2>1. phase = "arrivals" /\ todo' = todo /\ reorgs' = reorgs
    BY <1>6 DEF Respond, boundVars
  <2> QED BY <1>0, <1>2, <1>6, <2>1, RespondOrders
<1>7. CASE StartRules
    BY <1>1, <1>7 DEF StartRules, queueVars, boundVars
<1>8. ASSUME NEW n \in Names, NEW ua \in Addrs, NEW e \in ExpiryValues, NEW p \in 1 .. height,
             DecideClaim(n, ua, e, p)
      PROVE  Single(orders') /\ Listed(orders', todo')
  <2>1. phase = "rules" /\ todo' = todo /\ reorgs' = reorgs
    BY <1>8 DEF DecideClaim, boundVars
  <2> QED BY <1>0, <1>2, <1>8, <2>1, DecideClaimOrders
<1>9. ASSUME NEW n, NEW action, NEW ua, RelayChallenge(n, action, ua)
      PROVE  Single(orders') /\ Listed(orders', todo')
    BY <1>1, <1>9 DEF RelayChallenge, boundVars
<1>10. CASE EndRules
  <2> DEFINE pruned == DropDueUpdates(ExpireSent(orders, height))
  <2>1. /\ Single(orders) => Single(pruned)
        /\ Owed(orders', pruned) /\ todo' = AuthorizedNotes(orders') /\ reorgs' = reorgs
    BY <1>10, EndRulesOrders DEF boundVars
  <2> HIDE DEF pruned
  <2>2. Single(orders') /\ orders' \in Seq(SoundOrders)
    BY <2>1 DEF Owed, SingleInv
  <2> QED BY <2>1, <2>2, NotesListed
<1>11. CASE SignDrop
  <2>1. reorgs' = reorgs
    BY <1>11 DEF SignDrop, boundVars
  <2>2. Single(orders) /\ Listed(orders, todo)
    BY <2>1 DEF SingleInv
  <2> QED BY <1>11, <2>2, SignDropOrders, ThinnedSingle
<1>12. CASE SignSkip
  <2>1. /\ reorgs' = reorgs /\ orders' = orders /\ todo' = Tail(todo) /\ todo # << >>
    BY <1>12 DEF SignSkip, boundVars
  <2>2. Single(orders) /\ Listed(orders, todo)
    BY <2>1 DEF SingleInv
  <2>3. Listed(orders, Tail(todo))
    BY <1>0, <2>1, <2>2, HeadListed DEF Listed
  <2> QED BY <2>1, <2>2, <2>3
<1>13. ASSUME NEW nf \in Nullifiers, SignSend(nf) PROVE Single(orders') /\ Listed(orders', todo')
  <2>1. reorgs' = reorgs
    BY <1>13 DEF SignSend, boundVars
  <2>2. Single(orders) /\ Listed(orders, todo)
    BY <2>1 DEF SingleInv
  <2>3. /\ Len(orders') = Len(orders) /\ Thinned(orders', orders)
        /\ \A k \in 1 .. Len(orders) : orders[k].note.name # Head(todo).name => orders'[k] = orders[k]
        /\ todo' = Tail(todo) /\ todo # << >>
    BY <1>13, SignSendOrders
  <2>4. Single(orders')
    BY <2>2, <2>3, ThinnedSingle
  <2> DEFINE t == Tail(todo)
  <2>5. /\ \A k, l \in 1 .. Len(t) : t[k].name = t[l].name => k = l
        /\ \A k \in 1 .. Len(t) :
             /\ t[k].name # Head(todo).name
             /\ \E i \in 1 .. Len(orders) : orders[i].state = "authorized" /\ orders[i].note = t[k]
    BY <1>0, <2>2, <2>3, HeadListed
  <2> HIDE DEF t
  <2>6. ASSUME NEW k \in 1 .. Len(t)
        PROVE  \E i \in 1 .. Len(orders') : orders'[i].state = "authorized" /\ orders'[i].note = t[k]
    <3>1. PICK i \in 1 .. Len(orders) : orders[i].state = "authorized" /\ orders[i].note = t[k]
        BY <2>5
    <3>2. orders'[i] = orders[i] /\ i \in 1 .. Len(orders')
        BY <2>3, <2>5, <3>1
    <3> QED BY <3>1, <3>2
  <2>7. Listed(orders', t)
    BY <2>5, <2>6 DEF Listed
  <2> QED BY <2>3, <2>4, <2>7 DEF t
<1>14. ASSUME NEW h \in 1 .. height, Rewind(h) PROVE FALSE
    BY <1>0, <1>14 DEF Rewind
<1>15. CASE Restart
  <2>1. orders' = << >> /\ todo' = << >>
    BY <1>15 DEF Restart
  <2>2. 1 .. Len(<< >>) = {}
    OBVIOUS
  <2> QED BY <2>1, <2>2, ListedNil DEF Single
<1>16. CASE UNCHANGED allVars
    BY <1>1, <1>16 DEF allVars, mintVars, queueVars, boundVars
<1> QED BY <1>3, <1>4, <1>5, <1>6, <1>7, <1>8, <1>9, <1>10, <1>11, <1>12, <1>13, <1>14, <1>15, <1>16
    DEF MintNext

LEMMA MintInitSingleInv == MintInit => SingleInv
<1> SUFFICES ASSUME MintInit PROVE SingleInv
  OBVIOUS
<1>1. orders = << >> /\ todo = << >>
    BY DEF MintInit
<1>2. 1 .. Len(<< >>) = {}
    OBVIOUS
<1> QED BY <1>1, <1>2, ListedNil DEF SingleInv, Single

(* Until the first reorg a name has at most one unresolved order, the      *)
(* guarantee of `admit` that drop_note and mark_sent rest on, because they *)
(* resolve by name (NameNoteQueue).                                        *)
THEOREM UnresolvedOrdersAreUnique == MintSpec => []OneUnresolved
<1>1. MintInit => BaseInv /\ SingleInv
    BY MintInitBaseInv, MintInitSingleInv
<1>2. BaseInv /\ SingleInv /\ [MintNext]_allVars => BaseInv' /\ SingleInv'
    BY MintNextBaseInv, MintNextSingleInv
<1>3. BaseInv /\ SingleInv => OneUnresolved
  <2> SUFFICES ASSUME BaseInv, SingleInv, reorgs = 0, NEW n \in Names
               PROVE  Cardinality(Unresolved(orders, n)) <= 1
    BY DEF OneUnresolved
  <2> DEFINE T == Unresolved(orders, n)
  <2>1. orders \in Seq(SoundOrders) /\ Single(orders)
    BY BaseFacts DEF SingleInv
  <2>2. \A i \in T : i \in 1 .. Len(orders) /\ orders[i].state # "seen" /\ orders[i].note.name = n
    BY <2>1, UnresolvedIs
  <2>3. \A i, j \in T : i = j
    BY <2>1, <2>2 DEF Single
  <2> HIDE DEF T
  <2>4. CASE T = {}
    <3>1. Cardinality(T) = 0
        BY <2>4, FS_EmptySet
    <3> QED BY <3>1 DEF T
  <2>5. CASE T # {}
    <3>1. PICK i : i \in T
        BY <2>5
    <3>2. T = {i}
        BY <2>3, <3>1
    <3>3. Cardinality(T) = 1
        BY <3>2, FS_Singleton
    <3> QED BY <3>3 DEF T
  <2> QED BY <2>4, <2>5
<1> QED BY <1>1, <1>2, <1>3, PTL DEF MintSpec

-----------------------------------------------------------------------------
(***************************************************************************)
(* A decision is never lost                                                *)
(***************************************************************************)
Lost(o) == Dead(o.note) \/ (o.note.action = "update" /\ Due(o.note.name))

Still(o, r) == \E j \in 1 .. Len(r) : r[j].note = o.note /\ r[j].origin = o.origin

LEMMA MintNextKeepsOrders ==
    ASSUME BaseInv, BaseInv', SingleInv, MintNext, reorgs' = 0, restarts' = restarts,
           NEW i \in 1 .. Len(orders), orders[i].state # "seen"
    PROVE  Still(orders[i], orders') \/ Lost(orders[i])
<1>0. orders \in Seq(SoundOrders) /\ todo \in Seq(SoundNotes) /\ reorgs \in Nat /\ restarts \in Nat
    BY BaseFacts DEF BaseInv, QueueOK
<1>1. ASSUME orders' = orders PROVE Still(orders[i], orders')
    BY <1>1 DEF Still
<1>2. ASSUME \A k \in 1 .. Len(orders) : k \in 1 .. Len(orders') /\ orders'[k] = orders[k]
      PROVE  Still(orders[i], orders')
    BY <1>2 DEF Still
<1>3. ASSUME NEW t, OpenBlock(t) PROVE Still(orders[i], orders')
    BY <1>1, <1>3 DEF OpenBlock, queueVars
<1>4. ASSUME NEW tx \in txs, MineTx(tx) PROVE Still(orders[i], orders')
    BY <1>1, <1>4 DEF MineTx, mintVars, queueVars
<1>5. ASSUME SealBlock PROVE Still(orders[i], orders') \/ Lost(orders[i])
  <2>1. orders' = ReconcileSeen(orders, history, records)
    BY <1>5 DEF SealBlock
  <2>2. PICK from : IsReconciled(from, orders', orders, history, records)
    BY <1>0, <2>1, ReconcileSeenIs
  <2>3. Still(orders[i], orders') \/ ~Owns(orders[i].note, records)
    BY <1>0, <2>2, ReconciledKeeps DEF Still
  <2>4. ~Owns(orders[i].note, records) => Dead(orders[i].note)
    BY DEF Owns, Dead
  <2> QED BY <2>3, <2>4 DEF Lost
<1>6. ASSUME NEW c \in armed, Respond(c) PROVE Still(orders[i], orders')
    BY <1>2, <1>6, RespondOrders
<1>7. ASSUME StartRules \/ SignSkip PROVE Still(orders[i], orders')
    BY <1>1, <1>7 DEF StartRules, SignSkip, queueVars
<1>8. ASSUME NEW n \in Names, NEW ua \in Addrs, NEW e \in ExpiryValues, NEW p \in 1 .. height,
             DecideClaim(n, ua, e, p)
      PROVE  Still(orders[i], orders')
    BY <1>2, <1>8, DecideClaimOrders
<1>9. ASSUME NEW n, NEW action, NEW ua, RelayChallenge(n, action, ua)
      PROVE  Still(orders[i], orders')
    BY <1>1, <1>9 DEF RelayChallenge
<1>10. ASSUME EndRules PROVE Still(orders[i], orders') \/ Lost(orders[i])
  <2> DEFINE expired == ExpireSent(orders, height)
             pruned == DropDueUpdates(expired)
  <2>1. /\ Len(expired) = Len(orders) /\ Same(expired[i], orders[i])
        /\ Single(orders) => Spared(pruned, expired)
        /\ Owed(orders', pruned) /\ reorgs' = reorgs
    BY <1>10, EndRulesOrders DEF boundVars
  <2> HIDE DEF expired, pruned
  <2>2. /\ expired[i].note = orders[i].note /\ expired[i].origin = orders[i].origin
        /\ expired[i].state # "seen" /\ i \in 1 .. Len(expired)
    BY <2>1 DEF Same
  <2>3. Spared(pruned, expired)
    BY <2>1 DEF SingleInv
  <2>4. CASE Holds(pruned, expired[i])
    <3>1. PICK k \in 1 .. Len(pruned) : pruned[k].note = expired[i].note /\ pruned[k].origin = expired[i].origin
        BY <2>4 DEF Holds
    <3>2. k \in 1 .. Len(orders') /\ orders'[k] = pruned[k]
        BY <2>1 DEF Owed
    <3> QED BY <2>2, <3>1, <3>2 DEF Still
  <2>5. CASE expired[i].note.action = "update" /\ Due(expired[i].note.name)
    BY <2>2, <2>5 DEF Lost
  <2> QED BY <2>2, <2>3, <2>4, <2>5 DEF Spared
<1>11. ASSUME SignDrop PROVE Still(orders[i], orders') \/ Lost(orders[i])
  <2>1. reorgs' = reorgs /\ Dead(Head(todo))
    BY <1>11 DEF SignDrop, boundVars
  <2>2. Single(orders) /\ Listed(orders, todo)
    BY <2>1 DEF SingleInv
  <2>3. \/ \E k \in 1 .. Len(orders') : orders'[k] = orders[i]
        \/ orders[i].note = Head(todo)
    BY <1>11, <2>2, SignDropOrders
  <2> QED BY <2>1, <2>3 DEF Still, Lost
<1>12. ASSUME NEW nf \in Nullifiers, SignSend(nf) PROVE Still(orders[i], orders')
  <2>1. Len(orders') = Len(orders) /\ Same(orders'[i], orders[i])
    BY <1>12, SignSendOrders
  <2> QED BY <2>1 DEF Still, Same
<1>13. ASSUME NEW h \in 1 .. height, Rewind(h) PROVE FALSE
    BY <1>0, <1>13 DEF Rewind
<1>14. ASSUME Restart PROVE FALSE
    BY <1>0, <1>14 DEF Restart
<1> QED BY <1>3, <1>4, <1>5, <1>6, <1>7, <1>8, <1>9, <1>10, <1>11, <1>12, <1>13, <1>14 DEF MintNext

(* Until the first reorg, and while the process lives, no step of the loop *)
(* loses an unresolved order whose name has not moved on, unless it is an  *)
(* update of a name that is due for release (drop_note, reconcile_seen).   *)
THEOREM DecisionsAreKept == MintSpec => OrderKept
<1>1. MintInit => BaseInv /\ SingleInv
    BY MintInitBaseInv, MintInitSingleInv
<1>2. BaseInv /\ SingleInv /\ [MintNext]_allVars => BaseInv' /\ SingleInv'
    BY MintNextBaseInv, MintNextSingleInv
<1>3. BaseInv /\ SingleInv /\ BaseInv' /\ SingleInv' /\ [MintNext]_allVars =>
      [reorgs' = 0 /\ restarts' = restarts => \A i \in DOMAIN orders :
         LET o == orders[i] IN
         \/ o.state = "seen"
         \/ \E j \in DOMAIN orders' :
              orders'[j].note = o.note /\ orders'[j].origin = o.origin
         \/ Dead(o.note)
         \/ o.note.action = "update" /\ Due(o.note.name)]_allVars
  <2> SUFFICES ASSUME BaseInv, SingleInv, BaseInv', MintNext, reorgs' = 0, restarts' = restarts,
                      NEW i \in DOMAIN orders
               PROVE  \/ orders[i].state = "seen"
                      \/ \E j \in DOMAIN orders' :
                           orders'[j].note = orders[i].note /\ orders'[j].origin = orders[i].origin
                      \/ Dead(orders[i].note)
                      \/ orders[i].note.action = "update" /\ Due(orders[i].note.name)
    OBVIOUS
  <2>1. DOMAIN orders = 1 .. Len(orders) /\ DOMAIN orders' = 1 .. Len(orders')
    BY BaseFacts, BaseFactsNext, LenProperties
  <2>2. orders[i].state # "seen" => Still(orders[i], orders') \/ Lost(orders[i])
    BY <2>1, MintNextKeepsOrders
  <2> QED BY <2>1, <2>2 DEF Still, Lost
<1> QED BY <1>1, <1>2, <1>3, PTL DEF MintSpec, OrderKept

-----------------------------------------------------------------------------
(***************************************************************************)
(* Orders own their names.  While a block is being applied this is known   *)
(* only of the names no transaction of the block moved.                    *)
(***************************************************************************)
Moved(n) ==
    history[n] # << >> /\ history[n][Len(history[n])].confirmed_height = height

Transits(o) == o.state # "seen" /\ o.note.action # "claim"

OwnsIn(q, recs) == \A k \in 1 .. Len(q) : Transits(q[k]) => Owns(q[k].note, recs)

OwnedInv ==
    /\ phase # "block" => OwnsIn(orders, records)
    /\ phase = "block" =>
         \A k \in 1 .. Len(orders) :
            Transits(orders[k]) /\ ~Moved(orders[k].note.name) =>
               Owns(orders[k].note, records) /\ ~Confirmed(orders[k], history)

LEMMA ThinnedOwns ==
    ASSUME NEW q, NEW r, NEW recs, Thinned(r, q), OwnsIn(q, recs)
    PROVE  OwnsIn(r, recs)
<1> SUFFICES ASSUME NEW k \in 1 .. Len(r), Transits(r[k]) PROVE Owns(r[k].note, recs)
    BY DEF OwnsIn
<1>1. PICK i \in 1 .. Len(q) : Same(r[k], q[i])
    BY ThinnedFrom
<1> QED BY <1>1 DEF Same, Transits, OwnsIn

LEMMA AdmitOwns ==
    ASSUME NEW q \in Seq(SoundOrders), NEW origin \in Nat, NEW note \in SoundNotes, NEW recs,
           OwnsIn(q, recs), Owns(note, recs)
    PROVE  OwnsIn(Admit(q, origin, note), recs)
<1> DEFINE r == Admit(q, origin, note)
           o == [note |-> note, origin |-> origin, state |-> "authorized", expiry |-> 0]
<1>1. /\ Len(q) \in Nat /\ Len(r) \in Len(q) .. Len(q) + 1
      /\ \A k \in 1 .. Len(q) : r[k] = q[k]
      /\ \A k \in Len(q) + 1 .. Len(r) : r[k] = o
    BY AdmitIs
<1>2. o.note = note
    OBVIOUS
<1> HIDE DEF o, r
<1>3. ASSUME NEW k \in 1 .. Len(r), Transits(r[k]) PROVE Owns(r[k].note, recs)
  <2>1. k \in 1 .. Len(q) \/ k \in Len(q) + 1 .. Len(r)
    BY <1>1
  <2>2. CASE k \in 1 .. Len(q)
    BY <1>1, <1>3, <2>2 DEF OwnsIn
  <2>3. CASE k \in Len(q) + 1 .. Len(r)
    BY <1>1, <1>2, <2>3
  <2> QED BY <2>1, <2>2, <2>3
<1> QED BY <1>3 DEF OwnsIn, r

LEMMA ReconciledOwns ==
    ASSUME NEW q \in Seq(SoundOrders), NEW hist, NEW recs
    PROVE  OwnsIn(ReconcileSeen(q, hist, recs), recs)
<1> DEFINE r == ReconcileSeen(q, hist, recs)
<1>1. PICK from : IsReconciled(from, r, q, hist, recs)
    BY ReconcileSeenIs
<1> HIDE DEF r
<1>2. OwnsIn(r, recs)
    BY <1>1 DEF IsReconciled, OwnsIn, Transits
<1> QED BY <1>2 DEF r

(* A mined transaction moves its own name and no other. *)
LEMMA MineRecords ==
    ASSUME BaseInv, TxInv, NEW tx \in txs, MineTx(tx), NEW m \in Names,
           m # tx.note.name \/ UNCHANGED <<records, history>>
    PROVE  /\ m \in DOMAIN records' <=> m \in DOMAIN records
           /\ m \in DOMAIN records => records'[m] = records[m]
           /\ history'[m] = history[m]
<1>0. AuthInv /\ txs \subseteq SoundTxs
    BY BaseFacts
<1>1. Writes(tx) \/ UNCHANGED <<records, history>>
    BY MineEffect
<1>2. CASE Writes(tx) /\ m # tx.note.name
  <2> DEFINE r == Records(tx)
  <2>1. /\ r.name = tx.note.name /\ \A x \in Names \ {tx.note.name} : history'[x] = history[x]
    BY <1>0, <1>2, WritesHistory
  <2>2. records' = IF r.action = "release"
                   THEN [x \in DOMAIN records \ {r.name} |-> records[x]]
                   ELSE [x \in DOMAIN records \cup {r.name} |-> IF x = r.name THEN r ELSE records[x]]
    BY <1>2 DEF Writes, SetRecord
  <2> HIDE DEF r
  <2> QED BY <1>2, <2>1, <2>2
<1>3. CASE UNCHANGED <<records, history>>
    BY <1>3
<1> QED BY <1>1, <1>2, <1>3

LEMMA MineTxOwned ==
    ASSUME BaseInv, BaseInv', TxInv, OwnedInv, NEW tx \in txs, MineTx(tx)
    PROVE  OwnedInv'
<1>0. AuthInv /\ txs \subseteq SoundTxs
    BY BaseFacts
<1>1. orders' = orders /\ phase = "block" /\ phase' = "block" /\ height' = height
    BY MineEffect DEF MineTx, mintVars, queueVars, MineFactsOf
<1> SUFFICES ASSUME NEW k \in 1 .. Len(orders), Transits(orders[k]), ~Moved(orders[k].note.name)'
             PROVE  Owns(orders[k].note, records') /\ ~Confirmed(orders[k], history')
    BY <1>1 DEF OwnedInv
<1> DEFINE n == orders[k].note.name
<1>2. n \in Names
    BY OrderTyped
<1>3. n # tx.note.name \/ UNCHANGED <<records, history>>
  <2> SUFFICES ASSUME n = tx.note.name, Writes(tx) PROVE FALSE
    BY MineEffect
  <2>1. tx \in SoundTxs
    BY <1>0
  <2>2. /\ history'[n] = Append(history[n], Records(tx)) /\ history[n] \in Seq(NameRecord)
        /\ Records(tx) \in NameRecord /\ Records(tx).confirmed_height = height
    BY <1>0, <2>1, WritesHistory
  <2> DEFINE t == Append(history[n], Records(tx))
  <2>3. t \in Seq(NameRecord) /\ Len(t) = Len(history[n]) + 1 /\ t[Len(history[n]) + 1] = Records(tx)
        /\ Len(history[n]) \in Nat
    BY <2>2, LastEntry
  <2> HIDE DEF t
  <2>4. t # << >> /\ t[Len(t)].confirmed_height = height
    BY <2>2, <2>3, EmptySeq
  <2> QED BY <1>1, <2>2, <2>4 DEF Moved, t
<1>4. /\ n \in DOMAIN records' <=> n \in DOMAIN records
      /\ n \in DOMAIN records => records'[n] = records[n]
      /\ history'[n] = history[n]
    BY <1>2, <1>3, MineRecords
<1>5. ~Moved(n)
    BY <1>1, <1>4 DEF Moved
<1>6. Owns(orders[k].note, records) /\ ~Confirmed(orders[k], history)
    BY <1>1, <1>5 DEF OwnedInv
<1>7. Owns(orders[k].note, records')
    BY <1>4, <1>6 DEF Owns
<1>8. ~Confirmed(orders[k], history')
    BY <1>4, <1>6 DEF Confirmed
<1> QED BY <1>7, <1>8

LEMMA RespondOwned ==
    ASSUME BaseInv, OwnedInv, NEW c \in armed, Respond(c)
    PROVE  OwnsIn(orders', records)
<1>0. /\ Inv /\ height \in Nat /\ orders \in Seq(SoundOrders) /\ c \in Challenge
    BY BaseFacts DEF BaseInv, QueueOK
<1>1. OwnsIn(orders, records)
    BY DEF Respond, OwnedInv
<1>2. CASE UNCHANGED orders
    BY <1>1, <1>2
<1>3. ASSUME NEW e \in Extensions(records[c.name].expires_at), Authorizes(c),
             orders' = Admit(orders, height, TransitionNote(c, e))
      PROVE  OwnsIn(orders', records)
  <2> DEFINE note == TransitionNote(c, e)
  <2>1. c.name \in DOMAIN records
    BY <1>3 DEF Authorizes
  <2>2. note \in SoundNotes /\ note.name = c.name /\ note.prev = records[c.name].commitment
    BY <1>0, <2>1, TransitionNoteSound
  <2>3. orders' = Admit(orders, height, note)
    BY <1>3
  <2> HIDE DEF note
  <2>4. Owns(note, records)
    BY <2>1, <2>2 DEF Owns
  <2> QED BY <1>0, <1>1, <2>2, <2>3, <2>4, AdmitOwns
<1> QED BY <1>2, <1>3 DEF Respond

LEMMA EndRulesOwned ==
    ASSUME BaseInv, OwnedInv, EndRules
    PROVE  OwnsIn(orders', records)
<1> DEFINE pruned == DropDueUpdates(ExpireSent(orders, height))
<1>1. Thinned(pruned, orders) /\ Owed(orders', pruned) /\ phase = "rules"
    BY EndRulesOrders
<1> HIDE DEF pruned
<1>2. OwnsIn(pruned, records)
    BY <1>1, ThinnedOwns DEF OwnedInv
<1>3. Inv
    BY BaseFacts
<1>4. ASSUME NEW k \in 1 .. Len(orders'), Transits(orders'[k]) PROVE Owns(orders'[k].note, records)
  <2>1. k \in 1 .. Len(pruned) \/ k \in Len(pruned) + 1 .. Len(orders')
    BY <1>1 DEF Owed
  <2>2. CASE k \in 1 .. Len(pruned)
    BY <1>1, <1>2, <1>4, <2>2 DEF OwnsIn, Owed
  <2>3. CASE k \in Len(pruned) + 1 .. Len(orders')
    <3>1. PICK n \in DueNames : orders'[k] = [note |-> LifecycleRelease(n), origin |-> height,
                                              state |-> "authorized", expiry |-> 0]
        BY <1>1, <2>3 DEF Owed
    <3> DEFINE o == orders'[k]
    <3>2. o.note = LifecycleRelease(n)
        BY <3>1
    <3> HIDE DEF o
    <3>3. /\ o.note.name \in DOMAIN records /\ o.note.prev = records[o.note.name].commitment
        BY <1>3, <3>2, LifecycleReleaseSound
    <3> QED BY <3>3 DEF Owns, o
  <2> QED BY <2>1, <2>2, <2>3
<1> QED BY <1>4 DEF OwnsIn

LEMMA MintNextOwnedInv ==
    ASSUME BaseInv, BaseInv', TxInv, SeenInv, OwnedInv, [MintNext]_allVars
    PROVE  OwnedInv'
<1>0. orders \in Seq(SoundOrders) /\ Inv
    BY BaseFacts
<1>1. ASSUME OwnsIn(orders', records'), phase' # "block" PROVE OwnedInv'
    BY <1>1 DEF OwnedInv
<1>2. ASSUME Thinned(orders', orders), records' = records, phase # "block", phase' # "block"
      PROVE  OwnedInv'
  <2>1. OwnsIn(orders', records)
    BY <1>2, ThinnedOwns DEF OwnedInv
  <2> QED BY <1>1, <1>2, <2>1
<1>3. ASSUME orders' = orders, records' = records, phase # "block", phase' # "block"
      PROVE  OwnedInv'
    BY <1>2, <1>3, ThinnedSelf
<1>4. ASSUME NEW t \in 0 .. MaxTime, OpenBlock(t) PROVE OwnedInv'
  <2>1. /\ orders' = orders /\ phase # "block" /\ phase' = "block"
        /\ records' = records /\ history' = history
    BY <1>4 DEF OpenBlock, NewBlock, queueVars, registryVars
  <2>2. ASSUME NEW k \in 1 .. Len(orders), Transits(orders[k])
        PROVE  Owns(orders[k].note, records) /\ ~Confirmed(orders[k], history)
    BY <2>1, <2>2 DEF OwnedInv, OwnsIn, SeenInv, SeenIn, Transits
  <2> QED BY <2>1, <2>2 DEF OwnedInv
<1>5. ASSUME NEW tx \in txs, MineTx(tx) PROVE OwnedInv'
    BY <1>5, MineTxOwned
<1>6. CASE SealBlock
  <2>1. /\ orders' = ReconcileSeen(orders, history, records) /\ phase' = "arrivals" /\ records' = records
    BY <1>6 DEF SealBlock, vars, registryVars
  <2>2. OwnsIn(orders', records)
    BY <1>0, <2>1, ReconciledOwns
  <2> QED BY <1>1, <2>1, <2>2
<1>7. ASSUME NEW c \in armed, Respond(c) PROVE OwnedInv'
  <2>1. phase' = "arrivals" /\ records' = records
    BY <1>7 DEF Respond, vars, registryVars
  <2> QED BY <1>1, <1>7, <2>1, RespondOwned
<1>8. CASE StartRules \/ SignSkip
    BY <1>3, <1>8 DEF StartRules, SignSkip, queueVars, vars, registryVars
<1>9. ASSUME NEW n \in Names, NEW ua \in Addrs, NEW e \in ExpiryValues, NEW p \in 1 .. height,
             DecideClaim(n, ua, e, p)
      PROVE  OwnedInv'
  <2> DEFINE note == ClaimNote(n, ua, e)
  <2>1. phase = "rules" /\ phase' = "rules" /\ records' = records /\ orders' = Admit(orders, p, note)
    BY <1>9 DEF DecideClaim, vars, registryVars
  <2>2. note \in SoundNotes /\ note.action = "claim" /\ p \in Nat
    BY BaseFacts, ClaimNoteSound
  <2> HIDE DEF note
  <2>3. Owns(note, records)
    BY <2>2 DEF Owns
  <2>4. OwnsIn(orders, records)
    BY <2>1 DEF OwnedInv
  <2>5. OwnsIn(orders', records)
    BY <1>0, <2>1, <2>2, <2>3, <2>4, AdmitOwns
  <2> QED BY <1>1, <2>1, <2>5
<1>10. ASSUME NEW n, NEW action, NEW ua, RelayChallenge(n, action, ua) PROVE OwnedInv'
    BY <1>3, <1>10 DEF RelayChallenge, vars, registryVars
<1>11. CASE EndRules
  <2>1. phase' = "sign" /\ records' = records
    BY <1>11 DEF EndRules, vars, registryVars
  <2> QED BY <1>1, <1>11, <2>1, EndRulesOwned
<1>12. CASE SignDrop
  <2>1. phase = "sign" /\ todo # << >> /\ records' = records
    BY <1>12 DEF SignDrop, vars, registryVars
  <2>2. /\ orders' = DropNote(orders, Head(todo).name) /\ Unresolved(orders, Head(todo).name) # {}
        /\ phase' = phase
    BY <1>12, <2>1, SignDropQueueOK, HeadFacts
  <2>3. Thinned(orders', orders)
    BY <1>0, <2>2, DropNoteIs
  <2> QED BY <1>2, <2>1, <2>2, <2>3
<1>13. ASSUME NEW nf \in Nullifiers, SignSend(nf) PROVE OwnedInv'
  <2>1. records' = records
    BY <1>13 DEF SignSend, vars, registryVars
  <2>2. Thinned(orders', orders) /\ phase = "sign" /\ phase' = phase
    BY <1>13, SignSendOrders
  <2> QED BY <1>2, <2>1, <2>2
<1>14. ASSUME NEW h \in 1 .. height, Rewind(h) PROVE OwnedInv'
  <2> DEFINE q == RewindTo(orders, h)
  <2>1. orders' = ReconcileSeen(q, history', records') /\ phase' = "arrivals"
    BY <1>14 DEF Rewind
  <2>2. q \in Seq(SoundOrders)
    BY <1>0, RewindToIs
  <2> HIDE DEF q
  <2>3. OwnsIn(orders', records')
    BY <2>1, <2>2, ReconciledOwns
  <2> QED BY <1>1, <2>1, <2>3
<1>15. CASE Restart
  <2>1. orders' = << >> /\ phase' = "arrivals"
    BY <1>15 DEF Restart
  <2>2. 1 .. Len(orders') = {}
    BY <2>1
  <2>3. OwnsIn(orders', records')
    BY <2>2 DEF OwnsIn
  <2> QED BY <1>1, <2>1, <2>3
<1>16. CASE UNCHANGED allVars
  <2>1. /\ orders' = orders /\ records' = records /\ history' = history /\ phase' = phase
        /\ height' = height
    BY <1>16 DEF allVars, vars, registryVars, chainVars, mintVars, queueVars
  <2> QED BY <2>1 DEF OwnedInv, OwnsIn, Moved
<1> QED BY <1>4, <1>5, <1>6, <1>7, <1>8, <1>9, <1>10, <1>11, <1>12, <1>13, <1>14, <1>15, <1>16 DEF MintNext

LEMMA MintInitOwnedInv == MintInit => OwnedInv
<1> SUFFICES ASSUME MintInit PROVE OwnedInv
  OBVIOUS
<1>1. orders = << >> /\ 1 .. Len(<< >>) = {} /\ phase = "arrivals"
    BY DEF MintInit
<1> QED BY <1>1 DEF OwnedInv, OwnsIn

-----------------------------------------------------------------------------
(***************************************************************************)
(* Until the first reorg or restart: a challenge is of a live name, was    *)
(* sent against its current record, and has no pending order; and a        *)
(* transition that may still be mined has a pending order, so no challenge *)
(* is out for its name.                                                    *)
(***************************************************************************)
UpToDate(c) ==
    /\ c.name \in DOMAIN records /\ records[c.name].commitment = c.against
    /\ ~NotePending(orders, c.name)

MayMine(tx) ==
    /\ tx.note.action # "claim" /\ spentAt[tx.authority] = 0
    /\ IF phase = "block" THEN height <= TxExpiry(tx.target) ELSE height < TxExpiry(tx.target)

TransitPending(tx) == \E i \in 1 .. Len(orders) : Transits(orders[i]) /\ orders[i].note.name = tx.note.name

Answered ==
    /\ \A c \in armed : UpToDate(c)
    /\ \A tx \in txs : tx.rooted /\ (MayMine(tx) => TransitPending(tx))

AnsweredInv == reorgs = 0 /\ restarts = 0 => Answered

LEMMA PendingThinned ==
    ASSUME NEW q \in Seq(SoundOrders), NEW r \in Seq(SoundOrders), Thinned(r, q), NEW n,
           NotePending(r, n)
    PROVE  NotePending(q, n)
<1>1. PICK k \in 1 .. Len(r) : r[k].state # "seen" /\ r[k].note.name = n
    BY UnresolvedIs
<1>2. PICK i \in 1 .. Len(q) : Same(r[k], q[i])
    BY ThinnedFrom
<1>3. q[i].state # "seen" /\ q[i].note.name = n
    BY <1>1, <1>2 DEF Same
<1> QED BY <1>3, UnresolvedIs

LEMMA PendingReconciled ==
    ASSUME NEW q \in Seq(SoundOrders), NEW hist, NEW recs, NEW n,
           NotePending(ReconcileSeen(q, hist, recs), n)
    PROVE  NotePending(q, n)
<1> DEFINE r == ReconcileSeen(q, hist, recs)
<1>1. r \in Seq(SoundOrders) /\ \E from : IsReconciled(from, r, q, hist, recs)
    BY ReconcileSeenIs
<1>2. PICK from : IsReconciled(from, r, q, hist, recs)
    BY <1>1
<1>3. PICK k \in 1 .. Len(r) : r[k].state # "seen" /\ r[k].note.name = n
    BY <1>1, UnresolvedIs
<1> HIDE DEF r
<1> DEFINE o == q[from[k]]
<1>4. from[k] \in 1 .. Len(q) /\ r[k] = Observed(o, hist)
    BY <1>2, <1>3 DEF IsReconciled
<1>5. o \in SoundOrders
    BY <1>4, ElementOfSeq
<1> HIDE DEF o
<1>6. o.state # "seen" /\ o.note.name = n
    BY <1>3, <1>4, <1>5, ObservedIs
<1> QED BY <1>4, <1>6, UnresolvedIs DEF o

LEMMA PendingAdmit ==
    ASSUME NEW q \in Seq(SoundOrders), NEW origin \in Nat, NEW note \in SoundNotes, NEW n,
           n # note.name, NotePending(Admit(q, origin, note), n)
    PROVE  NotePending(q, n)
<1> DEFINE r == Admit(q, origin, note)
           o == [note |-> note, origin |-> origin, state |-> "authorized", expiry |-> 0]
<1>1. /\ r \in Seq(SoundOrders) /\ Len(q) \in Nat /\ Len(r) \in Len(q) .. Len(q) + 1
      /\ \A k \in 1 .. Len(q) : r[k] = q[k]
      /\ \A k \in Len(q) + 1 .. Len(r) : r[k] = o
    BY AdmitIs
<1>2. PICK k \in 1 .. Len(r) : r[k].state # "seen" /\ r[k].note.name = n
    BY <1>1, UnresolvedIs
<1>3. o.note = note
    OBVIOUS
<1> HIDE DEF o, r
<1>4. k \in 1 .. Len(q)
  <2>1. k \notin Len(q) + 1 .. Len(r)
    BY <1>1, <1>2, <1>3
  <2> QED BY <1>1, <2>1
<1>5. q[k].state # "seen" /\ q[k].note.name = n
    BY <1>1, <1>2, <1>4
<1> QED BY <1>4, <1>5, UnresolvedIs

(* The chain and the queue a challenge looks at are as before. *)
LEMMA StillUpToDate ==
    ASSUME \A c \in armed : UpToDate(c), armed' \subseteq armed, records' = records,
           \A c \in armed' : NotePending(orders', c.name) => NotePending(orders, c.name)
    PROVE  \A c \in armed' : UpToDate(c)'
<1> SUFFICES ASSUME NEW c \in armed' PROVE UpToDate(c)'
    OBVIOUS
<1>1. c \in armed /\ UpToDate(c)
    OBVIOUS
<1> QED BY <1>1 DEF UpToDate

(* The transactions a block may mine are of orders that are still there. *)
LEMMA StillPending ==
    ASSUME \A tx \in txs : tx.rooted /\ (MayMine(tx) => TransitPending(tx)),
           txs' = txs, height' = height, spentAt' = spentAt, phase # "block", phase' # "block",
           \A tx \in txs : MayMine(tx) /\ TransitPending(tx) => TransitPending(tx)'
    PROVE  \A tx \in txs' : tx.rooted /\ (MayMine(tx)' => TransitPending(tx)')
<1> SUFFICES ASSUME NEW tx \in txs, MayMine(tx)' PROVE TransitPending(tx)'
    OBVIOUS
<1>1. MayMine(tx)
    BY DEF MayMine
<1> QED BY <1>1

LEMMA MineTxAnswered ==
    ASSUME BaseInv, TxInv, Answered, NEW tx \in txs, MineTx(tx)
    PROVE  Answered'
<1>0. /\ AuthInv /\ txs \subseteq SoundTxs /\ orders \in Seq(SoundOrders) /\ armed \subseteq Challenge
    BY BaseFacts DEF BaseInv, QueueOK
<1>1. /\ orders' = orders /\ armed' = armed /\ txs' = txs /\ phase = "block" /\ phase' = "block"
    BY DEF MineTx, mintVars, queueVars
<1>2. /\ MineFactsOf(tx)
      /\ Writes(tx) \/ (tx.note.action = "claim" /\ UNCHANGED <<records, history>>)
    BY MineEffect
<1>3. /\ spentAt[tx.authority] = 0 /\ height <= TxExpiry(tx.target) /\ height' = height
      /\ Mine({tx.authority}, {tx.nf, tx.successor} \ {NoNf})
    BY <1>2 DEF MineFactsOf
<1>4. \A x \in Nullifiers : spentAt'[x] = 0 => spentAt[x] = 0
    BY <1>0, <1>3, MineFacts
<1>5. ASSUME NEW c \in armed PROVE UpToDate(c)'
  <2>1. UpToDate(c) /\ c.name \in Names
    BY <1>0 DEF Answered, Challenge
  <2>2. c.name # tx.note.name \/ UNCHANGED <<records, history>>
    <3> SUFFICES ASSUME c.name = tx.note.name, Writes(tx) PROVE FALSE
        BY <1>2
    <3>1. CASE tx.note.action = "claim"
        BY <2>1, <3>1 DEF Writes, UpToDate
    <3>2. CASE tx.note.action # "claim"
      <4>1. MayMine(tx)
        BY <1>1, <1>3, <3>2 DEF MayMine
      <4>2. TransitPending(tx)
        BY <4>1 DEF Answered
      <4>3. NotePending(orders, c.name)
        <5>1. PICK i \in 1 .. Len(orders) : Transits(orders[i]) /\ orders[i].note.name = c.name
            BY <4>2 DEF TransitPending
        <5> QED BY <1>0, <5>1, UnresolvedIs DEF Transits
      <4> QED BY <2>1, <4>3 DEF UpToDate
    <3> QED BY <3>1, <3>2
  <2>3. /\ c.name \in DOMAIN records' <=> c.name \in DOMAIN records
        /\ c.name \in DOMAIN records => records'[c.name] = records[c.name]
    BY <2>1, <2>2, MineRecords
  <2> QED BY <1>1, <2>1, <2>3 DEF UpToDate
<1>6. ASSUME NEW x \in txs PROVE x.rooted /\ (MayMine(x)' => TransitPending(x)')
  <2>1. x.rooted /\ (MayMine(x) => TransitPending(x)) /\ x.authority \in Nullifiers
    BY <1>0, SoundTxTyped DEF Answered
  <2>2. MayMine(x)' => MayMine(x)
    BY <1>1, <1>3, <1>4, <2>1 DEF MayMine
  <2> QED BY <1>1, <2>1, <2>2 DEF TransitPending
<1> QED BY <1>1, <1>5, <1>6 DEF Answered

(* A block that left a transaction unmined left its order alone. *)
LEMMA SealBlockAnswered ==
    ASSUME BaseInv, TxInv, OwnedInv, Answered, SealBlock
    PROVE  Answered'
<1>0. /\ AuthInv /\ txs \subseteq SoundTxs /\ orders \in Seq(SoundOrders) /\ height \in Nat /\ ruled \in Nat
    BY BaseFacts
<1>1. /\ orders' = ReconcileSeen(orders, history, records) /\ armed' \subseteq armed /\ txs' = txs
      /\ records' = records /\ height' = height /\ spentAt' = spentAt
      /\ phase = "block" /\ phase' = "arrivals"
    BY DEF SealBlock, vars, registryVars, chainVars
<1>2. \A c \in armed' : UpToDate(c)'
  <2>1. \A c \in armed' : NotePending(orders', c.name) => NotePending(orders, c.name)
    BY <1>0, <1>1, PendingReconciled
  <2>2. \A c \in armed : UpToDate(c)
    BY DEF Answered
  <2> QED BY <1>1, <2>1, <2>2, StillUpToDate
<1>3. PICK from : IsReconciled(from, orders', orders, history, records)
    BY <1>0, <1>1, ReconcileSeenIs
<1>4. ASSUME NEW tx \in txs, MayMine(tx)' PROVE TransitPending(tx)'
  <2> DEFINE n == tx.note.name
             s == history[n]
  <2>1. /\ tx \in SoundTxs /\ n \in Names /\ tx.target \in Nat /\ TxExpiry(tx.target) \in Nat
    BY <1>0, SoundTxTyped, TxExpiryNat
  <2>2. spentAt[tx.authority] = 0 /\ tx.note.action # "claim" /\ height < TxExpiry(tx.target)
    BY <1>1, <1>4 DEF MayMine
  <2>3. MayMine(tx)
    BY <1>0, <1>1, <2>1, <2>2 DEF MayMine
  <2>4. tx.rooted /\ TransitPending(tx)
    BY <2>3 DEF Answered
  <2>5. PICK i \in 1 .. Len(orders) : Transits(orders[i]) /\ orders[i].note.name = n
    BY <2>4 DEF TransitPending
  <2>6. TxBuilt(tx, s, born, ruled)
    BY DEF TxInv, TxsBuilt
  <2>7. PICK j \in 1 .. Len(s) : NoteOf(s, j, tx)
    BY <2>2, <2>4, <2>6 DEF TxBuilt
  <2>8. j = Len(s)
    BY <1>0, <2>1, <2>2, <2>7, UnspentIsRecord DEF NoteOf
  <2>9. s[j].confirmed_height < tx.target /\ tx.target <= ruled + 1 /\ ruled < height
        /\ s[j].confirmed_height \in 1 .. height
    BY <1>0, <1>1, <2>1, <2>4, <2>6, <2>7, EntryTyped DEF NoteOf, TxBuilt, BaseInv, QueueOK
  <2>10. s[j].confirmed_height # height
    <3> HIDE DEF s
    <3> QED BY <1>0, <2>1, <2>9
  <2>11. ~Moved(n)
    BY <2>8, <2>10 DEF Moved
  <2>12. Owns(orders[i].note, records) /\ ~Confirmed(orders[i], history)
    BY <1>1, <2>5, <2>11 DEF OwnedInv
  <2>13. PICK k \in 1 .. Len(orders') : from[k] = i
    BY <1>3, <2>12 DEF IsReconciled
  <2>14. orders'[k] = orders[i]
    BY <1>3, <2>12, <2>13 DEF IsReconciled, Observed
  <2> QED BY <2>5, <2>14 DEF TransitPending
<1>5. \A tx \in txs : tx.rooted
    BY DEF Answered
<1> QED BY <1>1, <1>2, <1>4, <1>5 DEF Answered

LEMMA RespondAnswered ==
    ASSUME BaseInv, Answered, NEW c \in armed, Respond(c)
    PROVE  Answered'
<1>0. /\ Inv /\ height \in Nat /\ orders \in Seq(SoundOrders) /\ armed \subseteq Challenge
    BY BaseFacts DEF BaseInv, QueueOK
<1>1. /\ phase = "arrivals" /\ phase' = "arrivals" /\ txs' = txs /\ records' = records
      /\ height' = height /\ spentAt' = spentAt
    BY DEF Respond, vars, registryVars, chainVars
<1>2. \A i \in 1 .. Len(orders) : i \in 1 .. Len(orders') /\ orders'[i] = orders[i]
    BY RespondOrders
<1>3. /\ \A x \in armed : UpToDate(x)
      /\ \A tx \in txs : tx.rooted /\ (MayMine(tx) => TransitPending(tx))
    BY DEF Answered
<1>4. \A tx \in txs : TransitPending(tx) => TransitPending(tx)'
    BY <1>2 DEF TransitPending
<1>5. \A tx \in txs' : tx.rooted /\ (MayMine(tx)' => TransitPending(tx)')
    BY <1>1, <1>3, <1>4, StillPending
<1>6. armed' \subseteq armed /\ \A x \in armed' : NotePending(orders', x.name) => NotePending(orders, x.name)
  <2>1. CASE UNCHANGED orders /\ armed' = armed \ {c}
    BY <2>1
  <2>2. ASSUME NEW e \in Extensions(records[c.name].expires_at), Authorizes(c),
               orders' = Admit(orders, height, TransitionNote(c, e)), armed' = DropChallenges(c.name)
        PROVE  /\ armed' \subseteq armed
               /\ \A x \in armed' : NotePending(orders', x.name) => NotePending(orders, x.name)
    <3> DEFINE note == TransitionNote(c, e)
    <3>1. note \in SoundNotes /\ note.name = c.name
        BY <1>0, <2>2, TransitionNoteSound DEF Authorizes
    <3>2. orders' = Admit(orders, height, note)
        BY <2>2
    <3> HIDE DEF note
    <3>3. armed' \subseteq armed /\ \A x \in armed' : x.name # note.name
        BY <2>2, <3>1 DEF DropChallenges
    <3> QED BY <1>0, <3>1, <3>2, <3>3, PendingAdmit
  <2> QED BY <2>1, <2>2 DEF Respond
<1>7. \A x \in armed' : UpToDate(x)'
    BY <1>1, <1>3, <1>6, StillUpToDate
<1> QED BY <1>5, <1>7 DEF Answered

LEMMA DecideClaimAnswered ==
    ASSUME BaseInv, Answered, NEW n \in Names, NEW ua \in Addrs, NEW e \in ExpiryValues,
           NEW p \in 1 .. height, DecideClaim(n, ua, e, p)
    PROVE  Answered'
<1> DEFINE note == ClaimNote(n, ua, e)
<1>0. /\ Inv /\ height \in Nat /\ orders \in Seq(SoundOrders)
    BY BaseFacts
<1>1. /\ phase = "rules" /\ phase' = "rules" /\ txs' = txs /\ records' = records
      /\ height' = height /\ spentAt' = spentAt
      /\ orders' = Admit(orders, p, note) /\ armed' = DropChallenges(n)
    BY DEF DecideClaim, vars, registryVars, chainVars
<1>2. \A i \in 1 .. Len(orders) : i \in 1 .. Len(orders') /\ orders'[i] = orders[i]
    BY DecideClaimOrders
<1>3. /\ \A x \in armed : UpToDate(x)
      /\ \A tx \in txs : tx.rooted /\ (MayMine(tx) => TransitPending(tx))
    BY DEF Answered
<1>4. \A tx \in txs : TransitPending(tx) => TransitPending(tx)'
    BY <1>2 DEF TransitPending
<1>5. \A tx \in txs' : tx.rooted /\ (MayMine(tx)' => TransitPending(tx)')
    BY <1>1, <1>3, <1>4, StillPending
<1>6. note \in SoundNotes /\ note.name = n /\ p \in Nat
    BY <1>0, ClaimNoteSound
<1> HIDE DEF note
<1>7. armed' \subseteq armed /\ \A x \in armed' : x.name # note.name
    BY <1>1, <1>6 DEF DropChallenges
<1>8. \A x \in armed' : NotePending(orders', x.name) => NotePending(orders, x.name)
    BY <1>0, <1>1, <1>6, <1>7, PendingAdmit
<1>9. \A x \in armed' : UpToDate(x)'
    BY <1>1, <1>3, <1>7, <1>8, StillUpToDate
<1> QED BY <1>5, <1>9 DEF Answered

LEMMA RelayChallengeAnswered ==
    ASSUME Answered, NEW n, NEW action, NEW ua, RelayChallenge(n, action, ua)
    PROVE  Answered'
<1> DEFINE c == [action |-> action, name |-> n, ua |-> ua, against |-> records[n].commitment]
<1>1. /\ phase = "rules" /\ phase' = phase /\ txs' = txs /\ records' = records /\ orders' = orders
      /\ height' = height /\ spentAt' = spentAt /\ armed' = armed \cup {c}
      /\ n \in DOMAIN records /\ ~NotePending(orders, n)
    BY DEF RelayChallenge, AuthorizeChallenge, vars, registryVars, chainVars
<1>2. c.name = n /\ c.against = records[n].commitment
    OBVIOUS
<1> HIDE DEF c
<1>3. \A x \in armed' : UpToDate(x)'
    BY <1>1, <1>2 DEF Answered, UpToDate
<1>4. \A tx \in txs : tx.rooted /\ (MayMine(tx)' => TransitPending(tx)')
    BY <1>1 DEF Answered, MayMine, TransitPending
<1> QED BY <1>1, <1>3, <1>4 DEF Answered

(* The rules drop an order only of a due name, and then owe it a release.  *)
LEMMA EndRulesAnswered ==
    ASSUME BaseInv, SingleInv, Answered, reorgs = 0, EndRules
    PROVE  Answered'
<1> DEFINE expired == ExpireSent(orders, height)
           pruned == DropDueUpdates(expired)
<1>0. /\ Inv /\ orders \in Seq(SoundOrders) /\ Single(orders) /\ armed \subseteq Challenge
      /\ txs \subseteq SoundTxs
    BY BaseFacts DEF SingleInv, BaseInv, QueueOK
<1>1. /\ Len(expired) = Len(orders) /\ \A k \in 1 .. Len(orders) : Same(expired[k], orders[k])
      /\ pruned \in Seq(SoundOrders) /\ Thinned(pruned, orders) /\ Spared(pruned, expired)
      /\ Owed(orders', pruned) /\ \A n \in DueNames : NotePending(orders', n)
      /\ armed' = {c \in armed : ~(Due(c.name) /\ ~NotePending(pruned, c.name))}
      /\ phase = "rules" /\ phase' = "sign"
    BY <1>0, EndRulesOrders
<1>2. txs' = txs /\ records' = records /\ height' = height /\ spentAt' = spentAt
    BY DEF EndRules, vars, registryVars, chainVars
<1> HIDE DEF pruned, expired
<1>3. /\ orders' \in Seq(SoundOrders) /\ Len(pruned) \in Nat /\ Len(orders') \in Nat
      /\ Len(pruned) <= Len(orders')
      /\ \A k \in 1 .. Len(pruned) : k \in 1 .. Len(orders') /\ orders'[k] = pruned[k]
      /\ \A k \in 1 .. Len(orders') : k \in 1 .. Len(pruned) \/ k \in Len(pruned) + 1 .. Len(orders')
    BY <1>1 DEF Owed
<1>4. ASSUME NEW k \in Len(pruned) + 1 .. Len(orders')
      PROVE  /\ orders'[k].note.name \in DueNames /\ orders'[k].note.action = "release"
             /\ orders'[k].state # "seen"
  <2>1. PICK n \in DueNames : orders'[k] = [note |-> LifecycleRelease(n), origin |-> height,
                                            state |-> "authorized", expiry |-> 0]
    BY <1>1 DEF Owed
  <2>2. orders'[k].note = LifecycleRelease(n) /\ orders'[k].state = "authorized"
    BY <2>1
  <2> QED BY <1>0, <2>2, LifecycleReleaseSound
<1>5. ASSUME NEW c \in armed', NotePending(orders', c.name) PROVE NotePending(orders, c.name)
  <2>1. c \in armed /\ ~(Due(c.name) /\ ~NotePending(pruned, c.name))
    BY <1>1
  <2>2. PICK k \in 1 .. Len(orders') : orders'[k].state # "seen" /\ orders'[k].note.name = c.name
    BY <1>3, <1>5, UnresolvedIs
  <2>3. NotePending(pruned, c.name)
    <3>1. CASE k \in 1 .. Len(pruned)
      <4>1. pruned[k].state # "seen" /\ pruned[k].note.name = c.name
        BY <1>3, <2>2, <3>1
      <4> QED BY <1>1, <3>1, <4>1, UnresolvedIs
    <3>2. CASE k \in Len(pruned) + 1 .. Len(orders')
        BY <1>4, <2>1, <2>2, <3>2 DEF DueNames
    <3> QED BY <1>3, <3>1, <3>2
  <2> QED BY <1>0, <1>1, <2>3, PendingThinned
<1>6. \A c \in armed' : UpToDate(c)'
  <2>1. armed' \subseteq armed /\ \A c \in armed : UpToDate(c)
    BY <1>1 DEF Answered
  <2> QED BY <1>2, <1>5, <2>1, StillUpToDate
<1>7. ASSUME NEW tx \in txs, TransitPending(tx) PROVE TransitPending(tx)'
  <2> DEFINE n == tx.note.name
  <2>1. PICK i \in 1 .. Len(orders) : Transits(orders[i]) /\ orders[i].note.name = n
    BY <1>7 DEF TransitPending
  <2>2. n \in Names
    BY <1>0, SoundTxTyped
  <2>3. /\ i \in 1 .. Len(expired) /\ expired[i].note = orders[i].note /\ expired[i].state # "seen"
    BY <1>1, <2>1 DEF Same, Transits
  <2>4. CASE Due(n)
    <3>1. NotePending(orders', n)
        BY <1>1, <2>2, <2>4 DEF DueNames
    <3>2. PICK k \in 1 .. Len(orders') : orders'[k].state # "seen" /\ orders'[k].note.name = n
        BY <1>3, <3>1, UnresolvedIs
    <3>3. orders'[k].note.action # "claim"
      <4>1. CASE k \in 1 .. Len(pruned)
        <5>1. PICK j \in 1 .. Len(orders) : Same(pruned[k], orders[j])
            BY <1>1, <4>1, ThinnedFrom
        <5>2. j = i
            BY <1>0, <1>3, <2>1, <3>2, <4>1, <5>1 DEF Same, Single, Transits
        <5> QED BY <1>3, <2>1, <4>1, <5>1, <5>2 DEF Same, Transits
      <4>2. CASE k \in Len(pruned) + 1 .. Len(orders')
        BY <1>4, <4>2
      <4> QED BY <1>3, <4>1, <4>2
    <3> QED BY <3>2, <3>3 DEF TransitPending, Transits
  <2>5. CASE ~Due(n)
    <3>1. Holds(pruned, expired[i])
        BY <1>1, <2>1, <2>3, <2>5 DEF Spared
    <3>2. PICK k \in 1 .. Len(pruned) : pruned[k].note = orders[i].note /\ pruned[k].state # "seen"
        BY <2>3, <3>1 DEF Holds
    <3>3. k \in 1 .. Len(orders') /\ Transits(orders'[k]) /\ orders'[k].note.name = n
        BY <1>3, <2>1, <3>2 DEF Transits
    <3> QED BY <3>3 DEF TransitPending
  <2> QED BY <2>4, <2>5
<1>8. \A tx \in txs' : tx.rooted /\ (MayMine(tx)' => TransitPending(tx)')
  <2>1. \A tx \in txs : tx.rooted /\ (MayMine(tx) => TransitPending(tx))
    BY DEF Answered
  <2> QED BY <1>1, <1>2, <1>7, <2>1, StillPending
<1> QED BY <1>6, <1>8 DEF Answered

(* A dead order is not one of a transaction that may still be mined. *)
LEMMA SignDropAnswered ==
    ASSUME BaseInv, SingleInv, OwnedInv, Answered, reorgs = 0, SignDrop
    PROVE  Answered'
<1>0. orders \in Seq(SoundOrders) /\ Single(orders) /\ Listed(orders, todo)
    BY BaseFacts DEF SingleInv
<1>1. /\ phase = "sign" /\ txs' = txs /\ records' = records /\ height' = height
      /\ spentAt' = spentAt /\ armed' = armed /\ Dead(Head(todo)) /\ todo # << >>
    BY DEF SignDrop, vars, registryVars, chainVars
<1>2. phase' = phase /\ orders' = DropNote(orders, Head(todo).name)
      /\ Unresolved(orders, Head(todo).name) # {}
    BY <1>1, SignDropQueueOK, HeadFacts
<1>3. /\ Thinned(orders', orders)
      /\ \A i \in 1 .. Len(orders) :
           \/ \E k \in 1 .. Len(orders') : orders'[k] = orders[i]
           \/ orders[i].note = Head(todo)
    BY <1>0, SignDropOrders
<1>4. orders' \in Seq(SoundOrders)
    BY <1>0, <1>2, DropNoteIs
<1>5. \A c \in armed' : UpToDate(c)'
  <2>1. \A c \in armed' : NotePending(orders', c.name) => NotePending(orders, c.name)
    BY <1>0, <1>3, <1>4, PendingThinned
  <2>2. \A c \in armed : UpToDate(c)
    BY DEF Answered
  <2> QED BY <1>1, <2>1, <2>2, StillUpToDate
<1>6. ASSUME NEW tx \in txs, TransitPending(tx) PROVE TransitPending(tx)'
  <2>1. PICK i \in 1 .. Len(orders) : Transits(orders[i]) /\ orders[i].note.name = tx.note.name
    BY <1>6 DEF TransitPending
  <2>2. Owns(orders[i].note, records) /\ orders[i].note.action # "claim"
    BY <1>1, <2>1 DEF OwnedInv, OwnsIn, Transits
  <2>3. orders[i].note # Head(todo)
    BY <1>1, <2>2 DEF Dead
  <2>4. PICK k \in 1 .. Len(orders') : orders'[k] = orders[i]
    BY <1>3, <2>3
  <2> QED BY <2>1, <2>4 DEF TransitPending
<1>7. \A tx \in txs' : tx.rooted /\ (MayMine(tx)' => TransitPending(tx)')
  <2>1. \A tx \in txs : tx.rooted /\ (MayMine(tx) => TransitPending(tx))
    BY DEF Answered
  <2>2. phase # "block" /\ phase' # "block"
    BY <1>1, <1>2
  <2> QED BY <1>1, <1>6, <2>1, <2>2, StillPending
<1> QED BY <1>5, <1>7 DEF Answered

LEMMA SignSendAnswered ==
    ASSUME BaseInv, BaseInv', SingleInv, Answered, reorgs = 0, NEW nf \in Nullifiers, SignSend(nf)
    PROVE  Answered'
<1> DEFINE note == Head(todo)
<1>0. /\ orders \in Seq(SoundOrders) /\ orders' \in Seq(SoundOrders) /\ todo \in Seq(SoundNotes)
      /\ Single(orders) /\ Listed(orders, todo)
    BY BaseFacts, BaseFactsNext DEF SingleInv
<1>1. /\ records' = records /\ height' = height /\ spentAt' = spentAt /\ armed' = armed
      /\ Cardinality(Fresh) >= 2
    BY DEF SignSend, vars, registryVars, chainVars
<1>2. /\ Len(orders') = Len(orders) /\ Thinned(orders', orders)
      /\ \A k \in 1 .. Len(orders) : Same(orders'[k], orders[k])
      /\ phase = "sign" /\ todo # << >> /\ phase' = phase
    BY SignSendOrders
<1>4. note \in SoundNotes
    BY <1>2, HeadFacts
<1>5. BuiltTx(note, nf).note = note /\ BuiltTx(note, nf).rooted = TRUE
    BY <1>1, <1>4, BuiltIs
<1>3. txs' = txs \cup {BuiltTx(note, nf)}
    BY SignSendQueueOK
<1>9. PICK tx : txs' = txs \cup {tx} /\ tx.note = note /\ tx.rooted = TRUE
    BY <1>3, <1>5
<1>6. \A c \in armed' : UpToDate(c)'
  <2>1. \A c \in armed' : NotePending(orders', c.name) => NotePending(orders, c.name)
    BY <1>0, <1>2, PendingThinned
  <2>2. \A c \in armed : UpToDate(c)
    BY DEF Answered
  <2> QED BY <1>1, <2>1, <2>2, StillUpToDate
<1>7. ASSUME NEW x \in txs PROVE x.rooted /\ (MayMine(x)' => TransitPending(x)')
  <2>1. x.rooted /\ (MayMine(x) => TransitPending(x))
    BY DEF Answered
  <2>2. MayMine(x)' => MayMine(x)
    BY <1>1, <1>2 DEF MayMine
  <2>3. TransitPending(x) => TransitPending(x)'
    BY <1>2 DEF TransitPending, Transits, Same
  <2> QED BY <2>1, <2>2, <2>3
<1>8. MayMine(tx)' => TransitPending(tx)'
  <2> SUFFICES ASSUME note.action # "claim" PROVE TransitPending(tx)'
    BY <1>9 DEF MayMine
  <2>1. note = todo[1] /\ 1 \in 1 .. Len(todo)
    BY <1>0, <1>2, TailWithin
  <2>2. PICK i \in 1 .. Len(orders) : orders[i].state = "authorized" /\ orders[i].note = note
    BY <1>0, <2>1 DEF Listed
  <2>3. i \in 1 .. Len(orders') /\ Transits(orders'[i]) /\ orders'[i].note.name = tx.note.name
    BY <1>2, <1>9, <2>2 DEF Same, Transits
  <2> QED BY <2>3 DEF TransitPending
<1>10. \A x \in txs' : x.rooted /\ (MayMine(x)' => TransitPending(x)')
    BY <1>7, <1>8, <1>9
<1> QED BY <1>6, <1>10 DEF Answered

LEMMA MintNextAnsweredInv ==
    ASSUME BaseInv, BaseInv', TxInv, SingleInv, OwnedInv, AnsweredInv, [MintNext]_allVars
    PROVE  AnsweredInv'
<1> SUFFICES ASSUME reorgs' = 0, restarts' = 0 PROVE Answered'
    BY DEF AnsweredInv
<1>0. reorgs \in Nat /\ restarts \in Nat
    BY DEF BaseInv, QueueOK
<1>1. ASSUME UNCHANGED boundVars PROVE reorgs = 0 /\ Answered
    BY <1>1 DEF boundVars, AnsweredInv
<1>2. ASSUME UNCHANGED <<orders, armed, txs, records, spentAt>>, Answered,
             \/ height' = height /\ phase' = phase
             \/ height' = height /\ phase # "block" /\ phase' # "block"
      PROVE  Answered'
    BY <1>2 DEF Answered, UpToDate, MayMine, TransitPending
<1>3. ASSUME NEW t \in 0 .. MaxTime, OpenBlock(t) PROVE Answered'
  <2>1. /\ height \in Nat /\ height' = height + 1 /\ phase # "block" /\ phase' = "block"
        /\ UNCHANGED <<orders, armed, txs, records, spentAt, boundVars>>
    BY <1>3, BaseFacts DEF OpenBlock, NewBlock, queueVars, registryVars
  <2>2. Answered
    BY <1>1, <2>1
  <2>3. ASSUME NEW tx \in txs PROVE MayMine(tx)' => MayMine(tx)
    <3>1. TxExpiry(tx.target) \in Nat
        BY BaseFacts, SoundTxTyped, TxExpiryNat
    <3> QED BY <2>1, <3>1 DEF MayMine
  <2>4. \A tx \in txs : tx.rooted /\ (MayMine(tx)' => TransitPending(tx)')
    BY <2>1, <2>2, <2>3 DEF Answered, TransitPending
  <2>5. \A c \in armed : UpToDate(c)'
    BY <2>1, <2>2 DEF Answered, UpToDate
  <2> QED BY <2>1, <2>4, <2>5 DEF Answered
<1>4. ASSUME NEW tx \in txs, MineTx(tx) PROVE Answered'
  <2>1. UNCHANGED boundVars
    BY <1>4 DEF MineTx, mintVars
  <2> QED BY <1>1, <1>4, <2>1, MineTxAnswered
<1>5. CASE SealBlock
  <2>1. UNCHANGED boundVars
    BY <1>5 DEF SealBlock
  <2> QED BY <1>1, <1>5, <2>1, SealBlockAnswered
<1>6. ASSUME NEW c \in armed, Respond(c) PROVE Answered'
  <2>1. UNCHANGED boundVars
    BY <1>6 DEF Respond
  <2> QED BY <1>1, <1>6, <2>1, RespondAnswered
<1>7. CASE StartRules \/ SignSkip
  <2>1. /\ UNCHANGED boundVars /\ UNCHANGED <<orders, armed, txs, records, spentAt>>
        /\ height' = height /\ phase # "block" /\ phase' # "block"
    BY <1>7 DEF StartRules, SignSkip, queueVars, vars, registryVars, chainVars
  <2> QED BY <1>1, <1>2, <2>1
<1>8. ASSUME NEW n \in Names, NEW ua \in Addrs, NEW e \in ExpiryValues, NEW p \in 1 .. height,
             DecideClaim(n, ua, e, p)
      PROVE  Answered'
  <2>1. UNCHANGED boundVars
    BY <1>8 DEF DecideClaim
  <2> QED BY <1>1, <1>8, <2>1, DecideClaimAnswered
<1>9. ASSUME NEW n, NEW action, NEW ua, RelayChallenge(n, action, ua) PROVE Answered'
  <2>1. UNCHANGED boundVars
    BY <1>9 DEF RelayChallenge
  <2> QED BY <1>1, <1>9, <2>1, RelayChallengeAnswered
<1>10. CASE EndRules
  <2>1. UNCHANGED boundVars
    BY <1>10 DEF EndRules
  <2> QED BY <1>1, <1>10, <2>1, EndRulesAnswered
<1>11. CASE SignDrop
  <2>1. UNCHANGED boundVars
    BY <1>11 DEF SignDrop
  <2> QED BY <1>1, <1>11, <2>1, SignDropAnswered
<1>12. ASSUME NEW nf \in Nullifiers, SignSend(nf) PROVE Answered'
  <2>1. UNCHANGED boundVars
    BY <1>12 DEF SignSend
  <2> QED BY <1>1, <1>12, <2>1, SignSendAnswered
<1>13. ASSUME NEW h \in 1 .. height, Rewind(h) PROVE FALSE
    BY <1>0, <1>13 DEF Rewind
<1>14. ASSUME Restart PROVE FALSE
    BY <1>0, <1>14 DEF Restart
<1>15. CASE UNCHANGED allVars
  <2>1. /\ UNCHANGED boundVars /\ UNCHANGED <<orders, armed, txs, records, spentAt>>
        /\ height' = height /\ phase' = phase
    BY <1>15 DEF allVars, mintVars, queueVars, vars, registryVars, chainVars
  <2> QED BY <1>1, <1>2, <2>1
<1> QED BY <1>3, <1>4, <1>5, <1>6, <1>7, <1>8, <1>9, <1>10, <1>11, <1>12, <1>13, <1>14, <1>15 DEF MintNext

(* Until the first reorg or restart no challenge outlives the record it    *)
(* was issued against: a right code moves only the record whose controller *)
(* was sent it (OtpQueue::drop_challenges, authorize_challenge,            *)
(* NameNoteQueue::expire_sent).                                            *)
THEOREM ChallengesStayCurrent == MintSpec => []ChallengesCurrent
<1> DEFINE IInv == BaseInv /\ TxInv /\ SeenInv /\ SingleInv /\ OwnedInv /\ AnsweredInv
<1>1. MintInit => IInv
  <2>1. MintInit => SeenInv /\ AnsweredInv
    BY DEF MintInit, SeenInv, SeenIn, AnsweredInv, Answered
  <2> QED BY <2>1, MintInitBaseInv, MintInitTxInv, MintInitSingleInv, MintInitOwnedInv
<1>2. IInv /\ [MintNext]_allVars => IInv'
    BY MintNextBaseInv, MintNextTxInv, MintNextSeenInv, MintNextSingleInv, MintNextOwnedInv,
       MintNextAnsweredInv
<1>3. IInv => ChallengesCurrent
    BY DEF AnsweredInv, Answered, UpToDate, ChallengesCurrent
<1> HIDE DEF IInv
<1> QED BY <1>1, <1>2, <1>3, PTL DEF MintSpec
=============================================================================
