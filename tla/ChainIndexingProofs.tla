------------------------- MODULE ChainIndexingProofs -------------------------
(***************************************************************************)
(* What TLAPS proves of ChainEventProcessor when its services work: that   *)
(* it never fails, and that neither the tables nor the cursor ever lose    *)
(* an oracle transaction, whatever forks, process stops and restarts by    *)
(* the manager come, as long as a restart by the manager does not resume   *)
(* ahead of the blocks that were streamed.                                 *)
(***************************************************************************)
EXTENDS ChainEventProcessorProofs

-----------------------------------------------------------------------------
(* The blocks behind the queue.                                            *)

\* The oracle transactions of a chain are in the order of their minting,
\* and the output that each spends is of one before it.
Ordered(c) ==
    \A i, j \in 1 .. Len(c) :
        i < j /\ c[i].oracle # 0 /\ c[j].oracle # 0 => c[i].oracle < c[j].oracle

Linked(c) ==
    \A n \in 1 .. Len(c) : c[n].oracle # 0 =>
        \/ minted[c[n].oracle].spends = 0
        \/ \E j \in 1 .. n - 1 : c[j].oracle = minted[c[n].oracle].spends

\* A block that was forged since the last fork is on the chain.
Forged(c) ==
    \A n \in 1 .. Len(c) : /\ c[n].branch <= forks
                           /\ c[n].branch = forks => n <= Len(chain)

\* Chains that share a point share the blocks up to it.
Agree(c, d) ==
    \A n \in 1 .. Len(c) : n <= Len(d) /\ c[n].branch = d[n].branch
        => \A k \in 1 .. n : c[k] = d[k]

\* A chain that the node followed at some time.
Followed(c) ==
    /\ c \in Seq(KnownBlock) /\ Len(c) <= MaxHeight
    /\ Ordered(c) /\ Linked(c) /\ Forged(c) /\ Agree(c, chain)

\* The blocks that have been handled, and how many transactions of the last
\* one have not.
Place == [blocks : Seq(Block), left : 0 .. 2]

PassesBlock(e, p, r) ==
    /\ e.kind = "block"
    /\ p.left = 0
    /\ \E b \in Block : /\ r.blocks = Append(p.blocks, b)
                        /\ r.left = Len(TxsOf(b))
                        /\ e.n = r.left
                        /\ e.at = <<Len(p.blocks) + 1, b.branch>>

\* The oracle transaction of a block is its last.
PassesTx(e, p, r) ==
    /\ e.kind = "tx"
    /\ p.left > 0
    /\ Len(p.blocks) > 0
    /\ r.blocks = p.blocks
    /\ r.left = p.left - 1
    /\ e.at = <<Len(p.blocks), p.blocks[Len(p.blocks)].branch>>
    /\ e.tx = IF p.left = 1 THEN p.blocks[Len(p.blocks)].oracle ELSE 0

PassesRollback(e, p, r) ==
    /\ e.kind = "rollback"
    /\ e.at[1] <= Len(p.blocks)
    /\ p.left > 0 => e.at[1] < Len(p.blocks)
    /\ r.blocks = SubSeq(p.blocks, 1, e.at[1])
    /\ r.left = 0

\* The event e takes its handler from p to r.
Passes(e, p, r) == PassesBlock(e, p, r) \/ PassesTx(e, p, r) \/ PassesRollback(e, p, r)

\* The places that the events of the queue m pass.
Path(m, q) ==
    /\ q \in Seq(Place) /\ Len(q) = Len(m) + 1
    /\ \A i \in 1 .. Len(q) : Followed(q[i].blocks)
    /\ \A i \in 1 .. Len(m) : Passes(m[i], q[i], q[i + 1])

\* They end at the streamed blocks.
Route(q) == Path(mailbox, q) /\ q[Len(q)] = [blocks |-> view, left |-> 0]

-----------------------------------------------------------------------------
(* The tables.                                                             *)

\* The row of the block at height n, and the rows of the first i blocks.
RowAt(c, n) == [tx |-> c[n].oracle, slot |-> n]
RowsTo(c, i) == OracleRows(SubSeq(c, 1, i))

\* How many of the blocks up to a place are indexed completely, and how many
\* are recorded in the tables.
Complete(p) == Len(p.blocks) - (IF p.left = 0 THEN 0 ELSE 1)
Recorded(p) == IF pc = "applied" /\ p.left = 1 THEN Len(p.blocks) ELSE Complete(p)

PointsTo(p) == {<<n, p.blocks[n].branch>> : n \in 1 .. Complete(p)}

\* The place of the handler: it is past its event once that is indexed.
Here(q) == IF pc = "building" THEN q[2] ELSE q[1]

At(p) ==
    /\ p.left > 0 => Len(p.blocks) > 0
    /\ applied = RowsTo(p.blocks, Recorded(p))
    /\ cursor \in Seq(PointsTo(p))
    /\ pc = "building" => p.left = 0
    /\ pc = "rollingBack" => cursor \in Seq({x \in Points : x[1] <= event.at[1]})
    /\ Handles("tx") /\ pc # "building" => counts[event.at] = p.left
    /\ requests # <<>> => p.left = 0 /\ pc \in {"ready", "rollingBack"}

\* The blocks of the queue and the tables fit together.
InPlace == \E q, p : Route(q) /\ p = Here(q) /\ At(p)

\* The output that a transaction spends is of one that was minted before.
MintedInOrder ==
    /\ \A t \in 1 .. Len(minted) : minted[t].spends < t
    /\ utxo # NULL => utxo <= Len(minted)

IndexInv ==
    /\ ~failed
    /\ MintedInOrder
    /\ Followed(chain)
    /\ InPlace

-----------------------------------------------------------------------------
(* The oracle transactions of a chain.                                     *)

LEMMA CutParts ==
  ASSUME NEW T, NEW s \in Seq(T), NEW m \in 0 .. Len(s), NEW c, c = SubSeq(s, 1, m)
  PROVE  c \in Seq(T) /\ Len(c) = m /\ \A k \in 1 .. m : c[k] = s[k]
<1>1. Len(s) \in Nat /\ \A k \in 1 .. m : s[k] \in T
  BY ElementOfSeq
<1> QED
  BY <1>1, SubSeqProperties

LEMMA AppendParts ==
  ASSUME NEW T, NEW s \in Seq(T), NEW e \in T, NEW c, c = Append(s, e)
  PROVE  /\ c \in Seq(T) /\ Len(c) = Len(s) + 1 /\ Len(s) \in Nat /\ c[Len(s) + 1] = e
         /\ \A k \in 1 .. Len(s) : c[k] = s[k]
BY AppendProperties

LEMMA BlockType ==
  ASSUME NEW c \in Seq(Block), NEW n \in 1 .. Len(c)
  PROVE  /\ c[n].oracle \in 0 .. MaxTxs /\ c[n].oracle \in Nat
         /\ c[n].branch \in 0 .. MaxForks /\ c[n].branch \in Nat
<1>1. c[n] \in Block
  BY ElementOfSeq
<1> QED
  BY <1>1, StreamBounds DEF Block

LEMMA RowsAppend ==
  ASSUME NEW c \in Seq(Block), NEW b \in Block, Len(c) < MaxHeight
  PROVE  OracleRows(Append(c, b)) =
             IF b.oracle # 0 THEN Append(OracleRows(c), [tx |-> b.oracle, slot |-> Len(c) + 1])
             ELSE OracleRows(c)
<1> DEFINE d == Append(c, b)
           AnyRow == [tx : Nat, slot : Nat]
           old == [n \in 1 .. Len(c) |-> [tx |-> c[n].oracle, slot |-> n]]
           new == [n \in 1 .. Len(d) |-> [tx |-> d[n].oracle, slot |-> n]]
           r == [tx |-> b.oracle, slot |-> Len(c) + 1]
<1>1. d \in Seq(Block) /\ Len(d) = Len(c) + 1 /\ Len(c) \in Nat /\ d[Len(c) + 1] = b
        /\ \A n \in 1 .. Len(c) : d[n] = c[n]
  BY AppendParts
<1> HIDE DEF d
<1>2. /\ \A n \in 1 .. Len(c) : c[n].oracle \in Nat
      /\ \A n \in 1 .. Len(d) : d[n].oracle \in Nat
  BY <1>1, BlockType
<1>3. b.oracle \in Nat /\ b.oracle \in 0 .. MaxTxs /\ MaxHeight \in Nat /\ MaxTxs \in Nat
  BY StreamBounds DEF Block
<1>4. old \in Seq(AnyRow) /\ Len(old) = Len(c)
  BY <1>1, <1>2
<1>5. new \in Seq(AnyRow) /\ Len(new) = Len(c) + 1
  BY <1>1, <1>2
<1>6. r \in AnyRow
  BY <1>1, <1>3
<1>7. new = Append(old, r)
  <2> DEFINE a == Append(old, r)
  <2>1. a \in Seq(AnyRow) /\ Len(a) = Len(c) + 1 /\ a[Len(c) + 1] = r
          /\ \A n \in 1 .. Len(c) : a[n] = old[n]
    <3> HIDE DEF old, r, AnyRow
    <3> QED
      BY <1>4, <1>6, AppendParts
  <2> HIDE DEF a
  <2>2. \A n \in 1 .. Len(c) : new[n] = a[n]
    <3>1. \A n \in 1 .. Len(c) : new[n] = [tx |-> d[n].oracle, slot |-> n]
      BY <1>1
    <3>2. \A n \in 1 .. Len(c) : old[n] = [tx |-> c[n].oracle, slot |-> n]
      OBVIOUS
    <3> HIDE DEF old, new, r, AnyRow
    <3> SUFFICES ASSUME NEW n \in 1 .. Len(c) PROVE new[n] = a[n]
      OBVIOUS
    <3>3. d[n] = c[n] /\ a[n] = old[n]
      BY <1>1, <2>1
    <3>4. new[n] = [tx |-> d[n].oracle, slot |-> n]
      BY <3>1
    <3>5. old[n] = [tx |-> c[n].oracle, slot |-> n]
      BY <3>2
    <3> QED
      BY <3>3, <3>4, <3>5
  <2>3. new[Len(c) + 1] = a[Len(c) + 1]
    BY <1>1, <2>1
  <2>4. \A n \in 1 .. Len(new) : new[n] = a[n]
    <3> HIDE DEF old, new, r, AnyRow
    <3>1. \A n \in 1 .. Len(new) : n \in 1 .. Len(c) \/ n = Len(c) + 1
      BY <1>1, <1>5
    <3> QED
      BY <2>2, <2>3, <3>1
  <2>5. new = a
    <3> HIDE DEF new, AnyRow
    <3> QED
      BY <1>5, <2>1, <2>4, SeqEqual
  <2> QED
    BY <2>5 DEF a
<1>8. r \in Row <=> b.oracle # 0
  BY <1>1, <1>3 DEF Row, TxIds, Heights
<1>9. OracleRows(d) = Only(new, Row) /\ OracleRows(c) = Only(old, Row)
  BY DEF OracleRows
<1>10. Only(Append(old, r), Row) = IF r \in Row THEN Append(Only(old, Row), r) ELSE Only(old, Row)
  <2> HIDE DEF old, r, AnyRow
  <2> QED
    BY <1>4, <1>6, OnlyAppend
<1> HIDE DEF old, new, r
<1>11. OracleRows(d) = IF b.oracle # 0 THEN Append(OracleRows(c), r) ELSE OracleRows(c)
  BY <1>7, <1>8, <1>9, <1>10
<1> QED
  BY <1>11 DEF r, d

LEMMA RowsEmpty == OracleRows(<<>>) = <<>>
<1>1. [n \in 1 .. Len(<<>>) |-> [tx |-> <<>>[n].oracle, slot |-> n]] = <<>>
  OBVIOUS
<1> QED
  BY <1>1, OnlyEmpty DEF OracleRows

LEMMA RowsToDef ==
  ASSUME NEW c \in Seq(Block), Len(c) <= MaxHeight
  PROVE  /\ RowsTo(c, 0) = <<>>
         /\ RowsTo(c, Len(c)) = OracleRows(c)
         /\ \A i \in 1 .. Len(c) :
               RowsTo(c, i) = IF c[i].oracle # 0 THEN Append(RowsTo(c, i - 1), RowAt(c, i))
                              ELSE RowsTo(c, i - 1)
         /\ \A i \in 0 .. Len(c) : RowsTo(c, i) \in Seq(Row)
<1>1. Len(c) \in Nat /\ MaxHeight \in Nat
  BY StreamBounds
<1>2. SubSeq(c, 1, 0) = <<>> /\ SubSeq(c, 1, Len(c)) = c
  BY SubSeqEmpty, SubSeqFull
<1>3. ASSUME NEW i \in 1 .. Len(c)
      PROVE  RowsTo(c, i) = IF c[i].oracle # 0 THEN Append(RowsTo(c, i - 1), RowAt(c, i))
                            ELSE RowsTo(c, i - 1)
  <2> DEFINE a == SubSeq(c, 1, i - 1)
  <2>1. i - 1 \in 0 .. Len(c) /\ i \in 1 .. Len(c) /\ i \in Nat
    BY <1>1
  <2>2. a \in Seq(Block) /\ Len(a) = i - 1
    BY <2>1, CutParts
  <2>3. c[i] \in Block
    BY ElementOfSeq
  <2>4. SubSeq(c, 1, i) = Append(a, c[i])
    <3>1. 1 \in 1 .. Len(c) /\ i \in 1 .. Len(c)
      BY <1>1
    <3>2. SubSeq(c, 1, i) = a \o <<c[i]>>
      BY <3>1, SubSeqRecursiveSecond
    <3> HIDE DEF a
    <3> QED
      BY <2>2, <2>3, <3>2
  <2> HIDE DEF a
  <2>5. Len(a) < MaxHeight /\ Len(a) + 1 = i
    BY <1>1, <2>1, <2>2
  <2>6. OracleRows(Append(a, c[i])) =
             IF c[i].oracle # 0 THEN Append(OracleRows(a), [tx |-> c[i].oracle, slot |-> Len(a) + 1])
             ELSE OracleRows(a)
    BY <2>2, <2>3, <2>5, RowsAppend
  <2> QED
    BY <2>4, <2>5, <2>6 DEF RowsTo, RowAt, a
<1>4. ASSUME NEW i \in 0 .. Len(c) PROVE RowsTo(c, i) \in Seq(Row)
  <2>1. PICK a : a = SubSeq(c, 1, i)
    OBVIOUS
  <2> DEFINE s == [n \in 1 .. Len(a) |-> [tx |-> a[n].oracle, slot |-> n]]
             AnyRow == [tx : Nat, slot : Nat]
  <2>2. s \in Seq(AnyRow)
    <3>1. a \in Seq(Block) /\ Len(a) \in Nat
      BY <1>1, <2>1, CutParts
    <3>2. \A n \in 1 .. Len(a) : a[n].oracle \in Nat
      BY <3>1, BlockType
    <3> QED
      BY <3>1, <3>2
  <2>3. Only(s, Row) \in Seq(AnyRow \cap Row)
    <3> HIDE DEF s, AnyRow
    <3> QED
      BY <2>2, OnlyType
  <2>4. Only(s, Row) \in Seq(Row)
    <3> HIDE DEF s, AnyRow
    <3>1. AnyRow \cap Row \subseteq Row
      OBVIOUS
    <3> QED
      BY <2>3, <3>1, SeqMonotonic
  <2> QED
    BY <2>1, <2>4 DEF RowsTo, OracleRows
<1> QED
  BY <1>2, <1>3, <1>4, RowsEmpty DEF RowsTo

\* The rows up to slot m are those of the blocks up to it.
LEMMA RowsCut ==
  ASSUME NEW c \in Seq(Block), Len(c) <= MaxHeight, NEW m \in Nat
  PROVE  Only(OracleRows(c), {r \in Row : r.slot <= m})
             = RowsTo(c, IF Len(c) <= m THEN Len(c) ELSE m)
<1> DEFINE S == {r \in Row : r.slot <= m}
           To(i) == IF i <= m THEN i ELSE m
           Holds == {i \in 0 .. Len(c) : Only(RowsTo(c, i), S) = RowsTo(c, To(i))}
<1>1. Len(c) \in Nat /\ MaxHeight \in Nat /\ MaxTxs \in Nat
  BY StreamBounds
<1>2. /\ RowsTo(c, 0) = <<>>
      /\ RowsTo(c, Len(c)) = OracleRows(c)
      /\ \A i \in 1 .. Len(c) :
            RowsTo(c, i) = IF c[i].oracle # 0 THEN Append(RowsTo(c, i - 1), RowAt(c, i))
                           ELSE RowsTo(c, i - 1)
      /\ \A i \in 0 .. Len(c) : RowsTo(c, i) \in Seq(Row)
  BY RowsToDef
<1>3. 0 \in Holds
  <2>1. Only(RowsTo(c, 0), S) = <<>>
    <3> HIDE DEF S
    <3> QED
      BY <1>2, OnlyEmpty
  <2> QED
    BY <1>1, <1>2, <2>1
<1>4. ASSUME NEW i \in 1 .. Len(c), i - 1 \in Holds PROVE i \in Holds
  <2>1. i \in Nat /\ i - 1 \in Nat /\ i - 1 \in 0 .. Len(c) /\ i \in 0 .. Len(c)
    BY <1>1
  <2>2. Only(RowsTo(c, i - 1), S) = RowsTo(c, To(i - 1))
    BY <1>4
  <2>3. CASE c[i].oracle = 0
    <3>1. RowsTo(c, i) = RowsTo(c, i - 1)
      BY <1>2, <2>3
    <3>2. RowsTo(c, To(i)) = RowsTo(c, To(i - 1))
      <4>1. CASE i <= m
        <5>1. To(i) = i /\ To(i - 1) = i - 1
          BY <2>1, <4>1
        <5> QED
          BY <3>1, <5>1
      <4>2. CASE ~(i <= m)
        <5>1. To(i) = To(i - 1)
          BY <2>1, <4>2
        <5> QED
          BY <5>1
      <4> QED
        BY <4>1, <4>2
    <3> QED
      BY <2>1, <2>2, <3>1, <3>2
  <2>4. CASE c[i].oracle # 0
    <3>1. RowsTo(c, i) = Append(RowsTo(c, i - 1), RowAt(c, i))
      BY <1>2, <2>4
    <3>2. RowAt(c, i) \in Row /\ RowAt(c, i).slot = i
      <4>1. c[i].oracle \in 0 .. MaxTxs
        BY BlockType
      <4>2. c[i].oracle \in TxIds /\ i \in Heights
        BY <1>1, <2>1, <2>4, <4>1 DEF TxIds, Heights
      <4> QED
        BY <4>2 DEF Row, RowAt
    <3>3. RowAt(c, i) \in S <=> i <= m
      BY <3>2
    <3>4. RowsTo(c, i - 1) \in Seq(Row)
      BY <1>2, <2>1
    <3>5. Only(RowsTo(c, i), S) = IF RowAt(c, i) \in S THEN Append(Only(RowsTo(c, i - 1), S), RowAt(c, i))
                                  ELSE Only(RowsTo(c, i - 1), S)
      <4>1. PICK s \in Seq(Row) : s = RowsTo(c, i - 1)
        BY <3>4
      <4>2. PICK r \in Row : r = RowAt(c, i)
        BY <3>2
      <4>3. PICK R : R = S
        OBVIOUS
      <4>4. Only(Append(s, r), R) = IF r \in R THEN Append(Only(s, R), r) ELSE Only(s, R)
        BY OnlyAppend
      <4> HIDE DEF S
      <4> QED
        BY <3>1, <4>1, <4>2, <4>3, <4>4
    <3>6. CASE i <= m
      <4>1. To(i) = i /\ To(i - 1) = i - 1
        BY <2>1, <3>6
      <4>2. Only(RowsTo(c, i), S) = Append(RowsTo(c, i - 1), RowAt(c, i))
        <5>1. Only(RowsTo(c, i - 1), S) = RowsTo(c, i - 1)
          BY <2>2, <4>1
        <5>2. RowAt(c, i) \in S
          BY <3>3, <3>6
        <5> HIDE DEF S
        <5> QED
          BY <3>5, <5>1, <5>2
      <4> HIDE DEF S
      <4> QED
        BY <2>1, <3>1, <4>1, <4>2
    <3>7. CASE ~(i <= m)
      <4>1. To(i) = To(i - 1)
        BY <2>1, <3>7
      <4> HIDE DEF S, To
      <4> QED
        BY <2>1, <2>2, <3>3, <3>5, <3>7, <4>1
    <3> QED
      BY <3>6, <3>7
  <2> QED
    BY <2>3, <2>4
<1>5. 0 .. Len(c) \subseteq Holds
  <2> HIDE DEF Holds
  <2> QED
    BY <1>1, <1>3, <1>4, LengthInduction
<1>6. Only(RowsTo(c, Len(c)), S) = RowsTo(c, To(Len(c)))
  <2>1. Len(c) \in 0 .. Len(c)
    BY <1>1
  <2> QED
    BY <1>5, <2>1
<1> QED
  BY <1>2, <1>6

\* The transactions in the rows are those in the blocks.
LEMMA RowsHaveTxs ==
  ASSUME NEW c \in Seq(Block), Len(c) <= MaxHeight
  PROVE  /\ \A j \in 1 .. Len(OracleRows(c)) :
               \E n \in 1 .. Len(c) : c[n].oracle # 0 /\ OracleRows(c)[j].tx = c[n].oracle
         /\ \A n \in 1 .. Len(c) : c[n].oracle # 0 =>
               \E j \in 1 .. Len(OracleRows(c)) : OracleRows(c)[j].tx = c[n].oracle
<1> DEFINE Sound(i) == \A j \in 1 .. Len(RowsTo(c, i)) :
               \E n \in 1 .. i : c[n].oracle # 0 /\ RowsTo(c, i)[j].tx = c[n].oracle
           Full(i) == \A n \in 1 .. i : c[n].oracle # 0 =>
               \E j \in 1 .. Len(RowsTo(c, i)) : RowsTo(c, i)[j].tx = c[n].oracle
           Holds == {i \in 0 .. Len(c) : Sound(i) /\ Full(i)}
<1>1. Len(c) \in Nat /\ MaxHeight \in Nat /\ MaxTxs \in Nat
  BY StreamBounds
<1>2. /\ RowsTo(c, 0) = <<>>
      /\ RowsTo(c, Len(c)) = OracleRows(c)
      /\ \A i \in 1 .. Len(c) :
            RowsTo(c, i) = IF c[i].oracle # 0 THEN Append(RowsTo(c, i - 1), RowAt(c, i))
                           ELSE RowsTo(c, i - 1)
      /\ \A i \in 0 .. Len(c) : RowsTo(c, i) \in Seq(Row)
  BY RowsToDef
<1>3. 0 \in Holds
  <2>1. Len(RowsTo(c, 0)) = 0
    BY <1>2
  <2> QED
    BY <1>1, <2>1
<1>4. ASSUME NEW i \in 1 .. Len(c), i - 1 \in Holds PROVE i \in Holds
  <2>1. i \in Nat /\ i - 1 \in Nat /\ i - 1 \in 0 .. Len(c) /\ i \in 0 .. Len(c)
    BY <1>1
  <2>2. Sound(i - 1) /\ Full(i - 1)
    BY <1>4
  <2>3. CASE c[i].oracle = 0
    <3>1. RowsTo(c, i) = RowsTo(c, i - 1)
      BY <1>2, <2>3
    <3>2. Sound(i) /\ Full(i)
      BY <2>1, <2>2, <2>3, <3>1
    <3> QED
      BY <2>1, <3>2
  <2>4. CASE c[i].oracle # 0
    <3>1. PICK s : s = RowsTo(c, i - 1)
      OBVIOUS
    <3>2. PICK r : r = RowsTo(c, i)
      OBVIOUS
    <3>3. s \in Seq(Row) /\ r = Append(s, RowAt(c, i))
      BY <1>2, <2>1, <2>4, <3>1, <3>2
    <3>4. RowAt(c, i) \in Row /\ RowAt(c, i).tx = c[i].oracle
      <4>1. c[i].oracle \in 0 .. MaxTxs
        BY BlockType
      <4>2. c[i].oracle \in TxIds /\ i \in Heights
        BY <1>1, <2>1, <2>4, <4>1 DEF TxIds, Heights
      <4> QED
        BY <4>2 DEF Row, RowAt
    <3>5. /\ Len(r) = Len(s) + 1 /\ Len(s) \in Nat /\ r[Len(s) + 1] = RowAt(c, i)
          /\ \A k \in 1 .. Len(s) : r[k] = s[k]
      BY <3>3, <3>4, AppendParts
    <3>6. ASSUME NEW j \in 1 .. Len(r)
          PROVE  \E n \in 1 .. i : c[n].oracle # 0 /\ r[j].tx = c[n].oracle
      <4>1. CASE j = Len(s) + 1
        BY <2>1, <2>4, <3>4, <3>5, <4>1
      <4>2. CASE j \in 1 .. Len(s)
        <5>1. PICK n \in 1 .. i - 1 : c[n].oracle # 0 /\ s[j].tx = c[n].oracle
          BY <2>2, <3>1, <4>2
        <5>2. n \in 1 .. i
          BY <2>1, <5>1
        <5> QED
          BY <3>5, <4>2, <5>1, <5>2
      <4> QED
        BY <3>5, <4>1, <4>2
    <3>7. ASSUME NEW n \in 1 .. i, c[n].oracle # 0
          PROVE  \E j \in 1 .. Len(r) : r[j].tx = c[n].oracle
      <4>1. CASE n = i
        <5>1. Len(s) + 1 \in 1 .. Len(r)
          BY <3>5
        <5> QED
          BY <3>4, <3>5, <4>1, <5>1
      <4>2. CASE n # i
        <5>1. n \in 1 .. i - 1
          BY <2>1, <4>2
        <5>2. PICK j \in 1 .. Len(s) : s[j].tx = c[n].oracle
          BY <2>2, <3>1, <3>7, <5>1
        <5>3. j \in 1 .. Len(r)
          BY <3>5, <5>2
        <5> QED
          BY <3>5, <5>2, <5>3
      <4> QED
        BY <4>1, <4>2
    <3>8. Sound(i) /\ Full(i)
      BY <3>2, <3>6, <3>7
    <3> QED
      BY <2>1, <3>8
  <2> QED
    BY <2>3, <2>4
<1>5. 0 .. Len(c) \subseteq Holds
  <2> HIDE DEF Holds
  <2> QED
    BY <1>1, <1>3, <1>4, LengthInduction
<1>6. Sound(Len(c)) /\ Full(Len(c))
  <2>1. Len(c) \in 0 .. Len(c)
    BY <1>1
  <2> QED
    BY <1>5, <2>1
<1> QED
  BY <1>2, <1>6

\* The unspent output is of the last oracle transaction.
LEMMA UnspentIsLast ==
  ASSUME NEW c \in Seq(Block), Len(c) <= MaxHeight
  PROVE  \/ UnspentOf(c) = 0 /\ \A n \in 1 .. Len(c) : c[n].oracle = 0
         \/ \E j \in 1 .. Len(c) : /\ UnspentOf(c) = c[j].oracle /\ c[j].oracle # 0
                                   /\ \A n \in j + 1 .. Len(c) : c[n].oracle = 0
<1> DEFINE u(i) == IF RowsTo(c, i) = <<>> THEN 0 ELSE Last(RowsTo(c, i)).tx
           IsLast(i) == \/ u(i) = 0 /\ \A n \in 1 .. i : c[n].oracle = 0
                        \/ \E j \in 1 .. i : /\ u(i) = c[j].oracle /\ c[j].oracle # 0
                                             /\ \A n \in j + 1 .. i : c[n].oracle = 0
           Holds == {i \in 0 .. Len(c) : IsLast(i)}
<1>1. Len(c) \in Nat /\ MaxHeight \in Nat /\ MaxTxs \in Nat
  BY StreamBounds
<1>2. /\ RowsTo(c, 0) = <<>>
      /\ RowsTo(c, Len(c)) = OracleRows(c)
      /\ \A i \in 1 .. Len(c) :
            RowsTo(c, i) = IF c[i].oracle # 0 THEN Append(RowsTo(c, i - 1), RowAt(c, i))
                           ELSE RowsTo(c, i - 1)
      /\ \A i \in 0 .. Len(c) : RowsTo(c, i) \in Seq(Row)
  BY RowsToDef
<1>3. 0 \in Holds
  BY <1>1, <1>2
<1>4. ASSUME NEW i \in 1 .. Len(c), i - 1 \in Holds PROVE i \in Holds
  <2>1. i \in Nat /\ i - 1 \in Nat /\ i - 1 \in 0 .. Len(c) /\ i \in 0 .. Len(c)
    BY <1>1
  <2>2. CASE c[i].oracle = 0
    <3>1. u(i) = u(i - 1)
      BY <1>2, <2>2
    <3> HIDE DEF u
    <3>2. CASE u(i - 1) = 0 /\ \A n \in 1 .. i - 1 : c[n].oracle = 0
      <4>1. \A n \in 1 .. i : n = i \/ n \in 1 .. i - 1
        BY <2>1
      <4> QED
        BY <2>1, <2>2, <3>1, <3>2, <4>1
    <3>3. CASE \E j \in 1 .. i - 1 : /\ u(i - 1) = c[j].oracle /\ c[j].oracle # 0
                                     /\ \A n \in j + 1 .. i - 1 : c[n].oracle = 0
      <4>1. PICK j \in 1 .. i - 1 : /\ u(i - 1) = c[j].oracle /\ c[j].oracle # 0
                                    /\ \A n \in j + 1 .. i - 1 : c[n].oracle = 0
        BY <3>3
      <4>2. j \in 1 .. i /\ \A n \in j + 1 .. i : n = i \/ n \in j + 1 .. i - 1
        BY <2>1, <4>1
      <4>3. IsLast(i)
        BY <2>2, <3>1, <4>1, <4>2
      <4> QED
        BY <2>1, <4>3
    <3> QED
      BY <1>4, <3>2, <3>3
  <2>3. CASE c[i].oracle # 0
    <3>1. RowsTo(c, i) = Append(RowsTo(c, i - 1), RowAt(c, i)) /\ RowsTo(c, i - 1) \in Seq(Row)
      BY <1>2, <2>1, <2>3
    <3>2. RowAt(c, i) \in Row /\ RowAt(c, i).tx = c[i].oracle
      <4>1. c[i].oracle \in 0 .. MaxTxs
        BY BlockType
      <4>2. c[i].oracle \in TxIds /\ i \in Heights
        BY <1>1, <2>1, <2>3, <4>1 DEF TxIds, Heights
      <4> QED
        BY <4>2 DEF Row, RowAt
    <3>3. PICK r : r = RowsTo(c, i)
      OBVIOUS
    <3>4. PICK s \in Seq(Row) : r = Append(s, RowAt(c, i))
      BY <3>1, <3>3
    <3>5. Len(r) = Len(s) + 1 /\ r[Len(s) + 1] = RowAt(c, i) /\ Len(s) \in Nat /\ r \in Seq(Row)
      BY <3>2, <3>4, AppendParts
    <3>6. r # <<>> /\ Last(r) = RowAt(c, i)
      BY <3>5 DEF Last
    <3>7. u(i) = c[i].oracle
      BY <3>2, <3>3, <3>6
    <3>8. \A n \in i + 1 .. i : c[n].oracle = 0
      BY <2>1
    <3> HIDE DEF u
    <3> QED
      BY <2>1, <2>3, <3>7, <3>8
  <2> QED
    BY <2>2, <2>3
<1>5. 0 .. Len(c) \subseteq Holds
  <2> HIDE DEF Holds
  <2> QED
    BY <1>1, <1>3, <1>4, LengthInduction
<1>6. IsLast(Len(c))
  <2>1. Len(c) \in 0 .. Len(c)
    BY <1>1
  <2> QED
    BY <1>5, <2>1
<1>7. u(Len(c)) = UnspentOf(c)
  BY <1>2 DEF UnspentOf
<1> QED
  BY <1>6, <1>7

\* The rows of the first k blocks up to slot m.
LEMMA RowsToCut ==
  ASSUME NEW c \in Seq(Block), Len(c) <= MaxHeight, NEW k \in 0 .. Len(c), NEW m \in Nat
  PROVE  Only(RowsTo(c, k), {r \in Row : r.slot <= m}) = RowsTo(c, IF k <= m THEN k ELSE m)
<1>1. PICK d : d = SubSeq(c, 1, k)
  OBVIOUS
<1>2. d \in Seq(Block) /\ Len(d) = k /\ \A n \in 1 .. k : d[n] = c[n]
  BY <1>1, CutParts
<1>3. Len(c) \in Nat /\ MaxHeight \in Nat /\ k \in Nat
  BY StreamBounds
<1>4. Len(d) <= MaxHeight
  BY <1>2, <1>3
<1>5. Only(OracleRows(d), {r \in Row : r.slot <= m}) = RowsTo(d, IF Len(d) <= m THEN Len(d) ELSE m)
  BY <1>2, <1>4, RowsCut
<1>6. ASSUME NEW j \in 0 .. k PROVE RowsTo(d, j) = RowsTo(c, j)
  <2>1. PICK a : a = SubSeq(d, 1, j)
    OBVIOUS
  <2>2. PICK b : b = SubSeq(c, 1, j)
    OBVIOUS
  <2>3. a \in Seq(Block) /\ Len(a) = j /\ \A n \in 1 .. j : a[n] = d[n]
    BY <1>2, <2>1, CutParts
  <2>4. b \in Seq(Block) /\ Len(b) = j /\ \A n \in 1 .. j : b[n] = c[n]
    <3>1. j \in 0 .. Len(c)
      BY <1>3
    <3> QED
      BY <2>2, <3>1, CutParts
  <2>5. \A n \in 1 .. j : n \in 1 .. k
    BY <1>3
  <2>6. a = b
    BY <1>2, <2>3, <2>4, <2>5, SeqEqual
  <2> QED
    BY <2>1, <2>2, <2>6 DEF RowsTo
<1>7. (IF k <= m THEN k ELSE m) \in 0 .. k
  BY <1>3
<1>8. OracleRows(d) = RowsTo(c, k)
  BY <1>1 DEF RowsTo
<1> QED
  BY <1>2, <1>5, <1>6, <1>7, <1>8

-----------------------------------------------------------------------------
(* The chains that were followed.                                          *)

LEMMA FollowedType ==
  ASSUME CepInv, NEW c, Followed(c)
  PROVE  /\ c \in Seq(KnownBlock) /\ c \in Seq(Block) /\ Len(c) <= MaxHeight
         /\ Len(c) \in Nat /\ MaxHeight \in Nat
         /\ \A n \in 1 .. Len(c) : /\ c[n] \in KnownBlock /\ c[n].branch \in 0 .. MaxForks
                                   /\ c[n].branch \in Nat /\ c[n].oracle \in 0 .. Len(minted)
                                   /\ c[n].oracle \in 0 .. MaxTxs /\ c[n].oracle \in Nat
<1>1. c \in Seq(KnownBlock) /\ Len(c) <= MaxHeight
  BY DEF Followed
<1>2. c \in Seq(Block)
  <2>1. KnownBlock \subseteq Block
    BY DEF KnownBlock
  <2> QED
    BY <1>1, <2>1, SeqMonotonic, Zenon
<1>3. \A n \in 1 .. Len(c) : c[n] \in KnownBlock
  BY <1>1, ElementOfSeq
<1>4. Len(minted) \in Nat /\ MaxHeight \in Nat /\ MaxForks \in Nat /\ MaxTxs \in Nat
  BY StreamBounds DEF CepInv, TypeOK, StreamTypeOK
<1>5. \A n \in 1 .. Len(c) : /\ c[n].branch \in 0 .. MaxForks /\ c[n].branch \in Nat
                             /\ c[n].oracle \in 0 .. MaxTxs /\ c[n].oracle \in Nat
  BY <1>2, BlockType
<1>6. \A n \in 1 .. Len(c) : c[n].oracle <= Len(minted)
  BY <1>3 DEF KnownBlock
<1>7. \A n \in 1 .. Len(c) : c[n].oracle \in 0 .. Len(minted)
  BY <1>4, <1>5, <1>6
<1>8. Len(c) \in Nat
  BY <1>1
<1> QED
  BY <1>1, <1>2, <1>3, <1>4, <1>5, <1>7, <1>8

LEMMA PrefixFollowed ==
  ASSUME CepInv, NEW c, Followed(c), NEW m \in 0 .. Len(c), NEW d, d = SubSeq(c, 1, m)
  PROVE  Followed(d) /\ Len(d) = m /\ \A k \in 1 .. m : d[k] = c[k]
<1>1. /\ c \in Seq(KnownBlock) /\ Len(c) \in Nat /\ Len(c) <= MaxHeight /\ MaxHeight \in Nat
      /\ m \in Nat
  BY FollowedType
<1>2. d \in Seq(KnownBlock) /\ Len(d) = m /\ \A k \in 1 .. m : d[k] = c[k]
  BY <1>1, CutParts
<1>3. \A k \in 1 .. Len(d) : k \in 1 .. Len(c) /\ d[k] = c[k]
  BY <1>1, <1>2
<1>4. Ordered(d)
  <2> SUFFICES ASSUME NEW i \in 1 .. Len(d), NEW j \in 1 .. Len(d), i < j,
                      d[i].oracle # 0, d[j].oracle # 0
               PROVE  d[i].oracle < d[j].oracle
    BY DEF Ordered
  <2>1. i \in 1 .. Len(c) /\ j \in 1 .. Len(c) /\ d[i] = c[i] /\ d[j] = c[j]
    BY <1>3
  <2>2. Ordered(c)
    BY DEF Followed
  <2> QED
    BY <2>1, <2>2 DEF Ordered
<1>5. Linked(d)
  <2> SUFFICES ASSUME NEW n \in 1 .. Len(d), d[n].oracle # 0, minted[d[n].oracle].spends # 0
               PROVE  \E j \in 1 .. n - 1 : d[j].oracle = minted[d[n].oracle].spends
    BY DEF Linked
  <2>1. PICK j \in 1 .. n - 1 : c[j].oracle = minted[c[n].oracle].spends
    BY <1>3 DEF Linked, Followed
  <2>2. j \in 1 .. Len(d)
    BY <1>1, <1>2, <2>1
  <2> QED
    BY <1>3, <2>1, <2>2
<1>6. Forged(d)
  BY <1>3 DEF Forged, Followed
<1>7. Agree(d, chain)
  <2> SUFFICES ASSUME NEW n \in 1 .. Len(d), n <= Len(chain), d[n].branch = chain[n].branch,
                      NEW k \in 1 .. n
               PROVE  d[k] = chain[k]
    BY DEF Agree
  <2>1. c[k] = chain[k]
    BY <1>3 DEF Agree, Followed
  <2>2. k \in 1 .. Len(d)
    BY <1>1, <1>2
  <2> QED
    BY <1>3, <2>1, <2>2
<1>8. Len(d) <= MaxHeight
  BY <1>1, <1>2
<1>9. Followed(d)
  BY <1>2, <1>4, <1>5, <1>6, <1>7, <1>8 DEF Followed
<1> QED
  BY <1>2, <1>9

\* A chain that was followed stays one: the chain stays, grows by a block, or
\* switches to a fork.
LEMMA FollowedStays ==
  ASSUME CepInv, MintedKept, NEW c, Followed(c),
         \/ UNCHANGED <<chain, forks>>
         \/ UNCHANGED forks /\ \E b \in Block : b.branch = forks /\ chain' = Append(chain, b)
         \/ \E n \in 0 .. Len(chain) : chain' = SubSeq(chain, 1, n) /\ forks' = forks + 1
  PROVE  Followed(c)'
<1>1. /\ c \in Seq(KnownBlock) /\ Len(c) \in Nat /\ Len(c) <= MaxHeight /\ MaxHeight \in Nat
      /\ \A n \in 1 .. Len(c) : /\ c[n].branch \in Nat /\ c[n].oracle \in 0 .. Len(minted)
                                /\ c[n].oracle \in Nat
  BY FollowedType
<1>2. chain \in Seq(Block) /\ Len(chain) \in Nat /\ forks \in Nat /\ Len(minted) \in Nat
  <2>1. MaxForks \in Nat
    BY StreamBounds
  <2>2. chain \in Seq(Block) /\ forks \in 0 .. MaxForks
    BY DEF CepInv, TypeOK, StreamTypeOK
  <2>3. Len(minted) \in Nat
    BY StreamBounds DEF CepInv, TypeOK, StreamTypeOK
  <2> QED
    BY <2>1, <2>2, <2>3
<1>3. c \in Seq(KnownBlock')
  BY <1>1, KnownStaysKnown, Zenon
<1>4. Ordered(c)
  BY DEF Followed
<1>5. Linked(c)'
  <2>1. \A n \in 1 .. Len(c) : c[n].oracle # 0 => minted'[c[n].oracle] = minted[c[n].oracle]
    <3>1. \A t \in 1 .. Len(minted) : minted'[t] = minted[t]
      BY KnownStaysKnown
    <3>2. \A n \in 1 .. Len(c) : c[n].oracle # 0 => c[n].oracle \in 1 .. Len(minted)
      BY <1>1, <1>2
    <3> QED
      BY <3>1, <3>2
  <2> QED
    BY <2>1 DEF Linked, Followed
<1>6. Forged(c) /\ Agree(c, chain)
  BY DEF Followed
<1>7. Forged(c)' /\ Agree(c, chain')
  <2>1. CASE UNCHANGED <<chain, forks>>
    BY <1>6, <2>1 DEF Forged
  <2>2. CASE UNCHANGED forks /\ \E b \in Block : b.branch = forks /\ chain' = Append(chain, b)
    <3>1. PICK b \in Block : b.branch = forks /\ chain' = Append(chain, b)
      BY <2>2
    <3>2. /\ Len(chain') = Len(chain) + 1 /\ chain'[Len(chain) + 1] = b
          /\ \A n \in 1 .. Len(chain) : chain'[n] = chain[n]
      BY <1>2, <3>1, AppendProperties
    <3>3. Forged(c)'
      BY <1>1, <1>2, <1>6, <2>2, <3>2 DEF Forged
    <3>4. ASSUME NEW n \in 1 .. Len(c), n <= Len(chain'), c[n].branch = chain'[n].branch,
                 NEW k \in 1 .. n
          PROVE  c[k] = chain'[k]
      <4>1. n <= Len(chain)
        <5>1. CASE n = Len(chain) + 1
          BY <1>2, <1>6, <3>1, <3>2, <3>4, <5>1 DEF Forged
        <5> QED
          BY <1>2, <3>2, <3>4, <5>1
      <4>2. n \in 1 .. Len(chain) /\ k \in 1 .. Len(chain)
        BY <1>2, <4>1
      <4> QED
        BY <1>6, <3>2, <3>4, <4>1, <4>2 DEF Agree
    <3> QED
      BY <3>3, <3>4 DEF Agree
  <2>3. CASE \E n \in 0 .. Len(chain) : chain' = SubSeq(chain, 1, n) /\ forks' = forks + 1
    <3>1. PICK m \in 0 .. Len(chain) : chain' = SubSeq(chain, 1, m) /\ forks' = forks + 1
      BY <2>3
    <3>2. Len(chain') = m /\ \A k \in 1 .. m : chain'[k] = chain[k]
      BY <1>2, <3>1, CutParts
    <3>3. Forged(c)'
      BY <1>1, <1>2, <1>6, <3>1 DEF Forged
    <3>4. ASSUME NEW n \in 1 .. Len(c), n <= Len(chain'), c[n].branch = chain'[n].branch,
                 NEW k \in 1 .. n
          PROVE  c[k] = chain'[k]
      <4>1. n <= Len(chain) /\ n \in 1 .. m /\ k \in 1 .. m
        BY <1>2, <3>1, <3>2, <3>4
      <4> QED
        BY <1>6, <3>2, <3>4, <4>1 DEF Agree
    <3> QED
      BY <3>3, <3>4 DEF Agree
  <2> QED
    BY <2>1, <2>2, <2>3
<1> QED
  BY <1>1, <1>3, <1>4, <1>5, <1>7 DEF Followed, Ordered, Agree

\* A new block's oracle transaction spends the output that is unspent, so it
\* was minted after every other on the chain.
LEMMA ChainGrows ==
  ASSUME CepInv, MintedKept, Followed(chain), Len(chain) < MaxHeight, UNCHANGED forks,
         NEW other \in BOOLEAN, NEW t \in 0 .. MaxTxs, t <= Len(minted'), Extend(other, t),
         t # 0 => minted'[t].spends = UnspentOf(chain) /\ UnspentOf(chain) < t
  PROVE  Followed(chain)'
<1> DEFINE b == [branch |-> forks, other |-> other, oracle |-> t]
<1>1. PICK c : c = chain
  OBVIOUS
<1>2. PICK d : d = chain'
  OBVIOUS
<1>3. PICK u : u = UnspentOf(c)
  OBVIOUS
<1>4. /\ c \in Seq(KnownBlock) /\ c \in Seq(Block) /\ Len(c) \in Nat /\ Len(c) <= MaxHeight
      /\ MaxHeight \in Nat
      /\ \A n \in 1 .. Len(c) : c[n].oracle \in 0 .. Len(minted) /\ c[n].oracle \in Nat
  BY <1>1, FollowedType
<1>5. forks \in 0 .. MaxForks /\ forks \in Nat /\ Len(minted) \in Nat /\ t \in Nat
  BY StreamBounds DEF CepInv, TypeOK, StreamTypeOK
<1>6. Followed(c)'
  <2>1. b \in Block /\ b.branch = forks /\ chain' = Append(chain, b)
    BY <1>5 DEF Block, Extend
  <2>2. \E x \in Block : x.branch = forks /\ chain' = Append(chain, x)
    BY <2>1
  <2>3. Followed(c)
    BY <1>1
  <2> HIDE DEF b
  <2> QED
    BY <2>2, <2>3, FollowedStays
<1>7. b \in KnownBlock'
  BY <1>5 DEF KnownBlock, Block
<1>8. c \in Seq(KnownBlock')
  BY <1>6 DEF Followed
<1>9. b.branch = forks /\ b.oracle = t
  OBVIOUS
<1>10. d = Append(c, b)
  BY <1>1, <1>2 DEF Extend
<1> HIDE DEF b
<1>11. /\ d \in Seq(KnownBlock') /\ Len(d) = Len(c) + 1 /\ d[Len(c) + 1] = b
       /\ \A k \in 1 .. Len(c) : d[k] = c[k]
  <2>1. PICK T : T = KnownBlock'
    OBVIOUS
  <2> QED
    BY <1>7, <1>8, <1>10, <2>1, AppendParts
<1>12. u \in Nat /\ (t # 0 => minted'[t].spends = u /\ u < t)
  <2>1. UnspentOf(chain) \in 0 .. MaxTxs /\ MaxTxs \in Nat
    BY UnspentType, StreamBounds
  <2> QED
    BY <1>1, <1>3, <2>1
<1>13. \/ u = 0 /\ \A n \in 1 .. Len(c) : c[n].oracle = 0
       \/ \E j \in 1 .. Len(c) : /\ u = c[j].oracle /\ c[j].oracle # 0
                                 /\ \A n \in j + 1 .. Len(c) : c[n].oracle = 0
  BY <1>3, <1>4, UnspentIsLast
<1>14. Ordered(c) /\ Linked(c)' /\ Forged(c)' /\ Agree(c, chain')
  BY <1>6 DEF Followed, Ordered, Agree
<1>15. t # 0 => \A n \in 1 .. Len(c) : c[n].oracle < t
  <2> SUFFICES ASSUME t # 0, NEW n \in 1 .. Len(c) PROVE c[n].oracle < t
    OBVIOUS
  <2>1. CASE c[n].oracle = 0
    BY <1>5, <2>1
  <2>2. CASE c[n].oracle # 0
    <3>1. PICK j \in 1 .. Len(c) : /\ u = c[j].oracle /\ c[j].oracle # 0
                                   /\ \A k \in j + 1 .. Len(c) : c[k].oracle = 0
      BY <1>13, <2>2
    <3>2. n <= j
      <4>1. CASE n > j
        BY <1>4, <2>2, <3>1, <4>1
      <4> QED
        BY <4>1
    <3>3. c[n].oracle <= c[j].oracle
      <4>1. CASE n = j
        BY <1>4, <4>1
      <4>2. CASE n < j
        BY <1>4, <1>14, <2>2, <3>1, <4>2 DEF Ordered
      <4> QED
        BY <3>2, <4>1, <4>2
    <3> QED
      BY <1>4, <1>5, <1>12, <3>1, <3>3
  <2> QED
    BY <2>1, <2>2
<1>16. \A n \in 1 .. Len(d) : n \in 1 .. Len(c) \/ n = Len(c) + 1
  BY <1>4, <1>11
<1>17. Ordered(d)
  <2> SUFFICES ASSUME NEW i \in 1 .. Len(d), NEW j \in 1 .. Len(d),
                      i < j, d[i].oracle # 0, d[j].oracle # 0
               PROVE  d[i].oracle < d[j].oracle
    BY DEF Ordered
  <2>1. i \in 1 .. Len(c)
    BY <1>4, <1>11
  <2>2. CASE j \in 1 .. Len(c)
    BY <1>11, <1>14, <2>1, <2>2 DEF Ordered
  <2>3. CASE j = Len(c) + 1
    BY <1>9, <1>11, <1>15, <2>1, <2>3
  <2> QED
    BY <1>16, <2>2, <2>3
<1>18. Linked(d)'
  <2> SUFFICES ASSUME NEW n \in 1 .. Len(d), d[n].oracle # 0, minted'[d[n].oracle].spends # 0
               PROVE  \E j \in 1 .. n - 1 : d[j].oracle = minted'[d[n].oracle].spends
    BY DEF Linked
  <2>1. CASE n \in 1 .. Len(c)
    <3>1. PICK j \in 1 .. n - 1 : c[j].oracle = minted'[c[n].oracle].spends
      BY <1>11, <1>14, <2>1 DEF Linked
    <3>2. j \in 1 .. Len(c)
      BY <1>4, <2>1
    <3> QED
      BY <1>11, <2>1, <3>1, <3>2
  <2>2. CASE n = Len(c) + 1
    <3>1. minted'[d[n].oracle].spends = u /\ u # 0
      BY <1>9, <1>11, <1>12, <2>2
    <3>2. PICK j \in 1 .. Len(c) : u = c[j].oracle
      BY <1>13, <3>1
    <3>3. j \in 1 .. n - 1 /\ d[j] = c[j]
      BY <1>4, <1>11, <2>2
    <3> QED
      BY <3>1, <3>2, <3>3
  <2> QED
    BY <1>16, <2>1, <2>2
<1>19. Forged(d)'
  <2> SUFFICES ASSUME NEW n \in 1 .. Len(d)
               PROVE  d[n].branch <= forks /\ (d[n].branch = forks => n <= Len(d))
    BY <1>2 DEF Forged
  <2>1. CASE n \in 1 .. Len(c)
    BY <1>2, <1>4, <1>11, <1>14, <2>1 DEF Forged
  <2>2. CASE n = Len(c) + 1
    BY <1>4, <1>5, <1>9, <1>11, <2>2
  <2> QED
    BY <1>16, <2>1, <2>2
<1>20. Agree(d, d)
  BY DEF Agree
<1>21. Len(d) <= MaxHeight
  BY <1>1, <1>4, <1>11
<1> QED
  BY <1>2, <1>11, <1>17, <1>18, <1>19, <1>20, <1>21 DEF Followed, Ordered, Agree, Linked, Forged

-----------------------------------------------------------------------------
(* The places behind the queue.                                            *)

LEMMA PathParts ==
  ASSUME NEW m \in Seq(Event), NEW q, Path(m, q)
  PROVE  /\ Len(m) \in Nat /\ Len(q) = Len(m) + 1 /\ q \in Seq(Place)
         /\ 1 \in 1 .. Len(q) /\ Len(q) \in 1 .. Len(q)
         /\ \A i \in 1 .. Len(q) : /\ q[i] \in Place /\ q[i].blocks \in Seq(Block)
                                   /\ Len(q[i].blocks) \in Nat /\ q[i].left \in 0 .. 2
<1>1. Len(m) \in Nat /\ Len(q) = Len(m) + 1 /\ q \in Seq(Place)
  BY DEF Path
<1>2. \A i \in 1 .. Len(q) : q[i] \in Place
  BY <1>1, ElementOfSeq
<1>3. \A i \in 1 .. Len(q) : q[i].blocks \in Seq(Block) /\ q[i].left \in 0 .. 2
  BY <1>2 DEF Place
<1>4. \A i \in 1 .. Len(q) : Len(q[i].blocks) \in Nat
  BY <1>3, LenProperties
<1> QED
  BY <1>1, <1>2, <1>3, <1>4

\* An event is added.
LEMMA PathGrows ==
  ASSUME NEW m \in Seq(Event), NEW q, Path(m, q), NEW e \in Event, NEW r \in Place,
         Followed(r.blocks), Passes(e, q[Len(q)], r)
  PROVE  /\ Path(Append(m, e), Append(q, r)) /\ Append(m, e) \in Seq(Event)
         /\ Append(q, r)[Len(Append(q, r))] = r
         /\ \A i \in 1 .. Len(q) : Append(q, r)[i] = q[i]
<1>1. PICK n : n = Append(m, e)
  OBVIOUS
<1>2. PICK p : p = Append(q, r)
  OBVIOUS
<1>3. Len(m) \in Nat /\ Len(q) = Len(m) + 1 /\ q \in Seq(Place)
  BY PathParts
<1>4. /\ n \in Seq(Event) /\ Len(n) = Len(m) + 1 /\ n[Len(m) + 1] = e
      /\ \A i \in 1 .. Len(m) : n[i] = m[i]
  BY <1>1, AppendParts
<1>5. /\ p \in Seq(Place) /\ Len(p) = Len(q) + 1 /\ p[Len(q) + 1] = r
      /\ \A i \in 1 .. Len(q) : p[i] = q[i]
  BY <1>2, <1>3, AppendParts
<1>6. \A i \in 1 .. Len(p) : Followed(p[i].blocks)
  <2> TAKE i \in 1 .. Len(p)
  <2>1. CASE i \in 1 .. Len(q)
    BY <1>5, <2>1 DEF Path
  <2>2. CASE i = Len(q) + 1
    BY <1>5, <2>2
  <2> QED
    BY <1>3, <1>5, <2>1, <2>2
<1>7. \A i \in 1 .. Len(n) : Passes(n[i], p[i], p[i + 1])
  <2> TAKE i \in 1 .. Len(n)
  <2>1. CASE i \in 1 .. Len(m)
    <3>1. i \in 1 .. Len(q) /\ i + 1 \in 1 .. Len(q)
      BY <1>3, <2>1
    <3>2. Passes(m[i], q[i], q[i + 1])
      BY <2>1 DEF Path
    <3> QED
      BY <1>4, <1>5, <2>1, <3>1, <3>2
  <2>2. CASE i = Len(m) + 1
    <3>1. i \in 1 .. Len(q) /\ i = Len(q)
      BY <1>3, <2>2
    <3> QED
      BY <1>4, <1>5, <2>2, <3>1
  <2> QED
    BY <1>3, <1>4, <2>1, <2>2
<1>8. Len(p) = Len(n) + 1
  BY <1>3, <1>4, <1>5
<1> QED
  BY <1>1, <1>2, <1>4, <1>5, <1>6, <1>7, <1>8 DEF Path

LEMMA RouteStays ==
  ASSUME NEW q, Route(q), \A c : Followed(c) => Followed(c)', UNCHANGED <<mailbox, view>>
  PROVE  Route(q)'
BY DEF Route, Path

\* The event at the head is handled.
LEMMA RouteAdvances ==
  ASSUME mailbox \in Seq(Event), mailbox # <<>>, NEW q, Route(q),
         \A c : Followed(c) => Followed(c)', mailbox' = Tail(mailbox), UNCHANGED view
  PROVE  Route(Tail(q))' /\ Tail(q)[1] = q[2]
<1>1. PICK m : m = mailbox
  OBVIOUS
<1>2. PICK n : n = Tail(m)
  OBVIOUS
<1>3. PICK p : p = Tail(q)
  OBVIOUS
<1>4. Path(m, q) /\ m \in Seq(Event) /\ m # <<>>
  BY <1>1 DEF Route
<1>5. Len(m) \in Nat /\ Len(q) = Len(m) + 1 /\ q \in Seq(Place)
  BY <1>4, PathParts
<1>6. n \in Seq(Event) /\ Len(n) = Len(m) - 1 /\ Len(m) > 0 /\ \A i \in 1 .. Len(n) : n[i] = m[i + 1]
  BY <1>2, <1>4, HeadTail
<1>7. p \in Seq(Place) /\ Len(p) = Len(q) - 1 /\ \A i \in 1 .. Len(p) : p[i] = q[i + 1]
  <2>1. q # <<>>
    BY <1>5, <1>6
  <2> QED
    BY <1>3, <1>5, <2>1, HeadTail
<1>8. \A i \in 1 .. Len(p) : i + 1 \in 1 .. Len(q) /\ p[i] = q[i + 1]
  BY <1>5, <1>7
<1>9. \A i \in 1 .. Len(p) : Followed(p[i].blocks)'
  <2>1. \A i \in 1 .. Len(q) : Followed(q[i].blocks)
    BY <1>4 DEF Path
  <2>2. \A i \in 1 .. Len(p) : Followed(p[i].blocks)
    BY <1>8, <2>1
  <2> QED
    BY <2>2
<1>10. \A i \in 1 .. Len(n) : Passes(n[i], p[i], p[i + 1])
  <2> TAKE i \in 1 .. Len(n)
  <2>1. i \in 1 .. Len(p) /\ i + 1 \in 1 .. Len(p) /\ i + 1 \in 1 .. Len(m)
    BY <1>5, <1>6, <1>7
  <2>2. Passes(m[i + 1], q[i + 1], q[i + 1 + 1])
    BY <1>4, <2>1 DEF Path
  <2> QED
    BY <1>6, <1>8, <2>1, <2>2
<1>11. p[Len(p)] = [blocks |-> view, left |-> 0]
  <2>1. Len(p) \in 1 .. Len(p) /\ Len(p) + 1 = Len(q)
    BY <1>5, <1>6, <1>7
  <2> QED
    BY <1>8, <2>1 DEF Route
<1>12. p[1] = q[2]
  <2>1. 1 \in 1 .. Len(p) /\ 1 + 1 = 2
    BY <1>5, <1>6, <1>7
  <2> QED
    BY <1>8, <2>1
<1>13. Len(p) = Len(n) + 1
  BY <1>5, <1>6, <1>7
<1> QED
  BY <1>1, <1>2, <1>3, <1>7, <1>9, <1>10, <1>11, <1>12, <1>13 DEF Route, Path

\* The transactions of a block: its oracle transaction is the last.
LEMMA TxsAre ==
  ASSUME NEW b \in Block
  PROVE  \/ Len(TxsOf(b)) = 0 /\ b.oracle = 0
         \/ Len(TxsOf(b)) = 1 /\ TxsOf(b)[1] = b.oracle
         \/ Len(TxsOf(b)) = 2 /\ TxsOf(b)[1] = 0 /\ TxsOf(b)[2] = b.oracle
<1>1. CASE b.other /\ b.oracle # 0
  <2>1. TxsOf(b) = <<0>> \o <<b.oracle>>
    BY <1>1 DEF TxsOf
  <2>2. <<0>> \in Seq(0 .. MaxTxs) /\ <<b.oracle>> \in Seq(0 .. MaxTxs)
    BY StreamBounds DEF Block
  <2>3. /\ Len(TxsOf(b)) = 2
        /\ \A i \in 1 .. 2 : TxsOf(b)[i] = IF i <= 1 THEN <<0>>[i] ELSE <<b.oracle>>[i - 1]
    BY <2>1, <2>2, ConcatProperties
  <2> QED
    BY <2>3
<1>2. CASE b.other /\ b.oracle = 0
  BY <1>2 DEF TxsOf
<1>3. CASE ~b.other /\ b.oracle # 0
  BY <1>3 DEF TxsOf
<1>4. CASE ~b.other /\ b.oracle = 0
  BY <1>4 DEF TxsOf
<1> QED
  BY <1>1, <1>2, <1>3, <1>4

LEMMA ConcatIsAppends ==
  ASSUME NEW T, NEW m \in Seq(T), NEW e \in T, NEW f, NEW n \in 0 .. 2,
         f = [i \in 1 .. n |-> f[i]], \A i \in 1 .. n : f[i] \in T
  PROVE  /\ n = 0 => m \o <<e>> \o f = Append(m, e)
         /\ n = 1 => m \o <<e>> \o f = Append(Append(m, e), f[1])
         /\ n = 2 => m \o <<e>> \o f = Append(Append(Append(m, e), f[1]), f[2])
<1>1. m \o <<e>> = Append(m, e)
  OBVIOUS
<1>2. PICK a : a = Append(m, e)
  OBVIOUS
<1>3. a \in Seq(T)
  BY <1>2, AppendParts
<1>4. CASE n = 0
  <2>1. f = <<>>
    BY <1>4
  <2> QED
    BY <1>1, <1>2, <1>3, <1>4, <2>1
<1>5. CASE n = 1
  <2>1. f = <<f[1]>>
    BY <1>5
  <2>2. a \o <<f[1]>> = Append(a, f[1])
    BY <1>3, <1>5
  <2> QED
    BY <1>1, <1>2, <1>5, <2>1, <2>2
<1>6. CASE n = 2
  <2>1. PICK x \in T : x = f[1]
    BY <1>6
  <2>2. PICK y \in T : y = f[2]
    BY <1>6
  <2>3. f = <<x, y>>
    BY <1>6, <2>1, <2>2
  <2>4. a \o <<x, y>> = Append(Append(a, x), y)
    <3>1. PICK c : c = a \o <<x, y>>
      OBVIOUS
    <3>2. PICK d : d = Append(a, x)
      OBVIOUS
    <3>3. PICK g : g = Append(d, y)
      OBVIOUS
    <3>4. <<x, y>> \in Seq(T) /\ Len(<<x, y>>) = 2 /\ <<x, y>>[1] = x /\ <<x, y>>[2] = y
      OBVIOUS
    <3>5. /\ d \in Seq(T) /\ Len(d) = Len(a) + 1 /\ Len(a) \in Nat /\ d[Len(a) + 1] = x
          /\ \A k \in 1 .. Len(a) : d[k] = a[k]
      BY <1>3, <3>2, AppendParts
    <3>6. /\ g \in Seq(T) /\ Len(g) = Len(d) + 1 /\ g[Len(d) + 1] = y
          /\ \A k \in 1 .. Len(d) : g[k] = d[k]
      BY <3>3, <3>5, AppendParts
    <3>7. /\ c \in Seq(T) /\ Len(c) = Len(a) + 2
          /\ \A k \in 1 .. Len(a) : c[k] = a[k]
          /\ c[Len(a) + 1] = x /\ c[Len(a) + 2] = y
      <4>1. PICK s \in Seq(T) : s = <<x, y>>
        BY <3>4
      <4>2. Len(s) = 2 /\ s[1] = x /\ s[2] = y /\ c = a \o s
        BY <3>1, <3>4, <4>1
      <4>3. /\ c \in Seq(T) /\ Len(c) = Len(a) + Len(s)
            /\ \A k \in 1 .. Len(a) : c[k] = a[k]
            /\ \A k \in 1 .. Len(s) : c[Len(a) + k] = s[k]
        BY <1>3, <4>1, <4>2, ConcatParts
      <4>4. 1 \in 1 .. Len(s) /\ 2 \in 1 .. Len(s)
        BY <4>2
      <4> QED
        BY <4>2, <4>3, <4>4
    <3>8. \A k \in 1 .. Len(c) : k \in 1 .. Len(a) \/ k = Len(a) + 1 \/ k = Len(a) + 2
      BY <3>5, <3>7
    <3>9. \A k \in 1 .. Len(c) : c[k] = g[k]
      <4> TAKE k \in 1 .. Len(c)
      <4>1. CASE k \in 1 .. Len(a)
        <5>1. k \in 1 .. Len(d)
          BY <3>5, <4>1
        <5> QED
          BY <3>5, <3>6, <3>7, <4>1, <5>1
      <4>2. CASE k = Len(a) + 1
        <5>1. k \in 1 .. Len(d)
          BY <3>5, <4>2
        <5> QED
          BY <3>5, <3>6, <3>7, <4>2, <5>1
      <4>3. CASE k = Len(a) + 2
        <5>1. k = Len(d) + 1
          BY <3>5, <4>3
        <5> QED
          BY <3>6, <3>7, <4>3, <5>1
      <4> QED
        BY <3>8, <4>1, <4>2, <4>3
    <3>10. c = g
      <4>1. Len(c) = Len(g)
        BY <3>5, <3>6, <3>7
      <4> QED
        BY <3>6, <3>7, <3>9, <4>1, SeqEqual
    <3> QED
      BY <3>1, <3>2, <3>3, <3>10
  <2> QED
    BY <1>1, <1>2, <1>6, <2>1, <2>2, <2>3, <2>4
<1> QED
  BY <1>4, <1>5, <1>6

LEMMA FollowedSame ==
  ASSUME UNCHANGED <<chain, forks, minted>>
  PROVE  \A c : Followed(c) <=> Followed(c)'
BY DEF Followed, Ordered, Agree, Linked, Forged, KnownBlock

LEMMA SendBlockRoute ==
  ASSUME CepInv, Followed(chain), SendBlock, NEW q, Route(q)
  PROVE  \E p : Route(p)' /\ \A i \in 1 .. Len(q) : p[i] = q[i]
<1>1. PICK m : m = mailbox
  OBVIOUS
<1>2. PICK v : v = view
  OBVIOUS
<1>3. PICK c : c = chain
  OBVIOUS
<1>4. PICK b : b = c[Len(v) + 1]
  OBVIOUS
<1>5. PICK w : w = Append(v, b)
  OBVIOUS
<1>6. /\ m \in Seq(Event) /\ v \in Seq(Block) /\ Len(v) \in Nat /\ Followed(c) /\ tip \in BOOLEAN
      /\ MaxForks \in Nat
  BY <1>1, <1>2, <1>3, StreamBounds DEF CepInv, TypeOK, StreamTypeOK
<1>7. /\ c \in Seq(Block) /\ Len(c) \in Nat /\ Len(c) <= MaxHeight /\ MaxHeight \in Nat
  BY <1>6, FollowedType
<1>8. IsStrictPrefix(v, c)
  BY <1>2, <1>3 DEF SendBlock
<1>9. Len(v) < Len(c) /\ v = SubSeq(c, 1, Len(v))
  <2>1. Len(v) < Len(c)
    BY <1>6, <1>7, <1>8, StrictPrefixShorter
  <2>2. IsPrefix(v, c)
    BY <1>8 DEF IsStrictPrefix
  <2>3. SubSeq(v, 1, Len(v)) = SubSeq(c, 1, Len(v))
    BY <2>2 DEF IsPrefix
  <2>4. SubSeq(v, 1, Len(v)) = v
    BY <1>6, SubSeqFull
  <2> QED
    BY <2>1, <2>3, <2>4
<1>10. Len(v) \in 0 .. Len(c) /\ Len(v) + 1 \in 0 .. Len(c) /\ Len(v) + 1 \in 1 .. Len(c)
  BY <1>6, <1>7, <1>9
<1>11. b \in Block
  BY <1>4, <1>7, <1>10, ElementOfSeq
<1>12. /\ w \in Seq(Block) /\ Len(w) = Len(v) + 1 /\ w[Len(v) + 1] = b
       /\ \A k \in 1 .. Len(v) : w[k] = v[k]
  BY <1>5, <1>6, <1>11, AppendParts
<1>13. Followed(w)
  <2>1. PICK d : d = SubSeq(c, 1, Len(v) + 1)
    OBVIOUS
  <2>2. Followed(d) /\ Len(d) = Len(v) + 1 /\ \A k \in 1 .. Len(v) + 1 : d[k] = c[k]
    BY <1>6, <1>10, <2>1, PrefixFollowed
  <2>3. \A k \in 1 .. Len(v) : v[k] = c[k]
    BY <1>7, <1>9, <1>10, CutParts
  <2>4. \A k \in 1 .. Len(v) + 1 : k \in 1 .. Len(v) \/ k = Len(v) + 1
    BY <1>6
  <2>5. \A k \in 1 .. Len(w) : w[k] = d[k]
    BY <1>4, <1>12, <2>2, <2>3, <2>4
  <2>6. d \in Seq(Block)
    BY <2>2, FollowedType
  <2>7. w = d
    BY <1>12, <2>2, <2>5, <2>6, SeqEqual
  <2> QED
    BY <2>2, <2>7
<1> DEFINE at == <<Len(v) + 1, b.branch>>
           txs == TxsOf(b)
           Block1(r) == [kind |-> "block", at |-> at, n |-> Len(txs), tip |-> r]
           Tx1(r, t) == [kind |-> "tx", at |-> at, tx |-> t, tip |-> r]
           Rest(r) == [i \in 1 .. Len(txs) |-> Tx1(r, txs[i])]
           P(k) == [blocks |-> w, left |-> k]
<1>14. PointAt(chain, Len(view) + 1) = at
  BY <1>2, <1>3, <1>4, <1>6 DEF PointAt
<1>15. PICK r \in {tip, tip'} : mailbox' = m \o <<Block1(r)>> \o Rest(r)
  BY <1>1, <1>2, <1>3, <1>4, <1>14 DEF SendBlock
<1>16. r \in BOOLEAN /\ view' = w /\ UNCHANGED <<chain, forks, minted>>
  BY <1>2, <1>3, <1>4, <1>5, <1>6, <1>15 DEF SendBlock, chainVars
<1>17. at \in Points /\ b.oracle \in 0 .. MaxTxs /\ 0 \in 0 .. MaxTxs /\ MaxTxs \in Nat
  <2> HIDE DEF txs, Block1, Tx1, Rest, P
  <2>1. MaxTxs \in Nat /\ 0 \in 0 .. MaxTxs
    BY StreamBounds
  <2>2. b.oracle \in 0 .. MaxTxs /\ b.branch \in 0 .. MaxForks
    BY <1>11 DEF Block
  <2>3. Len(v) + 1 \in 0 .. MaxHeight
    BY <1>6, <1>7, <1>10
  <2> QED
    BY <2>1, <2>2, <2>3 DEF Points
<1>18. Len(txs) \in 0 .. 2
  <2> HIDE DEF at, Block1, Tx1, Rest, P
  <2> QED
    BY <1>17, TxsType
<1>19. Block1(r) \in Event /\ \A t \in 0 .. MaxTxs : Tx1(r, t) \in Event
  <2> HIDE DEF at, txs
  <2> QED
    BY <1>16, <1>17, <1>18 DEF Event
<1>20. \A k \in 0 .. 2 : P(k) \in Place /\ Followed(P(k).blocks)
  BY <1>12, <1>13 DEF Place
<1>21. q[Len(q)] = [blocks |-> v, left |-> 0] /\ Path(m, q) /\ Len(q) \in Nat /\ Len(q) > 0
  <2>1. q[Len(q)] = [blocks |-> v, left |-> 0] /\ Path(m, q)
    BY <1>1, <1>2 DEF Route
  <2> QED
    BY <1>6, <2>1, PathParts
<1>22. Passes(Block1(r), q[Len(q)], P(Len(txs)))
  <2>1. PassesBlock(Block1(r), q[Len(q)], P(Len(txs)))
    BY <1>5, <1>11, <1>21 DEF PassesBlock
  <2> QED
    BY <2>1 DEF Passes
<1>23. ASSUME NEW k \in 1 .. 2, NEW t, t = IF k = 1 THEN b.oracle ELSE 0
       PROVE  Passes(Tx1(r, t), P(k), P(k - 1))
  <2>1. PassesTx(Tx1(r, t), P(k), P(k - 1))
    BY <1>6, <1>12, <1>23 DEF PassesTx
  <2> QED
    BY <2>1 DEF Passes
<1>24. ASSUME NEW n, NEW p, Path(n, p), n \in Seq(Event), mailbox' = n,
              p[Len(p)] = P(0), \A i \in 1 .. Len(q) : p[i] = q[i]
       PROVE  \E x : Route(x)' /\ \A i \in 1 .. Len(q) : x[i] = q[i]
  <2>1. Path(n, p)'
    <3>1. \A c1 : Followed(c1) => Followed(c1)'
      BY <1>16, FollowedSame
    <3> QED
      BY <1>24, <3>1 DEF Path
  <2>2. Route(p)'
    BY <1>16, <1>24, <2>1 DEF Route
  <2> QED
    BY <1>24, <2>2
<1> HIDE DEF at
<1>25. PICK f : f = Rest(r)
  OBVIOUS
<1>26. PICK e \in Event : e = Block1(r)
  BY <1>19
<1>27. mailbox' = m \o <<e>> \o f
  BY <1>15, <1>25, <1>26
<1>28. PICK s : s = Append(q, P(Len(txs)))
  OBVIOUS
<1>29. PICK a : a = Append(m, e)
  OBVIOUS
<1> HIDE DEF P
<1>30. /\ Path(a, s) /\ a \in Seq(Event) /\ s[Len(s)] = P(Len(txs))
       /\ \A i \in 1 .. Len(q) : s[i] = q[i]
  <2>1. PICK x \in Place : x = P(Len(txs)) /\ Followed(x.blocks)
    BY <1>18, <1>20
  <2>2. Passes(e, q[Len(q)], x)
    BY <1>22, <1>26, <2>1
  <2>3. s = Append(q, x)
    BY <1>28, <2>1
  <2> HIDE DEF txs
  <2> QED
    BY <1>6, <1>21, <1>29, <2>1, <2>2, <2>3, PathGrows
<1>31. Len(s) = Len(q) + 1
  <2>1. Len(a) = Len(m) + 1
    BY <1>6, <1>29, AppendParts
  <2>2. Len(s) = Len(a) + 1 /\ Len(q) = Len(m) + 1
    BY <1>21, <1>30 DEF Path
  <2> QED
    BY <2>1, <2>2
<1>32. f = [i \in 1 .. Len(txs) |-> f[i]] /\ \A i \in 1 .. Len(txs) : f[i] = Tx1(r, txs[i])
  <2> HIDE DEF Tx1, txs
  <2> QED
    BY <1>25
<1>33. CASE Len(txs) = 0
  <2>1. mailbox' = a
    <3>1. \A i \in 1 .. Len(txs) : f[i] \in Event
      BY <1>33
    <3> HIDE DEF txs, Tx1
    <3> QED
      BY <1>6, <1>18, <1>27, <1>29, <1>32, <1>33, <3>1, ConcatIsAppends
  <2> QED
    BY <1>24, <1>30, <1>33, <2>1
<1>34. CASE Len(txs) = 1
  <2>1. txs[1] = b.oracle
    BY <1>11, <1>34, TxsAre
  <2>2. PICK x \in Event : x = Tx1(r, b.oracle)
    BY <1>17, <1>19
  <2>3. f[1] = x /\ \A i \in 1 .. Len(txs) : f[i] \in Event
    BY <1>32, <1>34, <2>1, <2>2
  <2>4. mailbox' = Append(a, x)
    <3> HIDE DEF txs, Tx1
    <3> QED
      BY <1>6, <1>18, <1>27, <1>29, <1>32, <1>34, <2>3, ConcatIsAppends
  <2>5. Passes(x, P(1), P(0))
    BY <1>23, <2>2
  <2>6. PICK u : u = Append(s, P(0))
    OBVIOUS
  <2>7. /\ Path(Append(a, x), u) /\ Append(a, x) \in Seq(Event) /\ u[Len(u)] = P(0)
        /\ \A i \in 1 .. Len(s) : u[i] = s[i]
    BY <1>20, <1>30, <1>34, <2>5, <2>6, PathGrows
  <2>8. \A i \in 1 .. Len(q) : u[i] = q[i]
    BY <1>21, <1>30, <1>31, <2>7
  <2> QED
    BY <1>24, <2>4, <2>7, <2>8
<1>35. CASE Len(txs) = 2
  <2>1. txs[1] = 0 /\ txs[2] = b.oracle
    BY <1>11, <1>35, TxsAre
  <2>2. PICK x \in Event : x = Tx1(r, 0)
    BY <1>17, <1>19
  <2>3. PICK y \in Event : y = Tx1(r, b.oracle)
    BY <1>17, <1>19
  <2>4. f[1] = x /\ f[2] = y /\ \A i \in 1 .. Len(txs) : f[i] \in Event
    <3>1. f[1] = x /\ f[2] = y
      BY <1>32, <1>35, <2>1, <2>2, <2>3
    <3>2. \A i \in 1 .. Len(txs) : i = 1 \/ i = 2
      BY <1>35
    <3> QED
      BY <3>1, <3>2
  <2>5. mailbox' = Append(Append(a, x), y)
    <3> HIDE DEF txs, Tx1
    <3> QED
      BY <1>6, <1>18, <1>27, <1>29, <1>32, <1>35, <2>4, ConcatIsAppends
  <2>6. Passes(x, P(2), P(1)) /\ Passes(y, P(1), P(0))
    BY <1>23, <2>2, <2>3
  <2>7. PICK u : u = Append(s, P(1))
    OBVIOUS
  <2>8. PICK g : g = Append(a, x)
    OBVIOUS
  <2>9. /\ Path(g, u) /\ g \in Seq(Event) /\ u[Len(u)] = P(1)
        /\ \A i \in 1 .. Len(s) : u[i] = s[i]
    BY <1>20, <1>30, <1>35, <2>6, <2>7, <2>8, PathGrows
  <2>10. PICK z : z = Append(u, P(0))
    OBVIOUS
  <2>11. /\ Path(Append(g, y), z) /\ Append(g, y) \in Seq(Event) /\ z[Len(z)] = P(0)
         /\ \A i \in 1 .. Len(u) : z[i] = u[i]
    BY <1>20, <2>6, <2>9, <2>10, PathGrows
  <2>12. Len(u) = Len(s) + 1
    BY <1>20, <1>30, <2>7, AppendParts, PathParts
  <2>13. \A i \in 1 .. Len(q) : z[i] = q[i]
    BY <1>21, <1>30, <1>31, <2>9, <2>11, <2>12
  <2> QED
    BY <1>24, <2>5, <2>8, <2>11, <2>13
<1> QED
  BY <1>18, <1>33, <1>34, <1>35

LEMMA PlaceIs ==
  ASSUME NEW w \in Seq(Block), NEW k \in 0 .. 2
  PROVE  [blocks |-> w, left |-> k] \in Place
BY DEF Place

\* A rollback to w is sent.
LEMMA RollbackRoute ==
  ASSUME CepInv, NEW q, Route(q), NEW e \in Event, e.kind = "rollback", NEW w, Followed(w),
         e.at[1] \in 0 .. Len(view), w = SubSeq(view, 1, e.at[1]),
         mailbox' = Append(mailbox, e), view' = w, UNCHANGED <<chain, forks, minted>>
  PROVE  \E p : Route(p)' /\ \A i \in 1 .. Len(q) : p[i] = q[i]
<1>1. PICK m : m = mailbox
  OBVIOUS
<1>2. PICK v : v = view
  OBVIOUS
<1>3. PICK r : r = [blocks |-> w, left |-> 0]
  OBVIOUS
<1>4. PICK n : n = Append(m, e)
  OBVIOUS
<1>5. PICK p : p = Append(q, r)
  OBVIOUS
<1>6. m \in Seq(Event) /\ Path(m, q) /\ q[Len(q)] = [blocks |-> v, left |-> 0]
  BY <1>1, <1>2 DEF Route, CepInv, TypeOK, StreamTypeOK
<1>7. w \in Seq(Block)
  BY FollowedType
<1>8. r \in Place /\ r.blocks = w /\ r.left = 0
  <2>1. 0 \in 0 .. 2
    OBVIOUS
  <2> QED
    BY <1>3, <1>7, <2>1, PlaceIs
<1>9. Passes(e, q[Len(q)], r)
  <2>1. PassesRollback(e, q[Len(q)], r)
    BY <1>2, <1>6, <1>8 DEF PassesRollback
  <2> QED
    BY <2>1 DEF Passes
<1>10. Path(n, p) /\ p[Len(p)] = r /\ \A i \in 1 .. Len(q) : p[i] = q[i]
  <2>1. Followed(r.blocks)
    BY <1>8
  <2>2. /\ Path(Append(m, e), Append(q, r)) /\ Append(q, r)[Len(Append(q, r))] = r
        /\ \A i \in 1 .. Len(q) : Append(q, r)[i] = q[i]
    <3>1. r \in Place
      BY <1>8
    <3> QED
      BY <1>6, <1>9, <2>1, <3>1, PathGrows
  <2> QED
    BY <1>4, <1>5, <2>2
<1>11. Path(n, p)'
  <2>1. \A c : Followed(c) => Followed(c)'
    BY FollowedSame
  <2> QED
    BY <1>10, <2>1 DEF Path
<1>12. Route(p)'
  BY <1>1, <1>3, <1>4, <1>10, <1>11 DEF Route
<1> QED
  BY <1>10, <1>12

LEMMA SendRollbackRoute ==
  ASSUME CepInv, SendRollback, NEW q, Route(q)
  PROVE  \E p : Route(p)' /\ \A i \in 1 .. Len(q) : p[i] = q[i]
<1>1. PICK n : n = CommonLength
  OBVIOUS
<1>2. PICK e : e = RollbackEvent(PointAt(view, n))
  OBVIOUS
<1>3. PICK w : w = SubSeq(view, 1, n)
  OBVIOUS
<1>4. n \in 0 .. Len(view) /\ PointAt(view, n) \in Points /\ PointAt(view, n)[1] = n
  BY <1>1, CommonType
<1>5. e \in Event /\ e.kind = "rollback" /\ e.at[1] = n
  BY <1>2, <1>4 DEF RollbackEvent, Event
<1>6. Followed(view)
  <2>1. Path(mailbox, q) /\ q[Len(q)] = [blocks |-> view, left |-> 0] /\ mailbox \in Seq(Event)
    BY DEF Route, CepInv, TypeOK, StreamTypeOK
  <2>2. Len(q) \in 1 .. Len(q)
    BY <2>1, PathParts
  <2>3. Followed(q[Len(q)].blocks)
    BY <2>1, <2>2 DEF Path
  <2> QED
    BY <2>1, <2>3
<1>7. Followed(w)
  BY <1>3, <1>4, <1>6, PrefixFollowed
<1>8. mailbox' = Append(mailbox, e) /\ view' = w /\ UNCHANGED <<chain, forks, minted>>
  BY <1>1, <1>2, <1>3 DEF SendRollback, chainVars
<1> QED
  BY <1>3, <1>4, <1>5, <1>7, <1>8, RollbackRoute

-----------------------------------------------------------------------------
(* Where a stream resumes.                                                 *)

LEMMA CompleteType ==
  ASSUME NEW p \in Place, p.left > 0 => Len(p.blocks) > 0
  PROVE  /\ p.blocks \in Seq(Block) /\ Len(p.blocks) \in Nat /\ p.left \in 0 .. 2
         /\ Complete(p) \in 0 .. Len(p.blocks) /\ Recorded(p) \in 0 .. Len(p.blocks)
         /\ Complete(p) <= Recorded(p)
         /\ p.left > 0 => Complete(p) < Len(p.blocks)
<1>1. p.blocks \in Seq(Block) /\ p.left \in 0 .. 2
  BY DEF Place
<1>2. PICK n \in Nat : n = Len(p.blocks)
  BY <1>1, LenProperties
<1>3. PICK l \in 0 .. 2 : l = p.left
  BY <1>1
<1>4. Complete(p) = n - (IF l = 0 THEN 0 ELSE 1) /\ (l > 0 => n > 0)
  BY <1>2, <1>3 DEF Complete
<1>5. Recorded(p) = IF pc = "applied" /\ l = 1 THEN n ELSE Complete(p)
  BY <1>2, <1>3 DEF Recorded
<1>6. Complete(p) \in 0 .. n /\ (l > 0 => Complete(p) < n)
  BY <1>4
<1>7. Recorded(p) \in 0 .. n /\ Complete(p) <= Recorded(p)
  BY <1>5, <1>6
<1> QED
  BY <1>1, <1>2, <1>3, <1>6, <1>7

\* A stream that starts from points of indexed blocks starts at one of them.
LEMMA ResumePoint ==
  ASSUME CepInv, NEW p \in Place, p.left > 0 => Len(p.blocks) > 0, Followed(p.blocks),
         NEW points \in Seq(Points), points \in Seq(PointsTo(p)), NEW n, n = IntersectLength(points)
  PROVE  /\ n \in 0 .. Complete(p) /\ n \in 0 .. Len(chain)
         /\ SubSeq(chain, 1, n) = SubSeq(p.blocks, 1, n)
         /\ \A k \in 1 .. n : chain[k] = p.blocks[k]
<1> DEFINE found == {i \in 1 .. Len(points) : points[i] \in PointsOf(chain)}
           m == CHOOSE i \in found : \A j \in found : j <= i
<1>1. chain \in Seq(Block) /\ Len(chain) \in Nat /\ Len(points) \in Nat
  BY DEF CepInv, TypeOK, StreamTypeOK
<1>2. /\ p.blocks \in Seq(Block) /\ Len(p.blocks) \in Nat
      /\ Complete(p) \in 0 .. Len(p.blocks)
  BY CompleteType
<1>3. \/ n = 0
      \/ /\ n \in 1 .. Complete(p) /\ n \in 1 .. Len(chain)
         /\ p.blocks[n].branch = chain[n].branch
  <2>1. CASE found = {}
    BY <2>1 DEF IntersectLength
  <2>2. CASE found # {}
    <3>1. \E i \in found : \A j \in found : j <= i
      <4>1. found \subseteq Nat /\ \A i \in found : i <= Len(points)
        BY <1>1
      <4> HIDE DEF found
      <4> QED
        BY <1>1, <2>2, <4>1, GreatestNat
    <3>2. m \in found
      <4> HIDE DEF found
      <4> QED
        BY <3>1, Zenon
    <3>3. n = points[m][1]
      BY <2>2, Zenon DEF IntersectLength
    <3>4. points[m] \in PointsOf(chain) /\ m \in 1 .. Len(points)
      BY <3>2
    <3> HIDE DEF m, found
    <3>5. PICK k \in 1 .. Len(chain) : points[m] = PointAt(chain, k)
      BY <3>4 DEF PointsOf
    <3>6. k # 0
      BY <1>1, <3>5
    <3>7. points[m] = <<k, chain[k].branch>>
      BY <3>5, <3>6 DEF PointAt
    <3>8. points[m] \in PointsTo(p)
      BY <3>4, ElementOfSeq
    <3>9. PICK j \in 1 .. Complete(p) : points[m] = <<j, p.blocks[j].branch>>
      BY <3>8 DEF PointsTo
    <3> QED
      BY <3>3, <3>5, <3>7, <3>9
  <2> QED
    BY <2>1, <2>2
<1>4. n \in 0 .. Complete(p) /\ n \in 0 .. Len(chain) /\ n \in 0 .. Len(p.blocks)
  BY <1>1, <1>2, <1>3
<1>5. \A k \in 1 .. n : chain[k] = p.blocks[k]
  <2>1. CASE n = 0
    BY <2>1
  <2>2. CASE n # 0
    <3>1. n \in 1 .. Len(p.blocks) /\ n <= Len(chain) /\ p.blocks[n].branch = chain[n].branch
      BY <1>1, <1>2, <1>3, <2>2
    <3> QED
      BY <3>1 DEF Followed, Agree
  <2> QED
    BY <2>1, <2>2
<1>6. SubSeq(chain, 1, n) = SubSeq(p.blocks, 1, n)
  <2>1. PICK c : c = SubSeq(chain, 1, n)
    OBVIOUS
  <2>2. PICK d : d = SubSeq(p.blocks, 1, n)
    OBVIOUS
  <2>3. c \in Seq(Block) /\ Len(c) = n /\ \A k \in 1 .. n : c[k] = chain[k]
    BY <1>1, <1>4, <2>1, CutParts
  <2>4. d \in Seq(Block) /\ Len(d) = n /\ \A k \in 1 .. n : d[k] = p.blocks[k]
    BY <1>2, <1>4, <2>2, CutParts
  <2>5. c = d
    BY <1>5, <2>3, <2>4, SeqEqual
  <2> QED
    BY <2>1, <2>2, <2>5
<1> QED
  BY <1>4, <1>5, <1>6

\* Without a rollback on its way the streamed blocks only add to those that
\* have been handled.
LEMMA AheadWithoutRollback ==
  ASSUME CepInv, NEW q, Route(q), NoRollback(mailbox, 1, Len(mailbox))
  PROVE  Len(q[1].blocks) <= Len(view) /\ \A k \in 1 .. Len(q[1].blocks) : view[k] = q[1].blocks[k]
<1>1. PICK m : m = mailbox
  OBVIOUS
<1>2. PICK c : c = q[1].blocks
  OBVIOUS
<1>3. m \in Seq(Event) /\ Path(m, q) /\ q[Len(q)].blocks = view
  BY <1>1 DEF Route, CepInv, TypeOK, StreamTypeOK
<1>4. /\ Len(m) \in Nat /\ Len(q) = Len(m) + 1
      /\ \A i \in 1 .. Len(q) : q[i].blocks \in Seq(Block) /\ Len(q[i].blocks) \in Nat
  BY <1>3, PathParts
<1> DEFINE Adds(d) == Len(c) <= Len(d) /\ \A k \in 1 .. Len(c) : d[k] = c[k]
           Holds == {i \in 0 .. Len(m) : Adds(q[i + 1].blocks)}
<1>5. 0 \in Holds
  BY <1>2, <1>4
<1>6. ASSUME NEW i \in 1 .. Len(m), i - 1 \in Holds PROVE i \in Holds
  <2>1. i \in 0 .. Len(m) /\ i - 1 + 1 = i /\ i \in 1 .. Len(q) /\ i + 1 \in 1 .. Len(q)
    BY <1>4
  <2>2. Adds(q[i].blocks)
    BY <1>6, <2>1
  <2>3. m[i].kind # "rollback"
    BY <1>1 DEF NoRollback
  <2>4. Passes(m[i], q[i], q[i + 1])
    BY <1>3 DEF Path
  <2>5. PassesBlock(m[i], q[i], q[i + 1]) \/ PassesTx(m[i], q[i], q[i + 1])
    BY <2>3, <2>4 DEF Passes, PassesRollback
  <2>6. CASE PassesBlock(m[i], q[i], q[i + 1])
    <3>1. PICK b \in Block : q[i + 1].blocks = Append(q[i].blocks, b)
      BY <2>6 DEF PassesBlock
    <3>2. /\ Len(q[i + 1].blocks) = Len(q[i].blocks) + 1
          /\ \A k \in 1 .. Len(q[i].blocks) : q[i + 1].blocks[k] = q[i].blocks[k]
      <4>1. q[i].blocks \in Seq(Block)
        BY <1>4, <2>1
      <4> QED
        BY <3>1, <4>1, AppendParts
    <3>3. Adds(q[i + 1].blocks)
      <4>1. Len(c) \in Nat /\ Len(q[i].blocks) \in Nat
        BY <1>2, <1>4, <2>1
      <4> QED
        BY <2>2, <3>2, <4>1
    <3> QED
      BY <2>1, <3>3
  <2>7. CASE PassesTx(m[i], q[i], q[i + 1])
    <3>1. q[i + 1].blocks = q[i].blocks
      BY <2>7 DEF PassesTx
    <3> QED
      BY <2>1, <2>2, <3>1
  <2> QED
    BY <2>5, <2>6, <2>7
<1>7. 0 .. Len(m) \subseteq Holds
  <2> HIDE DEF Holds
  <2> QED
    BY <1>4, <1>5, <1>6, LengthInduction
<1>8. Adds(q[Len(m) + 1].blocks)
  BY <1>4, <1>7
<1> QED
  BY <1>2, <1>3, <1>4, <1>8

-----------------------------------------------------------------------------
(* The place of the handler.                                               *)

LEMMA HeadPasses ==
  ASSUME CepInv, mailbox # <<>>, NEW q, Route(q)
  PROVE  /\ Passes(event, q[1], q[2])
         /\ q[1] \in Place /\ Followed(q[1].blocks) /\ q[1].blocks \in Seq(Block)
         /\ q[2] \in Place /\ Followed(q[2].blocks) /\ q[2].blocks \in Seq(Block)
         /\ Len(q[1].blocks) \in Nat /\ q[1].left \in 0 .. 2
         /\ Len(q[2].blocks) \in Nat /\ q[2].left \in 0 .. 2
         /\ Len(q[1].blocks) <= MaxHeight /\ Len(q[2].blocks) <= MaxHeight
<1>1. mailbox \in Seq(Event) /\ Path(mailbox, q)
  BY DEF Route, CepInv, TypeOK, StreamTypeOK
<1>2. event = mailbox[1] /\ Len(mailbox) \in Nat /\ Len(mailbox) > 0
  BY EventType
<1>3. Len(q) = Len(mailbox) + 1
  BY <1>1 DEF Path
<1>4. 1 \in 1 .. Len(q) /\ 2 \in 1 .. Len(q) /\ 1 \in 1 .. Len(mailbox) /\ 1 + 1 = 2
  BY <1>2, <1>3
<1>5. Passes(event, q[1], q[2])
  BY <1>1, <1>2, <1>4 DEF Path
<1>6. Followed(q[1].blocks) /\ Followed(q[2].blocks)
  BY <1>1, <1>4 DEF Path
<1>7. Len(q[1].blocks) <= MaxHeight /\ Len(q[2].blocks) <= MaxHeight
  BY <1>6 DEF Followed
<1> QED
  BY <1>1, <1>4, <1>5, <1>6, <1>7, PathParts

\* A queue starts with a transaction only within a block.
TxWithinBlock ==
    \A q : Route(q) /\ Handles("tx") =>
        /\ q[1].left > 0 /\ Len(q[1].blocks) > 0
        /\ event.at = <<Len(q[1].blocks), q[1].blocks[Len(q[1].blocks)].branch>>

LEMMA HeadKind == CepInv => TxWithinBlock
<1> SUFFICES ASSUME CepInv, NEW q, Route(q), Handles("tx")
             PROVE  /\ q[1].left > 0 /\ Len(q[1].blocks) > 0
                    /\ event.at = <<Len(q[1].blocks), q[1].blocks[Len(q[1].blocks)].branch>>
  BY DEF TxWithinBlock
<1>1. mailbox # <<>> /\ event.kind = "tx"
  BY DEF Handles
<1>2. Passes(event, q[1], q[2])
  BY <1>1, HeadPasses
<1> QED
  BY <1>1, <1>2 DEF Passes, PassesBlock, PassesTx, PassesRollback

LEMMA RowsToAll ==
  ASSUME NEW c \in Seq(Block)
  PROVE  RowsTo(c, Len(c)) = OracleRows(c)
BY SubSeqFull DEF RowsTo

\* Between two blocks the handler is where the tables and the cursor are.
BlockEnd(p) ==
    /\ p.left = 0 /\ p.blocks \in Seq(Block) /\ pc = "ready"
    /\ applied = OracleRows(p.blocks)
    /\ cursor \in Seq(PointsTo(p))

AtBlockEnd ==
    \A q, p : Route(q) /\ p = q[1] /\ BlockEnd(p) => p = Here(q) /\ At(p)

LEMMA BlockEndIsAt == CepInv => AtBlockEnd
<1> SUFFICES ASSUME CepInv, NEW q, NEW p, Route(q), p = q[1], BlockEnd(p)
             PROVE  p = Here(q) /\ At(p)
  BY DEF AtBlockEnd
<1>1. p.left = 0 /\ p.blocks \in Seq(Block) /\ pc = "ready" /\ applied = OracleRows(p.blocks)
        /\ cursor \in Seq(PointsTo(p))
  BY DEF BlockEnd
<1>2. ~Handles("tx")
  BY <1>1, HeadKind DEF TxWithinBlock
<1>3. Recorded(p) = Len(p.blocks)
  BY <1>1, LenProperties DEF Recorded, Complete
<1>4. applied = RowsTo(p.blocks, Recorded(p))
  BY <1>1, <1>3, RowsToAll
<1> QED
  BY <1>1, <1>2, <1>4 DEF At, Here

LEMMA BlockEndNext ==
  ASSUME CepInv', NEW q, Route(q)', NEW p, p = q[1], BlockEnd(p)'
  PROVE  InPlace'
<1>1. AtBlockEnd'
  BY BlockEndIsAt, PTL
<1>2. p = Here(q)' /\ At(p)'
  BY <1>1 DEF AtBlockEnd
<1> QED
  BY <1>2 DEF InPlace

LEMMA HeadKindNext ==
  ASSUME CepInv', NEW q, Route(q)', Handles("tx")'
  PROVE  /\ q[1].left > 0 /\ Len(q[1].blocks) > 0
         /\ event'.at = <<Len(q[1].blocks), q[1].blocks[Len(q[1].blocks)].branch>>
<1>1. TxWithinBlock'
  BY HeadKind, PTL
<1> QED
  BY <1>1 DEF TxWithinBlock

-----------------------------------------------------------------------------
(* The handlers.                                                           *)

LEMMA HandlerRoute ==
  ASSUME CepInv, MintedKept, UNCHANGED world, mailbox # <<>>, NEW q, Route(q)
  PROVE  /\ UNCHANGED mailbox => Route(q)'
         /\ mailbox' = Tail(mailbox) => Route(Tail(q))' /\ Tail(q)[1] = q[2]
<1>1. UNCHANGED <<chain, forks>> /\ UNCHANGED view
  BY DEF world, chainVars, streamVars
<1>2. \A c : Followed(c) => Followed(c)'
  BY <1>1, FollowedStays
<1>3. mailbox \in Seq(Event)
  BY DEF CepInv, TypeOK, StreamTypeOK
<1>4. UNCHANGED mailbox => Route(q)'
  BY <1>1, <1>2, RouteStays
<1>5. mailbox' = Tail(mailbox) => Route(Tail(q))' /\ Tail(q)[1] = q[2]
  BY <1>1, <1>2, <1>3, RouteAdvances
<1> QED
  BY <1>4, <1>5

\* The block is processed.
LEMMA BuildInPlace ==
  ASSUME CepInv, CepInv', MintedKept, UNCHANGED world, UNCHANGED <<applied, cursor>>,
         pc = "building", Done, InPlace
  PROVE  InPlace'
<1>1. PICK q, p : Route(q) /\ p = Here(q) /\ At(p)
  BY DEF InPlace
<1>2. p = q[2] /\ p.left = 0 /\ applied = RowsTo(p.blocks, Recorded(p)) /\ cursor \in Seq(PointsTo(p))
  BY <1>1 DEF Here, At
<1>3. mailbox # <<>>
  BY DEF CepInv, TypeOK
<1>4. p.blocks \in Seq(Block)
  BY <1>1, <1>2, <1>3, HeadPasses
<1>5. Recorded(p) = Len(p.blocks)
  BY <1>2, <1>4, LenProperties DEF Recorded, Complete
<1>6. applied = OracleRows(p.blocks)
  BY <1>2, <1>4, <1>5, RowsToAll
<1>7. Route(Tail(q))' /\ Tail(q)[1] = p
  BY <1>1, <1>2, <1>3, HandlerRoute DEF Done
<1>8. BlockEnd(p)'
  BY <1>2, <1>4, <1>6 DEF BlockEnd, Done
<1> QED
  BY <1>7, <1>8, BlockEndNext

LEMMA RollbackCursorInPlace ==
  ASSUME CepInv, CepInv', InPlace, RollbackCursor
  PROVE  InPlace'
<1>1. PICK q, p : Route(q) /\ p = Here(q) /\ At(p)
  BY DEF InPlace
<1>2. /\ pc = "ready" /\ pc' = "rollingBack" /\ mailbox # <<>> /\ event.kind = "rollback"
      /\ cursor' = CursorUpTo(event.at[1]) /\ UNCHANGED <<mailbox, applied, requests, minted>>
      /\ UNCHANGED world /\ MintedKept
  BY DEF RollbackCursor, Handles, MintedKept
<1>3. Route(q)'
  BY <1>1, <1>2, HandlerRoute
<1>4. p = q[1] /\ p = Here(q)'
  BY <1>1, <1>2 DEF Here
<1>5. Recorded(p)' = Recorded(p)
  BY <1>2 DEF Recorded, Complete
<1>6. cursor' \in Seq(PointsTo(p))
  BY <1>1, <1>2, OnlyType DEF At, CursorUpTo
<1>7. cursor' \in Seq({x \in Points : x[1] <= event.at[1]})
  <2>1. PICK S : S = {x \in Points : x[1] <= event.at[1]}
    OBVIOUS
  <2>2. cursor \in Seq(Points)
    BY DEF CepInv, TypeOK
  <2>3. Only(cursor, S) \in Seq(Points \cap S)
    BY <2>2, OnlyType
  <2>4. Points \cap S \subseteq S
    OBVIOUS
  <2>5. Only(cursor, S) \in Seq(S)
    BY <2>3, <2>4, SeqMonotonic
  <2> QED
    BY <1>2, <2>1, <2>5 DEF CursorUpTo
<1>8. At(p)'
  <2>1. event' = event
    BY <1>2 DEF event
  <2>4. ~Handles("tx")'
    BY <1>2, <2>1 DEF Handles
  <2>2. (p.left > 0 => Len(p.blocks) > 0) /\ (requests # <<>> => p.left = 0)
    BY <1>1 DEF At
  <2>3. applied' = RowsTo(p.blocks, Recorded(p))'
    BY <1>1, <1>2, <1>5 DEF At, RowsTo
  <2> QED
    BY <1>2, <1>6, <1>7, <2>1, <2>2, <2>3, <2>4 DEF At
<1> QED
  BY <1>3, <1>4, <1>8 DEF InPlace

\* The points of two places, one with the first blocks of the other.
LEMMA PointsCut ==
  ASSUME NEW p \in Place, NEW r \in Place, Complete(r) <= Complete(p),
         \A k \in 1 .. Complete(r) : r.blocks[k] = p.blocks[k],
         Complete(r) \in Nat, Complete(p) \in Nat
  PROVE  /\ PointsTo(r) \subseteq PointsTo(p)
         /\ \A x \in PointsTo(p) : x[1] <= Complete(r) => x \in PointsTo(r)
<1>1. ASSUME NEW x \in PointsTo(r) PROVE x \in PointsTo(p)
  <2>1. PICK n \in 1 .. Complete(r) : x = <<n, r.blocks[n].branch>>
    BY DEF PointsTo
  <2>2. n \in 1 .. Complete(p) /\ r.blocks[n] = p.blocks[n]
    BY <2>1
  <2> QED
    BY <2>1, <2>2 DEF PointsTo
<1>2. ASSUME NEW x \in PointsTo(p), x[1] <= Complete(r) PROVE x \in PointsTo(r)
  <2>1. PICK n \in 1 .. Complete(p) : x = <<n, p.blocks[n].branch>>
    BY DEF PointsTo
  <2>2. n \in 1 .. Complete(r)
    BY <1>2, <2>1
  <2> QED
    BY <2>1, <2>2 DEF PointsTo
<1> QED
  BY <1>1, <1>2

LEMMA RollbackInPlace ==
  ASSUME CepInv, CepInv', InPlace, Rollback
  PROVE  InPlace'
<1>1. PICK q, p : Route(q) /\ p = Here(q) /\ At(p)
  BY DEF InPlace
<1>2. /\ pc = "rollingBack" /\ mailbox # <<>> /\ event.kind = "rollback" /\ Done
      /\ applied' = RowsUpTo(event.at[1]) /\ UNCHANGED <<cursor, minted>>
      /\ UNCHANGED world /\ MintedKept
  BY DEF Rollback, CepInv, Handles, MintedKept
<1>3. PICK m : m = event.at[1]
  OBVIOUS
<1>4. PICK r : r = q[2]
  OBVIOUS
<1>5. p = q[1] /\ r \in Place /\ p \in Place /\ p.blocks \in Seq(Block) /\ Len(p.blocks) <= MaxHeight
  BY <1>1, <1>2, <1>4, HeadPasses DEF Here
<1>6. /\ m <= Len(p.blocks) /\ (p.left > 0 => m < Len(p.blocks))
      /\ r.blocks = SubSeq(p.blocks, 1, m) /\ r.left = 0
  <2>1. Passes(event, p, r)
    BY <1>1, <1>2, <1>4, <1>5, HeadPasses
  <2> QED
    BY <1>2, <1>3, <2>1 DEF Passes, PassesBlock, PassesTx, PassesRollback
<1>7. /\ Complete(p) \in 0 .. Len(p.blocks) /\ Recorded(p) \in 0 .. Len(p.blocks)
      /\ Complete(p) <= Recorded(p) /\ Len(p.blocks) \in Nat /\ p.left \in 0 .. 2
  BY <1>1, <1>5, CompleteType DEF At
<1>8. m \in Nat
  <2>1. event.at[1] \in 0 .. MaxHeight
    BY <1>2, EventType
  <2> QED
    BY <1>3, <2>1
<1>9. m <= Complete(p)
  BY <1>6, <1>7, <1>8 DEF Complete
<1>10. m \in 0 .. Len(p.blocks) /\ m <= Recorded(p)
  BY <1>6, <1>7, <1>8, <1>9
<1>11. r.blocks \in Seq(Block) /\ Len(r.blocks) = m /\ \A k \in 1 .. m : r.blocks[k] = p.blocks[k]
  BY <1>5, <1>6, <1>10, CutParts
<1>12. applied' = OracleRows(r.blocks)
  <2>1. applied = RowsTo(p.blocks, Recorded(p))
    BY <1>1 DEF At
  <2>2. Only(RowsTo(p.blocks, Recorded(p)), {x \in Row : x.slot <= m}) =
            RowsTo(p.blocks, IF Recorded(p) <= m THEN Recorded(p) ELSE m)
    BY <1>5, <1>7, <1>8, RowsToCut
  <2>3. (IF Recorded(p) <= m THEN Recorded(p) ELSE m) = m
    BY <1>7, <1>8, <1>10
  <2>4. applied' = RowsTo(p.blocks, m)
    BY <1>2, <1>3, <2>1, <2>2, <2>3 DEF RowsUpTo
  <2> QED
    BY <1>6, <2>4 DEF RowsTo
<1>13. Complete(r) = m
  BY <1>6, <1>8, <1>11 DEF Complete
<1>14. cursor \in Seq(PointsTo(r))
  <2>1. cursor \in Seq(PointsTo(p)) /\ cursor \in Seq({x \in Points : x[1] <= m})
    BY <1>1, <1>2, <1>3 DEF At
  <2>2. \A x \in PointsTo(p) : x[1] <= m => x \in PointsTo(r)
    <3>1. Complete(p) \in Nat
      BY <1>7
    <3> QED
      BY <1>5, <1>8, <1>9, <1>11, <1>13, <3>1, PointsCut
  <2>3. \A i \in 1 .. Len(cursor) : cursor[i] \in PointsTo(r)
    <3> TAKE i \in 1 .. Len(cursor)
    <3>1. cursor[i] \in PointsTo(p)
      BY <2>1, ElementOfSeq
    <3>2. cursor[i] \in {x \in Points : x[1] <= m}
      BY <2>1, ElementOfSeq
    <3> QED
      BY <2>2, <3>1, <3>2
  <2> QED
    BY <2>1, <2>3
<1>15. Route(Tail(q))' /\ Tail(q)[1] = r
  BY <1>1, <1>2, <1>4, HandlerRoute DEF Done
<1>16. BlockEnd(r)'
  BY <1>2, <1>6, <1>11, <1>12, <1>14 DEF BlockEnd, Done
<1> QED
  BY <1>15, <1>16, BlockEndNext

LEMMA CallsWork ==
  ASSUME Faults = {}, NEW new, NEW old
  PROVE  Outcome(new, old) = {new} /\ ~MayFail /\ "late" \notin Faults /\ "early" \notin Faults
BY DEF Outcome, MayFail

\* A block is added to the blocks that have been handled.
LEMMA BlockAdds ==
  ASSUME NEW p \in Place, NEW r \in Place, NEW b \in Block, p.left = 0,
         r.blocks = Append(p.blocks, b), Len(r.blocks) <= MaxHeight
  PROVE  /\ Len(p.blocks) \in Nat /\ Len(r.blocks) = Len(p.blocks) + 1
         /\ r.blocks[Len(p.blocks) + 1] = b /\ r.blocks \in Seq(Block)
         /\ RowsTo(r.blocks, Len(p.blocks)) = OracleRows(p.blocks)
         /\ b.oracle = 0 => OracleRows(r.blocks) = OracleRows(p.blocks)
         /\ PointsTo(p) \subseteq PointsTo(r)
         /\ r.left = 0 => <<Len(p.blocks) + 1, b.branch>> \in PointsTo(r)
<1>1. p.blocks \in Seq(Block)
  BY DEF Place
<1>2. /\ r.blocks \in Seq(Block) /\ Len(r.blocks) = Len(p.blocks) + 1 /\ Len(p.blocks) \in Nat
      /\ r.blocks[Len(p.blocks) + 1] = b /\ \A k \in 1 .. Len(p.blocks) : r.blocks[k] = p.blocks[k]
  BY <1>1, AppendParts
<1>3. Len(p.blocks) < MaxHeight /\ MaxHeight \in Nat
  BY <1>2, StreamBounds
<1>4. RowsTo(r.blocks, Len(p.blocks)) = OracleRows(p.blocks)
  <2>1. PICK d : d = SubSeq(r.blocks, 1, Len(p.blocks))
    OBVIOUS
  <2>2. Len(p.blocks) \in 0 .. Len(r.blocks)
    BY <1>2
  <2>3. /\ d \in Seq(Block) /\ Len(d) = Len(p.blocks)
        /\ \A k \in 1 .. Len(p.blocks) : d[k] = r.blocks[k]
    BY <1>2, <2>1, <2>2, CutParts
  <2>4. d = p.blocks
    BY <1>1, <1>2, <2>3, SeqEqual
  <2> QED
    BY <2>1, <2>4 DEF RowsTo
<1>5. b.oracle = 0 => OracleRows(r.blocks) = OracleRows(p.blocks)
  BY <1>1, <1>3, RowsAppend
<1>6. Complete(p) = Len(p.blocks)
  BY <1>2 DEF Complete
<1>7. Complete(r) = IF r.left = 0 THEN Len(p.blocks) + 1 ELSE Len(p.blocks)
  BY <1>2 DEF Complete
<1>8. PointsTo(p) \subseteq PointsTo(r)
  BY <1>2, <1>6, <1>7, PointsCut
<1>9. r.left = 0 => <<Len(p.blocks) + 1, b.branch>> \in PointsTo(r)
  <2> SUFFICES ASSUME r.left = 0 PROVE <<Len(p.blocks) + 1, b.branch>> \in PointsTo(r)
    OBVIOUS
  <2>1. Len(p.blocks) + 1 \in 1 .. Complete(r)
    BY <1>2, <1>7
  <2> QED
    BY <1>2, <2>1 DEF PointsTo
<1> QED
  BY <1>2, <1>4, <1>5, <1>8, <1>9

\* The cuts after an offline rollback have no effect: the start slot is not
\* before the streamed block.
LEMMA DetectInPlace ==
  ASSUME Faults = {}, CepInv, CepInv', InPlace, DetectRollbackCursor \/ DetectRollback
  PROVE  InPlace'
<1>1. PICK q, p : Route(q) /\ p = Here(q) /\ At(p)
  BY DEF InPlace
<1>2. /\ pc \in {"ready", "detected"} /\ pc' = "detected" /\ RolledBackOffline
      /\ mailbox # <<>> /\ event.kind = "block" /\ requests = <<>>
  <2>1. CASE DetectRollbackCursor
    BY <2>1, CallsWork DEF DetectRollbackCursor, BlockHandler, Handles
  <2>2. CASE DetectRollback
    BY <1>1, <2>2 DEF DetectRollback, At, CepInv, Handles
  <2> QED
    BY <2>1, <2>2
<1>3. UNCHANGED <<mailbox, minted, requests, counts>> /\ UNCHANGED world /\ MintedKept
  BY DEF DetectRollbackCursor, DetectRollback, actorVars, MintedKept
<1>4. PICK r : r = q[2]
  OBVIOUS
<1>5. /\ p = q[1] /\ r \in Place /\ p \in Place /\ p.blocks \in Seq(Block)
      /\ Len(p.blocks) <= MaxHeight
  BY <1>1, <1>2, <1>4, HeadPasses DEF Here
<1>6. p.left = 0 /\ event.at[1] = Len(p.blocks) + 1
  <2>1. Passes(event, p, r)
    BY <1>1, <1>2, <1>4, <1>5, HeadPasses
  <2> QED
    BY <1>2, <2>1 DEF Passes, PassesBlock, PassesTx, PassesRollback
<1>7. Recorded(p) = Len(p.blocks) /\ Recorded(p)' = Len(p.blocks) /\ Len(p.blocks) \in Nat
  BY <1>2, <1>5, <1>6, LenProperties DEF Recorded, Complete
<1>8. applied = RowsTo(p.blocks, Len(p.blocks)) /\ cursor \in Seq(PointsTo(p))
  BY <1>1, <1>7 DEF At
<1>9. RowsUpTo(startSlot) = applied
  <2>1. startSlot \in Nat /\ Len(p.blocks) <= startSlot /\ Len(p.blocks) \in 0 .. Len(p.blocks)
    <3>1. startSlot \in 0 .. MaxHeight /\ MaxHeight \in Nat
      BY StreamBounds DEF CepInv, TypeOK
    <3>2. event.at[1] <= startSlot
      BY <1>2 DEF RolledBackOffline
    <3> QED
      BY <1>6, <1>7, <3>1, <3>2
  <2>2. Only(RowsTo(p.blocks, Len(p.blocks)), {x \in Row : x.slot <= startSlot}) =
            RowsTo(p.blocks, Len(p.blocks))
    BY <1>5, <2>1, RowsToCut
  <2> QED
    BY <1>8, <2>2 DEF RowsUpTo
<1>10. applied' = RowsTo(p.blocks, Recorded(p)') /\ cursor' \in Seq(PointsTo(p))
  <2>1. CASE DetectRollbackCursor
    <3>1. applied' = applied /\ cursor' = CursorUpTo(startSlot)
      BY <2>1, CallsWork DEF DetectRollbackCursor
    <3> QED
      BY <1>7, <1>8, <3>1, OnlyType DEF CursorUpTo
  <2>2. CASE DetectRollback
    <3>1. applied' = RowsUpTo(startSlot) /\ cursor' = cursor
      BY <2>2, CallsWork DEF DetectRollback
    <3> QED
      BY <1>7, <1>8, <1>9, <3>1
  <2> QED
    BY <2>1, <2>2
<1>11. Route(q)' /\ p = Here(q)'
  BY <1>1, <1>2, <1>3, <1>5, HandlerRoute DEF Here
<1>12. ~Handles("tx")'
  BY <1>2, <1>3 DEF Handles, event
<1>13. At(p)'
  BY <1>2, <1>3, <1>6, <1>10, <1>12 DEF At, RowsTo
<1> QED
  BY <1>11, <1>13 DEF InPlace

LEMMA ReceiveBlockInPlace ==
  ASSUME Faults = {}, CepInv, CepInv', InPlace, ReceiveBlock
  PROVE  InPlace'
<1>1. PICK q, p : Route(q) /\ p = Here(q) /\ At(p)
  BY DEF InPlace
<1>2. /\ pc \in {"ready", "detected"} /\ mailbox # <<>> /\ event.kind = "block" /\ requests = <<>> /\ requests' = <<>>
      /\ UNCHANGED minted /\ UNCHANGED world /\ MintedKept
  BY CallsWork DEF ReceiveBlock, BlockHandler, Handles, MintedKept
<1>3. PICK r : r = q[2]
  OBVIOUS
<1>4. /\ p = q[1] /\ r \in Place /\ p \in Place /\ p.blocks \in Seq(Block)
      /\ Len(p.blocks) <= MaxHeight /\ Len(r.blocks) <= MaxHeight
  BY <1>1, <1>2, <1>3, HeadPasses DEF Here
<1>5. /\ p.left = 0
      /\ \E b \in Block : /\ r.blocks = Append(p.blocks, b)
                          /\ r.left = Len(TxsOf(b)) /\ event.n = r.left
                          /\ event.at = <<Len(p.blocks) + 1, b.branch>>
  <2>1. Passes(event, p, r)
    BY <1>1, <1>2, <1>3, <1>4, HeadPasses
  <2> QED
    BY <1>2, <2>1 DEF Passes, PassesBlock, PassesTx, PassesRollback
<1>6. PICK b \in Block : /\ r.blocks = Append(p.blocks, b)
                         /\ r.left = Len(TxsOf(b)) /\ event.n = r.left
                         /\ event.at = <<Len(p.blocks) + 1, b.branch>>
  BY <1>5
<1>7. /\ Len(p.blocks) \in Nat /\ Len(r.blocks) = Len(p.blocks) + 1
      /\ r.blocks[Len(p.blocks) + 1] = b /\ r.blocks \in Seq(Block)
      /\ RowsTo(r.blocks, Len(p.blocks)) = OracleRows(p.blocks)
      /\ b.oracle = 0 => OracleRows(r.blocks) = OracleRows(p.blocks)
      /\ PointsTo(p) \subseteq PointsTo(r)
      /\ r.left = 0 => event.at \in PointsTo(r)
  <2>1. p.left = 0 /\ b \in Block /\ r.blocks = Append(p.blocks, b)
    BY <1>5, <1>6
  <2>2. /\ Len(p.blocks) \in Nat /\ Len(r.blocks) = Len(p.blocks) + 1
        /\ r.blocks[Len(p.blocks) + 1] = b /\ r.blocks \in Seq(Block)
        /\ RowsTo(r.blocks, Len(p.blocks)) = OracleRows(p.blocks)
        /\ b.oracle = 0 => OracleRows(r.blocks) = OracleRows(p.blocks)
        /\ PointsTo(p) \subseteq PointsTo(r)
        /\ r.left = 0 => <<Len(p.blocks) + 1, b.branch>> \in PointsTo(r)
    BY <1>4, <2>1, BlockAdds
  <2> QED
    BY <1>6, <2>2
<1>8. Recorded(p) = Len(p.blocks)
  BY <1>2, <1>5, <1>7 DEF Recorded, Complete
<1>9. applied = RowsTo(p.blocks, Len(p.blocks)) /\ cursor \in Seq(PointsTo(p))
        /\ applied = OracleRows(p.blocks)
  BY <1>1, <1>4, <1>8, RowsToAll DEF At
<1>10. applied' = applied
  BY DEF ReceiveBlock
<1>11. cursor' = IF event.n = 0 THEN Append(cursor, event.at) ELSE cursor
  <2>1. Outcome(Append(cursor, event.at), cursor) = {Append(cursor, event.at)}
    BY CallsWork
  <2> QED
    BY <2>1 DEF ReceiveBlock
<1>12. cursor \in Seq(PointsTo(r))
  BY <1>7, <1>9, SeqMonotonic, Zenon
<1>13. counts' = [counts EXCEPT ![event.at] = event.n] /\ counts \in [Points -> 0 .. 2]
         /\ event.at \in Points
  BY <1>2, EventType DEF ReceiveBlock, CepInv, TypeOK
<1>14. r.left > 0 => Len(r.blocks) > 0
  BY <1>7
<1>15. r.left \in 0 .. 2
  BY <1>4 DEF Place
<1>16. CASE event.n = 0
  <2>1. mailbox' = mailbox /\ pc' = "building"
    BY <1>16 DEF ReceiveBlock
  <2>2. Route(q)' /\ r = Here(q)'
    BY <1>1, <1>2, <1>3, <2>1, HandlerRoute DEF Here
  <2>3. cursor' \in Seq(PointsTo(r))
    BY <1>6, <1>7, <1>11, <1>12, <1>16, AppendParts
  <2>4. applied' = RowsTo(r.blocks, Recorded(r))'
    <3>1. b.oracle = 0
      <4>1. Len(TxsOf(b)) = 0
        BY <1>6, <1>16
      <4> QED
        BY <4>1, TxsAre
    <3>2. Recorded(r)' = Len(r.blocks)
      BY <1>6, <1>7, <1>16, <2>1 DEF Recorded, Complete
    <3>3. OracleRows(r.blocks) = RowsTo(r.blocks, Len(r.blocks))
      BY <1>7, RowsToAll
    <3> QED
      BY <1>7, <1>9, <1>10, <3>1, <3>2, <3>3 DEF RowsTo
  <2>5. At(r)'
    BY <1>2, <1>6, <1>14, <1>16, <2>1, <2>3, <2>4 DEF At
  <2> QED
    BY <2>2, <2>5 DEF InPlace
<1>17. CASE event.n # 0
  <2>1. mailbox' = Tail(mailbox) /\ pc' = "ready"
    BY <1>17 DEF ReceiveBlock, Done
  <2>2. Route(Tail(q))' /\ Tail(q)[1] = r
    BY <1>1, <1>2, <1>3, <2>1, HandlerRoute
  <2>3. r = Here(Tail(q))'
    BY <2>1, <2>2 DEF Here
  <2>4. cursor' \in Seq(PointsTo(r))
    BY <1>11, <1>12, <1>17
  <2>5. applied' = RowsTo(r.blocks, Recorded(r))'
    <3>1. Recorded(r)' = Len(p.blocks)
      BY <1>6, <1>7, <1>17, <2>1 DEF Recorded, Complete
    <3> QED
      BY <1>7, <1>9, <1>10, <3>1 DEF RowsTo
  <2>7. ASSUME Handles("tx")' PROVE counts'[event'.at] = r.left
    <3>1. event'.at = <<Len(r.blocks), r.blocks[Len(r.blocks)].branch>>
      BY <2>2, <2>7, HeadKindNext
    <3>2. event'.at = event.at
      BY <1>6, <1>7, <3>1
    <3> QED
      BY <1>6, <1>13, <3>2
  <2>8. At(r)'
    BY <1>2, <1>14, <2>1, <2>4, <2>5, <2>7 DEF At
  <2> QED
    BY <2>2, <2>3, <2>8 DEF InPlace
<1> QED
  BY <1>16, <1>17

\* Within a block.
InBlock(q, p, r) ==
    /\ Route(q) /\ At(p) /\ p = q[1] /\ r = q[2]
    /\ p \in Place /\ r \in Place /\ Followed(p.blocks)
    /\ p.blocks \in Seq(Block) /\ Len(p.blocks) \in Nat \ {0} /\ Len(p.blocks) <= MaxHeight
    /\ p.left \in 1 .. 2
    /\ r.blocks = p.blocks /\ r.left = p.left - 1
    /\ event.at = <<Len(p.blocks), p.blocks[Len(p.blocks)].branch>>
    /\ event.tx = (IF p.left = 1 THEN p.blocks[Len(p.blocks)].oracle ELSE 0)
    /\ event.at \in Points
    /\ counts[event.at] = p.left
    /\ requests = <<>>

LEMMA TxPlaces ==
  ASSUME CepInv, InPlace, mailbox # <<>>, event.kind = "tx", pc # "building"
  PROVE  \E q, p, r : InBlock(q, p, r)
<1>1. PICK q, p : Route(q) /\ p = Here(q) /\ At(p)
  BY DEF InPlace
<1>2. PICK r : r = q[2]
  OBVIOUS
<1>3. /\ p = q[1] /\ r \in Place /\ p \in Place /\ p.blocks \in Seq(Block)
      /\ Len(p.blocks) <= MaxHeight /\ Followed(p.blocks) /\ Len(p.blocks) \in Nat
      /\ p.left \in 0 .. 2
  BY <1>1, <1>2, HeadPasses DEF Here
<1>4. Passes(event, p, r)
  BY <1>1, <1>2, <1>3, HeadPasses
<1>5. /\ p.left > 0 /\ Len(p.blocks) > 0 /\ r.blocks = p.blocks /\ r.left = p.left - 1
      /\ event.at = <<Len(p.blocks), p.blocks[Len(p.blocks)].branch>>
      /\ event.tx = (IF p.left = 1 THEN p.blocks[Len(p.blocks)].oracle ELSE 0)
  BY <1>4 DEF Passes, PassesBlock, PassesTx, PassesRollback
<1>6. counts[event.at] = p.left /\ (requests # <<>> => p.left = 0)
  BY <1>1 DEF At, Handles
<1>7. requests = <<>> /\ p.left \in 1 .. 2 /\ Len(p.blocks) \in Nat \ {0}
  BY <1>3, <1>5, <1>6
<1>8. event.at \in Points
  BY EventType
<1>9. InBlock(q, p, r)
  BY <1>1, <1>2, <1>3, <1>5, <1>6, <1>7, <1>8 DEF InBlock
<1> QED
  BY <1>9

\* The rows within a block: those of the blocks before it.
LEMMA RowsWithin ==
  ASSUME CepInv, NEW q, NEW p, NEW r, InBlock(q, p, r), pc = "ready",
         NEW n, n = Len(p.blocks), NEW o, o = p.blocks[n].oracle
  PROVE  /\ applied = RowsTo(p.blocks, n - 1)
         /\ RowsTo(p.blocks, n) = IF o = 0 THEN applied ELSE Append(applied, [tx |-> o, slot |-> n])
         /\ o # 0 => ~IsApplied(o)
         /\ o # 0 => PreviousKnown(o)
<1>1. /\ p.blocks \in Seq(Block) /\ n \in Nat /\ n > 0 /\ n <= MaxHeight /\ p.left \in 1 .. 2
      /\ Followed(p.blocks) /\ At(p)
  BY DEF InBlock
<1>2. Recorded(p) = n - 1
  <2>1. p.left # 0
    BY <1>1
  <2>2. Complete(p) = n - 1
    BY <2>1 DEF Complete
  <2> QED
    BY <2>2 DEF Recorded
<1>3. applied = RowsTo(p.blocks, n - 1)
  BY <1>1, <1>2 DEF At
<1>4. n \in 1 .. n
  BY <1>1
<1>5. RowsTo(p.blocks, n) = IF o # 0 THEN Append(RowsTo(p.blocks, n - 1), RowAt(p.blocks, n))
                            ELSE RowsTo(p.blocks, n - 1)
  BY <1>1, <1>4, RowsToDef
<1>6. PICK c : c = SubSeq(p.blocks, 1, n - 1)
  OBVIOUS
<1>7. c \in Seq(Block) /\ Len(c) = n - 1 /\ \A k \in 1 .. n - 1 : c[k] = p.blocks[k]
  <2>1. n - 1 \in 0 .. Len(p.blocks)
    BY <1>1
  <2> QED
    BY <1>1, <1>6, <2>1, CutParts
<1>8. applied = OracleRows(c) /\ Len(c) <= MaxHeight
  BY <1>1, <1>3, <1>6, <1>7, StreamBounds DEF RowsTo
<1>9. /\ \A j \in 1 .. Len(applied) :
            \E k \in 1 .. n - 1 : c[k].oracle # 0 /\ applied[j].tx = c[k].oracle
      /\ \A k \in 1 .. n - 1 : c[k].oracle # 0 =>
            \E j \in 1 .. Len(applied) : applied[j].tx = c[k].oracle
  <2>1. /\ \A j \in 1 .. Len(OracleRows(c)) :
              \E k \in 1 .. Len(c) : c[k].oracle # 0 /\ OracleRows(c)[j].tx = c[k].oracle
        /\ \A k \in 1 .. Len(c) : c[k].oracle # 0 =>
              \E j \in 1 .. Len(OracleRows(c)) : OracleRows(c)[j].tx = c[k].oracle
    BY <1>7, <1>8, RowsHaveTxs
  <2> QED
    BY <1>7, <1>8, <2>1
<1>10. o # 0 => ~IsApplied(o)
  <2> SUFFICES ASSUME o # 0, NEW j \in 1 .. Len(applied), applied[j].tx = o PROVE FALSE
    BY DEF IsApplied
  <2>0. applied[j].tx = o
    OBVIOUS
  <2>1. PICK k \in 1 .. n - 1 : p.blocks[k].oracle # 0 /\ o = p.blocks[k].oracle
    <3>1. PICK k \in 1 .. n - 1 : c[k].oracle # 0 /\ applied[j].tx = c[k].oracle
      BY <1>9
    <3>2. c[k] = p.blocks[k]
      BY <1>7
    <3> QED
      BY <2>0, <3>1, <3>2
  <2>2. k \in 1 .. Len(p.blocks) /\ n \in 1 .. Len(p.blocks) /\ k < n
    BY <1>1, <2>1
  <2>3. p.blocks[k].oracle < p.blocks[n].oracle
    BY <1>1, <2>1, <2>2 DEF Followed, Ordered
  <2>4. o \in Nat
    BY <1>1, <2>2, BlockType
  <2> QED
    BY <2>1, <2>3, <2>4
<1>11. o # 0 => PreviousKnown(o)
  <2> SUFFICES ASSUME o # 0, minted[o].spends # 0 PROVE IsApplied(minted[o].spends)
    BY DEF PreviousKnown
  <2>1. PICK k \in 1 .. n - 1 : p.blocks[k].oracle = minted[o].spends
    <3>1. n \in 1 .. Len(p.blocks)
      BY <1>1
    <3> QED
      BY <1>1, <3>1 DEF Followed, Linked
  <2>2. PICK j \in 1 .. Len(applied) : applied[j].tx = minted[o].spends
    BY <1>7, <1>9, <2>1
  <2> QED
    BY <2>2 DEF IsApplied
<1> QED
  BY <1>3, <1>5, <1>10, <1>11 DEF RowAt

\* A transaction is recorded.
LEMMA ApplyInPlace ==
  ASSUME CepInv, CepInv', InPlace, ReceiveOtherTx \/ ApplyTx
  PROVE  InPlace'
<1>1. /\ pc = "ready" /\ pc' = "applied" /\ mailbox # <<>> /\ event.kind = "tx"
      /\ UNCHANGED <<mailbox, cursor, requests, minted, counts>> /\ UNCHANGED world /\ MintedKept
  BY DEF ReceiveOtherTx, ApplyTx, ReceiveTx, Handles, MintedKept, actorVars, dbVars
<1>2. PICK q, p, r : InBlock(q, p, r)
  BY <1>1, TxPlaces
<1>3. PICK n : n = Len(p.blocks)
  OBVIOUS
<1>4. PICK o : o = p.blocks[n].oracle
  OBVIOUS
<1>5. /\ applied = RowsTo(p.blocks, n - 1)
      /\ RowsTo(p.blocks, n) = IF o = 0 THEN applied ELSE Append(applied, [tx |-> o, slot |-> n])
      /\ o # 0 => ~IsApplied(o)
  BY <1>1, <1>2, <1>3, <1>4, RowsWithin
<1>6. /\ Route(q) /\ At(p) /\ p = q[1] /\ n \in Nat \ {0} /\ p.left \in 1 .. 2
      /\ event.tx = (IF p.left = 1 THEN o ELSE 0) /\ event.at[1] = n
      /\ counts[event.at] = p.left /\ requests = <<>>
  BY <1>2, <1>3, <1>4 DEF InBlock
<1>7. applied' = RowsTo(p.blocks, IF p.left = 1 THEN n ELSE n - 1)
  <2>1. CASE ReceiveOtherTx
    <3>1. event.tx = 0 /\ applied' = applied
      BY <2>1 DEF ReceiveOtherTx, dbVars
    <3> QED
      BY <1>5, <1>6, <3>1
  <2>2. CASE ApplyTx
    <3>1. event.tx # 0 /\ applied' = IF IsApplied(event.tx) THEN applied
                                     ELSE Append(applied, [tx |-> event.tx, slot |-> event.at[1]])
      BY <2>2 DEF ApplyTx
    <3>2. p.left = 1 /\ event.tx = o /\ o # 0
      BY <1>6, <3>1
    <3> QED
      BY <1>5, <1>6, <3>1, <3>2
  <2> QED
    BY <2>1, <2>2
<1>8. Recorded(p)' = IF p.left = 1 THEN n ELSE n - 1
  <2>1. p.left # 0
    BY <1>6
  <2>2. Complete(p) = n - 1
    BY <1>3, <2>1 DEF Complete
  <2> QED
    BY <1>1, <1>3, <2>2 DEF Recorded, Complete
<1>9. applied' = RowsTo(p.blocks, Recorded(p))'
  BY <1>7, <1>8 DEF RowsTo
<1>10. event' = event
  BY <1>1 DEF event
<1>11. At(p)'
  <2>1. cursor \in Seq(PointsTo(p)) /\ (p.left > 0 => Len(p.blocks) > 0)
    BY <1>6 DEF At
  <2> QED
    BY <1>1, <1>6, <1>9, <1>10, <2>1 DEF At
<1>12. Route(q)' /\ p = Here(q)'
  BY <1>1, <1>6, HandlerRoute DEF Here
<1> QED
  BY <1>11, <1>12 DEF InPlace

\* The file that a transaction builds on is known.
LEMMA ApplyWorks ==
  ASSUME Faults = {}, CepInv, InPlace
  PROVE  ~ApplyTxFails
<1> SUFFICES ASSUME ApplyTxFails PROVE FALSE
  OBVIOUS
<1>1. /\ pc = "ready" /\ mailbox # <<>> /\ event.kind = "tx" /\ event.tx # 0
      /\ ~PreviousKnown(event.tx)
  BY CallsWork DEF ApplyTxFails, ReceiveTx, Handles
<1>2. PICK q, p, r : InBlock(q, p, r)
  BY <1>1, TxPlaces
<1>3. PICK n : n = Len(p.blocks)
  OBVIOUS
<1>4. PICK o : o = p.blocks[n].oracle
  OBVIOUS
<1>5. event.tx = o
  BY <1>1, <1>2, <1>3, <1>4 DEF InBlock
<1>6. PreviousKnown(o)
  BY <1>1, <1>2, <1>3, <1>4, <1>5, RowsWithin
<1> QED
  BY <1>1, <1>5, <1>6

\* A recorded transaction is counted: its block has a count, and when it is
\* the last one the tables and the cursor are past the block.
LEMMA CountInPlace ==
  ASSUME Faults = {}, CepInv, CepInv', InPlace, CountTx \/ CountLastTx
  PROVE  InPlace'
<1>1. /\ pc = "applied" /\ mailbox # <<>> /\ event.kind = "tx"
      /\ UNCHANGED <<applied, requests, minted>> /\ UNCHANGED world /\ MintedKept
  BY DEF CountTx, CountLastTx, CepInv, Handles, MintedKept, dbVars
<1>2. PICK q, p, r : InBlock(q, p, r)
  BY <1>1, TxPlaces
<1>3. PICK n : n = Len(p.blocks)
  OBVIOUS
<1>4. /\ Route(q) /\ At(p) /\ p = q[1] /\ r = q[2] /\ n \in Nat \ {0} /\ p.left \in 1 .. 2
      /\ r.blocks = p.blocks /\ r.left = p.left - 1 /\ p \in Place /\ r \in Place
      /\ p.blocks \in Seq(Block) /\ event.at = <<n, p.blocks[n].branch>> /\ event.at \in Points
      /\ counts[event.at] = p.left /\ requests = <<>>
  BY <1>2, <1>3 DEF InBlock
<1>5. counts \in [Points -> 0 .. 2]
  BY DEF CepInv, TypeOK
<1>6. applied = RowsTo(p.blocks, Recorded(p)) /\ cursor \in Seq(PointsTo(p))
  BY <1>4 DEF At
<1>7. Complete(p) = n - 1
  <2>1. p.left # 0
    BY <1>4
  <2> QED
    BY <1>3, <2>1 DEF Complete
<1>8. CASE CountTx
  <2>1. counts[event.at] > 1 /\ counts' = [counts EXCEPT ![event.at] = @ - 1] /\ Done /\ cursor' = cursor
    BY <1>8 DEF CountTx, dbVars
  <2>2. p.left = 2 /\ r.left = 1
    BY <1>4, <2>1
  <2>3. Complete(r) = n - 1 /\ Recorded(p) = n - 1
    BY <1>3, <1>4, <1>7, <2>2 DEF Complete, Recorded
  <2>4. Recorded(r)' = n - 1
    BY <2>1, <2>3 DEF Recorded, Complete, Done
  <2>5. applied' = RowsTo(r.blocks, Recorded(r))'
    BY <1>1, <1>4, <1>6, <2>3, <2>4 DEF RowsTo
  <2>6. PointsTo(r) = PointsTo(p)
    BY <1>4, <1>7, <2>3 DEF PointsTo
  <2>7. Route(Tail(q))' /\ Tail(q)[1] = r
    BY <1>1, <1>4, <2>1, HandlerRoute DEF Done
  <2>8. r = Here(Tail(q))' /\ pc' = "ready"
    BY <2>1, <2>7 DEF Here, Done
  <2>9. ASSUME Handles("tx")' PROVE counts'[event'.at] = r.left
    <3>1. event'.at = <<Len(r.blocks), r.blocks[Len(r.blocks)].branch>>
      BY <2>7, <2>9, HeadKindNext
    <3>2. event'.at = event.at
      BY <1>3, <1>4, <3>1
    <3> QED
      BY <1>4, <1>5, <2>1, <3>2
  <2>10. At(r)'
    <3>1. Len(r.blocks) > 0
      BY <1>3, <1>4
    <3> QED
      BY <1>1, <1>4, <1>6, <2>1, <2>5, <2>6, <2>8, <2>9, <3>1 DEF At
  <2> QED
    BY <2>7, <2>8, <2>10 DEF InPlace
<1>9. CASE CountLastTx
  <2>1. /\ counts[event.at] = 1 /\ mailbox' = mailbox /\ pc' = "building"
        /\ cursor' = Append(cursor, event.at)
    <3>1. Outcome(Append(cursor, event.at), cursor) = {Append(cursor, event.at)}
      BY CallsWork
    <3> QED
      BY <1>9, <3>1 DEF CountLastTx
  <2>2. p.left = 1 /\ r.left = 0
    BY <1>4, <2>1
  <2>3. Complete(r) = n /\ Recorded(p) = n
    BY <1>1, <1>3, <1>4, <2>2 DEF Complete, Recorded
  <2>4. Recorded(r)' = n
    BY <2>1, <2>3 DEF Recorded, Complete
  <2>5. applied' = RowsTo(r.blocks, Recorded(r))'
    BY <1>1, <1>4, <1>6, <2>3, <2>4 DEF RowsTo
  <2>6. PointsTo(p) \subseteq PointsTo(r)
    <3>1. \A k \in 1 .. n - 1 : k \in 1 .. n
      BY <1>4
    <3> QED
      BY <1>4, <1>7, <2>3, <3>1 DEF PointsTo
  <2>7. event.at \in PointsTo(r)
    <3>1. n \in 1 .. n
      BY <1>4
    <3> QED
      BY <1>4, <2>3, <3>1 DEF PointsTo
  <2>8. cursor' \in Seq(PointsTo(r))
    <3>1. cursor \in Seq(PointsTo(r))
      BY <1>6, <2>6, SeqMonotonic, Zenon
    <3> QED
      BY <2>1, <2>7, <3>1, AppendParts
  <2>9. Route(q)' /\ r = Here(q)'
    BY <1>1, <1>4, <2>1, HandlerRoute DEF Here
  <2>10. At(r)'
    BY <1>1, <1>4, <2>1, <2>2, <2>5, <2>8 DEF At
  <2> QED
    BY <2>9, <2>10 DEF InPlace
<1> QED
  BY <1>8, <1>9

LEMMA CountIsThere ==
  ASSUME CepInv, InPlace
  PROVE  ~CountMissing
<1> SUFFICES ASSUME CountMissing PROVE FALSE
  OBVIOUS
<1>1. pc = "applied" /\ mailbox # <<>> /\ event.kind = "tx" /\ counts[event.at] = 0
  BY DEF CountMissing, CepInv, Handles
<1>2. PICK q, p, r : InBlock(q, p, r)
  BY <1>1, TxPlaces
<1>3. p.left \in 1 .. 2 /\ counts[event.at] = p.left
  BY <1>2 DEF InBlock
<1> QED
  BY <1>1, <1>3

\* No handler fails, and each leaves the tables where the queue is.
LEMMA HandlerInPlace ==
  ASSUME Faults = {}, CepInv, CepInv', InPlace, ~failed, Handler
  PROVE  InPlace' /\ ~failed'
<1>1. ~ApplyTxFails /\ ~CountMissing /\ ~UpdateFails /\ ~RollbackFails /\ ~DropEvent
  BY ApplyWorks, CountIsThere, CallsWork DEF UpdateFails, RollbackFails, DropEvent
<1>2. CASE DetectRollbackCursor \/ DetectRollback \/ ReceiveBlock
  <2>1. failed' = failed
    BY <1>2 DEF DetectRollbackCursor, DetectRollback, ReceiveBlock, actorVars
  <2> QED
    BY <1>2, <2>1, DetectInPlace, ReceiveBlockInPlace
<1>3. CASE ReceiveOtherTx \/ ApplyTx
  <2>1. failed' = failed
    BY <1>3 DEF ReceiveOtherTx, ApplyTx, actorVars
  <2> QED
    BY <1>3, <2>1, ApplyInPlace
<1>4. CASE CountTx \/ CountLastTx
  <2>1. failed' = failed
    BY <1>4 DEF CountTx, CountLastTx
  <2> QED
    BY <1>4, <2>1, CountInPlace
<1>5. CASE PassBlock \/ RequestRestart \/ SkipUpdate \/ SubmitUpdate
  <2>1. /\ UNCHANGED world /\ UNCHANGED <<applied, cursor, failed>> /\ pc = "building" /\ Done
    BY <1>5 DEF PassBlock, RequestRestart, SkipUpdate, SubmitUpdate, ProcessBlockTipReached,
                BlockDone, dbVars
  <2>2. MintedKept
    <3>1. CASE SubmitUpdate
      BY <3>1, SubmitKeeps
    <3>2. CASE ~SubmitUpdate
      BY <1>5, <3>2 DEF PassBlock, RequestRestart, SkipUpdate, MintedKept
    <3> QED
      BY <3>1, <3>2
  <2> QED
    BY <2>1, <2>2, BuildInPlace
<1>6. CASE RollbackCursor
  <2>1. failed' = failed
    BY <1>6 DEF RollbackCursor, actorVars
  <2> QED
    BY <1>6, <2>1, RollbackCursorInPlace
<1>7. CASE Rollback
  <2>1. failed' = failed
    BY <1>7 DEF Rollback
  <2> QED
    BY <1>7, <2>1, RollbackInPlace
<1> QED
  BY <1>1, <1>2, <1>3, <1>4, <1>5, <1>6, <1>7 DEF Handler

-----------------------------------------------------------------------------
(* The outputs that transactions spend.                                    *)

LEMMA MintedStep ==
  ASSUME CepInv, CepInv', MintedInOrder,
         \/ UNCHANGED minted
         \/ \E tx \in OracleTx : minted' = Append(minted, tx) /\ tx.spends <= Len(minted),
         utxo' # NULL => utxo' <= Len(minted)
  PROVE  MintedInOrder'
<1>1. /\ minted \in Seq(OracleTx) /\ Len(minted) \in Nat /\ MaxTxs \in Nat
      /\ utxo' \in 0 .. MaxTxs \cup {NULL}
  BY StreamBounds DEF CepInv, TypeOK, StreamTypeOK
<1>2. \A t \in 1 .. Len(minted) : minted[t].spends < t
  BY DEF MintedInOrder
<1>3. CASE UNCHANGED minted
  BY <1>3 DEF MintedInOrder
<1>4. CASE \E tx \in OracleTx : minted' = Append(minted, tx) /\ tx.spends <= Len(minted)
  <2>1. PICK tx \in OracleTx : minted' = Append(minted, tx) /\ tx.spends <= Len(minted)
    BY <1>4
  <2>2. PICK m : m = minted'
    OBVIOUS
  <2>3. /\ Len(m) = Len(minted) + 1 /\ m[Len(minted) + 1] = tx
        /\ \A t \in 1 .. Len(minted) : m[t] = minted[t]
    BY <1>1, <2>1, <2>2, AppendParts
  <2>4. tx.spends \in Nat
    BY <1>1, <2>1 DEF OracleTx
  <2>5. \A t \in 1 .. Len(m) : m[t].spends < t
    <3> TAKE t \in 1 .. Len(m)
    <3>1. CASE t \in 1 .. Len(minted)
      BY <1>2, <2>3, <3>1
    <3>2. CASE t = Len(minted) + 1
      BY <1>1, <2>1, <2>3, <2>4, <3>2
    <3> QED
      BY <1>1, <2>3, <3>1, <3>2
  <2>6. utxo' # NULL => utxo' <= Len(m)
    BY <1>1, <2>3
  <2> QED
    BY <2>2, <2>5, <2>6 DEF MintedInOrder
<1> QED
  BY <1>3, <1>4

LEMMA ValidatorKnown ==
  ASSUME CepInv, MintedInOrder
  PROVE  ValidatorUTxO \in 0 .. MaxTxs /\ ValidatorUTxO <= Len(minted)
<1>1. UnspentOf(chain) \in 0 .. Len(minted) /\ Len(minted) \in Nat
  BY UnspentType DEF CepInv, TypeOK, StreamTypeOK
<1>2. ValidatorUTxO <= Len(minted)
  BY <1>1 DEF ValidatorUTxO, MintedInOrder
<1> QED
  BY <1>2, ValidatorType

LEMMA HandlerMints ==
  ASSUME Faults = {}, CepInv, CepInv', MintedInOrder, Handler
  PROVE  MintedInOrder' /\ MintedKept
<1>1. ~UpdateFails /\ ~RollbackFails
  BY CallsWork DEF UpdateFails, RollbackFails
<1>2. utxo # NULL => utxo <= Len(minted)
  BY DEF MintedInOrder
<1>3. CASE \/ DetectRollbackCursor \/ DetectRollback \/ ReceiveBlock \/ DropEvent
           \/ ReceiveOtherTx \/ CountMissing \/ CountTx \/ CountLastTx
           \/ PassBlock \/ RollbackCursor \/ Rollback
  <2>1. UNCHANGED <<minted, utxo>>
    BY <1>3 DEF DetectRollbackCursor, DetectRollback, ReceiveBlock, DropEvent, ReceiveOtherTx, CountMissing, CountTx, CountLastTx,
                PassBlock, RollbackCursor, Rollback, globalVars
  <2>2. utxo' # NULL => utxo' <= Len(minted)
    BY <1>2, <2>1
  <2> QED
    BY <2>1, <2>2, MintedStep DEF MintedKept
<1>4. CASE ApplyTx \/ ApplyTxFails
  <2>1. /\ UNCHANGED minted /\ utxo' = event.tx /\ mailbox # <<>> /\ event.kind = "tx"
    BY <1>4 DEF ApplyTx, ApplyTxFails, ReceiveTx, Handles
  <2>2. event.tx \in 0 .. Len(minted)
    BY <2>1, EventType
  <2>3. utxo' <= Len(minted)
    <3>1. Len(minted) \in Nat
      BY DEF CepInv, TypeOK, StreamTypeOK
    <3>2. event.tx <= Len(minted)
      BY <2>2, <3>1
    <3> QED
      BY <2>1, <3>2
  <2> QED
    BY <2>1, <2>3, MintedStep DEF MintedKept
<1>5. CASE RequestRestart \/ SkipUpdate
  <2>1. UNCHANGED minted /\ utxo' = ValidatorUTxO
    BY <1>5 DEF RequestRestart, SkipUpdate
  <2>2. utxo' <= Len(minted)
    BY <2>1, ValidatorKnown
  <2> QED
    BY <2>1, <2>2, MintedStep DEF MintedKept
<1>6. CASE SubmitUpdate
  <2>1. /\ minted' = Append(minted, [spends |-> ValidatorUTxO, base |-> AppliedTxs])
        /\ utxo' = ValidatorUTxO /\ Len(minted) < MaxTxs
    BY <1>6 DEF SubmitUpdate
  <2>2. ValidatorUTxO <= Len(minted)
    BY ValidatorKnown
  <2>3. MintedKept
    BY <1>6, SubmitKeeps
  <2>4. minted \in Seq(OracleTx) /\ Len(minted) \in Nat /\ minted' \in Seq(OracleTx)
    BY DEF CepInv, TypeOK, StreamTypeOK
  <2>5. PICK tx : tx = [spends |-> ValidatorUTxO, base |-> AppliedTxs]
    OBVIOUS
  <2>6. tx.spends = ValidatorUTxO /\ minted' = Append(minted, tx)
    BY <2>1, <2>5
  <2>7. tx \in OracleTx
    <3>1. PICK m : m = minted'
      OBVIOUS
    <3>2. Len(m) = Len(minted) + 1 /\ m[Len(minted) + 1] = tx
      BY <2>4, <2>6, <3>1, AppendProperties
    <3>3. Len(minted) + 1 \in 1 .. Len(m) /\ m \in Seq(OracleTx)
      BY <2>4, <3>1, <3>2
    <3> QED
      BY <3>2, <3>3, ElementOfSeq
  <2>8. MintedInOrder'
    BY <2>1, <2>2, <2>6, <2>7, MintedStep
  <2> QED
    BY <2>3, <2>8
<1> QED
  BY <1>1, <1>3, <1>4, <1>5, <1>6 DEF Handler

-----------------------------------------------------------------------------
(* The chain, the stream and the restarts.                                 *)

LEMMA EnvironmentFollowed ==
  ASSUME CepInv, CepInv', MintedInOrder, Followed(chain), MintedKept, Environment, UNCHANGED utxo
  PROVE  /\ MintedInOrder' /\ Followed(chain)'
         /\ \A c : Followed(c) => Followed(c)'
<1>1. /\ chain \in Seq(Block) /\ Len(chain) \in Nat /\ forks \in 0 .. MaxForks /\ Len(minted) \in Nat
      /\ {MaxHeight, MaxForks, MaxTxs} \subseteq Nat /\ Len(minted) <= MaxTxs
  <2>1. chain \in Seq(Block) /\ minted \in Seq(OracleTx)
    BY DEF CepInv, TypeOK, StreamTypeOK
  <2>2. forks \in 0 .. MaxForks /\ Len(minted) <= MaxTxs
    BY DEF CepInv, TypeOK, StreamTypeOK
  <2> QED
    BY <2>1, <2>2, LenProperties, StreamBounds
<1>2. UnspentOf(chain) \in 0 .. Len(minted) /\ UnspentOf(chain) \in 0 .. MaxTxs
  BY UnspentType
<1>3. utxo' # NULL => utxo' <= Len(minted)
  BY DEF MintedInOrder
<1>4. ASSUME NEW other \in BOOLEAN, NEW t \in 0 .. MaxTxs, Extend(other, t), UNCHANGED forks,
             Len(chain) < MaxHeight, t <= Len(minted'),
             t # 0 => minted'[t].spends = UnspentOf(chain) /\ UnspentOf(chain) < t
      PROVE  Followed(chain)' /\ \A c : Followed(c) => Followed(c)'
  <2>1. Followed(chain)'
    BY <1>4, ChainGrows
  <2>2. \E b \in Block : b.branch = forks /\ chain' = Append(chain, b)
    <3>1. [branch |-> forks, other |-> other, oracle |-> t] \in Block
      BY <1>1 DEF Block
    <3> QED
      BY <1>4, <3>1 DEF Extend
  <2> QED
    BY <1>4, <2>1, <2>2, FollowedStays
<1>5. ASSUME NEW other \in BOOLEAN, NEW t \in 0 .. MaxTxs, ForgeBlock(other, t)
      PROVE  MintedInOrder' /\ Followed(chain)' /\ \A c : Followed(c) => Followed(c)'
  <2>1. /\ Extend(other, t) /\ UNCHANGED <<forks, minted>> /\ Len(chain) < MaxHeight
        /\ t # 0 => t <= Len(minted) /\ minted[t].spends = UnspentOf(chain)
    BY <1>5 DEF ForgeBlock
  <2>2. t # 0 => minted[t].spends < t
    <3>1. t # 0 => t \in 1 .. Len(minted)
      BY <1>1, <2>1
    <3> QED
      BY <3>1 DEF MintedInOrder
  <2>3. t <= Len(minted')
    BY <1>1, <2>1
  <2>4. MintedInOrder'
    BY <1>3, <2>1, MintedStep
  <2> QED
    BY <1>4, <2>1, <2>2, <2>3, <2>4
<1>6. ASSUME NEW other \in BOOLEAN, ForgeForeign(other)
      PROVE  MintedInOrder' /\ Followed(chain)' /\ \A c : Followed(c) => Followed(c)'
  <2>1. PICK tx : tx = [spends |-> UnspentOf(chain), base |-> RootOf(UnspentOf(chain))]
    OBVIOUS
  <2>2. /\ Extend(other, Len(minted) + 1) /\ UNCHANGED forks /\ Len(chain) < MaxHeight
        /\ Len(minted) < MaxTxs /\ minted' = Append(minted, tx)
    BY <1>6, <2>1 DEF ForgeForeign
  <2>3. tx.spends = UnspentOf(chain) /\ minted \in Seq(OracleTx) /\ minted' \in Seq(OracleTx)
    BY <2>1 DEF CepInv, TypeOK, StreamTypeOK
  <2>4. PICK m : m = minted'
    OBVIOUS
  <2>5. Len(m) = Len(minted) + 1 /\ m[Len(minted) + 1] = tx
    BY <2>2, <2>3, <2>4, AppendProperties
  <2>6. tx \in OracleTx
    <3>1. Len(minted) + 1 \in 1 .. Len(m) /\ m \in Seq(OracleTx)
      BY <1>1, <2>3, <2>4, <2>5
    <3> QED
      BY <2>5, <3>1, ElementOfSeq
  <2>7. tx.spends <= Len(minted)
    BY <1>1, <1>2, <2>3
  <2>8. MintedInOrder'
    BY <1>3, <2>2, <2>6, <2>7, MintedStep
  <2>9. PICK t : t = Len(minted) + 1
    OBVIOUS
  <2>10. /\ t \in 0 .. MaxTxs /\ t <= Len(minted') /\ Extend(other, t)
         /\ minted'[t].spends = UnspentOf(chain) /\ UnspentOf(chain) < t
    BY <1>1, <1>2, <2>2, <2>3, <2>4, <2>5, <2>9
  <2> QED
    BY <1>4, <2>2, <2>8, <2>10
<1>7. ASSUME NEW n \in Heights, Fork(n)
      PROVE  MintedInOrder' /\ Followed(chain)' /\ \A c : Followed(c) => Followed(c)'
  <2>1. /\ n \in 1 .. Len(chain) - 1 /\ chain' = SubSeq(chain, 1, n) /\ forks' = forks + 1
        /\ UNCHANGED minted
    BY <1>7 DEF Fork
  <2>2. n \in 0 .. Len(chain)
    BY <1>1, <2>1
  <2>3. \A c : Followed(c) => Followed(c)'
    BY <2>1, <2>2, FollowedStays
  <2>4. PICK d : d = SubSeq(chain, 1, n)
    OBVIOUS
  <2>5. Followed(d)
    BY <2>2, <2>4, PrefixFollowed
  <2>6. Followed(d)' /\ d = chain'
    BY <2>1, <2>3, <2>4, <2>5
  <2>7. Followed(chain)'
    BY <2>6 DEF Followed, Ordered, Linked, Forged, Agree, KnownBlock
  <2>8. MintedInOrder'
    BY <1>3, <2>1, MintedStep
  <2> QED
    BY <2>3, <2>7, <2>8
<1> QED
  BY <1>5, <1>6, <1>7 DEF Environment

\* What the handler has done stays as more events arrive.
LEMMA ArrivalInPlace ==
  ASSUME CepInv, CepInv', UNCHANGED processorVars, NEW q, NEW p, Route(q), p = Here(q), At(p),
         NEW r, Route(r)', \A i \in 1 .. Len(q) : r[i] = q[i],
         mailbox # <<>> => mailbox' # <<>> /\ event' = event
  PROVE  InPlace'
<1>1. UNCHANGED <<applied, cursor, counts, requests, pc>>
  BY DEF processorVars, actorVars, dbVars
<1>2. /\ mailbox \in Seq(Event) /\ Len(mailbox) \in Nat /\ Len(q) = Len(mailbox) + 1
      /\ \A i \in 1 .. Len(q) : q[i].blocks \in Seq(Block)
  BY PathParts DEF Route, CepInv, TypeOK, StreamTypeOK
<1>3. 1 \in 1 .. Len(q) /\ r[1] = q[1]
  BY <1>2
<1>4. CASE mailbox # <<>>
  <2>1. 2 \in 1 .. Len(q)
    BY <1>2, <1>4
  <2>2. p = Here(r)'
    BY <1>1, <1>3, <2>1 DEF Here
  <2>3. Handles("tx")' => Handles("tx")
    BY <1>4 DEF Handles
  <2>4. Recorded(p)' = Recorded(p)
    BY <1>1 DEF Recorded, Complete
  <2>5. At(p)'
    BY <1>1, <1>4, <2>3, <2>4 DEF At, RowsTo
  <2> QED
    BY <2>2, <2>5 DEF InPlace
<1>5. CASE mailbox = <<>>
  <2>1. pc = "ready" /\ p = q[1]
    BY <1>5 DEF CepInv, TypeOK, Here
  <2>2. p.left = 0 /\ p.blocks \in Seq(Block)
    <3>1. Len(q) = 1
      BY <1>2, <1>5
    <3>2. q[1] = [blocks |-> view, left |-> 0]
      BY <3>1 DEF Route
    <3> QED
      BY <1>2, <1>3, <2>1, <3>2
  <2>3. Recorded(p) = Len(p.blocks)
    BY <2>1, <2>2, LenProperties DEF Recorded, Complete
  <2>4. applied = OracleRows(p.blocks) /\ cursor \in Seq(PointsTo(p))
    BY <2>2, <2>3, RowsToAll DEF At
  <2>5. BlockEnd(p)'
    BY <1>1, <2>1, <2>2, <2>4 DEF BlockEnd
  <2>6. p = r[1]
    BY <1>3, <2>1
  <2> QED
    BY <2>5, <2>6, BlockEndNext
<1> QED
  BY <1>4, <1>5

LEMMA StreamInPlace ==
  ASSUME CepInv, CepInv', MintedInOrder, Followed(chain), InPlace, MintedKept,
         Environment \/ SendBlock \/ SendRollback, UNCHANGED processorVars
  PROVE  MintedInOrder' /\ Followed(chain)' /\ InPlace'
<1>1. UNCHANGED utxo /\ (utxo' # NULL => utxo' <= Len(minted))
  BY DEF processorVars, globalVars, MintedInOrder
<1>2. PICK q, p : Route(q) /\ p = Here(q) /\ At(p)
  BY DEF InPlace
<1>3. CASE Environment
  <2>1. /\ MintedInOrder' /\ Followed(chain)' /\ \A c : Followed(c) => Followed(c)'
    BY <1>1, <1>3, EnvironmentFollowed
  <2>2. UNCHANGED <<mailbox, view>>
    BY <1>3 DEF Environment, ForgeBlock, ForgeForeign, Fork, streamVars
  <2>3. Route(q)'
    BY <1>2, <2>1, <2>2, RouteStays
  <2>4. event' = event
    BY <2>2 DEF event
  <2>5. InPlace'
    BY <1>2, <2>2, <2>3, <2>4, ArrivalInPlace
  <2> QED
    BY <2>1, <2>5
<1>4. CASE SendBlock \/ SendRollback
  <2>1. UNCHANGED <<chain, forks, minted>>
    BY <1>4 DEF SendBlock, SendRollback, chainVars
  <2>2. MintedInOrder'
    BY <1>1, <2>1, MintedStep
  <2>3. Followed(chain)'
    BY <2>1 DEF Followed, Ordered, Linked, Forged, Agree, KnownBlock
  <2>4. \E r : Route(r)' /\ \A i \in 1 .. Len(q) : r[i] = q[i]
    BY <1>2, <1>4, SendBlockRoute, SendRollbackRoute
  <2>5. PICK r : Route(r)' /\ \A i \in 1 .. Len(q) : r[i] = q[i]
    BY <2>4
  <2>6. mailbox # <<>> => mailbox' # <<>> /\ event' = event
    <3> SUFFICES ASSUME mailbox # <<>> PROVE mailbox' # <<>> /\ event' = event
      OBVIOUS
    <3>1. mailbox \in Seq(Event) /\ mailbox' \in Seq(Event)
      BY DEF CepInv, TypeOK, StreamTypeOK
    <3>2. Len(mailbox) \in Nat /\ Len(mailbox) > 0 /\ event = mailbox[1]
      BY EventType
    <3>3. Len(mailbox') > 0 /\ mailbox'[1] = mailbox[1]
      <4>1. CASE SendBlock
        <5>1. /\ Len(mailbox') > Len(mailbox) /\ Len(mailbox') \in Nat
              /\ \A i \in 1 .. Len(mailbox) : mailbox'[i] = mailbox[i]
          BY <4>1, SentBlock
        <5> QED
          BY <3>2, <5>1
      <4>2. CASE SendRollback
        <5>1. PICK e : e = RollbackEvent(PointAt(view, CommonLength))
          OBVIOUS
        <5>2. e \in Event
          BY <5>1, CommonType DEF RollbackEvent, Event
        <5>3. mailbox' = Append(mailbox, e)
          BY <4>2, <5>1 DEF SendRollback
        <5> QED
          BY <3>1, <3>2, <5>2, <5>3, AppendParts
      <4> QED
        BY <1>4, <4>1, <4>2
    <3>4. PICK m : m = mailbox'
      OBVIOUS
    <3>5. m # <<>> /\ Head(m) = m[1]
      BY <3>1, <3>3, <3>4
    <3> QED
      BY <3>2, <3>3, <3>4, <3>5 DEF event
  <2>7. InPlace'
    BY <1>2, <2>5, <2>6, ArrivalInPlace
  <2> QED
    BY <2>2, <2>3, <2>7
<1> QED
  BY <1>3, <1>4

LEMMA HereType ==
  ASSUME CepInv, NEW q, NEW p, Route(q), p = Here(q), At(p)
  PROVE  /\ p \in Place /\ Followed(p.blocks) /\ p.blocks \in Seq(Block) /\ Len(p.blocks) <= MaxHeight
         /\ Len(p.blocks) \in Nat /\ p.left \in 0 .. 2 /\ (p.left > 0 => Len(p.blocks) > 0)
<1>1. mailbox \in Seq(Event) /\ Path(mailbox, q)
  BY DEF Route, CepInv, TypeOK, StreamTypeOK
<1>2. \E i \in 1 .. Len(q) : p = q[i]
  <2>1. CASE pc = "building"
    <3>1. mailbox # <<>>
      BY <2>1 DEF CepInv, TypeOK
    <3>2. Len(mailbox) > 0 /\ Len(mailbox) \in Nat /\ Len(q) = Len(mailbox) + 1
      BY <1>1, <3>1, EventType, PathParts
    <3>3. 2 \in 1 .. Len(q)
      BY <3>2
    <3> QED
      BY <2>1, <3>3 DEF Here
  <2>2. CASE pc # "building"
    BY <1>1, <2>2, PathParts DEF Here
  <2> QED
    BY <2>1, <2>2
<1>3. PICK i \in 1 .. Len(q) : p = q[i]
  BY <1>2
<1>4. p \in Place /\ Followed(p.blocks)
  BY <1>1, <1>3, PathParts DEF Path
<1>5. Len(p.blocks) <= MaxHeight
  BY <1>4 DEF Followed
<1>6. p.left > 0 => Len(p.blocks) > 0
  BY DEF At
<1> QED
  BY <1>4, <1>5, <1>6, CompleteType

\* The process stops and starts again: what it has not handled is gone, and
\* it goes on where the tables and the cursor are.
LEMMA CrashInPlace ==
  ASSUME Faults = {}, CepInv, CepInv', Followed(chain), InPlace, Crash
  PROVE  InPlace'
<1>1. PICK q, p : Route(q) /\ p = Here(q) /\ At(p)
  BY DEF InPlace
<1>2. PICK n : n = IntersectLength(cursor)
  OBVIOUS
<1>3. PICK e : e = FirstEvent(cursor)
  OBVIOUS
<1>4. PICK w : w = SubSeq(chain, 1, n)
  OBVIOUS
<1>5. /\ pc' = "ready" /\ requests' = <<>> /\ view' = w /\ mailbox' = <<e>>
      /\ UNCHANGED <<chain, forks, minted, applied, cursor>>
  BY <1>2, <1>3, <1>4, CallsWork DEF Crash, StartStream, chainVars, dbVars
<1>6. cursor \in Seq(Points)
  BY DEF CepInv, TypeOK
<1>7. /\ p \in Place /\ Followed(p.blocks) /\ p.blocks \in Seq(Block) /\ Len(p.blocks) \in Nat
      /\ p.left \in 0 .. 2 /\ (p.left > 0 => Len(p.blocks) > 0)
  BY <1>1, HereType
<1>8. applied = RowsTo(p.blocks, Recorded(p)) /\ cursor \in Seq(PointsTo(p))
  BY <1>1 DEF At
<1>9. \E r : /\ r \in Place /\ r.blocks = p.blocks /\ (r.left > 0 => Len(r.blocks) > 0)
             /\ applied = RowsTo(r.blocks, Complete(r)) /\ cursor \in Seq(PointsTo(r))
  <2>1. CASE pc = "applied" /\ p.left = 1
    <3>1. PICK r : r = [blocks |-> p.blocks, left |-> 0]
      OBVIOUS
    <3>2. r.blocks = p.blocks /\ r.left = 0
      BY <3>1
    <3>3. r \in Place
      <4>1. 0 \in 0 .. 2
        OBVIOUS
      <4> QED
        BY <1>7, <3>1, <4>1, PlaceIs
    <3>4. Complete(r) = Len(p.blocks) /\ Recorded(p) = Len(p.blocks)
      BY <1>7, <2>1, <3>2 DEF Complete, Recorded
    <3>5. PointsTo(p) \subseteq PointsTo(r)
      <4>1. Complete(p) \in 0 .. Len(p.blocks)
        BY <1>7, CompleteType
      <4>2. \A k \in 1 .. Complete(p) : k \in 1 .. Complete(r)
        BY <1>7, <3>4, <4>1
      <4> QED
        BY <3>2, <4>2 DEF PointsTo
    <3>6. cursor \in Seq(PointsTo(r))
      BY <1>8, <3>5, SeqMonotonic, Zenon
    <3> QED
      BY <1>8, <3>2, <3>3, <3>4, <3>6
  <2>2. CASE ~(pc = "applied" /\ p.left = 1)
    <3>1. Recorded(p) = Complete(p)
      BY <2>2 DEF Recorded
    <3> QED
      BY <1>7, <1>8, <3>1
  <2> QED
    BY <2>1, <2>2
<1>10. PICK r : /\ r \in Place /\ r.blocks = p.blocks /\ (r.left > 0 => Len(r.blocks) > 0)
                /\ applied = RowsTo(r.blocks, Complete(r)) /\ cursor \in Seq(PointsTo(r))
  BY <1>9
<1>11. Followed(r.blocks)
  BY <1>7, <1>10
<1>12. n \in 0 .. Complete(r) /\ n \in 0 .. Len(chain) /\ w = SubSeq(r.blocks, 1, n)
  BY <1>2, <1>4, <1>6, <1>10, <1>11, ResumePoint
<1>13. /\ Complete(r) \in 0 .. Len(r.blocks) /\ Len(r.blocks) \in Nat /\ r.left \in 0 .. 2
       /\ (r.left > 0 => Complete(r) < Len(r.blocks))
  BY <1>10, CompleteType
<1>14. e \in Event /\ e.kind = "rollback" /\ e.at[1] = n
  BY <1>2, <1>3, <1>6, StartType DEF KnownEvent
<1>15. Followed(w) /\ w \in Seq(Block)
  <2>1. Followed(w)
    BY <1>4, <1>12, PrefixFollowed
  <2> QED
    BY <2>1, FollowedType
<1>16. PICK x : x = [blocks |-> w, left |-> 0]
  OBVIOUS
<1>17. x \in Place /\ x.blocks = w /\ x.left = 0
  <2>1. 0 \in 0 .. 2
    OBVIOUS
  <2> QED
    BY <1>15, <1>16, <2>1, PlaceIs
<1>18. Passes(e, r, x)
  <2>1. n <= Len(r.blocks) /\ (r.left > 0 => n < Len(r.blocks))
    BY <1>12, <1>13
  <2>2. PassesRollback(e, r, x)
    BY <1>12, <1>14, <1>17, <2>1 DEF PassesRollback
  <2> QED
    BY <2>2 DEF Passes
<1>19. PICK y : y = <<r>>
  OBVIOUS
<1>20. PICK m : m = <<>> /\ m \in Seq(Event) /\ Len(m) = 0
  BY EmptySeq
<1>21. y \in Seq(Place) /\ Len(y) = 1 /\ y[1] = r
  BY <1>10, <1>19
<1>22. Path(m, y)
  BY <1>11, <1>20, <1>21 DEF Path
<1>23. PICK z : z = Append(y, x)
  OBVIOUS
<1>24. Path(Append(m, e), z) /\ z[Len(z)] = x /\ z[1] = r
  <2>1. Passes(e, y[Len(y)], x) /\ Followed(x.blocks)
    BY <1>15, <1>17, <1>18, <1>21
  <2>2. /\ Path(Append(m, e), Append(y, x)) /\ Append(y, x)[Len(Append(y, x))] = x
        /\ \A i \in 1 .. Len(y) : Append(y, x)[i] = y[i]
    <3>1. e \in Event /\ x \in Place /\ m \in Seq(Event)
      BY <1>14, <1>17, <1>20
    <3> QED
      BY <1>22, <2>1, <3>1, PathGrows
  <2>3. 1 \in 1 .. Len(y)
    BY <1>21
  <2> QED
    BY <1>21, <1>23, <2>2, <2>3
<1>25. Append(m, e) = mailbox'
  BY <1>5, <1>20
<1>26. Route(z)'
  <2>1. \A c : Followed(c) => Followed(c)'
    BY <1>5, FollowedSame
  <2> QED
    BY <1>5, <1>16, <1>24, <1>25, <2>1 DEF Route, Path
<1>27. r = Here(z)'
  BY <1>5, <1>24 DEF Here
<1>28. At(r)'
  <2>1. event' = e
    BY <1>5 DEF event
  <2>2. ~Handles("tx")'
    BY <1>14, <2>1 DEF Handles
  <2>3. applied' = RowsTo(r.blocks, Recorded(r))'
    <3>1. Recorded(r)' = Complete(r)
      BY <1>5 DEF Recorded, Complete
    <3> QED
      BY <1>5, <1>10, <3>1 DEF RowsTo
  <2> QED
    BY <1>5, <1>10, <2>2, <2>3 DEF At
<1> QED
  BY <1>26, <1>27, <1>28 DEF InPlace

\* The manager restarts the processor, and no rollback that is still on its
\* way makes the new stream start ahead of the old one's blocks.  (The second
\* case is the usual one: the restart before it has been taken up.  That a
\* restart then never starts ahead is AheadWithoutRollback.)
SafeRestart ==
    ManagerRestart => \/ IsPrefix(view', view)
                      \/ NoRollback(mailbox, 1, Len(mailbox))

LEMMA RestartInPlace ==
  ASSUME CepInv, CepInv', Followed(chain), InPlace, ManagerRestart, SafeRestart
  PROVE  InPlace'
<1>1. PICK q, p : Route(q) /\ p = Here(q) /\ At(p)
  BY DEF InPlace
<1>2. PICK points : points = cursor'
  OBVIOUS
<1>3. PICK n : n = IntersectLength(points)
  OBVIOUS
<1>4. PICK e : e = FirstEvent(points)
  OBVIOUS
<1>5. PICK w : w = SubSeq(chain, 1, n)
  OBVIOUS
<1>6. /\ pc = "ready" /\ pc' = "ready" /\ requests # <<>> /\ view' = w
      /\ mailbox' = Append(mailbox, e) /\ UNCHANGED <<chain, forks, minted, applied>>
      /\ \E slot : cursor' = CursorUpTo(slot)
  BY <1>2, <1>3, <1>4, <1>5 DEF ManagerRestart, StartStream, chainVars
<1>7. /\ p \in Place /\ Followed(p.blocks) /\ p.blocks \in Seq(Block) /\ Len(p.blocks) \in Nat
      /\ (p.left > 0 => Len(p.blocks) > 0)
  BY <1>1, HereType
<1>8. p = q[1] /\ p.left = 0
  BY <1>1, <1>6 DEF Here, At
<1>9. Recorded(p) = Len(p.blocks) /\ Complete(p) = Len(p.blocks)
  BY <1>7, <1>8 DEF Recorded, Complete
<1>10. applied = OracleRows(p.blocks) /\ cursor \in Seq(PointsTo(p))
  BY <1>1, <1>7, <1>9, RowsToAll DEF At
<1>11. points \in Seq(Points) /\ points \in Seq(PointsTo(p))
  <2>1. points \in Seq(Points)
    BY <1>2 DEF CepInv, TypeOK
  <2>2. points \in Seq(PointsTo(p))
    BY <1>2, <1>6, <1>10, OnlyType DEF CursorUpTo
  <2> QED
    BY <2>1, <2>2
<1>12. n \in 0 .. Complete(p) /\ n \in 0 .. Len(chain) /\ \A k \in 1 .. n : chain[k] = p.blocks[k]
  BY <1>3, <1>7, <1>11, ResumePoint
<1>13. e \in Event /\ e.kind = "rollback" /\ e.at[1] = n
  BY <1>3, <1>4, <1>11, StartType DEF KnownEvent
<1>14. /\ chain \in Seq(Block) /\ view \in Seq(Block) /\ Len(view) \in Nat
       /\ w \in Seq(Block) /\ Len(w) = n /\ \A k \in 1 .. n : w[k] = chain[k]
  <2>1. chain \in Seq(Block) /\ view \in Seq(Block) /\ Len(view) \in Nat
    BY DEF CepInv, TypeOK, StreamTypeOK
  <2> QED
    BY <1>5, <1>12, <2>1, CutParts
<1>15. n <= Len(view) /\ w = SubSeq(view, 1, n)
  <2>1. CASE IsPrefix(view', view)
    <3>1. Len(w) <= Len(view) /\ SubSeq(w, 1, Len(w)) = SubSeq(view, 1, Len(w))
      BY <1>6, <2>1 DEF IsPrefix
    <3>2. SubSeq(w, 1, Len(w)) = w
      BY <1>14, SubSeqFull
    <3> QED
      BY <1>14, <3>1, <3>2
  <2>2. CASE NoRollback(mailbox, 1, Len(mailbox))
    <3>1. Len(p.blocks) <= Len(view) /\ \A k \in 1 .. Len(p.blocks) : view[k] = p.blocks[k]
      BY <1>1, <1>8, <2>2, AheadWithoutRollback
    <3>2. n \in 0 .. Len(view) /\ \A k \in 1 .. n : k \in 1 .. Len(p.blocks)
      BY <1>7, <1>9, <1>12, <1>14, <3>1
    <3>3. PICK d : d = SubSeq(view, 1, n)
      OBVIOUS
    <3>4. d \in Seq(Block) /\ Len(d) = n /\ \A k \in 1 .. n : d[k] = view[k]
      BY <1>14, <3>2, <3>3, CutParts
    <3>5. w = d
      BY <1>12, <1>14, <3>1, <3>2, <3>4, SeqEqual
    <3> QED
      BY <1>14, <3>2, <3>3, <3>5
  <2> QED
    BY <2>1, <2>2 DEF SafeRestart
<1>16. Followed(w)
  BY <1>5, <1>12, PrefixFollowed
<1>17. e.at[1] \in 0 .. Len(view)
  BY <1>12, <1>13, <1>14, <1>15
<1>18. w = SubSeq(view, 1, e.at[1])
  BY <1>13, <1>15
<1>19. \E r : Route(r)' /\ \A i \in 1 .. Len(q) : r[i] = q[i]
  BY <1>1, <1>6, <1>13, <1>16, <1>17, <1>18, RollbackRoute
<1>20. PICK r : Route(r)' /\ \A i \in 1 .. Len(q) : r[i] = q[i]
  BY <1>19
<1>21. r[1] = p
  <2>1. 1 \in 1 .. Len(q)
    BY <1>1, PathParts DEF Route, CepInv, TypeOK, StreamTypeOK
  <2> QED
    BY <1>8, <1>20, <2>1
<1>22. BlockEnd(p)'
  BY <1>2, <1>6, <1>7, <1>8, <1>10, <1>11 DEF BlockEnd
<1> QED
  BY <1>20, <1>21, <1>22, BlockEndNext

-----------------------------------------------------------------------------
(* The theorems.                                                           *)

LEMMA IndexInit == Init => IndexInv
<1> SUFFICES ASSUME Init PROVE IndexInv
  OBVIOUS
<1>1. /\ ~failed /\ minted = <<>> /\ utxo = NULL /\ chain = <<>> /\ view = <<>> /\ applied = <<>>
      /\ cursor = <<>> /\ requests = <<>> /\ pc = "ready" /\ mailbox = <<RollbackEvent(Intercept)>>
  BY DEF Init, StreamInit
<1>2. CepInv
  BY CepInit
<1>3. Len(minted) = 0 /\ Len(chain) = 0
  BY <1>1
<1>4. MintedInOrder
  BY <1>1, <1>3 DEF MintedInOrder
<1>5. Followed(chain)
  <2>1. chain \in Seq(KnownBlock) /\ Len(chain) <= MaxHeight
    BY <1>2 DEF CepInv, TypeOK, StreamTypeOK
  <2>2. \A n : n \notin 1 .. Len(chain)
    BY <1>3
  <2>3. Ordered(chain) /\ Linked(chain) /\ Forged(chain) /\ Agree(chain, chain)
    BY <2>2 DEF Ordered, Linked, Forged, Agree
  <2> QED
    BY <2>1, <2>3 DEF Followed
<1>6. PICK x : x = [blocks |-> chain, left |-> 0]
  OBVIOUS
<1>7. x \in Place /\ x.blocks = chain /\ x.left = 0
  <2>1. 0 \in 0 .. 2 /\ chain \in Seq(Block)
    BY <1>2 DEF CepInv, TypeOK, StreamTypeOK
  <2> QED
    BY <1>6, <2>1, PlaceIs
<1>8. PICK q : q = <<x, x>>
  OBVIOUS
<1>9. q \in Seq(Place) /\ Len(q) = 2 /\ q[1] = x /\ q[2] = x
  BY <1>7, <1>8
<1>10. PICK e : e = RollbackEvent(Intercept)
  OBVIOUS
<1>11. e.kind = "rollback" /\ e.at[1] = 0
  BY <1>10 DEF RollbackEvent, Intercept
<1>12. Len(mailbox) = 1 /\ mailbox[1] = e
  BY <1>1, <1>10
<1>13. Passes(e, x, x)
  <2>1. x.blocks = SubSeq(x.blocks, 1, 0)
    BY <1>1, <1>7
  <2>2. PassesRollback(e, x, x)
    BY <1>3, <1>7, <1>11, <2>1 DEF PassesRollback
  <2> QED
    BY <2>2 DEF Passes
<1>14. Route(q)
  <2>1. \A i \in 1 .. Len(q) : q[i] = x
    BY <1>9
  <2>2. \A i \in 1 .. Len(mailbox) : mailbox[i] = e /\ q[i] = x /\ q[i + 1] = x
    BY <1>9, <1>12
  <2>3. q[Len(q)] = [blocks |-> view, left |-> 0]
    BY <1>1, <1>6, <1>9
  <2>4. Path(mailbox, q)
    BY <1>5, <1>7, <1>9, <1>12, <1>13, <2>1, <2>2 DEF Path
  <2> QED
    BY <2>3, <2>4 DEF Route
<1>15. BlockEnd(x)
  <2>1. cursor \in Seq(PointsTo(x))
    BY <1>1, EmptySeq
  <2>2. chain \in Seq(Block)
    BY <1>7 DEF Place
  <2> QED
    BY <1>1, <1>7, <2>1, <2>2, RowsEmpty DEF BlockEnd
<1>16. InPlace
  BY <1>2, <1>9, <1>14, <1>15, BlockEndIsAt DEF AtBlockEnd, InPlace
<1> QED
  BY <1>1, <1>4, <1>5, <1>16 DEF IndexInv

LEMMA IndexStep ==
  ASSUME Faults = {}, CepInv, CepInv', IndexInv, [Next]_vars, [SafeRestart]_vars
  PROVE  IndexInv'
<1>1. ~failed /\ MintedInOrder /\ Followed(chain) /\ InPlace
  BY DEF IndexInv
<1>2. utxo # NULL => utxo <= Len(minted)
  BY <1>1 DEF MintedInOrder
<1>3. CASE Handler
  <2>1. InPlace' /\ ~failed'
    BY <1>1, <1>3, HandlerInPlace
  <2>2. MintedInOrder' /\ MintedKept
    BY <1>1, <1>3, HandlerMints
  <2>3. Followed(chain)'
    <3>1. PICK c : c = chain
      OBVIOUS
    <3>2. UNCHANGED <<chain, forks>>
      BY <1>3, HandlerHasEvent DEF world, chainVars
    <3>3. Followed(c)'
      BY <1>1, <2>2, <3>1, <3>2, FollowedStays
    <3> QED
      BY <3>1, <3>2, <3>3 DEF Followed, Ordered, Linked, Forged, Agree, KnownBlock
  <2> QED
    BY <2>1, <2>2, <2>3 DEF IndexInv
<1>4. CASE (Environment \/ SendBlock \/ SendRollback) /\ UNCHANGED processorVars
  <2>1. MintedKept
    BY <1>4, EnvironmentTypes
  <2>2. MintedInOrder' /\ Followed(chain)' /\ InPlace'
    BY <1>1, <1>4, <2>1, StreamInPlace
  <2>3. ~failed'
    BY <1>1, <1>4 DEF processorVars, actorVars
  <2> QED
    BY <2>2, <2>3 DEF IndexInv
<1>5. CASE Crash \/ (ManagerRestart /\ SafeRestart)
  <2>1. UNCHANGED <<chain, forks, minted>> /\ ~failed'
    BY <1>5 DEF Crash, ManagerRestart, FreshActor, chainVars
  <2>2. utxo' # NULL => utxo' <= Len(minted)
    BY <1>2, <1>5 DEF Crash, ManagerRestart, globalVars
  <2>3. MintedInOrder'
    BY <1>1, <2>1, <2>2, MintedStep
  <2>4. Followed(chain)'
    BY <1>1, <2>1 DEF Followed, Ordered, Linked, Forged, Agree, KnownBlock
  <2>5. InPlace'
    BY <1>1, <1>5, CrashInPlace, RestartInPlace
  <2> QED
    BY <2>1, <2>3, <2>4, <2>5 DEF IndexInv
<1>6. CASE StatusEvent \/ UNCHANGED vars
  <2>1. /\ UNCHANGED <<chain, forks, minted, view, mailbox, failed, utxo, applied, cursor, requests,
                       pc, counts>>
    BY <1>6, StatusMoves DEF vars, world, chainVars, streamVars, actorVars, globalVars, dbVars
  <2>2. event' = event
    BY <2>1 DEF event
  <2>3. InPlace'
    <3>1. PICK q, p : Route(q) /\ p = Here(q) /\ At(p)
      BY <1>1 DEF InPlace
    <3>2. \A c : Followed(c) => Followed(c)'
      BY <2>1, FollowedSame
    <3>3. Route(q)'
      BY <2>1, <3>1, <3>2, RouteStays
    <3>4. p = Here(q)'
      BY <2>1, <3>1 DEF Here
    <3>5. At(p)'
      BY <2>1, <2>2, <3>1 DEF At, Recorded, Complete, Handles, RowsTo
    <3> QED
      BY <3>3, <3>4, <3>5 DEF InPlace
  <2>4. MintedInOrder' /\ Followed(chain)'
    BY <1>1, <2>1 DEF MintedInOrder, Followed, Ordered, Linked, Forged, Agree, KnownBlock
  <2> QED
    BY <1>1, <2>1, <2>3, <2>4 DEF IndexInv
<1>7. SafeRestart \/ UNCHANGED vars
  OBVIOUS
<1> QED
  BY <1>3, <1>4, <1>5, <1>6, <1>7 DEF Next

\* The processor never fails when its services work: a block's count is there
\* for each of its transactions, and the file that a transaction builds on
\* was applied before it, for every chain and every number of forks, process
\* stops and restarts, as long as no restart by the manager starts ahead of
\* the blocks that were streamed.
THEOREM ProcessorNeverFails ==
  ASSUME Faults = {}
  PROVE  Spec /\ [][SafeRestart]_vars => []NeverFails
<1>1. IndexInv => NeverFails
  BY DEF IndexInv, NeverFails
<1>2. CepInv /\ CepInv' /\ IndexInv /\ [Next]_vars /\ [SafeRestart]_vars => IndexInv'
  BY IndexStep
<1> QED
  BY CepInit, CepStep, IndexInit, <1>1, <1>2, PTL DEF Spec

\* Nothing that was streamed is lost or recorded twice: with every event
\* handled, the tables hold exactly the oracle transactions of the streamed
\* blocks, in their order and at their slots.
THEOREM DrainedIsIndexed ==
  ASSUME Faults = {}
  PROVE  Spec /\ [][SafeRestart]_vars => []IndexedWhenDrained
<1>1. CepInv /\ IndexInv => IndexedWhenDrained
  <2> SUFFICES ASSUME CepInv, IndexInv, mailbox = <<>> PROVE applied = OracleRows(view)
    BY DEF IndexedWhenDrained
  <2>1. PICK q, p : Route(q) /\ p = Here(q) /\ At(p)
    BY DEF IndexInv, InPlace
  <2>2. pc = "ready" /\ p = q[1]
    BY <2>1 DEF CepInv, TypeOK, Here
  <2>3. Len(q) = 1
    BY <2>1 DEF Route, Path
  <2>4. p.left = 0 /\ p.blocks = view
    BY <2>1, <2>2, <2>3 DEF Route
  <2>5. view \in Seq(Block)
    BY DEF CepInv, TypeOK, StreamTypeOK
  <2>6. Recorded(p) = Len(view)
    BY <2>2, <2>4, <2>5, LenProperties DEF Recorded, Complete
  <2>7. applied = RowsTo(view, Len(view))
    BY <2>1, <2>4, <2>6 DEF At
  <2> QED
    BY <2>5, <2>7, RowsToAll
<1>2. CepInv /\ CepInv' /\ IndexInv /\ [Next]_vars /\ [SafeRestart]_vars => IndexInv'
  BY IndexStep
<1> QED
  BY CepInit, CepStep, IndexInit, <1>1, <1>2, PTL DEF Spec

\* Wherever the process stops, between any two writes of a handler, the
\* stream that resumes from the cursor misses no oracle transaction: the
\* tables, cut at the resume point, hold exactly those of the chain up to it.
THEOREM ResumeIsComplete ==
  ASSUME Faults = {}
  PROVE  Spec /\ [][SafeRestart]_vars => []ResumeLosesNothing
<1>1. CepInv /\ IndexInv => ResumeLosesNothing
  <2> SUFFICES ASSUME CepInv, IndexInv PROVE ResumeLosesNothing
    OBVIOUS
  <2>1. PICK q, p : Route(q) /\ p = Here(q) /\ At(p)
    BY DEF IndexInv, InPlace
  <2>2. PICK n : n = IntersectLength(cursor)
    OBVIOUS
  <2>3. /\ p \in Place /\ Followed(p.blocks) /\ p.blocks \in Seq(Block)
        /\ Len(p.blocks) <= MaxHeight /\ (p.left > 0 => Len(p.blocks) > 0)
    BY <2>1, HereType
  <2>4. applied = RowsTo(p.blocks, Recorded(p)) /\ cursor \in Seq(PointsTo(p))
    BY <2>1 DEF At
  <2>5. cursor \in Seq(Points)
    BY DEF CepInv, TypeOK
  <2>6. n \in 0 .. Complete(p) /\ SubSeq(chain, 1, n) = SubSeq(p.blocks, 1, n)
    BY <2>2, <2>3, <2>4, <2>5, ResumePoint
  <2>7. /\ Complete(p) \in 0 .. Len(p.blocks) /\ Recorded(p) \in 0 .. Len(p.blocks)
        /\ Complete(p) <= Recorded(p) /\ Len(p.blocks) \in Nat
    BY <2>3, CompleteType
  <2>8. n \in Nat /\ (IF Recorded(p) <= n THEN Recorded(p) ELSE n) = n
    BY <2>6, <2>7
  <2>9. RowsUpTo(n) = RowsTo(p.blocks, n)
    BY <2>3, <2>4, <2>7, <2>8, RowsToCut DEF RowsUpTo
  <2> QED
    BY <2>2, <2>6, <2>9 DEF ResumeLosesNothing, RowsTo
<1>2. CepInv /\ CepInv' /\ IndexInv /\ [Next]_vars /\ [SafeRestart]_vars => IndexInv'
  BY IndexStep
<1> QED
  BY CepInit, CepStep, IndexInit, <1>1, <1>2, PTL DEF Spec

=============================================================================
