---------------------- MODULE ChainEventProcessorProofs ----------------------
(***************************************************************************)
(* What TLAPS proves of ChainEventProcessor for every bound and every set  *)
(* of faults: its type invariant, and the order of the rows in the tables. *)
(***************************************************************************)
EXTENDS ChainEventProcessor, Lemmas

-----------------------------------------------------------------------------
(* Types.  An oracle transaction is minted before a block, an event or a   *)
(* row names it.                                                           *)

KnownBlock == {b \in Block : b.oracle <= Len(minted)}
KnownEvent == {e \in Event : /\ e.kind = "tx" => e.tx <= Len(minted)
                             /\ e.kind # "rollback" => e.at[1] >= 1}
KnownRow == {r \in Row : r.tx <= Len(minted)}

CepInv ==
    /\ TypeOK
    /\ chain \in Seq(KnownBlock)
    /\ view \in Seq(KnownBlock)
    /\ mailbox \in Seq(KnownEvent)
    /\ applied \in Seq(KnownRow)
    /\ pc = "detected" => Handles("block")
    /\ pc = "applied" => Handles("tx")
    /\ pc = "building" => Handles("tx") \/ Handles("block")
    /\ pc = "rollingBack" => Handles("rollback")

LEMMA EventType ==
  ASSUME CepInv, mailbox # <<>>
  PROVE  /\ event \in KnownEvent /\ event = mailbox[1]
         /\ event.at \in Points /\ event.at[1] \in 0 .. MaxHeight
         /\ event.kind # "rollback" => event.at[1] \in Heights
         /\ event.kind = "block" => event.n \in 0 .. 2
         /\ event.kind = "tx" => event.tx \in 0 .. Len(minted) /\ event.tx \in 0 .. MaxTxs
         /\ Tail(mailbox) \in Seq(KnownEvent) /\ Tail(mailbox) \in Seq(Event)
         /\ Len(Tail(mailbox)) = Len(mailbox) - 1 /\ Len(mailbox) \in Nat \ {0}
         /\ \A i \in 1 .. Len(mailbox) - 1 : Tail(mailbox)[i] = mailbox[i + 1]
<1>1. mailbox \in Seq(KnownEvent) /\ mailbox \in Seq(Event) /\ Len(minted) \in Nat
  BY DEF CepInv, TypeOK, StreamTypeOK
<1>2. /\ event \in KnownEvent /\ Tail(mailbox) \in Seq(KnownEvent)
      /\ Tail(mailbox) \in Seq(Event) /\ event = mailbox[1]
  BY <1>1, HeadTail DEF event
<1>3. /\ Len(Tail(mailbox)) = Len(mailbox) - 1 /\ Len(mailbox) \in Nat \ {0}
      /\ \A i \in 1 .. Len(mailbox) - 1 : Tail(mailbox)[i] = mailbox[i + 1]
  BY <1>1, HeadTail
<1> HIDE DEF event
<1>4. event \in Event
  BY <1>2 DEF KnownEvent
<1>5. event.at \in Points
  BY <1>4 DEF Event
<1>6. event.at[1] \in 0 .. MaxHeight
  BY <1>5 DEF Points
<1>7. event.kind # "rollback" => event.at[1] \in Heights
  BY <1>2, <1>6 DEF KnownEvent, Heights
<1>8. event.kind = "block" => event.n \in 0 .. 2
  BY <1>4 DEF Event
<1>9. event.kind = "tx" => event.tx \in 0 .. MaxTxs /\ event.tx <= Len(minted)
  BY <1>2, <1>4 DEF Event, KnownEvent
<1> QED
  BY <1>1, <1>2, <1>3, <1>5, <1>6, <1>7, <1>8, <1>9

LEMMA CutTypes ==
  ASSUME CepInv, NEW slot
  PROVE  CursorUpTo(slot) \in Seq(Points) /\ RowsUpTo(slot) \in Seq(KnownRow)
<1>1. cursor \in Seq(Points) /\ applied \in Seq(KnownRow)
  BY DEF CepInv, TypeOK
<1> QED
  BY <1>1, OnlyType, Zenon DEF CursorUpTo, RowsUpTo

\* The output that is unspent on the chain is known.
LEMMA UnspentType ==
  ASSUME CepInv
  PROVE  UnspentOf(chain) \in 0 .. Len(minted) /\ UnspentOf(chain) \in 0 .. MaxTxs
<1> DEFINE All == [tx : 0 .. Len(minted), slot : Nat]
           rows == [n \in 1 .. Len(chain) |-> [tx |-> chain[n].oracle, slot |-> n]]
<1>1. chain \in Seq(KnownBlock) /\ Len(chain) \in Nat /\ Len(minted) \in Nat
        /\ Len(minted) <= MaxTxs /\ MaxTxs \in Nat
  BY StreamBounds DEF CepInv, TypeOK, StreamTypeOK
<1>2. \A n \in 1 .. Len(chain) : chain[n].oracle \in 0 .. Len(minted)
  <2>1. \A n \in 1 .. Len(chain) : chain[n] \in KnownBlock
    BY <1>1, ElementOfSeq
  <2> QED
    BY <1>1, <2>1 DEF KnownBlock, Block
<1>3. rows \in Seq(All)
  BY <1>1, <1>2
<1>4. OracleRows(chain) \in Seq(All)
  <2> HIDE DEF All
  <2> QED
    BY <1>3, OnlyType, Zenon DEF OracleRows
<1>5. CASE OracleRows(chain) = <<>>
  BY <1>1, <1>5 DEF UnspentOf
<1>6. CASE OracleRows(chain) # <<>>
  <2>1. Last(OracleRows(chain)) \in All
    <3> HIDE DEF All
    <3> QED
      BY <1>4, <1>6 DEF Last
  <2> QED
    BY <1>1, <1>6, <2>1 DEF UnspentOf
<1> QED
  BY <1>5, <1>6

\* A new stream starts on the chain, with a rollback to where it starts.
LEMMA StartType ==
  ASSUME CepInv, NEW points \in Seq(Points)
  PROVE  /\ IntersectLength(points) \in 0 .. Len(chain)
         /\ FirstEvent(points) \in KnownEvent
         /\ FirstEvent(points).kind = "rollback"
         /\ FirstEvent(points).at[1] = IntersectLength(points)
<1> DEFINE found == {i \in 1 .. Len(points) : points[i] \in PointsOf(chain)}
           m == CHOOSE i \in found : \A j \in found : j <= i
           n == IntersectLength(points)
<1>1. chain \in Seq(KnownBlock) /\ Len(chain) \in Nat /\ Len(points) \in Nat
        /\ Len(chain) <= MaxHeight /\ {MaxHeight, MaxForks, MaxTxs} \subseteq Nat
  BY StreamBounds DEF CepInv, TypeOK, StreamTypeOK
<1>2. n \in 0 .. Len(chain)
  <2>1. CASE found = {}
    BY <1>1, <2>1 DEF IntersectLength
  <2>2. CASE found # {}
    <3>1. \E i \in found : \A j \in found : j <= i
      <4>1. found \subseteq Nat /\ \A i \in found : i <= Len(points)
        BY <1>1
      <4> HIDE DEF found
      <4> QED
        BY <1>1, <2>2, <4>1, GreatestNat
    <3>2. m \in found
      <4> HIDE DEF found
      <4> QED
        BY <3>1, Zenon
    <3>3. n = points[m][1]
      BY <2>2, Zenon DEF IntersectLength
    <3>4. points[m] \in PointsOf(chain)
      BY <3>2
    <3> HIDE DEF m, n, found
    <3>5. PICK k \in 1 .. Len(chain) : points[m] = PointAt(chain, k)
      BY <3>4 DEF PointsOf
    <3>6. k \in Nat /\ k # 0 /\ k <= Len(chain)
      BY <1>1, <3>5
    <3>7. points[m][1] = k
      BY <3>5, <3>6 DEF PointAt
    <3> QED
      BY <1>1, <3>3, <3>6, <3>7
  <2> QED
    BY <2>1, <2>2
<1>3. PointAt(chain, n) \in Points /\ PointAt(chain, n)[1] = n
  <2> HIDE DEF n
  <2>1. CASE n = 0
    BY <1>1, <2>1 DEF PointAt, Intercept, Points
  <2>2. CASE n # 0
    <3>1. n \in 1 .. Len(chain) /\ n \in 0 .. MaxHeight
      BY <1>1, <1>2, <2>2
    <3>2. chain[n].branch \in 0 .. MaxForks
      BY <1>1, <3>1, ElementOfSeq DEF KnownBlock, Block
    <3> QED
      BY <2>2, <3>1, <3>2 DEF PointAt, Points
  <2> QED
    BY <2>1, <2>2
<1>4. FirstEvent(points) = [kind |-> "rollback", at |-> PointAt(chain, n)]
  BY DEF FirstEvent, RollbackEvent
<1> HIDE DEF n
<1>5. FirstEvent(points) \in Event
  BY <1>3, <1>4 DEF Event
<1> QED
  BY <1>2, <1>3, <1>4, <1>5 DEF KnownEvent, n

LEMMA CommonType ==
  ASSUME CepInv
  PROVE  /\ CommonLength \in 0 .. Len(view)
         /\ PointAt(view, CommonLength) \in Points
         /\ PointAt(view, CommonLength)[1] = CommonLength
<1> DEFINE n == CommonLength
           Fits(k) == IsPrefix(SubSeq(view, 1, k), chain)
           T == {k \in 0 .. Len(view) : Fits(k)}
           Ends(k) == Fits(k) /\ (k < Len(view) => ~Fits(k + 1))
<1>1. /\ chain \in Seq(KnownBlock) /\ Len(chain) \in Nat
      /\ view \in Seq(KnownBlock) /\ Len(view) \in Nat
      /\ Len(view) <= MaxHeight /\ {MaxHeight, MaxForks, MaxTxs} \subseteq Nat
  BY StreamBounds DEF CepInv, TypeOK, StreamTypeOK
<1>2. Fits(0)
  <2>1. SubSeq(view, 1, 0) = <<>> /\ Len(<<>>) = 0 /\ SubSeq(chain, 1, 0) = <<>>
    BY <1>1
  <2> QED
    BY <1>1, <2>1 DEF IsPrefix
<1>3. \E k \in 0 .. Len(view) : Ends(k)
  <2> HIDE DEF Fits
  <2>1. 0 \in T /\ T \subseteq Nat /\ \A k \in T : k <= Len(view)
    BY <1>1, <1>2
  <2>2. PICK k \in T : \A j \in T : j <= k
    <3> HIDE DEF T
    <3> QED
      BY <1>1, <2>1, GreatestNat
  <2>3. k < Len(view) => k + 1 \notin T /\ k + 1 \in 0 .. Len(view)
    BY <1>1, <2>1, <2>2
  <2> QED
    BY <2>1, <2>2, <2>3
<1>4. n = CHOOSE k \in 0 .. Len(view) : Ends(k)
  BY DEF CommonLength
<1>5. n \in 0 .. Len(view)
  <2> HIDE DEF Ends, n
  <2> QED
    BY <1>3, <1>4, Zenon
<1> HIDE DEF n
<1>6. PointAt(view, n) \in Points /\ PointAt(view, n)[1] = n
  <2>1. CASE n = 0
    BY <1>1, <2>1 DEF PointAt, Intercept, Points
  <2>2. CASE n # 0
    <3>1. n \in 1 .. Len(view) /\ n \in 0 .. MaxHeight
      BY <1>1, <1>5, <2>2
    <3>2. view[n].branch \in 0 .. MaxForks
      BY <1>1, <3>1, ElementOfSeq DEF KnownBlock, Block
    <3> QED
      BY <2>2, <3>1, <3>2 DEF PointAt, Points
  <2> QED
    BY <2>1, <2>2
<1> QED
  BY <1>5, <1>6 DEF n

LEMMA StrictPrefixShorter ==
  ASSUME NEW T, NEW s \in Seq(T), NEW t \in Seq(T), IsStrictPrefix(s, t)
  PROVE  Len(s) < Len(t)
<1>1. Len(s) \in Nat /\ Len(t) \in Nat /\ Len(s) <= Len(t)
        /\ SubSeq(s, 1, Len(s)) = SubSeq(t, 1, Len(s)) /\ s # t
  BY DEF IsStrictPrefix, IsPrefix
<1>2. SubSeq(s, 1, Len(s)) = s /\ SubSeq(t, 1, Len(t)) = t
  OBVIOUS
<1>3. Len(s) # Len(t)
  BY <1>1, <1>2
<1> QED
  BY <1>1, <1>3

\* The transactions of a block: a foreign one first, the oracle's last.
LEMMA TxsType ==
  ASSUME NEW k \in Nat, NEW b, b.oracle \in 0 .. k
  PROVE  /\ TxsOf(b) \in Seq(0 .. k) /\ Len(TxsOf(b)) \in 0 .. 2
         /\ \A i \in 1 .. Len(TxsOf(b)) : i < Len(TxsOf(b)) => TxsOf(b)[i] = 0
<1>1. 0 \in 0 .. k
  OBVIOUS
<1>2. CASE b.other /\ b.oracle # 0
  <2>1. TxsOf(b) = <<0>> \o <<b.oracle>>
    BY <1>2 DEF TxsOf
  <2>2. <<0>> \in Seq(0 .. k) /\ <<b.oracle>> \in Seq(0 .. k)
    BY <1>1
  <2>3. /\ TxsOf(b) \in Seq(0 .. k) /\ Len(TxsOf(b)) = 2
        /\ \A i \in 1 .. 2 : TxsOf(b)[i] = IF i <= 1 THEN <<0>>[i] ELSE <<b.oracle>>[i - 1]
    BY <2>1, <2>2, ConcatProperties
  <2> QED
    BY <2>3
<1>3. CASE b.other /\ b.oracle = 0
  <2>1. TxsOf(b) = <<0>>
    BY <1>3 DEF TxsOf
  <2> QED
    BY <1>1, <2>1
<1>4. CASE ~b.other /\ b.oracle # 0
  <2>1. TxsOf(b) = <<b.oracle>>
    BY <1>4 DEF TxsOf
  <2> QED
    BY <1>1, <2>1
<1>5. CASE ~b.other /\ b.oracle = 0
  <2>1. TxsOf(b) = <<>>
    BY <1>5 DEF TxsOf
  <2> QED
    BY <1>1, <2>1
<1> QED
  BY <1>2, <1>3, <1>4, <1>5

-----------------------------------------------------------------------------
(* The invariant in three parts: the stream, the processor and its tables, *)
(* and how far the handler is.                                             *)

StreamOK ==
    /\ StreamTypeOK
    /\ chain \in Seq(KnownBlock)
    /\ view \in Seq(KnownBlock)
    /\ mailbox \in Seq(KnownEvent)

ProcessorOK ==
    /\ failed \in BOOLEAN
    /\ justStarted \in BOOLEAN
    /\ startSlot \in 0 .. MaxHeight
    /\ lastIndexed \in Points
    /\ mismatches \in Nat
    /\ counts \in [Points -> 0 .. 2]
    /\ processed \subseteq Points
    /\ pending \subseteq [tx : TxIds, height : Heights]
    /\ utxo \in 0 .. MaxTxs \cup {NULL}
    /\ applied \in Seq(KnownRow)
    /\ cursor \in Seq(Points)
    /\ requests \in Seq(Points)
    /\ crashes \in 0 .. MaxCrashes

ProgressOK ==
    \/ pc = "ready"
    \/ pc = "detected" /\ Handles("block")
    \/ pc = "applied" /\ Handles("tx")
    \/ pc = "building" /\ (Handles("tx") \/ Handles("block"))
    \/ pc = "rollingBack" /\ Handles("rollback")

LEMMA CepInvParts == CepInv <=> StreamOK /\ ProcessorOK /\ ProgressOK
<1>1. applied \in Seq(KnownRow) => applied \in Seq(Row)
  <2>1. KnownRow \subseteq Row
    BY DEF KnownRow
  <2> QED
    BY <2>1, SeqMonotonic, Zenon
<1>2. ProgressOK => pc = "ready" \/ mailbox # <<>>
  BY DEF ProgressOK, Handles
<1>3. CepInv => StreamOK /\ ProcessorOK /\ ProgressOK
  BY Zenon DEF CepInv, TypeOK, StreamOK, ProcessorOK, ProgressOK
<1>4. StreamOK /\ ProcessorOK /\ ProgressOK => CepInv
  <2> SUFFICES ASSUME StreamOK, ProcessorOK, ProgressOK PROVE CepInv
    OBVIOUS
  <2>1. TypeOK
    BY <1>1, <1>2 DEF TypeOK, StreamOK, ProcessorOK, ProgressOK
  <2>2. /\ pc = "detected" => Handles("block")
        /\ pc = "applied" => Handles("tx")
        /\ pc = "building" => Handles("tx") \/ Handles("block")
        /\ pc = "rollingBack" => Handles("rollback")
    BY DEF ProgressOK
  <2> QED
    BY <2>1, <2>2, Zenon DEF CepInv, StreamOK, ProcessorOK
<1> QED
  BY <1>3, <1>4

\* Oracle transactions are only ever added.
MintedKept ==
    \/ UNCHANGED minted
    \/ /\ Len(minted) < MaxTxs
       /\ \E tx \in OracleTx : minted' = Append(minted, tx)

LEMMA KnownStaysKnown ==
  ASSUME CepInv, MintedKept
  PROVE  /\ minted' \in Seq(OracleTx) /\ Len(minted') <= MaxTxs
         /\ Len(minted) <= Len(minted')
         /\ \A t \in 1 .. Len(minted) : minted'[t] = minted[t]
         /\ Seq(KnownBlock) \subseteq Seq(KnownBlock')
         /\ Seq(KnownEvent) \subseteq Seq(KnownEvent')
         /\ Seq(KnownRow) \subseteq Seq(KnownRow')
<1>1. minted \in Seq(OracleTx) /\ Len(minted) \in Nat /\ Len(minted) <= MaxTxs /\ MaxTxs \in Nat
  BY StreamBounds DEF CepInv, TypeOK, StreamTypeOK
<1>2. /\ minted' \in Seq(OracleTx) /\ Len(minted') <= MaxTxs
      /\ Len(minted') \in Nat
      /\ Len(minted) <= Len(minted')
      /\ \A t \in 1 .. Len(minted) : minted'[t] = minted[t]
  <2>1. CASE UNCHANGED minted
    BY <1>1, <2>1
  <2>2. CASE Len(minted) < MaxTxs /\ \E tx \in OracleTx : minted' = Append(minted, tx)
    <3>1. PICK tx \in OracleTx : minted' = Append(minted, tx)
      BY <2>2
    <3>2. minted' \in Seq(OracleTx) /\ Len(minted') = Len(minted) + 1
            /\ \A t \in 1 .. Len(minted) : minted'[t] = minted[t]
      BY <1>1, <3>1, AppendProperties
    <3> QED
      BY <1>1, <2>2, <3>2
  <2> QED
    BY <2>1, <2>2 DEF MintedKept
<1>3. \A n \in Nat : n <= Len(minted) => n <= Len(minted')
  BY <1>1, <1>2
<1>4. KnownBlock \subseteq KnownBlock'
  BY <1>3 DEF KnownBlock, Block
<1>5. KnownEvent \subseteq KnownEvent'
  <2> SUFFICES ASSUME NEW e \in KnownEvent PROVE e \in KnownEvent'
    OBVIOUS
  <2>1. e.kind = "tx" => e.tx \in Nat
    BY DEF KnownEvent, Event
  <2> QED
    BY <1>3, <2>1 DEF KnownEvent
<1>6. KnownRow \subseteq KnownRow'
  BY <1>3 DEF KnownRow, Row, TxIds
<1> QED
  BY <1>2, <1>4, <1>5, <1>6, SeqMonotonic

LEMMA CepInit == Init => CepInv
<1> SUFFICES ASSUME Init PROVE CepInv
  OBVIOUS
<1>1. /\ {MaxHeight, MaxForks, MaxTxs, MaxCrashes} \subseteq Nat
  BY StreamBounds, ProcessorBounds
<1>2. 0 \in 0 .. MaxHeight /\ 0 \in 0 .. MaxForks /\ 0 \in 0 .. MaxCrashes
        /\ 0 <= MaxHeight /\ 0 <= MaxTxs
  BY <1>1
<1>3. Intercept \in Points
  BY <1>2 DEF Intercept, Points
<1>4. RollbackEvent(Intercept) \in KnownEvent /\ RollbackEvent(Intercept) \in Event
  BY <1>3 DEF RollbackEvent, KnownEvent, Event
<1>5. \A T : <<>> \in Seq(T) /\ Len(<<>>) = 0
  OBVIOUS
<1>6. StreamOK
  <2>1. mailbox \in Seq(KnownEvent) /\ mailbox \in Seq(Event)
    BY <1>4 DEF Init, StreamInit
  <2> QED
    BY <1>2, <1>5, <2>1, Zenon DEF Init, StreamInit, StreamOK, StreamTypeOK
<1>7. ProcessorOK
  <2>1. [p \in Points |-> 0] \in [Points -> 0 .. 2]
    OBVIOUS
  <2> QED
    BY <1>2, <1>3, <1>5, <2>1, Zenon DEF Init, ProcessorOK
<1> QED
  BY <1>6, <1>7, CepInvParts DEF Init, ProgressOK

\* A step of a handler leaves the event at the head or is the last one.
LEMMA HandlerStep ==
  ASSUME CepInv, UNCHANGED world, MintedKept, mailbox # <<>>, ProcessorOK',
         \/ Done
         \/ UNCHANGED mailbox /\ \/ pc' = "detected" /\ event.kind = "block"
                                 \/ pc' = "applied" /\ event.kind = "tx"
                                 \/ pc' = "building" /\ event.kind \in {"tx", "block"}
                                 \/ pc' = "rollingBack" /\ event.kind = "rollback"
  PROVE  CepInv'
<1>1. StreamOK'
  <2>1. StreamOK
    BY CepInvParts
  <2>2. /\ minted' \in Seq(OracleTx) /\ Len(minted') <= MaxTxs
        /\ Seq(KnownBlock) \subseteq Seq(KnownBlock')
        /\ Seq(KnownEvent) \subseteq Seq(KnownEvent')
    BY KnownStaysKnown
  <2>3. mailbox' \in Seq(KnownEvent) /\ mailbox' \in Seq(Event)
    BY <2>1, EventType DEF Done, StreamOK, StreamTypeOK
  <2>4. UNCHANGED <<chain, forks, view, tip>>
    BY DEF world, chainVars, streamVars
  <2> QED
    BY <2>1, <2>2, <2>3, <2>4 DEF StreamOK, StreamTypeOK
<1>2. ProgressOK'
  <2>1. CASE Done
    BY <2>1 DEF Done, ProgressOK
  <2>2. CASE UNCHANGED mailbox
    <3>1. event' = event /\ \A k : Handles(k)' <=> event.kind = k
      BY <2>2 DEF event, Handles
    <3> QED
      BY <2>2, <3>1 DEF ProgressOK, Done
  <2> QED
    BY <2>1, <2>2
<1> QED
  BY <1>1, <1>2, CepInvParts, PTL

LEMMA AppendedOrNot ==
  ASSUME NEW T, NEW s, s \in Seq(T), NEW e, e \in T, NEW x, x = s \/ x = Append(s, e)
  PROVE  x \in Seq(T)
BY AppendProperties

\* A handler has an event to handle.
LEMMA HandlerHasEvent ==
  ASSUME CepInv, Handler
  PROVE  mailbox # <<>> /\ UNCHANGED world
<1>1. pc \in {"detected", "applied", "building", "rollingBack"} => mailbox # <<>>
  BY DEF CepInv, Handles
<1>2. CASE ReceiveBlock \/ DropEvent \/ ReceiveOtherTx \/ ApplyTx \/ ApplyTxFails
  BY <1>2 DEF ReceiveBlock, BlockHandler, DropEvent, ReceiveOtherTx, ApplyTx, ApplyTxFails,
              ReceiveTx, Handles
<1>3. CASE CountMissing \/ CountTx \/ CountLastTx \/ PassBlock
  BY <1>1, <1>3 DEF CountMissing, CountTx, CountLastTx, PassBlock
<1>4. CASE RequestRestart \/ SkipUpdate \/ SubmitUpdate \/ UpdateFails
  BY <1>1, <1>4 DEF RequestRestart, SkipUpdate, SubmitUpdate, UpdateFails,
                    ProcessBlockTipReached
<1>5. CASE RollbackCursor \/ Rollback \/ RollbackFails
  BY <1>1, <1>5 DEF RollbackCursor, Rollback, RollbackFails, Handles
<1>6. CASE DetectRollbackCursor \/ DetectRollback
  BY <1>1, <1>6 DEF DetectRollbackCursor, DetectRollback, BlockHandler, Handles
<1> QED
  BY <1>2, <1>3, <1>4, <1>5, <1>6 DEF Handler

LEMMA ValidatorType ==
  ASSUME CepInv
  PROVE  ValidatorUTxO \in 0 .. MaxTxs
<1>1. utxo \in 0 .. MaxTxs \cup {NULL}
  BY DEF CepInv, TypeOK
<1> QED
  BY <1>1, UnspentType DEF ValidatorUTxO

\* What a database call leaves, whether it fails or not.
LEMMA OutcomeIs ==
  ASSUME NEW new, NEW old, NEW x \in Outcome(new, old)
  PROVE  x = new \/ x = old
BY DEF Outcome

LEMMA BlockTypes ==
  ASSUME CepInv, DetectRollbackCursor \/ DetectRollback \/ ReceiveBlock
  PROVE  CepInv'
<1> USE DEF DetectRollbackCursor, DetectRollback, ReceiveBlock, BlockHandler
<1>1. mailbox # <<>> /\ event.kind = "block"
  BY DEF CepInv, Handles
<1>2. /\ event.at \in Points /\ event.n \in 0 .. 2
  BY <1>1, EventType
<1>3. ProcessorOK
  BY CepInvParts
<1>4. KnownRow' = KnownRow
  BY DEF KnownRow
<1>5. CursorUpTo(startSlot) \in Seq(Points) /\ RowsUpTo(startSlot) \in Seq(KnownRow)
  BY CutTypes
<1>6. cursor' \in Seq(Points)
  <2>1. cursor' \in {CursorUpTo(startSlot), Append(cursor, event.at), cursor}
    <3>1. CASE DetectRollbackCursor
      BY <3>1, OutcomeIs
    <3>2. CASE DetectRollback
      BY <3>2
    <3>3. CASE ReceiveBlock
      BY <3>3, OutcomeIs
    <3> QED
      BY <3>1, <3>2, <3>3
  <2>2. cursor \in Seq(Points)
    BY <1>3 DEF ProcessorOK
  <2>3. Append(cursor, event.at) \in Seq(Points)
    BY <1>2, <2>2, AppendProperties
  <2> QED
    BY <1>5, <2>1, <2>2, <2>3
<1>7. applied' \in Seq(KnownRow)
  <2>1. applied' \in {RowsUpTo(startSlot), applied}
    BY OutcomeIs
  <2> QED
    BY <1>3, <1>5, <2>1 DEF ProcessorOK
<1>8. startSlot' \in 0 .. MaxHeight /\ justStarted' \in BOOLEAN
  <2>1. \/ startSlot' = startSlot /\ justStarted' = justStarted
        \/ startSlot' = 0 /\ justStarted' = FALSE
    BY DEF Started, actorVars, startVars
  <2>2. 0 \in 0 .. MaxHeight
    BY StreamBounds
  <2> QED
    BY <1>3, <2>1, <2>2 DEF ProcessorOK
<1>9. counts' \in [Points -> 0 .. 2]
  BY <1>2, <1>3 DEF ProcessorOK, actorVars
<1>10. UNCHANGED <<failed, lastIndexed, mismatches, processed, pending, utxo, requests, crashes>>
  BY DEF actorVars, tipVars, globalVars, world
<1>11. ProcessorOK'
  BY <1>3, <1>4, <1>6, <1>7, <1>8, <1>9, <1>10 DEF ProcessorOK
<1>12. MintedKept /\ UNCHANGED world
  BY DEF MintedKept
<1>13. Done \/ (UNCHANGED mailbox /\ pc' \in {"detected", "building"})
  OBVIOUS
<1> QED
  BY <1>1, <1>11, <1>12, <1>13, HandlerStep

\* A status event moves nothing but the start slot.
LEMMA StatusMoves ==
  ASSUME StatusEvent
  PROVE  /\ UNCHANGED <<chain, forks, minted, view, tip, mailbox, failed, justStarted, counts>>
         /\ UNCHANGED <<lastIndexed, mismatches, processed, pending, utxo, applied, cursor,
                        requests, pc, crashes>>
         /\ event' = event
BY DEF StatusEvent, world, chainVars, streamVars, tipVars, globalVars, dbVars, event

LEMMA StatusTypes ==
  ASSUME CepInv, StatusEvent
  PROVE  CepInv'
<1>1. view \in Seq(Block) /\ Len(view) \in 0 .. MaxHeight /\ mailbox \in Seq(Event)
        /\ MaxHeight \in Nat
  BY StreamBounds, LenProperties DEF CepInv, TypeOK, StreamTypeOK
<1>2. \A i \in 1 .. Len(mailbox) : mailbox[i].at[1] \in 0 .. MaxHeight
  BY <1>1, ElementOfSeq DEF Event, Points
<1>3. startSlot' \in 0 .. MaxHeight
  BY <1>1, <1>2 DEF StatusEvent, Reported
<1>4. StreamOK /\ ProcessorOK /\ ProgressOK
  BY CepInvParts
<1>5. UNCHANGED <<KnownBlock, KnownEvent, KnownRow>>
  BY StatusMoves DEF KnownBlock, KnownEvent, KnownRow
<1>6. StreamOK'
  BY <1>4, <1>5, StatusMoves DEF StreamOK, StreamTypeOK
<1>7. ProcessorOK'
  BY <1>3, <1>4, <1>5, StatusMoves DEF ProcessorOK
<1>8. ProgressOK'
  BY <1>4, StatusMoves DEF ProgressOK, Handles
<1> QED
  BY <1>6, <1>7, <1>8, CepInvParts, PTL

LEMMA TxTypes ==
  ASSUME CepInv, ReceiveOtherTx \/ ApplyTx \/ ApplyTxFails
  PROVE  CepInv'
<1> USE DEF ReceiveTx, ReceiveOtherTx, ApplyTx, ApplyTxFails
<1>1. mailbox # <<>> /\ event.kind = "tx"
  BY DEF Handles
<1>2. /\ event.at[1] \in Heights /\ event.tx \in 0 .. Len(minted) /\ event.tx \in 0 .. MaxTxs
  BY <1>1, EventType
<1>3. ProcessorOK
  BY CepInvParts
<1>4. KnownRow' = KnownRow
  BY DEF KnownRow
<1>5. applied' \in Seq(KnownRow)
  <2>1. CASE applied' = applied
    BY <1>3, <2>1 DEF ProcessorOK
  <2>2. CASE event.tx # 0 /\ applied' = Append(applied, [tx |-> event.tx, slot |-> event.at[1]])
    <3>1. [tx |-> event.tx, slot |-> event.at[1]] \in KnownRow
      <4>1. event.tx \in TxIds /\ event.tx <= Len(minted)
        BY <1>2, <2>2 DEF TxIds
      <4> QED
        BY <1>2, <4>1 DEF KnownRow, Row
    <3> QED
      BY <1>3, <2>2, <3>1, AppendProperties DEF ProcessorOK
  <2> QED
    BY <2>1, <2>2 DEF dbVars
<1>6. utxo' \in 0 .. MaxTxs \cup {NULL}
  BY <1>2, <1>3 DEF ProcessorOK
<1>7. pending' \subseteq pending /\ failed' \in BOOLEAN
  BY <1>3 DEF ProcessorOK, SetProcessingFailed, actorVars
<1>8. UNCHANGED <<justStarted, startSlot, lastIndexed, mismatches, counts, processed, cursor,
                  requests, crashes>>
  BY DEF actorVars, startVars, tipVars, dbVars, world
<1>9. ProcessorOK'
  BY <1>3, <1>4, <1>5, <1>6, <1>7, <1>8 DEF ProcessorOK
<1>10. MintedKept /\ UNCHANGED world
  BY DEF MintedKept
<1>11. Done \/ (UNCHANGED mailbox /\ pc' = "applied")
  BY DEF SetProcessingFailed
<1> QED
  BY <1>1, <1>9, <1>10, <1>11, HandlerStep

LEMMA CountTypes ==
  ASSUME CepInv, CountMissing \/ CountTx \/ CountLastTx
  PROVE  CepInv'
<1> USE DEF CountMissing, CountTx, CountLastTx
<1>1. mailbox # <<>> /\ event.kind = "tx"
  BY DEF CepInv, Handles
<1>2. event.at \in Points
  BY <1>1, EventType
<1>3. ProcessorOK
  BY CepInvParts
<1>4. KnownRow' = KnownRow
  BY DEF KnownRow
<1>5. counts' \in [Points -> 0 .. 2]
  BY <1>2, <1>3 DEF ProcessorOK
<1>6. cursor' \in Seq(Points)
  <2>1. cursor' = cursor \/ cursor' = Append(cursor, event.at)
    BY OutcomeIs DEF dbVars
  <2>2. cursor \in Seq(Points)
    BY <1>3 DEF ProcessorOK
  <2> QED
    BY <1>2, <2>1, <2>2, AppendedOrNot, Zenon
<1>7. failed' \in BOOLEAN
  BY <1>3 DEF ProcessorOK, SetProcessingFailed
<1>8. UNCHANGED <<justStarted, startSlot, lastIndexed, mismatches, processed, pending, utxo,
                  applied, requests, crashes>>
  BY DEF startVars, tipVars, globalVars, dbVars, world
<1>9. ProcessorOK'
  BY <1>3, <1>4, <1>5, <1>6, <1>7, <1>8 DEF ProcessorOK
<1>10. MintedKept /\ UNCHANGED world
  BY DEF MintedKept
<1>11. Done \/ (UNCHANGED mailbox /\ pc' = "building")
  BY DEF SetProcessingFailed
<1> QED
  BY <1>1, <1>9, <1>10, <1>11, HandlerStep

LEMMA SubmitKeeps ==
  ASSUME CepInv, SubmitUpdate
  PROVE  MintedKept
<1>1. AppliedTxs \in Seq(TxIds)
  <2>1. applied \in Seq(Row)
    BY DEF CepInv, TypeOK
  <2>2. Len(applied) \in Nat /\ \A i \in 1 .. Len(applied) : applied[i] \in Row
    BY <2>1, LenProperties, ElementOfSeq, Zenon
  <2>3. \A i \in 1 .. Len(applied) : applied[i].tx \in TxIds
    BY <2>2, Zenon DEF Row
  <2> QED
    BY <2>2, <2>3 DEF AppliedTxs
<1>2. [spends |-> ValidatorUTxO, base |-> AppliedTxs] \in OracleTx
  BY <1>1, ValidatorType DEF OracleTx
<1> QED
  BY <1>2 DEF MintedKept, SubmitUpdate

LEMMA BuildTypes ==
  ASSUME CepInv, PassBlock \/ RequestRestart \/ SkipUpdate \/ SubmitUpdate \/ UpdateFails
  PROVE  CepInv'
<1> USE DEF PassBlock, RequestRestart, SkipUpdate, SubmitUpdate, UpdateFails,
            ProcessBlockTipReached
<1>1. mailbox # <<>> /\ event.kind \in {"tx", "block"}
  BY DEF CepInv, Handles
<1>2. event.at \in Points /\ event.at[1] \in Heights
  BY <1>1, EventType
<1>3. ProcessorOK
  BY CepInvParts
<1>4. MintedKept
  BY SubmitKeeps DEF MintedKept
<1>5. applied' \in Seq(KnownRow')
  BY <1>3, <1>4, KnownStaysKnown DEF ProcessorOK, dbVars
<1>6. processed' \subseteq Points
  BY <1>2, <1>3 DEF ProcessorOK
<1>7. counts' \in [Points -> 0 .. 2]
  BY <1>3 DEF ProcessorOK
<1>8. pending' \subseteq [tx : TxIds, height : Heights]
  <2>1. StillPending \subseteq pending
    BY DEF StillPending
  <2>2. SubmitUpdate => [tx |-> Len(minted) + 1, height |-> event.at[1]]
                            \in [tx : TxIds, height : Heights]
    <3>1. Len(minted) \in Nat /\ MaxTxs \in Nat
      BY StreamBounds DEF CepInv, TypeOK, StreamTypeOK
    <3> QED
      BY <1>2, <3>1 DEF TxIds
  <2> QED
    BY <1>3, <2>1, <2>2 DEF ProcessorOK, globalVars
<1>9. utxo' \in 0 .. MaxTxs \cup {NULL}
  BY <1>3, ValidatorType DEF ProcessorOK, globalVars
<1>10. mismatches' \in Nat
  BY <1>3 DEF ProcessorOK
<1>11. requests' \in Seq(Points)
  <2>1. requests' = requests \/ requests' = Append(requests, lastIndexed)
    OBVIOUS
  <2>2. requests \in Seq(Points) /\ lastIndexed \in Points
    BY <1>3 DEF ProcessorOK
  <2> QED
    BY <2>1, <2>2, AppendedOrNot, Zenon
<1>12. lastIndexed' \in Points /\ failed' \in BOOLEAN
  BY <1>2, <1>3 DEF ProcessorOK, BlockDone, SetProcessingFailed
<1>13. UNCHANGED <<justStarted, startSlot, cursor, crashes>>
  BY DEF startVars, dbVars, world
<1>14. ProcessorOK'
  BY <1>3, <1>5, <1>6, <1>7, <1>8, <1>9, <1>10, <1>11, <1>12, <1>13 DEF ProcessorOK
<1>15. Done /\ UNCHANGED world
  BY DEF BlockDone, SetProcessingFailed
<1> QED
  BY <1>1, <1>4, <1>14, <1>15, HandlerStep

LEMMA RollbackTypes ==
  ASSUME CepInv, DropEvent \/ RollbackCursor \/ Rollback \/ RollbackFails
  PROVE  CepInv'
<1> USE DEF DropEvent, RollbackCursor, Rollback, RollbackFails
<1>1. mailbox # <<>> /\ (~DropEvent => event.kind = "rollback")
  BY DEF CepInv, Handles
<1>2. ProcessorOK
  BY CepInvParts
<1>3. KnownRow' = KnownRow
  BY DEF KnownRow
<1>4. CursorUpTo(event.at[1]) \in Seq(Points) /\ RowsUpTo(event.at[1]) \in Seq(KnownRow)
  BY CutTypes
<1>5. cursor' \in Seq(Points) /\ applied' \in Seq(KnownRow)
  BY <1>2, <1>4 DEF ProcessorOK, dbVars
<1>6. counts' \in [Points -> 0 .. 2] /\ processed' \subseteq Points
  BY <1>2 DEF ProcessorOK, actorVars
<1>7. failed' \in BOOLEAN
  BY <1>2 DEF ProcessorOK, SetProcessingFailed, actorVars
<1>8. UNCHANGED <<justStarted, startSlot, lastIndexed, mismatches, pending, utxo, requests,
                  crashes>>
  BY DEF actorVars, startVars, tipVars, globalVars, world
<1>9. ProcessorOK'
  BY <1>2, <1>3, <1>5, <1>6, <1>7, <1>8 DEF ProcessorOK
<1>10. MintedKept /\ UNCHANGED world
  BY DEF MintedKept
<1>11. Done \/ (UNCHANGED mailbox /\ pc' = "rollingBack" /\ event.kind = "rollback")
  BY <1>1 DEF SetProcessingFailed
<1> QED
  BY <1>1, <1>9, <1>10, <1>11, HandlerStep

-----------------------------------------------------------------------------
(* The chain, the indexer and the restarts.                                *)

\* What an event is about.
NewEvent(e, slot) ==
    /\ e.kind \in {"block", "tx"}
    /\ e.at[1] = slot

\* A block is streamed as events of its slot, at most one of them, the last,
\* an oracle transaction.
LEMMA SentBlock ==
  ASSUME CepInv, SendBlock
  PROVE  /\ view' \in Seq(KnownBlock) /\ Len(view') = Len(view) + 1 /\ Len(view') <= MaxHeight
         /\ mailbox' \in Seq(KnownEvent)
         /\ Len(mailbox') > Len(mailbox) /\ Len(mailbox') \in Nat
         /\ \A i \in 1 .. Len(mailbox) : mailbox'[i] = mailbox[i]
         /\ \A i \in Len(mailbox) + 1 .. Len(mailbox') :
               /\ NewEvent(mailbox'[i], Len(view) + 1)
               /\ i < Len(mailbox') /\ mailbox'[i].kind = "tx" => mailbox'[i].tx = 0
<1> DEFINE n == Len(view) + 1
           b == chain[n]
           at == PointAt(chain, n)
           txs == TxsOf(b)
           Head1(r) == <<[kind |-> "block", at |-> at, n |-> Len(txs), tip |-> r]>>
           Rest(r) == [i \in 1 .. Len(txs) |-> [kind |-> "tx", at |-> at, tx |-> txs[i], tip |-> r]]
<1>1. /\ chain \in Seq(KnownBlock) /\ Len(chain) \in Nat /\ Len(chain) <= MaxHeight
      /\ view \in Seq(KnownBlock) /\ Len(view) \in Nat
      /\ mailbox \in Seq(KnownEvent) /\ Len(mailbox) \in Nat
      /\ Len(minted) \in Nat /\ Len(minted) <= MaxTxs /\ tip \in BOOLEAN
      /\ {MaxHeight, MaxForks, MaxTxs} \subseteq Nat
  BY StreamBounds, SMTT(30) DEF CepInv, TypeOK, StreamTypeOK
<1>2. IsStrictPrefix(view, chain)
  BY DEF SendBlock
<1>3. Len(view) < Len(chain)
  BY <1>1, <1>2, StrictPrefixShorter
<1>4. n \in 1 .. Len(chain) /\ n \in 0 .. MaxHeight /\ n # 0 /\ n >= 1 /\ n \in Nat /\ n <= MaxHeight
  BY <1>1, <1>3
<1>5. view' = Append(view, b) /\ tip' \in BOOLEAN
  BY <1>1 DEF SendBlock
<1>6. PICK r \in BOOLEAN : mailbox' = (mailbox \o Head1(r)) \o Rest(r)
  <2>1. \E reached \in {tip, tip'} : mailbox' = (mailbox \o Head1(reached)) \o Rest(reached)
    BY Zenon DEF SendBlock
  <2> QED
    BY <1>1, <1>5, <2>1
<1>7. b \in KnownBlock
  BY <1>1, <1>4, ElementOfSeq
<1>8. at \in Points /\ at[1] = n
  <2>1. b.branch \in 0 .. MaxForks
    BY <1>7 DEF KnownBlock, Block
  <2> HIDE DEF n
  <2> QED
    BY <1>4, <2>1 DEF PointAt, Points
<1>9. /\ txs \in Seq(0 .. Len(minted)) /\ Len(txs) \in 0 .. 2
      /\ \A i \in 1 .. Len(txs) : i < Len(txs) => txs[i] = 0
  <2>1. b.oracle \in 0 .. Len(minted)
    BY <1>1, <1>7 DEF KnownBlock, Block
  <2> HIDE DEF n, b
  <2> QED
    BY <1>1, <2>1, TxsType
<1>10. view' \in Seq(KnownBlock) /\ Len(view') = n
  <2> HIDE DEF b
  <2> QED
    BY <1>1, <1>5, <1>7, AppendProperties
<1> HIDE DEF n, b, at, txs
<1>11. Head1(r) \in Seq(KnownEvent)
  <2>1. [kind |-> "block", at |-> at, n |-> Len(txs), tip |-> r] \in KnownEvent
    BY <1>4, <1>8, <1>9 DEF KnownEvent, Event
  <2> QED
    BY <2>1
<1>12. Rest(r) \in Seq(KnownEvent) /\ Len(Rest(r)) = Len(txs)
  <2>1. \A i \in 1 .. Len(txs) : txs[i] \in 0 .. MaxTxs /\ txs[i] <= Len(minted)
    <3>1. \A i \in 1 .. Len(txs) : txs[i] \in 0 .. Len(minted)
      BY <1>9, ElementOfSeq
    <3> QED
      BY <1>1, <3>1
  <2>2. \A i \in 1 .. Len(txs) :
            [kind |-> "tx", at |-> at, tx |-> txs[i], tip |-> r] \in KnownEvent
    BY <1>4, <1>8, <2>1 DEF KnownEvent, Event
  <2>3. Len(txs) \in Nat
    BY <1>9
  <2> QED
    BY <2>2, <2>3
<1> DEFINE first == Head1(r)
           rest == Rest(r)
<1>13. first \in Seq(KnownEvent) /\ Len(first) = 1
         /\ first[1].kind = "block" /\ first[1].at = at
  BY <1>11
<1>14. rest \in Seq(KnownEvent) /\ Len(rest) = Len(txs) /\ Len(txs) \in Nat
         /\ \A i \in 1 .. Len(txs) : rest[i].kind = "tx" /\ rest[i].at = at /\ rest[i].tx = txs[i]
  BY <1>9, <1>12
<1>15. mailbox' = (mailbox \o first) \o rest
  BY <1>6
<1> HIDE DEF first, rest
<1>16. /\ mailbox' \in Seq(KnownEvent) /\ Len(mailbox') = Len(mailbox) + 1 + Len(txs)
       /\ \A i \in 1 .. Len(mailbox) : mailbox'[i] = mailbox[i]
       /\ mailbox'[Len(mailbox) + 1] = first[1]
       /\ \A i \in 1 .. Len(txs) : mailbox'[Len(mailbox) + 1 + i] = rest[i]
  <2>1. mailbox \in Seq(KnownEvent) /\ first \in Seq(KnownEvent) /\ rest \in Seq(KnownEvent)
    BY <1>1, <1>13, <1>14
  <2>2. PICK box : box = mailbox \o first
    OBVIOUS
  <2>3. /\ box \in Seq(KnownEvent) /\ Len(box) = Len(mailbox) + Len(first)
        /\ \A i \in 1 .. Len(mailbox) : box[i] = mailbox[i]
        /\ \A i \in 1 .. Len(first) : box[Len(mailbox) + i] = first[i]
    BY <2>1, <2>2, ConcatParts
  <2>4. box \in Seq(KnownEvent) /\ mailbox' = box \o rest
    BY <1>15, <2>2, <2>3
  <2>5. /\ mailbox' \in Seq(KnownEvent) /\ Len(mailbox') = Len(box) + Len(rest)
        /\ \A i \in 1 .. Len(box) : mailbox'[i] = box[i]
        /\ \A i \in 1 .. Len(rest) : mailbox'[Len(box) + i] = rest[i]
    BY <2>1, <2>4, ConcatParts
  <2>6. Len(box) = Len(mailbox) + 1 /\ Len(rest) = Len(txs) /\ box[Len(mailbox) + 1] = first[1]
    BY <1>13, <1>14, <2>3
  <2>7. Len(mailbox) \in Nat
    BY <1>1
  <2>8. \A i \in 1 .. Len(mailbox) : mailbox'[i] = mailbox[i]
    BY <2>3, <2>5, <2>6, <2>7
  <2>9. mailbox'[Len(mailbox) + 1] = first[1]
    <3>1. Len(box) \in 1 .. Len(box)
      BY <2>6, <2>7
    <3> QED
      BY <2>5, <2>6, <3>1
  <2> QED
    BY <2>5, <2>6, <2>8, <2>9
<1>18. Len(mailbox') > Len(mailbox) /\ Len(mailbox') \in Nat
         /\ \A i \in 1 .. Len(mailbox) : mailbox'[i] = mailbox[i]
  BY <1>1, <1>14, <1>16
<1>19. ASSUME NEW i \in Len(mailbox) + 1 .. Len(mailbox')
       PROVE  /\ NewEvent(mailbox'[i], n)
              /\ i < Len(mailbox') /\ mailbox'[i].kind = "tx" => mailbox'[i].tx = 0
  <2>1. CASE i = Len(mailbox) + 1
    <3>1. mailbox'[i] = first[1]
      BY <1>16, <2>1
    <3> QED
      BY <1>8, <1>13, <3>1 DEF NewEvent
  <2>2. CASE i # Len(mailbox) + 1
    <3> DEFINE j == i - (Len(mailbox) + 1)
    <3>1. j \in 1 .. Len(txs) /\ i = Len(mailbox) + 1 + j
            /\ (i < Len(mailbox') => j < Len(txs))
      BY <1>1, <1>14, <1>16, <2>2
    <3> HIDE DEF j
    <3>2. mailbox'[i] = rest[j]
      BY <1>16, <3>1
    <3> QED
      BY <1>8, <1>9, <1>14, <3>1, <3>2 DEF NewEvent
  <2> QED
    BY <2>1, <2>2
<1> QED
  BY <1>4, <1>10, <1>16, <1>18, <1>19 DEF n

\* What the chain and the stream do leaves the processor as it is.
LEMMA StreamStep ==
  ASSUME CepInv, MintedKept, UNCHANGED processorVars,
         chain' \in Seq(KnownBlock'), Len(chain') <= MaxHeight, forks' \in 0 .. MaxForks,
         view' \in Seq(KnownBlock'), Len(view') <= MaxHeight, tip' \in BOOLEAN,
         \/ UNCHANGED mailbox
         \/ \E e : mailbox' = Append(mailbox, e) /\ e \in KnownEvent'
         \/ SendBlock
  PROVE  CepInv'
<1>1. /\ minted' \in Seq(OracleTx) /\ Len(minted') <= MaxTxs
      /\ Seq(KnownEvent) \subseteq Seq(KnownEvent')
      /\ Seq(KnownRow) \subseteq Seq(KnownRow')
  BY KnownStaysKnown
<1>2. mailbox \in Seq(KnownEvent)
  BY DEF CepInv
<1>3. mailbox' \in Seq(KnownEvent') /\ (mailbox # <<>> => mailbox' # <<>> /\ mailbox'[1] = mailbox[1])
  <2>1. CASE UNCHANGED mailbox
    BY <1>1, <1>2, <2>1
  <2>2. CASE \E e : mailbox' = Append(mailbox, e) /\ e \in KnownEvent'
    <3>1. PICK e : mailbox' = Append(mailbox, e) /\ e \in KnownEvent'
      BY <2>2
    <3>2. mailbox \in Seq(KnownEvent')
      BY <1>1, <1>2
    <3> QED
      BY <3>1, <3>2
  <2>3. CASE SendBlock
    <3>1. /\ mailbox' \in Seq(KnownEvent) /\ Len(mailbox') > Len(mailbox)
          /\ Len(mailbox') \in Nat
          /\ \A i \in 1 .. Len(mailbox) : mailbox'[i] = mailbox[i]
      BY <2>3, SentBlock
    <3>2. mailbox # <<>> => 1 \in 1 .. Len(mailbox)
      BY <1>2
    <3>3. mailbox # <<>> => mailbox' # <<>>
      BY <1>2, <3>1
    <3> QED
      BY <1>1, <3>1, <3>2, <3>3
  <2> QED
    BY <2>1, <2>2, <2>3
<1>4. mailbox # <<>> => event' = event
  <2>1. mailbox # <<>> => event = mailbox[1]
    BY <1>2, HeadTail DEF event
  <2>2. mailbox' # <<>> => event' = mailbox'[1]
    BY <1>3, HeadTail DEF event
  <2> QED
    BY <1>3, <2>1, <2>2
<1>5. \A T, U : T \subseteq U => Seq(T) \subseteq Seq(U)
  BY SeqMonotonic
<1>6. KnownBlock' \subseteq Block /\ KnownEvent' \subseteq Event
  BY DEF KnownBlock, KnownEvent
<1>7. chain' \in Seq(Block) /\ view' \in Seq(Block) /\ mailbox' \in Seq(Event)
  BY <1>3, <1>5, <1>6
<1>8. StreamOK'
  BY <1>1, <1>3, <1>7 DEF StreamOK, StreamTypeOK
<1>9. ProcessorOK'
  <2>1. UNCHANGED <<failed, justStarted, startSlot, lastIndexed, mismatches, counts, processed,
                    pending, utxo, applied, cursor, requests, crashes>>
    BY DEF processorVars, actorVars, startVars, tipVars, globalVars, dbVars
  <2>2. ProcessorOK
    BY CepInvParts
  <2> QED
    BY <1>1, <2>1, <2>2 DEF ProcessorOK
<1>10. ProgressOK'
  <2>1. ProgressOK
    BY CepInvParts
  <2>2. pc' = pc
    BY DEF processorVars
  <2>3. \A k : Handles(k) => Handles(k)'
    BY <1>3, <1>4 DEF Handles
  <2> QED
    BY <2>1, <2>2, <2>3 DEF ProgressOK
<1>11. StreamOK' /\ ProcessorOK' /\ ProgressOK' => CepInv'
  BY CepInvParts, PTL
<1> QED
  BY <1>8, <1>9, <1>10, <1>11, Zenon

LEMMA EnvironmentTypes ==
  ASSUME CepInv, Environment \/ SendBlock \/ SendRollback, UNCHANGED processorVars
  PROVE  CepInv' /\ MintedKept
<1>1. /\ chain \in Seq(KnownBlock) /\ Len(chain) \in Nat /\ Len(chain) <= MaxHeight
      /\ view \in Seq(KnownBlock) /\ Len(view) \in Nat /\ Len(view) <= MaxHeight
      /\ forks \in 0 .. MaxForks /\ tip \in BOOLEAN
      /\ minted \in Seq(OracleTx) /\ Len(minted) \in Nat /\ Len(minted) <= MaxTxs
      /\ {MaxHeight, MaxForks, MaxTxs} \subseteq Nat
  BY StreamBounds, SMTT(30) DEF CepInv, TypeOK, StreamTypeOK
<1>2. ASSUME NEW other \in BOOLEAN, NEW t, t \in 0 .. Len(minted'), Len(minted') <= MaxTxs,
             MintedKept, Len(chain) < MaxHeight, Extend(other, t), UNCHANGED <<forks, streamVars, mailbox>>
      PROVE  CepInv'
  <2>1. [branch |-> forks, other |-> other, oracle |-> t] \in KnownBlock'
    <3>1. t <= Len(minted') /\ t \in 0 .. MaxTxs
      <4>1. Len(minted') \in Nat
        BY <1>2, KnownStaysKnown
      <4> QED
        BY <1>1, <1>2, <4>1
    <3> QED
      BY <1>1, <1>2, <3>1 DEF KnownBlock, Block
  <2>2. chain \in Seq(KnownBlock') /\ view \in Seq(KnownBlock')
    BY <1>1, <1>2, KnownStaysKnown
  <2>3. chain' \in Seq(KnownBlock') /\ Len(chain') = Len(chain) + 1
    BY <1>2, <2>1, <2>2, AppendProperties DEF Extend
  <2>4. Len(chain') <= MaxHeight
    BY <1>1, <1>2, <2>3
  <2>5. view' \in Seq(KnownBlock') /\ Len(view') <= MaxHeight /\ tip' \in BOOLEAN
          /\ forks' \in 0 .. MaxForks
    BY <1>1, <1>2, <2>2 DEF streamVars
  <2> QED
    BY <1>2, <2>3, <2>4, <2>5, StreamStep
<1>3. ASSUME NEW other \in BOOLEAN, NEW t \in 0 .. MaxTxs, ForgeBlock(other, t)
      PROVE  CepInv' /\ MintedKept
  <2>1. /\ MintedKept /\ Len(chain) < MaxHeight /\ Extend(other, t)
        /\ UNCHANGED <<forks, streamVars, mailbox>>
    BY <1>3 DEF ForgeBlock, MintedKept
  <2>2. t \in 0 .. Len(minted') /\ Len(minted') <= MaxTxs
    BY <1>1, <1>3 DEF ForgeBlock
  <2> QED
    BY <1>2, <2>1, <2>2
<1>4. ASSUME NEW other \in BOOLEAN, ForgeForeign(other)
      PROVE  CepInv' /\ MintedKept
  <2> DEFINE t == UnspentOf(chain)
             tx == [spends |-> t, base |-> RootOf(t)]
  <2>1. t \in 0 .. Len(minted) /\ t \in 0 .. MaxTxs
    BY UnspentType
  <2>2. minted' = Append(minted, tx) /\ Len(minted) < MaxTxs /\ Len(chain) < MaxHeight
          /\ Extend(other, Len(minted) + 1) /\ UNCHANGED <<forks, streamVars, mailbox>>
    BY <1>4 DEF ForgeForeign
  <2> HIDE DEF t
  <2>3. tx \in OracleTx
    <3>1. RootOf(t) \in Seq(TxIds)
      <4>1. CASE t = 0
        BY <4>1 DEF RootOf
      <4>2. CASE t # 0
        <5>1. t \in 1 .. Len(minted) /\ t \in TxIds
          BY <1>1, <2>1, <4>2 DEF TxIds
        <5>2. minted[t].base \in Seq(TxIds)
          <6>1. minted[t] \in OracleTx
            BY <1>1, <5>1, ElementOfSeq, Zenon
          <6> QED
            BY <6>1 DEF OracleTx
        <5> QED
          BY <4>2, <5>1, <5>2, AppendProperties DEF RootOf
      <4> QED
        BY <4>1, <4>2
    <3> QED
      BY <2>1, <3>1 DEF OracleTx
  <2> HIDE DEF tx
  <2>4. MintedKept
    BY <2>2, <2>3 DEF MintedKept
  <2>5. Len(minted') = Len(minted) + 1
    BY <1>1, <2>2, <2>3, AppendProperties
  <2>6. Len(minted) + 1 \in 0 .. Len(minted') /\ Len(minted') <= MaxTxs
    BY <1>1, <2>2, <2>5
  <2> QED
    BY <1>2, <2>2, <2>4, <2>6
<1>5. ASSUME UNCHANGED minted PROVE MintedKept /\ KnownBlock' = KnownBlock /\ KnownEvent' = KnownEvent
  BY <1>5 DEF MintedKept, KnownBlock, KnownEvent
<1>6. ASSUME NEW n \in Heights, Fork(n) PROVE CepInv' /\ MintedKept
  <2>1. n \in 1 .. Len(chain) - 1 /\ chain' = SubSeq(chain, 1, n) /\ forks' = forks + 1
          /\ forks < MaxForks /\ UNCHANGED <<minted, streamVars, mailbox>>
    BY <1>6 DEF Fork
  <2>2. n \in 0 .. Len(chain) /\ 1 \in 1 .. Len(chain) + 1 /\ n \in Nat /\ n <= MaxHeight
    BY <1>1, <2>1
  <2>3. chain' \in Seq(KnownBlock) /\ Len(chain') = n
    BY <1>1, <2>1, <2>2, SubSeqProperties
  <2>4. view' \in Seq(KnownBlock) /\ Len(view') <= MaxHeight /\ tip' \in BOOLEAN
          /\ forks' \in 0 .. MaxForks
    BY <1>1, <2>1 DEF streamVars
  <2> QED
    BY <1>5, <2>1, <2>2, <2>3, <2>4, StreamStep
<1>7. ASSUME SendBlock PROVE CepInv' /\ MintedKept
  <2>1. UNCHANGED <<chain, forks, minted>> /\ tip' \in BOOLEAN
    BY <1>1, <1>7 DEF SendBlock, chainVars
  <2>2. view' \in Seq(KnownBlock) /\ Len(view') <= MaxHeight
    BY <1>7, SentBlock
  <2> QED
    BY <1>1, <1>5, <1>7, <2>1, <2>2, StreamStep
<1>8. ASSUME SendRollback PROVE CepInv' /\ MintedKept
  <2> DEFINE n == CommonLength
             e == RollbackEvent(PointAt(view, n))
  <2>1. UNCHANGED <<chain, forks, minted, tip>> /\ view' = SubSeq(view, 1, n)
          /\ mailbox' = Append(mailbox, e)
    BY <1>8 DEF SendRollback, chainVars
  <2>2. n \in 0 .. Len(view) /\ PointAt(view, n) \in Points
    BY CommonType
  <2> HIDE DEF n
  <2>3. e \in KnownEvent
    BY <2>2 DEF KnownEvent, Event, RollbackEvent
  <2> HIDE DEF e
  <2>4. n \in Nat /\ n <= MaxHeight /\ 1 \in 1 .. Len(view) + 1
    BY <1>1, <2>2
  <2>5. view' \in Seq(KnownBlock) /\ Len(view') = n
    BY <1>1, <2>1, <2>2, <2>4, SubSeqProperties
  <2>6. \E ev : mailbox' = Append(mailbox, ev) /\ ev \in KnownEvent'
    BY <1>5, <2>1, <2>3
  <2> QED
    BY <1>1, <1>5, <2>1, <2>4, <2>5, <2>6, StreamStep
<1> QED
  BY <1>3, <1>4, <1>6, <1>7, <1>8 DEF Environment

\* A fresh processor and a stream that starts where its cursor says.
LEMMA RestartTypes ==
  ASSUME CepInv, Crash \/ ManagerRestart
  PROVE  CepInv'
<1>1. /\ chain \in Seq(KnownBlock) /\ Len(chain) \in Nat /\ Len(chain) <= MaxHeight
      /\ {MaxHeight, MaxForks, MaxTxs, MaxCrashes} \subseteq Nat
  BY StreamBounds, ProcessorBounds DEF CepInv, TypeOK, StreamTypeOK
<1>2. UNCHANGED minted /\ KnownBlock' = KnownBlock /\ KnownEvent' = KnownEvent
        /\ KnownRow' = KnownRow
  BY DEF Crash, ManagerRestart, KnownBlock, KnownEvent, KnownRow
<1>3. ProcessorOK /\ StreamOK
  BY CepInvParts
<1>4. Intercept \in Points
  BY <1>1 DEF Intercept, Points
<1>5. ASSUME NEW point \in Points, FreshActor(point)
      PROVE  /\ failed' \in BOOLEAN /\ justStarted' \in BOOLEAN /\ startSlot' \in 0 .. MaxHeight
             /\ lastIndexed' \in Points /\ mismatches' \in Nat /\ counts' \in [Points -> 0 .. 2]
             /\ processed' \subseteq Points
  <2>1. point[1] \in 0 .. MaxHeight
    BY DEF Points
  <2>2. [p \in Points |-> 0] \in [Points -> 0 .. 2]
    OBVIOUS
  <2>3. 0 \in Nat /\ {} \subseteq Points
    OBVIOUS
  <2> QED
    BY <1>5, <2>1, <2>2, <2>3, Zenon DEF FreshActor
<1>6. ASSUME NEW points \in Seq(Points), StartStream(points)
      PROVE  view' \in Seq(KnownBlock) /\ view' \in Seq(Block) /\ Len(view') <= MaxHeight
               /\ tip' \in BOOLEAN /\ FirstEvent(points) \in KnownEvent
  <2> DEFINE n == IntersectLength(points)
  <2>1. n \in 0 .. Len(chain) /\ FirstEvent(points) \in KnownEvent
    BY StartType
  <2>2. view' = SubSeq(chain, 1, n) /\ tip' \in BOOLEAN
    BY <1>6 DEF StartStream
  <2> HIDE DEF n
  <2>3. view' \in Seq(KnownBlock) /\ Len(view') = n
    <3>1. 1 \in 1 .. Len(chain) + 1
      BY <1>1
    <3> QED
      BY <1>1, <2>1, <2>2, <3>1, SubSeqProperties
  <2>4. n <= MaxHeight
    BY <1>1, <2>1
  <2>5. view' \in Seq(Block)
    BY <2>3, SeqMonotonic DEF KnownBlock
  <2> QED
    BY <2>1, <2>2, <2>3, <2>4, <2>5
<1>7. CASE Crash
  <2>1. LatestCursor \in Points
    BY <1>3, <1>4 DEF ProcessorOK, LatestCursor, Last
  <2>2. FreshActor(LatestCursor) /\ StartStream(cursor) /\ cursor \in Seq(Points)
    BY <1>3, <1>7 DEF Crash, ProcessorOK
  <2>3. mailbox' = <<>> \/ mailbox' = <<FirstEvent(cursor)>>
    BY <1>7 DEF Crash
  <2>4. FirstEvent(cursor) \in KnownEvent /\ KnownEvent \subseteq Event
    BY <1>6, <2>2 DEF KnownEvent
  <2>5. mailbox' \in Seq(KnownEvent) /\ mailbox' \in Seq(Event)
    <3>1. \A T : \A e \in T : <<>> \in Seq(T) /\ <<e>> \in Seq(T)
      OBVIOUS
    <3> QED
      BY <2>3, <2>4, <3>1, Zenon
  <2>6. ProcessorOK'
    <3>1. pending' = {} /\ utxo' = NULL /\ requests' = <<>> /\ UNCHANGED <<applied, cursor>>
            /\ crashes < MaxCrashes /\ crashes' = crashes + 1
      BY <1>7 DEF Crash, dbVars
    <3>2. crashes' \in 0 .. MaxCrashes
      BY <1>1, <1>3, <3>1 DEF ProcessorOK
    <3>3. requests' \in Seq(Points)
      BY <3>1
    <3> QED
      BY <1>2, <1>3, <1>5, <2>1, <2>2, <3>1, <3>2, <3>3 DEF ProcessorOK
  <2>7. StreamOK'
    BY <1>2, <1>3, <1>6, <1>7, <2>2, <2>5 DEF Crash, chainVars, StreamOK, StreamTypeOK
  <2>8. ProgressOK'
    BY <1>7 DEF Crash, ProgressOK
  <2> QED
    BY <2>6, <2>7, <2>8, CepInvParts, PTL
<1>8. CASE ManagerRestart
  <2>1. PICK point \in {Head(requests), Intercept} :
            cursor' = CursorUpTo(point[1]) /\ FreshActor(point)
    BY <1>8 DEF ManagerRestart
  <2>2. requests \in Seq(Points) /\ requests # <<>> /\ requests' = Tail(requests)
    BY <1>3, <1>8 DEF ManagerRestart, ProcessorOK
  <2>3. Head(requests) \in Points /\ requests' \in Seq(Points)
    BY <2>2, HeadTail
  <2>4. point \in Points
    BY <1>4, <2>1, <2>3
  <2>5. cursor' \in Seq(Points) /\ StartStream(cursor')
    BY <1>8, <2>1, CutTypes DEF ManagerRestart
  <2>6. FirstEvent(cursor') \in KnownEvent /\ KnownEvent \subseteq Event
    BY <1>6, <2>5 DEF KnownEvent
  <2>7. mailbox' = Append(mailbox, FirstEvent(cursor'))
    BY <1>8 DEF ManagerRestart
  <2>8. mailbox' \in Seq(KnownEvent) /\ mailbox' \in Seq(Event)
    <3>1. mailbox \in Seq(KnownEvent) /\ mailbox \in Seq(Event)
      BY <1>3 DEF StreamOK, StreamTypeOK
    <3>2. FirstEvent(cursor') \in Event
      BY <2>6
    <3> QED
      BY <2>6, <2>7, <3>1, <3>2, AppendedOrNot, Zenon
  <2>9. ProcessorOK'
    <3>1. UNCHANGED <<pending, utxo, applied, crashes>>
      BY <1>8 DEF ManagerRestart, globalVars
    <3> QED
      BY <1>2, <1>3, <1>5, <2>1, <2>3, <2>4, <2>5, <3>1 DEF ProcessorOK
  <2>10. StreamOK'
    BY <1>2, <1>3, <1>6, <1>8, <2>5, <2>8 DEF ManagerRestart, chainVars, StreamOK, StreamTypeOK
  <2>11. ProgressOK'
    BY <1>8 DEF ManagerRestart, ProgressOK
  <2> QED
    BY <2>9, <2>10, <2>11, CepInvParts, PTL
<1> QED
  BY <1>7, <1>8

LEMMA CepStep == CepInv /\ [Next]_vars => CepInv'
<1> SUFFICES ASSUME CepInv, [Next]_vars PROVE CepInv'
  OBVIOUS
<1>1. CASE Handler
  BY <1>1, BlockTypes, TxTypes, CountTypes, BuildTypes, RollbackTypes DEF Handler
<1>2. CASE (Environment \/ SendBlock \/ SendRollback) /\ UNCHANGED processorVars
  BY <1>2, EnvironmentTypes
<1>3. CASE Crash \/ ManagerRestart
  BY <1>3, RestartTypes
<1>4. CASE StatusEvent
  BY <1>4, StatusTypes
<1>5. CASE UNCHANGED vars
  <2>1. UNCHANGED <<chain, forks, minted, view, tip, mailbox>>
    BY <1>5 DEF vars, world, chainVars, streamVars
  <2>2. UNCHANGED processorVars
    BY <1>5 DEF vars, world, processorVars
  <2>3. MintedKept /\ KnownBlock' = KnownBlock
    BY <2>1 DEF MintedKept, KnownBlock
  <2>4. /\ chain \in Seq(KnownBlock) /\ Len(chain) <= MaxHeight /\ forks \in 0 .. MaxForks
        /\ view \in Seq(KnownBlock) /\ Len(view) <= MaxHeight /\ tip \in BOOLEAN
    BY DEF CepInv, TypeOK, StreamTypeOK
  <2> QED
    BY <2>1, <2>2, <2>3, <2>4, StreamStep
<1> QED
  BY <1>1, <1>2, <1>3, <1>4, <1>5 DEF Next

\* The processor, its tables, the stream and the chain always have values of
\* their types; each transaction named anywhere was minted before, and a
\* handler that is under way has its event at the head of the mailbox.
THEOREM ProcessorTypeCorrect == Spec => []TypeOK
<1>1. CepInv => TypeOK
  BY DEF CepInv
<1> QED
  BY CepInit, CepStep, <1>1, PTL DEF Spec

-----------------------------------------------------------------------------
(* The order of the tables.  The oracle transactions and the rollbacks of  *)
(* a queue q of events, by their slots.                                    *)

OracleAt(q, i) == q[i].kind = "tx" /\ q[i].tx # 0
Slot(q, i) == q[i].at[1]
Marks(q, i) == q[i].kind = "rollback" \/ OracleAt(q, i)
NoRollback(q, i, j) == \A k \in i .. j : q[k].kind # "rollback"

\* From one rollback to the next the slots of the oracle transactions grow.
Grows(q) ==
    \A i, j \in 1 .. Len(q) :
        i < j /\ Marks(q, i) /\ OracleAt(q, j) /\ NoRollback(q, i + 1, j - 1)
            => Slot(q, i) < Slot(q, j)

\* What no rollback of the queue undoes is not past slot n.
Behind(q, n) ==
    \A i \in 1 .. Len(q) :
        Marks(q, i) /\ NoRollback(q, i + 1, Len(q)) => Slot(q, i) <= n

\* An oracle transaction, from place f on, that no rollback of the queue
\* precedes is later than every row.
AheadOf(q, f, rows) ==
    \A j \in f .. Len(q) :
        OracleAt(q, j) /\ NoRollback(q, 1, j - 1)
            => \A i \in 1 .. Len(rows) : rows[i].slot < Slot(q, j)

\* Without a rollback on its way no row is past slot n.
RowsBehind(q, rows, n) ==
    NoRollback(q, 1, Len(q)) => \A i \in 1 .. Len(rows) : rows[i].slot <= n

SlotsSorted(rows) ==
    \A i, j \in 1 .. Len(rows) : i < j => rows[i].slot < rows[j].slot

BuiltOnRows(rows) ==
    \A i \in 1 .. Len(rows) :
        LET previous == minted[rows[i].tx].spends
        IN previous # 0 => \E j \in 1 .. i - 1 : rows[j].tx = previous

\* The first event that is still to be applied.
First == IF pc \in {"applied", "building"} THEN 2 ELSE 1

OrderInv ==
    /\ Grows(mailbox)
    /\ Behind(mailbox, Len(view))
    /\ ~failed => /\ AheadOf(mailbox, First, applied)
                  /\ RowsBehind(mailbox, applied, Len(view))
    /\ SlotsSorted(applied)
    /\ BuiltOnRows(applied)

-----------------------------------------------------------------------------
(* What becomes of the queue: its head is handled, or something is added.  *)

LEMMA SlotType ==
  ASSUME NEW q \in Seq(Event), NEW i \in 1 .. Len(q)
  PROVE  Slot(q, i) \in Nat
<1>1. q[i] \in Event
  BY ElementOfSeq
<1>2. q[i].at \in Points /\ MaxHeight \in Nat
  BY <1>1, StreamBounds DEF Event
<1>3. q[i].at[1] \in 0 .. MaxHeight
  BY <1>2 DEF Points
<1> QED
  BY <1>2, <1>3 DEF Slot

LEMMA TailOrder ==
  ASSUME NEW q \in Seq(Event), q # <<>>, NEW t, t = Tail(q), NEW n \in Nat, NEW rows
  PROVE  /\ Grows(q) => Grows(t)
         /\ Behind(q, n) => Behind(t, n)
         /\ q[1].kind # "rollback" /\ AheadOf(q, 2, rows) => AheadOf(t, 1, rows)
         /\ q[1].kind # "rollback" /\ RowsBehind(q, rows, n) => RowsBehind(t, rows, n)
         /\ (q[1].kind = "rollback" /\ Grows(q) /\ Behind(q, n)
                /\ \A i \in 1 .. Len(rows) : rows[i].slot \in Nat /\ rows[i].slot <= Slot(q, 1))
            => AheadOf(t, 1, rows) /\ RowsBehind(t, rows, n)
<1>1. /\ Len(q) \in Nat /\ Len(q) >= 1 /\ Len(t) = Len(q) - 1
      /\ \A i \in 1 .. Len(q) - 1 : t[i] = q[i + 1]
  BY HeadTail
<1>2. ASSUME NEW i \in 1 .. Len(t)
      PROVE  i \in Int /\ i + 1 \in 1 .. Len(q) /\ i + 1 \in 2 .. Len(q) /\ t[i] = q[i + 1]
  BY <1>1
<1>3. \A i \in 1 .. Len(t) : /\ OracleAt(t, i) <=> OracleAt(q, i + 1)
                             /\ Marks(t, i) <=> Marks(q, i + 1)
                             /\ Slot(t, i) = Slot(q, i + 1)
  BY <1>2 DEF OracleAt, Marks, Slot
<1>4. ASSUME NEW i \in Int, i >= 1, NEW j \in Int, j <= Len(t), NoRollback(t, i, j)
      PROVE  NoRollback(q, i + 1, j + 1)
  <2> SUFFICES ASSUME NEW k \in i + 1 .. j + 1 PROVE q[k].kind # "rollback"
    BY DEF NoRollback
  <2>1. k - 1 \in i .. j /\ k - 1 \in 1 .. Len(q) - 1 /\ (k - 1) + 1 = k
    BY <1>1, <1>4
  <2>2. t[k - 1] = q[k]
    BY <1>1, <2>1
  <2> QED
    BY <1>4, <2>1, <2>2 DEF NoRollback
<1>5. q[1].kind # "rollback" => \A j \in Int : NoRollback(q, 2, j) => NoRollback(q, 1, j)
  <2>1. \A j \in Int : \A k \in 1 .. j : k = 1 \/ k \in 2 .. j
    OBVIOUS
  <2> QED
    BY <2>1 DEF NoRollback
<1>6. ASSUME Grows(q) PROVE Grows(t)
  <2> SUFFICES ASSUME NEW i \in 1 .. Len(t), NEW j \in 1 .. Len(t), i < j, Marks(t, i),
                      OracleAt(t, j), NoRollback(t, i + 1, j - 1)
               PROVE  Slot(t, i) < Slot(t, j)
    BY DEF Grows
  <2>1. i \in Int /\ j \in Int /\ i + 1 \in 1 .. Len(q) /\ j + 1 \in 1 .. Len(q)
    BY <1>2
  <2>2. i + 1 \in Int /\ i + 1 >= 1 /\ j - 1 \in Int /\ j - 1 <= Len(t) /\ (j - 1) + 1 = (j + 1) - 1
          /\ i + 1 < j + 1
    BY <1>1, <2>1
  <2>3. NoRollback(q, (i + 1) + 1, (j + 1) - 1)
    BY <1>4, <2>2
  <2> QED
    BY <1>3, <1>6, <2>1, <2>2, <2>3 DEF Grows
<1>7. ASSUME Behind(q, n) PROVE Behind(t, n)
  <2> SUFFICES ASSUME NEW i \in 1 .. Len(t), Marks(t, i), NoRollback(t, i + 1, Len(t))
               PROVE  Slot(t, i) <= n
    BY DEF Behind
  <2>1. i \in Int /\ i + 1 \in 1 .. Len(q)
    BY <1>2
  <2>2. i + 1 \in Int /\ i + 1 >= 1 /\ Len(t) \in Int /\ Len(t) <= Len(t) /\ Len(t) + 1 = Len(q)
    BY <1>1, <2>1
  <2>3. NoRollback(q, (i + 1) + 1, Len(q))
    BY <1>4, <2>2
  <2> QED
    BY <1>3, <1>7, <2>1, <2>3 DEF Behind
<1>8. ASSUME NEW j \in 1 .. Len(t), NoRollback(t, 1, j - 1)
      PROVE  NoRollback(q, 2, (j + 1) - 1) /\ j + 1 \in 2 .. Len(q) /\ 1 < j + 1
  <2>1. j \in Int /\ j + 1 \in 2 .. Len(q)
    BY <1>2
  <2>2. j - 1 \in Int /\ j - 1 <= Len(t) /\ (j - 1) + 1 = (j + 1) - 1 /\ 1 < j + 1 /\ 1 + 1 = 2
    BY <1>1, <2>1
  <2> QED
    BY <1>4, <1>8, <2>1, <2>2
<1>9. NoRollback(t, 1, Len(t)) => NoRollback(q, 2, Len(q))
  <2>1. Len(t) \in Int /\ Len(t) <= Len(t) /\ Len(t) + 1 = Len(q) /\ 1 + 1 = 2
    BY <1>1
  <2> QED
    BY <1>4, <2>1
<1>10. ASSUME q[1].kind # "rollback", AheadOf(q, 2, rows) PROVE AheadOf(t, 1, rows)
  <2> SUFFICES ASSUME NEW j \in 1 .. Len(t), OracleAt(t, j), NoRollback(t, 1, j - 1)
               PROVE  \A i \in 1 .. Len(rows) : rows[i].slot < Slot(t, j)
    BY DEF AheadOf
  <2>1. j + 1 \in 2 .. Len(q) /\ (j + 1) - 1 \in Int /\ NoRollback(q, 2, (j + 1) - 1)
    BY <1>2, <1>8
  <2>2. NoRollback(q, 1, (j + 1) - 1)
    BY <1>5, <1>10, <2>1
  <2> QED
    BY <1>3, <1>10, <2>1, <2>2 DEF AheadOf
<1>11. ASSUME q[1].kind # "rollback", RowsBehind(q, rows, n) PROVE RowsBehind(t, rows, n)
  <2>1. Len(q) \in Int
    BY <1>1
  <2> QED
    BY <1>5, <1>9, <1>11, <2>1 DEF RowsBehind
<1>12. ASSUME q[1].kind = "rollback", Grows(q), Behind(q, n),
              \A i \in 1 .. Len(rows) : rows[i].slot \in Nat /\ rows[i].slot <= Slot(q, 1)
       PROVE  AheadOf(t, 1, rows) /\ RowsBehind(t, rows, n)
  <2>1. 1 \in 1 .. Len(q) /\ Slot(q, 1) \in Nat /\ Marks(q, 1)
    BY <1>1, <1>12, SlotType DEF Marks
  <2>2. AheadOf(t, 1, rows)
    <3> SUFFICES ASSUME NEW j \in 1 .. Len(t), OracleAt(t, j), NoRollback(t, 1, j - 1),
                        NEW i \in 1 .. Len(rows)
                 PROVE  rows[i].slot < Slot(t, j)
      BY DEF AheadOf
    <3>1. j + 1 \in 1 .. Len(q) /\ 1 < j + 1 /\ OracleAt(q, j + 1) /\ Slot(t, j) = Slot(q, j + 1)
      BY <1>2, <1>3, <1>8
    <3>2. NoRollback(q, 1 + 1, (j + 1) - 1)
      BY <1>8
    <3>3. Slot(q, 1) < Slot(q, j + 1)
      BY <1>12, <2>1, <3>1, <3>2 DEF Grows
    <3>4. Slot(q, j + 1) \in Nat
      BY <3>1, SlotType
    <3>5. rows[i].slot \in Nat /\ rows[i].slot <= Slot(q, 1)
      BY <1>12
    <3> QED
      BY <2>1, <3>1, <3>3, <3>4, <3>5
  <2>3. RowsBehind(t, rows, n)
    <3> SUFFICES ASSUME NoRollback(t, 1, Len(t)), NEW i \in 1 .. Len(rows)
                 PROVE  rows[i].slot <= n
      BY DEF RowsBehind
    <3>1. Slot(q, 1) <= n
      BY <1>9, <1>12, <2>1 DEF Behind
    <3>2. rows[i].slot \in Nat /\ rows[i].slot <= Slot(q, 1)
      BY <1>12
    <3> QED
      BY <2>1, <3>1, <3>2
  <2> QED
    BY <2>2, <2>3
<1> QED
  BY <1>6, <1>7, <1>10, <1>11, <1>12

\* The oracle transaction at the head becomes the last row.
LEMMA ApplyOrder ==
  ASSUME NEW q \in Seq(Event), q # <<>>, OracleAt(q, 1), NEW n \in Nat,
         NEW rows \in Seq(Row), NEW row \in Row, row.slot = Slot(q, 1),
         NEW new, new = Append(rows, row),
         Grows(q), Behind(q, n), AheadOf(q, 1, rows), RowsBehind(q, rows, n),
         SlotsSorted(rows)
  PROVE  AheadOf(q, 2, new) /\ RowsBehind(q, new, n) /\ SlotsSorted(new)
<1>1. Len(q) \in Nat /\ Len(q) >= 1 /\ 1 \in 1 .. Len(q)
  BY HeadTail
<1>2. /\ Len(rows) \in Nat /\ Len(new) = Len(rows) + 1 /\ new[Len(rows) + 1] = row
      /\ \A i \in 1 .. Len(rows) : new[i] = rows[i]
  BY AppendProperties
<1>3. \A i \in 1 .. Len(new) : i \in 1 .. Len(rows) \/ new[i] = row
  BY <1>2
<1>4. Slot(q, 1) \in Nat /\ Marks(q, 1)
  BY <1>1, SlotType DEF Marks
<1>5. ASSUME NEW j \in 2 .. Len(q), OracleAt(q, j), NoRollback(q, 1, j - 1)
      PROVE  \A i \in 1 .. Len(new) : new[i].slot < Slot(q, j)
  <2>1. j \in 1 .. Len(q) /\ 1 < j
    BY <1>1
  <2>2. NoRollback(q, 1 + 1, j - 1)
    <3>1. \A k \in 1 + 1 .. j - 1 : k \in 1 .. j - 1
      OBVIOUS
    <3> QED
      BY <1>5, <3>1 DEF NoRollback
  <2>3. Slot(q, 1) < Slot(q, j)
    BY <1>1, <1>4, <1>5, <2>1, <2>2 DEF Grows
  <2>4. \A i \in 1 .. Len(rows) : rows[i].slot < Slot(q, j)
    BY <1>5, <2>1 DEF AheadOf
  <2> QED
    BY <1>2, <1>3, <2>3, <2>4
<1>6. ASSUME NoRollback(q, 1, Len(q)), NEW i \in 1 .. Len(new)
      PROVE  new[i].slot <= n
  <2>1. NoRollback(q, 1 + 1, Len(q))
    <3>1. \A k \in 1 + 1 .. Len(q) : k \in 1 .. Len(q)
      OBVIOUS
    <3> QED
      BY <1>6, <3>1 DEF NoRollback
  <2>2. Slot(q, 1) <= n
    BY <1>1, <1>4, <2>1 DEF Behind
  <2>3. i \in 1 .. Len(rows) => rows[i].slot <= n
    BY <1>6 DEF RowsBehind
  <2> QED
    BY <1>2, <1>3, <1>6, <2>2, <2>3
<1>7. SlotsSorted(new)
  <2> SUFFICES ASSUME NEW i \in 1 .. Len(new), NEW j \in 1 .. Len(new), i < j
               PROVE  new[i].slot < new[j].slot
    BY DEF SlotsSorted
  <2>1. i \in 1 .. Len(rows) /\ (j \in 1 .. Len(rows) \/ j = Len(rows) + 1)
    BY <1>2
  <2>2. CASE j \in 1 .. Len(rows)
    BY <1>2, <2>1, <2>2 DEF SlotsSorted
  <2>3. CASE j = Len(rows) + 1
    <3>1. NoRollback(q, 1, 1 - 1)
      BY DEF NoRollback
    <3>2. rows[i].slot < Slot(q, 1)
      BY <1>1, <2>1, <3>1 DEF AheadOf
    <3> QED
      BY <1>2, <2>1, <2>3, <3>2
  <2> QED
    BY <2>1, <2>2, <2>3
<1> QED
  BY <1>5, <1>6, <1>7 DEF AheadOf, RowsBehind

\* The queue new keeps the order that q had, and streams on from slot m.
KeepsOrder(q, new, f, rows, m) ==
    /\ Grows(q) => Grows(new)
    /\ Behind(new, m)
    /\ AheadOf(q, f, rows) => AheadOf(new, f, rows)
    /\ RowsBehind(new, rows, m)

\* A rollback to slot m is added.
LEMMA AddRollbackOrder ==
  ASSUME NEW q \in Seq(Event), NEW e \in Event, e.kind = "rollback",
         NEW new, new = Append(q, e), NEW f \in 1 .. 2, NEW rows, NEW m \in Nat, e.at[1] = m
  PROVE  KeepsOrder(q, new, f, rows, m)
<1>1. /\ Len(q) \in Nat /\ Len(new) = Len(q) + 1 /\ new[Len(q) + 1] = e
      /\ \A i \in 1 .. Len(q) : new[i] = q[i]
  BY AppendProperties
<1>2. \A i \in 1 .. Len(q) : /\ OracleAt(new, i) <=> OracleAt(q, i)
                             /\ Marks(new, i) <=> Marks(q, i)
                             /\ Slot(new, i) = Slot(q, i)
  BY <1>1 DEF OracleAt, Marks, Slot
<1>3. \A i \in 1 .. Len(new) : OracleAt(new, i) => i \in 1 .. Len(q)
  BY <1>1 DEF OracleAt
<1>4. ASSUME NEW i \in Int, i >= 1, NEW j \in Int, j <= Len(q), NoRollback(new, i, j)
      PROVE  NoRollback(q, i, j)
  <2>1. \A k \in i .. j : k \in 1 .. Len(q)
    BY <1>1, <1>4
  <2> QED
    BY <1>1, <1>4, <2>1 DEF NoRollback
<1>5. ASSUME Grows(q) PROVE Grows(new)
  <2> SUFFICES ASSUME NEW i \in 1 .. Len(new), NEW j \in 1 .. Len(new), i < j, Marks(new, i),
                      OracleAt(new, j), NoRollback(new, i + 1, j - 1)
               PROVE  Slot(new, i) < Slot(new, j)
    BY DEF Grows
  <2>1. j \in 1 .. Len(q)
    BY <1>3
  <2>2. i \in 1 .. Len(q) /\ i + 1 \in Int /\ i + 1 >= 1 /\ j - 1 \in Int /\ j - 1 <= Len(q)
    BY <1>1, <2>1
  <2>3. NoRollback(q, i + 1, j - 1)
    BY <1>4, <2>2
  <2> QED
    BY <1>2, <1>5, <2>1, <2>2, <2>3 DEF Grows
<1>6. Len(new) \in 1 .. Len(new) /\ new[Len(new)] = e
  BY <1>1
<1>7. Behind(new, m)
  <2> SUFFICES ASSUME NEW i \in 1 .. Len(new), NoRollback(new, i + 1, Len(new))
               PROVE  Slot(new, i) <= m
    BY DEF Behind
  <2>1. i = Len(new) \/ Len(new) \in i + 1 .. Len(new)
    BY <1>1
  <2>2. i = Len(new)
    BY <1>6, <2>1 DEF NoRollback
  <2> QED
    BY <1>6, <2>2 DEF Slot
<1>8. RowsBehind(new, rows, m)
  BY <1>6 DEF RowsBehind, NoRollback
<1>9. ASSUME AheadOf(q, f, rows) PROVE AheadOf(new, f, rows)
  <2> SUFFICES ASSUME NEW j \in f .. Len(new), OracleAt(new, j), NoRollback(new, 1, j - 1)
               PROVE  \A i \in 1 .. Len(rows) : rows[i].slot < Slot(new, j)
    BY DEF AheadOf
  <2>1. j \in 1 .. Len(new)
    BY <1>1
  <2>2. j \in 1 .. Len(q) /\ j \in f .. Len(q) /\ j - 1 \in Int /\ j - 1 <= Len(q) /\ 1 >= 1
    BY <1>1, <1>3, <2>1
  <2>3. NoRollback(q, 1, j - 1)
    BY <1>4, <2>2
  <2> QED
    BY <1>2, <1>9, <2>2, <2>3 DEF AheadOf
<1> QED
  BY <1>5, <1>7, <1>8, <1>9 DEF KeepsOrder

\* The events of a block at slot n + 1 are added.
LEMMA AddBlockOrder ==
  ASSUME NEW q \in Seq(Event), NEW new \in Seq(Event), NEW n \in Nat,
         Len(new) > Len(q), \A i \in 1 .. Len(q) : new[i] = q[i],
         \A i \in Len(q) + 1 .. Len(new) :
             /\ NewEvent(new[i], n + 1)
             /\ i < Len(new) /\ new[i].kind = "tx" => new[i].tx = 0,
         NEW f \in 1 .. 2, NEW rows \in Seq(Row), Behind(q, n)
  PROVE  /\ Grows(q) => Grows(new)
         /\ Behind(new, n + 1)
         /\ AheadOf(q, f, rows) /\ RowsBehind(q, rows, n)
               => AheadOf(new, f, rows) /\ RowsBehind(new, rows, n + 1)
<1>1. Len(q) \in Nat /\ Len(new) \in Nat
  OBVIOUS
<1>2. \A i \in 1 .. Len(q) : /\ OracleAt(new, i) <=> OracleAt(q, i)
                             /\ Marks(new, i) <=> Marks(q, i)
                             /\ Slot(new, i) = Slot(q, i)
  BY DEF OracleAt, Marks, Slot
<1>3. \A i \in Len(q) + 1 .. Len(new) :
          /\ new[i].kind # "rollback" /\ Slot(new, i) = n + 1
          /\ Marks(new, i) => i = Len(new)
  BY <1>1 DEF NewEvent, Slot, Marks, OracleAt
<1>4. ASSUME NEW i \in Int, i >= 1, NEW j \in Int, NEW l \in Int, l <= j, l <= Len(q),
             NoRollback(new, i, j)
      PROVE  NoRollback(q, i, l)
  <2>1. \A k \in i .. l : k \in 1 .. Len(q) /\ k \in i .. j
    BY <1>1, <1>4
  <2> QED
    BY <1>4, <2>1 DEF NoRollback
<1>5. ASSUME NEW i \in 1 .. Len(q), Marks(new, i), NEW j \in Int, j >= Len(q),
             NoRollback(new, i + 1, j)
      PROVE  Slot(new, i) \in Nat /\ Slot(new, i) <= n
  <2>1. NoRollback(q, i + 1, Len(q))
    <3>1. i + 1 \in Int /\ i + 1 >= 1 /\ Len(q) \in Int /\ Len(q) <= Len(q) /\ Len(q) <= j
      BY <1>1, <1>5
    <3> QED
      BY <1>4, <1>5, <3>1
  <2>2. Slot(q, i) <= n
    BY <1>2, <1>5, <2>1 DEF Behind
  <2> QED
    BY <1>2, <2>2, SlotType
<1>6. \A i \in 1 .. Len(new) : i \in 1 .. Len(q) \/ i \in Len(q) + 1 .. Len(new)
  BY <1>1
<1>7. ASSUME Grows(q) PROVE Grows(new)
  <2> SUFFICES ASSUME NEW i \in 1 .. Len(new), NEW j \in 1 .. Len(new), i < j, Marks(new, i),
                      OracleAt(new, j), NoRollback(new, i + 1, j - 1)
               PROVE  Slot(new, i) < Slot(new, j)
    BY DEF Grows
  <2>1. CASE j \in 1 .. Len(q)
    <3>1. i \in 1 .. Len(q) /\ i + 1 \in Int /\ i + 1 >= 1 /\ j - 1 \in Int /\ j - 1 <= Len(q)
            /\ j - 1 <= j - 1
      BY <1>1, <2>1
    <3>2. NoRollback(q, i + 1, j - 1)
      BY <1>4, <3>1
    <3> QED
      BY <1>2, <1>7, <2>1, <3>1, <3>2 DEF Grows
  <2>2. CASE j \in Len(q) + 1 .. Len(new)
    <3>1. i # Len(new)
      BY <1>1
    <3>2. i \in 1 .. Len(q)
      BY <1>3, <1>6, <3>1
    <3>3. j - 1 \in Int /\ j - 1 >= Len(q)
      BY <1>1, <2>2
    <3>4. Slot(new, i) \in Nat /\ Slot(new, i) <= n
      BY <1>5, <3>2, <3>3
    <3>5. Slot(new, j) = n + 1
      BY <1>3, <2>2
    <3> QED
      BY <3>4, <3>5
  <2> QED
    BY <1>6, <2>1, <2>2
<1>8. Behind(new, n + 1)
  <2> SUFFICES ASSUME NEW i \in 1 .. Len(new), Marks(new, i), NoRollback(new, i + 1, Len(new))
               PROVE  Slot(new, i) <= n + 1
    BY DEF Behind
  <2>1. CASE i \in 1 .. Len(q)
    <3>1. Len(new) \in Int /\ Len(new) >= Len(q)
      BY <1>1
    <3>2. Slot(new, i) \in Nat /\ Slot(new, i) <= n
      BY <1>5, <2>1, <3>1
    <3> QED
      BY <3>2
  <2>2. CASE i \in Len(q) + 1 .. Len(new)
    <3>1. Slot(new, i) = n + 1
      BY <1>3, <2>2
    <3> QED
      BY <3>1
  <2> QED
    BY <1>6, <2>1, <2>2
<1>9. \A i \in 1 .. Len(rows) : rows[i].slot \in Nat
  <2>1. \A i \in 1 .. Len(rows) : rows[i] \in Row
    BY ElementOfSeq
  <2>2. Heights \subseteq Nat
    BY StreamBounds DEF Heights
  <2> QED
    BY <2>1, <2>2 DEF Row
<1>10. ASSUME NEW j \in Int, j >= Len(q), NoRollback(new, 1, j), RowsBehind(q, rows, n),
              NEW i \in 1 .. Len(rows)
       PROVE  rows[i].slot \in Nat /\ rows[i].slot <= n
  <2>1. 1 \in Int /\ 1 >= 1 /\ Len(q) \in Int /\ Len(q) <= Len(q) /\ Len(q) <= j
    BY <1>1, <1>10
  <2>2. NoRollback(q, 1, Len(q))
    BY <1>4, <1>10, <2>1
  <2> QED
    BY <1>9, <1>10, <2>2 DEF RowsBehind
<1>11. ASSUME AheadOf(q, f, rows), RowsBehind(q, rows, n)
       PROVE  AheadOf(new, f, rows) /\ RowsBehind(new, rows, n + 1)
  <2>1. ASSUME NEW j \in f .. Len(new), OracleAt(new, j), NoRollback(new, 1, j - 1),
               NEW i \in 1 .. Len(rows)
        PROVE  rows[i].slot < Slot(new, j)
    <3>1. CASE j \in Len(q) + 1 .. Len(new)
      <4>1. j - 1 \in Int /\ j - 1 >= Len(q)
        BY <1>1, <3>1
      <4>2. rows[i].slot \in Nat /\ rows[i].slot <= n
        BY <1>10, <1>11, <2>1, <4>1
      <4>3. Slot(new, j) = n + 1
        BY <1>3, <3>1
      <4> QED
        BY <4>2, <4>3
    <3>2. CASE j \in 1 .. Len(q)
      <4>1. j \in f .. Len(q) /\ j - 1 \in Int /\ j - 1 <= Len(q) /\ j - 1 <= j - 1
              /\ 1 \in Int /\ 1 >= 1
        BY <1>1, <3>2
      <4>2. NoRollback(q, 1, j - 1)
        BY <1>4, <2>1, <4>1
      <4> QED
        BY <1>2, <1>11, <2>1, <3>2, <4>1, <4>2 DEF AheadOf
    <3>3. j \in 1 .. Len(new)
      BY <1>1
    <3> QED
      BY <1>6, <3>1, <3>2, <3>3
  <2>2. ASSUME NoRollback(new, 1, Len(new)), NEW i \in 1 .. Len(rows)
        PROVE  rows[i].slot <= n + 1
    <3>1. Len(new) \in Int /\ Len(new) >= Len(q)
      BY <1>1
    <3>2. rows[i].slot \in Nat /\ rows[i].slot <= n
      BY <1>10, <1>11, <2>2, <3>1
    <3> QED
      BY <3>2
  <2> QED
    BY <2>1, <2>2 DEF AheadOf, RowsBehind
<1> QED
  BY <1>7, <1>8, <1>11

-----------------------------------------------------------------------------
(* What becomes of the tables: rows are cut off at the end, or one is      *)
(* added.                                                                  *)

CutOf(new, old) ==
    /\ Len(new) <= Len(old)
    /\ \A i \in 1 .. Len(new) : new[i] = old[i]

LEMMA RowSlot ==
  ASSUME NEW rows \in Seq(Row), NEW i \in 1 .. Len(rows)
  PROVE  rows[i] \in Row /\ rows[i].slot \in Nat
<1>1. rows[i] \in Row
  BY ElementOfSeq
<1>2. Heights \subseteq Nat
  BY StreamBounds DEF Heights
<1> QED
  BY <1>1, <1>2 DEF Row

\* Sorted rows are cut where their slots pass the one given.
LEMMA RowsUpToCuts ==
  ASSUME applied \in Seq(Row), SlotsSorted(applied), NEW slot \in Nat
  PROVE  /\ CutOf(RowsUpTo(slot), applied)
         /\ \A i \in 1 .. Len(RowsUpTo(slot)) :
               RowsUpTo(slot)[i].slot \in Nat /\ RowsUpTo(slot)[i].slot <= slot
<1> DEFINE S == {r \in Row : r.slot <= slot}
           T == {i \in 0 .. Len(applied) : i = 0 \/ applied[i] \in S}
<1>1. Len(applied) \in Nat
  OBVIOUS
<1>2. 0 \in T /\ T \subseteq Nat /\ \A i \in T : i <= Len(applied)
  BY <1>1
<1>3. PICK d \in T : \A i \in T : i <= d
  <2> HIDE DEF T
  <2> QED
    BY <1>1, <1>2, GreatestNat
<1>4. d \in 0 .. Len(applied) /\ d \in Nat
  BY <1>2, <1>3
<1>5. ASSUME NEW i \in 1 .. d PROVE applied[i] \in S
  <2>1. i \in 1 .. Len(applied) /\ d \in 1 .. Len(applied) /\ d # 0
    BY <1>4
  <2>2. applied[d] \in S
    BY <1>3, <2>1
  <2>3. applied[i] \in Row /\ applied[i].slot \in Nat /\ applied[d].slot \in Nat
    BY <2>1, RowSlot
  <2>4. i = d \/ i < d
    BY <1>4
  <2>5. i < d => applied[i].slot < applied[d].slot
    BY <2>1 DEF SlotsSorted
  <2>6. applied[d].slot <= slot
    BY <2>2
  <2>7. applied[i].slot <= slot
    BY <2>3, <2>4, <2>5, <2>6
  <2> QED
    BY <2>3, <2>7
<1>6. ASSUME NEW i \in d + 1 .. Len(applied) PROVE applied[i] \notin S
  <2>1. i \in 0 .. Len(applied) /\ ~(i <= d)
    BY <1>1, <1>4
  <2>2. i \notin T
    BY <1>3, <2>1
  <2> QED
    BY <2>1, <2>2
<1>7. RowsUpTo(slot) = SubSeq(applied, 1, d)
  <2> HIDE DEF S
  <2>1. Only(applied, S) = SubSeq(applied, 1, d)
    BY <1>4, <1>5, <1>6, OnlyPrefix
  <2> QED
    BY <2>1 DEF RowsUpTo, S
<1>8. /\ Len(SubSeq(applied, 1, d)) = d
      /\ \A i \in 1 .. d : SubSeq(applied, 1, d)[i] = applied[i]
  BY <1>1, <1>4
<1>9. \A i \in 1 .. d : applied[i].slot \in Nat /\ applied[i].slot <= slot
  <2>1. \A i \in 1 .. d : i \in 1 .. Len(applied)
    BY <1>1, <1>4
  <2> QED
    BY <1>5, <2>1, RowSlot
<1> HIDE DEF S, T
<1>10. d <= Len(applied)
  BY <1>1, <1>4
<1> QED
  BY <1>7, <1>8, <1>9, <1>10 DEF CutOf

LEMMA CutKeepsOrder ==
  ASSUME NEW old \in Seq(Row), NEW new \in Seq(Row), CutOf(new, old)
  PROVE  /\ SlotsSorted(old) => SlotsSorted(new)
         /\ BuiltOnRows(old) => BuiltOnRows(new)
         /\ \A q, f : AheadOf(q, f, old) => AheadOf(q, f, new)
         /\ \A q, n : RowsBehind(q, old, n) => RowsBehind(q, new, n)
<1>1. Len(old) \in Nat /\ Len(new) \in Nat
  OBVIOUS
<1>2. \A i \in 1 .. Len(new) : i \in 1 .. Len(old) /\ new[i] = old[i]
  BY <1>1 DEF CutOf
<1>3. SlotsSorted(old) => SlotsSorted(new)
  BY <1>2 DEF SlotsSorted
<1>4. ASSUME BuiltOnRows(old) PROVE BuiltOnRows(new)
  <2> SUFFICES ASSUME NEW i \in 1 .. Len(new), minted[new[i].tx].spends # 0
               PROVE  \E j \in 1 .. i - 1 : new[j].tx = minted[new[i].tx].spends
    BY DEF BuiltOnRows
  <2>1. PICK j \in 1 .. i - 1 : old[j].tx = minted[old[i].tx].spends
    BY <1>2, <1>4 DEF BuiltOnRows
  <2>2. j \in 1 .. Len(new)
    BY <1>1
  <2> QED
    BY <1>2, <2>1, <2>2
<1>5. \A q, f : AheadOf(q, f, old) => AheadOf(q, f, new)
  BY <1>2 DEF AheadOf
<1>6. \A q, n : RowsBehind(q, old, n) => RowsBehind(q, new, n)
  BY <1>2 DEF RowsBehind
<1> QED
  BY <1>3, <1>4, <1>5, <1>6

\* Transactions that are minted later change nothing of the recorded ones.
LEMMA MintingKeepsOrder ==
  ASSUME CepInv, MintedKept, NEW rows \in Seq(KnownRow), BuiltOnRows(rows)
  PROVE  BuiltOnRows(rows)'
<1>1. \A t \in 1 .. Len(minted) : minted'[t] = minted[t]
  BY KnownStaysKnown
<1>2. \A i \in 1 .. Len(rows) : rows[i].tx \in 1 .. Len(minted)
  <2>1. \A i \in 1 .. Len(rows) : rows[i] \in KnownRow
    BY ElementOfSeq
  <2>2. Len(minted) \in Nat /\ MaxTxs \in Nat
    BY StreamBounds DEF CepInv, TypeOK, StreamTypeOK
  <2> QED
    BY <2>1, <2>2 DEF KnownRow, Row, TxIds
<1>3. \A i \in 1 .. Len(rows) : minted'[rows[i].tx] = minted[rows[i].tx]
  BY <1>1, <1>2
<1> QED
  BY <1>3 DEF BuiltOnRows

LEMMA FirstType == First \in 1 .. 2
BY DEF First

\* From one place on, or from the next.
LEMMA AheadLater ==
  ASSUME NEW q, Len(q) \in Nat, NEW rows, NEW f \in 1 .. 2, NEW g \in 1 .. 2, f <= g,
         AheadOf(q, f, rows)
  PROVE  AheadOf(q, g, rows)
<1>1. \A j \in g .. Len(q) : j \in f .. Len(q)
  OBVIOUS
<1> QED
  BY <1>1 DEF AheadOf

\* A step that records nothing new, and leaves the head of the queue or
\* ends its handler.
LEMMA KeepOrder ==
  ASSUME CepInv, CepInv', OrderInv, UNCHANGED view, MintedKept, CutOf(applied', applied),
         failed => failed',
         \/ Done /\ mailbox # <<>> /\ (failed' \/ event.kind # "rollback")
         \/ UNCHANGED mailbox /\ First <= First'
  PROVE  OrderInv'
<1> DEFINE n == Len(view)
<1>1. /\ mailbox \in Seq(Event) /\ Len(mailbox) \in Nat /\ applied \in Seq(Row) /\ n \in Nat
      /\ applied \in Seq(KnownRow)
  <2>1. mailbox \in Seq(Event) /\ view \in Seq(Block) /\ applied \in Seq(Row)
          /\ applied \in Seq(KnownRow)
    BY DEF CepInv, TypeOK, StreamTypeOK
  <2> QED
    BY <2>1, LenProperties
<1>2. applied' \in Seq(Row) /\ applied' \in Seq(KnownRow')
  BY DEF CepInv, TypeOK
<1>3. PICK new : new = applied'
  OBVIOUS
<1>4. new \in Seq(Row) /\ CutOf(new, applied)
  BY <1>2, <1>3
<1>5. PICK old : old = applied
  OBVIOUS
<1>6. old \in Seq(Row) /\ old \in Seq(KnownRow) /\ CutOf(new, old)
        /\ SlotsSorted(old) /\ BuiltOnRows(old)
  BY <1>1, <1>4, <1>5 DEF OrderInv
<1>7. SlotsSorted(new) /\ BuiltOnRows(new)
  BY <1>4, <1>6, CutKeepsOrder
<1>8. SlotsSorted(applied')
  BY <1>3, <1>7
<1>9. BuiltOnRows(applied)'
  <2>1. new \in Seq(KnownRow)
    <3>1. \A i \in 1 .. Len(new) : new[i] \in KnownRow
      <4>1. \A i \in 1 .. Len(new) : i \in 1 .. Len(old) /\ new[i] = old[i]
        BY <1>4, <1>6 DEF CutOf
      <4> QED
        BY <1>6, <4>1, ElementOfSeq
    <3> QED
      BY <1>4, <3>1
  <2>2. BuiltOnRows(new)'
    BY <1>7, <2>1, MintingKeepsOrder
  <2> QED
    BY <1>3, <2>2 DEF BuiltOnRows
<1>10. Grows(mailbox) /\ Behind(mailbox, n)
  BY DEF OrderInv
<1>11. ~failed' => AheadOf(mailbox, First, new) /\ RowsBehind(mailbox, new, n)
  <2> SUFFICES ASSUME ~failed' PROVE AheadOf(mailbox, First, new) /\ RowsBehind(mailbox, new, n)
    OBVIOUS
  <2>1. AheadOf(mailbox, First, old) /\ RowsBehind(mailbox, old, n)
    BY <1>5 DEF OrderInv
  <2> QED
    BY <1>4, <1>6, <2>1, CutKeepsOrder, Zenon
<1>12. n' = n
  OBVIOUS
<1> HIDE DEF n
<1>13. CASE Done /\ mailbox # <<>> /\ (failed' \/ event.kind # "rollback")
  <2>1. mailbox' = Tail(mailbox) /\ pc' = "ready" /\ event = mailbox[1]
    BY <1>1, <1>13, HeadTail DEF Done, event
  <2>2. Grows(mailbox') /\ Behind(mailbox', n)
    BY <1>1, <1>10, <1>13, <2>1, TailOrder
  <2>3. ASSUME ~failed' PROVE AheadOf(mailbox', 1, new) /\ RowsBehind(mailbox', new, n)
    <3>1. AheadOf(mailbox, 2, new)
      <4>1. First <= 2 /\ First \in 1 .. 2 /\ 2 \in 1 .. 2
        BY FirstType
      <4> QED
        BY <1>1, <1>11, <2>3, <4>1, AheadLater
    <3>2. mailbox[1].kind # "rollback"
      BY <1>13, <2>1, <2>3
    <3>3. RowsBehind(mailbox, new, n)
      BY <1>11, <2>3
    <3> QED
      BY <1>1, <1>13, <2>1, <3>1, <3>2, <3>3, TailOrder
  <2>4. First' = 1
    BY <2>1 DEF First
  <2> QED
    BY <1>3, <1>8, <1>9, <1>12, <2>2, <2>3, <2>4 DEF OrderInv, n
<1>14. CASE UNCHANGED mailbox /\ First <= First'
  <2>1. First \in 1 .. 2 /\ First' \in 1 .. 2
    BY FirstType DEF First
  <2>2. ~failed' => AheadOf(mailbox, First', new) /\ RowsBehind(mailbox, new, n)
    BY <1>1, <1>11, <1>14, <2>1, AheadLater
  <2> QED
    BY <1>3, <1>8, <1>9, <1>10, <1>12, <1>14, <2>2 DEF OrderInv, n
<1> QED
  BY <1>13, <1>14

\* The handlers.  Only one records a row: it is later than every other, and
\* the one it builds on is recorded.
LEMMA ApplyTxOrder ==
  ASSUME CepInv, CepInv', OrderInv, ApplyTx
  PROVE  OrderInv'
<1>1. /\ pc = "ready" /\ ~failed /\ mailbox # <<>> /\ event.kind = "tx" /\ event.tx # 0
      /\ PreviousKnown(event.tx) /\ pc' = "applied"
      /\ UNCHANGED <<view, minted, mailbox, failed>>
  BY DEF ApplyTx, ReceiveTx, Handles, world, streamVars, actorVars
<1>2. First = 1 /\ First' = 2
  BY <1>1 DEF First
<1>3. applied \in Seq(Row) /\ applied \in Seq(KnownRow) /\ mailbox \in Seq(Event)
        /\ view \in Seq(Block)
  BY DEF CepInv, TypeOK, StreamTypeOK
<1>4. CASE applied' = applied
  <2>1. CutOf(applied', applied)
    BY <1>3, <1>4 DEF CutOf
  <2> QED
    BY <1>1, <1>2, <2>1, KeepOrder DEF MintedKept
<1>5. CASE applied' = Append(applied, [tx |-> event.tx, slot |-> event.at[1]])
  <2> DEFINE n == Len(view)
             row == [tx |-> event.tx, slot |-> event.at[1]]
  <2>1. n \in Nat /\ Len(mailbox) \in Nat
    BY <1>3, LenProperties
  <2>2. event = mailbox[1] /\ event.tx \in 0 .. MaxTxs /\ event.at[1] \in Heights
    BY <1>1, EventType
  <2>3. row \in Row /\ row.slot = Slot(mailbox, 1) /\ OracleAt(mailbox, 1)
    <3>1. event.tx \in TxIds
      BY <1>1, <2>2, StreamBounds DEF TxIds
    <3> QED
      BY <1>1, <2>2, <3>1 DEF Row, Slot, OracleAt
  <2>4. /\ Grows(mailbox) /\ Behind(mailbox, n) /\ AheadOf(mailbox, 1, applied)
        /\ RowsBehind(mailbox, applied, n) /\ SlotsSorted(applied) /\ BuiltOnRows(applied)
    BY <1>1, <1>2 DEF OrderInv
  <2>5. applied' = Append(applied, row) /\ row.tx = event.tx
    BY <1>5
  <2> HIDE DEF n, row
  <2>6. AheadOf(mailbox, 2, applied') /\ RowsBehind(mailbox, applied', n) /\ SlotsSorted(applied')
    BY <1>1, <1>3, <2>1, <2>3, <2>4, <2>5, ApplyOrder
  <2>7. BuiltOnRows(applied)'
    <3>1. /\ Len(applied) \in Nat /\ Len(applied') = Len(applied) + 1
          /\ applied'[Len(applied) + 1] = row
          /\ \A i \in 1 .. Len(applied) : applied'[i] = applied[i]
      BY <1>3, <2>3, <2>5, AppendProperties
    <3> SUFFICES ASSUME NEW i \in 1 .. Len(applied'), minted[applied'[i].tx].spends # 0
                 PROVE  \E j \in 1 .. i - 1 : applied'[j].tx = minted[applied'[i].tx].spends
      BY <1>1 DEF BuiltOnRows
    <3>2. CASE i \in 1 .. Len(applied)
      <4>1. PICK j \in 1 .. i - 1 : applied[j].tx = minted[applied[i].tx].spends
        BY <2>4, <3>1, <3>2 DEF BuiltOnRows
      <4>2. j \in 1 .. Len(applied)
        BY <3>1, <3>2
      <4> QED
        BY <3>1, <3>2, <4>1, <4>2
    <3>3. CASE i = Len(applied) + 1
      <4>1. PICK j \in 1 .. Len(applied) : applied[j].tx = minted[event.tx].spends
        BY <1>1, <2>5, <3>1, <3>3 DEF PreviousKnown, IsApplied
      <4>2. j \in 1 .. i - 1
        BY <3>1, <3>3
      <4> QED
        BY <2>5, <3>1, <3>3, <4>1, <4>2
    <3>4. i \in 1 .. Len(applied) \/ i = Len(applied) + 1
      BY <3>1
    <3> QED
      BY <3>2, <3>3, <3>4
  <2> QED
    BY <1>1, <1>2, <2>4, <2>6, <2>7 DEF OrderInv, n
<1> QED
  BY <1>4, <1>5 DEF ApplyTx

LEMMA RollbackOrder ==
  ASSUME CepInv, CepInv', OrderInv, Rollback
  PROVE  OrderInv'
<1>1. /\ mailbox # <<>> /\ event.kind = "rollback" /\ mailbox' = Tail(mailbox) /\ pc' = "ready"
      /\ applied' = RowsUpTo(event.at[1]) /\ UNCHANGED <<view, minted, failed>>
  BY DEF Rollback, Done, CepInv, Handles, world, streamVars
<1>2. /\ applied \in Seq(Row) /\ mailbox \in Seq(Event) /\ view \in Seq(Block)
      /\ applied' \in Seq(Row)
  BY DEF CepInv, TypeOK, StreamTypeOK
<1> DEFINE n == Len(view)
<1>3. n \in Nat
  BY <1>2, LenProperties
<1>4. /\ Grows(mailbox) /\ Behind(mailbox, n) /\ SlotsSorted(applied) /\ BuiltOnRows(applied)
  BY DEF OrderInv
<1>5. event = mailbox[1] /\ event.at[1] \in Nat
  <2>1. event = mailbox[1] /\ event.at[1] \in 0 .. MaxHeight
    BY <1>1, EventType
  <2> QED
    BY <2>1, StreamBounds
<1>6. /\ CutOf(applied', applied)
      /\ \A i \in 1 .. Len(applied') : applied'[i].slot \in Nat /\ applied'[i].slot <= event.at[1]
  BY <1>1, <1>2, <1>4, <1>5, RowsUpToCuts
<1>7. PICK old : old = applied
  OBVIOUS
<1>8. PICK new : new = applied'
  OBVIOUS
<1>9. SlotsSorted(new) /\ BuiltOnRows(new)
  <2>1. old \in Seq(Row) /\ new \in Seq(Row) /\ CutOf(new, old) /\ SlotsSorted(old)
          /\ BuiltOnRows(old)
    BY <1>2, <1>4, <1>6, <1>7, <1>8
  <2> QED
    BY <2>1, CutKeepsOrder
<1>10. BuiltOnRows(applied)'
  BY <1>1, <1>8, <1>9 DEF BuiltOnRows
<1> HIDE DEF n
<1>11. Grows(mailbox') /\ Behind(mailbox', n)
  BY <1>1, <1>2, <1>3, <1>4, TailOrder
<1>12. AheadOf(mailbox', 1, new) /\ RowsBehind(mailbox', new, n)
  <2>1. mailbox[1].kind = "rollback"
          /\ \A i \in 1 .. Len(new) : new[i].slot \in Nat /\ new[i].slot <= Slot(mailbox, 1)
    BY <1>1, <1>5, <1>6, <1>8 DEF Slot
  <2> QED
    BY <1>1, <1>2, <1>3, <1>4, <2>1, TailOrder
<1>13. First' = 1
  BY <1>1 DEF First
<1> QED
  BY <1>1, <1>8, <1>9, <1>10, <1>11, <1>12, <1>13 DEF OrderInv, n

LEMMA HandlerOrder ==
  ASSUME CepInv, CepInv', OrderInv, Handler
  PROVE  OrderInv'
<1>1. mailbox # <<>> /\ UNCHANGED view
  BY HandlerHasEvent DEF world, streamVars
<1>2. applied \in Seq(Row) /\ SlotsSorted(applied) /\ Len(applied) \in Nat
  BY DEF CepInv, TypeOK, OrderInv
<1>3. CutOf(applied, applied)
  BY <1>2 DEF CutOf
<1>4. \A slot \in Nat : CutOf(RowsUpTo(slot), applied)
  BY <1>2, RowsUpToCuts
<1>5. First \in 1 .. 2 /\ (pc' \in {"applied", "building"} => First' = 2)
        /\ (pc' = "rollingBack" => First' = 1)
  BY DEF First
<1>6. pc \in {"applied", "building"} => event.kind # "rollback"
  BY DEF CepInv, Handles
<1>7. event.at[1] \in Nat
  <2>1. event.at[1] \in 0 .. MaxHeight
    BY <1>1, EventType
  <2> QED
    BY <2>1, StreamBounds
<1>8. CASE DetectRollbackCursor \/ DetectRollback \/ ReceiveBlock
  <2> USE DEF DetectRollbackCursor, DetectRollback, ReceiveBlock
  <2>1. CutOf(applied', applied)
    <3>1. applied' \in {RowsUpTo(startSlot), applied}
      BY <1>8, OutcomeIs
    <3>2. startSlot \in Nat
      BY StreamBounds DEF CepInv, TypeOK
    <3> QED
      BY <1>3, <1>4, <3>1, <3>2
  <2>2. MintedKept /\ failed' = failed /\ event.kind = "block"
    BY <1>8 DEF BlockHandler, MintedKept, Handles, CepInv, actorVars
  <2>3. /\ pc \in {"ready", "detected"}
        /\ Done \/ (UNCHANGED mailbox /\ pc' \in {"building", "detected"})
    <3>1. CASE DetectRollbackCursor
      BY <3>1
    <3>2. CASE DetectRollback
      BY <3>2
    <3>3. CASE ReceiveBlock
      BY <3>3
    <3> QED
      BY <1>8, <3>1, <3>2, <3>3
  <2>4. First = 1 /\ First' \in 1 .. 2
    BY <2>3 DEF First
  <2>5. Done \/ (UNCHANGED mailbox /\ First <= First')
    BY <2>3, <2>4
  <2> QED
    BY <1>1, <2>1, <2>2, <2>5, KeepOrder
<1>9. CASE DropEvent \/ ApplyTxFails \/ CountMissing \/ UpdateFails
  <2>1. Done /\ failed' = TRUE /\ UNCHANGED <<minted, applied>>
    BY <1>9 DEF DropEvent, ApplyTxFails, CountMissing, UpdateFails, SetProcessingFailed,
                ProcessBlockTipReached, actorVars, dbVars
  <2> QED
    BY <1>1, <1>3, <2>1, KeepOrder DEF MintedKept
<1>10. CASE RollbackFails
  <2>1. Done /\ failed' = TRUE /\ UNCHANGED minted
          /\ applied' \in {applied, RowsUpTo(event.at[1])}
    BY <1>10 DEF RollbackFails, SetProcessingFailed
  <2>2. CutOf(applied', applied)
    BY <1>3, <1>4, <1>7, <2>1
  <2> QED
    BY <1>1, <2>1, <2>2, KeepOrder DEF MintedKept
<1>11. CASE ReceiveOtherTx \/ CountLastTx
  <2>1. UNCHANGED <<mailbox, minted, applied, failed>> /\ pc' \in {"applied", "building"}
    BY <1>11 DEF ReceiveOtherTx, CountLastTx, actorVars, dbVars
  <2>2. First <= First'
    BY <1>5, <2>1
  <2> QED
    BY <1>1, <1>3, <2>1, <2>2, KeepOrder DEF MintedKept
<1>12. CASE CountTx \/ PassBlock \/ RequestRestart \/ SkipUpdate \/ SubmitUpdate
  <2>1. Done /\ UNCHANGED <<applied, failed>> /\ pc \in {"applied", "building"}
    BY <1>12 DEF CountTx, PassBlock, RequestRestart, SkipUpdate, SubmitUpdate, BlockDone,
                 ProcessBlockTipReached, dbVars
  <2>2. MintedKept
    BY <1>12, SubmitKeeps DEF CountTx, PassBlock, RequestRestart, SkipUpdate, MintedKept
  <2> QED
    BY <1>1, <1>3, <1>6, <2>1, <2>2, KeepOrder
<1>13. CASE RollbackCursor
  <2>1. UNCHANGED <<mailbox, minted, applied, failed>> /\ pc' = "rollingBack" /\ pc = "ready"
    BY <1>13 DEF RollbackCursor, actorVars
  <2>2. First <= First'
    BY <2>1 DEF First
  <2> QED
    BY <1>1, <1>3, <2>1, <2>2, KeepOrder DEF MintedKept
<1> QED
  BY <1>8, <1>9, <1>10, <1>11, <1>12, <1>13, ApplyTxOrder, RollbackOrder DEF Handler

LEMMA EnvironmentOrder ==
  ASSUME CepInv, CepInv', OrderInv, MintedKept, UNCHANGED processorVars,
         Environment \/ SendBlock \/ SendRollback
  PROVE  OrderInv'
<1>1. /\ applied \in Seq(Row) /\ applied \in Seq(KnownRow) /\ mailbox \in Seq(Event)
      /\ view \in Seq(Block) /\ Len(applied) \in Nat /\ Len(view) \in Nat
  BY LenProperties DEF CepInv, TypeOK, StreamTypeOK
<1>2. UNCHANGED <<applied, failed, pc, First>>
  BY DEF processorVars, actorVars, dbVars, First
<1>3. PICK rows : rows = applied
  OBVIOUS
<1>4. PICK n : n = Len(view)
  OBVIOUS
<1>5. PICK f : f = First
  OBVIOUS
<1>6. /\ rows \in Seq(Row) /\ rows \in Seq(KnownRow) /\ n \in Nat /\ f \in 1 .. 2
      /\ SlotsSorted(rows) /\ BuiltOnRows(rows) /\ Grows(mailbox) /\ Behind(mailbox, n)
      /\ ~failed => AheadOf(mailbox, f, rows) /\ RowsBehind(mailbox, rows, n)
  BY <1>1, <1>3, <1>4, <1>5, FirstType DEF OrderInv
<1>7. BuiltOnRows(applied)' /\ SlotsSorted(applied')
  <2>1. BuiltOnRows(rows)'
    BY <1>6, MintingKeepsOrder
  <2> QED
    BY <1>2, <1>3, <1>6, <2>1 DEF BuiltOnRows
<1>8. SUFFICES /\ Grows(mailbox') /\ Behind(mailbox', Len(view'))
               /\ ~failed => AheadOf(mailbox', f, rows) /\ RowsBehind(mailbox', rows, Len(view'))
  BY <1>2, <1>3, <1>5, <1>7 DEF OrderInv
<1>9. CASE Environment
  <2>1. UNCHANGED <<view, mailbox>>
    BY <1>9 DEF Environment, ForgeBlock, ForgeForeign, Fork, streamVars
  <2> QED
    BY <1>4, <1>6, <2>1
<1>10. CASE SendBlock
  <2>1. /\ Len(view') = Len(view) + 1 /\ mailbox' \in Seq(KnownEvent)
        /\ Len(mailbox') > Len(mailbox)
        /\ \A i \in 1 .. Len(mailbox) : mailbox'[i] = mailbox[i]
        /\ \A i \in Len(mailbox) + 1 .. Len(mailbox') :
              /\ NewEvent(mailbox'[i], n + 1)
              /\ i < Len(mailbox') /\ mailbox'[i].kind = "tx" => mailbox'[i].tx = 0
    BY <1>4, <1>10, SentBlock
  <2>2. mailbox' \in Seq(Event)
    BY <2>1, SeqMonotonic DEF KnownEvent
  <2>3. /\ Grows(mailbox') /\ Behind(mailbox', n + 1)
        /\ AheadOf(mailbox, f, rows) /\ RowsBehind(mailbox, rows, n)
              => AheadOf(mailbox', f, rows) /\ RowsBehind(mailbox', rows, n + 1)
    BY <1>1, <1>6, <2>1, <2>2, AddBlockOrder
  <2> QED
    BY <1>4, <1>6, <2>1, <2>3
<1>11. CASE SendRollback
  <2>1. PICK m : m = CommonLength
    OBVIOUS
  <2>2. PICK e : e = RollbackEvent(PointAt(view, m))
    OBVIOUS
  <2>3. mailbox' = Append(mailbox, e) /\ view' = SubSeq(view, 1, m)
    BY <1>11, <2>1, <2>2 DEF SendRollback
  <2>4. m \in 0 .. Len(view) /\ m \in Nat /\ PointAt(view, m) \in Points /\ PointAt(view, m)[1] = m
    <3>1. m \in 0 .. Len(view) /\ PointAt(view, m) \in Points /\ PointAt(view, m)[1] = m
      BY <2>1, CommonType
    <3> QED
      BY <1>1, <3>1
  <2>5. Len(view') = m
    BY <1>1, <2>3, <2>4
  <2>6. e \in Event /\ e.kind = "rollback" /\ e.at[1] = m
    BY <2>2, <2>4 DEF Event, RollbackEvent
  <2>7. KeepsOrder(mailbox, mailbox', f, rows, m)
    BY <1>1, <1>6, <2>3, <2>4, <2>6, AddRollbackOrder
  <2> QED
    BY <1>6, <2>5, <2>7 DEF KeepsOrder
<1> QED
  BY <1>9, <1>10, <1>11

\* A restart.  The first event of the new stream takes the tables back to
\* where it starts; until then a fresh processor has only what its
\* predecessor had, which must not have failed.
LEMMA RestartOrder ==
  ASSUME CepInv, CepInv', OrderInv, "early" \notin Faults,
         Crash \/ (ManagerRestart /\ ~failed)
  PROVE  OrderInv'
<1>1. /\ applied \in Seq(Row) /\ mailbox \in Seq(Event) /\ chain \in Seq(Block)
      /\ Len(chain) \in Nat /\ cursor' \in Seq(Points)
  BY LenProperties DEF CepInv, TypeOK, StreamTypeOK
<1>2. UNCHANGED <<applied, minted>> /\ pc' = "ready" /\ StartStream(cursor')
  BY DEF Crash, ManagerRestart, dbVars
<1>3. PICK rows : rows = applied
  OBVIOUS
<1>4. PICK m : m = IntersectLength(cursor')
  OBVIOUS
<1>5. PICK e : e = FirstEvent(cursor')
  OBVIOUS
<1>6. m \in 0 .. Len(chain) /\ m \in Nat /\ e \in Event /\ e.kind = "rollback" /\ e.at[1] = m
  <2>1. m \in 0 .. Len(chain) /\ e \in KnownEvent /\ e.kind = "rollback" /\ e.at[1] = m
    BY <1>1, <1>4, <1>5, StartType
  <2> QED
    BY <1>1, <2>1 DEF KnownEvent
<1>7. Len(view') = m
  <2>1. view' = SubSeq(chain, 1, m)
    BY <1>2, <1>4 DEF StartStream
  <2> QED
    BY <1>1, <1>6, <2>1
<1>8. BuiltOnRows(applied)' /\ SlotsSorted(applied')
  BY <1>2 DEF OrderInv, BuiltOnRows
<1>9. First' = 1
  BY <1>2 DEF First
<1>10. SUFFICES /\ Grows(mailbox') /\ Behind(mailbox', m)
                /\ AheadOf(mailbox', 1, rows) /\ RowsBehind(mailbox', rows, m)
  BY <1>2, <1>3, <1>7, <1>8, <1>9 DEF OrderInv
<1>11. PICK q : /\ q \in Seq(Event) /\ mailbox' = Append(q, e)
                /\ Grows(q) /\ AheadOf(q, 1, rows)
  <2>1. CASE Crash
    <3>1. mailbox' = <<FirstEvent(cursor)>> /\ cursor' = cursor
      BY <2>1 DEF Crash, dbVars
    <3>2. mailbox' = Append(<<>>, e)
      BY <1>5, <3>1
    <3>3. <<>> \in Seq(Event) /\ Len(<<>>) = 0
      OBVIOUS
    <3>4. Grows(<<>>) /\ AheadOf(<<>>, 1, rows)
      BY <3>3 DEF Grows, AheadOf
    <3> QED
      BY <3>2, <3>3, <3>4
  <2>2. CASE ManagerRestart /\ ~failed
    <3>1. mailbox' = Append(mailbox, e) /\ pc = "ready"
      BY <1>5, <2>2 DEF ManagerRestart
    <3>2. First = 1
      BY <3>1 DEF First
    <3>3. Grows(mailbox) /\ AheadOf(mailbox, 1, rows)
      BY <1>3, <2>2, <3>2 DEF OrderInv
    <3> QED
      BY <1>1, <3>1, <3>3
  <2> QED
    BY <2>1, <2>2
<1>12. PICK f \in 1 .. 2 : f = 1
  OBVIOUS
<1>13. PICK new : new = mailbox'
  OBVIOUS
<1>14. /\ q \in Seq(Event) /\ new = Append(q, e) /\ e \in Event /\ e.kind = "rollback"
       /\ m \in Nat /\ e.at[1] = m /\ f \in 1 .. 2
  BY <1>6, <1>11, <1>13
<1>15. Grows(q) /\ AheadOf(q, f, rows)
  BY <1>11, <1>12
<1>16. KeepsOrder(q, new, f, rows, m)
  BY <1>14, AddRollbackOrder
<1> QED
  BY <1>12, <1>13, <1>15, <1>16 DEF KeepsOrder

LEMMA OrderInit == Init => OrderInv
<1> SUFFICES ASSUME Init PROVE OrderInv
  OBVIOUS
<1>1. CepInv
  BY CepInit
<1>2. applied = <<>> /\ Len(applied) = 0 /\ view = <<>> /\ Len(view) = 0
        /\ mailbox = Append(<<>>, RollbackEvent(Intercept))
  BY DEF Init, StreamInit
<1>3. mailbox[1] = RollbackEvent(Intercept) /\ Len(mailbox) = 1 /\ mailbox \in Seq(Event)
  BY <1>1, <1>2 DEF CepInv, TypeOK, StreamTypeOK
<1>4. mailbox[1].kind = "rollback" /\ Slot(mailbox, 1) = 0
  BY <1>3 DEF RollbackEvent, Intercept, Slot
<1>5. \A i \in 1 .. Len(mailbox) : i = 1 /\ ~OracleAt(mailbox, i)
  BY <1>3, <1>4 DEF OracleAt
<1>6. Grows(mailbox)
  BY <1>5 DEF Grows
<1>7. Behind(mailbox, Len(view))
  BY <1>2, <1>4, <1>5 DEF Behind
<1>8. AheadOf(mailbox, First, applied) /\ RowsBehind(mailbox, applied, Len(view))
  BY <1>2 DEF AheadOf, RowsBehind
<1>9. SlotsSorted(applied) /\ BuiltOnRows(applied)
  BY <1>2 DEF SlotsSorted, BuiltOnRows
<1> QED
  BY <1>6, <1>7, <1>8, <1>9 DEF OrderInv

LEMMA OrderStep ==
  ASSUME "early" \notin Faults, CepInv, CepInv', OrderInv, [Next]_vars,
         [failed => ~ManagerRestart]_vars
  PROVE  OrderInv'
<1>1. CASE Handler
  BY <1>1, HandlerOrder
<1>2. CASE (Environment \/ SendBlock \/ SendRollback) /\ UNCHANGED processorVars
  BY <1>2, EnvironmentTypes, EnvironmentOrder
<1>3. CASE StatusEvent \/ UNCHANGED vars
  <2>1. UNCHANGED <<mailbox, view, failed, applied, minted, pc>>
    BY <1>3, StatusMoves DEF vars, world, streamVars, actorVars, dbVars
  <2> QED
    BY <2>1 DEF OrderInv, First, BuiltOnRows
<1>4. CASE Crash
  BY <1>4, RestartOrder
<1>5. CASE ManagerRestart /\ ~UNCHANGED vars
  BY <1>5, RestartOrder
<1> QED
  BY <1>1, <1>2, <1>3, <1>4, <1>5 DEF Next

\* The files in the tables are in slot order and each was recorded after the
\* file it builds on, for every number of blocks, forks, crashes and failed
\* calls, as long as the manager restarts no processor that has failed and
\* no event arrives before the strategy is loaded.
THEOREM TablesStayInOrder ==
  ASSUME "early" \notin Faults
  PROVE  Spec /\ [][failed => ~ManagerRestart]_vars => []TablesInOrder
<1>1. CepInv /\ OrderInv => TablesInOrder
  <2> SUFFICES ASSUME CepInv, OrderInv PROVE TablesInOrder
    OBVIOUS
  <2>1. Len(applied) \in Nat /\ SlotsSorted(applied) /\ BuiltOnRows(applied)
    BY DEF CepInv, TypeOK, OrderInv
  <2>2. ASSUME NEW i \in 1 .. Len(applied), i > 1 PROVE applied[i - 1].slot < applied[i].slot
    <3>1. i - 1 \in 1 .. Len(applied) /\ i - 1 < i
      BY <2>1, <2>2
    <3> QED
      BY <2>1, <3>1 DEF SlotsSorted
  <2> QED
    BY <2>1, <2>2 DEF TablesInOrder, BuiltOnRows
<1>2. CepInv /\ CepInv' /\ OrderInv /\ [Next]_vars /\ [failed => ~ManagerRestart]_vars => OrderInv'
  BY OrderStep
<1> QED
  BY CepInit, CepStep, OrderInit, <1>1, <1>2, PTL DEF Spec
=============================================================================
