----------------------------- MODULE ChainStream -----------------------------
(***************************************************************************)
(* The chain as the node sees it, and internal/actors/indexer.go, which    *)
(* streams it: blocks, their transactions and rollbacks, in order, through *)
(* one FIFO queue.  The queue stands for the mailboxes the events pass     *)
(* through: indexer, manager (which forwards them), strategy.              *)
(*                                                                         *)
(* The block at height n has slot n and, to tell forks apart, the number   *)
(* of the fork it was forged on.  It holds at most one transaction that    *)
(* recreates the oracle UTxO, and perhaps a transaction of someone else.   *)
(* Each oracle transaction spends the output of the one before; 0 is the   *)
(* output of the genesis transaction, whose Merkle root is null.           *)
(***************************************************************************)
EXTENDS Naturals, Sequences, SequencesExt, SeqSelect

CONSTANTS
    MaxHeight,      \* bound: height of the chain
    MaxForks,       \* bound: forks
    MaxTxs,         \* bound: oracle transactions ever minted
    MaxMailbox      \* bound: events waiting in the queue

ASSUME StreamBounds == {MaxHeight, MaxForks, MaxTxs, MaxMailbox} \subseteq Nat

Heights == 1 .. MaxHeight
Points == (0 .. MaxHeight) \X (0 .. MaxForks)
Intercept == <<0, 0>>
TxIds == 1 .. MaxTxs

\* A row of the table of oracle files.
Row == [tx : TxIds, slot : Heights]

Block == [branch : 0 .. MaxForks, other : BOOLEAN, oracle : 0 .. MaxTxs]

\* An oracle transaction: the output it spends, and the files whose replay
\* gives the Merkle root that its own file starts from.
OracleTx == [spends : 0 .. MaxTxs, base : Seq(TxIds)]

Event == [kind : {"block"}, at : Points, n : 0 .. 2, tip : BOOLEAN]
            \cup [kind : {"tx"}, at : Points, tx : 0 .. MaxTxs, tip : BOOLEAN]
            \cup [kind : {"rollback"}, at : Points]

VARIABLES
    chain,          \* the chain the Cardano node follows
    forks,          \* how often it switched
    minted,         \* every oracle transaction built so far
    view,           \* the blocks the indexer has streamed
    tip,            \* tipReached
    mailbox         \* events on their way to the strategy

chainVars == <<chain, forks>>
streamVars == <<view, tip>>

StreamTypeOK ==
    /\ chain \in Seq(Block) /\ Len(chain) <= MaxHeight
    /\ forks \in 0 .. MaxForks
    /\ minted \in Seq(OracleTx) /\ Len(minted) <= MaxTxs
    /\ view \in Seq(Block) /\ Len(view) <= MaxHeight
    /\ tip \in BOOLEAN
    /\ mailbox \in Seq(Event)

-----------------------------------------------------------------------------
PointAt(c, n) == IF n = 0 THEN Intercept ELSE <<n, c[n].branch>>
PointsOf(c) == {PointAt(c, n) : n \in 1 .. Len(c)}

\* The transaction events of a block; 0 stands for a foreign transaction.
TxsOf(b) == (IF b.other THEN <<0>> ELSE <<>>)
                \o (IF b.oracle # 0 THEN <<b.oracle>> ELSE <<>>)

\* The oracle transactions of a chain with their slots, as the database
\* would record them.
OracleRows(c) == Only([n \in 1 .. Len(c) |-> [tx |-> c[n].oracle, slot |-> n]], Row)

\* The oracle transaction whose output is unspent on a chain.
UnspentOf(c) == IF OracleRows(c) = <<>> THEN 0 ELSE Last(OracleRows(c)).tx

SpentOn(c, t) == \E n \in 1 .. Len(c) : c[n].oracle # 0 /\ minted[c[n].oracle].spends = t

\* The Merkle root in the datum of an output, as the files it is a digest of.
RootOf(t) == IF t = 0 THEN <<>> ELSE Append(minted[t].base, t)

RollbackEvent(at) == [kind |-> "rollback", at |-> at]

StreamInit ==
    /\ chain = <<>>
    /\ forks = 0
    /\ minted = <<>>
    /\ view = <<>>
    /\ tip = FALSE
    /\ mailbox = <<RollbackEvent(Intercept)>>

-----------------------------------------------------------------------------
(* The chain.                                                              *)

Extend(other, t) ==
    chain' = Append(chain, [branch |-> forks, other |-> other, oracle |-> t])

\* A block with no oracle transaction, or one from the mempool.
ForgeBlock(other, t) ==
    /\ Len(chain) < MaxHeight
    /\ t # 0 => t <= Len(minted) /\ minted[t].spends = UnspentOf(chain)
    /\ Extend(other, t)
    /\ UNCHANGED <<forks, minted, streamVars, mailbox>>

\* A block with an oracle transaction of another node of the oracle, which
\* builds on the state its input records.
ForgeForeign(other) ==
    /\ Len(chain) < MaxHeight
    /\ Len(minted) < MaxTxs
    /\ LET t == UnspentOf(chain)
       IN minted' = Append(minted, [spends |-> t, base |-> RootOf(t)])
    /\ Extend(other, Len(minted) + 1)
    /\ UNCHANGED <<forks, streamVars, mailbox>>

\* The Cardano node switches to a fork that leaves the chain after block n.
\* The first block is stable: a fork never passes the oldest cursor point.
Fork(n) ==
    /\ forks < MaxForks
    /\ n \in 1 .. Len(chain) - 1
    /\ chain' = SubSeq(chain, 1, n)
    /\ forks' = forks + 1
    /\ UNCHANGED <<minted, streamVars, mailbox>>

-----------------------------------------------------------------------------
(* The indexer.                                                            *)

\* The next block and its transactions.  The status update that reports the
\* tip may come before or after them; tipReached is never reset.
SendBlock ==
    /\ IsStrictPrefix(view, chain)
    /\ LET b == chain[Len(view) + 1]
           at == PointAt(chain, Len(view) + 1)
           txs == TxsOf(b)
       IN /\ Len(mailbox) + Len(txs) < MaxMailbox
          /\ view' = Append(view, b)
          /\ tip' = (tip \/ view' = chain)
          /\ \E reached \in {tip, tip'} :
                mailbox' = mailbox
                    \o <<[kind |-> "block", at |-> at, n |-> Len(txs), tip |-> reached]>>
                    \o [i \in 1 .. Len(txs) |->
                          [kind |-> "tx", at |-> at, tx |-> txs[i], tip |-> reached]]
    /\ UNCHANGED <<chainVars, minted>>

\* How much of the streamed blocks is still on the chain.
CommonLength ==
    CHOOSE n \in 0 .. Len(view) :
        /\ IsPrefix(SubSeq(view, 1, n), chain)
        /\ n < Len(view) => ~IsPrefix(SubSeq(view, 1, n + 1), chain)

SendRollback ==
    /\ ~IsPrefix(view, chain)
    /\ Len(mailbox) < MaxMailbox
    /\ view' = SubSeq(view, 1, CommonLength)
    /\ mailbox' = Append(mailbox, RollbackEvent(PointAt(view, CommonLength)))
    /\ UNCHANGED <<chainVars, minted, tip>>

\* Where a new stream starts: GetCursorPoints gives the points by id DESC
\* and the Cardano node picks the first that is on its chain; without one
\* the intercept point of the configuration is used.
IntersectLength(points) ==
    LET found == {i \in 1 .. Len(points) : points[i] \in PointsOf(chain)}
    IN IF found = {} THEN 0
       ELSE points[CHOOSE i \in found : \A j \in found : j <= i][1]

\* A new indexer on these cursor points.  Its first event is a rollback to
\* the intersection, the protocol's answer to FindIntersect.
StartStream(points) ==
    /\ view' = SubSeq(chain, 1, IntersectLength(points))
    /\ tip' = FALSE

FirstEvent(points) == RollbackEvent(PointAt(chain, IntersectLength(points)))
=============================================================================
