------------------------- MODULE ChainEventProcessor -------------------------
(***************************************************************************)
(* internal/strategy/chain_event_processor_strategy.go: the actor that     *)
(* indexes oracle transactions into the database and, at the tip, builds   *)
(* and submits the next one; with the process-wide caches of globals.go,   *)
(* the cursor table, and the restart that strategy_manager.go performs     *)
(* when it asks for one.                                                   *)
(*                                                                         *)
(* The tables are abstracted to the files applied, in order, with their    *)
(* slots (TrieStore models them); a Merkle root to the files behind it.    *)
(* An event stays at the head of the mailbox until its handler has ended:  *)
(* pc says how far the handler is.  Each write to the database is a step   *)
(* of its own, so that the process can stop between any two.               *)
(***************************************************************************)
EXTENDS ChainStream

CONSTANTS
    NULL,
    TxExpiration,   \* indexer.txExpirationBlockNumber
    MismatchLimit,  \* mismatches in a row that ask for a restart (3)
    Finality,       \* FinalitySlotsNeeded
    MaxCrashes,     \* bound: process stops
    Faults          \* what may go wrong, see below

\* "call":  calls of the database, the cloud and the providers may fail;
\* "early": events may arrive before main.go has loaded the strategy, and
\*          are then dropped by the manager;
\* "late":  the manager may serve a restart request only after the strategy
\*          has handled further events, and perhaps asked again.
ASSUME FaultAssumption == Faults \subseteq {"call", "early", "late"}
ASSUME ProcessorBounds ==
    /\ {TxExpiration, MismatchLimit, Finality, MaxCrashes} \subseteq Nat
    /\ NULL \notin 0 .. MaxTxs

VARIABLES
    failed,         \* processingFailed
    justStarted,
    startSlot,      \* startBlockSlot; 0 when justStarted is over and only
                    \* the progress bar reads it
    lastIndexed,    \* lastSuccessfullyIndexedSlot and -BlockHash
    mismatches,     \* trieRootMismatchCount
    counts,         \* blockTransactionCountMap; 0: no entry
    processed,      \* processedBlockMap
    pending,        \* pendingTxInputs (process-wide)
    utxo,           \* globalValidatorUtxo (process-wide)
    applied,        \* oracle files in the database, by id
    cursor,         \* the table cursor, by id
    requests,       \* restart requests on their way to the manager
    pc,             \* how far the handler of the event at the head is
    crashes

world == <<chainVars, streamVars, crashes>>
startVars == <<justStarted, startSlot>>
tipVars == <<lastIndexed, mismatches>>
actorVars == <<failed, startVars, tipVars, counts, processed>>
globalVars == <<pending, utxo>>
dbVars == <<applied, cursor>>
vars == <<world, minted, mailbox, actorVars, globalVars, dbVars, requests, pc>>

TypeOK ==
    /\ StreamTypeOK
    /\ failed \in BOOLEAN
    /\ justStarted \in BOOLEAN
    /\ startSlot \in 0 .. MaxHeight
    /\ lastIndexed \in Points
    /\ mismatches \in Nat
    /\ counts \in [Points -> 0 .. 2]
    /\ processed \subseteq Points
    /\ pending \subseteq [tx : TxIds, height : Heights]
    /\ utxo \in 0 .. MaxTxs \cup {NULL}
    /\ applied \in Seq(Row)
    /\ cursor \in Seq(Points)
    /\ requests \in Seq(Points)
    /\ pc \in {"ready", "detected", "applied", "building", "rollingBack"}
    /\ pc = "ready" \/ mailbox # <<>>
    /\ crashes \in 0 .. MaxCrashes

-----------------------------------------------------------------------------
MayFail == "call" \in Faults

\* A call whose error is only logged.
Outcome(new, old) == IF MayFail THEN {new, old} ELSE {new}

event == Head(mailbox)
Handles(kind) == mailbox # <<>> /\ event.kind = kind

\* The handler returns.
Done == /\ mailbox' = Tail(mailbox)
        /\ pc' = "ready"

\* withGuard: an error or a panic in the handler.
SetProcessingFailed == Done /\ failed' = TRUE

RowsUpTo_Exclusive(slot) == Only(applied, {r \in Row : r.slot < slot})

CursorUpTo(slot) == Only(cursor, {p \in Points : p[1] <= slot})
RowsUpTo(slot) == Only(applied, {r \in Row : r.slot <= slot})
LatestCursor == IF cursor = <<>> THEN Intercept ELSE Last(cursor)

AppliedTxs == [i \in 1 .. Len(applied) |-> applied[i].tx]
IsApplied(t) == \E i \in 1 .. Len(applied) : applied[i].tx = t

\* NewChainEventProcessorStrategy.
FreshActor(point) ==
    /\ failed' = FALSE
    /\ justStarted' = TRUE
    /\ startSlot' = point[1]
    /\ lastIndexed' = point
    /\ mismatches' = 0
    /\ counts' = [p \in Points |-> 0]
    /\ processed' = {}

Init ==
    /\ StreamInit
    /\ failed = FALSE
    /\ justStarted = TRUE
    /\ startSlot = 0
    /\ lastIndexed = Intercept
    /\ mismatches = 0
    /\ counts = [p \in Points |-> 0]
    /\ processed = {}
    /\ pending = {}
    /\ utxo = NULL
    /\ applied = <<>>
    /\ cursor = <<>>
    /\ requests = <<>>
    /\ pc = "ready"
    /\ crashes = 0

-----------------------------------------------------------------------------
(* IndexerBlockEvent.  It is handled even when processing has failed.      *)

BlockHandler ==
    /\ Handles("block")
    /\ requests = <<>> \/ "late" \in Faults

\* "some sort of rollback occured while the program was offline".
RolledBackOffline == justStarted /\ event.at[1] <= startSlot

Started ==
    /\ justStarted' = FALSE
    /\ startSlot' = 0

\* The cursor is cut at the start slot, then the tables.
DetectRollbackCursor ==
    /\ pc = "ready"
    /\ BlockHandler
    /\ RolledBackOffline
    /\ cursor' \in Outcome(CursorUpTo(startSlot), cursor)
    /\ pc' = "detected"
    /\ UNCHANGED <<world, minted, mailbox, actorVars, globalVars, applied, requests>>

DetectRollback ==
    /\ pc = "detected"
    /\ RolledBackOffline
    /\ applied' \in Outcome(RowsUpTo(startSlot), applied)
    /\ Started
    /\ UNCHANGED <<world, minted, mailbox, failed, tipVars, counts, processed, globalVars,
                   cursor, requests, pc>>

\* The block has its count or, without transactions, its cursor point.
ReceiveBlock ==
    /\ pc \in {"ready", "detected"}
    /\ BlockHandler
    /\ ~RolledBackOffline
    /\ cursor' \in IF event.n = 0 THEN Outcome(Append(cursor, event.at), cursor)
                   ELSE {cursor}
    /\ Started
    /\ counts' = [counts EXCEPT ![event.at] = event.n]
    /\ IF event.n = 0 THEN pc' = "building" /\ UNCHANGED mailbox ELSE Done
    /\ UNCHANGED <<world, minted, globalVars, applied, requests, failed, tipVars,
                   processed>>

\* IndexerStatusEvent: the progress bar of a processor that is behind begins
\* at the slot reported, and the start slot moves there.
Reported == 1 .. Len(view) \cup {mailbox[i].at[1] : i \in 1 .. Len(mailbox)}

StatusEvent ==
    /\ pc = "ready"
    /\ justStarted
    /\ \E slot \in Reported : slot > startSlot /\ startSlot' = slot
    /\ UNCHANGED <<world, minted, mailbox, failed, justStarted, tipVars, counts, processed,
                   globalVars, dbVars, requests, pc>>

\* Transactions and rollbacks are dropped after a failure.
DropEvent ==
    /\ pc = "ready"
    /\ failed
    /\ Handles("tx") \/ Handles("rollback")
    /\ Done
    /\ UNCHANGED <<world, minted, actorVars, globalVars, dbVars, requests>>

-----------------------------------------------------------------------------
(* IndexerTransactionEvent: processTransactionEvent, then the count and    *)
(* the cursor, then the block.                                             *)

ReceiveTx ==
    /\ pc = "ready"
    /\ ~failed
    /\ Handles("tx")
    /\ pending' = {p \in pending : p.tx # event.tx}

\* A transaction without the token of the oracle.
ReceiveOtherTx ==
    /\ ReceiveTx
    /\ event.tx = 0
    /\ pc' = "applied"
    /\ UNCHANGED <<world, minted, mailbox, actorVars, utxo, dbVars, requests>>

PreviousKnown_NoGenesis(t) == IsApplied(minted[t].spends)
PreviousKnown_Unchecked(t) == t \in TxIds

\* getStateFromDB finds the file that the new one builds on.
PreviousKnown(t) == minted[t].spends = 0 \/ IsApplied(minted[t].spends)

\* The UTxO cache is set before anything can fail.  ApplyOracleFile returns
\* the row it has when the file is already recorded.
ApplyTx ==
    /\ ReceiveTx
    /\ event.tx # 0
    /\ utxo' = event.tx
    /\ PreviousKnown(event.tx)
    /\ applied' = IF IsApplied(event.tx) THEN applied
                  ELSE Append(applied, [tx |-> event.tx, slot |-> event.at[1]])
    /\ pc' = "applied"
    /\ UNCHANGED <<world, minted, mailbox, actorVars, cursor, requests>>

\* The cloud cannot be read, the previous file is unknown, or
\* ApplyOracleFile is undone.
ApplyTxFails ==
    /\ ReceiveTx
    /\ event.tx # 0
    /\ utxo' = event.tx
    /\ MayFail \/ ~PreviousKnown(event.tx)
    /\ SetProcessingFailed
    /\ UNCHANGED <<world, minted, startVars, tipVars, counts, processed, dbVars, requests>>

\* "This should never happen".
CountMissing ==
    /\ pc = "applied"
    /\ counts[event.at] = 0
    /\ SetProcessingFailed
    /\ UNCHANGED <<world, minted, startVars, tipVars, counts, processed, globalVars,
                   dbVars, requests>>

CountTx ==
    /\ pc = "applied"
    /\ counts[event.at] > 1
    /\ counts' = [counts EXCEPT ![event.at] = @ - 1]
    /\ Done
    /\ UNCHANGED <<world, minted, failed, startVars, tipVars, processed, globalVars,
                   dbVars, requests>>

CountLastTx_TwoLeft ==
    /\ pc = "applied"
    /\ counts[event.at] \in 1 .. 2
    /\ counts' = [counts EXCEPT ![event.at] = 0]
    /\ cursor' \in Outcome(Append(cursor, event.at), cursor)
    /\ pc' = "building"
    /\ UNCHANGED <<world, minted, mailbox, failed, startVars, tipVars, processed,
                   globalVars, applied, requests>>

\* The last transaction of the block moves the cursor past it.
CountLastTx ==
    /\ pc = "applied"
    /\ counts[event.at] = 1
    /\ counts' = [counts EXCEPT ![event.at] = 0]
    /\ cursor' \in Outcome(Append(cursor, event.at), cursor)
    /\ pc' = "building"
    /\ UNCHANGED <<world, minted, mailbox, failed, startVars, tipVars, processed,
                   globalVars, applied, requests>>

-----------------------------------------------------------------------------
(* processBlockEvent, when all transactions of a block are indexed.        *)

BlockDone == Done /\ lastIndexed' = event.at

\* The block was processed before, or is not at the tip.
PassBlock ==
    /\ pc = "building"
    /\ event.at \in processed \/ ~event.tip
    /\ processed' = processed \cup {event.at}
    /\ BlockDone
    /\ UNCHANGED <<world, minted, failed, startVars, mismatches, counts, globalVars,
                   dbVars, requests>>

\* garbageCollectOldBlocks; the cutoff is unsigned, and wraps to a slot
\* above every other when the chain is younger than the finality window.
IsOld(slot) == event.at[1] < Finality \/ slot + Finality < event.at[1]

\* CleanupOldPendingTransactions.
StillPending == {p \in pending : event.at[1] <= p.height + TxExpiration}

\* getOrFetchValidatorUTxO: the provider knows the chain, not the stream.
ValidatorUTxO == IF utxo # NULL THEN utxo ELSE UnspentOf(chain)

RootMismatch == StillPending = {} /\ RootOf(ValidatorUTxO) # AppliedTxs

\* processBlockTipReached up to the first call that can fail.
ProcessBlockTipReached ==
    /\ pc = "building"
    /\ event.at \notin processed
    /\ event.tip
    /\ processed' = {p \in processed \cup {event.at} : ~IsOld(p[1])}
    /\ counts' = [p \in Points |-> IF IsOld(p[1]) THEN 0 ELSE counts[p]]
    /\ UNCHANGED <<world, startVars, dbVars>>

\* The restart asked for starts at the block before this one.
RequestRestart ==
    /\ ProcessBlockTipReached
    /\ RootMismatch
    /\ pending' = StillPending
    /\ utxo' = ValidatorUTxO
    /\ mismatches' = mismatches + 1
    /\ requests' = IF mismatches' >= MismatchLimit THEN Append(requests, lastIndexed)
                   ELSE requests
    /\ BlockDone
    /\ UNCHANGED <<minted, failed>>

\* The update is not due yet, its inputs conflict with a pending
\* transaction, or its submission is refused.
SkipUpdate ==
    /\ ProcessBlockTipReached
    /\ ~RootMismatch
    /\ pending' = StillPending
    /\ utxo' = ValidatorUTxO
    /\ mismatches' = 0
    /\ BlockDone
    /\ UNCHANGED <<minted, failed, requests>>

\* The root and the file of the new transaction come from the database, its
\* input from the cache.  It is accepted if its input is not spent.
SubmitUpdate ==
    /\ ProcessBlockTipReached
    /\ ~RootMismatch
    /\ \A p \in StillPending : minted[p.tx].spends # ValidatorUTxO
    /\ Len(minted) < MaxTxs
    /\ ~SpentOn(chain, ValidatorUTxO)
    /\ minted' = Append(minted, [spends |-> ValidatorUTxO, base |-> AppliedTxs])
    /\ pending' = StillPending \cup {[tx |-> Len(minted) + 1, height |-> event.at[1]]}
    /\ utxo' = ValidatorUTxO
    /\ mismatches' = 0
    /\ BlockDone
    /\ UNCHANGED <<failed, requests>>

\* The provider, the data source, the cloud or the builder fails.
UpdateFails ==
    /\ MayFail
    /\ ProcessBlockTipReached
    /\ pending' = StillPending
    /\ \/ UNCHANGED <<utxo, mismatches>>
       \/ ~RootMismatch /\ utxo' = ValidatorUTxO /\ mismatches' = 0
    /\ SetProcessingFailed
    /\ UNCHANGED <<minted, lastIndexed, requests>>

-----------------------------------------------------------------------------
(* IndexerRollbackEvent: the cursor first, then the tables, then the maps. *)

RollbackCursor ==
    /\ pc = "ready"
    /\ ~failed
    /\ Handles("rollback")
    /\ cursor' = CursorUpTo(event.at[1])
    /\ pc' = "rollingBack"
    /\ UNCHANGED <<world, minted, mailbox, actorVars, globalVars, applied, requests>>

\* A block that the rollback undoes: later, or another one at its slot.
Undone(p) == p[1] > event.at[1] \/ (p[1] = event.at[1] /\ p # event.at)

Rollback_NotEnded ==
    /\ pc = "rollingBack"
    /\ applied' = RowsUpTo(event.at[1])
    /\ counts' = [p \in Points |-> IF Undone(p) THEN 0 ELSE counts[p]]
    /\ processed' = {p \in processed : ~Undone(p)}
    /\ mailbox' = Tail(mailbox)
    /\ UNCHANGED <<world, minted, failed, startVars, tipVars, globalVars, cursor, requests, pc>>

Rollback ==
    /\ pc = "rollingBack"
    /\ applied' = RowsUpTo(event.at[1])
    /\ counts' = [p \in Points |-> IF Undone(p) THEN 0 ELSE counts[p]]
    /\ processed' = {p \in processed : ~Undone(p)}
    /\ Done
    /\ UNCHANGED <<world, minted, failed, startVars, tipVars, globalVars, cursor, requests>>

\* RollbackCursor, rollback_to_slot or the reload of the trie fails.
RollbackFails ==
    /\ MayFail
    /\ ~failed
    /\ (pc = "ready" /\ Handles("rollback")) \/ pc = "rollingBack"
    /\ applied' \in IF pc = "ready" THEN {applied} ELSE {applied, RowsUpTo(event.at[1])}
    /\ SetProcessingFailed
    /\ UNCHANGED <<world, minted, startVars, tipVars, counts, processed, globalVars,
                   cursor, requests>>

-----------------------------------------------------------------------------
(* Restarts.                                                               *)

\* The process stops and starts again: main.go takes the start block from
\* the latest cursor point, the indexer its intersection from the cursor.
Crash ==
    /\ crashes < MaxCrashes
    /\ crashes' = crashes + 1
    /\ FreshActor(LatestCursor)
    /\ pending' = {}
    /\ utxo' = NULL
    /\ requests' = <<>>
    /\ pc' = "ready"
    /\ StartStream(cursor)
    /\ mailbox' \in {<<FirstEvent(cursor)>>}
                       \cup IF "early" \in Faults THEN {<<>>} ELSE {}
    /\ UNCHANGED <<chainVars, minted, dbVars>>

\* handleIndexerRestartRequest: the strategy is poisoned when it has handled
\* what the manager forwarded before the request; what the old indexer sent
\* after it goes to the fresh strategy.  The point is the one asked for or,
\* for a full reset, the intercept point.
ManagerRestart ==
    /\ requests # <<>>
    /\ requests' = Tail(requests)
    /\ pc = "ready"
    /\ \E point \in {Head(requests), Intercept} :
          /\ cursor' = CursorUpTo(point[1])
          /\ FreshActor(point)
    /\ StartStream(cursor')
    /\ mailbox' = Append(mailbox, FirstEvent(cursor'))
    /\ UNCHANGED <<chainVars, minted, globalVars, applied, pc, crashes>>

-----------------------------------------------------------------------------
Handler ==
    \/ DetectRollbackCursor \/ DetectRollback \/ ReceiveBlock \/ DropEvent
    \/ ReceiveOtherTx \/ ApplyTx \/ ApplyTxFails
    \/ CountMissing \/ CountTx \/ CountLastTx
    \/ PassBlock \/ RequestRestart \/ SkipUpdate \/ SubmitUpdate \/ UpdateFails
    \/ RollbackCursor \/ Rollback \/ RollbackFails

Environment ==
    \/ \E other \in BOOLEAN, t \in 0 .. MaxTxs : ForgeBlock(other, t)
    \/ \E other \in BOOLEAN : ForgeForeign(other)
    \/ \E n \in Heights : Fork(n)

processorVars == <<actorVars, globalVars, dbVars, requests, pc, crashes>>

Next ==
    \/ Handler
    \/ StatusEvent
    \/ (Environment \/ SendBlock \/ SendRollback) /\ UNCHANGED processorVars
    \/ Crash
    \/ ManagerRestart

Spec == Init /\ [][Next]_vars

\* The chain grows or not as it likes; the node's actors keep running.
Fairness ==
    /\ WF_vars((SendBlock \/ SendRollback) /\ UNCHANGED processorVars)
    /\ WF_vars(Handler)
    /\ WF_vars(ManagerRestart)

FairSpec == Spec /\ Fairness

-----------------------------------------------------------------------------
(* Properties.                                                             *)

\* Wherever the process stops, the stream that resumes from the cursor
\* misses nothing: cut at the resume point, the tables hold exactly the
\* oracle transactions of the chain up to it.
ResumeLosesNothing ==
    LET n == IntersectLength(cursor)
    IN RowsUpTo(n) = OracleRows(SubSeq(chain, 1, n))

\* With every event handled, the tables hold the oracle transactions of the
\* streamed blocks at their slots, forks and restarts included, as long as
\* the manager does not restart the indexer ahead of the streamed blocks while
\* the rollback event of an earlier restart is queued.
IndexedWhenDrained ==
    mailbox = <<>> => applied = OracleRows(view)

\* The processor stops indexing only because a call failed: a block's count
\* is there for each of its transactions, and the file that a transaction
\* builds on was applied before it.
NeverFails == ~failed

\* The files in the tables are in slot order, no two of one slot, and the
\* file that each builds on was recorded before it: whatever call fails and
\* wherever the process stops, and however late the manager restarts the
\* processor, as long as it does not restart one that has failed.  (A failed
\* processor may leave rows of a fork that is gone, and a fresh one handles
\* what the old indexer sent before the first rollback of its own stream.)
TablesInOrder ==
    \A i \in 1 .. Len(applied) :
        LET previous == minted[applied[i].tx].spends
        IN /\ previous # 0 => \E j \in 1 .. i - 1 : applied[j].tx = previous
           /\ i > 1 => applied[i - 1].slot < applied[i].slot

\* A transaction built by this node records the state of the output it
\* spends as the state it starts from.
BuildsOnItsInput ==
    \A t \in 1 .. Len(minted) : minted[t].base = RootOf(minted[t].spends)

\* Once the chain stops changing, everything on it is indexed, for good.
EventuallyIndexed == <>[](applied = OracleRows(chain))
=============================================================================
