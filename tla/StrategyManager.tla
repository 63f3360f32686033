--------------------------- MODULE StrategyManager ---------------------------
(***************************************************************************)
(* internal/actors/strategy_manager.go: the actor that spawns the indexer  *)
(* and the strategy, forwards the events of the one to the other, and      *)
(* restarts both when the strategy asks for it, back to the intercept      *)
(* point when that happens too often (the circuit breaker).                *)
(*                                                                         *)
(* ChainEventProcessor takes a restart as one step; here each step of      *)
(* handleIndexerRestartRequest is an action of its own, beside a strategy  *)
(* that drains its mailbox and an indexer that streams on.  The chain is   *)
(* the blocks 1 .. MaxSlot without a fork, slot 0 the intercept point; the *)
(* strategy is reduced to the cursor point it saves for each block.        *)
(*                                                                         *)
(* Left out: UnloadStrategyCommand, which nothing sends, and the handling  *)
(* of ActorStoppedEvent with its automatic restarts, which the engine      *)
(* delivers to subscribers of its event stream only: the manager is none.  *)
(***************************************************************************)
EXTENDS Naturals, Sequences, SequencesExt, SeqSelect

CONSTANTS
    MaxSlot,            \* bound: blocks of the chain
    MaxMailbox,         \* bound: messages waiting for the manager
    MaxRequests,        \* bound: restarts asked for
    MaxTime,            \* bound: the clock
    MismatchLimit,      \* mismatches in a row that ask for a restart (3)
    RestartThreshold,   \* indexer.restartThreshold
    RestartTimeWindow,  \* indexer.restartTimeWindow
    Faults              \* what may go wrong, see below

\* "cursor": RollbackCursor may fail;
\* "start":  the pipeline of a new indexer may not start;
\* "again":  the strategy may ask again while a restart is under way, or
\*           for what it still gets of the old stream.  (The code asks at
\*           every block from the third mismatch on; see Settled.)

ASSUME ManagerBounds ==
    /\ {MaxSlot, MaxMailbox, MaxRequests, MaxTime} \subseteq Nat
    /\ {MismatchLimit, RestartThreshold, RestartTimeWindow} \subseteq Nat \ {0}
    /\ Faults \subseteq {"cursor", "start", "again"}

Slots == 0 .. MaxSlot
Times == 0 .. MaxTime

Event == [kind : {"block", "rollback"}, slot : Slots]
Message == Event \cup [kind : {"restart"}, slot : Slots] \cup [kind : {"load"}]
Restart == [slot : Slots, full : BOOLEAN, at : Times]

VARIABLES
    now,
    mailbox,            \* of the manager
    restartHistory,     \* timestamps of the restarts in the window
    tracked,            \* strategyInstances holds the strategy
    pc,                 \* how far handleIndexerRestartRequest is
    restarts,           \* every restart decided so far, for the properties
    running,            \* which of the actors "indexer" and "strategy" run
    inbox,              \* events waiting for the strategy
    lastIndexed,        \* lastSuccessfullyIndexedSlot of the strategy
    mismatches,         \* trieRootMismatchCount of the strategy
    position,           \* the last block that the indexer streamed
    cursor,             \* the table cursor, by id
    asked,              \* restarts asked for
    callFailed          \* a call of the manager failed

historyVars == <<now, restartHistory, restarts>>
strategyVars == <<inbox, lastIndexed, mismatches, asked>>
vars == <<historyVars, mailbox, tracked, pc, running, strategyVars, position, cursor,
          callFailed>>

TypeOK ==
    /\ now \in Times
    /\ mailbox \in Seq(Message)
    /\ restartHistory \in Seq(Times) /\ Len(restartHistory) < RestartThreshold
    /\ tracked \in BOOLEAN
    /\ pc \in {"idle", "poisoning", "cursor", "stopIndexer", "startIndexer", "startStrategy"}
    /\ restarts \in Seq(Restart)
    /\ running \subseteq {"indexer", "strategy"}
    /\ inbox \in Seq(Event)
    /\ lastIndexed \in Slots
    /\ mismatches \in 0 .. MismatchLimit
    /\ position \in Slots
    /\ cursor \in Seq(Slots)
    /\ asked \in 0 .. MaxRequests
    /\ callFailed \in BOOLEAN

CursorUpTo(slot) == Only(cursor, 0 .. slot)
LatestCursor == IF cursor = <<>> THEN 0 ELSE Last(cursor)

\* The empty database: main.go takes the intercept point as start, and its
\* LoadStrategyCommand is the manager's first message.
Init ==
    /\ now = 0
    /\ mailbox = <<[kind |-> "load"], [kind |-> "rollback", slot |-> 0]>>
    /\ restartHistory = <<>>
    /\ tracked = FALSE
    /\ pc = "idle"
    /\ restarts = <<>>
    /\ running = {"indexer"}
    /\ inbox = <<>>
    /\ lastIndexed = 0
    /\ mismatches = 0
    /\ position = 0
    /\ cursor = <<>>
    /\ asked = 0
    /\ callFailed = FALSE

Tick ==
    /\ now < MaxTime
    /\ now' = now + 1
    /\ UNCHANGED <<mailbox, restartHistory, restarts, tracked, pc, running, strategyVars,
                   position, cursor, callFailed>>

-----------------------------------------------------------------------------
(* The indexer and the strategy.                                           *)

StreamBlock ==
    /\ "indexer" \in running
    /\ position < MaxSlot
    /\ Len(mailbox) < MaxMailbox
    /\ position' = position + 1
    /\ mailbox' = Append(mailbox, [kind |-> "block", slot |-> position'])
    /\ UNCHANGED <<historyVars, tracked, pc, running, strategyVars, cursor, callFailed>>

\* The blocks that arrive are of the stream that the indexer sends now.
Settled ==
    /\ pc = "idle"
    /\ \A i \in 1 .. Len(mailbox) : mailbox[i].kind = "block"
    /\ \A i \in 1 .. Len(inbox) : inbox[i].kind = "block"

\* A block is indexed, and the roots agree or not.  (A fresh strategy cuts
\* the cursor at its first block, to the slot it was just cut to: a no-op.)
\* From the third mismatch in a row on, each asks for a restart at the
\* block before it.
HandleBlock ==
    /\ "strategy" \in running
    /\ inbox # <<>>
    /\ Head(inbox).kind = "block"
    /\ inbox' = Tail(inbox)
    /\ lastIndexed' = Head(inbox).slot
    /\ cursor' = Append(cursor, lastIndexed')
    /\ UNCHANGED <<historyVars, tracked, pc, running, position, callFailed>>

\* No comparison away from the tip.  (A block is not handled twice by one
\* strategy without a rollback in between.)
PassBlock ==
    /\ HandleBlock
    /\ UNCHANGED <<mailbox, asked, mismatches>>

RootsAgree ==
    /\ HandleBlock
    /\ mismatches' = 0
    /\ UNCHANGED <<mailbox, asked>>

RootMismatch ==
    /\ HandleBlock
    /\ mismatches + 1 < MismatchLimit
    /\ mismatches' = mismatches + 1
    /\ UNCHANGED <<mailbox, asked>>

TriggerIndexerRestart ==
    /\ HandleBlock
    /\ mismatches + 1 >= MismatchLimit
    /\ Settled \/ "again" \in Faults
    /\ asked < MaxRequests
    /\ asked' = asked + 1
    /\ mismatches' = MismatchLimit
    /\ mailbox' = Append(mailbox, [kind |-> "restart", slot |-> lastIndexed])

HandleRollback_KeepsCursor ==
    /\ "strategy" \in running
    /\ inbox # <<>>
    /\ Head(inbox).kind = "rollback"
    /\ inbox' = Tail(inbox)
    /\ UNCHANGED <<historyVars, mailbox, tracked, pc, running, lastIndexed,
                   mismatches, asked, position, cursor, callFailed>>

\* The first event of a stream is a rollback to its intersection.
HandleRollback ==
    /\ "strategy" \in running
    /\ inbox # <<>>
    /\ Head(inbox).kind = "rollback"
    /\ inbox' = Tail(inbox)
    /\ cursor' = CursorUpTo(Head(inbox).slot)
    /\ UNCHANGED <<historyVars, mailbox, tracked, pc, running, lastIndexed,
                   mismatches, asked, position, callFailed>>

-----------------------------------------------------------------------------
(* The manager.                                                            *)

Receives(kind) ==
    /\ pc = "idle"
    /\ mailbox # <<>>
    /\ Head(mailbox).kind = kind
    /\ mailbox' = Tail(mailbox)

\* broadcastToStrategies; without a strategy the event is gone.
Forward ==
    /\ Receives("block") \/ Receives("rollback")
    /\ inbox' = IF tracked THEN Append(inbox, Head(mailbox)) ELSE inbox
    /\ UNCHANGED <<historyVars, tracked, pc, running, lastIndexed, mismatches, asked,
                   position, cursor, callFailed>>

LoadStrategy ==
    /\ Receives("load")
    /\ tracked' = TRUE
    /\ running' = running \cup {"strategy"}
    /\ UNCHANGED <<historyVars, pc, strategyVars, position, cursor, callFailed>>

\* addRestartRecord, with cleanupOldRestartRecords.
WithRecord == Only(Append(restartHistory, now), {t \in Times : t + RestartTimeWindow > now})

ShouldDoFullReset_Above == Len(WithRecord) > RestartThreshold
ShouldDoFullReset == Len(WithRecord) >= RestartThreshold

\* The restart is recorded and its point chosen.  When the strategy that
\* asked is not tracked any more, that is all.
BeginRestart_KeepsHistory ==
    /\ Receives("restart")
    /\ restartHistory' = WithRecord
    /\ restarts' = Append(restarts, [full |-> ShouldDoFullReset, at |-> now,
                        slot |-> IF ShouldDoFullReset THEN 0 ELSE Head(mailbox).slot])
    /\ pc' = IF tracked THEN "poisoning" ELSE "idle"
    /\ UNCHANGED <<now, tracked, running, strategyVars, position, cursor, callFailed>>

BeginRestart ==
    /\ Receives("restart")
    /\ restartHistory' = IF ShouldDoFullReset THEN <<>> ELSE WithRecord
    /\ restarts' = Append(restarts, [full |-> ShouldDoFullReset, at |-> now,
                        slot |-> IF ShouldDoFullReset THEN 0 ELSE Head(mailbox).slot])
    /\ pc' = IF tracked THEN "poisoning" ELSE "idle"
    /\ UNCHANGED <<now, tracked, running, strategyVars, position, cursor, callFailed>>

StrategyStopped_NoWait ==
    /\ pc = "poisoning"
    /\ tracked' = FALSE
    /\ pc' = "cursor"
    /\ UNCHANGED <<historyVars, mailbox, running, strategyVars, position, cursor, callFailed>>

\* poisonAndWaitForStrategy: what was forwarded to it is handled first.
StrategyStopped ==
    /\ pc = "poisoning"
    /\ inbox = <<>>
    /\ running' = running \ {"strategy"}
    /\ tracked' = FALSE
    /\ pc' = "cursor"
    /\ UNCHANGED <<historyVars, mailbox, strategyVars, position, cursor, callFailed>>

restartSlot == Last(restarts).slot

RollbackCursor ==
    /\ pc = "cursor"
    /\ cursor' = CursorUpTo(restartSlot)
    /\ pc' = "stopIndexer"
    /\ UNCHANGED <<historyVars, mailbox, tracked, running, strategyVars, position, callFailed>>

\* The handler returns, with the strategy gone and the indexer as it was.
RollbackCursorFails ==
    /\ "cursor" \in Faults
    /\ pc = "cursor"
    /\ pc' = "idle"
    /\ callFailed' = TRUE
    /\ UNCHANGED <<historyVars, mailbox, tracked, running, strategyVars, position, cursor>>

StopIndexer ==
    /\ pc = "stopIndexer"
    /\ running' = running \ {"indexer"}
    /\ pc' = "startIndexer"
    /\ UNCHANGED <<historyVars, mailbox, tracked, strategyVars, position, cursor, callFailed>>

StartIndexer_InPlace ==
    /\ pc = "startIndexer"
    /\ running' = running \cup {"indexer"}
    /\ pc' = "startStrategy"
    /\ UNCHANGED <<historyVars, mailbox, tracked, strategyVars, position, cursor, callFailed>>

\* The new indexer resumes from the latest cursor point.
StartIndexer ==
    /\ pc = "startIndexer"
    /\ running' = running \cup {"indexer"}
    /\ position' = LatestCursor
    /\ mailbox' = Append(mailbox, [kind |-> "rollback", slot |-> position'])
    /\ pc' = "startStrategy"
    /\ UNCHANGED <<historyVars, tracked, strategyVars, cursor, callFailed>>

\* The pipeline does not start: the indexer panics, and after its last
\* restart by the engine it is gone.  The manager is not told.
StartIndexerFails ==
    /\ "start" \in Faults
    /\ pc = "startIndexer"
    /\ pc' = "startStrategy"
    /\ callFailed' = TRUE
    /\ UNCHANGED <<historyVars, mailbox, tracked, running, strategyVars, position, cursor>>

\* spawnFreshStrategyActor.
StartStrategy ==
    /\ pc = "startStrategy"
    /\ running' = running \cup {"strategy"}
    /\ tracked' = TRUE
    /\ lastIndexed' = restartSlot
    /\ mismatches' = 0
    /\ pc' = "idle"
    /\ UNCHANGED <<historyVars, mailbox, inbox, asked, position, cursor, callFailed>>

-----------------------------------------------------------------------------
Manager ==
    \/ Forward \/ LoadStrategy
    \/ BeginRestart \/ StrategyStopped \/ RollbackCursor \/ RollbackCursorFails
    \/ StopIndexer \/ StartIndexer \/ StartIndexerFails \/ StartStrategy

Strategy == PassBlock \/ RootsAgree \/ RootMismatch \/ TriggerIndexerRestart \/ HandleRollback

Next == Tick \/ StreamBlock \/ Strategy \/ Manager

\* The engine keeps scheduling actors that have messages; the clock and the
\* requests are free.
Spec == Init /\ [][Next]_vars
FairSpec == Spec /\ WF_vars(StreamBlock) /\ WF_vars(Strategy) /\ WF_vars(Manager)

-----------------------------------------------------------------------------
(* Properties.                                                             *)

\* The breaker trips: restartThreshold restarts in a row within the time
\* window include a full reset, whatever failed and whenever history was
\* cleared or expired.  (Restarts never loop on a point that does not help.)
BreakerTrips ==
    \A i \in 1 .. Len(restarts) : LET j == i + RestartThreshold - 1 IN
        j <= Len(restarts) /\ restarts[j].at < restarts[i].at + RestartTimeWindow
            => \E n \in i .. j : restarts[n].full

\* The new indexer and the fresh strategy start from a cursor that nobody
\* moves: from the cut of the cursor to the spawn of the strategy the old
\* strategy has stopped, with all that was in its mailbox, and no point is
\* past the restart slot.
NothingPastRestartPoint ==
    pc \in {"stopIndexer", "startIndexer", "startStrategy"} =>
        /\ "strategy" \notin running
        /\ \A i \in 1 .. Len(cursor) : cursor[i] <= restartSlot

\* handleIndexerRestartRequest says "restarting from last successfully
\* indexed position": unless a call failed before, the new indexer resumes
\* behind a point up to which every block has been indexed.
ResumesBehindIndexed ==
    pc = "startIndexer" /\ ~callFailed => ToSet(cursor) = 1 .. LatestCursor

\* Restarts lose no block: unless a call of the manager failed, both actors
\* run again in the end and every block of the chain has been indexed.
EventuallyCaughtUp ==
    <>[](\/ callFailed
         \/ running = {"indexer", "strategy"} /\ ToSet(cursor) = 1 .. MaxSlot)
=============================================================================
