# Merkle Oracle Node: specification

TLA+ modules of the Merkle Oracle Node, the TLC configurations that check them
on small instances, and theorems about them that TLAPS checks. Paths are
relative to the repository; `strategy.go` is short for
`internal/strategy/chain_event_processor_strategy.go`.

## The system

The node follows a Cardano chain and keeps a key/value oracle whose Merkle root
lives in the datum of one UTxO. Each update of the oracle is a `recreate`
transaction that spends this UTxO; its data is a file in cloud storage.

| Part | State | Operations | Who calls it |
|---|---|---|---|
| Trie store (`internal/database`) | the oracle tables; a process-wide Merkle trie in memory | `ApplyOracleFile`, `Rollback` (`rollback_to_slot`, then `LoadTrieFromDB`), `RollbackCursor`, `AddCursorPoint`, state queries | strategy, manager, API |
| Indexer (`internal/actors/indexer.go`) | the pipeline, `tipReached` | streams blocks, transactions, rollbacks from the intersection with the cursor points | sends events to the manager |
| Strategy manager (`internal/actors/strategy_manager.go`) | the strategy actor, its configuration, the restart history | forwards events; restarts indexer and strategy on request; full reset when restarts are frequent | mailbox |
| Chain event processor (`strategy.go`) | failure flag, start slot, transaction counts and processed blocks, mismatch count; process-wide: pending transactions and the validator UTxO (`globals.go`) | one handler per event; indexes transactions, at the tip builds and submits the next one | mailbox |
| Oracle files (`strategy.go`) | none of their own | the difference of fetched data and tables, the file and its root, the read with retries, validation, entries | strategy |
| Canonical values (`internal/database/trie.go`) | none | canonical JSON and hashes | strategy, trie store |
| Transaction builder (`internal/tx`) | none | builds the recreate transaction | strategy |
| Providers, cloud, oracle data | remote | fetch, upload, submit, read | strategy, builder |
| HTTP API (`internal/api`) | none | reads values, histories and proofs | concurrent with the strategy |
| Program start (`cmd/node/main.go`) | the start point | spawns the manager, loads the strategy 100 ms later | |
| Logging, metrics, notifier, wallet, configuration | settings | I/O | |

Actors exchange messages through FIFO mailboxes and run concurrently; the
strategy is the only writer of the oracle tables and of the memory trie, the
manager also rewrites the cursor. The hard parts are the steps that are saved
separately (file, cursor, transaction), the memory trie that changes inside a
database transaction, one rollback statement whose parts all read the same
snapshot, chain forks at any moment, process-wide caches that outlive the
actor, restarts of actors while their events are under way, and calls that fail.

What makes each part correct:

* **Trie store** – current values are a replay of the recorded operations; the
  memory trie equals them; no value that is still needed is collected;
  provenance of objects follows the files that are left; seen from outside it
  is a history that grows at the end and is cut by rollbacks.
* **Stream and processor** – wherever the process stops, nothing confirmed is
  lost and nothing is applied twice or out of order; a drained queue means an
  indexed chain; indexing stops only for a reason; what is built matches what
  it spends; everything confirmed is eventually indexed.
* **Manager** – a restart hands a settled cursor to the new actors and skips no
  block; restarts in a row include a full reset when they are frequent.
* **Oracle files** – the published root is that of the data; a confirmed file
  leaves the state its root commits to, or somebody is told; equal values have
  one hash, however they are written.
* **API** – a proof is never of a state older than the value it is served with;
  a slot names a state of the object during the call; the queries agree; paging
  misses nothing.

## Modules

`OracleHistory` is the abstract store: a current state and, for each slot, the
state the oracle had then. An update is added at the end, a rollback cuts.

`TrieStore` is `internal/database`.

| TLA+ | Code |
|---|---|
| `trie` | rows of `trie` with their `oracle_file`, `trie_operation` and `trie_operation_key` rows |
| `key`, `value`, `firstSeen`, `lastSeen` | `key.current_value_hash`, table `value`, `object.first_/last_seen_file_id` |
| `memoryTrie` | the trie of `trie.go` |
| `BeginApply`, `ApplyPut`, `ApplyDelete`, `CommitApply`, `AbortApply` | `ApplyOracleFile`: cid check, entry by entry in the memory trie, the rest of the transaction with the trigger, or its abort |
| `RollbackToSlot`, `LoadTrie`, `LoadTrieFails` | `rollback_to_slot` in one step, then the reload |
| `Restart` | the process stops and `New` loads the trie |

The parts of `rollback_to_slot` read the tables as they were before the
statement. Hence `Referenced` looks at doomed rows too, and `RestoredFirst` and
`RestoredLast` first pick a file among all and then lose it when it is deleted.
A value and its hash are one element of `Values`; `Canonical` has the encoding.
`Produced` says that a batch inserts keys without a value and updates keys with
one: this is what `validateTrieOperations` accepts (`OracleFile`).

`ReadApi` puts `internal/api` beside `TrieStore`. A handler takes no lock and no
transaction over its statements, so one action is one statement or one look at
the memory trie, and any step of the writer falls between two.

| TLA+ | Code |
|---|---|
| `objects` | the rows of `object`, which no rollback deletes |
| `seenAt` | `trie.blockchain_confirmed_at`, by row |
| `call` | the call in progress and what it has read so far |
| `CurrentValues`, `ValuesAtSlot`, `ValuesAtTimestamp` | the three queries of `handleGetObjectByID` |
| `ReadObject`, `ReadObjectSlot`, `ReplyObject` | `GetObjectCurrentValuesWithTimestamp` for an object without values: the values, then the slot by a statement of its own, or 0 when that fails |
| `KeySlot` | the slot served by `GetValueByKey` and `GetValueHashByKeyHash` |
| `ReadValueHash`, `ProveTrie` | `GetValueHashByKeyHash`: the row, then the proof |
| `StartWalk`, `ReadPage`, `EndWalk` | a client that reads `/objects` until a page is not full, with `parsePageParams` |
| `CountObjects`, `CountActive`, `ReadDeletedPage` | `GetDeletedObjectIDs` |
| `CallFails` | a statement or the proof fails |

Queries of one statement change nothing and are operators on the tables, as are
the refusals of a request (`GetObjectCurrentValuesWithTimestamp` is one when the
object has values). `blockchain_confirmed_at` is the moment the indexer saw the
transaction: a new row has the time of the rows there are, or a later one. Only
the order of times counts, so the first row has time 0. `held` in a call is a
history for the properties: what the key or the object has had since the call
began, in the tables or, for a key, in the file being applied (`Observe`).

`Canonical` is `CanonicalizeJSON`: numerals and strings that are numerals become
reduced fractions, other scalars stay, arrays and objects (one level deep) are
taken element by element. A canonical value stands for its Blake2b hash. A
numeral is its sign, digits, decimals and exponent; `math/big` is external.

`OracleFile` extends it to the way of one file after the other.

| TLA+ | Code |
|---|---|
| `Item`, `Data` | what `Fetch` returns, after the choice of the objects |
| `diffTrieOpsCore`, `applyTrieOperations`, `Build` | the difference, the trie it is applied to, the uploaded payload |
| `ReceiveTx`, `SkipTx` | a transaction of the oracle, or one with the null root |
| `ReadCloud`, `ReadCloudFails`, `Delay` | `retryWithExponentialBackoff` |
| `RefersToKnown`, `Previous`, `validateTrieOperations` | `getStateFromDB` and the validation |
| `PutKeys`, `DeleteKeys`, `Entries`, `Undeletable`, `IndexFile`, `IndexFileFails` | the entries and what `ApplyOracleFile` makes of them |
| `Rollback`, `Restart` | the tables go back; the failed transaction comes again |

A file is built on *any* state, since another node or this one before a rollback
may have built it; a Merkle root is the state it is the digest of, the null root
the empty state. An operation list is a map, because the last of several entries
for a key counts wherever the code reads one. `keyRows` are the rows of `key`,
which stay when a key is deleted or rolled back: an entry that deletes a key
needs one. A Duration has a greatest value, and a float that exceeds it becomes
the least one (amd64) or the greatest (arm64).

`ChainStream` is the environment (chain, forks, transactions of this and other
nodes) with the indexer and the event queue, which stands for the mailboxes of
indexer, manager and strategy. `ChainEventProcessor` extends it with the
strategy actor, the caches of `globals.go`, the cursor table and the restart
that the manager performs. The tables are abstracted to the list of files
applied; a Merkle root to the list of files behind it.

| TLA+ | Code |
|---|---|
| `DetectRollbackCursor`, `DetectRollback` | `IndexerBlockEvent`, offline-rollback detection: the cut of the cursor, then of the tables |
| `ReceiveBlock` | the rest of it: count, zero-transaction cursor |
| `StatusEvent` | `IndexerStatusEvent`: the start slot moves to the slot at which the progress bar begins |
| `ReceiveOtherTx`, `ApplyTx`, `ApplyTxFails` | `processTransactionEvent` |
| `CountTx`, `CountLastTx`, `CountMissing` | what `Receive` does after it: count down, cursor |
| `PassBlock`, `RequestRestart`, `SkipUpdate`, `SubmitUpdate`, `UpdateFails` | `processBlockEvent` and `processBlockTipReached`; in each the two garbage collections run first |
| `RollbackCursor`, `Rollback`, `RollbackFails` | `processRollbackEvent`, its two database writes as two steps |
| `DropEvent` | the early returns on `processingFailed` |
| `Crash` | the process stops between any two steps; start as in `main.go` |
| `ManagerRestart` | `handleIndexerRestartRequest` |

The event at the head of the queue is removed when its handler returns; `pc`
says how far the handler is, so that a stop can fall between its writes. Only
the offline-rollback detection reads `startSlot`, at the first block; it is 0
from then on. `StatusEvent` is wider than the code: it may happen more than once,
and after the tip is reached.

`StrategyManager` looks into the restart that `ChainEventProcessor` takes as one
step. The chain has no fork and the strategy is reduced to the cursor point it
saves for each block and the mismatches it counts; what it adds are the steps
of the manager beside a strategy that drains its mailbox and an indexer that
streams on, time, and the calls of the manager that fail.

| TLA+ | Code |
|---|---|
| `Forward`, `LoadStrategy` | `broadcastToStrategies`, `loadStrategy` |
| `BeginRestart` | `addRestartRecord`, `shouldDoFullReset` and the choice of the restart point |
| `StrategyStopped` | `poisonAndWaitForStrategy`: returns when the mailbox of the strategy is drained |
| `RollbackCursor`, `RollbackCursorFails` | the cut of the cursor table, or the early return |
| `StopIndexer`, `StartIndexer`, `StartIndexerFails` | the indexer is poisoned and a new one spawned, which resumes at the latest cursor point or does not come up |
| `StartStrategy` | `spawnFreshStrategyActor` |
| `PassBlock`, `RootsAgree`, `RootMismatch`, `TriggerIndexerRestart`, `HandleRollback` | the strategy |

`pc` says how far `handleIndexerRestartRequest` is; the manager takes no other
message meanwhile. `restarts` is a history variable for the properties. Roots
that agree or not are a choice: which of the two depends on what the tables and
the chain hold, which `ChainEventProcessor` models.

`SeqSelect` has the selection of rows that both rollbacks are made of, as a
recursive function on the length of a table: the provers can unfold it, which
they cannot do with `SelectSeq`.

`ChainEventProcessor` and `TrieStore` meet in two facts. The processor shows
(`TablesInOrder`, proved as `TablesStayInOrder`) that files are applied in
strictly growing slots: this is the guard of `TrieStore!BeginApply` with `MinSlotGap = 1`. `TrieStore` shows that
applies and rollbacks by slot have the effect that `Append` and `RowsUpTo` have
in the processor.

## Runs

| Run | Shows | Instance |
|---|---|---|
| `TrieStore` | type, `KeyTableIsReplay`, `MemoryFollowsTables`, `NoDanglingValue`, `ProvenanceIsSound`, and that the store implements `OracleHistory` | two keys of two objects, two values, three slots, three files, any rollback, abort and restart |
| `Processor` | `ResumeLosesNothing`, `IndexedWhenDrained`, `NeverFails`, `EventuallyIndexed` | height 3, one fork, two oracle transactions, one process stop, queue of 3, all calls succeed |
| `ProcessorCallFaults` | `TablesInOrder` when any call may fail | height 3, one fork, one stop, queue of 2, no restart by the manager |
| `ProcessorLateRestart` | `TablesInOrder` when restarts are served late | height 4, no fork, a restart at the first mismatch |
| `SecondRestart` | **violated**, see below: two restarts in a row lose a transaction | height 6, no fork, two oracle transactions, one stop, queue of 2 |
| `Manager` | `BreakerTrips`, `NothingPastRestartPoint`, `ResumesBehindIndexed`, `EventuallyCaughtUp` | four blocks, four requests, a clock of 0 .. 3 with a window of 2 and a threshold of 2, a failing call anywhere |
| `OracleFile` | `HashDecidesValue`, `RootIsOfData`, `ValidFileIndexesItsRoot`, `FailsOnlyOnReported`, `BackoffGrows` | two keys, a number written two ways and a text, up to two items, two files, four attempts; hashes over some 600 values |
| `ReadApi` | `QueriesAgree`, `WalkSeesAll`, `DeletedNotOvercounted`, `SlotIsOfTheCall`, `ProofIsNotOlder` | three keys of two objects, one value, two slots, two files, two times, pages of one and two |
| `ZeroTxBlock`, `EarlyEvents`, `BuildBase`, `NullRootFile` | **violated**, see below | the smallest instances that reach them |

Bounds. `MaxHeight`, `MaxForks`, `MaxTxs`, `MaxCrashes`, `MaxMailbox` bound the
chain, its forks, the transactions, the stops and the queue; `MaxSlot` and
`MaxApplies` the store. A height of 3 has a stable block, a block that a fork
removes and a block on it; two oracle transactions make a chain of two files, or
two that compete for one output after a fork. Three files in three slots give
a key an insert, an update and a delete, each of which a rollback can cut. The
queue of 3 holds a block with both its transactions, or one of them with a
rollback behind it, the queue of 2 still a rollback behind a block. The configuration values
(`txExpirationBlockNumber`, three mismatches, the finality window of 129600
slots) are small so that expiry, restart and the wrap of the unsigned
subtraction in `strategy.go:890` all happen. Deadlock is not checked on the
processor: its bounded chain ends, and then nothing is left to do. Values and
cids are symmetric in the store's runs, keys in that of the files; the runs
with liveness use no symmetry.

In `OracleFile`, two items can be of one object, two files make a deletion after
an insertion, and with a rollback in between a deletion of a key that has a row
and no value. Four attempts, an initial delay of 1, a maximum of 2 and a Duration
of at most 3 have the delay grow, reach the cap and leave the Duration. The
numerals have two signs, ten digit strings, up to two decimals, exponents of
either sign and one that does not parse. In `ReadApi`, one value is enough: a
proof of another root then is one of absence (which the trie library may refuse:
then it is `CallFails`). The two objects fill two pages of one, and one of two;
two files are of one time or of two.

The constant `Faults` chooses what may go wrong. `call`: a call of the database, the
cloud or a provider fails. `early`: events arrive before the strategy is
loaded. `late`: the manager serves a restart request only after the strategy
has handled more. Without `late` a request is served before the next block is
handled, which is the usual order because the manager does little else.

In `StrategyManager`, `cursor` lets `RollbackCursor` fail, `start` keeps a new
indexer from coming up, and `again` lets the strategy ask while a restart is
under way or queued or blocks of the old stream have yet to arrive. Without
`again` it asks only when things are settled; this is what the code relies on
(it asks at every block from the third mismatch on, and nothing removes the
requests and events that are queued), and `SecondRestart` shows what follows
when it is not so. `MaxSlot`, `MaxMailbox`, `MaxRequests` and `MaxTime` bound it;
with four requests and a threshold of two the breaker trips, is cleared, and
trips again, and the clock lets records expire between any two.

Fairness, in `FairSpec`: weak fairness of the indexer's sends, of the handlers
and of the manager (`ManagerRestart`, `Manager`). The actor engine schedules every actor with a
non-empty mailbox, and the pipeline reconnects by itself. Nothing is assumed of
the chain, of stops, or that a transaction is ever submitted. An update that is
due may always be skipped.

## Divergences

* `ZeroTxBlock`: after a failure transactions and rollbacks are dropped, but a
  block without transactions still saves its cursor point (`strategy.go:677`).
  The next start of the process resumes behind the dropped transactions. When
  it was a rollback that failed, the tables may come to hold two files that
  spend the same output.
* `EarlyEvents`: the rollback event of the intersection is dropped when the
  strategy is not loaded yet (`main.go:219`), and the check at the first block
  (`strategy.go:652`) rolls back to the old start slot, not below the block.
* `BuildBase`: the UTxO cache is not cleared by a rollback, and with a pending
  transaction the comparison of the roots is skipped (`strategy.go:910`). A
  transaction is built whose root does not follow from its input's.
* `NullRootFile`: data without items makes a file with the null root, whose
  transaction the indexer passes over (`strategy.go:1295`). The next file refers
  to it, `getStateFromDB` does not find it, and the processor fails on that
  transaction after every restart. When the tables were not empty, they keep
  the keys that the file deletes, and the root on chain differs from theirs.
* `SecondRestart`: the manager logs "restarting from last successfully indexed
  position" (`strategy_manager.go:500`), but serves every request in its mailbox,
  since a fresh strategy has the PID of the one it replaces
  (`poisonAndWaitForStrategy`). In the run, a strategy that differs from the
  chain asks for a restart, which is a full reset; two blocks of the old stream
  reach the fresh strategy ahead of the rollback event to the intercept point, their
  points get into the cursor, it still differs, and asks again at one of
  them. That restart resumes there; then the two queued rollbacks empty the
  tables, and the blocks before the second point are not streamed again.
  `src/README.md:9` promises "Once the transaction is confirmed, the node will index
  it to the local database". The next transaction builds on a file that is
  not there, and the processor fails on it. In the same instance TLC finds `NeverFails`
  and `ResumeLosesNothing` violated too. It takes six blocks, which is why
  `Processor`, with three, does not reach it. In `StrategyManager` the same hazard
  is the fault `again`: with it, five blocks, three requests, no clock and a
  threshold of four, TLC finds `ResumesBehindIndexed` violated.
* Without a run: `last_ops` in `rollback_to_slot` (`models.go:180`) does not order
  by the trie row, `GetStateMapAtSlot` (`operation.go:361`) does. With two updates
  in one slot a rollback to it may restore the older value; `KeyTableIsReplay`
  fails when `MinSlotGap` is 0 in `MCTrieStore.cfg`.
* Without a run: a restart between a block event and its transactions leaves the
  fresh actor without their count ("this should never happen", `strategy.go:726`);
  it fails and stays failed. `ProcessorLateRestart` reaches it (`CountMissing`),
  and `NeverFails` is not among its properties for that reason.
* Without a run: with the retries of `config.example.yaml:59` (50 attempts from
  10 s) the doubled delay exceeds a Duration from the 31st attempt on. On amd64
  it then is negative, no longer capped, and the remaining attempts follow each
  other at once. `BackoffGrows` states both outcomes.
* Without a run: the doc of `GetObjectCurrentValuesWithTimestamp` says that time
  and slot are those of the "most recent blockchain operation affecting this
  object" (`operation.go:488`). For an object without values they come from a
  second statement, so an answer without values may carry the slot of a file that
  gave it some meanwhile. `SlotIsOfTheCall` states what a client can rely on.
* Without a run: the doc of `GetObjectValuesAtTimestampWithSlot`
  (`operation.go:696`) speaks of the greatest slot among the contributing
  operations; deletes are not counted. `QueriesAgree` states what is served.
* Without a run: an object is looked up by the text of its `drumId` among
  canonical values (`strategy.go:982`). A `drumId` that is a number is stored as a
  fraction, is not found, and the drum gets a new object at every update.
* Without a run: `src/README.md:76` says that the breaker resets when there are
  *more than* `restartThreshold` restarts in the window; `shouldDoFullReset`
  (`strategy_manager.go:431`) resets at the `restartThreshold`-th.
  `BreakerTrips` states what the code does.

Of the same kind, and outside the runs: a restart by the manager of a processor
that has *failed* (the request was sent before the failure). The tables may then
hold rows of a fork that is gone, because the rollback failed or was dropped, and
the fresh processor handles what the old indexer sent before the rollback that
starts the new stream: with a fork, `TablesInOrder` fails. The same happens when
that first rollback is lost (`early`). These are the only ways: without them
`TablesStayInOrder` proves it. (`ProcessorCallFaults` has no restart by the
manager, `ProcessorLateRestart` no fork, for that reason.) And a stale UTxO
cache survives a restart by the manager and a full reset; the mismatch it causes
ends only with the process.

## Proofs

Each component has its proofs in a module of its own (`...Proofs`); they hold for
every value of the constants that the named assumptions of the component admit,
so for any number of blocks, forks, files, keys, requests and attempts. `Lemmas`
has what several of them use: a non-empty set of naturals has a least element,
which stands in for induction (the library's induction theorems take an operator
that the provers cannot instantiate), and from it what `Only` returns: it is of
the type of its argument, keeps an appended row or not, and is a prefix of a
table whose rows are in order.

`TrieStoreProofs`:

* `TypeCorrect`: `TypeOK`, with `RowsInOrder` (rows are numbered in slot order)
  and `JobIsNewest` (the batch being applied will be the newest row). The three
  are inductive together: a commit keeps rows in order because its batch was
  checked to be newest when it began, and nothing else adds rows meanwhile.
* `KeyTableReplay`, for `MinSlotGap = 1`: at each commit the new row is the last
  one of each key it names; at a rollback the last kept operation of a key is
  what `last_ops` finds, since slots of rows differ (`LastOpIsLastAt`), and a
  key that no doomed row names keeps its value (`RollbackReplay`).
* `StoreImplementsHistory`, for `MinSlotGap = 1`: step by step, `CommitApply`
  maps to `Publish`, `RollbackToSlot` to `RollBack`, all else to a stutter.
* `NoValueLost`: a restored value is one that a kept row refers to, and
  `Referenced` of the snapshot contains those.
* `MemoryFollows`: the memory trie differs from the table by the entries that
  are no longer in `job.todo`.
* `ProvenanceHolds`: a rollback that deletes the first file of an object leaves
  none that names it, since the first is the earliest and later rows go too.

`MinSlotGap = 1` is needed: with 0, TLC finds a counterexample.

`ReadApiProofs` build on them, since the reader changes nothing the writer reads:

* `ReadTypeCorrect`; `DeletedTotalBounded` from the fact that objects are never
  deleted, so that those counted first are still there at the second count.
* `ProofNeverOlder`, by the invariant `ProofHeld`: from the read of the value on,
  until the call ends, the entry of its key in the memory trie is one that the
  key has had since, as long as the trie was settled when the call began. A file
  puts only what `held` takes from its entries (`EntryWritten`), an aborted file
  and a failed reload leave what it put, a reload copies the tables (`MemoryHolds`).
* `WalkSeesEverything`: every object that was there at the start and has not been
  returned has a rank of at least the offset (`WalkInv`). New objects only push
  ranks up; a page of `limit` rows takes those up to the new offset.
* `QueriesAlwaysAgree`, for `MinSlotGap = 1`: times grow with the rows, if not
  strictly (`TimesGrow`), and slots do; so the last operation of a key by time,
  slot and rank is the last by row (`OrdersAgree`, `BeforeByTime`), the row that
  is served as the latest is the latest (`FreshestRow`), and the key table is the
  replay. It assumes finitely many objects, with numbers for ids.
* `SlotOfTheCall`, for `MinSlotGap = 1`: the slot that the second statement reads
  is that of the last row of the object, at which it has its current values,
  and these are in `held` (`ObjectHeld`); slot 0 is the state of no values that
  the call read first.

`OracleFileProofs`, with `FileInv`: the file in progress is `Build` of its data and
previous state, a key with a value in a recorded state has a row, attempts are
counted, and there is room for the file.

* `FileTypeCorrect`; `RootOfData`: the last value that several items give to a key
  exists, and the difference applied to any state gives exactly the data.
* `ValidFileIndexed` and `FailsOnlyReported`: a file that the validation accepts
  deletes only keys that have a value, hence a row, in the state it is applied to.
* `BackoffIsMonotone`: doubling is monotone up to the cap.
* `HashStable`: making a value canonical twice is making it so once, which the
  indexer relies on. `NullAssumption` says that no value is the null of the model.

`StrategyManagerProofs`:

* `ManagerTypeCorrect`; `RestartPointIsSafe`: from the cut of the cursor to the
  spawn there is no strategy that could add a point (`StoppedFirst`).
* `BreakerAlwaysTrips`, for every threshold and window: times grow, and the history
  contains every restart of the window since the last full reset
  (`HistoryIsRecent`); so the restart that completes a run of `restartThreshold`
  counts as many and resets.
* `ResumesBehind`, for `"again" \notin Faults`: `StreamInv` says which of five
  situations manager, strategy and stream are in. A call failed; the strategy is
  not loaded; the stream is in step, so that the events under way continue the
  cursor without a gap; the cursor has been cut while the old stream's events are
  still under way; or the new stream's rollback is behind them. The assumption
  excludes what `SecondRestart` shows.

`ChainEventProcessorProofs`:

* `ProcessorTypeCorrect`: with `CepInv`, that what a block, an event or a row names
  was minted before, and that a handler under way has its event at the head.
* `TablesStayInOrder`, for `"early" \notin Faults` and behaviours in which the
  manager restarts no failed processor: `OrderInv`. From one rollback to the next
  the slots of the oracle transactions in the queue grow (`Grows`); those before
  the first rollback are later than every row (`AheadOf`); what the last rollback
  leaves is not ahead of the streamed blocks (`Behind`, `RowsBehind`), so a new
  block comes after all of it. A rollback then cuts a suffix of the rows, which
  keeps each behind the one it builds on. Call faults, late restarts, queued
  requests, stops at any step and any number of forks are included.

`ChainIndexingProofs` has what the processor promises when its services work
(`Faults = {}`, as in the run `Processor`): `ProcessorNeverFails`, `DrainedIsIndexed` and
`ResumeIsComplete`, for every chain, any number of forks, of process stops at any
step, of transactions of this and other nodes, and every length of the queue.
They follow from one invariant, `IndexInv`:

* Tables, cursor, counts and `failed` are not inductive alone, because they lag
  behind the stream by a queue in which blocks of one chain and rollbacks to
  another alternate. So a *place* is the chain of blocks that the handler has
  passed, and how many transactions of the last block it has not. There is a
  `Route`: a sequence of places, one more than the queue has events, such that
  each event takes its handler from one to the next (`Passes`), and the last is
  `view`, the streamed blocks. `SendBlock` and `SendRollback` append a place, a
  handler drops the first.
* At the first place (`At`), the tables are the oracle transactions of its
  blocks, the cursor points to blocks of it that are indexed completely, the
  count of its last block is the number of transactions still queued, and a
  queued request was made between blocks. `Here` is the second place while a
  handler that has indexed its event still builds a transaction.
* The chains of the places are chains that the node followed (`Followed`): the
  oracle transactions on them are in the order of their minting, and the output
  that each spends is of one before it on the same chain (`Linked`), so that the
  file it builds on is in the tables. Two followed chains that share a point
  share the blocks before it (`Agree`), so that the intersection of the cursor
  with a chain that has forked is a prefix of what the tables hold (`ResumePoint`).

Two assumptions. `Faults = {}`: with `early`, or when a call fails, `ResumeLosesNothing`
is false (`EarlyEvents`, `ZeroTxBlock`), and with `late` so is `NeverFails` (`CountMissing`).
And `[][SafeRestart]_vars`: when the manager restarts the processor, no rollback
event is queued, or the new stream starts behind the blocks that were streamed. The
first is the usual case, in which the fresh strategy has taken up the restart
before; then the second follows (`AheadWithoutRollback`). Without
the assumption the three are false (`SecondRestart`). It restricts
restarts only; the run `Processor` is stated without it, and
contains such second restarts on chains too short for them to lose anything.

Every inductive invariant was checked with TLC on the runs' instances first
(`IndexInv` with the route as a history variable).

Only model-checked: `HashDecidesValue` but for `HashStable`, because that `SetFrac`
gives equal fractions for equal numbers is number theory that needs induction on
`gcd`; and liveness (`EventuallyIndexed`, `EventuallyCaughtUp`), which is out of the
prover's reach.

## Not modelled

Blake2b and the trie library (a hash stands for what it is the hash of);
datum, redeemer and transaction encoding, fees,
collateral (an accepted transaction is one whose oracle input is unspent);
oracle transactions with another action than `recreate`; the choice of `object_id` for fetched items; the
rounding of JSON numbers to float64, and how long an exponent takes; the sum
of the fees; the caches of `connector_context.go`, which hold what does not
change on the chain or what only the fee estimate uses; the pruning of the cursor table to about 50 rows; supervised actor
restarts of the engine; `UnloadStrategyCommand`, which nothing sends, and the
manager's automatic restarts on `ActorStoppedEvent`, which the engine delivers to
subscribers of its event stream only; configuration, metrics, logging, notifier, wallet, HTTP.

Three places where the model is more willing than the code. `RollbackToSlot`
always succeeds; in the code its update of `last_seen_file_id` to a file that the
same statement deletes may meet the foreign key, and is then a rollback that
fails, which `ChainEventProcessor` has (`RollbackFails`). `SubmitUpdate` lets any
input through that is not spent; the code has the provider evaluate the
transaction (`connector_context.go:227`), which may refuse an input that is on no
chain, so the trace of `BuildBase` needs a provider that still knows the output
(it may be forged again on the fork). `StrategyManager` starts with the load
command ahead of the first event, which in the code comes 100 ms later
(`main.go:219`); `EarlyEvents` has the other order.

## Plan

Done: all modules and the proofs above. Next, in this order:

1. The bound of the cursor table in `ChainStream`.
2. Equal fractions of equal numbers (`HashDecidesValue`), from a statement of `gcd`
   that the provers can use.
3. A weaker condition than `SafeRestart`: a second restart loses something only
   when an oracle transaction lies between the two points.
