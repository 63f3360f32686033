------------------------------ MODULE TrieStore ------------------------------
(***************************************************************************)
(* internal/database: the PostgreSQL tables of the oracle and the          *)
(* process-wide Merkle trie kept in memory beside them.                    *)
(*                                                                         *)
(* One writer (the strategy actor) calls ApplyOracleFile, which changes    *)
(* the memory trie entry by entry while its database transaction is still  *)
(* open, and Rollback, which first commits rollback_to_slot and then       *)
(* reloads the memory trie.  The process may stop at any point and start   *)
(* again: the tables survive, the memory trie is loaded from them.         *)
(*                                                                         *)
(* A value hash and its value are one element of Values; a row of the      *)
(* table trie stands for the row, its oracle_file and the trie_operation   *)
(* and trie_operation_key rows that hang from it, which are created and    *)
(* deleted together.                                                       *)
(***************************************************************************)
EXTENDS Naturals

CONSTANTS
    Keys,           \* key hashes
    Values,         \* value hashes
    NULL,           \* SQL NULL; in the memory trie, no entry
    Cids,           \* content identifiers of oracle files
    Objects,        \* oracle objects, each the owner of some keys
    ObjectOf,       \* ObjectOf[k]: the object that owns key k
    MaxSlot,        \* bound: slots of the chain
    MaxApplies,     \* bound: rows ever created in the table trie
    MinSlotGap      \* 1: two oracle updates never share a slot; 0: they may

ASSUME NullAssumption == NULL \notin Values /\ NULL \notin Nat
ASSUME ObjectAssumption == ObjectOf \in [Keys -> Objects]
ASSUME BoundAssumption ==
    MaxSlot \in Nat /\ MaxApplies \in Nat /\ MinSlotGap \in {0, 1}

Slots == 0 .. MaxSlot
Ids == 1 .. MaxApplies

\* What one batch does to one key (OpType; "none": the batch does not name
\* the key).  A delete carries no value: the trigger on
\* trie_operation_key refuses one.
Op == [type : {"none", "delete"}, val : {NULL}]
        \cup [type : {"insert", "update"}, val : Values]
Batch == [Keys -> Op]

Row == [id : Ids, cid : Cids, slot : Slots \ {0}, ops : Batch]
Job == [cid : Cids, slot : Slots \ {0}, ops : Batch, todo : SUBSET Keys]
NoJob == [cid |-> NULL]

VARIABLES
    trie,           \* the rows of trie with their operations
    key,            \* key.current_value_hash; NULL also when there is no row
    value,          \* the rows of value
    firstSeen,      \* object.first_seen_file_id
    lastSeen,       \* object.last_seen_file_id
    nextId,         \* the next serial of oracle_file and trie
    memoryTrie,     \* the process-wide trie, as a map
    job,            \* the ApplyOracleFile call in progress
    pc,             \* what the writer is in the middle of
    stale           \* a call failed since the memory trie was last loaded

tables == <<trie, key, value, firstSeen, lastSeen, nextId>>
vars == <<tables, memoryTrie, job, pc, stale>>

TypeOK ==
    /\ trie \in SUBSET Row
    /\ key \in [Keys -> Values \cup {NULL}]
    /\ value \in SUBSET Values
    /\ firstSeen \in [Objects -> Ids \cup {NULL}]
    /\ lastSeen \in [Objects -> Ids \cup {NULL}]
    /\ nextId \in 1 .. MaxApplies + 1
    /\ memoryTrie \in [Keys -> Values \cup {NULL}]
    /\ pc \in {"idle", "applying", "reloading"}
    /\ job \in Job \cup {NoJob}
    /\ pc = "applying" <=> job \in Job
    /\ stale \in BOOLEAN

-----------------------------------------------------------------------------
(* The rows, and the orders the queries put them in.                       *)

Touches(r, k) == r.ops[k].type # "none"
Touching(rows, k) == {r \in rows : Touches(r, k)}

\* ORDER BY slot DESC, trie.id DESC: the order of GetStateMapAtSlot.
Later(q, r) == q.slot > r.slot \/ (q.slot = r.slot /\ q.id > r.id)

\* The row GetStateMapAtSlot reads for key k at slot s.
IsLastAt(r, rows, k, s) ==
    /\ r \in Touching(rows, k)
    /\ r.slot <= s
    /\ \A q \in Touching(rows, k) : q.slot <= s => ~Later(q, r)

\* The state map of GetStateMapAtSlot, as a set of pairs.
StateMapAtSlot(rows, s) ==
    {p \in Keys \X Values :
        \E r \in rows : IsLastAt(r, rows, p[1], s) /\ r.ops[p[1]].val = p[2]}

\* The pairs of the table key that GetCurrentStateMap returns.
CurrentStateMap(table) == {p \in Keys \X Values : table[p[1]] = p[2]}

Rank(op) == CASE op.type = "insert" -> 1
              [] op.type = "update" -> 2
              [] op.type = "delete" -> 3
              [] OTHER -> 0

\* ORDER BY slot DESC, rank DESC, sequence_order DESC, op.id DESC: the order
\* of last_ops in rollback_to_slot, which does not name the trie row.  Rows
\* that tie on slot and rank are ordered by sequence numbers that count
\* inside each batch: any of them may win.
IsLastOp(r, rows, k) ==
    /\ r \in Touching(rows, k)
    /\ \A q \in Touching(rows, k) :
          \/ q.slot < r.slot
          \/ q.slot = r.slot /\ Rank(q.ops[k]) <= Rank(r.ops[k])

FilesOf(rows, o) ==
    {r.id : r \in {q \in rows : \E k \in Keys : ObjectOf[k] = o /\ Touches(q, k)}}
IsEarliest(i, ids) == i \in ids /\ \A j \in ids : i <= j
IsLatest(i, ids) == i \in ids /\ \A j \in ids : j <= i

-----------------------------------------------------------------------------
(* The program starts on an empty database.                                *)
Init ==
    /\ trie = {}
    /\ key = [k \in Keys |-> NULL]
    /\ value = {}
    /\ firstSeen = [o \in Objects |-> NULL]
    /\ lastSeen = [o \in Objects |-> NULL]
    /\ nextId = 1
    /\ memoryTrie = [k \in Keys |-> NULL]
    /\ job = NoJob
    /\ pc = "idle"
    /\ stale = FALSE

\* The batches the node produces say insert for a key without a value and
\* update for a key with one (diffTrieOpsCore).  A delete may name a key
\* that has no value any more: the key is looked up by hash alone.
Produced(ops) ==
    \A k \in Keys : /\ ops[k].type = "insert" => key[k] = NULL
                    /\ ops[k].type = "update" => key[k] # NULL

\* ApplyOracleFile up to its first change of the memory trie.  A cid that is
\* already recorded returns at once.  Slots do not decrease: the chain
\* delivers blocks in order, and rolls the store back before a fork.
BeginApply(cid, slot, ops) ==
    /\ pc = "idle"
    /\ \A r \in trie : r.cid # cid
    /\ \A r \in trie : r.slot + MinSlotGap <= slot
    /\ nextId <= MaxApplies
    /\ Produced(ops)
    /\ pc' = "applying"
    /\ job' = [cid |-> cid, slot |-> slot, ops |-> ops,
               todo |-> {k \in Keys : ops[k].type # "none"}]
    /\ UNCHANGED <<tables, memoryTrie, stale>>

Puts(todo) == {k \in todo : job.ops[k].type \in {"insert", "update"}}

\* UpdateTrie for one entry, under the trie lock of that call only.
ApplyPut(k) ==
    /\ pc = "applying"
    /\ k \in Puts(job.todo)
    /\ memoryTrie' = [memoryTrie EXCEPT ![k] = job.ops[k].val]
    /\ job' = [job EXCEPT !.todo = @ \ {k}]
    /\ UNCHANGED <<tables, pc, stale>>

\* DeleteTrieEntry; deletes are sorted behind inserts and updates.
ApplyDelete(k) ==
    /\ pc = "applying"
    /\ Puts(job.todo) = {}
    /\ k \in job.todo
    /\ memoryTrie[k] # NULL
    /\ memoryTrie' = [memoryTrie EXCEPT ![k] = NULL]
    /\ job' = [job EXCEPT !.todo = @ \ {k}]
    /\ UNCHANGED <<tables, pc, stale>>

\* The object upsert: first_seen_file_id = COALESCE(old, new).
Seen(o) == \E k \in Keys : ObjectOf[k] = o /\ job.ops[k].type # "none"

FirstSeenUpsert_Overwrites(o) == IF Seen(o) THEN nextId ELSE firstSeen[o]

FirstSeenUpsert(o) ==
    IF Seen(o) /\ firstSeen[o] = NULL THEN nextId ELSE firstSeen[o]

\* The rest of the transaction and its commit: object, object_in_file, key,
\* value and trie_operation_key rows; the trigger sets the current values.
CommitApply ==
    /\ pc = "applying"
    /\ job.todo = {}
    /\ trie' = trie \cup {[id |-> nextId, cid |-> job.cid,
                           slot |-> job.slot, ops |-> job.ops]}
    /\ key' = [k \in Keys |-> IF job.ops[k].type = "none"
                              THEN key[k] ELSE job.ops[k].val]
    /\ value' = value \cup {v \in Values : \E k \in Keys : job.ops[k].val = v}
    /\ firstSeen' = [o \in Objects |-> FirstSeenUpsert(o)]
    /\ lastSeen' = [o \in Objects |-> IF Seen(o) THEN nextId ELSE lastSeen[o]]
    /\ nextId' = nextId + 1
    /\ pc' = "idle"
    /\ job' = NoJob
    /\ UNCHANGED <<memoryTrie, stale>>

AbortApply_KeepsJob ==
    /\ pc = "applying"
    /\ job.todo = {}
    /\ pc' = "idle"
    /\ stale' = TRUE
    /\ UNCHANGED <<tables, memoryTrie, job>>

\* The transaction is undone, the memory trie is not: DeleteTrieEntry found
\* no entry, or a statement of the transaction failed.
AbortApply ==
    /\ pc = "applying"
    /\ \/ Puts(job.todo) = {} /\ \E k \in job.todo : memoryTrie[k] = NULL
       \/ job.todo = {}
    /\ pc' = "idle"
    /\ job' = NoJob
    /\ stale' = TRUE
    /\ UNCHANGED <<tables, memoryTrie>>

-----------------------------------------------------------------------------
(* Rollback: one statement in the database, then LoadTrieFromDB.           *)

Doomed(c) == {r \in trie : r.slot > c}
Kept_Exclusive(c) == {r \in trie : r.slot < c}
Kept(c) == {r \in trie : r.slot <= c}

RestoredValue_NoMissing(k, c, v) ==
    IF Touching(Doomed(c), k) = {} \/ Touching(Kept(c), k) = {} THEN v = key[k]
    ELSE \E r \in Kept(c) : IsLastOp(r, Kept(c), k) /\ v = r.ops[k].val

\* up_keys and up_missing: the current value of a key whose history is cut.
RestoredValue(k, c, v) ==
    IF Touching(Doomed(c), k) = {} THEN v = key[k]
    ELSE IF Touching(Kept(c), k) = {} THEN v = NULL
    ELSE \E r \in Kept(c) : IsLastOp(r, Kept(c), k) /\ v = r.ops[k].val

\* upd_obj_seen reads the rows as they were before the statement; a file it
\* names that the statement deletes becomes NULL (ON DELETE SET NULL).
RestoredFirst(o, c, i) ==
    IF \E j \in FilesOf(Kept(c), o) : IsEarliest(j, FilesOf(trie, o))
    THEN IsEarliest(i, FilesOf(trie, o)) ELSE i = NULL
RestoredLast(o, c, i) ==
    IF \E j \in FilesOf(Kept(c), o) : IsLatest(j, FilesOf(trie, o))
    THEN IsLatest(i, FilesOf(trie, o)) ELSE i = NULL

\* gc_values also reads the rows as they were: what only the deleted rows
\* refer to is left for a later rollback to collect.
Referenced_ByKeyOnly(v) == \E k \in Keys : key[k] = v

Referenced(v) == \/ \E k \in Keys : key[k] = v
                 \/ \E r \in trie, k \in Keys : r.ops[k].val = v

RollbackToSlot(c) ==
    /\ pc = "idle"
    /\ trie' = Kept(c)
    /\ key' \in [Keys -> Values \cup {NULL}]
    /\ \A k \in Keys : RestoredValue(k, c, key'[k])
    /\ firstSeen' \in [Objects -> Ids \cup {NULL}]
    /\ \A o \in Objects : RestoredFirst(o, c, firstSeen'[o])
    /\ lastSeen' \in [Objects -> Ids \cup {NULL}]
    /\ \A o \in Objects : RestoredLast(o, c, lastSeen'[o])
    /\ value' = {v \in value : Referenced(v)}
    /\ pc' = "reloading"
    /\ UNCHANGED <<nextId, memoryTrie, job, stale>>

LoadTrie_KeepsEntries ==
    /\ pc = "reloading"
    /\ memoryTrie' = [k \in Keys |-> IF key[k] = NULL THEN memoryTrie[k] ELSE key[k]]
    /\ stale' = FALSE
    /\ pc' = "idle"
    /\ UNCHANGED <<tables, job>>

LoadTrie_OnlyRemoves ==
    /\ pc = "reloading"
    /\ memoryTrie' = [k \in Keys |-> IF key[k] = NULL THEN NULL ELSE memoryTrie[k]]
    /\ stale' = FALSE
    /\ pc' = "idle"
    /\ UNCHANGED <<tables, job>>

\* LoadTrieFromDB swaps in a trie built from the table key.
LoadTrie ==
    /\ pc = "reloading"
    /\ memoryTrie' = key
    /\ stale' = FALSE
    /\ pc' = "idle"
    /\ UNCHANGED <<tables, job>>

\* The rollback is committed, reading the table back fails.
LoadTrieFails ==
    /\ pc = "reloading"
    /\ stale' = TRUE
    /\ pc' = "idle"
    /\ UNCHANGED <<tables, memoryTrie, job>>

\* The process stops and starts again: New loads the memory trie.
Restart ==
    /\ memoryTrie' = key
    /\ stale' = FALSE
    /\ pc' = "idle"
    /\ job' = NoJob
    /\ UNCHANGED tables

Next ==
    \/ \E cid \in Cids, slot \in Slots \ {0}, ops \in Batch :
          BeginApply(cid, slot, ops)
    \/ \E k \in Keys : ApplyPut(k) \/ ApplyDelete(k)
    \/ CommitApply
    \/ AbortApply
    \/ \E c \in Slots : RollbackToSlot(c)
    \/ LoadTrie
    \/ LoadTrieFails
    \/ Restart

Spec == Init /\ [][Next]_vars

-----------------------------------------------------------------------------
(* The order of rows that the properties rest on.                          *)

\* Serials grow with slots: a row created later is not of an earlier slot.
RowsInOrder ==
    /\ \A r \in trie : r.id < nextId
    /\ \A q, r \in trie : q.id = r.id => q = r
    /\ \A q, r \in trie : q.id < r.id => q.slot + MinSlotGap <= r.slot

\* The batch being applied will be the newest row.
JobIsNewest ==
    pc = "applying" => /\ nextId <= MaxApplies
                       /\ \A r \in trie : r.slot + MinSlotGap <= job.slot

-----------------------------------------------------------------------------
(* Properties.                                                             *)

\* The current values that the trigger maintains on every insert into
\* trie_operation_key and rollback_to_slot restores are those a replay of
\* the recorded operations gives: the latest operation of each key.
KeyTableIsReplay == CurrentStateMap(key) = StateMapAtSlot(trie, MaxSlot)

\* The memory trie, from which roots and proofs are served, holds exactly
\* the current values whenever no call is half done and none has failed
\* since it was loaded; inside ApplyOracleFile it differs from them by the
\* entries already applied and nothing else.
MemoryFollowsTables ==
    ~stale /\ pc # "reloading" =>
        \A k \in Keys :
            memoryTrie[k] = IF pc = "applying" /\ k \notin job.todo
                                /\ job.ops[k].type # "none"
                            THEN job.ops[k].val ELSE key[k]

\* Every value that a key or a recorded operation refers to is stored:
\* gc_values, which reads the tables as they were before the rollback, never
\* collects one that the restored keys need (fk_key_value restricts it,
\* fk_tok_value would silently erase history).
NoDanglingValue ==
    /\ \A k \in Keys : key[k] # NULL => key[k] \in value
    /\ \A r \in trie, k \in Keys : r.ops[k].val # NULL => r.ops[k].val \in value

\* Provenance of objects across applies and rollbacks: first_seen_file_id is
\* the earliest file that names the object, and is null only when no file
\* does; last_seen_file_id is the latest such file, or null after a rollback
\* deleted the file it named.
ProvenanceIsSound ==
    \A o \in Objects : LET ids == FilesOf(trie, o) IN
        /\ IF ids = {} THEN firstSeen[o] = NULL ELSE IsEarliest(firstSeen[o], ids)
        /\ lastSeen[o] # NULL => IsLatest(lastSeen[o], ids)

\* The store implements the abstract history: the current values are its
\* current state, GetStateMapAtSlot gives its past, ApplyOracleFile
\* publishes at its commit, rollback_to_slot restores exactly the state of
\* the cutoff slot, and a restart or an abort changes neither.
Oracle == INSTANCE OracleHistory WITH
            current <- CurrentStateMap(key),
            history <- [s \in Slots |-> StateMapAtSlot(trie, s)]
ImplementsOracleHistory == Oracle!Spec
=============================================================================
