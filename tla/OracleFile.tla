------------------------------ MODULE OracleFile ------------------------------
(***************************************************************************)
(* An oracle file, from the data it is built from to the state its         *)
(* confirmed transaction leaves in the database: the difference that       *)
(* chain_event_processor_strategy.go computes and publishes with a Merkle  *)
(* root, the read of the file from the cloud with its retries, the         *)
(* validation, and the entries given to ApplyOracleFile.                   *)
(*                                                                         *)
(* A file may come from another node, or from this one before a rollback:  *)
(* the state it was built on can be any.  The validation reports what does *)
(* not fit the state of the previous file, and the file is indexed anyway. *)
(* A transaction with a null root is passed over, file and all.            *)
(*                                                                         *)
(* A state maps key hashes to value hashes, NULL where there is no entry;  *)
(* a Merkle root stands for the state it is the digest of, the null root   *)
(* for the empty one.                                                      *)
(***************************************************************************)
EXTENDS Canonical, Sequences

CONSTANTS
    Keys,               \* key hashes
    Raws,               \* JSON values of fields
    NULL,
    MaxItems,           \* bound: items of the oracle data
    MaxFiles,           \* bound: files indexed
    RetryMaxAttempts,   \* cloud.retryMaxAttempts
    RetryInitialDelay,  \* cloud.retryInitialDelay
    RetryMaxDelay,      \* cloud.retryMaxDelay
    MaxDuration         \* the greatest time.Duration, in the unit of the delays

ASSUME FileAssumption == Raws \subseteq JsonValues /\ {MaxItems, MaxFiles} \subseteq Nat
ASSUME RetryAssumption ==
    /\ RetryMaxAttempts \in Nat \ {0}
    /\ {RetryInitialDelay, RetryMaxDelay} \subseteq 1 .. MaxDuration
    /\ MaxDuration \in Nat

Values == {ValueHash(r) : r \in Raws}
State == [Keys -> Values \cup {NULL}]
Empty == [k \in Keys |-> NULL]

ASSUME NullAssumption == NULL \notin Raws \cup Values

\* The data of the oracle: its items, in order, each with the fields it
\* lists.  Two items may be of one object (drumId gives both the object_id of
\* the key found for it) and list a field twice.
Item == [Keys -> Raws \cup {NULL}]
Data == UNION {[1 .. n -> Item] : n \in 0 .. MaxItems}

\* trieData of a file.  An operation list names a key more than once when
\* the data does; the last one counts, for the trie and for the validation.
Ops == [ins : State, upd : State, del : SUBSET Keys]

File == [data : Data, ops : Ops,
         prev : State,          \* previousMerkleRoot
         root : State]          \* currentMerkleRoot
NoFile == [root |-> NULL]

VARIABLES
    indexed,    \* the state after each transaction; NULL: passed over
    keyRows,    \* the keys that have a row; a rollback deletes none
    file,       \* the file of the transaction being processed
    attempt,    \* attempts to read it that have failed
    wait,       \* the delay before the next attempt
    pc          \* "failed": the processor drops every further transaction

vars == <<indexed, keyRows, file, attempt, wait, pc>>

TypeOK ==
    /\ indexed \in Seq(State \cup {NULL}) /\ Len(indexed) <= MaxFiles
    /\ keyRows \subseteq Keys
    /\ file \in File \cup {NoFile}
    /\ attempt \in 0 .. RetryMaxAttempts
    /\ wait \in -MaxDuration .. RetryMaxDelay
    /\ pc \in {"idle", "fetching", "fetched", "failed"}
    /\ pc = "idle" <=> file = NoFile

-----------------------------------------------------------------------------
(* The difference between a state and new data.                            *)

\* The last value that data gives key k, among those other than except.
LastValue(data, k, except) ==
    LET found == {i \in DOMAIN data : data[i][k] # NULL /\ ValueHash(data[i][k]) # except}
    IN IF found = {} THEN NULL
       ELSE ValueHash(data[CHOOSE i \in found : \A j \in found : j <= i][k])

\* keyHashToRaw: what the data says of each key, later items over earlier
\* ones, in canonical form.
Snapshot(data) == [k \in Keys |-> LastValue(data, k, NULL)]

diffTrieOpsCore_KeepsMissing(data, state) ==
    [ins |-> [k \in Keys |-> IF state[k] = NULL THEN Snapshot(data)[k] ELSE NULL],
     upd |-> [k \in Keys |-> IF state[k] = NULL THEN NULL
                             ELSE LastValue(data, k, state[k])],
     del |-> {}]

\* A listed field that has the value of the state is no operation.
diffTrieOpsCore(data, state) ==
    [ins |-> [k \in Keys |-> IF state[k] = NULL THEN Snapshot(data)[k] ELSE NULL],
     upd |-> [k \in Keys |-> IF state[k] = NULL THEN NULL
                             ELSE LastValue(data, k, state[k])],
     del |-> {k \in Keys : state[k] # NULL /\ Snapshot(data)[k] = NULL}]

\* On a private copy of the trie: insertions, updates, then deletions.
applyTrieOperations(state, ops) ==
    [k \in Keys |-> IF k \in ops.del THEN NULL
                    ELSE IF ops.upd[k] # NULL THEN ops.upd[k]
                    ELSE IF ops.ins[k] # NULL THEN ops.ins[k]
                    ELSE state[k]]

\* processBlockTipReached: the file a node with this state uploads.
Build(data, state) ==
    LET ops == diffTrieOpsCore(data, state)
    IN [data |-> data, ops |-> ops, prev |-> state,
        root |-> applyTrieOperations(state, ops)]

-----------------------------------------------------------------------------
(* The file read back.                                                     *)

validateTrieOperations_NoDeletions(f, previous) ==
    LET expected == diffTrieOpsCore(f.data, previous)
    IN f.ops.ins = expected.ins /\ f.ops.upd = expected.upd

\* Nothing missing, unexpected or of another value.
validateTrieOperations(f, previous) ==
    LET expected == diffTrieOpsCore(f.data, previous)
    IN /\ f.ops.ins = expected.ins
       /\ f.ops.upd = expected.upd
       /\ f.ops.del = expected.del

\* The state in the tables: that of the last file in the database.
Previous ==
    LET known == {i \in DOMAIN indexed : indexed[i] # NULL}
    IN IF known = {} THEN Empty
       ELSE indexed[CHOOSE i \in known : \A j \in known : j <= i]

\* getStateFromDB(previousFileReference) finds the file.  A transaction
\* spends the output of the one before it, whose file it refers to; the
\* first one, which follows the genesis of the oracle, refers to none.
RefersToKnown == indexed # <<>> => indexed[Len(indexed)] # NULL

\* The entries of a file: the keys it puts, with the value the data gives
\* them, and the keys it deletes, when they have a row.
PutKeys(f) ==
    IF f.prev = Empty THEN {k \in Keys : Snapshot(f.data)[k] # NULL}
    ELSE {k \in Keys : f.ops.ins[k] # NULL \/ f.ops.upd[k] # NULL}
DeleteKeys(f) == IF f.prev = Empty THEN {} ELSE f.ops.del \cap keyRows

Entries_FirstItem(f) ==
    [k \in Keys |-> IF k \in DeleteKeys(f) THEN NULL
                    ELSE IF k \notin PutKeys(f) THEN Previous[k]
                    ELSE IF f.data[1][k] # NULL THEN ValueHash(f.data[1][k])
                    ELSE ValueHash(Snapshot(f.data)[k])]

\* The state after ApplyOracleFile, which hashes the canonical values.
Entries(f) ==
    [k \in Keys |-> IF k \in DeleteKeys(f) THEN NULL
                    ELSE IF k \in PutKeys(f) THEN ValueHash(Snapshot(f.data)[k])
                    ELSE Previous[k]]

\* DeleteTrieEntry: the trie has no entry for a key to delete.
Undeletable(f) == {k \in DeleteKeys(f) : Previous[k] = NULL}

-----------------------------------------------------------------------------
(* retryWithExponentialBackoff.                                            *)

\* initialDelay * 2^(attempt-1), in floating point; what no longer fits a
\* Duration is kept as one such value.
Doubled[a \in 1 .. RetryMaxAttempts] ==
    IF a = 1 THEN RetryInitialDelay
    ELSE IF Doubled[a - 1] > MaxDuration THEN Doubled[a - 1] ELSE 2 * Doubled[a - 1]

\* The conversion of a float64 that does not fit is left to the machine: the
\* least Duration on amd64, the greatest on arm64.
ToDuration(d) == IF d <= MaxDuration THEN {d} ELSE {-MaxDuration, MaxDuration}

Delay_NoCap(a) == ToDuration(Doubled[a])
Delay(a) == {IF d > RetryMaxDelay THEN RetryMaxDelay ELSE d : d \in ToDuration(Doubled[a])}

-----------------------------------------------------------------------------
Init ==
    /\ indexed = <<>>
    /\ keyRows = {}
    /\ file = NoFile
    /\ attempt = 0
    /\ wait = 0
    /\ pc = "idle"

\* A transaction with a file built from some data on some state.
ReceiveTx(data, state) ==
    /\ pc = "idle"
    /\ Len(indexed) < MaxFiles
    /\ file' = Build(data, state)
    /\ file'.root # Empty
    /\ pc' = "fetching"
    /\ UNCHANGED <<indexed, keyRows, attempt, wait>>

\* One whose file has the null root: "skipping trie update".
SkipTx(data, state) ==
    /\ pc = "idle"
    /\ Len(indexed) < MaxFiles
    /\ Build(data, state).root = Empty
    /\ indexed' = Append(indexed, NULL)
    /\ UNCHANGED <<keyRows, file, attempt, wait, pc>>

ReadCloud ==
    /\ pc = "fetching"
    /\ pc' = "fetched"
    /\ attempt' = 0
    /\ wait' = 0
    /\ UNCHANGED <<indexed, keyRows, file>>

ReadCloudFails_OneMore ==
    /\ pc = "fetching"
    /\ attempt' = attempt + 1
    /\ IF attempt' > RetryMaxAttempts THEN pc' = "failed" /\ UNCHANGED wait
       ELSE wait' \in Delay(attempt') /\ UNCHANGED pc
    /\ UNCHANGED <<indexed, keyRows, file>>

\* The last attempt is not followed by a wait.
ReadCloudFails ==
    /\ pc = "fetching"
    /\ attempt' = attempt + 1
    /\ IF attempt' = RetryMaxAttempts THEN pc' = "failed" /\ UNCHANGED wait
       ELSE wait' \in Delay(attempt') /\ UNCHANGED pc
    /\ UNCHANGED <<indexed, keyRows, file>>

\* What the validation finds is only logged.
IndexFile ==
    /\ pc = "fetched"
    /\ RefersToKnown
    /\ Undeletable(file) = {}
    /\ indexed' = Append(indexed, Entries(file))
    /\ keyRows' = keyRows \cup PutKeys(file)
    /\ file' = NoFile
    /\ pc' = "idle"
    /\ UNCHANGED <<attempt, wait>>

\* The reference is not found, or ApplyOracleFile fails and is undone.
IndexFileFails ==
    /\ pc = "fetched"
    /\ ~RefersToKnown \/ Undeletable(file) # {}
    /\ pc' = "failed"
    /\ UNCHANGED <<indexed, keyRows, file, attempt, wait>>

\* rollback_to_slot, to the slot of the n-th transaction; after a failure,
\* a restart on a fork without the transaction that failed.
Rollback(n) ==
    /\ pc \in {"idle", "failed"}
    /\ n < Len(indexed)
    /\ indexed' = SubSeq(indexed, 1, n)
    /\ file' = NoFile
    /\ attempt' = 0
    /\ wait' = 0
    /\ pc' = "idle"
    /\ UNCHANGED keyRows

\* A restart streams the transaction that failed again.
Restart ==
    /\ pc = "failed"
    /\ attempt' = 0
    /\ wait' = 0
    /\ pc' = "fetching"
    /\ UNCHANGED <<indexed, keyRows, file>>

Next ==
    \/ \E data \in Data, state \in State : ReceiveTx(data, state) \/ SkipTx(data, state)
    \/ ReadCloud
    \/ ReadCloudFails
    \/ IndexFile
    \/ IndexFileFails
    \/ \E n \in 0 .. MaxFiles : Rollback(n)
    \/ Restart

Spec == Init /\ [][Next]_vars

-----------------------------------------------------------------------------
(* Properties.                                                             *)

\* What the node starts from: EncodeCanonical and Blake2b give two values one
\* hash exactly when they are the same number, however it is written, or the
\* same text, the text of the fraction included.  A value of a confirmed file
\* is hashed a second time, in canonical form, and keeps its hash: the root
\* was published with the first one.
HashDecidesValue == indexed = <<>> => HashDecides /\ HashIsStable

\* The data gives key k twice, first a new value and at last the one it has:
\* the difference, which looks at each item alone, keeps the new one.
Relisted(data, state, k) ==
    /\ state[k] # NULL
    /\ Snapshot(data)[k] = state[k]
    /\ LastValue(data, k, state[k]) # NULL

\* The published root is that of the data, key by key, whatever state the
\* file was built on and whatever the order of operations, except for a key
\* that the data gives a new and at last its old value.
RootIsOfData ==
    file # NoFile =>
        \A k \in Keys : file.root[k] = Snapshot(file.data)[k]
                          <=> ~Relisted(file.data, file.prev, k)

\* A file that the validation accepts is indexed as the state that its root
\* commits to, even if it was built on another state than the one it is
\* indexed on: if the two differ, other than by such a key, the validation
\* has reported it.
ValidFileIndexesItsRoot ==
    [][IndexFile /\ validateTrieOperations(file, Previous) =>
          \A k \in Keys : Entries(file)[k] = file.root[k]
                            \/ Relisted(file.data, Previous, k)]_vars

\* The processor fails, and fails again after each restart, only on a file
\* that the cloud does not give, that the validation has reported, or that
\* refers to one passed over for its null root: a deletion of an accepted
\* file always finds its key.
FailsOnlyOnReported ==
    pc = "failed" => \/ attempt = RetryMaxAttempts
                     \/ ~validateTrieOperations(file, Previous)
                     \/ ~RefersToKnown

\* A file built on the very state of the tables fails only if the cloud
\* does not give it: "Once the transaction is confirmed, the node will index
\* it to the local database."
OwnFilesAreIndexed ==
    pc = "failed" /\ file.prev = Previous => attempt = RetryMaxAttempts

\* The waits between attempts never shrink and never exceed the maximum, as
\* long as the doubled delay is a Duration.  From then on they are the
\* maximum where the conversion saturates, and where it does not the retries
\* follow each other without any wait.
BackoffGrows ==
    [][ReadCloudFails /\ pc' = "fetching" =>
          \/ wait' \in wait .. RetryMaxDelay
          \/ Doubled[attempt'] > MaxDuration /\ wait' = -MaxDuration]_vars
=============================================================================
