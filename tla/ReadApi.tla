------------------------------- MODULE ReadApi -------------------------------
(***************************************************************************)
(* internal/api and the read queries of internal/database/operation.go,    *)
(* beside the writer of TrieStore.                                         *)
(*                                                                         *)
(* A handler runs its SQL statements one after the other, each on what is  *)
(* committed at that moment, and reads the memory trie under the trie lock *)
(* of that read only: no transaction and no lock spans two of them.  One   *)
(* action is one statement or one read of the trie; a call that fails ends *)
(* with an error (ServerError).                                            *)
(*                                                                         *)
(* Requests the handlers refuse (BadRequest), an object or key they do not *)
(* find (NotFound) and the queries of one statement change nothing and     *)
(* keep nothing: they are operators on the tables here, not actions.       *)
(***************************************************************************)
EXTENDS TrieStore, Integers, FiniteSets

CONSTANTS
    DefaultPageLimit,   \* cfg.Server.DefaultPageLimit
    MaxPageLimit,       \* cfg.Server.MaxPageLimit
    MaxTime             \* bound: clock readings

\* Objects are listed ORDER BY id: they are numbered in that order.  A table
\* never holds more than finitely many rows.
ASSUME PageAssumption ==
    /\ Objects \subseteq Nat /\ IsFiniteSet(Objects)
    /\ {DefaultPageLimit, MaxPageLimit} \subseteq Nat \ {0}
    /\ MaxTime \in Nat

VARIABLES
    objects,        \* the rows of object; a rollback deletes none
    seenAt,         \* trie.blockchain_confirmed_at, by trie.id
    call            \* the call in progress

readVars == <<vars, objects, seenAt, call>>

\* held is a history: what the key or the object has had since the call
\* began (see Observe).  unsettled: the memory trie was off when it began.
NoCall == [kind |-> "none"]
ProofCall == [kind : {"proof"}, key : Keys, value : Values,
              held : SUBSET (Values \cup {NULL}), unsettled : BOOLEAN]
ObjectCall == [kind : {"object"}, of : Objects, slot : Slots \cup {NULL},
               held : SUBSET SUBSET (Keys \X Values)]
WalkCall == [kind : {"walk"}, limit : Nat, offset : Nat,
             begun : SUBSET Objects, seen : SUBSET Objects, step : {"page", "end"}]
DeletedCall == [kind : {"deleted"}, total : Int, step : {"countActive", "page"}]

ReadTypeOK ==
    /\ objects \subseteq Objects
    /\ seenAt \in [Ids -> 0 .. MaxTime]
    /\ call \in {NoCall} \cup ProofCall \cup ObjectCall \cup WalkCall \cup DeletedCall

-----------------------------------------------------------------------------
(* The queries, each of one statement.  The time of a row is when the       *)
(* indexer saw its transaction.                                            *)

KeysOf(o) == {k \in Keys : ObjectOf[k] = o}

\* latest_data: ORDER BY timestamp DESC, slot DESC, trie.id DESC LIMIT 1.
Fresher(q, r) == \/ seenAt[q.id] > seenAt[r.id]
                 \/ seenAt[q.id] = seenAt[r.id] /\ Later(q, r)
LatestSlot(rows) ==
    IF rows = {} THEN 0
    ELSE (CHOOSE r \in rows : \A q \in rows : ~Fresher(q, r)).slot

RowsOf_PutsOnly(o) == {r \in trie : \E k \in KeysOf(o) : r.ops[k].val # NULL}

\* The rows that touch a key of object o.
RowsOf(o) == {r \in trie : \E k \in KeysOf(o) : Touches(r, k)}

\* GetObjectCurrentValuesWithTimestamp: the values, with the JOIN on value,
\* and the slot.  One statement gives both, unless there is no value.
CurrentValues(o) == {p \in KeysOf(o) \X value : key[p[1]] = p[2]}
CurrentSlot(o) == LatestSlot(RowsOf(o))

\* GetValueByKey, and GetValueHashByKeyHash: the slot of a key.
KeySlot(k) == LatestSlot(Touching(trie, k))

\* GetObjectValuesAtSlotWithTimestamp; last_ops is as in GetStateMapAtSlot.
ValuesAtSlot(o, s) ==
    {p \in KeysOf(o) \X value :
        \E r \in trie : IsLastAt(r, trie, p[1], s) /\ r.ops[p[1]].val = p[2]}

IsLastBy_ByTimeOnly(r, k, t) ==
    /\ r \in Touching(trie, k) /\ seenAt[r.id] <= t
    /\ \A q \in Touching(trie, k) : seenAt[q.id] <= t => seenAt[q.id] <= seenAt[r.id]

\* GetObjectValuesAtTimestampWithSlot: the last operation of a key not later
\* than time t, ORDER BY timestamp DESC, slot DESC, rank DESC; which row of
\* one time, slot and rank comes first is open.
IsLastBy(r, k, t) ==
    /\ r \in Touching(trie, k) /\ seenAt[r.id] <= t
    /\ \A q \in Touching(trie, k) : seenAt[q.id] <= t =>
          \/ seenAt[q.id] < seenAt[r.id]
          \/ /\ seenAt[q.id] = seenAt[r.id]
             /\ q.slot < r.slot \/ (q.slot = r.slot /\ Rank(q.ops[k]) <= Rank(r.ops[k]))
ValuesAtTimestamp(o, t) ==
    {p \in KeysOf(o) \X value :
        \E r \in trie : IsLastBy(r, p[1], t) /\ r.ops[p[1]].val = p[2]}

\* The slot served with them: the greatest of the rows they are of.
SlotAtTimestamp(o, t) ==
    LET slots == {r.slot : r \in {q \in trie : \E k \in KeysOf(o) :
                                     IsLastBy(q, k, t) /\ q.ops[k].val \in value}}
    IN IF slots = {} THEN 0 ELSE CHOOSE s \in slots : \A u \in slots : u <= s

\* GetActiveObjectIDs and GetDeletedObjectIDs.
Active == {ObjectOf[k] : k \in {l \in Keys : key[l] # NULL}}
Deleted == objects \ Active

\* ORDER BY id ASC LIMIT limit OFFSET offset.
Page(set, limit, offset) ==
    {o \in set : Cardinality({p \in set : p < o}) \in offset .. offset + limit - 1}

\* parsePageParams; NULL: the request names no limit.
LimitAccepted(limit) == limit = NULL \/ limit \in 1 .. MaxPageLimit
PageLimit_NoDefault(limit) == limit
PageLimit(limit) == IF limit = NULL THEN DefaultPageLimit ELSE limit

-----------------------------------------------------------------------------
(* GetValueHashByKeyHash: the value from the database, then the proof from *)
(* the memory trie.                                                        *)

\* What key k has: in the tables, and in the file that is being applied.
Held(k) == {key[k]} \cup IF pc = "applying" /\ job.ops[k].type # "none"
                         THEN {job.ops[k].val} ELSE {}

ReadValueHash(k) ==
    /\ call = NoCall
    /\ key[k] # NULL
    /\ call' = [kind |-> "proof", key |-> k, value |-> key[k],
                held |-> Held(k), unsettled |-> stale \/ pc = "reloading"]
    /\ UNCHANGED <<vars, objects, seenAt>>

\* The proof is of memoryTrie[call.key], whatever the call read before.
ProveTrie ==
    /\ call.kind = "proof"
    /\ call' = NoCall
    /\ UNCHANGED <<vars, objects, seenAt>>

-----------------------------------------------------------------------------
(* handleGetObjectByID with neither a time nor a slot.  When the object has *)
(* values their slot comes with them; when it has none the slot is read by *)
(* a statement of its own.                                                 *)

ReadObject(o) ==
    /\ call = NoCall
    /\ o \in objects
    /\ CurrentValues(o) = {}
    /\ call' = [kind |-> "object", of |-> o, slot |-> NULL, held |-> {CurrentValues(o)}]
    /\ UNCHANGED <<vars, objects, seenAt>>

\* An error of this statement is not one of the call: the slot is 0.
ReadObjectSlot ==
    /\ call.kind = "object" /\ call.slot = NULL
    /\ \E slot \in {CurrentSlot(call.of), 0} : call' = [call EXCEPT !.slot = slot]
    /\ UNCHANGED <<vars, objects, seenAt>>

ReplyObject ==
    /\ call.kind = "object" /\ call.slot # NULL
    /\ call' = NoCall
    /\ UNCHANGED <<vars, objects, seenAt>>

-----------------------------------------------------------------------------
(* GetAllObjectIDs, called by a client that asks for page after page until *)
(* one is not full.  The count that comes with a page does not influence   *)
(* it.  begun: the objects there were when the client started.             *)

StartWalk(limit) ==
    /\ call = NoCall
    /\ LimitAccepted(limit)
    /\ call' = [kind |-> "walk", limit |-> PageLimit(limit), offset |-> 0,
                begun |-> objects, seen |-> {}, step |-> "page"]
    /\ UNCHANGED <<vars, objects, seenAt>>

ReadPage ==
    /\ call.kind = "walk" /\ call.step = "page"
    /\ LET page == Page(objects, call.limit, call.offset)
       IN call' = [call EXCEPT
                     !.seen = @ \cup page,
                     !.offset = @ + call.limit,
                     !.step = IF Cardinality(page) = call.limit THEN "page" ELSE "end"]
    /\ UNCHANGED <<vars, objects, seenAt>>

EndWalk ==
    /\ call.kind = "walk" /\ call.step = "end"
    /\ call' = NoCall
    /\ UNCHANGED <<vars, objects, seenAt>>

-----------------------------------------------------------------------------
(* GetDeletedObjectIDs: two counts, then the page.                         *)

CountObjects ==
    /\ call = NoCall
    /\ call' = [kind |-> "deleted", total |-> Cardinality(objects), step |-> "countActive"]
    /\ UNCHANGED <<vars, objects, seenAt>>

CountActive_WholeObjects ==
    /\ call.kind = "deleted" /\ call.step = "countActive"
    /\ call' = [call EXCEPT
                  !.total = @ - Cardinality({o \in Active : \A k \in KeysOf(o) : key[k] # NULL}),
                  !.step = "page"]
    /\ UNCHANGED <<vars, objects, seenAt>>

CountActive ==
    /\ call.kind = "deleted" /\ call.step = "countActive"
    /\ call' = [call EXCEPT !.total = @ - Cardinality(Active), !.step = "page"]
    /\ UNCHANGED <<vars, objects, seenAt>>

ReadDeletedPage ==
    /\ call.kind = "deleted" /\ call.step = "page"
    /\ call' = NoCall
    /\ UNCHANGED <<vars, objects, seenAt>>

\* A statement of the call, or the proof, fails.
CallFails ==
    /\ call # NoCall
    /\ call' = NoCall
    /\ UNCHANGED <<vars, objects, seenAt>>

-----------------------------------------------------------------------------
ReadInit ==
    /\ Init
    /\ objects = {}
    /\ seenAt = [i \in Ids |-> 0]
    /\ call = NoCall

ObjectUpsert_SeenOnly == {o \in Objects : Seen(o)}

\* The object upsert of ApplyOracleFile.
ObjectUpsert == objects \cup {o \in Objects : Seen(o)}

\* A row is written after those that are there: its time is not earlier.
\* Only the order of times counts: the first row has time 0.
SetSeenAt == \E t \in 0 .. MaxTime :
                /\ trie = {} => t = 0
                /\ \A r \in trie : seenAt[r.id] <= t
                /\ seenAt' = [seenAt EXCEPT ![nextId] = t]

\* The times go with the rows.
ClearSeenAt == seenAt' = [i \in Ids |-> IF \E r \in trie' : r.id = i THEN seenAt[i] ELSE 0]

\* The history of the call in progress.
Observe ==
    \/ call.kind \notin {"proof", "object"} /\ UNCHANGED call
    \/ \E k \in Keys : /\ call.kind = "proof" /\ call.key = k
                       /\ call' = [call EXCEPT !.held = @ \cup Held(k)']
    \/ \E o \in Objects : /\ call.kind = "object" /\ call.of = o
                          /\ call' = [call EXCEPT !.held = @ \cup {CurrentValues(o)'}]

\* The writer.  A restart of the process ends the call.
Write ==
    \/ CommitApply /\ objects' = ObjectUpsert /\ SetSeenAt /\ Observe
    \/ \E c \in Slots : RollbackToSlot(c) /\ UNCHANGED objects /\ ClearSeenAt /\ Observe
    \/ Restart /\ call' = NoCall /\ UNCHANGED <<objects, seenAt>>
    \/ /\ \/ \E cid \in Cids, slot \in Slots \ {0}, ops \in Batch :
                BeginApply(cid, slot, ops)
          \/ \E k \in Keys : ApplyPut(k) \/ ApplyDelete(k)
          \/ AbortApply
          \/ LoadTrie
          \/ LoadTrieFails
       /\ Observe
       /\ UNCHANGED <<objects, seenAt>>

Read ==
    \/ \E k \in Keys : ReadValueHash(k)
    \/ ProveTrie
    \/ \E o \in Objects : ReadObject(o)
    \/ ReadObjectSlot
    \/ ReplyObject
    \/ \E limit \in 0 .. MaxPageLimit + 1 \cup {NULL} : StartWalk(limit)
    \/ ReadPage
    \/ EndWalk
    \/ CountObjects
    \/ CountActive
    \/ ReadDeletedPage
    \/ CallFails

ReadNext == Write \/ Read

ReadSpec == ReadInit /\ [][ReadNext]_readVars

-----------------------------------------------------------------------------
(* Properties.                                                             *)

\* The queries, which go different ways to the same data and order it by
\* time, slot and row or not, agree at any moment.  The values of an object
\* or a key now are those that a query at the slot served with them gives.
\* A query at a time gives what one at the slot of the last row seen by then
\* gives.  The slot served with the latter is that of the last put among the
\* values: a delete after it does not count, so at that slot the object may
\* have had more values, never others.
QueriesAgree ==
    \A o \in Objects :
        /\ CurrentValues(o) # {} => ValuesAtSlot(o, CurrentSlot(o)) = CurrentValues(o)
        /\ \A p \in CurrentValues(o) : p \in ValuesAtSlot(o, KeySlot(p[1]))
        /\ \A r \in trie :
              LET t == seenAt[r.id]
              IN /\ (\A q \in trie : seenAt[q.id] <= t => q.slot <= r.slot)
                       => ValuesAtTimestamp(o, t) = ValuesAtSlot(o, r.slot)
                 /\ ValuesAtTimestamp(o, t) \subseteq ValuesAtSlot(o, SlotAtTimestamp(o, t))

\* The slot that /objects/{id} serves with "no values", which it reads
\* later than the values, names a state that the object was in during the
\* call, whatever is applied and rolled back in between: that of no values
\* if nothing changed, or one that a file or a rollback gave it meanwhile,
\* never an older one.
SlotIsOfTheCall ==
    [][ReadObjectSlot => ValuesAtSlot(call.of, call'.slot) \in call.held]_readVars

\* A client that reads /objects page by page while the writer applies files
\* and rolls back gets every object there was when it started: objects are
\* only ever added, which moves the others to later pages.
WalkSeesAll ==
    call.kind = "walk" /\ call.step = "end" => call.begun \subseteq call.seen

\* The total of /objects/deleted, the difference of two counts made at
\* different moments, may fall short, even below zero, but never exceeds
\* the number of deleted objects at the second count.
DeletedNotOvercounted ==
    [][CountActive => call'.total <= Cardinality(Deleted)]_readVars

\* The proof that is served with a value is of a value that the key has had
\* since the call read it, in the tables or in a file being applied: a file
\* or a rollback between the two reads may part the proof from the value,
\* but it is never of a state older than the value, and when the writer
\* leaves the key alone it is of the value itself.  (A call that begins
\* after a failed apply or reload, or before the reload of a rollback, may
\* get an older one.)
ProofIsNotOlder ==
    [][ProveTrie => \/ call.unsettled
                    \/ /\ memoryTrie[call.key] \in call.held
                       /\ call.value \in call.held]_readVars
=============================================================================
