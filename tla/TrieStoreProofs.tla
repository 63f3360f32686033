--------------------------- MODULE TrieStoreProofs ---------------------------
(***************************************************************************)
(* Proofs about TrieStore, for every set of keys, values, objects and      *)
(* files and every bound.                                                  *)
(***************************************************************************)
EXTENDS TrieStore, TLAPS

-----------------------------------------------------------------------------
(* Type correctness.                                                       *)

\* What RowsInOrder and JobIsNewest add to TypeOK to make it inductive.
OrderInv == TypeOK /\ RowsInOrder /\ JobIsNewest

LEMMA NoJobIsNoJob == NoJob \notin Job
BY DEF NoJob, Job

\* The store starts empty, so every part of the invariant holds at first.
LEMMA InitOrder == Init => OrderInv
<1> SUFFICES ASSUME Init PROVE OrderInv
  OBVIOUS
<1>1. nextId \in 1 .. MaxApplies + 1
  BY BoundAssumption DEF Init
<1>2. pc = "idle" /\ job = NoJob /\ trie = {}
  BY DEF Init
<1>3. pc = "applying" <=> job \in Job
  BY <1>2, NoJobIsNoJob
<1>4. TypeOK
  BY <1>1, <1>2, <1>3 DEF Init, TypeOK
<1> QED
  BY <1>2, <1>4 DEF OrderInv, RowsInOrder, JobIsNewest

\* Starting an apply changes nothing but the job.
LEMMA BeginOrder ==
  ASSUME OrderInv, NEW cid \in Cids, NEW slot \in Slots \ {0}, NEW ops \in Batch,
         BeginApply(cid, slot, ops)
  PROVE  OrderInv'
<1>1. job' \in Job
  BY DEF BeginApply, Job
<1>2. TypeOK'
  BY <1>1, NoJobIsNoJob DEF OrderInv, TypeOK, BeginApply, tables
<1>3. RowsInOrder' /\ JobIsNewest'
  BY DEF OrderInv, RowsInOrder, JobIsNewest, BeginApply, tables
<1> QED
  BY <1>2, <1>3 DEF OrderInv

\* One entry changes one value of the memory trie and shrinks the job.
LEMMA EntryOrder ==
  ASSUME OrderInv, NEW k \in Keys, ApplyPut(k) \/ ApplyDelete(k)
  PROVE  OrderInv'
<1>1. pc = "applying" /\ job \in Job
  BY DEF OrderInv, TypeOK, ApplyPut, ApplyDelete
<1>2. /\ job' = [job EXCEPT !.todo = @ \ {k}]
      /\ UNCHANGED <<tables, pc, stale>>
  BY DEF ApplyPut, ApplyDelete
<1>3. job' \in Job /\ job'.slot = job.slot
  BY <1>1, <1>2 DEF Job
<1>4. memoryTrie' \in [Keys -> Values \cup {NULL}]
  BY <1>1 DEF OrderInv, TypeOK, ApplyPut, ApplyDelete, Puts, Job, Batch, Op
<1>5. TypeOK'
  BY <1>2, <1>3, <1>4, <1>1 DEF OrderInv, TypeOK, tables
<1>6. RowsInOrder' /\ JobIsNewest'
  BY <1>2, <1>3 DEF OrderInv, RowsInOrder, JobIsNewest, tables
<1> QED
  BY <1>5, <1>6 DEF OrderInv

\* A commit adds one row, newer than all others, and well-formed values.
LEMMA CommitOrder == OrderInv /\ CommitApply => OrderInv'
<1> SUFFICES ASSUME OrderInv, CommitApply PROVE OrderInv'
  OBVIOUS
<1> USE NullAssumption, BoundAssumption
<1> DEFINE new == [id |-> nextId, cid |-> job.cid, slot |-> job.slot, ops |-> job.ops]
<1>1. job \in Job /\ nextId \in Ids
  BY DEF OrderInv, TypeOK, JobIsNewest, CommitApply, Ids
<1>2. new \in Row /\ trie' = trie \cup {new}
  BY <1>1 DEF CommitApply, Row, Job
<1>3. key' \in [Keys -> Values \cup {NULL}]
  BY <1>1 DEF OrderInv, TypeOK, CommitApply, Job, Batch, Op
<1>4. value' \in SUBSET Values
  BY DEF OrderInv, TypeOK, CommitApply
<1>5. /\ firstSeen' \in [Objects -> Ids \cup {NULL}]
      /\ lastSeen' \in [Objects -> Ids \cup {NULL}]
  BY <1>1 DEF OrderInv, TypeOK, CommitApply, FirstSeenUpsert
<1>6. nextId' = nextId + 1 /\ nextId' \in 1 .. MaxApplies + 1
  BY <1>1 DEF OrderInv, TypeOK, CommitApply, Ids
<1>7. TypeOK'
  BY <1>2, <1>3, <1>4, <1>5, <1>6, NoJobIsNoJob DEF OrderInv, TypeOK, CommitApply
<1>8. RowsInOrder'
  <2>1. \A r \in trie : r.id \in Nat /\ r.id < nextId /\ r.slot + MinSlotGap <= job.slot
    BY DEF OrderInv, RowsInOrder, JobIsNewest, CommitApply, TypeOK, Row, Ids
  <2>2. nextId \in Nat
    BY <1>1 DEF Ids
  <2>3. \A r \in trie' : r.id < nextId'
    BY <2>1, <2>2, <1>2, <1>6
  <2>4. \A q, r \in trie' : q.id = r.id => q = r
    BY <2>1, <2>2, <1>2 DEF OrderInv, RowsInOrder
  <2>5. \A q, r \in trie' : q.id < r.id => q.slot + MinSlotGap <= r.slot
    BY <2>1, <2>2, <1>2 DEF OrderInv, RowsInOrder
  <2> QED
    BY <2>3, <2>4, <2>5 DEF RowsInOrder
<1>9. JobIsNewest'
  BY DEF JobIsNewest, CommitApply
<1> QED
  BY <1>7, <1>8, <1>9 DEF OrderInv

\* A rollback keeps a subset of the rows, and their order.
LEMMA RollbackOrder ==
  ASSUME OrderInv, NEW c \in Slots, RollbackToSlot(c)
  PROVE  OrderInv'
<1>1. trie' \subseteq trie /\ nextId' = nextId /\ job' = job /\ memoryTrie' = memoryTrie
  BY DEF RollbackToSlot, Kept
<1>2. TypeOK'
  BY <1>1 DEF OrderInv, TypeOK, RollbackToSlot
<1>3. RowsInOrder'
  BY <1>1 DEF OrderInv, RowsInOrder
<1>4. JobIsNewest'
  BY DEF JobIsNewest, RollbackToSlot
<1> QED
  BY <1>2, <1>3, <1>4 DEF OrderInv

\* Aborts, reloads and restarts leave the tables alone.
LEMMA ReloadOrder ==
  OrderInv /\ (AbortApply \/ LoadTrie \/ LoadTrieFails \/ Restart) => OrderInv'
<1> SUFFICES ASSUME OrderInv, AbortApply \/ LoadTrie \/ LoadTrieFails \/ Restart
             PROVE  OrderInv'
  OBVIOUS
<1>1. UNCHANGED tables /\ pc' = "idle" /\ stale' \in BOOLEAN
  BY DEF AbortApply, LoadTrie, LoadTrieFails, Restart
<1>2. memoryTrie' = memoryTrie \/ memoryTrie' = key
  BY DEF AbortApply, LoadTrie, LoadTrieFails, Restart
<1>3. job' = NoJob
  BY NoJobIsNoJob
     DEF AbortApply, LoadTrie, LoadTrieFails, Restart, OrderInv, TypeOK
<1>4. TypeOK'
  BY <1>1, <1>2, <1>3, NoJobIsNoJob DEF OrderInv, TypeOK, tables
<1> QED
  BY <1>1, <1>4 DEF OrderInv, RowsInOrder, JobIsNewest, tables

\* Every step keeps the order of rows and the types.
LEMMA NextOrder == OrderInv /\ [Next]_vars => OrderInv'
<1> SUFFICES ASSUME OrderInv, [Next]_vars PROVE OrderInv'
  OBVIOUS
<1>1. CASE \E cid \in Cids, slot \in Slots \ {0}, ops \in Batch :
              BeginApply(cid, slot, ops)
  BY <1>1, BeginOrder
<1>2. CASE \E k \in Keys : ApplyPut(k) \/ ApplyDelete(k)
  BY <1>2, EntryOrder
<1>3. CASE CommitApply
  BY <1>3, CommitOrder
<1>4. CASE \E c \in Slots : RollbackToSlot(c)
  BY <1>4, RollbackOrder
<1>5. CASE AbortApply \/ LoadTrie \/ LoadTrieFails \/ Restart
  BY <1>5, ReloadOrder
<1>6. CASE UNCHANGED vars
  BY <1>6 DEF vars, tables, OrderInv, TypeOK, RowsInOrder, JobIsNewest
<1> QED
  BY <1>1, <1>2, <1>3, <1>4, <1>5, <1>6 DEF Next

\* The tables, the memory trie and the call in progress keep their types,
\* and rows are created in slot order, in every reachable state.
THEOREM TypeCorrect == Spec => [](TypeOK /\ RowsInOrder /\ JobIsNewest)
<1>1. Spec => []OrderInv
  BY InitOrder, NextOrder, PTL DEF Spec
<1> QED
  BY <1>1, PTL DEF OrderInv

-----------------------------------------------------------------------------
(* The orders of the two queries: GetStateMapAtSlot and last_ops.          *)

RowSet(rows) == rows \subseteq Row

\* Cutting the rows at c gives, at every slot t, what the whole table gave
\* at the smaller of the two: the state before the cut is untouched and
\* from the cut on it no longer changes.
LEMMA StateMapOfCut ==
  ASSUME NEW rows, RowSet(rows), NEW c \in Slots, NEW t \in Slots
  PROVE  StateMapAtSlot({r \in rows : r.slot <= c}, t)
           = StateMapAtSlot(rows, IF t <= c THEN t ELSE c)
<1> DEFINE cut == {r \in rows : r.slot <= c}
           m == IF t <= c THEN t ELSE c
<1>1. \A r \in rows : r.slot \in Nat
  BY DEF RowSet, Row, Slots
<1>2. c \in Nat /\ t \in Nat /\ m \in Nat
  BY DEF Slots
<1>3. \A r \in rows : r.slot <= m <=> r \in cut /\ r.slot <= t
  BY <1>1, <1>2
<1>4. ASSUME NEW r, NEW k \in Keys
      PROVE  IsLastAt(r, cut, k, t) <=> IsLastAt(r, rows, k, m)
  <2>1. \A q : q \in Touching(cut, k) /\ q.slot <= t
               <=> q \in Touching(rows, k) /\ q.slot <= m
    BY <1>3 DEF Touching
  <2> QED
    BY <2>1 DEF IsLastAt
<1>5. \A r, k : IsLastAt(r, cut, k, t) => r \in cut
  BY DEF IsLastAt, Touching
<1>6. \A r, k : IsLastAt(r, rows, k, m) => r \in rows
  BY DEF IsLastAt, Touching
<1> QED
  BY <1>4, <1>5, <1>6 DEF StateMapAtSlot

\* A row newer than all others decides, from its slot on, the keys it
\* touches, and nothing else.
LEMMA LastAtOfNewest ==
  ASSUME NEW rows, RowSet(rows), NEW new \in Row,
         \A r \in rows : r.slot < new.slot,
         NEW k \in Keys, NEW t \in Slots, NEW r
  PROVE  IsLastAt(r, rows \cup {new}, k, t) <=>
           IF t >= new.slot /\ Touches(new, k) THEN r = new
           ELSE IsLastAt(r, rows, k, t)
<1>1. \A q \in rows : q.slot \in Nat /\ q \in Row
  BY DEF RowSet, Row, Slots
<1>2. new.slot \in Nat /\ t \in Nat /\ new \notin rows
  BY <1>1 DEF Row, Slots
<1>3. \A q \in rows : Later(new, q) /\ ~Later(q, new)
  BY <1>1, <1>2 DEF Later
<1>4. ~Later(new, new)
  BY <1>2 DEF Later, Row, Ids
<1>5. CASE t >= new.slot /\ Touches(new, k)
  <2>1. new.slot <= t
    BY <1>5, <1>2
  <2>2. new \in Touching(rows \cup {new}, k)
    BY <1>5 DEF Touching
  <2>3. \A q \in Touching(rows \cup {new}, k) : q = new \/ q \in rows
    BY DEF Touching
  <2>4. IsLastAt(new, rows \cup {new}, k, t)
    BY <2>1, <2>2, <2>3, <1>3, <1>4 DEF IsLastAt
  <2>5. IsLastAt(r, rows \cup {new}, k, t) => r = new
    BY <2>1, <2>2, <2>3, <1>3 DEF IsLastAt
  <2> QED
    BY <1>5, <2>4, <2>5
<1>6. CASE ~Touches(new, k)
  <2>1. Touching(rows \cup {new}, k) = Touching(rows, k)
    BY <1>6 DEF Touching
  <2> QED
    BY <1>6, <2>1 DEF IsLastAt
<1>7. CASE ~(t >= new.slot)
  <2>1. ~(new.slot <= t)
    BY <1>7, <1>2
  <2>2. \A q : q \in Touching(rows \cup {new}, k) /\ q.slot <= t
               <=> q \in Touching(rows, k) /\ q.slot <= t
    BY <2>1 DEF Touching
  <2> QED
    BY <1>7, <2>2 DEF IsLastAt
<1> QED
  BY <1>5, <1>6, <1>7

\* With at most one row per slot, last_ops and GetStateMapAtSlot agree on
\* the row that decides a key.
LEMMA LastOpIsLastAt ==
  ASSUME NEW rows, RowSet(rows), \A q, r \in rows : q.slot = r.slot => q = r,
         NEW k \in Keys, NEW r \in rows, IsLastOp(r, rows, k)
  PROVE  \A q : IsLastAt(q, rows, k, MaxSlot) <=> q = r
<1>1. \A q \in rows : q.slot \in Nat /\ q.slot <= MaxSlot /\ q.id \in Nat
  BY BoundAssumption DEF RowSet, Row, Slots, Ids
<1>2. \A q \in Touching(rows, k) : q \in rows /\ (q = r \/ q.slot < r.slot)
  BY DEF IsLastOp, Touching
<1>3. r \in Touching(rows, k)
  BY DEF IsLastOp
<1>4. \A q \in Touching(rows, k) : ~Later(q, r)
  BY <1>1, <1>2 DEF Later
<1>5. IsLastAt(r, rows, k, MaxSlot)
  BY <1>1, <1>3, <1>4 DEF IsLastAt
<1>6. ASSUME NEW q, IsLastAt(q, rows, k, MaxSlot) PROVE q = r
  <2>1. q \in Touching(rows, k) /\ ~Later(r, q)
    BY <1>6, <1>3, <1>1 DEF IsLastAt
  <2> QED
    BY <2>1, <1>1, <1>2 DEF Later
<1> QED
  BY <1>5, <1>6

-----------------------------------------------------------------------------
(* The key table is the replay of the recorded operations.                 *)

ReplayInv == OrderInv /\ KeyTableIsReplay

\* KeyTableIsReplay, key by key.
LEMMA ReplayPointwise ==
  ASSUME NEW rows, NEW table, NEW s
  PROVE  CurrentStateMap(table) = StateMapAtSlot(rows, s) <=>
           \A k \in Keys, v \in Values :
              table[k] = v <=> \E r \in rows : IsLastAt(r, rows, k, s) /\ r.ops[k].val = v
<1> DEFINE Decided(k, v) == \E r \in rows : IsLastAt(r, rows, k, s) /\ r.ops[k].val = v
<1>1. \A k \in Keys, v \in Values : <<k, v>> \in CurrentStateMap(table) <=> table[k] = v
  BY DEF CurrentStateMap
<1>2. \A k \in Keys, v \in Values : <<k, v>> \in StateMapAtSlot(rows, s) <=> Decided(k, v)
  BY DEF StateMapAtSlot
<1>3. CurrentStateMap(table) \subseteq Keys \X Values
  BY DEF CurrentStateMap
<1>4. StateMapAtSlot(rows, s) \subseteq Keys \X Values
  BY DEF StateMapAtSlot
<1> HIDE DEF Decided
<1>5. CurrentStateMap(table) = StateMapAtSlot(rows, s) <=>
        \A k \in Keys, v \in Values :
           <<k, v>> \in CurrentStateMap(table) <=> <<k, v>> \in StateMapAtSlot(rows, s)
  BY <1>3, <1>4
<1>6. CurrentStateMap(table) = StateMapAtSlot(rows, s) <=>
        \A k \in Keys, v \in Values : table[k] = v <=> Decided(k, v)
  BY <1>1, <1>2, <1>5
<1> QED
  BY <1>6 DEF Decided

\* No two rows share a slot when the chain never carries two updates in one.
LEMMA SlotsDistinct ==
  ASSUME OrderInv, MinSlotGap = 1
  PROVE  \A q, r \in trie : q.slot = r.slot => q = r
<1>1. \A r \in trie : r.id \in Nat /\ r.slot \in Nat
  BY DEF OrderInv, TypeOK, Row, Ids, Slots
<1> QED
  BY <1>1 DEF OrderInv, RowsInOrder

\* The value a row records for a key is one of Values, or NULL.
LEMMA RecordedValue ==
  ASSUME NEW ops \in Batch, NEW k \in Keys
  PROVE  /\ ops[k].val \in Values \cup {NULL}
         /\ ops[k].type = "none" => ops[k].val = NULL
BY DEF Batch, Op

\* A commit gives the keys of the batch the values of the newest row and
\* leaves the others to the rows that decided them.
LEMMA CommitReplay ==
  ASSUME ReplayInv, MinSlotGap = 1, CommitApply
  PROVE  KeyTableIsReplay'
<1> DEFINE new == [id |-> nextId, cid |-> job.cid, slot |-> job.slot, ops |-> job.ops]
<1>1. job \in Job /\ nextId \in Ids
  BY BoundAssumption DEF ReplayInv, OrderInv, TypeOK, JobIsNewest, CommitApply, Ids
<1>2. new \in Row /\ trie' = trie \cup {new} /\ new.ops = job.ops
  BY <1>1 DEF CommitApply, Row, Job
<1>3. RowSet(trie) /\ \A r \in trie : r.slot < new.slot
  <2>1. \A r \in trie : r.slot \in Nat /\ r.slot + 1 <= job.slot
    BY DEF ReplayInv, OrderInv, TypeOK, JobIsNewest, CommitApply, Row, Slots
  <2>2. job.slot \in Nat
    BY <1>1 DEF Job, Slots
  <2> QED
    BY <2>1, <2>2 DEF ReplayInv, OrderInv, TypeOK, RowSet
<1>4. MaxSlot \in Slots /\ MaxSlot >= new.slot
  BY <1>2, BoundAssumption DEF Row, Slots
<1>5. ASSUME NEW k \in Keys, NEW v \in Values
      PROVE  key'[k] = v <=> \E r \in trie' : /\ IsLastAt(r, trie', k, MaxSlot)
                                              /\ r.ops[k].val = v
  <2>1. \A r : IsLastAt(r, trie', k, MaxSlot) <=>
                 IF Touches(new, k) THEN r = new ELSE IsLastAt(r, trie, k, MaxSlot)
    BY <1>2, <1>3, <1>4, LastAtOfNewest
  <2>2. key'[k] = IF job.ops[k].type = "none" THEN key[k] ELSE job.ops[k].val
    BY DEF CommitApply
  <2>3. CASE job.ops[k].type = "none"
    <3>1. \A r : IsLastAt(r, trie', k, MaxSlot) <=> IsLastAt(r, trie, k, MaxSlot)
      BY <2>1, <2>3, <1>2 DEF Touches
    <3>2. key[k] = v <=> \E r \in trie : /\ IsLastAt(r, trie, k, MaxSlot)
                                         /\ r.ops[k].val = v
      BY ReplayPointwise DEF ReplayInv, KeyTableIsReplay
    <3>3. \A r : IsLastAt(r, trie, k, MaxSlot) => r \in trie
      BY DEF IsLastAt, Touching
    <3> QED
      BY <3>1, <3>2, <3>3, <2>2, <2>3, <1>2
  <2>4. CASE job.ops[k].type # "none"
    <3>1. \A r : IsLastAt(r, trie', k, MaxSlot) <=> r = new
      BY <2>1, <2>4, <1>2 DEF Touches
    <3> QED
      BY <3>1, <2>2, <2>4, <1>2
  <2> QED
    BY <2>3, <2>4
<1> QED
  BY <1>5, ReplayPointwise DEF KeyTableIsReplay

\* A rollback to c gives every key the value of its latest kept operation:
\* up_keys and up_missing reach exactly the keys that lose one.
LEMMA RollbackReplay ==
  ASSUME ReplayInv, MinSlotGap = 1, NEW c \in Slots, RollbackToSlot(c)
  PROVE  KeyTableIsReplay'
<1>1. trie' = Kept(c) /\ Kept(c) \subseteq trie /\ RowSet(Kept(c)) /\ RowSet(trie)
  BY DEF RollbackToSlot, Kept, ReplayInv, OrderInv, TypeOK, RowSet
<1>2. \A q, r \in Kept(c) : q.slot = r.slot => q = r
  BY SlotsDistinct, <1>1 DEF ReplayInv
<1>3. \A r \in trie : r.slot <= c <=> ~(r.slot > c)
  BY <1>1 DEF RowSet, Row, Slots
<1>4. ASSUME NEW k \in Keys, NEW v \in Values
      PROVE  key'[k] = v <=> \E r \in Kept(c) : /\ IsLastAt(r, Kept(c), k, MaxSlot)
                                                /\ r.ops[k].val = v
  <2>1. RestoredValue(k, c, key'[k])
    BY DEF RollbackToSlot
  <2>2. CASE Touching(Doomed(c), k) = {}
    <3>1. Touching(Kept(c), k) = Touching(trie, k)
      BY <2>2, <1>3 DEF Touching, Doomed, Kept
    <3>2. \A r : IsLastAt(r, Kept(c), k, MaxSlot) <=> IsLastAt(r, trie, k, MaxSlot)
      BY <3>1 DEF IsLastAt
    <3>3. key[k] = v <=> \E r \in trie : /\ IsLastAt(r, trie, k, MaxSlot)
                                         /\ r.ops[k].val = v
      BY ReplayPointwise DEF ReplayInv, KeyTableIsReplay
    <3>4. \A r : IsLastAt(r, Kept(c), k, MaxSlot) => r \in Kept(c)
      BY DEF IsLastAt, Touching
    <3> QED
      BY <2>1, <2>2, <3>2, <3>3, <3>4, <1>1 DEF RestoredValue
  <2>3. CASE Touching(Doomed(c), k) # {} /\ Touching(Kept(c), k) = {}
    <3>1. key'[k] = NULL
      BY <2>1, <2>3 DEF RestoredValue
    <3>2. \A r : ~IsLastAt(r, Kept(c), k, MaxSlot)
      BY <2>3 DEF IsLastAt
    <3> QED
      BY <3>1, <3>2, NullAssumption
  <2>4. CASE Touching(Doomed(c), k) # {} /\ Touching(Kept(c), k) # {}
    <3>1. PICK r \in Kept(c) : IsLastOp(r, Kept(c), k) /\ key'[k] = r.ops[k].val
      BY <2>1, <2>4 DEF RestoredValue
    <3>2. \A q : IsLastAt(q, Kept(c), k, MaxSlot) <=> q = r
      BY <3>1, <1>1, <1>2, LastOpIsLastAt
    <3> QED
      BY <3>1, <3>2
  <2> QED
    BY <2>2, <2>3, <2>4
<1> QED
  BY <1>1, <1>4, ReplayPointwise DEF KeyTableIsReplay

\* Only a commit and a rollback change the tables.
LEMMA TablesOnlyBy ==
  ASSUME [Next]_vars
  PROVE  \/ UNCHANGED tables
         \/ CommitApply
         \/ \E c \in Slots : RollbackToSlot(c)
BY DEF Next, vars, BeginApply, ApplyPut, ApplyDelete, AbortApply, LoadTrie,
       LoadTrieFails, Restart

\* The current values are, in every reachable state, what replaying the
\* recorded operations gives: the trigger and rollback_to_slot together
\* never lose or resurrect a value, whatever the interleaving of applies,
\* aborts, rollbacks and restarts, as long as no two updates share a slot.
THEOREM KeyTableReplay ==
  ASSUME MinSlotGap = 1
  PROVE  Spec => []KeyTableIsReplay
<1>1. Init => ReplayInv
  <2>1. Init => CurrentStateMap(key) = {} /\ StateMapAtSlot(trie, MaxSlot) = {}
    BY NullAssumption DEF Init, CurrentStateMap, StateMapAtSlot
  <2> QED
    BY <2>1, InitOrder DEF ReplayInv, KeyTableIsReplay
<1>2. ReplayInv /\ [Next]_vars => ReplayInv'
  <2> SUFFICES ASSUME ReplayInv, [Next]_vars PROVE ReplayInv'
    OBVIOUS
  <2>1. OrderInv'
    BY NextOrder DEF ReplayInv
  <2>2. CASE UNCHANGED tables
    BY <2>1, <2>2 DEF ReplayInv, KeyTableIsReplay, CurrentStateMap,
                      StateMapAtSlot, IsLastAt, Touching, tables
  <2>3. CASE CommitApply
    BY <2>1, <2>3, CommitReplay DEF ReplayInv
  <2>4. CASE \E c \in Slots : RollbackToSlot(c)
    BY <2>1, <2>4, RollbackReplay DEF ReplayInv
  <2> QED
    BY <2>2, <2>3, <2>4, TablesOnlyBy
<1> QED
  BY <1>1, <1>2, PTL DEF Spec, ReplayInv

-----------------------------------------------------------------------------
(* The store implements the abstract history of OracleHistory.             *)

\* A commit is the publication of its batch at the slot of its transaction.
LEMMA CommitPublishes ==
  ASSUME ReplayInv, ReplayInv', MinSlotGap = 1, CommitApply
  PROVE  Oracle!Next
<1> DEFINE new == [id |-> nextId, cid |-> job.cid, slot |-> job.slot, ops |-> job.ops]
           touched == {k \in Keys : job.ops[k].type # "none"}
           put == {p \in touched \X Values : job.ops[p[1]].val = p[2]}
<1>1. job \in Job /\ nextId \in Ids
  BY BoundAssumption DEF ReplayInv, OrderInv, TypeOK, JobIsNewest, CommitApply, Ids
<1>2. new \in Row /\ trie' = trie \cup {new} /\ new.ops = job.ops /\ new.slot = job.slot
  BY <1>1 DEF CommitApply, Row, Job
<1>3. RowSet(trie) /\ \A r \in trie : r.slot < new.slot
  <2>1. \A r \in trie : r.slot \in Nat /\ r.slot + 1 <= job.slot
    BY DEF ReplayInv, OrderInv, TypeOK, JobIsNewest, CommitApply, Row, Slots
  <2>2. job.slot \in Nat
    BY <1>1 DEF Job, Slots
  <2> QED
    BY <2>1, <2>2 DEF ReplayInv, OrderInv, TypeOK, RowSet
<1>4. /\ job.slot \in Slots /\ job.slot \in Nat /\ MaxSlot \in Slots
      /\ \A t \in Slots : t \in Nat /\ t <= MaxSlot
  BY <1>1, BoundAssumption DEF Job, Slots
\* From the slot of the batch on, the whole table decides.
<1>5. ASSUME NEW t \in Slots, t >= job.slot
      PROVE  /\ StateMapAtSlot(trie, t) = StateMapAtSlot(trie, MaxSlot)
             /\ StateMapAtSlot(trie', t) = StateMapAtSlot(trie', MaxSlot)
  <2>1. \A r \in trie' : r.slot \in Nat /\ r.slot <= t /\ r.slot <= MaxSlot
    BY <1>2, <1>3, <1>4, <1>5 DEF RowSet, Row, Slots
  <2>2. \A r, k : IsLastAt(r, trie, k, t) <=> IsLastAt(r, trie, k, MaxSlot)
    BY <2>1, <1>2 DEF IsLastAt, Touching
  <2>3. \A r, k : IsLastAt(r, trie', k, t) <=> IsLastAt(r, trie', k, MaxSlot)
    BY <2>1 DEF IsLastAt, Touching
  <2> QED
    BY <2>2, <2>3 DEF StateMapAtSlot
\* Before it, nothing changes.
<1>6. ASSUME NEW t \in Slots, t < job.slot
      PROVE  StateMapAtSlot(trie', t) = StateMapAtSlot(trie, t)
  <2>1. ~(t >= new.slot)
    BY <1>6, <1>2, <1>4
  <2>2. \A k \in Keys : \A r : IsLastAt(r, trie', k, t) <=> IsLastAt(r, trie, k, t)
    BY <2>1, <1>2, <1>3, LastAtOfNewest
  <2>3. \A r, k : IsLastAt(r, trie, k, t) => r \in trie
    BY DEF IsLastAt, Touching
  <2> QED
    BY <2>2, <2>3, <1>2 DEF StateMapAtSlot
<1>7. CurrentStateMap(key') = {p \in CurrentStateMap(key) : p[1] \notin touched} \cup put
  <2>1. \A k \in Keys : key'[k] = IF k \in touched THEN job.ops[k].val ELSE key[k]
    BY DEF CommitApply
  <2> QED
    BY <2>1 DEF CurrentStateMap
<1>8. /\ CurrentStateMap(key) = StateMapAtSlot(trie, MaxSlot)
      /\ CurrentStateMap(key') = StateMapAtSlot(trie', MaxSlot)
  BY DEF ReplayInv, KeyTableIsReplay
<1>9. Oracle!Publish(job.slot, touched, put)
  <2>1. \A t \in Slots : t >= job.slot => StateMapAtSlot(trie, t) = CurrentStateMap(key)
    BY <1>5, <1>8
  <2>2. \A t \in Slots : StateMapAtSlot(trie', t) =
           IF t < job.slot THEN StateMapAtSlot(trie, t) ELSE CurrentStateMap(key')
    BY <1>4, <1>5, <1>6, <1>8
  <2> QED
    BY <2>1, <2>2, <1>7 DEF Oracle!Publish, Oracle!Slots, Slots
<1>10. put \in SUBSET (touched \X Values) /\ touched \in SUBSET Keys
  OBVIOUS
<1> HIDE DEF touched, put
<1> QED
  BY <1>4, <1>9, <1>10 DEF Oracle!Next, Oracle!Slots, Slots

\* A rollback to c restores the state of slot c and cuts the history there.
LEMMA RollbackRestores ==
  ASSUME ReplayInv, ReplayInv', NEW c \in Slots, RollbackToSlot(c)
  PROVE  Oracle!Next
<1>1. trie' = {r \in trie : r.slot <= c} /\ RowSet(trie)
  BY DEF RollbackToSlot, Kept, ReplayInv, OrderInv, TypeOK, RowSet
<1>2. \A t \in Slots : StateMapAtSlot(trie', t) = StateMapAtSlot(trie, IF t <= c THEN t ELSE c)
  BY <1>1, StateMapOfCut
<1>3. MaxSlot \in Slots /\ c \in Slots /\ c <= MaxSlot
  BY BoundAssumption DEF Slots
<1>4. CurrentStateMap(key') = StateMapAtSlot(trie, c)
  <2>1. CurrentStateMap(key') = StateMapAtSlot(trie', MaxSlot)
    BY DEF ReplayInv, KeyTableIsReplay
  <2>2. (IF MaxSlot <= c THEN MaxSlot ELSE c) = c
    BY <1>3, BoundAssumption DEF Slots
  <2> QED
    BY <2>1, <2>2, <1>2, <1>3
<1>5. Oracle!RollBack(c)
  BY <1>2, <1>4 DEF Oracle!RollBack, Oracle!Slots, Slots
<1> QED
  BY <1>5 DEF Oracle!Next, Oracle!Slots, Slots

\* Every behaviour of the store is one of the abstract history: applying an
\* oracle file publishes it in one step however the memory trie and the
\* transaction interleave with aborts and restarts, and rollback_to_slot
\* gives back exactly the state GetStateMapAtSlot reports for that slot.
THEOREM StoreImplementsHistory ==
  ASSUME MinSlotGap = 1
  PROVE  Spec => ImplementsOracleHistory
<1>1. Init => Oracle!Init
  BY NullAssumption
     DEF Init, Oracle!Init, CurrentStateMap, StateMapAtSlot, Oracle!Slots, Slots
<1>3. ReplayInv /\ ReplayInv' /\ [Next]_vars => [Oracle!Next]_(Oracle!vars)
  <2> SUFFICES ASSUME ReplayInv, ReplayInv', [Next]_vars
               PROVE  [Oracle!Next]_(Oracle!vars)
    OBVIOUS
  <2>1. CASE UNCHANGED tables
    BY <2>1 DEF tables, Oracle!vars, CurrentStateMap, StateMapAtSlot, IsLastAt, Touching
  <2>2. CASE CommitApply
    BY <2>2, CommitPublishes
  <2>3. CASE \E c \in Slots : RollbackToSlot(c)
    BY <2>3, RollbackRestores
  <2> QED
    BY <2>1, <2>2, <2>3, TablesOnlyBy
<1>4. Spec => []ReplayInv
  <2>1. Spec => []OrderInv
    BY InitOrder, NextOrder, PTL DEF Spec
  <2>2. Spec => []KeyTableIsReplay
    BY KeyTableReplay
  <2> QED
    BY <2>1, <2>2, PTL DEF ReplayInv
<1> QED
  BY <1>1, <1>3, <1>4, PTL DEF Spec, ImplementsOracleHistory, Oracle!Spec

-----------------------------------------------------------------------------
(* No reference to a value that was collected.                             *)

\* What a rollback restores was referenced, and stored, before it.
LEMMA RollbackReferences ==
  ASSUME NoDanglingValue, NEW c \in Slots, RollbackToSlot(c)
  PROVE  NoDanglingValue'
<1>1. trie' = Kept(c) /\ Kept(c) \subseteq trie
  BY DEF RollbackToSlot, Kept
<1>2. value' = {v \in value : Referenced(v)}
  BY DEF RollbackToSlot
<1>3. ASSUME NEW r \in trie', NEW k \in Keys, r.ops[k].val # NULL
      PROVE  r.ops[k].val \in value'
  BY <1>1, <1>2, <1>3 DEF NoDanglingValue, Referenced
<1>4. ASSUME NEW k \in Keys, key'[k] # NULL
      PROVE  key'[k] \in value'
  <2>1. RestoredValue(k, c, key'[k])
    BY DEF RollbackToSlot
  <2>2. key'[k] = key[k] \/ \E r \in trie' : key'[k] = r.ops[k].val
    BY <2>1, <1>1, <1>4 DEF RestoredValue
  <2>3. CASE key'[k] = key[k]
    BY <2>3, <1>2, <1>4 DEF NoDanglingValue, Referenced
  <2>4. CASE \E r \in trie' : key'[k] = r.ops[k].val
    BY <2>4, <1>3, <1>4
  <2> QED
    BY <2>2, <2>3, <2>4
<1> QED
  BY <1>3, <1>4 DEF NoDanglingValue

\* gc_values never collects a value that a key or a recorded operation
\* refers to, in any interleaving of applies, rollbacks and restarts.
THEOREM NoValueLost == Spec => []NoDanglingValue
<1>1. Init => NoDanglingValue
  BY DEF Init, NoDanglingValue
<1>2. OrderInv /\ NoDanglingValue /\ [Next]_vars => NoDanglingValue'
  <2> SUFFICES ASSUME OrderInv, NoDanglingValue, [Next]_vars PROVE NoDanglingValue'
    OBVIOUS
  <2>1. CASE UNCHANGED tables
    BY <2>1 DEF NoDanglingValue, tables
  <2>2. CASE CommitApply
    <3> DEFINE new == [id |-> nextId, cid |-> job.cid, slot |-> job.slot, ops |-> job.ops]
    <3>1. job \in Job
      BY <2>2 DEF OrderInv, TypeOK, CommitApply
    <3>2. \A k \in Keys : job.ops[k].val # NULL => job.ops[k].val \in value'
      BY <3>1, <2>2, RecordedValue DEF CommitApply, Job
    <3>3. value \subseteq value' /\ trie' = trie \cup {new} /\ new.ops = job.ops
      BY <2>2 DEF CommitApply
    <3>4. \A k \in Keys : key'[k] = key[k] \/ key'[k] = job.ops[k].val
      BY <2>2 DEF CommitApply
    <3> QED
      BY <3>2, <3>3, <3>4 DEF NoDanglingValue
  <2>3. CASE \E c \in Slots : RollbackToSlot(c)
    BY <2>3, RollbackReferences
  <2> QED
    BY <2>1, <2>2, <2>3, TablesOnlyBy
<1>3. Spec => []OrderInv
  BY InitOrder, NextOrder, PTL DEF Spec
<1> QED
  BY <1>1, <1>2, <1>3, PTL DEF Spec

-----------------------------------------------------------------------------
(* The memory trie follows the tables.                                     *)

\* Only keys that the batch names are left to do.
TodoIsNamed ==
    pc = "applying" => \A k \in job.todo : job.ops[k].type # "none"

MemoryInv == OrderInv /\ TodoIsNamed /\ MemoryFollowsTables

\* Applying one entry writes what the batch says of its key, NULL for a delete.
LEMMA EntryWritten ==
  ASSUME OrderInv, TodoIsNamed, NEW k \in Keys, ApplyPut(k) \/ ApplyDelete(k)
  PROVE  /\ pc = "applying" /\ job \in Job /\ k \in job.todo /\ job.ops[k].type # "none"
         /\ job' = [job EXCEPT !.todo = @ \ {k}]
         /\ UNCHANGED <<tables, pc, stale>>
         /\ memoryTrie' = [memoryTrie EXCEPT ![k] = job.ops[k].val]
<1>1. pc = "applying" /\ job \in Job /\ k \in job.todo /\ job.ops[k].type # "none"
  BY DEF OrderInv, TypeOK, TodoIsNamed, ApplyPut, ApplyDelete, Puts
<1>2. CASE ApplyPut(k)
  BY <1>1, <1>2 DEF ApplyPut
<1>3. CASE ApplyDelete(k)
  <2>1. job.ops[k].type = "delete"
    BY <1>3, <1>1 DEF ApplyDelete, Puts, Job, Batch, Op
  <2>2. job.ops[k].val = NULL
    BY <2>1, <1>1 DEF Job, Batch, Op
  <2> QED
    BY <1>1, <1>3, <2>2 DEF ApplyDelete
<1> QED
  BY <1>2, <1>3

\* So it moves its key from the tables' value to the batch's.
LEMMA EntryMemory ==
  ASSUME MemoryInv, NEW k \in Keys, ApplyPut(k) \/ ApplyDelete(k)
  PROVE  TodoIsNamed' /\ MemoryFollowsTables'
<1>1. pc = "applying" /\ job \in Job /\ k \in job.todo /\ job.ops[k].type # "none"
  BY EntryWritten DEF MemoryInv
<1>2. /\ job' = [job EXCEPT !.todo = @ \ {k}]
      /\ UNCHANGED <<key, pc, stale>>
  BY EntryWritten DEF MemoryInv, tables
<1>3. job'.todo = job.todo \ {k} /\ job'.ops = job.ops
  BY <1>1, <1>2 DEF Job
<1>4. memoryTrie' = [memoryTrie EXCEPT ![k] = job.ops[k].val]
  BY EntryWritten DEF MemoryInv
<1>5. memoryTrie \in [Keys -> Values \cup {NULL}]
  BY DEF MemoryInv, OrderInv, TypeOK
<1>6. TodoIsNamed'
  BY <1>2, <1>3 DEF MemoryInv, TodoIsNamed
<1>7. ASSUME ~stale', NEW j \in Keys
      PROVE  memoryTrie'[j] = IF j \notin job'.todo /\ job'.ops[j].type # "none"
                              THEN job'.ops[j].val ELSE key'[j]
  <2>1. memoryTrie[j] = IF j \notin job.todo /\ job.ops[j].type # "none"
                        THEN job.ops[j].val ELSE key[j]
    BY <1>1, <1>2, <1>7 DEF MemoryInv, MemoryFollowsTables
  <2>2. CASE j = k
    BY <2>2, <1>1, <1>3, <1>4, <1>5
  <2>3. CASE j # k
    BY <2>1, <2>3, <1>2, <1>3, <1>4, <1>5
  <2> QED
    BY <2>2, <2>3
<1>8. MemoryFollowsTables'
  BY <1>1, <1>2, <1>7 DEF MemoryFollowsTables
<1> QED
  BY <1>6, <1>8

LEMMA MemoryHolds == Spec => []MemoryInv
<1>1. Init => MemoryInv
  BY InitOrder DEF Init, MemoryInv, TodoIsNamed, MemoryFollowsTables
<1>2. MemoryInv /\ [Next]_vars => MemoryInv'
  <2> SUFFICES ASSUME MemoryInv, [Next]_vars PROVE TodoIsNamed' /\ MemoryFollowsTables'
    BY NextOrder DEF MemoryInv
  <2>1. ASSUME NEW cid \in Cids, NEW slot \in Slots \ {0}, NEW ops \in Batch,
               BeginApply(cid, slot, ops)
        PROVE  TodoIsNamed' /\ MemoryFollowsTables'
    BY <2>1 DEF MemoryInv, MemoryFollowsTables, TodoIsNamed, BeginApply, tables
  <2>2. CASE \E k \in Keys : ApplyPut(k) \/ ApplyDelete(k)
    BY <2>2, EntryMemory
  <2>3. CASE CommitApply
    BY <2>3 DEF MemoryInv, MemoryFollowsTables, TodoIsNamed, CommitApply
  <2>4. CASE AbortApply
    BY <2>4 DEF MemoryFollowsTables, TodoIsNamed, AbortApply
  <2>5. CASE \E c \in Slots : RollbackToSlot(c)
    BY <2>5 DEF MemoryFollowsTables, TodoIsNamed, RollbackToSlot
  <2>6. CASE LoadTrie \/ Restart
    BY <2>6 DEF MemoryFollowsTables, TodoIsNamed, LoadTrie, Restart, tables
  <2>7. CASE LoadTrieFails
    BY <2>7 DEF MemoryFollowsTables, TodoIsNamed, LoadTrieFails
  <2>8. CASE UNCHANGED vars
    BY <2>8 DEF vars, tables, MemoryInv, MemoryFollowsTables, TodoIsNamed
  <2> QED
    BY <2>1, <2>2, <2>3, <2>4, <2>5, <2>6, <2>7, <2>8 DEF Next
<1> QED
  BY <1>1, <1>2, PTL DEF Spec

\* Whenever no call is half done and none has failed since the last load,
\* the memory trie holds exactly the current values of the tables.
THEOREM MemoryFollows == Spec => []MemoryFollowsTables
<1>1. MemoryInv => MemoryFollowsTables
  BY DEF MemoryInv
<1> QED
  BY <1>1, MemoryHolds, PTL

-----------------------------------------------------------------------------
(* The files that objects were first and last seen in.                     *)

\* The serials of files are natural numbers, so none of them is NULL.
LEMMA FileIds ==
  ASSUME OrderInv, NEW o \in Objects
  PROVE  FilesOf(trie, o) \subseteq Nat /\ NULL \notin FilesOf(trie, o)
BY NullAssumption DEF OrderInv, TypeOK, FilesOf, Row, Ids

\* A set of serials has one earliest and one latest.
LEMMA EarliestUnique ==
  ASSUME NEW ids, ids \subseteq Nat, NEW i, NEW j, IsEarliest(i, ids), IsEarliest(j, ids)
  PROVE  i = j
<1>1. i \in Nat /\ j \in Nat /\ i <= j /\ j <= i
  BY DEF IsEarliest
<1> QED
  BY <1>1

LEMMA LatestUnique ==
  ASSUME NEW ids, ids \subseteq Nat, NEW i, NEW j, IsLatest(i, ids), IsLatest(j, ids)
  PROVE  i = j
<1>1. i \in Nat /\ j \in Nat /\ i <= j /\ j <= i
  BY DEF IsLatest
<1> QED
  BY <1>1

\* A commit adds its file, later than all others, to the objects it names.
LEMMA CommitFiles ==
  ASSUME OrderInv, CommitApply, NEW o \in Objects
  PROVE  /\ FilesOf(trie', o) = FilesOf(trie, o) \cup IF Seen(o) THEN {nextId} ELSE {}
         /\ \A i \in FilesOf(trie, o) : i < nextId
<1> DEFINE new == [id |-> nextId, cid |-> job.cid, slot |-> job.slot, ops |-> job.ops]
           Names(r) == \E k \in Keys : ObjectOf[k] = o /\ Touches(r, k)
<1>1. trie' = trie \cup {new} /\ new.id = nextId
  BY DEF CommitApply
<1>2. Names(new) <=> Seen(o)
  BY DEF Seen, Touches
<1>3. \A rows : FilesOf(rows, o) = {r.id : r \in {q \in rows : Names(q)}}
  BY DEF FilesOf
<1>4. \A r \in trie : r.id < nextId
  BY DEF OrderInv, RowsInOrder
<1> HIDE DEF Names, new
<1>5. \A i : i \in FilesOf(trie', o) <=> i \in FilesOf(trie, o) \/ (Seen(o) /\ i = nextId)
  BY <1>1, <1>2, <1>3
<1> QED
  BY <1>3, <1>4, <1>5

LEMMA CommitProvenance ==
  ASSUME OrderInv, ProvenanceIsSound, CommitApply
  PROVE  ProvenanceIsSound'
<1> SUFFICES ASSUME NEW o \in Objects
             PROVE  /\ IF FilesOf(trie', o) = {} THEN firstSeen'[o] = NULL
                       ELSE IsEarliest(firstSeen'[o], FilesOf(trie', o))
                    /\ lastSeen'[o] # NULL => IsLatest(lastSeen'[o], FilesOf(trie', o))
  BY DEF ProvenanceIsSound, FilesOf
<1> DEFINE ids == FilesOf(trie, o)
<1>1. FilesOf(trie', o) = ids \cup IF Seen(o) THEN {nextId} ELSE {}
  BY CommitFiles
<1>2. \A i \in ids : i < nextId
  BY CommitFiles
<1>3. nextId \in Nat /\ ids \subseteq Nat /\ NULL \notin ids
  BY FileIds, BoundAssumption DEF OrderInv, TypeOK
<1>4. /\ firstSeen'[o] = IF Seen(o) /\ firstSeen[o] = NULL THEN nextId ELSE firstSeen[o]
      /\ lastSeen'[o] = IF Seen(o) THEN nextId ELSE lastSeen[o]
  BY DEF CommitApply, FirstSeenUpsert
<1>5. /\ IF ids = {} THEN firstSeen[o] = NULL ELSE IsEarliest(firstSeen[o], ids)
      /\ lastSeen[o] # NULL => IsLatest(lastSeen[o], ids)
  BY DEF ProvenanceIsSound
<1> HIDE DEF ids
<1>6. CASE Seen(o)
  <2>1. FilesOf(trie', o) = ids \cup {nextId}
    BY <1>1, <1>6
  <2>2. IsEarliest(firstSeen'[o], ids \cup {nextId})
    <3>1. CASE ids = {}
      <4>1. firstSeen'[o] = nextId
        BY <3>1, <1>4, <1>5, <1>6
      <4> QED
        BY <3>1, <4>1, <1>3 DEF IsEarliest
    <3>2. CASE ids # {}
      <4>1. IsEarliest(firstSeen[o], ids) /\ firstSeen[o] # NULL
        BY <3>2, <1>3, <1>5 DEF IsEarliest
      <4>2. firstSeen'[o] = firstSeen[o]
        BY <4>1, <1>4
      <4>3. firstSeen[o] \in Nat /\ firstSeen[o] < nextId
        BY <4>1, <1>2, <1>3 DEF IsEarliest
      <4> QED
        BY <4>1, <4>2, <4>3, <1>3 DEF IsEarliest
    <3> QED
      BY <3>1, <3>2
  <2>3. IsLatest(lastSeen'[o], ids \cup {nextId})
    BY <1>2, <1>3, <1>4, <1>6 DEF IsLatest
  <2> QED
    BY <2>1, <2>2, <2>3
<1>7. CASE ~Seen(o)
  BY <1>1, <1>4, <1>5, <1>7
<1> QED
  BY <1>6, <1>7

\* upd_obj_seen reads the files of before the rollback, and is right all the
\* same: the earliest of them goes only if all of them do.
LEMMA RollbackProvenance ==
  ASSUME OrderInv, ProvenanceIsSound, NEW c \in Slots, RollbackToSlot(c)
  PROVE  ProvenanceIsSound'
<1> SUFFICES ASSUME NEW o \in Objects
             PROVE  /\ IF FilesOf(Kept(c), o) = {} THEN firstSeen'[o] = NULL
                       ELSE IsEarliest(firstSeen'[o], FilesOf(Kept(c), o))
                    /\ lastSeen'[o] # NULL => IsLatest(lastSeen'[o], FilesOf(Kept(c), o))
  BY DEF ProvenanceIsSound, FilesOf, RollbackToSlot
<1> DEFINE ids == FilesOf(trie, o)
           kept == FilesOf(Kept(c), o)
<1>1. RestoredFirst(o, c, firstSeen'[o]) /\ RestoredLast(o, c, lastSeen'[o])
  BY DEF RollbackToSlot
<1>2. kept \subseteq ids /\ ids \subseteq Nat /\ NULL \notin ids
  BY FileIds DEF FilesOf, Kept
<1>3. ids # {} => IsEarliest(firstSeen[o], ids)
  BY DEF ProvenanceIsSound
\* Serials grow with slots, so what is kept is kept from the beginning.
<1>4. \A i \in kept, j \in ids : j <= i => j \in kept
  <2> SUFFICES ASSUME NEW i \in kept, NEW j \in ids, j <= i PROVE j \in kept
    OBVIOUS
  <2>1. PICK q \in Kept(c) : q.id = i
    BY DEF FilesOf
  <2>2. PICK r \in trie : r.id = j /\ \E k \in Keys : ObjectOf[k] = o /\ Touches(r, k)
    BY DEF FilesOf
  <2>3. q \in trie /\ q.slot <= c
    BY <2>1 DEF Kept
  <2>4. /\ q.slot \in Nat /\ r.slot \in Nat /\ c \in Nat /\ q.id \in Nat /\ r.id \in Nat
        /\ MinSlotGap \in Nat
    BY <2>2, <2>3, BoundAssumption DEF OrderInv, TypeOK, Row, Slots, Ids
  <2>5. r.slot <= q.slot
    BY <2>1, <2>2, <2>3, <2>4 DEF OrderInv, RowsInOrder
  <2>6. r \in Kept(c)
    BY <2>2, <2>3, <2>4, <2>5 DEF Kept
  <2> QED
    BY <2>2, <2>6 DEF FilesOf
<1> HIDE DEF ids, kept
<1>5. IF kept = {} THEN firstSeen'[o] = NULL ELSE IsEarliest(firstSeen'[o], kept)
  <2>1. CASE kept = {}
    BY <2>1, <1>1 DEF RestoredFirst, kept
  <2>2. CASE kept # {}
    <3>1. firstSeen[o] \in kept
      BY <2>2, <1>2, <1>3, <1>4 DEF IsEarliest
    <3>2. IsEarliest(firstSeen'[o], ids)
      BY <3>1, <2>2, <1>1, <1>2, <1>3 DEF RestoredFirst, kept, ids
    <3>3. firstSeen'[o] = firstSeen[o]
      BY <3>1, <3>2, <1>2, <1>3, EarliestUnique
    <3> QED
      BY <3>1, <3>2, <3>3, <2>2, <1>2 DEF IsEarliest
  <2> QED
    BY <2>1, <2>2
<1>6. lastSeen'[o] # NULL => IsLatest(lastSeen'[o], kept)
  <2> SUFFICES ASSUME lastSeen'[o] # NULL PROVE IsLatest(lastSeen'[o], kept)
    OBVIOUS
  <2>1. PICK j \in kept : IsLatest(j, ids) /\ IsLatest(lastSeen'[o], ids)
    BY <1>1 DEF RestoredLast, kept, ids
  <2>2. lastSeen'[o] = j
    BY <2>1, <1>2, LatestUnique
  <2> QED
    BY <2>1, <2>2, <1>2 DEF IsLatest
<1> QED
  BY <1>5, <1>6 DEF kept

\* An object's first file is the earliest that names it and its last one,
\* when there is one, the latest, although rollback_to_slot computes both
\* from the rows it is about to delete; two updates may share a slot.
THEOREM ProvenanceHolds == Spec => []ProvenanceIsSound
<1>1. Init => ProvenanceIsSound
  BY DEF Init, ProvenanceIsSound, FilesOf
<1>2. OrderInv /\ ProvenanceIsSound /\ [Next]_vars => ProvenanceIsSound'
  <2> SUFFICES ASSUME OrderInv, ProvenanceIsSound, [Next]_vars PROVE ProvenanceIsSound'
    OBVIOUS
  <2>1. CASE UNCHANGED tables
    BY <2>1 DEF ProvenanceIsSound, FilesOf, tables
  <2>2. CASE CommitApply
    BY <2>2, CommitProvenance
  <2>3. CASE \E c \in Slots : RollbackToSlot(c)
    BY <2>3, RollbackProvenance
  <2> QED
    BY <2>1, <2>2, <2>3, TablesOnlyBy
<1>3. Spec => []OrderInv
  BY InitOrder, NextOrder, PTL DEF Spec
<1> QED
  BY <1>1, <1>2, <1>3, PTL DEF Spec

=============================================================================
