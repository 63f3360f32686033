---------------------------- MODULE ReadApiProofs ----------------------------
(***************************************************************************)
(* Proofs about ReadApi: what the read queries return beside a writer.     *)
(***************************************************************************)
EXTENDS ReadApi, TrieStoreProofs, Lemmas, FiniteSetTheorems, FunctionTheorems

-----------------------------------------------------------------------------
(* The calls leave the store alone.                                        *)

\* A read changes nothing but the call, and a step of the writer is one of
\* the store.
LEMMA ReadStepOfStore == [ReadNext]_readVars => [Next]_vars
<1> SUFFICES ASSUME [ReadNext]_readVars PROVE [Next]_vars
  OBVIOUS
<1>1. CASE Write
  BY <1>1 DEF Write, Next
<1>2. CASE Read
  BY <1>2 DEF Read, ReadValueHash, ProveTrie, ReadObject, ReadObjectSlot, ReplyObject,
              StartWalk, ReadPage, EndWalk, CountObjects, CountActive, ReadDeletedPage,
              CallFails
<1>3. CASE UNCHANGED readVars
  BY <1>3 DEF readVars
<1> QED
  BY <1>1, <1>2, <1>3 DEF ReadNext

\* So everything proved of the store holds beside the readers.
LEMMA ReadImplementsStore == ReadSpec => Spec
<1>1. ReadInit => Init
  BY DEF ReadInit
<1> QED
  BY <1>1, ReadStepOfStore, PTL DEF ReadSpec, Spec

\* Objects are only ever added.
LEMMA ObjectsGrow ==
  ASSUME [ReadNext]_readVars
  PROVE  objects \subseteq objects'
<1>1. CASE Write
  BY <1>1 DEF Write, ObjectUpsert
<1>2. CASE Read
  BY <1>2 DEF Read, ReadValueHash, ProveTrie, ReadObject, ReadObjectSlot, ReplyObject,
              StartWalk, ReadPage, EndWalk, CountObjects, CountActive, ReadDeletedPage,
              CallFails
<1>3. CASE UNCHANGED readVars
  BY <1>3 DEF readVars
<1> QED
  BY <1>1, <1>2, <1>3 DEF ReadNext

-----------------------------------------------------------------------------
(* Type correctness.                                                       *)

\* The counts of rows are numbers.
LEMMA CountsAreNumbers ==
  ASSUME objects \subseteq Objects
  PROVE  /\ IsFiniteSet(objects) /\ Cardinality(objects) \in Nat
         /\ Active \subseteq Objects /\ IsFiniteSet(Active) /\ Cardinality(Active) \in Nat
<1>1. Active \subseteq Objects
  BY ObjectAssumption DEF Active
<1>2. \A S \in SUBSET Objects : IsFiniteSet(S) /\ Cardinality(S) \in Nat
  BY PageAssumption, FS_Subset, FS_CardinalityType
<1> QED
  BY <1>1, <1>2

\* A call is of one of the five kinds, and its kind tells which.
LEMMA CallKinds ==
  ASSUME ReadTypeOK
  PROVE  /\ call.kind = "proof" => call \in ProofCall
         /\ call.kind = "object" => call \in ObjectCall
         /\ call.kind = "walk" => call \in WalkCall
         /\ call.kind = "deleted" => call \in DeletedCall
BY DEF ReadTypeOK, NoCall, ProofCall, ObjectCall, WalkCall, DeletedCall

\* What a key has is a value or none, what an object has are values of keys.
HeldIsTyped == /\ \A k \in Keys : Held(k) \subseteq Values \cup {NULL}
               /\ \A o \in Objects : CurrentValues(o) \subseteq Keys \X Values

LEMMA HeldTyped == OrderInv => HeldIsTyped
<1> SUFFICES ASSUME OrderInv PROVE HeldIsTyped
  OBVIOUS
<1>1. ASSUME NEW k \in Keys PROVE Held(k) \subseteq Values \cup {NULL}
  <2>1. pc = "applying" => job.ops \in Batch
    BY DEF OrderInv, TypeOK, Job
  <2>2. key[k] \in Values \cup {NULL}
    BY DEF OrderInv, TypeOK
  <2> QED
    BY <2>1, <2>2, RecordedValue DEF Held
<1>2. value \subseteq Values
  BY DEF OrderInv, TypeOK
<1> QED
  BY <1>1, <1>2 DEF HeldIsTyped, CurrentValues, KeysOf

\* The writer adds to the history of the call and changes nothing else of it.
LEMMA ObserveTyped ==
  ASSUME ReadTypeOK, OrderInv', Observe
  PROVE  /\ call'.kind = call.kind
         /\ call' \in {NoCall} \cup ProofCall \cup ObjectCall \cup WalkCall \cup DeletedCall
         /\ call.kind \notin {"proof", "object"} => call' = call
<1>0. HeldIsTyped'
  BY HeldTyped, PTL
<1>1. ASSUME NEW k \in Keys, call.kind = "proof", call' = [call EXCEPT !.held = @ \cup Held(k)']
      PROVE  call' \in ProofCall
  <2>1. Held(k)' \subseteq Values \cup {NULL}
    BY <1>0 DEF HeldIsTyped
  <2>2. call \in ProofCall
    BY <1>1, CallKinds
  <2> QED
    BY <1>1, <2>1, <2>2 DEF ProofCall
<1>2. ASSUME NEW o \in Objects, call.kind = "object",
             call' = [call EXCEPT !.held = @ \cup {CurrentValues(o)'}]
      PROVE  call' \in ObjectCall
  <2>1. CurrentValues(o)' \subseteq Keys \X Values
    BY <1>0 DEF HeldIsTyped
  <2>2. call \in ObjectCall
    BY <1>2, CallKinds
  <2> QED
    BY <1>2, <2>1, <2>2 DEF ObjectCall
<1>3. CASE call.kind \notin {"proof", "object"}
  BY <1>3 DEF Observe, ReadTypeOK
<1> QED
  BY <1>1, <1>2, <1>3 DEF Observe, ProofCall, ObjectCall

\* Rows are written one after the other: times do not decrease with ids.
TimesGrow == \A q, r \in trie : q.id <= r.id => seenAt[q.id] <= seenAt[r.id]

LEMMA TimesStep ==
  ASSUME ReadTypeOK, OrderInv, TimesGrow, [ReadNext]_readVars
  PROVE  TimesGrow'
<1>1. CASE UNCHANGED <<trie, seenAt>>
  BY <1>1 DEF TimesGrow
<1>2. CASE CommitApply /\ SetSeenAt
  <2>1. PICK t \in 0 .. MaxTime : /\ \A r \in trie : seenAt[r.id] <= t
                                 /\ seenAt' = [seenAt EXCEPT ![nextId] = t]
    BY <1>2 DEF SetSeenAt
  <2>2. nextId \in Ids /\ \A r \in trie : r.id \in Ids /\ r.id < nextId
    BY <1>2, BoundAssumption
       DEF CommitApply, OrderInv, TypeOK, RowsInOrder, JobIsNewest, Row, Ids
  <2>3. \A r \in trie' : r \in trie \/ r.id = nextId
    BY <1>2 DEF CommitApply
  <2>4. seenAt'[nextId] = t /\ \A r \in trie : seenAt'[r.id] = seenAt[r.id]
    BY <2>1, <2>2 DEF ReadTypeOK, Ids
  <2>5. t <= t /\ \A r \in trie : ~(nextId <= r.id)
    BY <2>2 DEF Ids
  <2> QED
    BY <2>1, <2>3, <2>4, <2>5 DEF TimesGrow
<1>3. ASSUME NEW c \in Slots, RollbackToSlot(c), ClearSeenAt PROVE TimesGrow'
  <2>1. trie' \subseteq trie
    BY <1>3 DEF RollbackToSlot, Kept
  <2>2. \A r \in trie' : seenAt'[r.id] = seenAt[r.id]
    BY <1>3, <2>1 DEF ClearSeenAt, OrderInv, TypeOK, Row
  <2> QED
    BY <2>1, <2>2 DEF TimesGrow
<1>4. CASE Write
  BY <1>1, <1>2, <1>3, <1>4 DEF Write, Restart, BeginApply, ApplyPut, ApplyDelete,
     AbortApply, LoadTrie, LoadTrieFails, tables
<1>5. CASE Read
  BY <1>1, <1>5 DEF Read, ReadValueHash, ProveTrie, ReadObject, ReadObjectSlot, ReplyObject,
     StartWalk, ReadPage, EndWalk, CountObjects, CountActive, ReadDeletedPage, CallFails,
     vars, tables
<1>6. CASE UNCHANGED readVars
  BY <1>1, <1>6 DEF readVars, vars, tables
<1> QED
  BY <1>4, <1>5, <1>6 DEF ReadNext

\* The row that the queries find first is there: the last one written.
LEMMA FreshestRow ==
  ASSUME ReadTypeOK, OrderInv, TimesGrow, NEW rows \in SUBSET trie
  PROVE  /\ LatestSlot(rows) \in Slots
         /\ rows = {} => LatestSlot(rows) = 0
         /\ rows # {} => \E r \in rows : /\ LatestSlot(rows) = r.slot
                                        /\ \A q \in rows : ~Fresher(q, r)
<1>1. CASE rows = {}
  BY <1>1, BoundAssumption DEF LatestSlot, Slots
<1>2. CASE rows # {}
  <2> DEFINE ids == {r.id : r \in rows}
  <2>1. \A r \in trie : r.id \in Nat /\ r.id <= MaxApplies /\ r.slot \in Slots
                        /\ r.slot \in Nat /\ r.id \in Ids
    BY BoundAssumption DEF OrderInv, TypeOK, Row, Ids, Slots
  <2>2. ids \subseteq Nat /\ ids # {} /\ \A n \in ids : n <= MaxApplies
    BY <1>2, <2>1
  <2>3. PICK n \in ids : \A m \in ids : m <= n
    BY <2>2, BoundAssumption, GreatestNat
  <2>4. PICK r \in rows : \A q \in rows : q.id <= r.id
    BY <2>3
  <2>5. ASSUME NEW q \in rows PROVE ~Fresher(q, r)
    <3>1. q.id <= r.id /\ q.id \in Nat /\ r.id \in Nat
      BY <2>1, <2>4
    <3>2. seenAt[q.id] \in Nat /\ seenAt[r.id] \in Nat /\ seenAt[q.id] <= seenAt[r.id]
      BY <2>1, <3>1 DEF TimesGrow, ReadTypeOK
    <3>3. q.id < r.id => q.slot + MinSlotGap <= r.slot
      BY DEF OrderInv, RowsInOrder
    <3>4. q.id = r.id => q = r
      BY DEF OrderInv, RowsInOrder
    <3>5. q.slot <= r.slot
      BY <2>1, <3>1, <3>3, <3>4, BoundAssumption
    <3>6. q.slot \in Nat /\ r.slot \in Nat
      BY <2>1
    <3> QED
      BY <3>1, <3>2, <3>5, <3>6 DEF Fresher, Later
  <2>6. \E p \in rows : LatestSlot(rows) = p.slot /\ \A q \in rows : ~Fresher(q, p)
    BY <1>2, <2>5 DEF LatestSlot
  <2> QED
    BY <1>2, <2>1, <2>6
<1> QED
  BY <1>1, <1>2

LEMMA ReadTypeStep ==
  ASSUME ReadTypeOK, OrderInv, TimesGrow, OrderInv', [ReadNext]_readVars
  PROVE  ReadTypeOK'
<1> USE DEF ReadTypeOK
<1>1. CASE Write
  <2>1. objects' \subseteq Objects
    BY <1>1 DEF Write, ObjectUpsert
  <2>2. seenAt' \in [Ids -> 0 .. MaxTime]
    BY <1>1, PageAssumption DEF Write, SetSeenAt, ClearSeenAt
  <2>3. Observe \/ call' = NoCall
    BY <1>1 DEF Write
  <2> QED
    BY <2>1, <2>2, <2>3, ObserveTyped
<1>2. ASSUME NEW k \in Keys, ReadValueHash(k) PROVE ReadTypeOK'
  <2>1. key[k] \in Values
    BY <1>2 DEF ReadValueHash, OrderInv, TypeOK
  <2>2. Held(k) \subseteq Values \cup {NULL} /\ (stale \/ pc = "reloading") \in BOOLEAN
    BY HeldTyped DEF HeldIsTyped
  <2>3. call' \in ProofCall
    BY <1>2, <2>1, <2>2 DEF ReadValueHash, ProofCall
  <2> QED
    BY <1>2, <2>3 DEF ReadValueHash
<1>3. ASSUME NEW limit \in 0 .. MaxPageLimit + 1 \cup {NULL}, StartWalk(limit)
      PROVE  ReadTypeOK'
  <2>1. PageLimit(limit) \in Nat
    BY <1>3, PageAssumption DEF StartWalk, PageLimit, LimitAccepted
  <2> QED
    BY <1>3, <2>1 DEF StartWalk, WalkCall
<1>4. CASE ReadPage
  <2>1. call \in WalkCall
    BY <1>4, CallKinds DEF ReadPage
  <2> DEFINE page == Page(objects, call.limit, call.offset)
             step == IF Cardinality(page) = call.limit THEN "page" ELSE "end"
  <2>2. page \subseteq Objects
    BY DEF Page
  <2>3. call' = [call EXCEPT !.seen = @ \cup page, !.offset = @ + call.limit, !.step = step]
    BY <1>4 DEF ReadPage
  <2>4. step \in {"page", "end"}
    OBVIOUS
  <2> HIDE DEF page, step
  <2>5. call' = [kind |-> "walk", limit |-> call.limit, offset |-> call.offset + call.limit,
                 begun |-> call.begun, seen |-> call.seen \cup page, step |-> step]
    BY <2>1, <2>3 DEF WalkCall
  <2>6. /\ call.limit \in Nat /\ call.offset + call.limit \in Nat
        /\ call.begun \in SUBSET Objects /\ call.seen \cup page \in SUBSET Objects
    BY <2>1, <2>2 DEF WalkCall
  <2>7. call' \in WalkCall
    BY <2>4, <2>5, <2>6 DEF WalkCall
  <2> QED
    BY <1>4, <2>7 DEF ReadPage
<1>5. CASE CountObjects
  BY <1>5, CountsAreNumbers DEF CountObjects, DeletedCall
<1>6. CASE CountActive
  <2>1. call \in DeletedCall
    BY <1>6, CallKinds DEF CountActive
  <2>2. call.total - Cardinality(Active) \in Int
    BY <2>1, CountsAreNumbers DEF DeletedCall
  <2> QED
    BY <1>6, <2>1, <2>2 DEF CountActive, DeletedCall
<1>7. CASE ProveTrie \/ ReplyObject \/ EndWalk \/ ReadDeletedPage \/ CallFails
  BY <1>7 DEF ProveTrie, ReplyObject, EndWalk, ReadDeletedPage, CallFails
<1>8. ASSUME NEW o \in Objects, ReadObject(o) PROVE ReadTypeOK'
  <2>1. CurrentValues(o) \subseteq Keys \X Values
    BY HeldTyped DEF HeldIsTyped
  <2>2. call' \in ObjectCall
    BY <1>8, <2>1 DEF ReadObject, ObjectCall
  <2> QED
    BY <1>8, <2>2 DEF ReadObject
<1>9. CASE ReadObjectSlot
  <2>1. call \in ObjectCall
    BY <1>9, CallKinds DEF ReadObjectSlot
  <2>2. CurrentSlot(call.of) \in Slots /\ 0 \in Slots
    BY FreshestRow, BoundAssumption DEF CurrentSlot, RowsOf, Slots
  <2>3. call' \in ObjectCall
    BY <1>9, <2>1, <2>2 DEF ReadObjectSlot, ObjectCall
  <2> QED
    BY <1>9, <2>3 DEF ReadObjectSlot
<1>10. CASE UNCHANGED readVars
  BY <1>10 DEF readVars
<1> QED
  BY <1>1, <1>2, <1>3, <1>4, <1>5, <1>6, <1>7, <1>8, <1>9, <1>10 DEF ReadNext, Read

ReadInv == ReadTypeOK /\ OrderInv /\ TimesGrow

LEMMA ReadInvariant == ReadSpec => []ReadInv
<1>1. ReadInit => ReadTypeOK /\ TimesGrow
  BY PageAssumption DEF ReadInit, Init, ReadTypeOK, TimesGrow
<1>2. ReadSpec => []OrderInv
  BY ReadImplementsStore, TypeCorrect, PTL DEF OrderInv
<1>3. ReadTypeOK /\ OrderInv /\ TimesGrow /\ OrderInv' /\ [ReadNext]_readVars
         => ReadTypeOK' /\ TimesGrow'
  BY ReadTypeStep, TimesStep
<1> QED
  BY <1>1, <1>2, <1>3, PTL DEF ReadSpec, ReadInv

\* The calls in progress are well formed, in every reachable state, and so
\* are the counts they have made.
THEOREM ReadTypeCorrect == ReadSpec => []ReadTypeOK
<1>1. ReadInv => ReadTypeOK
  BY DEF ReadInv
<1> QED
  BY <1>1, ReadInvariant, PTL

\* The kind of call that each statement leaves.
LEMMA OtherCalls ==
  ASSUME ReadTypeOK
  PROVE  /\ ProveTrie \/ ReplyObject \/ EndWalk \/ ReadDeletedPage \/ CallFails
               => call' = NoCall /\ call'.kind = "none"
         /\ \A o \in Objects : ReadObject(o) => call'.kind = "object"
         /\ ReadObjectSlot => call'.kind = "object"
         /\ \A limit : StartWalk(limit) => call'.kind = "walk"
         /\ ReadPage => call'.kind = "walk"
         /\ CountObjects \/ CountActive => call'.kind = "deleted"
<1>1. ReadObjectSlot => call'.kind = "object"
  BY CallKinds DEF ReadObjectSlot, ObjectCall
<1>2. ReadPage => call'.kind = "walk"
  BY CallKinds DEF ReadPage, WalkCall
<1>3. CountActive => call'.kind = "deleted"
  BY CallKinds DEF CountActive, DeletedCall
<1> QED
  BY <1>1, <1>2, <1>3 DEF NoCall, ProveTrie, ReplyObject, EndWalk, ReadDeletedPage, CallFails,
     ReadObject, StartWalk, CountObjects

\* The writer leaves a call that keeps no history as it is.
LEMMA WriterAndCall ==
  ASSUME ReadTypeOK, Write
  PROVE  UNCHANGED call \/ call' = NoCall \/ call'.kind \in {"proof", "object"}
<1>1. ASSUME NEW k \in Keys, call.kind = "proof", call' = [call EXCEPT !.held = @ \cup Held(k)']
      PROVE  call'.kind = "proof"
  BY <1>1, CallKinds DEF ProofCall
<1>2. ASSUME NEW o \in Objects, call.kind = "object",
             call' = [call EXCEPT !.held = @ \cup {CurrentValues(o)'}]
      PROVE  call'.kind = "object"
  BY <1>2, CallKinds DEF ObjectCall
<1> QED
  BY <1>1, <1>2 DEF Write, Observe

-----------------------------------------------------------------------------
(* A value and the proof served with it.                                   *)

\* The history of the call has what the key has now, and what the memory
\* trie holds of it unless that was off when the call began.
ProofHeld ==
    call.kind = "proof" =>
        /\ call.value \in call.held
        /\ Held(call.key) \subseteq call.held
        /\ ~call.unsettled => memoryTrie[call.key] \in call.held

\* When it is settled, the memory trie holds what the key has.
LEMMA SettledIsHeld ==
  ASSUME MemoryInv, NEW k \in Keys, ~(stale \/ pc = "reloading")
  PROVE  memoryTrie[k] \in Held(k)
BY DEF MemoryInv, MemoryFollowsTables, Held

\* The writer gives the memory trie what the tables have, or the file does.
LEMMA WriterGivesHeld ==
  ASSUME MemoryInv, NEW k \in Keys, Write, Observe
  PROVE  memoryTrie'[k] = memoryTrie[k] \/ memoryTrie'[k] \in Held(k)
<1>1. ASSUME NEW l \in Keys, ApplyPut(l) \/ ApplyDelete(l)
      PROVE  memoryTrie'[k] = memoryTrie[k] \/ memoryTrie'[k] \in Held(k)
  <2>1. /\ pc = "applying" /\ job.ops[l].type # "none"
        /\ memoryTrie' = [memoryTrie EXCEPT ![l] = job.ops[l].val]
        /\ memoryTrie \in [Keys -> Values \cup {NULL}]
    BY <1>1, EntryWritten DEF MemoryInv, OrderInv, TypeOK
  <2> QED
    BY <2>1 DEF Held
<1>2. CASE LoadTrie \/ Restart
  BY <1>2 DEF LoadTrie, Restart, Held
<1>3. CASE UNCHANGED memoryTrie
  BY <1>3
<1> QED
  BY <1>1, <1>2, <1>3 DEF Write, CommitApply, BeginApply, AbortApply, RollbackToSlot,
                          LoadTrieFails

LEMMA ProofHeldStep ==
  ASSUME ReadTypeOK, ReadTypeOK', MemoryInv, ProofHeld, [ReadNext]_readVars
  PROVE  ProofHeld'
<1> USE DEF ProofHeld
<1>1. ASSUME NEW k \in Keys, Write, call.kind = "proof", call.key = k,
             call' = [call EXCEPT !.held = @ \cup Held(k)']
      PROVE  ProofHeld'
  <2>1. call \in ProofCall
    BY <1>1, CallKinds
  <2>2. /\ call'.key = k /\ call'.value = call.value /\ call'.unsettled = call.unsettled
        /\ call'.held = call.held \cup Held(k)'
    BY <1>1, <2>1 DEF ProofCall
  <2>3. Held(call.key)' = Held(k)'
    BY <2>2 DEF Held
  <2>4. Observe
    BY <1>1 DEF Observe
  <2>5. ~call.unsettled => memoryTrie'[k] \in call'.held
    BY <1>1, <2>2, <2>4, WriterGivesHeld
  <2> QED
    BY <1>1, <2>2, <2>3, <2>5
<1>2. CASE Write
  <2>1. CASE call' = NoCall
    BY <2>1 DEF NoCall
  <2>2. CASE call' = call /\ call.kind # "proof"
    BY <2>2
  <2>3. ASSUME NEW o \in Objects, call.kind = "object",
               call' = [call EXCEPT !.held = @ \cup {CurrentValues(o)'}]
        PROVE  ProofHeld'
    <3>1. call'.kind = "object"
      BY <2>3, CallKinds DEF ObjectCall
    <3> QED
      BY <3>1
  <2> QED
    BY <1>1, <1>2, <2>1, <2>2, <2>3 DEF Write, Observe
<1>3. ASSUME NEW k \in Keys, ReadValueHash(k) PROVE ProofHeld'
  <2>1. /\ call'.value = key[k] /\ call'.held = Held(k) /\ call'.key = k
        /\ call'.unsettled = (stale \/ pc = "reloading")
        /\ UNCHANGED <<key, pc, job, memoryTrie>>
    BY <1>3 DEF ReadValueHash, vars, tables
  <2>2. Held(call.key)' = Held(k) /\ key[k] \in Held(k)
    BY <2>1 DEF Held
  <2>3. ~call'.unsettled => memoryTrie'[k] \in call'.held
    BY <2>1, SettledIsHeld
  <2> QED
    BY <2>1, <2>2, <2>3
<1>4. CASE call'.kind # "proof"
  BY <1>4
<1>5. CASE UNCHANGED readVars
  BY <1>5 DEF readVars, vars, tables, Held
<1>6. CASE Read
  BY <1>3, <1>4, <1>6, OtherCalls DEF Read
<1> QED
  BY <1>2, <1>5, <1>6 DEF ReadNext

\* The proof that a client gets with a value is never of a state older than
\* the value, unless the memory trie was off when the value was read, and is
\* of the value itself when the writer leaves the key alone.
THEOREM ProofNeverOlder == ReadSpec => ProofIsNotOlder
<1>1. ReadTypeOK /\ ProofHeld /\ [ReadNext]_readVars =>
        [ProveTrie => \/ call.unsettled
                      \/ /\ memoryTrie[call.key] \in call.held
                         /\ call.value \in call.held]_readVars
  <2> SUFFICES ASSUME ReadTypeOK, ProofHeld, ProveTrie
               PROVE  \/ call.unsettled
                      \/ memoryTrie[call.key] \in call.held /\ call.value \in call.held
    OBVIOUS
  <2> QED
    BY DEF ProveTrie, ProofHeld
<1>2. ReadInit => ProofHeld
  BY DEF ReadInit, ProofHeld, NoCall
<1>3. ReadSpec => []MemoryInv
  BY ReadImplementsStore, MemoryHolds, PTL
<1>4. ReadSpec => []ProofHeld
  BY <1>2, <1>3, ProofHeldStep, ReadTypeCorrect, PTL DEF ReadSpec
<1> QED
  BY <1>1, <1>4, ReadTypeCorrect, PTL DEF ReadSpec, ProofIsNotOlder

-----------------------------------------------------------------------------
(* The total of /objects/deleted.                                          *)

\* Objects counted before the second count are still there.
CountedAreThere ==
    call.kind = "deleted" /\ call.step = "countActive" => call.total <= Cardinality(objects)

LEMMA CountedStep ==
  ASSUME ReadTypeOK, CountedAreThere, [ReadNext]_readVars, ReadTypeOK'
  PROVE  CountedAreThere'
<1> USE DEF CountedAreThere
<1>1. CASE UNCHANGED call
  <2>1. Cardinality(objects) <= Cardinality(objects')
    BY ObjectsGrow, PageAssumption, FS_Subset DEF ReadTypeOK
  <2>2. Cardinality(objects) \in Nat /\ Cardinality(objects') \in Nat
    BY PageAssumption, FS_Subset, FS_CardinalityType DEF ReadTypeOK
  <2>3. call.kind = "deleted" => call.total \in Int
    BY CallKinds DEF DeletedCall
  <2> QED
    BY <1>1, <2>1, <2>2, <2>3
<1>2. CASE CountObjects
  BY <1>2, CountsAreNumbers DEF CountObjects, ReadTypeOK
<1>3. CASE call' = NoCall
  BY <1>3 DEF NoCall
<1>4. CASE call'.kind \notin {"none", "deleted"}
  BY <1>4
<1>5. CASE CountActive
  <2>1. call \in DeletedCall
    BY <1>5, CallKinds DEF CountActive
  <2>2. call'.step = "page"
    BY <1>5, <2>1 DEF CountActive, DeletedCall
  <2> QED
    BY <2>2
<1>6. CASE Write
  BY <1>1, <1>3, <1>4, <1>6, WriterAndCall
<1>7. CASE Read
  <2>1. \A k : ReadValueHash(k) => call'.kind = "proof"
    BY DEF ReadValueHash
  <2> QED
    BY <1>2, <1>3, <1>4, <1>5, <1>7, <2>1, OtherCalls DEF Read
<1> QED
  BY <1>1, <1>6, <1>7 DEF ReadNext, readVars

\* The total of deleted objects, computed from two counts at different
\* moments, never exceeds what is deleted at the second one.
THEOREM DeletedTotalBounded == ReadSpec => DeletedNotOvercounted
<1>1. ReadTypeOK /\ CountedAreThere /\ [ReadNext]_readVars =>
        [CountActive => call'.total <= Cardinality(Deleted)]_readVars
  <2> SUFFICES ASSUME ReadTypeOK, CountedAreThere, CountActive
               PROVE  call'.total <= Cardinality(Deleted)
    OBVIOUS
  <2>1. call \in DeletedCall /\ call.total <= Cardinality(objects)
    BY CallKinds DEF CountActive, CountedAreThere
  <2>2. call'.total = call.total - Cardinality(Active)
    BY <2>1 DEF CountActive, DeletedCall
  <2>3. /\ IsFiniteSet(objects) /\ Cardinality(objects) \in Nat
        /\ IsFiniteSet(Active) /\ Cardinality(Active) \in Nat
    BY CountsAreNumbers DEF ReadTypeOK
  <2>4. Cardinality(Deleted) = Cardinality(objects) - Cardinality(objects \cap Active)
    BY <2>3, FS_Difference DEF Deleted
  <2>5. Cardinality(objects \cap Active) <= Cardinality(Active)
    BY <2>3, FS_Intersection
  <2>6. Cardinality(objects \cap Active) \in Nat
    BY <2>3, FS_Intersection, FS_CardinalityType
  <2> QED
    BY <2>1, <2>2, <2>3, <2>4, <2>5, <2>6 DEF DeletedCall
<1>2. ReadInit => CountedAreThere
  BY DEF ReadInit, CountedAreThere, NoCall
<1>3. ReadSpec => []CountedAreThere
  BY <1>2, CountedStep, ReadTypeCorrect, PTL DEF ReadSpec
<1> QED
  BY <1>1, <1>3, ReadTypeCorrect, PTL DEF ReadSpec, DeletedNotOvercounted

-----------------------------------------------------------------------------
(* A walk through the pages of /objects.                                   *)

\* The place of an object in the list ORDER BY id.
Place(o, S) == Cardinality({p \in S : p < o})

LEMMA PlaceIsNat ==
  ASSUME NEW S \in SUBSET Objects, NEW o \in Objects
  PROVE  /\ IsFiniteSet(S) /\ Cardinality(S) \in Nat
         /\ Place(o, S) \in Nat /\ IsFiniteSet({p \in S : p < o})
BY PageAssumption, FS_Subset, FS_CardinalityType DEF Place

\* Rows that are added move an object to a later place, never to an earlier.
LEMMA PlaceGrows ==
  ASSUME NEW S \in SUBSET Objects, NEW R \in SUBSET S, NEW o \in Objects
  PROVE  Place(o, R) <= Place(o, S)
<1>1. {p \in R : p < o} \in SUBSET {p \in S : p < o} /\ IsFiniteSet({p \in S : p < o})
  BY PlaceIsNat
<1> QED
  BY <1>1, FS_Subset DEF Place

\* Places number the rows of a table from 0 on, without a gap.
LEMMA PlaceBijection ==
  ASSUME NEW S \in SUBSET Objects
  PROVE  [o \in S |-> Place(o, S)] \in Bijection(S, 0 .. Cardinality(S) - 1)
<1> DEFINE f == [o \in S |-> Place(o, S)]
           n == Cardinality(S)
           T == 0 .. n - 1
           below(o) == {p \in S : p < o}
<1>1. IsFiniteSet(S) /\ n \in Nat /\ S \subseteq Nat
  BY PageAssumption, PlaceIsNat, FS_Subset, FS_CardinalityType
<1>2. ASSUME NEW o \in S PROVE Place(o, S) \in T
  <2>1. below(o) \in SUBSET S /\ below(o) # S
    BY <1>1
  <2>2. Cardinality(below(o)) <= n /\ Cardinality(below(o)) # n
    BY <1>1, <2>1, FS_Subset
  <2>3. Place(o, S) \in Nat /\ Place(o, S) = Cardinality(below(o))
    BY PlaceIsNat DEF Place
  <2> QED
    BY <1>1, <2>2, <2>3
<1>3. ASSUME NEW o \in S, NEW p \in S, o < p PROVE Place(o, S) < Place(p, S)
  <2>1. below(o) \in SUBSET below(p) /\ below(o) # below(p)
    <3>1. o \in below(p) /\ o \notin below(o)
      BY <1>1, <1>3
    <3>2. \A q \in S : q < o => q < p
      BY <1>1, <1>3
    <3> QED
      BY <3>1, <3>2
  <2>2. IsFiniteSet(below(p)) /\ IsFiniteSet(below(o))
    BY PlaceIsNat
  <2>3. Cardinality(below(o)) <= Cardinality(below(p))
        /\ Cardinality(below(o)) # Cardinality(below(p))
    BY <2>1, <2>2, FS_Subset
  <2>4. Place(o, S) = Cardinality(below(o)) /\ Place(p, S) = Cardinality(below(p))
    BY DEF Place
  <2>5. Place(o, S) \in Nat /\ Place(p, S) \in Nat
    BY PlaceIsNat
  <2> QED
    BY <2>3, <2>4, <2>5
<1>4. \A o, p \in S : Place(o, S) = Place(p, S) => o = p
  <2> SUFFICES ASSUME NEW o \in S, NEW p \in S, o # p PROVE Place(o, S) # Place(p, S)
    OBVIOUS
  <2>1. o < p \/ p < o
    BY <1>1
  <2>2. Place(o, S) \in Nat /\ Place(p, S) \in Nat
    BY PlaceIsNat
  <2> QED
    BY <1>3, <2>1, <2>2
<1>5. f \in Injection(S, T)
  BY <1>2, <1>4, Fun_IsInj
<1>6. IsFiniteSet(T) /\ Cardinality(T) = n
  <2>1. n - 1 \in Int /\ (IF 0 > n - 1 THEN 0 ELSE n - 1 - 0 + 1) = n
    BY <1>1
  <2> HIDE DEF n
  <2> QED
    BY <2>1, FS_Interval
<1>7. f \in Surjection(S, T)
  <2> HIDE DEF f, T
  <2> QED
    BY <1>1, <1>5, <1>6, FS_Injection
<1> QED
  BY <1>5, <1>7 DEF Bijection

\* A page that some object comes after is full.
LEMMA PageFull ==
  ASSUME NEW S \in SUBSET Objects, NEW limit \in Nat \ {0}, NEW offset \in Nat,
         NEW o \in S, Place(o, S) >= offset + limit
  PROVE  Cardinality(Page(S, limit, offset)) = limit
<1> DEFINE f == [p \in S |-> Place(p, S)]
           n == Cardinality(S)
           places == offset .. offset + limit - 1
           page == Page(S, limit, offset)
           g == [p \in page |-> Place(p, S)]
<1>1. f \in Bijection(S, 0 .. n - 1) /\ n \in Nat
  BY PlaceBijection, PlaceIsNat
<1>2. page = {p \in S : Place(p, S) \in places}
  BY DEF Page, Place
<1>3. Place(o, S) \in 0 .. n - 1
  BY <1>1 DEF Bijection, Injection
<1>4. places \subseteq 0 .. n - 1
  BY <1>1, <1>3
<1>5. \A i \in places : \E p \in page : Place(p, S) = i
  BY <1>1, <1>2, <1>4 DEF Bijection, Surjection
<1>6. \A p, q \in page : Place(p, S) = Place(q, S) => p = q
  BY <1>1, <1>2 DEF Bijection, Injection, IsInjective
<1>7. g \in Injection(page, places) /\ g \in Surjection(page, places)
  <2>1. g \in [page -> places]
    BY <1>2
  <2> HIDE DEF page, places
  <2> QED
    BY <2>1, <1>5, <1>6, Fun_IsInj, Fun_IsSurj
<1>8. IsFiniteSet(places) /\ Cardinality(places) = limit
  BY FS_Interval
<1> HIDE DEF g, page, places
<1>9. Cardinality(page) = Cardinality(places)
  BY <1>7, <1>8, FS_Injection
<1> QED
  BY <1>8, <1>9 DEF page


\* What the client of a walk has seen: every object it started with that is
\* on the pages it has read, wherever new rows have moved it since.
WalkInv ==
    call.kind = "walk" =>
        /\ call.limit > 0
        /\ call.begun \subseteq objects
        /\ call.step = "page" =>
              \A o \in call.begun : Place(o, objects) < call.offset => o \in call.seen
        /\ call.step = "end" => call.begun \subseteq call.seen

\* The writer adds objects, which can only move others to later pages.
LEMMA WalkBesideWriter ==
  ASSUME ReadTypeOK, WalkInv, [ReadNext]_readVars, ReadTypeOK', UNCHANGED call
  PROVE  WalkInv'
<1> SUFFICES ASSUME call.kind = "walk", call' = call
             PROVE  /\ call.limit > 0
                    /\ call.begun \subseteq objects'
                    /\ call.step = "page" => \A o \in call.begun :
                          Place(o, objects') < call.offset => o \in call.seen
                    /\ call.step = "end" => call.begun \subseteq call.seen
  BY DEF WalkInv
<1>1. call \in WalkCall /\ objects' \subseteq Objects /\ objects \subseteq objects'
  BY CallKinds, ObjectsGrow DEF ReadTypeOK
<1>2. ASSUME NEW o \in call.begun, Place(o, objects') < call.offset
      PROVE  Place(o, objects) < call.offset
  <2>1. o \in Objects /\ call.offset \in Nat
    BY <1>1 DEF WalkCall
  <2>2. Place(o, objects) <= Place(o, objects')
    BY <1>1, <2>1, PlaceGrows
  <2>3. Place(o, objects) \in Nat /\ Place(o, objects') \in Nat
    BY <1>1, <2>1, PlaceIsNat
  <2> QED
    BY <1>2, <2>1, <2>2, <2>3
<1> QED
  BY <1>1, <1>2 DEF WalkInv

\* A page that is not full is the last one.
LEMMA WalkReadsPage ==
  ASSUME ReadTypeOK, WalkInv, ReadPage
  PROVE  WalkInv'
<1> DEFINE page == Page(objects, call.limit, call.offset)
<1>1. call \in WalkCall /\ call.kind = "walk" /\ call.step = "page"
  BY CallKinds DEF ReadPage
<1>2. /\ call'.kind = "walk" /\ call'.limit = call.limit
      /\ call'.begun = call.begun /\ call'.seen = call.seen \cup page
      /\ call'.offset = call.offset + call.limit
      /\ call'.step = IF Cardinality(page) = call.limit THEN "page" ELSE "end"
      /\ objects' = objects
  BY <1>1 DEF ReadPage, WalkCall
<1>3. /\ call.limit \in Nat /\ call.limit > 0 /\ call.offset \in Nat
      /\ call.begun \subseteq objects /\ objects \subseteq Objects
  BY <1>1 DEF WalkInv, WalkCall, ReadTypeOK
<1>4. ASSUME NEW o \in call.begun, Place(o, objects) < call.offset + call.limit
      PROVE  o \in call.seen \cup page
  <2>1. Place(o, objects) \in Nat
    BY <1>3, PlaceIsNat
  <2>2. CASE Place(o, objects) < call.offset
    BY <2>2, <1>1 DEF WalkInv
  <2>3. CASE Place(o, objects) \in call.offset .. call.offset + call.limit - 1
    BY <2>3, <1>3 DEF Page, Place
  <2> QED
    BY <1>3, <1>4, <2>1, <2>2, <2>3
<1>5. ASSUME Cardinality(page) # call.limit, NEW o \in call.begun
      PROVE  o \in call.seen \cup page
  <2>1. ~(Place(o, objects) >= call.offset + call.limit)
    BY <1>3, <1>5, PageFull
  <2>2. Place(o, objects) \in Nat
    BY <1>3, PlaceIsNat
  <2> HIDE DEF page
  <2> QED
    BY <1>3, <1>4, <2>1, <2>2
<1> HIDE DEF page
<1> QED
  BY <1>2, <1>3, <1>4, <1>5 DEF WalkInv

LEMMA WalkStep ==
  ASSUME ReadTypeOK, WalkInv, [ReadNext]_readVars, ReadTypeOK'
  PROVE  WalkInv'
<1>1. CASE UNCHANGED call
  BY <1>1, WalkBesideWriter
<1>2. CASE ReadPage
  BY <1>2, WalkReadsPage
<1>3. ASSUME NEW limit \in 0 .. MaxPageLimit + 1 \cup {NULL}, StartWalk(limit)
      PROVE  WalkInv'
  <2>1. PageLimit(limit) > 0
    BY <1>3, PageAssumption DEF StartWalk, PageLimit, LimitAccepted
  <2>2. \A o \in objects : ~(Place(o, objects) < 0)
    <3>1. \A o \in objects : Place(o, objects) \in Nat
      BY PlaceIsNat DEF ReadTypeOK
    <3> QED
      BY <3>1
  <2>3. call' = [kind |-> "walk", limit |-> PageLimit(limit), offset |-> 0,
                 begun |-> objects, seen |-> {}, step |-> "page"] /\ objects' = objects
    BY <1>3 DEF StartWalk
  <2> QED
    BY <2>1, <2>2, <2>3 DEF WalkInv
<1>4. CASE call' = NoCall
  BY <1>4 DEF WalkInv, NoCall
<1>5. CASE call'.kind # "walk"
  BY <1>5 DEF WalkInv
<1>6. CASE Write
  BY <1>1, <1>4, <1>5, <1>6, WriterAndCall
<1>7. CASE Read
  <2>1. \A k : ReadValueHash(k) => call'.kind = "proof"
    BY DEF ReadValueHash
  <2> QED
    BY <1>2, <1>3, <1>4, <1>5, <1>7, <2>1, OtherCalls DEF Read
<1> QED
  BY <1>1, <1>6, <1>7 DEF ReadNext, readVars

\* A client that reads page after page until one is not full has got every
\* object that was there when it started, whatever is applied, rolled back
\* or restarted meanwhile and whatever the page limit.
THEOREM WalkSeesEverything == ReadSpec => []WalkSeesAll
<1>1. ReadInit => WalkInv
  BY DEF ReadInit, WalkInv, NoCall
<1>2. ReadSpec => []WalkInv
  BY <1>1, WalkStep, ReadTypeCorrect, PTL DEF ReadSpec
<1>3. WalkInv => WalkSeesAll
  BY DEF WalkInv, WalkSeesAll
<1> QED
  BY <1>2, <1>3, PTL


-----------------------------------------------------------------------------
(* The queries that go two ways to the same data.                          *)

\* What the queries rest on: the order of rows, the current values as a
\* replay of the operations, and the values all stored.
QueryInv == ReadInv /\ KeyTableIsReplay /\ NoDanglingValue /\ MinSlotGap = 1

LEMMA RankIsNat == \A op : Rank(op) \in Nat
BY DEF Rank

\* With one row per slot, the orders by serial, by slot, by both and by time
\* first agree, although several rows may be of one time.
LEMMA OrdersAgree ==
  ASSUME QueryInv
  PROVE  /\ \A r \in trie : r.id \in Ids /\ r.id \in Nat /\ r.slot \in Nat /\ r.slot <= MaxSlot
         /\ \A q, r \in trie : q.id <= r.id <=> q.slot <= r.slot
         /\ \A q, r \in trie : Later(q, r) <=> q.id > r.id
         /\ \A q, r \in trie : Fresher(q, r) <=> q.id > r.id
         /\ \A r \in trie : seenAt[r.id] \in Nat
         /\ \A q, r \in trie : q.id <= r.id => seenAt[q.id] <= seenAt[r.id]
<1> USE DEF ReadInv
<1>1. \A r \in trie : r.id \in Ids /\ r.id \in Nat /\ r.slot \in Nat /\ r.slot <= MaxSlot
  BY BoundAssumption DEF QueryInv, OrderInv, TypeOK, Row, Ids, Slots
<1>2. /\ \A q, r \in trie : q.id = r.id => q = r
      /\ \A q, r \in trie : q.id < r.id => q.slot + 1 <= r.slot
  BY DEF QueryInv, OrderInv, RowsInOrder
<1>3. \A q, r \in trie : q.id <= r.id <=> q.slot <= r.slot
  <2> SUFFICES ASSUME NEW q \in trie, NEW r \in trie PROVE q.id <= r.id <=> q.slot <= r.slot
    OBVIOUS
  <2>1. CASE q.id < r.id
    BY <2>1, <1>1, <1>2
  <2>2. CASE q.id = r.id
    BY <2>2, <1>1, <1>2
  <2>3. CASE r.id < q.id
    BY <2>3, <1>1, <1>2
  <2> QED
    BY <1>1, <2>1, <2>2, <2>3
<1>4. \A q, r \in trie : Later(q, r) <=> q.id > r.id
  <2> SUFFICES ASSUME NEW q \in trie, NEW r \in trie PROVE Later(q, r) <=> q.id > r.id
    OBVIOUS
  <2>1. (q.id <= r.id <=> q.slot <= r.slot) /\ (r.id <= q.id <=> r.slot <= q.slot)
    BY <1>3
  <2> QED
    BY <1>1, <2>1 DEF Later
<1>5. /\ \A r \in trie : seenAt[r.id] \in Nat
      /\ \A q, r \in trie : q.id <= r.id => seenAt[q.id] <= seenAt[r.id]
  BY <1>1 DEF QueryInv, ReadTypeOK, TimesGrow
<1>6. \A q, r \in trie : Fresher(q, r) <=> q.id > r.id
  <2> SUFFICES ASSUME NEW q \in trie, NEW r \in trie PROVE Fresher(q, r) <=> q.id > r.id
    OBVIOUS
  <2>1. /\ q.id \in Nat /\ r.id \in Nat /\ seenAt[q.id] \in Nat /\ seenAt[r.id] \in Nat
        /\ q.id <= r.id => seenAt[q.id] <= seenAt[r.id]
        /\ r.id <= q.id => seenAt[r.id] <= seenAt[q.id]
        /\ Later(q, r) <=> q.id > r.id
    BY <1>1, <1>4, <1>5
  <2> QED
    BY <2>1 DEF Fresher
<1> QED
  BY <1>1, <1>3, <1>4, <1>5, <1>6

\* latest_data is the slot of the last of the rows, and 0 when there is none.
LEMMA LatestRow ==
  ASSUME QueryInv, NEW rows \in SUBSET trie
  PROVE  /\ LatestSlot(rows) \in Nat
         /\ \A q \in rows : q.slot <= LatestSlot(rows)
         /\ rows # {} => \E r \in rows : LatestSlot(rows) = r.slot
<1>1. /\ LatestSlot(rows) \in Slots
      /\ rows = {} => LatestSlot(rows) = 0
      /\ rows # {} => \E r \in rows : /\ LatestSlot(rows) = r.slot
                                     /\ \A q \in rows : ~Fresher(q, r)
  BY FreshestRow DEF QueryInv, ReadInv
<1>2. LatestSlot(rows) \in Nat
  BY <1>1 DEF Slots
<1>3. CASE rows = {}
  BY <1>2, <1>3
<1>4. CASE rows # {}
  <2>1. PICK r \in rows : LatestSlot(rows) = r.slot /\ \A q \in rows : ~Fresher(q, r)
    BY <1>1, <1>4
  <2>2. \A q \in rows : q.id \in Nat /\ r.id \in Nat /\ ~(q.id > r.id)
    BY <2>1, OrdersAgree
  <2>3. \A q \in rows : q.id <= r.id
    BY <2>2
  <2>4. \A q \in rows : q.slot <= r.slot
    BY <2>3, OrdersAgree
  <2> QED
    BY <1>2, <2>1, <2>4
<1> QED
  BY <1>3, <1>4

\* At a slot that no row of key k comes after, GetStateMapAtSlot gives the
\* current value of k.
LEMMA CurrentAtSlot ==
  ASSUME QueryInv, NEW k \in Keys, NEW s \in Nat, NEW v \in value,
         \A q \in Touching(trie, k) : q.slot <= s
  PROVE  key[k] = v <=> \E r \in trie : IsLastAt(r, trie, k, s) /\ r.ops[k].val = v
<1>1. \A r : IsLastAt(r, trie, k, s) <=> IsLastAt(r, trie, k, MaxSlot)
  <2>1. \A q \in Touching(trie, k) : q.slot <= s /\ q.slot <= MaxSlot
    BY OrdersAgree DEF Touching
  <2> QED
    BY <2>1 DEF IsLastAt
<1>2. v \in Values
  BY DEF QueryInv, ReadInv, OrderInv, TypeOK
<1>3. key[k] = v <=> \E r \in trie : IsLastAt(r, trie, k, MaxSlot) /\ r.ops[k].val = v
  BY <1>2, ReplayPointwise DEF QueryInv, KeyTableIsReplay
<1> QED
  BY <1>1, <1>3

\* Of two rows of a key, the one that the query at a time puts first is the
\* one that the query at a slot puts first.
LEMMA BeforeByTime ==
  ASSUME QueryInv, NEW k \in Keys, NEW q \in trie, NEW r \in trie
  PROVE  ~Later(q, r) <=>
            \/ seenAt[q.id] < seenAt[r.id]
            \/ /\ seenAt[q.id] = seenAt[r.id]
               /\ q.slot < r.slot \/ (q.slot = r.slot /\ Rank(q.ops[k]) <= Rank(r.ops[k]))
<1>1. /\ q.id \in Nat /\ r.id \in Nat /\ q.slot \in Nat /\ r.slot \in Nat
      /\ seenAt[q.id] \in Nat /\ seenAt[r.id] \in Nat
      /\ q.id <= r.id <=> q.slot <= r.slot
      /\ r.id <= q.id <=> r.slot <= q.slot
      /\ q.id <= r.id => seenAt[q.id] <= seenAt[r.id]
      /\ r.id <= q.id => seenAt[r.id] <= seenAt[q.id]
      /\ Later(q, r) <=> q.id > r.id
  BY OrdersAgree
<1>2. q.slot = r.slot => Rank(q.ops[k]) <= Rank(r.ops[k])
  <2>1. q.slot = r.slot => q = r
    BY SlotsDistinct DEF QueryInv, ReadInv
  <2> QED
    BY <2>1, RankIsNat
<1> QED
  BY <1>1, <1>2

\* When t is the last row seen by its time, the last operation of a key by
\* that time is the last one at its slot.
LEMMA LastByIsLastAt ==
  ASSUME QueryInv, NEW k \in Keys, NEW t \in trie, NEW r,
         \A q \in trie : seenAt[q.id] <= seenAt[t.id] => q.slot <= t.slot
  PROVE  IsLastBy(r, k, seenAt[t.id]) <=> IsLastAt(r, trie, k, t.slot)
<1>1. \A q \in Touching(trie, k) :
         q \in trie /\ (seenAt[q.id] <= seenAt[t.id] <=> q.slot <= t.slot)
  BY OrdersAgree DEF Touching
<1>2. \A q \in Touching(trie, k) : r \in Touching(trie, k) =>
         (~Later(q, r) <=>
            \/ seenAt[q.id] < seenAt[r.id]
            \/ /\ seenAt[q.id] = seenAt[r.id]
               /\ q.slot < r.slot \/ (q.slot = r.slot /\ Rank(q.ops[k]) <= Rank(r.ops[k])))
  BY <1>1, BeforeByTime
<1> QED
  BY <1>1, <1>2 DEF IsLastBy, IsLastAt

LEMMA QueriesAgreeNow ==
  ASSUME QueryInv, NEW o \in Objects
  PROVE  /\ CurrentSlot(o) \in Nat /\ ValuesAtSlot(o, CurrentSlot(o)) = CurrentValues(o)
         /\ \A p \in CurrentValues(o) : p \in ValuesAtSlot(o, KeySlot(p[1]))
<1>1. \A k \in KeysOf(o) : Touching(trie, k) \subseteq RowsOf(o)
  BY DEF Touching, RowsOf
<1>2. /\ CurrentSlot(o) \in Nat
      /\ \A k \in KeysOf(o) : \A q \in Touching(trie, k) : q.slot <= CurrentSlot(o)
  BY <1>1, LatestRow DEF CurrentSlot, RowsOf
<1>3. \A k \in KeysOf(o), v \in value :
         key[k] = v <=> \E r \in trie : IsLastAt(r, trie, k, CurrentSlot(o)) /\ r.ops[k].val = v
  BY <1>2, CurrentAtSlot DEF KeysOf
<1>4. ValuesAtSlot(o, CurrentSlot(o)) = CurrentValues(o)
  BY <1>3 DEF ValuesAtSlot, CurrentValues
<1>5. ASSUME NEW p \in CurrentValues(o) PROVE p \in ValuesAtSlot(o, KeySlot(p[1]))
  <2>1. p \in KeysOf(o) \X value /\ key[p[1]] = p[2]
    BY DEF CurrentValues
  <2>2. p[1] \in Keys /\ p[2] \in value
    BY <2>1 DEF KeysOf
  <2>3. KeySlot(p[1]) \in Nat /\ \A q \in Touching(trie, p[1]) : q.slot <= KeySlot(p[1])
    BY LatestRow DEF KeySlot, Touching
  <2>4. \E r \in trie : IsLastAt(r, trie, p[1], KeySlot(p[1])) /\ r.ops[p[1]].val = p[2]
    BY <2>1, <2>2, <2>3, CurrentAtSlot
  <2> QED
    BY <2>1, <2>4 DEF ValuesAtSlot
<1> QED
  BY <1>2, <1>4, <1>5

\* The slot served with the values at time t is that of the last put among
\* them.
LEMMA PutsAtTimestamp ==
  ASSUME QueryInv, NEW o \in Objects, NEW t \in Nat
  PROVE  LET s == SlotAtTimestamp(o, t)
         IN /\ s \in Nat
            /\ s = 0 \/ \E u \in trie : u.slot = s /\ seenAt[u.id] <= t
            /\ \A r \in trie, k \in KeysOf(o) :
                  IsLastBy(r, k, t) /\ r.ops[k].val \in value => r.slot <= s
<1> DEFINE rows == {q \in trie : \E k \in KeysOf(o) : IsLastBy(q, k, t) /\ q.ops[k].val \in value}
           slots == {r.slot : r \in rows}
           s == SlotAtTimestamp(o, t)
<1>1. s = IF slots = {} THEN 0 ELSE CHOOSE m \in slots : \A u \in slots : u <= m
  BY DEF SlotAtTimestamp
<1>2. slots \subseteq Nat /\ \A m \in slots : m <= MaxSlot
  BY OrdersAgree
<1>3. \A u \in rows : seenAt[u.id] <= t
  BY DEF IsLastBy
<1>4. \A r \in trie, k \in KeysOf(o) :
         IsLastBy(r, k, t) /\ r.ops[k].val \in value => r \in rows
  OBVIOUS
<1>5. \A u \in rows : u \in trie
  OBVIOUS
<1> HIDE DEF rows, s
<1>6. CASE slots = {}
  BY <1>1, <1>4, <1>6 DEF s
<1>7. CASE slots # {}
  <2>1. PICK m \in slots : \A u \in slots : u <= m
    BY <1>2, <1>7, BoundAssumption, GreatestNat
  <2>2. s \in slots /\ \A u \in slots : u <= s
    BY <1>1, <1>7, <2>1
  <2> QED
    BY <1>2, <1>3, <1>4, <1>5, <2>2 DEF s
<1> QED
  BY <1>6, <1>7

LEMMA QueriesAgreeThen ==
  ASSUME QueryInv, NEW o \in Objects, NEW t \in Nat
  PROVE  ValuesAtTimestamp(o, t) \subseteq ValuesAtSlot(o, SlotAtTimestamp(o, t))
<1> DEFINE s == SlotAtTimestamp(o, t)
<1>1. /\ s \in Nat
      /\ s = 0 \/ \E u \in trie : u.slot = s /\ seenAt[u.id] <= t
      /\ \A r \in trie, k \in KeysOf(o) :
            IsLastBy(r, k, t) /\ r.ops[k].val \in value => r.slot <= s
  BY PutsAtTimestamp
<1> HIDE DEF s
\* Between its last put and the time asked for an object only loses values.
<1>2. ASSUME NEW p \in ValuesAtTimestamp(o, t) PROVE p \in ValuesAtSlot(o, s)
  <2>1. p \in KeysOf(o) \X value /\ p[1] \in KeysOf(o) /\ p[1] \in Keys
    BY DEF ValuesAtTimestamp, KeysOf
  <2>2. PICK r \in trie : IsLastBy(r, p[1], t) /\ r.ops[p[1]].val = p[2]
    BY DEF ValuesAtTimestamp
  <2>3. r.slot <= s
    BY <1>1, <2>1, <2>2
  <2>4. ASSUME NEW q \in Touching(trie, p[1]), q.slot <= s PROVE ~Later(q, r)
    <3>1. q \in trie /\ q.slot \in Nat /\ q.slot > 0
      BY OrdersAgree DEF Touching, QueryInv, ReadInv, OrderInv, TypeOK, Row, Slots
    <3>2. PICK u \in trie : u.slot = s /\ seenAt[u.id] <= t
      BY <1>1, <2>4, <3>1
    <3>3. seenAt[q.id] <= seenAt[u.id] /\ seenAt[q.id] \in Nat /\ seenAt[u.id] \in Nat
      BY <2>4, <3>1, <3>2, OrdersAgree
    <3>4. seenAt[q.id] <= t
      BY <3>2, <3>3
    <3> QED
      BY <2>1, <2>2, <3>1, <3>4, BeforeByTime DEF IsLastBy
  <2>5. IsLastAt(r, trie, p[1], s)
    BY <2>2, <2>3, <2>4 DEF IsLastAt, IsLastBy
  <2> QED
    BY <2>1, <2>2, <2>5 DEF ValuesAtSlot
<1> QED
  BY <1>2 DEF s

LEMMA QueryInvariant ==
  ASSUME MinSlotGap = 1
  PROVE  ReadSpec => []QueryInv
<1>1. Spec => []KeyTableIsReplay
  BY KeyTableReplay
<1> QED
  BY <1>1, ReadImplementsStore, ReadInvariant, NoValueLost, PTL DEF QueryInv

\* The queries for the current values, for those at a slot and for those at
\* a time get the same answer wherever they ask for the same moment, in every
\* reachable state, if no two updates share a slot.
THEOREM QueriesAlwaysAgree ==
  ASSUME MinSlotGap = 1
  PROVE  ReadSpec => []QueriesAgree
<1>1. QueryInv => QueriesAgree
  <2> SUFFICES ASSUME QueryInv, NEW o \in Objects
               PROVE  /\ CurrentValues(o) # {} => ValuesAtSlot(o, CurrentSlot(o)) = CurrentValues(o)
                      /\ \A p \in CurrentValues(o) : p \in ValuesAtSlot(o, KeySlot(p[1]))
                      /\ \A r \in trie :
                            LET t == seenAt[r.id]
                            IN /\ (\A q \in trie : seenAt[q.id] <= t => q.slot <= r.slot)
                                     => ValuesAtTimestamp(o, t) = ValuesAtSlot(o, r.slot)
                               /\ ValuesAtTimestamp(o, t) \subseteq
                                     ValuesAtSlot(o, SlotAtTimestamp(o, t))
    BY Zenon DEF QueriesAgree
  <2>1. ASSUME NEW r \in trie, \A q \in trie : seenAt[q.id] <= seenAt[r.id] => q.slot <= r.slot
        PROVE  ValuesAtTimestamp(o, seenAt[r.id]) = ValuesAtSlot(o, r.slot)
    <3>1. \A k \in KeysOf(o) : \A q : IsLastBy(q, k, seenAt[r.id]) <=> IsLastAt(q, trie, k, r.slot)
      BY <2>1, LastByIsLastAt DEF KeysOf
    <3> QED
      BY <3>1 DEF ValuesAtTimestamp, ValuesAtSlot
  <2>2. \A r \in trie : seenAt[r.id] \in Nat
    BY OrdersAgree
  <2> HIDE DEF QueryInv
  <2>3. \A r \in trie : ValuesAtTimestamp(o, seenAt[r.id])
                           \subseteq ValuesAtSlot(o, SlotAtTimestamp(o, seenAt[r.id]))
    BY <2>2, QueriesAgreeThen
  <2>4. /\ ValuesAtSlot(o, CurrentSlot(o)) = CurrentValues(o)
        /\ \A p \in CurrentValues(o) : p \in ValuesAtSlot(o, KeySlot(p[1]))
    BY QueriesAgreeNow
  <2> QED
    BY <2>1, <2>3, <2>4
<1> QED
  BY <1>1, QueryInvariant, PTL

-----------------------------------------------------------------------------
(* The slot of an object without values.                                   *)

\* The history of the call has what the object has now, and no value at all,
\* which is what it had when the call began.
ObjectHeld ==
    call.kind = "object" => {} \in call.held /\ CurrentValues(call.of) \in call.held

LEMMA ObjectHeldStep ==
  ASSUME ReadTypeOK, ObjectHeld, [ReadNext]_readVars
  PROVE  ObjectHeld'
<1> USE DEF ObjectHeld
<1>1. ASSUME NEW o \in Objects, call.kind = "object", call.of = o,
             call' = [call EXCEPT !.held = @ \cup {CurrentValues(o)'}]
      PROVE  ObjectHeld'
  <2>1. call \in ObjectCall
    BY <1>1, CallKinds
  <2>2. call'.of = o /\ call'.held = call.held \cup {CurrentValues(o)'}
    BY <1>1, <2>1 DEF ObjectCall
  <2>3. CurrentValues(call.of)' = CurrentValues(o)'
    BY <2>2 DEF CurrentValues, KeysOf
  <2> QED
    BY <1>1, <2>2, <2>3
<1>2. CASE Write
  <2>1. CASE call' = NoCall
    BY <2>1 DEF NoCall
  <2>2. CASE call' = call /\ call.kind # "object"
    BY <2>2
  <2>3. ASSUME NEW k \in Keys, call.kind = "proof",
               call' = [call EXCEPT !.held = @ \cup Held(k)']
        PROVE  ObjectHeld'
    <3>1. call'.kind = "proof"
      BY <2>3, CallKinds DEF ProofCall
    <3> QED
      BY <3>1
  <2> QED
    BY <1>1, <1>2, <2>1, <2>2, <2>3 DEF Write, Observe
<1>3. ASSUME NEW o \in Objects, ReadObject(o) PROVE ObjectHeld'
  <2>1. CurrentValues(o) = {} /\ call'.of = o /\ call'.held = {CurrentValues(o)} /\ UNCHANGED vars
    BY <1>3 DEF ReadObject
  <2>2. CurrentValues(call.of)' = CurrentValues(o)
    BY <2>1 DEF vars, tables, CurrentValues, KeysOf
  <2> QED
    BY <2>1, <2>2
<1>4. CASE ReadObjectSlot
  <2>1. call.kind = "object" /\ call \in ObjectCall /\ UNCHANGED vars
    BY <1>4, CallKinds DEF ReadObjectSlot
  <2>2. call'.of = call.of /\ call'.held = call.held
    BY <1>4, <2>1 DEF ReadObjectSlot, ObjectCall
  <2>3. CurrentValues(call.of)' = CurrentValues(call.of)
    BY <2>1, <2>2 DEF vars, tables, CurrentValues, KeysOf
  <2> QED
    BY <2>1, <2>2, <2>3
<1>5. CASE call'.kind # "object"
  BY <1>5
<1>6. CASE UNCHANGED readVars
  BY <1>6 DEF readVars, vars, tables, CurrentValues, KeysOf
<1>7. CASE Read
  <2>1. \A k : ReadValueHash(k) => call'.kind = "proof"
    BY DEF ReadValueHash
  <2> QED
    BY <1>3, <1>4, <1>5, <1>7, <2>1, OtherCalls DEF Read
<1> QED
  BY <1>2, <1>6, <1>7 DEF ReadNext

\* The slot served for an object without values names a state that the
\* object had during the call, whatever the writer does between the two
\* statements, if no two updates share a slot.
THEOREM SlotOfTheCall ==
  ASSUME MinSlotGap = 1
  PROVE  ReadSpec => SlotIsOfTheCall
<1>1. QueryInv /\ ObjectHeld /\ [ReadNext]_readVars =>
        [ReadObjectSlot => ValuesAtSlot(call.of, call'.slot) \in call.held]_readVars
  <2> SUFFICES ASSUME QueryInv, ObjectHeld, ReadObjectSlot
               PROVE  ValuesAtSlot(call.of, call'.slot) \in call.held
    OBVIOUS
  <2>1. call.kind = "object" /\ call \in ObjectCall /\ call.of \in Objects
    BY CallKinds DEF QueryInv, ReadInv, ReadObjectSlot, ObjectCall
  <2>2. call'.slot \in {CurrentSlot(call.of), 0}
    BY <2>1 DEF ReadObjectSlot, ObjectCall
  <2>3. ValuesAtSlot(call.of, CurrentSlot(call.of)) \in call.held
    BY <2>1, QueriesAgreeNow DEF ObjectHeld
  <2>4. ValuesAtSlot(call.of, 0) = {}
    <3>1. \A r \in trie : ~(r.slot <= 0)
      BY DEF QueryInv, ReadInv, OrderInv, TypeOK, Row, Slots
    <3> QED
      BY <3>1 DEF ValuesAtSlot, IsLastAt
  <2> QED
    BY <2>1, <2>2, <2>3, <2>4 DEF ObjectHeld
<1>2. ReadInit => ObjectHeld
  BY DEF ReadInit, ObjectHeld, NoCall
<1>3. ReadSpec => []ObjectHeld
  BY <1>2, ObjectHeldStep, ReadTypeCorrect, PTL DEF ReadSpec
<1> QED
  BY <1>1, <1>3, QueryInvariant, PTL DEF ReadSpec, SlotIsOfTheCall
=============================================================================
