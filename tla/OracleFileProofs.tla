--------------------------- MODULE OracleFileProofs ---------------------------
(***************************************************************************)
(* Proofs about OracleFile: what the difference, the published root, the   *)
(* validation and the entries of a file have to do with each other, for    *)
(* any data, any state a file is built on and any it is indexed on.        *)
(***************************************************************************)
EXTENDS OracleFile, Lemmas

-----------------------------------------------------------------------------
(* The canonical form.                                                     *)

LEMMA ScalarStable == \A v : EncodeScalar(EncodeScalar(v)) = EncodeScalar(v)
<1> SUFFICES ASSUME NEW v PROVE EncodeScalar(EncodeScalar(v)) = EncodeScalar(v)
  OBVIOUS
<1>1. CASE IsNumeral(v)
  <2>1. EncodeScalar(v).kind = "fraction"
    BY <1>1 DEF EncodeScalar, parseJSONNumberToRat, SetFrac, Fraction
  <2> QED
    BY <2>1 DEF EncodeScalar, IsNumeral
<1>2. CASE ~IsNumeral(v)
  BY <1>2 DEF EncodeScalar
<1> QED
  BY <1>1, <1>2

\* A value that CanonicalizeJSON has written keeps its hash when it is read
\* back, canonicalized and hashed again, whatever the value.
THEOREM HashStable == \A v : ValueHash(ValueHash(v)) = ValueHash(v)
<1> SUFFICES ASSUME NEW v PROVE EncodeCanonical(EncodeCanonical(v)) = EncodeCanonical(v)
  BY DEF ValueHash
<1>1. CASE v.kind = "array"
  <2> DEFINE e == [i \in DOMAIN v.elems |-> EncodeScalar(v.elems[i])]
  <2>1. EncodeCanonical(v) = Array(e) /\ Array(e).kind = "array" /\ Array(e).elems = e
    BY <1>1 DEF EncodeCanonical, Array
  <2>2. EncodeCanonical(Array(e)) = Array([i \in DOMAIN e |-> EncodeScalar(e[i])])
    BY <2>1 DEF EncodeCanonical
  <2>3. [i \in DOMAIN e |-> EncodeScalar(e[i])] = e
    BY ScalarStable
  <2> QED
    BY <2>1, <2>2, <2>3
<1>2. CASE v.kind # "array" /\ v.kind = "object"
  <2> DEFINE e == [f \in DOMAIN v.fields |-> EncodeScalar(v.fields[f])]
  <2>1. EncodeCanonical(v) = Object(e) /\ Object(e).kind = "object" /\ Object(e).fields = e
    BY <1>2 DEF EncodeCanonical, Object
  <2>2. EncodeCanonical(Object(e)) = Object([f \in DOMAIN e |-> EncodeScalar(e[f])])
    BY <2>1 DEF EncodeCanonical
  <2>3. [f \in DOMAIN e |-> EncodeScalar(e[f])] = e
    BY ScalarStable
  <2> QED
    BY <2>1, <2>2, <2>3
<1>3. CASE v.kind # "array" /\ v.kind # "object"
  <2>1. EncodeCanonical(v) = EncodeScalar(v)
    BY <1>3 DEF EncodeCanonical
  <2>2. EncodeScalar(v) = v \/ EncodeScalar(v).kind = "fraction"
    BY DEF EncodeScalar, parseJSONNumberToRat, SetFrac, Fraction
  <2>3. EncodeCanonical(EncodeScalar(v)) = EncodeScalar(EncodeScalar(v))
    BY <1>3, <2>2 DEF EncodeCanonical
  <2> QED
    BY <2>1, <2>3, ScalarStable
<1> QED
  BY <1>1, <1>2, <1>3

\* So it stays the hash of a value.
LEMMA HashOfHash ==
  ASSUME NEW v \in Values
  PROVE  ValueHash(v) = v
BY HashStable DEF Values

-----------------------------------------------------------------------------
(* The last value that data gives a key.                                   *)

LEMMA LastValueIs ==
  ASSUME NEW data \in Data, NEW k \in Keys, NEW except
  PROVE  LET found == {i \in DOMAIN data : data[i][k] # NULL
                                             /\ ValueHash(data[i][k]) # except}
         IN \/ found = {} /\ LastValue(data, k, except) = NULL
            \/ \E i \in found : /\ \A j \in found : j <= i
                                /\ LastValue(data, k, except) = ValueHash(data[i][k])
<1> DEFINE found == {i \in DOMAIN data : data[i][k] # NULL /\ ValueHash(data[i][k]) # except}
<1>1. PICK n \in 0 .. MaxItems : data \in [1 .. n -> Item]
  BY DEF Data
<1>2. n \in Nat /\ found \subseteq Nat /\ \A i \in found : i <= n
  BY <1>1, FileAssumption
<1>3. found # {} => \E i \in found : \A j \in found : j <= i
  <2> HIDE DEF found
  <2> QED
    BY <1>2, GreatestNat
<1>4. LastValue(data, k, except) =
        IF found = {} THEN NULL
        ELSE ValueHash(data[CHOOSE i \in found : \A j \in found : j <= i][k])
  BY DEF LastValue
<1> HIDE DEF found
<1>5. CASE found = {}
  BY <1>4, <1>5 DEF found
<1>6. CASE found # {}
  <2> DEFINE last == CHOOSE i \in found : \A j \in found : j <= i
  <2>1. last \in found /\ \A j \in found : j <= last
    BY <1>3, <1>6
  <2> HIDE DEF last
  <2> QED
    BY <1>4, <1>6, <2>1 DEF last, found
<1> QED
  BY <1>5, <1>6

\* What the difference uses of it.
LEMMA LastValueFacts ==
  ASSUME NEW data \in Data, NEW k \in Keys, NEW except
  PROVE  /\ LastValue(data, k, except) \in Values \cup {NULL}
         /\ LastValue(data, k, except) # NULL => LastValue(data, k, except) # except
         /\ Snapshot(data)[k] \in Values \cup {NULL}
         /\ Snapshot(data)[k] = NULL => LastValue(data, k, except) = NULL
         /\ Snapshot(data)[k] # NULL /\ Snapshot(data)[k] # except
              => LastValue(data, k, except) = Snapshot(data)[k]
<1> DEFINE all == {i \in DOMAIN data : data[i][k] # NULL /\ ValueHash(data[i][k]) # NULL}
           found == {i \in DOMAIN data : data[i][k] # NULL /\ ValueHash(data[i][k]) # except}
<1>1. Snapshot(data)[k] = LastValue(data, k, NULL)
  BY DEF Snapshot
<1>2. \A i \in DOMAIN data : data[i][k] # NULL => ValueHash(data[i][k]) \in Values
  BY DEF Data, Item, Values
<1>3. NULL \notin Values
  BY NullAssumption
<1>4. found \subseteq all
  BY <1>2, <1>3
<1>5. all \subseteq Nat
  BY FileAssumption DEF Data
<1>6. \/ all = {} /\ LastValue(data, k, NULL) = NULL
      \/ \E i \in all : /\ \A j \in all : j <= i
                        /\ LastValue(data, k, NULL) = ValueHash(data[i][k])
  BY LastValueIs
<1>7. \/ found = {} /\ LastValue(data, k, except) = NULL
      \/ \E i \in found : /\ \A j \in found : j <= i
                          /\ LastValue(data, k, except) = ValueHash(data[i][k])
  BY LastValueIs
<1>8. /\ LastValue(data, k, except) \in Values \cup {NULL}
      /\ LastValue(data, k, except) # NULL => LastValue(data, k, except) # except
  BY <1>2, <1>7
<1>9. /\ LastValue(data, k, NULL) \in Values \cup {NULL}
      /\ LastValue(data, k, NULL) = NULL => all = {}
  BY <1>2, <1>3, <1>6
<1>10. LastValue(data, k, NULL) = NULL => LastValue(data, k, except) = NULL
  <2> HIDE DEF all, found
  <2> QED
    BY <1>4, <1>7, <1>9
<1>11. ASSUME LastValue(data, k, NULL) # NULL, LastValue(data, k, NULL) # except
       PROVE  LastValue(data, k, except) = LastValue(data, k, NULL)
  <2>1. PICK i \in all : /\ \A j \in all : j <= i
                         /\ LastValue(data, k, NULL) = ValueHash(data[i][k])
    BY <1>6, <1>11
  <2>2. i \in found
    BY <1>11, <2>1
  <2>3. PICK m \in found : /\ \A j \in found : j <= m
                           /\ LastValue(data, k, except) = ValueHash(data[m][k])
    BY <1>7, <2>2
  <2>4. i <= m /\ m <= i /\ i \in Nat /\ m \in Nat
    <3> HIDE DEF all, found
    <3> QED
      BY <1>4, <1>5, <2>1, <2>2, <2>3
  <2>5. i = m
    BY <2>4
  <2> QED
    BY <2>1, <2>3, <2>5
<1> QED
  BY <1>1, <1>8, <1>9, <1>10, <1>11

-----------------------------------------------------------------------------
(* The difference and the root.                                            *)

LEMMA BuildType ==
  ASSUME NEW data \in Data, NEW state \in State
  PROVE  Build(data, state) \in File /\ Build(data, state) # NoFile
<1>1. \A k \in Keys : \A except : LastValue(data, k, except) \in Values \cup {NULL}
  BY LastValueFacts
<1>2. Snapshot(data) \in State
  BY LastValueFacts DEF Snapshot, State
<1>3. \A k \in Keys : state[k] \in Values \cup {NULL}
  BY DEF State
<1> DEFINE ops == diffTrieOpsCore(data, state)
<1>4. ops \in Ops
  <2>1. [k \in Keys |-> IF state[k] = NULL THEN Snapshot(data)[k] ELSE NULL] \in State
    BY <1>2 DEF State
  <2>2. [k \in Keys |-> IF state[k] = NULL THEN NULL ELSE LastValue(data, k, state[k])] \in State
    BY <1>1 DEF State
  <2> QED
    BY <2>1, <2>2 DEF diffTrieOpsCore, Ops
<1>5. applyTrieOperations(state, ops) \in State
  <2>1. \A k \in Keys : /\ ops.upd[k] \in Values \cup {NULL}
                        /\ ops.ins[k] \in Values \cup {NULL}
    BY <1>4 DEF Ops, State
  <2> QED
    BY <2>1, <1>3 DEF applyTrieOperations, State
<1>6. Build(data, state) = [data |-> data, ops |-> ops, prev |-> state,
                            root |-> applyTrieOperations(state, ops)]
  BY Zenon DEF Build
<1> HIDE DEF ops
<1> QED
  BY <1>4, <1>5, <1>6 DEF File, NoFile

\* The file, field by field and key by key.
LEMMA BuildIs ==
  ASSUME NEW data \in Data, NEW state \in State
  PROVE  LET f == Build(data, state) IN
         /\ f.data = data /\ f.prev = state
         /\ f.ops = diffTrieOpsCore(data, state)
         /\ f.root = applyTrieOperations(state, diffTrieOpsCore(data, state))
<1>1. Build(data, state) = [data |-> data, ops |-> diffTrieOpsCore(data, state), prev |-> state,
                            root |-> applyTrieOperations(state, diffTrieOpsCore(data, state))]
  BY Zenon DEF Build
<1> QED
  BY <1>1

LEMMA DiffIs ==
  ASSUME NEW data \in Data, NEW state \in State, NEW k \in Keys
  PROVE  LET ops == diffTrieOpsCore(data, state) IN
         /\ ops.ins[k] = IF state[k] = NULL THEN Snapshot(data)[k] ELSE NULL
         /\ ops.upd[k] = IF state[k] = NULL THEN NULL ELSE LastValue(data, k, state[k])
         /\ k \in ops.del <=> state[k] # NULL /\ Snapshot(data)[k] = NULL
BY DEF diffTrieOpsCore

LEMMA RootIs ==
  ASSUME NEW data \in Data, NEW state \in State, NEW k \in Keys
  PROVE  Build(data, state).root[k] =
           IF Snapshot(data)[k] = NULL THEN NULL
           ELSE IF state[k] = NULL THEN Snapshot(data)[k]
           ELSE IF LastValue(data, k, state[k]) # NULL THEN LastValue(data, k, state[k])
           ELSE state[k]
<1> DEFINE ops == diffTrieOpsCore(data, state)
<1>1. Build(data, state).root[k] = IF k \in ops.del THEN NULL
                                   ELSE IF ops.upd[k] # NULL THEN ops.upd[k]
                                   ELSE IF ops.ins[k] # NULL THEN ops.ins[k]
                                   ELSE state[k]
  <2>1. Build(data, state).root = applyTrieOperations(state, ops)
    BY BuildIs
  <2> HIDE DEF ops
  <2> QED
    BY <2>1 DEF applyTrieOperations
<1>2. /\ ops.ins[k] = IF state[k] = NULL THEN Snapshot(data)[k] ELSE NULL
      /\ ops.upd[k] = IF state[k] = NULL THEN NULL ELSE LastValue(data, k, state[k])
      /\ k \in ops.del <=> state[k] # NULL /\ Snapshot(data)[k] = NULL
  BY DiffIs
<1> HIDE DEF ops
<1> QED
  BY <1>1, <1>2

\* The root of a file is that of its data, but for a relisted key.
LEMMA BuildRoot ==
  ASSUME NEW data \in Data, NEW state \in State, NEW k \in Keys
  PROVE  Build(data, state).root[k] = Snapshot(data)[k] <=> ~Relisted(data, state, k)
BY RootIs, LastValueFacts DEF Relisted

-----------------------------------------------------------------------------
(* The tables.                                                             *)

\* A key that has ever been put has a row.
RowsKept ==
    \A i \in DOMAIN indexed : indexed[i] # NULL =>
        \A k \in Keys : indexed[i][k] # NULL => k \in keyRows

LEMMA PreviousFacts ==
  ASSUME TypeOK, RowsKept
  PROVE  Previous \in State /\ \A k \in Keys : Previous[k] # NULL => k \in keyRows
<1> DEFINE known == {i \in DOMAIN indexed : indexed[i] # NULL}
           last == CHOOSE i \in known : \A j \in known : j <= i
<1>1. Previous = IF known = {} THEN Empty ELSE indexed[last]
  BY DEF Previous
<1>2. CASE known = {}
  BY <1>1, <1>2 DEF Empty, State
<1>3. CASE known # {}
  <2>1. indexed \in Seq(State \cup {NULL}) /\ Len(indexed) \in Nat
    BY DEF TypeOK
  <2>2. known \subseteq Nat /\ \A i \in known : i <= Len(indexed)
    BY <2>1
  <2>3. \E i \in known : \A j \in known : j <= i
    <3> HIDE DEF known
    <3> QED
      BY <1>3, <2>1, <2>2, GreatestNat
  <2>4. last \in known
    BY <2>3
  <2> HIDE DEF last
  <2>5. indexed[last] \in State /\ \A k \in Keys : indexed[last][k] # NULL => k \in keyRows
    BY <2>1, <2>4 DEF RowsKept
  <2> QED
    BY <1>1, <1>3, <2>5
<1> QED
  BY <1>2, <1>3

\* A file that is accepted on the state q of the tables, key by key.
LEMMA AcceptedKey ==
  ASSUME NEW data \in Data, NEW p \in State, NEW q \in State, NEW k \in Keys,
         validateTrieOperations(Build(data, p), q)
  PROVE  /\ (IF p[k] = NULL THEN Snapshot(data)[k] ELSE NULL)
              = (IF q[k] = NULL THEN Snapshot(data)[k] ELSE NULL)
         /\ (IF p[k] = NULL THEN NULL ELSE LastValue(data, k, p[k]))
              = (IF q[k] = NULL THEN NULL ELSE LastValue(data, k, q[k]))
         /\ Snapshot(data)[k] = NULL => (p[k] # NULL <=> q[k] # NULL)
<1> DEFINE a == diffTrieOpsCore(data, p)
           b == diffTrieOpsCore(data, q)
<1>1. a.ins = b.ins /\ a.upd = b.upd /\ a.del = b.del
  BY BuildIs DEF validateTrieOperations
<1>2. /\ a.ins[k] = IF p[k] = NULL THEN Snapshot(data)[k] ELSE NULL
      /\ a.upd[k] = IF p[k] = NULL THEN NULL ELSE LastValue(data, k, p[k])
      /\ k \in a.del <=> p[k] # NULL /\ Snapshot(data)[k] = NULL
  BY DiffIs
<1>3. /\ b.ins[k] = IF q[k] = NULL THEN Snapshot(data)[k] ELSE NULL
      /\ b.upd[k] = IF q[k] = NULL THEN NULL ELSE LastValue(data, k, q[k])
      /\ k \in b.del <=> q[k] # NULL /\ Snapshot(data)[k] = NULL
  BY DiffIs
<1> HIDE DEF a, b
<1> QED
  BY <1>1, <1>2, <1>3

-----------------------------------------------------------------------------
(* The delays between attempts to read a file.                             *)

\* f solves the recursive definition of Doubled, up to attempt n.
SolvesDoubled(f, n) ==
    f = [a \in 1 .. n |->
           IF a = 1 THEN RetryInitialDelay
           ELSE IF f[a - 1] > MaxDuration THEN f[a - 1] ELSE 2 * f[a - 1]]

LEMMA DoubledExists ==
  ASSUME NEW n \in Nat
  PROVE  \E f : SolvesDoubled(f, n)
<1> DEFINE Holds == {m \in Nat : \E f : SolvesDoubled(f, m)}
<1>1. 0 \in Holds
  <2> DEFINE g == [a \in 1 .. 0 |-> 0]
  <2>1. SolvesDoubled(g, 0)
    BY DEF SolvesDoubled
  <2> QED
    BY <2>1
<1>2. ASSUME NEW m \in 1 .. n, m - 1 \in Holds
      PROVE  m \in Holds
  <2>1. PICK f : SolvesDoubled(f, m - 1)
    BY <1>2
  <2>2. m \in Nat /\ m - 1 \in Nat
    OBVIOUS
  <2> DEFINE last == IF m = 1 THEN RetryInitialDelay
                     ELSE IF f[m - 1] > MaxDuration THEN f[m - 1] ELSE 2 * f[m - 1]
             g == [a \in 1 .. m |-> IF a = m THEN last ELSE f[a]]
             Body(h, a) == IF a = 1 THEN RetryInitialDelay
                           ELSE IF h[a - 1] > MaxDuration THEN h[a - 1] ELSE 2 * h[a - 1]
  <2>3. \A a \in 1 .. m - 1 : g[a] = f[a] /\ f[a] = Body(f, a)
    BY <2>1, <2>2 DEF SolvesDoubled
  <2>4. g[m] = last
    BY <2>2
  <2>5. ASSUME NEW a \in 1 .. m PROVE g[a] = Body(g, a)
    <3>1. a # 1 => a - 1 \in 1 .. m - 1
      BY <2>2
    <3>2. a # m => a \in 1 .. m - 1
      BY <2>2
    <3>3. a # 1 => g[a - 1] = f[a - 1]
      BY <3>1, <2>3
    <3> HIDE DEF g
    <3> QED
      BY <2>3, <2>4, <3>2, <3>3
  <2>6. SolvesDoubled(g, m)
    <3>1. g = [a \in 1 .. m |-> g[a]]
      OBVIOUS
    <3> HIDE DEF g
    <3>2. g = [a \in 1 .. m |-> Body(g, a)]
      BY <2>5, <3>1
    <3> QED
      BY <3>2 DEF SolvesDoubled
  <2> QED
    BY <2>2, <2>6
<1> HIDE DEF Holds
<1>3. 0 .. n \subseteq Holds
  BY <1>1, <1>2, LengthInduction
<1> QED
  BY <1>3 DEF Holds

LEMMA DoubledDef ==
  ASSUME NEW a \in 1 .. RetryMaxAttempts
  PROVE  Doubled[a] = IF a = 1 THEN RetryInitialDelay
                      ELSE IF Doubled[a - 1] > MaxDuration THEN Doubled[a - 1]
                      ELSE 2 * Doubled[a - 1]
<1>1. \E f : SolvesDoubled(f, RetryMaxAttempts)
  BY DoubledExists, RetryAssumption
<1>2. SolvesDoubled(Doubled, RetryMaxAttempts)
  BY <1>1, Zenon DEF Doubled, SolvesDoubled
<1> DEFINE D == Doubled
<1>3. D = [b \in 1 .. RetryMaxAttempts |->
             IF b = 1 THEN RetryInitialDelay
             ELSE IF D[b - 1] > MaxDuration THEN D[b - 1] ELSE 2 * D[b - 1]]
  BY <1>2, Zenon DEF SolvesDoubled
<1> HIDE DEF D
<1>4. D[a] = IF a = 1 THEN RetryInitialDelay
             ELSE IF D[a - 1] > MaxDuration THEN D[a - 1] ELSE 2 * D[a - 1]
  BY <1>3
<1> QED
  BY <1>4, Zenon DEF D

\* The doubled delay is positive and never shrinks.
LEMMA DoubledGrows ==
  ASSUME NEW a \in 1 .. RetryMaxAttempts
  PROVE  /\ Doubled[a] \in Nat \ {0}
         /\ a > 1 => Doubled[a - 1] \in Nat /\ Doubled[a - 1] <= Doubled[a]
<1> DEFINE D == Doubled
           n == RetryMaxAttempts
           Holds == {b \in 0 .. n : b > 0 => D[b] \in Nat \ {0}}
<1>1. \A b \in 1 .. n : D[b] = IF b = 1 THEN RetryInitialDelay
                              ELSE IF D[b - 1] > MaxDuration THEN D[b - 1] ELSE 2 * D[b - 1]
  BY DoubledDef, Zenon
<1> HIDE DEF D
<1>2. n \in Nat /\ RetryInitialDelay \in Nat \ {0} /\ MaxDuration \in Nat
  BY RetryAssumption
<1>3. 0 .. n \subseteq Holds
  <2>1. 0 \in Holds
    BY <1>2
  <2>2. \A b \in 1 .. n : b - 1 \in Holds => b \in Holds
    BY <1>1, <1>2
  <2> HIDE DEF Holds, n
  <2> QED
    BY <2>1, <2>2, <1>2, LengthInduction
<1>4. \A b \in 1 .. n : D[b] \in Nat \ {0}
  BY <1>2, <1>3
<1>5. a > 1 => a - 1 \in 1 .. n
  BY <1>2
<1>6. a > 1 => D[a - 1] \in Nat /\ D[a - 1] <= D[a]
  BY <1>1, <1>2, <1>4, <1>5
<1> QED
  BY <1>4, <1>6, Zenon DEF D

\* A delay is the doubled one, the greatest, or what the conversion of one
\* too great gives.
LEMMA DelayIs ==
  ASSUME NEW a \in 1 .. RetryMaxAttempts, NEW d \in Delay(a)
  PROVE  /\ d \in -MaxDuration .. RetryMaxDelay
         /\ Doubled[a] <= MaxDuration =>
              d = IF Doubled[a] > RetryMaxDelay THEN RetryMaxDelay ELSE Doubled[a]
         /\ Doubled[a] > MaxDuration => d \in {RetryMaxDelay, -MaxDuration}
<1>1. Doubled[a] \in Nat
  BY DoubledGrows
<1>2. RetryMaxDelay \in 1 .. MaxDuration /\ MaxDuration \in Nat
  BY RetryAssumption
<1>3. PICK e \in ToDuration(Doubled[a]) :
             d = IF e > RetryMaxDelay THEN RetryMaxDelay ELSE e
  BY DEF Delay
<1>4. \/ Doubled[a] <= MaxDuration /\ e = Doubled[a]
      \/ Doubled[a] > MaxDuration /\ e \in {-MaxDuration, MaxDuration}
  BY <1>1, <1>2, <1>3 DEF ToDuration
<1>5. e \in Int /\ e >= -MaxDuration /\ RetryMaxDelay \in Nat
  BY <1>1, <1>2, <1>4
<1>6. d \in -MaxDuration .. RetryMaxDelay
  BY <1>2, <1>3, <1>5
<1>7. CASE Doubled[a] <= MaxDuration
  <2>1. e = Doubled[a] /\ ~(Doubled[a] > MaxDuration)
    BY <1>1, <1>2, <1>4, <1>7
  <2> QED
    BY <1>3, <1>6, <2>1
<1>8. CASE Doubled[a] > MaxDuration
  <2>1. e = MaxDuration => d = RetryMaxDelay
    BY <1>2, <1>3
  <2>2. e = -MaxDuration => d = -MaxDuration
    BY <1>2, <1>3
  <2>3. ~(Doubled[a] <= MaxDuration) /\ d \in {RetryMaxDelay, -MaxDuration}
    BY <1>1, <1>2, <1>4, <1>8, <2>1, <2>2
  <2> QED
    BY <1>6, <2>3
<1> QED
  BY <1>1, <1>2, <1>7, <1>8

-----------------------------------------------------------------------------
(* The inductive invariant.                                                *)

\* The file being processed is what some node built.
FileIsBuilt == file # NoFile => file = Build(file.data, file.prev)

\* The attempts count one fetch, and the wait is the delay of the last one.
AttemptsCounted ==
    /\ pc \in {"idle", "fetched"} => attempt = 0 /\ wait = 0
    /\ pc = "fetching" => attempt < RetryMaxAttempts
    /\ pc = "fetching" => IF attempt = 0 THEN wait = 0 ELSE wait \in Delay(attempt)

\* A file that has been received has room in the tables.
RoomLeft == pc # "idle" => Len(indexed) < MaxFiles

FileInv == TypeOK /\ FileIsBuilt /\ RowsKept /\ AttemptsCounted /\ RoomLeft

LEMMA FileInit == Init => FileInv
BY FileAssumption, RetryAssumption
   DEF Init, FileInv, TypeOK, FileIsBuilt, RowsKept, AttemptsCounted, RoomLeft

LEMMA EntriesType ==
  ASSUME FileInv, file # NoFile
  PROVE  /\ Entries(file) \in State
         /\ \A k \in Keys : Entries(file)[k] # NULL => k \in keyRows \cup PutKeys(file)
<1>1. file.data \in Data /\ TypeOK /\ RowsKept
  BY DEF FileInv, TypeOK, File
<1>2. Previous \in State /\ \A k \in Keys : Previous[k] # NULL => k \in keyRows
  BY <1>1, PreviousFacts
<1>3. \A k \in PutKeys(file) : k \in Keys /\ Snapshot(file.data)[k] \in Values
  <2> SUFFICES ASSUME NEW k \in PutKeys(file) PROVE k \in Keys /\ Snapshot(file.data)[k] \in Values
    OBVIOUS
  <2>1. k \in Keys
    BY DEF PutKeys
  <2>2. file.prev \in State /\ file.ops = diffTrieOpsCore(file.data, file.prev)
    <3>1. file.prev \in State /\ file = Build(file.data, file.prev)
      BY DEF FileInv, TypeOK, File, FileIsBuilt
    <3> QED
      BY <1>1, <3>1, BuildIs
  <2>3. /\ file.ops.ins[k] # NULL => Snapshot(file.data)[k] # NULL
        /\ file.ops.upd[k] # NULL => LastValue(file.data, k, file.prev[k]) # NULL
    BY <1>1, <2>1, <2>2, DiffIs
  <2>4. Snapshot(file.data)[k] # NULL
    BY <1>1, <2>1, <2>3, LastValueFacts DEF PutKeys
  <2> QED
    BY <1>1, <2>1, <2>4, LastValueFacts
<1>4. \A k \in PutKeys(file) : ValueHash(Snapshot(file.data)[k]) \in Values
  BY <1>3, HashOfHash
<1> QED
  BY <1>2, <1>4 DEF Entries, State

LEMMA FileStep == FileInv /\ [Next]_vars => FileInv'
<1> SUFFICES ASSUME FileInv, [Next]_vars PROVE FileInv'
  OBVIOUS
<1>0. TypeOK /\ FileIsBuilt /\ RowsKept /\ AttemptsCounted /\ RoomLeft
  BY DEF FileInv
<1>1. indexed \in Seq(State \cup {NULL}) /\ Len(indexed) \in Nat /\ Len(indexed) <= MaxFiles
  BY <1>0 DEF TypeOK
<1>2. /\ RetryMaxAttempts \in Nat \ {0} /\ RetryMaxDelay \in Nat \ {0} /\ MaxDuration \in Nat
      /\ MaxFiles \in Nat
  BY RetryAssumption, FileAssumption
<1>3. ASSUME NEW data \in Data, NEW state \in State, ReceiveTx(data, state) PROVE FileInv'
  <2>1. file' \in File /\ file' # NoFile
    BY <1>3, BuildType DEF ReceiveTx
  <2>2. FileIsBuilt'
    BY <1>3, BuildIs DEF ReceiveTx, FileIsBuilt
  <2>3. TypeOK'
    BY <1>0, <1>3, <2>1 DEF ReceiveTx, TypeOK
  <2>4. RowsKept'
    BY <1>0, <1>3 DEF ReceiveTx, RowsKept
  <2>5. AttemptsCounted'
    BY <1>0, <1>2, <1>3 DEF ReceiveTx, AttemptsCounted
  <2>6. RoomLeft'
    BY <1>3 DEF ReceiveTx, RoomLeft
  <2> QED
    BY <2>2, <2>3, <2>4, <2>5, <2>6 DEF FileInv
<1>4. ASSUME NEW data \in Data, NEW state \in State, SkipTx(data, state) PROVE FileInv'
  <2>1. /\ indexed' \in Seq(State \cup {NULL}) /\ Len(indexed') <= MaxFiles
        /\ Len(indexed') = Len(indexed) + 1
        /\ \A i \in 1 .. Len(indexed) : indexed'[i] = indexed[i]
        /\ indexed'[Len(indexed) + 1] = NULL
    BY <1>1, <1>2, <1>4 DEF SkipTx
  <2>2. TypeOK'
    BY <1>0, <1>4, <2>1 DEF SkipTx, TypeOK
  <2>3. RowsKept'
    <3>1. keyRows' = keyRows /\ DOMAIN indexed = 1 .. Len(indexed)
            /\ DOMAIN indexed' = 1 .. (Len(indexed) + 1)
      BY <1>1, <1>4, <2>1 DEF SkipTx
    <3> QED
      BY <1>0, <1>1, <2>1, <3>1 DEF RowsKept
  <2>4. FileIsBuilt' /\ AttemptsCounted' /\ RoomLeft'
    BY <1>0, <1>4 DEF SkipTx, FileIsBuilt, AttemptsCounted, RoomLeft
  <2> QED
    BY <2>2, <2>3, <2>4 DEF FileInv
<1>5. CASE ReadCloud
  BY <1>0, <1>2, <1>5 DEF ReadCloud, FileInv, TypeOK, FileIsBuilt, RowsKept, AttemptsCounted, RoomLeft
<1>6. CASE ReadCloudFails
  <2>1. attempt \in Nat /\ attempt < RetryMaxAttempts /\ attempt' = attempt + 1
    BY <1>0, <1>6 DEF ReadCloudFails, TypeOK, AttemptsCounted
  <2>2. attempt' \in 1 .. RetryMaxAttempts
    BY <1>2, <2>1
  <2>3. wait' \in -MaxDuration .. RetryMaxDelay
    <3>1. CASE UNCHANGED wait
      BY <1>0, <3>1 DEF TypeOK
    <3>2. CASE wait' \in Delay(attempt')
      BY <2>2, <3>2, DelayIs
    <3> QED
      BY <1>6, <3>1, <3>2 DEF ReadCloudFails
  <2>4. TypeOK'
    BY <1>0, <1>2, <1>6, <2>2, <2>3 DEF ReadCloudFails, TypeOK
  <2>5. AttemptsCounted'
    BY <1>2, <1>6, <2>1, <2>2 DEF ReadCloudFails, AttemptsCounted
  <2>6. FileIsBuilt' /\ RowsKept' /\ RoomLeft'
    BY <1>0, <1>6 DEF ReadCloudFails, FileIsBuilt, RowsKept, RoomLeft
  <2> QED
    BY <2>4, <2>5, <2>6 DEF FileInv
<1>7. CASE IndexFile
  <2>0. file # NoFile
    BY <1>0, <1>7 DEF IndexFile, TypeOK
  <2>1. /\ Entries(file) \in State
        /\ \A k \in Keys : Entries(file)[k] # NULL => k \in keyRows \cup PutKeys(file)
    BY <2>0, EntriesType
  <2>2. indexed' = Append(indexed, Entries(file)) /\ keyRows' = keyRows \cup PutKeys(file)
          /\ file' = NoFile /\ pc' = "idle" /\ UNCHANGED <<attempt, wait>> /\ pc = "fetched"
    BY <1>7 DEF IndexFile
  <2>3. Len(indexed) < MaxFiles
    BY <1>0, <1>7 DEF IndexFile, RoomLeft
  <2>4. /\ indexed' \in Seq(State \cup {NULL}) /\ Len(indexed') <= MaxFiles
        /\ Len(indexed') = Len(indexed) + 1
        /\ \A i \in 1 .. Len(indexed) : indexed'[i] = indexed[i]
        /\ indexed'[Len(indexed) + 1] = Entries(file)
    BY <1>1, <1>2, <2>1, <2>2, <2>3
  <2>5. PutKeys(file) \subseteq Keys
    BY DEF PutKeys
  <2>6. TypeOK'
    BY <1>0, <2>2, <2>4, <2>5 DEF TypeOK
  <2>7. RowsKept'
    <3>1. DOMAIN indexed = 1 .. Len(indexed) /\ DOMAIN indexed' = 1 .. (Len(indexed) + 1)
      BY <1>1, <2>4
    <3> QED
      BY <1>0, <1>1, <2>1, <2>2, <2>4, <3>1 DEF RowsKept
  <2>8. FileIsBuilt' /\ AttemptsCounted' /\ RoomLeft'
    BY <1>0, <2>2 DEF FileIsBuilt, AttemptsCounted, RoomLeft
  <2> QED
    BY <2>6, <2>7, <2>8 DEF FileInv
<1>8. CASE IndexFileFails
  BY <1>0, <1>8 DEF IndexFileFails, FileInv, TypeOK, FileIsBuilt, RowsKept, AttemptsCounted, RoomLeft
<1>9. ASSUME NEW n \in 0 .. MaxFiles, Rollback(n) PROVE FileInv'
  <2>1. /\ indexed' \in Seq(State \cup {NULL}) /\ Len(indexed') <= MaxFiles
        /\ Len(indexed') = n /\ n <= Len(indexed)
        /\ \A i \in 1 .. n : indexed'[i] = indexed[i]
    BY <1>1, <1>2, <1>9 DEF Rollback
  <2>2. TypeOK'
    BY <1>0, <1>2, <1>9, <2>1 DEF Rollback, TypeOK
  <2>3. RowsKept'
    <3>1. keyRows' = keyRows /\ DOMAIN indexed = 1 .. Len(indexed) /\ DOMAIN indexed' = 1 .. n
      BY <1>1, <1>9, <2>1 DEF Rollback
    <3> QED
      BY <1>0, <1>1, <2>1, <3>1 DEF RowsKept
  <2>4. FileIsBuilt' /\ AttemptsCounted' /\ RoomLeft'
    BY <1>9 DEF Rollback, FileIsBuilt, AttemptsCounted, RoomLeft
  <2> QED
    BY <2>2, <2>3, <2>4 DEF FileInv
<1>10. CASE Restart
  BY <1>0, <1>2, <1>10 DEF Restart, FileInv, TypeOK, FileIsBuilt, RowsKept, AttemptsCounted, RoomLeft
<1>11. CASE UNCHANGED vars
  BY <1>0, <1>11 DEF vars, FileInv, TypeOK, FileIsBuilt, RowsKept, AttemptsCounted, RoomLeft
<1> QED
  BY <1>3, <1>4, <1>5, <1>6, <1>7, <1>8, <1>9, <1>10, <1>11 DEF Next

\* The state of the reader has the types of OracleFile, every wait and count
\* of attempts within the configured bounds.
THEOREM FileTypeCorrect == Spec => []TypeOK
<1>1. FileInv => TypeOK
  BY DEF FileInv
<1> QED
  BY FileInit, FileStep, <1>1, PTL DEF Spec

LEMMA FileInvHolds == Spec => []FileInv
BY FileInit, FileStep, PTL DEF Spec

-----------------------------------------------------------------------------
(* The properties.                                                         *)

\* The root a file is published with is that of its data, key by key, except
\* for a key that the data gives a new and at last its old value, for any
\* data and any state it is built on.
THEOREM RootOfData == Spec => []RootIsOfData
<1>1. FileInv => RootIsOfData
  <2> SUFFICES ASSUME FileInv, file # NoFile, NEW k \in Keys
               PROVE  file.root[k] = Snapshot(file.data)[k]
                        <=> ~Relisted(file.data, file.prev, k)
    BY DEF RootIsOfData
  <2>1. file.data \in Data /\ file.prev \in State /\ file = Build(file.data, file.prev)
    BY DEF FileInv, TypeOK, File, FileIsBuilt
  <2>2. Build(file.data, file.prev).root[k] = Snapshot(file.data)[k]
          <=> ~Relisted(file.data, file.prev, k)
    BY <2>1, BuildRoot
  <2> QED
    BY <2>1, <2>2
<1> QED
  BY FileInvHolds, <1>1, PTL

\* A file that the validation accepts is indexed as the state its root
\* commits to, on whatever state it was built.
THEOREM ValidFileIndexed == Spec => ValidFileIndexesItsRoot
<1> DEFINE Accepted == IndexFile /\ validateTrieOperations(file, Previous) =>
                         \A k \in Keys : Entries(file)[k] = file.root[k]
                                           \/ Relisted(file.data, Previous, k)
<1>1. FileInv => Accepted
  <2> SUFFICES ASSUME FileInv, IndexFile, validateTrieOperations(file, Previous),
                      NEW k \in Keys, ~Relisted(file.data, Previous, k)
               PROVE  Entries(file)[k] = file.root[k]
    OBVIOUS
  <2>0. TypeOK /\ RowsKept /\ file # NoFile
    BY DEF FileInv, TypeOK, IndexFile
  <2> DEFINE d == file.data
             p == file.prev
             q == Previous
             sn == Snapshot(d)[k]
  <2>1. d \in Data /\ p \in State /\ file = Build(d, p)
    BY <2>0 DEF FileInv, TypeOK, File, FileIsBuilt
  <2>2. q \in State /\ (q[k] # NULL => k \in keyRows)
    BY <2>0, PreviousFacts
  <2>3. /\ (IF p[k] = NULL THEN sn ELSE NULL) = (IF q[k] = NULL THEN sn ELSE NULL)
        /\ (IF p[k] = NULL THEN NULL ELSE LastValue(d, k, p[k]))
             = (IF q[k] = NULL THEN NULL ELSE LastValue(d, k, q[k]))
        /\ sn = NULL => (p[k] # NULL <=> q[k] # NULL)
    <3>1. validateTrieOperations(Build(d, p), q)
      BY <2>1
    <3> QED
      BY <2>1, <2>2, <3>1, AcceptedKey
  <2>4. Build(d, p).root[k] = IF sn = NULL THEN NULL
                              ELSE IF p[k] = NULL THEN sn
                              ELSE IF LastValue(d, k, p[k]) # NULL THEN LastValue(d, k, p[k])
                              ELSE p[k]
    BY <2>1, RootIs
  <2>5. /\ file.ops.ins[k] = IF p[k] = NULL THEN sn ELSE NULL
        /\ file.ops.upd[k] = IF p[k] = NULL THEN NULL ELSE LastValue(d, k, p[k])
        /\ k \in file.ops.del <=> p[k] # NULL /\ sn = NULL
    <3>1. file.ops = diffTrieOpsCore(d, p)
      BY <2>1, BuildIs
    <3> QED
      BY <2>1, <3>1, DiffIs
  <2>6. /\ sn = NULL => LastValue(d, k, p[k]) = NULL
        /\ sn # NULL /\ sn # p[k] => LastValue(d, k, p[k]) = sn
        /\ sn # NULL /\ sn # q[k] => LastValue(d, k, q[k]) = sn
        /\ sn \in Values \cup {NULL}
    BY <2>1, LastValueFacts
  <2>7. sn # NULL => ValueHash(sn) = sn
    BY <2>6, HashOfHash
  <2>8. q[k] # NULL /\ sn = q[k] => LastValue(d, k, q[k]) = NULL
    BY DEF Relisted
  <2>9. Entries(file)[k] = IF k \in DeleteKeys(file) THEN NULL
                           ELSE IF k \in PutKeys(file) THEN ValueHash(sn)
                           ELSE q[k]
    BY DEF Entries
  <2>10. file.root[k] = Build(d, p).root[k]
    BY <2>1
  <2>11. CASE p = Empty
    <3>1. p[k] = NULL /\ k \notin DeleteKeys(file) /\ (k \in PutKeys(file) <=> sn # NULL)
      BY <2>11 DEF Empty, DeleteKeys, PutKeys
    <3> HIDE DEF d, p, q, sn
    <3> QED
      BY <2>3, <2>4, <2>7, <2>9, <2>10, <3>1
  <2>12. CASE p # Empty
    <3>1. /\ k \in DeleteKeys(file) <=> k \in file.ops.del /\ k \in keyRows
          /\ k \in PutKeys(file) <=> file.ops.ins[k] # NULL \/ file.ops.upd[k] # NULL
      BY <2>12 DEF DeleteKeys, PutKeys
    <3> HIDE DEF d, p, q, sn
    <3>2. CASE sn = NULL
      BY <2>2, <2>3, <2>4, <2>5, <2>6, <2>9, <2>10, <3>1, <3>2
    <3>3. CASE sn # NULL
      BY <2>2, <2>3, <2>4, <2>5, <2>6, <2>7, <2>8, <2>9, <2>10, <3>1, <3>3
    <3> QED
      BY <3>2, <3>3
  <2> QED
    BY <2>11, <2>12
<1>2. FileInv /\ [Next]_vars => [Accepted]_vars
  BY <1>1
<1> QED
  BY FileInvHolds, <1>2, PTL DEF Spec, ValidFileIndexesItsRoot

\* The processor fails only on a file that the cloud does not give, that the
\* validation has reported, or that refers to one passed over: the deletions
\* of an accepted file always find their key.
THEOREM FailsOnlyReported == Spec => []FailsOnlyOnReported
<1>1. Init => FailsOnlyOnReported
  BY DEF Init, FailsOnlyOnReported
<1>2. FailsOnlyOnReported /\ [Next]_vars => FailsOnlyOnReported'
  <2> SUFFICES ASSUME FailsOnlyOnReported, [Next]_vars, pc' = "failed"
               PROVE  FailsOnlyOnReported'
    BY DEF FailsOnlyOnReported
  <2>1. CASE ReadCloudFails
    BY <2>1 DEF ReadCloudFails, FailsOnlyOnReported
  <2>2. CASE IndexFileFails
    <3>1. UNCHANGED <<indexed, keyRows, file, attempt>>
      BY <2>2 DEF IndexFileFails
    <3>2. RefersToKnown' = RefersToKnown /\ Previous' = Previous
      BY <3>1 DEF RefersToKnown, Previous
    <3>3. validateTrieOperations(file, Previous)' = validateTrieOperations(file, Previous)
      BY <3>1, <3>2 DEF validateTrieOperations, diffTrieOpsCore, Snapshot, LastValue
    <3>4. ~RefersToKnown \/ Undeletable(file) # {}
      BY <2>2 DEF IndexFileFails
    <3>5. ASSUME NEW k \in Undeletable(file) PROVE ~validateTrieOperations(file, Previous)
      <4>1. k \in file.ops.del /\ Previous[k] = NULL
        BY DEF Undeletable, DeleteKeys
      <4>2. k \notin diffTrieOpsCore(file.data, Previous).del
        BY <4>1 DEF diffTrieOpsCore
      <4> QED
        BY <4>1, <4>2 DEF validateTrieOperations
    <3> QED
      BY <3>2, <3>3, <3>4, <3>5 DEF FailsOnlyOnReported
  <2>3. CASE UNCHANGED vars
    BY <2>3 DEF vars, FailsOnlyOnReported, validateTrieOperations, Previous, RefersToKnown
  <2>4. ASSUME Next, ~ReadCloudFails, ~IndexFileFails PROVE FALSE
    BY <2>4 DEF Next, ReceiveTx, SkipTx, ReadCloud, IndexFile, Rollback, Restart
  <2> QED
    BY <2>1, <2>2, <2>3, <2>4
<1> QED
  BY <1>1, <1>2, PTL DEF Spec

\* The waits between attempts never shrink and never exceed the maximum, for
\* any configuration, until the doubled delay is no Duration any more.
THEOREM BackoffIsMonotone == Spec => BackoffGrows
<1> DEFINE Grows == ReadCloudFails /\ pc' = "fetching" =>
                      \/ wait' \in wait .. RetryMaxDelay
                      \/ Doubled[attempt'] > MaxDuration /\ wait' = -MaxDuration
<1>1. FileInv => Grows
  <2> SUFFICES ASSUME FileInv, ReadCloudFails, pc' = "fetching" PROVE Grows
    OBVIOUS
  <2>1. /\ attempt \in Nat /\ attempt < RetryMaxAttempts /\ attempt' = attempt + 1
        /\ wait' \in Delay(attempt')
        /\ IF attempt = 0 THEN wait = 0 ELSE wait \in Delay(attempt)
    BY DEF FileInv, TypeOK, AttemptsCounted, ReadCloudFails
  <2>2. RetryMaxAttempts \in Nat /\ RetryMaxDelay \in 1 .. MaxDuration /\ MaxDuration \in Nat
    BY RetryAssumption
  <2>3. attempt' \in 1 .. RetryMaxAttempts /\ (attempt # 0 => attempt \in 1 .. RetryMaxAttempts)
    BY <2>1, <2>2
  <2> DEFINE d == Doubled[attempt]
             e == Doubled[attempt']
  <2>4. e \in Nat \ {0} /\ (attempt # 0 => d \in Nat /\ d <= e)
    <3>1. attempt # 0 => attempt' > 1 /\ attempt' - 1 = attempt
      BY <2>1
    <3> QED
      BY <2>3, <3>1, DoubledGrows
  <2>5. /\ wait' \in -MaxDuration .. RetryMaxDelay
        /\ e <= MaxDuration => wait' = IF e > RetryMaxDelay THEN RetryMaxDelay ELSE e
        /\ e > MaxDuration => wait' \in {RetryMaxDelay, -MaxDuration}
    BY <2>1, <2>3, DelayIs
  <2>6. /\ wait \in -MaxDuration .. RetryMaxDelay
        /\ attempt # 0 /\ d <= MaxDuration =>
             wait = IF d > RetryMaxDelay THEN RetryMaxDelay ELSE d
    <3>1. CASE attempt = 0
      BY <2>1, <2>2, <3>1
    <3>2. CASE attempt # 0
      BY <2>1, <2>3, <3>2, DelayIs
    <3> QED
      BY <3>1, <3>2
  <2> HIDE DEF d, e
  <2>7. CASE e <= MaxDuration
    BY <2>1, <2>2, <2>4, <2>5, <2>6, <2>7
  <2>8. CASE e > MaxDuration
    BY <2>2, <2>4, <2>5, <2>6, <2>8 DEF e
  <2> QED
    BY <2>2, <2>4, <2>7, <2>8
<1>2. FileInv /\ [Next]_vars => [Grows]_vars
  BY <1>1
<1> QED
  BY FileInvHolds, <1>2, PTL DEF Spec, BackoffGrows
=============================================================================
