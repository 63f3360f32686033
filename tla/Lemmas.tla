-------------------------------- MODULE Lemmas --------------------------------
(***************************************************************************)
(* Facts about natural numbers and sequences that several proofs use.      *)
(*                                                                         *)
(* The induction theorems of the library take an operator as a parameter,  *)
(* which the provers cannot instantiate; induction is done here with the   *)
(* least element of the set of counterexamples (LeastNat).                 *)
(***************************************************************************)
EXTENDS SeqSelect, Integers, SequenceTheorems, WellFoundedInduction, TLAPS

\* A set of natural numbers that is not empty has a least element.
LEMMA LeastNat ==
  ASSUME NEW T, T \subseteq Nat, T # {}
  PROVE  \E n \in T : \A m \in T : n <= m
<1>1. IsWellFoundedOn(OpToRel(<, Nat), Nat)
  BY NatLessThanWellFounded
<1>2. PICK n \in T : \A m \in T : ~(<<m, n>> \in OpToRel(<, Nat))
  BY <1>1, WFMin, Zenon
<1>3. \A m \in T : ~(m < n)
  BY <1>2 DEF OpToRel
<1> QED
  BY <1>3

\* One that is bounded has a greatest element too.
LEMMA GreatestNat ==
  ASSUME NEW T, T \subseteq Nat, T # {}, NEW b \in Nat, \A n \in T : n <= b
  PROVE  \E n \in T : \A m \in T : m <= n
<1> DEFINE U == {d \in Nat : b - d \in T}
<1>1. U # {}
  <2>1. PICK n : n \in T
    OBVIOUS
  <2>2. b - n \in Nat /\ b - (b - n) = n
    BY <2>1
  <2> QED
    BY <2>1, <2>2
<1>2. PICK d \in U : \A e \in U : d <= e
  BY <1>1, LeastNat
<1>3. ASSUME NEW m \in T PROVE m <= b - d
  <2>1. m \in Nat /\ b - m \in Nat /\ b - (b - m) = m /\ d \in Nat
    OBVIOUS
  <2>2. b - m \in U
    BY <2>1
  <2>3. d <= b - m
    BY <1>2, <2>2
  <2> HIDE DEF U
  <2> QED
    BY <2>1, <2>3
<1> QED
  BY <1>2, <1>3

-----------------------------------------------------------------------------
(* Only.                                                                   *)

\* f solves the recursive definition of OnlyUpTo, up to length n.
SolvesOnly(f, s, S, n) ==
    f = [i \in 0 .. n |->
           IF i = 0 THEN <<>>
           ELSE IF s[i] \in S THEN Append(f[i - 1], s[i]) ELSE f[i - 1]]

LEMMA OnlyExists ==
  ASSUME NEW s, NEW S, NEW n \in Nat
  PROVE  \E f : SolvesOnly(f, s, S, n)
<1> USE DEF SolvesOnly
<1> DEFINE Solves(f, m) == SolvesOnly(f, s, S, m)
           Bad == {m \in Nat : ~ \E f : Solves(f, m)}
<1> SUFFICES Bad = {}
  OBVIOUS
<1> SUFFICES ASSUME Bad # {} PROVE FALSE
  OBVIOUS
<1>1. PICK m \in Bad : \A k \in Bad : m <= k
  BY LeastNat
<1>2. m # 0
  <2> DEFINE g == [i \in 0 .. 0 |-> <<>>]
  <2>1. Solves(g, 0)
    OBVIOUS
  <2> QED
    BY <2>1
<1>3. m - 1 \in Nat /\ m - 1 \notin Bad
  <2>1. m \in Nat
    BY <1>1
  <2> HIDE DEF Bad
  <2> QED
    BY <1>1, <1>2, <2>1
<1>4. PICK f : Solves(f, m - 1)
  BY <1>3
<1> DEFINE last == IF s[m] \in S THEN Append(f[m - 1], s[m]) ELSE f[m - 1]
           g == [i \in 0 .. m |-> IF i = m THEN last ELSE f[i]]
<1>5. \A i \in 0 .. m - 1 : g[i] = f[i]
  BY <1>1
<1>6. ASSUME NEW i \in 0 .. m
      PROVE  g[i] = IF i = 0 THEN <<>>
                    ELSE IF s[i] \in S THEN Append(g[i - 1], s[i]) ELSE g[i - 1]
  <2>1. CASE i = m
    <3>1. g[i - 1] = f[i - 1]
      BY <2>1, <1>3, <1>5
    <3> QED
      BY <2>1, <3>1, <1>2
  <2>2. CASE i # m
    <3>1. i \in 0 .. m - 1 /\ g[i] = f[i] /\ (i # 0 => i - 1 \in 0 .. m - 1)
      BY <2>2, <1>3, <1>5
    <3>2. i # 0 => g[i - 1] = f[i - 1]
      BY <3>1, <1>5
    <3>3. f[i] = IF i = 0 THEN <<>>
                 ELSE IF s[i] \in S THEN Append(f[i - 1], s[i]) ELSE f[i - 1]
      BY <1>4, <3>1
    <3> HIDE DEF g, Solves
    <3> QED
      BY <3>1, <3>2, <3>3
  <2> QED
    BY <2>1, <2>2
<1>7. Solves(g, m)
  <2> DEFINE h == [i \in 0 .. m |->
                     IF i = 0 THEN <<>>
                     ELSE IF s[i] \in S THEN Append(g[i - 1], s[i]) ELSE g[i - 1]]
  <2>1. \A i \in 0 .. m : g[i] = h[i]
    BY <1>6
  <2>2. g = [i \in 0 .. m |-> g[i]] /\ h = [i \in 0 .. m |-> h[i]]
    OBVIOUS
  <2> HIDE DEF g
  <2>3. g = h
    BY <2>1, <2>2
  <2> QED
    BY <2>3
<1> QED
  BY <1>1, <1>7

\* Its value at every length.
LEMMA OnlyUpToDef ==
  ASSUME NEW T, NEW s \in Seq(T), NEW S
  PROVE  /\ OnlyUpTo(s, S)[0] = <<>>
         /\ \A i \in 1 .. Len(s) :
               OnlyUpTo(s, S)[i] = IF s[i] \in S THEN Append(OnlyUpTo(s, S)[i - 1], s[i])
                                   ELSE OnlyUpTo(s, S)[i - 1]
<1> DEFINE f == OnlyUpTo(s, S)
<1>1. Len(s) \in Nat
  OBVIOUS
<1>2. f = [i \in 0 .. Len(s) |->
             IF i = 0 THEN <<>>
             ELSE IF s[i] \in S THEN Append(f[i - 1], s[i]) ELSE f[i - 1]]
  <2>1. \E h : SolvesOnly(h, s, S, Len(s))
    BY <1>1, OnlyExists
  <2> QED
    BY <2>1, Zenon DEF OnlyUpTo, SolvesOnly
<1> HIDE DEF f
<1>3. \A i \in 0 .. Len(s) : f[i] = IF i = 0 THEN <<>>
             ELSE IF s[i] \in S THEN Append(f[i - 1], s[i]) ELSE f[i - 1]
  BY <1>2
<1> QED
  BY <1>1, <1>3 DEF f

\* Induction along the sequence: what holds at 0 and is passed on from each
\* length to the next holds at all of them.  Holds is the set of the lengths
\* at which it does.
LEMMA LengthInduction ==
  ASSUME NEW n \in Nat, NEW Holds, 0 \in Holds,
         \A i \in 1 .. n : i - 1 \in Holds => i \in Holds
  PROVE  0 .. n \subseteq Holds
<1> DEFINE Bad == {i \in 0 .. n : i \notin Holds}
<1> SUFFICES ASSUME Bad # {} PROVE FALSE
  OBVIOUS
<1>1. PICK m \in Bad : \A k \in Bad : m <= k
  <2>1. Bad \subseteq Nat
    OBVIOUS
  <2> HIDE DEF Bad
  <2> QED
    BY <2>1, LeastNat
<1>2. m \in 1 .. n /\ m - 1 \in 0 .. n
  BY <1>1
<1>3. m - 1 \notin Bad
  <2> HIDE DEF Bad
  <2> QED
    BY <1>1, <1>2
<1> QED
  BY <1>1, <1>2, <1>3

LEMMA OnlyEmpty ==
  ASSUME NEW S
  PROVE  Only(<<>>, S) = <<>>
<1>1. PICK T, s : s = <<>> /\ s \in Seq(T)
  <2>1. <<>> \in Seq({})
    OBVIOUS
  <2> QED
    BY <2>1, Zenon
<1>2. OnlyUpTo(s, S)[0] = <<>>
  <2>1. s \in Seq(T)
    BY <1>1
  <2> QED
    BY <2>1, OnlyUpToDef
<1>3. Len(s) = 0
  BY <1>1
<1> QED
  BY <1>1, <1>2, <1>3, Zenon DEF Only

\* A row that is appended is kept or not, behind the ones before it.
LEMMA OnlyAppend ==
  ASSUME NEW T, NEW s \in Seq(T), NEW e \in T, NEW S
  PROVE  Only(Append(s, e), S) = IF e \in S THEN Append(Only(s, S), e) ELSE Only(s, S)
<1> DEFINE a == Append(s, e)
           f == OnlyUpTo(s, S)
           g == OnlyUpTo(a, S)
           n == Len(s)
           Holds == {i \in 0 .. n : g[i] = f[i]}
<1>1. n \in Nat /\ a \in Seq(T) /\ Len(a) = n + 1 /\ a[n + 1] = e
  OBVIOUS
<1>2. \A i \in 1 .. n : a[i] = s[i]
  OBVIOUS
<1> HIDE DEF a, n
<1>3. f[0] = <<>> /\ g[0] = <<>>
  BY <1>1, OnlyUpToDef
<1>4. \A i \in 1 .. n : f[i] = IF s[i] \in S THEN Append(f[i - 1], s[i]) ELSE f[i - 1]
  BY OnlyUpToDef DEF n
<1>5. \A i \in 1 .. n + 1 : g[i] = IF a[i] \in S THEN Append(g[i - 1], a[i]) ELSE g[i - 1]
  BY <1>1, OnlyUpToDef
<1> HIDE DEF f, g
<1>6. 0 \in Holds
  BY <1>1, <1>3
<1>7. \A i \in 1 .. n : i - 1 \in Holds => i \in Holds
  BY <1>1, <1>2, <1>4, <1>5
<1>8. n \in Holds
  <2> HIDE DEF Holds
  <2>1. 0 .. n \subseteq Holds
    BY <1>1, <1>6, <1>7, LengthInduction
  <2> QED
    BY <1>1, <2>1
<1>9. g[n + 1] = IF e \in S THEN Append(f[n], e) ELSE f[n]
  BY <1>1, <1>5, <1>8
<1> QED
  BY <1>1, <1>9 DEF Only, a, f, g, n

\* What is kept is in S, and in the order of a sequence of its own.
LEMMA OnlyType ==
  ASSUME NEW T, NEW s \in Seq(T), NEW S
  PROVE  Only(s, S) \in Seq(T \cap S) /\ Only(s, S) \in Seq(T)
<1> DEFINE f == OnlyUpTo(s, S)
           n == Len(s)
           Holds == {i \in 0 .. n : f[i] \in Seq(T \cap S)}
<1>1. n \in Nat /\ \A i \in 1 .. n : s[i] \in T
  OBVIOUS
<1>2. f[0] = <<>> /\ \A i \in 1 .. n :
          f[i] = IF s[i] \in S THEN Append(f[i - 1], s[i]) ELSE f[i - 1]
  BY OnlyUpToDef
<1> HIDE DEF f, n
<1>3. 0 \in Holds
  <2>1. <<>> \in Seq(T \cap S)
    OBVIOUS
  <2>2. f[0] \in Seq(T \cap S)
    BY <1>2, <2>1, Zenon
  <2>3. 0 \in 0 .. n
    BY <1>1
  <2> QED
    BY <2>2, <2>3
<1>4. ASSUME NEW i \in 1 .. n, i - 1 \in Holds PROVE i \in Holds
  <2>1. f[i - 1] \in Seq(T \cap S) /\ i \in 0 .. n
    BY <1>1, <1>4
  <2>2. CASE s[i] \in S
    <3>1. s[i] \in T \cap S
      BY <1>1, <2>2
    <3>2. f[i] = Append(f[i - 1], s[i])
      BY <1>2, <2>2
    <3>3. Append(f[i - 1], s[i]) \in Seq(T \cap S)
      BY <2>1, <3>1, AppendProperties
    <3> QED
      BY <2>1, <3>2, <3>3
  <2>3. CASE s[i] \notin S
    <3>1. f[i] = f[i - 1]
      BY <1>2, <2>3
    <3> QED
      BY <2>1, <3>1
  <2> QED
    BY <2>2, <2>3
<1>5. n \in Holds
  <2> HIDE DEF Holds
  <2>1. 0 .. n \subseteq Holds
    BY <1>1, <1>3, <1>4, LengthInduction
  <2> QED
    BY <1>1, <2>1
<1>6. Only(s, S) \in Seq(T \cap S)
  BY <1>5 DEF Only, f, n
<1>7. Seq(T \cap S) \subseteq Seq(T)
  BY SeqMonotonic
<1> QED
  BY <1>6, <1>7

\* Rows that all come before the others are a prefix.
LEMMA OnlyPrefix ==
  ASSUME NEW T, NEW s \in Seq(T), NEW S, NEW d \in 0 .. Len(s),
         \A i \in 1 .. d : s[i] \in S,
         \A i \in d + 1 .. Len(s) : s[i] \notin S
  PROVE  Only(s, S) = SubSeq(s, 1, d)
<1> DEFINE f == OnlyUpTo(s, S)
           n == Len(s)
           Cut(i) == SubSeq(s, 1, IF i <= d THEN i ELSE d)
           Holds == {i \in 0 .. n : f[i] = Cut(i)}
<1>1. n \in Nat /\ d \in Nat /\ d <= n
  OBVIOUS
<1>2. f[0] = <<>> /\ \A i \in 1 .. n :
          f[i] = IF s[i] \in S THEN Append(f[i - 1], s[i]) ELSE f[i - 1]
  BY OnlyUpToDef
<1>3. Cut(0) = <<>>
  BY <1>1
<1>4. ASSUME NEW i \in 1 .. n PROVE Cut(i) = IF i <= d THEN Append(Cut(i - 1), s[i]) ELSE Cut(i - 1)
  <2>1. CASE i <= d
    <3>1. SubSeq(s, 1, i) = Append(SubSeq(s, 1, i - 1), s[i])
      BY <1>1, <2>1, SubSeqRecursiveSecond
    <3>2. i - 1 <= d
      BY <1>1, <2>1
    <3> QED
      BY <2>1, <3>1, <3>2
  <2>2. CASE ~(i <= d)
    <3>1. i - 1 <= d => i - 1 = d
      BY <1>1, <2>2
    <3> QED
      BY <2>2, <3>1
  <2> QED
    BY <2>1, <2>2
<1>5. Cut(n) = SubSeq(s, 1, d)
  BY <1>1
<1> HIDE DEF f, n, Cut
<1>6. 0 \in Holds
  BY <1>1, <1>2, <1>3
<1>7. ASSUME NEW i \in 1 .. n, i - 1 \in Holds PROVE i \in Holds
  <2>1. i \in 0 .. n /\ (i <= d => i \in 1 .. d) /\ (~(i <= d) => i \in d + 1 .. n)
    BY <1>1
  <2>2. s[i] \in S <=> i <= d
    BY <2>1 DEF n
  <2> QED
    BY <1>2, <1>4, <1>7, <2>1, <2>2
<1>8. n \in Holds
  <2> HIDE DEF Holds
  <2>1. 0 .. n \subseteq Holds
    BY <1>1, <1>6, <1>7, LengthInduction
  <2> QED
    BY <1>1, <2>1
<1> QED
  BY <1>5, <1>8 DEF Only, f, n

\* Rows at the end that are all kept are at the end of what is kept.
LEMMA OnlyTail ==
  ASSUME NEW T, NEW s \in Seq(T), NEW S, NEW d \in 0 .. Len(s),
         \A i \in d + 1 .. Len(s) : s[i] \in S
  PROVE  LET k == Len(Only(s, S)) IN
         /\ k >= Len(s) - d
         /\ \A i \in d + 1 .. Len(s) : Only(s, S)[k - Len(s) + i] = s[i]
<1> DEFINE f == OnlyUpTo(s, S)
           n == Len(s)
           Kept(i) == /\ f[i] \in Seq(T)
                      /\ Len(f[i]) >= i - d
                      /\ \A j \in d + 1 .. i : f[i][Len(f[i]) - i + j] = s[j]
           Holds == {i \in 0 .. n : Kept(i)}
<1>1. n \in Nat /\ d \in Nat /\ d <= n /\ \A i \in 1 .. n : s[i] \in T
  OBVIOUS
<1>2. f[0] = <<>> /\ \A i \in 1 .. n :
          f[i] = IF s[i] \in S THEN Append(f[i - 1], s[i]) ELSE f[i - 1]
  BY OnlyUpToDef
<1> HIDE DEF f, n
<1>3. 0 \in Holds
  <2>1. <<>> \in Seq(T) /\ Len(<<>>) = 0
    OBVIOUS
  <2>2. f[0] \in Seq(T) /\ Len(f[0]) = 0
    BY <1>2, <2>1, Zenon
  <2>3. d + 1 .. 0 = {} /\ 0 >= 0 - d /\ 0 \in 0 .. n
    BY <1>1
  <2>4. Kept(0)
    BY <2>2, <2>3
  <2> QED
    BY <2>3, <2>4
<1>4. ASSUME NEW i \in 1 .. n, i - 1 \in Holds PROVE i \in Holds
  <2> DEFINE g == f[i - 1]
             k == Len(g)
  <2>1. /\ g \in Seq(T) /\ k \in Nat /\ k >= (i - 1) - d
        /\ \A j \in d + 1 .. i - 1 : g[k - (i - 1) + j] = s[j]
    BY <1>4
  <2>2. i \in 0 .. n /\ s[i] \in T
    BY <1>1
  <2>3. CASE i <= d
    <3>1. f[i] \in Seq(T)
      <4>1. Append(g, s[i]) \in Seq(T)
        BY <2>1, <2>2, AppendProperties
      <4>2. f[i] = Append(g, s[i]) \/ f[i] = g
        BY <1>2
      <4> HIDE DEF g
      <4> QED
        BY <2>1, <4>1, <4>2
    <3>2. Len(f[i]) \in Nat
      BY <3>1
    <3> QED
      BY <1>1, <2>2, <2>3, <3>1, <3>2
  <2>4. CASE i > d
    <3>1. s[i] \in S
      BY <1>1, <2>4 DEF n
    <3>2. f[i] = Append(g, s[i])
      BY <1>2, <3>1
    <3>3. /\ f[i] \in Seq(T) /\ Len(f[i]) = k + 1 /\ f[i][k + 1] = s[i]
          /\ \A m \in 1 .. k : f[i][m] = g[m]
      BY <2>1, <2>2, <3>2
    <3>4. ASSUME NEW j \in d + 1 .. i PROVE f[i][(k + 1) - i + j] = s[j]
      <4> HIDE DEF k, g
      <4>1. CASE j = i
        <5>1. (k + 1) - i + j = k + 1
          BY <2>1, <4>1, <1>1
        <5> QED
          BY <3>3, <4>1, <5>1
      <4>2. CASE j # i
        <5>1. j \in d + 1 .. i - 1
          BY <1>1, <4>2
        <5>2. (k + 1) - i + j = k - (i - 1) + j /\ k - (i - 1) + j \in 1 .. k
          BY <1>1, <2>1, <5>1
        <5> QED
          BY <2>1, <3>3, <5>1, <5>2
      <4> QED
        BY <4>1, <4>2
    <3>5. k + 1 >= i - d
      <4> HIDE DEF k, g
      <4> QED
        BY <1>1, <2>1
    <3> QED
      BY <2>2, <3>3, <3>4, <3>5
  <2> QED
    BY <1>1, <2>3, <2>4
<1>5. n \in Holds
  <2> HIDE DEF Holds
  <2>1. 0 .. n \subseteq Holds
    BY <1>1, <1>3, <1>4, LengthInduction
  <2> QED
    BY <1>1, <2>1
<1> QED
  BY <1>5 DEF Only, f, n

\* What a concatenation holds, by the places in its parts.
LEMMA ConcatParts ==
  ASSUME NEW T, NEW s \in Seq(T), NEW r \in Seq(T), NEW c, c = s \o r
  PROVE  /\ c \in Seq(T) /\ Len(c) = Len(s) + Len(r)
         /\ \A i \in 1 .. Len(s) : c[i] = s[i]
         /\ \A i \in 1 .. Len(r) : c[Len(s) + i] = r[i]
<1>1. Len(s) \in Nat /\ Len(r) \in Nat
  OBVIOUS
<1>2. /\ s \o r \in Seq(T) /\ Len(s \o r) = Len(s) + Len(r)
      /\ \A i \in 1 .. Len(s) + Len(r) :
            (s \o r)[i] = IF i <= Len(s) THEN s[i] ELSE r[i - Len(s)]
  BY ConcatProperties, Zenon
<1>3. /\ c \in Seq(T) /\ Len(c) = Len(s) + Len(r)
      /\ \A i \in 1 .. Len(s) + Len(r) : c[i] = IF i <= Len(s) THEN s[i] ELSE r[i - Len(s)]
  BY <1>2
<1> QED
  BY <1>1, <1>3

\* The first message or event of a queue, and what is left without it.
LEMMA HeadTail ==
  ASSUME NEW T, NEW s \in Seq(T), s # <<>>
  PROVE  /\ Head(s) \in T /\ Tail(s) \in Seq(T) /\ Len(Tail(s)) = Len(s) - 1 /\ Len(s) > 0
         /\ Head(s) = s[1] /\ Len(s) \in Nat
         /\ \A i \in 1 .. Len(s) - 1 : Tail(s)[i] = s[i + 1]
OBVIOUS
=============================================================================
