------------------------ MODULE StrategyManagerProofs ------------------------
(***************************************************************************)
(* Proofs about StrategyManager: the circuit breaker for every threshold   *)
(* and window, and what a restart leaves of the cursor, with any number of *)
(* messages on their way and whatever call fails.                          *)
(***************************************************************************)
EXTENDS StrategyManager, Lemmas

-----------------------------------------------------------------------------
(* Types.                                                                  *)

\* A restart under way has been decided.
Decided == pc # "idle" => restarts # <<>>

ManagerInv == TypeOK /\ Decided

LEMMA ManagerInit == Init => ManagerInv
<1> SUFFICES ASSUME Init PROVE ManagerInv
  OBVIOUS
<1>1. 0 \in Slots /\ 0 \in Times /\ 0 \in 0 .. MismatchLimit /\ 0 \in 0 .. MaxRequests
        /\ 0 < RestartThreshold
  BY ManagerBounds DEF Slots, Times
<1>2. [kind |-> "load"] \in Message /\ [kind |-> "rollback", slot |-> 0] \in Message
  BY <1>1 DEF Message, Event
<1>3. mailbox \in Seq(Message)
  BY <1>2 DEF Init
<1>4. Len(<<>>) = 0 /\ \A T : <<>> \in Seq(T)
  OBVIOUS
<1> QED
  BY <1>1, <1>3, <1>4, Zenon DEF Init, ManagerInv, TypeOK, Decided

LEMMA CutType ==
  ASSUME TypeOK, NEW slot \in Slots
  PROVE  /\ CursorUpTo(slot) \in Seq(Slots)
         /\ \A i \in 1 .. Len(CursorUpTo(slot)) : CursorUpTo(slot)[i] <= slot
<1>1. cursor \in Seq(Slots)
  BY DEF TypeOK
<1>2. CursorUpTo(slot) \in Seq(Slots) /\ CursorUpTo(slot) \in Seq(Slots \cap 0 .. slot)
  BY <1>1, OnlyType DEF CursorUpTo
<1>3. \A i \in 1 .. Len(CursorUpTo(slot)) : CursorUpTo(slot)[i] \in 0 .. slot
  BY <1>2, ElementOfSeq
<1>4. \A n \in 0 .. slot : n <= slot
  BY ManagerBounds DEF Slots
<1> QED
  BY <1>2, <1>3, <1>4

LEMMA RestartSlotType ==
  ASSUME TypeOK, restarts # <<>>
  PROVE  restartSlot \in Slots
<1>1. restarts \in Seq(Restart) /\ Len(restarts) \in 1 .. Len(restarts)
  BY DEF TypeOK
<1>2. restarts[Len(restarts)] \in Restart
  BY <1>1, ElementOfSeq
<1> QED
  BY <1>2 DEF restartSlot, Last, Restart

LEMMA LatestCursorType ==
  ASSUME TypeOK
  PROVE  LatestCursor \in Slots
<1>1. cursor \in Seq(Slots) /\ (cursor # <<>> => Len(cursor) \in 1 .. Len(cursor))
  BY DEF TypeOK
<1>2. cursor # <<>> => cursor[Len(cursor)] \in Slots
  BY <1>1, ElementOfSeq
<1>3. 0 \in Slots
  BY ManagerBounds DEF Slots
<1> QED
  BY <1>2, <1>3 DEF LatestCursor, Last

LEMMA RecordType ==
  ASSUME TypeOK
  PROVE  WithRecord \in Seq(Times) /\ Len(WithRecord) \in Nat
<1>1. Append(restartHistory, now) \in Seq(Times)
  BY DEF TypeOK
<1>2. WithRecord \in Seq(Times)
  BY <1>1, OnlyType DEF WithRecord
<1> QED
  BY <1>2

LEMMA ManagerStep == ManagerInv /\ [Next]_vars => ManagerInv'
<1> SUFFICES ASSUME ManagerInv, [Next]_vars PROVE ManagerInv'
  OBVIOUS
<1>0. TypeOK /\ Decided
  BY DEF ManagerInv
<1>b. /\ MaxSlot \in Nat /\ MaxTime \in Nat /\ MaxRequests \in Nat /\ MismatchLimit \in Nat \ {0}
      /\ RestartThreshold \in Nat \ {0}
  BY ManagerBounds
<1> USE DEF historyVars, strategyVars
<1>1. CASE Tick
  BY <1>0, <1>b, <1>1 DEF Tick, ManagerInv, TypeOK, Decided, Times
<1>2. CASE StreamBlock
  <2>1. position' \in Slots
    BY <1>0, <1>b, <1>2 DEF StreamBlock, TypeOK, Slots
  <2>2. [kind |-> "block", slot |-> position'] \in Message
    BY <2>1 DEF Message, Event
  <2>3. mailbox' \in Seq(Message)
    BY <1>0, <1>2, <2>2 DEF StreamBlock, TypeOK
  <2> QED
    BY <1>0, <1>2, <2>1, <2>3 DEF StreamBlock, ManagerInv, TypeOK, Decided
<1>3. CASE Strategy
  <2>1. ASSUME HandleBlock
        PROVE  inbox' \in Seq(Event) /\ lastIndexed' \in Slots /\ cursor' \in Seq(Slots)
    <3>1. inbox \in Seq(Event) /\ inbox # <<>> /\ cursor \in Seq(Slots)
      BY <1>0, <2>1 DEF HandleBlock, TypeOK
    <3>2. Head(inbox) \in Event /\ Tail(inbox) \in Seq(Event)
      BY <3>1, HeadTail
    <3>3. Head(inbox).slot \in Slots
      BY <3>2 DEF Event
    <3> QED
      BY <2>1, <3>1, <3>2, <3>3 DEF HandleBlock
  <2>2. CASE PassBlock
    BY <1>0, <2>1, <2>2 DEF PassBlock, HandleBlock, ManagerInv, TypeOK, Decided
  <2>3. CASE RootsAgree
    BY <1>0, <1>b, <2>1, <2>3 DEF RootsAgree, HandleBlock, ManagerInv, TypeOK, Decided
  <2>4. CASE RootMismatch
    <3>1. mismatches' \in 0 .. MismatchLimit
      BY <1>0, <1>b, <2>4 DEF RootMismatch, TypeOK
    <3> QED
      BY <1>0, <2>1, <2>4, <3>1 DEF RootMismatch, HandleBlock, ManagerInv, TypeOK, Decided
  <2>5. CASE TriggerIndexerRestart
    <3>1. mismatches' \in 0 .. MismatchLimit /\ asked' \in 0 .. MaxRequests
      BY <1>0, <1>b, <2>5 DEF TriggerIndexerRestart, TypeOK
    <3>2. [kind |-> "restart", slot |-> lastIndexed] \in Message
      BY <1>0 DEF TypeOK, Message
    <3>3. mailbox' \in Seq(Message)
      BY <1>0, <2>5, <3>2 DEF TriggerIndexerRestart, TypeOK
    <3> QED
      BY <1>0, <2>1, <2>5, <3>1, <3>3 DEF TriggerIndexerRestart, HandleBlock, ManagerInv, TypeOK, Decided
  <2>6. CASE HandleRollback
    <3>1. inbox \in Seq(Event) /\ inbox # <<>>
      BY <1>0, <2>6 DEF HandleRollback, TypeOK
    <3>2. Head(inbox) \in Event /\ Tail(inbox) \in Seq(Event)
      BY <3>1, HeadTail
    <3>3. Head(inbox).slot \in Slots
      BY <3>2 DEF Event
    <3>4. cursor' \in Seq(Slots)
      BY <1>0, <2>6, <3>3, CutType DEF HandleRollback
    <3> QED
      BY <1>0, <2>6, <3>2, <3>4 DEF HandleRollback, ManagerInv, TypeOK, Decided
  <2> QED
    BY <1>3, <2>2, <2>3, <2>4, <2>5, <2>6 DEF Strategy
<1>4. ASSUME NEW kind, Receives(kind)
      PROVE  Head(mailbox) \in Message /\ Head(mailbox).kind = kind /\ mailbox' \in Seq(Message)
  <2>1. mailbox \in Seq(Message) /\ mailbox # <<>>
    BY <1>0, <1>4 DEF Receives, TypeOK
  <2> QED
    BY <1>4, <2>1, HeadTail DEF Receives
<1>5. CASE Forward
  <2>1. mailbox' \in Seq(Message) /\ Head(mailbox) \in Event
    <3>1. \/ Head(mailbox) \in Message /\ Head(mailbox).kind = "block"
          \/ Head(mailbox) \in Message /\ Head(mailbox).kind = "rollback"
      BY <1>4, <1>5 DEF Forward
    <3>2. Head(mailbox) \in Event
      BY <3>1 DEF Message, Event
    <3> QED
      BY <1>4, <1>5, <3>2 DEF Forward
  <2>2. inbox' \in Seq(Event)
    BY <1>0, <1>5, <2>1 DEF Forward, TypeOK
  <2> QED
    BY <1>0, <1>5, <2>1, <2>2 DEF Forward, ManagerInv, TypeOK, Decided
<1>6. CASE LoadStrategy
  <2>1. mailbox' \in Seq(Message)
    BY <1>4, <1>6 DEF LoadStrategy
  <2> QED
    BY <1>0, <1>6, <2>1 DEF LoadStrategy, ManagerInv, TypeOK, Decided
<1>7. CASE BeginRestart
  <2>1. mailbox' \in Seq(Message) /\ Head(mailbox).slot \in Slots
    <3>1. Head(mailbox) \in Message /\ Head(mailbox).kind = "restart"
      BY <1>4, <1>7 DEF BeginRestart
    <3> QED
      BY <1>4, <1>7, <3>1 DEF BeginRestart, Message, Event
  <2>2. WithRecord \in Seq(Times) /\ Len(WithRecord) \in Nat
    BY <1>0, RecordType
  <2>3. restartHistory' \in Seq(Times) /\ Len(restartHistory') < RestartThreshold
    <3>1. CASE ShouldDoFullReset
      <4>1. restartHistory' = <<>>
        BY <1>7, <3>1 DEF BeginRestart
      <4>2. <<>> \in Seq(Times) /\ Len(<<>>) = 0
        OBVIOUS
      <4> QED
        BY <1>b, <4>1, <4>2
    <3>2. CASE ~ShouldDoFullReset
      BY <1>7, <1>b, <2>2, <3>2 DEF BeginRestart, ShouldDoFullReset
    <3> QED
      BY <3>1, <3>2
  <2> DEFINE r == [full |-> ShouldDoFullReset, at |-> now,
                   slot |-> IF ShouldDoFullReset THEN 0 ELSE Head(mailbox).slot]
  <2>4. r \in Restart
    <3>1. 0 \in Slots /\ now \in Times /\ ShouldDoFullReset \in BOOLEAN
      BY <1>0, <1>b DEF TypeOK, Slots, ShouldDoFullReset
    <3> QED
      BY <2>1, <3>1 DEF Restart
  <2>5. restarts' \in Seq(Restart) /\ restarts' # <<>>
    <3>1. restarts' = Append(restarts, r) /\ restarts \in Seq(Restart)
      BY <1>0, <1>7 DEF BeginRestart, TypeOK
    <3> HIDE DEF r
    <3> QED
      BY <2>4, <3>1
  <2> QED
    BY <1>0, <1>7, <2>1, <2>3, <2>5 DEF BeginRestart, ManagerInv, TypeOK, Decided
<1>8. CASE StrategyStopped
  BY <1>0, <1>8 DEF StrategyStopped, ManagerInv, TypeOK, Decided
<1>9. CASE RollbackCursor
  <2>1. cursor' \in Seq(Slots)
    BY <1>0, <1>9, RestartSlotType, CutType DEF RollbackCursor, Decided
  <2> QED
    BY <1>0, <1>9, <2>1 DEF RollbackCursor, ManagerInv, TypeOK, Decided
<1>10. CASE RollbackCursorFails
  BY <1>0, <1>10 DEF RollbackCursorFails, ManagerInv, TypeOK, Decided
<1>11. CASE StopIndexer
  BY <1>0, <1>11 DEF StopIndexer, ManagerInv, TypeOK, Decided
<1>12. CASE StartIndexer
  <2>1. position' \in Slots
    BY <1>0, <1>12, LatestCursorType DEF StartIndexer
  <2>2. [kind |-> "rollback", slot |-> position'] \in Message
    BY <2>1 DEF Message, Event
  <2>3. mailbox' \in Seq(Message)
    BY <1>0, <1>12, <2>2 DEF StartIndexer, TypeOK
  <2> QED
    BY <1>0, <1>12, <2>1, <2>3 DEF StartIndexer, ManagerInv, TypeOK, Decided
<1>13. CASE StartIndexerFails
  BY <1>0, <1>13 DEF StartIndexerFails, ManagerInv, TypeOK, Decided
<1>14. CASE StartStrategy
  <2>1. restartSlot \in Slots
    BY <1>0, <1>14, RestartSlotType DEF StartStrategy, Decided
  <2> QED
    BY <1>0, <1>b, <1>14, <2>1 DEF StartStrategy, ManagerInv, TypeOK, Decided
<1>15. CASE UNCHANGED vars
  BY <1>0, <1>15 DEF vars, ManagerInv, TypeOK, Decided
<1> QED
  BY <1>1, <1>2, <1>3, <1>5, <1>6, <1>7, <1>8, <1>9, <1>10, <1>11, <1>12, <1>13, <1>14, <1>15
     DEF Next, Manager

LEMMA ManagerInvHolds == Spec => []ManagerInv
BY ManagerInit, ManagerStep, PTL DEF Spec

\* The state of the manager, the indexer and the strategy has its types, and
\* the history of restarts is always shorter than the threshold.
THEOREM ManagerTypeCorrect == Spec => []TypeOK
<1>1. ManagerInv => TypeOK
  BY DEF ManagerInv
<1> QED
  BY ManagerInvHolds, <1>1, PTL

-----------------------------------------------------------------------------
(* The cursor during a restart.                                            *)

\* The old strategy has stopped before the cursor is cut.
StoppedFirst == pc = "cursor" => "strategy" \notin running

\* From the cut of the cursor to the spawn of the fresh strategy nobody moves
\* the cursor and no point is past the restart slot, whatever is on its way
\* and whichever call fails.
THEOREM RestartPointIsSafe == Spec => []NothingPastRestartPoint
<1> DEFINE Inv == NothingPastRestartPoint /\ StoppedFirst
<1>1. Init => Inv
  BY DEF Init, NothingPastRestartPoint, StoppedFirst
<1>2. ManagerInv /\ Inv /\ [Next]_vars => Inv'
  <2> SUFFICES ASSUME ManagerInv, Inv, [Next]_vars PROVE Inv'
    OBVIOUS
  <2> USE DEF historyVars, strategyVars, NothingPastRestartPoint, StoppedFirst
  <2>1. CASE Tick
    BY <2>1 DEF Tick, restartSlot
  <2>2. CASE StreamBlock
    BY <2>2 DEF StreamBlock, restartSlot
  <2>3. CASE Strategy
    BY <2>3 DEF Strategy, PassBlock, RootsAgree, RootMismatch, TriggerIndexerRestart,
                HandleBlock, HandleRollback, restartSlot
  <2>4. CASE Forward
    BY <2>4 DEF Forward, Receives, restartSlot
  <2>5. CASE LoadStrategy
    BY <2>5 DEF LoadStrategy, Receives, restartSlot
  <2>6. CASE BeginRestart
    BY <2>6 DEF BeginRestart, Receives
  <2>7. CASE StrategyStopped
    BY <2>7 DEF StrategyStopped
  <2>8. CASE RollbackCursor
    <3>1. restartSlot \in Slots /\ TypeOK
      BY <2>8, RestartSlotType DEF RollbackCursor, ManagerInv, Decided
    <3>2. \A i \in 1 .. Len(cursor') : cursor'[i] <= restartSlot
      BY <2>8, <3>1, CutType DEF RollbackCursor
    <3>3. restartSlot' = restartSlot
      BY <2>8 DEF RollbackCursor, restartSlot
    <3> QED
      BY <2>8, <3>2, <3>3 DEF RollbackCursor
  <2>9. CASE RollbackCursorFails
    BY <2>9 DEF RollbackCursorFails
  <2>10. CASE StopIndexer
    BY <2>10 DEF StopIndexer, restartSlot
  <2>11. CASE StartIndexer
    BY <2>11 DEF StartIndexer, restartSlot
  <2>12. CASE StartIndexerFails
    BY <2>12 DEF StartIndexerFails, restartSlot
  <2>13. CASE StartStrategy
    BY <2>13 DEF StartStrategy
  <2>14. CASE UNCHANGED vars
    BY <2>14 DEF vars, restartSlot
  <2> QED
    BY <2>1, <2>2, <2>3, <2>4, <2>5, <2>6, <2>7, <2>8, <2>9, <2>10, <2>11, <2>12, <2>13, <2>14
       DEF Next, Manager
<1>3. Spec => []Inv
  BY <1>1, <1>2, ManagerInvHolds, PTL DEF Spec
<1> QED
  BY <1>3, PTL

-----------------------------------------------------------------------------
(* The circuit breaker.                                                    *)

\* Restarts happen in the order of their times.
TimesGrow ==
    \A i, j \in 1 .. Len(restarts) : i <= j => restarts[i].at <= restarts[j].at

InThePast == \A i \in 1 .. Len(restarts) : restarts[i].at <= now

\* The restarts from the i-th on are at the end of the history.
Recorded(i) ==
    LET n == Len(restarts)
        h == Len(restartHistory)
    IN h >= n - i + 1 /\ \A m \in i .. n : restartHistory[h - n + m] = restarts[m].at

\* The history forgets a restart only when a full reset has followed it or
\* it has left the window.
HistoryIsRecent ==
    \A i \in 1 .. Len(restarts) :
        restarts[i].at + RestartTimeWindow > now
            /\ (\A m \in i .. Len(restarts) : ~restarts[m].full)
          => Recorded(i)

BreakerInv == BreakerTrips /\ TimesGrow /\ InThePast /\ HistoryIsRecent

\* The history with the record of a restart that is decided now.
LEMMA RecordKeepsRecent ==
  ASSUME ManagerInv, BreakerInv, NEW i \in 1 .. Len(restarts),
         restarts[i].at + RestartTimeWindow > now,
         \A m \in i .. Len(restarts) : ~restarts[m].full
  PROVE  LET n == Len(restarts)
             k == Len(WithRecord)
         IN /\ k >= n - i + 2
            /\ WithRecord[k] = now
            /\ \A m \in i .. n : WithRecord[k - (n + 1) + m] = restarts[m].at
<1> DEFINE n == Len(restarts)
           h == Len(restartHistory)
           s == Append(restartHistory, now)
           S == {t \in Times : t + RestartTimeWindow > now}
           d == h - n + i - 1
<1>1. /\ restartHistory \in Seq(Times) /\ h \in Nat /\ n \in Nat /\ i \in 1 .. n
      /\ now \in Nat /\ now \in Times /\ RestartTimeWindow \in Nat \ {0}
  BY ManagerBounds, SMTT(30) DEF ManagerInv, TypeOK, Times
<1>2. \A m \in 1 .. n : restarts[m].at \in Nat /\ restarts[m].at \in Times
  <2>1. restarts \in Seq(Restart)
    BY DEF ManagerInv, TypeOK
  <2>2. \A m \in 1 .. n : restarts[m] \in Restart
    BY <2>1, ElementOfSeq
  <2> QED
    BY <2>2, ManagerBounds DEF Restart, Times
<1>3. h >= n - i + 1 /\ \A m \in i .. n : restartHistory[h - n + m] = restarts[m].at
  BY DEF BreakerInv, HistoryIsRecent, Recorded
<1>4. \A m \in i .. n : m \in 1 .. n /\ restarts[i].at <= restarts[m].at
  <2>1. \A m \in i .. n : m \in 1 .. n /\ i <= m
    BY <1>1
  <2> QED
    BY <2>1 DEF BreakerInv, TimesGrow
<1>5. s \in Seq(Times) /\ Len(s) = h + 1 /\ s[h + 1] = now /\ \A m \in 1 .. h : s[m] = restartHistory[m]
  BY <1>1
<1> HIDE DEF n, h, s
<1>6. d \in 0 .. Len(s)
  BY <1>1, <1>3, <1>5
<1>7. \A m \in i .. n : h - n + m \in 1 .. h /\ s[h - n + m] = restarts[m].at
  BY <1>1, <1>3, <1>5
<1>8. ASSUME NEW j \in d + 1 .. Len(s) PROVE s[j] \in S
  <2>1. CASE j = h + 1
    BY <1>1, <1>5, <2>1
  <2>2. CASE j # h + 1
    <3>1. j - h + n \in i .. n /\ h - n + (j - h + n) = j
      BY <1>1, <1>5, <1>6, <2>2
    <3>2. s[j] = restarts[j - h + n].at /\ restarts[i].at <= restarts[j - h + n].at
            /\ j - h + n \in 1 .. n
      BY <1>4, <1>7, <3>1
    <3>3. restarts[i].at + RestartTimeWindow > now
      OBVIOUS
    <3>4. s[j] \in Nat /\ s[j] \in Times /\ restarts[i].at \in Nat
      BY <1>1, <1>2, <3>2
    <3>5. s[j] + RestartTimeWindow > now
      <4> DEFINE a == restarts[i].at
                 b == s[j]
      <4>1. a \in Nat /\ b \in Nat /\ a <= b /\ a + RestartTimeWindow > now
        BY <3>2, <3>3, <3>4
      <4> HIDE DEF a, b
      <4>2. b + RestartTimeWindow > now
        BY <1>1, <4>1
      <4> QED
        BY <4>2 DEF b
    <3> QED
      BY <3>4, <3>5
  <2> QED
    BY <2>1, <2>2
<1> DEFINE o == Only(s, S)
           k == Len(o)
<1>9. k >= Len(s) - d /\ \A j \in d + 1 .. Len(s) : o[k - Len(s) + j] = s[j]
  <2> HIDE DEF d, S
  <2> QED
    BY <1>5, <1>6, <1>8, OnlyTail
<1>10. WithRecord = o
  BY DEF WithRecord, s
<1>11. k \in Nat
  BY <1>10, RecordType DEF ManagerInv
<1> HIDE DEF o, k, S
<1>12. k >= n - i + 2
  BY <1>1, <1>5, <1>9, <1>11
<1>13. o[k] = now
  <2>1. h + 1 \in d + 1 .. Len(s) /\ k - Len(s) + (h + 1) = k
    BY <1>1, <1>5, <1>6, <1>11
  <2> QED
    BY <1>5, <1>9, <2>1
<1>14. ASSUME NEW m \in i .. n PROVE o[k - (n + 1) + m] = restarts[m].at
  <2>1. h - n + m \in d + 1 .. Len(s) /\ k - Len(s) + (h - n + m) = k - (n + 1) + m
    BY <1>1, <1>5, <1>6, <1>11
  <2> QED
    BY <1>7, <1>9, <2>1
<1> QED
  BY <1>10, <1>12, <1>13, <1>14 DEF n, k

\* The restart that is decided now is recorded, if it is no full reset.
LEMMA RecordIsKept ==
  ASSUME ManagerInv
  PROVE  LET k == Len(WithRecord) IN k >= 1 /\ WithRecord[k] = now
<1> DEFINE h == Len(restartHistory)
           s == Append(restartHistory, now)
           S == {t \in Times : t + RestartTimeWindow > now}
<1>1. /\ h \in Nat /\ now \in Nat /\ now \in Times /\ RestartTimeWindow \in Nat \ {0}
      /\ s \in Seq(Times) /\ Len(s) = h + 1 /\ s[h + 1] = now
  BY ManagerBounds, SMTT(30) DEF ManagerInv, TypeOK, Times
<1>2. now \in S
  BY <1>1
<1> HIDE DEF h, s
<1>3. h \in 0 .. Len(s) /\ \A j \in h + 1 .. Len(s) : s[j] \in S
  BY <1>1, <1>2
<1> DEFINE o == Only(s, S)
           k == Len(o)
<1>4. k >= Len(s) - h /\ \A j \in h + 1 .. Len(s) : o[k - Len(s) + j] = s[j]
  <2> HIDE DEF S
  <2> QED
    BY <1>1, <1>3, OnlyTail
<1>5. WithRecord = o
  BY DEF WithRecord, s
<1>6. k \in Nat
  BY <1>5, RecordType DEF ManagerInv
<1> HIDE DEF o, k, S
<1>7. k >= 1 /\ h + 1 \in h + 1 .. Len(s) /\ k - Len(s) + (h + 1) = k
  BY <1>1, <1>4, <1>6
<1> QED
  BY <1>1, <1>4, <1>5, <1>7 DEF k

LEMMA BreakerStep == ManagerInv /\ BreakerInv /\ [Next]_vars => BreakerInv'
<1> SUFFICES ASSUME ManagerInv, BreakerInv, [Next]_vars PROVE BreakerInv'
  OBVIOUS
<1>b. /\ RestartThreshold \in Nat \ {0} /\ RestartTimeWindow \in Nat \ {0}
      /\ now \in Nat /\ restarts \in Seq(Restart) /\ Len(restarts) \in Nat
  BY ManagerBounds DEF ManagerInv, TypeOK, Times
<1>t. \A m \in 1 .. Len(restarts) : restarts[m] \in Restart /\ restarts[m].at \in Nat
  <2>1. \A m \in 1 .. Len(restarts) : restarts[m] \in Restart
    BY <1>b, ElementOfSeq
  <2> QED
    BY <2>1, ManagerBounds DEF Restart, Times
<1>1. CASE Tick
  <2>1. restarts' = restarts /\ restartHistory' = restartHistory /\ now' = now + 1
    BY <1>1 DEF Tick
  <2>2. BreakerTrips' /\ TimesGrow'
    BY <2>1 DEF BreakerInv, BreakerTrips, TimesGrow
  <2>3. InThePast'
    BY <1>b, <1>t, <2>1 DEF BreakerInv, InThePast
  <2>4. \A i \in 1 .. Len(restarts) : restarts[i].at + RestartTimeWindow > now'
                                        => restarts[i].at + RestartTimeWindow > now
    BY <1>b, <1>t, <2>1
  <2>5. HistoryIsRecent'
    BY <2>1, <2>4 DEF BreakerInv, HistoryIsRecent, Recorded
  <2> QED
    BY <2>2, <2>3, <2>5 DEF BreakerInv
<1>2. CASE BeginRestart
  <2> DEFINE n == Len(restarts)
             k == Len(WithRecord)
             r == [full |-> ShouldDoFullReset, at |-> now,
                   slot |-> IF ShouldDoFullReset THEN 0 ELSE Head(mailbox).slot]
  <2>1. /\ restarts' = Append(restarts, r) /\ now' = now
        /\ restartHistory' = IF ShouldDoFullReset THEN <<>> ELSE WithRecord
    BY <1>2 DEF BeginRestart
  <2>2. r.full = ShouldDoFullReset /\ r.at = now
    OBVIOUS
  <2>3. k \in Nat /\ n \in Nat /\ (ShouldDoFullReset <=> k >= RestartThreshold)
    BY <1>b, RecordType DEF ManagerInv, ShouldDoFullReset
  <2>4. k >= 1 /\ WithRecord[k] = now
    BY RecordIsKept
  <2>5. ASSUME NEW i \in 1 .. n, restarts[i].at + RestartTimeWindow > now,
               \A m \in i .. n : ~restarts[m].full
        PROVE  /\ k >= n - i + 2
               /\ \A m \in i .. n : WithRecord[k - (n + 1) + m] = restarts[m].at
    BY <2>5, RecordKeepsRecent
  <2> HIDE DEF r, k
  <2>6. /\ Len(restarts') = n + 1 /\ restarts'[n + 1] = r
        /\ \A m \in 1 .. n : restarts'[m] = restarts[m]
    <3>1. restarts \in Seq(Restart \cup {r}) /\ r \in Restart \cup {r}
      BY <1>b, SeqMonotonic
    <3> QED
      BY <2>1, <3>1, AppendProperties
  <2> HIDE DEF n
  <2>7. InThePast'
    <3> SUFFICES ASSUME NEW i \in 1 .. n + 1 PROVE restarts'[i].at <= now
      BY <2>1, <2>6 DEF InThePast
    <3>1. CASE i = n + 1
      BY <1>b, <2>2, <2>6, <3>1
    <3>2. CASE i # n + 1
      BY <2>3, <2>6, <3>2 DEF BreakerInv, InThePast, n
    <3> QED
      BY <3>1, <3>2
  <2>8. TimesGrow'
    <3> SUFFICES ASSUME NEW i \in 1 .. n + 1, NEW j \in 1 .. n + 1, i <= j
                 PROVE  restarts'[i].at <= restarts'[j].at
      BY <2>6 DEF TimesGrow
    <3>1. CASE j = n + 1
      <4>1. restarts'[i].at <= now
        BY <2>1, <2>6, <2>7 DEF InThePast
      <4> QED
        BY <2>2, <2>6, <3>1, <4>1
    <3>2. CASE j # n + 1
      <4>1. i \in 1 .. n /\ j \in 1 .. n
        BY <2>3, <3>2
      <4> QED
        BY <2>6, <4>1 DEF BreakerInv, TimesGrow, n
    <3> QED
      BY <3>1, <3>2
  <2>9. BreakerTrips'
    <3> SUFFICES ASSUME NEW i \in 1 .. n + 1, NEW j, j = i + RestartThreshold - 1, j <= n + 1,
                        restarts'[j].at < restarts'[i].at + RestartTimeWindow
                 PROVE  \E m \in i .. j : restarts'[m].full
      BY <2>6 DEF BreakerTrips
    <3>1. j \in Nat /\ i <= j /\ j \in 1 .. n + 1 /\ j \in i .. j
      BY <1>b, <2>3
    <3>2. CASE j = n + 1
      <4> SUFFICES ASSUME \A m \in i .. j : ~restarts'[m].full PROVE FALSE
        OBVIOUS
      <4>1. ~ShouldDoFullReset
        BY <2>2, <2>6, <3>1, <3>2
      <4>2. k < RestartThreshold
        BY <1>b, <2>3, <4>1
      <4>3. CASE i = n + 1
        BY <1>b, <2>3, <2>4, <3>1, <3>2, <4>2, <4>3
      <4>4. CASE i # n + 1
        <5>1. i \in 1 .. n /\ \A m \in i .. n : m \in i .. j /\ m \in 1 .. n
          BY <2>3, <3>2, <4>4
        <5>2. now < restarts[i].at + RestartTimeWindow
          BY <2>2, <2>6, <3>2, <5>1
        <5>3. restarts[i].at + RestartTimeWindow > now
          BY <1>b, <1>t, <5>1, <5>2 DEF n
        <5>4. \A m \in i .. n : ~restarts[m].full
          BY <2>6, <5>1
        <5>5. k >= n - i + 2
          BY <2>5, <5>1, <5>3, <5>4
        <5> QED
          BY <1>b, <2>3, <3>1, <3>2, <4>2, <5>1, <5>5
      <4> QED
        BY <4>3, <4>4
    <3>3. CASE j # n + 1
      <4>1. i \in 1 .. n /\ j \in 1 .. n /\ j <= n /\ \A m \in i .. j : m \in 1 .. n
        BY <2>3, <3>1, <3>3
      <4>2. restarts[j].at < restarts[i].at + RestartTimeWindow
        BY <2>6, <4>1
      <4>3. \E m \in i .. j : restarts[m].full
        BY <4>1, <4>2 DEF BreakerInv, BreakerTrips, n
      <4> QED
        BY <2>6, <4>1, <4>3
    <3> QED
      BY <3>2, <3>3
  <2>10. HistoryIsRecent'
    <3> SUFFICES ASSUME NEW i \in 1 .. n + 1, restarts'[i].at + RestartTimeWindow > now,
                        \A m \in i .. n + 1 : ~restarts'[m].full
                 PROVE  /\ Len(restartHistory') >= (n + 1) - i + 1
                        /\ \A m \in i .. n + 1 :
                              restartHistory'[Len(restartHistory') - (n + 1) + m] = restarts'[m].at
      BY <2>1, <2>6 DEF HistoryIsRecent, Recorded
    <3>1. ~ShouldDoFullReset
      <4>1. n + 1 \in i .. n + 1
        BY <2>3
      <4> QED
        BY <2>2, <2>6, <4>1
    <3>2. restartHistory' = WithRecord /\ Len(restartHistory') = k
      BY <2>1, <3>1 DEF k
    <3>3. CASE i = n + 1
      <4>1. \A m \in i .. n + 1 : m = n + 1 /\ k - (n + 1) + m = k
        BY <2>3, <3>3
      <4>2. k >= (n + 1) - i + 1
        BY <2>3, <2>4, <3>3
      <4> QED
        BY <2>2, <2>4, <2>6, <3>2, <4>1, <4>2
    <3>4. CASE i # n + 1
      <4>1. i \in 1 .. n /\ \A m \in i .. n : m \in i .. n + 1 /\ m \in 1 .. n
        BY <2>3, <3>4
      <4>2. restarts[i].at + RestartTimeWindow > now /\ \A m \in i .. n : ~restarts[m].full
        BY <2>6, <4>1
      <4>3. k >= n - i + 2 /\ \A m \in i .. n : WithRecord[k - (n + 1) + m] = restarts[m].at
        BY <2>5, <4>1, <4>2
      <4>4. ASSUME NEW m \in i .. n + 1 PROVE WithRecord[k - (n + 1) + m] = restarts'[m].at
        <5>1. CASE m = n + 1
          <6>1. k - (n + 1) + m = k
            BY <2>3, <5>1
          <6> QED
            BY <2>2, <2>4, <2>6, <5>1, <6>1
        <5>2. CASE m # n + 1
          <6>1. m \in i .. n
            BY <2>3, <4>1, <5>2
          <6> QED
            BY <2>6, <4>1, <4>3, <6>1
        <5> QED
          BY <5>1, <5>2
      <4>5. k >= (n + 1) - i + 1
        BY <2>3, <4>1, <4>3
      <4> QED
        BY <3>2, <4>4, <4>5
    <3> QED
      BY <3>3, <3>4
  <2> QED
    BY <2>7, <2>8, <2>9, <2>10 DEF BreakerInv
<1>3. CASE UNCHANGED historyVars
  BY <1>3 DEF historyVars, BreakerInv, BreakerTrips, TimesGrow, InThePast, HistoryIsRecent, Recorded
<1>4. Next => Tick \/ BeginRestart \/ UNCHANGED historyVars
  BY DEF Next, StreamBlock, Strategy, PassBlock, RootsAgree, RootMismatch, TriggerIndexerRestart,
         HandleBlock, HandleRollback, Manager, Forward, LoadStrategy, StrategyStopped,
         RollbackCursor, RollbackCursorFails, StopIndexer, StartIndexer, StartIndexerFails,
         StartStrategy
<1>5. UNCHANGED vars => UNCHANGED historyVars
  BY DEF vars
<1> QED
  BY <1>1, <1>2, <1>3, <1>4, <1>5

\* For every threshold and window, restartThreshold restarts within the time
\* window include a full reset, however the history was cleared or expired
\* in between.
THEOREM BreakerAlwaysTrips == Spec => []BreakerTrips
<1>1. Init => BreakerInv
  <2> SUFFICES ASSUME Init PROVE BreakerInv
    OBVIOUS
  <2>1. restarts = <<>>
    BY DEF Init
  <2>2. 1 .. Len(restarts) = {}
    BY <2>1
  <2> QED
    BY <2>2 DEF BreakerInv, BreakerTrips, TimesGrow, InThePast, HistoryIsRecent
<1>2. BreakerInv => BreakerTrips
  BY DEF BreakerInv
<1> QED
  BY <1>1, <1>2, BreakerStep, ManagerInvHolds, PTL DEF Spec

-----------------------------------------------------------------------------
(* The stream: what is on its way to the strategy, and the cursor.         *)

Block(slot) == [kind |-> "block", slot |-> slot]
Rewound(slot) == [kind |-> "rollback", slot |-> slot]

\* What is on its way to the strategy, in order.
Queue == inbox \o mailbox

\* The points 1 .. n, one for each block.
CountsUpTo(n) == n <= Len(cursor) /\ \A i \in 1 .. n : cursor[i] = i

\* The blocks on their way follow the cursor, with one request for a restart
\* among them, the b-th message, or none.
Follows(b) ==
    LET n == Len(cursor)
    IN /\ b \in Len(inbox) + 1 .. Len(Queue) + 1
       /\ b <= Len(Queue) => Queue[b].kind = "restart"
       /\ \A i \in 1 .. b - 1 : Queue[i] = Block(n + i)
       /\ \A i \in b + 1 .. Len(Queue) : Queue[i] = Block(n + i - 1)
       /\ position = n + Len(Queue) - (IF b <= Len(Queue) THEN 1 ELSE 0)

\* The b-th message rewinds the cursor to r, and the blocks after it follow.
Rewinds(b, r) ==
    /\ b \in 1 .. Len(Queue)
    /\ Queue[b] = Rewound(r)
    /\ CountsUpTo(r)
    /\ \A i \in r + 1 .. Len(cursor) : cursor[i] > r
    /\ \A i \in 1 .. b - 1 : Queue[i].kind = "block" /\ Queue[i].slot > r
    /\ \A i \in b + 1 .. Len(Queue) : Queue[i] = Block(r + i - b)
    /\ position = r + Len(Queue) - b

\* Before the strategy is loaded.
Loading ==
    /\ pc = "idle" /\ ~tracked /\ inbox = <<>> /\ cursor = <<>>
    /\ Len(mailbox) >= 2
    /\ mailbox[1].kind = "load"
    /\ mailbox[2] = Rewound(0)
    /\ \A i \in 3 .. Len(mailbox) : mailbox[i] = Block(i - 2)
    /\ position = Len(mailbox) - 2

\* In step, until the cursor is cut.
InStep ==
    /\ pc \in {"idle", "poisoning", "cursor"}
    /\ pc = "idle" => tracked
    /\ pc = "cursor" => inbox = <<>>
    /\ CountsUpTo(Len(cursor))
    /\ \E b \in Nat : Follows(b) /\ (pc # "idle" => b = Len(Queue) + 1)

\* The cursor is cut and the old stream goes on.
Cut ==
    /\ pc \in {"stopIndexer", "startIndexer"}
    /\ inbox = <<>>
    /\ CountsUpTo(Len(cursor))
    /\ \A i \in 1 .. Len(mailbox) : mailbox[i].kind = "block" /\ mailbox[i].slot > Len(cursor)
    /\ position >= Len(cursor)

\* The new stream starts behind what is left of the old one.
Rewinding ==
    /\ pc \in {"startStrategy", "idle"}
    /\ pc = "idle" => tracked
    /\ pc = "startStrategy" => inbox = <<>>
    /\ \E b \in Nat, r \in Nat : Rewinds(b, r)

StreamInv == callFailed \/ Loading \/ InStep \/ Cut \/ Rewinding

LEMMA ConcatIs ==
  ASSUME NEW T, NEW a \in Seq(T), NEW b \in Seq(T)
  PROVE  /\ a \o b \in Seq(T) /\ Len(a \o b) = Len(a) + Len(b)
         /\ Len(a) \in Nat /\ Len(b) \in Nat /\ Len(a \o b) \in Nat
         /\ \A i \in 1 .. Len(a) : (a \o b)[i] = a[i]
         /\ \A i \in 1 .. Len(b) : (a \o b)[Len(a) + i] = b[i]
<1>1. Len(a) \in Nat /\ Len(b) \in Nat
  OBVIOUS
<1>2. a \o b \in Seq(T) /\ Len(a \o b) = Len(a) + Len(b)
  BY ConcatProperties
<1>3. \A i \in 1 .. Len(a) + Len(b) : (a \o b)[i] = IF i <= Len(a) THEN a[i] ELSE b[i - Len(a)]
  BY ConcatProperties
<1>4. \A i \in 1 .. Len(a) : i \in 1 .. Len(a) + Len(b) /\ i <= Len(a)
  BY <1>1
<1>5. \A i \in 1 .. Len(b) : /\ Len(a) + i \in 1 .. Len(a) + Len(b) /\ ~(Len(a) + i <= Len(a))
                             /\ (Len(a) + i) - Len(a) = i
  BY <1>1
<1> QED
  BY <1>1, <1>2, <1>3, <1>4, <1>5

\* The queue, message by message.
LEMMA QueueIs ==
  ASSUME TypeOK
  PROVE  /\ Queue \in Seq(Message) /\ Len(Queue) = Len(inbox) + Len(mailbox)
         /\ Len(inbox) \in Nat /\ Len(mailbox) \in Nat /\ Len(Queue) \in Nat /\ Len(cursor) \in Nat
         /\ \A i \in 1 .. Len(inbox) : Queue[i] = inbox[i]
         /\ \A i \in 1 .. Len(mailbox) : Queue[Len(inbox) + i] = mailbox[i]
<1>1. inbox \in Seq(Event) /\ mailbox \in Seq(Message) /\ cursor \in Seq(Slots)
  BY DEF TypeOK
<1>2. Event \subseteq Message
  BY DEF Message
<1>3. inbox \in Seq(Message)
  BY <1>1, <1>2, SeqMonotonic
<1> QED
  BY <1>1, <1>3, ConcatIs DEF Queue

\* How a step of a mailbox shows in the queue.
LEMMA QueueAppend ==
  ASSUME TypeOK, NEW m \in Message, inbox' = inbox, mailbox' = Append(mailbox, m)
  PROVE  /\ Len(Queue') = Len(Queue) + 1 /\ Queue'[Len(Queue) + 1] = m
         /\ \A i \in 1 .. Len(Queue) : Queue'[i] = Queue[i]
<1>1. /\ Queue \in Seq(Message) /\ inbox \in Seq(Message) /\ mailbox \in Seq(Message)
  <2>1. inbox \in Seq(Event) /\ mailbox \in Seq(Message) /\ Event \subseteq Message
    BY DEF TypeOK, Message
  <2> QED
    BY <2>1, SeqMonotonic, QueueIs
<1>2. Queue' = Append(Queue, m)
  <2>1. Queue' = inbox \o Append(mailbox, m)
    BY DEF Queue
  <2>2. inbox \o Append(mailbox, m) = Append(inbox \o mailbox, m)
    BY <1>1
  <2> QED
    BY <2>1, <2>2 DEF Queue
<1> QED
  BY <1>1, <1>2, AppendProperties

LEMMA QueueTail ==
  ASSUME TypeOK, inbox # <<>>, inbox' = Tail(inbox), mailbox' = mailbox
  PROVE  /\ Len(Queue') = Len(Queue) - 1 /\ Queue[1] = Head(inbox) /\ Len(inbox') = Len(inbox) - 1
         /\ Len(inbox) >= 1
         /\ \A i \in 1 .. Len(Queue) - 1 : Queue'[i] = Queue[i + 1]
<1>1. inbox \in Seq(Message) /\ mailbox \in Seq(Message) /\ Len(mailbox) \in Nat
  <2>1. inbox \in Seq(Event) /\ mailbox \in Seq(Message) /\ Event \subseteq Message
    BY DEF TypeOK, Message
  <2> QED
    BY <2>1, SeqMonotonic
<1>2. /\ Tail(inbox) \in Seq(Message) /\ Len(Tail(inbox)) = Len(inbox) - 1 /\ Len(inbox) \in Nat
      /\ Len(inbox) > 0 /\ Head(inbox) = inbox[1]
      /\ \A i \in 1 .. Len(inbox) - 1 : Tail(inbox)[i] = inbox[i + 1]
  BY <1>1, HeadTail
<1>3. Queue' = Tail(inbox) \o mailbox
  BY DEF Queue
<1> DEFINE t == Tail(inbox)
           k == Len(inbox)
<1>4. /\ Len(Queue') = Len(t) + Len(mailbox)
      /\ \A i \in 1 .. Len(t) : Queue'[i] = t[i]
      /\ \A i \in 1 .. Len(mailbox) : Queue'[Len(t) + i] = mailbox[i]
  BY <1>1, <1>2, <1>3, ConcatIs
<1>5. /\ Len(Queue) = k + Len(mailbox)
      /\ \A i \in 1 .. k : Queue[i] = inbox[i]
      /\ \A i \in 1 .. Len(mailbox) : Queue[k + i] = mailbox[i]
  BY QueueIs
<1> HIDE DEF t, k
<1>6. k \in Nat /\ k > 0 /\ Len(t) = k - 1 /\ \A i \in 1 .. k - 1 : t[i] = inbox[i + 1]
  BY <1>2 DEF t, k
<1>7. ASSUME NEW i \in 1 .. Len(Queue) - 1 PROVE Queue'[i] = Queue[i + 1]
  <2>1. CASE i <= k - 1
    BY <1>1, <1>4, <1>5, <1>6, <2>1
  <2>2. CASE i > k - 1
    <3> DEFINE j == i - (k - 1)
    <3>1. j \in 1 .. Len(mailbox) /\ Len(t) + j = i /\ k + j = i + 1
      BY <1>1, <1>5, <1>6, <2>2
    <3> HIDE DEF j
    <3>2. Queue'[Len(t) + j] = mailbox[j] /\ Queue[k + j] = mailbox[j]
      BY <1>4, <1>5, <3>1
    <3> QED
      BY <3>1, <3>2
  <2> QED
    BY <1>6, <2>1, <2>2
<1>8. Queue[1] = Head(inbox) /\ Len(Queue') = Len(Queue) - 1
  BY <1>1, <1>2, <1>4, <1>5, <1>6
<1> QED
  BY <1>2, <1>7, <1>8

\* A message that the manager takes out, and one that it forwards.
LEMMA QueueTake ==
  ASSUME TypeOK, mailbox # <<>>, mailbox' = Tail(mailbox)
  PROVE  /\ Queue[Len(inbox) + 1] = Head(mailbox) /\ Len(inbox) + 1 <= Len(Queue)
         /\ Len(mailbox') = Len(mailbox) - 1
         /\ inbox' = inbox =>
              /\ Len(Queue') = Len(Queue) - 1
              /\ \A i \in 1 .. Len(inbox) : Queue'[i] = Queue[i]
              /\ \A i \in Len(inbox) + 1 .. Len(Queue) - 1 : Queue'[i] = Queue[i + 1]
         /\ Head(mailbox) \in Event /\ inbox' = Append(inbox, Head(mailbox)) =>
              Queue' = Queue /\ Len(inbox') = Len(inbox) + 1
<1>1. inbox \in Seq(Message) /\ mailbox \in Seq(Message) /\ Len(inbox) \in Nat /\ Len(mailbox) \in Nat
  <2>1. inbox \in Seq(Event) /\ mailbox \in Seq(Message) /\ Event \subseteq Message
    BY DEF TypeOK, Message
  <2> QED
    BY <2>1, SeqMonotonic
<1>2. /\ Tail(mailbox) \in Seq(Message) /\ Len(Tail(mailbox)) = Len(mailbox) - 1
      /\ Len(mailbox) > 0 /\ Head(mailbox) = mailbox[1] /\ Head(mailbox) \in Message
      /\ \A i \in 1 .. Len(mailbox) - 1 : Tail(mailbox)[i] = mailbox[i + 1]
  BY <1>1, HeadTail
<1> DEFINE k == Len(inbox)
           t == Tail(mailbox)
<1>3. /\ Len(Queue) = k + Len(mailbox)
      /\ \A i \in 1 .. k : Queue[i] = inbox[i]
      /\ \A i \in 1 .. Len(mailbox) : Queue[k + i] = mailbox[i]
  BY QueueIs
<1>4. Queue[k + 1] = Head(mailbox) /\ k + 1 <= Len(Queue)
  BY <1>1, <1>2, <1>3
<1>5. ASSUME inbox' = inbox
      PROVE  /\ Len(Queue') = Len(Queue) - 1
             /\ \A i \in 1 .. k : Queue'[i] = Queue[i]
             /\ \A i \in k + 1 .. Len(Queue) - 1 : Queue'[i] = Queue[i + 1]
  <2>1. Queue' = inbox \o t
    BY <1>5 DEF Queue
  <2>2. /\ Len(Queue') = k + Len(t)
        /\ \A i \in 1 .. k : Queue'[i] = inbox[i]
        /\ \A i \in 1 .. Len(t) : Queue'[k + i] = t[i]
    BY <1>1, <1>2, <2>1, ConcatIs
  <2>3. k \in Nat /\ Len(t) = Len(mailbox) - 1 /\ \A i \in 1 .. Len(mailbox) - 1 : t[i] = mailbox[i + 1]
    BY <1>1, <1>2
  <2> HIDE DEF k, t
  <2>4. ASSUME NEW i \in k + 1 .. Len(Queue) - 1 PROVE Queue'[i] = Queue[i + 1]
    <3> DEFINE j == i - k
    <3>1. /\ j \in 1 .. Len(mailbox) - 1 /\ j \in 1 .. Len(t) /\ k + j = i
          /\ j + 1 \in 1 .. Len(mailbox) /\ k + (j + 1) = i + 1
      BY <1>1, <1>3, <2>3
    <3> HIDE DEF j
    <3>2. Queue'[k + j] = mailbox[j + 1] /\ Queue[k + (j + 1)] = mailbox[j + 1]
      BY <1>3, <2>2, <2>3, <3>1
    <3> QED
      BY <3>1, <3>2
  <2>5. Len(Queue') = Len(Queue) - 1
    BY <1>1, <1>3, <2>2, <2>3
  <2> QED
    BY <1>3, <2>2, <2>4, <2>5
<1>6. ASSUME inbox' = Append(inbox, Head(mailbox))
      PROVE  Queue' = Queue /\ Len(inbox') = k + 1
  <2>1. Len(inbox') = k + 1
    BY <1>1, <1>2, <1>6
  <2>2. Queue' = Append(inbox, Head(mailbox)) \o Tail(mailbox)
    BY <1>6 DEF Queue
  <2>3. mailbox = <<Head(mailbox)>> \o Tail(mailbox)
    BY <1>1, <1>2
  <2>4. Append(inbox, Head(mailbox)) = inbox \o <<Head(mailbox)>>
    BY <1>1, <1>2
  <2>5. (inbox \o <<Head(mailbox)>>) \o Tail(mailbox) = inbox \o (<<Head(mailbox)>> \o Tail(mailbox))
    <3>1. <<Head(mailbox)>> \in Seq(Message)
      BY <1>2
    <3> QED
      BY <1>1, <1>2, <3>1, ConcatAssociative
  <2> QED
    BY <2>1, <2>2, <2>3, <2>4, <2>5 DEF Queue
<1> QED
  BY <1>2, <1>4, <1>5, <1>6

\* The cut of a cursor that counts up to d and then goes past the slot.
LEMMA CutCounts ==
  ASSUME TypeOK, NEW slot \in Nat, NEW d \in 0 .. Len(cursor),
         \A i \in 1 .. d : cursor[i] = i /\ i <= slot,
         \A i \in d + 1 .. Len(cursor) : cursor[i] > slot
  PROVE  /\ Len(CursorUpTo(slot)) = d
         /\ \A i \in 1 .. d : CursorUpTo(slot)[i] = i
<1>1. cursor \in Seq(Slots) /\ Len(cursor) \in Nat /\ Slots \subseteq Nat
  BY ManagerBounds, SMTT(30) DEF TypeOK, Slots
<1>2. \A i \in 1 .. d : cursor[i] \in 0 .. slot
  OBVIOUS
<1>3. \A i \in d + 1 .. Len(cursor) : cursor[i] \notin 0 .. slot
  <2> SUFFICES ASSUME NEW i \in d + 1 .. Len(cursor) PROVE cursor[i] \notin 0 .. slot
    OBVIOUS
  <2>1. cursor[i] > slot /\ cursor[i] \in Nat
    <3>1. i \in 1 .. Len(cursor)
      BY <1>1
    <3> QED
      BY <1>1, <3>1, ElementOfSeq
  <2> QED
    BY <2>1
<1>4. CursorUpTo(slot) = SubSeq(cursor, 1, d)
  BY <1>1, <1>2, <1>3, OnlyPrefix DEF CursorUpTo
<1>5. Len(SubSeq(cursor, 1, d)) = d /\ \A i \in 1 .. d : SubSeq(cursor, 1, d)[i] = cursor[i]
  BY <1>1
<1> QED
  BY <1>4, <1>5

\* Tick and the like leave the stream alone.
LEMMA StreamUnchanged ==
  ASSUME StreamInv, UNCHANGED <<inbox, mailbox, cursor, position, pc, tracked, callFailed>>
  PROVE  StreamInv'
<1>1. Queue' = Queue
  BY DEF Queue
<1>2. \A b, r : (Rewinds(b, r) => Rewinds(b, r)') /\ (Follows(b) => Follows(b)')
  BY <1>1 DEF Rewinds, Follows, CountsUpTo
<1> QED
  BY <1>1, <1>2 DEF StreamInv, Loading, InStep, Cut, Rewinding, CountsUpTo

\* The indexer streams the next block of the chain.
LEMMA StreamedBlock ==
  ASSUME TypeOK, StreamBlock
  PROVE  /\ position' = position + 1 /\ position \in Nat
         /\ mailbox' = Append(mailbox, Block(position + 1)) /\ inbox' = inbox
         /\ Block(position + 1) \in Message
         /\ UNCHANGED <<cursor, pc, tracked, callFailed>>
<1>1. position' = position + 1 /\ position \in Nat /\ position + 1 \in Slots
  BY ManagerBounds, SMTT(30) DEF StreamBlock, TypeOK, Slots
<1> QED
  BY <1>1 DEF StreamBlock, Block, Message, Event, strategyVars

\* A block that the strategy handles becomes the last cursor point.
LEMMA HandledBlock ==
  ASSUME TypeOK, HandleBlock
  PROVE  /\ Len(cursor') = Len(cursor) + 1 /\ cursor'[Len(cursor) + 1] = Head(inbox).slot
         /\ \A i \in 1 .. Len(cursor) : cursor'[i] = cursor[i]
         /\ inbox # <<>> /\ inbox' = Tail(inbox) /\ Head(inbox).kind = "block"
         /\ UNCHANGED <<position, pc, tracked, callFailed>>
<1>1. inbox \in Seq(Event) /\ inbox # <<>> /\ cursor \in Seq(Slots)
  BY DEF HandleBlock, TypeOK
<1>2. Head(inbox) \in Event
  BY <1>1, HeadTail
<1>3. Head(inbox).slot \in Slots
  BY <1>2 DEF Event
<1>4. cursor' = Append(cursor, Head(inbox).slot)
  BY DEF HandleBlock
<1>5. /\ Len(cursor') = Len(cursor) + 1 /\ cursor'[Len(cursor) + 1] = Head(inbox).slot
      /\ \A i \in 1 .. Len(cursor) : cursor'[i] = cursor[i]
  BY <1>1, <1>3, <1>4, AppendProperties
<1> QED
  BY <1>5 DEF HandleBlock

LEMMA LoadingStep ==
  ASSUME ManagerInv, Loading, Next
  PROVE  StreamInv'
<1>0. TypeOK
  BY DEF ManagerInv
<1>1. /\ pc = "idle" /\ inbox = <<>> /\ cursor = <<>> /\ Len(mailbox) >= 2 /\ Len(mailbox) \in Nat
      /\ mailbox[1].kind = "load" /\ mailbox[2] = Rewound(0) /\ mailbox \in Seq(Message)
      /\ \A i \in 3 .. Len(mailbox) : mailbox[i] = Block(i - 2)
      /\ position = Len(mailbox) - 2 /\ ~tracked
  BY <1>0, QueueIs DEF Loading, TypeOK
<1>2. Head(mailbox) = mailbox[1] /\ mailbox # <<>>
  BY <1>1
<1>3. Tick \/ StreamBlock \/ LoadStrategy
  BY <1>1, <1>2 DEF Next, Strategy, PassBlock, RootsAgree, RootMismatch, TriggerIndexerRestart,
         HandleBlock, HandleRollback, Manager, Forward, BeginRestart, Receives, StrategyStopped,
         RollbackCursor, RollbackCursorFails, StopIndexer, StartIndexer, StartIndexerFails,
         StartStrategy
<1>4. CASE Tick
  BY <1>4, StreamUnchanged DEF Tick, StreamInv, strategyVars
<1>5. CASE StreamBlock
  <2>1. /\ position' = position + 1 /\ mailbox' = Append(mailbox, Block(position + 1))
        /\ Block(position + 1) \in Message
        /\ UNCHANGED <<inbox, cursor, pc, tracked>>
    BY <1>0, <1>5, StreamedBlock
  <2>2. /\ Len(mailbox') = Len(mailbox) + 1 /\ mailbox'[Len(mailbox) + 1] = Block(position + 1)
        /\ \A i \in 1 .. Len(mailbox) : mailbox'[i] = mailbox[i]
    BY <1>1, <2>1, AppendProperties
  <2>3. ASSUME NEW i \in 3 .. Len(mailbox') PROVE mailbox'[i] = Block(i - 2)
    <3>1. CASE i = Len(mailbox) + 1
      <4>1. position + 1 = i - 2
        BY <1>1, <3>1
      <4> QED
        BY <2>2, <3>1, <4>1
    <3>2. CASE i # Len(mailbox) + 1
      <4>1. i \in 3 .. Len(mailbox) /\ i \in 1 .. Len(mailbox)
        BY <1>1, <2>2, <3>2
      <4> QED
        BY <1>1, <2>2, <4>1
    <3> QED
      BY <3>1, <3>2
  <2>4. Len(mailbox') >= 2 /\ position' = Len(mailbox') - 2 /\ mailbox'[1] = mailbox[1]
          /\ mailbox'[2] = mailbox[2]
    BY <1>1, <2>1, <2>2
  <2>5. Rewound(0)' = Rewound(0) /\ \A i : Block(i)' = Block(i)
    BY DEF Rewound, Block
  <2>6. Loading'
    BY <1>1, <2>1, <2>3, <2>4, <2>5 DEF Loading
  <2> QED
    BY <2>6 DEF StreamInv
<1>6. CASE LoadStrategy
  <2>1. /\ mailbox' = Tail(mailbox) /\ inbox' = <<>> /\ cursor' = <<>> /\ pc' = "idle" /\ tracked'
        /\ position' = position
    BY <1>1, <1>6 DEF LoadStrategy, Receives, strategyVars
  <2>2. Queue' = Tail(mailbox)
    BY <1>1, <2>1 DEF Queue
  <2>3. /\ Len(Queue') = Len(mailbox) - 1
        /\ \A i \in 1 .. Len(mailbox) - 1 : Queue'[i] = mailbox[i + 1]
    BY <1>1, <1>2, <2>2, HeadTail
  <2>4. Queue'[1] = Rewound(0)
    BY <1>1, <2>3
  <2>5. ASSUME NEW i \in 2 .. Len(Queue') PROVE Queue'[i] = Block(0 + i - 1)
    <3>1. i \in 1 .. Len(mailbox) - 1 /\ i + 1 \in 3 .. Len(mailbox) /\ (i + 1) - 2 = 0 + i - 1
      BY <1>1, <2>3
    <3> QED
      BY <1>1, <2>3, <3>1
  <2>6. Len(cursor') = 0 /\ 1 \in 1 .. Len(Queue') /\ position' = 0 + Len(Queue') - 1
    BY <1>1, <2>1, <2>3
  <2>7. Rewinds(1, 0)'
    <3>1. 1 .. 0 = {} /\ 1 + 1 = 2 /\ 0 + 1 .. Len(cursor') = {} /\ 0 <= Len(cursor') /\ 1 - 1 = 0
      BY <2>6
    <3> QED
      BY <2>4, <2>5, <2>6, <3>1 DEF Rewinds, CountsUpTo, Rewound, Block
  <2>8. Rewinding'
    BY <2>1, <2>7 DEF Rewinding
  <2> QED
    BY <2>8 DEF StreamInv
<1> QED
  BY <1>3, <1>4, <1>5, <1>6

LEMMA CutStep ==
  ASSUME ManagerInv, Cut, ~callFailed, Next
  PROVE  StreamInv'
<1>0. TypeOK
  BY DEF ManagerInv
<1>1. /\ pc \in {"stopIndexer", "startIndexer"} /\ inbox = <<>> /\ mailbox \in Seq(Message)
      /\ \A i \in 1 .. Len(mailbox) : mailbox[i].kind = "block" /\ mailbox[i].slot > Len(cursor)
      /\ position >= Len(cursor) /\ Len(mailbox) \in Nat /\ Len(cursor) \in Nat /\ position \in Nat
      /\ \A i \in 1 .. Len(cursor) : cursor[i] = i
  BY <1>0, QueueIs, ManagerBounds DEF Cut, TypeOK, CountsUpTo, Slots
<1>2. Tick \/ StreamBlock \/ StopIndexer \/ StartIndexer \/ StartIndexerFails
  BY <1>1 DEF Next, Strategy, PassBlock, RootsAgree, RootMismatch, TriggerIndexerRestart,
         HandleBlock, HandleRollback, Manager, Forward, LoadStrategy, BeginRestart, Receives,
         StrategyStopped, RollbackCursor, RollbackCursorFails, StartStrategy
<1>3. CASE Tick
  BY <1>3, StreamUnchanged DEF Tick, StreamInv, strategyVars
<1>4. CASE StreamBlock
  <2>1. /\ position' = position + 1 /\ mailbox' = Append(mailbox, Block(position + 1))
        /\ Block(position + 1) \in Message
        /\ UNCHANGED <<inbox, cursor, pc>>
    BY <1>0, <1>4, StreamedBlock
  <2>2. /\ Len(mailbox') = Len(mailbox) + 1 /\ mailbox'[Len(mailbox) + 1] = Block(position + 1)
        /\ \A i \in 1 .. Len(mailbox) : mailbox'[i] = mailbox[i]
    BY <1>1, <2>1, AppendProperties
  <2>3. Block(position + 1).kind = "block" /\ Block(position + 1).slot = position + 1
    BY DEF Block
  <2>4. position + 1 > Len(cursor) /\ position' >= Len(cursor)
    BY <1>1, <2>1
  <2>5. \A i \in 1 .. Len(mailbox') : mailbox'[i].kind = "block" /\ mailbox'[i].slot > Len(cursor)
    <3> SUFFICES ASSUME NEW i \in 1 .. Len(mailbox')
                 PROVE  mailbox'[i].kind = "block" /\ mailbox'[i].slot > Len(cursor)
      OBVIOUS
    <3>1. i = Len(mailbox) + 1 \/ i \in 1 .. Len(mailbox)
      BY <1>1, <2>2
    <3> QED
      BY <1>1, <2>2, <2>3, <2>4, <3>1
  <2>6. Cut'
    BY <1>1, <2>1, <2>4, <2>5 DEF Cut, CountsUpTo
  <2> QED
    BY <2>6 DEF StreamInv
<1>5. CASE StopIndexer
  <2>1. Cut'
    BY <1>5 DEF StopIndexer, Cut, CountsUpTo, strategyVars
  <2> QED
    BY <2>1 DEF StreamInv
<1>6. CASE StartIndexer
  <2> DEFINE n == Len(cursor)
  <2>1. LatestCursor = n
    <3>1. cursor = <<>> <=> n = 0
      BY <1>0 DEF TypeOK
    <3> QED
      BY <1>1, <3>1 DEF LatestCursor, Last
  <2>2. /\ position' = n /\ mailbox' = Append(mailbox, Rewound(n))
        /\ inbox' = <<>> /\ cursor' = cursor /\ pc' = "startStrategy"
    BY <1>1, <1>6, <2>1 DEF StartIndexer, strategyVars, Rewound
  <2>3. Rewound(n) \in Message
    <3>1. n \in Slots
      BY <1>0, <2>1, LatestCursorType
    <3> QED
      BY <3>1 DEF Rewound, Message, Event
  <2>4. /\ Len(Queue') = Len(Queue) + 1 /\ Queue'[Len(Queue) + 1] = Rewound(n)
        /\ \A i \in 1 .. Len(Queue) : Queue'[i] = Queue[i]
    BY <1>0, <1>1, <2>2, <2>3, QueueAppend
  <2>5. Queue = mailbox
    BY <1>1 DEF Queue
  <2> HIDE DEF n
  <2>6. PICK b \in Nat, r \in Nat : b = Len(mailbox) + 1 /\ r = n
    BY <1>1 DEF n
  <2>7. Rewinds(b, r)'
    <3>1. r + 1 .. Len(cursor') = {} /\ r <= Len(cursor')
      BY <1>1, <2>2, <2>6 DEF n
    <3>2. /\ b \in 1 .. Len(Queue') /\ b + 1 .. Len(Queue') = {}
          /\ position' = r + Len(Queue') - b /\ b - 1 = Len(mailbox)
      BY <1>1, <2>2, <2>4, <2>5, <2>6
    <3>3. \A i \in 1 .. r : cursor'[i] = i
      BY <1>1, <2>2, <2>6 DEF n
    <3>4. \A i \in 1 .. b - 1 : Queue'[i].kind = "block" /\ Queue'[i].slot > r
      BY <1>1, <2>4, <2>5, <2>6, <3>2 DEF n
    <3>5. Queue'[b] = Rewound(r)
      BY <2>4, <2>5, <2>6
    <3> QED
      BY <3>1, <3>2, <3>3, <3>4, <3>5 DEF Rewinds, CountsUpTo, Rewound
  <2>8. Rewinding'
    BY <1>1, <2>2, <2>7 DEF Rewinding
  <2> QED
    BY <2>8 DEF StreamInv
<1>7. CASE StartIndexerFails
  BY <1>7 DEF StartIndexerFails, StreamInv
<1> QED
  BY <1>2, <1>3, <1>4, <1>5, <1>6, <1>7

LEMMA InStepStep ==
  ASSUME ManagerInv, InStep, ~callFailed, "again" \notin Faults, Next
  PROVE  StreamInv'
<1>0. TypeOK
  BY DEF ManagerInv
<1>1. PICK b \in Nat : Follows(b) /\ (pc # "idle" => b = Len(Queue) + 1)
  BY DEF InStep
<1> DEFINE n == Len(cursor)
           k == Len(inbox)
           N == Len(Queue)
<1>2. /\ k \in Nat /\ N \in Nat /\ n \in Nat /\ N = k + Len(mailbox) /\ Len(mailbox) \in Nat
      /\ \A i \in 1 .. k : Queue[i] = inbox[i]
      /\ \A i \in 1 .. Len(mailbox) : Queue[k + i] = mailbox[i]
  BY <1>0, QueueIs
<1>3. /\ b \in k + 1 .. N + 1
      /\ b <= N => Queue[b].kind = "restart"
      /\ \A i \in 1 .. b - 1 : Queue[i] = Block(n + i)
      /\ \A i \in b + 1 .. N : Queue[i] = Block(n + i - 1)
      /\ position = n + N - (IF b <= N THEN 1 ELSE 0)
  BY <1>1 DEF Follows
<1>4. /\ pc \in {"idle", "poisoning", "cursor"} /\ (pc = "idle" => tracked)
      /\ (pc = "cursor" => inbox = <<>>) /\ \A i \in 1 .. n : cursor[i] = i
  BY DEF InStep, CountsUpTo
<1>5. \A i : Block(i).kind = "block" /\ Block(i).slot = i
  BY DEF Block
<1>6. CASE Tick
  BY <1>6, StreamUnchanged DEF Tick, StreamInv, strategyVars
<1>7. CASE StreamBlock
  <2>1. /\ position' = position + 1 /\ mailbox' = Append(mailbox, Block(position + 1))
        /\ Block(position + 1) \in Message
        /\ UNCHANGED <<inbox, cursor, pc, tracked>>
    BY <1>0, <1>7, StreamedBlock
  <2>2. /\ Len(Queue') = N + 1 /\ Queue'[N + 1] = Block(position + 1)
        /\ \A i \in 1 .. N : Queue'[i] = Queue[i]
    BY <1>0, <2>1, QueueAppend
  <2>3. PICK c \in Nat : c = IF b <= N THEN b ELSE b + 1
    BY <1>2
  <2>4. Follows(c)'
    <3> HIDE DEF n, k, N
    <3>1. Len(cursor') = n /\ Len(inbox') = k
      BY <2>1 DEF n, k
    <3>2. CASE b <= N
      <4>1. c = b /\ c \in k + 1 .. (N + 1) + 1 /\ c <= N + 1 /\ b \in 1 .. N
        BY <1>2, <1>3, <2>3, <3>2
      <4>2. Queue'[c].kind = "restart"
        BY <1>3, <2>2, <3>2, <4>1
      <4>3. \A i \in 1 .. c - 1 : Queue'[i] = Block(n + i)
        BY <1>2, <1>3, <2>2, <4>1
      <4>4. ASSUME NEW i \in c + 1 .. N + 1 PROVE Queue'[i] = Block(n + i - 1)
        <5>1. CASE i = N + 1
          <6>1. position + 1 = n + i - 1
            BY <1>2, <1>3, <3>2, <5>1
          <6> QED
            BY <2>2, <5>1, <6>1
        <5>2. CASE i # N + 1
          <6>0. N \in Nat /\ b \in 1 .. N /\ c = b
            BY <1>2, <4>1
          <6>1. i \in b + 1 .. N /\ i \in 1 .. N
            BY <5>2, <6>0
          <6> QED
            BY <1>3, <2>2, <6>1
        <5> QED
          BY <5>1, <5>2
      <4>5. position' = n + (N + 1) - 1
        BY <1>2, <1>3, <2>1, <3>2
      <4> QED
        BY <2>2, <3>1, <4>1, <4>2, <4>3, <4>4, <4>5 DEF Follows, Block
    <3>3. CASE ~(b <= N)
      <4>1. b = N + 1 /\ c = N + 2 /\ c \in k + 1 .. (N + 1) + 1 /\ ~(c <= N + 1) /\ c - 1 = N + 1
              /\ c + 1 .. N + 1 = {} /\ b - 1 = N
        <5>1. k \in Nat /\ N \in Nat /\ k <= N /\ b \in k + 1 .. N + 1
          BY <1>2, <1>3
        <5>2. b = N + 1 /\ c = N + 2
          BY <2>3, <3>3, <5>1
        <5>3. c + 1 .. N + 1 = {}
          BY <5>1, <5>2
        <5> QED
          BY <5>1, <5>2, <5>3
      <4>2. ASSUME NEW i \in 1 .. N + 1 PROVE Queue'[i] = Block(n + i)
        <5>1. CASE i = N + 1
          <6>1. position + 1 = n + i
            BY <1>2, <1>3, <3>3, <5>1
          <6> QED
            BY <2>2, <5>1, <6>1
        <5>2. CASE i # N + 1
          <6>1. i \in 1 .. N
            BY <1>2, <5>2
          <6> QED
            BY <1>3, <2>2, <4>1, <6>1
        <5> QED
          BY <5>1, <5>2
      <4>3. position' = n + (N + 1) - 0
        BY <1>2, <1>3, <2>1, <3>3
      <4> QED
        BY <2>2, <3>1, <4>1, <4>2, <4>3 DEF Follows, Block
    <3> QED
      BY <3>2, <3>3
  <2>5. pc' # "idle" => c = Len(Queue') + 1
    BY <1>1, <1>2, <2>1, <2>2, <2>3
  <2>6. InStep'
    BY <1>4, <2>1, <2>4, <2>5 DEF InStep, CountsUpTo
  <2> QED
    BY <2>6 DEF StreamInv
<1>8. ASSUME HandleBlock
      PROVE  /\ Queue[1] = Block(n + 1) /\ Head(inbox) = Block(n + 1) /\ k >= 1 /\ b > 1 /\ N >= 1
             /\ Len(cursor') = n + 1 /\ \A i \in 1 .. n + 1 : cursor'[i] = i
  <2>1. /\ Len(cursor') = n + 1 /\ cursor'[n + 1] = Head(inbox).slot
        /\ \A i \in 1 .. n : cursor'[i] = cursor[i]
        /\ inbox # <<>>
    BY <1>0, <1>8, HandledBlock
  <2>2. k >= 1 /\ Head(inbox) = inbox[1]
    BY <1>0, <2>1, HeadTail DEF TypeOK
  <2>3. 1 \in 1 .. k /\ 1 \in 1 .. b - 1 /\ b > 1 /\ N >= 1
    <3> HIDE DEF n, k, N
    <3> QED
      BY <1>2, <1>3, <2>2
  <2>4. Queue[1] = Block(n + 1) /\ Head(inbox) = Block(n + 1)
    BY <1>2, <1>3, <2>2, <2>3
  <2>5. ASSUME NEW i \in 1 .. n + 1 PROVE cursor'[i] = i
    <3>1. i = n + 1 \/ i \in 1 .. n
      BY <1>2
    <3>2. cursor'[n + 1] = n + 1
      BY <1>5, <2>1, <2>4
    <3> QED
      BY <1>4, <2>1, <3>1, <3>2
  <2> QED
    BY <2>1, <2>2, <2>3, <2>4, <2>5
<1>9. ASSUME HandleBlock, mailbox' = mailbox
      PROVE  StreamInv'
  <2>1. inbox # <<>> /\ inbox' = Tail(inbox) /\ UNCHANGED <<position, pc, tracked>>
    BY <1>9 DEF HandleBlock
  <2>2. /\ Len(Queue') = N - 1 /\ Len(inbox') = k - 1
        /\ \A i \in 1 .. N - 1 : Queue'[i] = Queue[i + 1]
    BY <1>0, <1>9, <2>1, QueueTail
  <2>3. k >= 1 /\ b > 1 /\ N >= 1 /\ Len(cursor') = n + 1 /\ \A i \in 1 .. n + 1 : cursor'[i] = i
    BY <1>8, <1>9
  <2>4. PICK c \in Nat : c = b - 1
    BY <2>3
  <2>5. Follows(c)'
    <3> HIDE DEF n, k, N
    <3>1. c \in (k - 1) + 1 .. (N - 1) + 1 /\ (c <= N - 1 <=> b <= N)
      BY <1>2, <1>3, <2>3, <2>4
    <3>2. c <= N - 1 => Queue'[c].kind = "restart"
      <4>1. c <= N - 1 => c \in 1 .. N - 1 /\ c + 1 = b
        BY <1>2, <1>3, <2>3, <2>4
      <4> QED
        BY <1>3, <2>2, <3>1, <4>1
    <3>3. ASSUME NEW i \in 1 .. c - 1 PROVE Queue'[i] = Block((n + 1) + i)
      <4>1. i \in 1 .. N - 1 /\ i + 1 \in 1 .. b - 1 /\ n + (i + 1) = (n + 1) + i
        BY <1>2, <1>3, <2>3, <2>4
      <4> QED
        BY <1>3, <2>2, <4>1
    <3>4. ASSUME NEW i \in c + 1 .. N - 1 PROVE Queue'[i] = Block((n + 1) + i - 1)
      <4>1. i \in 1 .. N - 1 /\ i + 1 \in b + 1 .. N /\ n + (i + 1) - 1 = (n + 1) + i - 1
        BY <1>2, <1>3, <2>3, <2>4
      <4> QED
        BY <1>3, <2>2, <4>1
    <3>5. position' = (n + 1) + (N - 1) - (IF c <= N - 1 THEN 1 ELSE 0)
      BY <1>2, <1>3, <2>1, <2>3, <3>1
    <3> QED
      BY <2>2, <2>3, <3>1, <3>2, <3>3, <3>4, <3>5 DEF Follows, Block
  <2>6. pc' # "idle" => c = Len(Queue') + 1
    BY <1>1, <1>2, <2>1, <2>2, <2>4
  <2>7. CountsUpTo(Len(cursor))'
    BY <1>2, <2>3 DEF CountsUpTo
  <2>8. InStep'
    BY <1>4, <2>1, <2>5, <2>6, <2>7 DEF InStep
  <2> QED
    BY <2>8 DEF StreamInv
<1>10. CASE TriggerIndexerRestart
  <2>1. /\ HandleBlock /\ Settled
        /\ mailbox' = Append(mailbox, [kind |-> "restart", slot |-> lastIndexed])
    BY <1>10 DEF TriggerIndexerRestart
  <2>2. inbox # <<>> /\ inbox' = Tail(inbox) /\ UNCHANGED <<position, pc, tracked>> /\ pc = "idle"
    BY <2>1 DEF HandleBlock, Settled
  <2>3. k >= 1 /\ b > 1 /\ N >= 1 /\ Len(cursor') = n + 1 /\ \A i \in 1 .. n + 1 : cursor'[i] = i
    BY <1>8, <2>1
  <2>4. ~(b <= N)
    <3> SUFFICES ASSUME b <= N PROVE FALSE
      OBVIOUS
    <3>1. b - k \in 1 .. Len(mailbox) /\ k + (b - k) = b
      BY <1>2, <1>3
    <3>2. mailbox[b - k].kind = "block"
      BY <2>1, <3>1 DEF Settled
    <3>3. Queue[b] = mailbox[b - k]
      BY <1>2, <3>1
    <3> QED
      BY <1>3, <3>2, <3>3
  <2> DEFINE m == [kind |-> "restart", slot |-> lastIndexed]
  <2>5. /\ Len(Queue') = N /\ Queue'[N] = m /\ Len(inbox') = k - 1
        /\ \A i \in 1 .. N - 1 : Queue'[i] = Queue[i + 1]
    <3>1. inbox \in Seq(Message) /\ mailbox \in Seq(Message) /\ m \in Message
      <4>1. inbox \in Seq(Event) /\ mailbox \in Seq(Message) /\ Event \subseteq Message
              /\ lastIndexed \in Slots
        BY <1>0 DEF TypeOK, Message
      <4> QED
        BY <4>1, SeqMonotonic DEF Message
    <3> DEFINE q == Tail(inbox) \o mailbox
    <3>2. /\ Tail(inbox) \in Seq(Message) /\ Len(Tail(inbox)) = k - 1
          /\ \A i \in 1 .. k - 1 : Tail(inbox)[i] = inbox[i + 1]
      BY <2>2, <3>1, HeadTail
    <3>3. /\ q \in Seq(Message) /\ Len(q) = (k - 1) + Len(mailbox)
          /\ \A i \in 1 .. k - 1 : q[i] = Tail(inbox)[i]
          /\ \A i \in 1 .. Len(mailbox) : q[(k - 1) + i] = mailbox[i]
      BY <3>1, <3>2, ConcatIs
    <3>4. Queue' = Append(q, m)
      <4>1. Queue' = Tail(inbox) \o Append(mailbox, m)
        BY <2>1, <2>2 DEF Queue
      <4>2. Tail(inbox) \o Append(mailbox, m) = Append(Tail(inbox) \o mailbox, m)
        BY <3>1, <3>2
      <4> QED
        BY <4>1, <4>2
    <3>5. Len(inbox') = k - 1
      BY <2>2, <3>2
    <3> HIDE DEF q, m, n, k, N
    <3>6. Len(q) = N - 1
      BY <1>2, <2>3, <3>3
    <3>7. Len(Queue') = (N - 1) + 1 /\ Queue'[(N - 1) + 1] = m /\ \A i \in 1 .. N - 1 : Queue'[i] = q[i]
      BY <3>1, <3>3, <3>4, <3>6, AppendProperties
    <3>8. ASSUME NEW i \in 1 .. N - 1 PROVE q[i] = Queue[i + 1]
      <4>1. CASE i <= k - 1
        <5>1. i \in 1 .. k - 1 /\ i + 1 \in 1 .. k
          BY <1>2, <4>1
        <5> QED
          BY <1>2, <3>2, <3>3, <5>1
      <4>2. CASE ~(i <= k - 1)
        <5> DEFINE j == i - (k - 1)
        <5>1. j \in 1 .. Len(mailbox) /\ (k - 1) + j = i /\ k + j = i + 1
          BY <1>2, <4>2
        <5> HIDE DEF j
        <5>2. q[(k - 1) + j] = mailbox[j] /\ Queue[k + j] = mailbox[j]
          BY <1>2, <3>3, <5>1
        <5> QED
          BY <5>1, <5>2
      <4> QED
        BY <4>1, <4>2
    <3>9. (N - 1) + 1 = N
      BY <1>2
    <3> QED
      BY <3>5, <3>7, <3>8, <3>9
  <2>6. PICK c \in Nat : c = N
    BY <1>2
  <2>7. Follows(c)'
    <3>1. m.kind = "restart"
      OBVIOUS
    <3> HIDE DEF m, n, k, N
    <3>2. c \in (k - 1) + 1 .. N + 1 /\ c <= N /\ c + 1 .. N = {} /\ b - 1 = N
      <4>1. k \in Nat /\ N \in Nat /\ k <= N /\ b \in k + 1 .. N + 1
        BY <1>2, <1>3
      <4>2. b = N + 1
        BY <2>4, <4>1
      <4>3. c + 1 .. N = {}
        BY <2>6, <4>1
      <4> QED
        BY <2>6, <4>1, <4>2, <4>3
    <3>3. ASSUME NEW i \in 1 .. c - 1 PROVE Queue'[i] = Block((n + 1) + i)
      <4>1. i \in 1 .. N - 1 /\ i + 1 \in 1 .. b - 1 /\ n + (i + 1) = (n + 1) + i
        BY <1>2, <2>6, <3>2
      <4> QED
        BY <1>3, <2>5, <4>1
    <3>4. position' = (n + 1) + N - 1
      BY <1>2, <1>3, <2>2, <2>4
    <3> QED
      BY <2>3, <2>5, <2>6, <3>1, <3>2, <3>3, <3>4 DEF Follows, Block
  <2>8. CountsUpTo(Len(cursor))'
    BY <1>2, <2>3 DEF CountsUpTo
  <2>9. InStep'
    BY <1>4, <2>2, <2>7, <2>8 DEF InStep
  <2> QED
    BY <2>9 DEF StreamInv
<1>11. CASE HandleRollback
  <2>1. inbox # <<>> /\ Head(inbox).kind = "rollback"
    BY <1>11 DEF HandleRollback
  <2>2. k >= 1 /\ Head(inbox) = inbox[1]
    BY <1>0, <2>1, HeadTail DEF TypeOK
  <2>3. 1 \in 1 .. k /\ 1 \in 1 .. b - 1
    <3> HIDE DEF n, k, N
    <3> QED
      BY <1>2, <1>3, <2>2
  <2>4. Head(inbox) = Block(n + 1)
    BY <1>2, <1>3, <2>2, <2>3
  <2> QED
    BY <1>5, <2>1, <2>4
\* What the manager receives is a block or the request.
<1>12. ASSUME mailbox # <<>>, mailbox' = Tail(mailbox)
       PROVE  /\ Queue[k + 1] = Head(mailbox) /\ k + 1 <= N
              /\ IF b = k + 1 THEN Head(mailbox).kind = "restart" ELSE Head(mailbox).kind = "block"
  <2>1. Queue[k + 1] = Head(mailbox) /\ k + 1 <= N
    BY <1>0, <1>12, QueueTake
  <2>2. CASE b = k + 1
    BY <1>3, <2>1, <2>2
  <2>3. CASE b # k + 1
    <3>1. k + 1 \in 1 .. b - 1
      BY <1>2, <1>3, <2>3
    <3>2. Queue[k + 1] = Block(n + (k + 1))
      BY <1>3, <3>1
    <3> QED
      BY <1>5, <2>1, <2>3, <3>2
  <2> QED
    BY <2>1, <2>2, <2>3
<1>13. CASE Forward
  <2>1. /\ mailbox # <<>> /\ mailbox' = Tail(mailbox) /\ pc = "idle"
        /\ Head(mailbox).kind \in {"block", "rollback"}
        /\ inbox' = Append(inbox, Head(mailbox)) /\ UNCHANGED <<cursor, position, pc, tracked>>
    BY <1>4, <1>13 DEF Forward, Receives
  <2>2. b # k + 1
    BY <1>12, <2>1
  <2>3. Head(mailbox) \in Event
    <3>1. Head(mailbox) \in Message
      BY <1>0, <2>1, HeadTail DEF TypeOK
    <3> QED
      BY <2>1, <3>1 DEF Message, Event
  <2>4. Queue' = Queue /\ Len(inbox') = k + 1
    BY <1>0, <2>1, <2>3, QueueTake
  <2>5. b \in (k + 1) + 1 .. N + 1
    <3> HIDE DEF n, k, N
    <3> QED
      BY <1>2, <1>3, <2>2
  <2>6. Follows(b)'
    BY <1>3, <2>1, <2>4, <2>5 DEF Follows, Block
  <2>7. InStep'
    BY <1>4, <2>1, <2>6 DEF InStep, CountsUpTo
  <2> QED
    BY <2>7 DEF StreamInv
<1>14. CASE LoadStrategy
  BY <1>12, <1>14 DEF LoadStrategy, Receives
<1>15. CASE BeginRestart
  <2>1. /\ mailbox # <<>> /\ mailbox' = Tail(mailbox) /\ pc = "idle" /\ Head(mailbox).kind = "restart"
        /\ UNCHANGED <<inbox, cursor, position, tracked>> /\ pc' = "poisoning"
    BY <1>4, <1>15 DEF BeginRestart, Receives, strategyVars
  <2>2. b = k + 1
    BY <1>12, <2>1
  <2>3. /\ Len(Queue') = N - 1 /\ k + 1 <= N
        /\ \A i \in 1 .. k : Queue'[i] = Queue[i]
        /\ \A i \in k + 1 .. N - 1 : Queue'[i] = Queue[i + 1]
    BY <1>0, <2>1, QueueTake
  <2>4. PICK c \in Nat : c = N
    BY <1>2
  <2>5. Follows(c)'
    <3>0. Len(cursor') = n /\ Len(inbox') = k
      BY <2>1
    <3> HIDE DEF n, k, N
    <3>1. c \in k + 1 .. (N - 1) + 1 /\ ~(c <= N - 1) /\ c + 1 .. N - 1 = {}
      BY <1>2, <2>3, <2>4
    <3>2. ASSUME NEW i \in 1 .. c - 1 PROVE Queue'[i] = Block(n + i)
      <4>1. CASE i <= k
        <5>1. i \in 1 .. k /\ i \in 1 .. b - 1
          BY <1>2, <2>2, <4>1
        <5> QED
          BY <1>3, <2>3, <5>1
      <4>2. CASE ~(i <= k)
        <5>1. i \in k + 1 .. N - 1 /\ i + 1 \in b + 1 .. N /\ n + (i + 1) - 1 = n + i
          BY <1>2, <2>2, <2>4, <4>2
        <5> QED
          BY <1>3, <2>3, <5>1
      <4> QED
        BY <4>1, <4>2
    <3>3. position' = n + (N - 1) - 0
      BY <1>2, <1>3, <2>1, <2>2, <2>3
    <3> QED
      BY <2>3, <3>0, <3>1, <3>2, <3>3 DEF Follows, Block
  <2>6. c = Len(Queue') + 1
    BY <1>2, <2>3, <2>4
  <2>7. InStep'
    BY <1>4, <2>1, <2>5, <2>6 DEF InStep, CountsUpTo
  <2> QED
    BY <2>7 DEF StreamInv
<1>16. CASE StrategyStopped
  <2>1. UNCHANGED <<mailbox, inbox, cursor, position>> /\ inbox = <<>> /\ pc' = "cursor"
          /\ pc = "poisoning"
    BY <1>16 DEF StrategyStopped, strategyVars
  <2>2. Queue' = Queue
    BY <2>1 DEF Queue
  <2>3. Follows(b)'
    BY <1>1, <2>1, <2>2 DEF Follows, Block
  <2>4. InStep'
    BY <1>1, <1>4, <2>1, <2>2, <2>3 DEF InStep, CountsUpTo
  <2> QED
    BY <2>4 DEF StreamInv
<1>17. CASE RollbackCursor
  <2>1. /\ UNCHANGED <<mailbox, inbox, position>> /\ inbox = <<>> /\ pc' = "stopIndexer"
        /\ cursor' = CursorUpTo(restartSlot) /\ pc = "cursor"
    BY <1>4, <1>17 DEF RollbackCursor, strategyVars
  <2>2. restartSlot \in Nat
    BY <2>1, RestartSlotType, ManagerBounds DEF ManagerInv, Decided, Slots
  <2>3. PICK d \in 0 .. n : d = IF restartSlot <= n THEN restartSlot ELSE n
    BY <1>2, <2>2
  <2>4. Len(cursor') = d /\ \A i \in 1 .. d : cursor'[i] = i
    <3>1. \A i \in 1 .. d : cursor[i] = i /\ i <= restartSlot
      BY <1>2, <1>4, <2>2, <2>3
    <3>2. \A i \in d + 1 .. n : cursor[i] > restartSlot
      BY <1>2, <1>4, <2>2, <2>3
    <3> QED
      BY <1>0, <2>1, <2>2, <3>1, <3>2, CutCounts
  <2>5. b = N + 1 /\ k = 0 /\ Len(mailbox) = N
    <3>1. k = 0
      BY <2>1
    <3> QED
      BY <1>1, <1>2, <2>1, <3>1
  <2>6. ASSUME NEW i \in 1 .. Len(mailbox) PROVE mailbox[i].kind = "block" /\ mailbox[i].slot > d
    <3>1. i \in 1 .. b - 1 /\ k + i = i
      BY <1>2, <2>5
    <3>2. mailbox[i] = Block(n + i)
      BY <1>2, <1>3, <3>1
    <3>3. n + i > d
      BY <1>2, <2>3
    <3> QED
      BY <1>5, <3>2, <3>3
  <2>7. position >= d
    <3> HIDE DEF n, k, N
    <3> QED
      BY <1>2, <1>3, <2>3, <2>5
  <2>8. d <= Len(cursor')
    BY <1>2, <2>4
  <2>9. Cut'
    BY <2>1, <2>4, <2>6, <2>7, <2>8 DEF Cut, CountsUpTo
  <2> QED
    BY <2>9 DEF StreamInv
<1>18. CASE RollbackCursorFails
  BY <1>18 DEF RollbackCursorFails, StreamInv
<1>19. PassBlock \/ RootsAgree \/ RootMismatch => HandleBlock /\ mailbox' = mailbox
  BY DEF PassBlock, RootsAgree, RootMismatch
<1>20. ~StopIndexer /\ ~StartIndexer /\ ~StartIndexerFails /\ ~StartStrategy
  BY <1>4 DEF StopIndexer, StartIndexer, StartIndexerFails, StartStrategy
<1> QED
  BY <1>6, <1>7, <1>9, <1>10, <1>11, <1>13, <1>14, <1>15, <1>16, <1>17, <1>18, <1>19, <1>20
     DEF Next, Strategy, Manager

LEMMA RewindingStep ==
  ASSUME ManagerInv, Rewinding, ~callFailed, "again" \notin Faults, Next
  PROVE  StreamInv'
<1>0. TypeOK
  BY DEF ManagerInv
<1>1. PICK b \in Nat, r \in Nat : Rewinds(b, r)
  BY DEF Rewinding
<1> DEFINE n == Len(cursor)
           k == Len(inbox)
           N == Len(Queue)
<1>2. /\ k \in Nat /\ N \in Nat /\ n \in Nat /\ N = k + Len(mailbox) /\ Len(mailbox) \in Nat
      /\ \A i \in 1 .. k : Queue[i] = inbox[i]
      /\ \A i \in 1 .. Len(mailbox) : Queue[k + i] = mailbox[i]
  BY <1>0, QueueIs
<1>3. /\ b \in 1 .. N /\ Queue[b] = Rewound(r)
      /\ r <= n /\ \A i \in 1 .. r : cursor[i] = i
      /\ \A i \in r + 1 .. n : cursor[i] > r
      /\ \A i \in 1 .. b - 1 : Queue[i].kind = "block" /\ Queue[i].slot > r
      /\ \A i \in b + 1 .. N : Queue[i] = Block(r + i - b)
      /\ position = r + N - b
  BY <1>1 DEF Rewinds, CountsUpTo
<1>4. /\ pc \in {"idle", "startStrategy"} /\ (pc = "idle" => tracked)
      /\ (pc = "startStrategy" => inbox = <<>>)
  BY DEF Rewinding
<1>5. /\ \A i : Block(i).kind = "block" /\ Block(i).slot = i
      /\ Rewound(r).kind = "rollback" /\ Rewound(r).slot = r
  BY DEF Block, Rewound
<1>6. CASE Tick
  BY <1>6, StreamUnchanged DEF Tick, StreamInv, strategyVars
<1>7. CASE StreamBlock
  <2>1. /\ position' = position + 1 /\ mailbox' = Append(mailbox, Block(position + 1))
        /\ Block(position + 1) \in Message
        /\ UNCHANGED <<inbox, cursor, pc, tracked>>
    BY <1>0, <1>7, StreamedBlock
  <2>2. /\ Len(Queue') = N + 1 /\ Queue'[N + 1] = Block(position + 1)
        /\ \A i \in 1 .. N : Queue'[i] = Queue[i]
    BY <1>0, <2>1, QueueAppend
  <2>3. Rewinds(b, r)'
    <3>0. Len(cursor') = n /\ cursor' = cursor
      BY <2>1
    <3> HIDE DEF n, k, N
    <3>1. b \in 1 .. N + 1 /\ Queue'[b] = Rewound(r)
      BY <1>2, <1>3, <2>2
    <3>2. ASSUME NEW i \in 1 .. b - 1 PROVE Queue'[i].kind = "block" /\ Queue'[i].slot > r
      <4>1. i \in 1 .. N
        BY <1>2, <1>3
      <4> QED
        BY <1>3, <2>2, <4>1
    <3>3. ASSUME NEW i \in b + 1 .. N + 1 PROVE Queue'[i] = Block(r + i - b)
      <4>1. CASE i = N + 1
        <5>1. position + 1 = r + i - b
          BY <1>2, <1>3, <4>1
        <5> QED
          BY <2>2, <4>1, <5>1
      <4>2. CASE i # N + 1
        <5>0. N \in Nat /\ b \in 1 .. N
          BY <1>2, <1>3
        <5>1. i \in b + 1 .. N /\ i \in 1 .. N
          BY <4>2, <5>0
        <5> QED
          BY <1>3, <2>2, <5>1
      <4> QED
        BY <4>1, <4>2
    <3>4. position' = r + (N + 1) - b
      BY <1>2, <1>3, <2>1
    <3> QED
      BY <1>3, <2>2, <3>0, <3>1, <3>2, <3>3, <3>4 DEF Rewinds, CountsUpTo, Block, Rewound
  <2>4. Rewinding'
    BY <1>4, <2>1, <2>3 DEF Rewinding
  <2> QED
    BY <2>4 DEF StreamInv
<1>8. ASSUME HandleBlock, mailbox' = mailbox
      PROVE  StreamInv'
  <2>1. /\ Len(cursor') = n + 1 /\ cursor'[n + 1] = Head(inbox).slot
        /\ \A i \in 1 .. n : cursor'[i] = cursor[i]
        /\ inbox # <<>> /\ inbox' = Tail(inbox) /\ Head(inbox).kind = "block"
        /\ UNCHANGED <<position, pc, tracked>>
    BY <1>0, <1>8, HandledBlock
  <2>2. /\ Len(Queue') = N - 1 /\ Queue[1] = Head(inbox)
        /\ \A i \in 1 .. N - 1 : Queue'[i] = Queue[i + 1]
    BY <1>0, <1>8, <2>1, QueueTail
  <2>3. b # 1
    BY <1>3, <1>5, <2>1, <2>2
  <2>4. PICK c \in Nat : c = b - 1
    BY <1>3, <2>3
  <2>5. Rewinds(c, r)'
    <3> HIDE DEF n, k, N
    <3>1. c \in 1 .. N - 1 /\ c + 1 = b /\ 1 \in 1 .. b - 1
      BY <1>2, <1>3, <2>3, <2>4
    <3>2. Queue'[c] = Rewound(r) /\ Head(inbox).slot > r
      BY <1>3, <2>2, <3>1
    <3>3. r <= n + 1 /\ \A i \in 1 .. r : cursor'[i] = i
      BY <1>2, <1>3, <2>1
    <3>4. ASSUME NEW i \in r + 1 .. n + 1 PROVE cursor'[i] > r
      <4>1. i = n + 1 \/ (i \in r + 1 .. n /\ i \in 1 .. n)
        BY <1>2
      <4> QED
        BY <1>3, <2>1, <3>2, <4>1
    <3>5. ASSUME NEW i \in 1 .. c - 1 PROVE Queue'[i].kind = "block" /\ Queue'[i].slot > r
      <4>1. i \in 1 .. N - 1 /\ i + 1 \in 1 .. b - 1
        BY <1>2, <3>1
      <4> QED
        BY <1>3, <2>2, <4>1
    <3>6. ASSUME NEW i \in c + 1 .. N - 1 PROVE Queue'[i] = Block(r + i - c)
      <4>1. i \in 1 .. N - 1 /\ i + 1 \in b + 1 .. N /\ r + (i + 1) - b = r + i - c
        BY <1>2, <3>1
      <4> QED
        BY <1>3, <2>2, <4>1
    <3>7. position' = r + (N - 1) - c
      <4>1. position' = r + N - b /\ N \in Nat /\ c + 1 = b
        BY <1>2, <1>3, <2>1, <3>1
      <4> QED
        BY <4>1
    <3> QED
      BY <2>1, <2>2, <3>1, <3>2, <3>3, <3>4, <3>5, <3>6, <3>7
         DEF Rewinds, CountsUpTo, Block, Rewound
  <2>6. Rewinding'
    BY <1>4, <2>1, <2>5 DEF Rewinding
  <2> QED
    BY <2>6 DEF StreamInv
<1>9. ~TriggerIndexerRestart
  <2> SUFFICES ASSUME Settled PROVE FALSE
    BY DEF TriggerIndexerRestart
  <2>1. CASE b <= k
    <3>1. b \in 1 .. k
      BY <1>2, <1>3, <2>1
    <3> QED
      BY <1>2, <1>3, <1>5, <3>1 DEF Settled
  <2>2. CASE ~(b <= k)
    <3> DEFINE j == b - k
    <3>1. j \in 1 .. Len(mailbox) /\ k + j = b
      BY <1>2, <1>3, <2>2
    <3> HIDE DEF j
    <3>2. Queue[k + j] = mailbox[j] /\ mailbox[j].kind = "block"
      BY <1>2, <3>1 DEF Settled
    <3> QED
      BY <1>3, <1>5, <3>1, <3>2
  <2> QED
    BY <2>1, <2>2
<1>10. CASE HandleRollback
  <2>1. /\ inbox # <<>> /\ inbox' = Tail(inbox) /\ Head(inbox).kind = "rollback"
        /\ cursor' = CursorUpTo(Head(inbox).slot) /\ UNCHANGED <<mailbox, position, pc, tracked>>
    BY <1>10 DEF HandleRollback
  <2>2. /\ Len(Queue') = N - 1 /\ Queue[1] = Head(inbox) /\ Len(inbox') = k - 1 /\ k >= 1
        /\ \A i \in 1 .. N - 1 : Queue'[i] = Queue[i + 1]
    BY <1>0, <2>1, QueueTail
  <2>3. b = 1
    <3>1. b # 1 => 1 \in 1 .. b - 1
      BY <1>2, <1>3
    <3> QED
      BY <1>3, <2>1, <2>2, <3>1
  <2>4. Head(inbox).slot = r
    BY <1>3, <1>5, <2>2, <2>3
  <2>5. Len(cursor') = r /\ \A i \in 1 .. r : cursor'[i] = i
    <3>1. r \in 0 .. n /\ \A i \in 1 .. r : cursor[i] = i /\ i <= r
      BY <1>2, <1>3
    <3> QED
      BY <1>0, <1>3, <2>1, <2>4, <3>1, CutCounts
  <2>6. PICK c \in Nat : c = N
    BY <1>2
  <2>7. Follows(c)'
    <3> HIDE DEF n, k, N
    <3>1. c \in (k - 1) + 1 .. (N - 1) + 1 /\ ~(c <= N - 1)
      BY <1>2, <2>2, <2>6
    <3>2. c + 1 .. N - 1 = {}
      BY <1>2, <2>6
    <3>3. ASSUME NEW i \in 1 .. c - 1 PROVE Queue'[i] = Block(r + i)
      <4>1. i \in 1 .. N - 1 /\ i + 1 \in b + 1 .. N /\ r + (i + 1) - b = r + i
        BY <1>2, <2>3, <2>6
      <4> QED
        BY <1>3, <2>2, <4>1
    <3>4. position' = r + (N - 1) - 0
      BY <1>2, <1>3, <2>1, <2>3
    <3> QED
      BY <2>2, <2>5, <3>1, <3>2, <3>3, <3>4 DEF Follows, Block
  <2>8. CountsUpTo(Len(cursor))'
    BY <2>5 DEF CountsUpTo
  <2>9. pc' = "idle" /\ tracked'
    BY <1>4, <2>1
  <2>10. InStep'
    BY <2>7, <2>8, <2>9 DEF InStep
  <2> QED
    BY <2>10 DEF StreamInv
\* What the manager receives is a block or the rollback.
<1>11. ASSUME mailbox # <<>>, mailbox' = Tail(mailbox)
       PROVE  Head(mailbox).kind \in {"block", "rollback"}
  <2>1. Queue[k + 1] = Head(mailbox) /\ k + 1 <= N
    BY <1>0, <1>11, QueueTake
  <2>2. k + 1 \in 1 .. b - 1 \/ k + 1 = b \/ k + 1 \in b + 1 .. N
    <3> HIDE DEF n, k, N
    <3> QED
      BY <1>2, <1>3, <2>1
  <2> QED
    BY <1>3, <1>5, <2>1, <2>2
<1>12. CASE Forward
  <2>1. /\ mailbox # <<>> /\ mailbox' = Tail(mailbox) /\ pc = "idle"
        /\ Head(mailbox).kind \in {"block", "rollback"}
        /\ inbox' = Append(inbox, Head(mailbox)) /\ UNCHANGED <<cursor, position, pc, tracked>>
    BY <1>4, <1>12 DEF Forward, Receives
  <2>2. Head(mailbox) \in Event
    <3>1. Head(mailbox) \in Message
      BY <1>0, <2>1, HeadTail DEF TypeOK
    <3> QED
      BY <2>1, <3>1 DEF Message, Event
  <2>3. Queue' = Queue
    BY <1>0, <2>1, <2>2, QueueTake
  <2>4. Rewinds(b, r)'
    BY <1>1, <2>1, <2>3 DEF Rewinds, CountsUpTo, Block, Rewound
  <2>5. Rewinding'
    BY <1>4, <2>1, <2>4 DEF Rewinding
  <2> QED
    BY <2>5 DEF StreamInv
<1>13. ~LoadStrategy /\ ~BeginRestart
  BY <1>11 DEF LoadStrategy, BeginRestart, Receives
<1>14. CASE StartStrategy
  <2>1. UNCHANGED <<mailbox, inbox, cursor, position>> /\ pc' = "idle" /\ tracked'
    BY <1>14 DEF StartStrategy
  <2>2. Queue' = Queue
    BY <2>1 DEF Queue
  <2>3. Rewinds(b, r)'
    BY <1>1, <2>1, <2>2 DEF Rewinds, CountsUpTo, Block, Rewound
  <2>4. Rewinding'
    BY <2>1, <2>3 DEF Rewinding
  <2> QED
    BY <2>4 DEF StreamInv
<1>15. PassBlock \/ RootsAgree \/ RootMismatch => HandleBlock /\ mailbox' = mailbox
  BY DEF PassBlock, RootsAgree, RootMismatch
<1>16. /\ ~StrategyStopped /\ ~RollbackCursor /\ ~RollbackCursorFails
       /\ ~StopIndexer /\ ~StartIndexer /\ ~StartIndexerFails
  BY <1>4 DEF StrategyStopped, RollbackCursor, RollbackCursorFails, StopIndexer, StartIndexer,
              StartIndexerFails
<1> QED
  BY <1>6, <1>7, <1>8, <1>9, <1>10, <1>12, <1>13, <1>14, <1>15, <1>16 DEF Next, Strategy, Manager

LEMMA FailureIsRemembered == callFailed /\ [Next]_vars => callFailed'
BY DEF Next, vars, Tick, StreamBlock, Strategy, PassBlock, RootsAgree, RootMismatch,
       TriggerIndexerRestart, HandleBlock, HandleRollback, Manager, Forward, LoadStrategy,
       BeginRestart, StrategyStopped, RollbackCursor, RollbackCursorFails, StopIndexer,
       StartIndexer, StartIndexerFails, StartStrategy

\* Unless a call of the manager failed, a new indexer resumes behind a point
\* up to which every block has been indexed, however many blocks, requests
\* and messages there are: as long as the strategy does not ask again while
\* a restart is under way (the run SecondRestart shows what happens then).
THEOREM ResumesBehind ==
  ASSUME "again" \notin Faults
  PROVE  Spec => []ResumesBehindIndexed
<1>1. Init => StreamInv
  <2> SUFFICES ASSUME Init PROVE Loading
    BY DEF StreamInv
  <2>1. mailbox = <<[kind |-> "load"], [kind |-> "rollback", slot |-> 0]>>
    BY DEF Init
  <2>2. /\ Len(mailbox) = 2 /\ mailbox[1] = [kind |-> "load"]
        /\ mailbox[2] = [kind |-> "rollback", slot |-> 0]
    BY <2>1
  <2>3. \A i \in 3 .. Len(mailbox) : FALSE
    BY <2>2
  <2> QED
    BY <2>2, <2>3 DEF Init, Loading, Rewound
<1>2. ManagerInv /\ StreamInv /\ [Next]_vars => StreamInv'
  <2> SUFFICES ASSUME ManagerInv, StreamInv, [Next]_vars PROVE StreamInv'
    OBVIOUS
  <2>1. CASE callFailed
    BY <2>1, FailureIsRemembered DEF StreamInv
  <2>2. CASE UNCHANGED vars
    BY <2>2, StreamUnchanged DEF vars, strategyVars
  <2>3. CASE Next /\ ~callFailed
    BY <2>3, LoadingStep, InStepStep, CutStep, RewindingStep DEF StreamInv
  <2> QED
    BY <2>1, <2>2, <2>3
<1>3. ManagerInv /\ StreamInv => ResumesBehindIndexed
  <2> SUFFICES ASSUME ManagerInv, StreamInv, pc = "startIndexer", ~callFailed
               PROVE  ToSet(cursor) = 1 .. LatestCursor
    BY DEF ResumesBehindIndexed
  <2>1. Cut
    BY DEF StreamInv, Loading, InStep, Rewinding
  <2>2. cursor \in Seq(Slots) /\ Len(cursor) \in Nat /\ DOMAIN cursor = 1 .. Len(cursor)
    BY DEF ManagerInv, TypeOK
  <2>3. \A i \in 1 .. Len(cursor) : cursor[i] = i
    BY <2>1 DEF Cut, CountsUpTo
  <2>4. LatestCursor = Len(cursor)
    <3>1. cursor = <<>> <=> Len(cursor) = 0
      BY <2>2
    <3> QED
      BY <2>2, <2>3, <3>1 DEF LatestCursor, Last
  <2> QED
    BY <2>2, <2>3, <2>4 DEF ToSet
<1> QED
  BY <1>1, <1>2, <1>3, ManagerInvHolds, PTL DEF Spec
=============================================================================
