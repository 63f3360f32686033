---------------------------- MODULE OracleHistory ----------------------------
(***************************************************************************)
(* What the oracle database promises, without tables, tries or rollback    *)
(* statements: a history that gives, for every slot, the key/value pairs   *)
(* the oracle had at that slot, and a current state.  Confirmed updates    *)
(* are added at the end, a chain rollback cuts the history at a slot.      *)
(*                                                                         *)
(* A state of the oracle is a relation, a set of <<key, value>> pairs.     *)
(***************************************************************************)
EXTENDS Naturals

CONSTANTS Keys, Values,
          MaxSlot       \* the last slot of the bounded chain

Slots == 0 .. MaxSlot

VARIABLES current,      \* the pairs of the oracle now
          history       \* history[s]: the pairs of the oracle at slot s

vars == <<current, history>>

TypeOK ==
    /\ current \in SUBSET (Keys \X Values)
    /\ history \in [Slots -> SUBSET (Keys \X Values)]

Init ==
    /\ current = {}
    /\ history = [s \in Slots |-> {}]

\* An update at slot s replaces the values of the keys it touches; it can
\* only be newer than, or as new as, everything already recorded.
Publish(s, touched, put) ==
    /\ \A t \in Slots : t >= s => history[t] = current
    /\ current' = {p \in current : p[1] \notin touched} \cup put
    /\ history' = [t \in Slots |-> IF t < s THEN history[t] ELSE current']

\* A rollback to slot c makes the oracle what it was at c, and forgets
\* what came after.
RollBack(c) ==
    /\ current' = history[c]
    /\ history' = [t \in Slots |-> IF t <= c THEN history[t] ELSE history[c]]

Next ==
    \/ \E s \in Slots, touched \in SUBSET Keys :
          \E put \in SUBSET (touched \X Values) : Publish(s, touched, put)
    \/ \E c \in Slots : RollBack(c)

Spec == Init /\ [][Next]_vars

=============================================================================
