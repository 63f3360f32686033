------------------------------ MODULE MCReadApi ------------------------------
(* ReadApi on two keys of one object and one of another, for TLC.          *)
EXTENDS ReadApi, TLC

CONSTANTS k1, k2, k3

MCKeys == {k1, k2, k3}
MCObjectOf == [k \in Keys |-> IF k = k3 THEN 1 ELSE 2]

\* Values, cids and the two keys of one object are only compared for equality.
Symmetry == Permutations(Values) \cup Permutations(Cids) \cup Permutations({k1, k2})
=============================================================================
