----------------------------- MODULE MCTrieStore -----------------------------
(* TrieStore on two keys of two objects, for TLC.                          *)
EXTENDS TrieStore, TLC

CONSTANTS k1, k2, o1, o2

MCKeys == {k1, k2}
MCObjects == {o1, o2}
MCObjectOf == [k \in Keys |-> IF k = k1 THEN o1 ELSE o2]

\* Values and cids are only compared for equality.
Symmetry == Permutations(Values) \cup Permutations(Cids)
=============================================================================
