------------------------------ MODULE SeqSelect ------------------------------
(***************************************************************************)
(* The rows of a table, in the order of their ids, that a condition keeps. *)
(***************************************************************************)
EXTENDS Naturals, Sequences

\* What the first i elements of s leave, for every i.
OnlyUpTo(s, S) ==
    LET only[i \in 0 .. Len(s)] ==
            IF i = 0 THEN <<>>
            ELSE IF s[i] \in S THEN Append(only[i - 1], s[i]) ELSE only[i - 1]
    IN only

\* The elements of s that are in S, in their order.
Only(s, S) == OnlyUpTo(s, S)[Len(s)]
=============================================================================
