----------------------------- MODULE MCOracleFile -----------------------------
(* OracleFile for TLC, with one number written two ways and a text, and    *)
(* Canonical over all numerals of up to two digits.                        *)
EXTENDS OracleFile, TLC

Numeral(digits, decimals) == [neg |-> FALSE, digits |-> digits, decimals |-> decimals, exp |-> 0]

MCRaws == {NumericString(Numeral(2, 0)), NumericString(Numeral(20, 1)), Text("x")}

\* Exponent 2 does not parse; a number that does not is refused before.
Numerals == [neg : BOOLEAN, digits : {0, 1, 2, 3, 5, 10, 12, 20, 25, 50}, decimals : 0 .. 2, exp : -1 .. 2]
Scalars == {NumericString(n) : n \in Numerals}
             \cup {Number(n) : n \in {m \in Numerals : Parses(m)}}
             \cup {Fraction(1, 2), Fraction(2, 4), Fraction(-1, 2), Fraction(2, 1)}
             \cup {Text("x"), Text("true")}
Few == {NumericString(Numeral(2, 0)), Number(Numeral(20, 1)), Text("x")}

MCJsonValues == Scalars \cup {Array(s) : s \in UNION {[1 .. n -> Few] : n \in 0 .. 2}}
                        \cup {Object(f) : f \in UNION {[D -> Few] : D \in SUBSET {"a", "b"}}}

\* Keys are only compared for equality.
Symmetry == Permutations(Keys)
=============================================================================
