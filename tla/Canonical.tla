------------------------------ MODULE Canonical ------------------------------
(***************************************************************************)
(* CanonicalizeJSON of internal/database/trie.go: equal numbers, whichever *)
(* way they are written and as a number or as a string, get one canonical  *)
(* form, the string "num/den".  The hash of a value is that of its         *)
(* canonical form, which stands for it here.                               *)
(*                                                                         *)
(* A numeral is a sign, its digits without the point read as a number, the *)
(* number of decimals and the exponent.  Nesting is one level deep.        *)
(***************************************************************************)
EXTENDS Integers

CONSTANTS
    JsonValues,     \* the values the properties are about
    MaxExponent     \* the greatest exponent that strconv.ParseInt accepts

ASSUME CanonicalAssumption == MaxExponent \in Nat

\* A JSON number; a string that is exactly a numeral; the string "num/den",
\* which is none; any other string, true, false or null; and collections.
Number(n) == [kind |-> "number", n |-> n]
NumericString(n) == [kind |-> "numeric", n |-> n]
Fraction(num, den) == [kind |-> "fraction", num |-> num, den |-> den]
Text(s) == [kind |-> "text", s |-> s]
Array(elems) == [kind |-> "array", elems |-> elems]
Object(fields) == [kind |-> "object", fields |-> fields]

-----------------------------------------------------------------------------
gcd[p \in Nat \X Nat] == IF p[2] = 0 THEN p[1] ELSE gcd[<<p[2], p[1] % p[2]>>]

\* big.Rat: SetFrac reduces the fraction.
SetFrac_Unreduced(num, den) == Fraction(num, den)
SetFrac(num, den) ==
    LET g == gcd[<<IF num < 0 THEN -num ELSE num, den>>]
    IN Fraction(IF num < 0 THEN -(-num \div g) ELSE num \div g, den \div g)

pow10(n) == IF n <= 0 THEN 1 ELSE 10 ^ n

Signed(n) == IF n.neg THEN -n.digits ELSE n.digits

parseJSONNumberToRat(n) ==
    SetFrac(Signed(n) * pow10(n.exp), pow10(n.decimals) * pow10(-n.exp))

\* fractionStringFromString succeeds.
Parses(n) == n.exp \in -MaxExponent .. MaxExponent
IsNumeral(v) == v.kind \in {"number", "numeric"} /\ Parses(v.n)

EncodeScalar(v) == IF IsNumeral(v) THEN parseJSONNumberToRat(v.n) ELSE v

\* The fields of an object are written in the order of their names.
EncodeCanonical(v) ==
    CASE v.kind = "array" -> Array([i \in DOMAIN v.elems |-> EncodeScalar(v.elems[i])])
      [] v.kind = "object" -> Object([f \in DOMAIN v.fields |-> EncodeScalar(v.fields[f])])
      [] OTHER -> EncodeScalar(v)

\* ValueHash, up to Blake2b.
ValueHash(v) == EncodeCanonical(v)

-----------------------------------------------------------------------------
(* What the hash has to tell apart.                                        *)

\* The value of a numeral is Signed(n) times ten to the power of Shift(n).
Shift(n) == n.exp - n.decimals
SameNumber(m, n) ==
    Signed(m) * pow10(Shift(m) - Shift(n)) = Signed(n) * pow10(Shift(n) - Shift(m))

\* String f spells, in lowest terms, the number n.
Spells(f, n) ==
    /\ f.kind = "fraction" /\ f.den > 0
    /\ gcd[<<IF f.num < 0 THEN -f.num ELSE f.num, f.den>>] = 1
    /\ f.num * pow10(-Shift(n)) = f.den * Signed(n) * pow10(Shift(n))

SameScalar(a, b) ==
    \/ a = b
    \/ IsNumeral(a) /\ IsNumeral(b) /\ SameNumber(a.n, b.n)
    \/ IsNumeral(a) /\ Spells(b, a.n)
    \/ IsNumeral(b) /\ Spells(a, b.n)

SameValue(a, b) ==
    CASE a.kind = "array" /\ b.kind = "array" ->
            /\ DOMAIN a.elems = DOMAIN b.elems
            /\ \A i \in DOMAIN a.elems : SameScalar(a.elems[i], b.elems[i])
      [] a.kind = "object" /\ b.kind = "object" ->
            /\ DOMAIN a.fields = DOMAIN b.fields
            /\ \A f \in DOMAIN a.fields : SameScalar(a.fields[f], b.fields[f])
      [] OTHER -> SameScalar(a, b)

\* Two values have one hash exactly when they are the same number, however
\* it is written, or the same text; the one text that a number is confused
\* with is its own fraction ("1/2" and 0.5).
HashDecides == \A a, b \in JsonValues : ValueHash(a) = ValueHash(b) <=> SameValue(a, b)

\* A canonical value keeps its hash.
HashIsStable == \A a \in JsonValues : ValueHash(ValueHash(a)) = ValueHash(a)
=============================================================================
