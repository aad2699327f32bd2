--------------------------- MODULE IntegerHeader ----------------------------
(***************************************************************************)
(* parse_integer_header_value: the integer a decimal text with a fraction  *)
(* and an exponent denotes, computed on its digits so that nothing         *)
(* overflows, or none if it is no integer or outside the safe range.       *)
(*                                                                         *)
(* The code's base is 10, MaxSafe 2^53 - 1 and MaxI64 2^63 - 1.            *)
(*                                                                         *)
(* Code: contextforge-data-plane-lib/src/mcp_standard_headers.rs.          *)
(***************************************************************************)
EXTENDS Integers, Sequences

CONSTANTS Base, MaxSafe, MaxI64, NoInteger

ASSUME IntegerHeaderAssumption ==
    /\ Base \in Nat \ {0, 1}
    /\ MaxSafe \in Nat \ {0}
    /\ MaxI64 \in Nat
    /\ NoInteger \notin Int

\* A text as the splits at the sign, the e and the point leave it. In "word" is
\* a text that is no decimal number at all.
Text(word, sign, whole, point, fraction, exponent) ==
    [word |-> word, sign |-> sign, whole |-> whole, point |-> point,
     fraction |-> fraction, exponent |-> exponent]

HeaderText ==
    [word : STRING, sign : {"", "-"}, whole : Seq(0..(Base - 1)), point : BOOLEAN,
     fraction : Seq(0..(Base - 1)), exponent : Int]

Word(w)     == Text(w, "", <<>>, FALSE, <<>>, 0)
Plain(s, w) == Text("", s, w, FALSE, <<>>, 0)

AllZero(digits) == \A i \in DOMAIN digits : digits[i] = 0

Power[k \in Nat] == IF k = 0 THEN 1 ELSE Base * Power[k - 1]

\* The number that digits denote, most significant first.
Number(digits) ==
    LET first[k \in 0..Len(digits)] == IF k = 0 THEN 0 ELSE first[k - 1] * Base + digits[k]
    IN  first[Len(digits)]

\* trim_start_matches('0')
Trim(digits) ==
    LET nonzero == {i \in DOMAIN digits : digits[i] # 0} IN
    IF nonzero = {} THEN <<>>
    ELSE SubSeq(digits, CHOOSE i \in nonzero : \A j \in nonzero : i <= j, Len(digits))

\* The number of digits of MAX_SAFE_INTEGER.
SafeLength == CHOOSE k \in 1..MaxSafe : Power[k - 1] <= MaxSafe /\ MaxSafe < Power[k]

Scale(t) == Len(t.fraction) - t.exponent

\* The exponent parses as an i64, and the scale is one.
Fits(t) == t.exponent \in (-MaxI64 - 1)..MaxI64 /\ Scale(t) <= MaxI64

WellFormed(t) ==
    /\ t.word = ""
    /\ t.whole # <<>>
    /\ t.point <=> t.fraction # <<>>

\* Mutant: leading zeros count against the length of the largest safe integer.
ParseInteger_CountsZeros(t) ==
    LET digits   == t.whole \o t.fraction
        end      == Len(digits) - Scale(t)
        kept     == SubSeq(digits, 1, IF Scale(t) > 0 THEN end ELSE Len(digits))
        trailing == IF Scale(t) > 0 THEN 0 ELSE -Scale(t)
    IN  IF ~WellFormed(t) \/ ~Fits(t) THEN NoInteger
        ELSE IF end < 0 THEN IF AllZero(digits) THEN 0 ELSE NoInteger
        ELSE IF ~AllZero(SubSeq(digits, Len(kept) + 1, Len(digits))) THEN NoInteger
        ELSE IF Len(kept) + trailing > SafeLength THEN NoInteger
        ELSE IF Number(kept) * Power[trailing] > MaxSafe THEN NoInteger
        ELSE (IF t.sign = "-" THEN -1 ELSE 1) * Number(kept) * Power[trailing]

ParseInteger(t) ==
    LET digits   == t.whole \o t.fraction
        end      == Len(digits) - Scale(t)
        kept     == Trim(SubSeq(digits, 1, IF Scale(t) > 0 THEN end ELSE Len(digits)))
        trailing == IF Scale(t) > 0 THEN 0 ELSE -Scale(t)
    IN  IF ~WellFormed(t) \/ ~Fits(t) THEN NoInteger
        ELSE IF end < 0 THEN IF AllZero(digits) THEN 0 ELSE NoInteger
        ELSE IF Scale(t) > 0 /\ ~AllZero(SubSeq(digits, end + 1, Len(digits))) THEN NoInteger
        ELSE IF kept = <<>> THEN 0
        ELSE IF Len(kept) + trailing > SafeLength THEN NoInteger
        ELSE IF Number(kept) * Power[trailing] > MaxSafe THEN NoInteger
        ELSE (IF t.sign = "-" THEN -1 ELSE 1) * Number(kept) * Power[trailing]

-----------------------------------------------------------------------------

\* The reference: v is what the text denotes, mantissa times a power of the base.
Denotes(t, v) ==
    LET m == (IF t.sign = "-" THEN -1 ELSE 1) * Number(t.whole \o t.fraction) IN
    /\ WellFormed(t)
    /\ IF Scale(t) > 0 THEN v * Power[Scale(t)] = m ELSE v = m * Power[-Scale(t)]

SafeInteger == -MaxSafe..MaxSafe

\* The safe integer a text denotes, if there is one.
Denoted(t) ==
    LET values == {v \in SafeInteger : Denotes(t, v)} IN
    IF values = {} THEN NoInteger ELSE CHOOSE v \in values : TRUE

=============================================================================
