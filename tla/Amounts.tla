------------------------------- MODULE Amounts -------------------------------
(***************************************************************************)
(* The arithmetic of utils/tokenUnits and utils/moneyScale: amounts are    *)
(* integers that count units of 10^-decimals.  A decimal text is its sign, *)
(* the number before the point, and the digits after it, as a number and   *)
(* their count.                                                            *)
(***************************************************************************)
EXTENDS Integers

Pow10[n \in Nat] == IF n = 0 THEN 1 ELSE 10 * Pow10[n - 1]

Text == [negative : BOOLEAN, whole : Nat, fraction : Nat, digits : Nat]

(***************************************************************************)
(* An integer of scale `from` cut or padded to scale `to`.                 *)
(***************************************************************************)
Rescale(n, from, to) ==
    IF from <= to THEN n * Pow10[to - from] ELSE n \div Pow10[from - to]

ScaledFromUnits(raw, decimals, scale) == Rescale(raw, decimals, scale)

\* Mutant of AddRawAmounts: the amounts are netted.
SubtractRawAmounts(left, leftDecimals, right, rightDecimals) ==
    [ raw |-> left - right, decimals |-> leftDecimals ]

AddRawAmounts(left, leftDecimals, right, rightDecimals) ==
    IF leftDecimals >= rightDecimals
    THEN [ raw |-> left * Pow10[leftDecimals - rightDecimals] + right, decimals |-> leftDecimals ]
    ELSE [ raw |-> left + right * Pow10[rightDecimals - leftDecimals], decimals |-> rightDecimals ]

\* Mutant of FormatDecimal: the digits after the point are not padded.
FormatDecimalUnpadded(n, scale, digits) ==
    LET magnitude == IF n < 0 THEN - n ELSE n
        fraction  == Rescale(magnitude % Pow10[scale], scale, digits)
    IN  [ negative |-> n < 0, whole |-> magnitude \div Pow10[scale], fraction |-> fraction,
          digits |-> IF fraction < 10 /\ digits > 1 THEN 1 ELSE digits ]

(***************************************************************************)
(* formatUnitsToFixed and formatScaledBigintToDecimal.                     *)
(***************************************************************************)
FormatDecimal(n, scale, digits) ==
    LET magnitude == IF n < 0 THEN - n ELSE n
    IN  [ negative |-> n < 0,
          whole    |-> magnitude \div Pow10[scale],
          fraction |-> Rescale(magnitude % Pow10[scale], scale, digits),
          digits   |-> digits ]

(***************************************************************************)
(* parseDecimalToScaledBigint and, with the sign, decimalTextToScaled-     *)
(* Bigint.                                                                 *)
(***************************************************************************)
ParseDecimal(text, scale) ==
    LET magnitude == text.whole * Pow10[scale] + Rescale(text.fraction, text.digits, scale)
    IN  IF text.negative THEN - magnitude ELSE magnitude

(***************************************************************************)
(* ColumnNumericTransformer, around a DECIMAL column.                      *)
(***************************************************************************)
ColumnTo(n, scale) == FormatDecimal(n, scale, scale)

ColumnFrom(text, scale) == ParseDecimal(text, scale)

=============================================================================
