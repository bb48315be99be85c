------------------------------ MODULE Decimals ------------------------------
(***************************************************************************)
(* Amounts.  A Decimal is unscaled * 10^exponent, the unscaled part a      *)
(* signed integer of fixed width (64 bits) and the exponent within a fixed *)
(* range (-8..8).  A starter reads a plain decimal text into a Decimal,    *)
(* t-0 carries it, and the other side prints it or turns it into the       *)
(* smallest unit of a chain's token.  Java's starter also takes a computed *)
(* BigDecimal.  An amount is followed from the text, the BigDecimal or t-0 *)
(* to what is shown; the width and the range are constants, so that the    *)
(* edges of both are within reach.                                         *)
(***************************************************************************)
EXTENDS Integers, Sequences, FiniteSetsExt

CONSTANTS
    IntMax,      \* INT64_MAX, scaled down; INT64_MIN is -IntMax - 1
    MaxExponent, \* the contract's largest exponent; the smallest is minus it
    Digits,      \* bound: digits texts are written with
    MaxWhole,    \* bound: digits before the point
    MaxFraction, \* bound: digits after the point
    MaxMagnitude, \* bound: the unscaled part of a BigDecimal, which has no width
    MaxScale,    \* bound: its scale, either sign
    TokenDecimals, \* the decimals of the token amounts are turned into units of
    Readers      \* who shows the amount: "go", "java", "node", "python", "units"

ASSUME WidthAssumption ==
    /\ IntMax \in Nat /\ MaxExponent \in Nat /\ Digits \subseteq 0..9
    /\ MaxWhole \in Nat /\ MaxFraction \in Nat /\ TokenDecimals \in Nat
    /\ MaxMagnitude \in Nat /\ MaxScale \in Nat

IntMin == -IntMax - 1
Ints == IntMin..IntMax
Exponents == -MaxExponent..MaxExponent

VARIABLES
    stage,       \* "text", "computed", "refused", "wire" or "shown"
    text,        \* the plain decimal a starter was given
    value,       \* the BigDecimal Java's was given instead
    decimal,     \* the Decimal on the wire
    reader,      \* who shows it
    shown        \* what was shown

vars == <<stage, text, value, decimal, reader, shown>>

\* A text: a sign, the digits before the point and those after it.  Minus is
\* a sign that ended up among the digits.
Minus == 10
SeqsUpTo(S, n) == UNION {[1..k -> S] : k \in 0..n}
Texts == [negative: BOOLEAN,
          whole: SeqsUpTo(Digits, MaxWhole) \ {<<>>},
          fraction: SeqsUpTo(Digits, MaxFraction)]
NoText == [negative |-> FALSE, whole |-> <<>>, fraction |-> <<>>]
NoDecimal == [unscaled |-> 0, exponent |-> 0]

\* unscaled * 10^-scale.
BigDecimals == [unscaled: -MaxMagnitude..MaxMagnitude, scale: -MaxScale..MaxScale]
NoValue == [unscaled |-> 0, scale |-> 0]

\* What the contract, and the parsers' pattern, call a plain decimal.
Plain(t) ==
    /\ t.whole # <<>>
    /\ \A i \in DOMAIN t.whole : t.whole[i] # Minus
    /\ \A i \in DOMAIN t.fraction : t.fraction[i] # Minus

Pow10[n \in Nat] == IF n = 0 THEN 1 ELSE 10 * Pow10[n - 1]

\* The number a sequence of digits spells, read from the left.
Number(digits) ==
    LET read[n \in 0..Len(digits)] ==
          IF n = 0 THEN 0 ELSE 10 * read[n - 1] + digits[n]
    IN  read[Len(digits)]

Signed(negative, n) == IF negative THEN -n ELSE n

\* An amount as a whole number of the finest unit either side can write.
Finest == Max({MaxFraction, MaxExponent, MaxScale, TokenDecimals})
AmountOfText(t) ==
    Signed(t.negative, Number(t.whole \o t.fraction)) * Pow10[Finest - Len(t.fraction)]
AmountOf(d) == d.unscaled * Pow10[Finest + d.exponent]
AmountOfValue(v) == v.unscaled * Pow10[Finest - v.scale]

-----------------------------------------------------------------------------
(* Reading.                                                                *)

\* Mutant: the width is never tested and the number wraps.
FitsAlways(n) == TRUE

Fits(n) == n >= IntMin /\ n <= IntMax

Wrap(n) == ((n - IntMin) % (2 * (IntMax + 1))) + IntMin

\* The digits as written: nine fraction digits are refused even when the last
\* is a zero, and so is a number the unscaled part cannot hold.
Readable(t) ==
    /\ -Len(t.fraction) >= -MaxExponent
    /\ Fits(Signed(t.negative, Number(t.whole \o t.fraction)))

DecimalFromString(t) ==
    [unscaled |-> Wrap(Signed(t.negative, Number(t.whole \o t.fraction))),
     exponent |-> -Len(t.fraction)]

\* Without its trailing zeros; zero has scale 0.
stripTrailingZeros(v) ==
    IF v.unscaled = 0 THEN NoValue
    ELSE LET zeros == CHOOSE n \in 0..MaxMagnitude :
                        /\ v.unscaled % Pow10[n] = 0
                        /\ v.unscaled % Pow10[n + 1] # 0
         IN  [unscaled |-> v.unscaled \div Pow10[zeros], scale |-> v.scale - zeros]

\* Decimals.of(BigDecimal): a scale too large loses its zeros, one too small
\* gets them back; any other is taken as it stands.
Rescaled(v) ==
    LET scaled == IF v.scale > MaxExponent THEN stripTrailingZeros(v) ELSE v
        surplus == -scaled.scale - MaxExponent
    IN  IF surplus > 0
          THEN [unscaled |-> scaled.unscaled * Pow10[surplus], exponent |-> MaxExponent]
          ELSE [unscaled |-> scaled.unscaled, exponent |-> -scaled.scale]

-----------------------------------------------------------------------------
(* Showing.                                                                *)

\* How many digits a number has: one for zero.
Width(n) == CHOOSE w \in 1..(n + 1) : n < Pow10[w] /\ (w > 1 => Pow10[w - 1] <= n)

DigitsOf(n) == [i \in 1..Width(n) |-> (n \div Pow10[Width(n) - i]) % 10]

Zeros(n) == [i \in 1..n |-> 0]

\* Puts the point before the last scale digits, padding to one digit before it.
Split(negative, digits, scale) ==
    LET padded == IF Len(digits) > scale THEN digits
                  ELSE Zeros(scale - Len(digits) + 1) \o digits
        point == Len(padded) - scale
    IN  [negative |-> negative,
         whole    |-> SubSeq(padded, 1, point),
         fraction |-> SubSeq(padded, point + 1, Len(padded))]

\* Mutant: no padding, so that .05 loses its place.
DecimalToStringUnpadded(d) ==
    LET digits == DigitsOf(IF d.unscaled < 0 THEN -d.unscaled ELSE d.unscaled)
        point == IF Len(digits) + d.exponent > 0 THEN Len(digits) + d.exponent ELSE 1
    IN  IF d.exponent >= 0
          THEN [negative |-> d.unscaled < 0, whole |-> digits \o Zeros(d.exponent), fraction |-> <<>>]
          ELSE [negative |-> d.unscaled < 0, whole |-> SubSeq(digits, 1, point),
                fraction |-> SubSeq(digits, point + 1, Len(digits))]

\* Node and Python: arithmetic of unbounded width, and zeros after the digits.
DecimalToString(d) ==
    LET digits == DigitsOf(IF d.unscaled < 0 THEN -d.unscaled ELSE d.unscaled)
    IN  IF d.exponent >= 0
          THEN [negative |-> d.unscaled < 0,
                whole    |-> digits \o Zeros(d.exponent),
                fraction |-> <<>>]
          ELSE Split(d.unscaled < 0, digits, -d.exponent)

\* Go and Java write the product out, where a zero is one digit.
WholeToString(d) ==
    [negative |-> d.unscaled < 0,
     whole    |-> DigitsOf((IF d.unscaled < 0 THEN -d.unscaled ELSE d.unscaled)
                             * Pow10[d.exponent]),
     fraction |-> <<>>]

JavaDecimalToString(d) ==
    IF d.exponent >= 0 THEN WholeToString(d) ELSE DecimalToString(d)

\* Go: with a negative exponent the sign is turned in 64 bits, where the
\* smallest number is its own negation and prints with its sign.
GoDecimalToString(d) ==
    LET turned == IF d.unscaled < 0 THEN Wrap(-d.unscaled) ELSE d.unscaled
        printed == IF turned < 0 THEN <<Minus>> \o DigitsOf(-turned) ELSE DigitsOf(turned)
    IN  IF d.exponent >= 0 THEN WholeToString(d)
        ELSE Split(d.unscaled < 0, printed, -d.exponent)

ShownBy(r, d) ==
    IF r = "go" THEN GoDecimalToString(d)
    ELSE IF r = "java" THEN JavaDecimalToString(d)
    ELSE DecimalToString(d)

\* Mutant: surplus digits dropped, zeros or not.
ToUnitsTruncating(d) ==
    LET shift == d.exponent + TokenDecimals
    IN  [exact |-> TRUE,
         units |-> IF shift >= 0 THEN d.unscaled * Pow10[shift]
                   ELSE d.unscaled \div Pow10[-shift]]

\* decimalToUnits, for a token of TokenDecimals decimals: an amount finer than
\* the token's smallest unit is refused, surplus zeros are not.
ToUnits(d) ==
    LET shift == d.exponent + TokenDecimals
    IN  IF shift >= 0 THEN [exact |-> TRUE, units |-> d.unscaled * Pow10[shift]]
        ELSE IF d.unscaled % Pow10[-shift] = 0
          THEN [exact |-> TRUE, units |-> d.unscaled \div Pow10[-shift]]
        ELSE [exact |-> FALSE, units |-> 0]

-----------------------------------------------------------------------------
Init ==
    /\ reader = "nobody"
    /\ shown = NoText
    /\ \/ stage = "text" /\ text \in Texts /\ value = NoValue /\ decimal = NoDecimal
       \/ stage = "computed" /\ text = NoText /\ value \in BigDecimals /\ decimal = NoDecimal
       \/ stage = "wire" /\ text = NoText /\ value = NoValue
          /\ decimal \in [unscaled: Ints, exponent: Exponents]

Read ==
    /\ stage = "text"
    /\ IF Readable(text)
         THEN stage' = "wire" /\ decimal' = DecimalFromString(text)
         ELSE stage' = "refused" /\ UNCHANGED decimal
    /\ UNCHANGED <<text, value, reader, shown>>

Of ==
    /\ stage = "computed"
    /\ IF Rescaled(value).exponent >= -MaxExponent /\ Fits(Rescaled(value).unscaled)
         THEN stage' = "wire" /\ decimal' = Rescaled(value)
         ELSE stage' = "refused" /\ UNCHANGED decimal
    /\ UNCHANGED <<text, value, reader, shown>>

Show ==
    /\ stage = "wire"
    /\ \E r \in Readers :
         /\ reader' = r
         /\ IF r = "units"
              THEN IF ToUnits(decimal).exact
                     THEN stage' = "shown" /\ shown' = ToUnits(decimal)
                     ELSE stage' = "refused" /\ UNCHANGED shown
              ELSE stage' = "shown" /\ shown' = ShownBy(r, decimal)
    /\ UNCHANGED <<text, value, decimal>>

Next == Read \/ Of \/ Show

Spec == Init /\ [][Next]_vars

-----------------------------------------------------------------------------
(* Properties.                                                             *)

\* What is shown is the very amount t-0 carries, and reads as a plain decimal
\* again: no digit, zero or sign is lost on the way (decimals.ts:5-16).  Go's
\* edge, the smallest unscaled number, is looked at by GoShowsAPlainDecimal.
ShownIsTheAmount ==
    stage = "shown" /\ reader # "units" /\ (reader = "go" => decimal.unscaled # IntMin) =>
      Plain(shown) /\ AmountOfText(shown) = AmountOf(decimal)

\* What goes on the wire is the very amount the text, or the BigDecimal, says.
\* A text is refused only when the contract cannot carry it digit for digit
\* (decimals.go:22-27), a BigDecimal only when it cannot carry the amount at
\* all, or not at the scale it was given with (Decimals.java:22-25).
ReadIsTheAmount ==
    /\ stage \in {"wire", "shown"} =>
         /\ text # NoText => AmountOfText(text) = AmountOf(decimal)
         /\ value # NoValue => AmountOfValue(value) = AmountOf(decimal)
    /\ stage = "refused" /\ reader = "nobody" =>
         IF text # NoText
           THEN ~\E u \in Ints : Len(text.fraction) <= MaxExponent
                                  /\ u * Pow10[Finest - Len(text.fraction)] = AmountOfText(text)
           ELSE \/ -value.scale \in Exponents /\ value.unscaled \notin Ints
                \/ \A d \in [unscaled: Ints, exponent: Exponents] :
                      AmountOf(d) # AmountOfValue(value)

\* A number of smallest units is exactly the amount, never a rounded one, and
\* is refused only when the token cannot express it (decimals.ts:81-101).
UnitsAreExact ==
    /\ stage = "shown" /\ reader = "units" =>
         shown.units * Pow10[Finest - TokenDecimals] = AmountOf(decimal)
    /\ stage = "refused" /\ reader = "units" =>
         AmountOf(decimal) % Pow10[Finest - TokenDecimals] # 0

\* What Go shows is a plain decimal string (decimals.go:50).
GoShowsAPlainDecimal ==
    stage = "shown" /\ reader = "go" => Plain(shown)
=============================================================================
