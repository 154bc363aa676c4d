----------------------------- MODULE StringNumbers -----------------------------
(***************************************************************************)
(* The conversions of src/src/chromium/string_number_conversions.cc between *)
(* numbers of a fixed width and text.  A character is a digit, known by its  *)
(* value, or one of those named below.  The width of an int is a number of   *)
(* hexadecimal digits; what does not fit wraps around.                      *)
(***************************************************************************)
EXTENDS Integers, Sequences, FiniteSetsExt

CONSTANTS Nibbles,   \* width of int and unsigned, in hexadecimal digits
          Digits,    \* digits that the texts are made of
          MaxChars   \* bound on the characters of a text

ASSUME WidthAssumption ==
    Nibbles \in Nat \ {0, 1} /\ Digits \subseteq 0..15 /\ MaxChars \in Nat

VARIABLE input  \* the text that is converted, and the conversion
stringVars == <<input>>

Minus == 16
Plus == 17
Blank == 18
X == 19
Other == 20
Chars == Digits \union {Minus, Plus, Blank, X, Other}

\* How many numbers n hexadecimal digits write; those of an int, negative or not.
Span(n) ==
    LET span[k \in 0..n] == IF k = 0 THEN 1 ELSE 16 * span[k - 1]
    IN  span[n]
Unsigneds == Span(Nibbles)
Half == Unsigneds \div 2

\* The traits of the conversions; hexadecimal ones are allowed to fill an int.
Kinds == {"StringToInt", "StringToUint", "HexStringToInt"}
Traits(kind) ==
    [base |-> IF kind = "HexStringToInt" THEN 16 ELSE 10,
     min |-> IF kind = "StringToUint" THEN 0 ELSE -Half,
     max |-> IF kind = "StringToInt" THEN Half - 1 ELSE Unsigneds - 1]

\* What value_type holds of a number.
Wrap(kind, n) ==
    LET u == n % Unsigneds
    IN  IF kind = "StringToUint" \/ u < Half THEN u ELSE u - Unsigneds

\* C's quotient and remainder, towards zero.
Quotient(a, b) == IF a < 0 THEN -((-a) \div b) ELSE a \div b
Remainder(a, b) == a - b * Quotient(a, b)

CharToDigit(base, c) == c \in 0..(base - 1)

\* Fault: the digit does not count.
CheckQuotient(t, sign, output, digit) ==
    IF sign = 1 THEN output <= t.max \div t.base ELSE output >= Quotient(t.min, t.base)

\* Positive::CheckBounds(), Negative::CheckBounds(): room for one more digit.
CheckBounds(t, sign, output, digit) ==
    IF sign = 1
    THEN output < t.max \div t.base \/ (output = t.max \div t.base /\ digit <= t.max % t.base)
    ELSE output > Quotient(t.min, t.base)
         \/ (output = Quotient(t.min, t.base) /\ digit <= -Remainder(t.min, t.base))

\* One turn of the loop of Base::Invoke(); first is the digit without a bound.
Digit(kind, sign, r, c, first) ==
    LET t == Traits(kind)
    IN  IF ~r.valid THEN r
        ELSE IF ~CharToDigit(t.base, c) THEN [valid |-> FALSE, output |-> r.output]
        ELSE IF ~first /\ ~CheckBounds(t, sign, r.output, c)
        THEN [valid |-> FALSE, output |-> Wrap(kind, IF sign = 1 THEN t.max ELSE t.min)]
        ELSE [valid |-> TRUE, output |-> Wrap(kind, r.output * t.base + sign * c)]

\* After k digits.
ReadUpTo(kind, sign, digits) ==
    LET read[k \in 0..Len(digits)] ==
          IF k = 0 THEN [valid |-> digits # <<>>, output |-> 0]
          ELSE Digit(kind, sign, read[k - 1], digits[k], k = 1)
    IN  read

\* Behind "0x", if there is more.
Unprefixed(kind, s) ==
    IF kind = "HexStringToInt" /\ Len(s) > 2 /\ s[1] = 0 /\ s[2] = X
    THEN SubSeq(s, 3, Len(s)) ELSE s

Invoke(kind, sign, s) ==
    LET digits == Unprefixed(kind, s)
    IN  ReadUpTo(kind, sign, digits)[Len(digits)]

\* How many characters of s, from the first on, are in a set.
Leading(s, chars) == Max({n \in 0..Len(s) : \A i \in 1..n : s[i] \in chars})

\* IteratorRangeToNumber: blanks spoil the result, and a sign goes first.
Convert(kind, s) ==
    LET blanks == Leading(s, {Blank})
        rest == SubSeq(s, blanks + 1, Len(s))
        r == IF rest # <<>> /\ Head(rest) = Minus THEN Invoke(kind, -1, Tail(rest))
             ELSE IF rest # <<>> /\ Head(rest) = Plus THEN Invoke(kind, 1, Tail(rest))
             ELSE Invoke(kind, 1, rest)
    IN  [valid |-> r.valid /\ blanks = 0, output |-> r.output]

\* The digits of the numbers before n, each from the last digit to the first.
TextsBefore(n) ==
    LET text[k \in 0..(n - 1)] == IF k < 10 THEN <<k>> ELSE Append(text[k \div 10], k % 10)
    IN  text

\* IntToStringT: the digits of ToUnsigned(value), then the sign.
IntToString(value) ==
    IF value < 0 THEN <<Minus>> \o TextsBefore(Unsigneds)[(-value) % Unsigneds]
    ELSE TextsBefore(Unsigneds)[value]

\* Two digits for each byte.
HexEncode(bytes) ==
    [k \in 1..(2 * Len(bytes)) |-> LET byte == bytes[(k + 1) \div 2]
                                  IN  IF k % 2 = 1 THEN byte \div 16 ELSE byte % 16]

\* The bytes before the first pair that is not of digits.
HexStringToBytes(s) ==
    LET count == Leading(s, 0..15) \div 2
    IN  IF s = <<>> \/ Len(s) % 2 # 0 THEN [valid |-> FALSE, output |-> <<>>]
        ELSE [valid |-> 2 * count = Len(s),
              output |-> [i \in 1..count |-> 16 * s[2 * i - 1] + s[2 * i]]]

StringInit == input \in {[kind |-> k, chars |-> <<>>] : k \in Kinds}

\* The text grows by a character.
Extend ==
    /\ Len(input.chars) < MaxChars
    /\ \E c \in Chars : input' = [kind |-> input.kind, chars |-> Append(input.chars, c)]
StringSpec == StringInit /\ [][Extend]_stringVars

----------------------------------------------------------------------------

\* The number that the first n digits stand for.
Number(base, digits, n) ==
    LET number[k \in 0..n] == IF k = 0 THEN 0 ELSE number[k - 1] * base + digits[k]
    IN  number[n]

\* Best effort (string_number_conversions.hh:44): "perfect" exactly for a sign
\* and digits whose number fits the type, which is then the output; a number
\* that does not fit saturates; leading blanks and trailing characters cost the
\* perfection and not the value.  Two cases are left out, where the code does
\* otherwise: a negative number as unsigned, and more hexadecimal digits than
\* an int has.
BestEffort(kind, chars) ==
    LET t == Traits(kind)
        blanks == Leading(chars, {Blank})
        s == SubSeq(chars, blanks + 1, Len(chars))
        sign == IF s # <<>> /\ Head(s) = Minus THEN -1 ELSE 1
        digits == Unprefixed(kind, IF s # <<>> /\ Head(s) \in {Minus, Plus} THEN Tail(s) ELSE s)
        good == Leading(digits, 0..(t.base - 1))
        number == sign * Number(t.base, digits, good)
        fits == t.min <= number /\ number <= t.max
        result == Convert(kind, chars)
    IN  ~(kind = "StringToUint" /\ sign = -1) /\ ~(kind = "HexStringToInt" /\ Len(digits) > Nibbles) =>
          /\ result.valid <=> blanks = 0 /\ digits # <<>> /\ good = Len(digits) /\ fits
          /\ result.output = Wrap(kind, IF fits THEN number ELSE IF sign = 1 THEN t.max ELSE t.min)

\* Conversions of any text are best effort, and numbers, the least one too, and
\* bytes survive being written out and read back.
ConversionsExact ==
    LET kind == input.kind
        result == Convert(kind, input.chars)
    IN  /\ BestEffort(kind, input.chars)
        /\ kind # "HexStringToInt" /\ result.valid =>
             Convert(kind, IntToString(result.output)) = result
        /\ HexStringToBytes(input.chars).valid =>
             HexEncode(HexStringToBytes(input.chars).output) = input.chars
=============================================================================
