----------------------------- MODULE TokenPayment -----------------------------
(***************************************************************************)
(* Amounts of tokens (src/src/transaction/token_payment.cpp) and the big   *)
(* integers they are kept in (src/src/internal/biguint.cpp).               *)
(*                                                                         *)
(* A text is a sequence of character codes.  A BigUInt keeps the decimal   *)
(* text it was made from, zeroes in front and all, and parses it anew for  *)
(* every operation; the empty text parses as 0.                            *)
(***************************************************************************)
EXTENDS Naturals, Sequences, FiniteSets

Zero  == 48   \* '0'
Point == 46   \* '.'
Digit == Zero..(Zero + 9)

Zeroes(k) == [i \in 1..k |-> Zero]

-----------------------------------------------------------------------------
(* BigUInt *)

\* integer(text, 10): the number a decimal text denotes.
Value(text) ==
    LET v[n \in 0..Len(text)] == IF n = 0 THEN 0 ELSE 10 * v[n - 1] + (text[n] - Zero)
    IN v[Len(text)]

\* The digits n is written with: one for 0, no zero in front otherwise.
DigitsOf(n, base) ==
    LET d[k \in Nat] ==
            IF k < base THEN <<k>> ELSE Append(d[k \div base], k % base)
    IN d[n]

\* BigUInt(n), and integer::str() of every result of an operation.
Decimal(n) == LET d == DigitsOf(n, 10) IN [i \in DOMAIN d |-> Zero + d[i]]

HexDigit(n) == IF n < 10 THEN Zero + n ELSE 87 + n   \* '0'..'9', 'a'..'f'

Hex(n) == LET d == DigitsOf(n, 16) IN [i \in DOMAIN d |-> HexDigit(d[i])]

\* BigUInt::getHexValue would not be padded (mutant).
getHexValueUnpadded(text) == Hex(Value(text))

\* BigUInt::getHexValue: an even number of digits.
getHexValue(text) ==
    LET h == Hex(Value(text)) IN IF Len(h) % 2 = 1 THEN <<Zero>> \o h ELSE h

-----------------------------------------------------------------------------
(* Amounts *)

Points(s) == {i \in DOMAIN s : s[i] = Point}

removePoint(s) ==
    LET t[n \in 0..Len(s)] ==
            IF n = 0 THEN <<>>
            ELSE IF s[n] = Point THEN t[n - 1] ELSE Append(t[n - 1], s[n])
    IN t[Len(s)]

hasLeadingZeroes(s) == Len(s) >= 2 /\ s[1] = Zero /\ s[2] # Point

isValidNumber(s) ==
    /\ ~hasLeadingZeroes(s)
    /\ removePoint(s) # <<>>
    /\ \A i \in DOMAIN removePoint(s) : removePoint(s)[i] \in Digit

\* bigUIntFromVal does not throw.
Accepted(s) == Cardinality(Points(s)) <= 1 /\ isValidNumber(s)

\* The digits after the point, cut or filled up to the token's decimals.
Fraction(s, numDecimals) ==
    IF Len(s) > numDecimals THEN SubSeq(s, 1, numDecimals)
    ELSE s \o Zeroes(numDecimals - Len(s))

\* The digits after the point would be rounded up when they are cut (mutant).
bigUIntFromValRounded(s, numDecimals) ==
    IF Points(s) = {} THEN s \o Zeroes(numDecimals)
    ELSE LET dot   == CHOOSE i \in Points(s) : TRUE
             after == SubSeq(s, dot + 1, Len(s))
             text  == SubSeq(s, 1, dot - 1) \o Fraction(after, numDecimals)
         IN IF Len(after) > numDecimals /\ after[numDecimals + 1] >= Zero + 5
            THEN Decimal(Value(text) + 1) ELSE text

\* internal::bigUIntFromVal: s times 10^numDecimals, as a decimal text that
\* may begin with zeroes or be empty.
bigUIntFromVal(s, numDecimals) ==
    IF Points(s) = {} THEN s \o Zeroes(numDecimals)
    ELSE LET dot   == CHOOSE i \in Points(s) : TRUE
             first == SubSeq(s, 1, dot - 1)
         IN (IF first = <<Zero>> THEN <<>> ELSE first)
            \o Fraction(SubSeq(s, dot + 1, Len(s)), numDecimals)

Payment(token, nonce, value, numDecimals) ==
    [token |-> token, nonce |-> nonce, value |-> value, decimals |-> numDecimals]

\* toPrettyString would leave out the zeroes after the point (mutant).
PrettyAmountBare(p) ==
    LET denominator == Value(bigUIntFromVal(<<Zero + 1>>, p.decimals))
    IN Decimal(Value(p.value) \div denominator) \o <<Point>>
       \o Decimal(Value(p.value) % denominator)

\* TokenPayment::toPrettyString, up to the space before the identifier.
PrettyAmount(p) ==
    LET denominator == bigUIntFromVal(<<Zero + 1>>, p.decimals)
        first       == Decimal(Value(p.value) \div Value(denominator))
        second      == Decimal(Value(p.value) % Value(denominator))
        zeroesCt    == Len(denominator) - 1 - Len(second)
    IN first \o <<Point>> \o (IF zeroesCt > 0 THEN Zeroes(zeroesCt) ELSE <<>>)
       \o second
=============================================================================
