------------------------------ MODULE Encodings ------------------------------
(***************************************************************************)
(* The encodings of src/src/utils: base64, hexadecimal and the regrouping  *)
(* of bits for bech32.  A byte is a number below 256, a character of a     *)
(* base64 text its index in the alphabet or a number from 64 on, a         *)
(* hexadecimal digit its ASCII code.                                       *)
(*                                                                         *)
(* The accumulators of the loops are kept at their width: base64 never     *)
(* clears the bits it has used.                                            *)
(***************************************************************************)
EXTENDS Integers, Sequences

CONSTANTS
    IntSize,    \* the values of an int; 2^32 in the code
    Invalid     \* what a conversion that throws comes to

ASSUME IntAssumption == IntSize \in Nat \ {0} /\ IntSize % 2^16 = 0

Pad == 64       \* the character =

Byte == 0..255

\* The k bits of v that begin at bit b.
Bits(v, b, k) == (v \div 2^b) % 2^k

-----------------------------------------------------------------------------
(* base64.cpp *)

\* One byte: the six bits that are complete, twice when there are twelve.
EncodeByte(s, c) ==
    LET val  == (s.val * 256 + c) % IntSize
        valb == s.valb + 8
    IN IF valb < 6
       THEN [val |-> val, valb |-> valb - 6, out |-> Append(s.out, Bits(val, valb, 6))]
       ELSE [val |-> val, valb |-> valb - 12,
             out |-> s.out \o <<Bits(val, valb, 6), Bits(val, valb - 6, 6)>>]

Filled(out) == out \o [i \in 1..((4 - (Len(out) % 4)) % 4) |-> Pad]

encode(in) ==
    LET s[n \in 0..Len(in)] ==
            IF n = 0 THEN [val |-> 0, valb |-> -6, out |-> <<>>] ELSE EncodeByte(s[n - 1], in[n])
        end == s[Len(in)]
    IN Filled(IF end.valb > -6 THEN Append(end.out, Bits(end.val * 256, end.valb + 8, 6))
              ELSE end.out)

\* One character; the first one outside the alphabet ends the loop.
DecodeChar(s, c) ==
    LET val  == (s.val * 64 + c) % IntSize
        valb == s.valb + 6
    IN IF s.stop \/ c >= 64 THEN [s EXCEPT !.stop = TRUE]
       ELSE IF valb >= 0
       THEN [val |-> val, valb |-> valb - 8, out |-> Append(s.out, Bits(val, valb, 8)),
             stop |-> FALSE]
       ELSE [val |-> val, valb |-> valb, out |-> s.out, stop |-> FALSE]

decode(in) ==
    LET s[n \in 0..Len(in)] ==
            IF n = 0 THEN [val |-> 0, valb |-> -8, out |-> <<>>, stop |-> FALSE]
            ELSE DecodeChar(s[n - 1], in[n])
    IN s[Len(in)].out

-----------------------------------------------------------------------------
(* hex.cpp *)

\* The value of a digit, of either case; -1 for any other character.
hexValue(c) ==
    IF c \in 48..57 THEN c - 48
    ELSE IF c \in 65..70 THEN c - 55
    ELSE IF c \in 97..102 THEN c - 87
    ELSE -1

hexDigit(v) == IF v < 10 THEN v + 48 ELSE v + 87

stringToHex(in) ==
    [i \in 1..(2 * Len(in)) |->
        hexDigit(IF i % 2 = 1 THEN in[(i + 1) \div 2] \div 16 ELSE in[i \div 2] % 16)]

\* strtol(..., 16) of at most two characters: a blank or a sign may stand
\* before the digits, what is not a number counts as 0.
Strtol(s) ==
    LET one(c) == IF hexValue(c) < 0 THEN 0 ELSE hexValue(c)
    IN IF Len(s) = 1 THEN one(s[1])
       ELSE IF hexValue(s[1]) >= 0
       THEN IF hexValue(s[2]) >= 0 THEN 16 * hexValue(s[1]) + hexValue(s[2]) ELSE one(s[1])
       ELSE IF s[1] \in (9..13) \cup {32, 43} THEN one(s[2])
       ELSE IF s[1] = 45 THEN -one(s[2])
       ELSE 0

\* The last two digits would be left out (mutant).
hexToBytesEarly(hex) ==
    [i \in 1..((Len(hex) - 1) \div 2) |-> Strtol(SubSeq(hex, 2 * i - 1, 2 * i)) % 256]

\* Two digits to a byte; of an odd number of digits the last one alone.
hexToBytes(hex) ==
    [i \in 1..((Len(hex) + 1) \div 2) |->
        Strtol(SubSeq(hex, 2 * i - 1, IF 2 * i <= Len(hex) THEN 2 * i ELSE Len(hex))) % 256]

hexToString(in) ==
    IF Len(in) % 2 = 1 \/ \E i \in DOMAIN in : hexValue(in[i]) < 0 THEN Invalid
    ELSE [i \in 1..(Len(in) \div 2) |-> 16 * hexValue(in[2 * i - 1]) + hexValue(in[2 * i])]

-----------------------------------------------------------------------------
(* bits.cpp *)

\* One value: every group of `to` bits that is complete.
Regrouped(s, value, from, to) ==
    LET acc  == (s.acc * 2^from + value) % 2^(from + to - 1)
        bits == s.bits + from
    IN [acc |-> acc, bits |-> bits % to,
        out |-> s.out \o [i \in 1..(bits \div to) |-> Bits(acc, bits - i * to, to)]]

\* Groups of `from` bits as groups of `to` bits.  Without padding, whole
\* groups and bits other than 0 may not be left over.
convertBits(data, from, to, pad) ==
    LET s[n \in 0..Len(data)] ==
            IF n = 0 THEN [acc |-> 0, bits |-> 0, out |-> <<>>]
            ELSE Regrouped(s[n - 1], data[n], from, to)
        end == s[Len(data)]
        rest == (end.acc * 2^(to - end.bits)) % 2^to
    IN IF \E i \in DOMAIN data : data[i] >= 2^from THEN Invalid
       ELSE IF pad THEN IF end.bits > 0 THEN Append(end.out, rest) ELSE end.out
       ELSE IF end.bits >= from \/ rest # 0 THEN Invalid
       ELSE end.out
=============================================================================
