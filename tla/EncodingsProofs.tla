---------------------------- MODULE EncodingsProofs ----------------------------
(***************************************************************************)
(* What the encodings do with bytes of any length: base64, hexadecimal     *)
(* digits and groups of bits are read back as what was written.            *)
(***************************************************************************)
EXTENDS Encodings, DataInduction

LEMMA FunctionIsSeq ==
    ASSUME NEW S, NEW n \in Nat, NEW f \in [1..n -> S]
    PROVE  f \in Seq(S) /\ Len(f) = n
  OBVIOUS

-----------------------------------------------------------------------------
(* base64 *)

Char == 0..63

\* The element of s at i, and 0 where it has none.
At(s, i) == IF i \in 1..Len(s) THEN s[i] ELSE 0

LEMMA AtAppend ==
    ASSUME NEW S, NEW s \in Seq(S), NEW c \in S, NEW i \in Int
    PROVE  /\ Append(s, c) \in Seq(S) /\ Len(Append(s, c)) = Len(s) + 1 /\ Len(s) \in Nat
           /\ At(Append(s, c), i) = IF i = Len(s) + 1 THEN c ELSE At(s, i)
<1>1. /\ Append(s, c) \in Seq(S) /\ Len(Append(s, c)) = Len(s) + 1 /\ Len(s) \in Nat
      /\ Append(s, c)[Len(s) + 1] = c
      /\ \A j \in 1..Len(s) : Append(s, c)[j] = s[j]
  BY AppendProperties
<1> QED
  BY <1>1 DEF At

\* Character i of the base64 text of in: six bits of a group of three bytes.
Sextet(in, i) ==
    LET b(k) == At(in, 3 * ((i - 1) \div 4) + k)
        r == (i - 1) % 4
    IN IF r = 0 THEN b(1) \div 4
       ELSE IF r = 1 THEN (b(1) % 4) * 16 + b(2) \div 16
       ELSE IF r = 2 THEN (b(2) % 16) * 4 + b(3) \div 64
       ELSE b(3) % 64

\* The loop of encode.
Encoded(in) ==
    LET s[n \in 0..Len(in)] ==
            IF n = 0 THEN [val |-> 0, valb |-> -6, out |-> <<>>] ELSE EncodeByte(s[n - 1], in[n])
    IN s[Len(in)]

EncodeState == [val : 0..(IntSize - 1), valb : {-6, -4, -2}, out : Seq(Char)]
EncodeStart == [val |-> 0, valb |-> -6, out |-> <<>>]

LEMMA Powers ==
    /\ 2^0 = 1 /\ 2^1 = 2 /\ 2^2 = 4 /\ 2^3 = 8 /\ 2^4 = 16 /\ 2^5 = 32 /\ 2^6 = 64
    /\ 2^7 = 128 /\ 2^8 = 256 /\ 2^12 = 4096 /\ 2^16 = 65536
  OBVIOUS

\* More than the loops of base64 look at.
Word == 65536

LEMMA IntModulo ==
    ASSUME NEW v \in Nat, NEW w, w = v % IntSize
    PROVE  w \in Nat /\ w \in 0..(IntSize - 1) /\ w % Word = v % Word
<1> DEFINE q == v \div IntSize
           k == IntSize \div 65536
<1>1. IntSize = 65536 * k /\ k \in Nat /\ IntSize \in Nat /\ IntSize > 0
  BY IntAssumption, Powers, SMT
<1>2. v = IntSize * q + w /\ q \in Nat /\ w \in 0..(IntSize - 1)
  BY <1>1, SMT
<1> HIDE DEF q, k
<1>3. PICK n \in Nat : n = k * q
  BY <1>1, <1>2, SMT
<1>4. v = 65536 * n + w
  BY <1>1, <1>2, <1>3, SMT
<1>5. \A m \in Nat, i \in Nat : (65536 * m + i) % 65536 = i % 65536
  BY SMT
<1>6. w \in Nat
  BY <1>1, <1>2
<1>7. w % 65536 = v % 65536
  BY <1>4, <1>5, <1>6, SMT
<1> QED
  BY <1>2, <1>6, <1>7, SMT DEF Word

LEMMA EncodeBits ==
    ASSUME NEW old \in Nat, NEW c \in Byte, NEW val \in Nat,
           val % Word = (old * 256 + c) % Word
    PROVE  /\ val % 256 = c
           /\ Bits(val, 2, 6) = c \div 4
           /\ Bits(val, 4, 6) = (old % 4) * 16 + c \div 16
           /\ Bits(val, 6, 6) = (old % 16) * 4 + c \div 64
           /\ Bits(val, 0, 6) = c % 64
<1>1. old * 256 + c \in Nat /\ c \in 0..255
  BY DEF Byte
<1>3. PICK a \in 0..255, m \in Nat : old = 256 * m + a
  BY old = 256 * (old \div 256) + (old % 256), SMT
<1>4. val % 65536 = a * 256 + c
  BY <1>1, <1>3, SMT DEF Word
<1>5. PICK n \in Nat : val = 65536 * n + (a * 256 + c)
  BY <1>4, 65536 * (val \div 65536) + (val % 65536) = val, SMT
<1>6. old % 4 = a % 4 /\ old % 16 = a % 16
  BY <1>3, SMT
<1>7. (val \div 4) % 64 = c \div 4
  BY <1>1, <1>5, SMT
<1>8. (val \div 16) % 64 = (a % 4) * 16 + c \div 16
  BY <1>1, <1>5, SMT
<1>9. (val \div 64) % 64 = (a % 16) * 4 + c \div 64
  BY <1>1, <1>5, SMT
<1>10. val % 64 = c % 64 /\ val % 256 = c /\ val \div 1 = val
  BY <1>1, <1>5, SMT
<1>11. Bits(val, 2, 6) = c \div 4
  BY <1>7, SMT DEF Bits
<1>12. Bits(val, 4, 6) = (old % 4) * 16 + c \div 16
  BY <1>6, <1>8, SMT DEF Bits
<1>13. Bits(val, 6, 6) = (old % 16) * 4 + c \div 64
  BY <1>6, <1>9, SMT DEF Bits
<1>14. Bits(val, 0, 6) = c % 64
  BY <1>10, SMT DEF Bits
<1> QED
  BY <1>10, <1>11, <1>12, <1>13, <1>14

LEMMA SextetType ==
    ASSUME NEW v \in Nat, NEW c \in 0..255
    PROVE  /\ c \div 4 \in Char /\ (v % 4) * 16 + c \div 16 \in Char
           /\ (v % 16) * 4 + c \div 64 \in Char /\ c % 64 \in Char
  BY SMT DEF Char

\* One more byte c after the state of val v, valb b and output o.
EncodesTo(u, v, b, o, c, val, out) ==
    /\ u = [val |-> val, out |-> out, valb |-> IF b = -2 THEN -6 ELSE b + 2]
    /\ val % 256 = c
    /\ b = -6 => out = Append(o, c \div 4)
    /\ b = -4 => out = Append(o, (v % 4) * 16 + c \div 16)
    /\ b = -2 => out = Append(Append(o, (v % 16) * 4 + c \div 64), c % 64)

LEMMA EncodeByteIs ==
    ASSUME NEW s \in EncodeState, NEW c \in Byte,
           NEW v, NEW b, NEW o, v = s.val, b = s.valb, o = s.out
    PROVE  \E val \in 0..(IntSize - 1), out \in Seq(Char) :
             EncodesTo(EncodeByte(s, c), v, b, o, c, val, out)
<1>1. v \in Nat /\ b \in {-6, -4, -2} /\ o \in Seq(Char) /\ c \in 0..255
  BY IntAssumption DEF EncodeState, Byte
<1>2. PICK val : val = (v * 256 + c) % IntSize
  OBVIOUS
<1>3. /\ val \in 0..(IntSize - 1) /\ val % 256 = c
      /\ Bits(val, 2, 6) = c \div 4
      /\ Bits(val, 4, 6) = (v % 4) * 16 + c \div 16
      /\ Bits(val, 6, 6) = (v % 16) * 4 + c \div 64
      /\ Bits(val, 0, 6) = c % 64
  <2>1. v * 256 + c \in Nat
    BY <1>1
  <2>2. val \in Nat /\ val \in 0..(IntSize - 1) /\ val % Word = (v * 256 + c) % Word
    BY <1>2, <2>1, IntModulo, Zenon
  <2> QED
    <3>1. v \in Nat
      BY <1>1
    <3> QED
      BY <2>2, <3>1, EncodeBits, SMT
<1>4. PICK x, y, z, w : /\ x = c \div 4 /\ y = (v % 4) * 16 + c \div 16
                       /\ z = (v % 16) * 4 + c \div 64 /\ w = c % 64
  OBVIOUS
<1>5. x \in Char /\ y \in Char /\ z \in Char /\ w \in Char
  BY <1>1, <1>4, SextetType, Zenon
<1>6. /\ Append(o, x) \in Seq(Char) /\ Append(o, y) \in Seq(Char)
      /\ Append(Append(o, z), w) \in Seq(Char)
      /\ o \o <<z, w>> = Append(Append(o, z), w)
  BY <1>1, <1>5
<1>7. CASE b = -6
  <2>1. b + 8 < 6 /\ (b + 8) - 6 = -4 /\ b + 8 = 2 /\ b + 2 = -4 /\ b # -2 /\ b # -4
    BY <1>7
  <2>2. EncodeByte(s, c) = [val |-> val, valb |-> -4, out |-> Append(o, x)]
    BY <1>2, <1>3, <1>4, <2>1, Zenon DEF EncodeByte
  <2>3. EncodeByte(s, c) = [val |-> val, out |-> Append(o, x), valb |-> b + 2]
    BY <2>1, <2>2
  <2>4. (IF b = -2 THEN -6 ELSE b + 2) = b + 2
    BY <2>1, <1>7
  <2>5. EncodesTo(EncodeByte(s, c), v, b, o, c, val, Append(o, x))
    BY <1>3, <1>4, <1>7, <2>1, <2>3, <2>4 DEF EncodesTo
  <2> QED
    BY <1>3, <1>6, <2>5
<1>8. CASE b = -4
  <2>1. b + 8 < 6 /\ (b + 8) - 6 = -2 /\ b + 8 = 4 /\ b + 2 = -2 /\ b # -2 /\ b # -6
    BY <1>8
  <2>2. EncodeByte(s, c) = [val |-> val, valb |-> -2, out |-> Append(o, y)]
    BY <1>2, <1>3, <1>4, <2>1, Zenon DEF EncodeByte
  <2>3. EncodeByte(s, c) = [val |-> val, out |-> Append(o, y), valb |-> b + 2]
    BY <2>1, <2>2
  <2>4. (IF b = -2 THEN -6 ELSE b + 2) = b + 2
    BY <2>1, <1>8
  <2>5. EncodesTo(EncodeByte(s, c), v, b, o, c, val, Append(o, y))
    BY <1>3, <1>4, <1>8, <2>1, <2>3, <2>4 DEF EncodesTo
  <2> QED
    BY <1>3, <1>6, <2>5
<1>9. CASE b = -2
  <2>1. /\ ~(b + 8 < 6) /\ (b + 8) - 12 = -6 /\ b + 8 = 6 /\ (b + 8) - 6 = 0
        /\ b # -6 /\ b # -4
    BY <1>9
  <2>2. EncodeByte(s, c) = [val |-> val, valb |-> -6, out |-> Append(Append(o, z), w)]
    <3>1. EncodeByte(s, c) = [val |-> val, valb |-> (b + 8) - 12,
                              out |-> o \o <<Bits(val, b + 8, 6), Bits(val, (b + 8) - 6, 6)>>]
      BY <1>2, <2>1, Zenon DEF EncodeByte
    <3>2. Bits(val, b + 8, 6) = z /\ Bits(val, (b + 8) - 6, 6) = w
      BY <1>3, <1>4, <2>1, Zenon
    <3> QED
      BY <1>6, <2>1, <3>1, <3>2, Zenon
  <2>3. EncodeByte(s, c) = [val |-> val, out |-> Append(Append(o, z), w), valb |-> -6]
    BY <2>2
  <2>4. (IF b = -2 THEN -6 ELSE b + 2) = -6
    BY <2>1, <1>9
  <2>5. EncodesTo(EncodeByte(s, c), v, b, o, c, val, Append(Append(o, z), w))
    BY <1>3, <1>4, <1>9, <2>1, <2>3, <2>4 DEF EncodesTo
  <2> QED
    BY <1>3, <1>6, <2>5
<1> QED
  BY <1>1, <1>7, <1>8, <1>9

LEMMA EncodeByteType ==
    ASSUME NEW s \in EncodeState, NEW c \in Byte
    PROVE  EncodeByte(s, c) \in EncodeState
<1>1. PICK v, b, o : v = s.val /\ b = s.valb /\ o = s.out
  OBVIOUS
<1>2. PICK val \in 0..(IntSize - 1), out \in Seq(Char) :
             EncodesTo(EncodeByte(s, c), v, b, o, c, val, out)
  BY <1>1, EncodeByteIs, Zenon
<1>3. b \in {-6, -4, -2}
  BY <1>1 DEF EncodeState
<1> QED
  BY <1>2, <1>3 DEF EncodeState, EncodesTo

EncodeStep == [s \in EncodeState |-> [c \in Byte |-> EncodeByte(s, c)]]

LEMMA EncodeStepType ==
    EncodeStep \in [EncodeState -> [Byte -> EncodeState]] /\ EncodeStart \in EncodeState
<1>1. \A s \in EncodeState, c \in Byte : EncodeByte(s, c) \in EncodeState
  BY EncodeByteType
<1>2. EncodeStart \in EncodeState
  BY IntAssumption DEF EncodeStart, EncodeState
<1> QED
  BY <1>1, <1>2 DEF EncodeStep

LEMMA EncodeFold ==
    ASSUME NEW s \in Seq(Byte)
    PROVE  \E t : Folds(t, Byte, EncodeState, EncodeStart, EncodeStep, s) /\ Encoded(s) = t[Len(s)]
<1> DEFINE Rhs(t) == [n \in 0..Len(s) |->
                         IF n = 0 THEN EncodeStart ELSE EncodeByte(t[n - 1], s[n])]
<1>0. Len(s) \in Nat /\ \A n \in 1..Len(s) : s[n] \in Byte
  OBVIOUS
<1>1. PICK f : Folds(f, Byte, EncodeState, EncodeStart, EncodeStep, s)
  BY EncodeStepType, FoldExists
<1>2. f = Rhs(f)
  <2>1. f \in [0..Len(s) -> EncodeState] /\ f[0] = EncodeStart
    BY <1>1 DEF Folds
  <2>2. ASSUME NEW n \in 1..Len(s)
        PROVE  f[n] = EncodeByte(f[n - 1], s[n])
    <3>1. f[n] = EncodeStep[f[n - 1]][s[n]]
      BY <1>1 DEF Folds
    <3>2. f[n - 1] \in EncodeState /\ s[n] \in Byte
      BY <1>0, <2>1
    <3> QED
      BY <3>1, <3>2 DEF EncodeStep
  <2>3. ASSUME NEW n \in 0..Len(s)
        PROVE  f[n] = Rhs(f)[n]
    <3>1. n = 0 \/ (n # 0 /\ n \in 1..Len(s))
      BY <1>0
    <3> QED
      BY <2>1, <2>2, <3>1, Zenon
  <2>4. Rhs(f) = [n \in 0..Len(s) |-> Rhs(f)[n]] /\ f = [n \in 0..Len(s) |-> f[n]]
    BY <2>1, Zenon
  <2> QED
    BY <2>3, <2>4, Zenon
<1> DEFINE t == CHOOSE g : g = Rhs(g)
<1>3. t = Rhs(t)
  BY <1>2
<1>4. Encoded(s) = t[Len(s)]
  BY DEF Encoded, EncodeStart
<1> HIDE DEF t
<1>5. Folds(t, Byte, EncodeState, EncodeStart, EncodeStep, s)
  <2>1. Over(t, 0..Len(s)) /\ t[0] = EncodeStart
    BY <1>0, <1>3 DEF Over
  <2>2. ASSUME NEW n \in 1..Len(s), t[n - 1] \in EncodeState
        PROVE  t[n] = EncodeStep[t[n - 1]][s[n]]
    <3>1. t[n] = EncodeByte(t[n - 1], s[n])
      <4>1. n \in 0..Len(s) /\ n # 0
        BY <1>0
      <4>2. t[n] = Rhs(t)[n]
        BY <1>3, Zenon
      <4> QED
        BY <4>1, <4>2, Zenon
    <3>2. \A u \in EncodeState, c \in Byte : EncodeStep[u][c] = EncodeByte(u, c)
      BY DEF EncodeStep
    <3> QED
      BY <1>0, <2>2, <3>1, <3>2, Zenon
  <2> QED
    BY <2>1, <2>2, EncodeStepType, FoldEquations
<1> QED
  BY <1>4, <1>5

LEMMA EncodeUnfold ==
    /\ Encoded(<<>>) = EncodeStart
    /\ \A s \in Seq(Byte) :
          /\ Encoded(s) \in EncodeState
          /\ \A c \in Byte : Encoded(Append(s, c)) = EncodeByte(Encoded(s), c)
<1>1. Encoded(<<>>) = EncodeStart
  BY <<>> \in Seq(Byte), EncodeFold DEF Folds
<1>2. ASSUME NEW s \in Seq(Byte)
      PROVE  Encoded(s) \in EncodeState
  <2>1. PICK f : Folds(f, Byte, EncodeState, EncodeStart, EncodeStep, s) /\ Encoded(s) = f[Len(s)]
    BY EncodeFold
  <2>2. Len(s) \in 0..Len(s) /\ f \in [0..Len(s) -> EncodeState]
    BY <2>1 DEF Folds
  <2> QED
    BY <2>1, <2>2, Zenon
<1>3. ASSUME NEW s \in Seq(Byte), NEW c \in Byte
      PROVE  Encoded(Append(s, c)) = EncodeByte(Encoded(s), c)
  <2>1. PICK f : Folds(f, Byte, EncodeState, EncodeStart, EncodeStep, s) /\ Encoded(s) = f[Len(s)]
    BY EncodeFold
  <2>2. PICK g : /\ Folds(g, Byte, EncodeState, EncodeStart, EncodeStep, Append(s, c))
                 /\ Encoded(Append(s, c)) = g[Len(Append(s, c))]
    BY Append(s, c) \in Seq(Byte), EncodeFold
  <2>3. /\ Folds(f, Byte, EncodeState, EncodeStart, EncodeStep, s)
        /\ Folds(g, Byte, EncodeState, EncodeStart, EncodeStep, Append(s, c))
    BY <2>1, <2>2
  <2>4. f[Len(s)] \in EncodeState /\ g[Len(Append(s, c))] = EncodeStep[f[Len(s)]][c]
    BY <2>3, FoldAppend
  <2> QED
    BY <2>1, <2>2, <2>4 DEF EncodeStep
<1> QED
  BY <1>1, <1>2, <1>3
-----------------------------------------------------------------------------
(* What encode gives *)

LEMMA SextetAt ==
    ASSUME NEW in, NEW q \in Nat
    PROVE  /\ Sextet(in, 4 * q + 1) = At(in, 3 * q + 1) \div 4
           /\ Sextet(in, 4 * q + 2) = (At(in, 3 * q + 1) % 4) * 16 + At(in, 3 * q + 2) \div 16
           /\ Sextet(in, 4 * q + 3) = (At(in, 3 * q + 2) % 16) * 4 + At(in, 3 * q + 3) \div 64
           /\ Sextet(in, 4 * q + 4) = At(in, 3 * q + 3) % 64
<1>1. ((4 * q + 1) - 1) \div 4 = q /\ ((4 * q + 1) - 1) % 4 = 0
  OBVIOUS
<1>2. ((4 * q + 2) - 1) \div 4 = q /\ ((4 * q + 2) - 1) % 4 = 1
  OBVIOUS
<1>3. ((4 * q + 3) - 1) \div 4 = q /\ ((4 * q + 3) - 1) % 4 = 2
  OBVIOUS
<1>4. ((4 * q + 4) - 1) \div 4 = q /\ ((4 * q + 4) - 1) % 4 = 3
  OBVIOUS
<1>5. 1 # 0 /\ 2 # 0 /\ 2 # 1 /\ 3 # 0 /\ 3 # 1 /\ 3 # 2
  OBVIOUS
<1>6. Sextet(in, 4 * q + 1) = At(in, 3 * q + 1) \div 4
  BY <1>1, Zenon DEF Sextet
<1>7. Sextet(in, 4 * q + 2) = (At(in, 3 * q + 1) % 4) * 16 + At(in, 3 * q + 2) \div 16
  BY <1>2, <1>5, Zenon DEF Sextet
<1>8. Sextet(in, 4 * q + 3) = (At(in, 3 * q + 2) % 16) * 4 + At(in, 3 * q + 3) \div 64
  BY <1>3, <1>5, Zenon DEF Sextet
<1>9. Sextet(in, 4 * q + 4) = At(in, 3 * q + 3) % 64
  BY <1>4, <1>5, Zenon DEF Sextet
<1> QED
  BY <1>6, <1>7, <1>8, <1>9

\* A number from 1 on is one of four after a multiple of four.
LEMMA FourCases ==
    ASSUME NEW i \in Nat, i >= 1
    PROVE  \E q \in Nat : i \in {4 * q + 1, 4 * q + 2, 4 * q + 3, 4 * q + 4}
<1>1. (i - 1) \div 4 \in Nat
  OBVIOUS
<1>2. i \in {4 * ((i - 1) \div 4) + 1, 4 * ((i - 1) \div 4) + 2,
             4 * ((i - 1) \div 4) + 3, 4 * ((i - 1) \div 4) + 4}
  OBVIOUS
<1> QED
  BY <1>1, <1>2, Zenon

LEMMA SextetAppend ==
    ASSUME NEW in \in Seq(Byte), NEW c \in Byte, NEW i \in 1..((4 * Len(in)) \div 3)
    PROVE  Sextet(Append(in, c), i) = Sextet(in, i)
<1>0. Len(in) \in Nat /\ i \in Nat /\ i >= 1
  OBVIOUS
<1>1. PICK q \in Nat : i \in {4 * q + 1, 4 * q + 2, 4 * q + 3, 4 * q + 4}
  BY <1>0, FourCases
<1>2. \A k \in Int : k <= Len(in) => At(Append(in, c), k) = At(in, k)
  <2> SUFFICES ASSUME NEW k \in Int, k <= Len(in)
               PROVE  At(Append(in, c), k) = At(in, k)
    OBVIOUS
  <2>1. k # Len(in) + 1
    BY <1>0
  <2> QED
    BY <2>1, AtAppend
<1>3. 3 * q + 1 \in Int /\ 3 * q + 2 \in Int /\ 3 * q + 3 \in Int
  OBVIOUS
<1>4. CASE i = 4 * q + 1
  <2>1. 3 * q + 1 <= Len(in)
    BY <1>0, <1>4
  <2> QED
    BY <1>2, <1>3, <1>4, <2>1, SextetAt, Zenon
<1>5. CASE i = 4 * q + 2
  <2>1. 3 * q + 1 <= Len(in) /\ 3 * q + 2 <= Len(in)
    BY <1>0, <1>5
  <2> QED
    BY <1>2, <1>3, <1>5, <2>1, SextetAt, Zenon
<1>6. CASE i = 4 * q + 3
  <2>1. 3 * q + 2 <= Len(in) /\ 3 * q + 3 <= Len(in)
    BY <1>0, <1>6
  <2> QED
    BY <1>2, <1>3, <1>6, <2>1, SextetAt, Zenon
<1>7. CASE i = 4 * q + 4
  <2>1. 3 * q + 3 <= Len(in)
    BY <1>0, <1>7
  <2> QED
    BY <1>2, <1>3, <1>7, <2>1, SextetAt, Zenon
<1> QED
  BY <1>1, <1>4, <1>5, <1>6, <1>7

\* The loop has put out the characters of whole groups, and holds the bits
\* that are left of the last byte.
EncodeGood(in, s) ==
    /\ s.valb = 2 * (Len(in) % 3) - 6
    /\ Len(in) # 0 => s.val % 256 = in[Len(in)]
    /\ Len(s.out) = (4 * Len(in)) \div 3
    /\ \A i \in 1..Len(s.out) : s.out[i] = Sextet(in, i)

LEMMA ByteBits ==
    ASSUME NEW v \in Nat, NEW c, c = v % 256
    PROVE  c % 4 = v % 4 /\ c % 16 = v % 16
  OBVIOUS

LEMMA EncodeGoodStep ==
    ASSUME NEW in \in Seq(Byte), NEW c \in Byte, NEW s \in EncodeState, EncodeGood(in, s)
    PROVE  EncodeGood(Append(in, c), EncodeByte(s, c))
<1> DEFINE t == Append(in, c)
           n == Len(in)
<1>1. t \in Seq(Byte) /\ Len(t) = n + 1 /\ n \in Nat /\ t[n + 1] = c
  BY AppendProperties
<1>2. \A k \in Int : At(t, k) = IF k = n + 1 THEN c ELSE At(in, k)
  BY AtAppend
<1>3. n # 0 => At(in, n) = in[n]
  BY <1>1 DEF At
<1>4. PICK v, b, o : v = s.val /\ b = s.valb /\ o = s.out
  OBVIOUS
<1>5. /\ v \in Nat /\ b = 2 * (n % 3) - 6 /\ (n # 0 => v % 256 = in[n])
      /\ o \in Seq(Char) /\ Len(o) = (4 * n) \div 3 /\ \A i \in 1..Len(o) : o[i] = Sextet(in, i)
  BY <1>4, IntAssumption DEF EncodeGood, EncodeState
<1>6. PICK val \in 0..(IntSize - 1), out \in Seq(Char) :
             EncodesTo(EncodeByte(s, c), v, b, o, c, val, out)
  BY <1>4, EncodeByteIs, Zenon
<1>12. /\ EncodeByte(s, c) = [val |-> val, out |-> out, valb |-> IF b = -2 THEN -6 ELSE b + 2]
       /\ val % 256 = c
  BY <1>6, Zenon DEF EncodesTo
<1>13. /\ b = -6 => out = Append(o, c \div 4)
       /\ b = -4 => out = Append(o, (v % 4) * 16 + c \div 16)
       /\ b = -2 => out = Append(Append(o, (v % 16) * 4 + c \div 64), c % 64)
  BY <1>6, Zenon DEF EncodesTo
<1>14. /\ c \div 4 \in Char /\ (v % 4) * 16 + c \div 16 \in Char
       /\ (v % 16) * 4 + c \div 64 \in Char /\ c % 64 \in Char
  <2>1. c \in 0..255 /\ v \in Nat
    BY <1>5 DEF Byte
  <2> QED
    BY <2>1, SextetType
<1>7. \A i \in 1..Len(o) : o[i] = Sextet(t, i)
  BY <1>5, SextetAppend
<1> HIDE DEF t, n
<1>8. \A x \in Char : /\ Append(o, x) \in Seq(Char) /\ Len(Append(o, x)) = Len(o) + 1
                      /\ Append(o, x)[Len(o) + 1] = x
                      /\ \A i \in 1..Len(o) : Append(o, x)[i] = o[i]
  BY <1>5, AppendProperties
<1>9. c \in 0..255
  BY DEF Byte
<1>10. /\ (IF b = -2 THEN -6 ELSE b + 2) = 2 * ((n + 1) % 3) - 6
       /\ Len(out) = (4 * (n + 1)) \div 3
       /\ \A i \in 1..Len(out) : out[i] = Sextet(t, i)
  <2>1. PICK m \in Nat : n \in {3 * m, 3 * m + 1, 3 * m + 2}
    BY <1>1, n \div 3 \in Nat, n \in {3 * (n \div 3), 3 * (n \div 3) + 1, 3 * (n \div 3) + 2}
  <2>2. CASE n = 3 * m
    <3>1. /\ b = -6 /\ Len(o) = 4 * m /\ 2 * ((n + 1) % 3) - 6 = -4
          /\ (4 * (n + 1)) \div 3 = 4 * m + 1
      BY <1>5, <2>2
    <3>2. PICK x \in Char : x = c \div 4 /\ out = Append(o, x)
      BY <1>13, <1>14, <3>1
    <3>3. At(t, 3 * m + 1) = c
      BY <1>2, <2>2
    <3>4. Sextet(t, 4 * m + 1) = x
      BY <3>2, <3>3, SextetAt, Zenon
    <3>5. ASSUME NEW i \in 1..(4 * m + 1)
          PROVE  out[i] = Sextet(t, i)
      <4>1. i \in 1..Len(o) \/ i = Len(o) + 1
        BY <3>1
      <4> QED
        BY <1>7, <1>8, <3>1, <3>2, <3>4, <4>1, Zenon
    <3> QED
      BY <1>8, <3>1, <3>2, <3>5
  <2>3. CASE n = 3 * m + 1
    <3>1. /\ b = -4 /\ Len(o) = 4 * m + 1 /\ 2 * ((n + 1) % 3) - 6 = -2
          /\ (4 * (n + 1)) \div 3 = 4 * m + 2 /\ n # 0
      BY <1>5, <2>3
    <3>2. PICK x \in Char : x = (v % 4) * 16 + c \div 16 /\ out = Append(o, x)
      BY <1>13, <1>14, <3>1
    <3>3. At(t, 3 * m + 2) = c /\ At(t, 3 * m + 1) = in[n]
      <4>1. 3 * m + 2 = n + 1 /\ 3 * m + 1 = n /\ n # n + 1 /\ n \in Int /\ n + 1 \in Int
        BY <1>1, <2>3
      <4> QED
        BY <1>2, <1>3, <3>1, <4>1, Zenon
    <3>4. in[n] % 4 = v % 4
      BY <1>5, <3>1, ByteBits
    <3>5. Sextet(t, 4 * m + 2) = x
      BY <3>2, <3>3, <3>4, SextetAt, Zenon
    <3>6. ASSUME NEW i \in 1..(4 * m + 2)
          PROVE  out[i] = Sextet(t, i)
      <4>1. i \in 1..Len(o) \/ (i = Len(o) + 1 /\ i = 4 * m + 2)
        BY <3>1
      <4> QED
        BY <1>7, <1>8, <3>1, <3>2, <3>5, <4>1, Zenon
    <3> QED
      BY <1>8, <3>1, <3>2, <3>6
  <2>4. CASE n = 3 * m + 2
    <3>1. /\ b = -2 /\ Len(o) = 4 * m + 2 /\ 2 * ((n + 1) % 3) - 6 = -6
          /\ (4 * (n + 1)) \div 3 = 4 * m + 4 /\ n # 0
      BY <1>5, <2>4
    <3>2. PICK x \in Char, y \in Char : /\ x = (v % 16) * 4 + c \div 64 /\ y = c % 64
                                        /\ out = Append(Append(o, x), y)
      BY <1>13, <1>14, <3>1
    <3>3. At(t, 3 * m + 3) = c /\ At(t, 3 * m + 2) = in[n]
      <4>1. 3 * m + 3 = n + 1 /\ 3 * m + 2 = n /\ n # n + 1 /\ n \in Int /\ n + 1 \in Int
        BY <1>1, <2>4
      <4> QED
        BY <1>2, <1>3, <3>1, <4>1, Zenon
    <3>4. in[n] % 16 = v % 16
      BY <1>5, <3>1, ByteBits
    <3>5. Sextet(t, 4 * m + 3) = x /\ Sextet(t, 4 * m + 4) = y
      BY <3>2, <3>3, <3>4, SextetAt, Zenon
    <3>6. PICK p : p = Append(o, x)
      OBVIOUS
    <3>7. /\ p \in Seq(Char) /\ Len(p) = Len(o) + 1 /\ p[Len(o) + 1] = x
          /\ \A i \in 1..Len(o) : p[i] = o[i]
      BY <1>8, <3>6
    <3>8. /\ Len(out) = Len(p) + 1 /\ out[Len(p) + 1] = y
          /\ \A i \in 1..Len(p) : out[i] = p[i]
      BY <3>2, <3>6, <3>7, AppendProperties
    <3>9. ASSUME NEW i \in 1..(4 * m + 4)
          PROVE  out[i] = Sextet(t, i)
      <4>1. \/ i \in 1..Len(o) /\ i \in 1..Len(p)
            \/ i = Len(o) + 1 /\ i = 4 * m + 3 /\ i \in 1..Len(p)
            \/ i = Len(p) + 1 /\ i = 4 * m + 4
        BY <3>1, <3>7
      <4> QED
        BY <1>7, <3>5, <3>7, <3>8, <4>1, Zenon
    <3> QED
      BY <3>1, <3>7, <3>8, <3>9
  <2> QED
    BY <2>1, <2>2, <2>3, <2>4
<1>11. PICK u : u = EncodeByte(s, c)
  OBVIOUS
<1>15. u.val = val /\ u.out = out /\ u.valb = IF b = -2 THEN -6 ELSE b + 2
  BY <1>11, <1>12
<1>16. /\ u.valb = 2 * (Len(t) % 3) - 6 /\ u.val % 256 = t[Len(t)]
       /\ Len(u.out) = (4 * Len(t)) \div 3 /\ \A i \in 1..Len(u.out) : u.out[i] = Sextet(t, i)
  BY <1>1, <1>10, <1>12, <1>15, Zenon
<1> QED
  BY <1>11, <1>16, Zenon DEF EncodeGood, t

LEMMA EncodeLoop == \A in \in Seq(Byte) : EncodeGood(in, Encoded(in))
<1> DEFINE T == {in \in Seq(Byte) : EncodeGood(in, Encoded(in))}
<1>1. <<>> \in T
  <2>1. Encoded(<<>>) = EncodeStart /\ <<>> \in Seq(Byte) /\ Len(<<>>) = 0
    BY EncodeUnfold
  <2>2. EncodeGood(<<>>, EncodeStart)
    BY DEF EncodeGood, EncodeStart
  <2> QED
    BY <2>1, <2>2
<1>2. ASSUME NEW in \in Seq(Byte), NEW c \in Byte, in \in T
      PROVE  Append(in, c) \in T
  <2>1. Encoded(in) \in EncodeState /\ Encoded(Append(in, c)) = EncodeByte(Encoded(in), c)
    BY EncodeUnfold
  <2>2. Append(in, c) \in Seq(Byte)
    BY AppendProperties
  <2> QED
    BY <1>2, <2>1, <2>2, EncodeGoodStep, Zenon
<1>3. \A in \in Seq(Byte) : in \in T
  <2> HIDE DEF T
  <2> QED BY <1>1, <1>2, SeqSetInduction
<1> QED
  BY <1>3

\* The characters of in without those that fill the last group.
TextLength(in) == (4 * Len(in) + 2) \div 3

LEMMA EncodeRest ==
    ASSUME NEW v \in Nat
    PROVE  /\ Bits(v * 256, 4, 6) = (v % 4) * 16 /\ (v % 4) * 16 \in Char
           /\ Bits(v * 256, 6, 6) = (v % 16) * 4 /\ (v % 16) * 4 \in Char
<1>1. /\ ((v * 256) \div 16) % 64 = (v % 4) * 16 /\ (v % 4) * 16 \in 0..63
      /\ ((v * 256) \div 64) % 64 = (v % 16) * 4 /\ (v % 16) * 4 \in 0..63
  BY SMT
<1> QED
  BY <1>1, SMT DEF Bits, Char

\* What encode gives: the characters of the bytes, and then equals signs.
LEMMA EncodeText ==
    ASSUME NEW in \in Seq(Byte)
    PROVE  /\ encode(in) \in Seq(Nat) /\ Len(encode(in)) \in Nat
           /\ TextLength(in) \in Nat /\ TextLength(in) <= Len(encode(in))
           /\ \A i \in 1..TextLength(in) : encode(in)[i] = Sextet(in, i) /\ Sextet(in, i) \in Char
           /\ \A i \in (TextLength(in) + 1)..Len(encode(in)) : encode(in)[i] = Pad
<1>1. PICK s : s = Encoded(in)
  OBVIOUS
<1>2. PICK v, b, o : v = s.val /\ b = s.valb /\ o = s.out
  OBVIOUS
<1>3. PICK n \in Nat : n = Len(in)
  OBVIOUS
<1>4. /\ v \in Nat /\ o \in Seq(Char)
      /\ b = 2 * (n % 3) - 6
      /\ n # 0 => v % 256 = in[n]
      /\ Len(o) = (4 * n) \div 3
      /\ \A i \in 1..Len(o) : o[i] = Sextet(in, i)
  <2>1. s \in EncodeState /\ EncodeGood(in, s)
    BY <1>1, EncodeUnfold, EncodeLoop
  <2>2. v \in Nat /\ o \in Seq(Char)
    BY <1>2, <2>1, IntAssumption DEF EncodeState
  <2> QED
    BY <1>2, <1>3, <2>1, <2>2, Zenon DEF EncodeGood
<1>5. PICK w : w = IF b > -6 THEN Append(o, Bits(v * 256, b + 8, 6)) ELSE o
  OBVIOUS
<1>6. encode(in) = Filled(w)
  <2>1. encode(in) = Filled(IF Encoded(in).valb > -6
                            THEN Append(Encoded(in).out,
                                        Bits(Encoded(in).val * 256, Encoded(in).valb + 8, 6))
                            ELSE Encoded(in).out)
    BY Zenon DEF encode, Encoded
  <2> QED
    BY <1>1, <1>2, <1>5, <2>1
<1>7. /\ w \in Seq(Char) /\ Len(w) = (4 * n + 2) \div 3
      /\ \A i \in 1..Len(w) : w[i] = Sextet(in, i)
  <2>0. \A x \in Char : /\ Append(o, x) \in Seq(Char) /\ Len(Append(o, x)) = Len(o) + 1
                        /\ Append(o, x)[Len(o) + 1] = x
                        /\ \A i \in 1..Len(o) : Append(o, x)[i] = o[i]
    BY <1>4, AppendProperties
  <2>1. PICK m \in Nat : n \in {3 * m, 3 * m + 1, 3 * m + 2}
    BY <1>3, n \div 3 \in Nat, n \in {3 * (n \div 3), 3 * (n \div 3) + 1, 3 * (n \div 3) + 2}
  <2>2. CASE n = 3 * m
    <3>1. b = -6 /\ Len(o) = (4 * n + 2) \div 3
      BY <1>4, <2>2
    <3>2. w = o
      BY <1>5, <3>1
    <3> QED
      BY <1>4, <3>1, <3>2
  <2>3. CASE n = 3 * m + 1
    <3>1. b = -4 /\ b > -6 /\ b + 8 = 4 /\ Len(o) + 1 = (4 * n + 2) \div 3 /\ Len(o) + 1 = 4 * m + 2
      BY <1>4, <2>3
    <3>2. PICK x \in Char : x = (v % 4) * 16 /\ w = Append(o, x)
      BY <1>4, <1>5, <3>1, EncodeRest
    <3>3. At(in, 3 * m + 1) = in[n] /\ At(in, 3 * m + 2) = 0 /\ n # 0
      BY <1>3, <2>3 DEF At
    <3>4. in[n] % 4 = v % 4
      BY <1>4, <3>3, ByteBits
    <3>5. Sextet(in, 4 * m + 2) = (At(in, 3 * m + 1) % 4) * 16 + At(in, 3 * m + 2) \div 16
      BY SextetAt
    <3>6. Sextet(in, Len(o) + 1) = x
      <4>1. 0 \div 16 = 0 /\ (v % 4) * 16 + 0 = (v % 4) * 16
        BY <1>4
      <4> QED
        BY <3>1, <3>2, <3>3, <3>4, <3>5, <4>1, Zenon
    <3>7. ASSUME NEW i \in 1..(Len(o) + 1)
          PROVE  w[i] = Sextet(in, i)
      <4>1. i \in 1..Len(o) \/ i = Len(o) + 1
        BY <1>4
      <4> QED
        BY <1>4, <2>0, <3>2, <3>6, <4>1, Zenon
    <3> QED
      BY <2>0, <3>1, <3>2, <3>7
  <2>4. CASE n = 3 * m + 2
    <3>1. b = -2 /\ b > -6 /\ b + 8 = 6 /\ Len(o) + 1 = (4 * n + 2) \div 3 /\ Len(o) + 1 = 4 * m + 3
      BY <1>4, <2>4
    <3>2. PICK x \in Char : x = (v % 16) * 4 /\ w = Append(o, x)
      BY <1>4, <1>5, <3>1, EncodeRest
    <3>3. At(in, 3 * m + 2) = in[n] /\ At(in, 3 * m + 3) = 0 /\ n # 0
      BY <1>3, <2>4 DEF At
    <3>4. in[n] % 16 = v % 16
      BY <1>4, <3>3, ByteBits
    <3>5. Sextet(in, 4 * m + 3) = (At(in, 3 * m + 2) % 16) * 4 + At(in, 3 * m + 3) \div 64
      BY SextetAt
    <3>6. Sextet(in, Len(o) + 1) = x
      <4>1. 0 \div 64 = 0 /\ (v % 16) * 4 + 0 = (v % 16) * 4
        BY <1>4
      <4> QED
        BY <3>1, <3>2, <3>3, <3>4, <3>5, <4>1, Zenon
    <3>7. ASSUME NEW i \in 1..(Len(o) + 1)
          PROVE  w[i] = Sextet(in, i)
      <4>1. i \in 1..Len(o) \/ i = Len(o) + 1
        BY <1>4
      <4> QED
        BY <1>4, <2>0, <3>2, <3>6, <4>1, Zenon
    <3> QED
      BY <2>0, <3>1, <3>2, <3>7
  <2> QED
    BY <2>1, <2>2, <2>3, <2>4
<1>8. PICK p : p = [i \in 1..((4 - (Len(w) % 4)) % 4) |-> Pad]
  OBVIOUS
<1>9. Filled(w) = w \o p
  BY <1>8, Zenon DEF Filled
<1>10. p \in Seq(Nat) /\ \A i \in 1..Len(p) : p[i] = Pad
  <2>1. (4 - (Len(w) % 4)) % 4 \in Nat
    BY <1>7
  <2> QED
    BY <1>8, <2>1 DEF Pad
<1>11. w \in Seq(Nat) /\ \A i \in 1..Len(w) : w[i] \in Char
  <2>1. \A i \in 1..Len(w) : w[i] \in Char
    BY <1>7
  <2>2. Char \subseteq Nat
    BY DEF Char
  <2>3. \A i \in 1..Len(w) : w[i] \in Nat
    BY <2>1, <2>2
  <2> QED
    BY <1>7, <2>1, <2>3
<1>12. /\ w \o p \in Seq(Nat) /\ Len(w \o p) = Len(w) + Len(p) /\ Len(w) \in Nat /\ Len(p) \in Nat
       /\ \A i \in 1..(Len(w) + Len(p)) : (w \o p)[i] = IF i <= Len(w) THEN w[i] ELSE p[i - Len(w)]
  BY <1>10, <1>11, ConcatProperties
<1>13. TextLength(in) = Len(w)
  BY <1>3, <1>7 DEF TextLength
<1>14. PICK t : t = encode(in)
  OBVIOUS
<1>15. /\ t \in Seq(Nat) /\ Len(t) = Len(w) + Len(p)
       /\ \A i \in 1..(Len(w) + Len(p)) : t[i] = IF i <= Len(w) THEN w[i] ELSE p[i - Len(w)]
  BY <1>6, <1>9, <1>12, <1>14, Zenon
<1>16. \A i \in 1..Len(w) : t[i] = Sextet(in, i) /\ Sextet(in, i) \in Char
  <2>1. \A i \in 1..Len(w) : i \in 1..(Len(w) + Len(p)) /\ i <= Len(w)
    BY <1>12
  <2>2. \A i \in 1..Len(w) : t[i] = w[i]
    BY <1>15, <2>1, Zenon
  <2>3. \A i \in 1..Len(w) : w[i] = Sextet(in, i)
    BY <1>7
  <2> QED
    BY <1>11, <2>2, <2>3, Zenon
<1>17. \A i \in (Len(w) + 1)..Len(t) : t[i] = Pad
  <2> SUFFICES ASSUME NEW i \in (Len(w) + 1)..Len(t)
               PROVE  t[i] = Pad
    OBVIOUS
  <2>1. /\ i \in 1..(Len(w) + Len(p)) /\ ~(i <= Len(w)) /\ i - Len(w) \in 1..Len(p)
    BY <1>12, <1>15
  <2> QED
    BY <1>10, <1>15, <2>1
<1> QED
  BY <1>12, <1>13, <1>14, <1>15, <1>16, <1>17

-----------------------------------------------------------------------------
(* decode *)

\* The loop of decode.
Decoded(in) ==
    LET s[n \in 0..Len(in)] ==
            IF n = 0 THEN [val |-> 0, valb |-> -8, out |-> <<>>, stop |-> FALSE]
            ELSE DecodeChar(s[n - 1], in[n])
    IN s[Len(in)]

DecodeState == [val : 0..(IntSize - 1), valb : {-8, -6, -4, -2}, out : Seq(Byte), stop : BOOLEAN]
DecodeStart == [val |-> 0, valb |-> -8, out |-> <<>>, stop |-> FALSE]

LEMMA DecodeBits ==
    ASSUME NEW old \in Nat, NEW c \in Char, NEW val \in Nat,
           val % Word = (old * 64 + c) % Word
    PROVE  /\ val % 64 = c
           /\ Bits(val, 4, 8) = (old % 64) * 4 + c \div 16
           /\ Bits(val, 2, 8) = (old % 16) * 16 + c \div 4
           /\ Bits(val, 0, 8) = (old % 4) * 64 + c
<1>1. old * 64 + c \in Nat /\ c \in 0..63
  BY DEF Char
<1>2. PICK a \in 0..1023, m \in Nat : old = 1024 * m + a
  BY old = 1024 * (old \div 1024) + (old % 1024), SMT
<1>3. val % 65536 = a * 64 + c
  BY <1>1, <1>2, SMT DEF Word
<1>4. PICK n \in Nat : val = 65536 * n + (a * 64 + c)
  BY <1>3, 65536 * (val \div 65536) + (val % 65536) = val, SMT
<1>5. old % 4 = a % 4 /\ old % 16 = a % 16 /\ old % 64 = a % 64
  BY <1>2, SMT
<1>6. (val \div 16) % 256 = (a % 64) * 4 + c \div 16
  BY <1>1, <1>4, SMT
<1>7. (val \div 4) % 256 = (a % 16) * 16 + c \div 4
  BY <1>1, <1>4, SMT
<1>8. (val \div 1) % 256 = (a % 4) * 64 + c
  BY <1>1, <1>4, SMT
<1>9. val % 64 = c
  BY <1>1, <1>4, SMT
<1>10. Bits(val, 4, 8) = (old % 64) * 4 + c \div 16
  BY <1>5, <1>6, SMT DEF Bits
<1>11. Bits(val, 2, 8) = (old % 16) * 16 + c \div 4
  BY <1>5, <1>7, SMT DEF Bits
<1>12. Bits(val, 0, 8) = (old % 4) * 64 + c
  BY <1>5, <1>8, SMT DEF Bits
<1> QED
  BY <1>9, <1>10, <1>11, <1>12

LEMMA OctetType ==
    ASSUME NEW v \in Nat, NEW c \in 0..63
    PROVE  /\ (v % 64) * 4 + c \div 16 \in Byte /\ (v % 16) * 16 + c \div 4 \in Byte
           /\ (v % 4) * 64 + c \in Byte
  BY SMT DEF Byte

\* One more character c after the state of val v, valb b and output o.
DecodesTo(u, v, b, o, c, val, out) ==
    /\ u = [val |-> val, out |-> out, valb |-> IF b = -8 THEN -2 ELSE b - 2, stop |-> FALSE]
    /\ val % 64 = c
    /\ b = -8 => out = o
    /\ b = -2 => out = Append(o, (v % 64) * 4 + c \div 16)
    /\ b = -4 => out = Append(o, (v % 16) * 16 + c \div 4)
    /\ b = -6 => out = Append(o, (v % 4) * 64 + c)

LEMMA DecodeCharIs ==
    ASSUME NEW s \in DecodeState, NEW c \in Char, ~s.stop,
           NEW v, NEW b, NEW o, v = s.val, b = s.valb, o = s.out
    PROVE  \E val \in 0..(IntSize - 1), out \in Seq(Byte) :
             DecodesTo(DecodeChar(s, c), v, b, o, c, val, out)
<1>1. v \in Nat /\ b \in {-8, -6, -4, -2} /\ o \in Seq(Byte) /\ c \in 0..63 /\ ~(c >= 64)
  BY IntAssumption DEF DecodeState, Char
<1>2. PICK val : val = (v * 64 + c) % IntSize
  OBVIOUS
<1>3. /\ val \in 0..(IntSize - 1) /\ val % 64 = c
      /\ Bits(val, 4, 8) = (v % 64) * 4 + c \div 16
      /\ Bits(val, 2, 8) = (v % 16) * 16 + c \div 4
      /\ Bits(val, 0, 8) = (v % 4) * 64 + c
  <2>1. v * 64 + c \in Nat
    BY <1>1
  <2>2. val \in Nat /\ val \in 0..(IntSize - 1) /\ val % Word = (v * 64 + c) % Word
    BY <1>2, <2>1, IntModulo, Zenon
  <2> QED
    <3>1. v \in Nat
      BY <1>1
    <3> QED
      BY <2>2, <3>1, DecodeBits, SMT
<1>4. PICK x, y, z : /\ x = (v % 64) * 4 + c \div 16 /\ y = (v % 16) * 16 + c \div 4
                    /\ z = (v % 4) * 64 + c
  OBVIOUS
<1>5. x \in Byte /\ y \in Byte /\ z \in Byte
  BY <1>1, <1>4, OctetType, Zenon
<1>6. Append(o, x) \in Seq(Byte) /\ Append(o, y) \in Seq(Byte) /\ Append(o, z) \in Seq(Byte)
  BY <1>1, <1>5
<1>7. DecodeChar(s, c) =
          IF b + 6 >= 0
          THEN [val |-> val, valb |-> (b + 6) - 8, out |-> Append(o, Bits(val, b + 6, 8)), stop |-> FALSE]
          ELSE [val |-> val, valb |-> b + 6, out |-> o, stop |-> FALSE]
  BY <1>1, <1>2, Zenon DEF DecodeChar
<1>8. CASE b = -8
  <2>1. ~(b + 6 >= 0) /\ b + 6 = -2
    BY <1>8
  <2>2. DecodeChar(s, c) = [val |-> val, valb |-> -2, out |-> o, stop |-> FALSE]
    BY <1>7, <2>1, Zenon
  <2>3. DecodesTo(DecodeChar(s, c), v, b, o, c, val, o)
    BY <1>3, <1>8, <2>2 DEF DecodesTo
  <2> QED
    BY <1>1, <1>3, <2>3
<1>9. CASE b = -2
  <2>1. b + 6 >= 0 /\ b + 6 = 4 /\ (b + 6) - 8 = -4 /\ b - 2 = -4
    BY <1>9
  <2>2. DecodeChar(s, c) = [val |-> val, valb |-> -4, out |-> Append(o, x), stop |-> FALSE]
    BY <1>3, <1>4, <1>7, <2>1, Zenon
  <2>3. DecodesTo(DecodeChar(s, c), v, b, o, c, val, Append(o, x))
    BY <1>3, <1>4, <1>9, <2>1, <2>2 DEF DecodesTo
  <2> QED
    BY <1>3, <1>6, <2>3
<1>10. CASE b = -4
  <2>1. b + 6 >= 0 /\ b + 6 = 2 /\ (b + 6) - 8 = -6 /\ b - 2 = -6
    BY <1>10
  <2>2. DecodeChar(s, c) = [val |-> val, valb |-> -6, out |-> Append(o, y), stop |-> FALSE]
    BY <1>3, <1>4, <1>7, <2>1, Zenon
  <2>3. DecodesTo(DecodeChar(s, c), v, b, o, c, val, Append(o, y))
    BY <1>3, <1>4, <1>10, <2>1, <2>2 DEF DecodesTo
  <2> QED
    BY <1>3, <1>6, <2>3
<1>11. CASE b = -6
  <2>1. b + 6 >= 0 /\ b + 6 = 0 /\ (b + 6) - 8 = -8 /\ b - 2 = -8
    BY <1>11
  <2>2. DecodeChar(s, c) = [val |-> val, valb |-> -8, out |-> Append(o, z), stop |-> FALSE]
    BY <1>3, <1>4, <1>7, <2>1, Zenon
  <2>3. DecodesTo(DecodeChar(s, c), v, b, o, c, val, Append(o, z))
    BY <1>3, <1>4, <1>11, <2>1, <2>2 DEF DecodesTo
  <2> QED
    BY <1>3, <1>6, <2>3
<1> QED
  BY <1>1, <1>8, <1>9, <1>10, <1>11

LEMMA DecodeStops ==
    ASSUME NEW s \in DecodeState, NEW c \in Nat, s.stop \/ c >= 64
    PROVE  /\ DecodeChar(s, c) \in DecodeState
           /\ DecodeChar(s, c).out = s.out /\ DecodeChar(s, c).stop
<1>1. DecodeChar(s, c) = [s EXCEPT !.stop = TRUE]
  BY Zenon DEF DecodeChar
<1> QED
  BY <1>1 DEF DecodeState

LEMMA DecodeCharType ==
    ASSUME NEW s \in DecodeState, NEW c \in Nat
    PROVE  DecodeChar(s, c) \in DecodeState
<1>1. CASE s.stop \/ c >= 64
  BY <1>1, DecodeStops
<1>2. CASE ~s.stop /\ ~(c >= 64)
  <2>1. PICK v, b, o : v = s.val /\ b = s.valb /\ o = s.out
    OBVIOUS
  <2>2. c \in Char
    BY <1>2 DEF Char
  <2>3. PICK val \in 0..(IntSize - 1), out \in Seq(Byte) :
             DecodesTo(DecodeChar(s, c), v, b, o, c, val, out)
    BY <1>2, <2>1, <2>2, DecodeCharIs, Zenon
  <2>4. b \in {-8, -6, -4, -2}
    BY <2>1 DEF DecodeState
  <2> QED
    BY <2>3, <2>4 DEF DecodeState, DecodesTo
<1> QED
  BY <1>1, <1>2

DecodeStep == [s \in DecodeState |-> [c \in Nat |-> DecodeChar(s, c)]]

LEMMA DecodeStepType ==
    DecodeStep \in [DecodeState -> [Nat -> DecodeState]] /\ DecodeStart \in DecodeState
<1>1. \A s \in DecodeState, c \in Nat : DecodeChar(s, c) \in DecodeState
  BY DecodeCharType
<1>2. DecodeStart \in DecodeState
  BY IntAssumption DEF DecodeStart, DecodeState
<1> QED
  BY <1>1, <1>2 DEF DecodeStep

LEMMA DecodeFold ==
    ASSUME NEW s \in Seq(Nat)
    PROVE  \E t : Folds(t, Nat, DecodeState, DecodeStart, DecodeStep, s) /\ Decoded(s) = t[Len(s)]
<1> DEFINE Rhs(t) == [n \in 0..Len(s) |->
                         IF n = 0 THEN DecodeStart ELSE DecodeChar(t[n - 1], s[n])]
<1>0. Len(s) \in Nat /\ \A n \in 1..Len(s) : s[n] \in Nat
  OBVIOUS
<1>1. PICK f : Folds(f, Nat, DecodeState, DecodeStart, DecodeStep, s)
  BY DecodeStepType, FoldExists
<1>2. f = Rhs(f)
  <2>1. f \in [0..Len(s) -> DecodeState] /\ f[0] = DecodeStart
    BY <1>1 DEF Folds
  <2>2. ASSUME NEW n \in 1..Len(s)
        PROVE  f[n] = DecodeChar(f[n - 1], s[n])
    <3>1. f[n] = DecodeStep[f[n - 1]][s[n]]
      BY <1>1 DEF Folds
    <3>2. f[n - 1] \in DecodeState /\ s[n] \in Nat
      BY <1>0, <2>1
    <3> QED
      BY <3>1, <3>2 DEF DecodeStep
  <2>3. ASSUME NEW n \in 0..Len(s)
        PROVE  f[n] = Rhs(f)[n]
    <3>1. n = 0 \/ (n # 0 /\ n \in 1..Len(s))
      BY <1>0
    <3> QED
      BY <2>1, <2>2, <3>1, Zenon
  <2>4. Rhs(f) = [n \in 0..Len(s) |-> Rhs(f)[n]] /\ f = [n \in 0..Len(s) |-> f[n]]
    BY <2>1, Zenon
  <2> QED
    BY <2>3, <2>4, Zenon
<1> DEFINE t == CHOOSE g : g = Rhs(g)
<1>3. t = Rhs(t)
  BY <1>2
<1>4. Decoded(s) = t[Len(s)]
  BY DEF Decoded, DecodeStart
<1> HIDE DEF t
<1>5. Folds(t, Nat, DecodeState, DecodeStart, DecodeStep, s)
  <2>1. Over(t, 0..Len(s)) /\ t[0] = DecodeStart
    BY <1>0, <1>3 DEF Over
  <2>2. ASSUME NEW n \in 1..Len(s), t[n - 1] \in DecodeState
        PROVE  t[n] = DecodeStep[t[n - 1]][s[n]]
    <3>1. t[n] = DecodeChar(t[n - 1], s[n])
      <4>1. n \in 0..Len(s) /\ n # 0
        BY <1>0
      <4>2. t[n] = Rhs(t)[n]
        BY <1>3, Zenon
      <4> QED
        BY <4>1, <4>2, Zenon
    <3>2. \A u \in DecodeState, c \in Nat : DecodeStep[u][c] = DecodeChar(u, c)
      BY DEF DecodeStep
    <3> QED
      BY <1>0, <2>2, <3>1, <3>2, Zenon
  <2> QED
    BY <2>1, <2>2, DecodeStepType, FoldEquations
<1> QED
  BY <1>4, <1>5

LEMMA DecodeUnfold ==
    /\ Decoded(<<>>) = DecodeStart
    /\ \A s \in Seq(Nat) :
          /\ Decoded(s) \in DecodeState
          /\ \A c \in Nat : Decoded(Append(s, c)) = DecodeChar(Decoded(s), c)
<1>1. Decoded(<<>>) = DecodeStart
  BY <<>> \in Seq(Nat), DecodeFold DEF Folds
<1>2. ASSUME NEW s \in Seq(Nat)
      PROVE  Decoded(s) \in DecodeState
  <2>1. PICK f : Folds(f, Nat, DecodeState, DecodeStart, DecodeStep, s) /\ Decoded(s) = f[Len(s)]
    BY DecodeFold
  <2>2. Len(s) \in 0..Len(s) /\ f \in [0..Len(s) -> DecodeState]
    BY <2>1 DEF Folds
  <2> QED
    BY <2>1, <2>2, Zenon
<1>3. ASSUME NEW s \in Seq(Nat), NEW c \in Nat
      PROVE  Decoded(Append(s, c)) = DecodeChar(Decoded(s), c)
  <2>1. PICK f : Folds(f, Nat, DecodeState, DecodeStart, DecodeStep, s) /\ Decoded(s) = f[Len(s)]
    BY DecodeFold
  <2>2. PICK g : /\ Folds(g, Nat, DecodeState, DecodeStart, DecodeStep, Append(s, c))
                 /\ Decoded(Append(s, c)) = g[Len(Append(s, c))]
    BY Append(s, c) \in Seq(Nat), DecodeFold
  <2>3. /\ Folds(f, Nat, DecodeState, DecodeStart, DecodeStep, s)
        /\ Folds(g, Nat, DecodeState, DecodeStart, DecodeStep, Append(s, c))
    BY <2>1, <2>2
  <2>4. f[Len(s)] \in DecodeState /\ g[Len(Append(s, c))] = DecodeStep[f[Len(s)]][c]
    BY <2>3, FoldAppend
  <2> QED
    BY <2>1, <2>2, <2>4 DEF DecodeStep
<1> QED
  BY <1>1, <1>2, <1>3

-----------------------------------------------------------------------------
(* What decode gives *)

\* Byte j of what a base64 text t stands for: of a group of four characters.
Octet(t, j) ==
    LET c(k) == At(t, 4 * ((j - 1) \div 3) + k)
        r == (j - 1) % 3
    IN IF r = 0 THEN c(1) * 4 + c(2) \div 16
       ELSE IF r = 1 THEN (c(2) % 16) * 16 + c(3) \div 4
       ELSE (c(3) % 4) * 64 + c(4)

LEMMA OctetAt ==
    ASSUME NEW t, NEW q \in Nat
    PROVE  /\ Octet(t, 3 * q + 1) = At(t, 4 * q + 1) * 4 + At(t, 4 * q + 2) \div 16
           /\ Octet(t, 3 * q + 2) = (At(t, 4 * q + 2) % 16) * 16 + At(t, 4 * q + 3) \div 4
           /\ Octet(t, 3 * q + 3) = (At(t, 4 * q + 3) % 4) * 64 + At(t, 4 * q + 4)
<1>1. ((3 * q + 1) - 1) \div 3 = q /\ ((3 * q + 1) - 1) % 3 = 0
  OBVIOUS
<1>2. ((3 * q + 2) - 1) \div 3 = q /\ ((3 * q + 2) - 1) % 3 = 1
  OBVIOUS
<1>3. ((3 * q + 3) - 1) \div 3 = q /\ ((3 * q + 3) - 1) % 3 = 2
  OBVIOUS
<1>4. 1 # 0 /\ 2 # 0 /\ 2 # 1
  OBVIOUS
<1>5. Octet(t, 3 * q + 1) = At(t, 4 * q + 1) * 4 + At(t, 4 * q + 2) \div 16
  BY <1>1, Zenon DEF Octet
<1>6. Octet(t, 3 * q + 2) = (At(t, 4 * q + 2) % 16) * 16 + At(t, 4 * q + 3) \div 4
  BY <1>2, <1>4, Zenon DEF Octet
<1>7. Octet(t, 3 * q + 3) = (At(t, 4 * q + 3) % 4) * 64 + At(t, 4 * q + 4)
  BY <1>3, <1>4, Zenon DEF Octet
<1> QED
  BY <1>5, <1>6, <1>7

LEMMA ThreeCases ==
    ASSUME NEW i \in Nat, i >= 1
    PROVE  \E q \in Nat : i \in {3 * q + 1, 3 * q + 2, 3 * q + 3}
<1>1. (i - 1) \div 3 \in Nat
  OBVIOUS
<1>2. i \in {3 * ((i - 1) \div 3) + 1, 3 * ((i - 1) \div 3) + 2, 3 * ((i - 1) \div 3) + 3}
  OBVIOUS
<1> QED
  BY <1>1, <1>2, Zenon

LEMMA OctetAppend ==
    ASSUME NEW t \in Seq(Char), NEW c \in Char, NEW j \in 1..((3 * Len(t)) \div 4)
    PROVE  Octet(Append(t, c), j) = Octet(t, j)
<1>0. Len(t) \in Nat /\ j \in Nat /\ j >= 1
  OBVIOUS
<1>1. PICK q \in Nat : j \in {3 * q + 1, 3 * q + 2, 3 * q + 3}
  BY <1>0, ThreeCases
<1>2. \A k \in Int : k <= Len(t) => At(Append(t, c), k) = At(t, k)
  <2> SUFFICES ASSUME NEW k \in Int, k <= Len(t)
               PROVE  At(Append(t, c), k) = At(t, k)
    OBVIOUS
  <2>1. k # Len(t) + 1
    BY <1>0
  <2> QED
    BY <2>1, AtAppend
<1>3. 4 * q + 1 \in Int /\ 4 * q + 2 \in Int /\ 4 * q + 3 \in Int /\ 4 * q + 4 \in Int
  OBVIOUS
<1>4. CASE j = 3 * q + 1
  <2>1. 4 * q + 1 <= Len(t) /\ 4 * q + 2 <= Len(t)
    BY <1>0, <1>4
  <2> QED
    BY <1>2, <1>3, <1>4, <2>1, OctetAt, Zenon
<1>5. CASE j = 3 * q + 2
  <2>1. 4 * q + 2 <= Len(t) /\ 4 * q + 3 <= Len(t)
    BY <1>0, <1>5
  <2> QED
    BY <1>2, <1>3, <1>5, <2>1, OctetAt, Zenon
<1>6. CASE j = 3 * q + 3
  <2>1. 4 * q + 3 <= Len(t) /\ 4 * q + 4 <= Len(t)
    BY <1>0, <1>6
  <2> QED
    BY <1>2, <1>3, <1>6, <2>1, OctetAt, Zenon
<1> QED
  BY <1>1, <1>4, <1>5, <1>6

\* The loop has put out the bytes that are complete, and holds the last
\* character.
DecodeGood(t, s) ==
    /\ s.valb = IF Len(t) % 4 = 0 THEN -8 ELSE -(2 * (Len(t) % 4))
    /\ Len(t) # 0 => s.val % 64 = t[Len(t)]
    /\ Len(s.out) = (3 * Len(t)) \div 4
    /\ \A j \in 1..Len(s.out) : s.out[j] = Octet(t, j)
    /\ ~s.stop

LEMMA CharBits ==
    ASSUME NEW v \in Nat, NEW c, c = v % 64
    PROVE  c % 4 = v % 4 /\ c % 16 = v % 16
  OBVIOUS

LEMMA DecodeGoodStep ==
    ASSUME NEW t0 \in Seq(Char), NEW c \in Char, NEW s \in DecodeState, DecodeGood(t0, s)
    PROVE  DecodeGood(Append(t0, c), DecodeChar(s, c))
<1> DEFINE t == Append(t0, c)
           n == Len(t0)
<1>1. t \in Seq(Char) /\ Len(t) = n + 1 /\ n \in Nat /\ t[n + 1] = c
  BY AppendProperties
<1>2. \A k \in Int : At(t, k) = IF k = n + 1 THEN c ELSE At(t0, k)
  BY AtAppend
<1>3. n # 0 => At(t0, n) = t0[n]
  BY <1>1 DEF At
<1>4. PICK v, b, o : v = s.val /\ b = s.valb /\ o = s.out
  OBVIOUS
<1>5. /\ v \in Nat /\ b = (IF n % 4 = 0 THEN -8 ELSE -(2 * (n % 4)))
      /\ (n # 0 => v % 64 = t0[n])
      /\ o \in Seq(Byte) /\ Len(o) = (3 * n) \div 4 /\ \A j \in 1..Len(o) : o[j] = Octet(t0, j)
      /\ ~s.stop
  BY <1>4, IntAssumption DEF DecodeGood, DecodeState
<1>6. PICK val \in 0..(IntSize - 1), out \in Seq(Byte) :
             DecodesTo(DecodeChar(s, c), v, b, o, c, val, out)
  BY <1>4, <1>5, DecodeCharIs, Zenon
<1>12. /\ DecodeChar(s, c) = [val |-> val, out |-> out, valb |-> IF b = -8 THEN -2 ELSE b - 2,
                              stop |-> FALSE]
       /\ val % 64 = c
  BY <1>6, Zenon DEF DecodesTo
<1>13. /\ b = -8 => out = o
       /\ b = -2 => out = Append(o, (v % 64) * 4 + c \div 16)
       /\ b = -4 => out = Append(o, (v % 16) * 16 + c \div 4)
       /\ b = -6 => out = Append(o, (v % 4) * 64 + c)
  BY <1>6, Zenon DEF DecodesTo
<1>14. /\ (v % 64) * 4 + c \div 16 \in Byte /\ (v % 16) * 16 + c \div 4 \in Byte
       /\ (v % 4) * 64 + c \in Byte
  <2>1. c \in 0..63 /\ v \in Nat
    BY <1>5 DEF Char
  <2> QED
    BY <2>1, OctetType
<1>7. \A j \in 1..Len(o) : o[j] = Octet(t, j)
  BY <1>5, OctetAppend
<1> HIDE DEF t, n
<1>8. \A x \in Byte : /\ Append(o, x) \in Seq(Byte) /\ Len(Append(o, x)) = Len(o) + 1
                      /\ Append(o, x)[Len(o) + 1] = x
                      /\ \A j \in 1..Len(o) : Append(o, x)[j] = o[j]
  BY <1>5, AppendProperties
<1>9. c \in 0..63
  BY DEF Char
<1>10. /\ (IF b = -8 THEN -2 ELSE b - 2) = IF (n + 1) % 4 = 0 THEN -8 ELSE -(2 * ((n + 1) % 4))
       /\ Len(out) = (3 * (n + 1)) \div 4
       /\ \A j \in 1..Len(out) : out[j] = Octet(t, j)
  <2>1. PICK m \in Nat : n \in {4 * m, 4 * m + 1, 4 * m + 2, 4 * m + 3}
    BY <1>1, n \div 4 \in Nat,
       n \in {4 * (n \div 4), 4 * (n \div 4) + 1, 4 * (n \div 4) + 2, 4 * (n \div 4) + 3}
  <2>2. CASE n = 4 * m
    <3>1. b = -8 /\ Len(o) = 3 * m /\ (n + 1) % 4 = 1 /\ (3 * (n + 1)) \div 4 = 3 * m
      BY <1>5, <2>2
    <3>2. out = o
      BY <1>13, <3>1
    <3> QED
      BY <1>7, <3>1, <3>2
  <2>3. CASE n = 4 * m + 1
    <3>1. /\ b = -2 /\ Len(o) = 3 * m /\ (n + 1) % 4 = 2 /\ (3 * (n + 1)) \div 4 = 3 * m + 1
          /\ Len(o) + 1 = 3 * m + 1 /\ n # 0
      BY <1>5, <2>3
    <3>2. PICK x \in Byte : x = (v % 64) * 4 + c \div 16 /\ out = Append(o, x)
      BY <1>13, <1>14, <3>1
    <3>3. At(t, 4 * m + 2) = c /\ At(t, 4 * m + 1) = t0[n]
      <4>1. 4 * m + 2 = n + 1 /\ 4 * m + 1 = n /\ n # n + 1 /\ n \in Int /\ n + 1 \in Int
        BY <1>1, <2>3
      <4> QED
        BY <1>2, <1>3, <3>1, <4>1, Zenon
    <3>4. t0[n] = v % 64
      BY <1>5, <3>1, CharBits
    <3>5. Octet(t, 3 * m + 1) = x
      BY <3>2, <3>3, <3>4, OctetAt, Zenon
    <3>6. ASSUME NEW j \in 1..(3 * m + 1)
          PROVE  out[j] = Octet(t, j)
      <4>1. j \in 1..Len(o) \/ (j = Len(o) + 1 /\ j = 3 * m + 1)
        BY <3>1
      <4> QED
        BY <1>7, <1>8, <3>1, <3>2, <3>5, <4>1, Zenon
    <3> QED
      BY <1>8, <3>1, <3>2, <3>6
  <2>4. CASE n = 4 * m + 2
    <3>1. /\ b = -4 /\ Len(o) = 3 * m + 1 /\ (n + 1) % 4 = 3 /\ (3 * (n + 1)) \div 4 = 3 * m + 2
          /\ Len(o) + 1 = 3 * m + 2 /\ n # 0
      BY <1>5, <2>4
    <3>2. PICK x \in Byte : x = (v % 16) * 16 + c \div 4 /\ out = Append(o, x)
      BY <1>13, <1>14, <3>1
    <3>3. At(t, 4 * m + 3) = c /\ At(t, 4 * m + 2) = t0[n]
      <4>1. 4 * m + 3 = n + 1 /\ 4 * m + 2 = n /\ n # n + 1 /\ n \in Int /\ n + 1 \in Int
        BY <1>1, <2>4
      <4> QED
        BY <1>2, <1>3, <3>1, <4>1, Zenon
    <3>4. t0[n] % 16 = v % 16
      BY <1>5, <3>1, CharBits
    <3>5. Octet(t, 3 * m + 2) = x
      BY <3>2, <3>3, <3>4, OctetAt, Zenon
    <3>6. ASSUME NEW j \in 1..(3 * m + 2)
          PROVE  out[j] = Octet(t, j)
      <4>1. j \in 1..Len(o) \/ (j = Len(o) + 1 /\ j = 3 * m + 2)
        BY <3>1
      <4> QED
        BY <1>7, <1>8, <3>1, <3>2, <3>5, <4>1, Zenon
    <3> QED
      BY <1>8, <3>1, <3>2, <3>6
  <2>5. CASE n = 4 * m + 3
    <3>1. /\ b = -6 /\ Len(o) = 3 * m + 2 /\ (n + 1) % 4 = 0 /\ (3 * (n + 1)) \div 4 = 3 * m + 3
          /\ Len(o) + 1 = 3 * m + 3 /\ n # 0
      BY <1>5, <2>5
    <3>2. PICK x \in Byte : x = (v % 4) * 64 + c /\ out = Append(o, x)
      BY <1>13, <1>14, <3>1
    <3>3. At(t, 4 * m + 4) = c /\ At(t, 4 * m + 3) = t0[n]
      <4>1. 4 * m + 4 = n + 1 /\ 4 * m + 3 = n /\ n # n + 1 /\ n \in Int /\ n + 1 \in Int
        BY <1>1, <2>5
      <4> QED
        BY <1>2, <1>3, <3>1, <4>1, Zenon
    <3>4. t0[n] % 4 = v % 4
      BY <1>5, <3>1, CharBits
    <3>5. Octet(t, 3 * m + 3) = x
      BY <3>2, <3>3, <3>4, OctetAt, Zenon
    <3>6. ASSUME NEW j \in 1..(3 * m + 3)
          PROVE  out[j] = Octet(t, j)
      <4>1. j \in 1..Len(o) \/ (j = Len(o) + 1 /\ j = 3 * m + 3)
        BY <3>1
      <4> QED
        BY <1>7, <1>8, <3>1, <3>2, <3>5, <4>1, Zenon
    <3> QED
      BY <1>8, <3>1, <3>2, <3>6
  <2> QED
    BY <2>1, <2>2, <2>3, <2>4, <2>5
<1>11. PICK u : u = DecodeChar(s, c)
  OBVIOUS
<1>15. u.val = val /\ u.out = out /\ u.valb = (IF b = -8 THEN -2 ELSE b - 2) /\ ~u.stop
  BY <1>11, <1>12
<1>16. /\ u.valb = IF Len(t) % 4 = 0 THEN -8 ELSE -(2 * (Len(t) % 4))
       /\ u.val % 64 = t[Len(t)] /\ ~u.stop
       /\ Len(u.out) = (3 * Len(t)) \div 4 /\ \A j \in 1..Len(u.out) : u.out[j] = Octet(t, j)
  BY <1>1, <1>10, <1>12, <1>15, Zenon
<1> QED
  BY <1>11, <1>16, Zenon DEF DecodeGood, t

LEMMA SeqSubset ==
    ASSUME NEW S, NEW R, S \subseteq R
    PROVE  \A s \in Seq(S) : s \in Seq(R)
<1> SUFFICES ASSUME NEW s \in Seq(S)
             PROVE  s \in Seq(R)
  OBVIOUS
<1>1. \A i \in 1..Len(s) : s[i] \in S
  OBVIOUS
<1>2. \A i \in 1..Len(s) : s[i] \in R
  BY <1>1
<1> QED
  BY <1>2

LEMMA DecodeLoop == \A t \in Seq(Char) : DecodeGood(t, Decoded(t))
<1>0. Char \subseteq Nat /\ \A t \in Seq(Char) : t \in Seq(Nat)
  <2>1. Char \subseteq Nat
    BY DEF Char
  <2> QED
    BY <2>1, SeqSubset
<1> DEFINE T == {t \in Seq(Char) : DecodeGood(t, Decoded(t))}
<1>1. <<>> \in T
  <2>1. Decoded(<<>>) = DecodeStart /\ <<>> \in Seq(Char) /\ Len(<<>>) = 0
    BY DecodeUnfold
  <2>2. DecodeGood(<<>>, DecodeStart)
    BY DEF DecodeGood, DecodeStart
  <2> QED
    BY <2>1, <2>2
<1>2. ASSUME NEW t \in Seq(Char), NEW c \in Char, t \in T
      PROVE  Append(t, c) \in T
  <2>1. t \in Seq(Nat) /\ c \in Nat
    BY <1>0
  <2>2. Decoded(t) \in DecodeState /\ Decoded(Append(t, c)) = DecodeChar(Decoded(t), c)
    BY <2>1, DecodeUnfold
  <2>3. Append(t, c) \in Seq(Char)
    BY AppendProperties
  <2> QED
    BY <1>2, <2>2, <2>3, DecodeGoodStep, Zenon
<1>3. \A t \in Seq(Char) : t \in T
  <2> HIDE DEF T
  <2> QED BY <1>1, <1>2, SeqSetInduction
<1> QED
  BY <1>3

\* What follows the first character outside the alphabet is not looked at.
LEMMA DecodeTail ==
    ASSUME NEW p \in Seq(Nat)
    PROVE  \A r \in Seq(Nat) : r = <<>> \/ r[1] >= 64 => Decoded(p \o r).out = Decoded(p).out
<1> DEFINE Good(r) == /\ r = <<>> \/ r[1] >= 64 => Decoded(p \o r).out = Decoded(p).out
                      /\ r # <<>> /\ r[1] >= 64 => Decoded(p \o r).stop
           T == {r \in Seq(Nat) : Good(r)}
<1>1. <<>> \in T
  BY p \o <<>> = p, <<>> \in Seq(Nat)
<1>2. ASSUME NEW r \in Seq(Nat), NEW c \in Nat, r \in T
      PROVE  Append(r, c) \in T
  <2> DEFINE a == Append(r, c)
  <2>1. /\ a \in Seq(Nat) /\ Len(a) = Len(r) + 1 /\ a[Len(r) + 1] = c
        /\ \A i \in 1..Len(r) : a[i] = r[i]
    BY AppendProperties
  <2>2. p \o r \in Seq(Nat) /\ p \o a = Append(p \o r, c)
    BY ConcatAppend, ConcatProperties
  <2> HIDE DEF a
  <2>3. PICK s : s = Decoded(p \o r)
    OBVIOUS
  <2>4. s \in DecodeState /\ Decoded(p \o a) = DecodeChar(s, c)
    BY <2>2, <2>3, DecodeUnfold
  <2>5. CASE a[1] >= 64
    <3>1. s.out = Decoded(p).out /\ (s.stop \/ c >= 64)
      <4>1. CASE r = <<>>
        <5>1. a[1] = c
          BY <2>1, <4>1
        <5> QED
          BY <1>2, <2>3, <2>5, <4>1, <5>1
      <4>2. CASE r # <<>>
        <5>1. a[1] = r[1]
          BY <2>1, <4>2
        <5> QED
          BY <1>2, <2>3, <2>5, <4>2, <5>1
      <4> QED
        BY <4>1, <4>2
    <3>2. DecodeChar(s, c).out = s.out /\ DecodeChar(s, c).stop
      BY <2>4, <3>1, DecodeStops
    <3>3. Good(a)
      BY <2>4, <3>1, <3>2
    <3> QED
      BY <2>1, <3>3 DEF a
  <2>6. CASE ~(a[1] >= 64)
    <3>1. a # <<>>
      BY <2>1
    <3>2. Good(a)
      BY <2>6, <3>1
    <3> QED
      BY <2>1, <3>2 DEF a
  <2> QED
    BY <2>5, <2>6
<1>3. \A r \in Seq(Nat) : r \in T
  <2> HIDE DEF T
  <2> QED BY <1>1, <1>2, SeqSetInduction
<1> QED
  BY <1>3

LEMMA GroupOfBytes ==
    ASSUME NEW b1 \in 0..255, NEW b2 \in 0..255, NEW b3 \in 0..255
    PROVE  /\ (b1 \div 4) * 4 + ((b1 % 4) * 16 + b2 \div 16) \div 16 = b1
           /\ (((b1 % 4) * 16 + b2 \div 16) % 16) * 16 + ((b2 % 16) * 4 + b3 \div 64) \div 4 = b2
           /\ (((b2 % 16) * 4 + b3 \div 64) % 4) * 64 + (b3 % 64) = b3
<1>1. ((b1 % 4) * 16 + b2 \div 16) \div 16 = b1 % 4 /\ ((b1 % 4) * 16 + b2 \div 16) % 16 = b2 \div 16
  BY SMT
<1>2. /\ ((b2 % 16) * 4 + b3 \div 64) \div 4 = b2 % 16
      /\ ((b2 % 16) * 4 + b3 \div 64) % 4 = b3 \div 64
  BY SMT
<1>3. (b1 \div 4) * 4 + (b1 % 4) = b1
  BY SMT
<1>4. (b2 \div 16) * 16 + (b2 % 16) = b2
  BY SMT
<1>5. (b3 \div 64) * 64 + (b3 % 64) = b3
  BY SMT
<1> QED
  BY <1>1, <1>2, <1>3, <1>4, <1>5, Zenon

LEMMA AtByte ==
    ASSUME NEW in \in Seq(Byte)
    PROVE  \A i \in Int : At(in, i) \in 0..255
<1>1. \A i \in 1..Len(in) : in[i] \in Byte
  OBVIOUS
<1> QED
  BY <1>1 DEF At, Byte

\* The first characters of a text of bytes are the first bytes.
LEMMA OctetOfSextets ==
    ASSUME NEW in \in Seq(Byte), NEW t \in Seq(Char), Len(t) <= TextLength(in),
           \A i \in 1..Len(t) : t[i] = Sextet(in, i)
    PROVE  /\ (3 * Len(t)) \div 4 <= Len(in)
           /\ \A j \in 1..((3 * Len(t)) \div 4) : Octet(t, j) = in[j]
<1>0. Len(in) \in Nat /\ Len(t) \in Nat /\ Len(t) <= (4 * Len(in) + 2) \div 3
  BY DEF TextLength
<1>1. (3 * Len(t)) \div 4 <= Len(in)
  BY <1>0
<1>2. \A i \in 1..Len(t) : At(t, i) = Sextet(in, i)
  BY DEF At
<1>3. ASSUME NEW j \in 1..((3 * Len(t)) \div 4)
      PROVE  Octet(t, j) = in[j]
  <2>0. j \in Nat /\ j >= 1
    OBVIOUS
  <2>1. PICK q \in Nat : j \in {3 * q + 1, 3 * q + 2, 3 * q + 3}
    BY <2>0, ThreeCases
  <2>2. PICK b1, b2, b3 : /\ b1 = At(in, 3 * q + 1) /\ b2 = At(in, 3 * q + 2)
                          /\ b3 = At(in, 3 * q + 3)
    OBVIOUS
  <2>3. b1 \in 0..255 /\ b2 \in 0..255 /\ b3 \in 0..255
    <3>1. 3 * q + 1 \in Int /\ 3 * q + 2 \in Int /\ 3 * q + 3 \in Int
      OBVIOUS
    <3> QED
      BY <2>2, <3>1, AtByte, Zenon
  <2>4. PICK c1, c2, c3, c4 :
            /\ c1 = b1 \div 4 /\ c2 = (b1 % 4) * 16 + b2 \div 16
            /\ c3 = (b2 % 16) * 4 + b3 \div 64 /\ c4 = b3 % 64
    OBVIOUS
  <2>5. /\ Sextet(in, 4 * q + 1) = c1 /\ Sextet(in, 4 * q + 2) = c2
        /\ Sextet(in, 4 * q + 3) = c3 /\ Sextet(in, 4 * q + 4) = c4
    BY <2>2, <2>4, SextetAt, Zenon
  <2>6. /\ c1 * 4 + c2 \div 16 = b1 /\ (c2 % 16) * 16 + c3 \div 4 = b2
        /\ (c3 % 4) * 64 + c4 = b3
    <3>1. /\ (b1 \div 4) * 4 + ((b1 % 4) * 16 + b2 \div 16) \div 16 = b1
          /\ (((b1 % 4) * 16 + b2 \div 16) % 16) * 16 + ((b2 % 16) * 4 + b3 \div 64) \div 4 = b2
          /\ (((b2 % 16) * 4 + b3 \div 64) % 4) * 64 + (b3 % 64) = b3
      BY <2>3, GroupOfBytes
    <3> QED
      BY <2>4, <3>1
  <2>7. in[j] = At(in, j)
    BY <1>0, <1>1 DEF At
  <2>8. CASE j = 3 * q + 1
    <3>1. 4 * q + 1 \in 1..Len(t) /\ 4 * q + 2 \in 1..Len(t)
      BY <1>0, <2>8
    <3>2. At(t, 4 * q + 1) = c1 /\ At(t, 4 * q + 2) = c2
      BY <1>2, <2>5, <3>1, Zenon
    <3> QED
      BY <2>2, <2>6, <2>7, <2>8, <3>2, OctetAt, Zenon
  <2>9. CASE j = 3 * q + 2
    <3>1. 4 * q + 2 \in 1..Len(t) /\ 4 * q + 3 \in 1..Len(t)
      BY <1>0, <2>9
    <3>2. At(t, 4 * q + 2) = c2 /\ At(t, 4 * q + 3) = c3
      BY <1>2, <2>5, <3>1, Zenon
    <3> QED
      BY <2>2, <2>6, <2>7, <2>9, <3>2, OctetAt, Zenon
  <2>10. CASE j = 3 * q + 3
    <3>1. 4 * q + 3 \in 1..Len(t) /\ 4 * q + 4 \in 1..Len(t)
      BY <1>0, <2>10
    <3>2. At(t, 4 * q + 3) = c3 /\ At(t, 4 * q + 4) = c4
      BY <1>2, <2>5, <3>1, Zenon
    <3> QED
      BY <2>2, <2>6, <2>7, <2>10, <3>2, OctetAt, Zenon
  <2> QED
    BY <2>1, <2>8, <2>9, <2>10
<1> QED
  BY <1>1, <1>3

\* t begins with k characters of the text of in, and then ends or goes on with
\* a character outside the alphabet.
Begins(t, in, k) ==
    /\ t \in Seq(Nat)
    /\ k \in 0..TextLength(in) /\ k <= Len(t)
    /\ \A i \in 1..k : t[i] = encode(in)[i]
    /\ k = Len(t) \/ t[k + 1] >= 64

(***************************************************************************)
(* A text of base64 that is cut, or goes on with another character, is     *)
(* read as the first of its bytes (util::base64).                          *)
(***************************************************************************)
LEMMA DecodeReads ==
    ASSUME NEW in \in Seq(Byte), NEW t, NEW k, Begins(t, in, k)
    PROVE  (3 * k) \div 4 <= Len(in) /\ decode(t) = SubSeq(in, 1, (3 * k) \div 4)
<1>0. /\ Len(t) \in Nat /\ TextLength(in) \in Nat /\ t \in Seq(Nat) /\ k \in 0..Len(t) /\ k \in Nat
      /\ k <= TextLength(in)
  BY EncodeText DEF Begins
<1>1. PICK p, r : p = SubSeq(t, 1, k) /\ r = SubSeq(t, k + 1, Len(t))
  OBVIOUS
<1>2. /\ p \in Seq(Nat) /\ Len(p) = k /\ \A i \in 1..k : p[i] = t[i]
      /\ r \in Seq(Nat) /\ Len(r) = Len(t) - k /\ \A i \in 1..(Len(t) - k) : r[i] = t[k + i]
      /\ t = p \o r
  BY <1>0, <1>1, SplitAt
<1>3. \A i \in 1..k : p[i] = Sextet(in, i) /\ p[i] \in Char
  <2> SUFFICES ASSUME NEW i \in 1..k
               PROVE  p[i] = Sextet(in, i) /\ p[i] \in Char
    OBVIOUS
  <2>1. i \in 1..TextLength(in)
    BY <1>0
  <2>2. p[i] = encode(in)[i]
    BY <1>2 DEF Begins
  <2> QED
    BY <2>1, <2>2, EncodeText
<1>4. p \in Seq(Char)
  BY <1>2, <1>3
<1>5. r = <<>> \/ r[1] >= 64
  <2>1. CASE k = Len(t)
    BY <1>0, <1>2, <2>1
  <2>2. CASE k # Len(t) /\ t[k + 1] >= 64
    <3>1. 1 \in 1..(Len(t) - k)
      BY <1>0, <2>2
    <3> QED
      BY <1>2, <2>2, <3>1
  <2> QED
    BY <2>1, <2>2 DEF Begins
<1>6. PICK d : d = Decoded(p)
  OBVIOUS
<1>7. decode(t) = d.out
  <2>1. decode(t) = Decoded(t).out
    BY Zenon DEF decode, Decoded
  <2> QED
    BY <1>2, <1>5, <1>6, <2>1, DecodeTail
<1>8. d \in DecodeState /\ DecodeGood(p, d)
  BY <1>2, <1>4, <1>6, DecodeUnfold, DecodeLoop
<1>9. d.out \in Seq(Byte) /\ Len(d.out) = (3 * k) \div 4 /\ \A j \in 1..Len(d.out) : d.out[j] = Octet(p, j)
  BY <1>2, <1>8 DEF DecodeGood, DecodeState
<1>10. (3 * k) \div 4 <= Len(in) /\ \A j \in 1..((3 * k) \div 4) : Octet(p, j) = in[j]
  BY <1>0, <1>2, <1>3, <1>4, OctetOfSextets
<1>11. PICK m \in 0..Len(in) : m = (3 * k) \div 4
  BY <1>0, <1>10
<1>12. SubSeq(in, 1, m) \in Seq(Byte) /\ Len(SubSeq(in, 1, m)) = m /\ \A j \in 1..m : SubSeq(in, 1, m)[j] = in[j]
  BY <1>11, SplitAt
<1>13. d.out = SubSeq(in, 1, m)
  BY <1>9, <1>10, <1>11, <1>12, SeqEqual
<1> QED
  BY <1>7, <1>10, <1>11, <1>13

-----------------------------------------------------------------------------
(* Hexadecimal digits *)

LEMMA DigitValue ==
    ASSUME NEW v \in 0..15
    PROVE  hexDigit(v) \in Byte /\ hexValue(hexDigit(v)) = v
<1>1. CASE v < 10
  <2>1. hexDigit(v) = v + 48 /\ v + 48 \in 48..57 /\ v + 48 \in 0..255 /\ (v + 48) - 48 = v
    BY <1>1 DEF hexDigit
  <2> QED
    BY <2>1 DEF hexValue, Byte
<1>2. CASE ~(v < 10)
  <2>1. /\ hexDigit(v) = v + 87 /\ v + 87 \in 97..102 /\ v + 87 \in 0..255 /\ (v + 87) - 87 = v
        /\ v + 87 \notin 48..57 /\ v + 87 \notin 65..70
    BY <1>2 DEF hexDigit
  <2> QED
    BY <2>1 DEF hexValue, Byte
<1> QED
  BY <1>1, <1>2

LEMMA TwoOf ==
    ASSUME NEW h \in Seq(Byte), NEW j \in Nat, j >= 1, j + 1 <= Len(h),
           NEW t, t = SubSeq(h, j, j + 1)
    PROVE  Len(t) = 2 /\ t[1] = h[j] /\ t[2] = h[j + 1]
<1>1. \A k \in j..(j + 1) : h[k] \in Byte
  OBVIOUS
<1>2. /\ Len(t) = IF j <= j + 1 THEN (j + 1) - j + 1 ELSE 0
      /\ \A k \in 1..((j + 1) - j + 1) : t[k] = h[j + k - 1]
  BY <1>1, SubSeqProperties
<1> QED
  BY <1>2

LEMMA ByteRange ==
    ASSUME NEW x \in Seq(Byte)
    PROVE  Len(x) \in Nat /\ \A i \in 1..Len(x) : x[i] \in 0..255
<1>1. \A i \in 1..Len(x) : x[i] \in Byte
  OBVIOUS
<1> QED
  BY <1>1 DEF Byte

LEMMA HalfBytes ==
    ASSUME NEW c \in 0..255
    PROVE  /\ c \div 16 \in 0..15 /\ c % 16 \in 0..15 /\ 16 * (c \div 16) + (c % 16) = c
           /\ c \div 16 >= 0 /\ c % 16 >= 0 /\ ~(c \div 16 < 0)
           /\ c % 256 = c /\ (c \div 16) % 256 = c \div 16
           /\ c \in Byte /\ c \div 16 \in Byte
<1>1. c \div 16 \in 0..15 /\ c % 16 \in 0..15 /\ 16 * (c \div 16) + (c % 16) = c
  BY SMT
<1>2. c % 256 = c /\ c \in Byte
  BY SMT DEF Byte
<1>3. PICK a \in 0..15 : a = c \div 16
  BY <1>1, SMT
<1>4. ~(a < 0) /\ a >= 0 /\ a % 256 = a /\ a \in Byte
  BY SMT DEF Byte
<1>5. PICK b \in 0..15 : b = c % 16
  BY <1>1, SMT
<1>6. b >= 0
  BY SMT
<1> QED
  BY <1>1, <1>2, <1>3, <1>4, <1>5, <1>6, Zenon

\* The digits of bytes, two to a byte.
LEMMA HexDigits ==
    ASSUME NEW x \in Seq(Byte)
    PROVE  /\ stringToHex(x) \in Seq(Byte) /\ Len(stringToHex(x)) = 2 * Len(x) /\ Len(x) \in Nat
           /\ \A i \in 1..Len(x) : /\ hexValue(stringToHex(x)[2 * i - 1]) = x[i] \div 16
                                   /\ hexValue(stringToHex(x)[2 * i]) = x[i] % 16
<1>0. Len(x) \in Nat /\ \A i \in 1..Len(x) : x[i] \in 0..255
  BY ByteRange
<1>1. PICK d : d = [i \in 1..(2 * Len(x)) |->
                      IF i % 2 = 1 THEN x[(i + 1) \div 2] \div 16 ELSE x[i \div 2] % 16]
  OBVIOUS
<1>2. stringToHex(x) = [i \in 1..(2 * Len(x)) |-> hexDigit(d[i])]
  BY <1>1, Zenon DEF stringToHex
<1>3. \A i \in 1..Len(x) : d[2 * i - 1] = x[i] \div 16 /\ d[2 * i] = x[i] % 16
  <2> SUFFICES ASSUME NEW i \in 1..Len(x)
               PROVE  d[2 * i - 1] = x[i] \div 16 /\ d[2 * i] = x[i] % 16
    OBVIOUS
  <2>1. /\ 2 * i - 1 \in 1..(2 * Len(x)) /\ 2 * i \in 1..(2 * Len(x))
        /\ (2 * i - 1) % 2 = 1 /\ ((2 * i - 1) + 1) \div 2 = i
        /\ (2 * i) % 2 # 1 /\ (2 * i) \div 2 = i
    BY <1>0
  <2> QED
    BY <1>1, <2>1, Zenon
<1>4. \A i \in 1..(2 * Len(x)) : d[i] \in 0..15
  <2> SUFFICES ASSUME NEW i \in 1..(2 * Len(x))
               PROVE  d[i] \in 0..15
    OBVIOUS
  <2>1. PICK j \in 1..Len(x) : i = 2 * j - 1 \/ i = 2 * j
    <3>1. (i + 1) \div 2 \in 1..Len(x) /\ (i = 2 * ((i + 1) \div 2) - 1 \/ i = 2 * ((i + 1) \div 2))
      BY <1>0
    <3> QED
      BY <3>1, Zenon
  <2>2. x[j] \div 16 \in 0..15 /\ x[j] % 16 \in 0..15
    <3>1. PICK c : c = x[j]
      OBVIOUS
    <3>2. c \in 0..255
      BY <1>0, <3>1
    <3>3. c \div 16 \in 0..15 /\ c % 16 \in 0..15
      BY <3>2, HalfBytes, Zenon
    <3> QED
      BY <3>1, <3>3
  <2> QED
    BY <1>3, <2>1, <2>2, Zenon
<1>5. \A i \in 1..(2 * Len(x)) : hexDigit(d[i]) \in Byte /\ hexValue(hexDigit(d[i])) = d[i]
  BY <1>4, DigitValue
<1>6. stringToHex(x) \in Seq(Byte) /\ Len(stringToHex(x)) = 2 * Len(x)
  <2>1. 2 * Len(x) \in Nat
    BY <1>0
  <2> QED
    BY <1>2, <1>5, <2>1
<1>7. \A i \in 1..Len(x) : 2 * i - 1 \in 1..(2 * Len(x)) /\ 2 * i \in 1..(2 * Len(x))
  BY <1>0
<1>8. \A i \in 1..(2 * Len(x)) : hexValue(stringToHex(x)[i]) = d[i]
  BY <1>2, <1>5, Zenon
<1> QED
  BY <1>0, <1>3, <1>6, <1>7, <1>8

(***************************************************************************)
(* The first m digits of bytes are read as the bytes they are the digits   *)
(* of, and an odd one as its value (util::hexToBytes).                     *)
(***************************************************************************)
LEMMA HexReads ==
    ASSUME NEW x \in Seq(Byte), NEW m \in Nat, m <= 2 * Len(x),
           NEW h, h = SubSeq(stringToHex(x), 1, m)
    PROVE  /\ hexToBytes(h) \in Seq(Byte) /\ Len(hexToBytes(h)) = (m + 1) \div 2
           /\ \A i \in 1..((m + 1) \div 2) :
                 hexToBytes(h)[i] = IF 2 * i <= m THEN x[i] ELSE x[i] \div 16
<1>0. Len(x) \in Nat /\ \A i \in 1..Len(x) : x[i] \in 0..255
  BY ByteRange
<1>1. PICK g : g = stringToHex(x)
  OBVIOUS
<1>2. /\ g \in Seq(Byte) /\ Len(g) = 2 * Len(x)
      /\ \A i \in 1..Len(x) : hexValue(g[2 * i - 1]) = x[i] \div 16 /\ hexValue(g[2 * i]) = x[i] % 16
  BY <1>1, HexDigits
<1>3. h \in Seq(Byte) /\ Len(h) = m /\ \A i \in 1..m : h[i] = g[i]
  <2>1. m \in 0..Len(g)
    BY <1>0, <1>2
  <2> QED
    BY <1>1, <1>2, <2>1, SplitAt
<1>4. PICK n \in Nat : n = (m + 1) \div 2
  OBVIOUS
<1>5. hexToBytes(h) = [i \in 1..n |->
          Strtol(SubSeq(h, 2 * i - 1, IF 2 * i <= m THEN 2 * i ELSE m)) % 256]
  BY <1>3, <1>4, Zenon DEF hexToBytes
<1>6. ASSUME NEW i \in 1..n
      PROVE  /\ Strtol(SubSeq(h, 2 * i - 1, IF 2 * i <= m THEN 2 * i ELSE m)) % 256
                  = (IF 2 * i <= m THEN x[i] ELSE x[i] \div 16)
             /\ (IF 2 * i <= m THEN x[i] ELSE x[i] \div 16) \in Byte
  <2>1. i \in 1..Len(x) /\ 2 * i - 1 \in 1..m /\ i \in Nat /\ 2 * i <= m + 1
    BY <1>0, <1>4
  <2>2. x[i] \in 0..255 /\ hexValue(h[2 * i - 1]) = x[i] \div 16
    BY <1>0, <1>2, <1>3, <2>1
  <2>3. CASE 2 * i <= m
    <3>1. PICK t : t = SubSeq(h, 2 * i - 1, 2 * i)
      OBVIOUS
    <3>2. hexValue(h[2 * i]) = x[i] % 16
      <4>1. 2 * i \in 1..m
        BY <2>1, <2>3
      <4> QED
        BY <1>2, <1>3, <2>1, <4>1
    <3>3. Len(t) = 2 /\ t[1] = h[2 * i - 1] /\ t[2] = h[2 * i]
      <4>1. PICK j \in Nat : j = 2 * i - 1
        BY <2>1
      <4>2. j >= 1 /\ 2 * i = j + 1 /\ j + 1 <= Len(h)
        BY <1>3, <2>1, <2>3, <4>1
      <4> QED
        BY <1>3, <3>1, <4>1, <4>2, TwoOf
    <3>4. PICK a, b : a = x[i] \div 16 /\ b = x[i] % 16
      OBVIOUS
    <3>5. /\ a \in 0..15 /\ b \in 0..15 /\ a >= 0 /\ b >= 0 /\ 16 * a + b = x[i]
          /\ x[i] % 256 = x[i] /\ x[i] \in Byte
      <4>1. /\ x[i] \div 16 \in 0..15 /\ x[i] % 16 \in 0..15
            /\ 16 * (x[i] \div 16) + (x[i] % 16) = x[i]
            /\ x[i] \div 16 >= 0 /\ x[i] % 16 >= 0
            /\ x[i] % 256 = x[i] /\ x[i] \in Byte
        BY <2>2, HalfBytes, Zenon
      <4> QED
        BY <3>4, <4>1, Zenon
    <3>6. hexValue(t[1]) = a /\ hexValue(t[2]) = b /\ ~(Len(t) = 1)
      <4>1. 2 # 1
        OBVIOUS
      <4> QED
        BY <2>2, <3>2, <3>3, <3>4, <4>1, Zenon
    <3>7. Strtol(t) = 16 * a + b
      BY <3>5, <3>6, Zenon DEF Strtol
    <3> QED
      BY <2>3, <3>1, <3>5, <3>7
  <2>4. CASE ~(2 * i <= m)
    <3>0. 2 * i - 1 = m
      BY <2>1, <2>4
    <3>1. PICK t : t = SubSeq(h, 2 * i - 1, m)
      OBVIOUS
    <3>2. Len(t) = 1 /\ t[1] = h[2 * i - 1]
      <4>1. \A k \in m..m : h[k] \in Byte
        BY <1>3, <2>1, <3>0
      <4>2. m \in Int /\ m <= m + 1 /\ (m - m) + 1 = 1 /\ (m + 1) - 1 = m
        OBVIOUS
      <4>3. Len(t) = 1 /\ \A k \in 1..1 : t[k] = h[(m + k) - 1]
        BY <3>0, <3>1, <4>1, <4>2, SubSeqProperties
      <4>4. 1 \in 1..1
        OBVIOUS
      <4>5. t[1] = h[m]
        BY <4>2, <4>3, <4>4, Zenon
      <4> QED
        BY <3>0, <4>3, <4>5, Zenon
    <3>3. PICK a : a = x[i] \div 16
      OBVIOUS
    <3>4. a \in Byte /\ ~(a < 0) /\ a % 256 = a
      <4>1. /\ x[i] \div 16 \in Byte /\ ~(x[i] \div 16 < 0)
            /\ (x[i] \div 16) % 256 = x[i] \div 16
        BY <2>2, HalfBytes, Zenon
      <4> QED
        BY <3>3, <4>1, Zenon
    <3>5. hexValue(t[1]) = a
      BY <2>2, <3>2, <3>3, Zenon
    <3>6. Strtol(t) = a
      BY <3>2, <3>4, <3>5, Zenon DEF Strtol
    <3> QED
      BY <2>4, <3>1, <3>3, <3>4, <3>6
  <2> QED
    BY <2>3, <2>4
<1>7. PICK y : y = [i \in 1..n |->
          Strtol(SubSeq(h, 2 * i - 1, IF 2 * i <= m THEN 2 * i ELSE m)) % 256]
  OBVIOUS
<1>8. \A i \in 1..n : y[i] = IF 2 * i <= m THEN x[i] ELSE x[i] \div 16
  BY <1>6, <1>7, Zenon
<1>9. y = [i \in 1..n |-> y[i]] /\ \A i \in 1..n : y[i] \in Byte
  BY <1>6, <1>7, <1>8, Zenon
<1>10. y \in Seq(Byte) /\ Len(y) = n
  <2>1. y \in [1..n -> Byte]
    BY <1>9, Zenon
  <2> QED
    BY <1>4, <2>1
<1>11. hexToBytes(h) = y
  BY <1>5, <1>7, Zenon
<1> QED
  BY <1>4, <1>8, <1>10, <1>11, Zenon

-----------------------------------------------------------------------------
(* Groups of bits *)

\* The bits that are kept with five, and with eight, more.
OctetAcc(a, v) == (a * 32 + v) % 4096
FiveAcc(a, v) == (a * 256 + v) % 4096

\* A group of five bits that completes a byte, and that byte taken apart again.
Chained(a, v, A, d, y, e, w) ==
    d = OctetAcc(a, v) /\ y = (d \div w) % 256 /\ e = FiveAcc(A, y)

\* The groups that are taken from a byte are those it was made of: for each
\* number of bits, 3 to 7, that wait when its last group comes.
LEMMA GroupBits3 ==
    ASSUME NEW a \in Nat, NEW v \in 0..31, NEW A \in Nat,
           NEW d, NEW y, NEW e, Chained(a, v, A, d, y, e, 1)
    PROVE  /\ (e \div 32) % 32 = (A % 4) * 8 + (a % 8)
           /\ e % 32 = v
<1>0. d = (a * 32 + v) % 4096 /\ y = (d \div 1) % 256 /\ e = (A * 256 + y) % 4096
  BY DEF Chained, OctetAcc, FiveAcc
<1> USE <1>0
<1>1. PICK p \in Nat, f \in 0..7 : a = 8 * p + f /\ a % 8 = f
  BY a = 8 * (a \div 8) + (a % 8), a \div 8 \in Nat, a % 8 \in 0..7, SMT
<1>2. \E r \in 0..15 : d = 256 * r + (f * 32 + v)
  <2>1. PICK s \in Nat, r \in 0..15 : p = 16 * s + r
    BY p = 16 * (p \div 16) + (p % 16), p \div 16 \in Nat, p % 16 \in 0..15, SMT
  <2>2. a * 32 + v = 4096 * s + (256 * r + (f * 32 + v)) /\ 256 * r + (f * 32 + v) \in 0..4095
    BY <1>1, <2>1, SMT
  <2>3. d = 256 * r + (f * 32 + v)
    BY <2>1, <2>2, <1>1, SMT
  <2> QED
    BY <2>1, <2>3
<1>3. y = f * 32 + v /\ y \in 0..255
  BY <1>1, <1>2, SMT
<1>4. PICK q \in Nat, g \in 0..3 : A = 4 * q + g /\ A % 4 = g
  BY A = 4 * (A \div 4) + (A % 4), A \div 4 \in Nat, A % 4 \in 0..3, SMT
<1>5. \E r \in 0..3 : e = 1024 * r + (g * 256 + y)
  <2>1. PICK s \in Nat, r \in 0..3 : q = 4 * s + r
    BY q = 4 * (q \div 4) + (q % 4), q \div 4 \in Nat, q % 4 \in 0..3, SMT
  <2>2. A * 256 + y = 4096 * s + (1024 * r + (g * 256 + y)) /\ 1024 * r + (g * 256 + y) \in 0..4095
    BY <1>3, <1>4, <2>1, SMT
  <2>3. e = 1024 * r + (g * 256 + y)
    BY <2>1, <2>2, <1>3, <1>4, SMT
  <2> QED
    BY <2>1, <2>3
<1>6. (e \div 32) % 32 = (A % 4) * 8 + (a % 8)
  <2>1. (e \div 32) % 32 = ((g * 256 + y) \div 32) % 32
    BY <1>3, <1>4, <1>5, SMT
  <2> QED
    BY <1>1, <1>3, <1>4, <2>1, SMT
<1>7. e % 32 = v
  <2>1. e % 32 = (g * 256 + y) % 32
    BY <1>3, <1>4, <1>5, SMT
  <2> QED
    BY <1>1, <1>3, <1>4, <2>1, SMT
<1> QED
  BY <1>6, <1>7

LEMMA GroupBits4 ==
    ASSUME NEW a \in Nat, NEW v \in 0..31, NEW A \in Nat,
           NEW d, NEW y, NEW e, Chained(a, v, A, d, y, e, 2)
    PROVE  /\ (e \div 16) % 32 = (A % 2) * 16 + (a % 16)
           /\ (e % 16) * 2 + (d % 2) = v
<1>0. d = (a * 32 + v) % 4096 /\ y = (d \div 2) % 256 /\ e = (A * 256 + y) % 4096
  BY DEF Chained, OctetAcc, FiveAcc
<1> USE <1>0
<1>1. PICK p \in Nat, f \in 0..15 : a = 16 * p + f /\ a % 16 = f
  BY a = 16 * (a \div 16) + (a % 16), a \div 16 \in Nat, a % 16 \in 0..15, SMT
<1>2. \E r \in 0..7 : d = 512 * r + (f * 32 + v)
  <2>1. PICK s \in Nat, r \in 0..7 : p = 8 * s + r
    BY p = 8 * (p \div 8) + (p % 8), p \div 8 \in Nat, p % 8 \in 0..7, SMT
  <2>2. a * 32 + v = 4096 * s + (512 * r + (f * 32 + v)) /\ 512 * r + (f * 32 + v) \in 0..4095
    BY <1>1, <2>1, SMT
  <2>3. d = 512 * r + (f * 32 + v)
    BY <2>1, <2>2, <1>1, SMT
  <2> QED
    BY <2>1, <2>3
<1>3. y = (f * 32 + v) \div 2 /\ d % 2 = v % 2 /\ y \in 0..255
  <2>1. PICK r \in 0..7 : d = 512 * r + (f * 32 + v)
    BY <1>2
  <2>2. PICK x \in 0..255 : x = (f * 32 + v) \div 2
    BY SMT
  <2>3. d \div 2 = 256 * r + x /\ d % 2 = v % 2
    BY <2>1, <2>2, SMT
  <2>4. (256 * r + x) % 256 = x
    BY <2>1, <2>2, SMT
  <2> QED
    BY <2>2, <2>3, <2>4
<1>4. PICK q \in Nat, g \in 0..1 : A = 2 * q + g /\ A % 2 = g
  BY A = 2 * (A \div 2) + (A % 2), A \div 2 \in Nat, A % 2 \in 0..1, SMT
<1>5. \E r \in 0..7 : e = 512 * r + (g * 256 + y)
  <2>1. PICK s \in Nat, r \in 0..7 : q = 8 * s + r
    BY q = 8 * (q \div 8) + (q % 8), q \div 8 \in Nat, q % 8 \in 0..7, SMT
  <2>2. A * 256 + y = 4096 * s + (512 * r + (g * 256 + y)) /\ 512 * r + (g * 256 + y) \in 0..4095
    BY <1>3, <1>4, <2>1, SMT
  <2>3. e = 512 * r + (g * 256 + y)
    BY <2>1, <2>2, <1>3, <1>4, SMT
  <2> QED
    BY <2>1, <2>3
<1>6. (e \div 16) % 32 = (A % 2) * 16 + (a % 16)
  <2>1. (e \div 16) % 32 = ((g * 256 + y) \div 16) % 32
    BY <1>3, <1>4, <1>5, SMT
  <2> QED
    BY <1>1, <1>3, <1>4, <2>1, SMT
<1>7. (e % 16) * 2 + (d % 2) = v
  <2>1. e % 16 = (g * 256 + y) % 16
    BY <1>3, <1>4, <1>5, SMT
  <2> QED
    BY <1>1, <1>3, <1>4, <2>1, SMT
<1> QED
  BY <1>6, <1>7

LEMMA GroupBits5 ==
    ASSUME NEW a \in Nat, NEW v \in 0..31, NEW A \in Nat,
           NEW d, NEW y, NEW e, Chained(a, v, A, d, y, e, 4)
    PROVE  /\ (e \div 8) % 32 = a % 32
           /\ (e % 8) * 4 + (d % 4) = v
<1>0. d = (a * 32 + v) % 4096 /\ y = (d \div 4) % 256 /\ e = (A * 256 + y) % 4096
  BY DEF Chained, OctetAcc, FiveAcc
<1> USE <1>0
<1>1. PICK p \in Nat, f \in 0..31 : a = 32 * p + f /\ a % 32 = f
  BY a = 32 * (a \div 32) + (a % 32), a \div 32 \in Nat, a % 32 \in 0..31, SMT
<1>2. \E r \in 0..3 : d = 1024 * r + (f * 32 + v)
  <2>1. PICK s \in Nat, r \in 0..3 : p = 4 * s + r
    BY p = 4 * (p \div 4) + (p % 4), p \div 4 \in Nat, p % 4 \in 0..3, SMT
  <2>2. a * 32 + v = 4096 * s + (1024 * r + (f * 32 + v)) /\ 1024 * r + (f * 32 + v) \in 0..4095
    BY <1>1, <2>1, SMT
  <2>3. d = 1024 * r + (f * 32 + v)
    BY <2>1, <2>2, <1>1, SMT
  <2> QED
    BY <2>1, <2>3
<1>3. y = (f * 32 + v) \div 4 /\ d % 4 = v % 4 /\ y \in 0..255
  <2>1. PICK r \in 0..3 : d = 1024 * r + (f * 32 + v)
    BY <1>2
  <2>2. PICK x \in 0..255 : x = (f * 32 + v) \div 4
    BY SMT
  <2>3. d \div 4 = 256 * r + x /\ d % 4 = v % 4
    BY <2>1, <2>2, SMT
  <2>4. (256 * r + x) % 256 = x
    BY <2>1, <2>2, SMT
  <2> QED
    BY <2>2, <2>3, <2>4
<1>5. \E r \in 0..15 : e = 256 * r + y
  <2>1. PICK s \in Nat, r \in 0..15 : A = 16 * s + r
    BY A = 16 * (A \div 16) + (A % 16), A \div 16 \in Nat, A % 16 \in 0..15, SMT
  <2>2. A * 256 + y = 4096 * s + (256 * r + y) /\ 256 * r + y \in 0..4095
    BY <1>3, <2>1, SMT
  <2>3. e = 256 * r + y
    BY <2>1, <2>2, <1>3, SMT
  <2> QED
    BY <2>1, <2>3
<1>6. (e \div 8) % 32 = a % 32
  <2>1. (e \div 8) % 32 = ((y) \div 8) % 32
    BY <1>3, <1>5, SMT
  <2> QED
    BY <1>1, <1>3, <2>1, SMT
<1>7. (e % 8) * 4 + (d % 4) = v
  <2>1. e % 8 = (y) % 8
    BY <1>3, <1>5, SMT
  <2> QED
    BY <1>1, <1>3, <2>1, SMT
<1> QED
  BY <1>6, <1>7

LEMMA GroupBits6 ==
    ASSUME NEW a \in Nat, NEW v \in 0..31, NEW A \in Nat,
           NEW d, NEW y, NEW e, Chained(a, v, A, d, y, e, 8)
    PROVE  /\ (e \div 128) % 32 = ((A % 16) * 64 + (a % 64)) \div 32
           /\ (e \div 4) % 32 = a % 32
           /\ (e % 4) * 8 + (d % 8) = v
<1>0. d = (a * 32 + v) % 4096 /\ y = (d \div 8) % 256 /\ e = (A * 256 + y) % 4096
  BY DEF Chained, OctetAcc, FiveAcc
<1> USE <1>0
<1>1. PICK p \in Nat, f \in 0..63 : a = 64 * p + f /\ a % 64 = f
  BY a = 64 * (a \div 64) + (a % 64), a \div 64 \in Nat, a % 64 \in 0..63, SMT
<1>2. \E r \in 0..1 : d = 2048 * r + (f * 32 + v)
  <2>1. PICK s \in Nat, r \in 0..1 : p = 2 * s + r
    BY p = 2 * (p \div 2) + (p % 2), p \div 2 \in Nat, p % 2 \in 0..1, SMT
  <2>2. a * 32 + v = 4096 * s + (2048 * r + (f * 32 + v)) /\ 2048 * r + (f * 32 + v) \in 0..4095
    BY <1>1, <2>1, SMT
  <2>3. d = 2048 * r + (f * 32 + v)
    BY <2>1, <2>2, <1>1, SMT
  <2> QED
    BY <2>1, <2>3
<1>3. y = (f * 32 + v) \div 8 /\ d % 8 = v % 8 /\ y \in 0..255
  <2>1. PICK r \in 0..1 : d = 2048 * r + (f * 32 + v)
    BY <1>2
  <2>2. PICK x \in 0..255 : x = (f * 32 + v) \div 8
    BY SMT
  <2>3. d \div 8 = 256 * r + x /\ d % 8 = v % 8
    BY <2>1, <2>2, SMT
  <2>4. (256 * r + x) % 256 = x
    BY <2>1, <2>2, SMT
  <2> QED
    BY <2>2, <2>3, <2>4
<1>4. PICK q \in Nat, g \in 0..15 : A = 16 * q + g /\ A % 16 = g
  BY A = 16 * (A \div 16) + (A % 16), A \div 16 \in Nat, A % 16 \in 0..15, SMT
<1>5. \E r \in 0..0 : e = 4096 * r + (g * 256 + y)
  <2>1. PICK s \in Nat, r \in 0..0 : q = 1 * s + r
    BY q = 1 * (q \div 1) + (q % 1), q \div 1 \in Nat, q % 1 \in 0..0, SMT
  <2>2. A * 256 + y = 4096 * s + (4096 * r + (g * 256 + y)) /\ 4096 * r + (g * 256 + y) \in 0..4095
    BY <1>3, <1>4, <2>1, SMT
  <2>3. e = 4096 * r + (g * 256 + y)
    BY <2>1, <2>2, <1>3, <1>4, SMT
  <2> QED
    BY <2>1, <2>3
<1>6. (e \div 128) % 32 = ((A % 16) * 64 + (a % 64)) \div 32
  <2>1. (e \div 128) % 32 = ((g * 256 + y) \div 128) % 32
    BY <1>3, <1>4, <1>5, SMT
  <2> QED
    BY <1>1, <1>3, <1>4, <2>1, SMT
<1>7. (e \div 4) % 32 = a % 32
  <2>1. (e \div 4) % 32 = ((g * 256 + y) \div 4) % 32
    BY <1>3, <1>4, <1>5, SMT
  <2> QED
    BY <1>1, <1>3, <1>4, <2>1, SMT
<1>8. (e % 4) * 8 + (d % 8) = v
  <2>1. e % 4 = (g * 256 + y) % 4
    BY <1>3, <1>4, <1>5, SMT
  <2> QED
    BY <1>1, <1>3, <1>4, <2>1, SMT
<1> QED
  BY <1>6, <1>7, <1>8

LEMMA GroupBits7 ==
    ASSUME NEW a \in Nat, NEW v \in 0..31, NEW A \in Nat,
           NEW d, NEW y, NEW e, Chained(a, v, A, d, y, e, 16)
    PROVE  /\ (e \div 64) % 32 = ((A % 8) * 128 + (a % 128)) \div 32
           /\ (e \div 2) % 32 = a % 32
           /\ (e % 2) * 16 + (d % 16) = v
<1>0. d = (a * 32 + v) % 4096 /\ y = (d \div 16) % 256 /\ e = (A * 256 + y) % 4096
  BY DEF Chained, OctetAcc, FiveAcc
<1> USE <1>0
<1>1. PICK p \in Nat, f \in 0..127 : a = 128 * p + f /\ a % 128 = f
  BY a = 128 * (a \div 128) + (a % 128), a \div 128 \in Nat, a % 128 \in 0..127, SMT
<1>2. \E r \in 0..0 : d = 4096 * r + (f * 32 + v)
  <2>1. PICK s \in Nat, r \in 0..0 : p = 1 * s + r
    BY p = 1 * (p \div 1) + (p % 1), p \div 1 \in Nat, p % 1 \in 0..0, SMT
  <2>2. a * 32 + v = 4096 * s + (4096 * r + (f * 32 + v)) /\ 4096 * r + (f * 32 + v) \in 0..4095
    BY <1>1, <2>1, SMT
  <2>3. d = 4096 * r + (f * 32 + v)
    BY <2>1, <2>2, <1>1, SMT
  <2> QED
    BY <2>1, <2>3
<1>3. y = (f * 32 + v) \div 16 /\ d % 16 = v % 16 /\ y \in 0..255
  <2>1. PICK r \in 0..0 : d = 4096 * r + (f * 32 + v)
    BY <1>2
  <2>2. PICK x \in 0..255 : x = (f * 32 + v) \div 16
    BY SMT
  <2>3. d \div 16 = 256 * r + x /\ d % 16 = v % 16
    BY <2>1, <2>2, SMT
  <2>4. (256 * r + x) % 256 = x
    BY <2>1, <2>2, SMT
  <2> QED
    BY <2>2, <2>3, <2>4
<1>4. PICK q \in Nat, g \in 0..7 : A = 8 * q + g /\ A % 8 = g
  BY A = 8 * (A \div 8) + (A % 8), A \div 8 \in Nat, A % 8 \in 0..7, SMT
<1>5. \E r \in 0..1 : e = 2048 * r + (g * 256 + y)
  <2>1. PICK s \in Nat, r \in 0..1 : q = 2 * s + r
    BY q = 2 * (q \div 2) + (q % 2), q \div 2 \in Nat, q % 2 \in 0..1, SMT
  <2>2. A * 256 + y = 4096 * s + (2048 * r + (g * 256 + y)) /\ 2048 * r + (g * 256 + y) \in 0..4095
    BY <1>3, <1>4, <2>1, SMT
  <2>3. e = 2048 * r + (g * 256 + y)
    BY <2>1, <2>2, <1>3, <1>4, SMT
  <2> QED
    BY <2>1, <2>3
<1>6. (e \div 64) % 32 = ((A % 8) * 128 + (a % 128)) \div 32
  <2>1. (e \div 64) % 32 = ((g * 256 + y) \div 64) % 32
    BY <1>3, <1>4, <1>5, SMT
  <2> QED
    BY <1>1, <1>3, <1>4, <2>1, SMT
<1>7. (e \div 2) % 32 = a % 32
  <2>1. (e \div 2) % 32 = ((g * 256 + y) \div 2) % 32
    BY <1>3, <1>4, <1>5, SMT
  <2> QED
    BY <1>1, <1>3, <1>4, <2>1, SMT
<1>8. (e % 2) * 16 + (d % 16) = v
  <2>1. e % 2 = (g * 256 + y) % 2
    BY <1>3, <1>4, <1>5, SMT
  <2> QED
    BY <1>1, <1>3, <1>4, <2>1, SMT
<1> QED
  BY <1>6, <1>7, <1>8

-----------------------------------------------------------------------------
(* The loops of convertBits *)

Five == 0..31

\* What the loops end with: from groups of five bits to bytes, and back.
Octets(data) ==
    LET s[n \in 0..Len(data)] ==
            IF n = 0 THEN [acc |-> 0, bits |-> 0, out |-> <<>>]
            ELSE Regrouped(s[n - 1], data[n], 5, 8)
    IN s[Len(data)]

Fives(data) ==
    LET s[n \in 0..Len(data)] ==
            IF n = 0 THEN [acc |-> 0, bits |-> 0, out |-> <<>>]
            ELSE Regrouped(s[n - 1], data[n], 8, 5)
    IN s[Len(data)]

OctetState == [acc : Nat, bits : 0..7, out : Seq(Byte)]
FiveState == [acc : Nat, bits : 0..4, out : Seq(Five)]
RegroupStart == [acc |-> 0, bits |-> 0, out |-> <<>>]

LEMMA GroupPowers == 2^5 = 32 /\ 2^8 = 256 /\ 2^(5 + 8 - 1) = 4096 /\ 2^(8 + 5 - 1) = 4096
  BY SMT

\* The groups of bits that are taken.
LEMMA GroupsTaken ==
    ASSUME NEW d
    PROVE  /\ Bits(d, 0, 8) = (d \div 1) % 256
           /\ Bits(d, 1, 8) = (d \div 2) % 256
           /\ Bits(d, 2, 8) = (d \div 4) % 256
           /\ Bits(d, 3, 8) = (d \div 8) % 256
           /\ Bits(d, 4, 8) = (d \div 16) % 256
           /\ Bits(d, 0, 5) = (d \div 1) % 32
           /\ Bits(d, 1, 5) = (d \div 2) % 32
           /\ Bits(d, 2, 5) = (d \div 4) % 32
           /\ Bits(d, 3, 5) = (d \div 8) % 32
           /\ Bits(d, 4, 5) = (d \div 16) % 32
           /\ Bits(d, 5, 5) = (d \div 32) % 32
           /\ Bits(d, 6, 5) = (d \div 64) % 32
           /\ Bits(d, 7, 5) = (d \div 128) % 32
<1>1. /\ 2^0 = 1 /\ 2^1 = 2 /\ 2^2 = 4 /\ 2^3 = 8 /\ 2^4 = 16
      /\ 2^5 = 32 /\ 2^6 = 64 /\ 2^7 = 128 /\ 2^8 = 256
  BY SMT
<1> QED
  BY <1>1, Zenon DEF Bits

LEMMA GroupsTyped ==
    ASSUME NEW d \in Nat
    PROVE  /\ \A k \in 0..4 : Bits(d, k, 8) \in Byte
           /\ \A k \in 0..7 : Bits(d, k, 5) \in Five
<1>1. \A m \in Nat : m % 256 \in Byte /\ m % 32 \in Five
  BY SMT DEF Byte, Five
<1>2. \A e \in {1, 2, 4, 8, 16, 32, 64, 128} : d \div e \in Nat
  BY SMT
<1>3. /\ Bits(d, 0, 8) \in Byte /\ Bits(d, 1, 8) \in Byte /\ Bits(d, 2, 8) \in Byte
      /\ Bits(d, 3, 8) \in Byte /\ Bits(d, 4, 8) \in Byte
  BY <1>1, <1>2, GroupsTaken
<1>4. /\ Bits(d, 0, 5) \in Five /\ Bits(d, 1, 5) \in Five /\ Bits(d, 2, 5) \in Five
      /\ Bits(d, 3, 5) \in Five
  BY <1>1, <1>2, GroupsTaken
<1>5. /\ Bits(d, 4, 5) \in Five /\ Bits(d, 5, 5) \in Five /\ Bits(d, 6, 5) \in Five
      /\ Bits(d, 7, 5) \in Five
  BY <1>1, <1>2, GroupsTaken
<1>6. /\ \A k \in 0..4 : k = 0 \/ k = 1 \/ k = 2 \/ k = 3 \/ k = 4
      /\ \A k \in 0..7 : \/ k = 0 \/ k = 1 \/ k = 2 \/ k = 3
                          \/ k = 4 \/ k = 5 \/ k = 6 \/ k = 7
  OBVIOUS
<1>7. \A k \in 0..4 : Bits(d, k, 8) \in Byte
  BY <1>3, <1>6, Zenon
<1>8. \A k \in 0..7 : Bits(d, k, 5) \in Five
  BY <1>4, <1>5, <1>6, Zenon
<1> QED
  BY <1>7, <1>8

LEMMA OneGroup ==
    ASSUME NEW S, NEW o \in Seq(S), NEW g, NEW x \in S, g = [i \in 1..1 |-> x]
    PROVE  o \o g = Append(o, x)
<1>1. g = <<x>>
  OBVIOUS
<1> QED
  BY <1>1, AppendIsConcat

\* One group of five bits more.
OctetAfter(r, a, b, o, v, d) ==
    /\ d \in Nat /\ d = OctetAcc(a, v)
    /\ b < 3 => r = [acc |-> d, bits |-> b + 5, out |-> o]
    /\ b >= 3 => /\ Bits(d, b - 3, 8) \in Byte
                 /\ r = [acc |-> d, bits |-> b - 3, out |-> Append(o, Bits(d, b - 3, 8))]

\* One byte more.
FiveAfter(r, a, b, o, v, d) ==
    /\ d \in Nat /\ d = FiveAcc(a, v) /\ Bits(d, b + 3, 5) \in Five
    /\ b < 2 => r = [acc |-> d, bits |-> b + 3, out |-> Append(o, Bits(d, b + 3, 5))]
    /\ b >= 2 => /\ Bits(d, b - 2, 5) \in Five
                 /\ r = [acc |-> d, bits |-> b - 2,
                         out |-> o \o <<Bits(d, b + 3, 5), Bits(d, b - 2, 5)>>]

LEMMA OctetOf ==
    ASSUME NEW a \in Nat, NEW b \in 0..7, NEW o \in Seq(Byte), NEW v \in Nat
    PROVE  \E d \in Nat : OctetAfter(Regrouped([acc |-> a, bits |-> b, out |-> o], v, 5, 8), a, b, o, v, d)
<1>3. PICK d : d = (a * 2^5 + v) % 2^(5 + 8 - 1)
  OBVIOUS
<1>0. d = (a * 32 + v) % 4096
  BY <1>3, GroupPowers
<1>4. d = OctetAcc(a, v)
  BY <1>0 DEF OctetAcc
<1>5. d \in Nat
  <2>1. a * 32 + v \in Nat
    OBVIOUS
  <2> QED
    BY <1>0, <2>1
<1>6. PICK r : r = Regrouped([acc |-> a, bits |-> b, out |-> o], v, 5, 8)
  OBVIOUS
<1>7. r = [acc |-> d, bits |-> (b + 5) % 8,
           out |-> o \o [i \in 1..((b + 5) \div 8) |-> Bits(d, (b + 5) - i * 8, 8)]]
  BY <1>3, <1>6 DEF Regrouped
<1>8. CASE b < 3
  <2>1. (b + 5) \div 8 = 0 /\ (b + 5) % 8 = b + 5 /\ ~(b >= 3)
    BY <1>8
  <2>2. PICK g : g = [i \in 1..((b + 5) \div 8) |-> Bits(d, (b + 5) - i * 8, 8)]
    OBVIOUS
  <2>3. g = <<>>
    BY <2>1, <2>2
  <2>4. o \o g = o
    BY <2>3, ConcatEmptySeq
  <2>5. r = [acc |-> d, bits |-> b + 5, out |-> o]
    BY <1>7, <2>1, <2>2, <2>4, Zenon
  <2> QED
    BY <1>4, <1>5, <1>6, <2>1, <2>5, Zenon DEF OctetAfter
<1>9. CASE b >= 3
  <2>1. (b + 5) \div 8 = 1 /\ (b + 5) % 8 = b - 3 /\ ~(b < 3) /\ (b + 5) - 1 * 8 = b - 3
    BY <1>9
  <2>2. PICK g : g = [i \in 1..((b + 5) \div 8) |-> Bits(d, (b + 5) - i * 8, 8)]
    OBVIOUS
  <2>3. Bits(d, b - 3, 8) \in Byte
    <3>1. b - 3 \in 0..4
      BY <1>9
    <3> QED
      BY <1>5, <3>1, GroupsTyped, Zenon
  <2>4. PICK x : x = Bits(d, b - 3, 8)
    OBVIOUS
  <2>5. g = [i \in 1..1 |-> x]
    <3>1. \A i \in 1..1 : i = 1
      OBVIOUS
    <3>2. \A i \in 1..1 : Bits(d, (b + 5) - i * 8, 8) = x
      BY <2>1, <2>4, <3>1, Zenon
    <3>3. g = [i \in 1..1 |-> Bits(d, (b + 5) - i * 8, 8)]
      BY <2>1, <2>2, Zenon
    <3> QED
      BY <3>2, <3>3, Zenon
  <2>6. x \in Byte
    BY <2>3, <2>4, Zenon
  <2>7. o \o g = Append(o, x)
    BY <2>5, <2>6, OneGroup
  <2>8. r = [acc |-> d, bits |-> b - 3, out |-> Append(o, x)]
    BY <1>7, <2>1, <2>2, <2>7, Zenon
  <2> QED
    BY <1>4, <1>5, <1>6, <2>1, <2>3, <2>4, <2>8, Zenon DEF OctetAfter
<1> QED
  BY <1>8, <1>9

LEMMA OctetStepIs ==
    ASSUME NEW s \in OctetState, NEW v \in Nat
    PROVE  /\ s = [acc |-> s.acc, bits |-> s.bits, out |-> s.out]
           /\ \E d \in Nat : OctetAfter(Regrouped(s, v, 5, 8), s.acc, s.bits, s.out, v, d)
<1>1. /\ s = [acc |-> s.acc, bits |-> s.bits, out |-> s.out]
      /\ s.acc \in Nat /\ s.bits \in 0..7 /\ s.out \in Seq(Byte)
  BY DEF OctetState
<1> QED
  BY <1>1, OctetOf

LEMMA FiveOf ==
    ASSUME NEW a \in Nat, NEW b \in 0..4, NEW o \in Seq(Five), NEW v \in Nat
    PROVE  \E d \in Nat : FiveAfter(Regrouped([acc |-> a, bits |-> b, out |-> o], v, 8, 5), a, b, o, v, d)
<1>3. PICK d : d = (a * 2^8 + v) % 2^(8 + 5 - 1)
  OBVIOUS
<1>0. d = (a * 256 + v) % 4096
  BY <1>3, GroupPowers
<1>4. d = FiveAcc(a, v)
  BY <1>0 DEF FiveAcc
<1>5. d \in Nat
  <2>1. a * 256 + v \in Nat
    OBVIOUS
  <2> QED
    BY <1>0, <2>1
<1>6. PICK r : r = Regrouped([acc |-> a, bits |-> b, out |-> o], v, 8, 5)
  OBVIOUS
<1>7. r = [acc |-> d, bits |-> (b + 8) % 5,
           out |-> o \o [i \in 1..((b + 8) \div 5) |-> Bits(d, (b + 8) - i * 5, 5)]]
  BY <1>3, <1>6 DEF Regrouped
<1>8. ASSUME NEW k \in 0..7
      PROVE  Bits(d, k, 5) \in Five
  BY <1>5, GroupsTyped, Zenon
<1>9. PICK x, y : x = Bits(d, b + 3, 5) /\ y = Bits(d, b - 2, 5)
  OBVIOUS
<1>10. x \in Five
  <2>1. b + 3 \in 0..7
    OBVIOUS
  <2> QED
    BY <1>8, <1>9, <2>1
<1>11. PICK g : g = [i \in 1..((b + 8) \div 5) |-> Bits(d, (b + 8) - i * 5, 5)]
  OBVIOUS
<1>12. CASE b < 2
  <2>1. (b + 8) \div 5 = 1 /\ (b + 8) % 5 = b + 3 /\ ~(b >= 2) /\ (b + 8) - 1 * 5 = b + 3
    BY <1>12
  <2>2. g = [i \in 1..1 |-> x]
    <3>1. \A i \in 1..1 : i = 1
      OBVIOUS
    <3>2. \A i \in 1..1 : Bits(d, (b + 8) - i * 5, 5) = x
      BY <1>9, <2>1, <3>1, Zenon
    <3>3. g = [i \in 1..1 |-> Bits(d, (b + 8) - i * 5, 5)]
      BY <1>11, <2>1, Zenon
    <3> QED
      BY <3>2, <3>3, Zenon
  <2>3. o \o g = Append(o, x)
    BY <1>10, <2>2, OneGroup
  <2>4. r = [acc |-> d, bits |-> b + 3, out |-> Append(o, x)]
    BY <1>7, <1>11, <2>1, <2>3, Zenon
  <2> QED
    BY <1>4, <1>5, <1>6, <1>9, <1>10, <2>1, <2>4, Zenon DEF FiveAfter
<1>13. CASE b >= 2
  <2>1. /\ (b + 8) \div 5 = 2 /\ (b + 8) % 5 = b - 2 /\ ~(b < 2)
        /\ (b + 8) - 1 * 5 = b + 3 /\ (b + 8) - 2 * 5 = b - 2 /\ b - 2 \in 0..7
    BY <1>13
  <2>2. y \in Five
    BY <1>8, <1>9, <2>1
  <2>3. g = <<x, y>>
    <3>1. g = [i \in 1..2 |-> Bits(d, (b + 8) - i * 5, 5)]
      BY <1>11, <2>1, Zenon
    <3>2. g[1] = x /\ g[2] = y
      <4>1. 1 \in 1..2 /\ 2 \in 1..2
        OBVIOUS
      <4> QED
        BY <1>9, <2>1, <3>1, <4>1, Zenon
    <3>3. g = [i \in 1..2 |-> g[i]]
      BY <3>1, Zenon
    <3>4. g \in Seq(Five) /\ Len(g) = 2
      <4>1. \A i \in 1..2 : i = 1 \/ i = 2
        OBVIOUS
      <4>2. g \in [1..2 -> Five]
        BY <1>10, <2>2, <3>2, <3>3, <4>1, Zenon
      <4> QED
        BY <4>2, 2 \in Nat, FunctionIsSeq, Zenon
    <3>5. <<x, y>> \in Seq(Five) /\ Len(<<x, y>>) = 2 /\ <<x, y>>[1] = x /\ <<x, y>>[2] = y
      BY <1>10, <2>2
    <3>6. \A i \in 1..2 : g[i] = <<x, y>>[i]
      <4>1. \A i \in 1..2 : i = 1 \/ i = 2
        OBVIOUS
      <4> QED
        BY <3>2, <3>5, <4>1, Zenon
    <3> QED
      BY <3>4, <3>5, <3>6, SeqEqual
  <2>4. r = [acc |-> d, bits |-> b - 2, out |-> o \o <<x, y>>]
    BY <1>7, <1>11, <2>1, <2>3, Zenon
  <2> QED
    BY <1>4, <1>5, <1>6, <1>9, <1>10, <2>1, <2>2, <2>4, Zenon DEF FiveAfter
<1> QED
  BY <1>12, <1>13

LEMMA FiveStepIs ==
    ASSUME NEW s \in FiveState, NEW v \in Nat
    PROVE  /\ s = [acc |-> s.acc, bits |-> s.bits, out |-> s.out]
           /\ \E d \in Nat : FiveAfter(Regrouped(s, v, 8, 5), s.acc, s.bits, s.out, v, d)
<1>1. /\ s = [acc |-> s.acc, bits |-> s.bits, out |-> s.out]
      /\ s.acc \in Nat /\ s.bits \in 0..4 /\ s.out \in Seq(Five)
  BY DEF FiveState
<1> QED
  BY <1>1, FiveOf

OctetStep == [s \in OctetState |-> [c \in Five |-> Regrouped(s, c, 5, 8)]]
FiveStep == [s \in FiveState |-> [c \in Byte |-> Regrouped(s, c, 8, 5)]]

LEMMA OctetTyped ==
    ASSUME NEW s \in OctetState, NEW v \in Five
    PROVE  Regrouped(s, v, 5, 8) \in OctetState
<1>1. PICK d \in Nat : OctetAfter(Regrouped(s, v, 5, 8), s.acc, s.bits, s.out, v, d)
  BY OctetStepIs DEF Five
<1>0. d \in Nat
  BY <1>1
<1>2. s.bits \in 0..7 /\ s.out \in Seq(Byte)
  BY DEF OctetState
<1>3. CASE s.bits < 3
  <2>1. s.bits + 5 \in 0..7
    BY <1>2, <1>3
  <2> QED
    BY <1>1, <1>2, <1>3, <2>1 DEF OctetAfter, OctetState
<1>4. CASE s.bits >= 3
  <2>1. s.bits - 3 \in 0..7
    BY <1>2, <1>4
  <2>2. PICK x : x = Bits(d, s.bits - 3, 8)
    OBVIOUS
  <2>3. x \in Byte /\ Regrouped(s, v, 5, 8) = [acc |-> d, bits |-> s.bits - 3, out |-> Append(s.out, x)]
    BY <1>1, <1>4, <2>2, Zenon DEF OctetAfter
  <2>4. Append(s.out, x) \in Seq(Byte)
    BY <1>2, <2>3, AppendProperties
  <2>5. \A u \in Seq(Byte) : [acc |-> d, bits |-> s.bits - 3, out |-> u] \in OctetState
    BY <1>0, <2>1 DEF OctetState
  <2> QED
    BY <2>3, <2>4, <2>5, Zenon
<1> QED
  BY <1>2, <1>3, <1>4

LEMMA FiveTyped ==
    ASSUME NEW s \in FiveState, NEW v \in Byte
    PROVE  Regrouped(s, v, 8, 5) \in FiveState
<1>1. PICK d \in Nat : FiveAfter(Regrouped(s, v, 8, 5), s.acc, s.bits, s.out, v, d)
  BY FiveStepIs DEF Byte
<1>0. d \in Nat
  BY <1>1
<1>2. s.bits \in 0..4 /\ s.out \in Seq(Five)
  BY DEF FiveState
<1>3. PICK x, y : x = Bits(d, s.bits + 3, 5) /\ y = Bits(d, s.bits - 2, 5)
  OBVIOUS
<1>4. x \in Five
  BY <1>1, <1>3, Zenon DEF FiveAfter
<1>5. CASE s.bits < 2
  <2>1. s.bits + 3 \in 0..4
    BY <1>2, <1>5
  <2>2. Regrouped(s, v, 8, 5) = [acc |-> d, bits |-> s.bits + 3, out |-> Append(s.out, x)]
    BY <1>1, <1>3, <1>5, Zenon DEF FiveAfter
  <2>3. Append(s.out, x) \in Seq(Five)
    BY <1>2, <1>4, AppendProperties
  <2>4. \A u \in Seq(Five) : [acc |-> d, bits |-> s.bits + 3, out |-> u] \in FiveState
    BY <1>0, <2>1 DEF FiveState
  <2> QED
    BY <2>2, <2>3, <2>4, Zenon
<1>6. CASE s.bits >= 2
  <2>1. s.bits - 2 \in 0..4
    BY <1>2, <1>6
  <2>2. y \in Five /\ Regrouped(s, v, 8, 5) = [acc |-> d, bits |-> s.bits - 2, out |-> s.out \o <<x, y>>]
    BY <1>1, <1>3, <1>6, Zenon DEF FiveAfter
  <2>3. <<x, y>> \in Seq(Five)
    BY <1>4, <2>2
  <2>4. s.out \o <<x, y>> \in Seq(Five)
    BY <1>2, <2>3, ConcatProperties
  <2>5. \A u \in Seq(Five) : [acc |-> d, bits |-> s.bits - 2, out |-> u] \in FiveState
    BY <1>0, <2>1 DEF FiveState
  <2> QED
    BY <2>2, <2>4, <2>5, Zenon
<1> QED
  BY <1>2, <1>5, <1>6

LEMMA StartTyped == RegroupStart \in OctetState /\ RegroupStart \in FiveState
  BY DEF RegroupStart, OctetState, FiveState

LEMMA OctetStepType ==
    OctetStep \in [OctetState -> [Five -> OctetState]] /\ RegroupStart \in OctetState
<1>1. \A s \in OctetState, c \in Five : Regrouped(s, c, 5, 8) \in OctetState
  BY OctetTyped
<1> QED
  BY <1>1, StartTyped DEF OctetStep

LEMMA FiveStepType ==
    FiveStep \in [FiveState -> [Byte -> FiveState]] /\ RegroupStart \in FiveState
<1>1. \A s \in FiveState, c \in Byte : Regrouped(s, c, 8, 5) \in FiveState
  BY FiveTyped
<1> QED
  BY <1>1, StartTyped DEF FiveStep

\* The loops, as folds: what one more group, and one more byte, adds.
LEMMA OctetFold ==
    ASSUME NEW s \in Seq(Five)
    PROVE  \E t : Folds(t, Five, OctetState, RegroupStart, OctetStep, s) /\ Octets(s) = t[Len(s)]
<1> DEFINE Rhs(t) == [n \in 0..Len(s) |->
                         IF n = 0 THEN RegroupStart ELSE Regrouped(t[n - 1], s[n], 5, 8)]
<1>0. Len(s) \in Nat /\ \A n \in 1..Len(s) : s[n] \in Five
  OBVIOUS
<1>1. PICK f : Folds(f, Five, OctetState, RegroupStart, OctetStep, s)
  BY OctetStepType, FoldExists
<1>2. f = Rhs(f)
  <2>1. f \in [0..Len(s) -> OctetState] /\ f[0] = RegroupStart
    BY <1>1 DEF Folds
  <2>2. ASSUME NEW n \in 1..Len(s)
        PROVE  f[n] = Regrouped(f[n - 1], s[n], 5, 8)
    <3>1. f[n] = OctetStep[f[n - 1]][s[n]]
      BY <1>1 DEF Folds
    <3>2. f[n - 1] \in OctetState /\ s[n] \in Five
      BY <1>0, <2>1
    <3> QED
      BY <3>1, <3>2 DEF OctetStep
  <2>3. ASSUME NEW n \in 0..Len(s)
        PROVE  f[n] = Rhs(f)[n]
    <3>1. n = 0 \/ (n # 0 /\ n \in 1..Len(s))
      BY <1>0
    <3> QED
      BY <2>1, <2>2, <3>1, Zenon
  <2>4. Rhs(f) = [n \in 0..Len(s) |-> Rhs(f)[n]] /\ f = [n \in 0..Len(s) |-> f[n]]
    BY <2>1, Zenon
  <2> QED
    BY <2>3, <2>4, Zenon
<1> DEFINE t == CHOOSE g : g = Rhs(g)
<1>3. t = Rhs(t)
  BY <1>2
<1>4. Octets(s) = t[Len(s)]
  BY DEF Octets, RegroupStart
<1> HIDE DEF t
<1>5. Folds(t, Five, OctetState, RegroupStart, OctetStep, s)
  <2>1. Over(t, 0..Len(s)) /\ t[0] = RegroupStart
    BY <1>0, <1>3 DEF Over
  <2>2. ASSUME NEW n \in 1..Len(s), t[n - 1] \in OctetState
        PROVE  t[n] = OctetStep[t[n - 1]][s[n]]
    <3>1. t[n] = Regrouped(t[n - 1], s[n], 5, 8)
      <4>1. n \in 0..Len(s) /\ n # 0
        BY <1>0
      <4>2. t[n] = Rhs(t)[n]
        BY <1>3, Zenon
      <4> QED
        BY <4>1, <4>2, Zenon
    <3>2. \A u \in OctetState, c \in Five : OctetStep[u][c] = Regrouped(u, c, 5, 8)
      BY DEF OctetStep
    <3> QED
      BY <1>0, <2>2, <3>1, <3>2, Zenon
  <2> QED
    BY <2>1, <2>2, OctetStepType, FoldEquations
<1> QED
  BY <1>4, <1>5

LEMMA OctetUnfold ==
    /\ Octets(<<>>) = RegroupStart
    /\ \A s \in Seq(Five) :
          /\ Octets(s) \in OctetState
          /\ \A c \in Five : Octets(Append(s, c)) = Regrouped(Octets(s), c, 5, 8)
<1>1. Octets(<<>>) = RegroupStart
  BY <<>> \in Seq(Five), OctetFold DEF Folds
<1>2. ASSUME NEW s \in Seq(Five)
      PROVE  Octets(s) \in OctetState
  <2>1. PICK f : Folds(f, Five, OctetState, RegroupStart, OctetStep, s) /\ Octets(s) = f[Len(s)]
    BY OctetFold
  <2>2. Len(s) \in 0..Len(s) /\ f \in [0..Len(s) -> OctetState]
    BY <2>1 DEF Folds
  <2> QED
    BY <2>1, <2>2, Zenon
<1>3. ASSUME NEW s \in Seq(Five), NEW c \in Five
      PROVE  Octets(Append(s, c)) = Regrouped(Octets(s), c, 5, 8)
  <2>1. PICK f : Folds(f, Five, OctetState, RegroupStart, OctetStep, s) /\ Octets(s) = f[Len(s)]
    BY OctetFold
  <2>2. PICK g : /\ Folds(g, Five, OctetState, RegroupStart, OctetStep, Append(s, c))
                 /\ Octets(Append(s, c)) = g[Len(Append(s, c))]
    BY Append(s, c) \in Seq(Five), OctetFold
  <2>3. /\ Folds(f, Five, OctetState, RegroupStart, OctetStep, s)
        /\ Folds(g, Five, OctetState, RegroupStart, OctetStep, Append(s, c))
    BY <2>1, <2>2
  <2>4. f[Len(s)] \in OctetState /\ g[Len(Append(s, c))] = OctetStep[f[Len(s)]][c]
    BY <2>3, FoldAppend
  <2> QED
    BY <2>1, <2>2, <2>4 DEF OctetStep
<1> QED
  BY <1>1, <1>2, <1>3

LEMMA FiveFold ==
    ASSUME NEW s \in Seq(Byte)
    PROVE  \E t : Folds(t, Byte, FiveState, RegroupStart, FiveStep, s) /\ Fives(s) = t[Len(s)]
<1> DEFINE Rhs(t) == [n \in 0..Len(s) |->
                         IF n = 0 THEN RegroupStart ELSE Regrouped(t[n - 1], s[n], 8, 5)]
<1>0. Len(s) \in Nat /\ \A n \in 1..Len(s) : s[n] \in Byte
  OBVIOUS
<1>1. PICK f : Folds(f, Byte, FiveState, RegroupStart, FiveStep, s)
  BY FiveStepType, FoldExists
<1>2. f = Rhs(f)
  <2>1. f \in [0..Len(s) -> FiveState] /\ f[0] = RegroupStart
    BY <1>1 DEF Folds
  <2>2. ASSUME NEW n \in 1..Len(s)
        PROVE  f[n] = Regrouped(f[n - 1], s[n], 8, 5)
    <3>1. f[n] = FiveStep[f[n - 1]][s[n]]
      BY <1>1 DEF Folds
    <3>2. f[n - 1] \in FiveState /\ s[n] \in Byte
      BY <1>0, <2>1
    <3> QED
      BY <3>1, <3>2 DEF FiveStep
  <2>3. ASSUME NEW n \in 0..Len(s)
        PROVE  f[n] = Rhs(f)[n]
    <3>1. n = 0 \/ (n # 0 /\ n \in 1..Len(s))
      BY <1>0
    <3> QED
      BY <2>1, <2>2, <3>1, Zenon
  <2>4. Rhs(f) = [n \in 0..Len(s) |-> Rhs(f)[n]] /\ f = [n \in 0..Len(s) |-> f[n]]
    BY <2>1, Zenon
  <2> QED
    BY <2>3, <2>4, Zenon
<1> DEFINE t == CHOOSE g : g = Rhs(g)
<1>3. t = Rhs(t)
  BY <1>2
<1>4. Fives(s) = t[Len(s)]
  BY DEF Fives, RegroupStart
<1> HIDE DEF t
<1>5. Folds(t, Byte, FiveState, RegroupStart, FiveStep, s)
  <2>1. Over(t, 0..Len(s)) /\ t[0] = RegroupStart
    BY <1>0, <1>3 DEF Over
  <2>2. ASSUME NEW n \in 1..Len(s), t[n - 1] \in FiveState
        PROVE  t[n] = FiveStep[t[n - 1]][s[n]]
    <3>1. t[n] = Regrouped(t[n - 1], s[n], 8, 5)
      <4>1. n \in 0..Len(s) /\ n # 0
        BY <1>0
      <4>2. t[n] = Rhs(t)[n]
        BY <1>3, Zenon
      <4> QED
        BY <4>1, <4>2, Zenon
    <3>2. \A u \in FiveState, c \in Byte : FiveStep[u][c] = Regrouped(u, c, 8, 5)
      BY DEF FiveStep
    <3> QED
      BY <1>0, <2>2, <3>1, <3>2, Zenon
  <2> QED
    BY <2>1, <2>2, FiveStepType, FoldEquations
<1> QED
  BY <1>4, <1>5

LEMMA FiveUnfold ==
    /\ Fives(<<>>) = RegroupStart
    /\ \A s \in Seq(Byte) :
          /\ Fives(s) \in FiveState
          /\ \A c \in Byte : Fives(Append(s, c)) = Regrouped(Fives(s), c, 8, 5)
<1>1. Fives(<<>>) = RegroupStart
  BY <<>> \in Seq(Byte), FiveFold DEF Folds
<1>2. ASSUME NEW s \in Seq(Byte)
      PROVE  Fives(s) \in FiveState
  <2>1. PICK f : Folds(f, Byte, FiveState, RegroupStart, FiveStep, s) /\ Fives(s) = f[Len(s)]
    BY FiveFold
  <2>2. Len(s) \in 0..Len(s) /\ f \in [0..Len(s) -> FiveState]
    BY <2>1 DEF Folds
  <2> QED
    BY <2>1, <2>2, Zenon
<1>3. ASSUME NEW s \in Seq(Byte), NEW c \in Byte
      PROVE  Fives(Append(s, c)) = Regrouped(Fives(s), c, 8, 5)
  <2>1. PICK f : Folds(f, Byte, FiveState, RegroupStart, FiveStep, s) /\ Fives(s) = f[Len(s)]
    BY FiveFold
  <2>2. PICK g : /\ Folds(g, Byte, FiveState, RegroupStart, FiveStep, Append(s, c))
                 /\ Fives(Append(s, c)) = g[Len(Append(s, c))]
    BY Append(s, c) \in Seq(Byte), FiveFold
  <2>3. /\ Folds(f, Byte, FiveState, RegroupStart, FiveStep, s)
        /\ Folds(g, Byte, FiveState, RegroupStart, FiveStep, Append(s, c))
    BY <2>1, <2>2
  <2>4. f[Len(s)] \in FiveState /\ g[Len(Append(s, c))] = FiveStep[f[Len(s)]][c]
    BY <2>3, FoldAppend
  <2> QED
    BY <2>1, <2>2, <2>4 DEF FiveStep
<1> QED
  BY <1>1, <1>2, <1>3

\* The groups that are not in a byte yet, from the bits that are left over on
\* the way to bytes (a, b) and back (A, c).
Rest(a, b, A, c, rem) ==
    \/ b = 0 /\ c = 0 /\ rem = <<>>
    \/ b = 1 /\ c = 4 /\ rem = <<(A % 16) * 2 + (a % 2)>>
    \/ b = 2 /\ c = 3 /\ rem = <<(A % 8) * 4 + (a % 4)>>
    \/ b = 3 /\ c = 2 /\ rem = <<(A % 4) * 8 + (a % 8)>>
    \/ b = 4 /\ c = 1 /\ rem = <<(A % 2) * 16 + (a % 16)>>
    \/ b = 5 /\ c = 0 /\ rem = <<a % 32>>
    \/ b = 6 /\ c = 4 /\ rem = <<((A % 16) * 64 + (a % 64)) \div 32, a % 32>>
    \/ b = 7 /\ c = 3 /\ rem = <<((A % 8) * 128 + (a % 128)) \div 32, a % 32>>

\* With too few bits for a byte, a group waits behind the others.
LEMMA LowBits0 ==
    ASSUME NEW a \in Nat, NEW v \in 0..31, NEW d, d = OctetAcc(a, v)
    PROVE  d % 32 = v
  BY SMT DEF OctetAcc

LEMMA LowBits1 ==
    ASSUME NEW a \in Nat, NEW v \in 0..31, NEW g \in 0..15, NEW d, d = OctetAcc(a, v)
    PROVE  d % 32 = v /\ (g * 64 + (d % 64)) \div 32 = g * 2 + (a % 2)
<1>1. PICK p \in Nat, f \in 0..1 : a = 2 * p + f /\ a % 2 = f
  BY a = 2 * (a \div 2) + (a % 2), a \div 2 \in Nat, a % 2 \in 0..1, SMT
<1>2. PICK s \in Nat, r \in 0..63 : p = 64 * s + r
  BY p = 64 * (p \div 64) + (p % 64), p \div 64 \in Nat, p % 64 \in 0..63, SMT
<1>3. d = 64 * r + (f * 32 + v)
  BY <1>1, <1>2, a * 32 + v = 4096 * s + (64 * r + (f * 32 + v)), SMT DEF OctetAcc
<1>4. d % 32 = v /\ d % 64 = f * 32 + v
  BY <1>1, <1>2, <1>3, SMT
<1> QED
  BY <1>1, <1>4, SMT

LEMMA LowBits2 ==
    ASSUME NEW a \in Nat, NEW v \in 0..31, NEW g \in 0..7, NEW d, d = OctetAcc(a, v)
    PROVE  d % 32 = v /\ (g * 128 + (d % 128)) \div 32 = g * 4 + (a % 4)
<1>1. PICK p \in Nat, f \in 0..3 : a = 4 * p + f /\ a % 4 = f
  BY a = 4 * (a \div 4) + (a % 4), a \div 4 \in Nat, a % 4 \in 0..3, SMT
<1>2. PICK s \in Nat, r \in 0..31 : p = 32 * s + r
  BY p = 32 * (p \div 32) + (p % 32), p \div 32 \in Nat, p % 32 \in 0..31, SMT
<1>3. d = 128 * r + (f * 32 + v)
  BY <1>1, <1>2, a * 32 + v = 4096 * s + (128 * r + (f * 32 + v)), SMT DEF OctetAcc
<1>4. d % 32 = v /\ d % 128 = f * 32 + v
  BY <1>1, <1>2, <1>3, SMT
<1> QED
  BY <1>1, <1>4, SMT

LEMMA AppendOne ==
    ASSUME NEW x, NEW v
    PROVE  Append(<<x>>, v) = <<x, v>>
<1>1. <<x>> \in Seq({x, v}) /\ Len(<<x>>) = 1 /\ v \in {x, v} /\ <<x>>[1] = x
  OBVIOUS
<1>2. /\ Append(<<x>>, v) \in Seq({x, v}) /\ Len(Append(<<x>>, v)) = 2
      /\ Append(<<x>>, v)[1] = x /\ Append(<<x>>, v)[2] = v
  BY <1>1, AppendProperties
<1>3. <<x, v>> \in Seq({x, v}) /\ Len(<<x, v>>) = 2 /\ <<x, v>>[1] = x /\ <<x, v>>[2] = v
  OBVIOUS
<1>4. \A i \in 1..2 : i = 1 \/ i = 2
  OBVIOUS
<1>5. \A i \in 1..2 : Append(<<x>>, v)[i] = <<x, v>>[i]
  BY <1>2, <1>3, <1>4, Zenon
<1> QED
  BY <1>2, <1>3, <1>5, SeqEqual

LEMMA RestLow ==
    ASSUME NEW a \in Nat, NEW b, NEW A \in Nat, NEW c, NEW rem, Rest(a, b, A, c, rem),
           NEW v \in Five, NEW d, d = OctetAcc(a, v), b \in {0, 1, 2}
    PROVE  Rest(d, b + 5, A, c, Append(rem, v))
<1>1. v \in 0..31 /\ d = OctetAcc(a, v)
  BY DEF Five
<1>2. CASE b = 0
  <2>1. c = 0 /\ rem = <<>>
    BY <1>2 DEF Rest
  <2>2. d % 32 = v
    BY <1>1, LowBits0
  <2>3. Append(rem, v) = <<d % 32>>
    BY <2>1, <2>2
  <2>4. b + 5 = 5
    BY <1>2
  <2> QED
    BY <2>1, <2>3, <2>4, Zenon DEF Rest
<1>3. CASE b = 1
  <2>1. c = 4 /\ rem = <<(A % 16) * 2 + (a % 2)>>
    BY <1>3 DEF Rest
  <2>2. PICK g \in 0..15 : g = A % 16
    OBVIOUS
  <2>3. d % 32 = v /\ (g * 64 + (d % 64)) \div 32 = g * 2 + (a % 2)
    BY <1>1, <2>2, LowBits1, SMT
  <2>4. PICK x : x = g * 2 + (a % 2)
    OBVIOUS
  <2>5. rem = <<x>> /\ x \in Int
    BY <2>1, <2>2, <2>4
  <2>6. Append(<<x>>, v) = <<x, v>>
    BY AppendOne
  <2>7. Append(rem, v) = <<x, v>>
    BY <2>5, <2>6, Zenon
  <2>71. (g * 64 + (d % 64)) \div 32 = x /\ d % 32 = v
    BY <2>3, <2>4, Zenon
  <2>9. Append(rem, v) = <<((A % 16) * 64 + (d % 64)) \div 32, d % 32>>
    BY <2>2, <2>7, <2>71, Zenon
  <2>8. b + 5 = 6
    BY <1>3
  <2> QED
    BY <2>1, <2>8, <2>9, Zenon DEF Rest
<1>4. CASE b = 2
  <2>1. c = 3 /\ rem = <<(A % 8) * 4 + (a % 4)>>
    BY <1>4 DEF Rest
  <2>2. PICK g \in 0..7 : g = A % 8
    OBVIOUS
  <2>3. d % 32 = v /\ (g * 128 + (d % 128)) \div 32 = g * 4 + (a % 4)
    BY <1>1, <2>2, LowBits2, SMT
  <2>4. PICK x : x = g * 4 + (a % 4)
    OBVIOUS
  <2>5. rem = <<x>> /\ x \in Int
    BY <2>1, <2>2, <2>4
  <2>6. Append(<<x>>, v) = <<x, v>>
    BY AppendOne
  <2>7. Append(rem, v) = <<x, v>>
    BY <2>5, <2>6, Zenon
  <2>71. (g * 128 + (d % 128)) \div 32 = x /\ d % 32 = v
    BY <2>3, <2>4, Zenon
  <2>9. Append(rem, v) = <<((A % 8) * 128 + (d % 128)) \div 32, d % 32>>
    BY <2>2, <2>7, <2>71, Zenon
  <2>8. b + 5 = 7
    BY <1>4
  <2> QED
    BY <2>1, <2>8, <2>9, Zenon DEF Rest
<1> QED
  BY <1>2, <1>3, <1>4

\* With the bits of a byte, the groups it completes come back from it, and the
\* others wait.
LEMMA RestHigh3 ==
    ASSUME NEW a \in Nat, NEW A \in Nat, NEW c, NEW rem, Rest(a, 3, A, c, rem),
           NEW v \in Five, NEW d \in Nat, d = OctetAcc(a, v), NEW y, y = Bits(d, 0, 8),
           NEW e \in Nat, e = FiveAcc(A, y)
    PROVE  c = 2 /\ rem = <<Bits(e, 5, 5)>> /\ v = Bits(e, 0, 5) /\ Rest(d, 0, e, 0, <<>>)
<1>1. c = 2 /\ rem = <<(A % 4) * 8 + (a % 8)>>
  BY DEF Rest
<1>2. v \in 0..31 /\ Chained(a, v, A, d, y, e, 1)
  BY GroupsTaken DEF Five, Chained
<1>4. Bits(e, 5, 5) = (e \div 32) % 32 /\ Bits(e, 0, 5) = (e \div 1) % 32
  BY GroupsTaken
<1>5. /\ (e \div 32) % 32 = (A % 4) * 8 + (a % 8)
      /\ e % 32 = v
  BY <1>2, GroupBits3, SMTT(60)
<1>6. e \div 1 = e
  OBVIOUS
<1>7. rem = <<Bits(e, 5, 5)>> /\ v = Bits(e, 0, 5)
  BY <1>1, <1>4, <1>5, <1>6
<1>8. Rest(d, 0, e, 0, <<>>)
  BY DEF Rest
<1> QED
  BY <1>1, <1>7, <1>8

LEMMA RestHigh4 ==
    ASSUME NEW a \in Nat, NEW A \in Nat, NEW c, NEW rem, Rest(a, 4, A, c, rem),
           NEW v \in Five, NEW d \in Nat, d = OctetAcc(a, v), NEW y, y = Bits(d, 1, 8),
           NEW e \in Nat, e = FiveAcc(A, y)
    PROVE  c = 1 /\ rem = <<Bits(e, 4, 5)>> /\ Rest(d, 1, e, 4, <<v>>)
<1>1. c = 1 /\ rem = <<(A % 2) * 16 + (a % 16)>>
  BY DEF Rest
<1>2. v \in 0..31 /\ Chained(a, v, A, d, y, e, 2)
  BY GroupsTaken DEF Five, Chained
<1>4. Bits(e, 4, 5) = (e \div 16) % 32
  BY GroupsTaken
<1>5. /\ (e \div 16) % 32 = (A % 2) * 16 + (a % 16)
      /\ (e % 16) * 2 + (d % 2) = v
  BY <1>2, GroupBits4, SMTT(60)
<1>7. rem = <<Bits(e, 4, 5)>>
  BY <1>1, <1>4, <1>5
<1>8. Rest(d, 1, e, 4, <<v>>)
  BY <1>5 DEF Rest
<1> QED
  BY <1>1, <1>7, <1>8

LEMMA RestHigh5 ==
    ASSUME NEW a \in Nat, NEW A \in Nat, NEW c, NEW rem, Rest(a, 5, A, c, rem),
           NEW v \in Five, NEW d \in Nat, d = OctetAcc(a, v), NEW y, y = Bits(d, 2, 8),
           NEW e \in Nat, e = FiveAcc(A, y)
    PROVE  c = 0 /\ rem = <<Bits(e, 3, 5)>> /\ Rest(d, 2, e, 3, <<v>>)
<1>1. c = 0 /\ rem = <<a % 32>>
  BY DEF Rest
<1>2. v \in 0..31 /\ Chained(a, v, A, d, y, e, 4)
  BY GroupsTaken DEF Five, Chained
<1>4. Bits(e, 3, 5) = (e \div 8) % 32
  BY GroupsTaken
<1>5. /\ (e \div 8) % 32 = a % 32
      /\ (e % 8) * 4 + (d % 4) = v
  BY <1>2, GroupBits5, SMTT(60)
<1>7. rem = <<Bits(e, 3, 5)>>
  BY <1>1, <1>4, <1>5
<1>8. Rest(d, 2, e, 3, <<v>>)
  BY <1>5 DEF Rest
<1> QED
  BY <1>1, <1>7, <1>8

LEMMA RestHigh6 ==
    ASSUME NEW a \in Nat, NEW A \in Nat, NEW c, NEW rem, Rest(a, 6, A, c, rem),
           NEW v \in Five, NEW d \in Nat, d = OctetAcc(a, v), NEW y, y = Bits(d, 3, 8),
           NEW e \in Nat, e = FiveAcc(A, y)
    PROVE  c = 4 /\ rem = <<Bits(e, 7, 5), Bits(e, 2, 5)>> /\ Rest(d, 3, e, 2, <<v>>)
<1>1. c = 4 /\ rem = <<((A % 16) * 64 + (a % 64)) \div 32, a % 32>>
  BY DEF Rest
<1>2. v \in 0..31 /\ Chained(a, v, A, d, y, e, 8)
  BY GroupsTaken DEF Five, Chained
<1>4. Bits(e, 7, 5) = (e \div 128) % 32 /\ Bits(e, 2, 5) = (e \div 4) % 32
  BY GroupsTaken
<1>5. /\ (e \div 128) % 32 = ((A % 16) * 64 + (a % 64)) \div 32
      /\ (e \div 4) % 32 = a % 32
      /\ (e % 4) * 8 + (d % 8) = v
  BY <1>2, GroupBits6, SMTT(60)
<1>7. rem = <<Bits(e, 7, 5), Bits(e, 2, 5)>>
  BY <1>1, <1>4, <1>5
<1>8. Rest(d, 3, e, 2, <<v>>)
  BY <1>5 DEF Rest
<1> QED
  BY <1>1, <1>7, <1>8

LEMMA RestHigh7 ==
    ASSUME NEW a \in Nat, NEW A \in Nat, NEW c, NEW rem, Rest(a, 7, A, c, rem),
           NEW v \in Five, NEW d \in Nat, d = OctetAcc(a, v), NEW y, y = Bits(d, 4, 8),
           NEW e \in Nat, e = FiveAcc(A, y)
    PROVE  c = 3 /\ rem = <<Bits(e, 6, 5), Bits(e, 1, 5)>> /\ Rest(d, 4, e, 1, <<v>>)
<1>1. c = 3 /\ rem = <<((A % 8) * 128 + (a % 128)) \div 32, a % 32>>
  BY DEF Rest
<1>2. v \in 0..31 /\ Chained(a, v, A, d, y, e, 16)
  BY GroupsTaken DEF Five, Chained
<1>4. Bits(e, 6, 5) = (e \div 64) % 32 /\ Bits(e, 1, 5) = (e \div 2) % 32
  BY GroupsTaken
<1>5. /\ (e \div 64) % 32 = ((A % 8) * 128 + (a % 128)) \div 32
      /\ (e \div 2) % 32 = a % 32
      /\ (e % 2) * 16 + (d % 16) = v
  BY <1>2, GroupBits7, SMTT(60)
<1>7. rem = <<Bits(e, 6, 5), Bits(e, 1, 5)>>
  BY <1>1, <1>4, <1>5
<1>8. Rest(d, 4, e, 1, <<v>>)
  BY <1>5 DEF Rest
<1> QED
  BY <1>1, <1>7, <1>8

\* The groups g of five bits are those that come back from the bytes so far, and
\* those that wait for the next byte.
Fits(g, s, k) ==
    /\ s \in OctetState /\ k \in FiveState
    /\ \E rem \in Seq(Nat) :
          /\ Rest(s.acc, s.bits, k.acc, k.bits, rem)
          /\ g = k.out \o rem

LEMMA BytesAreNaturals == \A x : (x \in Five => x \in Nat) /\ (x \in Byte => x \in Nat)
  BY DEF Five, Byte

LEMMA AfterOne ==
    ASSUME NEW o \in Seq(Nat), NEW x \in Nat, NEW v \in Nat
    PROVE  /\ Append(o \o <<x>>, v) = Append(o, x) \o <<v>>
           /\ Append(o \o <<x>>, v) = (o \o <<x, v>>) \o <<>>
<1>1. <<x>> \in Seq(Nat) /\ <<x, v>> \in Seq(Nat)
  OBVIOUS
<1>2. Append(o \o <<x>>, v) = o \o <<x, v>>
  BY <1>1, ConcatAppend, AppendOne
<1>3. o \o <<x, v>> \in Seq(Nat) /\ Append(o, x) \in Seq(Nat)
  BY <1>1, ConcatProperties, AppendProperties
<1>4. (o \o <<x, v>>) \o <<>> = o \o <<x, v>>
  BY <1>3, ConcatEmptySeq
<1>5. Append(o, x) = o \o <<x>> /\ Append(Append(o, x), v) = Append(o, x) \o <<v>>
  BY <1>3, AppendIsConcat
<1> QED
  BY <1>2, <1>4, <1>5

LEMMA AfterTwo ==
    ASSUME NEW o \in Seq(Nat), NEW q \in Seq(Nat), NEW v \in Nat
    PROVE  Append(o \o q, v) = (o \o q) \o <<v>>
<1>2. o \o q \in Seq(Nat)
  BY ConcatProperties
<1> QED
  BY <1>2, AppendIsConcat

LEMMA FitsOf ==
    ASSUME NEW a \in Nat, NEW b \in 0..7, NEW o \in Seq(Byte),
           NEW A \in Nat, NEW c \in 0..4, NEW p \in Seq(Five),
           NEW rem \in Seq(Nat), Rest(a, b, A, c, rem)
    PROVE  Fits(p \o rem, [acc |-> a, bits |-> b, out |-> o], [acc |-> A, bits |-> c, out |-> p])
  BY DEF Fits, OctetState, FiveState

\* The same, of the groups that came back so far.
LEMMA FitsHigh3 ==
    ASSUME NEW a \in Nat, NEW A \in Nat, NEW c \in 0..4, NEW rem \in Seq(Nat), Rest(a, 3, A, c, rem),
           NEW o \in Seq(Byte), NEW p \in Seq(Five),
           NEW v \in Five, NEW d \in Nat, d = OctetAcc(a, v), NEW y \in Byte, y = Bits(d, 0, 8),
           NEW e \in Nat, NEW k, FiveAfter(k, A, c, p, y, e)
    PROVE  Fits(Append(p \o rem, v), [acc |-> d, bits |-> 0, out |-> Append(o, y)], k)
<1>1. e = FiveAcc(A, y)
  BY DEF FiveAfter
<1>2. c = 2 /\ rem = <<Bits(e, 5, 5)>> /\ v = Bits(e, 0, 5) /\ Rest(d, 0, e, 0, <<>>)
  BY <1>1, RestHigh3
<1>3. PICK x, z : x = Bits(e, 5, 5) /\ z = Bits(e, 0, 5)
  OBVIOUS
<1>4. c + 3 = 5 /\ c - 2 = 0 /\ c >= 2
  BY <1>2
<1>5. k = [acc |-> e, bits |-> 0, out |-> p \o <<x, z>>] /\ x \in Five /\ z \in Five
  BY <1>3, <1>4, Zenon DEF FiveAfter
<1>6. x \in Nat /\ v \in Nat /\ z \in Nat
  BY <1>5, BytesAreNaturals
<1>7. Append(p \o rem, v) = (p \o <<x, z>>) \o <<>>
  <2>1. p \in Seq(Nat)
    BY BytesAreNaturals
  <2>2. rem = <<x>>
    BY <1>2, <1>3, Zenon
  <2>3. v = z
    BY <1>2, <1>3, Zenon
  <2> QED
    BY <1>6, <2>1, <2>2, <2>3, AfterOne
<1>8. p \o <<x, z>> \in Seq(Five) /\ Append(o, y) \in Seq(Byte)
  <2>1. <<x, z>> \in Seq(Five)
    BY <1>5
  <2> QED
    BY <2>1, ConcatProperties, AppendProperties
<1>9. <<>> \in Seq(Nat) /\ Rest(d, 0, e, 0, <<>>)
  BY <1>2, <1>6
<1>10. 0 \in 0..7 /\ 0 \in 0..4
  OBVIOUS
<1>11. Fits((p \o <<x, z>>) \o <<>>, [acc |-> d, bits |-> 0, out |-> Append(o, y)],
            [acc |-> e, bits |-> 0, out |-> p \o <<x, z>>])
  BY <1>8, <1>9, <1>10, FitsOf
<1> QED
  BY <1>5, <1>7, <1>11, Zenon

LEMMA FitsHigh4 ==
    ASSUME NEW a \in Nat, NEW A \in Nat, NEW c \in 0..4, NEW rem \in Seq(Nat), Rest(a, 4, A, c, rem),
           NEW o \in Seq(Byte), NEW p \in Seq(Five),
           NEW v \in Five, NEW d \in Nat, d = OctetAcc(a, v), NEW y \in Byte, y = Bits(d, 1, 8),
           NEW e \in Nat, NEW k, FiveAfter(k, A, c, p, y, e)
    PROVE  Fits(Append(p \o rem, v), [acc |-> d, bits |-> 1, out |-> Append(o, y)], k)
<1>1. e = FiveAcc(A, y)
  BY DEF FiveAfter
<1>2. c = 1 /\ rem = <<Bits(e, 4, 5)>> /\ Rest(d, 1, e, 4, <<v>>)
  BY <1>1, RestHigh4
<1>3. PICK x : x = Bits(e, 4, 5)
  OBVIOUS
<1>4. c + 3 = 4 /\ c < 2
  BY <1>2
<1>5. k = [acc |-> e, bits |-> 4, out |-> Append(p, x)] /\ x \in Five
  BY <1>3, <1>4, Zenon DEF FiveAfter
<1>6. x \in Nat /\ v \in Nat
  BY <1>5, BytesAreNaturals
<1>7. Append(p \o rem, v) = (Append(p, x)) \o <<v>>
  <2>1. p \in Seq(Nat)
    BY BytesAreNaturals
  <2>2. rem = <<x>>
    BY <1>2, <1>3, Zenon
  <2> QED
    BY <1>6, <2>1, <2>2, AfterOne
<1>8. Append(p, x) \in Seq(Five) /\ Append(o, y) \in Seq(Byte)
  BY <1>5, AppendProperties
<1>9. <<v>> \in Seq(Nat) /\ Rest(d, 1, e, 4, <<v>>)
  BY <1>2, <1>6
<1>10. 1 \in 0..7 /\ 4 \in 0..4
  OBVIOUS
<1>11. Fits((Append(p, x)) \o <<v>>, [acc |-> d, bits |-> 1, out |-> Append(o, y)],
            [acc |-> e, bits |-> 4, out |-> Append(p, x)])
  BY <1>8, <1>9, <1>10, FitsOf
<1> QED
  BY <1>5, <1>7, <1>11, Zenon

LEMMA FitsHigh5 ==
    ASSUME NEW a \in Nat, NEW A \in Nat, NEW c \in 0..4, NEW rem \in Seq(Nat), Rest(a, 5, A, c, rem),
           NEW o \in Seq(Byte), NEW p \in Seq(Five),
           NEW v \in Five, NEW d \in Nat, d = OctetAcc(a, v), NEW y \in Byte, y = Bits(d, 2, 8),
           NEW e \in Nat, NEW k, FiveAfter(k, A, c, p, y, e)
    PROVE  Fits(Append(p \o rem, v), [acc |-> d, bits |-> 2, out |-> Append(o, y)], k)
<1>1. e = FiveAcc(A, y)
  BY DEF FiveAfter
<1>2. c = 0 /\ rem = <<Bits(e, 3, 5)>> /\ Rest(d, 2, e, 3, <<v>>)
  BY <1>1, RestHigh5
<1>3. PICK x : x = Bits(e, 3, 5)
  OBVIOUS
<1>4. c + 3 = 3 /\ c < 2
  BY <1>2
<1>5. k = [acc |-> e, bits |-> 3, out |-> Append(p, x)] /\ x \in Five
  BY <1>3, <1>4, Zenon DEF FiveAfter
<1>6. x \in Nat /\ v \in Nat
  BY <1>5, BytesAreNaturals
<1>7. Append(p \o rem, v) = (Append(p, x)) \o <<v>>
  <2>1. p \in Seq(Nat)
    BY BytesAreNaturals
  <2>2. rem = <<x>>
    BY <1>2, <1>3, Zenon
  <2> QED
    BY <1>6, <2>1, <2>2, AfterOne
<1>8. Append(p, x) \in Seq(Five) /\ Append(o, y) \in Seq(Byte)
  BY <1>5, AppendProperties
<1>9. <<v>> \in Seq(Nat) /\ Rest(d, 2, e, 3, <<v>>)
  BY <1>2, <1>6
<1>10. 2 \in 0..7 /\ 3 \in 0..4
  OBVIOUS
<1>11. Fits((Append(p, x)) \o <<v>>, [acc |-> d, bits |-> 2, out |-> Append(o, y)],
            [acc |-> e, bits |-> 3, out |-> Append(p, x)])
  BY <1>8, <1>9, <1>10, FitsOf
<1> QED
  BY <1>5, <1>7, <1>11, Zenon

LEMMA FitsHigh6 ==
    ASSUME NEW a \in Nat, NEW A \in Nat, NEW c \in 0..4, NEW rem \in Seq(Nat), Rest(a, 6, A, c, rem),
           NEW o \in Seq(Byte), NEW p \in Seq(Five),
           NEW v \in Five, NEW d \in Nat, d = OctetAcc(a, v), NEW y \in Byte, y = Bits(d, 3, 8),
           NEW e \in Nat, NEW k, FiveAfter(k, A, c, p, y, e)
    PROVE  Fits(Append(p \o rem, v), [acc |-> d, bits |-> 3, out |-> Append(o, y)], k)
<1>1. e = FiveAcc(A, y)
  BY DEF FiveAfter
<1>2. c = 4 /\ rem = <<Bits(e, 7, 5), Bits(e, 2, 5)>> /\ Rest(d, 3, e, 2, <<v>>)
  BY <1>1, RestHigh6
<1>3. PICK x, z : x = Bits(e, 7, 5) /\ z = Bits(e, 2, 5)
  OBVIOUS
<1>4. c + 3 = 7 /\ c - 2 = 2 /\ c >= 2
  BY <1>2
<1>5. k = [acc |-> e, bits |-> 2, out |-> p \o <<x, z>>] /\ x \in Five /\ z \in Five
  BY <1>3, <1>4, Zenon DEF FiveAfter
<1>6. x \in Nat /\ v \in Nat /\ z \in Nat
  BY <1>5, BytesAreNaturals
<1>7. Append(p \o rem, v) = (p \o <<x, z>>) \o <<v>>
  <2>1. p \in Seq(Nat)
    BY BytesAreNaturals
  <2>2. rem = <<x, z>>
    BY <1>2, <1>3, Zenon
  <2>3. Append(p \o rem, v) = (p \o rem) \o <<v>>
    BY <1>6, <2>1, AfterTwo, Zenon
  <2> QED
    BY <2>2, <2>3, Zenon
<1>8. p \o <<x, z>> \in Seq(Five) /\ Append(o, y) \in Seq(Byte)
  <2>1. <<x, z>> \in Seq(Five)
    BY <1>5
  <2> QED
    BY <2>1, ConcatProperties, AppendProperties
<1>9. <<v>> \in Seq(Nat) /\ Rest(d, 3, e, 2, <<v>>)
  BY <1>2, <1>6
<1>10. 3 \in 0..7 /\ 2 \in 0..4
  OBVIOUS
<1>11. Fits((p \o <<x, z>>) \o <<v>>, [acc |-> d, bits |-> 3, out |-> Append(o, y)],
            [acc |-> e, bits |-> 2, out |-> p \o <<x, z>>])
  BY <1>8, <1>9, <1>10, FitsOf
<1> QED
  BY <1>5, <1>7, <1>11, Zenon

LEMMA FitsHigh7 ==
    ASSUME NEW a \in Nat, NEW A \in Nat, NEW c \in 0..4, NEW rem \in Seq(Nat), Rest(a, 7, A, c, rem),
           NEW o \in Seq(Byte), NEW p \in Seq(Five),
           NEW v \in Five, NEW d \in Nat, d = OctetAcc(a, v), NEW y \in Byte, y = Bits(d, 4, 8),
           NEW e \in Nat, NEW k, FiveAfter(k, A, c, p, y, e)
    PROVE  Fits(Append(p \o rem, v), [acc |-> d, bits |-> 4, out |-> Append(o, y)], k)
<1>1. e = FiveAcc(A, y)
  BY DEF FiveAfter
<1>2. c = 3 /\ rem = <<Bits(e, 6, 5), Bits(e, 1, 5)>> /\ Rest(d, 4, e, 1, <<v>>)
  BY <1>1, RestHigh7
<1>3. PICK x, z : x = Bits(e, 6, 5) /\ z = Bits(e, 1, 5)
  OBVIOUS
<1>4. c + 3 = 6 /\ c - 2 = 1 /\ c >= 2
  BY <1>2
<1>5. k = [acc |-> e, bits |-> 1, out |-> p \o <<x, z>>] /\ x \in Five /\ z \in Five
  BY <1>3, <1>4, Zenon DEF FiveAfter
<1>6. x \in Nat /\ v \in Nat /\ z \in Nat
  BY <1>5, BytesAreNaturals
<1>7. Append(p \o rem, v) = (p \o <<x, z>>) \o <<v>>
  <2>1. p \in Seq(Nat)
    BY BytesAreNaturals
  <2>2. rem = <<x, z>>
    BY <1>2, <1>3, Zenon
  <2>3. Append(p \o rem, v) = (p \o rem) \o <<v>>
    BY <1>6, <2>1, AfterTwo, Zenon
  <2> QED
    BY <2>2, <2>3, Zenon
<1>8. p \o <<x, z>> \in Seq(Five) /\ Append(o, y) \in Seq(Byte)
  <2>1. <<x, z>> \in Seq(Five)
    BY <1>5
  <2> QED
    BY <2>1, ConcatProperties, AppendProperties
<1>9. <<v>> \in Seq(Nat) /\ Rest(d, 4, e, 1, <<v>>)
  BY <1>2, <1>6
<1>10. 4 \in 0..7 /\ 1 \in 0..4
  OBVIOUS
<1>11. Fits((p \o <<x, z>>) \o <<v>>, [acc |-> d, bits |-> 4, out |-> Append(o, y)],
            [acc |-> e, bits |-> 1, out |-> p \o <<x, z>>])
  BY <1>8, <1>9, <1>10, FitsOf
<1> QED
  BY <1>5, <1>7, <1>11, Zenon

\* It stays so with every group, so that it is so at the end.
LEMMA FitsStep ==
    ASSUME NEW g \in Seq(Five), NEW v \in Five,
           Fits(g, Octets(g), Fives(Octets(g).out))
    PROVE  Fits(Append(g, v), Octets(Append(g, v)), Fives(Octets(Append(g, v)).out))
<1>1. PICK s, k : s = Octets(g) /\ k = Fives(s.out)
  OBVIOUS
<1>2. PICK r : r = Octets(Append(g, v))
  OBVIOUS
<1>3. s \in OctetState /\ r = Regrouped(s, v, 5, 8)
  BY <1>1, <1>2, OctetUnfold, Zenon
<1>4. v \in Nat
  BY BytesAreNaturals
<1>5. PICK d \in Nat : OctetAfter(r, s.acc, s.bits, s.out, v, d)
  BY <1>3, <1>4, OctetStepIs, Zenon
<1>6. k \in FiveState
  BY <1>1 DEF Fits
<1>7. PICK a, b, o : s = [acc |-> a, bits |-> b, out |-> o] /\ a \in Nat /\ b \in 0..7 /\ o \in Seq(Byte)
  BY <1>3 DEF OctetState
<1>8. PICK A, c, p : k = [acc |-> A, bits |-> c, out |-> p] /\ A \in Nat /\ c \in 0..4 /\ p \in Seq(Five)
  BY <1>6 DEF FiveState
<1>9. /\ a \in Nat /\ b \in 0..7 /\ o \in Seq(Byte) /\ A \in Nat /\ c \in 0..4 /\ p \in Seq(Five)
      /\ s.acc = a /\ s.bits = b /\ s.out = o /\ k.acc = A /\ k.bits = c /\ k.out = p
  BY <1>7, <1>8
<1>10. PICK rem \in Seq(Nat) : Rest(a, b, A, c, rem) /\ g = p \o rem
  BY <1>1, <1>9, Zenon DEF Fits
<1>11. OctetAfter(r, a, b, o, v, d) /\ k = Fives(o) /\ rem \in Seq(Nat) /\ d \in Nat
  BY <1>1, <1>5, <1>9, <1>10, Zenon
<1>12. d = OctetAcc(a, v)
  BY <1>11 DEF OctetAfter
<1>13. CASE b < 3
  <2>1. r = [acc |-> d, bits |-> b + 5, out |-> o] /\ b + 5 \in 0..7 /\ b \in {0, 1, 2}
    BY <1>9, <1>11, <1>13 DEF OctetAfter
  <2>2. Rest(d, b + 5, A, c, Append(rem, v))
    BY <1>9, <1>10, <1>12, <2>1, RestLow
  <2>3. Append(rem, v) \in Seq(Nat)
    BY <1>4, <1>11, AppendProperties
  <2>4. Fits(p \o Append(rem, v), [acc |-> d, bits |-> b + 5, out |-> o],
             [acc |-> A, bits |-> c, out |-> p])
    BY <1>9, <1>11, <2>1, <2>2, <2>3, FitsOf
  <2>5. p \o Append(rem, v) = Append(p \o rem, v)
    <3>1. p \in Seq(Nat)
      BY <1>9, BytesAreNaturals
    <3> QED
      BY <1>4, <1>11, <3>1, ConcatAppend
  <2>6. r.out = o
    BY <2>1
  <2> QED
    BY <1>2, <1>8, <1>10, <1>11, <2>1, <2>4, <2>5, <2>6, Zenon
<1>14. CASE b >= 3
  <2>1. PICK y : y = Bits(d, b - 3, 8)
    OBVIOUS
  <2>2. y \in Byte /\ r = [acc |-> d, bits |-> b - 3, out |-> Append(o, y)]
    BY <1>11, <1>14, <2>1, Zenon DEF OctetAfter
  <2>3. Fives(Append(o, y)) = Regrouped(k, y, 8, 5)
    BY <1>9, <1>11, <2>2, FiveUnfold, Zenon
  <2>4. y \in Nat
    BY <2>2, BytesAreNaturals
  <2>5. PICK e \in Nat : FiveAfter(Fives(Append(o, y)), A, c, p, y, e)
    <3>1. \E e \in Nat : FiveAfter(Regrouped(k, y, 8, 5), k.acc, k.bits, k.out, y, e)
      BY <1>6, <2>4, FiveStepIs, Zenon
    <3> QED
      BY <1>9, <2>3, <3>1, Zenon
  <2>6. PICK k2 : k2 = Fives(Append(o, y))
    OBVIOUS
  <2>7. FiveAfter(k2, A, c, p, y, e) /\ e \in Nat
    BY <2>5, <2>6, Zenon
  <2>8. r.out = Append(o, y)
    BY <2>2
  <2>9. SUFFICES Fits(Append(p \o rem, v), [acc |-> d, bits |-> b - 3, out |-> Append(o, y)], k2)
    BY <1>2, <1>10, <2>2, <2>6, <2>8, Zenon
  <2>10. b \in {3, 4, 5, 6, 7}
    BY <1>9, <1>14
  <2>11. CASE b = 3
    <3>1. b - 3 = 0
      BY <2>11
    <3>2. Rest(a, 3, A, c, rem) /\ y = Bits(d, 0, 8)
      BY <1>10, <2>1, <2>11, <3>1, Zenon
    <3>3. Fits(Append(p \o rem, v), [acc |-> d, bits |-> 0, out |-> Append(o, y)], k2)
      BY <1>9, <1>11, <1>12, <2>2, <2>7, <3>2, FitsHigh3
    <3> QED
      BY <3>1, <3>3, Zenon
  <2>12. CASE b = 4
    <3>1. b - 3 = 1
      BY <2>12
    <3>2. Rest(a, 4, A, c, rem) /\ y = Bits(d, 1, 8)
      BY <1>10, <2>1, <2>12, <3>1, Zenon
    <3>3. Fits(Append(p \o rem, v), [acc |-> d, bits |-> 1, out |-> Append(o, y)], k2)
      BY <1>9, <1>11, <1>12, <2>2, <2>7, <3>2, FitsHigh4
    <3> QED
      BY <3>1, <3>3, Zenon
  <2>13. CASE b = 5
    <3>1. b - 3 = 2
      BY <2>13
    <3>2. Rest(a, 5, A, c, rem) /\ y = Bits(d, 2, 8)
      BY <1>10, <2>1, <2>13, <3>1, Zenon
    <3>3. Fits(Append(p \o rem, v), [acc |-> d, bits |-> 2, out |-> Append(o, y)], k2)
      BY <1>9, <1>11, <1>12, <2>2, <2>7, <3>2, FitsHigh5
    <3> QED
      BY <3>1, <3>3, Zenon
  <2>14. CASE b = 6
    <3>1. b - 3 = 3
      BY <2>14
    <3>2. Rest(a, 6, A, c, rem) /\ y = Bits(d, 3, 8)
      BY <1>10, <2>1, <2>14, <3>1, Zenon
    <3>3. Fits(Append(p \o rem, v), [acc |-> d, bits |-> 3, out |-> Append(o, y)], k2)
      BY <1>9, <1>11, <1>12, <2>2, <2>7, <3>2, FitsHigh6
    <3> QED
      BY <3>1, <3>3, Zenon
  <2>15. CASE b = 7
    <3>1. b - 3 = 4
      BY <2>15
    <3>2. Rest(a, 7, A, c, rem) /\ y = Bits(d, 4, 8)
      BY <1>10, <2>1, <2>15, <3>1, Zenon
    <3>3. Fits(Append(p \o rem, v), [acc |-> d, bits |-> 4, out |-> Append(o, y)], k2)
      BY <1>9, <1>11, <1>12, <2>2, <2>7, <3>2, FitsHigh7
    <3> QED
      BY <3>1, <3>3, Zenon
  <2> QED
    BY <2>10, <2>11, <2>12, <2>13, <2>14, <2>15
<1> QED
  BY <1>9, <1>13, <1>14

LEMMA FitsLoop == \A g \in Seq(Five) : Fits(g, Octets(g), Fives(Octets(g).out))
<1> DEFINE T == {g \in Seq(Five) : Fits(g, Octets(g), Fives(Octets(g).out))}
<1>1. <<>> \in T
  <2>1. Octets(<<>>) = RegroupStart /\ Fives(<<>>) = RegroupStart /\ <<>> \in Seq(Five)
    BY OctetUnfold, FiveUnfold
  <2>2. RegroupStart.out = <<>> /\ RegroupStart.acc = 0 /\ RegroupStart.bits = 0
    BY DEF RegroupStart
  <2>3. Rest(0, 0, 0, 0, <<>>) /\ <<>> \in Seq(Nat) /\ <<>> = <<>> \o <<>>
    BY DEF Rest
  <2>4. Fits(<<>>, RegroupStart, RegroupStart)
    BY <2>2, <2>3, StartTyped, Zenon DEF Fits
  <2> QED
    BY <2>1, <2>2, <2>4, Zenon
<1>2. ASSUME NEW g \in Seq(Five), NEW v \in Five, g \in T
      PROVE  Append(g, v) \in T
  <2>1. Append(g, v) \in Seq(Five)
    BY AppendProperties
  <2> QED
    BY <1>2, <2>1, FitsStep, Zenon
<1>3. \A g \in Seq(Five) : g \in T
  <2> HIDE DEF T
  <2> QED BY <1>1, <1>2, SeqSetInduction
<1> QED
  BY <1>3

\* convertBits, of what its loops end with.
LEMMA OctetsConverted ==
    ASSUME NEW g
    PROVE  convertBits(g, 5, 8, FALSE) = IF \E i \in DOMAIN g : g[i] >= 2^5 THEN Invalid
                          ELSE IF Octets(g).bits >= 5 \/ (Octets(g).acc * 2^(8 - Octets(g).bits)) % 2^8 # 0 THEN Invalid
                          ELSE Octets(g).out
  BY DEF convertBits, Octets

LEMMA FivesConverted ==
    ASSUME NEW p
    PROVE  convertBits(p, 8, 5, TRUE) = IF \E i \in DOMAIN p : p[i] >= 2^8 THEN Invalid
                              ELSE IF Fives(p).bits > 0
                              THEN Append(Fives(p).out, (Fives(p).acc * 2^(5 - Fives(p).bits)) % 2^5)
                              ELSE Fives(p).out
  BY DEF convertBits, Fives

\* Bits that are 0 are the padding on the way back.
LEMMA NothingOver1 ==
    ASSUME NEW a \in Nat, NEW A \in Nat, NEW c, NEW rem, Rest(a, 1, A, c, rem),
           (a * 2^(8 - 1)) % 2^8 = 0
    PROVE  c = 4 /\ rem = <<(A * 2^(5 - c)) % 2^5>>
<1>1. c = 4 /\ rem = <<(A % 16) * 2 + (a % 2)>>
  BY DEF Rest
<1>2. 2^(8 - 1) = 128 /\ 2^8 = 256 /\ 2^(5 - 4) = 2 /\ 2^5 = 32
  <2>1. 8 - 1 = 7 /\ 5 - 4 = 1
    OBVIOUS
  <2>2. 2^7 = 128 /\ 2^8 = 256 /\ 2^1 = 2 /\ 2^5 = 32
    BY SMT
  <2> QED
    BY <2>1, <2>2
<1>3. (a * 128) % 256 = 0
  BY <1>2
<1>4. a % 2 = 0
  <2>1. PICK p \in Nat, f \in 0..1 : a = 2 * p + f /\ a % 2 = f
    BY a = 2 * (a \div 2) + (a % 2), a \div 2 \in Nat, a % 2 \in 0..1, SMT
  <2>2. (256 * p + f * 128) % 256 = f * 128
    BY <2>1, SMT
  <2>3. a * 128 = 256 * p + f * 128
    BY <2>1, SMT
  <2> QED
    BY <1>3, <2>1, <2>2, <2>3
<1>5. (A * 2) % 32 = (A % 16) * 2
  <2>1. PICK q \in Nat, h \in 0..15 : A = 16 * q + h /\ A % 16 = h
    BY A = 16 * (A \div 16) + (A % 16), A \div 16 \in Nat, A % 16 \in 0..15, SMT
  <2>2. (32 * q + h * 2) % 32 = h * 2
    BY <2>1, SMT
  <2>3. A * 2 = 32 * q + h * 2
    BY <2>1, SMT
  <2> QED
    BY <2>1, <2>2, <2>3
<1>6. (A % 16) * 2 + (a % 2) = (A * 2) % 32
  <2>1. (A * 2) % 32 \in Int
    OBVIOUS
  <2> QED
    BY <1>4, <1>5, <2>1
<1>7. (A * 2^(5 - c)) % 2^5 = (A * 2) % 32
  BY <1>1, <1>2
<1> QED
  BY <1>1, <1>6, <1>7

LEMMA NothingOver2 ==
    ASSUME NEW a \in Nat, NEW A \in Nat, NEW c, NEW rem, Rest(a, 2, A, c, rem),
           (a * 2^(8 - 2)) % 2^8 = 0
    PROVE  c = 3 /\ rem = <<(A * 2^(5 - c)) % 2^5>>
<1>1. c = 3 /\ rem = <<(A % 8) * 4 + (a % 4)>>
  BY DEF Rest
<1>2. 2^(8 - 2) = 64 /\ 2^8 = 256 /\ 2^(5 - 3) = 4 /\ 2^5 = 32
  <2>1. 8 - 2 = 6 /\ 5 - 3 = 2
    OBVIOUS
  <2>2. 2^6 = 64 /\ 2^8 = 256 /\ 2^2 = 4 /\ 2^5 = 32
    BY SMT
  <2> QED
    BY <2>1, <2>2
<1>3. (a * 64) % 256 = 0
  BY <1>2
<1>4. a % 4 = 0
  <2>1. PICK p \in Nat, f \in 0..3 : a = 4 * p + f /\ a % 4 = f
    BY a = 4 * (a \div 4) + (a % 4), a \div 4 \in Nat, a % 4 \in 0..3, SMT
  <2>2. (256 * p + f * 64) % 256 = f * 64
    BY <2>1, SMT
  <2>3. a * 64 = 256 * p + f * 64
    BY <2>1, SMT
  <2> QED
    BY <1>3, <2>1, <2>2, <2>3
<1>5. (A * 4) % 32 = (A % 8) * 4
  <2>1. PICK q \in Nat, h \in 0..7 : A = 8 * q + h /\ A % 8 = h
    BY A = 8 * (A \div 8) + (A % 8), A \div 8 \in Nat, A % 8 \in 0..7, SMT
  <2>2. (32 * q + h * 4) % 32 = h * 4
    BY <2>1, SMT
  <2>3. A * 4 = 32 * q + h * 4
    BY <2>1, SMT
  <2> QED
    BY <2>1, <2>2, <2>3
<1>6. (A % 8) * 4 + (a % 4) = (A * 4) % 32
  <2>1. (A * 4) % 32 \in Int
    OBVIOUS
  <2> QED
    BY <1>4, <1>5, <2>1
<1>7. (A * 2^(5 - c)) % 2^5 = (A * 4) % 32
  BY <1>1, <1>2
<1> QED
  BY <1>1, <1>6, <1>7

LEMMA NothingOver3 ==
    ASSUME NEW a \in Nat, NEW A \in Nat, NEW c, NEW rem, Rest(a, 3, A, c, rem),
           (a * 2^(8 - 3)) % 2^8 = 0
    PROVE  c = 2 /\ rem = <<(A * 2^(5 - c)) % 2^5>>
<1>1. c = 2 /\ rem = <<(A % 4) * 8 + (a % 8)>>
  BY DEF Rest
<1>2. 2^(8 - 3) = 32 /\ 2^8 = 256 /\ 2^(5 - 2) = 8 /\ 2^5 = 32
  <2>1. 8 - 3 = 5 /\ 5 - 2 = 3
    OBVIOUS
  <2>2. 2^5 = 32 /\ 2^8 = 256 /\ 2^3 = 8 /\ 2^5 = 32
    BY SMT
  <2> QED
    BY <2>1, <2>2
<1>3. (a * 32) % 256 = 0
  BY <1>2
<1>4. a % 8 = 0
  <2>1. PICK p \in Nat, f \in 0..7 : a = 8 * p + f /\ a % 8 = f
    BY a = 8 * (a \div 8) + (a % 8), a \div 8 \in Nat, a % 8 \in 0..7, SMT
  <2>2. (256 * p + f * 32) % 256 = f * 32
    BY <2>1, SMT
  <2>3. a * 32 = 256 * p + f * 32
    BY <2>1, SMT
  <2> QED
    BY <1>3, <2>1, <2>2, <2>3
<1>5. (A * 8) % 32 = (A % 4) * 8
  <2>1. PICK q \in Nat, h \in 0..3 : A = 4 * q + h /\ A % 4 = h
    BY A = 4 * (A \div 4) + (A % 4), A \div 4 \in Nat, A % 4 \in 0..3, SMT
  <2>2. (32 * q + h * 8) % 32 = h * 8
    BY <2>1, SMT
  <2>3. A * 8 = 32 * q + h * 8
    BY <2>1, SMT
  <2> QED
    BY <2>1, <2>2, <2>3
<1>6. (A % 4) * 8 + (a % 8) = (A * 8) % 32
  <2>1. (A * 8) % 32 \in Int
    OBVIOUS
  <2> QED
    BY <1>4, <1>5, <2>1
<1>7. (A * 2^(5 - c)) % 2^5 = (A * 8) % 32
  BY <1>1, <1>2
<1> QED
  BY <1>1, <1>6, <1>7

LEMMA NothingOver4 ==
    ASSUME NEW a \in Nat, NEW A \in Nat, NEW c, NEW rem, Rest(a, 4, A, c, rem),
           (a * 2^(8 - 4)) % 2^8 = 0
    PROVE  c = 1 /\ rem = <<(A * 2^(5 - c)) % 2^5>>
<1>1. c = 1 /\ rem = <<(A % 2) * 16 + (a % 16)>>
  BY DEF Rest
<1>2. 2^(8 - 4) = 16 /\ 2^8 = 256 /\ 2^(5 - 1) = 16 /\ 2^5 = 32
  <2>1. 8 - 4 = 4 /\ 5 - 1 = 4
    OBVIOUS
  <2>2. 2^4 = 16 /\ 2^8 = 256 /\ 2^4 = 16 /\ 2^5 = 32
    BY SMT
  <2> QED
    BY <2>1, <2>2
<1>3. (a * 16) % 256 = 0
  BY <1>2
<1>4. a % 16 = 0
  <2>1. PICK p \in Nat, f \in 0..15 : a = 16 * p + f /\ a % 16 = f
    BY a = 16 * (a \div 16) + (a % 16), a \div 16 \in Nat, a % 16 \in 0..15, SMT
  <2>2. (256 * p + f * 16) % 256 = f * 16
    BY <2>1, SMT
  <2>3. a * 16 = 256 * p + f * 16
    BY <2>1, SMT
  <2> QED
    BY <1>3, <2>1, <2>2, <2>3
<1>5. (A * 16) % 32 = (A % 2) * 16
  <2>1. PICK q \in Nat, h \in 0..1 : A = 2 * q + h /\ A % 2 = h
    BY A = 2 * (A \div 2) + (A % 2), A \div 2 \in Nat, A % 2 \in 0..1, SMT
  <2>2. (32 * q + h * 16) % 32 = h * 16
    BY <2>1, SMT
  <2>3. A * 16 = 32 * q + h * 16
    BY <2>1, SMT
  <2> QED
    BY <2>1, <2>2, <2>3
<1>6. (A % 2) * 16 + (a % 16) = (A * 16) % 32
  <2>1. (A * 16) % 32 \in Int
    OBVIOUS
  <2> QED
    BY <1>4, <1>5, <2>1
<1>7. (A * 2^(5 - c)) % 2^5 = (A * 16) % 32
  BY <1>1, <1>2
<1> QED
  BY <1>1, <1>6, <1>7

\* The bits that are left over are 0.
Clean(a, b) == (a * 2^(8 - b)) % 2^8 = 0

\* The bits that wait for a byte, on the way back, with bits that are 0.
Waiting(A, c) == (A * 2^(5 - c)) % 2^5

LEMMA NothingOver ==
    ASSUME NEW a \in Nat, NEW b \in 1..4, NEW A \in Nat, NEW c, NEW rem, Rest(a, b, A, c, rem),
           Clean(a, b)
    PROVE  c > 0 /\ rem = <<Waiting(A, c)>>
<1>1. b \in {1, 2, 3, 4}
  OBVIOUS
<1>2. CASE b = 1
  <2>1. Rest(a, 1, A, c, rem) /\ (a * 2^(8 - 1)) % 2^8 = 0
    BY <1>2 DEF Clean
  <2>2. c = 4 /\ rem = <<(A * 2^(5 - c)) % 2^5>>
    BY <2>1, NothingOver1
  <2>3. c > 0
    BY <2>2
  <2> QED
    BY <2>2, <2>3, Zenon DEF Waiting
<1>3. CASE b = 2
  <2>1. Rest(a, 2, A, c, rem) /\ (a * 2^(8 - 2)) % 2^8 = 0
    BY <1>3 DEF Clean
  <2>2. c = 3 /\ rem = <<(A * 2^(5 - c)) % 2^5>>
    BY <2>1, NothingOver2
  <2>3. c > 0
    BY <2>2
  <2> QED
    BY <2>2, <2>3, Zenon DEF Waiting
<1>4. CASE b = 3
  <2>1. Rest(a, 3, A, c, rem) /\ (a * 2^(8 - 3)) % 2^8 = 0
    BY <1>4 DEF Clean
  <2>2. c = 2 /\ rem = <<(A * 2^(5 - c)) % 2^5>>
    BY <2>1, NothingOver3
  <2>3. c > 0
    BY <2>2
  <2> QED
    BY <2>2, <2>3, Zenon DEF Waiting
<1>5. CASE b = 4
  <2>1. Rest(a, 4, A, c, rem) /\ (a * 2^(8 - 4)) % 2^8 = 0
    BY <1>5 DEF Clean
  <2>2. c = 1 /\ rem = <<(A * 2^(5 - c)) % 2^5>>
    BY <2>1, NothingOver4
  <2>3. c > 0
    BY <2>2
  <2> QED
    BY <2>2, <2>3, Zenon DEF Waiting
<1> QED
  BY <1>1, <1>2, <1>3, <1>4, <1>5, Zenon

LEMMA NothingWaits ==
    ASSUME NEW p \in Seq(Five), NEW x
    PROVE  Append(p, x) = p \o <<x>>
<1>1. <<x>> \in Seq({x})
  OBVIOUS
<1>2. p \in Seq(Five \cup {x}) /\ x \in Five \cup {x}
  OBVIOUS
<1> QED
  BY <1>2, AppendIsConcat

-----------------------------------------------------------------------------
(* What is written is read back *)

(***************************************************************************)
(* decode(encode(in)) is in, for bytes of any number and an int of 16 bits *)
(* or more: the bits that the accumulators keep, and the ones they lose,   *)
(* do not show (util::base64).                                             *)
(***************************************************************************)
THEOREM Base64ReadsBack == \A in \in Seq(Byte) : decode(encode(in)) = in
<1> SUFFICES ASSUME NEW in \in Seq(Byte) PROVE decode(encode(in)) = in
  OBVIOUS
<1>1. PICK t, k : t = encode(in) /\ k = TextLength(in)
  OBVIOUS
<1>2. /\ t \in Seq(Nat) /\ Len(t) \in Nat /\ k \in Nat /\ k <= Len(t)
      /\ \A i \in (k + 1)..Len(t) : t[i] = Pad
  BY <1>1, EncodeText, Zenon
<1>3. k = Len(t) \/ t[k + 1] >= 64
  <2>1. ASSUME k # Len(t)
        PROVE  t[k + 1] = Pad
    <3>1. k + 1 \in (k + 1)..Len(t)
      BY <1>2, <2>1
    <3> QED
      BY <1>2, <3>1
  <2> QED
    BY <2>1 DEF Pad
<1>4. Begins(t, in, k)
  BY <1>1, <1>2, <1>3 DEF Begins
<1>5. decode(t) = SubSeq(in, 1, (3 * k) \div 4)
  BY <1>4, DecodeReads
<1>6. (3 * k) \div 4 = Len(in)
  <2>1. \A n \in Nat : (3 * ((4 * n + 2) \div 3)) \div 4 = n
    BY SMT
  <2> QED
    BY <1>1, <2>1 DEF TextLength
<1> QED
  BY <1>1, <1>5, <1>6, SubSeqFull

(***************************************************************************)
(* The digits of bytes are read as these bytes, by both readers            *)
(* (util::hexToBytes, util::hexToString).                                  *)
(***************************************************************************)
THEOREM HexReadsBack ==
    \A x \in Seq(Byte) : hexToBytes(stringToHex(x)) = x /\ hexToString(stringToHex(x)) = x
<1> SUFFICES ASSUME NEW x \in Seq(Byte)
             PROVE  hexToBytes(stringToHex(x)) = x /\ hexToString(stringToHex(x)) = x
  OBVIOUS
<1>1. PICK h, n : h = stringToHex(x) /\ n = Len(x)
  OBVIOUS
<1>2. /\ h \in Seq(Byte) /\ Len(h) = 2 * n /\ n \in Nat
      /\ \A i \in 1..n : hexValue(h[2 * i - 1]) = x[i] \div 16 /\ hexValue(h[2 * i]) = x[i] % 16
  BY <1>1, HexDigits, Zenon
<1>3. hexToBytes(h) = x
  <2>1. h = SubSeq(h, 1, 2 * n) /\ 2 * n \in Nat /\ 2 * n <= 2 * Len(x) /\ (2 * n + 1) \div 2 = n
    BY <1>1, <1>2, SubSeqFull
  <2>2. /\ hexToBytes(h) \in Seq(Byte) /\ Len(hexToBytes(h)) = n
        /\ \A i \in 1..n : hexToBytes(h)[i] = IF 2 * i <= 2 * n THEN x[i] ELSE x[i] \div 16
    BY <1>1, <2>1, HexReads
  <2>3. \A i \in 1..n : hexToBytes(h)[i] = x[i]
    BY <1>2, <2>2
  <2> QED
    BY <1>1, <2>2, <2>3, SeqEqual
<1>4. hexToString(h) = x
  <2>1. ASSUME NEW j \in 1..(2 * n)
        PROVE  hexValue(h[j]) >= 0
    <3>1. PICK i \in 1..n : j = 2 * i - 1 \/ j = 2 * i
      <4>1. (j + 1) \div 2 \in 1..n
        BY <1>2
      <4>2. j = 2 * ((j + 1) \div 2) - 1 \/ j = 2 * ((j + 1) \div 2)
        BY <1>2
      <4> QED
        BY <4>1, <4>2
    <3>2. x[i] \in 0..255
      BY <1>1, ByteRange
    <3>3. x[i] \div 16 >= 0 /\ x[i] % 16 >= 0
      <4>1. \A c \in 0..255 : c \div 16 >= 0 /\ c % 16 >= 0
        BY SMT
      <4> QED
        BY <3>2, <4>1, Zenon
    <3> QED
      BY <1>2, <3>1, <3>3
  <2>2. ~(Len(h) % 2 = 1 \/ \E i \in DOMAIN h : hexValue(h[i]) < 0)
    <3>1. DOMAIN h = 1..(2 * n) /\ Len(h) % 2 = 0
      BY <1>2
    <3>2. ASSUME NEW j \in 1..(2 * n)
          PROVE  ~(hexValue(h[j]) < 0)
      <4>1. hexValue(h[j]) >= 0 /\ hexValue(h[j]) \in Int
        <5>1. \A c \in Byte : hexValue(c) \in Int
          BY DEF hexValue, Byte
        <5>2. h[j] \in Byte
          BY <1>2
        <5> QED
          BY <2>1, <5>1, <5>2, Zenon
      <4> QED
        BY <4>1
    <3> QED
      BY <3>1, <3>2
  <2>3. hexToString(h) = [i \in 1..n |-> 16 * hexValue(h[2 * i - 1]) + hexValue(h[2 * i])]
    <3>1. Len(h) \div 2 = n
      BY <1>2
    <3> QED
      BY <2>2, <3>1, Zenon DEF hexToString
  <2>4. ASSUME NEW i \in 1..n
        PROVE  16 * hexValue(h[2 * i - 1]) + hexValue(h[2 * i]) = x[i]
    <3>1. x[i] \in 0..255
      BY <1>1, ByteRange
    <3>2. 16 * (x[i] \div 16) + (x[i] % 16) = x[i]
      BY <3>1, HalfBytes, Zenon
    <3> QED
      BY <1>2, <3>2, Zenon
  <2>5. hexToString(h) = [i \in 1..n |-> x[i]]
    BY <2>3, <2>4, Zenon
  <2>6. x = [i \in 1..n |-> x[i]]
    BY <1>1
  <2> QED
    BY <2>5, <2>6
<1> QED
  BY <1>1, <1>3, <1>4

(***************************************************************************)
(* Groups of five bits that come to bytes, with nothing left over but      *)
(* bits that are 0, are those the bytes come to, for any number of them    *)
(* (util::convertBits).                                                    *)
(***************************************************************************)
THEOREM GroupsReadBack ==
    ASSUME NEW g \in Seq(Byte), convertBits(g, 5, 8, FALSE) # Invalid
    PROVE  convertBits(g, 5, 8, FALSE) \in Seq(Byte) /\ convertBits(convertBits(g, 5, 8, FALSE), 8, 5, TRUE) = g
<1>1. PICK s, k : s = Octets(g) /\ k = Fives(s.out)
  OBVIOUS
<1>2. /\ ~(\E i \in DOMAIN g : g[i] >= 2^5)
      /\ ~(s.bits >= 5) /\ (s.acc * 2^(8 - s.bits)) % 2^8 = 0
      /\ convertBits(g, 5, 8, FALSE) = s.out
  BY <1>1, OctetsConverted, Zenon
<1>3. g \in Seq(Five)
  <2>1. \A i \in 1..Len(g) : g[i] \in Byte /\ ~(g[i] >= 2^5)
    BY <1>2
  <2>2. 2^5 = 32
    BY SMT
  <2>3. \A x \in Byte : ~(x >= 32) => x \in Five
    BY DEF Byte, Five
  <2>4. \A i \in 1..Len(g) : g[i] \in Five
    BY <2>1, <2>2, <2>3, Zenon
  <2> QED
    BY <2>4
<1>4. Fits(g, s, k)
  BY <1>1, <1>3, FitsLoop, Zenon
<1>5. /\ s.acc \in Nat /\ s.bits \in 0..7 /\ s.out \in Seq(Byte)
      /\ k.acc \in Nat /\ k.bits \in 0..4 /\ k.out \in Seq(Five)
  BY <1>4 DEF Fits, OctetState, FiveState
<1>6. PICK rem \in Seq(Nat) : Rest(s.acc, s.bits, k.acc, k.bits, rem) /\ g = k.out \o rem
  BY <1>4 DEF Fits
<1>7. ~(\E i \in DOMAIN s.out : s.out[i] >= 2^8)
  <2>1. \A i \in DOMAIN s.out : s.out[i] \in Byte
    BY <1>5
  <2>2. 2^8 = 256
    BY SMT
  <2>3. \A x \in Byte : ~(x >= 2^8)
    BY <2>2 DEF Byte
  <2> QED
    BY <2>1, <2>3, Zenon
<1>8. convertBits(s.out, 8, 5, TRUE) = IF k.bits > 0 THEN Append(k.out, (k.acc * 2^(5 - k.bits)) % 2^5) ELSE k.out
  BY <1>1, <1>7, FivesConverted, Zenon
<1>9. convertBits(s.out, 8, 5, TRUE) = g
  <2>1. CASE s.bits = 0
    <3>1. k.bits = 0 /\ rem = <<>>
      BY <1>6, <2>1 DEF Rest
    <3>2. ~(k.bits > 0)
      BY <3>1
    <3>3. k.out \o <<>> = k.out
      BY <1>5, ConcatEmptySeq
    <3> QED
      BY <1>6, <1>8, <3>1, <3>2, <3>3, Zenon
  <2>2. CASE s.bits # 0
    <3>1. s.bits \in 1..4
      BY <1>2, <1>5, <2>2
    <3>2. k.bits > 0 /\ rem = <<Waiting(k.acc, k.bits)>>
      <4>1. Clean(s.acc, s.bits)
        BY <1>2, Zenon DEF Clean
      <4> QED
        BY <1>5, <1>6, <3>1, <4>1, NothingOver, Zenon
    <3>3. PICK x : x = Waiting(k.acc, k.bits)
      OBVIOUS
    <3>4. Append(k.out, x) = k.out \o <<x>>
      BY <1>5, <3>3, NothingWaits, Zenon
    <3> QED
      BY <1>6, <1>8, <3>2, <3>3, <3>4, Zenon DEF Waiting
  <2> QED
    BY <2>1, <2>2
<1> QED
  BY <1>2, <1>5, <1>9, Zenon
=============================================================================
