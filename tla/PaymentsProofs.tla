---------------------------- MODULE PaymentsProofs ----------------------------
(***************************************************************************)
(* Amounts and payloads of any length: amounts are exact, what is shown of *)
(* them reads back, and the network reads every payload as it was ordered. *)
(***************************************************************************)
EXTENDS Payments, DataInduction, FiniteSetTheorems

-----------------------------------------------------------------------------
(* The number of a text *)

ValueStep == [n \in Nat |-> [c \in Digit |-> 10 * n + (c - Zero)]]

LEMMA DigitRange == ASSUME NEW c \in Digit PROVE c - Zero \in 0..9 /\ c \in 48..57
  BY DEF Digit, Zero

LEMMA ValueStepType == ValueStep \in [Nat -> [Digit -> Nat]]
  BY DigitRange DEF ValueStep

LEMMA ValueFold ==
    ASSUME NEW t \in Seq(Digit)
    PROVE  \E v : Folds(v, Digit, Nat, 0, ValueStep, t) /\ Value(t) = v[Len(t)]
<1> DEFINE Rhs(v) == [n \in 0..Len(t) |-> IF n = 0 THEN 0 ELSE 10 * v[n - 1] + (t[n] - Zero)]
<1>0. Len(t) \in Nat /\ \A n \in 1..Len(t) : t[n] \in Digit
  OBVIOUS
<1>1. PICK f : Folds(f, Digit, Nat, 0, ValueStep, t)
  BY ValueStepType, FoldExists
<1>2. f = Rhs(f)
  <2>1. f \in [0..Len(t) -> Nat] /\ f[0] = 0
    BY <1>1 DEF Folds
  <2>2. ASSUME NEW n \in 1..Len(t)
        PROVE  f[n] = 10 * f[n - 1] + (t[n] - Zero)
    <3>1. f[n] = ValueStep[f[n - 1]][t[n]]
      BY <1>1 DEF Folds
    <3>2. f[n - 1] \in Nat /\ t[n] \in Digit
      BY <1>0, <2>1
    <3> QED
      BY <3>1, <3>2 DEF ValueStep
  <2> QED
    BY <1>0, <2>1, <2>2
<1> DEFINE v == CHOOSE g : g = Rhs(g)
<1>3. v = Rhs(v)
  BY <1>2
<1>4. Value(t) = v[Len(t)]
  BY DEF Value
<1> HIDE DEF v
<1>5. Folds(v, Digit, Nat, 0, ValueStep, t)
  <2>1. Over(v, 0..Len(t)) /\ v[0] = 0
    BY <1>0, <1>3 DEF Over
  <2>2. ASSUME NEW n \in 1..Len(t), v[n - 1] \in Nat
        PROVE  v[n] = ValueStep[v[n - 1]][t[n]]
    <3>1. v[n] = 10 * v[n - 1] + (t[n] - Zero)
      BY <1>0, <1>3
    <3>2. \A m \in Nat, c \in Digit : ValueStep[m][c] = 10 * m + (c - Zero)
      BY DEF ValueStep
    <3> QED
      BY <1>0, <2>2, <3>1, <3>2
  <2> QED
    BY <2>1, <2>2, ValueStepType, FoldEquations
<1> QED
  BY <1>4, <1>5

(***************************************************************************)
(* A decimal text is read from the left.                                   *)
(***************************************************************************)
LEMMA ValueUnfold ==
    /\ Value(<<>>) = 0
    /\ \A t \in Seq(Digit) :
          /\ Value(t) \in Nat
          /\ \A c \in Digit : Value(Append(t, c)) = 10 * Value(t) + (c - Zero)
<1>1. Value(<<>>) = 0
  BY <<>> \in Seq(Digit), ValueFold DEF Folds
<1>2. ASSUME NEW t \in Seq(Digit), NEW c \in Digit
      PROVE  Value(t) \in Nat /\ Value(Append(t, c)) = 10 * Value(t) + (c - Zero)
  <2>1. PICK f : Folds(f, Digit, Nat, 0, ValueStep, t) /\ Value(t) = f[Len(t)]
    BY ValueFold
  <2>2. PICK g : /\ Folds(g, Digit, Nat, 0, ValueStep, Append(t, c))
                 /\ Value(Append(t, c)) = g[Len(Append(t, c))]
    BY Append(t, c) \in Seq(Digit), ValueFold
  <2>3. Folds(f, Digit, Nat, 0, ValueStep, t) /\ Folds(g, Digit, Nat, 0, ValueStep, Append(t, c))
    BY <2>1, <2>2
  <2>4. f[Len(t)] \in Nat /\ g[Len(Append(t, c))] = ValueStep[f[Len(t)]][c]
    BY <2>3, FoldAppend
  <2> QED
    BY <2>1, <2>2, <2>4 DEF ValueStep
<1> QED
  BY <1>1, <1>2, Zero \in Digit DEF Digit, Zero
-----------------------------------------------------------------------------
(* The digits of a number *)

(***************************************************************************)
(* A number below the base is its own digit, and the last digit of another *)
(* one is what the rest of its digits leave of it.                         *)
(***************************************************************************)
LEMMA DigitsUnfold ==
    ASSUME NEW base \in {10, 16}, NEW n \in Nat
    PROVE  /\ DigitsOf(n, base) = IF n < base THEN <<n>>
                                  ELSE Append(DigitsOf(n \div base, base), n % base)
           /\ n >= base => n \div base \in 1..(n - 1)
           /\ n % base \in 0..(base - 1)
           /\ n = base * (n \div base) + (n % base)
<1> DEFINE Rhs(d) == [k \in Nat |-> IF k < base THEN <<k>> ELSE Append(d[k \div base], k % base)]
           V == Seq(Nat)
           first == [k \in Nat |-> <<k>>]
           prev == [k \in Nat |-> k \div base]
           step == [k \in Nat |-> [v \in V |-> Append(v, k % base)]]
<1>1. ASSUME NEW k \in Nat
      PROVE  /\ k \div base \in Nat /\ k % base \in 0..(base - 1)
             /\ k = base * (k \div base) + (k % base)
             /\ k >= base => k \div base \in 1..(k - 1)
  <2>1. CASE base = 10
    BY <2>1
  <2>2. CASE base = 16
    BY <2>2
  <2> QED
    BY <2>1, <2>2
<1>2. /\ first \in [Nat -> V] /\ prev \in [Nat -> Nat]
      /\ \A k \in Nat : k >= base => prev[k] < k
  BY <1>1
<1>3. step \in [Nat -> [V -> V]]
  <2>1. \A k \in Nat, v \in V : Append(v, k % base) \in V
    BY <1>1
  <2> QED
    BY <2>1
<1>4. PICK f : Recurs(f, V, base, first, prev, step)
  <2> HIDE DEF first, prev, step, V
  <2> QED BY <1>2, <1>3, RecursionExists
<1>5. f = Rhs(f)
  <2>1. f \in [Nat -> V]
    BY <1>4 DEF Recurs
  <2>2. ASSUME NEW k \in Nat
        PROVE  f[k] = IF k < base THEN <<k>> ELSE Append(f[k \div base], k % base)
    <3>1. f[k] = IF k < base THEN first[k] ELSE step[k][f[prev[k]]]
      <4> HIDE DEF first, prev, step, V
      <4> QED BY <1>4 DEF Recurs
    <3>2. f[k \div base] \in V
      BY <1>1, <2>1
    <3> QED
      BY <3>1, <3>2
  <2> QED
    BY <2>1, <2>2
<1> DEFINE d == CHOOSE g : g = Rhs(g)
<1>6. d = Rhs(d)
  BY <1>5
<1>7. \A k \in Nat : DigitsOf(k, base) = d[k]
  BY DEF DigitsOf
<1> HIDE DEF d
<1>8. d[n] = IF n < base THEN <<n>> ELSE Append(d[n \div base], n % base)
  BY <1>6
<1> QED
  BY <1>1, <1>7, <1>8

LEMMA Single ==
    ASSUME NEW S, NEW e \in S
    PROVE  <<e>> \in Seq(S) /\ Len(<<e>>) = 1 /\ <<e>>[1] = e
  OBVIOUS

LEMMA DigitsType ==
    ASSUME NEW base \in {10, 16}
    PROVE  \A n \in Nat : /\ DigitsOf(n, base) \in Seq(0..(base - 1))
                          /\ Len(DigitsOf(n, base)) >= 1
<1> DEFINE T == {n \in Nat : /\ DigitsOf(n, base) \in Seq(0..(base - 1))
                             /\ Len(DigitsOf(n, base)) >= 1}
<1>1. ASSUME NEW n \in Nat, \A m \in 0..(n - 1) : m \in T
      PROVE  n \in T
  <2>1. CASE n < base
    <3>1. DigitsOf(n, base) = <<n>> /\ n \in 0..(base - 1)
      BY <2>1, DigitsUnfold
    <3> DEFINE w == <<n>>
    <3>2. w \in Seq(0..(base - 1)) /\ Len(w) = 1
      BY <3>1, Single
    <3>3. DigitsOf(n, base) = w
      BY <3>1
    <3> HIDE DEF w
    <3> QED
      BY <3>2, <3>3
  <2>2. CASE ~(n < base)
    <3> DEFINE m == n \div base
               c == n % base
    <3>0. /\ DigitsOf(n, base) = IF n < base THEN <<n>> ELSE Append(DigitsOf(m, base), c)
          /\ n >= base => m \in 1..(n - 1)
          /\ c \in 0..(base - 1)
      BY DigitsUnfold
    <3> HIDE DEF m, c
    <3>1. m \in 0..(n - 1) /\ c \in 0..(base - 1) /\ DigitsOf(n, base) = Append(DigitsOf(m, base), c)
      BY <2>2, <3>0
    <3>2. DigitsOf(m, base) \in Seq(0..(base - 1)) /\ Len(DigitsOf(m, base)) >= 1
      BY <1>1, <3>1
    <3>3. Append(DigitsOf(m, base), c) \in Seq(0..(base - 1)) /\ Len(Append(DigitsOf(m, base), c)) >= 1
      BY <3>1, <3>2, AppendProperties
    <3> QED
      BY <3>1, <3>3
  <2> QED
    BY <2>1, <2>2
<1>2. \A n \in Nat : n \in T
  <2> HIDE DEF T
  <2> QED BY <1>1, NatSetStrongInduction
<1> QED
  BY <1>2

Mapped(g, s) == [i \in DOMAIN s |-> g[s[i]]]

(***************************************************************************)
(* The characters of a longer sequence of digits.                          *)
(***************************************************************************)
LEMMA MapAppend ==
    ASSUME NEW S, NEW V, NEW g \in [S -> V], NEW s \in Seq(S), NEW c \in S
    PROVE  Mapped(g, Append(s, c)) = Append(Mapped(g, s), g[c])
<1> DEFINE t == [i \in DOMAIN s |-> g[s[i]]]
           l == [i \in DOMAIN Append(s, c) |-> g[Append(s, c)[i]]]
           r == Append(t, g[c])
<1>1. t \in Seq(V) /\ Len(t) = Len(s) /\ Len(s) \in Nat /\ DOMAIN s = 1..Len(s)
  OBVIOUS
<1>2. /\ Append(s, c) \in Seq(S) /\ Len(Append(s, c)) = Len(s) + 1
      /\ \A i \in 1..(Len(s) + 1) : Append(s, c)[i] = IF i = Len(s) + 1 THEN c ELSE s[i]
  BY AppendProperties
<1>3. DOMAIN Append(s, c) = 1..(Len(s) + 1)
  BY <1>1, <1>2
<1>4. l \in Seq(V) /\ Len(l) = Len(s) + 1
  BY <1>1, <1>2, <1>3
<1>5. /\ r \in Seq(V) /\ Len(r) = Len(s) + 1
      /\ \A i \in 1..(Len(s) + 1) : r[i] = IF i = Len(s) + 1 THEN g[c] ELSE t[i]
  <2> HIDE DEF t
  <2> QED BY <1>1, AppendProperties
<1>6. \A i \in 1..(Len(s) + 1) : l[i] = r[i]
  <2>1. \A i \in 1..(Len(s) + 1) : l[i] = g[IF i = Len(s) + 1 THEN c ELSE s[i]]
    BY <1>1, <1>2, <1>3
  <2>2. \A i \in 1..Len(s) : t[i] = g[s[i]]
    BY <1>1
  <2> HIDE DEF l, r, t
  <2> QED BY <1>1, <1>5, <2>1, <2>2
<1> HIDE DEF l, r
<1>7. l = r
  BY <1>4, <1>5, <1>6, SeqEqual
<1> QED
  BY <1>7 DEF l, r, Mapped

DecimalDigit == [d \in 0..9 |-> Zero + d]
HexCharacter == [d \in 0..15 |-> HexDigit(d)]

LEMMA DecimalUnfold ==
    ASSUME NEW n \in Nat
    PROVE  Decimal(n) = IF n < 10 THEN <<Zero + n>>
                        ELSE Append(Decimal(n \div 10), Zero + (n % 10))
<1> DEFINE d == DigitsOf(n, 10)
<1>1. CASE n < 10
  <2>1. d = <<n>>
    BY <1>1, DigitsUnfold
  <2> QED
    BY <1>1, <2>1 DEF Decimal
<1>2. CASE ~(n < 10)
  <2> DEFINE m == n \div 10
             e == DigitsOf(m, 10)
             c == n % 10
  <2>0. /\ d = IF n < 10 THEN <<n>> ELSE Append(e, c)
        /\ n >= 10 => m \in 1..(n - 1)
        /\ c \in 0..9
    BY 10 \in {10, 16}, 10 - 1 = 9, DigitsUnfold, Zenon
  <2>1. m \in Nat /\ c \in 0..9 /\ d = Append(e, c)
    BY <1>2, <2>0
  <2>2. e \in Seq(0..9)
    BY <2>1, DigitsType
  <2> HIDE DEF d, e, c
  <2>3. Append(e, c) \in Seq(0..9)
    BY <2>1, <2>2, AppendProperties
  <2>4. Mapped(DecimalDigit, Append(e, c)) = Append(Mapped(DecimalDigit, e), DecimalDigit[c])
    <3>1. DecimalDigit \in [0..9 -> Nat]
      BY DEF DecimalDigit, Zero
    <3> QED
      BY <2>1, <2>2, <3>1, MapAppend
  <2>5. ASSUME NEW t \in Seq(0..9)
        PROVE  Mapped(DecimalDigit, t) = [i \in DOMAIN t |-> Zero + t[i]]
    BY DEF Mapped, DecimalDigit
  <2>6. Decimal(n) = Mapped(DecimalDigit, d) /\ Decimal(m) = Mapped(DecimalDigit, e)
    BY <2>1, <2>2, <2>3, <2>5 DEF Decimal, d, e
  <2>7. DecimalDigit[c] = Zero + c
    BY <2>1 DEF DecimalDigit
  <2> QED
    BY <1>2, <2>1, <2>4, <2>6, <2>7 DEF c
<1> QED
  BY <1>1, <1>2

LEMMA HexUnfold ==
    ASSUME NEW n \in Nat
    PROVE  Hex(n) = IF n < 16 THEN <<HexDigit(n)>>
                    ELSE Append(Hex(n \div 16), HexDigit(n % 16))
<1> DEFINE d == DigitsOf(n, 16)
<1>1. CASE n < 16
  <2>1. d = <<n>>
    BY <1>1, DigitsUnfold
  <2> QED
    BY <1>1, <2>1 DEF Hex
<1>2. CASE ~(n < 16)
  <2> DEFINE m == n \div 16
             e == DigitsOf(m, 16)
             c == n % 16
  <2>0. /\ d = IF n < 16 THEN <<n>> ELSE Append(e, c)
        /\ n >= 16 => m \in 1..(n - 1)
        /\ c \in 0..15
    BY 16 \in {10, 16}, 16 - 1 = 15, DigitsUnfold, Zenon
  <2>1. m \in Nat /\ c \in 0..15 /\ d = Append(e, c)
    BY <1>2, <2>0
  <2>2. e \in Seq(0..15)
    BY <2>1, DigitsType
  <2> HIDE DEF d, e, c
  <2>3. Append(e, c) \in Seq(0..15)
    BY <2>1, <2>2, AppendProperties
  <2>4. Mapped(HexCharacter, Append(e, c)) = Append(Mapped(HexCharacter, e), HexCharacter[c])
    <3>1. HexCharacter \in [0..15 -> Nat]
      BY DEF HexCharacter, HexDigit, Zero
    <3> QED
      BY <2>1, <2>2, <3>1, MapAppend
  <2>5. ASSUME NEW t \in Seq(0..15)
        PROVE  Mapped(HexCharacter, t) = [i \in DOMAIN t |-> HexDigit(t[i])]
    BY DEF Mapped, HexCharacter
  <2>6. Hex(n) = Mapped(HexCharacter, d) /\ Hex(m) = Mapped(HexCharacter, e)
    BY <2>1, <2>2, <2>3, <2>5 DEF Hex, d, e
  <2>7. HexCharacter[c] = HexDigit(c)
    BY <2>1 DEF HexCharacter
  <2> QED
    BY <1>2, <2>1, <2>4, <2>6, <2>7 DEF c
<1> QED
  BY <1>1, <1>2

(***************************************************************************)
(* What a number is written as is read as that number, and does not begin  *)
(* with a zero before another digit.                                       *)
(***************************************************************************)
LEMMA DecimalReadsBack ==
    \A n \in Nat : /\ Decimal(n) \in Seq(Digit)
                   /\ Len(Decimal(n)) >= 1
                   /\ Value(Decimal(n)) = n
                   /\ n >= 1 => Decimal(n)[1] # Zero
                   /\ n < 10 => Len(Decimal(n)) = 1
<1> DEFINE Good(n) == /\ Decimal(n) \in Seq(Digit)
                      /\ Len(Decimal(n)) >= 1
                      /\ Value(Decimal(n)) = n
                      /\ n >= 1 => Decimal(n)[1] # Zero
                      /\ n < 10 => Len(Decimal(n)) = 1
           T == {n \in Nat : Good(n)}
<1>1. ASSUME NEW n \in Nat, \A m \in 0..(n - 1) : m \in T
      PROVE  Good(n)
  <2>1. CASE n < 10
    <3> DEFINE w == <<Zero + n>>
    <3>1. Zero + n \in Digit /\ Zero \in Nat /\ (Zero + n) - Zero = n
      BY <2>1 DEF Digit, Zero
    <3>2. w \in Seq(Digit) /\ Len(w) = 1 /\ w[1] = Zero + n
      BY <3>1, Single
    <3>3. w = Append(<<>>, Zero + n) /\ <<>> \in Seq(Digit)
      OBVIOUS
    <3> HIDE DEF w
    <3>4. Value(w) = n
      <4>1. Value(Append(<<>>, Zero + n)) = 10 * Value(<<>>) + ((Zero + n) - Zero)
        BY <3>1, <3>3, ValueUnfold, Zenon
      <4>2. Value(<<>>) = 0
        BY ValueUnfold
      <4> QED
        BY <3>1, <3>3, <4>1, <4>2
    <3>5. Decimal(n) = w
      BY <2>1, DecimalUnfold DEF w
    <3> QED
      BY <3>1, <3>2, <3>4, <3>5
  <2>2. CASE ~(n < 10)
    <3> DEFINE m == n \div 10
               c == n % 10
               x == Decimal(m)
    <3>1. /\ m \in 1..(n - 1) /\ m \in Nat
          /\ c \in 0..9
          /\ n = 10 * m + c
      BY <2>2
    <3>2. Decimal(n) = Append(x, Zero + c)
      BY <2>2, DecimalUnfold
    <3>3. Good(m)
      BY <1>1, <3>1
    <3> HIDE DEF m, c
    <3>4. x \in Seq(Digit) /\ Len(x) \in Nat /\ Len(x) >= 1 /\ Value(x) = m /\ x[1] # Zero
      BY <3>1, <3>3
    <3>5. Zero + c \in Digit /\ (Zero + c) - Zero = c
      BY <3>1 DEF Digit, Zero
    <3> HIDE DEF x
    <3>6. /\ Append(x, Zero + c) \in Seq(Digit)
          /\ Len(Append(x, Zero + c)) = Len(x) + 1
          /\ Append(x, Zero + c)[1] = x[1]
      BY <3>4, <3>5, AppendProperties
    <3>7. Value(Append(x, Zero + c)) = n
      BY <3>1, <3>4, <3>5, ValueUnfold
    <3> QED
      BY <2>2, <3>2, <3>4, <3>6, <3>7
  <2> QED
    BY <2>1, <2>2
<1>2. \A n \in Nat : n \in T
  <2>1. ASSUME NEW n \in Nat, \A m \in 0..(n - 1) : m \in T
        PROVE  n \in T
    BY <1>1, <2>1
  <2> HIDE DEF T
  <2> QED BY <2>1, NatSetStrongInduction
<1> QED
  BY <1>2

-----------------------------------------------------------------------------
(* Powers of ten *)

LEMMA TenToUnfold ==
    \A k \in Nat : /\ TenTo[k] \in Nat \ {0}
                   /\ TenTo[0] = 1
                   /\ TenTo[k + 1] = 10 * TenTo[k]
<1> DEFINE Rhs(f) == [k \in Nat |-> IF k = 0 THEN 1 ELSE 10 * f[k - 1]]
           b == 1
           first == [k \in Nat |-> 1]
           prev == [k \in Nat |-> IF k = 0 THEN 0 ELSE k - 1]
           step == [k \in Nat |-> [v \in Nat |-> 10 * v]]
<1>1. /\ b \in Nat /\ first \in [Nat -> Nat] /\ prev \in [Nat -> Nat]
      /\ step \in [Nat -> [Nat -> Nat]]
      /\ \A k \in Nat : k >= b => prev[k] < k
  OBVIOUS
<1>2. PICK f : Recurs(f, Nat, b, first, prev, step)
  <2> HIDE DEF b, first, prev, step
  <2> QED BY <1>1, RecursionExists
<1>3. f = Rhs(f)
  <2>1. f \in [Nat -> Nat]
    BY <1>2 DEF Recurs
  <2>2. ASSUME NEW k \in Nat
        PROVE  f[k] = IF k = 0 THEN 1 ELSE 10 * f[k - 1]
    <3>1. f[k] = IF k < b THEN first[k] ELSE step[k][f[prev[k]]]
      <4> HIDE DEF b, first, prev, step
      <4> QED BY <1>2 DEF Recurs
    <3>2. k # 0 => f[k - 1] \in Nat
      BY <2>1
    <3> QED
      BY <3>1, <3>2
  <2> QED
    BY <2>1, <2>2
<1>4. TenTo = Rhs(TenTo)
  BY <1>3 DEF TenTo
<1>5. TenTo[0] = 1 /\ \A k \in Nat : TenTo[k + 1] = 10 * TenTo[k]
  BY <1>4
<1> DEFINE T == {k \in Nat : TenTo[k] \in Nat \ {0}}
<1>6. 0 \in T /\ \A k \in Nat : k \in T => k + 1 \in T
  BY <1>5
<1>7. \A k \in Nat : k \in T
  <2> HIDE DEF T
  <2> QED BY <1>6, NatSetInduction
<1> QED
  BY <1>5, <1>7

(***************************************************************************)
(* The number of a text that is followed by another one.                   *)
(***************************************************************************)
LEMMA ValueConcat ==
    \A s \in Seq(Digit), t \in Seq(Digit) :
       /\ Value(t) < TenTo[Len(t)]
       /\ Value(s \o t) = Value(s) * TenTo[Len(t)] + Value(t)
<1> DEFINE Good(t) == /\ Value(t) < TenTo[Len(t)]
                      /\ \A s \in Seq(Digit) :
                            Value(s \o t) = Value(s) * TenTo[Len(t)] + Value(t)
           T == {t \in Seq(Digit) : Good(t)}
<1>1. <<>> \in T
  <2>1. \A s \in Seq(Digit) : s \o <<>> = s /\ Value(s) \in Nat
    BY ValueUnfold, ConcatEmptySeq
  <2>2. TenTo[Len(<<>>)] = 1 /\ Value(<<>>) = 0
    BY ValueUnfold, TenToUnfold
  <2> QED
    BY <2>1, <2>2
<1>2. ASSUME NEW t \in Seq(Digit), NEW c \in Digit, t \in T
      PROVE  Append(t, c) \in T
  <2> DEFINE u == Append(t, c)
             p == TenTo[Len(t)]
             d == c - Zero
  <2>1. u \in Seq(Digit) /\ Len(u) = Len(t) + 1 /\ Len(t) \in Nat
    BY AppendProperties
  <2>2. TenTo[Len(u)] = 10 * p /\ p \in Nat
    BY <2>1, TenToUnfold
  <2>3. Value(u) = 10 * Value(t) + d /\ d \in 0..9 /\ Value(t) \in Nat
    BY ValueUnfold, DigitRange
  <2>4. Value(t) < p
    BY <1>2
  <2>5. Value(u) < 10 * p
    <3> HIDE DEF p, d, u
    <3> QED BY <2>2, <2>3, <2>4
  <2>6. ASSUME NEW s \in Seq(Digit)
        PROVE  Value(s \o u) = Value(s) * (10 * p) + Value(u)
    <3> DEFINE x == s \o t
    <3>1. s \o u = Append(x, c)
      BY AppendIsConcat, ConcatAssociative, <<c>> \in Seq(Digit), ConcatProperties
    <3>2. Value(x) = Value(s) * p + Value(t) /\ x \in Seq(Digit)
      BY <1>2, ConcatProperties
    <3> HIDE DEF x
    <3>3. Value(Append(x, c)) = 10 * Value(x) + d
      BY <3>2, ValueUnfold
    <3>4. Value(s) \in Nat /\ Value(x) \in Nat
      BY <3>2, ValueUnfold
    <3> HIDE DEF p, d, u
    <3>5. \A a, e, f \in Nat : 10 * (a * p + e) + d = a * (10 * p) + (10 * e + d)
      BY <2>2, <2>3
    <3> QED
      BY <2>3, <3>1, <3>2, <3>3, <3>4, <3>5
  <2> QED
    BY <2>1, <2>2, <2>5, <2>6
<1>3. \A t \in Seq(Digit) : t \in T
  <2> HIDE DEF T
  <2> QED BY <1>1, <1>2, SeqSetInduction
<1> QED
  BY <1>3

LEMMA TenToSum == \A i \in Nat, j \in Nat : TenTo[i + j] = TenTo[i] * TenTo[j]
<1> DEFINE T == {j \in Nat : \A i \in Nat : TenTo[i + j] = TenTo[i] * TenTo[j]}
<1>1. 0 \in T
  BY TenToUnfold
<1>2. ASSUME NEW j \in Nat, j \in T
      PROVE  j + 1 \in T
  <2> SUFFICES ASSUME NEW i \in Nat
               PROVE  TenTo[i + (j + 1)] = TenTo[i] * TenTo[j + 1]
    OBVIOUS
  <2>1. TenTo[i + (j + 1)] = 10 * TenTo[i + j] /\ TenTo[j + 1] = 10 * TenTo[j]
    BY TenToUnfold
  <2>2. TenTo[i + j] = TenTo[i] * TenTo[j]
    BY <1>2
  <2>3. TenTo[i] \in Nat /\ TenTo[j] \in Nat
    BY TenToUnfold
  <2>4. \A a, b \in Nat : 10 * (a * b) = a * (10 * b)
    OBVIOUS
  <2> QED
    BY <2>1, <2>2, <2>3, <2>4
<1>3. \A j \in Nat : j \in T
  <2> HIDE DEF T
  <2> QED BY <1>1, <1>2, NatSetInduction
<1> QED
  BY <1>3

LEMMA ZeroesValue ==
    \A k \in Nat : Zeroes(k) \in Seq(Digit) /\ Len(Zeroes(k)) = k /\ Value(Zeroes(k)) = 0
<1>1. \A k \in Nat : Zeroes(k) \in Seq(Digit) /\ Len(Zeroes(k)) = k
  BY DEF Zeroes, Digit, Zero
<1> DEFINE T == {k \in Nat : Value(Zeroes(k)) = 0}
<1>2. 0 \in T
  <2>1. Zeroes(0) = <<>>
    BY DEF Zeroes
  <2> QED
    BY <2>1, ValueUnfold
<1>3. ASSUME NEW k \in Nat, k \in T
      PROVE  k + 1 \in T
  <2>1. Zeroes(k + 1) = Append(Zeroes(k), Zero)
    BY DEF Zeroes
  <2>2. Zero \in Digit /\ Zero - Zero = 0
    BY DEF Digit, Zero
  <2>3. Value(Append(Zeroes(k), Zero)) = 10 * Value(Zeroes(k)) + (Zero - Zero)
    BY <1>1, <2>2, ValueUnfold
  <2>4. Value(Zeroes(k)) = 0
    BY <1>3
  <2>5. Value(Zeroes(k + 1)) = 10 * 0 + 0
    BY <2>1, <2>2, <2>3, <2>4, Zenon
  <2> QED
    BY <2>5
<1>4. \A k \in Nat : k \in T
  <2> HIDE DEF T
  <2> QED BY <1>2, <1>3, NatSetInduction
<1> QED
  BY <1>1, <1>4

-----------------------------------------------------------------------------
(* Amounts *)

PointStep == [t \in Seq(Byte) |-> [c \in Byte |-> IF c = Point THEN t ELSE Append(t, c)]]

LEMMA PointStepType == PointStep \in [Seq(Byte) -> [Byte -> Seq(Byte)]]
<1>1. \A t \in Seq(Byte), c \in Byte : (IF c = Point THEN t ELSE Append(t, c)) \in Seq(Byte)
  BY AppendProperties
<1> QED
  BY <1>1 DEF PointStep

LEMMA RemovePointFold ==
    ASSUME NEW s \in Seq(Byte)
    PROVE  \E t : Folds(t, Byte, Seq(Byte), <<>>, PointStep, s) /\ removePoint(s) = t[Len(s)]
<1> DEFINE Rhs(t) == [n \in 0..Len(s) |->
                         IF n = 0 THEN <<>>
                         ELSE IF s[n] = Point THEN t[n - 1] ELSE Append(t[n - 1], s[n])]
<1>0. Len(s) \in Nat /\ \A n \in 1..Len(s) : s[n] \in Byte
  OBVIOUS
<1>1. PICK f : Folds(f, Byte, Seq(Byte), <<>>, PointStep, s)
  BY PointStepType, <<>> \in Seq(Byte), FoldExists
<1>2. f = Rhs(f)
  <2>1. f \in [0..Len(s) -> Seq(Byte)] /\ f[0] = <<>>
    BY <1>1 DEF Folds
  <2>2. ASSUME NEW n \in 1..Len(s)
        PROVE  f[n] = IF s[n] = Point THEN f[n - 1] ELSE Append(f[n - 1], s[n])
    <3>1. f[n] = PointStep[f[n - 1]][s[n]]
      BY <1>1 DEF Folds
    <3>2. f[n - 1] \in Seq(Byte) /\ s[n] \in Byte
      BY <1>0, <2>1
    <3> QED
      BY <3>1, <3>2 DEF PointStep
  <2>3. ASSUME NEW n \in 0..Len(s)
        PROVE  f[n] = Rhs(f)[n]
    <3>1. n = 0 \/ (n # 0 /\ n \in 1..Len(s))
      BY <1>0
    <3> QED
      BY <2>1, <2>2, <3>1, Zenon
  <2>4. Rhs(f) = [n \in 0..Len(s) |-> Rhs(f)[n]] /\ f = [n \in 0..Len(s) |-> f[n]]
    BY <2>1, Zenon
  <2> QED
    BY <2>3, <2>4, Zenon
<1> DEFINE t == CHOOSE g : g = Rhs(g)
<1>3. t = Rhs(t)
  BY <1>2
<1>4. removePoint(s) = t[Len(s)]
  BY DEF removePoint
<1> HIDE DEF t
<1>5. Folds(t, Byte, Seq(Byte), <<>>, PointStep, s)
  <2>1. Over(t, 0..Len(s)) /\ t[0] = <<>>
    BY <1>0, <1>3 DEF Over
  <2>2. ASSUME NEW n \in 1..Len(s), t[n - 1] \in Seq(Byte)
        PROVE  t[n] = PointStep[t[n - 1]][s[n]]
    <3>1. t[n] = IF s[n] = Point THEN t[n - 1] ELSE Append(t[n - 1], s[n])
      <4>1. n \in 0..Len(s) /\ n # 0
        BY <1>0
      <4>2. t[n] = Rhs(t)[n]
        BY <1>3, Zenon
      <4> QED
        BY <4>1, <4>2, Zenon
    <3>2. \A u \in Seq(Byte), c \in Byte :
             PointStep[u][c] = IF c = Point THEN u ELSE Append(u, c)
      BY DEF PointStep
    <3> QED
      BY <1>0, <2>2, <3>1, <3>2
  <2> QED
    BY <2>1, <2>2, PointStepType, <<>> \in Seq(Byte), FoldEquations
<1> QED
  BY <1>4, <1>5

LEMMA RemovePointUnfold ==
    /\ removePoint(<<>>) = <<>>
    /\ \A s \in Seq(Byte) :
          /\ removePoint(s) \in Seq(Byte)
          /\ \A c \in Byte : removePoint(Append(s, c)) =
                                IF c = Point THEN removePoint(s) ELSE Append(removePoint(s), c)
<1>1. removePoint(<<>>) = <<>>
  BY <<>> \in Seq(Byte), RemovePointFold DEF Folds
<1>2. ASSUME NEW s \in Seq(Byte), NEW c \in Byte
      PROVE  /\ removePoint(s) \in Seq(Byte)
             /\ removePoint(Append(s, c)) =
                    IF c = Point THEN removePoint(s) ELSE Append(removePoint(s), c)
  <2>1. PICK f : Folds(f, Byte, Seq(Byte), <<>>, PointStep, s) /\ removePoint(s) = f[Len(s)]
    BY RemovePointFold
  <2>2. PICK g : /\ Folds(g, Byte, Seq(Byte), <<>>, PointStep, Append(s, c))
                 /\ removePoint(Append(s, c)) = g[Len(Append(s, c))]
    BY Append(s, c) \in Seq(Byte), RemovePointFold
  <2>3. /\ Folds(f, Byte, Seq(Byte), <<>>, PointStep, s)
        /\ Folds(g, Byte, Seq(Byte), <<>>, PointStep, Append(s, c))
    BY <2>1, <2>2
  <2>4. f[Len(s)] \in Seq(Byte) /\ g[Len(Append(s, c))] = PointStep[f[Len(s)]][c]
    BY <2>3, FoldAppend
  <2> QED
    BY <2>1, <2>2, <2>4 DEF PointStep
<1> QED
  BY <1>1, <1>2, 0 \in Byte DEF Byte

LEMMA RemovePointConcat ==
    \A s \in Seq(Byte), t \in Seq(Byte) :
       removePoint(s \o t) = removePoint(s) \o removePoint(t)
<1> DEFINE T == {t \in Seq(Byte) : \A s \in Seq(Byte) :
                    removePoint(s \o t) = removePoint(s) \o removePoint(t)}
<1>1. <<>> \in T
  BY RemovePointUnfold, ConcatEmptySeq
<1>2. ASSUME NEW t \in Seq(Byte), NEW c \in Byte, t \in T
      PROVE  Append(t, c) \in T
  <2> SUFFICES ASSUME NEW s \in Seq(Byte)
               PROVE  removePoint(s \o Append(t, c)) = removePoint(s) \o removePoint(Append(t, c))
    BY AppendProperties
  <2> DEFINE x == s \o t
             rs == removePoint(s)
             rt == removePoint(t)
             rx == removePoint(x)
  <2>1. s \o Append(t, c) = Append(x, c) /\ x \in Seq(Byte)
    BY ConcatAppend, ConcatProperties
  <2>2. rs \in Seq(Byte) /\ rt \in Seq(Byte) /\ rx = rs \o rt
    BY <1>2, RemovePointUnfold
  <2>3. removePoint(Append(x, c)) = IF c = Point THEN rx ELSE Append(rx, c)
    BY <2>1, RemovePointUnfold
  <2>4. removePoint(Append(t, c)) = IF c = Point THEN rt ELSE Append(rt, c)
    BY RemovePointUnfold
  <2> HIDE DEF rs, rt, rx
  <2>5. rs \o Append(rt, c) = Append(rs \o rt, c)
    BY <2>2, ConcatAppend
  <2> QED
    BY <2>1, <2>2, <2>3, <2>4, <2>5 DEF rs
<1>3. \A t \in Seq(Byte) : t \in T
  <2> HIDE DEF T
  <2> QED BY <1>1, <1>2, SeqSetInduction
<1> QED
  BY <1>3

LEMMA RemovePointNone ==
    \A t \in Seq(Byte) : (\A i \in 1..Len(t) : t[i] # Point) => removePoint(t) = t
<1> DEFINE T == {t \in Seq(Byte) : (\A i \in 1..Len(t) : t[i] # Point) => removePoint(t) = t}
<1>1. <<>> \in T
  BY RemovePointUnfold
<1>2. ASSUME NEW t \in Seq(Byte), NEW c \in Byte, t \in T
      PROVE  Append(t, c) \in T
  <2> DEFINE u == Append(t, c)
  <2>1. /\ u \in Seq(Byte) /\ Len(u) = Len(t) + 1 /\ Len(t) \in Nat /\ u[Len(t) + 1] = c
        /\ \A i \in 1..Len(t) : u[i] = t[i]
    BY AppendProperties
  <2> HIDE DEF u
  <2> SUFFICES ASSUME \A i \in 1..Len(u) : u[i] # Point
               PROVE  removePoint(u) = u
    BY <2>1 DEF u
  <2>2. c # Point /\ \A i \in 1..Len(t) : t[i] # Point
    BY <2>1
  <2>3. removePoint(t) = t
    BY <1>2, <2>2
  <2> QED
    BY <2>2, <2>3, RemovePointUnfold DEF u
<1>3. \A t \in Seq(Byte) : t \in T
  <2> HIDE DEF T
  <2> QED BY <1>1, <1>2, SeqSetInduction
<1> QED
  BY <1>3

LEMMA DigitIsByte ==
    /\ Digit \subseteq Byte /\ Point \in Byte /\ Zero \in Digit
    /\ \A c \in Digit : c # Point
    /\ Seq(Digit) \subseteq Seq(Byte)
<1>1. /\ Digit \subseteq Byte /\ Point \in Byte /\ Zero \in Digit
      /\ \A c \in Digit : c # Point
  BY DEF Digit, Zero, Byte, Point
<1> QED
  BY <1>1

LEMMA RemoveOnlyPoint == removePoint(<<Point>>) = <<>>
<1>1. <<Point>> = Append(<<>>, Point)
  OBVIOUS
<1>2. removePoint(Append(<<>>, Point)) = removePoint(<<>>)
  BY <<>> \in Seq(Byte), RemovePointUnfold, DigitIsByte
<1> QED
  BY <1>1, <1>2, RemovePointUnfold

Joins(first, after, s) == s = (first \o <<Point>>) \o after

(***************************************************************************)
(* An amount with a point between digits, and the digits before and after  *)
(* it.                                                                     *)
(***************************************************************************)
LEMMA Joined ==
    ASSUME NEW first \in Seq(Digit), NEW after \in Seq(Digit), NEW s,
           Joins(first, after, s)
    PROVE  /\ s \in Seq(Byte)
           /\ Len(s) = Len(first) + 1 + Len(after)
           /\ \A i \in 1..Len(first) : s[i] = first[i]
           /\ s[Len(first) + 1] = Point
           /\ Points(s) = {Len(first) + 1}
           /\ SubSeq(s, 1, Len(first)) = first
           /\ SubSeq(s, Len(first) + 2, Len(s)) = after
           /\ removePoint(s) = first \o after
<1> DEFINE n == Len(first)
           k == Len(after)
           x == first \o <<Point>>
<1>1. /\ first \in Seq(Byte) /\ after \in Seq(Byte) /\ n \in Nat /\ k \in Nat
      /\ <<Point>> \in Seq(Byte) /\ Len(<<Point>>) = 1 /\ <<Point>>[1] = Point
      /\ \A i \in 1..n : first[i] # Point
      /\ \A i \in 1..k : after[i] # Point
  BY DigitIsByte
<1>2. /\ x \in Seq(Byte) /\ Len(x) = n + 1
      /\ \A i \in 1..(n + 1) : x[i] = IF i <= n THEN first[i] ELSE Point
  BY <1>1, ConcatProperties
<1> HIDE DEF x
<1>3. /\ s \in Seq(Byte) /\ Len(s) = n + 1 + k
      /\ \A i \in 1..(n + 1 + k) : s[i] = IF i <= n + 1 THEN x[i] ELSE after[i - (n + 1)]
  BY <1>1, <1>2, ConcatProperties DEF x, Joins
<1>4. (\A i \in 1..n : s[i] = first[i]) /\ s[n + 1] = Point
  BY <1>1, <1>2, <1>3
<1>5. \A i \in 1..k : s[n + 1 + i] = after[i]
  BY <1>1, <1>2, <1>3
<1>6. Points(s) = {n + 1}
  <2>1. DOMAIN s = 1..(n + 1 + k)
    BY <1>1, <1>3
  <2>2. ASSUME NEW i \in 1..(n + 1 + k), s[i] = Point
        PROVE  i = n + 1
    <3>1. CASE i <= n
      BY <1>1, <1>4, <2>2, <3>1
    <3>2. CASE i > n + 1
      <4>1. i - (n + 1) \in 1..k /\ n + 1 + (i - (n + 1)) = i
        BY <1>1, <3>2
      <4> QED
        BY <1>1, <1>5, <2>2, <4>1
    <3> QED
      BY <1>1, <3>1, <3>2
  <2> QED
    BY <1>1, <1>4, <2>1, <2>2 DEF Points
<1>7. SubSeq(s, 1, n) = first
  <2>1. /\ SubSeq(s, 1, n) \in Seq(Byte) /\ Len(SubSeq(s, 1, n)) = n
        /\ \A i \in 1..n : SubSeq(s, 1, n)[i] = s[i]
    BY <1>1, <1>3, SubSeqProperties
  <2> QED
    BY <1>1, <1>4, <2>1, SeqEqual
<1>8. SubSeq(s, n + 2, Len(s)) = after
  <2>1. /\ SubSeq(s, n + 2, Len(s)) \in Seq(Byte) /\ Len(SubSeq(s, n + 2, Len(s))) = k
        /\ \A i \in 1..k : SubSeq(s, n + 2, Len(s))[i] = s[n + 1 + i]
    BY <1>1, <1>3, SubSeqProperties
  <2> QED
    BY <1>1, <1>5, <2>1, SeqEqual
<1>9. removePoint(s) = first \o after
  <2>1. removePoint(<<Point>>) = <<>>
    BY RemoveOnlyPoint
  <2>2. removePoint(first) = first /\ removePoint(after) = after
    BY <1>1, RemovePointNone
  <2>3. removePoint(x) = first
    <3>1. removePoint(x) = removePoint(first) \o removePoint(<<Point>>)
      BY <1>1, RemovePointConcat DEF x
    <3>2. first \o <<>> = first
      BY ConcatEmptySeq
    <3> QED
      BY <2>1, <2>2, <3>1, <3>2
  <2>4. removePoint(s) = removePoint(x) \o removePoint(after)
    BY <1>1, <1>2, RemovePointConcat DEF x, Joins
  <2> QED
    BY <2>2, <2>3, <2>4
<1> QED
  BY <1>3, <1>4, <1>6, <1>7, <1>8, <1>9

(***************************************************************************)
(* An amount that is accepted is digits, or a point between digits.        *)
(***************************************************************************)
LEMMA AcceptedSplits ==
    ASSUME NEW s \in Seq(Byte), Accepted(s)
    PROVE  \/ s \in Seq(Digit) /\ Points(s) = {} /\ removePoint(s) = s
           \/ \E first \in Seq(Digit), after \in Seq(Digit) :
                 Joins(first, after, s)
<1>0. Len(s) \in Nat /\ DOMAIN s = 1..Len(s) /\ \A i \in 1..Len(s) : s[i] \in Byte
  OBVIOUS
<1>1. /\ removePoint(s) \in Seq(Byte)
      /\ \A i \in 1..Len(removePoint(s)) : removePoint(s)[i] \in Digit
  BY RemovePointUnfold DEF Accepted, isValidNumber
<1>2. removePoint(s) \in Seq(Digit)
  BY <1>1
<1>3. CASE Points(s) = {}
  <2>1. \A i \in 1..Len(s) : s[i] # Point
    BY <1>0, <1>3 DEF Points
  <2>2. removePoint(s) = s
    BY <2>1, RemovePointNone
  <2> QED
    BY <1>2, <1>3, <2>2
<1>4. CASE Points(s) # {}
  <2>1. PICK dot \in Points(s) : TRUE
    BY <1>4
  <2>2. Points(s) = {dot}
    <3>1. IsFiniteSet(Points(s))
      <4>1. Points(s) \in SUBSET (1..Len(s))
        BY <1>0 DEF Points
      <4>2. IsFiniteSet(1..Len(s))
        BY <1>0, FS_Interval
      <4> QED
        BY <4>1, <4>2, FS_Subset
    <3>2. Cardinality(Points(s)) = 1
      <4>1. Cardinality(Points(s)) \in Nat /\ Cardinality(Points(s)) # 0
        BY <1>4, <3>1, FS_CardinalityType, FS_EmptySet
      <4> QED
        BY <4>1 DEF Accepted
    <3>3. \E x : Points(s) = {x}
      BY <3>1, <3>2, FS_Singleton
    <3> QED
      BY <2>1, <3>3
  <2>3. dot \in 1..Len(s) /\ s[dot] = Point /\ \A i \in 1..Len(s) : i # dot => s[i] # Point
    BY <1>0, <2>2 DEF Points
  <2> DEFINE first == SubSeq(s, 1, dot - 1)
             after == SubSeq(s, dot + 1, Len(s))
             y == <<Point>>
             x == first \o y
             w == SubSeq(s, 1, dot)
  <2>4. /\ first \in Seq(Byte) /\ Len(first) = dot - 1
        /\ \A i \in 1..(dot - 1) : first[i] = s[i]
    <3>1. dot - 1 \in 0..Len(s)
      BY <1>0, <2>3
    <3> QED
      BY <3>1, SplitAt
  <2>5. /\ after \in Seq(Byte) /\ Len(after) = Len(s) - dot
        /\ \A i \in 1..(Len(s) - dot) : after[i] = s[dot + i]
    <3>1. dot \in 0..Len(s)
      BY <1>0, <2>3
    <3> QED
      BY <3>1, SplitAt
  <2>11. w \in Seq(Byte) /\ Len(w) = dot /\ (\A i \in 1..dot : w[i] = s[i]) /\ s = w \o after
    <3>1. dot \in 0..Len(s)
      BY <1>0, <2>3
    <3> QED
      BY <3>1, SplitAt
  <2>6. y \in Seq(Byte) /\ Len(y) = 1 /\ y[1] = Point /\ removePoint(y) = <<>>
    BY DigitIsByte, RemoveOnlyPoint
  <2> HIDE DEF first, after, y, w
  <2>7. x = w
    <3>1. /\ x \in Seq(Byte) /\ Len(x) = dot
          /\ \A i \in 1..dot : x[i] = IF i <= dot - 1 THEN first[i] ELSE y[i - (dot - 1)]
      <4>1. /\ x \in Seq(Byte) /\ Len(x) = Len(first) + Len(y)
            /\ \A i \in 1..(Len(first) + Len(y)) :
                  x[i] = IF i <= Len(first) THEN first[i] ELSE y[i - Len(first)]
        BY <2>4, <2>6, ConcatProperties
      <4>2. Len(first) + Len(y) = dot
        BY <1>0, <2>3, <2>4, <2>6
      <4> HIDE DEF x
      <4> QED
        BY <2>4, <4>1, <4>2
    <3> HIDE DEF x
    <3>2. \A i \in 1..dot : x[i] = s[i]
      BY <1>0, <2>3, <2>4, <2>6, <3>1
    <3> QED
      BY <2>11, <3>1, <3>2, SeqEqual
  <2>8. s = x \o after /\ x \in Seq(Byte)
    BY <2>7, <2>11
  <2>9. removePoint(s) = first \o after
    <3>1. removePoint(first) = first
      BY <1>0, <2>3, <2>4, RemovePointNone
    <3>2. removePoint(after) = after
      <4>1. \A i \in 1..(Len(s) - dot) : dot + i \in 1..Len(s) /\ dot + i # dot
        BY <1>0, <2>3
      <4> QED
        BY <2>3, <2>5, <4>1, RemovePointNone
    <3>3. removePoint(x) = first
      BY <2>4, <2>6, <3>1, RemovePointConcat, ConcatEmptySeq
    <3>4. removePoint(x \o after) = removePoint(x) \o removePoint(after)
      BY <2>5, <2>8, RemovePointConcat
    <3> QED
      BY <2>8, <3>2, <3>3, <3>4
  <2>10. first \in Seq(Digit) /\ after \in Seq(Digit)
    <3>1. /\ Len(first \o after) = Len(first) + Len(after)
          /\ \A i \in 1..(Len(first) + Len(after)) : (first \o after)[i] =
                IF i <= Len(first) THEN first[i] ELSE after[i - Len(first)]
      BY <2>4, <2>5, ConcatProperties
    <3>2. \A i \in 1..(Len(first) + Len(after)) : (first \o after)[i] \in Digit
      BY <1>1, <2>9, <3>1
    <3>3. \A i \in 1..Len(first) : first[i] \in Digit
      BY <2>4, <2>5, <3>1, <3>2
    <3>4. \A i \in 1..Len(after) : after[i] \in Digit
      <4> SUFFICES ASSUME NEW i \in 1..Len(after)
                   PROVE  after[i] \in Digit
        OBVIOUS
      <4>0. Len(first) \in Nat /\ Len(after) \in Nat
        BY <2>4, <2>5
      <4>1. Len(first) + i \in 1..(Len(first) + Len(after)) /\ ~(Len(first) + i <= Len(first))
            /\ (Len(first) + i) - Len(first) = i
        BY <4>0
      <4> QED
        BY <3>1, <3>2, <4>1
    <3>5. first \in Seq(Byte) /\ after \in Seq(Byte)
      BY <2>4, <2>5
    <3> QED
      BY <3>3, <3>4, <3>5
  <2> QED
    BY <2>8, <2>10 DEF y, Joins
<1> QED
  BY <1>3, <1>4

(***************************************************************************)
(* The digits after the point at the token's decimals: filled up, or cut   *)
(* with less than a unit lost.                                             *)
(***************************************************************************)
LEMMA FractionType ==
    ASSUME NEW t \in Seq(Digit), NEW d \in Nat
    PROVE  /\ Fraction(t, d) \in Seq(Digit) /\ Len(Fraction(t, d)) = d
           /\ Len(t) <= d => Value(Fraction(t, d)) = Value(t) * TenTo[d - Len(t)]
           /\ Len(t) > d => \E r \in Nat :
                 /\ r < TenTo[Len(t) - d]
                 /\ Value(t) = Value(Fraction(t, d)) * TenTo[Len(t) - d] + r
<1>0. Len(t) \in Nat
  OBVIOUS
<1>1. CASE Len(t) <= d
  <2> DEFINE z == Zeroes(d - Len(t))
  <2>0. d - Len(t) \in Nat
    BY <1>0, <1>1
  <2>1. z \in Seq(Digit) /\ Len(z) = d - Len(t) /\ Value(z) = 0
    BY <2>0, ZeroesValue
  <2>2. Fraction(t, d) = t \o z
    BY <1>0, <1>1 DEF Fraction
  <2> HIDE DEF z
  <2>3. t \o z \in Seq(Digit) /\ Len(t \o z) = d
    BY <1>0, <2>1, ConcatProperties
  <2>4. Value(t \o z) = Value(t) * TenTo[d - Len(t)] + 0
    BY <2>1, ValueConcat
  <2>5. Value(t) \in Nat /\ TenTo[d - Len(t)] \in Nat
    BY <2>0, ValueUnfold, TenToUnfold
  <2> QED
    BY <1>0, <1>1, <2>2, <2>3, <2>4, <2>5
<1>2. CASE Len(t) > d
  <2> DEFINE a == SubSeq(t, 1, d)
             b == SubSeq(t, d + 1, Len(t))
  <2>1. d \in 0..Len(t)
    BY <1>0, <1>2
  <2>2. a \in Seq(Digit) /\ Len(a) = d
    BY <2>1, SplitAt
  <2>3. b \in Seq(Digit) /\ Len(b) = Len(t) - d /\ t = a \o b
    BY <2>1, SplitAt
  <2> HIDE DEF a, b
  <2>4. Value(t) = Value(a) * TenTo[Len(t) - d] + Value(b) /\ Value(b) < TenTo[Len(t) - d]
    BY <2>2, <2>3, ValueConcat
  <2>5. Fraction(t, d) = a
    BY <1>2 DEF Fraction, a
  <2>6. Value(b) \in Nat
    BY <2>3, ValueUnfold
  <2> QED
    BY <1>0, <1>2, <2>2, <2>4, <2>5, <2>6
<1> QED
  BY <1>0, <1>1, <1>2

LEMMA FromDigits ==
    ASSUME NEW s \in Seq(Digit), NEW d \in Nat
    PROVE  /\ Points(s) = {} /\ removePoint(s) = s
           /\ bigUIntFromVal(s, d) = s \o Zeroes(d)
           /\ bigUIntFromVal(s, d) \in Seq(Digit)
           /\ Value(bigUIntFromVal(s, d)) = Value(s) * TenTo[d]
<1>1. s \in Seq(Byte) /\ DOMAIN s = 1..Len(s) /\ \A i \in 1..Len(s) : s[i] # Point
  BY DigitIsByte
<1>2. Points(s) = {}
  BY <1>1 DEF Points
<1>3. removePoint(s) = s
  BY <1>1, RemovePointNone
<1>4. bigUIntFromVal(s, d) = s \o Zeroes(d)
  BY <1>2 DEF bigUIntFromVal
<1>5. Zeroes(d) \in Seq(Digit) /\ Len(Zeroes(d)) = d /\ Value(Zeroes(d)) = 0
  BY ZeroesValue
<1>6. s \o Zeroes(d) \in Seq(Digit)
  BY <1>5, ConcatProperties
<1>7. Value(s \o Zeroes(d)) = Value(s) * TenTo[d] + 0
  BY <1>5, ValueConcat
<1>8. Value(s) \in Nat /\ TenTo[d] \in Nat
  BY ValueUnfold, TenToUnfold
<1> QED
  BY <1>2, <1>3, <1>4, <1>6, <1>7, <1>8

LEMMA FromJoined ==
    ASSUME NEW first \in Seq(Digit), NEW after \in Seq(Digit), NEW s,
           Joins(first, after, s), NEW d \in Nat
    PROVE  /\ bigUIntFromVal(s, d) \in Seq(Digit)
           /\ Value(bigUIntFromVal(s, d)) = Value(first) * TenTo[d] + Value(Fraction(after, d))
<1>0. /\ Points(s) = {Len(first) + 1}
      /\ SubSeq(s, 1, Len(first)) = first
      /\ SubSeq(s, Len(first) + 2, Len(s)) = after
  BY Joined, Zenon
<1> DEFINE n == Len(first)
           lead == IF first = <<Zero>> THEN <<>> ELSE first
           f == Fraction(after, d)
<1>1. Points(s) = {n + 1} /\ SubSeq(s, 1, n) = first /\ SubSeq(s, n + 2, Len(s)) = after
  BY <1>0
<1>2. n \in Nat
  OBVIOUS
<1>3. bigUIntFromVal(s, d) = lead \o f
  <2>1. (CHOOSE i \in Points(s) : TRUE) = n + 1
    BY <1>1
  <2>2. Points(s) # {}
    BY <1>1
  <2>3. (n + 1) - 1 = n /\ (n + 1) + 1 = n + 2
    BY <1>2
  <2> HIDE DEF n, f
  <2> QED
    BY <1>1, <2>1, <2>2, <2>3 DEF bigUIntFromVal, f
<1>4. f \in Seq(Digit) /\ Len(f) = d
  BY FractionType
<1>5. lead \in Seq(Digit) /\ Value(lead) = Value(first)
  <2>1. CASE first = <<Zero>>
    <3>1. <<Zero>> = Append(<<>>, Zero)
      OBVIOUS
    <3>2. Value(Append(<<>>, Zero)) = 10 * Value(<<>>) + (Zero - Zero)
      BY <<>> \in Seq(Digit), DigitIsByte, ValueUnfold
    <3>3. Value(<<>>) = 0 /\ Zero - Zero = 0
      BY ValueUnfold DEF Zero
    <3>4. Value(first) = 10 * 0 + 0
      BY <2>1, <3>1, <3>2, <3>3, Zenon
    <3>5. lead = <<>>
      BY <2>1
    <3> HIDE DEF lead
    <3> QED
      BY <3>3, <3>4, <3>5
  <2> QED
    BY <2>1
<1> HIDE DEF lead, f
<1>6. lead \o f \in Seq(Digit) /\ Value(lead \o f) = Value(lead) * TenTo[d] + Value(f)
  BY <1>4, <1>5, ConcatProperties, ValueConcat
<1> QED
  BY <1>3, <1>5, <1>6 DEF f

LEMMA AcceptedType ==
    ASSUME NEW s \in Seq(Byte), Accepted(s), NEW d \in Nat
    PROVE  bigUIntFromVal(s, d) \in Seq(Digit)
<1>1. CASE s \in Seq(Digit)
  BY <1>1, FromDigits
<1>2. CASE \E first \in Seq(Digit), after \in Seq(Digit) : Joins(first, after, s)
  BY <1>2, FromJoined
<1> QED
  BY <1>1, <1>2, AcceptedSplits

(***************************************************************************)
(* Cutting a number at a power of ten: what is left times the rest of the  *)
(* power is at most the number, and less than one unit away.               *)
(***************************************************************************)
LEMMA Cut ==
    ASSUME NEW a \in Nat, NEW f \in Nat, NEW r \in Nat, NEW p \in Nat \ {0}, NEW q \in Nat,
           r < q
    PROVE  LET v == a * p + f
               n == a * (p * q) + (f * q + r)
           IN v * (p * q) <= n * p /\ n * p < (v + 1) * (p * q)
<1> DEFINE v == a * p + f
           n == a * (p * q) + (f * q + r)
<1>1. n * p = v * (p * q) + r * p
  OBVIOUS
<1>2. (v + 1) * (p * q) = v * (p * q) + p * q
  OBVIOUS
<1>3. r * p \in Nat /\ v * (p * q) \in Nat /\ p * q \in Nat /\ n * p \in Nat
  OBVIOUS
<1>4. r * p < p * q
  OBVIOUS
<1> HIDE DEF v, n
<1>5. v * (p * q) <= n * p /\ n * p < (v + 1) * (p * q)
  BY <1>1, <1>2, <1>3, <1>4
<1> QED
  BY <1>5 DEF v, n

(***************************************************************************)
(* AmountExact, for every text that is typed.                              *)
(***************************************************************************)
LEMMA EveryAmountExact ==
    ASSUME amount \in Seq(Byte)
    PROVE  AmountExact
<1> SUFFICES ASSUME Accepted(amount), NEW d \in Decimals
             PROVE  LET n == Value(removePoint(amount))
                        k == IF Points(amount) = {} THEN 0
                             ELSE Len(amount) - CHOOSE i \in Points(amount) : TRUE
                        v == Value(bigUIntFromVal(amount, d))
                    IN v * TenTo[k] <= n * TenTo[d] /\ n * TenTo[d] < (v + 1) * TenTo[k]
  BY Zenon DEF AmountExact
<1> DEFINE n == Value(removePoint(amount))
           k == IF Points(amount) = {} THEN 0
                ELSE Len(amount) - CHOOSE i \in Points(amount) : TRUE
           v == Value(bigUIntFromVal(amount, d))
           p == TenTo[d]
<1>0. d \in Nat /\ p \in Nat \ {0} /\ TenTo[0] = 1
  BY NumberAssumption, TenToUnfold
<1>1. CASE amount \in Seq(Digit)
  <2>1. k = 0 /\ n = Value(amount) /\ v = n * p /\ n \in Nat
    BY <1>0, <1>1, FromDigits, ValueUnfold
  <2> HIDE DEF n, k, v, p
  <2>2. v * TenTo[k] <= n * p /\ n * p < (v + 1) * TenTo[k]
    BY <1>0, <2>1
  <2> QED
    BY <2>2 DEF n, k, v, p
<1>2. ASSUME NEW first \in Seq(Digit), NEW after \in Seq(Digit),
             Joins(first, after, amount)
      PROVE  v * TenTo[k] <= n * p /\ n * p < (v + 1) * TenTo[k]
  <2> DEFINE a == Value(first)
             f == Value(Fraction(after, d))
  <2>0. Len(after) \in Nat /\ Len(first) \in Nat
    OBVIOUS
  <2>8. /\ Points(amount) = {Len(first) + 1} /\ removePoint(amount) = first \o after
        /\ Len(amount) = Len(first) + 1 + Len(after)
    BY <1>2, Joined, Zenon
  <2>1. k = Len(after)
    <3>1. (CHOOSE i \in Points(amount) : TRUE) = Len(first) + 1
      BY <2>8
    <3>2. k = Len(amount) - (Len(first) + 1)
      BY <2>8, <3>1
    <3> QED
      BY <2>0, <2>8, <3>2
  <2>2. n = a * TenTo[Len(after)] + Value(after)
    BY <2>8, ValueConcat
  <2>3. v = a * p + f
    BY <1>0, <1>2, FromJoined, Zenon
  <2>4. a \in Nat /\ f \in Nat /\ Value(after) \in Nat
    BY <1>0, ValueUnfold, FractionType
  <2>5. /\ Len(after) <= d => f = Value(after) * TenTo[d - Len(after)]
        /\ Len(after) > d => \E r \in Nat : /\ r < TenTo[Len(after) - d]
                                            /\ Value(after) = f * TenTo[Len(after) - d] + r
    BY <1>0, FractionType
  <2> HIDE DEF n, k, v, a, f
  <2>6. CASE Len(after) <= d
    <3> DEFINE q == TenTo[d - Len(after)]
               t == TenTo[Len(after)]
               b == Value(after)
    <3>1. d - Len(after) \in Nat /\ d = Len(after) + (d - Len(after))
      BY <1>0, <2>0, <2>6
    <3>2. p = t * q /\ t \in Nat \ {0} /\ q \in Nat \ {0}
      <4>1. TenTo[Len(after) + (d - Len(after))] = t * q
        BY <2>0, <3>1, TenToSum
      <4> QED
        BY <2>0, <3>1, <4>1, TenToUnfold
    <3>3. f = b * q /\ b \in Nat /\ n = a * t + b
      BY <2>2, <2>4, <2>5, <2>6
    <3> HIDE DEF q, t, b, p
    <3>4. v * t = n * p
      <4>1. (a * (t * q) + b * q) * t = (a * t + b) * (t * q)
        BY <2>4, <3>2, <3>3
      <4> QED
        BY <2>3, <3>2, <3>3, <4>1
    <3>5. v \in Nat /\ n \in Nat /\ (v + 1) * t = v * t + t
      BY <2>3, <2>4, <3>2, <3>3
    <3>6. v * t \in Nat
      BY <3>2, <3>5
    <3>7. v * t <= n * p /\ n * p < (v + 1) * t
      BY <3>2, <3>4, <3>5, <3>6
    <3> QED
      BY <2>1, <3>7 DEF t
  <2>7. CASE Len(after) > d
    <3> DEFINE q == TenTo[Len(after) - d]
    <3>1. Len(after) - d \in Nat /\ Len(after) = d + (Len(after) - d)
      BY <1>0, <2>0, <2>7
    <3>2. TenTo[Len(after)] = p * q /\ q \in Nat
      BY <1>0, <3>1, TenToSum, TenToUnfold
    <3>3. PICK r \in Nat : r < q /\ Value(after) = f * q + r
      BY <2>5, <2>7
    <3> HIDE DEF q, p
    <3>4. n = a * (p * q) + (f * q + r)
      BY <2>2, <3>2, <3>3
    <3> QED
      BY <1>0, <2>1, <2>3, <2>4, <3>2, <3>3, <3>4, Cut
  <2> QED
    BY <1>0, <2>0, <2>6, <2>7
<1> QED
  BY <1>1, <1>2, AcceptedSplits

LEMMA DecimalShort == \A n \in Nat : n < 10 => Len(Decimal(n)) = 1
  BY DecimalReadsBack, Zenon

(***************************************************************************)
(* A number below a power of ten is written with as many digits at most.   *)
(***************************************************************************)
LEMMA DecimalLength ==
    \A k \in Nat : \A n \in Nat : n < TenTo[k + 1] => Len(Decimal(n)) <= k + 1
<1> DEFINE T == {k \in Nat : \A n \in Nat : n < TenTo[k + 1] => Len(Decimal(n)) <= k + 1}
<1>1. 0 \in T
  <2>1. TenTo[0 + 1] = 10
    BY TenToUnfold
  <2> QED
    <3> SUFFICES ASSUME NEW n \in Nat, n < TenTo[0 + 1]
                 PROVE  Len(Decimal(n)) <= 0 + 1
      OBVIOUS
    <3>1. n < 10
      BY <2>1
    <3>2. Len(Decimal(n)) = 1
      BY <3>1, DecimalShort, Zenon
    <3> QED
      BY <3>2
<1>2. ASSUME NEW k \in Nat, k \in T
      PROVE  k + 1 \in T
  <2> SUFFICES ASSUME NEW n \in Nat, n < TenTo[(k + 1) + 1]
               PROVE  Len(Decimal(n)) <= (k + 1) + 1
    OBVIOUS
  <2>1. CASE n < 10
    <3>1. Len(Decimal(n)) = 1
      BY <2>1, DecimalShort, Zenon
    <3> QED
      BY <3>1
  <2>2. CASE ~(n < 10)
    <3> DEFINE m == n \div 10
               c == n % 10
    <3>1. m \in Nat /\ c \in 0..9 /\ n = 10 * m + c
      OBVIOUS
    <3>2. TenTo[(k + 1) + 1] = 10 * TenTo[k + 1] /\ TenTo[k + 1] \in Nat
      BY TenToUnfold
    <3>3. Decimal(n) = Append(Decimal(m), Zero + c)
      BY <2>2, DecimalUnfold
    <3> HIDE DEF m, c
    <3>4. m < TenTo[k + 1]
      BY <3>1, <3>2
    <3>5. Len(Decimal(m)) <= k + 1 /\ Decimal(m) \in Seq(Digit)
      BY <1>2, <3>1, <3>4, DecimalReadsBack
    <3>6. Zero + c \in Digit
      BY <3>1 DEF Digit, Zero
    <3>7. Len(Append(Decimal(m), Zero + c)) = Len(Decimal(m)) + 1 /\ Len(Decimal(m)) \in Nat
      BY <3>5, <3>6, AppendProperties
    <3> QED
      BY <3>3, <3>5, <3>7
  <2> QED
    BY <2>1, <2>2
<1>3. \A k \in Nat : k \in T
  <2> HIDE DEF T
  <2> QED BY <1>1, <1>2, NatSetInduction
<1> QED
  BY <1>3

LEMMA DivMod ==
    ASSUME NEW v \in Nat, NEW t \in Nat \ {0}
    PROVE  /\ v \div t \in Nat /\ v % t \in Nat /\ v % t < t
           /\ v = (v \div t) * t + (v % t)
  OBVIOUS

LEMMA AcceptedJoined ==
    ASSUME NEW first \in Seq(Digit), NEW after \in Seq(Digit), NEW s,
           Joins(first, after, s), Len(first) >= 1,
           Len(first) >= 2 => first[1] # Zero
    PROVE  Accepted(s)
<1>1. /\ s \in Seq(Byte) /\ Len(s) = Len(first) + 1 + Len(after)
      /\ \A i \in 1..Len(first) : s[i] = first[i]
      /\ s[Len(first) + 1] = Point
      /\ Points(s) = {Len(first) + 1}
      /\ removePoint(s) = first \o after
  BY Joined
<1>2. Len(first) \in Nat /\ Len(after) \in Nat
  OBVIOUS
<1>3. Cardinality(Points(s)) <= 1
  <2>1. Cardinality({Len(first) + 1}) = 1
    BY FS_Singleton, Zenon
  <2> QED
    BY <1>1, <2>1
<1>4. ~hasLeadingZeroes(s)
  <2>1. CASE Len(first) >= 2
    BY <1>1, <1>2, <2>1 DEF hasLeadingZeroes
  <2>2. CASE Len(first) = 1
    BY <1>1, <2>2 DEF hasLeadingZeroes
  <2>3. Len(first) >= 2 \/ Len(first) = 1
    <3> DEFINE n == Len(first)
    <3>1. n \in Nat /\ n >= 1
      BY <1>2
    <3> HIDE DEF n
    <3>2. n >= 2 \/ n = 1
      BY <3>1
    <3> QED
      BY <3>2 DEF n
  <2> QED
    BY <2>1, <2>2, <2>3
<1>5. /\ removePoint(s) \in Seq(Digit) /\ Len(removePoint(s)) >= 1
  BY <1>1, <1>2, ConcatProperties
<1>6. removePoint(s) # <<>> /\ \A i \in DOMAIN removePoint(s) : removePoint(s)[i] \in Digit
  BY <1>5
<1> QED
  BY <1>3, <1>4, <1>6 DEF Accepted, isValidNumber

(***************************************************************************)
(* What is shown of an amount reads back, for any value and decimals.      *)
(***************************************************************************)
LEMMA EveryPrettyAmount ==
    ASSUME NEW p, p.value \in Seq(Digit), p.decimals \in Nat
    PROVE  /\ Accepted(PrettyAmount(p))
           /\ Value(bigUIntFromVal(PrettyAmount(p), p.decimals)) = Value(p.value)
<1> DEFINE d == p.decimals
           v == Value(p.value)
           t == TenTo[d]
           q == v \div t
           r == v % t
           den == bigUIntFromVal(<<Zero + 1>>, d)
           ct == d - Len(Decimal(r))
           fill == IF ct > 0 THEN Zeroes(ct) ELSE <<>>
           first == Decimal(q)
           after == fill \o Decimal(r)
           s == PrettyAmount(p)
<1>1. d \in Nat /\ v \in Nat /\ t \in Nat \ {0}
  BY ValueUnfold, TenToUnfold
<1>2. Len(den) - 1 = d /\ Value(den) = t
  <2> DEFINE one == <<Zero + 1>>
  <2>1. one \in Seq(Digit) /\ Len(one) = 1
    BY Zero + 1 \in Digit DEF Digit, Zero
  <2>2. Value(one) = 1
    <3>1. one = Append(<<>>, Zero + 1)
      OBVIOUS
    <3>2. Value(Append(<<>>, Zero + 1)) = 10 * Value(<<>>) + ((Zero + 1) - Zero)
      BY <<>> \in Seq(Digit), Zero + 1 \in Digit, ValueUnfold DEF Digit, Zero
    <3>3. Value(<<>>) = 0 /\ (Zero + 1) - Zero = 1
      BY ValueUnfold DEF Zero
    <3> QED
      BY <3>1, <3>2, <3>3
  <2> HIDE DEF one
  <2>3. /\ bigUIntFromVal(one, d) = one \o Zeroes(d)
        /\ Value(bigUIntFromVal(one, d)) = Value(one) * TenTo[d]
    BY <1>1, <2>1, FromDigits
  <2>4. Len(one \o Zeroes(d)) = 1 + d
    <3>1. Zeroes(d) \in Seq(Digit) /\ Len(Zeroes(d)) = d
      BY <1>1, ZeroesValue
    <3>2. Len(one \o Zeroes(d)) = Len(one) + Len(Zeroes(d))
      BY <2>1, <3>1, ConcatProperties
    <3> QED
      BY <2>1, <3>1, <3>2
  <2> QED
    BY <1>1, <2>2, <2>3, <2>4 DEF one
<1>3. q \in Nat /\ r \in Nat /\ r < t /\ v = q * t + r
  BY <1>1, DivMod
<1>4. s = first \o <<Point>> \o fill \o Decimal(r)
  BY <1>2 DEF PrettyAmount
<1> HIDE DEF d, v, t, q, r, den, s
<1>5. /\ first \in Seq(Digit) /\ Len(first) >= 1 /\ Value(first) = q
      /\ Len(first) >= 2 => first[1] # Zero
  <2>1. /\ first \in Seq(Digit) /\ Len(first) >= 1 /\ Value(first) = q
        /\ q >= 1 => first[1] # Zero
        /\ q < 10 => Len(first) = 1
    BY <1>3, DecimalReadsBack
  <2> QED
    BY <1>3, <2>1
<1>6. Decimal(r) \in Seq(Digit) /\ Value(Decimal(r)) = r /\ Len(Decimal(r)) >= 1
  BY <1>3, DecimalReadsBack
<1>7. Len(Decimal(r)) \in Nat
  BY <1>6
<1>8. fill \in Seq(Digit) /\ Value(fill) = 0 /\ Len(fill) = IF ct > 0 THEN ct ELSE 0
  <2>1. ct > 0 => ct \in Nat
    BY <1>1, <1>7
  <2>2. CASE ct > 0
    BY <2>1, <2>2, ZeroesValue
  <2>3. CASE ~(ct > 0)
    BY <2>3, ValueUnfold
  <2> QED
    BY <2>2, <2>3
<1> HIDE DEF first
<1>9. /\ after \in Seq(Digit) /\ Value(after) = r
      /\ Len(after) = Len(fill) + Len(Decimal(r))
  <2> HIDE DEF fill
  <2>1. after \in Seq(Digit) /\ Len(after) = Len(fill) + Len(Decimal(r))
    BY <1>6, <1>8, ConcatProperties
  <2>2. Value(after) = Value(fill) * TenTo[Len(Decimal(r))] + Value(Decimal(r))
    BY <1>6, <1>8, ValueConcat
  <2>3. TenTo[Len(Decimal(r))] \in Nat
    BY <1>7, TenToUnfold
  <2> QED
    BY <1>3, <1>6, <1>8, <2>1, <2>2, <2>3
<1>10. Joins(first, after, s)
  <2> DEFINE x == first \o <<Point>>
             w == Decimal(r)
  <2> HIDE DEF fill
  <2>1. <<Point>> \in Seq(Byte) /\ first \in Seq(Byte) /\ fill \in Seq(Byte) /\ Decimal(r) \in Seq(Byte)
    BY <1>5, <1>6, <1>8, DigitIsByte
  <2>2. x \in Seq(Byte)
    BY <2>1, ConcatProperties
  <2>4. w \in Seq(Byte)
    BY <2>1
  <2> HIDE DEF x, w
  <2> DEFINE z == fill
  <2>5. z \in Seq(Byte)
    BY <2>1
  <2> HIDE DEF z
  <2>6. (x \o z) \o w = x \o (z \o w)
    BY <2>2, <2>4, <2>5, ConcatAssociative
  <2>3. (x \o fill) \o w = x \o (fill \o w)
    BY <2>6 DEF z
  <2> QED
    BY <1>4, <2>3 DEF Joins, x, w
<1>11. Accepted(s)
  BY <1>5, <1>9, <1>10, AcceptedJoined
<1>12. Value(bigUIntFromVal(s, d)) = Value(first) * t + Value(Fraction(after, d))
  <2> HIDE DEF after
  <2>1. Value(bigUIntFromVal(s, d)) = Value(first) * TenTo[d] + Value(Fraction(after, d))
    <3> DEFINE g == after
    <3>1. d \in Nat /\ first \in Seq(Digit) /\ g \in Seq(Digit) /\ Joins(first, g, s)
      BY <1>1, <1>5, <1>9, <1>10
    <3> HIDE DEF g
    <3>2. Value(bigUIntFromVal(s, d)) = Value(first) * TenTo[d] + Value(Fraction(g, d))
      BY <3>1, FromJoined
    <3> QED
      BY <3>2 DEF g
  <2> QED
    BY <2>1 DEF t
<1>13. Value(Fraction(after, d)) = r
  <2>1. CASE d = 0
    <3>1. t = 1
      BY <2>1, TenToUnfold DEF t
    <3>2. r = 0
      BY <1>3, <3>1
    <3>3. Fraction(after, d) \in Seq(Digit) /\ Len(Fraction(after, d)) = 0
      BY <1>1, <1>9, <2>1, FractionType
    <3>4. Fraction(after, d) = <<>>
      BY <3>3
    <3> QED
      BY <3>2, <3>4, ValueUnfold
  <2>2. CASE d # 0
    <3>1. Len(Decimal(r)) <= d
      <4>1. d - 1 \in Nat /\ (d - 1) + 1 = d
        BY <1>1, <2>2
      <4> QED
        BY <1>3, <4>1, DecimalLength DEF t
    <3>2. Len(after) = d
      BY <1>1, <1>7, <1>8, <1>9, <3>1
    <3>3. Value(Fraction(after, d)) = Value(after) * TenTo[d - Len(after)]
      <4> HIDE DEF after
      <4>1. Len(after) <= d
        BY <1>1, <3>2
      <4> QED
        BY <1>1, <1>9, <4>1, FractionType
    <3>4. TenTo[d - Len(after)] = 1
      <4> HIDE DEF after
      <4>1. d - Len(after) = 0
        BY <1>1, <3>2
      <4> QED
        BY <4>1, TenToUnfold
    <3> QED
      BY <1>3, <1>9, <3>3, <3>4
  <2> QED
    BY <2>1, <2>2
<1> QED
  BY <1>3, <1>5, <1>11, <1>12, <1>13 DEF s, d, v

-----------------------------------------------------------------------------
(* Bytes in hexadecimal *)

HexChar == 48..57 \cup 97..102

LEMMA HexDigits ==
    /\ \A n \in 0..15 : HexDigit(n) \in HexChar /\ Nibble(HexDigit(n)) = n
    /\ \A c \in HexChar : c \in Byte \ {At} /\ Nibble(c) \in 0..15
    /\ Zero \in HexChar /\ Nibble(Zero) = 0
<1>1. ASSUME NEW n \in 0..15
      PROVE  HexDigit(n) \in HexChar /\ Nibble(HexDigit(n)) = n
  <2>1. CASE n < 10
    BY <2>1 DEF HexDigit, HexChar, Nibble, Digit, Zero
  <2>2. CASE ~(n < 10)
    BY <2>2 DEF HexDigit, HexChar, Nibble, Digit, Zero
  <2> QED
    BY <2>1, <2>2
<1>2. ASSUME NEW c \in HexChar
      PROVE  c \in Byte \ {At} /\ Nibble(c) \in 0..15
  BY DEF HexChar, Byte, At, Nibble, Digit, Zero
<1>3. Zero \in HexChar /\ Nibble(Zero) = 0
  BY DEF HexChar, Nibble, Digit, Zero
<1> QED
  BY <1>1, <1>2, <1>3

LEMMA HexIsByte == ASSUME NEW h \in Seq(HexChar) PROVE h \in Seq(Byte \ {At}) /\ h \in Seq(Byte)
<1>1. Len(h) \in Nat /\ \A i \in 1..Len(h) : h[i] \in HexChar
  OBVIOUS
<1>2. \A i \in 1..Len(h) : h[i] \in Byte \ {At} /\ h[i] \in Byte
  BY <1>1, HexDigits
<1> QED
  BY <1>1, <1>2

(***************************************************************************)
(* Two more hexadecimal digits are one more byte.                          *)
(***************************************************************************)
LEMMA BytesMore ==
    ASSUME NEW h \in Seq(HexChar), Len(h) % 2 = 0, NEW a \in HexChar, NEW b \in HexChar
    PROVE  LET t == Append(Append(h, a), b)
               c == 16 * Nibble(a) + Nibble(b)
           IN /\ t \in Seq(HexChar) /\ Len(t) % 2 = 0 /\ Len(t) >= 2
              /\ Bytes(h) \in Seq(Byte) /\ c \in Byte
              /\ Bytes(t) = Append(Bytes(h), c)
<1> DEFINE t == Append(Append(h, a), b)
           c == 16 * Nibble(a) + Nibble(b)
           k == Len(h) \div 2
<1>1. /\ t \in Seq(HexChar) /\ Len(t) = Len(h) + 2 /\ Len(h) \in Nat
      /\ \A i \in 1..Len(h) : t[i] = h[i]
      /\ t[Len(h) + 1] = a /\ t[Len(h) + 2] = b
  BY AppendProperties
<1>2. k \in Nat /\ Len(h) = 2 * k /\ Len(t) % 2 = 0 /\ Len(t) >= 2 /\ Len(t) \div 2 = k + 1
  BY <1>1
<1>3. \A x \in HexChar, y \in HexChar : 16 * Nibble(x) + Nibble(y) \in Byte
  <2>1. \A i \in 0..15, j \in 0..15 : 16 * i + j \in Byte
    BY DEF Byte
  <2>2. \A x \in HexChar : Nibble(x) \in 0..15
    BY HexDigits, Zenon
  <2> QED
    BY <2>1, <2>2, Zenon
<1> DEFINE bs == Bytes(h)
           bt == Bytes(t)
<1>4. bs \in Seq(Byte) /\ Len(bs) = k /\ \A i \in 1..k : bs[i] = 16 * Nibble(h[2 * i - 1]) + Nibble(h[2 * i])
  <2>1. \A i \in 1..k : h[2 * i - 1] \in HexChar /\ h[2 * i] \in HexChar
    BY <1>1, <1>2
  <2>2. \A i \in 1..k : 16 * Nibble(h[2 * i - 1]) + Nibble(h[2 * i]) \in Byte
    BY <1>3, <2>1
  <2>3. bs = [i \in 1..k |-> 16 * Nibble(h[2 * i - 1]) + Nibble(h[2 * i])]
    BY DEF Bytes
  <2> HIDE DEF bs, k
  <2> QED
    BY <1>2, <2>2, <2>3
<1>5. bt \in Seq(Byte) /\ Len(bt) = k + 1
      /\ \A i \in 1..(k + 1) : bt[i] = 16 * Nibble(t[2 * i - 1]) + Nibble(t[2 * i])
  <2>1. \A i \in 1..(k + 1) : t[2 * i - 1] \in HexChar /\ t[2 * i] \in HexChar
    BY <1>1, <1>2
  <2>2. \A i \in 1..(k + 1) : 16 * Nibble(t[2 * i - 1]) + Nibble(t[2 * i]) \in Byte
    BY <1>3, <2>1
  <2>3. bt = [i \in 1..(k + 1) |-> 16 * Nibble(t[2 * i - 1]) + Nibble(t[2 * i])]
    BY <1>2 DEF Bytes
  <2> HIDE DEF bt, k, t
  <2> QED
    BY <1>2, <2>2, <2>3
<1>6. c \in Byte
  BY <1>3
<1> HIDE DEF bs, bt, t, k, c
<1>7. bt = Append(bs, c)
  <2>1. /\ Append(bs, c) \in Seq(Byte) /\ Len(Append(bs, c)) = k + 1
        /\ \A i \in 1..k : Append(bs, c)[i] = bs[i]
        /\ Append(bs, c)[k + 1] = c
    BY <1>4, <1>6, AppendProperties
  <2>2. \A i \in 1..k : bt[i] = bs[i]
    <3>1. \A i \in 1..k : t[2 * i - 1] = h[2 * i - 1] /\ t[2 * i] = h[2 * i]
      BY <1>1, <1>2
    <3> QED
      BY <1>2, <1>4, <1>5, <3>1
  <2>3. bt[k + 1] = c
    <3>1. 2 * (k + 1) - 1 = Len(h) + 1 /\ 2 * (k + 1) = Len(h) + 2 /\ k + 1 \in 1..(k + 1)
      BY <1>2
    <3>2. bt[k + 1] = 16 * Nibble(t[Len(h) + 1]) + Nibble(t[Len(h) + 2])
      BY <1>5, <3>1
    <3> QED
      BY <1>1, <3>2 DEF c
  <2>4. \A i \in 1..(k + 1) : bt[i] = Append(bs, c)[i]
    BY <1>2, <2>1, <2>2, <2>3
  <2> QED
    BY <1>5, <2>1, <2>4, SeqEqual
<1> QED
  BY <1>1, <1>2, <1>4, <1>6, <1>7 DEF bs, bt, t, c

BigEndianStep == [n \in Nat |-> [c \in Byte |-> 256 * n + c]]

LEMMA BigEndianStepType == BigEndianStep \in [Nat -> [Byte -> Nat]]
  BY DEF BigEndianStep, Byte

LEMMA BigEndianFold ==
    ASSUME NEW s \in Seq(Byte)
    PROVE  \E v : Folds(v, Byte, Nat, 0, BigEndianStep, s) /\ BigEndian(s) = v[Len(s)]
<1> DEFINE Rhs(v) == [n \in 0..Len(s) |-> IF n = 0 THEN 0 ELSE 256 * v[n - 1] + s[n]]
<1>0. Len(s) \in Nat /\ \A n \in 1..Len(s) : s[n] \in Byte
  OBVIOUS
<1>1. PICK f : Folds(f, Byte, Nat, 0, BigEndianStep, s)
  BY BigEndianStepType, FoldExists
<1>2. f = Rhs(f)
  <2>1. f \in [0..Len(s) -> Nat] /\ f[0] = 0
    BY <1>1 DEF Folds
  <2>2. ASSUME NEW n \in 1..Len(s)
        PROVE  f[n] = 256 * f[n - 1] + s[n]
    <3>1. f[n] = BigEndianStep[f[n - 1]][s[n]]
      BY <1>1 DEF Folds
    <3>2. f[n - 1] \in Nat /\ s[n] \in Byte
      BY <1>0, <2>1
    <3> QED
      BY <3>1, <3>2 DEF BigEndianStep
  <2> QED
    BY <1>0, <2>1, <2>2
<1> DEFINE v == CHOOSE g : g = Rhs(g)
<1>3. v = Rhs(v)
  BY <1>2
<1>4. BigEndian(s) = v[Len(s)]
  BY DEF BigEndian
<1> HIDE DEF v
<1>5. Folds(v, Byte, Nat, 0, BigEndianStep, s)
  <2>1. Over(v, 0..Len(s)) /\ v[0] = 0
    BY <1>0, <1>3 DEF Over
  <2>2. ASSUME NEW n \in 1..Len(s), v[n - 1] \in Nat
        PROVE  v[n] = BigEndianStep[v[n - 1]][s[n]]
    <3>1. v[n] = 256 * v[n - 1] + s[n]
      BY <1>0, <1>3
    <3>2. \A m \in Nat, c \in Byte : BigEndianStep[m][c] = 256 * m + c
      BY DEF BigEndianStep
    <3> QED
      BY <1>0, <2>2, <3>1, <3>2
  <2> QED
    BY <2>1, <2>2, BigEndianStepType, FoldEquations
<1> QED
  BY <1>4, <1>5

LEMMA BigEndianUnfold ==
    /\ BigEndian(<<>>) = 0
    /\ \A t \in Seq(Byte) :
          /\ BigEndian(t) \in Nat
          /\ \A c \in Byte : BigEndian(Append(t, c)) = 256 * BigEndian(t) + c
<1>1. BigEndian(<<>>) = 0
  BY <<>> \in Seq(Byte), BigEndianFold DEF Folds
<1>2. ASSUME NEW t \in Seq(Byte), NEW c \in Byte
      PROVE  BigEndian(t) \in Nat /\ BigEndian(Append(t, c)) = 256 * BigEndian(t) + c
  <2>1. PICK f : Folds(f, Byte, Nat, 0, BigEndianStep, t) /\ BigEndian(t) = f[Len(t)]
    BY BigEndianFold
  <2>2. PICK g : /\ Folds(g, Byte, Nat, 0, BigEndianStep, Append(t, c))
                 /\ BigEndian(Append(t, c)) = g[Len(Append(t, c))]
    BY Append(t, c) \in Seq(Byte), BigEndianFold
  <2>3. Folds(f, Byte, Nat, 0, BigEndianStep, t) /\ Folds(g, Byte, Nat, 0, BigEndianStep, Append(t, c))
    BY <2>1, <2>2
  <2>4. f[Len(t)] \in Nat /\ g[Len(Append(t, c))] = BigEndianStep[f[Len(t)]][c]
    BY <2>3, FoldAppend
  <2> QED
    BY <2>1, <2>2, <2>4 DEF BigEndianStep
<1> QED
  BY <1>1, <1>2, 0 \in Byte DEF Byte

\* A number's digits, padded to an even count.
Padded(n) == IF Len(Hex(n)) % 2 = 1 THEN <<Zero>> \o Hex(n) ELSE Hex(n)

LEMMA EmptyHex == /\ <<>> \in Seq(HexChar) /\ Len(<<>>) % 2 = 0 /\ Bytes(<<>>) = <<>>
  BY DEF Bytes

LEMMA PaddedSmall ==
    ASSUME NEW a \in 0..15, NEW b \in 0..15
    PROVE  /\ Bytes(Append(Append(<<>>, HexDigit(a)), HexDigit(b))) = <<16 * a + b>>
           /\ BigEndian(<<16 * a + b>>) = 16 * a + b
<1> DEFINE c == 16 * a + b
<1>1. HexDigit(a) \in HexChar /\ HexDigit(b) \in HexChar
      /\ Nibble(HexDigit(a)) = a /\ Nibble(HexDigit(b)) = b
  BY HexDigits
<1>2. Bytes(Append(Append(<<>>, HexDigit(a)), HexDigit(b))) = Append(<<>>, c)
  <2> DEFINE x == HexDigit(a)
             y == HexDigit(b)
             z == 16 * Nibble(x) + Nibble(y)
  <2>1. Bytes(Append(Append(<<>>, x), y)) = Append(Bytes(<<>>), z)
    BY <1>1, EmptyHex, BytesMore, Zenon
  <2>2. z = c
    BY <1>1
  <2> QED
    BY <2>1, <2>2, EmptyHex, Zenon
<1>3. c \in Byte /\ c \in Nat
  BY DEF Byte
<1>4. BigEndian(Append(<<>>, c)) = 256 * BigEndian(<<>>) + c /\ BigEndian(<<>>) = 0
  BY <1>3, <<>> \in Seq(Byte), BigEndianUnfold
<1>5. BigEndian(Append(<<>>, c)) = c
  BY <1>3, <1>4
<1>6. Append(<<>>, c) = <<c>>
  OBVIOUS
<1> QED
  BY <1>2, <1>5, <1>6, Zenon

(***************************************************************************)
(* A number of any size, in hexadecimal and padded, is read as itself.     *)
(***************************************************************************)
LEMMA PaddedReadsBack ==
    \A n \in Nat : /\ Hex(n) \in Seq(HexChar) /\ Len(Hex(n)) >= 1
                   /\ Padded(n) \in Seq(HexChar) /\ Len(Padded(n)) % 2 = 0
                   /\ BigEndian(Bytes(Padded(n))) = n
<1> DEFINE Good(n) == /\ Hex(n) \in Seq(HexChar) /\ Len(Hex(n)) >= 1
                      /\ Padded(n) \in Seq(HexChar) /\ Len(Padded(n)) % 2 = 0
                      /\ BigEndian(Bytes(Padded(n))) = n
           T == {n \in Nat : Good(n)}
<1>1. ASSUME NEW n \in Nat, \A m \in 0..(n - 1) : m \in T
      PROVE  Good(n)
  <2>1. CASE n < 16
    <3> DEFINE x == HexDigit(n)
               w == <<x>>
               p == Append(Append(<<>>, Zero), x)
    <3>1. Hex(n) = w
      BY <2>1, HexUnfold
    <3>2. x \in HexChar /\ Zero \in HexChar /\ Zero = HexDigit(0) /\ n \in 0..15 /\ 0 \in 0..15
      BY <2>1, HexDigits DEF HexDigit, Zero
    <3>3. w \in Seq(HexChar) /\ Len(w) = 1
      BY <3>2, Single
    <3>4. Padded(n) = <<Zero>> \o w
      BY <3>1, <3>3 DEF Padded
    <3>5. <<Zero>> \o w = p
      BY DEF Zero
    <3>6. p \in Seq(HexChar) /\ Len(p) % 2 = 0
      BY <3>2, EmptyHex, BytesMore, Zenon
    <3>7. BigEndian(Bytes(p)) = 16 * 0 + n
      BY <3>2, PaddedSmall, Zenon
    <3> HIDE DEF w, p
    <3>8. 16 * 0 + n = n
      OBVIOUS
    <3>9. Padded(n) = p /\ Hex(n) = w
      BY <3>1, <3>4, <3>5
    <3>10. Len(w) >= 1
      BY <3>3
    <3> QED
      BY <3>3, <3>6, <3>7, <3>8, <3>9, <3>10, Zenon
  <2>2. CASE ~(n < 16)
    <3> DEFINE m == n \div 16
               b == n % 16
               x == HexDigit(b)
    <3>1. m \in 1..(n - 1) /\ m \in Nat /\ b \in 0..15 /\ n = 16 * m + b
      BY <2>2
    <3>2. Hex(n) = Append(Hex(m), x)
      BY <2>2, HexUnfold
    <3>3. Good(m)
      BY <1>1, <3>1
    <3>4. x \in HexChar /\ Nibble(x) = b
      BY <3>1, HexDigits
    <3> HIDE DEF b, x
    <3>5. Hex(m) \in Seq(HexChar) /\ Len(Hex(m)) \in Nat /\ Len(Hex(m)) >= 1
      BY <3>3
    <3>6. Hex(n) \in Seq(HexChar) /\ Len(Hex(n)) = Len(Hex(m)) + 1 /\ Len(Hex(n)) >= 1
      BY <3>2, <3>4, <3>5, AppendProperties
    <3>7. CASE m < 16
      <4> DEFINE y == HexDigit(m)
                 w == <<y>>
                 p == Append(Append(<<>>, y), x)
      <4>1. Hex(m) = w /\ m \in 0..15
        BY <3>1, <3>7, HexUnfold
      <4>2. y \in HexChar
        BY <4>1, HexDigits
      <4>3. w \in Seq(HexChar) /\ Len(w) = 1 /\ w = Append(<<>>, y)
        BY <4>2, Single
      <4>4. p \in Seq(HexChar) /\ Len(p) % 2 = 0
        BY <3>4, <4>2, EmptyHex, BytesMore, Zenon
      <4>5. BigEndian(Bytes(p)) = 16 * m + b
        BY <3>1, <4>1, PaddedSmall, Zenon DEF x
      <4> HIDE DEF y, p, w
      <4>6. Hex(n) = p
        BY <3>2, <4>1, <4>3 DEF p
      <4>7. Padded(n) = p
        BY <4>4, <4>6 DEF Padded
      <4> QED
        BY <3>1, <3>6, <4>4, <4>5, <4>7
    <3>8. CASE ~(m < 16)
      <4> DEFINE k == m \div 16
                 a == m % 16
                 y == HexDigit(a)
                 h == Hex(k)
                 q == Padded(k)
                 p == Append(Append(q, y), x)
      <4>1. k \in 1..(m - 1) /\ k \in Nat /\ a \in 0..15 /\ m = 16 * k + a /\ k \in 0..(n - 1)
        BY <3>1, <3>8
      <4>2. Hex(m) = Append(h, y)
        BY <3>8, <3>1, HexUnfold
      <4>3. Good(k)
        BY <1>1, <4>1
      <4>4. y \in HexChar /\ Nibble(y) = a
        BY <4>1, HexDigits
      <4> HIDE DEF k, a, y
      <4>5. /\ h \in Seq(HexChar) /\ Len(h) \in Nat
            /\ q \in Seq(HexChar) /\ Len(q) % 2 = 0 /\ BigEndian(Bytes(q)) = k
        BY <4>1, <4>3
      <4>6. q = IF Len(h) % 2 = 1 THEN <<Zero>> \o h ELSE h
        BY DEF Padded
      <4> HIDE DEF h, q
      <4>7. /\ p \in Seq(HexChar) /\ Len(p) % 2 = 0
            /\ Bytes(q) \in Seq(Byte) /\ 16 * Nibble(y) + Nibble(x) \in Byte
            /\ Bytes(p) = Append(Bytes(q), 16 * Nibble(y) + Nibble(x))
        BY <3>4, <4>4, <4>5, BytesMore
      <4>8. BigEndian(Bytes(p)) = 256 * BigEndian(Bytes(q)) + (16 * Nibble(y) + Nibble(x))
        <5> HIDE DEF p
        <5> QED BY <4>7, BigEndianUnfold
      <4>9. 256 * k + (16 * a + b) = n
        BY <3>1, <4>1
      <4>10. BigEndian(Bytes(p)) = n
        BY <3>4, <4>4, <4>5, <4>8, <4>9
      <4>11. Hex(n) = Append(Append(h, y), x) /\ Len(Hex(n)) = Len(h) + 2
        <5>1. Len(Hex(m)) = Len(h) + 1
          BY <4>2, <4>4, <4>5, AppendProperties
        <5> QED
          BY <3>2, <3>6, <4>2, <4>5, <5>1
      <4>12. Padded(n) = p
        <5>1. CASE Len(h) % 2 = 1
          <6> DEFINE z == <<Zero>>
          <6>1. z \in Seq(HexChar)
            BY HexDigits, Single
          <6>2. q = z \o h
            BY <4>6, <5>1
          <6>3. Padded(n) = z \o Hex(n)
            <7>1. Len(Hex(n)) % 2 = 1
              BY <4>5, <4>11, <5>1
            <7> QED
              BY <7>1 DEF Padded
          <6> HIDE DEF z
          <6>4. Append(h, y) \in Seq(HexChar)
            BY <4>4, <4>5, AppendProperties
          <6>5. z \o Append(Append(h, y), x) = Append(z \o Append(h, y), x)
            BY <3>4, <6>1, <6>4, ConcatAppend
          <6>6. z \o Append(h, y) = Append(z \o h, y)
            BY <4>4, <4>5, <6>1, ConcatAppend
          <6> QED
            BY <4>11, <6>2, <6>3, <6>5, <6>6
        <5>2. CASE ~(Len(h) % 2 = 1)
          BY <4>5, <4>6, <4>11, <5>2 DEF Padded
        <5> QED
          BY <5>1, <5>2
      <4> HIDE DEF p
      <4> QED
        BY <3>6, <4>7, <4>10, <4>12
    <3> QED
      BY <3>7, <3>8
  <2> QED
    BY <2>1, <2>2
<1>2. \A n \in Nat : n \in T
  <2>1. ASSUME NEW n \in Nat, \A m \in 0..(n - 1) : m \in T
        PROVE  n \in T
    BY <1>1, <2>1
  <2> HIDE DEF T
  <2> QED BY <2>1, NatSetStrongInduction
<1> QED
  BY <1>2

LEMMA StringReadsBack ==
    ASSUME NEW s \in Seq(Byte)
    PROVE  /\ stringToHex(s) \in Seq(HexChar)
           /\ Len(stringToHex(s)) % 2 = 0
           /\ Bytes(stringToHex(s)) = s
<1> DEFINE h == stringToHex(s)
           bs == Bytes(h)
           n == Len(s)
<1>1. n \in Nat /\ s \in [1..n -> Byte]
  OBVIOUS
<1>2. \A i \in 1..n : /\ s[i] \div 16 \in 0..15 /\ s[i] % 16 \in 0..15
                      /\ 16 * (s[i] \div 16) + (s[i] % 16) = s[i]
  <2>1. \A x \in 0..255 : x \div 16 \in 0..15 /\ x % 16 \in 0..15 /\ 16 * (x \div 16) + (x % 16) = x
    OBVIOUS
  <2>2. \A i \in 1..n : s[i] \in 0..255
    BY <1>1 DEF Byte
  <2> QED
    BY <2>1, <2>2, Zenon
<1>3. h = [i \in 1..(2 * n) |-> HexDigit(IF i % 2 = 1 THEN s[(i + 1) \div 2] \div 16
                                          ELSE s[i \div 2] % 16)]
  BY DEF stringToHex
<1> HIDE DEF h, n
<1>4. ASSUME NEW i \in 1..(2 * n)
      PROVE  h[i] \in HexChar
  <2>1. CASE i % 2 = 1
    <3>1. (i + 1) \div 2 \in 1..n
      BY <1>1, <2>1
    <3>2. h[i] = HexDigit(s[(i + 1) \div 2] \div 16)
      BY <1>3, <2>1
    <3> QED
      BY <1>2, <3>1, <3>2, HexDigits
  <2>2. CASE i % 2 # 1
    <3>1. i \div 2 \in 1..n
      BY <1>1, <2>2
    <3>2. h[i] = HexDigit(s[i \div 2] % 16)
      BY <1>3, <2>2
    <3> QED
      BY <1>2, <3>1, <3>2, HexDigits
  <2> QED
    BY <2>1, <2>2
<1>5. h \in Seq(HexChar) /\ Len(h) = 2 * n
  <2>1. 2 * n \in Nat
    BY <1>1
  <2>2. h = [i \in 1..(2 * n) |-> h[i]]
    BY <1>3
  <2> QED
    BY <1>4, <2>1, <2>2
<1>6. Len(h) % 2 = 0 /\ Len(h) \div 2 = n
  BY <1>1, <1>5
<1>7. ASSUME NEW i \in 1..n
      PROVE  16 * Nibble(h[2 * i - 1]) + Nibble(h[2 * i]) = s[i]
  <2>1. /\ 2 * i - 1 \in 1..(2 * n) /\ (2 * i - 1) % 2 = 1 /\ ((2 * i - 1) + 1) \div 2 = i
        /\ 2 * i \in 1..(2 * n) /\ (2 * i) % 2 # 1 /\ (2 * i) \div 2 = i
    BY <1>1
  <2>2. h[2 * i - 1] = HexDigit(s[i] \div 16)
    BY <1>3, <2>1
  <2>3. h[2 * i] = HexDigit(s[i] % 16)
    BY <1>3, <2>1
  <2>4. Nibble(h[2 * i - 1]) = s[i] \div 16 /\ Nibble(h[2 * i]) = s[i] % 16
    BY <1>2, <2>2, <2>3, HexDigits
  <2> QED
    BY <1>2, <2>4
<1>8. bs = [i \in 1..n |-> s[i]]
  BY <1>6, <1>7 DEF Bytes
<1>9. [i \in 1..n |-> s[i]] = s
  BY <1>1
<1> QED
  BY <1>5, <1>6, <1>8, <1>9 DEF h

-----------------------------------------------------------------------------
(* Payloads *)

LEMMA ArgumentType == \A a \in Added : Argument(a) \in Seq(HexChar) /\ Argument(a) \in Seq(Byte)
<1> SUFFICES ASSUME NEW a \in Added
             PROVE  Argument(a) \in Seq(HexChar)
  BY HexIsByte
<1>1. CASE a.is = "number"
  <2>1. a.of \in Seq(Digit)
    BY <1>1 DEF Added
  <2>2. Value(a.of) \in Nat
    BY <2>1, ValueUnfold
  <2>3. getHexValue(a.of) = Padded(Value(a.of))
    BY DEF getHexValue, Padded
  <2> QED
    BY <1>1, <2>2, <2>3, PaddedReadsBack DEF Argument
<1>2. CASE a.is # "number"
  <2>1. a.of \in Seq(Byte)
    BY <1>2 DEF Added
  <2> QED
    BY <1>2, <2>1, StringReadsBack DEF Argument
<1> QED
  BY <1>1, <1>2

(***************************************************************************)
(* An argument is read as what was added, a number by its value.           *)
(***************************************************************************)
LEMMA ArgumentReadsBack ==
    \A a \in Added : /\ IsHex(Argument(a))
                     /\ IF a.is = "number" THEN BigEndian(Bytes(Argument(a))) = Value(a.of)
                        ELSE Bytes(Argument(a)) = a.of
<1> SUFFICES ASSUME NEW a \in Added
             PROVE  /\ Len(Argument(a)) % 2 = 0
                    /\ IF a.is = "number" THEN BigEndian(Bytes(Argument(a))) = Value(a.of)
                       ELSE Bytes(Argument(a)) = a.of
  <2>1. ASSUME NEW a \in Added
        PROVE  \A i \in DOMAIN Argument(a) : Nibble(Argument(a)[i]) < 16
    <3>1. \A i \in DOMAIN Argument(a) : Argument(a)[i] \in HexChar
      BY ArgumentType
    <3>2. \A c \in HexChar : Nibble(c) < 16
      BY HexDigits
    <3> QED
      BY <3>1, <3>2, Zenon
  <2> QED
    BY <2>1, Zenon DEF IsHex
<1>1. CASE a.is = "number"
  <2>1. a.of \in Seq(Digit)
    BY <1>1 DEF Added
  <2>2. Value(a.of) \in Nat
    BY <2>1, ValueUnfold
  <2>3. Argument(a) = Padded(Value(a.of))
    BY <1>1 DEF Argument, getHexValue, Padded
  <2> QED
    BY <1>1, <2>2, <2>3, PaddedReadsBack
<1>2. CASE a.is # "number"
  <2>1. a.of \in Seq(Byte)
    BY <1>2 DEF Added
  <2>2. Argument(a) = stringToHex(a.of)
    BY <1>2 DEF Argument
  <2> QED
    BY <1>2, <2>1, <2>2, StringReadsBack
<1> QED
  BY <1>1, <1>2

LEMMA Separator == <<At>> \in Seq(Byte) /\ At \in Byte
  BY Single, At \in Byte DEF At, Byte

DataStep == [d \in Seq(Byte) |-> [a \in Added |-> d \o (<<At>> \o Argument(a))]]

LEMMA DataStepType == DataStep \in [Seq(Byte) -> [Added -> Seq(Byte)]] /\ <<>> \in Seq(Byte)
<1>1. \A d \in Seq(Byte), a \in Added : d \o (<<At>> \o Argument(a)) \in Seq(Byte)
  <2> DEFINE w == <<At>>
  <2>1. w \in Seq(Byte)
    BY Separator
  <2> HIDE DEF w
  <2>2. \A d \in Seq(Byte), a \in Added : d \o (w \o Argument(a)) \in Seq(Byte)
    BY <2>1, ArgumentType, ConcatProperties
  <2> QED
    BY <2>2 DEF w
<1> QED
  BY <1>1 DEF DataStep

LEMMA DataFold ==
    ASSUME NEW s \in Seq(Added)
    PROVE  \E t : Folds(t, Added, Seq(Byte), <<>>, DataStep, s) /\ asOnData(s) = t[Len(s)]
<1> DEFINE Rhs(t) == [n \in 0..Len(s) |->
                         IF n = 0 THEN <<>> ELSE t[n - 1] \o (<<At>> \o Argument(s[n]))]
<1>0. Len(s) \in Nat /\ \A n \in 1..Len(s) : s[n] \in Added
  OBVIOUS
<1>1. PICK f : Folds(f, Added, Seq(Byte), <<>>, DataStep, s)
  BY DataStepType, FoldExists
<1>2. f = Rhs(f)
  <2>1. f \in [0..Len(s) -> Seq(Byte)] /\ f[0] = <<>>
    BY <1>1 DEF Folds
  <2>2. ASSUME NEW n \in 1..Len(s)
        PROVE  f[n] = f[n - 1] \o (<<At>> \o Argument(s[n]))
    <3>1. f[n] = DataStep[f[n - 1]][s[n]]
      BY <1>1 DEF Folds
    <3>2. f[n - 1] \in Seq(Byte) /\ s[n] \in Added
      BY <1>0, <2>1
    <3> QED
      BY <3>1, <3>2 DEF DataStep
  <2>3. ASSUME NEW n \in 0..Len(s)
        PROVE  f[n] = Rhs(f)[n]
    <3>1. n = 0 \/ (n # 0 /\ n \in 1..Len(s))
      BY <1>0
    <3> QED
      BY <2>1, <2>2, <3>1, Zenon
  <2>4. Rhs(f) = [n \in 0..Len(s) |-> Rhs(f)[n]] /\ f = [n \in 0..Len(s) |-> f[n]]
    BY <2>1, Zenon
  <2> QED
    BY <2>3, <2>4, Zenon
<1> DEFINE t == CHOOSE g : g = Rhs(g)
<1>3. t = Rhs(t)
  BY <1>2
<1>4. asOnData(s) = t[Len(s)]
  BY DEF asOnData
<1> HIDE DEF t
<1>5. Folds(t, Added, Seq(Byte), <<>>, DataStep, s)
  <2>1. Over(t, 0..Len(s)) /\ t[0] = <<>>
    BY <1>0, <1>3 DEF Over
  <2>2. ASSUME NEW n \in 1..Len(s), t[n - 1] \in Seq(Byte)
        PROVE  t[n] = DataStep[t[n - 1]][s[n]]
    <3>1. t[n] = t[n - 1] \o (<<At>> \o Argument(s[n]))
      <4>1. n \in 0..Len(s) /\ n # 0
        BY <1>0
      <4>2. t[n] = Rhs(t)[n]
        BY <1>3, Zenon
      <4> QED
        BY <4>1, <4>2, Zenon
    <3>2. \A u \in Seq(Byte), c \in Added : DataStep[u][c] = u \o (<<At>> \o Argument(c))
      BY DEF DataStep
    <3> QED
      BY <1>0, <2>2, <3>1, <3>2, Zenon
  <2> QED
    BY <2>1, <2>2, DataStepType, FoldEquations
<1> QED
  BY <1>4, <1>5

LEMMA DataUnfold ==
    /\ asOnData(<<>>) = <<>>
    /\ \A s \in Seq(Added) :
          /\ asOnData(s) \in Seq(Byte)
          /\ \A c \in Added : asOnData(Append(s, c)) = asOnData(s) \o (<<At>> \o Argument(c))
<1>1. asOnData(<<>>) = <<>>
  BY <<>> \in Seq(Added), DataFold DEF Folds
<1>2. ASSUME NEW s \in Seq(Added)
      PROVE  asOnData(s) \in Seq(Byte)
  <2>1. PICK f : Folds(f, Added, Seq(Byte), <<>>, DataStep, s) /\ asOnData(s) = f[Len(s)]
    BY DataFold
  <2>2. Len(s) \in 0..Len(s) /\ f \in [0..Len(s) -> Seq(Byte)]
    BY <2>1 DEF Folds
  <2> QED
    BY <2>1, <2>2, Zenon
<1>3. ASSUME NEW s \in Seq(Added), NEW c \in Added
      PROVE  asOnData(Append(s, c)) = asOnData(s) \o (<<At>> \o Argument(c))
  <2>1. PICK f : Folds(f, Added, Seq(Byte), <<>>, DataStep, s) /\ asOnData(s) = f[Len(s)]
    BY DataFold
  <2>2. PICK g : /\ Folds(g, Added, Seq(Byte), <<>>, DataStep, Append(s, c))
                 /\ asOnData(Append(s, c)) = g[Len(Append(s, c))]
    BY Append(s, c) \in Seq(Added), DataFold
  <2>3. /\ Folds(f, Added, Seq(Byte), <<>>, DataStep, s)
        /\ Folds(g, Added, Seq(Byte), <<>>, DataStep, Append(s, c))
    BY <2>1, <2>2
  <2>4. f[Len(s)] \in Seq(Byte) /\ g[Len(Append(s, c))] = DataStep[f[Len(s)]][c]
    BY <2>3, FoldAppend
  <2> QED
    BY <2>1, <2>2, <2>4 DEF DataStep
<1> QED
  BY <1>1, <1>2, <1>3

PartsSet == Seq(Seq(Byte)) \ {<<>>}

PartsStep == [p \in PartsSet |-> [c \in Byte |-> AddChar(p, c)]]

LEMMA PartsStepType == PartsStep \in [PartsSet -> [Byte -> PartsSet]] /\ <<<<>>>> \in PartsSet
<1>1. ASSUME NEW p \in PartsSet, NEW c \in Byte
      PROVE  AddChar(p, c) \in PartsSet
  <2>1. p \in Seq(Seq(Byte)) /\ p # <<>> /\ <<>> \in Seq(Byte)
    BY DEF PartsSet
  <2>2. Append(p, <<>>) \in Seq(Seq(Byte)) /\ Append(p, <<>>) # <<>>
    BY <2>1, AppendProperties
  <2>3. Len(p) \in 1..Len(p) /\ p[Len(p)] \in Seq(Byte)
    BY <2>1
  <2> DEFINE q == [p EXCEPT ![Len(p)] = Append(p[Len(p)], c)]
  <2>4. q \in Seq(Seq(Byte)) /\ Len(q) = Len(p)
    <3> DEFINE w == Append(p[Len(p)], c)
    <3>1. w \in Seq(Byte)
      BY <2>3, AppendProperties
    <3> HIDE DEF w
    <3>2. [p EXCEPT ![Len(p)] = w] \in Seq(Seq(Byte)) /\ Len([p EXCEPT ![Len(p)] = w]) = Len(p)
      BY <2>1, <2>3, <3>1, ExceptSeq
    <3> QED
      BY <3>2 DEF w
  <2>5. q # <<>>
    <3> HIDE DEF q
    <3> QED BY <2>1, <2>3, <2>4
  <2> QED
    BY <2>2, <2>4, <2>5 DEF AddChar, PartsSet
<1>2. <<<<>>>> \in PartsSet
  <2> DEFINE e == <<>>
  <2>1. e \in Seq(Byte)
    OBVIOUS
  <2> HIDE DEF e
  <2>2. <<e>> \in Seq(Seq(Byte)) /\ Len(<<e>>) = 1
    BY <2>1, Single
  <2>3. <<e>> # <<>>
    BY <2>2
  <2> QED
    BY <2>2, <2>3 DEF e, PartsSet
<1> QED
  BY <1>1, <1>2 DEF PartsStep

LEMMA PartsFold ==
    ASSUME NEW s \in Seq(Byte)
    PROVE  \E t : Folds(t, Byte, PartsSet, <<<<>>>>, PartsStep, s) /\ Parts(s) = t[Len(s)]
<1> DEFINE Rhs(t) == [n \in 0..Len(s) |->
                         IF n = 0 THEN <<<<>>>> ELSE AddChar(t[n - 1], s[n])]
<1>0. Len(s) \in Nat /\ \A n \in 1..Len(s) : s[n] \in Byte
  OBVIOUS
<1>1. PICK f : Folds(f, Byte, PartsSet, <<<<>>>>, PartsStep, s)
  BY PartsStepType, FoldExists
<1>2. f = Rhs(f)
  <2>1. f \in [0..Len(s) -> PartsSet] /\ f[0] = <<<<>>>>
    BY <1>1 DEF Folds
  <2>2. ASSUME NEW n \in 1..Len(s)
        PROVE  f[n] = AddChar(f[n - 1], s[n])
    <3>1. f[n] = PartsStep[f[n - 1]][s[n]]
      BY <1>1 DEF Folds
    <3>2. f[n - 1] \in PartsSet /\ s[n] \in Byte
      BY <1>0, <2>1
    <3> QED
      BY <3>1, <3>2 DEF PartsStep
  <2>3. ASSUME NEW n \in 0..Len(s)
        PROVE  f[n] = Rhs(f)[n]
    <3>1. n = 0 \/ (n # 0 /\ n \in 1..Len(s))
      BY <1>0
    <3> QED
      BY <2>1, <2>2, <3>1, Zenon
  <2>4. Rhs(f) = [n \in 0..Len(s) |-> Rhs(f)[n]] /\ f = [n \in 0..Len(s) |-> f[n]]
    BY <2>1, Zenon
  <2> QED
    BY <2>3, <2>4, Zenon
<1> DEFINE t == CHOOSE g : g = Rhs(g)
<1>3. t = Rhs(t)
  BY <1>2
<1>4. Parts(s) = t[Len(s)]
  BY DEF Parts
<1> HIDE DEF t
<1>5. Folds(t, Byte, PartsSet, <<<<>>>>, PartsStep, s)
  <2>1. Over(t, 0..Len(s)) /\ t[0] = <<<<>>>>
    BY <1>0, <1>3 DEF Over
  <2>2. ASSUME NEW n \in 1..Len(s), t[n - 1] \in PartsSet
        PROVE  t[n] = PartsStep[t[n - 1]][s[n]]
    <3>1. t[n] = AddChar(t[n - 1], s[n])
      <4>1. n \in 0..Len(s) /\ n # 0
        BY <1>0
      <4>2. t[n] = Rhs(t)[n]
        BY <1>3, Zenon
      <4> QED
        BY <4>1, <4>2, Zenon
    <3>2. \A u \in PartsSet, c \in Byte : PartsStep[u][c] = AddChar(u, c)
      BY DEF PartsStep
    <3> QED
      BY <1>0, <2>2, <3>1, <3>2, Zenon
  <2> QED
    BY <2>1, <2>2, PartsStepType, FoldEquations
<1> QED
  BY <1>4, <1>5

LEMMA PartsUnfold ==
    /\ Parts(<<>>) = <<<<>>>>
    /\ \A s \in Seq(Byte) :
          /\ Parts(s) \in PartsSet
          /\ \A c \in Byte : Parts(Append(s, c)) = AddChar(Parts(s), c)
<1>1. Parts(<<>>) = <<<<>>>>
  BY <<>> \in Seq(Byte), PartsFold DEF Folds
<1>2. ASSUME NEW s \in Seq(Byte)
      PROVE  Parts(s) \in PartsSet
  <2>1. PICK f : Folds(f, Byte, PartsSet, <<<<>>>>, PartsStep, s) /\ Parts(s) = f[Len(s)]
    BY PartsFold
  <2>2. Len(s) \in 0..Len(s) /\ f \in [0..Len(s) -> PartsSet]
    BY <2>1 DEF Folds
  <2> QED
    BY <2>1, <2>2, Zenon
<1>3. ASSUME NEW s \in Seq(Byte), NEW c \in Byte
      PROVE  Parts(Append(s, c)) = AddChar(Parts(s), c)
  <2>1. PICK f : Folds(f, Byte, PartsSet, <<<<>>>>, PartsStep, s) /\ Parts(s) = f[Len(s)]
    BY PartsFold
  <2>2. PICK g : /\ Folds(g, Byte, PartsSet, <<<<>>>>, PartsStep, Append(s, c))
                 /\ Parts(Append(s, c)) = g[Len(Append(s, c))]
    BY Append(s, c) \in Seq(Byte), PartsFold
  <2>3. /\ Folds(f, Byte, PartsSet, <<<<>>>>, PartsStep, s)
        /\ Folds(g, Byte, PartsSet, <<<<>>>>, PartsStep, Append(s, c))
    BY <2>1, <2>2
  <2>4. f[Len(s)] \in PartsSet /\ g[Len(Append(s, c))] = PartsStep[f[Len(s)]][c]
    BY <2>3, FoldAppend
  <2> QED
    BY <2>1, <2>2, <2>4 DEF PartsStep
<1> QED
  BY <1>1, <1>2, <1>3

LEMMA DataConcat ==
    \A a \in Seq(Added), b \in Seq(Added) : asOnData(a \o b) = asOnData(a) \o asOnData(b)
<1> DEFINE T == {b \in Seq(Added) : \A a \in Seq(Added) :
                    asOnData(a \o b) = asOnData(a) \o asOnData(b)}
<1>1. <<>> \in T
  <2>1. ASSUME NEW a \in Seq(Added)
        PROVE  asOnData(a \o <<>>) = asOnData(a) \o asOnData(<<>>)
    <3>1. a \o <<>> = a /\ asOnData(a) \in Seq(Byte) /\ asOnData(<<>>) = <<>>
      BY DataUnfold, ConcatEmptySeq
    <3>2. asOnData(a) \o <<>> = asOnData(a)
      BY <3>1, ConcatEmptySeq
    <3> QED
      BY <3>1, <3>2
  <2> QED
    BY <2>1
<1>2. ASSUME NEW b \in Seq(Added), NEW e \in Added, b \in T
      PROVE  Append(b, e) \in T
  <2> SUFFICES ASSUME NEW a \in Seq(Added)
               PROVE  asOnData(a \o Append(b, e)) = asOnData(a) \o asOnData(Append(b, e))
    BY AppendProperties
  <2> DEFINE x == a \o b
             w == <<At>> \o Argument(e)
             da == asOnData(a)
             db == asOnData(b)
  <2>1. a \o Append(b, e) = Append(x, e) /\ x \in Seq(Added)
    BY ConcatAppend, ConcatProperties
  <2>2. da \in Seq(Byte) /\ db \in Seq(Byte) /\ w \in Seq(Byte)
    <3>1. da \in Seq(Byte) /\ db \in Seq(Byte)
      BY DataUnfold
    <3>2. Argument(e) \in Seq(Byte)
      BY ArgumentType
    <3> DEFINE z == <<At>>
    <3>3. z \in Seq(Byte)
      BY Separator
    <3> HIDE DEF z
    <3>4. z \o Argument(e) \in Seq(Byte)
      BY <3>2, <3>3, ConcatProperties
    <3> QED
      BY <3>1, <3>4 DEF z
  <2>3. asOnData(x) = da \o db
    BY <1>2
  <2>4. asOnData(Append(x, e)) = asOnData(x) \o w /\ asOnData(Append(b, e)) = db \o w
    BY <2>1, DataUnfold, Zenon
  <2> HIDE DEF x, w, da, db
  <2>5. (da \o db) \o w = da \o (db \o w)
    BY <2>2, ConcatAssociative
  <2> QED
    BY <2>1, <2>3, <2>4, <2>5 DEF da
<1>3. \A b \in Seq(Added) : b \in T
  <2> HIDE DEF T
  <2> QED BY <1>1, <1>2, SeqSetInduction
<1> QED
  BY <1>3

\* The last part goes on with w.
Longer(p, w) == [p EXCEPT ![Len(p)] = p[Len(p)] \o w]

LEMMA LongerType ==
    ASSUME NEW p \in PartsSet, NEW w \in Seq(Byte)
    PROVE  /\ Len(p) \in Nat \ {0} /\ p \in Seq(Seq(Byte)) /\ p[Len(p)] \in Seq(Byte)
           /\ Longer(p, w) \in Seq(Seq(Byte)) /\ Len(Longer(p, w)) = Len(p)
           /\ \A i \in 1..Len(p) :
                 Longer(p, w)[i] = IF i = Len(p) THEN p[Len(p)] \o w ELSE p[i]
<1>1. Len(p) \in Nat \ {0} /\ p \in Seq(Seq(Byte)) /\ p[Len(p)] \in Seq(Byte) /\ Len(p) \in 1..Len(p)
  BY DEF PartsSet
<1> DEFINE e == p[Len(p)] \o w
<1>2. e \in Seq(Byte)
  <2> DEFINE x == p[Len(p)]
  <2>1. x \in Seq(Byte)
    BY <1>1
  <2> HIDE DEF x
  <2> QED BY <2>1, ConcatProperties DEF x
<1> HIDE DEF e
<1>3. /\ [p EXCEPT ![Len(p)] = e] \in Seq(Seq(Byte)) /\ Len([p EXCEPT ![Len(p)] = e]) = Len(p)
      /\ \A i \in 1..Len(p) : [p EXCEPT ![Len(p)] = e][i] = IF i = Len(p) THEN e ELSE p[i]
  BY <1>1, <1>2, ExceptSeq
<1> QED
  BY <1>1, <1>3 DEF Longer, e

(***************************************************************************)
(* Characters that are not a separator go to the last part.                *)
(***************************************************************************)
LEMMA PartsWord ==
    ASSUME NEW x \in Seq(Byte)
    PROVE  \A w \in Seq(Byte \ {At}) : Parts(x \o w) = Longer(Parts(x), w)
<1> DEFINE p == Parts(x)
           T == {w \in Seq(Byte \ {At}) : Parts(x \o w) = Longer(p, w)}
<1>0. p \in PartsSet
  BY PartsUnfold
<1>1. <<>> \in T
  <2> DEFINE e == <<>>
  <2>1. x \o <<>> = x
    BY ConcatEmptySeq
  <2>2. e \in Seq(Byte)
    OBVIOUS
  <2> HIDE DEF p
  <2>3. p[Len(p)] \o <<>> = p[Len(p)]
    <3>1. p[Len(p)] \in Seq(Byte)
      BY <1>0, <2>2, LongerType
    <3> QED
      BY <3>1, ConcatEmptySeq
  <2>4. Longer(p, <<>>) = p
    <3> DEFINE l == Longer(p, e)
    <3>1. /\ Len(p) \in Nat \ {0} /\ p \in Seq(Seq(Byte))
          /\ l \in Seq(Seq(Byte)) /\ Len(l) = Len(p)
          /\ \A i \in 1..Len(p) : l[i] = IF i = Len(p) THEN p[Len(p)] \o e ELSE p[i]
      BY <1>0, <2>2, LongerType
    <3> HIDE DEF l
    <3>2. \A i \in 1..Len(p) : l[i] = p[i]
      BY <2>3, <3>1
    <3>3. l = p
      BY <3>1, <3>2, SeqEqual
    <3> QED
      BY <3>3 DEF l
  <2> QED
    BY <2>1, <2>4 DEF p
<1>2. ASSUME NEW w \in Seq(Byte \ {At}), NEW c \in Byte \ {At}, w \in T
      PROVE  Append(w, c) \in T
  <2> DEFINE y == x \o w
             v == Append(w, c)
             q == Longer(p, w)
             l == Longer(p, v)
             r == AddChar(q, c)
  <2>1. w \in Seq(Byte) /\ v \in Seq(Byte) /\ v \in Seq(Byte \ {At}) /\ c \in Byte /\ c # At
    BY AppendProperties
  <2>2. x \o v = Append(y, c) /\ y \in Seq(Byte)
    BY <2>1, ConcatAppend, ConcatProperties
  <2>3. Parts(y) = q
    BY <1>2
  <2>4. Parts(Append(y, c)) = r
    BY <2>1, <2>2, <2>3, PartsUnfold
  <2>5. q \in PartsSet
    BY <2>2, <2>3, PartsUnfold
  <2> HIDE DEF p, v, l, q, r, y
  <2>6. /\ Len(p) \in Nat \ {0} /\ p \in Seq(Seq(Byte)) /\ p[Len(p)] \in Seq(Byte)
        /\ q \in Seq(Seq(Byte)) /\ Len(q) = Len(p)
        /\ \A i \in 1..Len(p) : q[i] = IF i = Len(p) THEN p[Len(p)] \o w ELSE p[i]
    BY <1>0, <2>1, LongerType DEF q
  <2>7. /\ l \in Seq(Seq(Byte)) /\ Len(l) = Len(p)
        /\ \A i \in 1..Len(p) : l[i] = IF i = Len(p) THEN p[Len(p)] \o v ELSE p[i]
    BY <1>0, <2>1, LongerType DEF l
  <2> DEFINE e == Append(q[Len(q)], c)
  <2>8. e \in Seq(Byte) /\ e = p[Len(p)] \o v
    <3> DEFINE u == p[Len(p)]
    <3>0. Len(p) \in 1..Len(p) /\ Len(q) = Len(p) /\ u \in Seq(Byte)
      BY <2>6
    <3>1. u \in Seq(Byte) /\ q[Len(q)] = u \o w
      <4>1. \A i \in 1..Len(p) : q[i] = IF i = Len(p) THEN u \o w ELSE p[i]
        BY <2>6
      <4>2. q[Len(p)] = u \o w
        BY <3>0, <4>1, Zenon
      <4> QED
        BY <3>0, <4>2, Zenon
    <3> HIDE DEF u
    <3>2. u \o w \in Seq(Byte) /\ u \o Append(w, c) = Append(u \o w, c)
      BY <2>1, <3>1, ConcatProperties, ConcatAppend
    <3>3. e = Append(u \o w, c)
      BY <3>1
    <3> HIDE DEF e
    <3>4. e \in Seq(Byte)
      BY <2>1, <3>2, <3>3, AppendProperties
    <3> QED
      BY <3>2, <3>3, <3>4 DEF u, v
  <2>9. r = [q EXCEPT ![Len(q)] = e]
    BY <2>1 DEF r, AddChar
  <2> HIDE DEF e
  <2>10. /\ r \in Seq(Seq(Byte)) /\ Len(r) = Len(q)
         /\ \A i \in 1..Len(q) : r[i] = IF i = Len(q) THEN e ELSE q[i]
    <3>1. Len(q) \in 1..Len(q)
      BY <2>6
    <3> QED
      BY <2>6, <2>8, <2>9, <3>1, ExceptSeq
  <2>11. l = r
    <3>1. \A i \in 1..Len(p) : l[i] = r[i]
      BY <2>6, <2>7, <2>8, <2>10
    <3> QED
      BY <2>6, <2>7, <2>10, <3>1, SeqEqual
  <2> QED
    BY <2>1, <2>2, <2>4, <2>11 DEF l, v, p
<1>3. \A w \in Seq(Byte \ {At}) : w \in T
  <2> HIDE DEF T
  <2> QED BY <1>1, <1>2, SeqSetInduction
<1> QED
  BY <1>3

(***************************************************************************)
(* A separator and what follows it are one more part.                      *)
(***************************************************************************)
LEMMA PartsArgument ==
    ASSUME NEW x \in Seq(Byte), NEW w \in Seq(Byte \ {At}), w \in Seq(Byte)
    PROVE  Parts(x \o (<<At>> \o w)) = Append(Parts(x), w)
<1> DEFINE p == Parts(x)
           y == Append(x, At)
           e == <<>>
           q == Append(p, e)
           z == <<At>>
<1>1. p \in PartsSet /\ p \in Seq(Seq(Byte)) /\ Len(p) \in Nat
  BY PartsUnfold DEF PartsSet
<1>2. y \in Seq(Byte) /\ Parts(y) = q
  <2>1. Parts(Append(x, At)) = AddChar(Parts(x), At)
    BY Separator, PartsUnfold
  <2>2. AddChar(p, At) = Append(p, e)
    BY DEF AddChar
  <2>3. Append(x, At) \in Seq(Byte)
    BY Separator, AppendProperties
  <2> QED
    BY <2>1, <2>2, <2>3
<1>3. x \o (<<At>> \o w) = y \o w
  <2>1. z \in Seq(Byte) /\ y = x \o z
    BY Separator, AppendIsConcat
  <2> HIDE DEF z, y
  <2>2. (x \o z) \o w = x \o (z \o w)
    BY <2>1, ConcatAssociative
  <2> QED
    BY <2>1, <2>2 DEF z
<1>4. Parts(y \o w) = Longer(q, w)
  <2> HIDE DEF y, q
  <2> QED BY <1>2, PartsWord
<1>5. q \in PartsSet
  <2> HIDE DEF y, q
  <2> QED BY <1>2, PartsUnfold
<1>6. /\ q \in Seq(Seq(Byte)) /\ Len(q) = Len(p) + 1
      /\ \A i \in 1..Len(p) : q[i] = p[i]
      /\ q[Len(p) + 1] = e
  <2>1. e \in Seq(Byte)
    OBVIOUS
  <2> HIDE DEF e, p
  <2> QED BY <1>1, <2>1, AppendProperties
<1> DEFINE l == Longer(q, w)
           r == Append(p, w)
<1> HIDE DEF q, p
<1>7. /\ l \in Seq(Seq(Byte)) /\ Len(l) = Len(q)
      /\ \A i \in 1..Len(q) : l[i] = IF i = Len(q) THEN q[Len(q)] \o w ELSE q[i]
  BY <1>5, LongerType
<1>8. /\ r \in Seq(Seq(Byte)) /\ Len(r) = Len(p) + 1
      /\ \A i \in 1..Len(p) : r[i] = p[i]
      /\ r[Len(p) + 1] = w
  BY <1>1, AppendProperties
<1>9. q[Len(q)] \o w = w
  BY <1>1, <1>6, ConcatEmptySeq
<1> HIDE DEF l, r
<1>10. l = r
  <2>1. \A i \in 1..(Len(p) + 1) : l[i] = r[i]
    <3>1. \A i \in 1..Len(p) : l[i] = q[i] /\ q[i] = p[i] /\ r[i] = p[i]
      BY <1>1, <1>6, <1>7, <1>8
    <3>2. Len(p) + 1 \in 1..Len(q) /\ Len(p) + 1 = Len(q)
      BY <1>1, <1>6
    <3>3. l[Len(p) + 1] = w
      BY <1>7, <1>9, <3>2, Zenon
    <3>4. \A i \in 1..(Len(p) + 1) : i \in 1..Len(p) \/ i = Len(p) + 1
      BY <1>1
    <3> QED
      BY <1>8, <3>1, <3>3, <3>4, Zenon
  <2> QED
    BY <1>6, <1>7, <1>8, <2>1, SeqEqual
<1> QED
  BY <1>3, <1>4, <1>10 DEF l, r, p

LEMMA BytesType == ASSUME NEW h \in Seq(HexChar) PROVE Bytes(h) \in Seq(Byte)
<1> DEFINE k == Len(h) \div 2
           bs == Bytes(h)
<1>1. k \in Nat /\ 2 * k <= Len(h) /\ Len(h) \in Nat
  OBVIOUS
<1>2. \A i \in 0..15, j \in 0..15 : 16 * i + j \in Byte
  BY DEF Byte
<1>3. \A i \in 1..k : h[2 * i - 1] \in HexChar /\ h[2 * i] \in HexChar
  <2>1. \A i \in 1..k : 2 * i - 1 \in 1..Len(h) /\ 2 * i \in 1..Len(h)
    BY <1>1
  <2> QED
    BY <2>1
<1>4. \A c \in HexChar : Nibble(c) \in 0..15
  BY HexDigits, Zenon
<1>5. \A i \in 1..k : 16 * Nibble(h[2 * i - 1]) + Nibble(h[2 * i]) \in Byte
  BY <1>2, <1>3, <1>4, Zenon
<1>6. bs = [i \in 1..k |-> 16 * Nibble(h[2 * i - 1]) + Nibble(h[2 * i])]
  BY DEF Bytes
<1> HIDE DEF bs, k
<1> QED
  BY <1>1, <1>5, <1>6 DEF bs

(***************************************************************************)
(* The parts of a payload are the function's name and the arguments.       *)
(***************************************************************************)
LEMMA PayloadParts ==
    ASSUME NEW name \in Seq(Byte \ {At}), name \in Seq(Byte)
    PROVE  \A args \in Seq(Added) :
              LET p == Parts(name \o asOnData(args))
              IN /\ p \in Seq(Seq(Byte)) /\ Len(p) = Len(args) + 1
                 /\ \A i \in 1..Len(args) : p[i + 1] = Argument(args[i])
<1> DEFINE Good(args, p) == /\ p \in Seq(Seq(Byte)) /\ Len(p) = Len(args) + 1
                            /\ \A i \in 1..Len(args) : p[i + 1] = Argument(args[i])
           T == {args \in Seq(Added) : Good(args, Parts(name \o asOnData(args)))}
<1>1. <<>> \in T
  <2> DEFINE e == <<<<>>>>
             p == Longer(e, name)
  <2>1. asOnData(<<>>) = <<>> /\ name \o <<>> = name /\ <<>> \o name = name /\ <<>> \in Seq(Byte)
    BY DataUnfold, ConcatEmptySeq
  <2>2. Parts(<<>>) = e
    BY PartsUnfold, Zenon
  <2>6. Parts(<<>> \o name) = Longer(Parts(<<>>), name)
    BY <2>1, PartsWord
  <2>7. Parts(name) = p
    BY <2>1, <2>2, <2>6
  <2>3. e \in PartsSet /\ Len(e) = 1
    BY PartsStepType
  <2> HIDE DEF e
  <2>4. p \in Seq(Seq(Byte)) /\ Len(p) = 1
    BY <2>3, LongerType
  <2> HIDE DEF p
  <2>5. Good(<<>>, p)
    BY <2>4
  <2> HIDE DEF Good
  <2>8. Parts(name \o asOnData(<<>>)) = p
    BY <2>1, <2>7
  <2> QED
    BY <2>5, <2>8
<1>2. ASSUME NEW args \in Seq(Added), NEW a \in Added, args \in T
      PROVE  Append(args, a) \in T
  <2> DEFINE d == asOnData(args)
             x == name \o d
             w == Argument(a)
             z == <<At>> \o w
             p == Parts(x)
             q == Append(p, w)
             more == Append(args, a)
  <2>1. d \in Seq(Byte) /\ asOnData(more) = d \o z
    BY DataUnfold, Zenon
  <2>2. w \in Seq(Byte) /\ w \in Seq(Byte \ {At})
    BY ArgumentType, HexIsByte, Zenon
  <2>3. z \in Seq(Byte)
    <3> DEFINE y == <<At>>
    <3>1. y \in Seq(Byte)
      BY Separator
    <3> HIDE DEF y, w
    <3>2. y \o w \in Seq(Byte)
      BY <2>2, <3>1, ConcatProperties
    <3> QED
      BY <3>2 DEF y
  <2>4. name \o (d \o z) = x \o z /\ x \in Seq(Byte)
    <3> HIDE DEF d, z
    <3> QED BY <2>1, <2>3, ConcatAssociative, ConcatProperties
  <2>5. Parts(x \o z) = q
    <3> HIDE DEF x, w
    <3> QED BY <2>2, <2>4, PartsArgument
  <2>6. Good(args, p)
    BY <1>2
  <2>7. /\ more \in Seq(Added) /\ Len(more) = Len(args) + 1 /\ Len(args) \in Nat
        /\ \A i \in 1..Len(args) : more[i] = args[i]
        /\ more[Len(args) + 1] = a
    BY AppendProperties
  <2> HIDE DEF more, p
  <2>8. Good(more, q)
    <3>1. /\ p \in Seq(Seq(Byte)) /\ Len(p) = Len(args) + 1
          /\ \A i \in 1..Len(args) : p[i + 1] = Argument(args[i])
      BY <2>6
    <3> HIDE DEF w
    <3>2. /\ q \in Seq(Seq(Byte)) /\ Len(q) = Len(p) + 1
          /\ \A i \in 1..Len(p) : q[i] = p[i]
          /\ q[Len(p) + 1] = w
      BY <2>2, <3>1, AppendProperties
    <3> HIDE DEF q
    <3>3. ASSUME NEW i \in 1..Len(more)
          PROVE  q[i + 1] = Argument(more[i])
      <4>1. CASE i \in 1..Len(args)
        <5>1. i + 1 \in 1..Len(p)
          BY <2>7, <3>1, <4>1
        <5>2. q[i + 1] = p[i + 1] /\ p[i + 1] = Argument(args[i]) /\ more[i] = args[i]
          BY <2>7, <3>1, <3>2, <4>1, <5>1, Zenon
        <5> QED
          BY <5>2, Zenon
      <4>2. CASE i = Len(args) + 1
        <5>1. i + 1 = Len(p) + 1
          BY <3>1, <4>2
        <5>2. q[i + 1] = w /\ more[i] = a
          BY <2>7, <3>2, <4>2, <5>1, Zenon
        <5> QED
          BY <5>2 DEF w
      <4> QED
        BY <2>7, <4>1, <4>2
    <3> QED
      BY <2>7, <3>1, <3>2, <3>3
  <2>9. Parts(name \o asOnData(more)) = q
    BY <2>1, <2>4, <2>5, Zenon
  <2> HIDE DEF q, Good
  <2>10. Good(more, Parts(name \o asOnData(more)))
    BY <2>8, <2>9
  <2>11. more \in T
    BY <2>7, <2>10
  <2> QED
    BY <2>11 DEF more
<1>3. \A args \in Seq(Added) : args \in T
  <2> HIDE DEF T
  <2> QED BY <1>1, <1>2, SeqSetInduction
<1> QED
  BY <1>3

LEMMA OverIsSeq ==
    ASSUME NEW S, NEW n \in Nat, NEW r, Over(r, 1..n), \A i \in 1..n : r[i] \in S
    PROVE  r \in Seq(S) /\ Len(r) = n
<1>1. r \in [1..n -> S]
  BY DEF Over
<1> QED
  BY <1>1

\* What is read as the argument a.
IsRead(b, a) == IF a.is = "number" THEN BigEndian(b) = Value(a.of) ELSE b = a.of

\* The arguments of a payload are read as args.
ReadAs(data, args) ==
    /\ WellFormed(data)
    /\ Arguments(data) \in Seq(Seq(Byte))
    /\ Len(Arguments(data)) = Len(args)
    /\ \A i \in 1..Len(args) : IsRead(Arguments(data)[i], args[i])

(***************************************************************************)
(* Whatever arguments a builtin function is given, in any number: they are *)
(* what the network reads.                                                 *)
(***************************************************************************)
LEMMA PayloadReadsBack ==
    ASSUME NEW name \in Seq(Byte \ {At}), name \in Seq(Byte), NEW args \in Seq(Added)
    PROVE  ReadAs(name \o asOnData(args), args)
<1> DEFINE data == name \o asOnData(args)
           p == Parts(data)
           r == Arguments(data)
           n == Len(args)
<1>1. /\ p \in Seq(Seq(Byte)) /\ Len(p) = n + 1
      /\ \A i \in 1..n : p[i + 1] = Argument(args[i])
  BY PayloadParts, Zenon
<1>2. n \in Nat /\ \A i \in 1..n : args[i] \in Added
  OBVIOUS
<1>3. r = [i \in 1..n |-> Bytes(p[i + 1])]
  <2>1. r = [i \in 1..(Len(p) - 1) |-> Bytes(p[i + 1])]
    BY DEF Arguments
  <2>2. Len(p) - 1 = n
    BY <1>1, <1>2
  <2> QED
    BY <2>1, <2>2
<1>4. WellFormed(data)
  <2>1. ASSUME NEW i \in 2..Len(p)
        PROVE  IsHex(p[i])
    <3>1. i - 1 \in 1..n /\ (i - 1) + 1 = i
      BY <1>1, <1>2
    <3>2. p[i] = Argument(args[i - 1])
      BY <1>1, <3>1
    <3> QED
      BY <1>2, <3>1, <3>2, ArgumentReadsBack
  <2> QED
    BY <2>1, Zenon DEF WellFormed
<1> HIDE DEF p, r, n
<1>5. ASSUME NEW i \in 1..n
      PROVE  r[i] \in Seq(Byte) /\ IsRead(r[i], args[i])
  <2> DEFINE a == args[i]
             h == Argument(a)
  <2>1. a \in Added /\ r[i] = Bytes(h)
    BY <1>1, <1>2, <1>3
  <2>2. h \in Seq(HexChar)
    BY <2>1, ArgumentType
  <2>3. Bytes(h) \in Seq(Byte)
    <3> HIDE DEF h
    <3> QED BY <2>2, BytesType
  <2>4. IF a.is = "number" THEN BigEndian(Bytes(h)) = Value(a.of) ELSE Bytes(h) = a.of
    BY <2>1, ArgumentReadsBack
  <2> HIDE DEF a, h
  <2>5. IsRead(r[i], a)
    BY <2>1, <2>4, Zenon DEF IsRead
  <2> QED
    BY <2>1, <2>3, <2>5 DEF a
<1>6. r \in Seq(Seq(Byte)) /\ Len(r) = n
  <2>1. Over(r, 1..n)
    BY <1>3 DEF Over
  <2>2. \A i \in 1..n : r[i] \in Seq(Byte)
    BY <1>5
  <2> QED
    BY <1>2, <2>1, <2>2, OverIsSeq
<1> QED
  BY <1>4, <1>5, <1>6 DEF ReadAs, r, n

-----------------------------------------------------------------------------
(* The invariant *)

TypedPayment == [token : Seq(Byte), nonce : Nat, value : Seq(Digit), decimals : Nat]

(***************************************************************************)
(* What the builders hold: texts of bytes, quantities of digits, one of    *)
(* the calls, and properties there are.                                    *)
(***************************************************************************)
Typed ==
    /\ amount \in Seq(Byte)
    /\ payments \in Seq(TypedPayment)
    /\ destination \in Seq(Byte)
    /\ call \in Calls
    /\ properties \subseteq Properties

LEMMA PaymentType ==
    ASSUME NEW token \in Seq(Byte), NEW nonce \in Nat, NEW value \in Seq(Digit), NEW d \in Nat
    PROVE  Payment(token, nonce, value, d) \in TypedPayment
  BY DEF Payment, TypedPayment

LEMMA PaysType ==
    ASSUME NEW token \in Token, NEW nonce \in Nat, NEW value \in Seq(Digit), NEW d \in Nat,
           Typed, Pays(Payment(token, nonce, value, d))
    PROVE  /\ payments' \in Seq(TypedPayment) /\ destination' \in Seq(Byte)
           /\ call' \in Calls /\ (properties \subseteq Properties)'
<1> DEFINE p == Payment(token, nonce, value, d)
<1>1. token \in Seq(Byte)
  BY TextAssumption
<1>2. p \in TypedPayment
  BY <1>1, PaymentType
<1> HIDE DEF p
<1>3. payments' = Append(payments, p) /\ UNCHANGED <<destination, call, properties>>
  BY DEF Pays, p
<1>4. payments' \in Seq(TypedPayment)
  BY <1>2, <1>3, AppendProperties DEF Typed
<1>5. Property' = Property
  OBVIOUS
<1> QED
  BY <1>3, <1>4 DEF Typed, Properties

LEMMA FromAmountType ==
    ASSUME Typed, Accepted(amount), NEW d \in Decimals
    PROVE  bigUIntFromVal(amount, d) \in Seq(Digit) /\ d \in Nat
  BY NumberAssumption, AcceptedType DEF Typed

LEMMA TypedInductive ==
    /\ Init => Typed
    /\ Typed /\ [Next]_vars => Typed'
<1>1. Init => Typed
  BY CallAssumption DEF Init, Typed
<1>2. ASSUME Typed, [Next]_vars
      PROVE  Typed'
  <2> USE <1>2
  <2>1. ASSUME NEW c \in Char, Type(c)
        PROVE  Typed'
    <3>1. c \in Byte
      BY TextAssumption
    <3>2. amount' \in Seq(Byte)
      BY <2>1, <3>1, AppendProperties DEF Type, Typed
    <3> QED
      BY <2>1, <3>2 DEF Type, Typed, Properties
  <2>2. ASSUME NEW token \in Token, NEW d \in Decimals, FungibleFromAmount(token, d)
        PROVE  Typed'
    <3> DEFINE value == bigUIntFromVal(amount, d)
    <3>1. value \in Seq(Digit) /\ d \in Nat
      BY <2>2, FromAmountType DEF FungibleFromAmount
    <3>2. amount' = <<>> /\ Pays(Payment(token, 0, value, d))
      BY <2>2 DEF FungibleFromAmount
    <3> HIDE DEF value
    <3>3. /\ payments' \in Seq(TypedPayment) /\ destination' \in Seq(Byte)
          /\ call' \in Calls /\ (properties \subseteq Properties)'
      BY <3>1, <3>2, PaysType
    <3> QED
      BY <3>2, <3>3 DEF Typed
  <2>3. ASSUME NEW token \in Token, NEW nonce \in Nonce, NEW d \in Decimals,
               MetaESDTFromAmount(token, nonce, d)
        PROVE  Typed'
    <3> DEFINE value == bigUIntFromVal(amount, d)
    <3>1. value \in Seq(Digit) /\ d \in Nat /\ nonce \in Nat
      BY <2>3, FromAmountType, NumberAssumption DEF MetaESDTFromAmount
    <3>2. amount' = <<>> /\ Pays(Payment(token, nonce, value, d))
      BY <2>3 DEF MetaESDTFromAmount
    <3> HIDE DEF value
    <3>3. /\ payments' \in Seq(TypedPayment) /\ destination' \in Seq(Byte)
          /\ call' \in Calls /\ (properties \subseteq Properties)'
      BY <3>1, <3>2, PaysType
    <3> QED
      BY <3>2, <3>3 DEF Typed
  <2>4. ASSUME NEW token \in Token, NEW value \in Quantity, FromBigUInt(token, value)
        PROVE  Typed'
    <3>1. PICK nonce \in Nonce \cup {0}, d \in Decimals \cup {0} : Pays(Payment(token, nonce, value, d))
      BY <2>4 DEF FromBigUInt
    <3>2. nonce \in Nat /\ d \in Nat /\ value \in Seq(Digit)
      BY NumberAssumption
    <3>3. /\ payments' \in Seq(TypedPayment) /\ destination' \in Seq(Byte)
          /\ call' \in Calls /\ (properties \subseteq Properties)'
      BY <3>1, <3>2, PaysType
    <3> QED
      BY <2>4, <3>3 DEF Typed, FromBigUInt
  <2>5. ASSUME NEW token \in Token, NEW nonce \in Nonce, NonFungible(token, nonce)
        PROVE  Typed'
    <3> DEFINE one == <<Zero + 1>>
    <3>1. nonce \in Nat /\ one \in Seq(Digit)
      BY NumberAssumption, Single, Zero + 1 \in Digit DEF Digit, Zero
    <3>2. UNCHANGED amount /\ Pays(Payment(token, nonce, one, 0))
      BY <2>5 DEF NonFungible
    <3> HIDE DEF one
    <3>3. /\ payments' \in Seq(TypedPayment) /\ destination' \in Seq(Byte)
          /\ call' \in Calls /\ (properties \subseteq Properties)'
      BY <3>1, <3>2, PaysType
    <3> QED
      BY <3>2, <3>3 DEF Typed
  <2>6. ASSUME NEW d \in Destination, SetDestination(d)
        PROVE  Typed'
    BY <2>6, TextAssumption DEF SetDestination, Typed, Properties
  <2>7. ASSUME NEW c \in Calls, WithContractCall(c)
        PROVE  Typed'
    BY <2>7 DEF WithContractCall, Typed, Properties
  <2>8. ASSUME NEW props \in SUBSET Properties, WithProperties(props)
        PROVE  Typed'
    BY <2>8 DEF WithProperties, Typed, Properties
  <2>9. CASE UNCHANGED vars
    BY <2>9 DEF vars, Typed, Properties
  <2> QED
    BY <2>1, <2>2, <2>3, <2>4, <2>5, <2>6, <2>7, <2>8, <2>9 DEF Next
<1> QED
  BY <1>1, <1>2

(***************************************************************************)
(* Every state of the program is typed.                                    *)
(***************************************************************************)
THEOREM PaymentsTyped == Spec => []Typed
  BY TypedInductive, PTL DEF Spec

(***************************************************************************)
(* An amount of any length, for a token of any number of decimals, is      *)
(* worth what was typed, up to the digits past the decimals.               *)
(***************************************************************************)
THEOREM AmountsExact == Spec => []AmountExact
<1>1. Typed => AmountExact
  BY EveryAmountExact DEF Typed
<1> QED
  BY <1>1, PaymentsTyped, PTL

(***************************************************************************)
(* What toPrettyString shows of any payment is accepted and gives its      *)
(* value back.                                                             *)
(***************************************************************************)
THEOREM PrettyAmountsReadBack == Spec => []PrettyReadsBack
<1>1. ASSUME Typed
      PROVE  PrettyReadsBack
  <2> SUFFICES ASSUME NEW i \in DOMAIN payments
               PROVE  /\ Accepted(PrettyAmount(payments[i]))
                      /\ Value(bigUIntFromVal(PrettyAmount(payments[i]), payments[i].decimals))
                            = Value(payments[i].value)
    BY Zenon DEF PrettyReadsBack
  <2> DEFINE p == payments[i]
  <2>1. p \in TypedPayment
    BY <1>1 DEF Typed
  <2> HIDE DEF p
  <2>2. p.value \in Seq(Digit) /\ p.decimals \in Nat
    BY <2>1 DEF TypedPayment
  <2>3. Accepted(PrettyAmount(p)) /\ Value(bigUIntFromVal(PrettyAmount(p), p.decimals)) = Value(p.value)
    BY <2>2, EveryPrettyAmount
  <2> QED
    BY <2>3 DEF p
<1> QED
  BY <1>1, PaymentsTyped, PTL

-----------------------------------------------------------------------------
(* The payloads of the builders *)

LEMMA AddedStrings ==
    /\ \A s \in Seq(Byte) : /\ String(s) \in Added /\ String(s).is # "number"
                            /\ String(s).of = s
    /\ \A t \in Seq(Digit) : /\ Number(t) \in Added /\ Number(t).is = "number"
                             /\ Number(t).of = t
  BY DEF String, Number, Added

LEMMA DecimalAdded ==
    \A n \in Nat : Number(Decimal(n)) \in Added /\ Value(Decimal(n)) = n
  BY AddedStrings, DecimalReadsBack

\* The arguments that carry a call.
CallArgs(c) == IF c.function = <<>> THEN <<>> ELSE <<String(c.function)>> \o c.args

LEMMA CallData ==
    ASSUME NEW c \in Calls
    PROVE  /\ c.function \in Seq(Byte) /\ c.args \in Seq(Added)
           /\ CallArgs(c) \in Seq(Added)
           /\ CallAsOnData(c) = asOnData(CallArgs(c))
<1>1. c.function \in Seq(Byte) /\ c.args \in Seq(Added)
  BY CallAssumption
<1>2. CASE c.function = <<>>
  BY <1>1, <1>2, DataUnfold DEF CallArgs, CallAsOnData
<1>3. CASE c.function # <<>>
  <2> DEFINE f == String(c.function)
             w == <<f>>
             z == <<At>> \o Argument(f)
  <2>1. f \in Added /\ f.is # "number" /\ f.of = c.function
    BY <1>1, AddedStrings
  <2>2. Argument(f) = stringToHex(c.function)
    BY <2>1 DEF Argument
  <2>3. w \in Seq(Added) /\ w = Append(<<>>, f)
    BY <2>1, Single
  <2>4. z \in Seq(Byte)
    <3> DEFINE y == <<At>>
    <3>1. y \in Seq(Byte) /\ Argument(f) \in Seq(Byte)
      BY <2>1, Separator, ArgumentType
    <3> HIDE DEF y
    <3>2. y \o Argument(f) \in Seq(Byte)
      BY <3>1, ConcatProperties
    <3> QED
      BY <3>2 DEF y
  <2>5. asOnData(w) = z
    <3>1. asOnData(Append(<<>>, f)) = asOnData(<<>>) \o z
      BY <2>1, <<>> \in Seq(Added), DataUnfold, Zenon
    <3>2. asOnData(<<>>) = <<>> /\ <<>> \o z = z
      BY <2>4, DataUnfold, ConcatEmptySeq
    <3> QED
      BY <2>3, <3>1, <3>2
  <2>6. CallAsOnData(c) = z \o asOnData(c.args)
    BY <1>3, <2>2 DEF CallAsOnData
  <2>7. CallArgs(c) = w \o c.args
    BY <1>3 DEF CallArgs
  <2> HIDE DEF w, z, f
  <2>8. w \o c.args \in Seq(Added) /\ asOnData(w \o c.args) = z \o asOnData(c.args)
    BY <1>1, <2>3, <2>5, DataConcat, ConcatProperties
  <2> QED
    BY <1>1, <2>6, <2>7, <2>8
<1> QED
  BY <1>2, <1>3

(***************************************************************************)
(* A payload with a call reads as what comes before the call and the call. *)
(***************************************************************************)
LEMMA PayloadWithCall ==
    ASSUME NEW name \in Seq(Byte \ {At}), name \in Seq(Byte), NEW front \in Seq(Added),
           call \in Calls
    PROVE  LET data == name \o asOnData(front) \o CallAsOnData(call)
               args == Arguments(data)
               n    == Len(front)
           IN /\ WellFormed(data)
              /\ Len(args) >= n
              /\ \A i \in 1..n : IsRead(args[i], front[i])
              /\ ReadsCall(Rest(args, n + 1))
<1> DEFINE back == CallArgs(call)
           all  == front \o back
           data == name \o asOnData(front) \o CallAsOnData(call)
           args == Arguments(data)
           n    == Len(front)
           rest == Rest(args, n + 1)
<1>1. /\ back \in Seq(Added) /\ CallAsOnData(call) = asOnData(back)
      /\ call.function \in Seq(Byte) /\ call.args \in Seq(Added)
  BY CallData
<1>2. all \in Seq(Added) /\ asOnData(all) = asOnData(front) \o asOnData(back)
  <2> HIDE DEF back
  <2> QED BY <1>1, DataConcat, ConcatProperties
<1>3. data = name \o asOnData(all)
  <2> DEFINE x == asOnData(front)
             y == asOnData(back)
  <2>1. x \in Seq(Byte) /\ y \in Seq(Byte)
    BY <1>1, DataUnfold
  <2>2. data = (name \o x) \o y /\ asOnData(all) = x \o y
    BY <1>1, <1>2
  <2> HIDE DEF x, y, data, all
  <2>3. (name \o x) \o y = name \o (x \o y)
    BY <2>1, ConcatAssociative
  <2> QED
    BY <2>2, <2>3
<1>4. ReadAs(name \o asOnData(all), all)
  <2> HIDE DEF all
  <2> QED BY <1>2, PayloadReadsBack
<1>5. /\ WellFormed(data) /\ args \in Seq(Seq(Byte)) /\ Len(args) = Len(all)
      /\ \A i \in 1..Len(all) : IsRead(args[i], all[i])
  BY <1>3, <1>4, Zenon DEF ReadAs
<1> HIDE DEF back
<1>6. /\ n \in Nat /\ Len(back) \in Nat /\ Len(all) = n + Len(back)
      /\ \A i \in 1..n : all[i] = front[i]
      /\ \A i \in 1..Len(back) : all[n + i] = back[i]
  <2>1. n \in Nat /\ Len(back) \in Nat
    BY <1>1
  <2>2. /\ Len(all) = n + Len(back)
        /\ \A i \in 1..Len(all) : all[i] = IF i <= n THEN front[i] ELSE back[i - n]
    BY <1>1, ConcatProperties
  <2> HIDE DEF all, n
  <2>3. \A i \in 1..n : all[i] = front[i]
    BY <2>1, <2>2
  <2>4. ASSUME NEW i \in 1..Len(back)
        PROVE  all[n + i] = back[i]
    <3>1. n + i \in 1..Len(all) /\ ~(n + i <= n) /\ (n + i) - n = i
      BY <2>1, <2>2
    <3> QED
      BY <2>2, <3>1
  <2> QED
    BY <2>1, <2>2, <2>3, <2>4
<1> HIDE DEF all, data, args, n
<1>7. Len(args) >= n /\ \A i \in 1..n : IsRead(args[i], front[i])
  <2>1. \A i \in 1..n : i \in 1..Len(all)
    BY <1>6
  <2>2. \A i \in 1..n : IsRead(args[i], front[i])
    BY <1>5, <1>6, <2>1, Zenon
  <2>3. Len(args) >= n
    BY <1>5, <1>6
  <2> QED
    BY <2>2, <2>3
<1>8. /\ rest \in Seq(Seq(Byte)) /\ Len(rest) = Len(back)
      /\ \A i \in 1..Len(back) : IsRead(rest[i], back[i])
  <2>1. n \in 0..Len(args) /\ Len(args) - n = Len(back)
    BY <1>5, <1>6
  <2>2. /\ SubSeq(args, n + 1, Len(args)) \in Seq(Seq(Byte))
        /\ Len(SubSeq(args, n + 1, Len(args))) = Len(args) - n
        /\ \A i \in 1..(Len(args) - n) : SubSeq(args, n + 1, Len(args))[i] = args[n + i]
    BY <1>5, <2>1, SplitAt
  <2>3. rest = SubSeq(args, n + 1, Len(args))
    BY DEF Rest
  <2> HIDE DEF rest
  <2>4. \A i \in 1..Len(back) : rest[i] = args[n + i] /\ n + i \in 1..Len(all)
    BY <1>6, <2>1, <2>2, <2>3
  <2>5. \A i \in 1..Len(back) : IsRead(rest[i], back[i])
    BY <1>5, <1>6, <2>4, Zenon
  <2> QED
    BY <2>1, <2>2, <2>3, <2>5
<1> HIDE DEF rest
<1>9. ReadsCall(rest)
  <2>1. CASE call.function = <<>>
    <3>1. back = <<>>
      BY <2>1 DEF back, CallArgs
    <3>2. rest = <<>>
      BY <1>8, <3>1
    <3> QED
      BY <2>1, <3>2 DEF ReadsCall
  <2>2. CASE call.function # <<>>
    <3> DEFINE f == String(call.function)
               w == <<f>>
               g == call.args
    <3>1. f \in Added /\ f.is # "number" /\ f.of = call.function
      BY <1>1, AddedStrings
    <3>2. w \in Seq(Added) /\ Len(w) = 1 /\ w[1] = f
      BY <3>1, Single
    <3>3. back = w \o g
      BY <2>2 DEF back, CallArgs
    <3>4. g \in Seq(Added) /\ Len(g) \in Nat /\ DOMAIN g = 1..Len(g)
      BY <1>1
    <3> HIDE DEF w, g, f
    <3>5. /\ Len(back) = 1 + Len(g)
          /\ \A i \in 1..Len(back) : back[i] = IF i <= 1 THEN w[i] ELSE g[i - 1]
      <4>1. /\ Len(w \o g) = Len(w) + Len(g)
            /\ \A i \in 1..(Len(w) + Len(g)) :
                  (w \o g)[i] = IF i <= Len(w) THEN w[i] ELSE g[i - Len(w)]
        BY <3>2, <3>4, ConcatProperties
      <4> QED
        BY <3>2, <3>3, <4>1
    <3>6. back[1] = f /\ 1 \in 1..Len(back)
      BY <3>2, <3>4, <3>5
    <3>7. ASSUME NEW i \in 1..Len(g)
          PROVE  i + 1 \in 1..Len(back) /\ back[i + 1] = g[i]
      <4>1. i + 1 \in 1..Len(back) /\ ~(i + 1 <= 1) /\ (i + 1) - 1 = i
        BY <3>4, <3>5
      <4> QED
        BY <3>5, <4>1
    <3>8. rest[1] = call.function
      <4>1. IsRead(rest[1], f)
        BY <1>8, <3>6
      <4> QED
        BY <3>1, <4>1 DEF IsRead
    <3>9. ASSUME NEW i \in DOMAIN g
          PROVE  IF g[i].is = "number" THEN BigEndian(rest[i + 1]) = Value(g[i].of)
                 ELSE rest[i + 1] = g[i].of
      <4>1. i \in 1..Len(g)
        BY <3>4
      <4>2. i + 1 \in 1..Len(back) /\ back[i + 1] = g[i]
        BY <3>7, <4>1
      <4>3. IsRead(rest[i + 1], back[i + 1])
        BY <1>8, <4>2
      <4> QED
        BY <4>2, <4>3, Zenon DEF IsRead
    <3> QED
      BY <1>8, <2>2, <3>5, <3>8, <3>9 DEF ReadsCall, g
  <2> QED
    BY <2>1, <2>2
<1> QED
  BY <1>5, <1>7, <1>9 DEF data, args, n, rest

LEMMA Names ==
    /\ ESDTTransfer \in Seq(Byte \ {At}) /\ ESDTTransfer \in Seq(Byte)
    /\ ESDTNFTTransfer \in Seq(Byte \ {At}) /\ ESDTNFTTransfer \in Seq(Byte)
    /\ MultiESDTNFTTransfer \in Seq(Byte \ {At}) /\ MultiESDTNFTTransfer \in Seq(Byte)
    /\ Issue \in Seq(Byte \ {At}) /\ Issue \in Seq(Byte)
<1>1. \A c \in {69, 78, 77, 105} : c \in Byte \ {At} /\ c \in Byte
  BY DEF Byte, At
<1>2. \A c \in {69, 78, 77, 105} : <<c>> \in Seq(Byte \ {At}) /\ <<c>> \in Seq(Byte)
  <2> SUFFICES ASSUME NEW c \in {69, 78, 77, 105}
               PROVE  <<c>> \in Seq(Byte \ {At}) /\ <<c>> \in Seq(Byte)
    OBVIOUS
  <2> DEFINE S == Byte \ {At}
  <2>1. c \in S /\ c \in Byte
    BY <1>1
  <2> HIDE DEF S
  <2>2. <<c>> \in Seq(S) /\ <<c>> \in Seq(Byte)
    BY <2>1, Single
  <2> QED
    BY <2>2 DEF S
<1> QED
  BY <1>2 DEF ESDTTransfer, ESDTNFTTransfer, MultiESDTNFTTransfer, Issue

LEMMA ManyAdded ==
    ASSUME NEW a \in Added, NEW b \in Added, NEW c \in Added, NEW d \in Added
    PROVE  /\ <<a, b>> \in Seq(Added) /\ Len(<<a, b>>) = 2
           /\ <<a, b>>[1] = a /\ <<a, b>>[2] = b
           /\ <<a, b, c, d>> \in Seq(Added) /\ Len(<<a, b, c, d>>) = 4
           /\ <<a, b, c, d>>[1] = a /\ <<a, b, c, d>>[2] = b
           /\ <<a, b, c, d>>[3] = c /\ <<a, b, c, d>>[4] = d
  OBVIOUS

LEMMA LastPayment ==
    ASSUME Typed
    PROVE  m_payment \in TypedPayment
<1>1. NoPayment \in TypedPayment
  <2>1. <<Zero>> \in Seq(Digit) /\ <<>> \in Seq(Byte)
    BY Single, Zero \in Digit DEF Digit, Zero
  <2> QED
    BY <2>1, PaymentType DEF NoPayment
<1>2. payments # <<>> => payments[Len(payments)] \in TypedPayment
  BY DEF Typed
<1> QED
  BY <1>1, <1>2 DEF m_payment

(***************************************************************************)
(* The network reads the payload of a fungible transfer as it was ordered, *)
(* for identifiers, quantities and calls of any length.                    *)
(***************************************************************************)
THEOREM ESDTTransfersReadBack == Spec => []ESDTReadsBack
<1>1. ASSUME Typed
      PROVE  ESDTReadsBack
  <2> SUFFICES ASSUME m_payment.nonce = 0
               PROVE  LET data == ESDTPayload(m_payment, call)
                          args == Arguments(data)
                      IN /\ WellFormed(data)
                         /\ [token |-> args[1], nonce |-> 0, quantity |-> BigEndian(args[2])]
                               = Ordered(m_payment)
                         /\ ReadsCall(Rest(args, 3))
    BY Zenon DEF ESDTReadsBack
  <2> DEFINE p == m_payment
             a == String(p.token)
             b == Number(p.value)
             front == <<a, b>>
             data == ESDTPayload(p, call)
             args == Arguments(data)
  <2>1. p.token \in Seq(Byte) /\ p.value \in Seq(Digit) /\ p.nonce = 0 /\ call \in Calls
    BY <1>1, LastPayment DEF TypedPayment, Typed
  <2>2. /\ a \in Added /\ a.is # "number" /\ a.of = p.token
        /\ b \in Added /\ b.is = "number" /\ b.of = p.value
    BY <2>1, AddedStrings
  <2>3. data = ESDTTransfer \o asOnData(front) \o CallAsOnData(call)
    BY DEF ESDTPayload
  <2> HIDE DEF p, a, b, data
  <2>4. front \in Seq(Added) /\ Len(front) = 2 /\ front[1] = a /\ front[2] = b
    BY <2>2, ManyAdded
  <2> HIDE DEF front
  <2>5. /\ WellFormed(data)
        /\ \A i \in 1..Len(front) : IsRead(args[i], front[i])
        /\ ReadsCall(Rest(args, Len(front) + 1))
    BY <2>1, <2>3, <2>4, Names, PayloadWithCall, Zenon
  <2>6. IsRead(args[1], a) /\ IsRead(args[2], b) /\ ReadsCall(Rest(args, 3))
    <3>1. 1 \in 1..Len(front) /\ 2 \in 1..Len(front) /\ Len(front) + 1 = 3
      BY <2>4
    <3> QED
      BY <2>4, <2>5, <3>1, Zenon
  <2>7. args[1] = p.token /\ BigEndian(args[2]) = Value(p.value)
    BY <2>2, <2>6 DEF IsRead
  <2>8. [token |-> args[1], nonce |-> 0, quantity |-> BigEndian(args[2])] = Ordered(p)
    BY <2>1, <2>7, Zenon DEF Ordered
  <2> QED
    BY <2>5, <2>6, <2>8 DEF data, p
<1> QED
  BY <1>1, PaymentsTyped, PTL

LEMMA SinglePayment ==
    ASSUME Typed
    PROVE  LET data == NFTPayload(m_payment, destination, call)
               args == Arguments(data)
           IN /\ WellFormed(data)
              /\ PaymentAt(args, 1) = Ordered(m_payment)
              /\ args[4] = destination
              /\ ReadsCall(Rest(args, 5))
<1> DEFINE p == m_payment
           a == String(p.token)
           b == Number(Decimal(p.nonce))
           c == Number(p.value)
           d == String(destination)
           front == <<a, b, c, d>>
           data == NFTPayload(p, destination, call)
           args == Arguments(data)
<1>1. /\ p.token \in Seq(Byte) /\ p.value \in Seq(Digit) /\ p.nonce \in Nat
      /\ destination \in Seq(Byte) /\ call \in Calls
  BY LastPayment DEF TypedPayment, Typed
<1>2. /\ a \in Added /\ a.is # "number" /\ a.of = p.token
      /\ b \in Added /\ b.is = "number" /\ Value(b.of) = p.nonce
      /\ c \in Added /\ c.is = "number" /\ c.of = p.value
      /\ d \in Added /\ d.is # "number" /\ d.of = destination
  <2>1. Decimal(p.nonce) \in Seq(Digit) /\ Value(Decimal(p.nonce)) = p.nonce
    BY <1>1, DecimalReadsBack
  <2> QED
    BY <1>1, <2>1, AddedStrings
<1>3. data = ESDTNFTTransfer \o asOnData(front) \o CallAsOnData(call)
  BY DEF NFTPayload
<1> HIDE DEF p, a, b, c, d, data
<1>4. /\ front \in Seq(Added) /\ Len(front) = 4
      /\ front[1] = a /\ front[2] = b /\ front[3] = c /\ front[4] = d
  BY <1>2, ManyAdded
<1> HIDE DEF front
<1>5. /\ WellFormed(data)
      /\ \A i \in 1..Len(front) : IsRead(args[i], front[i])
      /\ ReadsCall(Rest(args, Len(front) + 1))
  BY <1>1, <1>3, <1>4, Names, PayloadWithCall, Zenon
<1>6. /\ IsRead(args[1], a) /\ IsRead(args[2], b) /\ IsRead(args[3], c)
      /\ IsRead(args[4], d) /\ ReadsCall(Rest(args, 5))
  <2>1. /\ 1 \in 1..Len(front) /\ 2 \in 1..Len(front) /\ 3 \in 1..Len(front)
        /\ 4 \in 1..Len(front) /\ Len(front) + 1 = 5
    BY <1>4
  <2> QED
    BY <1>4, <1>5, <2>1, Zenon
<1>7. /\ args[1] = p.token /\ BigEndian(args[2]) = p.nonce
      /\ BigEndian(args[3]) = Value(p.value) /\ args[4] = destination
  BY <1>2, <1>6 DEF IsRead
<1>8. PaymentAt(args, 1) = Ordered(p)
  <2>1. 1 + 1 = 2 /\ 1 + 2 = 3
    OBVIOUS
  <2> QED
    BY <1>7, <2>1, Zenon DEF PaymentAt, Ordered
<1> QED
  BY <1>5, <1>6, <1>7, <1>8 DEF data, p

(***************************************************************************)
(* The arguments of several payments, three for each.                      *)
(***************************************************************************)
LEMMA PaymentArgumentsAt ==
    ASSUME NEW ps \in Seq(TypedPayment)
    PROVE  /\ PaymentArguments(ps) \in Seq(Added)
           /\ Len(PaymentArguments(ps)) = 3 * Len(ps)
           /\ \A i \in 1..Len(ps) :
                 /\ PaymentArguments(ps)[3 * i - 2] = String(ps[i].token)
                 /\ PaymentArguments(ps)[3 * i - 1] = Number(Decimal(ps[i].nonce))
                 /\ PaymentArguments(ps)[3 * i] = Number(ps[i].value)
                 /\ String(ps[i].token) \in Added
                 /\ Number(Decimal(ps[i].nonce)) \in Added
                 /\ Number(ps[i].value) \in Added
<1> DEFINE n == Len(ps)
           A(i) == String(ps[i].token)
           B(i) == Number(Decimal(ps[i].nonce))
           C(i) == Number(ps[i].value)
           r == PaymentArguments(ps)
<1>0. n \in Nat
  OBVIOUS
<1>1. ASSUME NEW i \in 1..n
      PROVE  A(i) \in Added /\ B(i) \in Added /\ C(i) \in Added
  <2>1. ps[i] \in TypedPayment
    OBVIOUS
  <2>2. ps[i].token \in Seq(Byte) /\ ps[i].nonce \in Nat /\ ps[i].value \in Seq(Digit)
    BY <2>1 DEF TypedPayment
  <2> QED
    BY <2>2, AddedStrings, DecimalAdded, Zenon
<1>2. r = [i \in 1..(3 * n) |-> IF i % 3 = 1 THEN A((i + 2) \div 3)
                                ELSE IF i % 3 = 2 THEN B((i + 2) \div 3) ELSE C((i + 2) \div 3)]
  BY DEF PaymentArguments
<1> HIDE DEF r, n, A, B, C
<1>3. \A i \in 1..(3 * n) : (i + 2) \div 3 \in 1..n
  BY <1>0
<1>4. \A i \in 1..(3 * n) : r[i] = IF i % 3 = 1 THEN A((i + 2) \div 3)
                                   ELSE IF i % 3 = 2 THEN B((i + 2) \div 3) ELSE C((i + 2) \div 3)
  BY <1>2, Zenon
<1>5. r \in Seq(Added) /\ Len(r) = 3 * n
  <2>1. \A i \in 1..(3 * n) : r[i] \in Added
    BY <1>1, <1>3, <1>4
  <2>2. Over(r, 1..(3 * n))
    BY <1>2 DEF Over
  <2>3. 3 * n \in Nat
    BY <1>0
  <2> QED
    BY <2>1, <2>2, <2>3, OverIsSeq
<1>6. ASSUME NEW i \in 1..n
      PROVE  r[3 * i - 2] = A(i) /\ r[3 * i - 1] = B(i) /\ r[3 * i] = C(i)
  <2>1. /\ 3 * i - 2 \in 1..(3 * n) /\ (3 * i - 2) % 3 = 1 /\ ((3 * i - 2) + 2) \div 3 = i
        /\ 3 * i - 1 \in 1..(3 * n) /\ (3 * i - 1) % 3 = 2 /\ ((3 * i - 1) + 2) \div 3 = i
        /\ 3 * i \in 1..(3 * n) /\ (3 * i) % 3 = 0 /\ ((3 * i) + 2) \div 3 = i
    BY <1>0
  <2>2. 2 # 1 /\ 0 # 1 /\ 0 # 2
    OBVIOUS
  <2>3. r[3 * i - 2] = A(i)
    BY <1>4, <2>1, Zenon
  <2>4. r[3 * i - 1] = B(i)
    BY <1>4, <2>1, <2>2, Zenon
  <2>5. r[3 * i] = C(i)
    BY <1>4, <2>1, <2>2, Zenon
  <2> QED
    BY <2>3, <2>4, <2>5
<1> QED
  BY <1>1, <1>5, <1>6 DEF r, n, A, B, C

LEMMA SeveralPayments ==
    ASSUME Typed
    PROVE  LET data == MultiPayload(payments, destination, call)
               args == Arguments(data)
               n    == Len(payments)
           IN /\ WellFormed(data)
              /\ args[1] = destination
              /\ BigEndian(args[2]) = n
              /\ \A i \in 1..n : PaymentAt(args, 3 * i) = Ordered(payments[i])
              /\ ReadsCall(Rest(args, 3 * n + 3))
<1> DEFINE n == Len(payments)
           d == String(destination)
           k == Number(Decimal(n))
           w == <<d, k>>
           r == PaymentArguments(payments)
           front == w \o r
           data == MultiPayload(payments, destination, call)
           args == Arguments(data)
<1>1. /\ payments \in Seq(TypedPayment) /\ destination \in Seq(Byte) /\ call \in Calls /\ n \in Nat
  BY DEF Typed
<1>2. /\ d \in Added /\ d.is # "number" /\ d.of = destination
      /\ k \in Added /\ k.is = "number" /\ Value(k.of) = n
  <2>1. Decimal(n) \in Seq(Digit) /\ Value(Decimal(n)) = n
    BY <1>1, DecimalReadsBack
  <2> QED
    BY <1>1, <2>1, AddedStrings
<1>3. data = MultiESDTNFTTransfer \o asOnData(front) \o CallAsOnData(call)
  BY DEF MultiPayload
<1>4. r \in Seq(Added) /\ Len(r) = 3 * n
  BY <1>1, PaymentArgumentsAt
<1>5. w \in Seq(Added) /\ Len(w) = 2 /\ w[1] = d /\ w[2] = k
  <2> HIDE DEF d, k
  <2> QED BY <1>2, ManyAdded
<1>6. ASSUME NEW i \in 1..n
      PROVE  /\ r[3 * i - 2] = String(payments[i].token)
             /\ r[3 * i - 1] = Number(Decimal(payments[i].nonce))
             /\ r[3 * i] = Number(payments[i].value)
  BY <1>1, PaymentArgumentsAt
<1> HIDE DEF w, r, d, k, data, n
<1>7. /\ front \in Seq(Added) /\ Len(front) = 2 + 3 * n
      /\ \A i \in 1..(2 + 3 * n) : front[i] = IF i <= 2 THEN w[i] ELSE r[i - 2]
  <2>1. /\ w \o r \in Seq(Added) /\ Len(w \o r) = Len(w) + Len(r)
        /\ \A i \in 1..(Len(w) + Len(r)) : (w \o r)[i] = IF i <= Len(w) THEN w[i] ELSE r[i - Len(w)]
    BY <1>4, <1>5, ConcatProperties
  <2> QED
    BY <1>4, <1>5, <2>1
<1> HIDE DEF front
<1>8. /\ WellFormed(data)
      /\ \A i \in 1..Len(front) : IsRead(args[i], front[i])
      /\ ReadsCall(Rest(args, Len(front) + 1))
  BY <1>1, <1>3, <1>7, Names, PayloadWithCall, Zenon
<1> HIDE DEF args
<1>9. args[1] = destination /\ BigEndian(args[2]) = n
  <2>1. 1 \in 1..Len(front) /\ 2 \in 1..Len(front) /\ front[1] = d /\ front[2] = k
    BY <1>1, <1>5, <1>7
  <2>2. IsRead(args[1], d) /\ IsRead(args[2], k)
    BY <1>8, <2>1, Zenon
  <2> QED
    BY <1>2, <2>2 DEF IsRead
<1>10. ReadsCall(Rest(args, 3 * n + 3))
  <2>1. Len(front) + 1 = 3 * n + 3
    BY <1>1, <1>7
  <2> QED
    BY <1>8, <2>1, Zenon
<1>11. ASSUME NEW i \in 1..n
       PROVE  PaymentAt(args, 3 * i) = Ordered(payments[i])
  <2> DEFINE p == payments[i]
             a == String(p.token)
             b == Number(Decimal(p.nonce))
             c == Number(p.value)
  <2>1. p \in TypedPayment
    BY <1>1 DEF n
  <2>2. p.token \in Seq(Byte) /\ p.value \in Seq(Digit) /\ p.nonce \in Nat
    BY <2>1 DEF TypedPayment
  <2>3. /\ a \in Added /\ a.is # "number" /\ a.of = p.token
        /\ b \in Added /\ b.is = "number" /\ Value(b.of) = p.nonce
        /\ c \in Added /\ c.is = "number" /\ c.of = p.value
    <3>1. Decimal(p.nonce) \in Seq(Digit) /\ Value(Decimal(p.nonce)) = p.nonce
      BY <2>2, DecimalReadsBack
    <3> QED
      BY <2>2, <3>1, AddedStrings
  <2>4. r[3 * i - 2] = a /\ r[3 * i - 1] = b /\ r[3 * i] = c
    BY <1>6
  <2> HIDE DEF p, a, b, c
  <2>5. /\ 3 * i \in 1..(2 + 3 * n) /\ ~(3 * i <= 2) /\ 3 * i - 2 = 3 * i - 2
        /\ 3 * i + 1 \in 1..(2 + 3 * n) /\ ~(3 * i + 1 <= 2) /\ (3 * i + 1) - 2 = 3 * i - 1
        /\ 3 * i + 2 \in 1..(2 + 3 * n) /\ ~(3 * i + 2 <= 2) /\ (3 * i + 2) - 2 = 3 * i
    BY <1>1
  <2>6. front[3 * i] = a /\ front[3 * i + 1] = b /\ front[3 * i + 2] = c
    BY <1>7, <2>4, <2>5, Zenon
  <2>7. IsRead(args[3 * i], a) /\ IsRead(args[3 * i + 1], b) /\ IsRead(args[3 * i + 2], c)
    BY <1>7, <1>8, <2>5, <2>6, Zenon
  <2>8. /\ args[3 * i] = p.token /\ BigEndian(args[3 * i + 1]) = p.nonce
        /\ BigEndian(args[3 * i + 2]) = Value(p.value)
    BY <2>3, <2>7, Zenon DEF IsRead
  <2> QED
    BY <2>8, Zenon DEF PaymentAt, Ordered, p
<1> QED
  BY <1>8, <1>9, <1>10, <1>11 DEF data, args, n

(***************************************************************************)
(* The network reads the transfers of one and of any number of tokens as   *)
(* they were ordered: every payment in its place, the destination and the  *)
(* call.                                                                   *)
(***************************************************************************)
THEOREM NFTTransfersReadBack == Spec => []NFTReadsBack
<1>1. Typed => NFTReadsBack
  BY SinglePayment, SeveralPayments, Zenon DEF NFTReadsBack
<1> QED
  BY <1>1, PaymentsTyped, PTL

(***************************************************************************)
(* The arguments of the properties, two for each.                          *)
(***************************************************************************)
LEMMA PropertyArgumentsAt ==
    ASSUME NEW props
    PROVE  /\ Len(Property) \in Nat
           /\ PropertyArguments(props) \in Seq(Added)
           /\ Len(PropertyArguments(props)) = 2 * Len(Property)
           /\ \A i \in 1..Len(Property) :
                 /\ PropertyArguments(props)[2 * i - 1] = String(Property[i])
                 /\ PropertyArguments(props)[2 * i]
                       = String(IF Property[i] \in props THEN True ELSE False)
<1> DEFINE n == Len(Property)
           V(i) == IF Property[i] \in props THEN True ELSE False
           r == PropertyArguments(props)
<1>0. n \in Nat /\ \A i \in 1..n : Property[i] \in Seq(Byte)
  BY TextAssumption
<1>1. True \in Seq(Byte) /\ False \in Seq(Byte)
  BY Single, 116 \in Byte, 102 \in Byte DEF True, False, Byte
<1>2. r = [i \in 1..(2 * n) |-> String(IF i % 2 = 1 THEN Property[(i + 1) \div 2]
                                       ELSE V((i + 1) \div 2))]
  BY DEF PropertyArguments
<1>3. \A i \in 1..n : V(i) \in Seq(Byte)
  BY <1>1
<1> HIDE DEF r, n, V
<1>4. \A i \in 1..(2 * n) : r[i] = String(IF i % 2 = 1 THEN Property[(i + 1) \div 2]
                                          ELSE V((i + 1) \div 2))
  BY <1>2, Zenon
<1>5. r \in Seq(Added) /\ Len(r) = 2 * n
  <2>1. \A i \in 1..(2 * n) : (i + 1) \div 2 \in 1..n
    BY <1>0
  <2>2. \A i \in 1..(2 * n) : r[i] \in Added
    BY <1>0, <1>3, <1>4, <2>1, AddedStrings
  <2>3. Over(r, 1..(2 * n))
    BY <1>2 DEF Over
  <2>4. 2 * n \in Nat
    BY <1>0
  <2> QED
    BY <2>2, <2>3, <2>4, OverIsSeq
<1>6. ASSUME NEW i \in 1..n
      PROVE  r[2 * i - 1] = String(Property[i]) /\ r[2 * i] = String(V(i))
  <2>1. /\ 2 * i - 1 \in 1..(2 * n) /\ (2 * i - 1) % 2 = 1 /\ ((2 * i - 1) + 1) \div 2 = i
        /\ 2 * i \in 1..(2 * n) /\ (2 * i) % 2 # 1 /\ ((2 * i) + 1) \div 2 = i
    BY <1>0
  <2> QED
    BY <1>4, <2>1
<1> QED
  BY <1>0, <1>5, <1>6 DEF r, n, V

LEMMA Verdicts == True # False
<1>1. True[1] = 116 /\ False[1] = 102
  BY DEF True, False
<1> QED
  BY <1>1

\* A property is read as set among the arguments of an issuance.
ReadsSet(args, name) ==
    \E j \in 5..(Len(args) - 1) : j % 2 = 1 /\ args[j] = name /\ args[j + 1] = True

(***************************************************************************)
(* The properties that are read as set are those that are set.             *)
(***************************************************************************)
LEMMA ReadsProperties ==
    ASSUME NEW four \in Seq(Added), Len(four) = 4, NEW props \in SUBSET Properties, NEW data,
           ReadAs(data, four \o PropertyArguments(props))
    PROVE  props = {name \in Properties : ReadsSet(Arguments(data), name)}
<1> DEFINE n == Len(Property)
           r == PropertyArguments(props)
           all == four \o r
           args == Arguments(data)
           V(i) == IF Property[i] \in props THEN True ELSE False
<1>1. /\ n \in Nat /\ r \in Seq(Added) /\ Len(r) = 2 * n
      /\ \A i \in 1..n : r[2 * i - 1] = String(Property[i]) /\ r[2 * i] = String(V(i))
  BY PropertyArgumentsAt
<1>2. /\ DOMAIN Property = 1..n /\ \A i \in 1..n : Property[i] \in Seq(Byte)
      /\ True \in Seq(Byte) /\ False \in Seq(Byte)
  <2>1. DOMAIN Property = 1..n /\ \A i \in 1..n : Property[i] \in Seq(Byte)
    BY TextAssumption
  <2>2. True \in Seq(Byte) /\ False \in Seq(Byte)
    BY Single, 116 \in Byte, 102 \in Byte DEF True, False, Byte
  <2> QED
    BY <2>1, <2>2
<1>3. /\ Len(args) = Len(all)
      /\ \A i \in 1..Len(all) : IsRead(args[i], all[i])
  BY DEF ReadAs
<1>4. \A i \in 1..n : V(i) \in Seq(Byte)
  BY <1>2
<1> HIDE DEF r, n, args
<1>5. /\ Len(all) = 4 + 2 * n
      /\ \A i \in 1..(4 + 2 * n) : all[i] = IF i <= 4 THEN four[i] ELSE r[i - 4]
  <2>1. /\ Len(four \o r) = Len(four) + Len(r)
        /\ \A i \in 1..(Len(four) + Len(r)) :
              (four \o r)[i] = IF i <= Len(four) THEN four[i] ELSE r[i - Len(four)]
    BY <1>1, ConcatProperties
  <2> QED
    BY <1>1, <2>1
<1> HIDE DEF all, V
<1>6. ASSUME NEW i \in 1..n
      PROVE  args[2 * i + 3] = Property[i] /\ args[(2 * i + 3) + 1] = V(i)
  <2>1. /\ 2 * i + 3 \in 1..(4 + 2 * n) /\ ~(2 * i + 3 <= 4) /\ (2 * i + 3) - 4 = 2 * i - 1
        /\ (2 * i + 3) + 1 \in 1..(4 + 2 * n) /\ ~((2 * i + 3) + 1 <= 4)
        /\ ((2 * i + 3) + 1) - 4 = 2 * i
    BY <1>1
  <2>2. all[2 * i + 3] = String(Property[i]) /\ all[(2 * i + 3) + 1] = String(V(i))
    BY <1>1, <1>5, <2>1, Zenon
  <2>3. IsRead(args[2 * i + 3], String(Property[i])) /\ IsRead(args[(2 * i + 3) + 1], String(V(i)))
    BY <1>3, <1>5, <2>1, <2>2, Zenon
  <2>4. Property[i] \in Seq(Byte) /\ V(i) \in Seq(Byte)
    BY <1>2, <1>4
  <2> QED
    BY <2>3, <2>4, AddedStrings, Zenon DEF IsRead
<1>7. ASSUME NEW name \in props
      PROVE  ReadsSet(args, name)
  <2>1. PICK i \in 1..n : name = Property[i]
    BY <1>2 DEF Properties
  <2>2. V(i) = True
    BY <2>1, Zenon DEF V
  <2>3. 2 * i + 3 \in 5..(Len(args) - 1) /\ (2 * i + 3) % 2 = 1
    BY <1>1, <1>3, <1>5
  <2>4. args[2 * i + 3] = name /\ args[(2 * i + 3) + 1] = True
    BY <1>6, <2>1, <2>2, Zenon
  <2> QED
    BY <2>3, <2>4, Zenon DEF ReadsSet
<1>8. ASSUME NEW name \in Properties, ReadsSet(args, name)
      PROVE  name \in props
  <2>1. PICK j \in 5..(Len(args) - 1) : j % 2 = 1 /\ args[j] = name /\ args[j + 1] = True
    BY <1>8, Zenon DEF ReadsSet
  <2> DEFINE i == (j - 3) \div 2
  <2>2. i \in 1..n /\ j = 2 * i + 3
    <3>1. \A m \in Nat : \A q \in 5..(3 + 2 * m) :
             q % 2 = 1 => (q - 3) \div 2 \in 1..m /\ q = 2 * ((q - 3) \div 2) + 3
      OBVIOUS
    <3>2. j \in 5..(3 + 2 * n)
      BY <1>1, <1>3, <1>5, <2>1
    <3> QED
      BY <1>1, <2>1, <3>1, <3>2, Zenon
  <2> HIDE DEF i
  <2>3. name = Property[i] /\ V(i) = True
    BY <1>6, <2>1, <2>2, Zenon
  <2> QED
    BY <2>3, Verdicts, Zenon DEF V
<1>9. props = {name \in Properties : ReadsSet(args, name)}
  BY <1>7, <1>8
<1> QED
  BY <1>9 DEF args

LEMMA EveryIssue ==
    ASSUME NEW p \in TypedPayment, NEW props \in SUBSET Properties
    PROVE  LET data == IssuePayload(p.token, p.token, p.value, p.decimals, props)
               args == Arguments(data)
           IN /\ WellFormed(data)
              /\ BigEndian(args[3]) = Value(p.value)
              /\ BigEndian(args[4]) = p.decimals
              /\ props = {name \in Properties : ReadsSet(args, name)}
<1> DEFINE a == String(p.token)
           b == Number(p.value)
           c == Number(Decimal(p.decimals))
           four == <<a, a, b, c>>
           r == PropertyArguments(props)
           all == IF props = {} THEN four ELSE four \o r
           data == IssuePayload(p.token, p.token, p.value, p.decimals, props)
           args == Arguments(data)
<1>1. p.token \in Seq(Byte) /\ p.value \in Seq(Digit) /\ p.decimals \in Nat
  BY DEF TypedPayment
<1>2. /\ a \in Added /\ b \in Added /\ b.is = "number" /\ b.of = p.value
      /\ c \in Added /\ c.is = "number" /\ Value(c.of) = p.decimals
  <2>1. Decimal(p.decimals) \in Seq(Digit) /\ Value(Decimal(p.decimals)) = p.decimals
    BY <1>1, DecimalReadsBack
  <2> QED
    BY <1>1, <2>1, AddedStrings
<1>3. data = Issue \o asOnData(four) \o (IF props # {} THEN asOnData(r) ELSE <<>>)
  BY DEF IssuePayload, DiffersFromDefault
<1>4. r \in Seq(Added)
  BY PropertyArgumentsAt
<1> HIDE DEF a, b, c, r, data
<1>5. four \in Seq(Added) /\ Len(four) = 4 /\ four[3] = b /\ four[4] = c
  BY <1>2, ManyAdded
<1> HIDE DEF four
<1>6. /\ all \in Seq(Added) /\ Len(all) >= 4 /\ all[3] = b /\ all[4] = c
      /\ data = Issue \o asOnData(all)
  <2> DEFINE x == asOnData(four)
  <2>1. x \in Seq(Byte) /\ Issue \in Seq(Byte) /\ Issue \o x \in Seq(Byte)
    BY <1>5, DataUnfold, Names, ConcatProperties
  <2>2. CASE props = {}
    <3>1. (Issue \o x) \o <<>> = Issue \o x
      BY <2>1, ConcatEmptySeq
    <3> HIDE DEF x
    <3>2. all = four /\ data = (Issue \o x) \o <<>>
      BY <1>3, <2>2 DEF x
    <3> HIDE DEF all
    <3>3. Len(all) >= 4 /\ all \in Seq(Added) /\ all[3] = b /\ all[4] = c
      <4>1. Len(four) >= 4
        BY <1>5
      <4>2. all = four
        BY <3>2
      <4> QED
        BY <1>5, <4>1, <4>2, Zenon
    <3>4. data = Issue \o asOnData(all)
      BY <3>1, <3>2 DEF x
    <3> QED
      BY <3>3, <3>4
  <2>3. CASE props # {}
    <3> DEFINE y == asOnData(r)
               z == four \o r
    <3>1. y \in Seq(Byte)
      BY <1>4, DataUnfold
    <3>2. asOnData(z) = x \o y
      BY <1>4, <1>5, DataConcat
    <3>3. all = z /\ data = (Issue \o x) \o y
      BY <1>3, <2>3
    <3>4. /\ z \in Seq(Added) /\ Len(z) = Len(four) + Len(r)
          /\ \A i \in 1..(Len(four) + Len(r)) :
                z[i] = IF i <= Len(four) THEN four[i] ELSE r[i - Len(four)]
      BY <1>4, <1>5, ConcatProperties
    <3> HIDE DEF x, y, z, all
    <3>5. (Issue \o x) \o y = Issue \o (x \o y)
      BY <2>1, <3>1, ConcatAssociative
    <3>6. Len(r) \in Nat
      BY <1>4
    <3>7. Len(z) >= 4 /\ z[3] = b /\ z[4] = c
      BY <1>5, <3>4, <3>6
    <3> QED
      BY <3>2, <3>3, <3>4, <3>5, <3>7
  <2> QED
    BY <2>2, <2>3
<1>7. ReadAs(data, all)
  <2> HIDE DEF all
  <2> QED BY <1>6, Names, PayloadReadsBack
<1>8. BigEndian(args[3]) = Value(p.value) /\ BigEndian(args[4]) = p.decimals
  <2> HIDE DEF all, args
  <2>1. 3 \in 1..Len(all) /\ 4 \in 1..Len(all)
    BY <1>6
  <2>2. IsRead(args[3], b) /\ IsRead(args[4], c)
    BY <1>6, <1>7, <2>1, Zenon DEF ReadAs, args
  <2> QED
    BY <1>2, <2>2 DEF IsRead
<1>9. props = {name \in Properties : ReadsSet(args, name)}
  <2>1. CASE props = {}
    <3>1. Len(args) = 4
      BY <1>5, <1>7, <2>1 DEF ReadAs
    <3>2. \A name : ~ReadsSet(args, name)
      <4> HIDE DEF args
      <4> QED BY <3>1 DEF ReadsSet
    <3> QED
      BY <2>1, <3>2
  <2>2. CASE props # {}
    <3>1. ReadAs(data, four \o PropertyArguments(props))
      BY <1>7, <2>2 DEF r
    <3> QED
      BY <1>5, <3>1, ReadsProperties
  <2> QED
    BY <2>1, <2>2
<1>10. WellFormed(data)
  BY <1>7 DEF ReadAs
<1> QED
  BY <1>8, <1>9, <1>10 DEF data

(***************************************************************************)
(* The network reads an issuance with its supply, its decimals and exactly *)
(* the properties that were set, however many there are.                   *)
(***************************************************************************)
THEOREM IssuancesReadBack == Spec => []IssueReadsBack
<1>1. ASSUME Typed
      PROVE  IssueReadsBack
  <2>1. properties \in SUBSET Properties /\ \A i \in DOMAIN payments : payments[i] \in TypedPayment
    BY <1>1 DEF Typed
  <2> SUFFICES ASSUME NEW i \in DOMAIN payments
               PROVE  LET p    == payments[i]
                          data == IssuePayload(p.token, p.token, p.value, p.decimals, properties)
                          args == Arguments(data)
                      IN /\ WellFormed(data)
                         /\ BigEndian(args[3]) = Value(p.value)
                         /\ BigEndian(args[4]) = p.decimals
                         /\ properties = {name \in Properties : ReadsSet(args, name)}
    BY Zenon DEF IssueReadsBack, ReadsSet
  <2> DEFINE p == payments[i]
  <2>2. p \in TypedPayment
    BY <2>1
  <2> HIDE DEF p
  <2> QED
    BY <2>1, <2>2, EveryIssue, Zenon DEF p
<1> QED
  BY <1>1, PaymentsTyped, PTL
=============================================================================
