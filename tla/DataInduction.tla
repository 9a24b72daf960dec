---------------------------- MODULE DataInduction ----------------------------
(***************************************************************************)
(* Induction and recursion over numbers and sequences, stated with sets    *)
(* and functions in the place of predicates and operators, so that they    *)
(* can be cited for the recursive definitions of this project.             *)
(***************************************************************************)
EXTENDS Integers, Sequences, SequenceTheorems, WellFoundedInduction, TLAPS

(***************************************************************************)
(* A set with 0 that has the successor of each of its numbers has them     *)
(* all.                                                                    *)
(***************************************************************************)
LEMMA NatSetInduction ==
    ASSUME NEW T, 0 \in T, \A n \in Nat : n \in T => n + 1 \in T
    PROVE  \A n \in Nat : n \in T
<1> DEFINE U == Nat \ T
<1> SUFFICES ASSUME U # {} PROVE FALSE
  OBVIOUS
<1>1. PICK x \in U : \A y \in U : ~(<<y, x>> \in OpToRel(<, Nat))
  BY NatLessThanWellFounded, WFMin
<1>2. x \in Nat /\ x # 0 /\ x - 1 \in Nat
  OBVIOUS
<1>3. x - 1 \in U
  BY <1>2
<1>4. <<x - 1, x>> \in OpToRel(<, Nat)
  BY <1>2 DEF OpToRel
<1> QED
  BY <1>1, <1>3, <1>4

(***************************************************************************)
(* ... and so has a set with every number all numbers below which it has.  *)
(***************************************************************************)
LEMMA NatSetStrongInduction ==
    ASSUME NEW T, \A n \in Nat : (\A m \in 0..(n - 1) : m \in T) => n \in T
    PROVE  \A n \in Nat : n \in T
<1> DEFINE U == {n \in Nat : \A m \in 0..(n - 1) : m \in T}
<1>1. 0 \in U
  OBVIOUS
<1>2. ASSUME NEW n \in Nat, n \in U
      PROVE  n + 1 \in U
  <2>1. \A m \in 0..n : m \in T
    BY <1>2
  <2> QED
    BY <2>1
<1>3. \A n \in Nat : n \in U
  <2> HIDE DEF U
  <2> QED BY <1>1, <1>2, NatSetInduction
<1> QED
  BY <1>3

(***************************************************************************)
(* Induction over the sequences over a set, from the left.                 *)
(***************************************************************************)
LEMMA SeqSetInduction ==
    ASSUME NEW S, NEW T, <<>> \in T,
           \A s \in Seq(S), e \in S : s \in T => Append(s, e) \in T
    PROVE  \A s \in Seq(S) : s \in T
<1> DEFINE U == {n \in Nat : \A s \in Seq(S) : Len(s) = n => s \in T}
<1>1. 0 \in U
  OBVIOUS
<1>2. ASSUME NEW n \in Nat, n \in U
      PROVE  n + 1 \in U
  <2> SUFFICES ASSUME NEW s \in Seq(S), Len(s) = n + 1
               PROVE  s \in T
    OBVIOUS
  <2>1. PICK r \in Seq(S), e \in S : s = Append(r, e)
    BY SequenceEmptyOrAppend
  <2>2. Len(r) = n
    BY <2>1, AppendProperties
  <2>3. r \in T
    BY <1>2, <2>2
  <2> QED
    BY <2>1, <2>3
<1>3. \A n \in Nat : n \in U
  <2> HIDE DEF U
  <2> QED BY <1>1, <1>2, NatSetInduction
<1> QED
  BY <1>3, LenProperties

\* f is given below b, and from b on follows from its value at prev.
Recurs(f, V, b, base, prev, step) ==
    /\ f \in [Nat -> V]
    /\ \A n \in Nat : f[n] = IF n < b THEN base[n] ELSE step[n][f[prev[n]]]

(***************************************************************************)
(* A function of the numbers that is given below a bound, and from it on   *)
(* follows from its value at a smaller number, exists.                     *)
(***************************************************************************)
LEMMA RecursionExists ==
    ASSUME NEW V, NEW b \in Nat, NEW base \in [Nat -> V], NEW prev \in [Nat -> Nat],
           NEW step \in [Nat -> [V -> V]],
           \A n \in Nat : n >= b => prev[n] < n
    PROVE  \E f : Recurs(f, V, b, base, prev, step)
<1> DEFINE Is(g, m) == /\ g \in [0..m -> V]
                       /\ \A n \in 0..m :
                            g[n] = IF n < b THEN base[n] ELSE step[n][g[prev[n]]]
           T == {m \in Nat : \E g : Is(g, m)}
<1>1. 0 \in T
  <2> DEFINE g == [n \in 0..0 |-> base[0]]
  <2>1. 0 < b
    OBVIOUS
  <2>2. Is(g, 0)
    BY <2>1
  <2> QED
    BY <2>2
<1>2. ASSUME NEW m \in Nat, m \in T
      PROVE  m + 1 \in T
  <2>1. PICK g : Is(g, m)
    BY <1>2
  <2> DEFINE new == IF m + 1 < b THEN base[m + 1] ELSE step[m + 1][g[prev[m + 1]]]
             h == [n \in 0..(m + 1) |-> IF n = m + 1 THEN new ELSE g[n]]
  <2>2. new \in V
    BY <2>1
  <2>3. h \in [0..(m + 1) -> V]
    BY <2>1, <2>2
  <2>4. ASSUME NEW n \in 0..(m + 1)
        PROVE  h[n] = IF n < b THEN base[n] ELSE step[n][h[prev[n]]]
    <3>0. \A i \in 0..m : h[i] = g[i]
      OBVIOUS
    <3>1. n >= b => prev[n] \in 0..m /\ h[prev[n]] = g[prev[n]]
      <4>1. n >= b => prev[n] \in 0..m
        OBVIOUS
      <4> HIDE DEF h
      <4> QED
        BY <3>0, <4>1
    <3>2. CASE n = m + 1
      BY <3>1, <3>2
    <3>3. CASE n \in 0..m
      <4>1. g[n] = IF n < b THEN base[n] ELSE step[n][g[prev[n]]]
        BY <2>1, <3>3
      <4> HIDE DEF h
      <4> QED
        BY <3>0, <3>1, <3>3, <4>1
    <3> QED
      BY <3>2, <3>3
  <2>5. Is(h, m + 1)
    BY <2>3, <2>4
  <2> HIDE DEF Is, h
  <2> QED
    BY <2>5
<1>3. \A m \in Nat : \E g : Is(g, m)
  <2>1. \A m \in Nat : m \in T
    <3> HIDE DEF T
    <3> QED BY <1>1, <1>2, NatSetInduction
  <2> QED
    BY <2>1
<1>4. ASSUME NEW m \in Nat, NEW k \in Nat, NEW g, NEW h, Is(g, m), Is(h, k),
             NEW n \in Nat, n <= m, n <= k
      PROVE  g[n] = h[n]
  <2> DEFINE U == {i \in Nat : i <= m /\ i <= k => g[i] = h[i]}
  <2>1. ASSUME NEW i \in Nat, \A j \in 0..(i - 1) : j \in U
        PROVE  i \in U
    <3> SUFFICES ASSUME i <= m, i <= k
                 PROVE  g[i] = h[i]
      OBVIOUS
    <3>1. i >= b => prev[i] \in 0..(i - 1) /\ g[prev[i]] = h[prev[i]]
      BY <2>1
    <3> QED
      BY <1>4, <3>1
  <2>2. \A i \in Nat : i \in U
    <3> HIDE DEF U
    <3> QED BY <2>1, NatSetStrongInduction
  <2> QED
    BY <1>4, <2>2
<1> DEFINE F(m) == CHOOSE g : Is(g, m)
           f == [n \in Nat |-> F(n)[n]]
<1>5. \A m \in Nat : Is(F(m), m)
  BY <1>3
<1> HIDE DEF F
<1>6. f \in [Nat -> V]
  BY <1>5
<1>7. ASSUME NEW n \in Nat
      PROVE  f[n] = IF n < b THEN base[n] ELSE step[n][f[prev[n]]]
  <2>1. F(n)[n] = IF n < b THEN base[n] ELSE step[n][F(n)[prev[n]]]
    BY <1>5
  <2>2. n >= b => F(n)[prev[n]] = F(prev[n])[prev[n]]
    <3> SUFFICES ASSUME n >= b
                 PROVE  F(n)[prev[n]] = F(prev[n])[prev[n]]
      OBVIOUS
    <3>1. prev[n] \in Nat /\ prev[n] <= n
      OBVIOUS
    <3>2. Is(F(n), n) /\ Is(F(prev[n]), prev[n])
      BY <1>5, <3>1
    <3> HIDE DEF Is
    <3> QED
      BY <1>4, <3>1, <3>2
  <2> QED
    BY <2>1, <2>2
<1>8. Recurs(f, V, b, base, prev, step)
  BY <1>6, <1>7 DEF Recurs
<1> QED
  BY <1>8

-----------------------------------------------------------------------------
(* Folds over sequences *)

\* f is what a fold over s comes to, at every position.
Folds(f, S, V, base, step, s) ==
    /\ base \in V /\ step \in [V -> [S -> V]] /\ s \in Seq(S)
    /\ f \in [0..Len(s) -> V]
    /\ f[0] = base
    /\ \A n \in 1..Len(s) : f[n] = step[f[n - 1]][s[n]]

\* v is a function over D.
Over(v, D) == v = [n \in D |-> v[n]]

(***************************************************************************)
(* Every fold exists.                                                      *)
(***************************************************************************)
LEMMA FoldExists ==
    ASSUME NEW S, NEW V, NEW base \in V, NEW step \in [V -> [S -> V]], NEW s \in Seq(S)
    PROVE  \E f : Folds(f, S, V, base, step, s)
<1> DEFINE b == 1
           base0 == [n \in Nat |-> base]
           prev == [n \in Nat |-> IF n = 0 THEN 0 ELSE n - 1]
           step0 == [n \in Nat |-> [v \in V |-> IF n \in 1..Len(s) THEN step[v][s[n]] ELSE v]]
<1>0. Len(s) \in Nat /\ \A n \in 1..Len(s) : s[n] \in S
  OBVIOUS
<1>1. b \in Nat /\ base0 \in [Nat -> V] /\ prev \in [Nat -> Nat] /\ step0 \in [Nat -> [V -> V]]
  BY <1>0
<1>2. \A n \in Nat : n >= b => prev[n] < n
  OBVIOUS
<1>3. PICK f : Recurs(f, V, b, base0, prev, step0)
  <2> HIDE DEF b, base0, prev, step0
  <2> QED BY <1>1, <1>2, RecursionExists
<1> DEFINE h == [n \in 0..Len(s) |-> f[n]]
<1>4. h \in [0..Len(s) -> V] /\ h[0] = base
  <2>1. f[0] = base0[0]
    <3>1. 0 \in Nat /\ 0 < b
      OBVIOUS
    <3> HIDE DEF b, base0, prev, step0
    <3> QED BY <1>3, <3>1 DEF Recurs
  <2> QED
    BY <1>0, <1>3, <2>1 DEF Recurs
<1>5. ASSUME NEW n \in 1..Len(s)
      PROVE  h[n] = step[h[n - 1]][s[n]]
  <2>1. f[n] = step0[n][f[n - 1]]
    <3>1. n \in Nat /\ ~(n < b) /\ prev[n] = n - 1
      BY <1>0
    <3> HIDE DEF b, base0, prev, step0
    <3> QED BY <1>3, <3>1 DEF Recurs
  <2>2. f[n - 1] \in V
    BY <1>0, <1>3 DEF Recurs
  <2>3. step0[n][f[n - 1]] = step[f[n - 1]][s[n]]
    <3> DEFINE w == f[n - 1]
    <3>1. n \in Nat /\ n \in 1..Len(s) /\ w \in V
      BY <1>0, <2>2
    <3> HIDE DEF w, b, base0, prev, h
    <3>2. step0[n][w] = step[w][s[n]]
      BY <3>1
    <3> QED
      BY <3>2 DEF w
  <2>4. h[n] = f[n] /\ h[n - 1] = f[n - 1]
    BY <1>0
  <2> QED
    BY <2>1, <2>3, <2>4
<1>6. Folds(h, S, V, base, step, s)
  BY <1>4, <1>5 DEF Folds
<1> QED
  BY <1>6

(***************************************************************************)
(* A function that satisfies the equations of a fold wherever the value    *)
(* before is one of the fold's is that fold.                               *)
(***************************************************************************)
LEMMA FoldEquations ==
    ASSUME NEW S, NEW V, NEW base \in V, NEW step \in [V -> [S -> V]], NEW s \in Seq(S),
           NEW v, Over(v, 0..Len(s)), v[0] = base,
           \A n \in 1..Len(s) : v[n - 1] \in V => v[n] = step[v[n - 1]][s[n]]
    PROVE  Folds(v, S, V, base, step, s)
<1> DEFINE T == {n \in Nat : n <= Len(s) => v[n] \in V}
<1>0. Len(s) \in Nat /\ \A n \in 1..Len(s) : s[n] \in S
  OBVIOUS
<1>1. 0 \in T
  OBVIOUS
<1>2. ASSUME NEW n \in Nat, n \in T
      PROVE  n + 1 \in T
  <2> SUFFICES ASSUME n + 1 <= Len(s)
               PROVE  v[n + 1] \in V
    OBVIOUS
  <2>1. v[n] \in V /\ n + 1 \in 1..Len(s) /\ (n + 1) - 1 = n
    BY <1>0, <1>2
  <2>2. v[n + 1] = step[v[n]][s[n + 1]]
    BY <2>1
  <2> QED
    BY <1>0, <2>1, <2>2
<1>3. \A n \in Nat : n \in T
  <2> HIDE DEF T
  <2> QED BY <1>1, <1>2, NatSetInduction
<1>4. \A n \in 0..Len(s) : v[n] \in V
  BY <1>0, <1>3
<1>5. v \in [0..Len(s) -> V]
  BY <1>4 DEF Over
<1>6. ASSUME NEW n \in 1..Len(s)
      PROVE  v[n] = step[v[n - 1]][s[n]]
  <2>1. n - 1 \in 0..Len(s)
    BY <1>0
  <2> QED
    BY <1>4, <2>1
<1> QED
  BY <1>5, <1>6 DEF Folds

(***************************************************************************)
(* A fold over a longer sequence goes on where it was.                     *)
(***************************************************************************)
LEMMA FoldAppend ==
    ASSUME NEW S, NEW V, NEW base, NEW step, NEW s, NEW c \in S, NEW f, NEW g,
           Folds(f, S, V, base, step, s), Folds(g, S, V, base, step, Append(s, c))
    PROVE  /\ f[Len(s)] \in V
           /\ g[Len(Append(s, c))] = step[f[Len(s)]][c]
<1> DEFINE t == Append(s, c)
           T == {n \in Nat : n <= Len(s) => f[n] = g[n]}
<1>0. s \in Seq(S)
  BY DEF Folds
<1>1. /\ Len(s) \in Nat /\ Len(t) = Len(s) + 1 /\ t[Len(s) + 1] = c
      /\ \A n \in 1..Len(s) : t[n] = s[n]
  BY <1>0, AppendProperties
<1> HIDE DEF t
<1>2. 0 \in T
  <2>1. f[0] = base /\ g[0] = base
    BY DEF Folds
  <2> QED
    BY <2>1
<1>3. ASSUME NEW n \in Nat, n \in T
      PROVE  n + 1 \in T
  <2> SUFFICES ASSUME n + 1 <= Len(s)
               PROVE  f[n + 1] = g[n + 1]
    OBVIOUS
  <2>1. f[n] = g[n]
    BY <1>1, <1>3
  <2>2. n + 1 \in 1..Len(s) /\ n + 1 \in 1..Len(t) /\ (n + 1) - 1 = n
    BY <1>1
  <2>3. f[n + 1] = step[f[n]][s[n + 1]]
    BY <2>2 DEF Folds
  <2>4. g[n + 1] = step[g[n]][t[n + 1]]
    BY <2>2 DEF Folds, t
  <2> QED
    BY <1>1, <2>1, <2>2, <2>3, <2>4
<1>4. \A n \in Nat : n \in T
  <2> HIDE DEF T
  <2> QED BY <1>2, <1>3, NatSetInduction
<1>5. f[Len(s)] = g[Len(s)]
  BY <1>1, <1>4
<1>6. g[Len(s) + 1] = step[g[Len(s)]][c]
  <2>1. Len(s) + 1 \in 1..Len(t)
    BY <1>1
  <2> QED
    BY <1>1, <2>1 DEF Folds, t
<1>7. f[Len(s)] \in V
  <2>1. f \in [0..Len(s) -> V]
    BY DEF Folds
  <2> QED
    BY <1>1, <2>1
<1> QED
  <2>1. Len(Append(s, c)) = Len(s) + 1
    BY <1>1 DEF t
  <2> QED
    BY <1>5, <1>6, <1>7, <2>1

LEMMA ConcatAppend ==
    ASSUME NEW S, NEW s \in Seq(S), NEW t \in Seq(S), NEW c \in S
    PROVE  s \o Append(t, c) = Append(s \o t, c)
<1> DEFINE e == <<c>>
<1>1. e \in Seq(S) /\ s \o t \in Seq(S)
  BY ConcatProperties
<1>2. Append(t, c) = t \o e /\ Append(s \o t, c) = (s \o t) \o e
  BY <1>1, AppendIsConcat
<1> HIDE DEF e
<1>3. (s \o t) \o e = s \o (t \o e)
  BY <1>1, ConcatAssociative
<1> QED
  BY <1>2, <1>3

(***************************************************************************)
(* A sequence is its first k elements and the others.                      *)
(***************************************************************************)
LEMMA SplitAt ==
    ASSUME NEW S, NEW s \in Seq(S), NEW k \in 0..Len(s)
    PROVE  /\ SubSeq(s, 1, k) \in Seq(S) /\ Len(SubSeq(s, 1, k)) = k
           /\ \A i \in 1..k : SubSeq(s, 1, k)[i] = s[i]
           /\ SubSeq(s, k + 1, Len(s)) \in Seq(S) /\ Len(SubSeq(s, k + 1, Len(s))) = Len(s) - k
           /\ \A i \in 1..(Len(s) - k) : SubSeq(s, k + 1, Len(s))[i] = s[k + i]
           /\ s = SubSeq(s, 1, k) \o SubSeq(s, k + 1, Len(s))
<1> DEFINE a == SubSeq(s, 1, k)
           b == SubSeq(s, k + 1, Len(s))
<1>0. Len(s) \in Nat /\ k \in Nat /\ k <= Len(s)
  OBVIOUS
<1>1. a \in Seq(S) /\ Len(a) = k /\ \A i \in 1..k : a[i] = s[i]
  <2>1. \A i \in 1..k : s[i] \in S
    BY <1>0
  <2> QED
    BY <1>0, <2>1, SubSeqProperties
<1>2. b \in Seq(S) /\ Len(b) = Len(s) - k /\ \A i \in 1..(Len(s) - k) : b[i] = s[k + i]
  <2>1. \A i \in (k + 1)..Len(s) : s[i] \in S
    BY <1>0
  <2> QED
    BY <1>0, <2>1, SubSeqProperties
<1> HIDE DEF a, b
<1>3. s = a \o b
  <2>1. /\ a \o b \in Seq(S) /\ Len(a \o b) = Len(s)
        /\ \A i \in 1..Len(s) : (a \o b)[i] = IF i <= k THEN a[i] ELSE b[i - k]
    BY <1>0, <1>1, <1>2, ConcatProperties
  <2>2. \A i \in 1..Len(s) : (a \o b)[i] = s[i]
    BY <1>0, <1>1, <1>2, <2>1
  <2> QED
    BY <2>1, <2>2, SeqEqual
<1> QED
  BY <1>1, <1>2, <1>3 DEF a, b
=============================================================================
