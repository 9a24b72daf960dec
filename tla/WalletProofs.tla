----------------------------- MODULE WalletProofs -----------------------------
(***************************************************************************)
(* Proofs about Wallet: a key file opens as the keys it was written for,   *)
(* and never as others but for its initialisation vector; a PEM file that  *)
(* is cut opens as they are or not at all; a signature is good for one     *)
(* purpose; and no two texts are addresses of one key.  For keys, lines,   *)
(* passwords and addresses of any length.                                  *)
(***************************************************************************)
EXTENDS Wallet, EncodingsProofs

-----------------------------------------------------------------------------
(* Terms *)

LEMMA CodeInjective ==
    ASSUME NEW p1, NEW salt1, NEW c1, NEW p2, NEW salt2, NEW c2,
           hmacsha256(SecondHalf(Derived(p1, salt1)), c1)
             = hmacsha256(SecondHalf(Derived(p2, salt2)), c2)
    PROVE  p1 = p2 /\ salt1 = salt2 /\ c1 = c2
<1> DEFINE h1 == hmacsha256(SecondHalf(Derived(p1, salt1)), c1)
           h2 == hmacsha256(SecondHalf(Derived(p2, salt2)), c2)
<1>1. h1.of = c1 /\ h2.of = c2
  BY DEF hmacsha256
<1>2. h1.key = SecondHalf(Derived(p1, salt1)) /\ h2.key = SecondHalf(Derived(p2, salt2))
  BY DEF hmacsha256
<1>3. SecondHalf(Derived(p1, salt1)) = SecondHalf(Derived(p2, salt2))
  BY <1>2
<1>4. Derived(p1, salt1) = Derived(p2, salt2)
  BY <1>3 DEF SecondHalf
<1>5. /\ Derived(p1, salt1).password = p1 /\ Derived(p1, salt1).salt = salt1
      /\ Derived(p2, salt2).password = p2 /\ Derived(p2, salt2).salt = salt2
  BY DEF Derived
<1> QED BY <1>1, <1>4, <1>5

\* The first bytes of a pair of keys are its seed.
LEMMA SeedOfPair ==
    ASSUME NEW s \in Seed
    PROVE  SubSeq(s \o PkOf(s), 1, SeedLength) = s
<1> DEFINE pair == s \o PkOf(s)
<1>1. /\ s \in Seq(Byte) /\ Len(s) = SeedLength /\ SeedLength \in Nat
      /\ PkOf(s) \in Seq(Byte) /\ Len(PkOf(s)) = SeedLength
  BY SeedAssumption
<1>2. /\ pair \in Seq(Byte) /\ Len(pair) = 2 * SeedLength
      /\ \A i \in 1..SeedLength : pair[i] = s[i]
  BY <1>1, ConcatProperties
<1> HIDE DEF pair
<1>3. \A i \in 1..SeedLength : pair[i] \in Byte
  BY <1>1, <1>2
<1>4. /\ SubSeq(pair, 1, SeedLength) \in Seq(Byte)
      /\ Len(SubSeq(pair, 1, SeedLength)) = SeedLength
      /\ \A i \in 1..SeedLength : SubSeq(pair, 1, SeedLength)[i] = pair[i]
  BY <1>1, <1>3, SubSeqProperties
<1>5. SubSeq(pair, 1, SeedLength) = s
  BY <1>1, <1>2, <1>4, SeqEqual
<1> QED BY <1>5 DEF pair

-----------------------------------------------------------------------------
(* Damaged key files *)

StoreFields == {"version", "kdf", "cipher", "salt", "iv", "cipherText", "mac"}

\* A key file is the one that was written but for what is lost or replaced,
\* and its initialisation vector is replaced by no other damage.
Remains(salt, iv) ==
    /\ file = [kind |-> "json", content |-> file.content]
    /\ DOMAIN file.content = StoreFields
    /\ \A f \in StoreFields :
          \/ file.content[f] = Store(written.seed, written.password, salt, iv)[f]
          \/ file.content[f] \in {None, Junk}
    /\ file.content.iv \in {iv, None} \/ "iv" \in damage

\* The files that wallets encrypt, and what remains of them.
StoreInv ==
    /\ file # None => file = [kind |-> file.kind, content |-> file.content]
    /\ file # None /\ file.kind = "json" =>
        /\ written.seed \in Seed /\ written.password \in Password
        /\ \E salt \in Salt, iv \in IV : Remains(salt, iv)

KeyInv == StoreInv /\ (key # None => file # None) /\ StoreKeepsSeed

\* What a key file that is damaged decrypts to, when its code is right.
LEMMA DamagedStoreOpens ==
    ASSUME StoreInv, file # None, file.kind = "json",
           NEW password \in Password,
           StoreBytes(file.content, password) # Invalid
    PROVE  /\ password = written.password
           /\ \/ SubSeq(StoreBytes(file.content, password), 1, SeedLength) = written.seed
              \/ "iv" \in damage
<1> DEFINE store == file.content
           whole(salt, iv) == Store(written.seed, written.password, salt, iv)
<1>1. PICK salt \in Salt, iv \in IV : Remains(salt, iv)
  BY DEF StoreInv
<1>2. written.seed \in Seed /\ written.password \in Password
  BY DEF StoreInv
<1> DEFINE derived == Derived(written.password, salt)
           cipherText == Encrypted(FirstHalf(derived), written.seed \o PkOf(written.seed), iv)
<1>3. /\ whole(salt, iv).salt = salt /\ whole(salt, iv).iv = iv
      /\ whole(salt, iv).cipherText = cipherText
      /\ whole(salt, iv).mac = hmacsha256(SecondHalf(derived), cipherText)
  BY DEF Store
<1>4. cipherText \in CipherText
  BY <1>2 DEF CipherText
<1>5. Parsed(store)
  BY DEF StoreBytes
<1>6. \A f \in StoreFields : store[f] # None
  BY <1>1, <1>5 DEF Parsed, Remains
<1>7. /\ store.salt \in {salt, Junk}
      /\ store.cipherText \in {cipherText, Junk}
      /\ store.mac \in {hmacsha256(SecondHalf(derived), cipherText), Junk}
      /\ store.iv = iv \/ "iv" \in damage
  <2>1. \A f \in StoreFields : store[f] \in {whole(salt, iv)[f], Junk}
    BY <1>1, <1>6 DEF Remains
  <2>2. {"salt", "cipherText", "mac", "iv"} \subseteq StoreFields
    BY DEF StoreFields
  <2>3. store.salt \in {whole(salt, iv).salt, Junk}
    BY <2>1, <2>2
  <2>4. store.cipherText \in {whole(salt, iv).cipherText, Junk}
    BY <2>1, <2>2
  <2>5. store.mac \in {whole(salt, iv).mac, Junk}
    BY <2>1, <2>2
  <2>6. store.iv = iv \/ "iv" \in damage
    BY <1>1, <1>6, <2>2 DEF Remains
  <2> HIDE DEF whole, cipherText, derived, store
  <2> QED BY <1>3, <2>3, <2>4, <2>5, <2>6
<1> DEFINE code == hmacsha256(SecondHalf(Derived(password, store.salt)), store.cipherText)
           key1 == FirstHalf(Derived(password, store.salt))
<1>8. StoreBytes(store, password) = deriveSecretKey(store, password)
  BY DEF StoreBytes
<1>9. /\ code = store.mac
      /\ deriveSecretKey(store, password) = aes128ctrDecrypt(key1, store.cipherText, store.iv)
  BY <1>8 DEF deriveSecretKey
<1>10. code # Junk
  BY <1>4, <1>7, JunkAssumption
<1>11. code = hmacsha256(SecondHalf(derived), cipherText)
  <2> HIDE DEF code, derived, cipherText, store
  <2> QED BY <1>7, <1>9, <1>10
<1>12. password = written.password /\ store.salt = salt /\ store.cipherText = cipherText
  BY <1>11, CodeInjective
<1>13. CASE store.iv = iv
  <2>1. cipherText.of = written.seed \o PkOf(written.seed)
    BY DEF Encrypted
  <2>2. cipherText # Junk
    BY <1>4, JunkAssumption
  <2>3. key1 = FirstHalf(derived)
    BY <1>12
  <2>4. aes128ctrDecrypt(key1, store.cipherText, store.iv)
          = written.seed \o PkOf(written.seed)
    BY <1>12, <1>13, <2>1, <2>2, <2>3 DEF aes128ctrDecrypt
  <2> QED BY <1>2, <1>8, <1>9, <1>12, <2>4, SeedOfPair
<1>14. CASE "iv" \in damage
  BY <1>12, <1>14
<1> QED BY <1>7, <1>13, <1>14

LEMMA KeyInvStep ==
    ASSUME KeyInv, [Next]_vars
    PROVE  KeyInv'
<1> USE DEF KeyInv, StoreKeepsSeed
<1> SUFFICES ASSUME Next PROVE KeyInv'
  BY DEF vars, StoreInv, Remains
<1>1. ASSUME NEW s \in Seed, WritePem(s) PROVE KeyInv'
  BY <1>1 DEF WritePem, Writes, StoreInv
<1>2. ASSUME NEW s \in Seed, WriteStore(s) PROVE KeyInv'
  <2>1. PICK password \in Password, salt \in Salt, iv \in IV :
            Writes("json", Store(s, password, salt, iv), s, password)
    BY <1>2 DEF WriteStore
  <2>2. /\ file' = [kind |-> "json", content |-> Store(s, password, salt, iv)]
        /\ written' = [seed |-> s, password |-> password] /\ key' = None
    BY <2>1 DEF Writes
  <2>3. /\ file'.content = Store(s, password, salt, iv)
        /\ written'.seed = s /\ written'.password = password
    BY <2>2
  <2>4. /\ DOMAIN Store(s, password, salt, iv) = StoreFields
        /\ Store(s, password, salt, iv).iv = iv
    BY DEF Store, StoreFields
  <2>5. file' = [kind |-> "json", content |-> file'.content] /\ file'.kind = "json"
    BY <2>2, <2>3
  <2>6. Remains(salt, iv)'
    BY <2>3, <2>4, <2>5 DEF Remains
  <2> QED BY <2>2, <2>3, <2>5, <2>6 DEF StoreInv
<1>3. ASSUME CutPem PROVE KeyInv'
  <2>1. PICK content : /\ file # None /\ file.kind = "pem" /\ key = None
                       /\ file' = [file EXCEPT !.content = content]
                       /\ key' = key
    BY <1>3 DEF CutPem, Damaged, IsKind
  <2> QED BY <2>1 DEF StoreInv
<1>4. ASSUME ConvertLineEnds PROVE KeyInv'
  <2>1. PICK content : /\ file # None /\ file.kind = "pem" /\ key = None
                       /\ file' = [file EXCEPT !.content = content]
                       /\ key' = key
    BY <1>4 DEF ConvertLineEnds, Damaged, IsKind
  <2> QED BY <2>1 DEF StoreInv
<1>5. ASSUME CutStore PROVE KeyInv'
  <2>1. /\ file # None /\ file.kind = "json" /\ key = None
        /\ file' = [file EXCEPT !.content = [f \in DOMAIN file.content |-> None]]
        /\ UNCHANGED <<written, key>>
    BY <1>5 DEF CutStore, Damaged, IsKind
  <2>2. PICK salt \in Salt, iv \in IV : Remains(salt, iv)
    BY <2>1 DEF StoreInv
  <2>3. file'.kind = "json" /\ file'.content = [f \in StoreFields |-> None]
    BY <2>1, <2>2 DEF Remains
  <2>4. file' = [kind |-> "json", content |-> file'.content]
    BY <2>1, <2>2 DEF Remains
  <2>5. Remains(salt, iv)'
    BY <2>3, <2>4 DEF Remains, StoreFields
  <2>6. written'.seed \in Seed /\ written'.password \in Password
    BY <2>1 DEF StoreInv
  <2> QED BY <2>1, <2>5, <2>6 DEF StoreInv
<1>6. ASSUME DamageStore PROVE KeyInv'
  <2>1. PICK f \in DOMAIN file.content, value \in {None, Junk} :
            /\ file # None /\ file.kind = "json" /\ key = None
            /\ file' = [file EXCEPT !.content = [file.content EXCEPT ![f] = value]]
            /\ damage' = damage \cup {f}
            /\ UNCHANGED <<written, key>>
    BY <1>6 DEF DamageStore, Damaged, IsKind
  <2>2. PICK salt \in Salt, iv \in IV : Remains(salt, iv)
    BY <2>1 DEF StoreInv
  <2>3. file'.kind = "json" /\ file'.content = [file.content EXCEPT ![f] = value]
    BY <2>1, <2>2 DEF Remains
  <2>4. file' = [kind |-> "json", content |-> file'.content]
    BY <2>1, <2>2 DEF Remains
  <2> DEFINE content == file.content
             contentAfter == file'.content
  <2>5. DOMAIN content = StoreFields /\ f \in StoreFields
    BY <2>2 DEF Remains
  <2>6. /\ DOMAIN contentAfter = StoreFields
        /\ \A g \in StoreFields :
              contentAfter[g] = IF g = f THEN value ELSE content[g]
    BY <2>3, <2>5
  <2>7. \A g \in StoreFields :
          \/ contentAfter[g] = Store(written.seed, written.password, salt, iv)[g]
          \/ contentAfter[g] \in {None, Junk}
    BY <2>2, <2>6 DEF Remains
  <2>8. contentAfter.iv \in {iv, None} \/ "iv" \in damage'
    <3>1. "iv" \in StoreFields
      BY DEF StoreFields
    <3>2. CASE f = "iv"
      BY <2>1, <3>2
    <3>3. CASE f # "iv"
      BY <2>1, <2>2, <2>6, <3>1, <3>3 DEF Remains
    <3> QED BY <3>2, <3>3
  <2>9. Remains(salt, iv)'
    BY <2>1, <2>4, <2>6, <2>7, <2>8 DEF Remains
  <2>10. written'.seed \in Seed /\ written'.password \in Password
    BY <2>1 DEF StoreInv
  <2> QED BY <2>1, <2>9, <2>10 DEF StoreInv
<1>7. ASSUME NEW password \in Password \cup {None}, Open(password) PROVE KeyInv'
  <2>1. UNCHANGED <<file, written, damage>>
    BY <1>7 DEF Open
  <2>2. StoreInv'
    BY <2>1 DEF StoreInv, Remains
  <2>3. CASE key' = None
    BY <2>2, <2>3
  <2>4. CASE key' # None
    <3>1. /\ Bytes(password) # Invalid
          /\ key' = [password |-> password,
                     seed |-> SubSeq(Bytes(password), 1, SeedLength),
                     address |-> SubSeq(Bytes(password), SeedLength + 1,
                                        Len(Bytes(password)))]
      BY <1>7, <2>4 DEF Open
    <3>2. file # None
      BY <3>1 DEF Bytes
    <3>3. ASSUME file.kind = "json"
          PROVE  /\ key'.password = written.password
                 /\ key'.seed = written.seed \/ "iv" \in damage
      <4>1. password \in Password /\ Bytes(password) = StoreBytes(file.content, password)
        BY <3>1, <3>2, <3>3 DEF Bytes
      <4>2. /\ password = written.password
            /\ \/ SubSeq(Bytes(password), 1, SeedLength) = written.seed
               \/ "iv" \in damage
        BY <3>1, <3>2, <3>3, <4>1, DamagedStoreOpens
      <4>3. key'.password = password /\ key'.seed = SubSeq(Bytes(password), 1, SeedLength)
        BY <3>1
      <4> QED BY <4>2, <4>3
    <3> QED BY <2>1, <2>2, <3>2, <3>3
  <2> QED BY <2>3, <2>4
<1>8. ASSUME Close PROVE KeyInv'
  BY <1>8 DEF Close, StoreInv, Remains
<1>9. ASSUME NEW purpose, NEW text, Signs(purpose, text) PROVE KeyInv'
  BY <1>9 DEF Signs, StoreInv, Remains
<1>10. ASSUME NEW groups, ReadAddress(groups) PROVE KeyInv'
  BY <1>10 DEF ReadAddress, StoreInv, Remains
<1> QED
  BY <1>1, <1>2, <1>3, <1>4, <1>5, <1>6, <1>7, <1>8, <1>9, <1>10
     DEF Next, SignMessage, SignTransaction

(***************************************************************************)
(* A key file opens with the password it was written with, as the keys it  *)
(* was written for, unless its initialisation vector was altered: for any  *)
(* damage to a key file and any wrong password (KeyFileReader).            *)
(***************************************************************************)
THEOREM StoreKeepsSeedTheorem == Spec => []StoreKeepsSeed
<1>1. Init => KeyInv
  BY DEF Init, KeyInv, StoreInv, StoreKeepsSeed
<1>2. KeyInv => StoreKeepsSeed
  BY DEF KeyInv
<1> QED BY <1>1, <1>2, KeyInvStep, PTL DEF Spec

-----------------------------------------------------------------------------
(* One purpose *)

LEMMA DecimalUnfold ==
    ASSUME NEW n \in Nat
    PROVE  /\ Decimal(n) = IF n < 10 THEN <<48 + n>>
                           ELSE Append(Decimal(n \div 10), 48 + (n % 10))
           /\ n \div 10 \in Nat /\ n % 10 \in 0..9
           /\ n = 10 * (n \div 10) + (n % 10)
           /\ n >= 10 => n \div 10 \in 1..(n - 1)
<1> DEFINE Rhs(d) == [k \in Nat |-> IF k < 10 THEN <<48 + k>>
                                    ELSE Append(d[k \div 10], 48 + (k % 10))]
           V == Seq(Nat)
           first == [k \in Nat |-> <<48 + k>>]
           prev == [k \in Nat |-> k \div 10]
           step == [k \in Nat |-> [v \in V |-> Append(v, 48 + (k % 10))]]
<1>1. ASSUME NEW k \in Nat
      PROVE  /\ k \div 10 \in Nat /\ k % 10 \in 0..9
             /\ k = 10 * (k \div 10) + (k % 10)
             /\ k >= 10 => k \div 10 \in 1..(k - 1)
  OBVIOUS
<1>2. /\ first \in [Nat -> V] /\ prev \in [Nat -> Nat]
      /\ \A k \in Nat : k >= 10 => prev[k] < k
  BY <1>1
<1>3. step \in [Nat -> [V -> V]]
  <2>1. \A k \in Nat, v \in V : Append(v, 48 + (k % 10)) \in V
    BY <1>1
  <2> QED
    BY <2>1
<1>4. PICK f : Recurs(f, V, 10, first, prev, step)
  <2> HIDE DEF first, prev, step, V
  <2> QED BY <1>2, <1>3, RecursionExists
<1>5. f = Rhs(f)
  <2>1. f \in [Nat -> V]
    BY <1>4 DEF Recurs
  <2>2. ASSUME NEW k \in Nat
        PROVE  f[k] = IF k < 10 THEN <<48 + k>> ELSE Append(f[k \div 10], 48 + (k % 10))
    <3>1. f[k] = IF k < 10 THEN first[k] ELSE step[k][f[prev[k]]]
      <4> HIDE DEF first, prev, step, V
      <4> QED BY <1>4 DEF Recurs
    <3>2. f[k \div 10] \in V
      BY <1>1, <2>1
    <3> QED
      BY <3>1, <3>2
  <2> QED
    BY <2>1, <2>2
<1> DEFINE d == CHOOSE g : g = Rhs(g)
<1>6. d = Rhs(d)
  BY <1>5
<1>7. \A k \in Nat : Decimal(k) = d[k]
  BY DEF Decimal
<1> HIDE DEF d
<1>8. d[n] = IF n < 10 THEN <<48 + n>> ELSE Append(d[n \div 10], 48 + (n % 10))
  BY <1>6
<1> QED
  BY <1>1, <1>7, <1>8

(***************************************************************************)
(* A smaller number has no more digits.                                    *)
(***************************************************************************)
LEMMA DecimalGrows ==
    \A n \in Nat : /\ Decimal(n) \in Seq(Byte) /\ Len(Decimal(n)) >= 1
                   /\ \A m \in 0..n : Len(Decimal(m)) <= Len(Decimal(n))
<1> DEFINE Good(n) == /\ Decimal(n) \in Seq(Byte) /\ Len(Decimal(n)) >= 1
                      /\ \A m \in 0..n : Len(Decimal(m)) <= Len(Decimal(n))
           T == {n \in Nat : Good(n)}
<1>1. ASSUME NEW n \in Nat, n < 10
      PROVE  Decimal(n) \in Seq(Byte) /\ Len(Decimal(n)) = 1
  <2> DEFINE c == 48 + n
  <2>1. Decimal(n) = <<c>> /\ c \in Byte
    BY <1>1, DecimalUnfold DEF Byte
  <2> HIDE DEF c
  <2>2. <<c>> \in Seq(Byte) /\ Len(<<c>>) = 1
    BY <2>1
  <2> QED
    BY <2>1, <2>2
<1>2. ASSUME NEW n \in Nat, n >= 10, Good(n \div 10)
      PROVE  /\ Decimal(n) \in Seq(Byte)
             /\ Len(Decimal(n)) = Len(Decimal(n \div 10)) + 1
  <2> DEFINE c == 48 + (n % 10)
             d == Decimal(n \div 10)
  <2>1. Decimal(n) = Append(d, c) /\ c \in Byte
    <3>1. n % 10 \in 0..9
      BY DecimalUnfold
    <3>2. Decimal(n) = IF n < 10 THEN <<48 + n>> ELSE Append(d, c)
      BY DecimalUnfold
    <3>3. ~(n < 10)
      BY <1>2
    <3> QED
      BY <3>1, <3>2, <3>3 DEF Byte
  <2>2. d \in Seq(Byte)
    BY <1>2
  <2> HIDE DEF c, d, Good
  <2>3. Append(d, c) \in Seq(Byte) /\ Len(Append(d, c)) = Len(d) + 1
    BY <2>1, <2>2, AppendProperties
  <2> QED
    BY <2>1, <2>3 DEF d
<1>3. ASSUME NEW n \in Nat, \A m \in 0..(n - 1) : m \in T
      PROVE  n \in T
  <2>1. CASE n < 10
    <3>1. Decimal(n) \in Seq(Byte) /\ Len(Decimal(n)) = 1
      BY <1>1, <2>1
    <3>2. \A m \in 0..n : m \in Nat /\ m < 10
      BY <2>1
    <3>3. \A m \in 0..n : Len(Decimal(m)) = 1
      BY <1>1, <3>2
    <3>4. Good(n)
      <4>1. ASSUME NEW m \in 0..n
            PROVE  Len(Decimal(m)) <= Len(Decimal(n))
        BY <3>1, <3>3, 1 <= 1
      <4>2. Len(Decimal(n)) >= 1
        BY <3>1, 1 >= 1
      <4> QED
        BY <3>1, <4>1, <4>2, Zenon
    <3> HIDE DEF Good
    <3> QED
      BY <3>4
  <2>2. CASE n >= 10
    <3> DEFINE k == n \div 10
    <3>1. k \in 1..(n - 1) /\ k \in Nat /\ n % 10 \in 0..9 /\ n = 10 * k + (n % 10)
      BY <2>2, DecimalUnfold
    <3>2. Good(k)
      BY <1>3, <3>1
    <3>3. Decimal(n) \in Seq(Byte) /\ Len(Decimal(n)) = Len(Decimal(k)) + 1
      BY <1>2, <2>2, <3>2
    <3>4. Len(Decimal(k)) \in Nat
      BY <3>2
    <3>5. ASSUME NEW m \in 0..n
          PROVE  Len(Decimal(m)) <= Len(Decimal(n))
      <4>1. CASE m < 10
        BY <1>1, <3>3, <3>4, <4>1
      <4>2. CASE m >= 10
        <5> DEFINE j == m \div 10
        <5>1. j \in 1..(m - 1) /\ j \in Nat /\ m % 10 \in 0..9 /\ m = 10 * j + (m % 10)
          BY <4>2, DecimalUnfold
        <5> HIDE DEF j, k
        <5>2. j \in 0..k /\ j \in 0..(n - 1)
          BY <3>1, <5>1
        <5>3. Good(j) /\ Len(Decimal(j)) <= Len(Decimal(k))
          BY <1>3, <3>2, <5>2
        <5>4. Len(Decimal(m)) = Len(Decimal(j)) + 1
          BY <1>2, <4>2, <5>3 DEF j
        <5>5. Len(Decimal(j)) \in Nat
          BY <5>3
        <5> HIDE DEF Good
        <5> QED
          BY <3>3, <3>4, <5>3, <5>4, <5>5
      <4> QED
        BY <4>1, <4>2
    <3>6. Good(n)
      BY <3>3, <3>4, <3>5
    <3> HIDE DEF k, Good
    <3> QED
      BY <3>6
  <2> QED
    BY <2>1, <2>2
<1>4. \A n \in Nat : n \in T
  <2> HIDE DEF T
  <2> QED BY <1>3, NatSetStrongInduction
<1> QED
  BY <1>4

\* How many characters are before a message, without the prefix.
Counted(m) == Len(Decimal(Len(m)))

LEMMA MessageTextProperties ==
    ASSUME NEW m \in Messages
    PROVE  /\ MessageText(m) \in Seq(Byte)
           /\ Len(m) \in Nat /\ Counted(m) \in Nat
           /\ Len(MessageText(m)) = 1 + Counted(m) + Len(m)
           /\ MessageText(m)[1] = 23
           /\ \A i \in 1..Len(m) : MessageText(m)[1 + Counted(m) + i] = m[i]
<1> DEFINE decimal == Decimal(Len(m))
           d == Counted(m)
           head == Prefix \o decimal
<1>1. m \in Seq(Byte) /\ Len(m) \in Nat
  BY MessageAssumption
<1>2. decimal \in Seq(Byte) /\ Len(decimal) = d /\ d \in Nat
  BY <1>1, DecimalGrows DEF Counted
<1>3. Prefix \in Seq(Byte) /\ Len(Prefix) = 1 /\ Prefix[1] = 23
  BY DEF Prefix, Byte
<1> HIDE DEF d, decimal
<1>4. head \in Seq(Byte) /\ Len(head) = 1 + d /\ head[1] = 23
  <2>1. /\ Prefix \o decimal \in Seq(Byte)
        /\ Len(Prefix \o decimal) = Len(Prefix) + Len(decimal)
        /\ \A i \in 1..(Len(Prefix) + Len(decimal)) :
              (Prefix \o decimal)[i] =
                IF i <= Len(Prefix) THEN Prefix[i] ELSE decimal[i - Len(Prefix)]
    BY <1>2, <1>3, ConcatProperties
  <2>2. (Prefix \o decimal)[1] = 23
    BY <1>2, <1>3, <2>1
  <2> QED BY <1>2, <1>3, <2>1, <2>2
<1>5. MessageText(m) = head \o m
  BY DEF MessageText, decimal
<1> HIDE DEF head
<1>6. /\ head \o m \in Seq(Byte)
      /\ Len(head \o m) = 1 + d + Len(m)
      /\ \A i \in 1..(1 + d + Len(m)) :
            (head \o m)[i] = IF i <= 1 + d THEN head[i] ELSE m[i - (1 + d)]
  <2>1. /\ head \o m \in Seq(Byte)
        /\ Len(head \o m) = Len(head) + Len(m)
        /\ \A i \in 1..(Len(head) + Len(m)) :
              (head \o m)[i] = IF i <= Len(head) THEN head[i] ELSE m[i - Len(head)]
    BY <1>1, <1>4, ConcatProperties
  <2>2. Len(head) = 1 + d
    BY <1>4
  <2> QED BY <2>1, <2>2
<1>7. (head \o m)[1] = 23
  BY <1>1, <1>2, <1>4, <1>6
<1>8. \A i \in 1..Len(m) : (head \o m)[1 + d + i] = m[i]
  <2> SUFFICES ASSUME NEW i \in 1..Len(m) PROVE (head \o m)[1 + d + i] = m[i]
    OBVIOUS
  <2>1. 1 + d + i \in 1..(1 + d + Len(m)) /\ ~(1 + d + i <= 1 + d)
        /\ (1 + d + i) - (1 + d) = i
    BY <1>1, <1>2
  <2> QED BY <1>6, <2>1
<1> QED BY <1>1, <1>2, <1>5, <1>6, <1>7, <1>8 DEF d

(***************************************************************************)
(* Though nothing stands between the length and the message: the longer of *)
(* two messages has no fewer digits before it, so two texts of one length  *)
(* are of messages of one length.                                          *)
(***************************************************************************)
LEMMA MessageTextInjective ==
    ASSUME NEW m \in Messages, NEW n \in Messages, MessageText(m) = MessageText(n)
    PROVE  m = n
<1>1. m \in Seq(Byte) /\ n \in Seq(Byte)
  BY MessageAssumption
<1>2. /\ Len(m) \in Nat /\ Counted(m) \in Nat
      /\ Len(n) \in Nat /\ Counted(n) \in Nat
      /\ 1 + Counted(m) + Len(m) = 1 + Counted(n) + Len(n)
  BY MessageTextProperties
<1>3. /\ Len(m) <= Len(n) => Counted(m) <= Counted(n)
      /\ Len(n) <= Len(m) => Counted(n) <= Counted(m)
  <2>1. \A a, b \in Nat : a <= b => Len(Decimal(a)) <= Len(Decimal(b))
    <3> SUFFICES ASSUME NEW a \in Nat, NEW b \in Nat, a <= b
                 PROVE  Len(Decimal(a)) <= Len(Decimal(b))
      OBVIOUS
    <3>1. a \in 0..b
      OBVIOUS
    <3> QED
      BY <3>1, DecimalGrows
  <2> QED
    BY <1>2, <2>1 DEF Counted
<1>4. Len(m) = Len(n) /\ Counted(m) = Counted(n)
  BY <1>2, <1>3
<1>5. ASSUME NEW i \in 1..Len(m)
      PROVE  m[i] = n[i]
  <2>1. MessageText(m)[1 + Counted(m) + i] = m[i]
    BY MessageTextProperties
  <2>2. MessageText(n)[1 + Counted(n) + i] = n[i]
    BY <1>4, MessageTextProperties
  <2> QED
    BY <1>4, <2>1, <2>2
<1> QED BY <1>1, <1>4, <1>5, SeqEqual

\* The purpose of a signature is what was signed.
PurposeInv ==
    signed # None =>
        \E s : \/ \E m \in Messages :
                    signed = [signature |-> SignatureOf(s, MessageHash(m)),
                              purpose |-> <<"message", m>>]
               \/ \E t \in Transactions, hashed \in BOOLEAN :
                    signed = [signature |-> SignatureOf(s, TransactionHash(t, hashed)),
                              purpose |-> <<"transaction", t>>]

LEMMA PurposeInvStep ==
    ASSUME PurposeInv, [Next]_vars
    PROVE  PurposeInv'
<1>1. CASE signed' = signed
  BY <1>1 DEF PurposeInv
<1>2. ASSUME NEW m \in Messages, SignMessage(m) PROVE PurposeInv'
  BY <1>2 DEF SignMessage, Signs, PurposeInv
<1>3. ASSUME NEW t \in Transactions, NEW hashed \in BOOLEAN, SignTransaction(t, hashed)
      PROVE  PurposeInv'
  BY <1>3 DEF SignTransaction, Signs, PurposeInv
<1> QED
  BY <1>1, <1>2, <1>3
     DEF Next, vars, WritePem, WriteStore, Writes, CutPem, ConvertLineEnds, CutStore,
         DamageStore, Damaged, Open, Close, ReadAddress

\* Texts of different purposes differ.
LEMMA TextsApart ==
    /\ \A m, n \in Messages : MessageHash(m) = MessageHash(n) => m = n
    /\ \A m \in Messages, t \in Transactions, hashed \in BOOLEAN :
          MessageHash(m) # TransactionHash(t, hashed)
    /\ \A t, u \in Transactions, h, k \in BOOLEAN :
          TransactionHash(t, h) = TransactionHash(u, k) => t = u
<1>1. ASSUME NEW m \in Messages, NEW n \in Messages, MessageHash(m) = MessageHash(n)
      PROVE  m = n
  <2>1. MessageText(m) = MessageText(n)
    BY <1>1 DEF MessageHash
  <2> QED BY <2>1, MessageTextInjective
<1>2. ASSUME NEW m \in Messages, NEW t \in Transactions, NEW hashed \in BOOLEAN
      PROVE  MessageHash(m) # TransactionHash(t, hashed)
  <2>1. MessageText(m)[1] = 23 /\ t[1] = 123
    BY MessageTextProperties, TransactionAssumption
  <2>2. MessageText(m) # t
    BY <2>1
  <2> QED BY <2>2 DEF MessageHash, TransactionHash
<1>3. ASSUME NEW t \in Transactions, NEW u \in Transactions,
             NEW h \in BOOLEAN, NEW k \in BOOLEAN,
             TransactionHash(t, h) = TransactionHash(u, k)
      PROVE  t = u
  BY <1>3 DEF TransactionHash
<1> QED BY <1>1, <1>2, <1>3

(***************************************************************************)
(* The signature of a message is good for no other message and for no      *)
(* transaction, and the other way round: for messages of any length and    *)
(* every text that begins as JSON objects do.                              *)
(***************************************************************************)
THEOREM MessagesApartTheorem == Spec => []MessagesApart
<1>1. Init => PurposeInv
  BY DEF Init, PurposeInv
<1>2. PurposeInv => MessagesApart
  <2> SUFFICES ASSUME PurposeInv, signed # None PROVE MessagesApart
    BY DEF MessagesApart
  <2>1. PICK s : \/ \E m \in Messages :
                      signed = [signature |-> SignatureOf(s, MessageHash(m)),
                                purpose |-> <<"message", m>>]
                 \/ \E t \in Transactions, hashed \in BOOLEAN :
                      signed = [signature |-> SignatureOf(s, TransactionHash(t, hashed)),
                                purpose |-> <<"transaction", t>>]
    BY DEF PurposeInv
  <2>2. \A text, x, pk : Verify(SignatureOf(s, text), x, pk) => text = x
    BY DEF Verify, SignatureOf
  <2>3. ASSUME NEW n \in Messages,
               signed = [signature |-> SignatureOf(s, MessageHash(n)),
                         purpose |-> <<"message", n>>]
        PROVE  MessagesApart
    BY <2>2, <2>3, TextsApart DEF MessagesApart
  <2>4. ASSUME NEW u \in Transactions, NEW h \in BOOLEAN,
               signed = [signature |-> SignatureOf(s, TransactionHash(u, h)),
                         purpose |-> <<"transaction", u>>]
        PROVE  MessagesApart
    BY <2>2, <2>4, TextsApart DEF MessagesApart
  <2> QED BY <2>1, <2>3, <2>4
<1> QED BY <1>1, <1>2, PurposeInvStep, PTL DEF Spec

-----------------------------------------------------------------------------
(* The lines of a key file *)

Text == Seq(Nat)

Joined(text, line) == IF IsRule(line) THEN text ELSE text \o line

LEMMA JoinedType ==
    ASSUME NEW text \in Text, NEW line \in Text
    PROVE  Joined(text, line) \in Text
  BY ConcatProperties DEF Joined, Text

KeyStart == <<>>
KeyStep == [text \in Text |-> [line \in Text |-> Joined(text, line)]]

LEMMA KeyStepType == KeyStep \in [Text -> [Text -> Text]] /\ KeyStart \in Text
<1>1. \A text \in Text, line \in Text : Joined(text, line) \in Text
  BY JoinedType
<1>2. KeyStart \in Text
  BY DEF KeyStart, Text
<1> QED
  BY <1>1, <1>2 DEF KeyStep

LEMMA KeyFold ==
    ASSUME NEW s \in Seq(Text)
    PROVE  \E t : Folds(t, Text, Text, KeyStart, KeyStep, s) /\ KeyLines(s) = t[Len(s)]
<1> DEFINE Rhs(t) == [n \in 0..Len(s) |->
                         IF n = 0 THEN KeyStart ELSE Joined(t[n - 1], s[n])]
<1>0. Len(s) \in Nat /\ \A n \in 1..Len(s) : s[n] \in Text
  OBVIOUS
<1>1. PICK f : Folds(f, Text, Text, KeyStart, KeyStep, s)
  BY KeyStepType, FoldExists
<1>2. f = Rhs(f)
  <2>1. f \in [0..Len(s) -> Text] /\ f[0] = KeyStart
    BY <1>1 DEF Folds
  <2>2. ASSUME NEW n \in 1..Len(s)
        PROVE  f[n] = Joined(f[n - 1], s[n])
    <3>1. f[n] = KeyStep[f[n - 1]][s[n]]
      BY <1>1 DEF Folds
    <3>2. f[n - 1] \in Text /\ s[n] \in Text
      BY <1>0, <2>1
    <3> QED
      BY <3>1, <3>2 DEF KeyStep
  <2>3. ASSUME NEW n \in 0..Len(s)
        PROVE  f[n] = Rhs(f)[n]
    <3>1. n = 0 \/ (n # 0 /\ n \in 1..Len(s))
      BY <1>0
    <3> QED
      BY <2>1, <2>2, <3>1, Zenon
  <2>4. Rhs(f) = [n \in 0..Len(s) |-> Rhs(f)[n]] /\ f = [n \in 0..Len(s) |-> f[n]]
    BY <2>1, Zenon
  <2> QED
    BY <2>3, <2>4, Zenon
<1> DEFINE t == CHOOSE g : g = Rhs(g)
<1>3. t = Rhs(t)
  BY <1>2
<1>4. KeyLines(s) = t[Len(s)]
  BY Zenon DEF KeyLines, KeyStart, Joined
<1> HIDE DEF t
<1>5. Folds(t, Text, Text, KeyStart, KeyStep, s)
  <2>1. Over(t, 0..Len(s)) /\ t[0] = KeyStart
    BY <1>0, <1>3 DEF Over
  <2>2. ASSUME NEW n \in 1..Len(s), t[n - 1] \in Text
        PROVE  t[n] = KeyStep[t[n - 1]][s[n]]
    <3>1. t[n] = Joined(t[n - 1], s[n])
      <4>1. n \in 0..Len(s) /\ n # 0
        BY <1>0
      <4>2. t[n] = Rhs(t)[n]
        BY <1>3, Zenon
      <4> QED
        BY <4>1, <4>2, Zenon
    <3>2. \A u \in Text, c \in Text : KeyStep[u][c] = Joined(u, c)
      BY DEF KeyStep
    <3> QED
      BY <1>0, <2>2, <3>1, <3>2, Zenon
  <2> QED
    BY <2>1, <2>2, KeyStepType, FoldEquations
<1> QED
  BY <1>4, <1>5

LEMMA KeyUnfold ==
    /\ KeyLines(<<>>) = KeyStart
    /\ \A s \in Seq(Text) :
          /\ KeyLines(s) \in Text
          /\ \A c \in Text : KeyLines(Append(s, c)) = Joined(KeyLines(s), c)
<1>1. KeyLines(<<>>) = KeyStart
  BY <<>> \in Seq(Text), KeyFold DEF Folds
<1>2. ASSUME NEW s \in Seq(Text)
      PROVE  KeyLines(s) \in Text
  <2>1. PICK f : Folds(f, Text, Text, KeyStart, KeyStep, s) /\ KeyLines(s) = f[Len(s)]
    BY KeyFold
  <2>2. Len(s) \in 0..Len(s) /\ f \in [0..Len(s) -> Text]
    BY <2>1 DEF Folds
  <2> QED
    BY <2>1, <2>2, Zenon
<1>3. ASSUME NEW s \in Seq(Text), NEW c \in Text
      PROVE  KeyLines(Append(s, c)) = Joined(KeyLines(s), c)
  <2>1. PICK f : Folds(f, Text, Text, KeyStart, KeyStep, s) /\ KeyLines(s) = f[Len(s)]
    BY KeyFold
  <2>2. PICK g : /\ Folds(g, Text, Text, KeyStart, KeyStep, Append(s, c))
                 /\ KeyLines(Append(s, c)) = g[Len(Append(s, c))]
    BY Append(s, c) \in Seq(Text), KeyFold
  <2>3. /\ Folds(f, Text, Text, KeyStart, KeyStep, s)
        /\ Folds(g, Text, Text, KeyStart, KeyStep, Append(s, c))
    BY <2>1, <2>2
  <2>4. f[Len(s)] \in Text /\ g[Len(Append(s, c))] = KeyStep[f[Len(s)]][c]
    BY <2>3, FoldAppend
  <2> QED
    BY <2>1, <2>2, <2>4 DEF KeyStep
<1> QED
  BY <1>1, <1>2, <1>3

LEMMA RuleIs ==
    ASSUME NEW line \in Text
    PROVE  IsRule(line) <=> Len(line) >= 5 /\ \A i \in 1..5 : line[i] = Dash
<1>1. Rule \in Text /\ Len(Rule) = 5 /\ \A i \in 1..5 : Rule[i] = Dash
  BY DEF Rule, Text, Dash
<1>2. line \in Seq(Nat) /\ Len(line) \in Nat /\ Rule \in Seq(Nat)
  BY <1>1 DEF Text
<1>3. IsRule(line) <=> 5 <= Len(line) /\ SubSeq(Rule, 1, 5) = SubSeq(line, 1, 5)
  BY <1>1 DEF IsRule, IsPrefix
<1>4. SubSeq(Rule, 1, 5) \in Seq(Nat) /\ Len(SubSeq(Rule, 1, 5)) = 5 /\ \A i \in 1..5 : SubSeq(Rule, 1, 5)[i] = Dash
  <2>1. 5 \in 0..Len(Rule)
    BY <1>1
  <2> QED
    BY <1>1, <1>2, <2>1, SplitAt
<1>5. CASE 5 <= Len(line)
  <2>1. /\ SubSeq(line, 1, 5) \in Seq(Nat) /\ Len(SubSeq(line, 1, 5)) = 5
        /\ \A i \in 1..5 : SubSeq(line, 1, 5)[i] = line[i]
    <3>1. 5 \in 0..Len(line)
      BY <1>2, <1>5
    <3> QED
      BY <1>2, <3>1, SplitAt
  <2>2. SubSeq(Rule, 1, 5) = SubSeq(line, 1, 5) <=> \A i \in 1..5 : line[i] = Dash
    BY <1>4, <2>1, SeqEqual
  <2> QED
    BY <1>2, <1>3, <1>5, <2>2
<1>6. CASE ~(5 <= Len(line))
  BY <1>2, <1>3, <1>6
<1> QED
  BY <1>5, <1>6

LEMMA TextConcat ==
    /\ <<>> \in Text
    /\ \A x \in Text : x \o <<>> = x /\ <<>> \o x = x
    /\ \A x \in Text, y \in Text : x \o y \in Text
    /\ \A x \in Text, y \in Text, z \in Text : (x \o y) \o z = x \o (y \o z)
<1>1. <<>> \in Text
  BY DEF Text
<1>2. ASSUME NEW x \in Text
      PROVE  x \o <<>> = x /\ <<>> \o x = x
  BY ConcatEmptySeq DEF Text
<1>3. ASSUME NEW x \in Text, NEW y \in Text
      PROVE  x \o y \in Text
  BY ConcatProperties DEF Text
<1>4. ASSUME NEW x \in Text, NEW y \in Text, NEW z \in Text
      PROVE  (x \o y) \o z = x \o (y \o z)
  <2>1. x \in Seq(Nat) /\ y \in Seq(Nat) /\ z \in Seq(Nat)
    BY DEF Text
  <2> QED
    BY <2>1, ConcatAssociative
<1> QED
  BY <1>1, <1>2, <1>3, <1>4, Zenon

\* What lines add to the text stands after it.
LEMMA KeyGrows ==
    ASSUME NEW a \in Seq(Text)
    PROVE  \A b \in Seq(Text) : \E q \in Text : KeyLines(a \o b) = KeyLines(a) \o q
<1> DEFINE Good(b) == \E q \in Text : KeyLines(a \o b) = KeyLines(a) \o q
           T == {b \in Seq(Text) : Good(b)}
<1>0. KeyLines(a) \in Text /\ <<>> \in Text
  BY KeyUnfold DEF Text
<1>1. <<>> \in T
  <2>1. a \o <<>> = a /\ KeyLines(a) \o <<>> = KeyLines(a) /\ <<>> \in Seq(Text)
    BY <1>0, ConcatEmptySeq DEF Text
  <2> QED
    BY <1>0, <2>1
<1>2. ASSUME NEW b \in Seq(Text), NEW u \in Text, b \in T
      PROVE  Append(b, u) \in T
  <2>1. PICK q \in Text : KeyLines(a \o b) = KeyLines(a) \o q
    BY <1>2
  <2>2. /\ a \o b \in Seq(Text) /\ a \o Append(b, u) = Append(a \o b, u)
        /\ Append(b, u) \in Seq(Text)
    BY ConcatAppend, ConcatProperties, AppendProperties
  <2>3. KeyLines(a \o Append(b, u)) = Joined(KeyLines(a) \o q, u)
    BY <2>1, <2>2, KeyUnfold
  <2>4. CASE IsRule(u)
    <3>1. KeyLines(a \o Append(b, u)) = KeyLines(a) \o q
      BY <2>3, <2>4 DEF Joined
    <3> QED
      BY <2>2, <3>1
  <2>5. CASE ~IsRule(u)
    <3>1. KeyLines(a \o Append(b, u)) = (KeyLines(a) \o q) \o u
      BY <2>3, <2>5 DEF Joined
    <3>2. q \o u \in Text /\ (KeyLines(a) \o q) \o u = KeyLines(a) \o (q \o u)
      BY <1>0, TextConcat, Zenon
    <3>3. Good(Append(b, u))
      BY <3>1, <3>2
    <3> QED
      BY <2>2, <3>3
  <2> QED
    BY <2>4, <2>5
<1>3. \A b \in Seq(Text) : b \in T
  <2> HIDE DEF T
  <2> QED BY <1>1, <1>2, SeqSetInduction
<1> QED
  BY <1>3

\* u has the beginning p of t, and then nothing or what base64 stops at.
Continues(u, t, p, r, q) ==
    /\ p \in Text /\ r \in Text /\ q \in Text
    /\ u = p \o r /\ t = p \o q
    /\ r = <<>> \/ r[1] >= 64

(***************************************************************************)
(* Lines of which those from a character of one on are lost: what is left  *)
(* of the text, or more of it and then the dashes of a rule.               *)
(***************************************************************************)
LEMMA CutContinues ==
    ASSUME NEW lines \in Seq(Text), NEW l \in 1..Len(lines), NEW k \in 0..Len(lines[l]),
           NEW cut, cut = Append(SubSeq(lines, 1, l - 1), SubSeq(lines[l], 1, k))
    PROVE  cut \in Seq(Text) /\ \E p, r, q : Continues(KeyLines(cut), KeyLines(lines), p, r, q)
<1>0. Len(lines) \in Nat /\ l \in Nat /\ lines[l] \in Text /\ l - 1 \in 0..Len(lines) /\ l \in 0..Len(lines)
  OBVIOUS
<1>1. PICK line : line = lines[l]
  OBVIOUS
<1>2. line \in Seq(Nat) /\ Len(line) \in Nat /\ k \in 0..Len(line) /\ k \in Nat
  BY <1>0, <1>1 DEF Text
<1>3. PICK s, z : s = SubSeq(line, 1, k) /\ z = SubSeq(line, k + 1, Len(line))
  OBVIOUS
<1>4. /\ s \in Seq(Nat) /\ Len(s) = k /\ z \in Seq(Nat) /\ line = s \o z
      /\ \A i \in 1..k : s[i] = line[i]
  BY <1>2, <1>3, SplitAt
<1>5. PICK a : a = SubSeq(lines, 1, l - 1)
  OBVIOUS
<1>6. a \in Seq(Text) /\ cut = Append(a, s) /\ s \in Text /\ z \in Text /\ line \in Text
  <2>1. a \in Seq(Text)
    BY <1>0, <1>5, SplitAt
  <2> QED
    BY <1>1, <1>2, <1>3, <1>4, <1>5, <2>1 DEF Text
<1>7. cut \in Seq(Text)
  <2>1. a \in Seq(Text) /\ s \in Text
    BY <1>6
  <2>2. Append(a, s) \in Seq(Text)
    BY <2>1, AppendProperties
  <2> QED
    BY <1>6, <2>2
<1>8. PICK t : t = KeyLines(a)
  OBVIOUS
<1>9. /\ t \in Text /\ KeyLines(cut) = Joined(t, s)
      /\ KeyLines(Append(a, line)) = Joined(t, line)
  BY <1>6, <1>8, KeyUnfold
<1>10. PICK e \in Text : KeyLines(lines) = Joined(t, line) \o e
  <2>1. lines = Append(a, line) \o SubSeq(lines, l + 1, Len(lines))
        /\ SubSeq(lines, l + 1, Len(lines)) \in Seq(Text)
    <3>1. PICK b : b = SubSeq(lines, 1, l)
      OBVIOUS
    <3>2. /\ b \in Seq(Text) /\ Len(b) = l /\ \A i \in 1..l : b[i] = lines[i]
          /\ lines = b \o SubSeq(lines, l + 1, Len(lines))
          /\ SubSeq(lines, l + 1, Len(lines)) \in Seq(Text)
      BY <1>0, <3>1, SplitAt
    <3>3. Len(a) = l - 1 /\ \A i \in 1..(l - 1) : a[i] = lines[i]
      BY <1>0, <1>5, SplitAt
    <3>4. /\ Append(a, line) \in Seq(Text) /\ Len(Append(a, line)) = l
          /\ \A i \in 1..l : Append(a, line)[i] = lines[i]
      <4>1. /\ Append(a, line) \in Seq(Text) /\ Len(Append(a, line)) = Len(a) + 1
            /\ Append(a, line)[Len(a) + 1] = line
            /\ \A i \in 1..Len(a) : Append(a, line)[i] = a[i]
        BY <1>6, AppendProperties
      <4> QED
        BY <1>0, <1>1, <3>3, <4>1
    <3>5. Append(a, line) = b
      BY <3>2, <3>4, SeqEqual
    <3> QED
      BY <3>2, <3>5
  <2>2. Append(a, line) \in Seq(Text)
    BY <1>6, AppendProperties
  <2> QED
    BY <1>9, <2>1, <2>2, KeyGrows
<1>11. <<>> \in Text
  BY TextConcat
<1>12. \A x \in Text, y \in Text : x \o y \in Text /\ x \o <<>> = x
  BY TextConcat, Zenon
<1>13. \A x \in Text, y \in Text, w \in Text : (x \o y) \o w = x \o (y \o w)
  BY TextConcat, Zenon
<1>14. CASE IsRule(s)
  <2>1. KeyLines(cut) = t /\ t = t \o <<>>
    BY <1>9, <1>12, <1>14 DEF Joined
  <2>2. \E q \in Text : KeyLines(lines) = t \o q
    <3>1. CASE IsRule(line)
      BY <1>10, <3>1 DEF Joined
    <3>2. CASE ~IsRule(line)
      <4>1. KeyLines(lines) = t \o (line \o e) /\ line \o e \in Text
        <5>1. KeyLines(lines) = (t \o line) \o e
          BY <1>10, <3>2, Zenon DEF Joined
        <5>2. t \in Text /\ line \in Text /\ e \in Text
          BY <1>6, <1>9
        <5>3. line \o e \in Text
          BY <1>12, <5>2
        <5>4. (t \o line) \o e = t \o (line \o e)
          BY <1>13, <5>2
        <5> QED
          BY <5>1, <5>3, <5>4
      <4> QED
        BY <4>1
    <3> QED
      BY <3>1, <3>2
  <2> QED
    BY <1>7, <1>9, <1>11, <2>1, <2>2 DEF Continues
<1>15. CASE ~IsRule(s) /\ IsRule(line)
  <2>1. KeyLines(cut) = t \o s /\ KeyLines(lines) = t \o e
    BY <1>9, <1>10, <1>15 DEF Joined
  <2>2. s = <<>> \/ s[1] >= 64
    <3>1. line[1] = Dash
      BY <1>6, <1>15, RuleIs
    <3>2. CASE k = 0
      BY <1>4, <3>2
    <3>3. CASE k # 0
      <4>1. s[1] = line[1]
        BY <1>2, <1>4, <3>3
      <4> QED
        BY <3>1, <4>1 DEF Dash
    <3> QED
      BY <3>2, <3>3
  <2> QED
    BY <1>6, <1>7, <1>9, <2>1, <2>2 DEF Continues
<1>16. CASE ~IsRule(s) /\ ~IsRule(line)
  <2>1. KeyLines(cut) = t \o s /\ KeyLines(lines) = (t \o line) \o e
    BY <1>9, <1>10, <1>16 DEF Joined
  <2>2. PICK p : p = t \o s
    OBVIOUS
  <2>3. p \in Text /\ p = p \o <<>> /\ KeyLines(lines) = p \o (z \o e) /\ z \o e \in Text
    <3>1. (t \o line) \o e = (t \o (s \o z)) \o e
      BY <1>4
    <3>2. (t \o (s \o z)) \o e = (p \o z) \o e
      BY <1>6, <1>9, <1>13, <2>2
    <3>3. p \in Text
      BY <1>6, <1>9, <1>12, <2>2
    <3>4. z \o e \in Text /\ (p \o z) \o e = p \o (z \o e) /\ p = p \o <<>>
      <4>1. p \in Text /\ z \in Text /\ e \in Text
        BY <1>6, <3>3
      <4>2. (p \o z) \o e = p \o (z \o e)
        BY <1>13, <4>1
      <4> QED
        BY <1>12, <4>1, <4>2
    <3> QED
      BY <2>1, <3>1, <3>2, <3>3, <3>4, Zenon
  <2> QED
    BY <1>7, <1>11, <2>1, <2>2, <2>3 DEF Continues
<1> QED
  BY <1>14, <1>15, <1>16

LEMMA BeginsContinues ==
    ASSUME NEW in \in Seq(Byte), NEW t, NEW k, Begins(t, in, k),
           NEW u, NEW p, NEW r, NEW q, Continues(u, t, p, r, q)
    PROVE  Begins(u, in, IF k <= Len(p) THEN k ELSE Len(p))
<1>0. /\ p \in Seq(Nat) /\ r \in Seq(Nat) /\ q \in Seq(Nat)
      /\ Len(p) \in Nat /\ Len(r) \in Nat /\ Len(q) \in Nat
      /\ r = <<>> \/ r[1] >= 64
  BY DEF Continues, Text
<1>5. t \in Seq(Nat) /\ k \in Nat /\ k <= Len(t) /\ k <= TextLength(in) /\ TextLength(in) \in Nat
  <2>1. TextLength(in) \in Nat
    BY EncodeText
  <2> QED
    BY <2>1 DEF Begins
<1>6. /\ \A i \in 1..k : t[i] = encode(in)[i]
      /\ k = Len(t) \/ t[k + 1] >= 64
  BY DEF Begins
<1>1. /\ u \in Seq(Nat) /\ Len(u) = Len(p) + Len(r)
      /\ \A i \in 1..Len(p) : u[i] = p[i]
      /\ \A i \in 1..Len(r) : u[Len(p) + i] = r[i]
  <2>1. u = p \o r
    BY DEF Continues
  <2> QED
    BY <1>0, <2>1, ConcatProperties
<1>2. Len(t) = Len(p) + Len(q) /\ \A i \in 1..Len(p) : t[i] = p[i]
  <2>1. t = p \o q
    BY DEF Continues
  <2> QED
    BY <1>0, <2>1, ConcatProperties
<1>3. CASE k <= Len(p)
  <2>1. k \in 0..TextLength(in) /\ k <= Len(u)
    BY <1>0, <1>1, <1>3, <1>5
  <2>2. ASSUME NEW i \in 1..k
        PROVE  u[i] = encode(in)[i]
    <3>1. i \in 1..Len(p)
      BY <1>0, <1>3, <1>5
    <3> QED
      BY <1>1, <1>2, <1>6, <3>1, Zenon
  <2>3. k = Len(u) \/ u[k + 1] >= 64
    <3>1. CASE k < Len(p)
      <4>0. Len(t) = Len(p) + Len(q) /\ Len(p) \in Nat /\ Len(q) \in Nat /\ k \in Nat
        BY <1>0, <1>2, <1>5
      <4>1. k # Len(t) /\ k + 1 \in 1..Len(p)
        BY <4>0, <3>1
      <4> QED
        BY <1>1, <1>2, <1>6, <4>1
    <3>2. CASE k = Len(p) /\ r # <<>>
      <4>1. 1 \in 1..Len(r)
        BY <1>0, <3>2
      <4> QED
        BY <1>0, <1>1, <3>2, <4>1
    <3>3. CASE k = Len(p) /\ r = <<>>
      BY <1>0, <1>1, <3>3
    <3> QED
      BY <1>0, <1>3, <1>5, <3>1, <3>2, <3>3
  <2> QED
    BY <1>1, <1>3, <2>1, <2>2, <2>3 DEF Begins
<1>4. CASE ~(k <= Len(p))
  <2>1. Len(p) \in 0..TextLength(in) /\ Len(p) <= Len(u)
    BY <1>0, <1>1, <1>4, <1>5
  <2>2. ASSUME NEW i \in 1..Len(p)
        PROVE  u[i] = encode(in)[i]
    <3>1. i \in 1..k
      BY <1>0, <1>4, <1>5
    <3> QED
      BY <1>1, <1>2, <1>6, <3>1, Zenon
  <2>3. Len(p) = Len(u) \/ u[Len(p) + 1] >= 64
    <3>1. CASE r # <<>>
      <4>1. 1 \in 1..Len(r)
        BY <1>0, <3>1
      <4> QED
        BY <1>0, <1>1, <3>1, <4>1
    <3>2. CASE r = <<>>
      BY <1>0, <1>1, <3>2
    <3> QED
      BY <3>1, <3>2
  <2> QED
    BY <1>1, <1>4, <2>1, <2>2, <2>3 DEF Begins
<1> QED
  BY <1>3, <1>4

-----------------------------------------------------------------------------
(* Other line ends *)

WithCR(lines) == [l \in DOMAIN lines |-> Append(lines[l], CR)]

LEMMA AppendCR ==
    ASSUME NEW line \in Text
    PROVE  Append(line, CR) \in Text /\ (IsRule(Append(line, CR)) <=> IsRule(line))
<1> DEFINE c == Append(line, CR)
<1>1. line \in Seq(Nat) /\ Len(line) \in Nat /\ CR \in Nat /\ CR # Dash
  BY DEF Text, CR, Dash
<1>2. /\ c \in Seq(Nat) /\ Len(c) = Len(line) + 1 /\ c[Len(line) + 1] = CR
      /\ \A i \in 1..Len(line) : c[i] = line[i]
  BY <1>1, AppendProperties
<1> HIDE DEF c
<1>3. c \in Text
  BY <1>2 DEF Text
<1>4. IsRule(c) <=> Len(c) >= 5 /\ \A i \in 1..5 : c[i] = Dash
  BY <1>3, RuleIs
<1>5. IsRule(line) <=> Len(line) >= 5 /\ \A i \in 1..5 : line[i] = Dash
  BY RuleIs
<1>6. CASE Len(line) >= 5
  <2>1. Len(c) >= 5 /\ \A i \in 1..5 : c[i] = line[i]
    BY <1>1, <1>2, <1>6
  <2> QED
    BY <1>3, <1>4, <1>5, <1>6, <2>1 DEF c
<1>7. CASE ~(Len(line) >= 5)
  <2>1. ~IsRule(c)
    <3>1. CASE Len(c) >= 5
      <4>1. c[5] = CR
        BY <1>1, <1>2, <1>7, <3>1
      <4> QED
        BY <1>1, <1>4, <4>1
    <3>2. CASE ~(Len(c) >= 5)
      BY <1>4, <3>2
    <3> QED
      BY <3>1, <3>2
  <2> QED
    BY <1>3, <1>5, <1>7, <2>1 DEF c
<1> QED
  BY <1>6, <1>7

\* Nothing but rules, or after them line l, of which the key file with other
\* line ends has the end only.
FirstLine(lines, l, r, q) ==
    /\ l \in 1..Len(lines) /\ ~IsRule(lines[l])
    /\ \A m \in 1..(l - 1) : IsRule(lines[m])
    /\ r # <<>>
    /\ Continues(KeyLines(WithCR(lines)), KeyLines(lines), lines[l], r, q)

OnlyRules(lines) ==
    /\ \A m \in 1..Len(lines) : IsRule(lines[m])
    /\ KeyLines(WithCR(lines)) = <<>> /\ KeyLines(lines) = <<>>

LEMMA ConvertContinues ==
    \A lines \in Seq(Text) :
        /\ WithCR(lines) \in Seq(Text)
        /\ OnlyRules(lines) \/ \E l, r, q : FirstLine(lines, l, r, q)
<1> DEFINE Good(lines) == /\ WithCR(lines) \in Seq(Text)
                          /\ OnlyRules(lines) \/ \E l, r, q : FirstLine(lines, l, r, q)
           T == {lines \in Seq(Text) : Good(lines)}
<1>1. <<>> \in T
  <2>1. WithCR(<<>>) = <<>> /\ <<>> \in Seq(Text) /\ Len(<<>>) = 0
    BY DEF WithCR
  <2>2. KeyLines(<<>>) = <<>>
    BY KeyUnfold DEF KeyStart
  <2>3. OnlyRules(<<>>)
    BY <2>1, <2>2 DEF OnlyRules
  <2> QED
    BY <2>1, <2>3
<1>2. ASSUME NEW lines \in Seq(Text), NEW u \in Text, lines \in T
      PROVE  Append(lines, u) \in T
  <2>1. PICK a : a = Append(lines, u)
    OBVIOUS
  <2>2. PICK c : c = Append(u, CR)
    OBVIOUS
  <2>3. PICK w : w = WithCR(lines)
    OBVIOUS
  <2>4. /\ a \in Seq(Text) /\ Len(lines) \in Nat /\ Len(a) = Len(lines) + 1 /\ a[Len(lines) + 1] = u
        /\ \A i \in 1..Len(lines) : a[i] = lines[i]
    BY <2>1, AppendProperties
  <2>5. c \in Text /\ (IsRule(c) <=> IsRule(u)) /\ c = u \o <<CR>> /\ <<CR>> \in Text
    BY <2>2, AppendCR, AppendIsConcat DEF Text, CR
  <2>6. w \in Seq(Text) /\ Len(w) = Len(lines) /\ \A i \in 1..Len(lines) : w[i] = Append(lines[i], CR)
    BY <1>2, <2>3 DEF WithCR
  <2>7. WithCR(a) = Append(w, c) /\ Append(w, c) \in Seq(Text)
    <3>1. /\ Append(w, c) \in Seq(Text) /\ Len(Append(w, c)) = Len(w) + 1
          /\ Append(w, c)[Len(w) + 1] = c /\ \A i \in 1..Len(w) : Append(w, c)[i] = w[i]
      BY <2>5, <2>6, AppendProperties
    <3>2. ASSUME NEW i \in 1..(Len(lines) + 1)
          PROVE  Append(w, c)[i] = Append(a[i], CR) /\ Append(a[i], CR) \in Text
      <4>1. i \in 1..Len(lines) \/ i = Len(lines) + 1
        BY <2>4
      <4>2. Append(w, c)[i] = Append(a[i], CR)
        BY <2>2, <2>4, <2>6, <3>1, <4>1
      <4>3. Append(a[i], CR) \in Text
        <5>1. a[i] \in Text
          BY <2>4
        <5> QED
          BY <5>1, AppendCR
      <4> QED
        BY <4>2, <4>3
    <3>3. WithCR(a) = [i \in 1..(Len(lines) + 1) |-> Append(a[i], CR)]
      BY <2>4 DEF WithCR
    <3>4. PICK z : z = [i \in 1..(Len(lines) + 1) |-> Append(a[i], CR)]
      OBVIOUS
    <3>5. /\ z \in [1..(Len(lines) + 1) -> Text]
          /\ \A i \in 1..(Len(lines) + 1) : z[i] = Append(w, c)[i]
      BY <3>2, <3>4, Zenon
    <3>6. z \in Seq(Text) /\ Len(z) = Len(lines) + 1
      BY <2>4, <3>5
    <3>7. z = Append(w, c)
      BY <2>6, <3>1, <3>5, <3>6, SeqEqual
    <3> QED
      BY <3>1, <3>3, <3>4, <3>7, Zenon
  <2>8. PICK x, y : x = KeyLines(w) /\ y = KeyLines(lines)
    OBVIOUS
  <2>9. /\ x \in Text /\ y \in Text
        /\ KeyLines(WithCR(a)) = Joined(x, c) /\ KeyLines(a) = Joined(y, u)
    BY <2>1, <2>5, <2>6, <2>7, <2>8, KeyUnfold
  <2>10. CASE OnlyRules(lines)
    <3>1. x = <<>> /\ y = <<>> /\ \A m \in 1..Len(lines) : IsRule(lines[m])
      BY <2>3, <2>8, <2>10 DEF OnlyRules
    <3>2. CASE IsRule(u)
      <4>1. KeyLines(WithCR(a)) = <<>> /\ KeyLines(a) = <<>>
        BY <2>5, <2>9, <3>1, <3>2 DEF Joined
      <4>2. \A m \in 1..Len(a) : IsRule(a[m])
        BY <2>4, <3>1, <3>2
      <4>3. OnlyRules(a)
        BY <4>1, <4>2 DEF OnlyRules
      <4> QED
        BY <2>1, <2>4, <2>7, <4>3
    <3>3. CASE ~IsRule(u)
      <4>1. KeyLines(WithCR(a)) = <<>> \o c /\ KeyLines(a) = <<>> \o u
        BY <2>5, <2>9, <3>1, <3>3 DEF Joined
      <4>2. KeyLines(WithCR(a)) = u \o <<CR>> /\ KeyLines(a) = u \o <<>>
        BY <2>5, <4>1, TextConcat
      <4>3. Continues(KeyLines(WithCR(a)), KeyLines(a), u, <<CR>>, <<>>)
        <5>1. <<CR>>[1] >= 64
          BY DEF CR
        <5> QED
          BY <2>5, <4>2, <5>1, TextConcat DEF Continues
      <4>4. FirstLine(a, Len(lines) + 1, <<CR>>, <<>>)
        <5>1. /\ Len(lines) + 1 \in 1..Len(a) /\ <<CR>> # <<>>
              /\ \A m \in 1..((Len(lines) + 1) - 1) : IsRule(a[m])
          BY <2>4, <3>1
        <5> QED
          BY <2>4, <3>3, <4>3, <5>1 DEF FirstLine
      <4> QED
        BY <2>1, <2>4, <2>7, <4>4
    <3> QED
      BY <3>2, <3>3
  <2>11. ASSUME NEW l, NEW r, NEW q, FirstLine(lines, l, r, q)
         PROVE  a \in T
    <3>1. /\ l \in 1..Len(lines) /\ ~IsRule(lines[l]) /\ \A m \in 1..(l - 1) : IsRule(lines[m])
          /\ r # <<>> /\ r[1] >= 64 /\ r \in Text /\ q \in Text /\ lines[l] \in Text
          /\ x = lines[l] \o r /\ y = lines[l] \o q
      BY <2>3, <2>8, <2>11 DEF FirstLine, Continues
    <3>2. /\ a[l] = lines[l] /\ l \in 1..Len(a) /\ \A m \in 1..(l - 1) : IsRule(a[m])
      <4>1. /\ l \in 1..Len(a) /\ \A m \in 1..(l - 1) : m \in 1..Len(lines)
        BY <2>4, <3>1
      <4> QED
        BY <2>4, <3>1, <4>1, Zenon
    <3>3. CASE IsRule(u)
      <4>1. KeyLines(WithCR(a)) = x /\ KeyLines(a) = y
        BY <2>5, <2>9, <3>3 DEF Joined
      <4>2. FirstLine(a, l, r, q)
        BY <3>1, <3>2, <4>1 DEF FirstLine, Continues
      <4> QED
        BY <2>1, <2>4, <2>7, <4>2
    <3>4. CASE ~IsRule(u)
      <4>1. KeyLines(WithCR(a)) = (lines[l] \o r) \o c /\ KeyLines(a) = (lines[l] \o q) \o u
        BY <2>5, <2>9, <3>1, <3>4 DEF Joined
      <4>2. /\ KeyLines(WithCR(a)) = lines[l] \o (r \o c) /\ KeyLines(a) = lines[l] \o (q \o u)
            /\ r \o c \in Text /\ q \o u \in Text
        <5>1. r \in Text /\ q \in Text /\ lines[l] \in Text /\ c \in Text /\ u \in Text
          BY <2>5, <3>1
        <5> QED
          BY <4>1, <5>1, TextConcat, Zenon
      <4>3. r \o c # <<>> /\ (r \o c)[1] = r[1]
        <5>1. r \in Seq(Nat) /\ c \in Seq(Nat)
          BY <2>5, <3>1 DEF Text
        <5>2. /\ Len(r \o c) = Len(r) + Len(c) /\ Len(r) \in Nat /\ Len(c) \in Nat
              /\ \A i \in 1..Len(r) : (r \o c)[i] = r[i]
          BY <5>1, ConcatProperties
        <5>3. 1 \in 1..Len(r)
          BY <3>1, <5>1
        <5> QED
          BY <5>1, <5>2, <5>3
      <4>4. FirstLine(a, l, r \o c, q \o u)
        BY <3>1, <3>2, <4>2, <4>3 DEF FirstLine, Continues
      <4> QED
        BY <2>1, <2>4, <2>7, <4>4
    <3> QED
      BY <3>3, <3>4
  <2> QED
    BY <1>2, <2>1, <2>10, <2>11
<1>3. \A lines \in Seq(Text) : lines \in T
  <2> HIDE DEF T
  <2> QED BY <1>1, <1>2, SeqSetInduction
<1> QED
  BY <1>3

-----------------------------------------------------------------------------
(* The key file that is written *)

\* Parts of a sequence, and the next ones.
LEMMA SubSeqOf ==
    ASSUME NEW S, NEW t \in Seq(S), NEW a \in Nat, NEW b \in Nat, a <= b, b <= Len(t),
           NEW u, u = SubSeq(t, a + 1, b)
    PROVE  u \in Seq(S) /\ Len(u) = b - a /\ \A i \in 1..(b - a) : u[i] = t[a + i]
<1>1. \A i \in (a + 1)..b : t[i] \in S
  OBVIOUS
<1>2. /\ u \in Seq(S) /\ Len(u) = IF a + 1 <= b THEN b - (a + 1) + 1 ELSE 0
      /\ \A i \in 1..(b - (a + 1) + 1) : u[i] = t[(a + 1) + i - 1]
  BY <1>1, SubSeqProperties
<1> QED
  BY <1>2

LEMMA SubSeqJoin ==
    ASSUME NEW S, NEW t \in Seq(S), NEW a \in Nat, NEW b \in Nat, a <= b, b <= Len(t)
    PROVE  SubSeq(t, 1, a) \o SubSeq(t, a + 1, b) = SubSeq(t, 1, b)
<1>0. Len(t) \in Nat /\ a \in 0..Len(t) /\ b \in 0..Len(t)
  OBVIOUS
<1>1. PICK x, y, z : x = SubSeq(t, 1, a) /\ y = SubSeq(t, a + 1, b) /\ z = SubSeq(t, 1, b)
  OBVIOUS
<1>2. x \in Seq(S) /\ Len(x) = a /\ \A i \in 1..a : x[i] = t[i]
  BY <1>0, <1>1, SplitAt
<1>3. z \in Seq(S) /\ Len(z) = b /\ \A i \in 1..b : z[i] = t[i]
  BY <1>0, <1>1, SplitAt
<1>4. y \in Seq(S) /\ Len(y) = b - a /\ \A i \in 1..(b - a) : y[i] = t[a + i]
  BY <1>1, SubSeqOf
<1>5. /\ x \o y \in Seq(S) /\ Len(x \o y) = Len(x) + Len(y)
      /\ \A i \in 1..(Len(x) + Len(y)) : (x \o y)[i] = IF i <= Len(x) THEN x[i] ELSE y[i - Len(x)]
  BY <1>2, <1>4, ConcatProperties
<1>6. Len(x \o y) = b
  BY <1>2, <1>4, <1>5
<1>7. ASSUME NEW i \in 1..b
      PROVE  (x \o y)[i] = z[i]
  <2>1. CASE i <= a
    BY <1>2, <1>3, <1>4, <1>5, <2>1
  <2>2. CASE ~(i <= a)
    <3>1. PICK j \in 1..(b - a) : j = i - a /\ a + j = i
      BY <2>2
    <3>2. (x \o y)[i] = y[j]
      BY <1>2, <1>4, <1>5, <2>2, <3>1
    <3>3. y[j] = t[i] /\ z[i] = t[i]
      BY <1>3, <1>4, <3>1
    <3> QED
      BY <3>2, <3>3
  <2> QED
    BY <2>1, <2>2
<1>8. x \o y = z
  BY <1>3, <1>5, <1>6, <1>7, SeqEqual
<1> QED
  BY <1>1, <1>8

LEMMA SubSeqNext ==
    ASSUME NEW S, NEW c \in Seq(S), NEW i \in Nat, i < Len(c)
    PROVE  SubSeq(c, 1, i + 1) = Append(SubSeq(c, 1, i), c[i + 1])
<1>0. Len(c) \in Nat /\ i \in 0..Len(c) /\ i + 1 \in 0..Len(c) /\ c[i + 1] \in S
  OBVIOUS
<1>1. PICK x, z : x = SubSeq(c, 1, i) /\ z = SubSeq(c, 1, i + 1)
  OBVIOUS
<1>2. x \in Seq(S) /\ Len(x) = i /\ \A j \in 1..i : x[j] = c[j]
  BY <1>0, <1>1, SplitAt
<1>3. z \in Seq(S) /\ Len(z) = i + 1 /\ \A j \in 1..(i + 1) : z[j] = c[j]
  BY <1>0, <1>1, SplitAt
<1>4. /\ Append(x, c[i + 1]) \in Seq(S) /\ Len(Append(x, c[i + 1])) = i + 1
      /\ Append(x, c[i + 1])[i + 1] = c[i + 1]
      /\ \A j \in 1..i : Append(x, c[i + 1])[j] = x[j]
  BY <1>0, <1>2, AppendProperties
<1>5. ASSUME NEW j \in 1..(i + 1)
      PROVE  Append(x, c[i + 1])[j] = z[j]
  <2>1. j \in 1..i \/ j = i + 1
    OBVIOUS
  <2> QED
    BY <1>2, <1>3, <1>4, <2>1
<1>6. Append(x, c[i + 1]) = z
  BY <1>3, <1>4, <1>5, SeqEqual
<1> QED
  BY <1>1, <1>6

\* The number of lines, and where they end.
LEMMA LineEnds ==
    ASSUME NEW N \in Nat, N >= 1, NEW W \in Nat, W >= 1, NEW n, n = (N + W - 1) \div W
    PROVE  /\ n \in Nat /\ n >= 1
           /\ \A i \in 0..(n - 1) : i * W \in Nat /\ i * W < N
<1>1. n \in Nat /\ \E m \in 0..(W - 1) : N + W - 1 = W * n + m
  BY SMT
<1>2. PICK m \in 0..(W - 1) : N + W - 1 = W * n + m
  BY <1>1
<1>3. n >= 1
  <2>1. n # 0
    BY <1>2
  <2> QED
    BY <1>1, <2>1
<1>4. ASSUME NEW i \in 0..(n - 1)
      PROVE  i * W \in Nat /\ i * W < N
  <2>1. PICK d \in Nat : n = (i + d) + 1
    BY <1>1, n - 1 - i \in Nat, n = (i + (n - 1 - i)) + 1
  <2>2. i \in Nat /\ i * W \in Nat /\ d * W \in Nat
    BY <1>1
  <2>3. W * n = i * W + d * W + W
    BY <2>1, <2>2
  <2> QED
    BY <1>2, <2>2, <2>3
<1> QED
  BY <1>1, <1>3, <1>4

\* d is t with x before it, or behind it.
Before(S, x, t, d) ==
    d \in Seq(S) /\ Len(d) = Len(t) + 1 /\ d[1] = x /\ \A i \in 1..Len(t) : d[i + 1] = t[i]

Behind(S, x, t, d) ==
    d \in Seq(S) /\ Len(d) = Len(t) + 1 /\ d[Len(t) + 1] = x /\ \A i \in 1..Len(t) : d[i] = t[i]

LEMMA ConcatFirst ==
    ASSUME NEW S, NEW x \in S, NEW t \in Seq(S)
    PROVE  Before(S, x, t, <<x>> \o t)
<1>1. PICK h, d : h = <<x>> /\ d = h \o t
  OBVIOUS
<1>2. h \in Seq(S) /\ Len(h) = 1 /\ h[1] = x /\ Len(t) \in Nat
  BY <1>1
<1>3. /\ d \in Seq(S) /\ Len(d) = 1 + Len(t)
      /\ \A i \in 1..(1 + Len(t)) : d[i] = IF i <= 1 THEN h[i] ELSE t[i - 1]
  <2>1. /\ h \o t \in Seq(S) /\ Len(h \o t) = Len(h) + Len(t)
        /\ \A i \in 1..(Len(h) + Len(t)) : (h \o t)[i] = IF i <= Len(h) THEN h[i] ELSE t[i - Len(h)]
    BY <1>2, ConcatProperties
  <2> QED
    BY <1>1, <1>2, <2>1, Zenon
<1>4. d[1] = x
  BY <1>2, <1>3
<1>5. ASSUME NEW i \in 1..Len(t)
      PROVE  d[i + 1] = t[i]
  <2>1. i + 1 \in 1..(1 + Len(t)) /\ ~(i + 1 <= 1) /\ (i + 1) - 1 = i
    BY <1>2
  <2> QED
    BY <1>3, <2>1, Zenon
<1>6. Len(d) = Len(t) + 1
  BY <1>2, <1>3
<1>7. Before(S, x, t, d)
  BY <1>3, <1>4, <1>5, <1>6, Zenon DEF Before
<1> QED
  BY <1>1, <1>7, Zenon

LEMMA ConcatLast ==
    ASSUME NEW S, NEW x \in S, NEW t \in Seq(S)
    PROVE  Behind(S, x, t, t \o <<x>>)
<1>1. PICK h, d : h = <<x>> /\ d = t \o h
  OBVIOUS
<1>2. h \in Seq(S) /\ Len(h) = 1 /\ h[1] = x /\ Len(t) \in Nat
  BY <1>1
<1>3. /\ d \in Seq(S) /\ Len(d) = Len(t) + 1
      /\ \A i \in 1..(Len(t) + 1) : d[i] = IF i <= Len(t) THEN t[i] ELSE h[i - Len(t)]
  <2>1. /\ t \o h \in Seq(S) /\ Len(t \o h) = Len(t) + Len(h)
        /\ \A i \in 1..(Len(t) + Len(h)) : (t \o h)[i] = IF i <= Len(t) THEN t[i] ELSE h[i - Len(t)]
    BY <1>2, ConcatProperties
  <2> QED
    BY <1>1, <1>2, <2>1, Zenon
<1>4. /\ Len(t) + 1 \in 1..(Len(t) + 1) /\ ~(Len(t) + 1 <= Len(t))
      /\ (Len(t) + 1) - Len(t) = 1
  BY <1>2
<1>5. d[Len(t) + 1] = x
  BY <1>2, <1>3, <1>4, Zenon
<1>6. ASSUME NEW i \in 1..Len(t)
      PROVE  d[i] = t[i]
  <2>1. i \in 1..(Len(t) + 1) /\ i <= Len(t)
    BY <1>2
  <2> QED
    BY <1>3, <2>1, Zenon
<1>7. Behind(S, x, t, d)
  BY <1>3, <1>5, <1>6, Zenon DEF Behind
<1> QED
  BY <1>1, <1>7, Zenon

LineEnd(text, n, i) == IF i = n THEN Len(text) ELSE i * LineLength

\* The text is complete to the end of line i.
Reached(c, text, n, i) ==
    i <= n => KeyLines(SubSeq(c, 1, i + 1))
                = SubSeq(text, 1, IF i = 0 THEN 0 ELSE LineEnd(text, n, i))

Lined(text, n, body) ==
    body = [i \in 1..n |-> SubSeq(text, (i - 1) * LineLength + 1,
                                  IF i = n THEN Len(text) ELSE i * LineLength)]

Framed(head, body, c) == c = <<head>> \o body \o <<head>>

\* The lines between two rules are the text of the file.
LEMMA FramedLines ==
    ASSUME NEW head \in Text, NEW body \in Seq(Text), NEW n \in Nat, Len(body) = n,
           NEW c, Framed(head, body, c)
    PROVE  /\ c \in Seq(Text) /\ Len(c) = n + 2 /\ c[1] = head /\ c[n + 2] = head
           /\ \A i \in 1..n : c[i + 1] = body[i]
<1>1. PICK d : d = <<head>> \o body
  OBVIOUS
<1>2. Before(Text, head, body, d)
  BY <1>1, ConcatFirst, Zenon
<1>3. d \in Seq(Text) /\ Len(d) = n + 1 /\ d[1] = head /\ \A i \in 1..n : d[i + 1] = body[i]
  BY <1>2, Zenon DEF Before
<1>4. Behind(Text, head, d, c)
  <2>1. c = d \o <<head>>
    BY <1>1, Zenon DEF Framed
  <2> QED
    BY <1>3, <2>1, ConcatLast, Zenon
<1>5. /\ c \in Seq(Text) /\ Len(c) = (n + 1) + 1 /\ c[(n + 1) + 1] = head
      /\ \A i \in 1..(n + 1) : c[i] = d[i]
  BY <1>3, <1>4, Zenon DEF Behind
<1>6. (n + 1) + 1 = n + 2 /\ 1 \in 1..(n + 1) /\ \A i \in 1..n : i + 1 \in 1..(n + 1)
  OBVIOUS
<1> QED
  BY <1>3, <1>5, <1>6, Zenon

NoDash(text) == \A i \in 1..Len(text) : text[i] # Dash

KeyLine(u, length) == u \in Text /\ ~IsRule(u) /\ Len(u) = length

LEMMA PartOfText ==
    ASSUME NEW text \in Text, NoDash(text),
           NEW a \in Nat, NEW b \in Nat, a < b, b <= Len(text)
    PROVE  KeyLine(SubSeq(text, a + 1, b), b - a)
<1>0. PICK u : u = SubSeq(text, a + 1, b)
  OBVIOUS
<1>1. text \in Seq(Nat)
  BY DEF Text
<1>2. u \in Seq(Nat) /\ Len(u) = b - a /\ \A j \in 1..(b - a) : u[j] = text[a + j]
  <2>1. a <= b
    OBVIOUS
  <2> QED
    BY <1>0, <1>1, <2>1, SubSeqOf
<1>3. u[1] # Dash
  <2>1. 1 \in 1..(b - a) /\ a + 1 \in 1..Len(text)
    BY <1>1
  <2> QED
    BY <1>2, <2>1 DEF NoDash
<1>4. u \in Text
  BY <1>2 DEF Text
<1>5. 1 \in 1..5
  OBVIOUS
<1> QED
  BY <1>0, <1>2, <1>3, <1>4, <1>5, RuleIs DEF KeyLine

\* The lines of a text, joined, are that text.
LEMMA LinesOfText ==
    ASSUME NEW text \in Text, Len(text) >= 1, NoDash(text),
           NEW n, n = (Len(text) + LineLength - 1) \div LineLength,
           NEW head \in Text, IsRule(head),
           NEW body, Lined(text, n, body), NEW c, Framed(head, body, c)
    PROVE  /\ c \in Seq(Text) /\ KeyLines(c) = text
           /\ IsRule(c[1]) /\ 2 \in 1..Len(c) /\ ~IsRule(c[2])
           /\ Len(c[2]) = LineLength \/ Len(c[2]) = Len(text)
<1>0. /\ LineLength \in Nat /\ LineLength >= 1 /\ Len(text) \in Nat /\ text \in Seq(Nat)
      /\ n \in Nat /\ n >= 1
      /\ \A i \in 0..(n - 1) : i * LineLength \in Nat /\ i * LineLength < Len(text)
  <2>1. LineLength \in Nat /\ LineLength >= 1 /\ Len(text) \in Nat /\ text \in Seq(Nat)
    BY LineAssumption DEF Text
  <2> QED
    BY <2>1, LineEnds
<1>1. ASSUME NEW i \in 1..n
      PROVE  /\ (i - 1) * LineLength \in Nat /\ LineEnd(text, n, i) \in Nat
             /\ (i - 1) * LineLength < LineEnd(text, n, i) /\ LineEnd(text, n, i) <= Len(text)
  <2>1. i - 1 \in 0..(n - 1)
    BY <1>0
  <2>2. CASE i = n
    BY <1>0, <2>1, <2>2 DEF LineEnd
  <2>3. CASE i # n
    <3>1. i \in 0..(n - 1) /\ i \in Nat
      BY <1>0, <2>3
    <3>2. i * LineLength = (i - 1) * LineLength + LineLength
      BY <1>0, <3>1
    <3> QED
      BY <1>0, <2>1, <2>3, <3>1, <3>2 DEF LineEnd
  <2> QED
    BY <2>2, <2>3
<1>2. ASSUME NEW i \in 1..n
      PROVE  /\ body[i] = SubSeq(text, (i - 1) * LineLength + 1, LineEnd(text, n, i))
             /\ body[i] \in Text /\ ~IsRule(body[i])
             /\ Len(body[i]) = LineEnd(text, n, i) - (i - 1) * LineLength
  <2>1. PICK a \in Nat, b \in Nat : /\ a = (i - 1) * LineLength /\ b = LineEnd(text, n, i)
                                    /\ a < b /\ b <= Len(text)
    BY <1>1
  <2>2. body[i] = SubSeq(text, a + 1, b)
    BY <2>1 DEF LineEnd, Lined
  <2>3. KeyLine(SubSeq(text, a + 1, b), b - a)
    BY <2>1, PartOfText, Zenon
  <2> QED
    BY <2>1, <2>2, <2>3 DEF KeyLine
<1>3. body \in Seq(Text) /\ Len(body) = n
  <2>1. body = [i \in 1..n |-> body[i]]
    BY Zenon DEF Lined
  <2>2. body \in [1..n -> Text]
    BY <1>2, <2>1, Zenon
  <2>3. n \in Nat
    BY <1>0
  <2> QED
    BY <2>2, <2>3, FunctionIsSeq, Zenon
<1>4. /\ c \in Seq(Text) /\ Len(c) = n + 2 /\ c[1] = head /\ c[n + 2] = head
      /\ \A i \in 1..n : c[i + 1] = body[i]
  BY <1>0, <1>3, FramedLines
<1>5. c[2] = body[1] /\ 2 \in 1..Len(c) /\ ~IsRule(c[2])
      /\ (Len(c[2]) = LineLength \/ Len(c[2]) = Len(text))
  <2>1. 1 \in 1..n /\ 1 + 1 = 2 /\ (1 - 1) * LineLength = 0 /\ 1 * LineLength = LineLength
    BY <1>0
  <2>2. c[2] = body[1] /\ ~IsRule(body[1]) /\ Len(body[1]) = LineEnd(text, n, 1) - 0
    BY <1>2, <1>4, <2>1
  <2>3. LineEnd(text, n, 1) = Len(text) \/ LineEnd(text, n, 1) = LineLength
    BY <2>1 DEF LineEnd
  <2> QED
    BY <1>0, <1>4, <2>2, <2>3
<1> DEFINE T == {i \in Nat : Reached(c, text, n, i)}
<1>6. 0 \in T
  <2>1. SubSeq(c, 1, 0 + 1) = Append(SubSeq(c, 1, 0), c[0 + 1])
    BY <1>0, <1>4, SubSeqNext
  <2>2. SubSeq(c, 1, 0) = <<>> /\ c[0 + 1] = head /\ SubSeq(text, 1, 0) = <<>> /\ <<>> \in Seq(Text)
    BY <1>0, <1>4
  <2>3. KeyLines(Append(<<>>, head)) = Joined(KeyLines(<<>>), head)
    BY <2>2, KeyUnfold, Zenon
  <2>4. KeyLines(<<>>) = <<>>
    BY KeyUnfold, Zenon DEF KeyStart
  <2>5. Joined(<<>>, head) = <<>>
    BY Zenon DEF Joined
  <2> QED
    BY <2>1, <2>2, <2>3, <2>4, <2>5 DEF Reached
<1>7. ASSUME NEW i \in Nat, i \in T
      PROVE  i + 1 \in T
  <2> SUFFICES ASSUME i + 1 <= n
               PROVE  KeyLines(SubSeq(c, 1, (i + 1) + 1)) = SubSeq(text, 1, LineEnd(text, n, i + 1))
    <3>1. i + 1 # 0 /\ i + 1 \in Nat
      OBVIOUS
    <3> QED
      BY <3>1, Zenon DEF Reached
  <2>1. i <= n /\ i + 1 \in 1..n /\ i + 1 < Len(c) /\ i + 1 \in Nat /\ i + 1 # 0 /\ (i + 1) - 1 = i
        /\ i + 1 \in 0..Len(c)
    BY <1>0, <1>4
  <2>2. PICK a \in Nat, b \in Nat : /\ a = i * LineLength /\ b = LineEnd(text, n, i + 1)
                                    /\ a < b /\ b <= Len(text)
                                    /\ c[(i + 1) + 1] = SubSeq(text, a + 1, b)
                                    /\ ~IsRule(c[(i + 1) + 1]) /\ c[(i + 1) + 1] \in Text
    BY <1>1, <1>2, <1>4, <2>1, Zenon
  <2>3. KeyLines(SubSeq(c, 1, i + 1)) = SubSeq(text, 1, a)
    <3>1. (IF i = 0 THEN 0 ELSE LineEnd(text, n, i)) = a
      <4>1. i # n /\ 0 * LineLength = 0
        BY <1>0, <2>1
      <4> QED
        BY <2>2, <4>1, Zenon DEF LineEnd
    <3>2. Reached(c, text, n, i)
      BY <1>7
    <3> QED
      BY <2>1, <3>1, <3>2, Zenon DEF Reached
  <2>4. PICK d : d = SubSeq(c, 1, i + 1)
    OBVIOUS
  <2>5. d \in Seq(Text) /\ SubSeq(c, 1, (i + 1) + 1) = Append(d, c[(i + 1) + 1])
    BY <1>4, <2>1, <2>4, SubSeqNext, SplitAt
  <2>6. KeyLines(SubSeq(c, 1, (i + 1) + 1)) = Joined(KeyLines(d), c[(i + 1) + 1])
    BY <2>2, <2>5, KeyUnfold
  <2>7. KeyLines(SubSeq(c, 1, (i + 1) + 1)) = SubSeq(text, 1, a) \o SubSeq(text, a + 1, b)
    BY <2>2, <2>3, <2>4, <2>6 DEF Joined
  <2>8. SubSeq(text, 1, a) \o SubSeq(text, a + 1, b) = SubSeq(text, 1, b)
    <3>1. a <= b /\ text \in Seq(Nat) /\ b <= Len(text)
      BY <1>0, <2>2
    <3> QED
      BY <3>1, SubSeqJoin
  <2> QED
    BY <2>2, <2>7, <2>8, Zenon
<1>8. KeyLines(SubSeq(c, 1, n + 1)) = SubSeq(text, 1, Len(text))
  <2>1. \A i \in Nat : i \in T
    <3> HIDE DEF T
    <3> QED BY <1>6, <1>7, NatSetInduction
  <2>2. n \in Nat /\ n # 0 /\ n <= n
    BY <1>0
  <2>3. Reached(c, text, n, n)
    BY <2>1, <2>2, Zenon
  <2> QED
    BY <2>2, <2>3, Zenon DEF Reached, LineEnd
<1>9. KeyLines(c) = text
  <2>1. PICK d : d = SubSeq(c, 1, n + 1)
    OBVIOUS
  <2>2. n + 1 \in 0..Len(c) /\ n + 1 < Len(c) /\ n + 1 \in Nat /\ (n + 1) + 1 = n + 2
    BY <1>0, <1>4
  <2>3. d \in Seq(Text) /\ SubSeq(c, 1, n + 2) = Append(d, head)
    <3>1. d \in Seq(Text)
      BY <1>4, <2>1, <2>2, SplitAt
    <3>2. SubSeq(c, 1, (n + 1) + 1) = Append(d, c[(n + 1) + 1])
      BY <1>4, <2>1, <2>2, SubSeqNext
    <3> QED
      BY <1>4, <2>2, <3>1, <3>2, Zenon
  <2>4. SubSeq(c, 1, n + 2) = c /\ SubSeq(text, 1, Len(text)) = text
    BY <1>0, <1>4, SubSeqFull
  <2>5. KeyLines(c) = Joined(KeyLines(d), head)
    BY <2>3, <2>4, KeyUnfold
  <2> QED
    BY <1>8, <2>1, <2>4, <2>5 DEF Joined
<1> QED
  BY <1>4, <1>5, <1>9

-----------------------------------------------------------------------------
(* PEM files *)

\* What a wallet writes, and its digits.
Keys(s) == s \o PkOf(s)
Digits(s) == stringToHex(Keys(s))

LEMMA KeysProperties ==
    ASSUME NEW s \in Seed
    PROVE  /\ SeedLength \in Nat /\ SeedLength >= 1
           /\ Keys(s) \in Seq(Byte) /\ Len(Keys(s)) = 2 * SeedLength
           /\ Digits(s) \in Seq(Byte) /\ Len(Digits(s)) = 4 * SeedLength
<1>1. /\ s \in Seq(Byte) /\ Len(s) = SeedLength /\ SeedLength \in Nat /\ SeedLength >= 1
      /\ PkOf(s) \in Seq(Byte) /\ Len(PkOf(s)) = SeedLength
  BY SeedAssumption
<1>2. Keys(s) \in Seq(Byte) /\ Len(Keys(s)) = 2 * SeedLength
  BY <1>1, ConcatProperties DEF Keys
<1>3. Digits(s) \in Seq(Byte) /\ Len(Digits(s)) = 2 * Len(Keys(s))
  BY <1>2, HexDigits DEF Digits
<1> QED
  BY <1>1, <1>2, <1>3

\* What the lines of a file begin with, as far as they are read.
Reads(content, s, k) ==
    /\ content \in Seq(Text)
    /\ Begins(KeyLines(content), Digits(s), k)

\* All of the text is complete.
Complete(k) == (3 * k) \div 4 = 4 * SeedLength

\* All of the text but one digit.
OneLess(k) == (3 * k) \div 4 = 4 * SeedLength - 1

LEMMA NoCharIsDash == \A c : c \in 0..63 \/ c = 64 => c # 66
  BY SMT

LEMMA TextOfKeys ==
    ASSUME NEW s \in Seed, NEW text, text = encode(Digits(s))
    PROVE  /\ text \in Text /\ Len(text) >= 1 /\ NoDash(text)
           /\ TextLength(Digits(s)) \in Nat /\ TextLength(Digits(s)) <= Len(text)
           /\ Complete(TextLength(Digits(s)))
           /\ Begins(text, Digits(s), TextLength(Digits(s)))
<1>1. PICK in, k : in = Digits(s) /\ k = TextLength(in)
  OBVIOUS
<1>2. in \in Seq(Byte) /\ Len(in) = 4 * SeedLength /\ SeedLength \in Nat /\ SeedLength >= 1
  BY <1>1, KeysProperties
<1>3. /\ text \in Seq(Nat) /\ Len(text) \in Nat /\ k \in Nat /\ k <= Len(text)
      /\ \A i \in 1..k : text[i] = encode(in)[i] /\ text[i] \in Char
      /\ \A i \in (k + 1)..Len(text) : text[i] = Pad
  BY <1>1, <1>2, EncodeText
<1>4. k = (16 * SeedLength + 2) \div 3
  BY <1>1, <1>2 DEF TextLength
<1>5. (3 * k) \div 4 = 4 * SeedLength /\ k >= 1
  BY <1>2, <1>4
<1>6. ASSUME NEW i \in 1..Len(text)
      PROVE  text[i] # Dash
  <2>1. i \in 1..k \/ i \in (k + 1)..Len(text)
    BY <1>3
  <2>2. text[i] \in Char \/ text[i] = Pad
    BY <1>3, <2>1, Zenon
  <2>3. PICK c : c = text[i]
    OBVIOUS
  <2>4. c \in 0..63 \/ c = 64
    BY <2>2, <2>3, Zenon DEF Char, Pad
  <2>5. c # 66
    BY <2>4, NoCharIsDash
  <2> QED
    BY <2>3, <2>5, Zenon DEF Dash
<1>7. k = Len(text) \/ text[k + 1] >= 64
  BY <1>3 DEF Pad
<1>8. k \in 0..TextLength(in)
  BY <1>1, <1>3
<1>9. Begins(text, in, k)
  BY <1>3, <1>7, <1>8 DEF Begins
<1> QED
  BY <1>1, <1>3, <1>5, <1>6, <1>9 DEF Text, NoDash, Complete

\* The first line of the text, behind a rule, is all of it or of LineLength.
FirstIsKey(content, s) ==
    /\ 2 \in 1..Len(content) /\ IsRule(content[1]) /\ ~IsRule(content[2])
    /\ Len(content[2]) = LineLength \/ Len(content[2]) >= TextLength(Digits(s))

LEMMA PemTextReads ==
    ASSUME NEW s \in Seed
    PROVE  /\ Reads(PemText(s), s, TextLength(Digits(s)))
           /\ KeyLines(PemText(s)) # <<>>
           /\ Complete(TextLength(Digits(s)))
           /\ FirstIsKey(PemText(s), s)
<1>1. PICK text : text = encode(Digits(s))
  OBVIOUS
<1>2. /\ text \in Text /\ Len(text) >= 1 /\ NoDash(text)
      /\ TextLength(Digits(s)) \in Nat /\ TextLength(Digits(s)) <= Len(text)
      /\ Complete(TextLength(Digits(s)))
      /\ Begins(text, Digits(s), TextLength(Digits(s)))
  BY <1>1, TextOfKeys
<1>3. PICK head : head = Rule \o <<Letter>>
  OBVIOUS
<1>4. head \in Text /\ IsRule(head)
  <2>1. PICK r, e : r = Rule /\ e = <<Letter>>
    OBVIOUS
  <2>2. r \in Seq(Nat) /\ Len(r) = 5 /\ \A i \in 1..5 : r[i] = Dash
    BY <2>1 DEF Rule, Dash
  <2>3. e \in Seq(Nat) /\ Len(e) = 1
    BY <2>1 DEF Letter
  <2>4. head = r \o e
    BY <1>3, <2>1
  <2>5. /\ head \in Seq(Nat) /\ Len(head) = Len(r) + Len(e)
        /\ \A i \in 1..Len(r) : head[i] = r[i]
    <3>1. /\ r \o e \in Seq(Nat) /\ Len(r \o e) = Len(r) + Len(e)
          /\ \A i \in 1..(Len(r) + Len(e)) :
                (r \o e)[i] = IF i <= Len(r) THEN r[i] ELSE e[i - Len(r)]
      BY <2>2, <2>3, ConcatProperties
    <3>2. \A i \in 1..Len(r) : i \in 1..(Len(r) + Len(e)) /\ i <= Len(r)
      BY <2>2, <2>3
    <3> QED
      BY <2>4, <3>1, <3>2, Zenon
  <2>6. head \in Text /\ Len(head) >= 5 /\ \A i \in 1..5 : head[i] = Dash
    BY <2>2, <2>3, <2>5 DEF Text
  <2> QED
    BY <2>6, RuleIs
<1>5. PICK n : n = (Len(text) + LineLength - 1) \div LineLength
  OBVIOUS
<1>6. PICK body : Lined(text, n, body)
  BY DEF Lined
<1>7. PICK c : Framed(head, body, c)
  BY DEF Framed
<1>8. PemText(s) = c
  BY <1>1, <1>3, <1>5, <1>6, <1>7, Zenon DEF PemText, Lined, Framed, Digits, Keys
<1>9. /\ c \in Seq(Text) /\ KeyLines(c) = text
      /\ IsRule(c[1]) /\ 2 \in 1..Len(c) /\ ~IsRule(c[2])
      /\ Len(c[2]) = LineLength \/ Len(c[2]) = Len(text)
  BY <1>2, <1>4, <1>5, <1>6, <1>7, LinesOfText
<1>10. text # <<>>
  BY <1>2
<1>11. FirstIsKey(c, s)
  BY <1>2, <1>9 DEF FirstIsKey
<1>12. Reads(c, s, TextLength(Digits(s)))
  BY <1>2, <1>9, Zenon DEF Reads
<1> QED
  BY <1>2, <1>8, <1>9, <1>10, <1>11, <1>12, Zenon

\* A text that is cut, or its line ends converted, reads as a beginning.
LEMMA CutReads ==
    ASSUME NEW s \in Seed, NEW c, NEW k, Reads(c, s, k),
           NEW l \in 1..Len(c), NEW m \in 0..Len(c[l])
    PROVE  \E j : Reads(Append(SubSeq(c, 1, l - 1), SubSeq(c[l], 1, m)), s, j)
<1>1. PICK u : u = Append(SubSeq(c, 1, l - 1), SubSeq(c[l], 1, m))
  OBVIOUS
<1>2. c \in Seq(Text) /\ Begins(KeyLines(c), Digits(s), k)
  BY DEF Reads
<1>3. u \in Seq(Text) /\ \E p, r, q : Continues(KeyLines(u), KeyLines(c), p, r, q)
  BY <1>1, <1>2, CutContinues
<1>4. PICK p, r, q : Continues(KeyLines(u), KeyLines(c), p, r, q)
  BY <1>3
<1>5. Digits(s) \in Seq(Byte)
  BY KeysProperties
<1>6. Begins(KeyLines(u), Digits(s), IF k <= Len(p) THEN k ELSE Len(p))
  BY <1>2, <1>4, <1>5, BeginsContinues
<1> QED
  BY <1>1, <1>3, <1>6 DEF Reads

LEMMA ConvertReads ==
    ASSUME NEW s \in Seed, NEW c, NEW k, Reads(c, s, k)
    PROVE  /\ \E j : Reads(WithCR(c), s, j)
           /\ FirstIsKey(c, s) /\ k = TextLength(Digits(s)) =>
                \E j : Reads(WithCR(c), s, j) /\ j \in {k, LineLength}
<1>1. c \in Seq(Text) /\ Begins(KeyLines(c), Digits(s), k)
  BY DEF Reads
<1>2. WithCR(c) \in Seq(Text) /\ (OnlyRules(c) \/ \E l, r, q : FirstLine(c, l, r, q))
  BY <1>1, ConvertContinues
<1>3. CASE OnlyRules(c)
  <2>1. Reads(WithCR(c), s, k)
    BY <1>1, <1>2, <1>3 DEF OnlyRules, Reads
  <2>2. ~FirstIsKey(c, s)
    BY <1>3 DEF OnlyRules, FirstIsKey
  <2> QED
    BY <2>1, <2>2
<1>4. ASSUME NEW l, NEW r, NEW q, FirstLine(c, l, r, q)
      PROVE  /\ \E j : Reads(WithCR(c), s, j)
             /\ FirstIsKey(c, s) /\ k = TextLength(Digits(s)) =>
                  \E j : Reads(WithCR(c), s, j) /\ j \in {k, LineLength}
  <2>1. Digits(s) \in Seq(Byte)
    BY KeysProperties
  <2>2. Continues(KeyLines(WithCR(c)), KeyLines(c), c[l], r, q)
    BY <1>4 DEF FirstLine
  <2>3. Begins(KeyLines(WithCR(c)), Digits(s), IF k <= Len(c[l]) THEN k ELSE Len(c[l]))
    BY <1>1, <2>1, <2>2, BeginsContinues
  <2>4. Reads(WithCR(c), s, IF k <= Len(c[l]) THEN k ELSE Len(c[l]))
    BY <1>2, <2>3 DEF Reads
  <2>5. ASSUME FirstIsKey(c, s), k = TextLength(Digits(s))
        PROVE  (IF k <= Len(c[l]) THEN k ELSE Len(c[l])) \in {k, LineLength}
    <3>1. /\ l \in 1..Len(c) /\ ~IsRule(c[l]) /\ \A m \in 1..(l - 1) : IsRule(c[m])
          /\ 2 \in 1..Len(c) /\ IsRule(c[1]) /\ ~IsRule(c[2]) /\ Len(c) \in Nat
      BY <1>1, <1>4, <2>5 DEF FirstLine, FirstIsKey
    <3>2. l = 2
      <4>1. l # 1
        BY <3>1
      <4>2. ~(2 \in 1..(l - 1))
        BY <3>1
      <4> QED
        BY <3>1, <4>1, <4>2
    <3>3. Len(c[2]) = LineLength \/ Len(c[2]) >= k
      BY <2>5 DEF FirstIsKey
    <3>4. Len(c[2]) \in Nat /\ k \in Nat
      <4>1. Len(c[2]) \in Nat
        BY <1>1, <3>1 DEF Text
      <4>2. k \in Nat
        BY <2>5, TextOfKeys
      <4> QED
        BY <4>1, <4>2
    <3> QED
      BY <3>2, <3>3, <3>4
  <2> QED
    BY <2>4, <2>5
<1> QED
  BY <1>2, <1>3, <1>4

\* The bytes that m digits of the keys come to.
HexRead(x, m, b) ==
    /\ b \in Seq(Byte) /\ Len(b) = (m + 1) \div 2
    /\ \A i \in 1..((m + 1) \div 2) : b[i] = IF 2 * i <= m THEN x[i] ELSE x[i] \div 16

LEMMA HexReadIs ==
    ASSUME NEW x \in Seq(Byte), NEW m \in Nat, m <= 2 * Len(x)
    PROVE  HexRead(x, m, hexToBytes(SubSeq(stringToHex(x), 1, m)))
<1>1. PICK h : h = SubSeq(stringToHex(x), 1, m)
  OBVIOUS
<1>2. /\ hexToBytes(h) \in Seq(Byte) /\ Len(hexToBytes(h)) = (m + 1) \div 2
      /\ \A i \in 1..((m + 1) \div 2) :
            hexToBytes(h)[i] = IF 2 * i <= m THEN x[i] ELSE x[i] \div 16
  BY <1>1, HexReads
<1> QED
  BY <1>1, <1>2, Zenon DEF HexRead

LEMMA ReadBytes ==
    ASSUME NEW s \in Seed, NEW c, NEW k, Reads(c, s, k)
    PROVE  /\ (3 * k) \div 4 \in Nat /\ (3 * k) \div 4 <= 4 * SeedLength
           /\ HexRead(Keys(s), (3 * k) \div 4, hexToBytes(decode(KeyLines(c))))
<1>1. PICK m : m = (3 * k) \div 4
  OBVIOUS
<1>2. /\ SeedLength \in Nat /\ Keys(s) \in Seq(Byte) /\ Len(Keys(s)) = 2 * SeedLength
      /\ Digits(s) \in Seq(Byte) /\ Len(Digits(s)) = 4 * SeedLength
  BY KeysProperties
<1>3. Begins(KeyLines(c), Digits(s), k)
  BY DEF Reads
<1>4. m <= 4 * SeedLength /\ decode(KeyLines(c)) = SubSeq(Digits(s), 1, m)
  BY <1>1, <1>2, <1>3, DecodeReads
<1>5. m \in Nat
  <2>1. TextLength(Digits(s)) \in Nat
    BY <1>2, EncodeText
  <2>2. k \in Nat
    BY <1>3, <2>1 DEF Begins
  <2> QED
    BY <1>1, <2>2
<1>6. PICK h : h = SubSeq(stringToHex(Keys(s)), 1, m)
  OBVIOUS
<1>7. m <= 2 * Len(Keys(s))
  BY <1>2, <1>4, <1>5
<1>9. h = decode(KeyLines(c))
  BY <1>4, <1>6 DEF Digits
<1>10. HexRead(Keys(s), m, hexToBytes(h))
  BY <1>2, <1>5, <1>6, <1>7, HexReadIs, Zenon
<1> QED
  BY <1>1, <1>4, <1>5, <1>9, <1>10, Zenon

LEMMA TwoLengths ==
    \A L \in Nat, m \in Int : L >= 1 =>
        (m = 4 * L \/ m = 4 * L - 1
            <=> m \in Nat /\ m <= 4 * L /\ (m + 1) \div 2 = 2 * L)
  BY SMT

\* A key whose last digit is missing.
Short(pk) == [pk EXCEPT ![SeedLength] = @ \div 16]

\* The two halves of keys, the second one whole or not.
Halves(s, b, short) ==
    /\ b \in Seq(Byte) /\ Len(b) = 2 * SeedLength
    /\ SubSeq(b, 1, SeedLength) = s
    /\ SubSeq(b, SeedLength + 1, Len(b)) = IF short THEN Short(PkOf(s)) ELSE PkOf(s)

LEMMA KeysAt ==
    ASSUME NEW s \in Seed
    PROVE  /\ s \in Seq(Byte) /\ Len(s) = SeedLength
           /\ PkOf(s) \in Seq(Byte) /\ Len(PkOf(s)) = SeedLength
           /\ SeedLength \in Nat /\ SeedLength >= 1
           /\ Keys(s) \in Seq(Byte) /\ Len(Keys(s)) = 2 * SeedLength
           /\ \A i \in 1..SeedLength : Keys(s)[i] = s[i] /\ Keys(s)[SeedLength + i] = PkOf(s)[i]
<1>1. PICK p, x : p = PkOf(s) /\ x = s \o p
  OBVIOUS
<1>2. /\ s \in Seq(Byte) /\ Len(s) = SeedLength /\ SeedLength \in Nat /\ SeedLength >= 1
      /\ p \in Seq(Byte) /\ Len(p) = SeedLength
  BY <1>1, SeedAssumption
<1>3. /\ x \in Seq(Byte) /\ Len(x) = Len(s) + Len(p)
      /\ \A i \in 1..(Len(s) + Len(p)) : x[i] = IF i <= Len(s) THEN s[i] ELSE p[i - Len(s)]
  BY <1>1, <1>2, ConcatProperties
<1>4. ASSUME NEW i \in 1..SeedLength
      PROVE  x[i] = s[i] /\ x[SeedLength + i] = p[i]
  <2>1. /\ i \in 1..(Len(s) + Len(p)) /\ i <= Len(s)
        /\ SeedLength + i \in 1..(Len(s) + Len(p)) /\ ~(SeedLength + i <= Len(s))
        /\ (SeedLength + i) - Len(s) = i
    BY <1>2
  <2> QED
    BY <1>3, <2>1, Zenon
<1>5. Len(x) = 2 * SeedLength
  BY <1>2, <1>3
<1> QED
  BY <1>1, <1>2, <1>3, <1>4, <1>5, Zenon DEF Keys

LEMMA ReadHalves ==
    ASSUME NEW s \in Seed, NEW m, NEW b, HexRead(Keys(s), m, b),
           m = 4 * SeedLength \/ m = 4 * SeedLength - 1
    PROVE  Halves(s, b, m = 4 * SeedLength - 1) /\ (m = 4 * SeedLength => b = Keys(s))
<1>1. PICK p, x, L : p = PkOf(s) /\ x = Keys(s) /\ L = SeedLength
  OBVIOUS
<1>2. /\ s \in Seq(Byte) /\ Len(s) = L /\ p \in Seq(Byte) /\ Len(p) = L /\ L \in Nat /\ L >= 1
      /\ x \in Seq(Byte) /\ Len(x) = 2 * L
      /\ \A i \in 1..L : x[i] = s[i] /\ x[L + i] = p[i]
  BY <1>1, KeysAt
<1>3. m \in Nat /\ (m + 1) \div 2 = 2 * L
  <2>1. m = 4 * L \/ m = 4 * L - 1
    BY <1>1, Zenon
  <2>2. m \in Int
    BY <1>2, <2>1
  <2> QED
    BY <1>2, <2>1, <2>2, TwoLengths, Zenon
<1>4. /\ b \in Seq(Byte) /\ Len(b) = 2 * L
      /\ \A i \in 1..(2 * L) : b[i] = IF 2 * i <= m THEN x[i] ELSE x[i] \div 16
  BY <1>1, <1>3 DEF HexRead
<1>5. /\ \A i \in 1..(2 * L - 1) : b[i] = x[i]
      /\ b[2 * L] = IF m = 4 * L - 1 THEN x[2 * L] \div 16 ELSE x[2 * L]
  <2>1. ASSUME NEW i \in 1..(2 * L - 1)
        PROVE  b[i] = x[i]
    <3>1. i \in 1..(2 * L) /\ 2 * i <= m
      BY <1>1, <1>2, <1>3
    <3> QED
      BY <1>4, <3>1
  <2>2. 2 * L \in 1..(2 * L) /\ (2 * (2 * L) <= m <=> m # 4 * L - 1)
    BY <1>1, <1>2, <1>3
  <2> QED
    BY <1>4, <2>1, <2>2
<1>6. m = 4 * L => b = x
  <2> SUFFICES ASSUME m = 4 * L PROVE b = x
    OBVIOUS
  <2>1. ASSUME NEW i \in 1..(2 * L)
        PROVE  b[i] = x[i]
    <3>1. 2 * i <= m
      BY <1>2
    <3> QED
      BY <1>4, <3>1
  <2> QED
    BY <1>2, <1>4, <2>1, SeqEqual
<1>7. SubSeq(b, 1, L) = s
  <2>1. PICK u : u = SubSeq(b, 1, L)
    OBVIOUS
  <2>2. u \in Seq(Byte) /\ Len(u) = L /\ \A i \in 1..L : u[i] = b[i]
    BY <1>2, <1>4, <2>1, SplitAt
  <2>3. ASSUME NEW i \in 1..L
        PROVE  u[i] = s[i]
    <3>1. i \in 1..(2 * L - 1)
      BY <1>2
    <3> QED
      BY <1>2, <1>5, <2>2, <3>1
  <2>4. u = s
    BY <1>2, <2>2, <2>3, SeqEqual
  <2> QED
    BY <2>1, <2>4
<1>8. SubSeq(b, L + 1, 2 * L) = IF m = 4 * L - 1 THEN [p EXCEPT ![L] = @ \div 16] ELSE p
  <2>1. PICK u : u = SubSeq(b, L + 1, 2 * L)
    OBVIOUS
  <2>2. u \in Seq(Byte) /\ Len(u) = L /\ \A i \in 1..L : u[i] = b[L + i]
    <3>1. 2 * L \in Nat /\ L <= 2 * L /\ 2 * L <= Len(b) /\ 2 * L - L = L
      BY <1>2, <1>4
    <3>2. u \in Seq(Byte) /\ Len(u) = 2 * L - L /\ \A i \in 1..(2 * L - L) : u[i] = b[L + i]
      BY <1>2, <1>4, <2>1, <3>1, SubSeqOf
    <3> QED
      BY <3>1, <3>2, Zenon
  <2>3. ASSUME NEW i \in 1..(L - 1)
        PROVE  u[i] = p[i]
    <3>1. L + i \in 1..(2 * L - 1) /\ i \in 1..L
      BY <1>2
    <3> QED
      BY <1>2, <1>5, <2>2, <3>1, Zenon
  <2>4. u[L] = IF m = 4 * L - 1 THEN p[L] \div 16 ELSE p[L]
    <3>1. L \in 1..L /\ L + L = 2 * L
      BY <1>2
    <3>2. u[L] = b[2 * L] /\ x[2 * L] = p[L]
      BY <1>2, <2>2, <3>1
    <3> QED
      BY <1>5, <3>2, Zenon
  <2>5. \A i \in 1..L : i \in 1..(L - 1) \/ i = L
    BY <1>2
  <2>6. CASE m = 4 * L - 1
    <3>1. PICK z : z = [p EXCEPT ![L] = @ \div 16]
      OBVIOUS
    <3>2. DOMAIN p = 1..L /\ p \in [1..L -> Byte]
      BY <1>2
    <3>3. /\ z = [i \in 1..L |-> IF i = L THEN p[L] \div 16 ELSE p[i]]
      BY <3>1, <3>2, Zenon
    <3>4. u = [i \in 1..L |-> u[i]]
      BY <2>2
    <3>5. \A i \in 1..L : u[i] = IF i = L THEN p[L] \div 16 ELSE p[i]
      BY <2>3, <2>4, <2>5, <2>6, Zenon
    <3>6. u = z
      BY <3>3, <3>4, <3>5, Zenon
    <3> QED
      BY <2>1, <2>6, <3>1, <3>6, Zenon
  <2>7. CASE m # 4 * L - 1
    <3>1. \A i \in 1..L : u[i] = p[i]
      BY <2>3, <2>4, <2>5, <2>7, Zenon
    <3>2. u = p
      BY <1>2, <2>2, <3>1, SeqEqual
    <3> QED
      BY <2>1, <2>7, <3>2, Zenon
  <2> QED
    BY <2>6, <2>7
<1> QED
  BY <1>1, <1>4, <1>6, <1>7, <1>8, Zenon DEF Halves, Short

\* What a PEM file opens as, when it opens.
LEMMA PemOpens ==
    ASSUME NEW s \in Seed, NEW c, NEW k, Reads(c, s, k), PemBytes(c) # Invalid
    PROVE  Halves(s, PemBytes(c), OneLess(k))
<1>1. PICK m, b : m = (3 * k) \div 4 /\ b = hexToBytes(decode(KeyLines(c)))
  OBVIOUS
<1>2. m \in Nat /\ m <= 4 * SeedLength /\ HexRead(Keys(s), m, b)
  BY <1>1, ReadBytes
<1>3. PemBytes(c) = b /\ Len(b) = 2 * SeedLength
  BY <1>1, Zenon DEF PemBytes
<1>4. SeedLength \in Nat /\ SeedLength >= 1 /\ (m + 1) \div 2 = 2 * SeedLength
  BY <1>2, <1>3, SeedAssumption DEF HexRead
<1>5. m = 4 * SeedLength \/ m = 4 * SeedLength - 1
  <2>1. m \in Int
    BY <1>2
  <2> QED
    BY <1>2, <1>4, <2>1, TwoLengths, Zenon
<1>6. Halves(s, b, m = 4 * SeedLength - 1)
  BY <1>2, <1>5, ReadHalves
<1> QED
  BY <1>1, <1>3, <1>6, Zenon DEF OneLess

LEMMA PemOpensComplete ==
    ASSUME NEW s \in Seed, NEW c, NEW k, Reads(c, s, k), Complete(k), KeyLines(c) # <<>>
    PROVE  PemBytes(c) = Keys(s)
<1>1. PICK m, b : m = (3 * k) \div 4 /\ b = hexToBytes(decode(KeyLines(c)))
  OBVIOUS
<1>2. m = 4 * SeedLength /\ HexRead(Keys(s), m, b)
  BY <1>1, ReadBytes DEF Complete
<1>3. b = Keys(s) /\ Halves(s, b, m = 4 * SeedLength - 1)
  BY <1>2, ReadHalves
<1>4. Len(b) = 2 * SeedLength
  BY <1>3, Zenon DEF Halves
<1> QED
  BY <1>1, <1>3, <1>4, Zenon DEF PemBytes

-----------------------------------------------------------------------------
(* Damaged PEM files *)

\* A PEM file reads as a beginning of the text that was written: all of its
\* digits but one only when it was cut.
PemReads(content, s) ==
    \E k : Reads(content, s, k) /\ (OneLess(k) => "cut" \in damage)

PemInv ==
    file # None /\ file.kind = "pem" =>
        /\ written.seed \in Seed
        /\ PemReads(file.content, written.seed)
        /\ "cut" \notin damage /\ "ends" \notin damage =>
              file.content = PemText(written.seed)

FileInv == file # None => file = [kind |-> file.kind, content |-> file.content]

LEMMA PemTextIsRead ==
    ASSUME NEW s \in Seed
    PROVE  \E k : Reads(PemText(s), s, k) /\ ~OneLess(k)
<1>1. /\ Reads(PemText(s), s, TextLength(Digits(s)))
      /\ Complete(TextLength(Digits(s)))
  BY PemTextReads
<1>2. 4 * SeedLength # 4 * SeedLength - 1
  BY SeedAssumption
<1>3. ~OneLess(TextLength(Digits(s)))
  BY <1>1, <1>2, Zenon DEF Complete, OneLess
<1> QED
  BY <1>1, <1>3

LEMMA PemTextConverted ==
    ASSUME NEW s \in Seed
    PROVE  \E k : Reads(WithCR(PemText(s)), s, k) /\ ~OneLess(k)
<1>1. PICK n : n = TextLength(Digits(s))
  OBVIOUS
<1>2. Reads(PemText(s), s, n) /\ Complete(n) /\ FirstIsKey(PemText(s), s)
  BY <1>1, PemTextReads
<1>3. PICK j : Reads(WithCR(PemText(s)), s, j) /\ j \in {n, LineLength}
  BY <1>1, <1>2, ConvertReads
<1>4. 4 * SeedLength # 4 * SeedLength - 1
  BY SeedAssumption
<1>5. ~OneLess(n)
  BY <1>2, <1>4, Zenon DEF Complete, OneLess
<1>6. ~OneLess(LineLength)
  BY LineAssumption, Zenon DEF OneLess
<1> QED
  BY <1>3, <1>5, <1>6

LEMMA PemInvStep ==
    ASSUME FileInv, PemInv, [Next]_vars
    PROVE  PemInv'
<1>1. CASE UNCHANGED <<file, written, damage>>
  BY <1>1 DEF PemInv, PemReads
<1>2. ASSUME NEW s \in Seed, WritePem(s)
      PROVE  PemInv'
  <2>1. /\ file' = [kind |-> "pem", content |-> PemText(s)]
        /\ written' = [seed |-> s, password |-> None]
    BY <1>2 DEF WritePem, Writes
  <2>2. file'.content = PemText(s) /\ written'.seed = s
    BY <2>1
  <2>3. PICK k : Reads(PemText(s), s, k) /\ ~OneLess(k)
    BY PemTextIsRead
  <2>4. PemReads(PemText(s), s)'
    BY <2>3, Zenon DEF PemReads
  <2> QED
    BY <2>2, <2>4, Zenon DEF PemInv
<1>3. ASSUME NEW s \in Seed, WriteStore(s)
      PROVE  PemInv'
  <2>1. PICK content : file' = [kind |-> "json", content |-> content]
    BY <1>3 DEF WriteStore, Writes
  <2>2. file'.kind = "json"
    BY <2>1
  <2> QED
    BY <2>2 DEF PemInv
<1>4. ASSUME CutPem
      PROVE  PemInv'
  <2>1. PICK l \in DOMAIN file.content : \E m \in 0..(Len(file.content[l]) - 1) :
          Damaged("cut", Append(SubSeq(file.content, 1, l - 1), SubSeq(file.content[l], 1, m)))
    BY <1>4 DEF CutPem
  <2>12. PICK m \in 0..(Len(file.content[l]) - 1) :
          Damaged("cut", Append(SubSeq(file.content, 1, l - 1), SubSeq(file.content[l], 1, m)))
    BY <2>1
  <2>2. PICK c, s : c = file.content /\ s = written.seed
    OBVIOUS
  <2>3. file # None /\ file.kind = "pem" /\ file = [kind |-> "pem", content |-> c]
    BY <1>4, <2>2 DEF CutPem, IsKind, FileInv
  <2>4. PICK u : u = Append(SubSeq(c, 1, l - 1), SubSeq(c[l], 1, m))
    OBVIOUS
  <2>5. file' = [file EXCEPT !.content = u] /\ written' = written /\ "cut" \in damage'
    BY <2>12, <2>2, <2>4 DEF Damaged
  <2>6. file'.content = u
    BY <2>3, <2>5
  <2>7. PICK k : s \in Seed /\ Reads(c, s, k)
    BY <2>2, <2>3 DEF PemInv, PemReads
  <2>8. l \in 1..Len(c) /\ m \in 0..Len(c[l])
    <3>1. c \in Seq(Text) /\ l \in 1..Len(c)
      BY <2>1, <2>2, <2>7 DEF Reads
    <3>2. Len(c[l]) \in Nat /\ m \in 0..(Len(c[l]) - 1)
      BY <2>12, <2>2, <3>1 DEF Text
    <3> QED
      BY <3>1, <3>2
  <2>9. \E j : Reads(u, s, j)
    BY <2>4, <2>7, <2>8, CutReads
  <2>10. PemReads(u, s)'
    BY <2>5, <2>9, Zenon DEF PemReads
  <2>11. written'.seed = s /\ s \in Seed
    BY <2>2, <2>5, <2>7
  <2> QED
    BY <2>5, <2>6, <2>10, <2>11, Zenon DEF PemInv
<1>5. ASSUME ConvertLineEnds
      PROVE  PemInv'
  <2>1. PICK c, s : c = file.content /\ s = written.seed
    OBVIOUS
  <2>2. /\ file # None /\ file.kind = "pem" /\ file = [kind |-> "pem", content |-> c]
        /\ "ends" \notin damage
    BY <1>5, <2>1 DEF ConvertLineEnds, IsKind, FileInv
  <2>3. /\ file' = [file EXCEPT !.content = WithCR(c)] /\ written' = written
        /\ damage' = damage \cup {"ends"}
    BY <1>5, <2>1 DEF ConvertLineEnds, Damaged, WithCR
  <2>4. file'.content = WithCR(c)
    BY <2>2, <2>3
  <2>5. s \in Seed /\ PemReads(c, s) /\ ("cut" \notin damage => c = PemText(s))
    BY <2>1, <2>2 DEF PemInv
  <2>6. PemReads(WithCR(c), s)'
    <3>1. CASE "cut" \in damage
      <4>1. \E j : Reads(WithCR(c), s, j)
        BY <2>5, ConvertReads DEF PemReads
      <4> QED
        BY <2>3, <3>1, <4>1, Zenon DEF PemReads
    <3>2. CASE "cut" \notin damage
      <4>1. \E k : Reads(WithCR(c), s, k) /\ ~OneLess(k)
        BY <2>5, <3>2, PemTextConverted
      <4> QED
        BY <4>1, Zenon DEF PemReads
    <3> QED
      BY <3>1, <3>2
  <2>7. written'.seed = s /\ "ends" \in damage'
    BY <2>1, <2>3
  <2> QED
    BY <2>4, <2>5, <2>6, <2>7, Zenon DEF PemInv
<1>6. ASSUME NEW what, NEW content, IsKind("json"), Damaged(what, content)
      PROVE  PemInv'
  <2>1. /\ file # None /\ file = [kind |-> "json", content |-> file.content]
        /\ file' = [file EXCEPT !.content = content]
    BY <1>6 DEF IsKind, Damaged, FileInv
  <2>2. file'.kind = "json"
    BY <2>1
  <2> QED
    BY <2>2 DEF PemInv
<1>7. ASSUME CutStore
      PROVE  PemInv'
  BY <1>6, <1>7 DEF CutStore
<1>8. ASSUME DamageStore
      PROVE  PemInv'
  BY <1>6, <1>8 DEF DamageStore
<1> QED
  BY <1>1, <1>2, <1>3, <1>4, <1>5, <1>7, <1>8
     DEF Next, vars, Open, Close, SignMessage, SignTransaction, Signs, ReadAddress

PemKeyInv == FileInv /\ PemInv /\ (key # None => file # None) /\ CutKeepsSeed

LEMMA FileInvStep ==
    ASSUME FileInv, [Next]_vars
    PROVE  FileInv'
<1>1. CASE file' = file
  BY <1>1 DEF FileInv
<1>2. ASSUME NEW kind, NEW content, file' = [kind |-> kind, content |-> content]
      PROVE  FileInv'
  BY <1>2 DEF FileInv
<1>3. ASSUME NEW kind, NEW what, NEW content, IsKind(kind), Damaged(what, content)
      PROVE  FileInv'
  BY <1>3 DEF FileInv, IsKind, Damaged
<1>4. CutPem => FileInv'
  BY <1>3 DEF CutPem
<1>5. ConvertLineEnds => FileInv'
  BY <1>3 DEF ConvertLineEnds
<1>6. CutStore => FileInv'
  BY <1>3 DEF CutStore
<1>7. DamageStore => FileInv'
  BY <1>3 DEF DamageStore
<1> QED
  BY <1>1, <1>2, <1>4, <1>5, <1>6, <1>7
     DEF Next, vars, WritePem, WriteStore, Writes, Open, Close, SignMessage, SignTransaction,
         Signs, ReadAddress

LEMMA CutKeepsSeedStep ==
    ASSUME PemKeyInv, [Next]_vars
    PROVE  CutKeepsSeed' /\ (key' # None => file' # None)
<1>1. CASE UNCHANGED <<file, written, damage, key>>
  BY <1>1 DEF PemKeyInv, CutKeepsSeed
<1>2. CASE key' = None
  BY <1>2 DEF CutKeepsSeed
<1>3. ASSUME NEW password, Open(password), key' # None
      PROVE  CutKeepsSeed' /\ (key' # None => file' # None)
  <2>1. /\ Bytes(password) # Invalid
        /\ key' = [password |-> password,
                   seed |-> SubSeq(Bytes(password), 1, SeedLength),
                   address |-> SubSeq(Bytes(password), SeedLength + 1, Len(Bytes(password)))]
        /\ UNCHANGED <<file, written, damage>>
    BY <1>3 DEF Open
  <2>2. file # None
    BY <2>1 DEF Bytes
  <2>3. ASSUME file.kind = "pem"
        PROVE  CutKeepsSeed'
    <3>1. PICK c, s, b : c = file.content /\ s = written.seed /\ b = Bytes(password)
      OBVIOUS
    <3>2. b = PemBytes(c) /\ b # Invalid
      BY <2>1, <2>2, <2>3, <3>1 DEF Bytes
    <3>3. PICK k : s \in Seed /\ Reads(c, s, k) /\ (OneLess(k) => "cut" \in damage)
      BY <2>2, <2>3, <3>1 DEF PemKeyInv, PemInv, PemReads
    <3>4. Halves(s, b, OneLess(k))
      BY <3>2, <3>3, PemOpens
    <3>5. key'.seed = SubSeq(b, 1, SeedLength) /\ key'.address = SubSeq(b, SeedLength + 1, Len(b))
      BY <2>1, <3>1
    <3>6. /\ key'.seed = s
          /\ (key'.address = PkOf(s) \/ ("cut" \in damage' /\ key'.address = Short(PkOf(s))))
      BY <2>1, <3>3, <3>4, <3>5, Zenon DEF Halves
    <3>7. written'.seed = s
      BY <2>1, <3>1
    <3> QED
      BY <3>6, <3>7, Zenon DEF CutKeepsSeed, Short
  <2>4. file'.kind # "pem" => CutKeepsSeed'
    BY DEF CutKeepsSeed
  <2> QED
    BY <2>1, <2>2, <2>3, <2>4
<1> QED
  BY <1>1, <1>2, <1>3
     DEF Next, vars, WritePem, WriteStore, Writes, CutPem, ConvertLineEnds, CutStore,
         DamageStore, Damaged, Open, Close, SignMessage, SignTransaction, Signs, ReadAddress

(***************************************************************************)
(* A PEM file that was cut at any character, or whose lines end otherwise, *)
(* opens as the keys it was written for or not at all, but for the last    *)
(* digit of the public key of one that was cut: for keys and lines of any  *)
(* length such that lines without the last never hold all digits but one   *)
(* (PemFileReader).                                                        *)
(***************************************************************************)
THEOREM CutKeepsSeedTheorem == Spec => []CutKeepsSeed
<1>1. Init => PemKeyInv
  BY DEF Init, PemKeyInv, FileInv, PemInv, CutKeepsSeed
<1>2. PemKeyInv /\ [Next]_vars => PemKeyInv'
  BY FileInvStep, PemInvStep, CutKeepsSeedStep DEF PemKeyInv
<1>3. PemKeyInv => CutKeepsSeed
  BY DEF PemKeyInv
<1> QED
  BY <1>1, <1>2, <1>3, PTL DEF Spec

-----------------------------------------------------------------------------
(* What a key file is, and what nothing has happened to *)

StoreContent ==
    [version : {4, None, Junk}, kdf : {"scrypt", None, Junk},
     cipher : {"aes-128-ctr", None, Junk}, salt : Salt \cup {None, Junk},
     iv : IV \cup {None, Junk}, cipherText : CipherText \cup {None, Junk},
     mac : Mac \cup {None, Junk}]

LEMMA StoreTyped ==
    ASSUME NEW s \in Seed, NEW password \in Password, NEW salt \in Salt, NEW iv \in IV
    PROVE  Store(s, password, salt, iv) \in StoreContent
<1>1. PICK c : c = Encrypted(FirstHalf(Derived(password, salt)), s \o PkOf(s), iv)
  OBVIOUS
<1>2. c \in CipherText
  <2>1. Encrypted(FirstHalf(Derived(password, salt)), s \o PkOf(s), iv) \in CipherText
    BY DEF CipherText
  <2> QED
    BY <1>1, <2>1, Zenon
<1>3. PICK m : m = hmacsha256(SecondHalf(Derived(password, salt)), c)
  OBVIOUS
<1>4. m \in Mac
  BY <1>2, <1>3 DEF Mac
<1>5. Store(s, password, salt, iv) =
        [version |-> 4, kdf |-> "scrypt", cipher |-> "aes-128-ctr", salt |-> salt,
         iv |-> iv, cipherText |-> c, mac |-> m]
  BY <1>1, <1>3, Zenon DEF Store
<1> QED
  BY <1>2, <1>4, <1>5 DEF StoreContent

LEMMA DamagedTyped ==
    ASSUME NEW c \in StoreContent
    PROVE  /\ DOMAIN c = StoreFields
           /\ [f \in DOMAIN c |-> None] \in StoreContent
           /\ \A f \in DOMAIN c, value \in {None, Junk} :
                 [c EXCEPT ![f] = value] \in StoreContent
<1>1. DOMAIN c = StoreFields
  BY DEF StoreContent, StoreFields
<1>2. [f \in DOMAIN c |-> None] \in StoreContent
  <2>1. [f \in DOMAIN c |-> None] =
          [version |-> None, kdf |-> None, cipher |-> None, salt |-> None, iv |-> None,
           cipherText |-> None, mac |-> None]
    BY <1>1 DEF StoreFields
  <2> QED
    BY <2>1 DEF StoreContent
<1>3. ASSUME NEW f \in DOMAIN c, NEW value \in {None, Junk}
      PROVE  [c EXCEPT ![f] = value] \in StoreContent
  BY <1>1, <1>3 DEF StoreContent, StoreFields
<1> QED
  BY <1>1, <1>2, <1>3

FileTyped ==
    file # None => \/ file.kind = "pem" /\ file \in PemFile
                   \/ file.kind = "json" /\ file \in StoreFile

StoreFileTyped == file # None /\ file.kind = "json" => file.content \in StoreContent

\* A key file that nothing has happened to is the one that was written.
StoreWhole ==
    file # None /\ file.kind = "json" /\ damage = {} =>
        \E salt \in Salt, iv \in IV :
            file.content = Store(written.seed, written.password, salt, iv)

Kinds == file # None => file.kind \in {"pem", "json"}

\* A file and what it was written for are there together.
Together ==
    /\ written \in {None} \cup [seed : Seed, password : Password \cup {None}]
    /\ (file = None <=> written = None)

Damages == damage \subseteq {"cut", "ends"} \cup StoreFields

\* What holds of the file, and of the key that it opened as.
WalletInv ==
    /\ PemKeyInv /\ KeyInv /\ Kinds /\ StoreFileTyped /\ StoreWhole /\ Together /\ Damages

LEMMA FileIsTyped ==
    ASSUME FileInv, PemInv, Kinds, StoreFileTyped
    PROVE  FileTyped
<1>1. ASSUME file # None, file.kind = "pem"
      PROVE  file \in PemFile
  <2>1. PICK s, k : Reads(file.content, s, k)
    BY <1>1 DEF PemInv, PemReads
  <2>2. file.content \in Seq(Seq(Nat))
    BY <2>1 DEF Reads, Text
  <2>3. file = [kind |-> "pem", content |-> file.content]
    BY <1>1 DEF FileInv
  <2> QED
    BY <2>2, <2>3 DEF PemFile
<1>2. ASSUME file # None, file.kind = "json"
      PROVE  file \in StoreFile
  <2>1. file.content \in StoreContent
    BY <1>2 DEF StoreFileTyped
  <2>2. file = [kind |-> "json", content |-> file.content]
    BY <1>2 DEF FileInv
  <2>3. StoreFile = [kind : {"json"}, content : StoreContent]
    BY Zenon DEF StoreFile, StoreContent
  <2> QED
    BY <2>1, <2>2, <2>3
<1> QED
  BY <1>1, <1>2 DEF Kinds, FileTyped

\* What damages a file leaves one of its kind.
Damaging(kind, what, content) ==
    /\ IsKind(kind) /\ Damaged(what, content)
    /\ kind \in {"pem", "json"} /\ what \in {"cut", "ends"} \cup StoreFields
    /\ kind = "json" => content \in StoreContent
    /\ kind = "pem" => content \in Seq(Text)

LEMMA DamageKeepsKind ==
    ASSUME WalletInv, CutPem \/ ConvertLineEnds \/ CutStore \/ DamageStore
    PROVE  \E kind, what, content : Damaging(kind, what, content)
<1>1. ASSUME IsKind("json")
      PROVE  file.content \in StoreContent
  BY <1>1 DEF IsKind, WalletInv, StoreFileTyped
<1>2. ASSUME IsKind("pem")
      PROVE  file.content \in Seq(Text)
  BY <1>2 DEF IsKind, WalletInv, PemKeyInv, PemInv, PemReads, Reads
<1>3. CASE CutPem
  <2>1. PICK l \in DOMAIN file.content : \E m \in 0..(Len(file.content[l]) - 1) :
          Damaged("cut", Append(SubSeq(file.content, 1, l - 1), SubSeq(file.content[l], 1, m)))
    BY <1>3 DEF CutPem
  <2>2. PICK m \in 0..(Len(file.content[l]) - 1) :
          Damaged("cut", Append(SubSeq(file.content, 1, l - 1), SubSeq(file.content[l], 1, m)))
    BY <2>1
  <2>3. PICK c : c = file.content
    OBVIOUS
  <2>4. IsKind("pem") /\ c \in Seq(Text)
    BY <1>2, <1>3, <2>3 DEF CutPem
  <2>5. l \in 1..Len(c) /\ m \in 0..Len(c[l])
    <3>1. l \in 1..Len(c)
      BY <2>3, <2>4
    <3>2. Len(c[l]) \in Nat /\ m \in 0..(Len(c[l]) - 1)
      BY <2>2, <2>3, <2>4, <3>1 DEF Text
    <3> QED
      BY <3>1, <3>2
  <2>6. PICK u : u = Append(SubSeq(c, 1, l - 1), SubSeq(c[l], 1, m))
    OBVIOUS
  <2>7. u \in Seq(Text)
    BY <2>4, <2>5, <2>6, CutContinues
  <2>8. Damaging("pem", "cut", u)
    BY <2>2, <2>3, <2>4, <2>6, <2>7 DEF Damaging
  <2> QED
    BY <2>8
<1>4. CASE ConvertLineEnds
  <2>1. IsKind("pem") /\ file.content \in Seq(Text) /\ Damaged("ends", WithCR(file.content))
    BY <1>2, <1>4 DEF ConvertLineEnds, WithCR
  <2>2. WithCR(file.content) \in Seq(Text)
    BY <2>1, ConvertContinues
  <2>3. Damaging("pem", "ends", WithCR(file.content))
    BY <2>1, <2>2 DEF Damaging
  <2> QED
    BY <2>3
<1>5. CASE CutStore
  <2>1. PICK u : u = [f \in DOMAIN file.content |-> None]
    OBVIOUS
  <2>2. IsKind("json") /\ Damaged("cut", u)
    BY <1>5, <2>1 DEF CutStore
  <2>3. u \in StoreContent
    BY <1>1, <2>1, <2>2, DamagedTyped
  <2>4. Damaging("json", "cut", u)
    BY <2>2, <2>3 DEF Damaging
  <2> QED
    BY <2>4
<1>6. CASE DamageStore
  <2>1. PICK f \in DOMAIN file.content, value \in {None, Junk} :
            Damaged(f, [file.content EXCEPT ![f] = value])
    BY <1>6 DEF DamageStore
  <2>2. PICK u : u = [file.content EXCEPT ![f] = value]
    OBVIOUS
  <2>3. IsKind("json") /\ Damaged(f, u)
    BY <1>6, <2>1, <2>2 DEF DamageStore
  <2>4. u \in StoreContent /\ f \in StoreFields
    BY <1>1, <2>2, <2>3, DamagedTyped
  <2>5. Damaging("json", f, u)
    BY <2>3, <2>4 DEF Damaging
  <2> QED
    BY <2>5
<1> QED
  BY <1>3, <1>4, <1>5, <1>6

\* A step writes the file, damages it or leaves it as it is.
LEMMA FileSteps ==
    ASSUME WalletInv, [Next]_vars
    PROVE  \/ UNCHANGED <<file, written, damage>>
           \/ \E s \in Seed : WritePem(s)
           \/ \E s \in Seed : WriteStore(s)
           \/ \E kind, what, content : Damaging(kind, what, content)
  BY DamageKeepsKind DEF Next, vars, Open, Close, SignMessage, SignTransaction, Signs, ReadAddress

\* What a wallet writes has its types, and what damages it keeps them.
LEMMA FileWritten ==
    ASSUME NEW s \in Seed
    PROVE  /\ WritePem(s) =>
                /\ file' \in PemFile /\ file'.kind = "pem" /\ damage' = {}
                /\ written' = [seed |-> s, password |-> None]
           /\ WriteStore(s) =>
                \E password \in Password, salt \in Salt, iv \in IV :
                    /\ file' \in StoreFile /\ file'.kind = "json" /\ damage' = {}
                    /\ file'.content = Store(s, password, salt, iv)
                    /\ file'.content \in StoreContent
                    /\ written' = [seed |-> s, password |-> password]
<1>1. ASSUME WritePem(s)
      PROVE  /\ file' \in PemFile /\ file'.kind = "pem" /\ damage' = {}
             /\ written' = [seed |-> s, password |-> None]
  <2>1. /\ file' = [kind |-> "pem", content |-> PemText(s)] /\ damage' = {}
        /\ written' = [seed |-> s, password |-> None]
    BY <1>1 DEF WritePem, Writes
  <2>2. PemText(s) \in Seq(Seq(Nat))
    BY PemTextReads DEF Reads, Text
  <2> QED
    BY <2>1, <2>2 DEF PemFile
<1>2. ASSUME WriteStore(s)
      PROVE  \E password \in Password, salt \in Salt, iv \in IV :
                    /\ file' \in StoreFile /\ file'.kind = "json" /\ damage' = {}
                    /\ file'.content = Store(s, password, salt, iv)
                    /\ file'.content \in StoreContent
                    /\ written' = [seed |-> s, password |-> password]
  <2>1. PICK password \in Password, salt \in Salt, iv \in IV :
            Writes("json", Store(s, password, salt, iv), s, password)
    BY <1>2 DEF WriteStore
  <2>2. PICK c : c = Store(s, password, salt, iv)
    OBVIOUS
  <2>3. /\ file' = [kind |-> "json", content |-> c] /\ damage' = {}
        /\ written' = [seed |-> s, password |-> password]
    BY <2>1, <2>2 DEF Writes
  <2>4. c \in StoreContent
    BY <2>2, StoreTyped
  <2>5. StoreFile = [kind : {"json"}, content : StoreContent]
    BY Zenon DEF StoreFile, StoreContent
  <2>6. file' \in StoreFile /\ file'.kind = "json" /\ file'.content = c
    BY <2>3, <2>4, <2>5
  <2> QED
    BY <2>2, <2>3, <2>4, <2>6, Zenon
<1> QED
  BY <1>1, <1>2

LEMMA FileDamaged ==
    ASSUME WalletInv, NEW kind, NEW what, NEW content, Damaging(kind, what, content)
    PROVE  /\ file' \in PemFile \cup StoreFile /\ file'.kind = kind /\ file'.content = content
           /\ file # None /\ written' = written /\ damage' = damage \cup {what}
<1>1. /\ file # None /\ file.kind = kind
      /\ file = [kind |-> kind, content |-> file.content]
      /\ file' = [file EXCEPT !.content = content] /\ damage' = damage \cup {what}
      /\ written' = written
  BY DEF Damaging, IsKind, Damaged, WalletInv, PemKeyInv, FileInv
<1>2. file' = [kind |-> kind, content |-> content]
  BY <1>1
<1>3. CASE kind = "pem"
  <2>1. content \in Seq(Seq(Nat))
    BY <1>3 DEF Damaging, Text
  <2>2. file' \in PemFile
    BY <1>2, <1>3, <2>1 DEF PemFile
  <2> QED
    BY <1>1, <1>2, <2>2
<1>4. CASE kind = "json"
  <2>1. content \in StoreContent
    BY <1>4 DEF Damaging
  <2>2. StoreFile = [kind : {"json"}, content : StoreContent]
    BY Zenon DEF StoreFile, StoreContent
  <2>3. file' \in StoreFile
    BY <1>2, <1>4, <2>1, <2>2
  <2> QED
    BY <1>1, <1>2, <2>3
<1> QED
  BY <1>3, <1>4 DEF Damaging

LEMMA PartsStep ==
    ASSUME WalletInv, [Next]_vars
    PROVE  Kinds' /\ StoreFileTyped' /\ StoreWhole' /\ Damages' /\ Together'
<1> USE DEF Kinds, StoreFileTyped, Damages, Together
<1>0. Kinds /\ StoreFileTyped /\ StoreWhole /\ Damages /\ Together
  BY DEF WalletInv
<1>1. CASE UNCHANGED <<file, written, damage>>
  BY <1>0, <1>1 DEF StoreWhole
<1>2. ASSUME NEW s \in Seed, WritePem(s)
      PROVE  Kinds' /\ StoreFileTyped' /\ StoreWhole' /\ Damages' /\ Together'
  <2>1. /\ file' \in PemFile /\ file'.kind = "pem" /\ damage' = {}
        /\ written' = [seed |-> s, password |-> None]
    BY <1>2, FileWritten
  <2>2. file' # None /\ written' \in [seed : Seed, password : Password \cup {None}]
    BY <2>1, NoneAssumption
  <2>3. written' # None
    BY <2>2, NoneAssumption
  <2> QED
    BY <2>1, <2>2, <2>3 DEF StoreWhole
<1>3. ASSUME NEW s \in Seed, WriteStore(s)
      PROVE  Kinds' /\ StoreFileTyped' /\ StoreWhole' /\ Damages' /\ Together'
  <2>1. PICK password \in Password, salt \in Salt, iv \in IV :
                    /\ file' \in StoreFile /\ file'.kind = "json" /\ damage' = {}
                    /\ file'.content = Store(s, password, salt, iv)
                    /\ file'.content \in StoreContent
                    /\ written' = [seed |-> s, password |-> password]
    BY <1>3, FileWritten
  <2>2. file' # None /\ written' \in [seed : Seed, password : Password \cup {None}]
    BY <2>1, NoneAssumption
  <2>3. written' # None
    BY <2>2, NoneAssumption
  <2>4. written'.seed = s /\ written'.password = password
    BY <2>1
  <2>5. StoreWhole'
    BY <2>1, <2>4, Zenon DEF StoreWhole
  <2> QED
    BY <2>1, <2>2, <2>3, <2>5
<1>4. ASSUME NEW kind, NEW what, NEW content, Damaging(kind, what, content)
      PROVE  Kinds' /\ StoreFileTyped' /\ StoreWhole' /\ Damages' /\ Together'
  <2>1. /\ file' \in PemFile \cup StoreFile /\ file'.kind = kind /\ file'.content = content
        /\ file # None /\ written' = written /\ damage' = damage \cup {what}
    BY <1>4, FileDamaged
  <2>2. /\ kind \in {"pem", "json"} /\ what \in {"cut", "ends"} \cup StoreFields
        /\ kind = "json" => content \in StoreContent
    BY <1>4 DEF Damaging
  <2>3. file' # None /\ damage' # {}
    BY <2>1, NoneAssumption
  <2> QED
    BY <1>0, <2>1, <2>2, <2>3 DEF StoreWhole
<1> QED
  BY <1>1, <1>2, <1>3, <1>4, FileSteps

LEMMA WalletInvStep ==
    ASSUME WalletInv, [Next]_vars
    PROVE  WalletInv'
<1>1. PemKeyInv'
  BY FileInvStep, PemInvStep, CutKeepsSeedStep DEF WalletInv, PemKeyInv
<1>2. KeyInv'
  BY KeyInvStep DEF WalletInv
<1> QED
  BY <1>1, <1>2, PartsStep DEF WalletInv

LEMMA WalletInvInit ==
    ASSUME Init
    PROVE  WalletInv
  BY DEF Init, WalletInv, PemKeyInv, FileInv, PemInv, CutKeepsSeed, KeyInv, StoreInv,
         StoreKeepsSeed, Kinds, StoreFileTyped, StoreWhole, Together, Damages

\* A key file that nothing has happened to decrypts with its password.
LEMMA StoreOpens ==
    ASSUME NEW s \in Seed, NEW password \in Password, NEW salt \in Salt, NEW iv \in IV
    PROVE  StoreBytes(Store(s, password, salt, iv), password) = Keys(s)
<1>1. PICK c : c = Encrypted(FirstHalf(Derived(password, salt)), s \o PkOf(s), iv)
  OBVIOUS
<1>2. c \in CipherText
  <2>1. Encrypted(FirstHalf(Derived(password, salt)), s \o PkOf(s), iv) \in CipherText
    BY DEF CipherText
  <2> QED
    BY <1>1, <2>1, Zenon
<1>3. c # Junk /\ c.of = s \o PkOf(s)
  BY <1>1, <1>2, JunkAssumption DEF Encrypted
<1>4. PICK f : f = Store(s, password, salt, iv)
  OBVIOUS
<1>5. /\ f.version = 4 /\ f.kdf = "scrypt" /\ f.cipher = "aes-128-ctr"
      /\ f.salt = salt /\ f.iv = iv /\ f.cipherText = c
      /\ f.mac = hmacsha256(SecondHalf(Derived(password, salt)), c)
  BY <1>1, <1>4 DEF Store
<1>6. Parsed(f)
  BY <1>4, NoneAssumption
<1>7. StoreBytes(f, password) = aes128ctrDecrypt(FirstHalf(Derived(password, salt)), c, iv)
  BY <1>5, <1>6 DEF StoreBytes, deriveSecretKey
<1>8. aes128ctrDecrypt(FirstHalf(Derived(password, salt)), c, iv) = s \o PkOf(s)
  BY <1>1, <1>3, Zenon DEF aes128ctrDecrypt
<1> QED
  BY <1>4, <1>7, <1>8 DEF Keys

(***************************************************************************)
(* A file that nothing has happened to opens, with its password, as the    *)
(* keys it was written for: for any keys, lines of any length that the     *)
(* assumptions allow, and any password (SecretKeyProvider).                *)
(***************************************************************************)
THEOREM OpensAsWrittenTheorem == Spec => []OpensAsWritten
<1>1. ASSUME WalletInv, written # None, damage = {}
      PROVE  Bytes(written.password) = written.seed \o PkOf(written.seed)
  <2>1. file # None /\ file.kind \in {"pem", "json"}
    BY <1>1 DEF WalletInv, Together, Kinds
  <2>2. CASE file.kind = "pem"
    <3>1. written.seed \in Seed /\ file.content = PemText(written.seed)
      BY <1>1, <2>1, <2>2 DEF WalletInv, PemKeyInv, PemInv
    <3>2. PemBytes(PemText(written.seed)) = Keys(written.seed)
      BY <3>1, PemTextReads, PemOpensComplete
    <3> QED
      BY <2>1, <2>2, <3>1, <3>2 DEF Bytes, Keys
  <2>3. CASE file.kind = "json"
    <3>1. written.seed \in Seed /\ written.password \in Password
      <4>1. StoreInv
        BY <1>1 DEF WalletInv, KeyInv
      <4> QED
        BY <2>1, <2>3, <4>1 DEF StoreInv
    <3>2. PICK salt \in Salt, iv \in IV :
              file.content = Store(written.seed, written.password, salt, iv)
      BY <1>1, <2>1, <2>3 DEF WalletInv, StoreWhole
    <3>3. StoreBytes(file.content, written.password) = Keys(written.seed)
      BY <3>1, <3>2, StoreOpens
    <3>4. written.password # None
      BY <3>1, NoneAssumption
    <3> QED
      BY <2>1, <2>3, <3>3, <3>4 DEF Bytes, Keys
  <2> QED
    BY <2>1, <2>2, <2>3
<1>2. WalletInv => OpensAsWritten
  BY <1>1 DEF OpensAsWritten
<1> QED
  BY <1>2, WalletInvInit, WalletInvStep, PTL DEF Spec

-----------------------------------------------------------------------------
(* Addresses *)

\* The groups of an address that is accepted are those of its key.
LEMMA AddressKeyIs ==
    ASSUME NEW g \in Seq(Byte), ComputePk(g) # Invalid
    PROVE  ComputePk(g) \in Seq(Byte) /\ ComputeBech32(ComputePk(g)) = g
  BY GroupsReadBack DEF ComputePk, ComputeBech32

\* Somebody else's address is one of the texts that are accepted, with its key.
PeerInv ==
    peer \notin {None, Invalid} =>
        \E groups \in Addresses :
            ComputePk(groups) # Invalid /\ peer = [text |-> groups, pk |-> ComputePk(groups)]

LEMMA PeerInvStep == PeerInv /\ [Next]_vars => PeerInv'
<1> SUFFICES ASSUME PeerInv, [Next]_vars PROVE PeerInv'
  OBVIOUS
<1>1. CASE peer' = peer
  BY <1>1 DEF PeerInv
<1>2. ASSUME NEW groups \in Addresses, ReadAddress(groups)
      PROVE  PeerInv'
  BY <1>2 DEF ReadAddress, PeerInv
<1>3. peer' = peer \/ \E groups \in Addresses : ReadAddress(groups)
  BY DEF Next, vars, WritePem, WriteStore, Writes, CutPem, ConvertLineEnds, CutStore, DamageStore,
         Damaged, Open, Close, SignMessage, SignTransaction, Signs
<1> QED
  BY <1>1, <1>2, <1>3

(***************************************************************************)
(* The text of an address is the one computed from its key, for an address *)
(* of any length (Address, util::convertBits).                             *)
(***************************************************************************)
THEOREM AddressCanonicalTheorem == Spec => []AddressCanonical
<1>1. Init => PeerInv
  BY DEF Init, PeerInv
<1>2. ASSUME PeerInv, peer \notin {None, Invalid}
      PROVE  peer.text = ComputeBech32(peer.pk)
  <2>1. PICK groups \in Addresses :
            ComputePk(groups) # Invalid /\ peer = [text |-> groups, pk |-> ComputePk(groups)]
    BY <1>2 DEF PeerInv
  <2>2. groups \in Seq(Byte)
    BY AddressAssumption
  <2>3. ComputeBech32(ComputePk(groups)) = groups
    BY <2>1, <2>2, AddressKeyIs
  <2> QED
    BY <2>1, <2>3
<1>3. PeerInv => AddressCanonical
  BY <1>2 DEF AddressCanonical
<1> QED
  BY <1>1, <1>3, PeerInvStep, PTL DEF Spec

-----------------------------------------------------------------------------
(* The types *)

\* The bytes of both keys have both lengths.
BothKeys(b) == b \in Seq(Byte) /\ Len(b) = 2 * SeedLength

KeyTyped ==
    key # None => /\ key.seed \in Seq(Byte) /\ Len(key.seed) = SeedLength
                  /\ key.address \in Seq(Byte) /\ Len(key.address) = SeedLength

LEMMA HalvesTyped ==
    ASSUME NEW b, BothKeys(b)
    PROVE  /\ SubSeq(b, 1, SeedLength) \in Seq(Byte)
           /\ Len(SubSeq(b, 1, SeedLength)) = SeedLength
           /\ SubSeq(b, SeedLength + 1, Len(b)) \in Seq(Byte)
           /\ Len(SubSeq(b, SeedLength + 1, Len(b))) = SeedLength
<1>1. b \in Seq(Byte) /\ Len(b) = 2 * SeedLength /\ SeedLength \in Nat /\ SeedLength >= 1
  BY SeedAssumption DEF BothKeys
<1>2. /\ 1 \in 1..(Len(b) + 1) /\ SeedLength \in 0..Len(b) /\ 1 <= SeedLength + 1
      /\ SeedLength + 1 \in 1..(Len(b) + 1) /\ Len(b) \in 0..Len(b)
      /\ SeedLength + 1 <= Len(b) + 1
      /\ (Len(b) - (SeedLength + 1)) + 1 = SeedLength /\ (SeedLength - 1) + 1 = SeedLength
  BY <1>1
<1>3. SubSeq(b, 1, SeedLength) \in Seq(Byte) /\ Len(SubSeq(b, 1, SeedLength)) = SeedLength
  BY <1>1, <1>2, SplitAt
<1>4. /\ SubSeq(b, SeedLength + 1, Len(b)) \in Seq(Byte)
      /\ Len(SubSeq(b, SeedLength + 1, Len(b))) = SeedLength
  BY <1>1, <1>2, SubSeqProperties
<1> QED
  BY <1>3, <1>4

\* What a key file decrypts to, with any password and after any damage.
LEMMA StoreBytesTyped ==
    ASSUME NEW store \in StoreContent, NEW password, StoreBytes(store, password) # Invalid
    PROVE  BothKeys(StoreBytes(store, password))
<1>1. Parsed(store) /\ StoreBytes(store, password) = deriveSecretKey(store, password)
  BY DEF StoreBytes
<1>2. PICK c, k : c = store.cipherText /\ k = FirstHalf(Derived(password, store.salt))
  OBVIOUS
<1>3. c # None /\ c \in CipherText \cup {None, Junk}
  BY <1>1, <1>2 DEF Parsed, StoreContent
<1>4. deriveSecretKey(store, password) = aes128ctrDecrypt(k, c, store.iv)
  BY <1>1, <1>2 DEF deriveSecretKey
<1>5. CASE c # Junk /\ c = Encrypted(k, c.of, store.iv)
  <2>1. PICK s \in Seed : c.of = Keys(s)
    <3>1. PICK p \in Password, salt \in Salt, s \in Seed, iv \in IV :
              c = Encrypted(FirstHalf(Derived(p, salt)), s \o PkOf(s), iv)
      BY <1>3, <1>5 DEF CipherText
    <3>2. PICK x : x = Keys(s)
      OBVIOUS
    <3>3. c = [key |-> FirstHalf(Derived(p, salt)), of |-> x, iv |-> iv]
      BY <3>1, <3>2, Zenon DEF Keys, Encrypted
    <3>4. c.of = x
      BY <3>3
    <3> QED
      BY <3>2, <3>4
  <2>2. BothKeys(Keys(s))
    BY KeysAt DEF BothKeys
  <2> QED
    BY <1>1, <1>4, <1>5, <2>1, <2>2, Zenon DEF aes128ctrDecrypt
<1>6. CASE ~(c # Junk /\ c = Encrypted(k, c.of, store.iv))
  <2>1. BothKeys(Garbage)
    BY GarbageAssumption DEF BothKeys
  <2> QED
    BY <1>1, <1>4, <1>6, <2>1, Zenon DEF aes128ctrDecrypt
<1> QED
  BY <1>5, <1>6

LEMMA BytesTyped ==
    ASSUME WalletInv, NEW password, Bytes(password) # Invalid
    PROVE  BothKeys(Bytes(password))
<1>1. file # None /\ file.kind \in {"pem", "json"}
  BY DEF Bytes, WalletInv, Kinds
<1>2. CASE file.kind = "pem"
  <2>1. PICK b : b = Bytes(password)
    OBVIOUS
  <2>2. b = PemBytes(file.content) /\ b # Invalid
    BY <1>1, <1>2, <2>1 DEF Bytes
  <2>3. PICK k : written.seed \in Seed /\ Reads(file.content, written.seed, k)
    BY <1>1, <1>2 DEF WalletInv, PemKeyInv, PemInv, PemReads
  <2>4. Halves(written.seed, b, OneLess(k))
    BY <2>2, <2>3, PemOpens
  <2> QED
    BY <2>1, <2>4 DEF Halves, BothKeys
<1>3. CASE file.kind = "json"
  <2>1. /\ file.content \in StoreContent /\ Bytes(password) = StoreBytes(file.content, password)
    BY <1>1, <1>3 DEF Bytes, WalletInv, StoreFileTyped
  <2> QED
    BY <2>1, StoreBytesTyped
<1> QED
  BY <1>1, <1>2, <1>3

LEMMA KeyTypedStep ==
    ASSUME WalletInv, KeyTyped, [Next]_vars
    PROVE  KeyTyped'
<1>1. CASE key' = key
  BY <1>1 DEF KeyTyped
<1>2. CASE key' = None
  BY <1>2 DEF KeyTyped
<1>3. ASSUME NEW password, Open(password), key' # None
      PROVE  KeyTyped'
  <2>1. PICK b : b = Bytes(password)
    OBVIOUS
  <2>2. /\ b # Invalid
        /\ key' = [password |-> password, seed |-> SubSeq(b, 1, SeedLength),
                   address |-> SubSeq(b, SeedLength + 1, Len(b))]
    BY <1>3, <2>1 DEF Open
  <2>3. BothKeys(b)
    BY <2>1, <2>2, BytesTyped
  <2>4. key'.seed = SubSeq(b, 1, SeedLength) /\ key'.address = SubSeq(b, SeedLength + 1, Len(b))
    BY <2>2
  <2> QED
    BY <2>3, <2>4, HalvesTyped, Zenon DEF KeyTyped
<1>4. \/ key' = key \/ key' = None
      \/ \E password \in Password \cup {None} : Open(password)
  BY DEF Next, vars, WritePem, WriteStore, Writes, CutPem, ConvertLineEnds, CutStore,
         DamageStore, Damaged, Close, SignMessage, SignTransaction, Signs, ReadAddress
<1> QED
  BY <1>1, <1>2, <1>3, <1>4

LEMMA StoreHasFields == DOMAIN Store(<<>>, None, None, None) = StoreFields
  BY DEF Store, StoreFields

(***************************************************************************)
(* The types: keys that open have their length, whatever the file went     *)
(* through, and the key of an address is bytes.                            *)
(***************************************************************************)
THEOREM TypeOKTheorem == Spec => []TypeOK
<1> DEFINE Inv == WalletInv /\ KeyTyped /\ PeerInv
<1>1. Init => Inv
  BY WalletInvInit DEF Init, KeyTyped, PeerInv
<1>2. Inv /\ [Next]_vars => Inv'
  BY WalletInvStep, KeyTypedStep, PeerInvStep
<1>3. ASSUME Inv
      PROVE  TypeOK
  <2>1. FileTyped
    BY <1>3, FileIsTyped DEF WalletInv, PemKeyInv
  <2>2. Together /\ Damages /\ KeyTyped
    BY <1>3 DEF WalletInv
  <2>3. ASSUME peer \notin {None, Invalid}
        PROVE  peer.pk \in Seq(Byte)
    <3>1. PICK groups \in Addresses :
              ComputePk(groups) # Invalid /\ peer = [text |-> groups, pk |-> ComputePk(groups)]
      BY <1>3, <2>3 DEF PeerInv
    <3>2. groups \in Seq(Byte)
      BY AddressAssumption
    <3>3. ComputePk(groups) \in Seq(Byte)
      BY <3>1, <3>2, AddressKeyIs
    <3> QED
      BY <3>1, <3>3
  <2>4. damage \in SUBSET ({"cut", "ends"} \cup DOMAIN Store(<<>>, None, None, None))
    BY <2>2, StoreHasFields DEF Damages
  <2> QED
    BY <2>1, <2>2, <2>3, <2>4, Zenon DEF TypeOK, FileTyped, Together, KeyTyped
<1> QED
  BY <1>1, <1>2, <1>3, PTL DEF Spec
=============================================================================
