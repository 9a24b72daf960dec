----------------------- MODULE TransactionBuildersProofs -----------------------
(***************************************************************************)
(* What transaction objects and their builders keep: for every set of      *)
(* builders, objects, inputs, keys, payloads and prices, every codec that  *)
(* reads back what it writes, and every order of the program's calls.      *)
(***************************************************************************)
EXTENDS TransactionBuilders, GasEstimatorProofs

USE DEF Holder, Pointer, Covered, Field

-----------------------------------------------------------------------------
(* Transaction *)

LEMMA RequiredFields ==
    Required = {"nonce", "value", "receiver", "sender", "gasPrice",
                "gasLimit", "chainID", "version"}
<1>1. 1..8 = {1, 2, 3, 4, 5, 6, 7, 8}
  OBVIOUS
<1> QED
  BY <1>1 DEF Required, Order

(***************************************************************************)
(* The signed message determines the covered fields: two contents with the *)
(* same message are the same, so no field can change under a signature.    *)
(***************************************************************************)
LEMMA MessageInjective ==
    ASSUME NEW c, NEW d,
           c = [f \in Field |-> c[f]], d = [f \in Field |-> d[f]],
           \A f \in Covered : Fits(f, c[f]) /\ Fits(f, d[f]),
           Message(c) = Message(d)
    PROVE  Content(c) = Content(d)
<1> DEFINE cw == WithoutSignature(c)
           dw == WithoutSignature(d)
<1>1. /\ \A f \in Covered : cw[f] = c[f] /\ dw[f] = d[f]
      /\ cw["signature"] = Null /\ dw["signature"] = Null
  BY DEF WithoutSignature
<1>2. Serialize(cw) = Serialize(dw)
  BY DEF Message
<1>3. {f \in Field : cw[f] # Null} = {f \in Field : dw[f] # Null}
  <2>1. /\ DOMAIN Serialize(cw) = {f \in Field : cw[f] # Null}
        /\ DOMAIN Serialize(dw) = {f \in Field : dw[f] # Null}
    BY DEF Serialize
  <2> QED
    BY <2>1, <1>2
<1>4. ASSUME NEW f \in Covered
      PROVE  c[f] = d[f]
  <2>1. CASE cw[f] = Null
    BY <2>1, <1>1, <1>3
  <2>2. CASE cw[f] # Null
    <3>1. dw[f] # Null /\ c[f] \in Val[f] /\ d[f] \in Val[f]
      BY <2>2, <1>1, <1>3 DEF Fits
    <3>2. Serialize(cw)[f] = Encode[f][c[f]] /\ Serialize(dw)[f] = Encode[f][d[f]]
      BY <2>2, <3>1, <1>1 DEF Serialize, EncodeField
    <3>3. Encode[f][c[f]] = Encode[f][d[f]]
      BY <3>2, <1>2
    <3> QED
      BY <3>1, <3>3, CodecAssumption
  <2> QED
    BY <2>1, <2>2
<1> QED
  BY <1>4 DEF Content

\* A Transaction object with values of its types.
IsObject(c) ==
    /\ c = [f \in Field |-> c[f]]
    /\ \A f \in Covered : Fits(f, c[f])
    /\ \/ c["signature"] \in {Null, Junk}
       \/ Signed(c["signature"])

LEMMA ValuesAreObjects ==
    ValuesOK <=> /\ tx = [h \in Holder |-> tx[h]]
                 /\ \A h \in Holder : IsObject(tx[h])
BY DEF ValuesOK, IsObject

(***************************************************************************)
(* A new object is well typed.                                             *)
(***************************************************************************)
LEMMA DefaultIsObject == IsObject(Default)
<1>1. Default = [f \in Field |-> Default[f]]
  BY DEF Default
<1>2. \A f \in Pointer : Default[f] = Null
  BY DEF Default
<1>3. \A f \in Covered : Fits(f, Default[f])
  BY <1>2, DefaultAssumption DEF Fits
<1> QED
  BY <1>1, <1>2, <1>3 DEF IsObject

(***************************************************************************)
(* What a Signer returns for an object with both addresses is a signature. *)
(***************************************************************************)
LEMMA SignatureIsSigned ==
    ASSUME NEW k \in Key, NEW c, IsObject(c), Serializable(c)
    PROVE  Signed(SignatureOf(k, c))
<1> DEFINE d == [f \in Field |-> IF f = "signature" THEN Null ELSE Content(c)[f]]
<1>1. WithoutSignature(c) = WithoutSignature(d)
  BY DEF IsObject, WithoutSignature, Content
<1>2. c["options"] = d["options"] /\ c["version"] = d["version"]
  BY DEF Content
<1>3. Message(c) = Message(d)
  BY <1>1, <1>2 DEF Message, ShouldSignHash
<1>4. IsContent(Content(c)) /\ Serializable(Content(c))
  BY DEF IsContent, Content, IsObject, Serializable
<1> QED
  BY <1>3, <1>4 DEF Signed, SignatureOf

(***************************************************************************)
(* An object that verifies holds what its signature was made for.          *)
(***************************************************************************)
LEMMA VerifiedIsSigned ==
    ASSUME NEW c, IsObject(c), Verifies(c)
    PROVE  c["signature"].of = Content(c)
<1> DEFINE s == c["signature"]
           d == [f \in Field |-> IF f = "signature" THEN Null ELSE s.of[f]]
<1>1. Signed(s) /\ s.msg = Message(c)
  BY DEF Verifies, IsObject
<1>2. Message(d) = Message(c)
  BY <1>1 DEF Signed
<1>3. \A f \in Covered : d[f] = s.of[f] /\ Fits(f, d[f])
  BY <1>1 DEF Signed, IsContent
<1>4. Content(d) = Content(c)
  BY <1>2, <1>3, MessageInjective DEF IsObject
<1>5. Content(d) = s.of
  BY <1>1, <1>3 DEF Content, Signed, IsContent
<1> QED
  BY <1>4, <1>5

(***************************************************************************)
(* A text of serialize() has the required keys and texts of values.        *)
(***************************************************************************)
IsWire(w) ==
    /\ Required \subseteq DOMAIN w /\ DOMAIN w \subseteq Field
    /\ \A f \in DOMAIN w \ {"signature"} : w[f] \in {Encode[f][v] : v \in Val[f]}
    /\ "signature" \in DOMAIN w => w["signature"] = Junk \/ Signed(w["signature"])

LEMMA SerializeIsWire ==
    ASSUME NEW c, IsObject(c), Serializable(c)
    PROVE  IsWire(Serialize(c))
<1>1. DOMAIN Serialize(c) = {f \in Field : c[f] # Null}
  BY DEF Serialize
<1>2. \A f \in Covered \ Pointer : c[f] # Null
  BY CodecAssumption DEF IsObject, Fits
<1>3. Required \subseteq DOMAIN Serialize(c)
  BY <1>1, <1>2, RequiredFields DEF Serializable
<1>4. ASSUME NEW f \in DOMAIN Serialize(c) \ {"signature"}
      PROVE  Serialize(c)[f] \in {Encode[f][v] : v \in Val[f]}
  <2>1. f \in Covered /\ c[f] # Null
    BY <1>1
  <2>2. c[f] \in Val[f]
    BY <2>1 DEF IsObject, Fits
  <2>3. Serialize(c)[f] = Encode[f][c[f]]
    BY <2>1 DEF Serialize, EncodeField
  <2> QED
    BY <2>2, <2>3
<1>5. "signature" \in DOMAIN Serialize(c) =>
        Serialize(c)["signature"] = Junk \/ Signed(Serialize(c)["signature"])
  BY <1>1 DEF Serialize, EncodeField, IsObject
<1> QED
  BY <1>1, <1>3, <1>4, <1>5 DEF IsWire

LEMMA WireOKIsWire == WireOK <=> (wire # Null => IsWire(wire))
BY DEF WireOK, IsWire

(***************************************************************************)
(* The texts given to deserialize() have known keys only, and signatures   *)
(* in them come from a Signer or are junk.                                 *)
(***************************************************************************)
LEMMA TextsAreReadable ==
    ASSUME WireOK, NEW w \in Texts
    PROVE  /\ DOMAIN w \subseteq Field
           /\ "signature" \in DOMAIN w => w["signature"] \in {Junk, Null} \/ Signed(w["signature"])
<1>1. wire # Null /\ IsWire(wire)
  BY WireOKIsWire DEF Texts
<1>2. CASE w = wire
  BY <1>1, <1>2 DEF IsWire
<1>3. CASE \E g \in DOMAIN wire : w = [f \in DOMAIN wire \ {g} |-> wire[f]]
  BY <1>1, <1>3 DEF IsWire
<1>4. ASSUME NEW g \in DOMAIN wire, NEW s \in Foreign[g], w = [wire EXCEPT ![g] = s]
      PROVE  /\ DOMAIN w \subseteq Field
             /\ "signature" \in DOMAIN w =>
                   w["signature"] \in {Junk, Null} \/ Signed(w["signature"])
  <2>1. DOMAIN w = DOMAIN wire /\ \A f \in DOMAIN wire : w[f] = IF f = g THEN s ELSE wire[f]
    BY <1>4
  <2>2. g = "signature" => s \in {Junk, Null}
    BY <1>4, CodecAssumption
  <2> QED
    BY <1>1, <2>1, <2>2 DEF IsWire
<1>5. w \in {wire} \cup {[f \in DOMAIN wire \ {g} |-> wire[f]] : g \in DOMAIN wire}
            \cup UNION {{[wire EXCEPT ![g] = s] : s \in Foreign[g]} : g \in DOMAIN wire}
  BY <1>1 DEF Texts
<1> QED
  BY <1>2, <1>3, <1>4, <1>5

(***************************************************************************)
(* Deserializing such a text, to the end or up to an unreadable field,     *)
(* leaves a well typed object.                                             *)
(***************************************************************************)
LEMMA ReadIsObject ==
    ASSUME NEW c, IsObject(c), NEW w, DOMAIN w \subseteq Field,
           "signature" \in DOMAIN w => w["signature"] \in {Junk, Null} \/ Signed(w["signature"])
    PROVE  IsObject([f \in Field |-> IF f \in Assigned(w) THEN Read(f, w) ELSE c[f]])
<1> DEFINE d == [f \in Field |-> IF f \in Assigned(w) THEN Read(f, w) ELSE c[f]]
<1>1. ASSUME NEW f \in Covered
      PROVE  Fits(f, d[f])
  <2>1. CASE f \in Assigned(w)
    <3>1. f \in DOMAIN w /\ w[f] \in DOMAIN Decode[f]
      <4>1. f \in DOMAIN w /\ (~Readable(f, w) => Position[f] < Position[f])
        BY <2>1 DEF Assigned
      <4>2. ~(Position[f] < Position[f])
        <5>1. \A g \in Field : \E i \in 1..13 : Order[i] = g
          <6>1. /\ Order[1] = "nonce" /\ Order[2] = "value" /\ Order[3] = "receiver"
                /\ Order[4] = "sender" /\ Order[5] = "gasPrice" /\ Order[6] = "gasLimit"
                /\ Order[7] = "chainID" /\ Order[8] = "version" /\ Order[9] = "data"
                /\ Order[10] = "signature" /\ Order[11] = "receiverUsername"
                /\ Order[12] = "senderUsername" /\ Order[13] = "options"
            BY DEF Order
          <6> QED
            BY <6>1
        <5>2. Position[f] \in 1..13
          BY <5>1 DEF Position
        <5> QED
          BY <5>2
      <4> QED
        BY <4>1, <4>2 DEF Readable
    <3>2. d[f] = Decode[f][w[f]]
      BY <2>1 DEF Read
    <3> QED
      BY <3>1, <3>2, CodecAssumption DEF Fits
  <2>2. CASE f \notin Assigned(w)
    BY <2>2 DEF IsObject
  <2> QED
    BY <2>1, <2>2
<1>2. \/ d["signature"] \in {Null, Junk}
      \/ Signed(d["signature"])
  BY DEF Assigned, Read, IsObject
<1> QED
  BY <1>1, <1>2 DEF IsObject

(***************************************************************************)
(* The inductive invariant: objects and the published text are well typed, *)
(* and every signature in them was made by a Signer for a content.         *)
(***************************************************************************)
SignaturesHonest == ValuesOK /\ WireOK

LEMMA InitHonest == Init => SignaturesHonest
<1> SUFFICES ASSUME Init PROVE SignaturesHonest
  OBVIOUS
<1>1. tx = [h \in Holder |-> tx[h]] /\ \A h \in Holder : IsObject(tx[h])
  BY DefaultIsObject DEF Init
<1>2. ValuesOK
  BY <1>1, ValuesAreObjects
<1> QED
  BY <1>2 DEF SignaturesHonest, WireOK, Init

LEMMA StepHonest == SignaturesHonest /\ [Next]_vars => SignaturesHonest'
<1> SUFFICES ASSUME SignaturesHonest, [Next]_vars
             PROVE  SignaturesHonest'
  OBVIOUS
<1>0. /\ ValuesOK /\ WireOK
      /\ tx = [h \in Holder |-> tx[h]]
      /\ \A h \in Holder : IsObject(tx[h])
  BY ValuesAreObjects DEF SignaturesHonest
<1>1. SUFFICES /\ tx' = [h \in Holder |-> tx'[h]]
               /\ \A h \in Holder : IsObject(tx'[h])
               /\ wire' # Null => IsWire(wire')
  <2>1. ASSUME tx' = [h \in Holder |-> tx'[h]], \A h \in Holder : IsObject(tx'[h])
        PROVE  ValuesOK'
    BY <2>1 DEF ValuesOK, IsObject
  <2>2. ASSUME wire' # Null => IsWire(wire')
        PROVE  WireOK'
    BY <2>2 DEF WireOK, IsWire
  <2> QED
    BY <2>1, <2>2 DEF SignaturesHonest
<1>2. wire # Null => IsWire(wire)
  BY <1>0, WireOKIsWire
\* One object changes, into a well typed one.
<1>3. ASSUME NEW t \in Tx, NEW c, IsObject(c), tx' = [tx EXCEPT ![t] = c], wire' = wire
      PROVE  /\ tx' = [h \in Holder |-> tx'[h]]
             /\ \A h \in Holder : IsObject(tx'[h])
             /\ wire' # Null => IsWire(wire')
  BY <1>0, <1>2, <1>3
<1>4. CASE UNCHANGED vars
  BY <1>0, <1>2, <1>4 DEF vars
<1>5. ASSUME NEW t \in Tx, NEW f \in Field, Assign(t, f)
      PROVE  /\ tx' = [h \in Holder |-> tx'[h]]
             /\ \A h \in Holder : IsObject(tx'[h])
             /\ wire' # Null => IsWire(wire')
  <2>1. PICK v \in Given[f] : tx' = [tx EXCEPT ![t] = [tx[t] EXCEPT ![f] = v]]
    BY <1>5 DEF Assign
  <2>2. \/ f \in Pointer /\ v = Null
        \/ f = "signature" /\ v = Junk
        \/ f \in Covered /\ v \in Val[f]
    BY <2>1, CodecAssumption
  <2>3. IsObject(tx[t])
    BY <1>0
  <2>4. IsObject([tx[t] EXCEPT ![f] = v])
    BY <2>2, <2>3 DEF IsObject, Fits
  <2> QED
    BY <2>1, <2>4, <1>3, <1>5 DEF Assign
<1>6. ASSUME NEW t \in Tx, WriteData(t)
      PROVE  /\ tx' = [h \in Holder |-> tx'[h]]
             /\ \A h \in Holder : IsObject(tx'[h])
             /\ wire' # Null => IsWire(wire')
  <2>1. PICK v \in Written :
           tx' = [h \in Holder |-> IF h = t \/ h \in peers[t]["data"]
                                   THEN [tx[h] EXCEPT !["data"] = v] ELSE tx[h]]
    BY <1>6 DEF WriteData
  <2>2. v \in Val["data"]
    BY <2>1, CodecAssumption
  <2>3. \A h \in Holder : IsObject([tx[h] EXCEPT !["data"] = v])
    BY <1>0, <2>2 DEF IsObject, Fits
  <2> QED
    BY <2>1, <2>3, <1>0, <1>2, <1>6 DEF WriteData
<1>7. ASSUME NEW t \in Tx, NEW u \in Tx, Copy(t, u)
      PROVE  /\ tx' = [h \in Holder |-> tx'[h]]
             /\ \A h \in Holder : IsObject(tx'[h])
             /\ wire' # Null => IsWire(wire')
  BY <1>0, <1>3, <1>7 DEF Copy
<1>8. ASSUME NEW t \in Tx, Reset(t)
      PROVE  /\ tx' = [h \in Holder |-> tx'[h]]
             /\ \A h \in Holder : IsObject(tx'[h])
             /\ wire' # Null => IsWire(wire')
  BY <1>3, <1>8, DefaultIsObject DEF Reset
<1>9. ASSUME NEW t \in Tx, NEW k \in Key, Sign(t, k)
      PROVE  /\ tx' = [h \in Holder |-> tx'[h]]
             /\ \A h \in Holder : IsObject(tx'[h])
             /\ wire' # Null => IsWire(wire')
  <2>1. IsObject(tx[t]) /\ Signed(SignatureOf(k, tx[t]))
    BY <1>0, <1>9, SignatureIsSigned DEF Sign
  <2>2. IsObject([tx[t] EXCEPT !["signature"] = SignatureOf(k, tx[t])])
    BY <2>1 DEF IsObject
  <2> QED
    BY <2>2, <1>3, <1>9 DEF Sign
<1>10. ASSUME NEW t \in Tx, Publish(t)
       PROVE  /\ tx' = [h \in Holder |-> tx'[h]]
              /\ \A h \in Holder : IsObject(tx'[h])
              /\ wire' # Null => IsWire(wire')
  BY <1>0, <1>10, SerializeIsWire DEF Publish
<1>11. ASSUME NEW t \in Tx, NEW w \in Texts, Deserialize(t, w)
       PROVE  /\ tx' = [h \in Holder |-> tx'[h]]
              /\ \A h \in Holder : IsObject(tx'[h])
              /\ wire' # Null => IsWire(wire')
  <2> DEFINE c == [f \in Field |-> IF f \in Assigned(w) THEN Read(f, w) ELSE tx[t][f]]
  <2>1. /\ DOMAIN w \subseteq Field
        /\ "signature" \in DOMAIN w => w["signature"] \in {Junk, Null} \/ Signed(w["signature"])
    BY <1>0, TextsAreReadable
  <2>2. IsObject(tx[t])
    BY <1>0
  <2>3. IsObject(c)
    BY <2>1, <2>2, ReadIsObject
  <2>4. tx' = [tx EXCEPT ![t] = c] /\ wire' = wire
    BY <1>11 DEF Deserialize
  <2> HIDE DEF c
  <2> QED
    BY <2>3, <2>4, <1>3
<1> QED
  BY <1>1, <1>4, <1>5, <1>6, <1>7, <1>8, <1>9, <1>10, <1>11 DEF Next

(***************************************************************************)
(* In every reachable state the objects and the published text are well    *)
(* typed: the first two parts of TypeOK.                                   *)
(***************************************************************************)
THEOREM HonestAlways == Spec => [](ValuesOK /\ WireOK)
<1>1. Spec => []SignaturesHonest
  BY InitHonest, StepHonest, PTL DEF Spec
<1> QED
  BY <1>1, PTL DEF SignaturesHonest

(***************************************************************************)
(* verify() is true only of the content the sender's key signed, for every *)
(* number of objects, every field value and every codec that reads back    *)
(* what it writes.                                                         *)
(***************************************************************************)
THEOREM VerifiedContentTheorem == Spec => []VerifiedContentIsSigned
<1>1. ValuesOK => VerifiedContentIsSigned
  <2> SUFFICES ASSUME ValuesOK, NEW h \in Holder, Verifies(tx[h])
               PROVE  /\ tx[h]["signature"].of = Content(tx[h])
                      /\ tx[h]["signature"].key = PkOf[tx[h]["sender"]]
    BY DEF VerifiedContentIsSigned
  <2>1. IsObject(tx[h])
    BY ValuesAreObjects
  <2> QED
    BY <2>1, VerifiedIsSigned DEF Verifies
<1> QED
  BY <1>1, HonestAlways, PTL

-----------------------------------------------------------------------------
(* Sharing *)

\* What PeersOK says of one pointer f, for sharers P and values V.
Classes(P, V, f) ==
    \A h \in Holder : \A q \in P[h][f] :
        /\ q # h /\ h \in P[q][f]
        /\ V[h][f] # Null /\ V[q][f] = V[h][f]
        /\ \A r \in P[q][f] : r = h \/ r \in P[h][f]

SharersTyped(P) == P \in [Holder -> [Pointer -> SUBSET Holder]]

LEMMA PeersOKClasses ==
    PeersOK <=> SharersTyped(peers) /\ \A f \in Pointer : Classes(peers, tx, f)
BY DEF PeersOK, Classes, SharersTyped

(***************************************************************************)
(* A holder that gives some of its pointers new pointees leaves the        *)
(* others sharing as they did.                                             *)
(***************************************************************************)
LEMMA DetachKeepsClasses ==
    ASSUME ValuesOK, PeersOK, NEW h \in Holder, NEW F \in SUBSET Pointer, NEW c,
           \A f \in Pointer \ F : c[f] = tx[h][f]
    PROVE  /\ SharersTyped(Detach(h, F))
           /\ \A f \in Pointer : Classes(Detach(h, F), [tx EXCEPT ![h] = c], f)
<1> DEFINE P == Detach(h, F)
           V == [tx EXCEPT ![h] = c]
<1>1. /\ SharersTyped(peers)
      /\ \A f \in Pointer : Classes(peers, tx, f)
  BY PeersOKClasses
<1>2. SharersTyped(P)
  BY <1>1 DEF SharersTyped, Detach
<1>3. /\ V[h] = c
      /\ \A q \in Holder : q # h => V[q] = tx[q]
  BY DEF ValuesOK
<1>4. ASSUME NEW f \in Pointer, f \notin F
      PROVE  Classes(P, V, f)
  <2>1. \A q \in Holder : P[q][f] = peers[q][f] /\ V[q][f] = tx[q][f]
    BY <1>3, <1>4 DEF Detach
  <2> HIDE DEF P, V
  <2> QED
    BY <1>1, <2>1 DEF Classes, SharersTyped
<1>5. ASSUME NEW f \in Pointer, f \in F
      PROVE  Classes(P, V, f)
  <2>1. /\ P[h][f] = {}
        /\ \A q \in Holder : q # h => P[q][f] = peers[q][f] \ {h}
    BY <1>5 DEF Detach
  <2> HIDE DEF P, V
  <2> QED
    BY <1>1, <1>3, <2>1 DEF Classes, SharersTyped
<1> QED
  BY <1>2, <1>4, <1>5

(***************************************************************************)
(* A holder that copies the pointers of another joins its sharers.         *)
(***************************************************************************)
LEMMA JoinKeepsClasses ==
    ASSUME ValuesOK, PeersOK, NEW t \in Holder, NEW u \in Holder, t # u
    PROVE  /\ SharersTyped(Join(t, u, Pointer))
           /\ \A f \in Pointer :
                 Classes(Join(t, u, Pointer), [tx EXCEPT ![t] = tx[u]], f)
<1> DEFINE P == Join(t, u, Pointer)
           V == [tx EXCEPT ![t] = tx[u]]
           C(f) == (peers[u][f] \cup {u}) \ {t}
<1>1. /\ SharersTyped(peers)
      /\ \A f \in Pointer : Classes(peers, tx, f)
  BY PeersOKClasses
<1>2. SharersTyped(P)
  BY <1>1 DEF SharersTyped, Join
<1>3. /\ V[t] = tx[u]
      /\ \A q \in Holder : q # t => V[q] = tx[q]
  BY DEF ValuesOK
<1>4. ASSUME NEW f \in Pointer, tx[u][f] = Null
      PROVE  Classes(P, V, f)
  <2>1. /\ P[t][f] = {}
        /\ \A q \in Holder : q # t => P[q][f] = peers[q][f] \ {t}
    BY <1>4 DEF Join
  <2> HIDE DEF P, V
  <2> QED
    BY <1>1, <1>3, <2>1 DEF Classes, SharersTyped
<1>5. ASSUME NEW f \in Pointer, tx[u][f] # Null
      PROVE  Classes(P, V, f)
  <2>1. /\ P[t][f] = C(f)
        /\ \A q \in Holder : q # t /\ q \in C(f) => P[q][f] = peers[q][f] \cup {t}
        /\ \A q \in Holder : q # t /\ q \notin C(f) => P[q][f] = peers[q][f] \ {t}
    BY <1>5 DEF Join
  <2>2. \A q \in C(f) : q \in Holder /\ q # t /\ tx[q][f] = tx[u][f]
    BY <1>1, <1>5 DEF Classes, SharersTyped
  <2>3. \A q \in C(f) : \A r \in peers[q][f] : r = t \/ r \in C(f)
    BY <1>1 DEF Classes, SharersTyped
  <2>4. \A q \in C(f), r \in C(f) : q = r \/ r \in peers[q][f]
    BY <1>1 DEF Classes, SharersTyped
  <2>5. \A q \in Holder : \A r \in peers[q][f] : r \in C(f) => q = t \/ q \in C(f)
    BY <1>1 DEF Classes, SharersTyped
  <2> HIDE DEF P, V, C
  <2>6. ASSUME NEW q \in P[t][f]
        PROVE  /\ q # t /\ t \in P[q][f]
               /\ V[t][f] # Null /\ V[q][f] = V[t][f]
               /\ \A r \in P[q][f] : r = t \/ r \in P[t][f]
    BY <1>1, <1>3, <1>5, <2>1, <2>2, <2>3, <2>6
  <2>7. ASSUME NEW h \in Holder, h # t, h \in C(f), NEW q \in P[h][f]
        PROVE  /\ q # h /\ h \in P[q][f]
               /\ V[h][f] # Null /\ V[q][f] = V[h][f]
               /\ \A r \in P[q][f] : r = h \/ r \in P[h][f]
    <3>1. q = t \/ q \in C(f)
      BY <2>1, <2>3, <2>7
    <3>2. CASE q = t
      BY <1>3, <1>5, <2>1, <2>2, <2>4, <2>7, <3>2
    <3>3. CASE q # t
      <4>1. q \in peers[h][f] /\ q \in C(f) /\ q \in Holder
        BY <2>1, <2>2, <2>7, <3>1, <3>3
      <4>2. /\ q # h /\ h \in peers[q][f]
            /\ \A r \in peers[q][f] : r = h \/ r \in peers[h][f]
        BY <1>1, <4>1 DEF Classes
      <4> QED
        BY <1>3, <1>5, <2>1, <2>2, <2>7, <3>3, <4>1, <4>2
    <3> QED
      BY <3>2, <3>3
  <2>8. ASSUME NEW h \in Holder, h # t, h \notin C(f), NEW q \in P[h][f]
        PROVE  /\ q # h /\ h \in P[q][f]
               /\ V[h][f] # Null /\ V[q][f] = V[h][f]
               /\ \A r \in P[q][f] : r = h \/ r \in P[h][f]
    <3>1. q \in peers[h][f] /\ q # t /\ q \in Holder
      BY <1>1, <2>1, <2>8 DEF SharersTyped
    <3>2. q \notin C(f)
      BY <2>5, <2>8, <3>1
    <3>3. /\ q # h /\ h \in peers[q][f] /\ tx[h][f] # Null /\ tx[q][f] = tx[h][f]
          /\ \A r \in peers[q][f] : r = h \/ r \in peers[h][f]
      BY <1>1, <3>1 DEF Classes
    <3> QED
      BY <1>3, <2>1, <2>8, <3>1, <3>2, <3>3
  <2> QED
    BY <2>6, <2>7, <2>8 DEF Classes
<1> QED
  BY <1>2, <1>4, <1>5

(***************************************************************************)
(* A write through m_data changes what all sharers see.                    *)
(***************************************************************************)
LEMMA WriteDataKeepsPeers ==
    ASSUME ValuesOK, PeersOK, NEW t \in Tx, WriteData(t)
    PROVE  PeersOK'
<1>1. /\ SharersTyped(peers)
      /\ \A f \in Pointer : Classes(peers, tx, f)
  BY PeersOKClasses
<1>2. PICK v \in Written :
         tx' = [h \in Holder |-> IF h = t \/ h \in peers[t]["data"]
                                 THEN [tx[h] EXCEPT !["data"] = v] ELSE tx[h]]
  BY DEF WriteData
<1>3. v # Null
  BY <1>2, CodecAssumption
<1>4. peers' = peers
  BY DEF WriteData
<1>5. ASSUME NEW f \in Pointer, f # "data"
      PROVE  Classes(peers, tx', f)
  <2>1. \A h \in Holder : tx'[h][f] = tx[h][f]
    BY <1>2, <1>5 DEF ValuesOK
  <2> QED
    BY <1>1, <2>1 DEF Classes, SharersTyped
<1>6. Classes(peers, tx', "data")
  <2>1. \A h \in Holder : tx'[h]["data"] =
           IF h = t \/ h \in peers[t]["data"] THEN v ELSE tx[h]["data"]
    BY <1>2 DEF ValuesOK
  <2>2. Classes(peers, tx, "data")
    BY <1>1
  <2>3. \A h \in Holder : \A q \in peers[h]["data"] :
           (h = t \/ h \in peers[t]["data"]) <=> (q = t \/ q \in peers[t]["data"])
    BY <1>1, <2>2 DEF Classes, SharersTyped
  <2> QED
    BY <1>1, <1>3, <2>1, <2>2, <2>3 DEF Classes, SharersTyped
<1>7. \A f \in Pointer : Classes(peers', tx', f)
  BY <1>4, <1>5, <1>6
<1> QED
  BY <1>1, <1>4, <1>7 DEF PeersOK, Classes, SharersTyped

LEMMA StepPeers == ValuesOK /\ PeersOK /\ [Next]_vars => PeersOK'
<1> SUFFICES ASSUME ValuesOK, PeersOK, [Next]_vars PROVE PeersOK'
  OBVIOUS
<1>0. \A P, V : (SharersTyped(P) /\ \A f \in Pointer : Classes(P, V, f))
                   /\ peers' = P /\ tx' = V => PeersOK'
  BY DEF PeersOK, SharersTyped, Classes
\* One object changes, and leaves those it shared the pointers F with.
<1>1. ASSUME NEW t \in Tx, NEW F \in SUBSET Pointer, NEW c,
             tx' = [tx EXCEPT ![t] = c], peers' = Detach(t, F),
             \A f \in Pointer \ F : c[f] = tx[t][f]
      PROVE  PeersOK'
  BY <1>0, <1>1, DetachKeepsClasses
<1>2. CASE UNCHANGED vars
  BY <1>2 DEF vars, PeersOK
<1>3. ASSUME NEW t \in Tx, NEW f \in Field, Assign(t, f)
      PROVE  PeersOK'
  <2>1. PICK v \in Given[f] : tx' = [tx EXCEPT ![t] = [tx[t] EXCEPT ![f] = v]]
    BY <1>3 DEF Assign
  <2>2. \A g \in Pointer \ {f} : [tx[t] EXCEPT ![f] = v][g] = tx[t][g]
    BY DEF ValuesOK
  <2>3. CASE f \in Pointer
    BY <1>1, <1>3, <2>1, <2>2, <2>3 DEF Assign
  <2>4. CASE f \notin Pointer
    <3>1. peers' = Detach(t, {})
      BY <1>3, <2>4 DEF Assign, Detach, PeersOK
    <3>2. \A g \in Pointer \ {} : [tx[t] EXCEPT ![f] = v][g] = tx[t][g]
      BY <2>2, <2>4
    <3> QED
      BY <1>1, <2>1, <3>1, <3>2
  <2> QED
    BY <2>3, <2>4
<1>4. ASSUME NEW t \in Tx, WriteData(t)
      PROVE  PeersOK'
  BY <1>4, WriteDataKeepsPeers
<1>5. ASSUME NEW t \in Tx, NEW u \in Tx, Copy(t, u)
      PROVE  PeersOK'
  BY <1>0, <1>5, JoinKeepsClasses DEF Copy
<1>6. ASSUME NEW t \in Tx, Reset(t)
      PROVE  PeersOK'
  BY <1>1, <1>6 DEF Reset
<1>7. ASSUME NEW t \in Tx, NEW k \in Key, Sign(t, k)
      PROVE  PeersOK'
  <2> DEFINE c == [tx[t] EXCEPT !["signature"] = SignatureOf(k, tx[t])]
  <2>1. tx' = [tx EXCEPT ![t] = c] /\ peers' = Detach(t, {"signature"})
    BY <1>7 DEF Sign
  <2>2. \A f \in Pointer \ {"signature"} : c[f] = tx[t][f]
    BY DEF ValuesOK
  <2> HIDE DEF c
  <2> QED
    BY <1>1, <2>1, <2>2
<1>8. ASSUME NEW t \in Tx, Publish(t)
      PROVE  PeersOK'
  BY <1>8 DEF Publish, PeersOK
<1>9. ASSUME NEW t \in Tx, NEW w \in Texts, Deserialize(t, w)
      PROVE  PeersOK'
  <2> DEFINE c == [f \in Field |-> IF f \in Assigned(w) THEN Read(f, w) ELSE tx[t][f]]
             F == Pointer \cap Assigned(w)
  <2>1. tx' = [tx EXCEPT ![t] = c] /\ peers' = Detach(t, F)
    BY <1>9 DEF Deserialize
  <2>2. F \in SUBSET Pointer /\ \A f \in Pointer \ F : c[f] = tx[t][f]
    OBVIOUS
  <2> HIDE DEF c, F
  <2> QED
    BY <1>1, <2>1, <2>2
<1> QED
  BY <1>2, <1>3, <1>4, <1>5, <1>6, <1>7, <1>8, <1>9 DEF Next

(***************************************************************************)
(* Type correctness: values, signatures and the published text are well    *)
(* formed, and the sharers of every pointee form a class that agrees on it.*)
(***************************************************************************)
THEOREM TypeCorrect == Spec => []TypeOK
<1>1. Init => PeersOK
  BY DEF Init, PeersOK
<1>2. SignaturesHonest /\ PeersOK /\ [Next]_vars => (SignaturesHonest /\ PeersOK)'
  BY StepHonest, StepPeers DEF SignaturesHonest
<1>3. SignaturesHonest /\ PeersOK => TypeOK
  BY DEF SignaturesHonest, TypeOK
<1> QED
  BY InitHonest, <1>1, <1>2, <1>3, PTL DEF Spec

\* Null and Junk stand for something else than signatures.  (Bounding the
\* quantifiers would need the set of all messages; hence no ASSUME.)
SignaturesDistinct ==
    \A k, m, c : [key |-> k, msg |-> m, of |-> c] \notin {Null, Junk}

(***************************************************************************)
(* Signing with the sender's key makes an object verify, whatever it held, *)
(* provided Null and Junk are no signature terms.                          *)
(***************************************************************************)
THEOREM SignMakesVerifiableTheorem ==
    ASSUME SignaturesDistinct
    PROVE  Spec => SignMakesVerifiable
<1>1. ASSUME SignaturesHonest, NEW t \in Tx, NEW k \in Key, Sign(t, k),
             PkOf[tx[t]["sender"]] = k
      PROVE  Verifies(tx'[t])
  <2> DEFINE s == SignatureOf(k, tx[t])
             c == [tx[t] EXCEPT !["signature"] = s]
  <2>1. IsObject(tx[t]) /\ t \in DOMAIN tx
    BY <1>1, ValuesAreObjects DEF SignaturesHonest
  <2>2. tx'[t] = c
    BY <1>1, <2>1 DEF Sign
  <2>3. Message(c) = Message(tx[t])
    <3>1. WithoutSignature(c) = WithoutSignature(tx[t])
      BY <2>1 DEF WithoutSignature, IsObject
    <3>2. c["options"] = tx[t]["options"] /\ c["version"] = tx[t]["version"]
      BY <2>1 DEF IsObject
    <3> QED
      BY <3>1, <3>2 DEF Message, ShouldSignHash
  <2>4. Serializable(c) /\ c["sender"] = tx[t]["sender"]
    BY <1>1, <2>1 DEF Sign, Serializable, IsObject
  <2>5. c["signature"] = s
    BY <2>1 DEF IsObject
  <2>6. s \notin {Null, Junk}
    BY DEF SignatureOf, SignaturesDistinct
  <2> QED
    BY <1>1, <2>2, <2>3, <2>4, <2>5, <2>6 DEF Verifies, SignatureOf
<1>2. SignaturesHonest /\ [Next]_vars =>
        [\A t \in Tx, k \in Key :
            Sign(t, k) /\ PkOf[tx[t]["sender"]] = k => Verifies(tx[t])']_vars
  BY <1>1
<1> QED
  BY <1>2, InitHonest, StepHonest, PTL DEF Spec, SignMakesVerifiable

(***************************************************************************)
(* No step but a write through m_data changes two objects.                 *)
(***************************************************************************)
THEOREM OthersUntouchedTheorem == Spec => OthersUntouched
<1> DEFINE One == \A h, q \in Holder : tx'[h] # tx[h] /\ tx'[q] # tx[q] => h = q
<1>1. ASSUME ValuesOK, Next
      PROVE  (\E t \in Tx : WriteData(t)) \/ One
  <2>1. ASSUME NEW t \in Tx, NEW c, tx' = [tx EXCEPT ![t] = c]
        PROVE  One
    BY <1>1, <2>1 DEF ValuesOK
  <2>2. ASSUME NEW t \in Tx, NEW f \in Field, Assign(t, f)
        PROVE  One
    <3>1. PICK v \in Given[f] : tx' = [tx EXCEPT ![t] = [tx[t] EXCEPT ![f] = v]]
      BY <2>2 DEF Assign
    <3> QED
      BY <2>1, <3>1
  <2>3. ASSUME NEW t \in Tx, NEW u \in Tx, Copy(t, u)
        PROVE  One
    BY <2>1, <2>3 DEF Copy
  <2>4. ASSUME NEW t \in Tx, Reset(t)
        PROVE  One
    BY <2>1, <2>4 DEF Reset
  <2>5. ASSUME NEW t \in Tx, NEW k \in Key, Sign(t, k)
        PROVE  One
    BY <2>1, <2>5 DEF Sign
  <2>6. ASSUME NEW t \in Tx, Publish(t)
        PROVE  One
    BY <2>6 DEF Publish
  <2>7. ASSUME NEW t \in Tx, NEW w \in Texts, Deserialize(t, w)
        PROVE  One
    <3> DEFINE c == [f \in Field |-> IF f \in Assigned(w) THEN Read(f, w) ELSE tx[t][f]]
    <3>1. tx' = [tx EXCEPT ![t] = c]
      BY <2>7 DEF Deserialize
    <3> HIDE DEF c
    <3> QED
      BY <2>1, <3>1
  <2> QED
    BY <1>1, <2>2, <2>3, <2>4, <2>5, <2>6, <2>7 DEF Next
<1>2. SignaturesHonest /\ [Next]_vars =>
        [(\E t \in Tx : WriteData(t)) \/
         \A h, q \in Holder : tx[h]' # tx[h] /\ tx[q]' # tx[q] => h = q]_vars
  BY <1>1 DEF SignaturesHonest
<1> QED
  BY <1>2, InitHonest, StepHonest, PTL DEF Spec, OthersUntouched

(***************************************************************************)
(* A published text has no signature key that stands for a null pointer.   *)
(***************************************************************************)
WireSigned ==
    wire # Null /\ "signature" \in DOMAIN wire => wire["signature"] # Null

LEMMA StepWireSigned == WireSigned /\ [Next]_vars => WireSigned'
<1> SUFFICES ASSUME WireSigned, [Next]_vars
             PROVE  WireSigned'
  OBVIOUS
<1>1. CASE wire' = wire
  BY <1>1 DEF WireSigned
<1>2. ASSUME NEW t \in Tx, wire' = Serialize(tx[t])
      PROVE  WireSigned'
  <2>1. /\ DOMAIN wire' = {f \in Field : tx[t][f] # Null}
        /\ \A f \in DOMAIN wire' : wire'[f] = EncodeField(f, tx[t][f])
    BY <1>2 DEF Serialize
  <2> QED
    BY <2>1 DEF WireSigned, EncodeField
<1>3. wire' = wire \/ \E t \in Tx : wire' = Serialize(tx[t])
  BY DEF Next, vars, Assign, WriteData, Copy, Reset, Sign, Publish, Deserialize
<1> QED
  BY <1>1, <1>2, <1>3

(***************************************************************************)
(* An object that a whole published text was read into serializes to that  *)
(* text, and to keys of optional fields that it held before.               *)
(***************************************************************************)
LEMMA ReadsBack ==
    ASSUME NEW w, IsWire(w), "signature" \in DOMAIN w => w["signature"] # Null,
           NEW c,
           NEW d, d = [f \in Field |-> IF f \in Assigned(w) THEN Read(f, w) ELSE c[f]]
    PROVE  /\ \A f \in DOMAIN w : f \in DOMAIN Serialize(d) /\ Serialize(d)[f] = w[f]
           /\ \A f \in DOMAIN Serialize(d) \ DOMAIN w : c[f] # Null
<1>1. /\ DOMAIN w \subseteq Field
      /\ DOMAIN Serialize(d) = {f \in Field : d[f] # Null}
      /\ \A f \in DOMAIN Serialize(d) : Serialize(d)[f] = EncodeField(f, d[f])
  BY DEF IsWire, Serialize
<1>2. ASSUME NEW f \in DOMAIN w, f # "signature"
      PROVE  /\ w[f] \in DOMAIN Decode[f] /\ Decode[f][w[f]] # Null
             /\ Encode[f][Decode[f][w[f]]] = w[f]
  <2>1. f \in Covered
    BY <1>1, <1>2
  <2>2. PICK v \in Val[f] : w[f] = Encode[f][v]
    BY <1>2 DEF IsWire
  <2> QED
    BY <2>1, <2>2, CodecAssumption
<1>3. Assigned(w) = DOMAIN w
  <2>1. {g \in DOMAIN w : ~Readable(g, w)} = {}
    BY <1>2 DEF Readable
  <2> QED
    BY <2>1 DEF Assigned
<1>4. ASSUME NEW f \in DOMAIN w
      PROVE  d[f] # Null /\ EncodeField(f, d[f]) = w[f]
  <2>1. d[f] = Read(f, w)
    BY <1>1, <1>3
  <2>2. CASE f = "signature"
    BY <2>1, <2>2 DEF Read, EncodeField
  <2>3. CASE f # "signature"
    BY <2>1, <2>3, <1>2 DEF Read, EncodeField
  <2> QED
    BY <2>2, <2>3
<1>5. ASSUME NEW f \in DOMAIN Serialize(d) \ DOMAIN w
      PROVE  c[f] # Null
  BY <1>1, <1>3
<1> QED
  BY <1>1, <1>4, <1>5

(***************************************************************************)
(* Reading a published text gives every key of it back, for every codec    *)
(* that reads back what it writes and whatever the object held before.     *)
(***************************************************************************)
THEOREM PublishedTextReadsBackTheorem == Spec => PublishedTextReadsBack
<1>1. ASSUME SignaturesHonest, WireSigned, NEW t \in Tx, wire # Null,
             Deserialize(t, wire)
      PROVE  LET again == Serialize(tx'[t])
             IN /\ \A f \in DOMAIN wire : f \in DOMAIN again /\ again[f] = wire[f]
                /\ \A f \in DOMAIN again \ DOMAIN wire : tx[t][f] # Null
  <2> DEFINE d == [f \in Field |-> IF f \in Assigned(wire) THEN Read(f, wire)
                                   ELSE tx[t][f]]
  <2>1. tx' = [tx EXCEPT ![t] = d] /\ t \in DOMAIN tx
    BY <1>1, ValuesAreObjects DEF Deserialize, SignaturesHonest
  <2>2. IsWire(wire) /\ ("signature" \in DOMAIN wire => wire["signature"] # Null)
    BY <1>1, WireOKIsWire DEF SignaturesHonest, WireSigned
  <2>3. /\ \A f \in DOMAIN wire : f \in DOMAIN Serialize(d) /\ Serialize(d)[f] = wire[f]
        /\ \A f \in DOMAIN Serialize(d) \ DOMAIN wire : tx[t][f] # Null
    BY <2>2, ReadsBack
  <2>4. tx'[t] = d
    <3> HIDE DEF d
    <3> QED
      BY <2>1
  <2> HIDE DEF d
  <2> QED
    BY <2>3, <2>4
<1>2. SignaturesHonest /\ WireSigned /\ [Next]_vars =>
        [\A t \in Tx :
            wire # Null /\ Deserialize(t, wire) =>
                LET again == Serialize(tx[t])'
                IN /\ \A f \in DOMAIN wire : f \in DOMAIN again /\ again[f] = wire[f]
                   /\ \A f \in DOMAIN again \ DOMAIN wire : tx[t][f] # Null]_vars
  BY <1>1
<1>3. Init => WireSigned
  BY DEF Init, WireSigned
<1> QED
  BY <1>2, <1>3, InitHonest, StepHonest, StepWireSigned, PTL
  DEF Spec, PublishedTextReadsBack

-----------------------------------------------------------------------------
(* TransactionBuilders *)

\* The objects are there, and a builder has one of the factory's inputs.
BuilderInv ==
    /\ tx = [h \in Holder |-> tx[h]]
    /\ input \in [Builder -> Inputs \cup {Null}]
    /\ call \in [Builder -> Calls]

(***************************************************************************)
(* Every call keeps it.                                                    *)
(***************************************************************************)
LEMMA StepBuilderInv == BuilderInv /\ [BuildNext]_buildVars => BuilderInv'
<1> SUFFICES ASSUME BuilderInv, [BuildNext]_buildVars
             PROVE  BuilderInv'
  OBVIOUS
<1> USE DEF BuilderInv
<1>1. CASE UNCHANGED buildVars
  BY <1>1 DEF buildVars
<1>2. CASE UseTransactions
  <2>1. tx' = [h \in Holder |-> tx'[h]]
    BY <1>2 DEF UseTransactions, WriteData, Copy, Reset, Sign
  <2> QED
    BY <1>2, <2>1 DEF UseTransactions
<1>3. ASSUME NEW b \in Builder, Create(b)
      PROVE  BuilderInv'
  BY <1>3, InputsAssumption DEF Create
<1>4. ASSUME NEW b \in Builder, NEW v, WithVersion(b, v) \/ WithOptions(b, v)
      PROVE  BuilderInv'
  BY <1>4 DEF WithVersion, WithOptions
<1>5. ASSUME NEW b \in Builder, NEW c \in Calls, WithContractCall(b, c)
      PROVE  BuilderInv'
  BY <1>5 DEF WithContractCall
<1>6. ASSUME NEW b \in Builder, NEW t \in Tx, NEW k,
             Build(b, t) \/ BuildSigned(b, t, k)
      PROVE  BuilderInv'
  BY <1>6 DEF Build, BuildSigned
<1> QED
  BY <1>1, <1>2, <1>3, <1>4, <1>5, <1>6 DEF BuildNext

LEMMA BuilderInvAlways == BuildSpec => []BuilderInv
<1>1. BuildInit => BuilderInv
  BY InputsAssumption DEF BuildInit, Init, BuilderInv
<1> QED
  BY <1>1, StepBuilderInv, PTL DEF BuildSpec

-----------------------------------------------------------------------------
(* What is built *)

(***************************************************************************)
(* The fields of what a builder builds, one by one.                        *)
(***************************************************************************)
LEMMA BuiltFields ==
    ASSUME NEW b
    PROVE  /\ Built(b) = [f \in Field |-> Built(b)[f]]
           /\ Built(b)["sender"] = input[b]["sender"]
           /\ Built(b)["receiver"] = Receiver(b)
           /\ Built(b)["gasLimit"] = GasLimit(b)
           /\ Built(b)["data"] = Data(b)
           /\ \A f \in {"version", "options"} : Built(b)[f] = tx[b][f]
           /\ Built(b)["signature"] = Null
<1>1. Built(b) = [f \in Field |-> Built(b)[f]]
  BY DEF Built
<1>2. Built(b)["sender"] = input[b]["sender"]
  BY DEF Built
<1>3. Built(b)["receiver"] = Receiver(b)
  BY DEF Built
<1>4. Built(b)["gasLimit"] = GasLimit(b)
  BY DEF Built
<1>5. Built(b)["data"] = Data(b)
  BY DEF Built
<1>6. \A f \in {"version", "options"} : Built(b)[f] = tx[b][f]
  BY DEF Built
<1>7. Built(b)["signature"] = Null
  BY DEF Built
<1> QED
  BY <1>1, <1>2, <1>3, <1>4, <1>5, <1>6, <1>7

(***************************************************************************)
(* An object that is what a builder builds, but for its signature, has     *)
(* the other fields of it.                                                 *)
(***************************************************************************)
LEMMA BuildsFields ==
    ASSUME NEW b, NEW t, Builds(b, t), NEW f \in Covered
    PROVE  tx'[t][f] = Built(b)[f]
<1>1. [tx'[t] EXCEPT !["signature"] = Null] = Built(b)
  BY DEF Builds, WithoutSignature
<1>2. Field = DOMAIN Built(b)
  BY BuiltFields
<1>3. DOMAIN tx'[t] = DOMAIN [tx'[t] EXCEPT !["signature"] = Null]
  OBVIOUS
<1>4. f \in DOMAIN tx'[t] /\ f # "signature"
  BY <1>1, <1>2, <1>3
<1> QED
  BY <1>1, <1>4

(***************************************************************************)
(* Whatever the kind of builder, what it builds delivers to the receiver   *)
(* of its input, is sent by its sender and has the version and the options *)
(* that were set last.                                                     *)
(***************************************************************************)
THEOREM BuiltAsOrderedTheorem == BuildSpec => BuiltAsOrdered
<1>1. ASSUME BuilderInv, NEW b \in Builder, NEW t \in Tx, Builds(b, t)
      PROVE  /\ DeliversTo(tx'[t], input[b].receiver)
             /\ tx'[t]["sender"] = input[b].sender
             /\ \A f \in {"version", "options"} : tx'[t][f] = tx[b][f]
  <2> DEFINE i == input[b]
             c == tx'[t]
  <2>1. i \in Inputs /\ call[b] \in Calls
    BY <1>1 DEF BuilderInv, Builds
  <2>2. /\ i.kind \in {"EGLD", "ESDT"} \cup SelfTransfer
        /\ i.receiver \in Val["receiver"]
    BY <2>1, InputsAssumption
  <2>3. /\ c["sender"] = i.sender
        /\ c["receiver"] = Receiver(b)
        /\ c["data"] = Data(b)
        /\ \A f \in {"version", "options"} : c[f] = tx[b][f]
    BY <1>1, BuildsFields, BuiltFields
  <2>4. CASE i.kind \in SelfTransfer
    <3>1. c["data"] = Payload[i.kind][i.receiver][call[b]]
      BY <2>3, <2>4 DEF Data, SelfTransfer
    <3>2. \A k \in SelfTransfer, e \in Val["receiver"], m \in Calls :
             Payload[k][e][m] = c["data"] => e = i.receiver
      BY <2>1, <2>2, <2>4, <3>1, PayloadAssumption
    <3>3. Named(c) = {i.receiver}
      BY <2>1, <2>2, <2>4, <3>1, <3>2 DEF Named
    <3>4. c["receiver"] = c["sender"]
      BY <2>3, <2>4 DEF Receiver
    <3> QED
      BY <2>3, <3>3, <3>4 DEF DeliversTo
  <2>5. CASE i.kind \notin SelfTransfer
    <3>3. Named(c) = {}
      <4>1. ASSUME NEW k \in SelfTransfer, NEW e \in Val["receiver"], NEW m \in Calls,
                   c["data"] = Payload[k][e][m]
            PROVE  FALSE
        <5>1. CASE i.kind = "EGLD"
          <6>1. c["data"] = i.data
            BY <2>3, <5>1 DEF Data
          <6> QED
            BY <2>1, <4>1, <5>1, <6>1, PayloadAssumption
        <5>2. CASE i.kind = "ESDT"
          <6>1. c["data"] = Payload["ESDT"][i.receiver][call[b]]
            BY <2>3, <2>5, <5>2 DEF Data
          <6>2. \A d \in Val["receiver"], l \in Calls :
                   Payload["ESDT"][d][l] # Payload[k][e][m]
            BY <4>1, PayloadAssumption
          <6>3. Payload["ESDT"][i.receiver][call[b]] # Payload[k][e][m]
            BY <2>1, <2>2, <6>2
          <6> QED
            BY <4>1, <6>1, <6>3
        <5> QED
          BY <2>2, <2>5, <5>1, <5>2
      <4> QED
        BY <4>1 DEF Named
    <3>4. c["receiver"] = i.receiver
      BY <2>3, <2>5 DEF Receiver
    <3> QED
      BY <2>3, <3>3, <3>4 DEF DeliversTo
  <2> QED
    BY <2>4, <2>5
<1>2. ASSUME [BuildNext]_buildVars, NEW b \in Builder, input[b] # Null, BuilderInv
      PROVE  input'[b] = input[b]
  <2>1. CASE UNCHANGED buildVars
    BY <2>1 DEF buildVars
  <2>2. CASE UseTransactions
    BY <2>2 DEF UseTransactions
  <2>3. ASSUME NEW b2 \in Builder, Create(b2)
        PROVE  input'[b] = input[b]
    BY <1>2, <2>3 DEF Create, BuilderInv
  <2>4. ASSUME BuildNext, ~UseTransactions, ~ \E b3 \in Builder : Create(b3)
        PROVE  input' = input
    BY <2>4 DEF BuildNext, WithVersion, WithOptions, WithContractCall, Build, BuildSigned
  <2> QED
    BY <1>2, <2>1, <2>2, <2>3, <2>4
<1>3. BuilderInv /\ [BuildNext]_buildVars =>
        [\A b \in Builder, t \in Tx : Builds(b, t) =>
            /\ DeliversTo(tx[t], input[b].receiver)'
            /\ tx[t]["sender"]' = input[b].sender
            /\ \A f \in {"version", "options"} : tx[t][f]' = tx[b][f]]_buildVars
  <2> SUFFICES ASSUME BuilderInv, [BuildNext]_buildVars,
                      NEW b \in Builder, NEW t \in Tx, Builds(b, t)
               PROVE  /\ DeliversTo(tx[t], input[b].receiver)'
                      /\ tx[t]["sender"]' = input[b].sender
                      /\ \A f \in {"version", "options"} : tx[t][f]' = tx[b][f]
    OBVIOUS
  <2>1. input'[b] = input[b]
    BY <1>2 DEF Builds
  <2>2. DeliversTo(tx'[t], input[b].receiver)
    BY <1>1
  <2>3. DeliversTo(tx[t], input[b].receiver)'
    BY <2>1, <2>2 DEF DeliversTo, Named
  <2> QED
    BY <1>1, <2>3
<1> QED
  BY <1>3, BuilderInvAlways, PTL DEF BuildSpec, BuiltAsOrdered

\* The prices of the network and the sizes of the payloads are such that no
\* sum of the estimates leaves its width.
BuildsInRange ==
    /\ Network \in NetworkConfig
    /\ \A i \in Inputs : i.transfers \in Nat
    /\ \A i \in Inputs :
          \A data \in IF i.kind = "EGLD" THEN {i.data}
                      ELSE {Payload[i.kind][i.receiver][l] : l \in Calls} :
              /\ Length(data) \in Nat
              /\ InRange(Network, Length(data), i.transfers)

(***************************************************************************)
(* As long as no sum leaves its width, an estimated gas limit pays for all *)
(* bytes of the transaction, those of the contract call included.          *)
(***************************************************************************)
THEOREM GasPaysForDataTheorem ==
    ASSUME BuildsInRange
    PROVE  BuildSpec => GasPaysForData
<1>1. ASSUME BuilderInv, NEW b \in Builder, NEW t \in Tx, Builds(b, t),
             input[b].kind = "EGLD" => input[b].gasLimit = 0
      PROVE  tx'[t]["gasLimit"] >= MoveBalanceGas(Network, Length(tx'[t]["data"]))
  <2> DEFINE i == input[b]
             length == Length(Data(b))
  <2>1. i \in Inputs /\ call[b] \in Calls
    BY <1>1 DEF BuilderInv, Builds
  <2>2. i.kind \in {"EGLD", "ESDT"} \cup SelfTransfer
    BY <2>1, InputsAssumption
  <2>3. tx'[t]["gasLimit"] = Estimate(i, length) /\ tx'[t]["data"] = Data(b)
    BY <1>1, BuildsFields, BuiltFields DEF GasLimit
  <2>4. length \in Nat /\ i.transfers \in Nat /\ InRange(Network, length, i.transfers)
    BY <2>1 DEF BuildsInRange, Data
  <2> HIDE DEF i, length
  <2>5. Covers(Network, length, i.transfers)
    BY <2>4, EstimatesCover DEF BuildsInRange
  <2> DEFINE move == MoveBalanceGas(Network, length)
             more == CostTransfer * i.transfers
  <2>6. move \in Nat /\ more \in Nat /\ CostTransfer \in Nat
    <3>1. Network.minGasLimit \in Nat /\ Network.gasPerDataByte \in Nat
      BY GasAssumption DEF BuildsInRange, NetworkConfig
    <3> QED
      BY <2>4, <3>1, GasAssumption DEF MoveBalanceGas
  <2>7. Estimate(i, length) >= move
    <3> DEFINE egld == forEGLDTransfer(Network, length)
               esdt == forESDTTransfer(Network, length)
               nft == forESDTNFTTransfer(Network, length)
               multi == forMultiESDTNFTTransfer(Network, length, i.transfers)
    <3>1. /\ egld >= move /\ esdt >= move + CostTransfer
          /\ nft >= move + CostTransfer /\ multi >= move + more
      BY <2>5 DEF Covers
    <3>2. egld \in Nat /\ esdt \in Nat /\ nft \in Nat /\ multi \in Nat
      <4>1. \A n \in Nat : Wrap64(n) \in Nat /\ Wrap32(n) \in Nat
        BY GasAssumption DEF Wrap64, Wrap32
      <4>2. /\ Network.minGasLimit \in Nat /\ Network.gasPerDataByte \in Nat
            /\ CostTransfer \in Nat /\ ExtraESDT \in Nat /\ ExtraNFT \in Nat
        BY GasAssumption DEF BuildsInRange, NetworkConfig
      <4>3. DataGas(Network, length) \in Nat
        BY <2>4, <4>1, <4>2 DEF DataGas
      <4>4. Wrap32(Network.minGasLimit + CostTransfer) \in Nat
        BY <4>1, <4>2
      <4>5. Wrap64((CostTransfer + ExtraNFT) * i.transfers) \in Nat
        BY <2>4, <4>1, <4>2
      <4> QED
        BY <4>1, <4>2, <4>3, <4>4, <4>5
           DEF forEGLDTransfer, forESDTTransfer, forESDTNFTTransfer, forMultiESDTNFTTransfer
    <3>3. Estimate(i, length) \in {egld, esdt, nft, multi}
      BY DEF Estimate
    <3> HIDE DEF egld, esdt, nft, multi, move, more
    <3> QED
      BY <2>6, <3>1, <3>2, <3>3
  <2> QED
    BY <2>3, <2>7 DEF length
<1>2. BuilderInv /\ [BuildNext]_buildVars =>
        [\A b \in Builder, t \in Tx :
            Builds(b, t) /\ (input[b].kind = "EGLD" => input[b].gasLimit = 0) =>
                tx[t]["gasLimit"]' >=
                    MoveBalanceGas(Network, Length(tx[t]["data"]'))]_buildVars
  BY <1>1
<1> QED
  BY <1>2, BuilderInvAlways, PTL DEF BuildSpec, GasPaysForData

(***************************************************************************)
(* buildSigned() with the seed of the sender gives a transaction that      *)
(* verifies, provided Null and Junk are no signature terms.                *)
(***************************************************************************)
THEOREM BuildSignedVerifiesTheorem ==
    ASSUME SignaturesDistinct
    PROVE  BuildSpec => BuildSignedVerifies
<1>1. ASSUME BuilderInv, NEW b \in Builder, NEW t \in Tx, NEW k \in Key,
             BuildSigned(b, t, k), k = PkOf[input[b].sender]
      PROVE  Verifies(tx'[t])
  <2> DEFINE u == Built(b)
             s == SignatureOf(k, u)
             c == [u EXCEPT !["signature"] = s]
  <2>1. tx'[t] = c /\ input[b] \in Inputs
    BY <1>1 DEF BuildSigned, BuilderInv
  <2>2. /\ u = [f \in Field |-> u[f]]
        /\ u["sender"] = input[b].sender /\ u["receiver"] = Receiver(b)
    BY BuiltFields
  <2>3. u["sender"] # Null /\ u["receiver"] # Null
    BY <2>1, <2>2, InputsAssumption, CodecAssumption DEF Receiver
  <2> HIDE DEF u
  <2>4. Message(c) = Message(u)
    <3>1. WithoutSignature(c) = WithoutSignature(u)
      BY <2>2 DEF WithoutSignature
    <3>2. c["options"] = u["options"] /\ c["version"] = u["version"]
      BY <2>2
    <3> QED
      BY <3>1, <3>2 DEF Message, ShouldSignHash
  <2>5. Serializable(c) /\ c["sender"] = u["sender"] /\ c["signature"] = s
    BY <2>2, <2>3 DEF Serializable
  <2>6. s \notin {Null, Junk}
    BY DEF SignatureOf, SignaturesDistinct
  <2> QED
    BY <1>1, <2>1, <2>2, <2>4, <2>5, <2>6 DEF Verifies, SignatureOf
<1>2. BuilderInv /\ [BuildNext]_buildVars =>
        [\A b \in Builder, t \in Tx, k \in Key :
            BuildSigned(b, t, k) /\ k = PkOf[input[b].sender] => Verifies(tx[t])']_buildVars
  BY <1>1
<1> QED
  BY <1>2, BuilderInvAlways, PTL DEF BuildSpec, BuildSignedVerifies

(***************************************************************************)
(* No step of the program but a write through m_data changes two objects:  *)
(* a builder can be set and used again without reaching what it has built. *)
(***************************************************************************)
THEOREM BuiltUntouchedTheorem == BuildSpec => BuiltUntouched
<1> DEFINE One == \A h, q \in Holder : tx'[h] # tx[h] /\ tx'[q] # tx[q] => h = q
<1>1. ASSUME BuilderInv, BuildNext
      PROVE  (\E t \in Tx : WriteData(t)) \/ One
  <2>1. ASSUME NEW h \in Holder, NEW c, tx' = [tx EXCEPT ![h] = c]
        PROVE  One
    BY <1>1, <2>1 DEF BuilderInv
  <2>2. CASE UseTransactions
    <3>1. ASSUME NEW t \in Tx, (\E u \in Tx : Copy(t, u)) \/ Reset(t)
          PROVE  One
      BY <2>1, <3>1 DEF Copy, Reset
    <3>2. ASSUME NEW t \in Tx, NEW k \in Key, Sign(t, k)
          PROVE  One
      <4>1. tx' = [tx EXCEPT ![t] = [tx[t] EXCEPT !["signature"] = SignatureOf(k, tx[t])]]
        BY <3>2 DEF Sign
      <4> QED
        BY <2>1, <4>1
    <3> QED
      BY <2>2, <3>1, <3>2 DEF UseTransactions
  <2>3. ASSUME NEW b \in Builder, Create(b)
        PROVE  One
    BY <2>1, <2>3 DEF Create
  <2>4. ASSUME NEW b \in Builder, NEW v, WithVersion(b, v) \/ WithOptions(b, v)
        PROVE  One
    <3>1. \/ tx' = [tx EXCEPT ![b] = [tx[b] EXCEPT !["version"] = v]]
          \/ tx' = [tx EXCEPT ![b] = [tx[b] EXCEPT !["options"] = v]]
      BY <2>4 DEF WithVersion, WithOptions
    <3> QED
      BY <2>1, <3>1
  <2>5. ASSUME NEW b \in Builder, NEW c \in Calls, WithContractCall(b, c)
        PROVE  One
    BY <2>5 DEF WithContractCall
  <2>6. ASSUME NEW b \in Builder, NEW t \in Tx, NEW k,
               Build(b, t) \/ BuildSigned(b, t, k)
        PROVE  One
    BY <2>1, <2>6 DEF Build, BuildSigned
  <2> QED
    BY <1>1, <2>2, <2>3, <2>4, <2>5, <2>6 DEF BuildNext
<1>2. BuilderInv /\ [BuildNext]_buildVars =>
        [(\E t \in Tx : WriteData(t)) \/
         \A h, q \in Holder : tx[h]' # tx[h] /\ tx[q]' # tx[q] => h = q]_buildVars
  BY <1>1
<1> QED
  BY <1>2, BuilderInvAlways, PTL DEF BuildSpec, BuiltUntouched

-----------------------------------------------------------------------------
(* Objects and builders together *)

(***************************************************************************)
(* What a builder builds is a well typed object with both addresses.       *)
(***************************************************************************)
LEMMA BuiltIsObject ==
    ASSUME BuilderInv, NEW b \in Builder, input[b] # Null, IsObject(tx[b])
    PROVE  IsObject(Built(b)) /\ Serializable(Built(b))
<1> DEFINE i == input[b]
           u == Built(b)
<1>1. i \in Inputs /\ call[b] \in Calls
  BY DEF BuilderInv
<1>2. /\ i.kind \in {"EGLD", "ESDT"} \cup SelfTransfer
      /\ i.sender \in Val["sender"] /\ i.receiver \in Val["receiver"]
  BY <1>1, InputsAssumption
<1>3. Data(b) \in Val["data"] \cup {Null}
  <2>1. CASE i.kind = "EGLD"
    BY <1>1, <2>1, BuiltAssumption DEF Data
  <2>2. CASE i.kind # "EGLD"
    <3>1. Data(b) = Payload[i.kind][i.receiver][call[b]]
      BY <2>2 DEF Data
    <3>2. i.kind \in {"ESDT"} \cup SelfTransfer
      BY <1>2, <2>2
    <3> QED
      BY <1>1, <1>2, <3>1, <3>2, BuiltAssumption
  <2> QED
    BY <2>1, <2>2
<1>4. GasLimit(b) \in Val["gasLimit"]
  <2>1. CASE i.kind = "EGLD" /\ i.gasLimit # 0
    BY <1>1, <2>1, BuiltAssumption DEF GasLimit
  <2>2. CASE ~(i.kind = "EGLD" /\ i.gasLimit # 0)
    <3>1. GasLimit(b) = Estimate(i, Length(Data(b)))
      BY <2>2 DEF GasLimit
    <3> QED
      BY <1>1, <1>3, <3>1, BuiltAssumption
  <2> QED
    BY <2>1, <2>2
<1>5. Receiver(b) \in Val["receiver"]
  BY <1>1, <1>2, BuiltAssumption DEF Receiver
<1>6. /\ u = [f \in Field |-> u[f]]
      /\ u["sender"] = i.sender /\ u["receiver"] = Receiver(b)
      /\ u["gasLimit"] = GasLimit(b) /\ u["data"] = Data(b)
      /\ \A f \in {"version", "options"} : u[f] = tx[b][f]
      /\ u["signature"] = Null
  BY BuiltFields
<1>7. /\ \A f \in {"nonce", "gasPrice", "chainID"} : u[f] = i[f]
      /\ u["value"] = IF i.kind = "EGLD" THEN i.value ELSE 0
      /\ \A f \in {"receiverUsername", "senderUsername"} : u[f] = Null
  BY DEF Built
<1>8. u["value"] \in Val["value"]
  <2>1. Default["value"] = 0
    BY DEF Default
  <2>2. 0 \in Val["value"]
    BY <2>1, DefaultAssumption
  <2> QED
    BY <1>1, <1>7, <2>2, BuiltAssumption
<1> HIDE DEF u
<1>9. ASSUME NEW f \in Covered
      PROVE  Fits(f, u[f])
  <2>1. CASE f \in {"nonce", "gasPrice", "chainID"}
    BY <1>1, <1>7, <2>1, BuiltAssumption DEF Fits
  <2>2. CASE f \in {"version", "options"}
    BY <1>6, <2>2 DEF Fits, IsObject
  <2>3. CASE f \in {"receiverUsername", "senderUsername"}
    BY <1>7, <2>3 DEF Fits
  <2>4. CASE f \in {"value", "receiver", "sender", "gasLimit", "data"}
    BY <1>2, <1>3, <1>4, <1>5, <1>6, <1>8, <2>4 DEF Fits
  <2> QED
    BY <2>1, <2>2, <2>3, <2>4
<1>10. IsObject(u)
  BY <1>6, <1>9 DEF IsObject
<1>11. Serializable(u)
  BY <1>2, <1>5, <1>6, CodecAssumption DEF Serializable
<1> QED
  BY <1>10, <1>11 DEF u

(***************************************************************************)
(* What the program does with the transactions is what it may do without   *)
(* builders.                                                               *)
(***************************************************************************)
LEMMA UseIsNext == UseTransactions => Next
BY DEF UseTransactions, Next

(***************************************************************************)
(* Builders and factory keep objects and signatures well typed.            *)
(***************************************************************************)
LEMMA BuildHonest ==
    ASSUME BuilderInv, SignaturesHonest, [BuildNext]_buildVars
    PROVE  SignaturesHonest'
<1>1. /\ ValuesOK /\ WireOK
      /\ tx = [h \in Holder |-> tx[h]]
      /\ \A h \in Holder : IsObject(tx[h])
  BY ValuesAreObjects DEF SignaturesHonest
\* One object changes, into a well typed one.
<1>2. ASSUME NEW h \in Holder, NEW c, IsObject(c), tx' = [tx EXCEPT ![h] = c], wire' = wire
      PROVE  SignaturesHonest'
  <2>1. tx' = [q \in Holder |-> tx'[q]] /\ \A q \in Holder : IsObject(tx'[q])
    BY <1>1, <1>2
  <2>2. ValuesOK'
    BY <2>1 DEF ValuesOK, IsObject
  <2>3. WireOK'
    BY <1>1, <1>2 DEF WireOK
  <2> QED
    BY <2>2, <2>3 DEF SignaturesHonest
<1>3. CASE UNCHANGED vars
  BY <1>3, StepHonest
<1>4. CASE UseTransactions
  BY <1>4, UseIsNext, StepHonest
<1>5. ASSUME NEW b \in Builder, Create(b)
      PROVE  SignaturesHonest'
  BY <1>2, <1>5, DefaultIsObject DEF Create
<1>6. ASSUME NEW b \in Builder, NEW v \in Val["version"], WithVersion(b, v)
      PROVE  SignaturesHonest'
  <2> DEFINE c == [tx[b] EXCEPT !["version"] = v]
  <2>1. IsObject(tx[b])
    BY <1>1
  <2>2. IsObject(c)
    BY <2>1 DEF IsObject, Fits
  <2>3. tx' = [tx EXCEPT ![b] = c] /\ wire' = wire
    BY <1>6 DEF WithVersion
  <2> HIDE DEF c
  <2> QED
    BY <1>2, <2>2, <2>3
<1>7. ASSUME NEW b \in Builder, NEW v \in Val["options"], WithOptions(b, v)
      PROVE  SignaturesHonest'
  <2> DEFINE c == [tx[b] EXCEPT !["options"] = v]
  <2>1. IsObject(tx[b])
    BY <1>1
  <2>2. IsObject(c)
    BY <2>1 DEF IsObject, Fits
  <2>3. tx' = [tx EXCEPT ![b] = c] /\ wire' = wire
    BY <1>7 DEF WithOptions
  <2> HIDE DEF c
  <2> QED
    BY <1>2, <2>2, <2>3
<1>8. ASSUME NEW b \in Builder, NEW c \in Calls, WithContractCall(b, c)
      PROVE  SignaturesHonest'
  BY <1>3, <1>8 DEF WithContractCall, vars
<1>9. ASSUME NEW b \in Builder, NEW t \in Tx, Build(b, t)
      PROVE  SignaturesHonest'
  <2>1. IsObject(Built(b))
    BY <1>1, <1>9, BuiltIsObject DEF Build
  <2> QED
    BY <1>2, <1>9, <2>1 DEF Build
<1>10. ASSUME NEW b \in Builder, NEW t \in Tx, NEW k \in Key, BuildSigned(b, t, k)
       PROVE  SignaturesHonest'
  <2> DEFINE u == Built(b)
             s == SignatureOf(k, u)
             c == [u EXCEPT !["signature"] = s]
  <2>1. IsObject(u) /\ Serializable(u)
    BY <1>1, <1>10, BuiltIsObject DEF BuildSigned
  <2>2. tx' = [tx EXCEPT ![t] = c] /\ wire' = wire
    BY <1>10 DEF BuildSigned
  <2> HIDE DEF u
  <2>3. Signed(s)
    BY <2>1, SignatureIsSigned
  <2> HIDE DEF s
  <2>4. IsObject(c)
    BY <2>1, <2>3 DEF IsObject
  <2> HIDE DEF c
  <2> QED
    BY <1>2, <2>2, <2>4
<1> QED
  BY <1>3, <1>4, <1>5, <1>6, <1>7, <1>8, <1>9, <1>10 DEF BuildNext, buildVars, vars

(***************************************************************************)
(* A transaction that was built shares the options with its builder, and   *)
(* with all that share them with the builder, and nothing else.            *)
(***************************************************************************)
LEMMA BuiltKeepsClasses ==
    ASSUME ValuesOK, PeersOK, NEW b \in Builder, NEW t \in Tx, NEW c,
           c["options"] = tx[b]["options"]
    PROVE  /\ SharersTyped(BuiltPeers(t, b))
           /\ \A f \in Pointer : Classes(BuiltPeers(t, b), [tx EXCEPT ![t] = c], f)
<1> DEFINE P == BuiltPeers(t, b)
           V == [tx EXCEPT ![t] = c]
           alone == Detach(t, Pointer)
           join == Join(t, b, Pointer)
           W == [tx EXCEPT ![t] = tx[b]]
<1>1. t \in Holder /\ b \in Holder /\ t # b
  BY HolderAssumption
<1>2. SharersTyped(alone) /\ \A f \in Pointer : Classes(alone, V, f)
  BY <1>1, DetachKeepsClasses
<1>3. SharersTyped(join) /\ \A f \in Pointer : Classes(join, W, f)
  BY <1>1, JoinKeepsClasses
<1>4. /\ P = [q \in Holder |-> [f \in Pointer |-> P[q][f]]]
      /\ \A q \in Holder : P[q]["options"] = join[q]["options"]
      /\ \A q \in Holder, f \in Pointer : f # "options" => P[q][f] = alone[q][f]
  <2> DEFINE one == Join(t, b, {"options"})
  <2>1. P = [q \in Holder |-> [f \in Pointer |->
                IF f = "options" THEN one[q][f] ELSE alone[q][f]]]
    BY DEF BuiltPeers
  <2>2. \A q \in Holder : one[q]["options"] = join[q]["options"]
    BY DEF Join
  <2> HIDE DEF one, join, alone, P
  <2> QED
    BY <2>1, <2>2
<1>5. \A q \in Holder : V[q]["options"] = W[q]["options"]
  BY DEF ValuesOK
<1> HIDE DEF P, V, W, alone, join
<1>6. SharersTyped(P)
  <2>1. \A q \in Holder, f \in Pointer :
           alone[q][f] \in SUBSET Holder /\ join[q][f] \in SUBSET Holder
    BY <1>2, <1>3 DEF SharersTyped
  <2>2. \A q \in Holder, f \in Pointer : P[q][f] = alone[q][f] \/ P[q][f] = join[q][f]
    BY <1>4
  <2>3. ASSUME NEW q \in Holder, NEW f \in Pointer
        PROVE  P[q][f] \in SUBSET Holder
    <3>1. alone[q][f] \in SUBSET Holder /\ join[q][f] \in SUBSET Holder
      BY <2>1
    <3>2. P[q][f] = alone[q][f] \/ P[q][f] = join[q][f]
      BY <2>2
    <3> QED
      BY <3>1, <3>2, Zenon
  <2> QED
    <3> DEFINE S == SUBSET Holder
    <3>1. P = [q \in Holder |-> [f \in Pointer |-> P[q][f]]]
      BY <1>4
    <3>2. \A q \in Holder, f \in Pointer : P[q][f] \in S
      BY <2>3
    <3> HIDE DEF S
    <3>3. P \in [Holder -> [Pointer -> S]]
      BY <3>1, <3>2
    <3> QED
      BY <3>3 DEF SharersTyped, S
<1>7. Classes(P, V, "options")
  <2>1. Classes(join, W, "options")
    BY <1>3
  <2>2. \A h \in Holder : join[h]["options"] \subseteq Holder
    BY <1>3 DEF SharersTyped
  <2> SUFFICES ASSUME NEW h \in Holder, NEW q \in P[h]["options"]
               PROVE  /\ q # h /\ h \in P[q]["options"]
                      /\ V[h]["options"] # Null /\ V[q]["options"] = V[h]["options"]
                      /\ \A r \in P[q]["options"] : r = h \/ r \in P[h]["options"]
    BY DEF Classes
  <2>3. q \in Holder /\ q \in join[h]["options"]
    BY <1>4, <2>2
  <2>4. /\ q # h /\ h \in join[q]["options"]
        /\ W[h]["options"] # Null /\ W[q]["options"] = W[h]["options"]
        /\ \A r \in join[q]["options"] : r = h \/ r \in join[h]["options"]
    BY <2>1, <2>3 DEF Classes
  <2>5. P[h]["options"] = join[h]["options"] /\ P[q]["options"] = join[q]["options"]
    BY <1>4, <2>3
  <2>6. V[h]["options"] = W[h]["options"] /\ V[q]["options"] = W[q]["options"]
    BY <1>5, <2>3
  <2> QED
    BY <2>4, <2>5, <2>6
<1>8. ASSUME NEW f \in Pointer, f # "options"
      PROVE  Classes(P, V, f)
  <2>1. Classes(alone, V, f)
    BY <1>2
  <2>2. \A q \in Holder : alone[q][f] \subseteq Holder
    BY <1>2 DEF SharersTyped
  <2> SUFFICES ASSUME NEW h \in Holder, NEW q \in P[h][f]
               PROVE  /\ q # h /\ h \in P[q][f]
                      /\ V[h][f] # Null /\ V[q][f] = V[h][f]
                      /\ \A r \in P[q][f] : r = h \/ r \in P[h][f]
    BY DEF Classes
  <2>3. q \in Holder /\ q \in alone[h][f]
    BY <1>4, <1>8, <2>2
  <2>4. P[h][f] = alone[h][f] /\ P[q][f] = alone[q][f]
    BY <1>4, <1>8, <2>3
  <2> QED
    BY <2>1, <2>3, <2>4 DEF Classes
<1> QED
  BY <1>6, <1>7, <1>8 DEF P, V

(***************************************************************************)
(* Builders and factory keep what objects share well formed.               *)
(***************************************************************************)
LEMMA BuildPeers ==
    ASSUME ValuesOK, PeersOK, [BuildNext]_buildVars
    PROVE  PeersOK'
<1>0. \A P, V : (SharersTyped(P) /\ \A f \in Pointer : Classes(P, V, f))
                   /\ peers' = P /\ tx' = V => PeersOK'
  BY DEF PeersOK, SharersTyped, Classes
<1>1. ASSUME NEW h \in Holder, NEW F \in SUBSET Pointer, NEW c,
             tx' = [tx EXCEPT ![h] = c], peers' = Detach(h, F),
             \A f \in Pointer \ F : c[f] = tx[h][f]
      PROVE  PeersOK'
  BY <1>0, <1>1, DetachKeepsClasses
<1>2. CASE UNCHANGED vars
  BY <1>2, StepPeers
<1>3. CASE UseTransactions
  BY <1>3, UseIsNext, StepPeers
<1>4. ASSUME NEW b \in Builder, Create(b)
      PROVE  PeersOK'
  BY <1>1, <1>4 DEF Create
<1>5. ASSUME NEW b \in Builder, NEW v, WithVersion(b, v)
      PROVE  PeersOK'
  <2> DEFINE c == [tx[b] EXCEPT !["version"] = v]
  <2>1. tx' = [tx EXCEPT ![b] = c] /\ peers' = peers
    BY <1>5 DEF WithVersion
  <2>2. peers' = Detach(b, {})
    BY <2>1 DEF Detach, PeersOK
  <2>3. \A f \in Pointer \ {} : c[f] = tx[b][f]
    BY DEF ValuesOK
  <2> HIDE DEF c
  <2> QED
    BY <1>1, <2>1, <2>2, <2>3
<1>6. ASSUME NEW b \in Builder, NEW v, WithOptions(b, v)
      PROVE  PeersOK'
  <2> DEFINE c == [tx[b] EXCEPT !["options"] = v]
  <2>1. tx' = [tx EXCEPT ![b] = c] /\ peers' = Detach(b, {"options"})
    BY <1>6 DEF WithOptions
  <2>2. \A f \in Pointer \ {"options"} : c[f] = tx[b][f]
    BY DEF ValuesOK
  <2> HIDE DEF c
  <2> QED
    BY <1>1, <2>1, <2>2
<1>7. ASSUME NEW b \in Builder, NEW c \in Calls, WithContractCall(b, c)
      PROVE  PeersOK'
  BY <1>2, <1>7 DEF WithContractCall, vars
<1>8. ASSUME NEW b \in Builder, NEW t \in Tx, NEW k, Build(b, t) \/ BuildSigned(b, t, k)
      PROVE  PeersOK'
  <2>1. PICK c : /\ tx' = [tx EXCEPT ![t] = c] /\ peers' = BuiltPeers(t, b)
                 /\ c["options"] = Built(b)["options"]
    <3>1. CASE Build(b, t)
      BY <3>1 DEF Build
    <3>2. CASE BuildSigned(b, t, k)
      <4> DEFINE u == Built(b)
      <4>1. u = [f \in Field |-> u[f]]
        BY BuiltFields
      <4>2. /\ tx' = [tx EXCEPT ![t] = [u EXCEPT !["signature"] = SignatureOf(k, u)]]
            /\ peers' = BuiltPeers(t, b)
        BY <3>2 DEF BuildSigned
      <4> HIDE DEF u
      <4>3. [u EXCEPT !["signature"] = SignatureOf(k, u)]["options"] = u["options"]
        BY <4>1
      <4> QED
        BY <4>2, <4>3 DEF u
    <3> QED
      BY <1>8, <3>1, <3>2
  <2>2. c["options"] = tx[b]["options"]
    BY <2>1, BuiltFields
  <2> QED
    BY <1>0, <2>1, <2>2, BuiltKeepsClasses
<1> QED
  BY <1>2, <1>3, <1>4, <1>5, <1>6, <1>7, <1>8 DEF BuildNext, buildVars, vars

(***************************************************************************)
(* The inductive invariant of objects and builders together.               *)
(***************************************************************************)
BuildInv == BuilderInv /\ SignaturesHonest /\ PeersOK

LEMMA BuildInvAlways == BuildSpec => []BuildInv
<1>1. BuildInit => BuilderInv
  BY InputsAssumption DEF BuildInit, Init, BuilderInv
<1>2. BuildInit => SignaturesHonest /\ PeersOK
  <2>1. Init => PeersOK
    BY DEF Init, PeersOK
  <2> QED
    BY <2>1, InitHonest DEF BuildInit
<1>3. BuildInv /\ [BuildNext]_buildVars => BuildInv'
  BY StepBuilderInv, BuildHonest, BuildPeers DEF BuildInv, SignaturesHonest
<1> QED
  BY <1>1, <1>2, <1>3, PTL DEF BuildSpec, BuildInv

(***************************************************************************)
(* Next to builders, objects, signatures and the sharing of pointees stay  *)
(* well formed: the options a builder shares with all it has built, too.   *)
(***************************************************************************)
THEOREM BuildersTypeCorrect == BuildSpec => []TypeOK
<1>1. BuildInv => TypeOK
  BY DEF BuildInv, SignaturesHonest, TypeOK
<1> QED
  BY <1>1, BuildInvAlways, PTL

(***************************************************************************)
(* Nothing that builders do makes verify() accept what the sender's key    *)
(* has not signed, however the transactions built are used afterwards.     *)
(***************************************************************************)
THEOREM BuildersVerifiedContent == BuildSpec => []VerifiedContentIsSigned
<1>1. BuildInv => VerifiedContentIsSigned
  <2> SUFFICES ASSUME BuildInv, NEW h \in Holder, Verifies(tx[h])
               PROVE  /\ tx[h]["signature"].of = Content(tx[h])
                      /\ tx[h]["signature"].key = PkOf[tx[h]["sender"]]
    BY DEF VerifiedContentIsSigned
  <2>1. IsObject(tx[h])
    BY ValuesAreObjects DEF BuildInv, SignaturesHonest
  <2> QED
    BY <2>1, VerifiedIsSigned DEF Verifies
<1> QED
  BY <1>1, BuildInvAlways, PTL
=============================================================================
