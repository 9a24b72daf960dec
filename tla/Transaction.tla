----------------------------- MODULE Transaction -----------------------------
(***************************************************************************)
(* Transaction objects of the SDK (src/src/transaction/transaction.cpp).   *)
(*                                                                         *)
(* A Transaction keeps its numbers, its value and its chain ID by value    *)
(* and everything else behind a std::shared_ptr, so copies of an object    *)
(* share the pointees.  Instead of a heap, the model keeps for each        *)
(* pointer the set of the other holders that share its pointee: assigning  *)
(* a pointer leaves that set, copying joins it, writing through a pointer  *)
(* reaches everyone in it.                                                 *)
(*                                                                         *)
(* A JSON text is a function whose domain is the set of keys it has.  How  *)
(* a value is written and read back (base64, bech32, decimal numbers) is   *)
(* given by the tables Encode and Decode: reading accepts more texts than  *)
(* writing produces, and two texts may be read as the same value.          *)
(*                                                                         *)
(* A signature is the term <<key, message, content>>: ed25519 tells apart  *)
(* the first two, the third is a record of what the signer's Transaction   *)
(* held.  A call that throws before it changes anything is a stutter.      *)
(***************************************************************************)
EXTENDS Naturals, Sequences

CONSTANTS
    Tx,       \* the Transaction objects of the program
    Builder,  \* the transaction builders, which hold pointers of their own
    Key,      \* the key pairs whose seeds the program has; a Signer is one
    Null,     \* nullptr
    Junk,     \* a signature string that no Signer produced
    Val,      \* field -> the values it takes; addresses are bech32 texts
    Given,    \* field -> the values and Null the program assigns to it
    Written,  \* the values the program writes through m_data
    Foreign,  \* field -> texts found in a JSON that the SDK did not write;
              \* a signature's may be Null, which is no string
    Encode,   \* field -> [value -> text]
    Decode,   \* field -> [text -> value]; reading any other text throws
    PkOf      \* address text -> the key pair whose public key it denotes

Holder == Tx \cup Builder

(***************************************************************************)
(* The keys of the JSON text in the order deserialize() assigns them: the  *)
(* first eight are required, the others optional.                          *)
(***************************************************************************)
Order == <<"nonce", "value", "receiver", "sender", "gasPrice", "gasLimit",
           "chainID", "version", "data", "signature", "receiverUsername",
           "senderUsername", "options">>

Required == {Order[i] : i \in 1..8}
Pointer  == {"receiver", "sender", "data", "signature", "receiverUsername",
             "senderUsername", "options"}
Covered  == {"nonce", "value", "receiver", "sender", "gasPrice", "gasLimit",
             "chainID", "version", "data", "receiverUsername",
             "senderUsername", "options"}
Field    == Covered \cup {"signature"}

Position == [f \in Field |-> CHOOSE i \in 1..13 : Order[i] = f]

(***************************************************************************)
(* Writing a value and reading it back gives that value, and an address    *)
(* is kept as the text it was made from, next to the key it denotes.       *)
(***************************************************************************)
ASSUME CodecAssumption ==
    /\ \A f \in Covered : \A v \in Val[f] :
          /\ v # Null
          /\ Encode[f][v] \in DOMAIN Decode[f]
          /\ Decode[f][Encode[f][v]] = v
    /\ \A f \in Covered : \A t \in DOMAIN Decode[f] : Decode[f][t] \in Val[f]
    /\ \A f \in Field : \A v \in Given[f] :
          \/ f \in Pointer /\ v = Null
          \/ f = "signature" /\ v = Junk
          \/ f \in Covered /\ v \in Val[f]
    /\ Written \subseteq Val["data"]
    /\ Foreign["signature"] \subseteq {Junk, Null}

ASSUME HolderAssumption == Tx \cap Builder = {} /\ Junk # Null

VARIABLES
    tx,     \* holder -> field -> value or Null
    peers,  \* holder -> pointer -> the other holders sharing the pointee
    wire    \* the last JSON text serialize() returned, or Null

vars == <<tx, peers, wire>>

-----------------------------------------------------------------------------
(* Serialization and the signed message *)

\* internal::shouldSignHash: bit 0 of the options, from version 2 on.
ShouldSignHash(c) ==
    /\ c["options"] # Null
    /\ c["version"] >= 2
    /\ c["options"] % 2 = 1

EncodeField(f, v) == IF f = "signature" THEN v ELSE Encode[f][v]

\* Transaction::serialize, for an object whose receiver and sender are set:
\* the keys of null pointers are left out.
Serialize(c) ==
    [f \in {g \in Field : c[g] # Null} |-> EncodeField(f, c[f])]

Serializable(c) == c["receiver"] # Null /\ c["sender"] # Null

WithoutSignature(c) == [c EXCEPT !["signature"] = Null]

\* The message would cover an earlier signature (mutant).
MessageWithSignature(c) ==
    [hashed |-> ShouldSignHash(c), text |-> Serialize(c)]

\* The message would not cover the options (mutant).
MessageWithoutOptions(c) ==
    [hashed |-> ShouldSignHash(c),
     text   |-> Serialize([WithoutSignature(c) EXCEPT !["options"] = Null])]

\* internal::getSerializedTxMsg with withSignature = false, the only way it
\* is called: keccak is injective, so a hashed message is the text, marked.
Message(c) ==
    [hashed |-> ShouldSignHash(c), text |-> Serialize(WithoutSignature(c))]

Content(c) == [f \in Covered |-> c[f]]

SignatureOf(k, c) == [key |-> k, msg |-> Message(c), of |-> Content(c)]

\* Transaction::verify returns true (it may also return false, and throws on
\* a missing signature, sender or receiver and on a signature that is no hex).
Verifies(c) ==
    /\ c["signature"] \notin {Null, Junk}
    /\ Serializable(c)
    /\ c["signature"].key = PkOf[c["sender"]]
    /\ c["signature"].msg = Message(c)

-----------------------------------------------------------------------------
(* Sharing *)

\* Holder h points its pointers F at new pointees (or at null).
Detach(h, F) ==
    [q \in Holder |-> [f \in Pointer |->
        IF f \notin F THEN peers[q][f]
        ELSE IF q = h THEN {} ELSE peers[q][f] \ {h}]]

\* Holder h points its pointers F where holder p's point.
Join(h, p, F) ==
    LET others(f) == (peers[p][f] \cup {p}) \ {h}
    IN [q \in Holder |-> [f \in Pointer |->
           IF f \notin F THEN peers[q][f]
           ELSE IF q = h THEN IF tx[p][f] = Null THEN {} ELSE others(f)
           ELSE IF tx[p][f] # Null /\ q \in others(f) THEN peers[q][f] \cup {h}
           ELSE peers[q][f] \ {h}]]

-----------------------------------------------------------------------------
(* Operations *)

\* Transaction().
Default ==
    [f \in Field |-> CASE f \in Pointer   -> Null
                       [] f = "chainID"   -> "1"
                       [] f = "version"   -> 1
                       [] OTHER           -> 0]

ASSUME DefaultAssumption ==
    \A f \in Covered \ Pointer : Default[f] \in Val[f]

Init ==
    /\ tx = [h \in Holder |-> Default]
    /\ peers = [h \in Holder |-> [f \in Pointer |-> {}]]
    /\ wire = Null

\* The program assigns a public field: a value, a new pointee or nullptr.
Assign(t, f) ==
    /\ \E v \in Given[f] : tx' = [tx EXCEPT ![t][f] = v]
    /\ peers' = IF f \in Pointer THEN Detach(t, {f}) ELSE peers
    /\ UNCHANGED wire

\* The program writes through m_data, as handleTransferESDT of the command
\* line does when it appends the call arguments.
WriteData(t) ==
    /\ tx[t]["data"] # Null
    /\ \E v \in Written :
          tx' = [h \in Holder |-> IF h = t \/ h \in peers[t]["data"]
                                  THEN [tx[h] EXCEPT !["data"] = v] ELSE tx[h]]
    /\ UNCHANGED <<peers, wire>>

\* The implicit copy assignment t = u.
Copy(t, u) ==
    /\ t # u
    /\ tx' = [tx EXCEPT ![t] = tx[u]]
    /\ peers' = Join(t, u, Pointer)
    /\ UNCHANGED wire

\* A fresh object takes the place of t.
Reset(t) ==
    /\ tx' = [tx EXCEPT ![t] = Default]
    /\ peers' = Detach(t, Pointer)
    /\ UNCHANGED wire

\* sign() would write the signature through the pointer (mutant).
SignThroughPointer(t, k) ==
    /\ Serializable(tx[t])
    /\ tx' = [h \in Holder |->
                IF h = t \/ h \in peers[t]["signature"]
                THEN [tx[h] EXCEPT !["signature"] = SignatureOf(k, tx[t])]
                ELSE tx[h]]
    /\ UNCHANGED <<peers, wire>>

\* Transaction::sign: serialize() throws when an address is missing; the
\* signer need not be the sender.
Sign(t, k) ==
    /\ Serializable(tx[t])
    /\ tx' = [tx EXCEPT ![t]["signature"] = SignatureOf(k, tx[t])]
    /\ peers' = Detach(t, {"signature"})
    /\ UNCHANGED wire

\* Transaction::serialize, the text being kept (a file, a request).
Publish(t) ==
    /\ Serializable(tx[t])
    /\ wire' = Serialize(tx[t])
    /\ UNCHANGED <<tx, peers>>

\* What at<T> reads from a text; a signature is any string, and throws for
\* anything else, such as a JSON null.
Readable(f, w) == IF f = "signature" THEN w[f] # Null ELSE w[f] \in DOMAIN Decode[f]
Read(f, w) == IF f = "signature" THEN w[f] ELSE Decode[f][w[f]]

\* The fields deserialize() assigns from w: all that precede the first key
\* whose text cannot be read, which throws.
Assigned(w) ==
    LET bad == {g \in DOMAIN w : ~Readable(g, w)}
    IN {f \in DOMAIN w : \A g \in bad : Position[f] < Position[g]}

\* deserialize() would keep the base64 text of the data as it is (mutant).
DeserializeRaw(t, w) ==
    /\ Required \subseteq DOMAIN w
    /\ LET new == Assigned(w)
       IN /\ tx' = [tx EXCEPT ![t] = [f \in Field |->
                        IF f \notin new THEN tx[t][f]
                        ELSE IF f = "data" THEN w[f] ELSE Read(f, w)]]
          /\ peers' = Detach(t, Pointer \cap new)
    /\ UNCHANGED wire

\* deserialize() would spell addresses anew, from their public keys (mutant).
DeserializeRespelled(t, w) ==
    /\ Required \subseteq DOMAIN w
    /\ LET new == Assigned(w)
           Respelled(f) == IF f \in {"sender", "receiver"}
                           THEN CHOOSE a \in Val[f] : PkOf[a] = PkOf[Read(f, w)]
                           ELSE Read(f, w)
       IN /\ tx' = [tx EXCEPT ![t] = [f \in Field |->
                        IF f \in new THEN Respelled(f) ELSE tx[t][f]]]
          /\ peers' = Detach(t, Pointer \cap new)
    /\ UNCHANGED wire

\* Transaction::deserialize: the required keys are looked for first; then
\* fields are assigned one by one, and those assigned before a throw stay.
\* The pointer of an optional key that is absent is left as it was.
Deserialize(t, w) ==
    /\ Required \subseteq DOMAIN w
    /\ LET new == Assigned(w)
       IN /\ tx' = [tx EXCEPT ![t] = [f \in Field |->
                        IF f \in new THEN Read(f, w) ELSE tx[t][f]]]
          /\ peers' = Detach(t, Pointer \cap new)
    /\ UNCHANGED wire

\* The texts a program may be given: the published one, and that text with
\* a key removed or with a text the SDK did not write.
Texts ==
    IF wire = Null THEN {}
    ELSE LET dropped == {[f \in DOMAIN wire \ {g} |-> wire[f]] :
                            g \in DOMAIN wire}
             foreign == UNION {{[wire EXCEPT ![g] = s] : s \in Foreign[g]} :
                                  g \in DOMAIN wire}
         IN {wire} \cup dropped \cup foreign

Next ==
    \E t \in Tx :
        \/ \E f \in Field : Assign(t, f)
        \/ WriteData(t)
        \/ \E u \in Tx : Copy(t, u)
        \/ Reset(t)
        \/ \E k \in Key : Sign(t, k)
        \/ Publish(t)
        \/ \E w \in Texts : Deserialize(t, w)

Spec == Init /\ [][Next]_vars

-----------------------------------------------------------------------------
(* Properties *)

\* v is a value of the covered field f.
Fits(f, v) == v \in Val[f] \/ (f \in Pointer /\ v = Null)

IsContent(c) == /\ c = [f \in Covered |-> c[f]]
                /\ \A f \in Covered : Fits(f, c[f])

\* A signature that a Signer produced for a Transaction with both addresses.
Signed(s) ==
    /\ s = [key |-> s.key, msg |-> s.msg, of |-> s.of]
    /\ s.key \in Key
    /\ IsContent(s.of)
    /\ Serializable(s.of)
    /\ s.msg = Message([f \in Field |-> IF f = "signature" THEN Null ELSE s.of[f]])

ValuesOK ==
    /\ tx = [h \in Holder |-> [f \in Field |-> tx[h][f]]]
    /\ \A h \in Holder : /\ \A f \in Covered : Fits(f, tx[h][f])
                         /\ \/ tx[h]["signature"] \in {Null, Junk}
                            \/ Signed(tx[h]["signature"])

WireOK ==
    wire # Null =>
        /\ Required \subseteq DOMAIN wire /\ DOMAIN wire \subseteq Field
        /\ \A f \in DOMAIN wire \ {"signature"} :
              wire[f] \in {Encode[f][v] : v \in Val[f]}
        /\ "signature" \in DOMAIN wire =>
              wire["signature"] = Junk \/ Signed(wire["signature"])

PeersOK ==
    /\ peers \in [Holder -> [Pointer -> SUBSET Holder]]
    /\ \A h \in Holder, f \in Pointer : \A q \in peers[h][f] :
          /\ q # h /\ h \in peers[q][f]
          /\ tx[h][f] # Null /\ tx[q][f] = tx[h][f]
          /\ \A r \in peers[q][f] : r = h \/ r \in peers[h][f]

(***************************************************************************)
(* Every field of every object holds a value of its type, every signature  *)
(* comes from a Signer or is junk, the published text is one that          *)
(* serialize() writes, and the holders that share a pointee agree on what  *)
(* it is and on who shares it.                                             *)
(***************************************************************************)
TypeOK == ValuesOK /\ WireOK /\ PeersOK

(***************************************************************************)
(* verify() returns true only when the object holds, field for field, what *)
(* the sender's key signed: no copy, aliasing, reassignment, partial or    *)
(* complete deserialization moves a signature to another content.          *)
(***************************************************************************)
VerifiedContentIsSigned ==
    \A h \in Holder :
        Verifies(tx[h]) => /\ tx[h]["signature"].of = Content(tx[h])
                           /\ tx[h]["signature"].key = PkOf[tx[h]["sender"]]

(***************************************************************************)
(* Signing with the sender's key always makes verify() true, whatever the  *)
(* object held before: an earlier signature, junk, shared pointees.        *)
(***************************************************************************)
SignMakesVerifiable ==
    [][\A t \in Tx, k \in Key :
        Sign(t, k) /\ PkOf[tx[t]["sender"]] = k => Verifies(tx[t])']_vars

(***************************************************************************)
(* Only a write through m_data changes more than one object: signing,      *)
(* assigning, reading a JSON text, also one that fails half way, leave     *)
(* every other object as it was, copies that share pointees included.      *)
(***************************************************************************)
OthersUntouched ==
    [][\/ \E t \in Tx : WriteData(t)
       \/ \A h, q \in Holder : tx[h]' # tx[h] /\ tx[q]' # tx[q] => h = q]_vars

(***************************************************************************)
(* Reading a published text into an object gives every key of the text     *)
(* back when the object is serialized again, and the only keys it adds are *)
(* optional ones the object held before; so a fresh object serializes to   *)
(* the text it was read from.                                              *)
(***************************************************************************)
PublishedTextReadsBack ==
    [][\A t \in Tx :
        wire # Null /\ Deserialize(t, wire) =>
            LET again == Serialize(tx[t])'
            IN /\ \A f \in DOMAIN wire : f \in DOMAIN again /\ again[f] = wire[f]
               /\ \A f \in DOMAIN again \ DOMAIN wire : tx[t][f] # Null]_vars

(***************************************************************************)
(* "Deserialize transaction into current object": the object then is the   *)
(* transaction of the text.  Not so: optional fields the text does not     *)
(* have survive from the transaction that was in the object.               *)
(***************************************************************************)
DeserializeReplacesObject ==
    [][\A t \in Tx : wire # Null /\ Deserialize(t, wire) =>
                        Serialize(tx[t])' = wire]_vars
=============================================================================
