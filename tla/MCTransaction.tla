---------------------------- MODULE MCTransaction ----------------------------
(***************************************************************************)
(* Instances of Transaction for TLC.  "a" and "A" are the lower and upper  *)
(* case bech32 texts of the same public key, "b" is another address.  The  *)
(* texts of a field are its values, marked; Decode also reads a text that  *)
(* Encode never writes, and does not read "bad".                           *)
(***************************************************************************)
EXTENDS Transaction, TLC

CONSTANTS ka, kb

OneKey == {ka}
MCPkOf == [a |-> ka, A |-> ka, b |-> kb]

Codec(val) == [f \in Covered |-> [v \in val[f] |-> <<"text", v>>]]

\* Each value has its own text; the texts <<"lax", v>> stand for those that
\* read as v and are never written, such as base64 with a tail or 1.5 for 1.
Decoder(val) ==
    [f \in Covered |->
        [t \in {<<"text", v>> : v \in val[f]} \cup {<<"lax", v>> : v \in val[f]} |->
            t[2]]]

Base == [f \in Covered |->
           CASE f \in {"receiver", "sender"} -> {"a"}
             [] f = "chainID" -> {"1"}
             [] f = "version" -> {1}
             [] f \in Pointer -> {}
             [] OTHER -> {0}]

NoneGiven == [f \in Field |-> {}]

\* Hash signing: versions and options vary; the sender's address was given in
\* upper case.
ValHash == [Base EXCEPT !["version"] = {1, 2}, !["options"] = {1},
                        !["sender"] = {"a", "A"}]
GivenHash == [NoneGiven EXCEPT !["version"] = {2}, !["options"] = {1},
                  !["sender"] = {"A"}, !["receiver"] = {"a"}]
EncodeHash == Codec(ValHash)
DecodeHash == Decoder(ValHash)

\* Sharing: the data varies; a text may have data that no object was given,
\* or a field that cannot be read.
ValData == [Base EXCEPT !["data"] = {<<"x">>, <<"y">>}]
WrittenData == {<<"x">>, <<"y">>}
GivenData == [NoneGiven EXCEPT !["data"] = {<<"x">>, Null}, !["signature"] = {Null},
                  !["sender"] = {"a"}, !["receiver"] = {"a"}]
ForeignData == [f \in Field |-> CASE f = "gasLimit" -> {<<"bad", 0>>}
                                  [] f = "data" -> {<<"lax", <<"y">>>>, <<"bad", 0>>}
                                  [] f = "signature" -> {Null, Junk}
                                  [] OTHER -> {}]
EncodeData == Codec(ValData)
DecodeData == Decoder(ValData)

TxSymmetry == Permutations(Tx)
=============================================================================
