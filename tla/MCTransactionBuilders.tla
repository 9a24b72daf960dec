------------------------ MODULE MCTransactionBuilders ------------------------
(***************************************************************************)
(* An instance of TransactionBuilders for TLC: one builder of any kind,    *)
(* two transactions, two contract calls ("f" adds 2 bytes).  Gas           *)
(* parameters fit in 3 bits, as does minGasLimit with the cost of a        *)
(* transfer; a product of lengths does not.                                *)
(***************************************************************************)
EXTENDS TransactionBuilders, TLC

CONSTANTS ka, kb

OneKey == {ka}
MCPkOf == [a |-> ka, b |-> kb]
MCCalls == {"none", "f"}
TokenKinds == {"ESDT", "NFT", "Multi"}

MCPayload == [kind \in TokenKinds |-> [d \in {"a", "b"} |->
                 [l \in MCCalls |-> <<kind, IF kind = "ESDT" THEN "" ELSE d, l>>]]]
Raw == <<"raw", "", "none">>
Raw2 == <<"raw", "", "f">>
Datas == {Raw, Raw2} \cup {MCPayload[kind][d][l] :
                        kind \in TokenKinds, d \in {"a", "b"}, l \in MCCalls}
MCSize == [d \in Datas |-> (IF d[1] = "raw" THEN 1 ELSE 3)
                           + (IF d[3] = "f" THEN 2 ELSE 0)]

Input(kind, data, gasLimit, transfers) ==
    [kind |-> kind, nonce |-> 0, value |-> 1, sender |-> "a", receiver |-> "b",
     data |-> data, gasPrice |-> 0, gasLimit |-> gasLimit, chainID |-> "1",
     transfers |-> transfers]

MCInputs == {Input("EGLD", Raw, 0, 0), Input("EGLD", Raw, 9, 0), Input("ESDT", Null, 0, 0),
             Input("NFT", Null, 0, 0), Input("Multi", Null, 0, 2)}

OneRaw == {Raw}

MCVal == [f \in Covered |->
            CASE f \in {"receiver", "sender"} -> {"a", "b"}
              [] f = "chainID" -> {"1"}
              [] f = "version" -> {1, 2}
              [] f = "options" -> {0, 1}
              [] f = "data"    -> Datas
              [] f = "value"   -> {0, 1}
              [] f = "gasLimit" -> 0..40
              [] f \in Pointer -> {}
              [] OTHER -> {0}]
MCNetwork == [minGasLimit |-> 5, gasPerDataByte |-> 2]

NoneGiven == [f \in Field |-> {}]
MCEncode == [f \in Covered |-> [v \in MCVal[f] |-> <<"text", v>>]]
MCDecode == [f \in Covered |-> [t \in {<<"text", v>> : v \in MCVal[f]} |-> t[2]]]

TxSymmetry == Permutations(Tx)
=============================================================================
