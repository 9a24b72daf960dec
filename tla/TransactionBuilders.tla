------------------------- MODULE TransactionBuilders -------------------------
(***************************************************************************)
(* The factory and the builders of transactions                            *)
(* (src/src/transaction/transaction_factory.cpp, transaction_builders.cpp, *)
(* itransaction_builder.cpp), composed with the Transaction objects they   *)
(* return.  A builder is a holder of Transaction: tx[b] keeps its          *)
(* m_version and its m_options, a pointer that every transaction it builds *)
(* shares; input and call keep the rest of its fields.                     *)
(*                                                                         *)
(* A payload is a data value: Payload[kind][destination][call] stands for  *)
(* the text of the payload builders, which names the destination for the   *)
(* NFT kinds.  ESDT issuance is an EGLD transfer whose input the factory   *)
(* fixes (address, value, gas limit), so it is one of the Inputs.          *)
(***************************************************************************)
EXTENDS Transaction, GasEstimator

CONSTANTS
    Inputs,   \* TransactionBuilderInput, with the kind of the builder
    Calls,    \* ContractCall values
    NoCall,   \* ContractCall(""), one of Calls
    Payload,  \* token kind -> destination -> call -> data
    Size,     \* data -> its length in bytes
    Network   \* the NetworkConfig the factory was made with

VARIABLES
    input,    \* builder -> its m_txInput, or Null before it is created
    call      \* builder -> its m_contractCall

buildVars == <<tx, peers, wire, input, call>>

SelfTransfer == {"NFT", "Multi"}

ASSUME InputsAssumption ==
    /\ NoCall \in Calls /\ Null \notin Inputs
    /\ \A i \in Inputs : /\ i.kind \in {"EGLD", "ESDT"} \cup SelfTransfer
                         /\ i.sender \in Val["sender"] /\ i.receiver \in Val["receiver"]

(***************************************************************************)
(* A payload that names a destination names one, and is not taken for      *)
(* another one: what the payload builders are there for, see Payments.     *)
(***************************************************************************)
ASSUME PayloadAssumption ==
    \A kind \in SelfTransfer, d \in Val["receiver"], l \in Calls :
        LET data == Payload[kind][d][l]
        IN /\ \A k \in SelfTransfer, e \in Val["receiver"], m \in Calls :
                 Payload[k][e][m] = data => e = d
           /\ \A e \in Val["receiver"], m \in Calls : Payload["ESDT"][e][m] # data
           /\ \A i \in Inputs : i.kind = "EGLD" => i.data # data

Length(data) == IF data = Null THEN 0 ELSE Size[data]

\* The payload of the transaction b builds; EGLD transfers carry the data
\* they were given, null when it is empty.
Data(b) ==
    IF input[b].kind = "EGLD" THEN input[b].data
    ELSE Payload[input[b].kind][input[b].receiver][call[b]]

\* What the estimator asks for a transaction of input i with data of a length.
Estimate(i, length) ==
    IF i.kind = "EGLD" THEN forEGLDTransfer(Network, length)
    ELSE IF i.kind = "ESDT" THEN forESDTTransfer(Network, length)
    ELSE IF i.kind = "NFT" THEN forESDTNFTTransfer(Network, length)
    ELSE forMultiESDTNFTTransfer(Network, length, i.transfers)

\* The factory is given values of the fields' types, and makes such values.
ASSUME BuiltAssumption ==
    /\ \A i \in Inputs :
          /\ \A f \in {"nonce", "gasPrice", "chainID"} : i[f] \in Val[f]
          /\ i.kind = "EGLD" => /\ i.value \in Val["value"] /\ i.gasLimit \in Val["gasLimit"]
                                /\ i.data \in Val["data"] \cup {Null}
          /\ i.kind \in SelfTransfer => i.sender \in Val["receiver"]
          /\ \A data \in Val["data"] \cup {Null} :
                Estimate(i, Length(data)) \in Val["gasLimit"]
    /\ \A kind \in {"ESDT"} \cup SelfTransfer, d \in Val["receiver"], l \in Calls :
          Payload[kind][d][l] \in Val["data"]

\* Gas would be estimated before the contract call is appended (mutant).
GasLimitWithoutCall(b) ==
    IF input[b].kind = "EGLD" /\ input[b].gasLimit # 0 THEN input[b].gasLimit
    ELSE Estimate(input[b], Length(
            IF input[b].kind = "EGLD" THEN Data(b)
            ELSE Payload[input[b].kind][input[b].receiver][NoCall]))

\* A gas limit of 0 in the input of an EGLD transfer asks for an estimate.
GasLimit(b) ==
    IF input[b].kind = "EGLD" /\ input[b].gasLimit # 0 THEN input[b].gasLimit
    ELSE Estimate(input[b], Length(Data(b)))

\* NFT transfers would go to the destination itself (mutant).
ReceiverDirect(b) == input[b].receiver

\* NFT transfers are sent to the sender, the destination is in the payload.
Receiver(b) ==
    IF input[b].kind \in SelfTransfer THEN input[b].sender ELSE input[b].receiver

\* The Transaction that build() constructs.
Built(b) ==
    [f \in Field |->
        CASE f \in {"nonce", "gasPrice", "chainID", "sender"} -> input[b][f]
          [] f = "value"    -> IF input[b].kind = "EGLD" THEN input[b].value ELSE 0
          [] f = "receiver" -> Receiver(b)
          [] f = "gasLimit" -> GasLimit(b)
          [] f = "data"     -> Data(b)
          [] f \in {"version", "options"} -> tx[b][f]
          [] OTHER -> Null]

BuildInit == Init /\ input = [b \in Builder |-> Null]
                  /\ call = [b \in Builder |-> NoCall]

\* TransactionFactory::createX: a builder is created once, with its input.
Create(b) ==
    /\ input[b] = Null
    /\ \E i \in Inputs : input' = [input EXCEPT ![b] = i]
    /\ call' = [call EXCEPT ![b] = NoCall]
    /\ tx' = [tx EXCEPT ![b] = Default]
    /\ peers' = Detach(b, Pointer)
    /\ UNCHANGED wire

WithVersion(b, v) ==
    /\ input[b] # Null
    /\ tx' = [tx EXCEPT ![b]["version"] = v]
    /\ UNCHANGED <<peers, wire, input, call>>

\* withOptions would write through m_options when it is set (mutant).
WithOptionsThroughPointer(b, v) ==
    /\ input[b] # Null
    /\ tx' = [h \in Holder |-> IF h = b \/ h \in peers[b]["options"]
                               THEN [tx[h] EXCEPT !["options"] = v] ELSE tx[h]]
    /\ UNCHANGED <<peers, wire, input, call>>

\* withOptions points m_options at a new value.
WithOptions(b, v) ==
    /\ input[b] # Null
    /\ tx' = [tx EXCEPT ![b]["options"] = v]
    /\ peers' = Detach(b, {"options"})
    /\ UNCHANGED <<wire, input, call>>

\* Only the builders of token transfers have withContractCall.
WithContractCall(b, c) ==
    /\ input[b] # Null /\ input[b].kind # "EGLD"
    /\ call' = [call EXCEPT ![b] = c]
    /\ UNCHANGED <<tx, peers, wire, input>>

\* After t is built by b, it shares b's options and nothing else.
BuiltPeers(t, b) ==
    LET alone == Detach(t, Pointer)
        join  == Join(t, b, {"options"})
    IN [q \in Holder |-> [f \in Pointer |->
           IF f = "options" THEN join[q][f] ELSE alone[q][f]]]

\* t = b->build().
Build(b, t) ==
    /\ input[b] # Null
    /\ tx' = [tx EXCEPT ![t] = Built(b)]
    /\ peers' = BuiltPeers(t, b)
    /\ UNCHANGED <<wire, input, call>>

\* buildSigned() would sign before the gas limit is known (mutant).
BuildSignedEarly(b, t, k) ==
    /\ input[b] # Null
    /\ tx' = [tx EXCEPT ![t] = [Built(b) EXCEPT !["signature"] =
                SignatureOf(k, [Built(b) EXCEPT !["gasLimit"] = 0])]]
    /\ peers' = BuiltPeers(t, b)
    /\ UNCHANGED <<wire, input, call>>

\* t = b->buildSigned(seed of k).
BuildSigned(b, t, k) ==
    /\ input[b] # Null
    /\ tx' = [tx EXCEPT ![t] = [Built(b) EXCEPT !["signature"] =
                                   SignatureOf(k, Built(b))]]
    /\ peers' = BuiltPeers(t, b)
    /\ UNCHANGED <<wire, input, call>>

\* What the program does to the transactions it was given: it copies them,
\* signs them again, writes through their data, drops them.
UseTransactions ==
    /\ \E t \in Tx : \/ WriteData(t)
                     \/ \E u \in Tx : Copy(t, u)
                     \/ Reset(t)
                     \/ \E k \in Key : Sign(t, k)
    /\ UNCHANGED <<input, call>>

BuildNext ==
    \/ UseTransactions
    \/ \E b \in Builder :
          \/ Create(b)
          \/ \E v \in Val["version"] : WithVersion(b, v)
          \/ \E v \in Val["options"] : WithOptions(b, v)
          \/ \E c \in Calls : WithContractCall(b, c)
          \/ \E t \in Tx : Build(b, t) \/ \E k \in Key : BuildSigned(b, t, k)

BuildSpec == BuildInit /\ [][BuildNext]_buildVars

-----------------------------------------------------------------------------
(* Properties *)

\* t becomes what b builds, signed or not.
Builds(b, t) == input[b] # Null /\ WithoutSignature(tx'[t]) = Built(b)

\* Where the network delivers what the transaction transfers: to the
\* destination in the payload if it names one, which the network accepts
\* only of a transaction sent to oneself, else to the receiver.
Named(c) == {d \in Val["receiver"] : \E kind \in SelfTransfer, l \in Calls :
                c["data"] = Payload[kind][d][l]}
DeliversTo(c, d) ==
    IF Named(c) = {} THEN c["receiver"] = d
    ELSE Named(c) = {d} /\ c["receiver"] = c["sender"]

(***************************************************************************)
(* Whatever the kind of builder, the transaction it builds delivers to the *)
(* receiver the factory was given, is sent by the sender it was given and  *)
(* carries the version and the options set last.                           *)
(***************************************************************************)
BuiltAsOrdered ==
    [][\A b \in Builder, t \in Tx : Builds(b, t) =>
        /\ DeliversTo(tx[t], input[b].receiver)'
        /\ tx[t]["sender"]' = input[b].sender
        /\ \A f \in {"version", "options"} : tx[t][f]' = tx[b][f]]_buildVars

(***************************************************************************)
(* A transaction with an estimated gas limit pays for all its bytes, those *)
(* of the contract call included.                                          *)
(***************************************************************************)
GasPaysForData ==
    [][\A b \in Builder, t \in Tx :
        Builds(b, t) /\ (input[b].kind = "EGLD" => input[b].gasLimit = 0) =>
            tx[t]["gasLimit"]' >= MoveBalanceGas(Network, Length(tx[t]["data"]'))]_buildVars

(***************************************************************************)
(* A transaction of buildSigned() with the seed of its sender verifies.    *)
(***************************************************************************)
BuildSignedVerifies ==
    [][\A b \in Builder, t \in Tx, k \in Key :
        BuildSigned(b, t, k) /\ k = PkOf[input[b].sender] => Verifies(tx[t])']_buildVars

(***************************************************************************)
(* Nothing a builder or a transaction does, but a write through m_data,    *)
(* changes another transaction: not even the options a builder shares with *)
(* all it has built.                                                       *)
(***************************************************************************)
BuiltUntouched ==
    [][\/ \E t \in Tx : WriteData(t)
       \/ \A h, q \in Holder : tx[h]' # tx[h] /\ tx[q]' # tx[q] => h = q]_buildVars
=============================================================================
