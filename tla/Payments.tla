------------------------------- MODULE Payments -------------------------------
(***************************************************************************)
(* From the amounts a user types to the payloads the network reads: token  *)
(* payments, contract calls and the payload builders                       *)
(* (src/src/transaction/payload_builder.cpp,                               *)
(* src/src/smartcontracts/sc_arguments.cpp, contract_call.cpp).            *)
(*                                                                         *)
(* A payload is a text: the name of a builtin function and its arguments,  *)
(* each in hexadecimal, separated by '@'.  The builders are pure: build()  *)
(* is a function of what their setters were given last, which is the state *)
(* of this module.  A call that throws is a stutter.                       *)
(***************************************************************************)
EXTENDS TokenPayment

CONSTANTS
    Char,        \* the characters a user types in amounts
    Token,       \* token identifiers
    Nonce,       \* nonces of non-fungible tokens
    Quantity,    \* decimal texts of the BigUInts the program has
    Decimals,    \* numbers of decimals of tokens
    Destination, \* public keys, as bytes
    Calls,       \* contract calls [function, args]; an argument is a record
                 \* [is, of] with is in {"string", "address", "number"}
    NoCall,      \* ContractCall(""), one of Calls
    Property,    \* names of the ESDT properties, in the order of the struct
    MaxOps,      \* bound: operations of a behaviour
    MaxPayments  \* bound: payments made in a behaviour

Byte == 0..255

\* An argument as it is added: a number is a decimal text.
Added == [is : {"number"}, of : Seq(Digit)] \cup [is : {"string", "address"}, of : Seq(Byte)]

ASSUME TextAssumption ==
    /\ Char \subseteq Byte
    /\ Token \subseteq Seq(Byte)
    /\ Destination \subseteq Seq(Byte)
    /\ Property \in Seq(Seq(Byte))

ASSUME NumberAssumption ==
    /\ Nonce \subseteq Nat
    /\ Decimals \subseteq Nat
    /\ Quantity \subseteq Seq(Digit)

ASSUME CallAssumption ==
    NoCall \in Calls /\ Calls \subseteq [function : Seq(Byte), args : Seq(Added)]

VARIABLES
    amount,      \* the amount being typed
    payments,    \* the TokenPayments made so far
    destination, \* m_destination of the NFT builders, empty before it is set
    call,        \* m_contractCall
    properties,  \* the ESDT properties that are true
    ops          \* operations so far

vars == <<amount, payments, destination, call, properties, ops>>

At == 64   \* '@'

Properties == {Property[i] : i \in DOMAIN Property}

-----------------------------------------------------------------------------
(* Arguments and calls *)

\* util::stringToHex: two digits for each byte.
stringToHex(s) ==
    [i \in 1..(2 * Len(s)) |->
        HexDigit(IF i % 2 = 1 THEN s[(i + 1) \div 2] \div 16 ELSE s[i \div 2] % 16)]

\* SCArguments::add, its three overloads: an address is its public key.
Argument(a) == IF a.is = "number" THEN getHexValue(a.of) ELSE stringToHex(a.of)

String(s) == [is |-> "string", of |-> s]
Number(n) == [is |-> "number", of |-> n]

\* SCArguments::asOnData.
asOnData(args) ==
    LET d[n \in 0..Len(args)] ==
            IF n = 0 THEN <<>> ELSE d[n - 1] \o (<<At>> \o Argument(args[n]))
    IN d[Len(args)]

\* The arguments would be appended also when there is no function (mutant).
CallAsOnDataAlways(c) ==
    (IF c.function = <<>> THEN <<>> ELSE <<At>> \o stringToHex(c.function))
    \o asOnData(c.args)

\* ContractCall::asOnData.
CallAsOnData(c) ==
    IF c.function = <<>> THEN <<>>
    ELSE (<<At>> \o stringToHex(c.function)) \o asOnData(c.args)

-----------------------------------------------------------------------------
(* Payloads; a builtin function is named by its initial *)

ESDTTransfer         == <<69>>
ESDTNFTTransfer      == <<78>>
MultiESDTNFTTransfer == <<77>>
Issue                == <<105>>
True  == <<116>>
False == <<102>>

\* The payment of a builder that was given none.
NoPayment == Payment(<<>>, 0, <<Zero>>, 0)

m_payment == IF payments = <<>> THEN NoPayment ELSE payments[Len(payments)]

ESDTPayload(p, c) ==
    ESDTTransfer \o asOnData(<<String(p.token), Number(p.value)>>) \o CallAsOnData(c)

\* The quantity would come before the nonce (mutant).
NFTPayloadSwapped(p, d, c) ==
    ESDTNFTTransfer
    \o asOnData(<<String(p.token), Number(p.value), Number(Decimal(p.nonce)), String(d)>>)
    \o CallAsOnData(c)

NFTPayload(p, d, c) ==
    ESDTNFTTransfer
    \o asOnData(<<String(p.token), Number(Decimal(p.nonce)), Number(p.value), String(d)>>)
    \o CallAsOnData(c)

\* Three arguments for each payment.
PaymentArguments(ps) ==
    [i \in 1..(3 * Len(ps)) |->
        LET p == ps[(i + 2) \div 3]
        IN IF i % 3 = 1 THEN String(p.token)
           ELSE IF i % 3 = 2 THEN Number(Decimal(p.nonce)) ELSE Number(p.value)]

MultiPayload(ps, d, c) ==
    MultiESDTNFTTransfer
    \o asOnData(<<String(d), Number(Decimal(Len(ps)))>> \o PaymentArguments(ps))
    \o CallAsOnData(c)

\* operator!= would leave out the last property (mutant).
DiffersButLast(props) == props \cap {Property[i] : i \in 1..(Len(Property) - 1)} # {}

\* esdtProperties != ESDT_ISSUANCE_DEFAULT_PROPERTIES, all of which are false.
DiffersFromDefault(props) == props # {}

\* Two arguments for each property: its name and whether it is set.
PropertyArguments(props) ==
    [i \in 1..(2 * Len(Property)) |->
        LET name == Property[(i + 1) \div 2]
        IN String(IF i % 2 = 1 THEN name ELSE IF name \in props THEN True ELSE False)]

IssuePayload(token, ticker, supply, numDecimals, props) ==
    Issue
    \o asOnData(<<String(token), String(ticker), Number(supply), Number(Decimal(numDecimals))>>)
    \o (IF DiffersFromDefault(props) THEN asOnData(PropertyArguments(props)) ELSE <<>>)

-----------------------------------------------------------------------------
(* What the network reads (external) *)

\* The parts of a payload between the separators, read from the left: a
\* separator opens a part, any other character belongs to the last one.
AddChar(parts, c) ==
    IF c = At THEN Append(parts, <<>>)
    ELSE [parts EXCEPT ![Len(parts)] = Append(@, c)]

Parts(data) ==
    LET p[n \in 0..Len(data)] == IF n = 0 THEN <<<<>>>> ELSE AddChar(p[n - 1], data[n])
    IN p[Len(data)]

Nibble(c) == IF c \in Digit THEN c - Zero ELSE IF c \in 97..102 THEN c - 87 ELSE 16

\* An argument has an even number of hexadecimal digits.
IsHex(part) == Len(part) % 2 = 0 /\ \A i \in DOMAIN part : Nibble(part[i]) < 16

Bytes(part) == [i \in 1..(Len(part) \div 2) |->
                   16 * Nibble(part[2 * i - 1]) + Nibble(part[2 * i])]

BigEndian(bytes) ==
    LET v[n \in 0..Len(bytes)] == IF n = 0 THEN 0 ELSE 256 * v[n - 1] + bytes[n]
    IN v[Len(bytes)]

\* Every argument of the payload can be read.
WellFormed(data) ==
    LET parts == Parts(data) IN \A i \in 2..Len(parts) : IsHex(parts[i])

Arguments(data) ==
    LET parts == Parts(data) IN [i \in 1..(Len(parts) - 1) |-> Bytes(parts[i + 1])]

\* The payment that begins at argument i: token, nonce, quantity.
PaymentAt(args, i) ==
    [token |-> args[i], nonce |-> BigEndian(args[i + 1]), quantity |-> BigEndian(args[i + 2])]

Rest(args, i) == SubSeq(args, i, Len(args))

-----------------------------------------------------------------------------
(* Operations of the program *)

Does == ops < MaxOps /\ ops' = ops + 1

Init ==
    /\ amount = <<>> /\ payments = <<>> /\ destination = <<>>
    /\ call = NoCall /\ properties = {} /\ ops = 0

\* The user types a character of an amount.
Type(c) ==
    /\ Does
    /\ amount' = Append(amount, c)
    /\ UNCHANGED <<payments, destination, call, properties>>

Pays(p) ==
    /\ Does /\ Len(payments) < MaxPayments
    /\ payments' = Append(payments, p)
    /\ UNCHANGED <<destination, call, properties>>

\* TokenPayment::fungibleFromAmount of what was typed.
FungibleFromAmount(token, numDecimals) ==
    /\ Accepted(amount)
    /\ amount' = <<>>
    /\ Pays(Payment(token, 0, bigUIntFromVal(amount, numDecimals), numDecimals))

\* TokenPayment::metaESDTFromAmount.
MetaESDTFromAmount(token, nonce, numDecimals) ==
    /\ Accepted(amount)
    /\ amount' = <<>>
    /\ Pays(Payment(token, nonce, bigUIntFromVal(amount, numDecimals), numDecimals))

\* TokenPayment::fungibleFromBigUInt, metaESDTFromBigUInt and semiFungible,
\* which fix the nonce or the decimals at 0.
FromBigUInt(token, value) ==
    /\ UNCHANGED amount
    /\ \E nonce \in Nonce \cup {0}, d \in Decimals \cup {0} :
          Pays(Payment(token, nonce, value, d))

\* TokenPayment::nonFungible.
NonFungible(token, nonce) ==
    /\ UNCHANGED amount
    /\ Pays(Payment(token, nonce, <<Zero + 1>>, 0))

SetDestination(d) ==
    /\ Does
    /\ destination' = d
    /\ UNCHANGED <<amount, payments, call, properties>>

WithContractCall(c) ==
    /\ Does
    /\ call' = c
    /\ UNCHANGED <<amount, payments, destination, properties>>

WithProperties(props) ==
    /\ Does
    /\ properties' = props
    /\ UNCHANGED <<amount, payments, destination, call>>

Next ==
    \/ \E c \in Char : Type(c)
    \/ \E token \in Token :
          \/ \E d \in Decimals : FungibleFromAmount(token, d)
          \/ \E nonce \in Nonce, d \in Decimals : MetaESDTFromAmount(token, nonce, d)
          \/ \E value \in Quantity : FromBigUInt(token, value)
          \/ \E nonce \in Nonce : NonFungible(token, nonce)
    \/ \E d \in Destination : SetDestination(d)
    \/ \E c \in Calls : WithContractCall(c)
    \/ \E props \in SUBSET Properties : WithProperties(props)

Spec == Init /\ [][Next]_vars

-----------------------------------------------------------------------------
(* Properties *)

TenTo[k \in Nat] == IF k = 0 THEN 1 ELSE 10 * TenTo[k - 1]

(***************************************************************************)
(* The value of an amount is the amount times 10^decimals, and no more     *)
(* than the digits past the token's decimals are lost, always downwards:   *)
(* whatever zeroes lead or trail and wherever the point is.                *)
(***************************************************************************)
AmountExact ==
    Accepted(amount) =>
        LET n == Value(removePoint(amount))
            k == IF Points(amount) = {} THEN 0
                 ELSE Len(amount) - CHOOSE i \in Points(amount) : TRUE
        IN \A d \in Decimals :
              LET v == Value(bigUIntFromVal(amount, d))
              IN v * TenTo[k] <= n * TenTo[d] /\ n * TenTo[d] < (v + 1) * TenTo[k]

(***************************************************************************)
(* The amount toPrettyString shows for a payment is accepted again and     *)
(* gives the payment's value back.                                         *)
(***************************************************************************)
PrettyReadsBack ==
    \A i \in DOMAIN payments :
        LET p == payments[i]
        IN /\ Accepted(PrettyAmount(p))
           /\ Value(bigUIntFromVal(PrettyAmount(p), p.decimals)) = Value(p.value)

\* What the network should read of a payment and of the contract call.
Ordered(p) == [token |-> p.token, nonce |-> p.nonce, quantity |-> Value(p.value)]

ReadsCall(rest) ==
    IF call.function = <<>> THEN rest = <<>>
    ELSE /\ Len(rest) = 1 + Len(call.args)
         /\ rest[1] = call.function
         /\ \A i \in DOMAIN call.args :
               IF call.args[i].is = "number"
               THEN BigEndian(rest[i + 1]) = Value(call.args[i].of)
               ELSE rest[i + 1] = call.args[i].of

(***************************************************************************)
(* The network reads the payload of a transfer as it was ordered: the      *)
(* token, the quantity and the call, whatever bytes are in an identifier   *)
(* or an argument and whatever the parity of a number's digits.            *)
(***************************************************************************)
ESDTReadsBack ==
    m_payment.nonce = 0 =>
        LET data == ESDTPayload(m_payment, call)
            args == Arguments(data)
        IN /\ WellFormed(data)
           /\ [token |-> args[1], nonce |-> 0, quantity |-> BigEndian(args[2])]
                 = Ordered(m_payment)
           /\ ReadsCall(Rest(args, 3))

(***************************************************************************)
(* ... and those of the transfers of one and of several tokens, which name *)
(* their destination.                                                      *)
(***************************************************************************)
NFTReadsBack ==
    destination # <<>> =>
        LET one   == NFTPayload(m_payment, destination, call)
            args  == Arguments(one)
            multi == MultiPayload(payments, destination, call)
            margs == Arguments(multi)
            n     == Len(payments)
        IN /\ WellFormed(one) /\ WellFormed(multi)
           /\ PaymentAt(args, 1) = Ordered(m_payment)
           /\ args[4] = destination
           /\ ReadsCall(Rest(args, 5))
           /\ margs[1] = destination
           /\ BigEndian(margs[2]) = n
           /\ \A i \in 1..n : PaymentAt(margs, 3 * i) = Ordered(payments[i])
           /\ ReadsCall(Rest(margs, 3 * n + 3))

(***************************************************************************)
(* The network reads an issuance with the supply, the decimals and exactly *)
(* the properties that were set, a property that is not mentioned being    *)
(* false.                                                                  *)
(***************************************************************************)
IssueReadsBack ==
    \A i \in DOMAIN payments :
        LET p    == payments[i]
            data == IssuePayload(p.token, p.token, p.value, p.decimals, properties)
            args == Arguments(data)
            Set(name) == \E j \in 5..(Len(args) - 1) :
                            j % 2 = 1 /\ args[j] = name /\ args[j + 1] = True
        IN /\ WellFormed(data)
           /\ BigEndian(args[3]) = Value(p.value)
           /\ BigEndian(args[4]) = p.decimals
           /\ properties = {name \in Properties : Set(name)}
=============================================================================
