------------------------------ MODULE MCPayments ------------------------------
(***************************************************************************)
(* Instances of Payments for TLC: amounts typed with '0', '7', '.' and a   *)
(* letter; one identifier has an '@' in it; numbers with an odd and an     *)
(* even number of hexadecimal digits.                                      *)
(***************************************************************************)
EXTENDS Payments

MCChar == {48, 55, 46, 120}
MCToken == {<<84, 64>>}
MCNonce == {10}
MCQuantity == {<<49, 53>>, <<50, 53, 54>>}   \* "15", "256"
MCDestination == {<<0, 64>>}
MCProperty == <<<<1>>, <<2>>>>

NoArgs == [function |-> <<>>, args |-> <<>>]
MCCalls ==
    {NoArgs,
     [function |-> <<>>, args |-> <<Number(<<49>>)>>],
     [function |-> <<102>>, args |-> <<Number(<<48>>), String(<<64>>)>>],
     [function |-> <<103>>, args |-> <<[is |-> "address", of |-> <<0, 64>>], Number(<<50, 53, 54>>)>>]}
=============================================================================
