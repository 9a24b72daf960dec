------------------------------- MODULE MCWallet -------------------------------
(***************************************************************************)
(* An instance of Wallet for TLC.  Keys of two bytes are eight hexadecimal *)
(* digits and eleven characters of base64, in lines of four; as with 128   *)
(* digits, ten characters hold one digit less.  The messages are a         *)
(* transaction's text, and digits that could be a length: one of them, and *)
(* so many that their number has two and three digits itself.              *)
(***************************************************************************)
EXTENDS Wallet

MCSeed == {<<16, 255>>, <<171, 4>>}
MCPkOf(s) == IF s = <<16, 255>> THEN <<62, 27>> ELSE <<9, 240>>

MCGarbage == <<7, 7, 7, 7>>

MCTransactions == {<<123, 125>>, <<123, 49, 125>>}
MCMessages ==
    MCTransactions \cup {<<>>, <<49>>} \cup {[i \in 1..n |-> 49] : n \in {11, 101}}

\* Two bytes leave four bits of the fourth group over.
MCAddresses ==
    {<<1, 31, 9, last>> : last \in {0, 1, 8, 16, 17}}
        \cup {<<31, 3, 16>>, <<1, 31, 9, 16, 0>>, <<1, 31, 9, 16, 0, 0>>, <<>>}
=============================================================================
