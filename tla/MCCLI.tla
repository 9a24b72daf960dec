--------------------------------- MODULE MCCLI ---------------------------------
(***************************************************************************)
(* Instances of CLI for TLC: two networks with different prices, texts of  *)
(* transactions of different lengths, and lines of every kind: good ones,  *)
(* lines ArgHandler refuses, and lines a handler throws for.               *)
(***************************************************************************)
EXTENDS CLI, TLC

MCNetwork == {"Testnet", "Local"}
MCTextLength == [n \in MCNetwork |-> IF n = "Local" THEN 305 ELSE 307]
MCParameters == [n \in MCNetwork |-> [minGasLimit |-> 5,
                    gasPerDataByte |-> IF n = "Local" THEN 1 ELSE 2]]

Line(kind, given) == [words |-> Commands[kind], given |-> given]
Having(line, option, value) == [line EXCEPT !.given = option :> value @@ @]
Without(line, option) ==
    [line EXCEPT !.given = [o \in DOMAIN @ \ {option} |-> @[o]]]

\* In one file the halves are of two key pairs.
MCKeyFile == <<"k">> :> [seed |-> "a", address |-> "a"]
             @@ <<"m">> :> [seed |-> "a", address |-> "b"]

New == Line("new", "key" :> <<"k">> @@ "receiver" :> <<"r">> @@ "outfile" :> <<"o">>
                   @@ "data" :> <<"d">>)
Issue == Line("issue", "key" :> <<"k">> @@ "token" :> <<"t">> @@ "ticker" :> <<"T">>
                       @@ "supply" :> <<"1">> @@ "dec" :> <<"0">>)
Pays == Line("transfer", "key" :> <<"m">> @@ "receiver" :> <<"r">>
                         @@ "token" :> <<"t">> @@ "args" :> <<"0a", "3f6f">>)

\* Lines no handler sees: an option of another command, a nonce that is not a
\* number, a word too many, an empty text, a request for help, no command.
Refused ==
    {Having(New, "args", <<"0a">>), Having(New, "nonce", Bad),
     [New EXCEPT !.words = Append(@, "x")], Having(New, "data", <<>>),
     [words |-> <<"esdt", "help">>, given |-> <<>>],
     [words |-> <<"esdt">>, given |-> <<>>]}

MCOrders ==
    {New, Having(New, "key", Bad), Having(New, "receiver", Bad),
     Without(New, "receiver"), Having(New, "outfile", Bad), Without(New, "outfile"),
     Issue, Having(Issue, "supply", Bad), Pays, Without(Pays, "receiver")} \cup Refused

FunctionOrders == {Having(Having(Pays, "function", <<"f">>), "args", <<"0a">>),
                   Without(Having(Pays, "function", <<"f">>), "args"),
                   Having(Pays, "nonce", <<"7">>)} \cup Refused

OptionOrders == {New, Having(New, "version", <<"2">>), Having(New, "options", <<"1">>)}
                \cup Refused

MCTxLength ==
    [t \in {NewTx(o, n).of : o \in {x \in MCOrders \cup OptionOrders :
                                        Request(x) = "new" /\ Good(x)},
                             n \in MCNetwork} |->
        IF t.chainID = "Local" THEN 2 ELSE 1]
=============================================================================
