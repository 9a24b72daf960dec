------------------------------ MODULE Arguments ------------------------------
(***************************************************************************)
(* The command line of erdcpp: which request ArgHandler makes of it, and   *)
(* what the handlers read of its options                                   *)
(* (src/cli/inputhandler, transaction_input_wrapper.cpp).                  *)
(*                                                                         *)
(* A line is [words, given]: its words, the command and the subcommand     *)
(* first, and the texts of the options given.  A text is the sequence of   *)
(* its parts between commas, empty for the empty text; "?" stands for a    *)
(* part that what reads it cannot read.                                    *)
(***************************************************************************)
EXTENDS Integers, Sequences

Bad == <<"?">>

-----------------------------------------------------------------------------
(* The options that are declared *)

Properties == {"can-freeze", "can-wipe", "can-pause", "can-mint", "can-burn",
               "can-change-owner", "can-upgrade", "can-add-roles"}

OptionsOf ==
    [new |-> {"nonce", "value", "receiver", "receiver-name", "sender-name", "gas-price",
              "gas-limit", "data", "version", "options", "key", "password", "outfile"},
     issue |-> {"token", "ticker", "supply", "dec", "gas-price", "key", "password",
                "nonce"} \cup Properties,
     transfer |-> {"nonce", "gas-price", "gas-limit", "receiver", "token", "value",
                   "function", "args", "key", "password"},
     set |-> {"config"}]

\* cxxopts::value<T>()
Type(option) ==
    IF option \in {"nonce", "gas-price", "gas-limit", "version"} THEN "uint64"
    ELSE IF option \in {"options", "dec"} THEN "uint32"
    ELSE IF option \in Properties THEN "bool"
    ELSE IF option = "args" THEN "texts"
    ELSE "text"

\* default_value; these options have one.
Defaulted == {"receiver-name", "sender-name", "data", "version", "options", "password",
              "function", "args"} \cup Properties

Default(option) ==
    IF option = "version" THEN <<"1">> ELSE IF option = "options" THEN <<"0">>
    ELSE IF option \in Properties THEN <<"false">>
    ELSE IF option = "args" THEN <<"">>   \* an empty text has one part
    ELSE <<>>

-----------------------------------------------------------------------------
(* ArgHandler *)

Commands == [new |-> <<"transaction", "new">>, issue |-> <<"esdt", "issue">>,
             transfer |-> <<"esdt", "transfer">>, set |-> <<"network", "set">>]

Help == {"help", "--help", "-h"}

IsHelp(line) ==
    /\ DOMAIN line.given = {}
    /\ \E h \in Help :
          \/ line.words = <<h>>
          \/ \E cmd \in {"transaction", "esdt", "network"} : line.words = <<cmd, h>>

\* cxxopts parses typed values, and refuses options it does not know; more
\* words and empty texts are refused here.
CanParse(line, kind) ==
    /\ DOMAIN line.given \subseteq OptionsOf[kind]
    /\ \A o \in DOMAIN line.given :
          Type(o) \notin {"text", "texts"} => line.given[o] # Bad
    /\ Len(line.words) = 2
    /\ \A o \in DOMAIN line.given : line.given[o] # <<>>

\* The first two words are the command and the subcommand.
Asks(line, kind) == Len(line.words) >= 2 /\ SubSeq(line.words, 1, 2) = Commands[kind]

\* ArgHandler::parse: "invalid" does nothing, "error" throws.
Request(line) ==
    IF IsHelp(line) THEN "help"
    ELSE IF \E kind \in DOMAIN Commands : Asks(line, kind)
    THEN LET kind == CHOOSE k \in DOMAIN Commands : Asks(line, k)
         IN IF CanParse(line, kind) THEN kind ELSE "error"
    ELSE "invalid"

-----------------------------------------------------------------------------
(* What the handlers read *)

Given(line, option) == option \in DOMAIN line.given

\* result[option].as<T>(), with the type that is declared.
HasValue(line, option) == Given(line, option) \/ option \in Defaulted
Value(line, option) == IF Given(line, option) THEN line.given[option] ELSE Default(option)

\* getUserInputOrDefault and getUserInputIfExists: an option that is given
\* must be read with the type it was declared with, or as<T>() throws.
Reads(line, option, type) == Given(line, option) => Type(option) = type

\* utility::createTransaction gets all its inputs.  The options are read as
\* 64 bits, whatever getUserInputIfExists<T> makes of them; BigUInt and
\* Address throw for a text they cannot read.  No receiver is as good as one:
\* it is whoever signs or builds the transaction that throws or dies of it.
CreatesTransaction(line) ==
    /\ \A o \in {"nonce", "gas-price", "gas-limit", "version", "options"} :
          Reads(line, o, "uint64")
    /\ \A o \in {"value", "receiver", "receiver-name", "sender-name", "data"} :
          Reads(line, o, "text")
    /\ \A o \in {"value", "receiver"} : Given(line, o) => line.given[o] # Bad

\* The options a handler reads without asking whether they are there.
Needs ==
    [new |-> {"outfile", "key"},
     issue |-> {"token", "ticker", "supply", "dec", "key"} \cup Properties,
     transfer |-> {"token", "function", "args", "key"}]

\* SecretKeyProvider opens the key file; see Wallet.
KeyOpens(line) == HasValue(line, "key") /\ Value(line, "key") # Bad

\* A handler gets past its options, its key file and createTransaction; see
\* Prepares and Buildable in CLI for what stops it then.
Good(line) ==
    /\ \A o \in Needs[Request(line)] : HasValue(line, o)
    /\ KeyOpens(line)
    /\ CreatesTransaction(line)

-----------------------------------------------------------------------------
(* Properties *)

\* A line as the help asks for it: the options it names, in their form.
AsTheHelpSays(line) ==
    /\ Request(line) \in DOMAIN Needs
    /\ \A o \in Needs[Request(line)] : HasValue(line, o)
    /\ \A o \in DOMAIN line.given : line.given[o] # Bad
=============================================================================
