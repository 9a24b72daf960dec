---------------------------------- MODULE CLI ----------------------------------
(***************************************************************************)
(* The commands of the command line (src/cli/cli_handler.cpp,              *)
(* cli_utility.cpp, secretkeyprovider.cpp): `transaction new`, `esdt       *)
(* issue` and `esdt transfer`, each a process that reads the configuration *)
(* file of CLIConfig while other processes set the network.                *)
(*                                                                         *)
(* A network is also the chain of its proxy, which is what config.toml     *)
(* says.  A key pair stands for its seed, its public key and the address   *)
(* made of that.  A key file gives a seed and an address, which nobody     *)
(* compares: they need not be of the same pair.  The data of a transaction *)
(* is the sequence of the parts between its separators, and its size their *)
(* number; a signature is the key and the content it was made for.         *)
(*                                                                         *)
(* Every handler runs under one try block: a command that throws prints    *)
(* the reason and ends, with the exit code of one that succeeded.  Here    *)
(* `network set` meets no faults; for those see CLIConfig.                 *)
(***************************************************************************)
EXTENDS CLIConfig, GasEstimator, Arguments

CONSTANTS
    Orders,       \* the command lines, of Arguments, that the users type
    KeyFile,      \* text of --key -> the seed and the address in that file
    Parameters,   \* network -> the NetworkConfig its proxy answers
    CommandFaults,\* a subset of {"crash", "full", "readonly"}: a command is
                  \* killed, the outfile's disk is full, it cannot be opened
    TxLength,     \* transaction -> length of its JSON text
    GivenLength,  \* length of the text a user left in the outfile
    MaxCommands   \* bound: the commands of a behaviour that build one

VARIABLES
    stage,    \* process -> where it is in its handler
    order,    \* process -> its command line
    made,     \* process -> the transaction it has signed
    outfile,  \* [tx, length]: the transaction whose text begins the outfile,
              \* if any, and its length; None without a file
    sent,     \* what reached a proxy: transactions and the proxy's network
    commands  \* how many commands have begun

cliVars == <<stage, order, made, outfile, sent, commands>>
allVars == <<vars, cliVars>>

ASSUME OrdersAssumption ==
    \A o \in Orders : DOMAIN o = {"words", "given"} /\ Request(o) # "set"

\* ESDT_ISSUANCE_ADDRESS
System == <<"system">>

ASSUME SystemAssumption == None # System

Blank == [tx |-> None, length |-> 0]

-----------------------------------------------------------------------------
(* The transactions *)

\* getSeed() and getAddress() of the key file that is opened.
Key(o) == KeyFile[Value(o, "key")]

\* Transaction::sign, with the Signer of a seed.
SignedBy(t, seed) == [of |-> t, signature |-> [key |-> seed, of |-> t]]

\* serialize(), which sign() begins with, throws without a receiver.
Signable(t) == t.receiver # None

\* utility::signTransaction: the sender is the address of the key file, the
\* signature its seed's.
Signed(t, k) == SignedBy([t EXCEPT !.sender = k.address], k.seed)

\* Without the option, m_receiver is a null pointer.
Receiver(o) == IF Given(o, "receiver") THEN Value(o, "receiver") ELSE None

\* utility::createTransaction: the chain of the configuration and the options
\* as they are.
Created(o, n) ==
    [sender |-> None, receiver |-> Receiver(o), chainID |-> n,
     data |-> Value(o, "data"), gasLimit |-> 0]

\* `transaction new`, of a line whose transaction is signable.
NewTx(o, n) == Signed(Created(o, n), Key(o))

\* `esdt issue`: TransactionFactory::createESDTIssue, whose gas limit is
\* fixed, and buildSigned, which leaves the sender as it is.
IssueTx(o, n) ==
    SignedBy([sender |-> Key(o).address, receiver |-> System, chainID |-> n,
              data |-> <<"issue", "token", "supply">>, gasLimit |-> 60],
             Key(o).seed)

\* The data of createESDTTransfer(...)->build(), before the arguments are
\* appended.
Plain == <<"ESDTTransfer", "token", "value">>

\* A transfer with the gas limit that is estimated for its data.
Transfer(o, n, data) ==
    [sender |-> Key(o).address, receiver |-> Receiver(o), chainID |-> n, data |-> data,
     gasLimit |-> forESDTTransfer(Parameters[n], Len(data))]

\* The gas limit would stay the one of the plain transfer (mutant).
TransferTxUnpaid(o, n) ==
    Signed([Transfer(o, n, Plain) EXCEPT !.data = @ \o Value(o, "args")], Key(o))

\* The transaction would be signed by buildSigned, before the arguments are
\* appended (mutant).
TransferTxEarly(o, n) ==
    [of |-> Transfer(o, n, Plain \o Value(o, "args")),
     signature |-> [key |-> Key(o).seed, of |-> Transfer(o, n, Plain)]]

\* `esdt transfer`: the arguments are written through m_data, the gas limit
\* is estimated again and the transaction signed last.  The function is read
\* from the options and not used.
TransferTx(o, n) == Signed(Transfer(o, n, Plain \o Value(o, "args")), Key(o))

-----------------------------------------------------------------------------
(* The handlers *)

CLIInit ==
    /\ Init
    /\ stage = [p \in Process |-> "idle"]
    /\ order = [p \in Process |-> None]
    /\ made = [p \in Process |-> None]
    /\ outfile \in {None, [tx |-> None, length |-> GivenLength]}
    /\ sent = {}
    /\ commands = 0

\* The process goes on, or ends and forgets everything.
Goes(p, to) == stage' = [stage EXCEPT ![p] = to] /\ UNCHANGED <<vars, order, commands>>

Ends(p) ==
    /\ stage' = [stage EXCEPT ![p] = "idle"]
    /\ order' = [order EXCEPT ![p] = None]
    /\ made' = [made EXCEPT ![p] = None]
    /\ UNCHANGED <<vars, commands>>

\* ArgHandler::parse, then CLIConfig().config(), the first thing every handler
\* does: the configuration it is shown here is the one it uses to its end.  A
\* line that makes no request of a handler changes nothing.
Begin(p, o) ==
    /\ Request(o) \in DOMAIN Needs
    /\ stage[p] = "idle" /\ commands < MaxCommands
    /\ Load(p)
    /\ stage' = [stage EXCEPT ![p] = "loaded"]
    /\ order' = [order EXCEPT ![p] = o]
    /\ commands' = commands + 1
    /\ UNCHANGED <<made, outfile, sent>>

\* The handler gets to its first look at the outfile or the network:
\* `transaction new` has signed by then.
Prepares(p) ==
    /\ Good(order[p])
    /\ Request(order[p]) = "new" => Signable(Created(order[p], shown[p]))

\* SecretKeyProvider, then createTransaction; `transaction new` signs.
Prepare(p) ==
    /\ stage[p] = "loaded" /\ Prepares(p)
    /\ IF Request(order[p]) = "new"
       THEN made' = [made EXCEPT ![p] = NewTx(order[p], shown[p])] /\ Goes(p, "signed")
       ELSE UNCHANGED made /\ Goes(p, "prepared")
    /\ UNCHANGED <<outfile, sent>>

\* IFile::checkFile: the file is there, and its name ends as it must.
OutfileFits(p) == outfile # None /\ Value(order[p], "outfile") # Bad

\* IFile file(path, "json")
CheckOutfile(p) ==
    /\ stage[p] = "signed" /\ OutfileFits(p)
    /\ Goes(p, "checked")
    /\ UNCHANGED <<made, outfile, sent>>

\* The outfile would be opened before the key is read (mutant).
OpenOutfileEarly(p) ==
    /\ stage[p] = "loaded" /\ Request(order[p]) = "new" /\ outfile # None
    /\ outfile' = Blank
    /\ IF Prepares(p)
       THEN made' = [made EXCEPT ![p] = NewTx(order[p], shown[p])] /\ Goes(p, "writing")
       ELSE Ends(p)
    /\ UNCHANGED sent

\* std::ofstream outFile(...), which empties the file.
OpenOutfile(p) ==
    /\ stage[p] = "checked"
    /\ outfile' = Blank
    /\ Goes(p, "writing")
    /\ UNCHANGED <<made, sent>>

\* outFile << transaction.serialize(); outFile.close(): the end of a longer
\* text of another process remains behind this one.
WriteOutfile(p) ==
    /\ stage[p] = "writing"
    /\ LET length == TxLength[made[p].of]
       IN outfile' = [tx |-> made[p],
                      length |-> IF outfile.length > length THEN outfile.length ELSE length]
    /\ Ends(p)
    /\ UNCHANGED sent

\* The outfile cannot be opened for writing, or its disk is full; nobody
\* looks at the state of outFile.
WritesNothing(p) ==
    /\ \/ stage[p] = "checked" /\ "readonly" \in CommandFaults
       \/ stage[p] = "writing" /\ "full" \in CommandFaults
    /\ Ends(p)
    /\ UNCHANGED <<outfile, sent>>

\* The supply of an issue is a number, and a transfer has a receiver: without
\* one, `*tx.m_receiver` is a null pointer and the process dies.
Buildable(o) ==
    IF Request(o) = "issue" THEN Value(o, "supply") # Bad ELSE Receiver(o) # None

\* ProxyProvider(config.proxyUrl).getNetworkConfig(); with the answer the
\* transaction is built and signed.
Ask(p) ==
    /\ stage[p] = "prepared" /\ Buildable(order[p])
    /\ made' = [made EXCEPT ![p] =
                  IF Request(order[p]) = "issue" THEN IssueTx(order[p], shown[p])
                  ELSE TransferTx(order[p], shown[p])]
    /\ Goes(p, "built")
    /\ UNCHANGED <<outfile, sent>>

\* The proxy to send to would be looked up again (mutant).
SendReloaded(p) ==
    /\ stage[p] = "built"
    /\ sent' = sent \cup {[tx |-> made[p], to |-> Config(file)]}
    /\ Ends(p)
    /\ UNCHANGED outfile

\* proxy.send(tx), of the same ProxyProvider, reaches the network.
Send(p) ==
    /\ stage[p] = "built"
    /\ sent' = sent \cup {[tx |-> made[p], to |-> shown[p]]}
    /\ Ends(p)
    /\ UNCHANGED outfile

\* The handler throws: a key file or an option it cannot read, a transaction
\* that cannot be signed, no outfile, no answer to getNetworkConfig, a
\* transaction that cannot be built or did not get through.
Throw(p) ==
    /\ \/ stage[p] = "loaded" /\ ~Prepares(p)
       \/ stage[p] = "signed" /\ ~OutfileFits(p)
       \/ stage[p] \in {"prepared", "built"}
    /\ Ends(p)
    /\ UNCHANGED <<outfile, sent>>

\* The process is killed.
Kill(p) ==
    /\ "crash" \in CommandFaults /\ stage[p] # "idle"
    /\ Ends(p)
    /\ UNCHANGED <<outfile, sent>>

\* `network set`, by a process that does nothing else.
SetNetwork(p) ==
    /\ stage[p] = "idle"
    /\ \E n \in Network : Read(p, n)
    /\ UNCHANGED cliVars

SettingNetwork(p) == Steps(p) /\ UNCHANGED cliVars

CLINext ==
    \E p \in Process :
        \/ SetNetwork(p) \/ SettingNetwork(p)
        \/ \E o \in Orders : Begin(p, o)
        \/ Prepare(p)
        \/ CheckOutfile(p) \/ OpenOutfile(p) \/ WriteOutfile(p) \/ WritesNothing(p)
        \/ Ask(p) \/ Send(p)
        \/ Throw(p)
        \/ Kill(p)

CLISpec == CLIInit /\ [][CLINext]_allVars

\* The operating system runs a `network set` that has begun until it ends.
CLIFairSpec == CLISpec /\ \A p \in Process : WF_allVars(SettingNetwork(p))

-----------------------------------------------------------------------------
(* Properties *)

\* The outfile holds the text of a transaction and nothing else.
OutfileWhole ==
    IF outfile = None THEN FALSE ELSE IF outfile.tx = None THEN FALSE
    ELSE outfile.length = TxLength[outfile.tx.of]

\* What leaves the process: the transactions in the outfile and on the wire.
Left == {s.tx : s \in sent} \cup (IF OutfileWhole THEN {outfile.tx} ELSE {})

\* Transaction::verify: the signature is the sender's, for what there is;
\* without a receiver it throws.
Verifies(t) ==
    t.of.receiver # None /\ t.signature.key = t.of.sender /\ t.signature.of = t.of

\* t is, as it is, signed with the seed of k and sent from its address.
SignedWith(t, k) ==
    t.of.sender = k.address /\ t.signature = [key |-> k.seed, of |-> t.of]

(***************************************************************************)
(* A transaction is sent to the network it was signed for, whatever other  *)
(* processes do to the configuration while the command runs.               *)
(***************************************************************************)
SentWhereSigned == \A s \in sent : s.tx.of.chainID = s.to

(***************************************************************************)
(* What a command sends or leaves in its outfile is signed, as it is, with *)
(* one key file: nothing is changed after the signing, and no sender comes *)
(* from another file.  It verifies if and only if the seed and the address *)
(* of that file, which no reader compares, belong together.                *)
(***************************************************************************)
LeftVerifies ==
    \A t \in Left : \E o \in Orders :
        /\ Request(o) \in DOMAIN Needs /\ Good(o)
        /\ SignedWith(t, Key(o))
        /\ Verifies(t) <=> Key(o).seed = Key(o).address

(***************************************************************************)
(* The gas limit of a transfer pays for all its data, the arguments        *)
(* appended last included, at the prices of the network it is sent to.     *)
(***************************************************************************)
TransfersPay ==
    \A s \in sent : s.tx.of.data[1] = "ESDTTransfer" =>
        s.tx.of.gasLimit >= MoveBalanceGas(Parameters[s.to], Len(s.tx.of.data))
                            + CostTransfer

(***************************************************************************)
(* A command that throws, for its line, its key file, a receiver that is   *)
(* missing or its outfile, leaves the outfile as it was.  What is in it is *)
(* given up only by a process that nothing makes throw any more, as it has *)
(* signed the transaction its line asks for; and only for that transaction *)
(* or, until it is written or if that fails, for nothing.                  *)
(***************************************************************************)
OutfileKept ==
    [][outfile' # outfile =>
        \E p \in Process :
            /\ stage[p] \in {"checked", "writing"}
            /\ Request(order[p]) = "new" /\ Good(order[p]) /\ Receiver(order[p]) # None
            /\ made[p] = NewTx(order[p], shown[p])
            /\ outfile' = Blank \/ outfile'.tx = made[p]]_allVars

(***************************************************************************)
(* "Smart contract function": the function of a transfer is called with    *)
(* the arguments.  Not so: the arguments are sent without the function.    *)
(***************************************************************************)
FunctionIsCalled ==
    \A p \in Process :
        LET function == Value(order[p], "function")
        IN stage[p] = "built" /\ Request(order[p]) = "transfer" /\ function # <<>> =>
            Len(made[p].of.data) > 3 /\ <<made[p].of.data[4]>> = function

(***************************************************************************)
(* "--options arg  Transaction options (default: 0)": a command whose      *)
(* options are given as its help says gets past them.  Not so: a line with *)
(* --options throws, as the number is declared with 32 bits and read with  *)
(* 64.                                                                     *)
(***************************************************************************)
OptionsAreTaken ==
    \A p \in Process :
        stage[p] = "loaded" /\ AsTheHelpSays(order[p]) => Good(order[p])
=============================================================================
