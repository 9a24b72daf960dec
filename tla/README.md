# A verification project for mx-sdk-cpp

The repository is `mx-sdk-cpp`, a C++17 client library (`erdcpp`) for the
MultiversX blockchain and the command line program built on it. These modules
model the parts with state, order, arithmetic or text formats that can go wrong;
TLC checks them on small instances and TLAPS proves the most important properties
for every value of the constants. Paths below are relative to the repository root;
`PROJECT.json` maps every definition to the lines it stands for.

To check one run: `tlc -config CommandLine.cfg MCCLI`. To check the proofs of one
module: `tlapm WalletProofs.tla`.

## 1. The system

The library has no threads and no global state. What is hard in it comes from
five places: objects that share what their pointers point to; files that several
processes rewrite, or that arrive damaged; a network that loses and delays;
arithmetic at fixed widths; and text formats that another program reads.

| component | state | operations | interacts with |
|---|---|---|---|
| Transaction (`src/transaction/transaction.cpp`) | six fields by value, seven behind `std::shared_ptr` | construct, assign, copy, `sign`, `verify`, `serialize`, `deserialize` | Signer, JSON library, encodings; shares pointees with its copies and its builder |
| Factory and builders (`transaction_factory.cpp`, `transaction_builders.cpp`, `itransaction_builder.cpp`) | input, version, options pointer, contract call | `create...`, `withVersion`, `withOptions`, `withContractCall`, `build`, `buildSigned` | payload builders, gas estimator, Transaction |
| Gas estimator (`gas_estimator.cpp`) | a copy of the network configuration | four estimates | builders, command line |
| Payload builders, contract arguments (`payload_builder.cpp`, `src/smartcontracts`) | payments, destination, call, properties | setters, `build` | big integers; read by the network |
| Token payments (`token_payment.cpp`, `src/internal/biguint.cpp`) | token, nonce, value as decimal text, decimals | constructors, `toPrettyString`, `getHexValue` | payload builders |
| Proxy provider (`src/provider`, `src/wrappers/httpwrapper.h`) | none | `getAccount`, `send`, `getTransactionStatus`, queries | the network over HTTP, one request per call |
| Account (`src/account/account.cpp`) | nonce and balance as the network last told | `incrementNonce` | provider, transactions |
| Configuration file (`cli/config/cliconfig.cpp`) | `config.toml`, shared by all processes | `config`, `setNetwork` | every command |
| Argument parsing (`cli/inputhandler`) | none | `parse`, the reading of options | handlers |
| Command handlers (`cli/cli_handler.cpp`) | the process's transaction, the outfile | `transaction new`, `esdt issue`, `esdt transfer`, `network set` | all of the above |
| Key files (`src/filehandler`, `cli/secretkeyprovider.cpp`) | none; files are read at once | `PemFileReader`, `KeyFileReader`, `SecretKeyProvider` | encodings, cryptography; wallets write the files |
| Addresses (`src/account/address.cpp`) | text and key | two constructors | encodings, transactions, payloads |
| Message signer (`src/transaction/messagesigner.cpp`) | a seed | `getSignature`, `verify` | keccak, ed25519; shares its key with transactions |
| Encodings (`src/utils`) | none | base64, hexadecimal, regrouping of bits | key files, addresses, payloads, transactions |
| Cryptography (`src/wrappers`) | none | hash, sign, derive, authenticate, decrypt | key files, signers |

What makes each correct, in short:

- **Transaction**: `verify()` accepts only what the sender's key signed; signing
  always makes it verifiable; no operation reaches another object unasked; a text
  that was published reads back.
- **Builders**: what is built goes where it was ordered, pays for its bytes, is
  signed last, and stays as it is when the builder is used again.
- **Gas**: the estimate is never short because a 32 bit sum wrapped.
- **Payments**: no amount changes on its way to the network, which parses the
  payload by separators and position.
- **Proxy**: an exception from `send` says nothing about the network; repeating
  must not pay twice, a returned hash must mean something.
- **Configuration**: a rewrite of a shared file that is not atomic must behave as
  one register, as far as it can; a command must use what the file selects.
- **Handlers**: what leaves the process is signed, paid for and sent to the network
  it was signed for; a command that throws destroys nothing.
- **Key files**: a file that was cut, converted or damaged gives its own key or
  none, and never another one in silence.
- **Messages**: a signature for one purpose is no signature for another.
- **Addresses**: one key has one address.

The hazards, each at its line and with the properties that would catch it, are in
`PROJECT.json`.

## 2. The modules

| module | models | composed from |
|---|---|---|
| `Transaction` | objects, shared pointees, signatures, texts | |
| `GasEstimator` | the estimates at their widths | |
| `TransactionBuilders` | factory and four kinds of builder | EXTENDS `Transaction`, `GasEstimator` |
| `NetworkSelection` | what the configuration file promises (abstract) | |
| `CLIConfig` | the file, step by step, many processes | implements `NetworkSelection` |
| `Arguments` | lines, requests, options, pure operators | |
| `CLI` | the handlers next to `network set` | EXTENDS `CLIConfig`, `GasEstimator`, `Arguments` |
| `TokenPayment` | amounts and big integers, pure operators | |
| `Payments` | a user's payments and calls, the payloads, the network's reading of them | EXTENDS `TokenPayment` |
| `PaidOrders` | what a paying program may rely on (abstract) | |
| `ProxySession` | programs, a faulty connection, the network | implements `PaidOrders` |
| `Encodings` | base64, hexadecimal, regrouping of bits, pure operators | |
| `Wallet` | key files and what happens to them, opened keys, signatures, addresses | EXTENDS `Encodings` |
| `DataInduction` | induction and recursion over numbers and sequences, folds: lemmas only | |
| `*Proofs` | theorems; those about `Transaction` are in `TransactionBuildersProofs` | extend the module they are about |
| `MC*` | instances for TLC | extend the module they instantiate |

### Transaction

`tx[h][f]` is the value of field `f` of holder `h`, `Null` for a null pointer.
There is no heap: `peers[h][f]` is the set of other holders whose pointer `f` has
the same pointee. Assigning a pointer leaves that set (`Detach`), copying an object
joins it (`Join`), `*t.m_data = ...` reaches everyone in it (`WriteData`). This is
the whole of what `shared_ptr` can do to a program without threads. A builder is a
holder too, because its options pointer is shared with everything it builds.

A JSON text is a function on the keys it has. What is written and how it is read is
in the tables `Encode` and `Decode`, with three facts assumed of them: they invert
each other in one direction, reading gives values of the field, an address is kept
as the text it was made from. `Decode` may accept texts that are never written.
A signature is a term `[key, msg, of]`; `verify` reads the first two, `of` is a
history record for the properties. keccak is taken as injective, ed25519 as
unforgeable.

`deserialize` first looks for the eight required keys and then assigns one field at
a time; `Assigned(w)` is the set it assigns before the first text that throws, so
an object that is half of one transaction and half of another is a reachable state.
The tables of `MCTransaction` contain the text of an upper case bech32 address, one
that cannot be read, one that is never written but readable, and signatures that no
Signer made or that are no strings.

### TransactionBuilders and GasEstimator

`input[b]` is the `TransactionBuilderInput`, `call[b]` the contract call, version
and options live in `tx[b]`. Payload texts are values of a table by kind,
destination and call; that those texts are right is the business of `Payments`, and
`PayloadAssumption` is what is used of it: a payload that names a destination names
one only. `U32` and `U64` are the sizes of the integer types:
`minGasLimit + GAS_COST` is computed in 32 bits in the code and is here too.

### NetworkSelection, CLIConfig

`NetworkSelection` is a register: `Set`, `Show`, and `Lose` if it is not durable.
`CLIConfig` is what the code does: `Read` (finds the line to replace, throws without
it), `Open` (truncates), `Write` (the whole text, from the start of the file),
`Report`; a process may crash in between or fail to write. The text is below a
stream buffer's size, so a write is one step. A text is the network of its
`CLIConfig` line and the bytes left behind it by longer texts (`Overwrite`),
which may or may not parse. The refinement is `Selection`: the register changes when
the file is *truncated*, so a killed process loses it only after that point.

### Arguments, CLI

A line is `[words, given]`: its words, and the options that were given with the
parts of their texts between commas; `"?"` is a part that what reads it cannot read.
`Request` is `ArgHandler::parse`, with its order of cases, `CanParse` what the parser
accepts for the declared types, `Good` what a handler reads of its options before it
asks the network.

In `CLI` there is one action per point at which another process can act: `Begin`
(parses the line, reads the configuration), `Prepare` (key file, options,
transaction; `transaction new` signs it here), `CheckOutfile`, `OpenOutfile`, `WriteOutfile`, `Ask` (network
parameters, build, append the arguments, estimate again, sign), `Send`; and `Throw`,
`WritesNothing`, `Kill`. `network set` is `CLIConfig`'s, unchanged. A transaction is
a sender, a receiver, a chain, a sequence of data parts and a gas limit.

Without `--receiver` the receiver is a null pointer (`Receiver`). `transaction new`
throws for it when it signs, as `serialize` asks for a receiver: that is before the
outfile is looked at (`Signable`, `Prepares`). A transfer gets as far as the network's
answer and dies there (`Buildable`). An issue does not use it.

A key file gives a seed and an address (`KeyFile`, `Key`), which for a PEM file are two
halves that nothing compares. The sender is the address, the signature the seed's, so
that the two agree is a fact about the file and not about the code; one of the files of
`MCCLI` has halves of two key pairs.

### Payments, TokenPayment

Texts are sequences of character codes. Each payload is written by the builders'
definitions and read by `Parts`, `Bytes`, `BigEndian` and `PaymentAt`, an
independent definition of how the network reads arguments (external). The loops over
texts and numbers are recursive functions, so that they can be proved about.

### PaidOrders, ProxySession

`PaidOrders` is an order seen from outside: it is paid once or never, with an outcome
settled when it is paid, and a program learns that outcome or nothing.

In `ProxySession`, `requests` holds requests under way; a lost one simply stays
there. The network (external: `chain`, `pool`, `Answer...`, `Execute`) may take a
request after the client timed out, may lose the reply, and may answer an error with
or without data, and with or without a text. The programs (external: the usage of
`README.md` and the examples)
hold an `Account`, count its nonce up when `send` returns and repeat the same
transaction when it throws. What is the SDK's is `PayLoad`, the predicates of
`TransactionStatus`, the requests and what each call returns. The refinement maps
the chain to the payments and a program's verdicts to what it has learned.

### Encodings, Wallet

`Encodings` has the loops of `base64.cpp`, `hex.cpp` and `bits.cpp`, each as a
recursive function over its input with its accumulators as they are: base64 never clears bits it has
used, so its accumulator is kept modulo `IntSize`. Characters are numbers: for base64
the index in the alphabet, for hexadecimal digits the ASCII code.

`Wallet` follows a key from the file to what it signs. A PEM file is a sequence of
lines; reading joins the lines that do not begin with dashes, decodes base64, then
hexadecimal digits, then cuts the pair of keys in half. A key file is its fields;
scrypt, HMAC and AES are terms, equal for equal arguments only, and a wrong key or
initialisation vector decrypts to `Garbage`. Wallets (external) write either kind.
What happens to a file afterwards: it ends early, at any character (`CutPem`,
`CutStore`), its lines get other ends (`ConvertLineEnds`), a field is lost or
replaced (`DamageStore`). A program opens the file with a password, signs messages
and transactions, and reads addresses of others.

## 3. What the runs show

| run | shows | bounds |
|---|---|---|
| `TransactionSigning` | verify accepts only signed content; signing makes verifiable; texts read back | two objects, hash signing on and off, two spellings of one address |
| `TransactionSharing` | types and sharing are consistent; operations reach only their object | two objects, all pointer operations on `data`, readable, unwritten and unreadable texts |
| `TransactionReuse` | **violation**: `deserialize` keeps old optional fields | as above |
| `Builders` | delivery, gas, signing, and leaving alone what was built, for all kinds | one builder, two transactions, five inputs, two calls, 3 bits for gas |
| `ConfigRegister` | one process at a time is `NetworkSelection` | crash and full disk at every step, four networks |
| `ConfigFullDisk` | **violation**: a failed write is reported as a change | one process |
| `CommandLine` | the handlers' properties and the file's, together | two processes, two networks, four `network set`, two commands, all command faults, sixteen lines, two key files |
| `CommandFunction` | **violation**: the function of a transfer is not called | one process |
| `CommandOptions` | **violation**: no line with `--options` is taken | one process |
| `Payments` | amounts and payloads read back | five operations, two payments, five characters |
| `ProxySession` | no double payment, true verdicts, no nonce gap; the session is `PaidOrders` | two programs, two orders, five and two calls |
| `Wallet` | a file gives its key or none; signatures have one purpose; a key has one address | two keys of two bytes, two passwords, two damages, six messages, nine addresses |

Why the bounds are enough. Sharing needs two holders, as every operation names at
most two; `Builders` has three with the builder. A partial deserialization needs one
unreadable key among two texts. The file's interleavings need two writers, one text
that is shorter than another, and a third and fourth `network set` to see what comes
after a text is ruined; a command may run in between. A widths mistake shows at any
width: with 3 bits for `uint32_t`, the product of a length and its price, which the
code keeps in 64, does not fit. A double payment needs a late request,
its repetition, a second order and a second program taking the nonce: five calls and
two. An amount needs digits on both sides of a point with more and fewer digits than
decimals. Keys of two bytes give eight hexadecimal digits and eleven characters of
base64; as with the 128 digits of the code, the last group is not full and the text
is padded, and the bits of an address leave a rest as those of 32 bytes do; with
16 bits the accumulator of base64 overflows as it does with 32. Bounds of counters
(`MaxSets`, `MaxCommands`, `MaxCalls`, `MaxOrders`, `MaxOps`, `MaxPayments`,
`MaxDamage`) are in guards and end behaviours, so runs that have them turn deadlock
checking off where they really end. The proofs hold without bounds on the numbers of
objects, builders, processes, networks, keys and damages, nor on the lengths of
texts and payloads.

Fairness is assumed once, in `CLIFairSpec`: the operating system runs a
`network set` that has begun to its end (`WF` on `SettingNetwork(p)`). There is
nothing to wait for in it: no lock, no reply. Nothing is assumed of commands that
wait for the network, nor that anyone begins one. `EmptyGetsWritten` is the
liveness property that needs it.

## 4. What is proved

Every theorem is for all values of the constants under named assumptions, which
TLC evaluates in the runs: `CodecAssumption`, `HolderAssumption`,
`DefaultAssumption` (Transaction), `InputsAssumption`, `PayloadAssumption`,
`BuiltAssumption` (TransactionBuilders), `GasAssumption`, `ConfigAssumption`, `OrdersAssumption`
and `SystemAssumption` (CLI; the address that issues tokens is not nothing), `SessionAssumption`, `TextAssumption`, `NumberAssumption`, `CallAssumption`
(Payments), `IntAssumption` (Encodings: an int has 16 bits or more), and in Wallet
`SeedAssumption`, `LineAssumption` (a line of a PEM file is not all digits of the keys
but one), `GarbageAssumption` (the cipher keeps lengths), `AddressAssumption`,
`MessageAssumption`, `TransactionAssumption`, `JunkAssumption` and `NoneAssumption`
(what stands for nothing is no password and no file).

- **`VerifiedContentTheorem`**, `SignMakesVerifiableTheorem`, `TypeCorrect`,
  `OthersUntouchedTheorem` (`TransactionBuildersProofs`). The invariant asked for,
  "a verified content is a signed one", says nothing of the objects that do not
  verify now and may after the next copy or assignment, nor of the published text.
  The inductive one, `SignaturesHonest`, is `TypeOK`'s `ValuesOK` and `WireOK`: *every* signature,
  in objects and in the text, was made by a Signer and its message is the message
  of the content it records. From this, `MessageInjective` (the text determines the
  fields, hashed or not, because written texts are read back) gives the theorem.
  `PeersOK`, the rest of `TypeOK`, needs a case for each way `Detach` and `Join`
  change an equivalence relation.
- **`PublishedTextReadsBackTheorem`** (`TransactionBuildersProofs`): from `WireOK`, every
  key of the published text but the signature is one that a codec wrote, and
  `WireSigned`, a signature in it is not null; so all keys are readable and all are
  assigned (`ReadsBack`), and what is left of the object are its optional fields.
- **`BuiltAsOrderedTheorem`, `GasPaysForDataTheorem`, `BuildSignedVerifiesTheorem`,
  `BuiltUntouchedTheorem`** (`TransactionBuildersProofs`). `BuilderInv`, that a builder
  has an input of the factory and keeps it, is all the state they need; the rest is
  `BuildsFields`, what an object that was built holds field by field. Gas is proved
  under `BuildsInRange`: no sum for these inputs leaves its width, which the prices of
  a network and the sizes of payloads guarantee and the code does not check.
- **`BuildersVerifiedContent`, `BuildersTypeCorrect`** (`TransactionBuildersProofs`): the
  invariants of the objects hold with builders at work. Their invariant is `BuildInv`,
  the two above and `PeersOK`; `BuiltIsObject` and `BuiltKeepsClasses` are its new cases,
  a transaction that is built joins its builder in the options alone. The `Builders`
  run leaves these two out; the runs of `Transaction` check them without builders.
- **`EstimatesCover`** (`GasEstimatorProofs`): the estimates cover bytes and
  transfers while no sum leaves its width. The theorems on gas of builders and of
  commands are made of it.
- **`ConfigTypeCorrect`, `NeverLeftEmptyTheorem`, `ShownSelectionTheorem`,
  `RuinedForGoodTheorem`** for any number of processes; **`RegisterTheorem`**
  (`CLIProofs`): for one process at a time, with crashes and full disks,
  `CLIConfig` implements `NetworkSelection`. It needs `Whole`: alone, a process leaves
  no bytes of a longer text behind and writes into an empty file.
  `ShownSelectionTheorem` names the two situations in which a command is shown
  something other than what the file selects; `RuinedForGoodTheorem` says that one of
  them never ends.
- **`CommandsKeepConfig`** (`CLIProofs`): the composed system behaves, on the file, as
  `CLIConfig`, so the theorems above hold next to commands
  (`NeverLeftEmptyNextToCommands` and its like). **`SentWhereSignedTheorem`,
  `LeftVerifiesTheorem`, `OutfileKeptTheorem`** from `CLIInv`: what a process has made
  is what its order asks for on the network it was shown, and what left came from
  there. `OneHandler` is needed in it because a process that set the network would
  be shown another one, `Handled` because a handler reads its line once and trusts it
  to the end. `LeftVerifies` is an equivalence: what is left verifies exactly if the
  halves of the key file it was signed with belong together. It needs that everything
  signed has a receiver (`SignedAsOrdered`), which `new` owes to `Signable`, a transfer
  to `Buildable` and an issue to the address of the system contract. `OutfileKept` says
  of every change of the outfile which process made it and that nothing can make that
  one throw any more; a process that is killed, or whose disk is full, right after it
  has emptied the file does leave it empty. **`TransfersPayTheorem`** adds `SentAsOrdered`, what was sent is
  what some line asks for on the network it went to, and `PricesInRange`, as above.
- **`PaidOnceTheorem`, `NoGapTheorem`, `HashMeansTakenTheorem`, `VerdictTrueTheorem`,
  `SessionTypeCorrect`, `PaidOrdersTheorem`** (`ProxySessionProofs`) from `SessionInv`, under
  `SessionAssumption`. None of the properties is inductive: what they say of the
  network has to hold of what is under way. `Known` is every transaction the
  network has or may still receive; `SameNonce` says that those of one order have
  one nonce, and that a program which may ask for a new nonce has sent nothing for
  its order; `GapFree` that all nonces below a known one, or below the one in an
  Account, have been accepted; `ReplyTrue` that a reply that waits to be read is
  still true when it is read; `Working` that a waiting program has not moved to
  another order. `StepGrows` is the fact they rest on: what the network has taken
  stays taken. The refinement is proved from the same invariant: an execution is
  `Pay` because the order was not paid before, a verdict is `Learn` because the reply
  that waits is true.
- **`StoreKeepsSeedTheorem`** (`WalletProofs`): after any number of damaged fields a key
  file opens, with its password, as the seed that was written, or its initialisation
  vector was damaged; the invariant says of every field that it is what was written
  unless it was damaged. **`MessagesApartTheorem`**: the signature for a message is
  none for another message nor for a transaction, for messages of any length and
  transactions that begin with a brace. The code puts the length in decimal digits
  right before the message, and messages may begin with digits; that no two are
  confused is `DecimalGrows`: the longer of two messages has no fewer digits before it,
  so texts of one length are of messages of one length.
- **`Base64ReadsBack`, `HexReadsBack`, `GroupsReadBack`** (`EncodingsProofs`), for bytes
  of any number. Base64 never clears its accumulator, so the invariants of its loops,
  `EncodeGood` and `DecodeGood`, speak of its last bits only, which the overflow of an
  int keeps (`IntModulo`), and say character by character what is written (`Sextet`)
  and byte by byte what is read (`Octet`). `DecodeReads` is more than reading back: a
  text that is cut, or goes on with a character outside the alphabet, gives the first
  of its bytes. For `convertBits` the invariant, `Fits`, takes both ways at once: the
  groups so far are those that come back from the bytes so far, and those that wait for
  the next byte; `Rest` says for each number of waiting bits which they are.
- **`OpensAsWrittenTheorem`**, **`CutKeepsSeedTheorem`**, **`TypeOKTheorem`**
  (`WalletProofs`), for keys, lines and passwords of any length. The invariant about a
  PEM file is `PemInv`: its lines read as a beginning of the text that was written
  (`Reads`), and it is that text unless something happened to it. The length of the
  beginning decides: all digits give both keys, all but one, which only a cut leaves
  (`LineAssumption`), give the public key without its last digit, anything else is
  not the length of two keys (`ReadHalves`). A cut keeps `Reads` because lines that are
  lost leave a beginning, or one and the dashes of a rule (`CutContinues`); other line
  ends keep it because base64 stops at the first of them (`ConvertContinues`). For key
  files `StoreWhole` and `StoreFileTyped` are added; their sum is `WalletInv`.
- **`AddressCanonicalTheorem`** (`WalletProofs`): from `GroupsReadBack`, for an address
  that is accepted. What is rejected is what the theorem needs: whole groups, and bits
  other than 0, that are left over.

- **`AmountsExact`, `PrettyAmountsReadBack`, `ESDTTransfersReadBack`,
  `NFTTransfersReadBack`, `IssuancesReadBack`** (`PaymentsProofs`), for texts, amounts
  and payloads of any length. The state needs little, `Typed`: payments have a text
  that was accepted or built from one. The argument is about data. For amounts:
  `ValueConcat`, the value of a text is that of its two parts, and `RemovePointConcat`
  make a text with a point worth what its digits say; `AcceptedSplits` and `Joined`
  take the text apart and put it together again. For payloads: `PaddedReadsBack`, the
  hexadecimal digits of a number are of even length and read back as its bytes;
  `PayloadParts`, separators occur between arguments only; hence
  `PayloadReadsBack`, the network reads the arguments that were added, one by one.
  Each lemma on a recursive function has a pair, `...Fold` (the function exists and has
  its equations) and `...Unfold` (what one more element does).
- **`DataInduction`** is what they all rest on. The library states induction for
  predicates, which none of the provers instantiates here; these lemmas state it for
  sets, from the well-founded order on the numbers: a set that has 0 and the successors of its
  members has every number, a set that has the empty sequence and every extension of
  its members has every sequence, and a fold over a sequence exists.

Only model-checked: `EmptyGetsWritten`, because liveness under fairness and `ENABLED`
are not for this prover, and the four violations, which are counterexamples.

## 5. Where code and documentation disagree

1. `TransactionReuse`: `deserialize` "into current object" (`examples/examples.md:126`)
   assigns an optional field only if the text has it. An object that held data,
   options or a signature keeps them and is then neither transaction.
2. `ConfigFullDisk`: `setNetwork` does not look at the state of the stream
   (`cli/config/cliconfig.cpp:82`). On a full disk the file is left empty, the
   handler prints "Config changed to", every later command uses the fallback and
   every later `network set` throws.
3. `CommandFunction`: `esdt transfer --function` ("Smart contract function") is read
   and not used (`cli/cli_handler.cpp:95`); the arguments go out with the first one
   in the place of the function.
4. `CommandOptions`: `--options` of `transaction new` ("Transaction options (default:
   0)", `examples/examples.md:341`) is declared as `uint32_t`
   (`cli/inputhandler/options.cpp:52`) and read as `uint64_t`
   (`transaction_input_wrapper.cpp:14`). The parser casts by reference to the type it
   is asked for, so every line that gives the option throws.

Observed, and in the models where they matter, but contradicting no document:

- every command exits with 0, also when it throws; the outfile must already exist
  (`IFile`); `transaction new` with a bad key never opens the outfile; a transfer
  without `--receiver` dereferences a null pointer; its `--gas-limit` is overwritten by
  the estimate (`cli_handler.cpp:123`); the default of `--args` is one empty argument,
  so every transfer ends in `@`;
- the fallback network is shown while another process is between truncation and
  write; two `network set` at once may leave the end of a longer text behind, after
  which nothing but an editor helps;
- the two halves of a PEM file are not checked against each other, and a file that was
  cut may open with the last digit of its public key missing; the code of a key file
  does not cover the initialisation vector; the length of the secret is not checked;
- an `Address` made of a text keeps the case of its letters and any length of key;
- `transaction new` without `--receiver` throws when it signs;
- the status `fail` is not `isExecuted()`, so polling for that alone would not end;
- any code of a reply that contains "success" is taken for one, "unsuccessful" too.

## 6. What is not modelled

- Balance queries and `getNetworkConfig` of the provider, `operator==`: they change
  nothing.
- The formatting of JSON and of printed output, the HTTP library, the parser of
  options (cxxopts): third-party code or layout. What they do to a program that uses
  them is in the models: keys that are missing, replies that do not come, values of
  another type.
- The insides of cryptography, and the checksum of bech32: vendored, as terms.
- `BigUInt`'s arithmetic, vendored; its conversions are in `TokenPayment`.
- Damage of the outfile by two writers: `WriteOutfile` models it (the end of a longer
  text stays), but nothing in the code keeps the file whole, so no property claims it;
  `LeftVerifies` speaks of whole texts.
- Key stores in which a cipher text and its code are exchanged for those of another
  file with the same password: the result is a good file, for another key.

## 7. Plan

Built, in this order: `Transaction` with its proofs, `GasEstimator`, the builders,
the configuration file with its abstract specification, payments, the proxy
session with its proofs, the handlers over the configuration file with theirs; then
the abstract ledger of paid orders, the encodings, the wallet, command lines, what a
command is shown of the file, and the proofs about builders, transfers, payments, key
files, encodings, addresses and messages.

Every safety property of the passing runs is proved. Next, to prove: what
`NetworkSelection` and `PaidOrders` promise, as invariants and action properties of
their own (a verdict is final, payments are never taken back), carried over to
`CLIConfig` and `ProxySession` by the refinements, so that a reader need not derive
them from the actions of the abstract specifications.
