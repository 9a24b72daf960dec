-------------------------------- MODULE Wallet --------------------------------
(***************************************************************************)
(* The keys of a user: PEM files and password-protected key files, as      *)
(* PemFileReader, KeyFileReader and SecretKeyProvider read them; what is   *)
(* signed with an opened key (Signer, MessageSigner); and the addresses    *)
(* others are known by (Address).                                          *)
(*                                                                         *)
(* The key file is written by another program, which may die on the way,   *)
(* and copied, converted or altered by others still.  A PEM file is its    *)
(* lines, of the characters of Encodings; keys are shorter than in the     *)
(* code by a factor which keeps what base64 and bech32 leave over at the   *)
(* end.  Hash functions, ciphers and signatures are terms, equal for equal *)
(* arguments only.                                                         *)
(***************************************************************************)
EXTENDS Encodings, FiniteSets, SequencesExt

CONSTANTS
    Seed,          \* the seeds of the user's keys: sequences of bytes
    SeedLength,    \* SEED_LENGTH; a public key is as long
    PkOf(_),       \* the public key of a seed
    LineLength,    \* characters of a line of a PEM file
    Password, Salt, IV,
    Garbage,       \* the bytes that a wrong key or initialisation vector gives
    None, Junk,    \* nothing; another value than the one that was written
    Messages,      \* what the user signs
    Transactions,  \* serialized transactions
    Addresses,     \* texts of addresses, as their groups of 5 bits
    MaxDamage      \* bound: what happens to a file

CR == 65
Dash == 66
Letter == 67       \* of "BEGIN PRIVATE KEY ..."

ASSUME SeedAssumption ==
    /\ SeedLength \in Nat \ {0}
    /\ \A s \in Seed : /\ s \in Seq(Byte) /\ Len(s) = SeedLength
                       /\ PkOf(s) \in Seq(Byte) /\ Len(PkOf(s)) = SeedLength

\* Whole lines of a PEM file, without the last, are not all of its digits but
\* one: lines have 64 characters, the 128 digits of the keys take 171.
ASSUME LineAssumption ==
    /\ LineLength \in Nat \ {0}
    /\ (3 * LineLength) \div 4 # 4 * SeedLength - 1

\* The cipher neither shortens nor lengthens what it is given.
ASSUME GarbageAssumption == Garbage \in Seq(Byte) /\ Len(Garbage) = 2 * SeedLength

ASSUME AddressAssumption == \A groups \in Addresses : groups \in Seq(Byte)

ASSUME MessageAssumption == \A m \in Messages : m \in Seq(Byte)

\* Every transaction is a JSON object.
ASSUME TransactionAssumption == \A t \in Transactions : Len(t) > 0 /\ t[1] = 123

VARIABLES
    file,      \* the key file: [kind, content], or None
    written,   \* the seed and the password it was written for (history)
    damage,    \* what has happened to it since (history)
    key,       \* what the file was opened as, in a program that runs; None
    signed,    \* the last signature, and what it was made for (history); None
    peer       \* the address of somebody else; None, Invalid

vars == <<file, written, damage, key, signed, peer>>

-----------------------------------------------------------------------------
(* PEM files *)

Rule == [i \in 1..5 |-> Dash]

\* Wallets write the hexadecimal digits of both keys, as base64, in lines.
PemText(s) ==
    LET text == encode(stringToHex(s \o PkOf(s)))
        lines == (Len(text) + LineLength - 1) \div LineLength
    IN <<Rule \o <<Letter>>>>
       \o [i \in 1..lines |->
              SubSeq(text, (i - 1) * LineLength + 1,
                     IF i = lines THEN Len(text) ELSE i * LineLength)]
       \o <<Rule \o <<Letter>>>>

IsRule(line) == IsPrefix(Rule, line)

\* PemFileReader::getFileContent: the lines that do not begin with dashes.
KeyLines(lines) ==
    LET text[l \in 0..Len(lines)] ==
            IF l = 0 THEN <<>>
            ELSE IF IsRule(lines[l]) THEN text[l - 1] ELSE text[l - 1] \o lines[l]
    IN text[Len(lines)]

\* Any number of bytes that has a seed would do (mutant).
PemBytesShort(lines) ==
    LET bytes == hexToBytes(decode(KeyLines(lines)))
    IN IF Len(bytes) >= SeedLength THEN bytes ELSE Invalid

\* The constructor of PemFileReader: the bytes of both keys, or it throws.
PemBytes(lines) ==
    LET bytes == hexToBytes(decode(KeyLines(lines)))
    IN IF KeyLines(lines) = <<>> \/ Len(bytes) # 2 * SeedLength THEN Invalid ELSE bytes

-----------------------------------------------------------------------------
(* Password-protected key files *)

\* wrapper::crypto::scrypt, and the halves of what it derives.
Derived(password, salt) == [password |-> password, salt |-> salt]
FirstHalf(derived) == <<"first", derived>>
SecondHalf(derived) == <<"second", derived>>

hmacsha256(k, cipherText) == [key |-> k, of |-> cipherText]

\* CTR: the same operation both ways.
Encrypted(k, bytes, iv) == [key |-> k, of |-> bytes, iv |-> iv]

\* What the wallets encrypt.
CipherText ==
    {Encrypted(FirstHalf(Derived(password, salt)), s \o PkOf(s), iv) :
        password \in Password, salt \in Salt, s \in Seed, iv \in IV}

\* Junk is none of the values it stands in for.
ASSUME JunkAssumption ==
    /\ Junk \notin CipherText
    /\ \A password \in Password, salt \in Salt \cup {Junk}, c \in CipherText \cup {Junk} :
            hmacsha256(SecondHalf(Derived(password, salt)), c) # Junk

aes128ctrDecrypt(k, cipherText, iv) ==
    IF cipherText # Junk /\ cipherText = Encrypted(k, cipherText.of, iv)
    THEN cipherText.of ELSE Garbage

\* The file that a wallet writes.
Store(s, password, salt, iv) ==
    LET derived == Derived(password, salt)
        cipherText == Encrypted(FirstHalf(derived), s \o PkOf(s), iv)
    IN [version |-> 4, kdf |-> "scrypt", cipher |-> "aes-128-ctr", salt |-> salt,
        iv |-> iv, cipherText |-> cipherText,
        mac |-> hmacsha256(SecondHalf(derived), cipherText)]

\* KeyFileReader::getFileContent: any field that is missing or of another
\* type throws.
Parsed(store) == \A f \in DOMAIN store : store[f] # None

\* The files that there can be.
Mac == {hmacsha256(SecondHalf(Derived(password, salt)), c) :
            password \in Password, salt \in Salt, c \in CipherText}

PemFile == [kind : {"pem"}, content : Seq(Seq(Nat))]

StoreFile ==
    [kind : {"json"},
     content : [version : {4, None, Junk}, kdf : {"scrypt", None, Junk},
                cipher : {"aes-128-ctr", None, Junk}, salt : Salt \cup {None, Junk},
                iv : IV \cup {None, Junk}, cipherText : CipherText \cup {None, Junk},
                mac : Mac \cup {None, Junk}]]

\* None is no value of a file's, and no file.
ASSUME NoneAssumption ==
    /\ None \notin Password
    /\ None \notin [seed : Seed, password : Password \cup {None}]
    /\ None \notin PemFile /\ None \notin StoreFile
    /\ \A s \in Seed, password \in Password, salt \in Salt, iv \in IV :
            Parsed(Store(s, password, salt, iv))

\* The secret key would be decrypted whatever the code of the file (mutant).
deriveSecretKeyUnchecked(store, password) ==
    aes128ctrDecrypt(FirstHalf(Derived(password, store.salt)), store.cipherText, store.iv)

deriveSecretKey(store, password) ==
    LET derived == Derived(password, store.salt)
    IN IF hmacsha256(SecondHalf(derived), store.cipherText) # store.mac THEN Invalid
       ELSE aes128ctrDecrypt(FirstHalf(derived), store.cipherText, store.iv)

\* The constructor of KeyFileReader.
StoreBytes(store, password) ==
    IF ~Parsed(store) \/ store.version # 4 \/ store.cipher # "aes-128-ctr"
       \/ store.kdf # "scrypt"
    THEN Invalid
    ELSE deriveSecretKey(store, password)

-----------------------------------------------------------------------------
(* Signatures *)

\* std::to_string: the decimal digits of a number, as characters.
Decimal(n) ==
    LET d[k \in Nat] ==
            IF k < 10 THEN <<48 + k>> ELSE Append(d[k \div 10], 48 + (k % 10))
    IN d[n]

\* ERD_SIGNED_MSG_PREFIX, of which the first character matters.
Prefix == <<23>>

\* The message would be hashed as it is (mutant).
MessageTextBare(message) == message

MessageText(message) == Prefix \o Decimal(Len(message)) \o message

\* MessageSigner::computeERDPrefixedMsgHash; hashed tells a digest from the
\* text itself.
MessageHash(message) == [hashed |-> TRUE, text |-> MessageText(message)]

\* internal::getSerializedTxMsg, with the option to sign the hash or not.
TransactionHash(text, hashed) == [hashed |-> hashed, text |-> text]

\* Signer(seed).getSignature(text)
SignatureOf(seed, text) == [by |-> PkOf(seed), of |-> text]

\* Signer::verify, with a public key
Verify(signature, text, pk) == signature = [by |-> pk, of |-> text]

-----------------------------------------------------------------------------
(* Addresses *)

\* Address::computeBech32Address; bech32 itself adds and verifies a checksum.
ComputeBech32(pk) == convertBits(pk, 8, 5, TRUE)

\* The bits that are left over would not be looked at (mutant).
ComputePkLax(groups) ==
    LET bytes == convertBits(groups, 5, 8, TRUE)
    IN SubSeq(bytes, 1, (5 * Len(groups)) \div 8)

\* Address::computePkFromBech32
ComputePk(groups) == convertBits(groups, 5, 8, FALSE)

-----------------------------------------------------------------------------
(* The actions *)

Init ==
    /\ file = None
    /\ written = None
    /\ damage = {}
    /\ key = None
    /\ signed = None
    /\ peer = None

\* A wallet writes the file, over one that was there.  The readers read a file
\* at once, into memory: what happens to it while a program runs is the same
\* as after its end.
Writes(kind, content, seed, password) ==
    /\ key = None
    /\ file' = [kind |-> kind, content |-> content]
    /\ written' = [seed |-> seed, password |-> password]
    /\ damage' = {}
    /\ UNCHANGED <<key, signed, peer>>

WritePem(s) == Writes("pem", PemText(s), s, None)

WriteStore(s) ==
    \E password \in Password, salt \in Salt, iv \in IV :
        Writes("json", Store(s, password, salt, iv), s, password)

IsKind(kind) == file # None /\ file.kind = kind

Damaged(what, content) ==
    /\ key = None /\ Cardinality(damage) < MaxDamage
    /\ damage' = damage \cup {what}
    /\ file' = [file EXCEPT !.content = content]
    /\ UNCHANGED <<written, key, signed, peer>>

\* A PEM file ends after k characters of line l: the program that wrote it
\* was killed, or a copy is not complete.
CutPem ==
    /\ IsKind("pem") /\ "cut" \notin damage
    /\ LET lines == file.content
       IN \E l \in DOMAIN lines : \E k \in 0..(Len(lines[l]) - 1) :
            Damaged("cut", Append(SubSeq(lines, 1, l - 1), SubSeq(lines[l], 1, k)))

\* The lines of a PEM file end as on Windows.
ConvertLineEnds ==
    /\ IsKind("pem") /\ "ends" \notin damage
    /\ Damaged("ends", [l \in DOMAIN file.content |-> Append(file.content[l], CR)])

\* A key file that ends early is no JSON text.
CutStore ==
    /\ IsKind("json")
    /\ Damaged("cut", [f \in DOMAIN file.content |-> None])

\* A field of a key file is lost, or has another value.
DamageStore ==
    /\ IsKind("json")
    /\ \E f \in DOMAIN file.content, value \in {None, Junk} :
            f \notin damage /\ Damaged(f, [file.content EXCEPT ![f] = value])

\* What SecretKeyProvider reads, by the extension of a file that exists;
\* there are no other extensions here, which throw.
Bytes(password) ==
    IF file = None THEN Invalid
    ELSE IF file.kind = "pem" THEN PemBytes(file.content)
    ELSE IF password = None THEN Invalid
    ELSE StoreBytes(file.content, password)

\* SecretKeyProvider, with None for an empty password; a file that cannot be
\* read throws and leaves no key.
Open(password) ==
    /\ key = None
    /\ key' = IF Bytes(password) = Invalid THEN None
              ELSE [password |-> password,
                    seed |-> SubSeq(Bytes(password), 1, SeedLength),
                    address |-> SubSeq(Bytes(password), SeedLength + 1, Len(Bytes(password)))]
    /\ UNCHANGED <<file, written, damage, signed, peer>>

\* The program ends.
Close ==
    /\ key # None
    /\ key' = None
    /\ UNCHANGED <<file, written, damage, signed, peer>>

\* A signature is made with the key that is open.
Signs(purpose, text) ==
    /\ key # None
    /\ signed' = [signature |-> SignatureOf(key.seed, text), purpose |-> purpose]
    /\ UNCHANGED <<file, written, damage, key, peer>>

\* MessageSigner(seed).getSignature(message)
SignMessage(message) == Signs(<<"message", message>>, MessageHash(message))

\* Transaction::sign
SignTransaction(text, hashed) ==
    Signs(<<"transaction", text>>, TransactionHash(text, hashed))

\* Address(text) keeps the text it was given; the case of its letters is left
\* out.
ReadAddress(groups) ==
    /\ peer' = IF ComputePk(groups) = Invalid THEN Invalid
               ELSE [text |-> groups, pk |-> ComputePk(groups)]
    /\ UNCHANGED <<file, written, damage, key, signed>>

Next ==
    \/ \E s \in Seed : WritePem(s) \/ WriteStore(s)
    \/ CutPem \/ ConvertLineEnds
    \/ CutStore \/ DamageStore
    \/ \E password \in Password \cup {None} : Open(password)
    \/ Close
    \/ \E m \in Messages : SignMessage(m)
    \/ \E t \in Transactions, hashed \in BOOLEAN : SignTransaction(t, hashed)
    \/ \E groups \in Addresses : ReadAddress(groups)

Spec == Init /\ [][Next]_vars

-----------------------------------------------------------------------------
(* Properties *)

TypeOK ==
    /\ written \in {None} \cup [seed : Seed, password : Password \cup {None}]
    /\ file # None => \/ file.kind = "pem" /\ file \in PemFile
                      \/ file.kind = "json" /\ file \in StoreFile
    /\ file = None <=> written = None
    /\ damage \in SUBSET ({"cut", "ends"} \cup DOMAIN Store(<<>>, None, None, None))
    /\ key # None => /\ key.seed \in Seq(Byte) /\ Len(key.seed) = SeedLength
                     /\ key.address \in Seq(Byte) /\ Len(key.address) = SeedLength
    /\ peer \notin {None, Invalid} => peer.pk \in Seq(Byte)

(***************************************************************************)
(* A file that nothing has happened to opens, with its password, as the    *)
(* keys it was written for: through lines, base64 and hexadecimal digits,  *)
(* or through the derived key and the cipher.                              *)
(***************************************************************************)
OpensAsWritten ==
    written # None /\ damage = {} =>
        Bytes(written.password) = written.seed \o PkOf(written.seed)

(***************************************************************************)
(* A PEM file that was cut, or whose lines end otherwise, opens as the     *)
(* keys it was written for or not at all.  Only the last hexadecimal digit *)
(* of the public key may be missing: nothing reads the closing line, and   *)
(* an odd digit counts as a byte.                                          *)
(***************************************************************************)
CutKeepsSeed ==
    key # None /\ file.kind = "pem" =>
        LET pk == PkOf(written.seed)
        IN /\ key.seed = written.seed
           /\ \/ key.address = pk
              \/ /\ "cut" \in damage
                 /\ key.address = [pk EXCEPT ![SeedLength] = @ \div 16]

(***************************************************************************)
(* A key file opens with the password it was written with, as the keys it  *)
(* was written for, whatever happened to it: the code of the file covers   *)
(* the ciphertext and the parameters of the derived key.  It does not      *)
(* cover the initialisation vector.                                        *)
(***************************************************************************)
StoreKeepsSeed ==
    key # None /\ file.kind = "json" =>
        /\ key.password = written.password
        /\ key.seed = written.seed \/ "iv" \in damage

(***************************************************************************)
(* A signature is good for one purpose: that of a message is never one of  *)
(* another message or of a transaction, hashed or not, and the other way   *)
(* round, even when the message is the text of a transaction.              *)
(***************************************************************************)
MessagesApart ==
    signed # None =>
        /\ \A m \in Messages, s \in Seed :
              Verify(signed.signature, MessageHash(m), PkOf(s)) =>
                  signed.purpose = <<"message", m>>
        /\ \A t \in Transactions, hashed \in BOOLEAN, s \in Seed :
              Verify(signed.signature, TransactionHash(t, hashed), PkOf(s)) =>
                  signed.purpose = <<"transaction", t>>

(***************************************************************************)
(* No two texts are addresses of one public key, but for the case of their *)
(* letters: the text an address keeps is the one computed from its key.    *)
(* operator== compares keys, a transaction is serialized with the text.    *)
(***************************************************************************)
AddressCanonical ==
    peer \notin {None, Invalid} => peer.text = ComputeBech32(peer.pk)
=============================================================================
