------------------------------- MODULE CLIProofs -------------------------------
(***************************************************************************)
(* The configuration file for any number of processes and networks: the    *)
(* type invariant, that concurrent rewrites never leave the file empty,    *)
(* and that a process alone has the register of NetworkSelection.          *)
(*                                                                         *)
(* Next to it the commands, for any processes, networks, orders and        *)
(* faults: they leave the file to `network set`, what they send is signed  *)
(* for where it goes and paid for there, and the outfile is given up only  *)
(* for a signed transaction.                                               *)
(***************************************************************************)
EXTENDS CLI, GasEstimatorProofs, SequenceTheorems, TLAPS

-----------------------------------------------------------------------------
(* The configuration file, of CLIConfig *)

(***************************************************************************)
(* A text written over another one is a text that selects what the new one *)
(* does.                                                                   *)
(***************************************************************************)
LEMMA EndingType ==
    ASSUME NEW t \in Text, t.selected # None, NEW k \in Nat, k <= Length(t)
    PROVE  Ending(t, k) \in Seq({"newline", "other"})
<1> DEFINE B == {"newline", "other"}
<1>1. t.after \in Seq(B) /\ Len(t.after) \in Nat
  BY DEF Text
<1>2. CASE k <= Len(t.after)
  <2>1. SubSeq(t.after, Len(t.after) - k + 1, Len(t.after)) \in Seq(B)
    <3>1. \A i \in Len(t.after) - k + 1..Len(t.after) : t.after[i] \in B
      BY <1>1, <1>2
    <3> QED
      BY <1>1, <1>2, <3>1, SubSeqProperties
  <2> QED
    BY <1>2, <2>1 DEF Ending
<1>3. CASE ~(k <= Len(t.after))
  <2> DEFINE own == k - Len(t.after)
             s == [i \in 1..own |-> IF i = own THEN "newline" ELSE "other"]
  <2>1. own \in Nat
    BY <1>1, <1>3
  <2>2. s \in Seq(B)
    BY <2>1
  <2>3. s \o t.after \in Seq(B)
    BY <1>1, <2>2, ConcatProperties
  <2> QED
    BY <1>3, <2>3 DEF Ending
<1> QED
  BY <1>2, <1>3

LEMMA OverwriteType ==
    ASSUME NEW old \in Text, NEW new \in Text, new.selected # None
    PROVE  /\ Overwrite(old, new) \in Text
           /\ Overwrite(old, new).selected = new.selected
<1>1. Length(old) \in Nat /\ Length(new) \in Nat
  BY ConfigAssumption DEF Length, Text
<1>2. CASE Length(old) <= Length(new)
  BY <1>2 DEF Overwrite
<1>3. CASE ~(Length(old) <= Length(new))
  <2> DEFINE k == Length(old) - Length(new)
  <2>1. k \in Nat /\ k <= Length(old)
    BY <1>1, <1>3
  <2>2. old.selected # None
    BY <1>1, <1>3 DEF Length
  <2>3. Ending(old, k) \in Seq({"newline", "other"})
    BY <2>1, <2>2, EndingType
  <2>4. new.after \o Ending(old, k) \in Seq({"newline", "other"})
    BY <2>3, ConcatProperties DEF Text
  <2>5. Overwrite(old, new) = [new EXCEPT !.after = new.after \o Ending(old, k)]
    BY <1>3 DEF Overwrite
  <2> QED
    BY <2>4, <2>5 DEF Text
<1> QED
  BY <1>2, <1>3

LEMMA EmptyType == Empty \in Text /\ Empty.selected = None /\ Empty.after = <<>>
  BY DEF Empty, Text

LEMMA ConfigType == ASSUME NEW t \in Text PROVE Config(t) \in Network
  BY ConfigAssumption DEF Config, Text

LEMMA InitType == Init => TypeOK
<1> SUFFICES ASSUME Init PROVE TypeOK
  OBVIOUS
<1>1. PICK n \in Network : file = [selected |-> n, after |-> <<>>]
  BY DEF Init
<1>2. file \in Text
  BY <1>1, ConfigAssumption DEF Text
<1> QED
  BY <1>2, EmptyType DEF Init, TypeOK

LEMMA StepType == TypeOK /\ [Next]_vars => TypeOK'
<1> SUFFICES ASSUME TypeOK, [Next]_vars PROVE TypeOK'
  OBVIOUS
<1>1. ASSUME NEW p \in Process, Load(p) PROVE TypeOK'
  BY <1>1, ConfigType DEF TypeOK, Load
<1>2. ASSUME NEW p \in Process, NEW n \in Network, Read(p, n) PROVE TypeOK'
  <2>1. [file EXCEPT !.selected = n] \in Text
    BY <1>2, ConfigAssumption DEF TypeOK, Text, Read
  <2>2. [file EXCEPT !.selected = n].selected = n
    BY DEF TypeOK, Text
  <2> QED
    BY <1>2, <2>1, <2>2 DEF TypeOK, Read
<1>3. ASSUME NEW p \in Process, Open(p) PROVE TypeOK'
  BY <1>3, EmptyType DEF TypeOK, Open
<1>4. ASSUME NEW p \in Process, Write(p) PROVE TypeOK'
  <2>1. text[p] \in Text /\ text[p].selected # None
    BY <1>4, ConfigAssumption DEF TypeOK, Write
  <2>2. Overwrite(file, text[p]) \in Text
    BY <2>1, OverwriteType DEF TypeOK
  <2> QED
    BY <1>4, <2>2 DEF TypeOK, Write
<1>5. ASSUME NEW p \in Process, WriteFails(p) PROVE TypeOK'
  BY <1>5 DEF TypeOK, WriteFails
<1>6. ASSUME NEW p \in Process, Report(p) PROVE TypeOK'
  BY <1>6, ConfigType DEF TypeOK, Report
<1>7. ASSUME NEW p \in Process, Crash(p) PROVE TypeOK'
  BY <1>7 DEF TypeOK, Crash
<1>8. CASE UNCHANGED vars
  BY <1>8 DEF TypeOK, vars
<1> QED
  BY <1>1, <1>2, <1>3, <1>4, <1>5, <1>6, <1>7, <1>8 DEF Next

(***************************************************************************)
(* TypeOK holds in every state, whatever fails.                            *)
(***************************************************************************)
THEOREM ConfigTypeCorrect == Spec => []TypeOK
  BY InitType, StepType, PTL DEF Spec

(***************************************************************************)
(* Without faults the file is never left empty, however many processes     *)
(* rewrite it at the same time.                                            *)
(***************************************************************************)
THEOREM NeverLeftEmptyTheorem ==
    ASSUME Faults = {}
    PROVE  Spec => []NeverLeftEmpty
<1>1. Init => NeverLeftEmpty
  BY ConfigAssumption DEF Init, NeverLeftEmpty
<1>2. TypeOK /\ NeverLeftEmpty /\ [Next]_vars => NeverLeftEmpty'
  <2> SUFFICES ASSUME TypeOK, NeverLeftEmpty, [Next]_vars PROVE NeverLeftEmpty'
    OBVIOUS
  <2>1. ASSUME NEW p \in Process, Load(p) PROVE NeverLeftEmpty'
    BY <2>1 DEF NeverLeftEmpty, Load
  <2>2. ASSUME NEW p \in Process, NEW n \in Network, Read(p, n) PROVE NeverLeftEmpty'
    BY <2>2 DEF NeverLeftEmpty, Read
  <2>3. ASSUME NEW p \in Process, Open(p) PROVE NeverLeftEmpty'
    BY <2>3 DEF NeverLeftEmpty, Open, TypeOK
  <2>4. ASSUME NEW p \in Process, Write(p) PROVE NeverLeftEmpty'
    <3>1. text[p] \in Text /\ text[p].selected # None
      BY <2>4, ConfigAssumption DEF TypeOK, Write
    <3>2. file'.selected # None
      BY <2>4, <3>1, OverwriteType DEF TypeOK, Write
    <3> QED
      BY <3>2 DEF NeverLeftEmpty
  <2>5. ASSUME NEW p \in Process, Report(p) PROVE NeverLeftEmpty'
    BY <2>5 DEF NeverLeftEmpty, Report, TypeOK
  <2>6. CASE UNCHANGED vars
    BY <2>6 DEF NeverLeftEmpty, vars
  <2> QED
    BY <2>1, <2>2, <2>3, <2>4, <2>5, <2>6 DEF Next, WriteFails, Crash
<1> QED
  BY <1>1, <1>2, ConfigTypeCorrect, PTL DEF Spec

(***************************************************************************)
(* However many processes there are, a command is shown what the file      *)
(* selects, unless another one is writing it or has spoilt it.             *)
(***************************************************************************)
THEOREM ShownSelectionTheorem ==
    ASSUME Faults = {}
    PROVE  Spec => ShownSelection
<1> DEFINE Shown == \A p \in Process :
                       shown'[p] # shown[p] =>
                          \/ shown'[p] = file.selected
                          \/ \E q \in Process : at[q] = "open"
                          \/ ~Parses(file)
<1>1. TypeOK /\ NeverLeftEmpty /\ [Next]_vars => [Shown]_vars
  <2> SUFFICES ASSUME TypeOK, NeverLeftEmpty, Next, NEW p \in Process, shown'[p] # shown[p]
               PROVE  \/ shown'[p] = file.selected
                      \/ \E q \in Process : at[q] = "open"
                      \/ ~Parses(file)
    OBVIOUS
  <2>1. shown'[p] = Config(file)
    BY DEF TypeOK, Next, Load, Read, Open, Write, WriteFails, Report, Crash
  <2> QED
    BY <2>1 DEF Config, NeverLeftEmpty
<1> QED
  BY <1>1, ConfigTypeCorrect, NeverLeftEmptyTheorem, PTL DEF Spec, ShownSelection

(***************************************************************************)
(* A text that does not parse, written over anything, does not parse.      *)
(***************************************************************************)
LEMMA OverwriteRuined ==
    ASSUME NEW old \in Text, NEW new \in Text, new.selected # None, ~Parses(new)
    PROVE  ~Parses(Overwrite(old, new))
<1>1. PICK i \in 1..Len(new.after) : new.after[i] # "newline"
  BY DEF Parses
<1>2. new.after \in Seq({"newline", "other"}) /\ Len(new.after) \in Nat
  BY DEF Text
<1>3. Length(old) \in Nat /\ Length(new) \in Nat
  BY ConfigAssumption DEF Length, Text
<1>4. CASE Length(old) <= Length(new)
  BY <1>4 DEF Overwrite
<1>5. CASE ~(Length(old) <= Length(new))
  <2> DEFINE k == Length(old) - Length(new)
             e == Ending(old, k)
  <2>1. k \in Nat /\ k <= Length(old) /\ old.selected # None
    BY <1>3, <1>5 DEF Length
  <2>2. e \in Seq({"newline", "other"})
    BY <2>1, EndingType
  <2>3. Overwrite(old, new).after = new.after \o e
    BY <1>5 DEF Overwrite, Text
  <2> HIDE DEF e
  <2>4. Len(new.after \o e) = Len(new.after) + Len(e) /\ Len(e) \in Nat
    BY <1>2, <2>2
  <2>5. (new.after \o e)[i] = new.after[i]
    BY <1>1, <1>2, <2>2
  <2>6. i \in 1..Len(new.after \o e)
    BY <1>1, <1>2, <2>4
  <2> QED
    BY <1>1, <2>3, <2>5, <2>6 DEF Parses
<1> QED
  BY <1>4, <1>5

(***************************************************************************)
(* A configuration of which no text that parses is left stays so, whatever *)
(* the processes do and whatever fails.                                    *)
(***************************************************************************)
THEOREM RuinedForGoodTheorem == Spec => RuinedForGood
<1> DEFINE Stays == Ruined => /\ Ruined'
                              /\ \A p \in Process : shown'[p] \in {shown[p], Fallback}
<1>1. TypeOK /\ [Next]_vars => [Stays]_vars
  <2> SUFFICES ASSUME TypeOK, Next, Ruined
               PROVE  Ruined' /\ \A p \in Process : shown'[p] \in {shown[p], Fallback}
    OBVIOUS
  <2>0. Config(file) = Fallback
    BY DEF Ruined, Config
  <2>1. ASSUME NEW p \in Process, Load(p) \/ Report(p) PROVE Stays
    BY <2>0, <2>1 DEF Load, Report, Ruined, TypeOK
  <2>2. ASSUME NEW p \in Process, NEW n \in Network, Read(p, n) PROVE Stays
    <3>1. [file EXCEPT !.selected = n].after = file.after
      BY DEF TypeOK, Text
    <3>2. ~Parses([file EXCEPT !.selected = n])
      BY <2>2, <3>1 DEF Read, Ruined, Parses
    <3> QED
      BY <2>2, <3>2 DEF Read, Ruined, TypeOK
  <2>3. ASSUME NEW p \in Process, Open(p) PROVE Stays
    BY <2>3, EmptyType DEF Open, Ruined, TypeOK
  <2>4. ASSUME NEW p \in Process, Write(p) PROVE Stays
    <3>1. text[p] \in Text /\ text[p].selected # None /\ ~Parses(text[p])
      BY <2>4, ConfigAssumption DEF TypeOK, Write, Ruined
    <3>2. ~Parses(file')
      BY <2>4, <3>1, OverwriteRuined DEF TypeOK, Write
    <3> QED
      BY <2>4, <3>2 DEF Write, Ruined, TypeOK
  <2>5. ASSUME NEW p \in Process, WriteFails(p) \/ Crash(p) PROVE Stays
    BY <2>5 DEF WriteFails, Crash, Ruined, TypeOK
  <2> QED
    BY <2>1, <2>2, <2>3, <2>4, <2>5 DEF Next
<1> QED
  BY <1>1, ConfigTypeCorrect, PTL DEF Spec, RuinedForGood

-----------------------------------------------------------------------------
(* One process *)

\* A process alone finds the file as it left it: whole, or emptied by it.
Whole ==
    /\ file.after = <<>>
    /\ \A p \in Process :
          /\ at[p] \in {"read", "open"} => text[p].after = <<>>
          /\ at[p] = "read" => file.selected # None
          /\ at[p] = "open" => file = Empty

LEMMA SelectionAlone ==
    ASSUME NEW only, Process = {only}
    PROVE  /\ Selection = IF at[only] = "open" THEN goal[only] ELSE file.selected
           /\ Selection' = IF at'[only] = "open" THEN goal'[only] ELSE file'.selected
<1>1. CASE at[only] = "open"
  BY <1>1 DEF Selection
<1>2. CASE at[only] # "open"
  BY <1>2 DEF Selection
<1>3. CASE at'[only] = "open"
  BY <1>3 DEF Selection
<1>4. CASE at'[only] # "open"
  BY <1>4 DEF Selection
<1> QED
  BY <1>1, <1>2, <1>3, <1>4

LEMMA ConfigWhole ==
    ASSUME NEW t \in Text, t.after = <<>>
    PROVE  Config(t) = IF t.selected = None THEN Fallback ELSE t.selected
BY DEF Config, Parses

LEMMA StepWhole ==
    ASSUME NEW only, Process = {only}, TypeOK, Whole, [Next]_vars
    PROVE  Whole'
<1>1. CASE Load(only)
  BY <1>1 DEF Whole, Load
<1>2. ASSUME NEW n \in Network, Read(only, n) PROVE Whole'
  BY <1>2 DEF Whole, Read, TypeOK, Text
<1>3. CASE Open(only)
  BY <1>3, EmptyType DEF Whole, Open, TypeOK
<1>4. CASE Write(only)
  <2>1. file = Empty /\ text[only].after = <<>> /\ text[only] \in Text
    BY <1>4 DEF Whole, Write, TypeOK
  <2>2. Length(Empty) = 0 /\ 0 <= Length(text[only])
    <3>1. text[only].selected \in Network
      BY <1>4 DEF TypeOK, Write
    <3> QED
      BY <2>1, <3>1, EmptyType, ConfigAssumption DEF Length, Text
  <2>3. file' = text[only]
    BY <1>4, <2>1, <2>2 DEF Write, Overwrite
  <2> QED
    BY <1>4, <2>1, <2>3 DEF Whole, Write, TypeOK
<1>5. CASE WriteFails(only)
  BY <1>5 DEF Whole, WriteFails, TypeOK
<1>6. CASE Report(only)
  BY <1>6 DEF Whole, Report, TypeOK
<1>7. CASE Crash(only)
  BY <1>7 DEF Whole, Crash, TypeOK
<1>8. CASE UNCHANGED vars
  BY <1>8 DEF Whole, vars
<1> QED
  BY <1>1, <1>2, <1>3, <1>4, <1>5, <1>6, <1>7, <1>8 DEF Next

LEMMA InitWhole == Init => Whole
BY DEF Init, Whole

LEMMA InitSelects ==
    ASSUME NEW only, Process = {only}, Init
    PROVE  Register!Init
<1>1. Selection = file.selected
  BY SelectionAlone DEF Init
<1> QED
  BY <1>1 DEF Init, Register!Init, Register!Init

(***************************************************************************)
(* A step of a process alone sets, shows or loses the selection, or leaves *)
(* all as it is; it loses it only where something fails.                   *)
(***************************************************************************)
LEMMA StepSelects ==
    ASSUME NEW only, Process = {only}, TypeOK, Whole, [Next]_vars
    PROVE  \/ \E n \in Network : Register!Set(n)
           \/ Register!Show(only)
           \/ Register!Lose
           \/ UNCHANGED <<Selection, shown>>
<1>0. /\ Selection = IF at[only] = "open" THEN goal[only] ELSE file.selected
      /\ Selection' = IF at'[only] = "open" THEN goal'[only] ELSE file'.selected
  BY SelectionAlone
<1>1. CASE Load(only)
  <2>1. shown' = [shown EXCEPT ![only] =
                    IF file.selected = None THEN Fallback ELSE file.selected]
    BY <1>1, ConfigWhole DEF Load, TypeOK, Whole
  <2>2. Selection = file.selected /\ Selection' = Selection
    BY <1>0, <1>1 DEF Load
  <2>3. Register!Show(only)
    BY <2>1, <2>2 DEF Register!Show
  <2> QED
    BY <2>3
<1>2. ASSUME NEW n \in Network, Read(only, n) PROVE UNCHANGED <<Selection, shown>>
  <2>1. at[only] # "open" /\ at'[only] # "open" /\ file' = file /\ shown' = shown
    BY <1>2 DEF Read, TypeOK
  <2> QED
    BY <1>0, <2>1
<1>3. CASE Open(only)
  <2>1. goal[only] \in Network /\ at[only] # "open" /\ file.selected # None
    BY <1>3 DEF Open, TypeOK, Whole
  <2>2. at'[only] = "open" /\ goal' = goal /\ shown' = shown
    BY <1>3 DEF Open, TypeOK
  <2>3. Register!Set(goal[only])
    BY <1>0, <2>1, <2>2 DEF Register!Set
  <2> QED
    BY <2>1, <2>3
<1>4. CASE Write(only)
  <2>1. /\ at[only] = "open" /\ at'[only] # "open" /\ shown' = shown
        /\ text[only] \in Text /\ text[only].selected = goal[only]
        /\ text[only].selected # None
    BY <1>4, ConfigAssumption DEF Write, TypeOK
  <2>2. file'.selected = goal[only]
    BY <1>4, <2>1, OverwriteType DEF Write, TypeOK
  <2> QED
    BY <1>0, <2>1, <2>2
<1>5. CASE WriteFails(only)
  <2>1. at'[only] # "open" /\ file'.selected = None /\ shown' = shown /\ Faults # {}
    BY <1>5, EmptyType DEF WriteFails, TypeOK, Whole
  <2> QED
    BY <1>0, <2>1 DEF Register!Lose
<1>6. CASE Report(only)
  <2>1. shown' = [shown EXCEPT ![only] =
                    IF file.selected = None THEN Fallback ELSE file.selected]
    BY <1>6, ConfigWhole DEF Report, TypeOK, Whole
  <2>2. Selection = file.selected /\ Selection' = Selection
    BY <1>0, <1>6 DEF Report, TypeOK
  <2>3. Register!Show(only)
    BY <2>1, <2>2 DEF Register!Show
  <2> QED
    BY <2>3
<1>7. CASE Crash(only)
  <2>1. at'[only] # "open" /\ file' = file /\ shown' = shown /\ Faults # {}
    BY <1>7 DEF Crash, TypeOK
  <2>2. CASE at[only] = "open"
    <3>1. file.selected = None
      BY <2>2, EmptyType DEF Whole
    <3> QED
      BY <1>0, <2>1, <3>1 DEF Register!Lose
  <2>3. CASE at[only] # "open"
    BY <1>0, <2>1, <2>3
  <2> QED
    BY <2>2, <2>3
<1>8. CASE UNCHANGED vars
  BY <1>0, <1>8 DEF vars
<1> QED
  BY <1>1, <1>2, <1>3, <1>4, <1>5, <1>6, <1>7, <1>8 DEF Next

(***************************************************************************)
(* A process alone has the register: every command is shown the network    *)
(* that was set last, or the fallback once a fault has lost it; without    *)
(* faults it is never lost.                                                *)
(***************************************************************************)
THEOREM RegisterTheorem ==
    ASSUME NEW only, Process = {only}
    PROVE  Spec => IsRegister
<1>1. Init => Register!Init
  BY InitSelects
<1>2. TypeOK /\ Whole /\ [Next]_vars => [Register!Next]_<<Selection, shown>>
  BY StepSelects DEF Register!Next
<1>3. TypeOK /\ Whole /\ [Next]_vars => Whole'
  BY StepWhole
<1> QED
  BY <1>1, <1>2, <1>3, InitWhole, ConfigTypeCorrect, PTL
     DEF Spec, IsRegister, Register!Spec

-----------------------------------------------------------------------------
(* The commands *)

(***************************************************************************)
(* Next to the commands, the configuration file behaves as CLIConfig says: *)
(* every step of a handler is a config() or leaves it alone.               *)
(***************************************************************************)
THEOREM CommandsKeepConfig == CLISpec => Spec
<1>1. CLIInit => Init
  BY DEF CLIInit
<1>2. [CLINext]_allVars => [Next]_vars
  <2> SUFFICES ASSUME [CLINext]_allVars PROVE [Next]_vars
    OBVIOUS
  <2>1. CASE UNCHANGED allVars
    BY <2>1 DEF allVars
  <2>2. ASSUME NEW p \in Process, SetNetwork(p) \/ SettingNetwork(p)
        PROVE  Next
    BY <2>2 DEF SetNetwork, SettingNetwork, Steps, Next
  <2>3. ASSUME NEW p \in Process, NEW o \in Orders, Begin(p, o)
        PROVE  Next
    BY <2>3 DEF Begin, Next
  <2>4. ASSUME NEW p \in Process,
               \/ Prepare(p) \/ CheckOutfile(p) \/ OpenOutfile(p) \/ WriteOutfile(p)
               \/ WritesNothing(p) \/ Ask(p) \/ Send(p) \/ Throw(p) \/ Kill(p)
        PROVE  UNCHANGED vars
    BY <2>4 DEF Prepare, CheckOutfile, OpenOutfile, WriteOutfile, WritesNothing,
                Ask, Send, Throw, Kill, Goes, Ends
  <2> QED
    BY <2>1, <2>2, <2>3, <2>4 DEF CLINext
<1> QED
  BY <1>1, <1>2, PTL DEF CLISpec, Spec

-----------------------------------------------------------------------------
(* The inductive invariant *)

\* A process is in at most one handler.
OneHandler == \A p \in Process : stage[p] # "idle" => at[p] = "idle"

\* A handler works on a line that asks for it, and gets past "loaded" only
\* with one it can read.
Handled ==
    \A p \in Process :
        stage[p] # "idle" =>
            /\ order[p] \in Orders /\ Request(order[p]) \in DOMAIN Needs
            /\ stage[p] # "loaded" => Good(order[p])

\* What a process holds is made from its order for the network it was shown;
\* what it has signed to be written has a receiver.
MadeAsOrdered ==
    \A p \in Process :
        /\ stage[p] \in {"signed", "checked", "writing"} =>
              /\ Request(order[p]) = "new" /\ Receiver(order[p]) # None
              /\ made[p] = NewTx(order[p], shown[p])
        /\ stage[p] = "built" =>
              \/ made[p] = IssueTx(order[p], shown[p])
              \/ /\ Receiver(order[p]) # None
                 /\ made[p] = TransferTx(order[p], shown[p])

\* t is a transaction with a receiver, signed with the key file of an order.
SignedAsOrdered(t) ==
    /\ t.of.receiver # None
    /\ \E o \in Orders : /\ Request(o) \in DOMAIN Needs /\ Good(o)
                         /\ SignedWith(t, Key(o))

\* What has left a process is signed, for where it went.
LeftAsMade ==
    /\ \A s \in sent : SignedAsOrdered(s.tx) /\ s.tx.of.chainID = s.to
    /\ outfile # None => outfile.tx = None \/ SignedAsOrdered(outfile.tx)

Functions ==
    /\ stage = [p \in Process |-> stage[p]]
    /\ order = [p \in Process |-> order[p]]
    /\ made  = [p \in Process |-> made[p]]

CLIInv == Functions /\ OneHandler /\ Handled /\ MadeAsOrdered /\ LeftAsMade

(***************************************************************************)
(* The three ways a handler makes a transaction sign it as it is, with the *)
(* key file of the order and for the network given.                        *)
(***************************************************************************)
LEMMA MadeWithKeyFile ==
    ASSUME NEW o, NEW n, NEW t,
           t = NewTx(o, n) \/ t = IssueTx(o, n) \/ t = TransferTx(o, n)
    PROVE  /\ SignedWith(t, Key(o)) /\ t.of.chainID = n
           /\ t.of.receiver = IF t = IssueTx(o, n) THEN System ELSE Receiver(o)
<1>1. CASE t = NewTx(o, n)
  <2>1. t.of = [Created(o, n) EXCEPT !.sender = Key(o).address]
    BY <1>1 DEF NewTx, Signed, SignedBy
  <2>2. t.signature = [key |-> Key(o).seed, of |-> t.of]
    BY <1>1 DEF NewTx, Signed, SignedBy
  <2>3. /\ t.of.sender = Key(o).address /\ t.of.chainID = n
        /\ t.of.receiver = Receiver(o) /\ t.of.gasLimit = 0
    BY <2>1 DEF Created
  <2>4. t # IssueTx(o, n)
    BY <2>3 DEF IssueTx, SignedBy
  <2> QED
    BY <2>2, <2>3, <2>4 DEF SignedWith
<1>2. CASE t = IssueTx(o, n)
  BY <1>2 DEF IssueTx, SignedBy, SignedWith
<1>3. CASE t = TransferTx(o, n)
  <2> DEFINE data == Plain \o Value(o, "args")
  <2>1. t.of = [Transfer(o, n, data) EXCEPT !.sender = Key(o).address]
    BY <1>3 DEF TransferTx, Signed, SignedBy
  <2>2. t.signature = [key |-> Key(o).seed, of |-> t.of]
    BY <1>3 DEF TransferTx, Signed, SignedBy
  <2>3. /\ t.of.sender = Key(o).address /\ t.of.chainID = n
        /\ t.of.receiver = Receiver(o)
    BY <2>1 DEF Transfer
  <2> QED
    BY <1>2, <2>2, <2>3 DEF SignedWith
<1> QED
  BY <1>1, <1>2, <1>3

LEMMA InitCLIInv == CLIInit => CLIInv
  BY DEF CLIInit, CLIInv, Functions, OneHandler, Handled, MadeAsOrdered, LeftAsMade

(***************************************************************************)
(* Every step keeps the invariant: a process keeps what it was shown while *)
(* a handler runs, as `network set` belongs to other processes.            *)
(***************************************************************************)
LEMMA StepCLIInv == TypeOK /\ CLIInv /\ [CLINext]_allVars => CLIInv'
<1> SUFFICES ASSUME TypeOK, CLIInv, [CLINext]_allVars
             PROVE  CLIInv'
  OBVIOUS
<1> USE DEF CLIInv
<1>1. CASE UNCHANGED allVars
  BY <1>1 DEF allVars, vars, cliVars, Functions, OneHandler, Handled, MadeAsOrdered,
              LeftAsMade, SignedAsOrdered
<1>2. ASSUME NEW p \in Process, SetNetwork(p) \/ SettingNetwork(p)
      PROVE  CLIInv'
  <2>1. /\ UNCHANGED cliVars
        /\ stage[p] = "idle"
        /\ \A q \in Process \ {p} : shown'[q] = shown[q] /\ at'[q] = at[q]
    BY <1>2 DEF SetNetwork, SettingNetwork, Steps, Read, Open, Write, Report,
                TypeOK, OneHandler
  <2> QED
    BY <2>1 DEF cliVars, Functions, OneHandler, Handled, MadeAsOrdered, LeftAsMade
<1>3. ASSUME NEW p \in Process, NEW o \in Orders, Begin(p, o)
      PROVE  CLIInv'
  <2>1. Functions'
    BY <1>3 DEF Begin, Functions
  <2>2. OneHandler'
    BY <1>3 DEF Begin, Load, OneHandler, Functions
  <2>3. MadeAsOrdered'
    BY <1>3 DEF Begin, Load, MadeAsOrdered, Functions, TypeOK
  <2>4. LeftAsMade'
    BY <1>3 DEF Begin, LeftAsMade
  <2>5. Handled'
    BY <1>3 DEF Begin, Handled, Functions
  <2> QED
    BY <2>1, <2>2, <2>3, <2>4, <2>5
<1>4. ASSUME NEW p \in Process,
             Prepare(p) \/ CheckOutfile(p) \/ OpenOutfile(p) \/ Ask(p)
      PROVE  CLIInv'
  <2>1. Functions'
    BY <1>4 DEF Prepare, CheckOutfile, OpenOutfile, Ask, Goes, Functions
  <2>2. OneHandler'
    BY <1>4 DEF Prepare, CheckOutfile, OpenOutfile, Ask, Goes, vars, OneHandler, Functions
  <2>3. MadeAsOrdered'
    <3>1. CASE Prepare(p)
      <4>1. Request(order[p]) = "new" => Receiver(order[p]) # None
        BY <3>1 DEF Prepare, Prepares, Signable, Created
      <4> QED
        BY <3>1, <4>1 DEF Prepare, Goes, vars, MadeAsOrdered, Functions
    <3>2. CASE Ask(p)
      <4>1. Request(order[p]) # "issue" => Receiver(order[p]) # None
        BY <3>2 DEF Ask, Buildable
      <4> QED
        BY <3>2, <4>1 DEF Ask, Goes, vars, MadeAsOrdered, Functions
    <3>3. CASE CheckOutfile(p) \/ OpenOutfile(p)
      BY <3>3 DEF CheckOutfile, OpenOutfile, Goes, vars, MadeAsOrdered, Functions
    <3> QED
      BY <1>4, <3>1, <3>2, <3>3
  <2>4. LeftAsMade'
    BY <1>4 DEF Prepare, CheckOutfile, OpenOutfile, Ask, Blank, LeftAsMade
  <2>5. Handled'
    BY <1>4 DEF Prepare, Prepares, CheckOutfile, OpenOutfile, Ask, Goes, Handled, Functions
  <2> QED
    BY <2>1, <2>2, <2>3, <2>4, <2>5
<1>5. ASSUME NEW p \in Process,
             WriteOutfile(p) \/ WritesNothing(p) \/ Send(p) \/ Throw(p) \/ Kill(p)
      PROVE  CLIInv'
  <2>1. Ends(p)
    BY <1>5 DEF WriteOutfile, WritesNothing, Send, Throw, Kill
  <2>2. Functions'
    BY <2>1 DEF Ends, Functions
  <2>3. OneHandler'
    BY <2>1 DEF Ends, vars, OneHandler, Functions
  <2>4. MadeAsOrdered'
    BY <2>1 DEF Ends, vars, MadeAsOrdered, Functions
  <2>5. LeftAsMade'
    <3>1. CASE WriteOutfile(p)
      <4>1. SignedAsOrdered(made[p])
        <5>1. /\ made[p] = NewTx(order[p], shown[p]) /\ Receiver(order[p]) # None
              /\ order[p] \in Orders /\ Good(order[p])
              /\ Request(order[p]) \in DOMAIN Needs
          BY <3>1 DEF WriteOutfile, MadeAsOrdered, Handled
        <5>2. SignedWith(made[p], Key(order[p]))
          BY <5>1, MadeWithKeyFile
        <5>3. made[p].of.receiver # None
          BY <5>1, MadeWithKeyFile, SystemAssumption
        <5> QED
          BY <5>1, <5>2, <5>3 DEF SignedAsOrdered
      <4>2. outfile'.tx = made[p] /\ sent' = sent
        <5> DEFINE length == TxLength[made[p].of]
                   after  == IF outfile.length > length THEN outfile.length ELSE length
        <5>1. outfile' = [tx |-> made[p], length |-> after] /\ sent' = sent
          BY <3>1 DEF WriteOutfile
        <5> HIDE DEF after
        <5> QED
          BY <5>1
      <4> QED
        BY <4>1, <4>2 DEF LeftAsMade, SignedAsOrdered
    <3>2. CASE Send(p)
      <4>1. /\ \/ made[p] = IssueTx(order[p], shown[p])
               \/ /\ Receiver(order[p]) # None
                  /\ made[p] = TransferTx(order[p], shown[p])
            /\ order[p] \in Orders /\ Good(order[p])
            /\ Request(order[p]) \in DOMAIN Needs
        BY <3>2 DEF Send, MadeAsOrdered, Handled
      <4>2. /\ SignedWith(made[p], Key(order[p])) /\ made[p].of.chainID = shown[p]
            /\ made[p].of.receiver # None
        BY <4>1, MadeWithKeyFile, SystemAssumption
      <4>3. SignedAsOrdered(made[p])
        BY <4>1, <4>2 DEF SignedAsOrdered
      <4> QED
        BY <3>2, <4>2, <4>3 DEF Send, LeftAsMade
    <3>3. CASE WritesNothing(p) \/ Throw(p) \/ Kill(p)
      BY <3>3 DEF WritesNothing, Throw, Kill, LeftAsMade
    <3> QED
      BY <1>5, <3>1, <3>2, <3>3
  <2>6. Handled'
    BY <2>1 DEF Ends, Handled, Functions
  <2> QED
    BY <2>2, <2>3, <2>4, <2>5, <2>6
<1> QED
  BY <1>1, <1>2, <1>3, <1>4, <1>5 DEF CLINext

(***************************************************************************)
(* The invariant holds in every state, next to the type invariant of the   *)
(* configuration.                                                          *)
(***************************************************************************)
THEOREM CLIInvAlways == CLISpec => [](TypeOK /\ CLIInv)
<1>1. CLISpec => []TypeOK
  BY CommandsKeepConfig, ConfigTypeCorrect, PTL
<1>2. CLIInit => CLIInv
  BY InitCLIInv
<1>3. TypeOK /\ CLIInv /\ [CLINext]_allVars => CLIInv'
  BY StepCLIInv
<1> QED
  BY <1>1, <1>2, <1>3, PTL DEF CLISpec

(***************************************************************************)
(* For any processes, orders and faults, a transaction is sent to the      *)
(* network it was signed for.                                              *)
(***************************************************************************)
THEOREM SentWhereSignedTheorem == CLISpec => []SentWhereSigned
<1>1. CLIInv => SentWhereSigned
  BY DEF CLIInv, LeftAsMade, SentWhereSigned
<1> QED
  BY <1>1, CLIInvAlways, PTL

(***************************************************************************)
(* For any key files, what a command sends or leaves in the outfile is     *)
(* signed with one of them and verifies if and only if the halves of that  *)
(* one belong together.                                                    *)
(***************************************************************************)
THEOREM LeftVerifiesTheorem == CLISpec => []LeftVerifies
<1>1. CLIInv => LeftVerifies
  <2> SUFFICES ASSUME CLIInv, NEW t \in Left
               PROVE  \E o \in Orders :
                         /\ Request(o) \in DOMAIN Needs /\ Good(o)
                         /\ SignedWith(t, Key(o))
                         /\ Verifies(t) <=> Key(o).seed = Key(o).address
    BY DEF LeftVerifies
  <2>1. SignedAsOrdered(t)
    BY DEF CLIInv, LeftAsMade, Left, OutfileWhole
  <2>2. PICK o \in Orders : /\ Request(o) \in DOMAIN Needs /\ Good(o)
                            /\ SignedWith(t, Key(o))
    BY <2>1 DEF SignedAsOrdered
  <2>3. /\ t.of.sender = Key(o).address
        /\ t.signature.key = Key(o).seed /\ t.signature.of = t.of
    BY <2>2 DEF SignedWith
  <2>4. Verifies(t) <=> Key(o).seed = Key(o).address
    BY <2>1, <2>3 DEF Verifies, SignedAsOrdered
  <2> QED
    BY <2>2, <2>4
<1> QED
  BY <1>1, CLIInvAlways, PTL

(***************************************************************************)
(* For any lines and key files, a command that throws leaves the outfile   *)
(* as it was: only one whose transaction is signed changes it.             *)
(***************************************************************************)
THEOREM OutfileKeptTheorem == CLISpec => OutfileKept
<1>1. TypeOK /\ CLIInv /\ [CLINext]_allVars =>
         [outfile' # outfile =>
             \E p \in Process :
                 /\ stage[p] \in {"checked", "writing"}
                 /\ Request(order[p]) = "new" /\ Good(order[p]) /\ Receiver(order[p]) # None
                 /\ made[p] = NewTx(order[p], shown[p])
                 /\ outfile' = Blank \/ outfile'.tx = made[p]]_allVars
  <2> SUFFICES ASSUME CLIInv, CLINext, outfile' # outfile
               PROVE  \E p \in Process : /\ stage[p] \in {"checked", "writing"}
                                         /\ outfile' = Blank \/ outfile'.tx = made[p]
    BY DEF CLIInv, MadeAsOrdered, Handled
  <2>1. PICK p \in Process : OpenOutfile(p) \/ WriteOutfile(p)
    BY DEF CLINext, SetNetwork, SettingNetwork, cliVars, Begin, Prepare, CheckOutfile,
           WritesNothing, Ask, Send, Throw, Kill
  <2>2. CASE OpenOutfile(p)
    BY <2>2 DEF OpenOutfile
  <2>3. CASE WriteOutfile(p)
    <3> DEFINE length == TxLength[made[p].of]
               after  == IF outfile.length > length THEN outfile.length ELSE length
    <3>1. outfile' = [tx |-> made[p], length |-> after] /\ stage[p] = "writing"
      BY <2>3 DEF WriteOutfile
    <3> HIDE DEF after
    <3> QED
      BY <3>1
  <2> QED
    BY <2>1, <2>2, <2>3
<1> QED
  BY <1>1, CLIInvAlways, PTL DEF CLISpec, OutfileKept

-----------------------------------------------------------------------------
(* The gas of transfers *)

\* Every handler works for a network, and what it sends is what one of the
\* orders asks for there.
SentAsOrdered ==
    /\ \A p \in Process : stage[p] # "idle" => order[p] \in Orders /\ shown[p] \in Network
    /\ \A s \in sent :
          /\ s.to \in Network
          /\ \E o \in Orders : s.tx = IssueTx(o, s.to) \/ s.tx = TransferTx(o, s.to)

(***************************************************************************)
(* Every step keeps it: the handlers begin with a config(), which returns  *)
(* a network for every text of the file.                                   *)
(***************************************************************************)
LEMMA StepSentAsOrdered ==
    TypeOK /\ CLIInv /\ SentAsOrdered /\ [CLINext]_allVars => SentAsOrdered'
<1> SUFFICES ASSUME TypeOK, CLIInv, SentAsOrdered, [CLINext]_allVars
             PROVE  SentAsOrdered'
  OBVIOUS
<1>1. CASE UNCHANGED allVars
  BY <1>1 DEF allVars, vars, cliVars, SentAsOrdered
<1>2. ASSUME NEW p \in Process, SetNetwork(p) \/ SettingNetwork(p)
      PROVE  SentAsOrdered'
  <2>1. /\ UNCHANGED cliVars
        /\ stage[p] = "idle"
        /\ \A q \in Process \ {p} : shown'[q] = shown[q]
    BY <1>2 DEF SetNetwork, SettingNetwork, Steps, Read, Open, Write, Report,
                TypeOK, CLIInv, OneHandler
  <2> QED
    BY <2>1 DEF cliVars, SentAsOrdered
<1>3. ASSUME NEW p \in Process, NEW o \in Orders, Begin(p, o)
      PROVE  SentAsOrdered'
  <2>1. Config(file) \in Network
    BY ConfigType DEF TypeOK
  <2>2. /\ sent' = sent
        /\ shown' = [shown EXCEPT ![p] = Config(file)]
        /\ order' = [order EXCEPT ![p] = o]
        /\ stage' = [stage EXCEPT ![p] = "loaded"]
    BY <1>3 DEF Begin, Load
  <2>3. \A q \in Process : stage'[q] # "idle" => order'[q] \in Orders /\ shown'[q] \in Network
    BY <2>1, <2>2 DEF SentAsOrdered, TypeOK, CLIInv, Functions
  <2> QED
    BY <2>2, <2>3 DEF SentAsOrdered
<1>4. ASSUME NEW p \in Process,
             Prepare(p) \/ CheckOutfile(p) \/ OpenOutfile(p) \/ Ask(p)
      PROVE  SentAsOrdered'
  <2>1. /\ sent' = sent /\ order' = order /\ shown' = shown
        /\ \A q \in Process : stage'[q] # "idle" => stage[q] # "idle"
    BY <1>4 DEF Prepare, CheckOutfile, OpenOutfile, Ask, Goes, vars, CLIInv, Functions
  <2> QED
    BY <2>1 DEF SentAsOrdered
<1>5. ASSUME NEW p \in Process,
             WriteOutfile(p) \/ WritesNothing(p) \/ Send(p) \/ Throw(p) \/ Kill(p)
      PROVE  SentAsOrdered'
  <2>1. Ends(p)
    BY <1>5 DEF WriteOutfile, WritesNothing, Send, Throw, Kill
  <2>2. \A q \in Process : stage'[q] # "idle" =>
            stage[q] # "idle" /\ order'[q] = order[q] /\ shown'[q] = shown[q]
    BY <2>1 DEF Ends, vars, CLIInv, Functions
  <2>3. CASE Send(p)
    <3>1. /\ sent' = sent \cup {[tx |-> made[p], to |-> shown[p]]}
          /\ stage[p] = "built"
      BY <2>3 DEF Send
    <3>2. \/ made[p] = IssueTx(order[p], shown[p])
          \/ made[p] = TransferTx(order[p], shown[p])
      BY <3>1 DEF CLIInv, MadeAsOrdered
    <3>3. order[p] \in Orders /\ shown[p] \in Network
      BY <3>1 DEF SentAsOrdered
    <3> QED
      BY <2>2, <3>1, <3>2, <3>3 DEF SentAsOrdered
  <2>4. CASE sent' = sent
    BY <2>2, <2>4 DEF SentAsOrdered
  <2> QED
    BY <1>5, <2>3, <2>4 DEF WriteOutfile, WritesNothing, Throw, Kill
<1> QED
  BY <1>1, <1>2, <1>3, <1>4, <1>5 DEF CLINext

\* The prices of every network, and the data of every order, a sequence of
\* parts, are such that no sum of the estimates leaves its width.
PricesInRange(Part) ==
    /\ Parameters \in [Network -> NetworkConfig]
    /\ \A o \in Orders, n \in Network :
          /\ Plain \o Value(o, "args") \in Seq(Part)
          /\ InRange(Parameters[n], Len(Plain \o Value(o, "args")), 1)

(***************************************************************************)
(* As long as no sum leaves its width, every transfer that is sent has the *)
(* gas for its data, the arguments that handleTransferESDT appends last    *)
(* included.                                                               *)
(***************************************************************************)
THEOREM TransfersPayTheorem ==
    ASSUME NEW Part, PricesInRange(Part)
    PROVE  CLISpec => []TransfersPay
<1>1. CLIInit => SentAsOrdered
  BY DEF CLIInit, SentAsOrdered
<1>2. SentAsOrdered => TransfersPay
  <2> SUFFICES ASSUME SentAsOrdered, NEW s \in sent, s.tx.of.data[1] = "ESDTTransfer"
               PROVE  s.tx.of.gasLimit >= MoveBalanceGas(Parameters[s.to], Len(s.tx.of.data))
                                          + CostTransfer
    BY DEF TransfersPay
  <2>1. PICK o \in Orders : s.tx = IssueTx(o, s.to) \/ s.tx = TransferTx(o, s.to)
    BY DEF SentAsOrdered
  <2>2. s.tx # IssueTx(o, s.to)
    BY DEF IssueTx, SignedBy
  <2> DEFINE data == Plain \o Value(o, "args")
  <2>3. s.tx.of.data = data /\ s.tx.of.gasLimit = forESDTTransfer(Parameters[s.to], Len(data))
    <3>1. s.tx = Signed(Transfer(o, s.to, data), Key(o))
      BY <2>1, <2>2 DEF TransferTx
    <3> DEFINE t == Transfer(o, s.to, data)
    <3>2. s.tx.of = [t EXCEPT !.sender = Key(o).address]
      BY <3>1 DEF Signed, SignedBy
    <3>3. t = [sender |-> Key(o).address, receiver |-> Receiver(o), chainID |-> s.to,
               data |-> data, gasLimit |-> forESDTTransfer(Parameters[s.to], Len(data))]
      BY DEF Transfer
    <3> HIDE DEF data, t
    <3> QED
      BY <3>2, <3>3
  <2>4. /\ Parameters[s.to] \in NetworkConfig
        /\ InRange(Parameters[s.to], Len(data), 1)
    BY DEF PricesInRange, SentAsOrdered
  <2>5. data \in Seq(Part)
    BY DEF PricesInRange, SentAsOrdered
  <2> HIDE DEF data
  <2>6. Covers(Parameters[s.to], Len(data), 1)
    <3>1. Len(data) \in Nat
      BY <2>5
    <3> QED
      BY <2>4, <3>1, EstimatesCover
  <2> QED
    BY <2>3, <2>6 DEF Covers
<1> QED
  BY <1>1, <1>2, StepSentAsOrdered, CLIInvAlways, PTL DEF CLISpec

-----------------------------------------------------------------------------
(* The configuration file, next to commands *)

(***************************************************************************)
(* Without faults of `network set`, commands do not change that the        *)
(* configuration file is never left empty.                                 *)
(***************************************************************************)
THEOREM NeverLeftEmptyNextToCommands ==
    ASSUME Faults = {}
    PROVE  CLISpec => []NeverLeftEmpty
  BY CommandsKeepConfig, NeverLeftEmptyTheorem, PTL

(***************************************************************************)
(* Nor that a command is shown what the file selects, but for the two      *)
(* exceptions of ShownSelection.                                           *)
(***************************************************************************)
THEOREM ShownSelectionNextToCommands ==
    ASSUME Faults = {}
    PROVE  CLISpec => ShownSelection
  BY CommandsKeepConfig, ShownSelectionTheorem, PTL

(***************************************************************************)
(* Nor that a ruined file stays ruined: commands go on being shown the     *)
(* fallback, whatever network is set.                                      *)
(***************************************************************************)
THEOREM RuinedForGoodNextToCommands == CLISpec => RuinedForGood
  BY CommandsKeepConfig, RuinedForGoodTheorem, PTL
=============================================================================
