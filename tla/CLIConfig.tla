------------------------------- MODULE CLIConfig -------------------------------
(***************************************************************************)
(* The configuration file of the command line (src/cli/config/             *)
(* cliconfig.cpp), shared by every erdcpp process on the machine.          *)
(*                                                                         *)
(* `network set` reads the file, opens it again for writing, which empties *)
(* it, and writes the whole text with one line replaced; other processes   *)
(* run between these steps and each of them may be the last one.  The text *)
(* is far smaller than a stream buffer, so it is read and written at once. *)
(*                                                                         *)
(* A text is the network its CLIConfig line selects and the bytes `after`  *)
(* the last line of the file as it is distributed: a text written over a   *)
(* longer one leaves the end of that one behind.                           *)
(***************************************************************************)
EXTENDS Naturals, Sequences

CONSTANTS
    Process, Network, Fallback, None,  \* see NetworkSelection
    TextLength,  \* network -> length of the distributed text that selects it
    Faults,      \* what may go wrong: a subset of {"crash", "full"}
    MaxSets      \* bound: the `network set` commands of a behaviour

ASSUME ConfigAssumption ==
    /\ None \notin Network /\ Fallback \in Network
    /\ TextLength \in [Network -> Nat \ {0}]
    /\ MaxSets \in Nat

VARIABLES
    file,   \* the text in the file
    at,     \* process -> where it is in `network set`
    goal,   \* process -> the network it was asked to set
    text,   \* process -> fileContent, the text it is going to write
    shown,  \* process -> what its last config() returned, None before
    sets    \* how many `network set` commands have begun

vars == <<file, at, goal, text, shown, sets>>

Empty == [selected |-> None, after |-> <<>>]

Length(t) ==
    IF t.selected = None THEN 0 ELSE TextLength[t.selected] + Len(t.after)

\* The last k bytes of t: the distributed text ends in a quote and a newline.
Ending(t, k) ==
    IF k <= Len(t.after) THEN SubSeq(t.after, Len(t.after) - k + 1, Len(t.after))
    ELSE LET own == k - Len(t.after)
         IN [i \in 1..own |-> IF i = own THEN "newline" ELSE "other"] \o t.after

\* The file after new is written from its start, over old.
Overwrite(old, new) ==
    IF Length(old) <= Length(new) THEN new
    ELSE [new EXCEPT !.after = @ \o Ending(old, Length(old) - Length(new))]

\* The file parses: nothing but newlines follows the distributed text.
Parses(t) == \A i \in 1..Len(t.after) : t.after[i] = "newline"

\* What the parser says of the rest would be ignored (mutant).
ConfigLax(t) == IF t.selected # None THEN t.selected ELSE Fallback

\* CLIConfig::config: the fallback on every exception, the one for a file
\* that selects nothing included.
Config(t) == IF t.selected # None /\ Parses(t) THEN t.selected ELSE Fallback

Init ==
    /\ \E n \in Network : file = [selected |-> n, after |-> <<>>]
    /\ at = [p \in Process |-> "idle"]
    /\ goal = [p \in Process |-> None]
    /\ text = [p \in Process |-> Empty]
    /\ shown = [p \in Process |-> None]
    /\ sets = 0

\* A command that builds a transaction asks for its network.
Load(p) ==
    /\ at[p] = "idle"
    /\ shown' = [shown EXCEPT ![p] = Config(file)]
    /\ UNCHANGED <<file, at, goal, text, sets>>

\* setNetwork would open the output before it reads the input (mutant).
ReadTruncated(p, n) ==
    /\ at[p] = "idle" /\ sets < MaxSets
    /\ file' = Empty
    /\ at' = [at EXCEPT ![p] = IF file.selected = None THEN "idle" ELSE "read"]
    /\ goal' = [goal EXCEPT ![p] = n]
    /\ text' = [text EXCEPT ![p] = [Empty EXCEPT !.selected = n]]
    /\ sets' = sets + 1
    /\ UNCHANGED shown

\* A missing line would not be noticed (mutant).
ReadUnchecked(p, n) ==
    /\ at[p] = "idle" /\ sets < MaxSets
    /\ at' = [at EXCEPT ![p] = "read"]
    /\ goal' = [goal EXCEPT ![p] = n]
    /\ text' = [text EXCEPT ![p] =
                   IF file.selected = None THEN file ELSE [file EXCEPT !.selected = n]]
    /\ sets' = sets + 1
    /\ UNCHANGED <<file, shown>>

\* setNetwork reads the file and finds the line to replace; without such a
\* line it throws and the command ends.
Read(p, n) ==
    /\ at[p] = "idle" /\ sets < MaxSets
    /\ file.selected # None
    /\ at' = [at EXCEPT ![p] = "read"]
    /\ goal' = [goal EXCEPT ![p] = n]
    /\ text' = [text EXCEPT ![p] = [file EXCEPT !.selected = n]]
    /\ sets' = sets + 1
    /\ UNCHANGED <<file, shown>>

\* ofs.open(m_tomlPath, out | trunc).
Open(p) ==
    /\ at[p] = "read"
    /\ file' = Empty
    /\ at' = [at EXCEPT ![p] = "open"]
    /\ UNCHANGED <<goal, text, shown, sets>>

\* ofs would never be flushed (mutant).
WriteNothing(p) ==
    /\ at[p] = "open"
    /\ at' = [at EXCEPT ![p] = "written"]
    /\ UNCHANGED <<file, goal, text, shown, sets>>

\* ofs << fileContent; ofs.close().
Write(p) ==
    /\ at[p] = "open"
    /\ file' = Overwrite(file, text[p])
    /\ at' = [at EXCEPT ![p] = "written"]
    /\ UNCHANGED <<goal, text, shown, sets>>

\* The disk is full; nobody looks at the state of ofs.
WriteFails(p) ==
    /\ "full" \in Faults
    /\ at[p] = "open"
    /\ at' = [at EXCEPT ![p] = "written"]
    /\ UNCHANGED <<file, goal, text, shown, sets>>

\* handleSetNetworkConfig prints the new configuration and the process ends.
Report(p) ==
    /\ at[p] = "written"
    /\ shown' = [shown EXCEPT ![p] = Config(file)]
    /\ at' = [at EXCEPT ![p] = "idle"]
    /\ UNCHANGED <<file, goal, text, sets>>

\* The process is killed; another one may take its place.
Crash(p) ==
    /\ "crash" \in Faults
    /\ at[p] # "idle"
    /\ at' = [at EXCEPT ![p] = "idle"]
    /\ UNCHANGED <<file, goal, text, shown, sets>>

Steps(p) == Open(p) \/ Write(p) \/ Report(p)

Next ==
    \E p \in Process :
        \/ Load(p)
        \/ \E n \in Network : Read(p, n)
        \/ Open(p)
        \/ Write(p)
        \/ WriteFails(p)
        \/ Report(p)
        \/ Crash(p)

Spec == Init /\ [][Next]_vars

\* The operating system runs a process that has begun until it ends.
FairSpec == Spec /\ \A p \in Process : WF_vars(Steps(p))

-----------------------------------------------------------------------------
(* Properties *)

Text == {t \in [selected : Network \cup {None}, after : Seq({"newline", "other"})] :
            t.selected = None => t = Empty}

(***************************************************************************)
(* Every variable has a value of its type, and what a process is about to  *)
(* write selects the network it was asked to set.                          *)
(***************************************************************************)
TypeOK ==
    /\ file \in Text
    /\ at \in [Process -> {"idle", "read", "open", "written"}]
    /\ goal \in [Process -> Network \cup {None}]
    /\ text \in [Process -> Text]
    /\ shown \in [Process -> Network \cup {None}]
    /\ sets \in Nat
    /\ \A p \in Process : at[p] \in {"read", "open"} =>
          goal[p] \in Network /\ text[p].selected = goal[p]

(***************************************************************************)
(* However many processes set the network at the same time, as long as     *)
(* none of them dies or fails to write, an empty file is about to be       *)
(* written: the selection is never left lost.                              *)
(***************************************************************************)
NeverLeftEmpty == file.selected = None => \E p \in Process : at[p] = "open"

(***************************************************************************)
(* ... and it is written: an empty file does not stay empty.               *)
(***************************************************************************)
EmptyGetsWritten == file.selected = None ~> file.selected # None

(***************************************************************************)
(* A command is shown the network the file selects.  Without faults there  *)
(* are two exceptions: it runs while another process is between emptying   *)
(* the file and writing it, or two processes that wrote at the same time   *)
(* have left a text that does not parse.                                   *)
(***************************************************************************)
ShownSelection ==
    [][\A p \in Process :
          shown'[p] # shown[p] =>
             \/ shown'[p] = file.selected
             \/ \E q \in Process : at[q] = "open"
             \/ ~Parses(file)]_vars

\* No text that parses is left, neither in the file nor with a process that
\* is going to write it.
Ruined ==
    /\ file.selected = None \/ ~Parses(file)
    /\ \A p \in Process : at[p] \in {"read", "open"} => ~Parses(text[p])

(***************************************************************************)
(* When the last text that parses is gone it is gone for good: though      *)
(* every `network set` finds its line, replaces it, writes the whole file  *)
(* and reports, all commands of all processes are shown the fallback from  *)
(* then on.                                                                *)
(***************************************************************************)
RuinedForGood ==
    [][Ruined => Ruined' /\ \A p \in Process : shown'[p] \in {shown[p], Fallback}]_vars

\* The selection, for the file of one process: it changes when the file is
\* emptied.
Selection == IF \E p \in Process : at[p] = "open"
             THEN goal[CHOOSE p \in Process : at[p] = "open"]
             ELSE file.selected

Register == INSTANCE NetworkSelection WITH selected <- Selection,
                                           Durable  <- Faults = {}

(***************************************************************************)
(* Commands that run one after the other see one network selected, which   *)
(* `network set` replaces atomically.  Only a command that is killed or    *)
(* cannot write may lose the selection, and it does nothing worse:         *)
(* commands are shown the selection or, when it is lost, the fallback; and *)
(* a lost selection is lost for good.                                      *)
(***************************************************************************)
IsRegister == Register!Spec

(***************************************************************************)
(* "Config changed to": a `network set` that prints this has changed what  *)
(* config() returns, when it is the only process.  Not so when the write   *)
(* fails: the file is left empty and every later command is shown the      *)
(* fallback.                                                               *)
(***************************************************************************)
ChangedAsReported ==
    [][\A p \in Process : Report(p) => shown'[p] = goal[p]]_vars
=============================================================================
