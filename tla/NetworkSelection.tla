--------------------------- MODULE NetworkSelection ---------------------------
(***************************************************************************)
(* What the configuration file of the command line promises to the         *)
(* commands that use it: one network is selected, `network set` replaces   *)
(* it at one instant, and a command that asks is shown the selection.      *)
(*                                                                         *)
(* The selection may also be lost.  It is then lost for good, no command   *)
(* can select a network any more, and commands are shown the fallback.     *)
(***************************************************************************)
CONSTANTS
    Process,   \* the command line processes
    Network,   \* Mainnet, Testnet, Devnet, Local
    Fallback,  \* the network whose parameters config() falls back to
    None,      \* no network
    Durable    \* whether the selection is never lost

VARIABLES
    selected,  \* the selected network, or None when it is lost
    shown      \* process -> what its last config() returned, None before

Init == selected \in Network /\ shown = [p \in Process |-> None]

Set(n) == selected # None /\ selected' = n /\ UNCHANGED shown

Show(p) ==
    /\ shown' = [shown EXCEPT ![p] = IF selected = None THEN Fallback ELSE selected]
    /\ UNCHANGED selected

Lose == ~Durable /\ selected' = None /\ UNCHANGED shown

Next == Lose \/ (\E n \in Network : Set(n)) \/ \E p \in Process : Show(p)

Spec == Init /\ [][Next]_<<selected, shown>>
=============================================================================
