------------------------------ MODULE PaidOrders ------------------------------
(***************************************************************************)
(* What a program may rely on when it pays orders through the SDK: each    *)
(* order is paid once or never, with an outcome that is settled when it is *)
(* paid, and the program learns of an order at most once, and nothing but  *)
(* its outcome.  Requests, replies and nonces are not in it.               *)
(***************************************************************************)
EXTENDS Naturals, Sequences

CONSTANTS
    Program,    \* the programs that pay
    MaxOrders   \* the orders of a program

VARIABLES
    paid,       \* the payments in their order, each with its outcome
    verdict     \* program -> order -> what the program knows of it

Payment == [by : Program, order : 1..MaxOrders, outcome : {"success", "failed"}]

Init ==
    /\ paid = <<>>
    /\ verdict = [p \in Program |-> [o \in 1..MaxOrders |-> "unknown"]]

\* The network executes the transaction of an order.
Pay(m) ==
    /\ \A i \in DOMAIN paid : paid[i].by = m.by => paid[i].order # m.order
    /\ paid' = Append(paid, m)
    /\ UNCHANGED verdict

\* The program is told the outcome of an order.
Learn(p, o) ==
    /\ verdict[p][o] = "unknown"
    /\ \E i \in DOMAIN paid :
          /\ paid[i].by = p /\ paid[i].order = o
          /\ verdict' = [verdict EXCEPT ![p][o] = paid[i].outcome]
    /\ UNCHANGED paid

Next ==
    \/ \E m \in Payment : Pay(m)
    \/ \E p \in Program, o \in 1..MaxOrders : Learn(p, o)

Spec == Init /\ [][Next]_<<paid, verdict>>
=============================================================================
