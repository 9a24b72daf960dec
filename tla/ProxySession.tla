----------------------------- MODULE ProxySession -----------------------------
(***************************************************************************)
(* Programs that pay from one account through a proxy                      *)
(* (src/src/provider/proxyprovider.cpp, apiresponse.h, data_transaction.   *)
(* cpp, src/src/account/account.cpp), as README.md shows: get the account, *)
(* build a transaction with its nonce, send it, ask for its status.        *)
(*                                                                         *)
(* A call to the proxy is one HTTP request.  It may be lost, its reply may *)
(* be lost, and it may reach the network after the client has stopped      *)
(* waiting; in all three cases the call throws, and throwing says nothing  *)
(* about what the network did.  The Account is a copy of what the network  *)
(* said once; incrementNonce() keeps it up by hand.                        *)
(*                                                                         *)
(* The programs and the network are external.  A program counts up after   *)
(* each send that returned, sends the same transaction again or drops the  *)
(* order when send() throws, and asks for the account anew only between    *)
(* orders.  The network runs the transactions of an account in the order   *)
(* of their nonces, one for each nonce.                                    *)
(***************************************************************************)
EXTENDS Naturals, Sequences, FiniteSets

CONSTANTS
    Program,    \* the programs that share the account
    Null,       \* no value: null JSON data, no transaction, no nonce yet
    MaxOrders,  \* bound: payments a program is asked for
    MaxCalls    \* bound: program -> the calls it makes to the proxy

\* What the properties tell apart of a transaction, and a call to the proxy.
Tx == [by : Program, order : 1..MaxOrders, nonce : Nat]

Calls == [by : Program, id : Nat, what : {"account", "send", "status"},
          tx : Tx \cup {Null}]

ASSUME SessionAssumption == MaxOrders \in Nat /\ Null \notin Calls

VARIABLES
    chain,      \* the executed transactions, with their status
    pool,       \* the accepted transactions that are not executed
    requests,   \* the requests on their way to the network; one that is
                \* lost stays
    phase,      \* program -> "idle", "waiting" or "answered"
    call,       \* program -> its last request
    reply,      \* program -> what the HTTP client returned to that request
    nonce,      \* program -> m_nonce of its Account
    order,      \* program -> the payment it works on
    hash,       \* program -> the transaction send() returned the hash of
    verdict,    \* program -> order -> "success", "failed" or "unknown"
    calls       \* program -> calls made so far

net  == <<chain, pool>>
prog == <<nonce, order, hash, verdict>>
vars == <<chain, pool, requests, phase, call, reply, nonce, order, hash, verdict, calls>>

-----------------------------------------------------------------------------
(* Replies and what the provider makes of them *)

\* wrapper::http::Client: no response at all; only then is error true.
NoReply == [error |-> TRUE, message |-> "", code |-> "", data |-> Null]

\* A JSON body; message is the value of its key "error".
Body(message, code, data) ==
    [error |-> FALSE, message |-> message, code |-> code, data |-> data]

\* getPayLoad would not check the operation (mutant).
PayLoadUnchecked(res, key) ==
    IF res.error \/ res.data = Null THEN Null
    ELSE IF key \in DOMAIN res.data THEN res.data[key] ELSE Null

\* internal::getPayLoad and requireAttribute: what the data of a reply has
\* under a key, or Null when one of them throws.  The status of the HTTP
\* response is not looked at; any code that contains "success" will do, also
\* "unsuccessful".
PayLoad(res, key) ==
    IF \/ res.error \/ res.message # ""
       \/ res.code \notin {"success", "successful", "unsuccessful"}
       \/ res.data = Null
    THEN Null
    ELSE IF key \in DOMAIN res.data THEN res.data[key] ELSE Null

\* The predicates of TransactionStatus.
IsInvalid(s)    == s = "invalid"
IsPending(s)    == s = "pending"

\* Everything that is not pending would be successful (mutant).
IsSuccessfulLax(s) == ~IsPending(s)

IsSuccessful(s) == s \in {"success", "successful"}
IsFailed(s)     == s \in {"fail", "failed", "unsuccessful"} \/ IsInvalid(s)

-----------------------------------------------------------------------------
(* The network (external) *)

Executed == {chain[i].tx : i \in DOMAIN chain}

StatusOf(t) == chain[CHOOSE i \in DOMAIN chain : chain[i].tx = t].status

Ok(data) == {Body("", "successful", data)}

\* A failed operation, which its code tells and mostly a text; the data may
\* be there all the same.
Error(data) ==
    {Body("error", "internal_issue", d) : d \in {Null, data}}
    \cup {Body("", "internal_issue", data)}

Init ==
    /\ chain = <<>> /\ pool = {} /\ requests = {}
    /\ phase = [p \in Program |-> "idle"]
    /\ call = [p \in Program |-> Null]
    /\ reply = [p \in Program |-> NoReply]
    /\ nonce = [p \in Program |-> Null]
    /\ order = [p \in Program |-> 1]
    /\ hash = [p \in Program |-> Null]
    /\ verdict = [p \in Program |-> [o \in 1..MaxOrders |-> "unknown"]]
    /\ calls = [p \in Program |-> 0]

\* The reply reaches p if p still waits for it; it may also be lost.
Answer(r, replies) ==
    /\ requests' = requests \ {r}
    /\ \/ UNCHANGED <<phase, reply>>
       \/ /\ phase[r.by] = "waiting" /\ call[r.by] = r
          /\ \E res \in replies : reply' = [reply EXCEPT ![r.by] = res]
          /\ phase' = [phase EXCEPT ![r.by] = "answered"]
    /\ UNCHANGED <<call, prog, calls>>

\* GET /address/...: the nonce of the account.
AnswerAccount(r) ==
    /\ r \in requests /\ r.what = "account"
    /\ Answer(r, Ok([nonce |-> Len(chain)]))
    /\ UNCHANGED net

\* POST /transaction/send: the network takes the transaction, unless its
\* nonce is used up or something else is wrong with it.  The reply to a
\* transaction that was taken may still be an error.
AnswerSend(r) ==
    /\ r \in requests /\ r.what = "send"
    /\ \/ /\ r.tx.nonce >= Len(chain)
          /\ pool' = pool \cup {r.tx}
          /\ Answer(r, Ok([txHash |-> r.tx]) \cup Error([txHash |-> r.tx]))
       \/ /\ UNCHANGED pool
          /\ Answer(r, Error([txHash |-> r.tx]))
    /\ UNCHANGED chain

\* GET /transaction/.../status.
AnswerStatus(r) ==
    /\ r \in requests /\ r.what = "status"
    /\ Answer(r, IF r.tx \in Executed THEN Ok([status |-> StatusOf(r.tx)])
                 ELSE IF r.tx \in pool THEN Ok([status |-> "pending"])
                 ELSE Error(Null))
    /\ UNCHANGED net

\* A transaction whose turn it is is executed; the others with its nonce
\* never are.
Execute(t) ==
    /\ t \in pool /\ t.nonce = Len(chain)
    /\ \E status \in {"success", "fail", "invalid"} :
          chain' = Append(chain, [tx |-> t, status |-> status])
    /\ pool' = {u \in pool : u.nonce > t.nonce}
    /\ UNCHANGED <<requests, phase, call, reply, prog, calls>>

-----------------------------------------------------------------------------
(* The calls of a program *)

Request(p, what, t) ==
    LET r == [by |-> p, id |-> calls[p] + 1, what |-> what, tx |-> t]
    IN /\ phase[p] = "idle" /\ calls[p] < MaxCalls[p]
       /\ requests' = requests \cup {r}
       /\ call' = [call EXCEPT ![p] = r]
       /\ calls' = [calls EXCEPT ![p] = @ + 1]
       /\ phase' = [phase EXCEPT ![p] = "waiting"]
       /\ UNCHANGED <<net, reply, prog>>

\* The program has sent a transaction for the order it works on.
Sent(p) ==
    IF call[p] = Null THEN FALSE
    ELSE hash[p] # Null \/ (call[p].what = "send" /\ call[p].tx.order = order[p])

\* ProxyProvider::getAccount, between orders.
GetAccount(p) ==
    /\ order[p] <= MaxOrders /\ ~Sent(p)
    /\ Request(p, "account", Null)

\* ProxyProvider::send, of the transaction built for the order with
\* account.getNonce(); the same one again after a send that threw.
Send(p) ==
    /\ order[p] <= MaxOrders /\ nonce[p] # Null /\ hash[p] = Null
    /\ Request(p, "send", [by |-> p, order |-> order[p], nonce |-> nonce[p]])

\* ProxyProvider::getTransactionStatus.
GetTransactionStatus(p) == hash[p] # Null /\ Request(p, "status", hash[p])

\* The client stops waiting.
TimeOut(p) ==
    /\ phase[p] = "waiting"
    /\ phase' = [phase EXCEPT ![p] = "answered"]
    /\ reply' = [reply EXCEPT ![p] = NoReply]
    /\ UNCHANGED <<net, requests, call, prog, calls>>

Returns(p, what) ==
    /\ phase[p] = "answered" /\ call[p].what = what
    /\ phase' = [phase EXCEPT ![p] = "idle"]
    /\ reply' = [reply EXCEPT ![p] = NoReply]
    /\ UNCHANGED <<net, requests, call, calls>>

AccountReturns(p) ==
    /\ Returns(p, "account")
    /\ LET n == PayLoad(reply[p], "nonce")
       IN nonce' = IF n = Null THEN nonce ELSE [nonce EXCEPT ![p] = n]
    /\ UNCHANGED <<order, hash, verdict>>

\* The nonce would be counted up also when send() throws (mutant).
SendReturnsCounting(p) ==
    /\ Returns(p, "send")
    /\ hash' = [hash EXCEPT ![p] = PayLoad(reply[p], "txHash")]
    /\ nonce' = [nonce EXCEPT ![p] = @ + 1]
    /\ UNCHANGED <<order, verdict>>

\* send() returns the hash, and the program calls incrementNonce().
SendReturns(p) ==
    /\ Returns(p, "send")
    /\ hash' = [hash EXCEPT ![p] = PayLoad(reply[p], "txHash")]
    /\ nonce' = IF hash'[p] = Null THEN nonce
                ELSE [nonce EXCEPT ![p] = @ + 1]
    /\ UNCHANGED <<order, verdict>>

\* The hash would be kept for the next order (mutant).
StatusReturnsKeeping(p) ==
    /\ Returns(p, "status")
    /\ LET s == PayLoad(reply[p], "status")
       IN IF s # Null /\ (IsSuccessful(s) \/ IsFailed(s))
          THEN /\ verdict' = [verdict EXCEPT ![p][order[p]] =
                                 IF IsSuccessful(s) THEN "success" ELSE "failed"]
               /\ order' = [order EXCEPT ![p] = @ + 1]
          ELSE UNCHANGED <<verdict, order>>
    /\ UNCHANGED <<nonce, hash>>

\* The program takes the next order when the status is final.
StatusReturns(p) ==
    /\ Returns(p, "status")
    /\ LET s == PayLoad(reply[p], "status")
       IN IF s # Null /\ (IsSuccessful(s) \/ IsFailed(s))
          THEN /\ verdict' = [verdict EXCEPT ![p][order[p]] =
                                 IF IsSuccessful(s) THEN "success" ELSE "failed"]
               /\ order' = [order EXCEPT ![p] = @ + 1]
               /\ hash' = [hash EXCEPT ![p] = Null]
          ELSE UNCHANGED <<verdict, order, hash>>
    /\ UNCHANGED nonce

\* The program drops an order it has sent, not knowing what became of it.
GiveUp(p) ==
    /\ phase[p] = "idle" /\ order[p] <= MaxOrders /\ Sent(p)
    /\ order' = [order EXCEPT ![p] = @ + 1]
    /\ hash' = [hash EXCEPT ![p] = Null]
    /\ UNCHANGED <<net, requests, phase, call, reply, nonce, verdict, calls>>

Next ==
    \/ \E r \in requests :
          AnswerAccount(r) \/ AnswerSend(r) \/ AnswerStatus(r)
    \/ \E t \in pool : Execute(t)
    \/ \E p \in Program :
          \/ GetAccount(p) \/ Send(p) \/ GetTransactionStatus(p)
          \/ TimeOut(p)
          \/ AccountReturns(p) \/ SendReturns(p) \/ StatusReturns(p)
          \/ GiveUp(p)

Spec == Init /\ [][Next]_vars

-----------------------------------------------------------------------------
(* Properties *)

Accepted == pool \cup Executed

(***************************************************************************)
(* Every variable has a value of its type, nonces are used in their order, *)
(* and the hash a program keeps is the one of the order it works on.       *)
(***************************************************************************)
TypeOK ==
    /\ chain \in Seq([tx : Tx, status : {"success", "fail", "invalid"}])
    /\ \A i \in DOMAIN chain : chain[i].tx.nonce = i - 1
    /\ pool \subseteq Tx
    /\ requests \subseteq {r \in Calls : r.what # "account" => r.tx \in Tx}
    /\ call \in [Program -> Calls \cup {Null}]
    /\ calls \in [Program -> Nat]
    /\ phase \in [Program -> {"idle", "waiting", "answered"}]
    /\ reply = [p \in Program |-> reply[p]]
    /\ nonce \in [Program -> Nat \cup {Null}]
    /\ order \in [Program -> 1..(MaxOrders + 1)]
    /\ hash \in [Program -> Tx \cup {Null}]
    /\ \A p \in Program : hash[p] # Null => hash[p].by = p /\ hash[p].order = order[p]
    /\ verdict \in [Program -> [1..MaxOrders -> {"success", "failed", "unknown"}]]

(***************************************************************************)
(* When send() returns a hash, the network has taken the transaction: it   *)
(* waits for its turn, was executed, or lost its nonce to another one.  An *)
(* error reply, with data or without, never looks like a success.          *)
(***************************************************************************)
HashMeansTaken ==
    \A p \in Program :
        hash[p] # Null => hash[p] \in Accepted \/ hash[p].nonce < Len(chain)

(***************************************************************************)
(* No order is paid twice, though requests and replies are lost or late    *)
(* and sends are repeated: the same nonce goes with the same order.        *)
(***************************************************************************)
PaidOnce ==
    \A i, j \in DOMAIN chain :
        i # j => \/ chain[i].tx.by # chain[j].tx.by
                 \/ chain[i].tx.order # chain[j].tx.order

(***************************************************************************)
(* The verdict on an order is what became of it, for good.                 *)
(***************************************************************************)
VerdictTrue ==
    \A p \in Program, o \in 1..MaxOrders :
        verdict[p][o] # "unknown" =>
            \E i \in DOMAIN chain :
               /\ chain[i].tx.by = p /\ chain[i].tx.order = o
               /\ chain[i].status = "success" <=> verdict[p][o] = "success"

(***************************************************************************)
(* The nonces of the accepted transactions have no gap, so that each of    *)
(* them gets its turn or gives it to another: an Account that is kept up   *)
(* by hand never runs ahead of the network, though other programs use the  *)
(* same account.                                                           *)
(***************************************************************************)
NoGap ==
    \A t \in Accepted : \A n \in 0..t.nonce : \E u \in Accepted : u.nonce = n

\* The chain as the payments of PaidOrders.
Paid ==
    [i \in DOMAIN chain |->
        [by |-> chain[i].tx.by, order |-> chain[i].tx.order,
         outcome |-> IF chain[i].status = "success" THEN "success" ELSE "failed"]]

Orders == INSTANCE PaidOrders WITH paid <- Paid

(***************************************************************************)
(* Over a connection that loses, delays and repeats, the programs have     *)
(* what PaidOrders promises: every step pays a new order, tells a program  *)
(* the true outcome of an order it did not know, or shows nothing.         *)
(***************************************************************************)
IsPaidOrders == Orders!Spec
=============================================================================
