-------------------------- MODULE ProxySessionProofs --------------------------
(***************************************************************************)
(* Paying over a connection that loses and delays, for any programs,       *)
(* orders and numbers of calls: types, hashes, nonces without gaps, orders *)
(* paid once, true verdicts.                                               *)
(***************************************************************************)
EXTENDS ProxySession, SequenceTheorems, TLAPS

-----------------------------------------------------------------------------
(* The inductive invariant *)

\* Nonce n has been accepted; t has been accepted or lost its nonce.
Covered(n) == n < Len(chain) \/ \E u \in pool : u.nonce = n
Taken(t)   == t \in pool \/ t.nonce < Len(chain)

\* The transactions the network may know, now or later.
Known == {r.tx : r \in {q \in requests : q.what = "send"}} \cup Accepted

\* A program that waits has called for the order it works on.
WorkingAt(p) ==
    /\ hash[p] # Null => call[p] # Null
    /\ phase[p] # "idle" =>
          /\ call[p] # Null /\ call[p].by = p
          /\ call[p].what = "account" => ~\E t \in Known : t.by = p /\ t.order = order[p]
          /\ call[p].what = "send" =>
                /\ hash[p] = Null /\ nonce[p] # Null /\ order[p] <= MaxOrders
                /\ call[p].tx = [by |-> p, order |-> order[p], nonce |-> nonce[p]]
          /\ call[p].what = "status" => hash[p] # Null /\ hash[p] = call[p].tx

Working == \A p \in Program : WorkingAt(p)

\* What the HTTP client has for a program that is answered: nothing, an
\* error, or what the network said, which is still so.
ReplyTrueAt(p) ==
    \/ reply[p] = NoReply
    \/ reply[p].code = "internal_issue"
    \/ /\ call[p].what = "account"
       /\ \E n \in 0..Len(chain) : reply[p] = Body("", "successful", [nonce |-> n])
    \/ /\ call[p].what = "send" /\ Taken(call[p].tx)
       /\ reply[p] = Body("", "successful", [txHash |-> call[p].tx])
    \/ /\ call[p].what = "status"
       /\ reply[p] = Body("", "successful", [status |-> "pending"])
    \/ /\ call[p].what = "status"
       /\ \E i \in DOMAIN chain :
             /\ chain[i].tx = call[p].tx
             /\ reply[p] = Body("", "successful", [status |-> chain[i].status])

ReplyTrue == \A p \in Program : phase[p] = "answered" => ReplyTrueAt(p)

\* A program that may ask for its nonce anew has sent nothing for its order;
\* until the order is settled it sends with the same nonce.
NonceAt(t, p) ==
    /\ t.order <= order[p]
    /\ t.order = order[p] => Sent(p) /\ (hash[p] = Null => t.nonce = nonce[p])

SameNonce ==
    /\ \A t \in Known : NonceAt(t, t.by)
    /\ \A t, u \in Known : t.by = u.by /\ t.order = u.order => t.nonce = u.nonce

\* No nonce is used before those below it.
GapFree ==
    /\ \A t \in Known : \A n \in 0..(t.nonce - 1) : Covered(n)
    /\ \A p \in Program : nonce[p] # Null => \A n \in 0..(nonce[p] - 1) : Covered(n)

\* A hash is that of a transaction the network has taken.
HashTaken == \A p \in Program : hash[p] # Null => Taken(hash[p])

\* The order of a program with a verdict became what the verdict says.
VerdictAt(p, o) ==
    \E i \in DOMAIN chain :
       /\ chain[i].tx.by = p /\ chain[i].tx.order = o
       /\ chain[i].status = "success" <=> verdict[p][o] = "success"

SessionInv ==
    /\ TypeOK /\ Working /\ ReplyTrue
    /\ SameNonce /\ GapFree /\ HashTaken /\ VerdictTrue

-----------------------------------------------------------------------------
(* Types *)

Entry == [tx : Tx, status : {"success", "fail", "invalid"}]

\* A payload is the data under the key; a failed operation has none.
LEMMA PayLoadOf ==
    ASSUME NEW key, NEW d
    PROVE  /\ PayLoad(NoReply, key) = Null
           /\ \A res : res.code = "internal_issue" => PayLoad(res, key) = Null
           /\ PayLoad(Body("", "successful", d), key) \in {Null, d[key]}
BY DEF PayLoad, NoReply, Body

\* What the provider makes of the reply to each of the calls.
LEMMA Returned ==
    ASSUME ReplyTrue, NEW p \in Program, phase[p] = "answered"
    PROVE  /\ call[p].what = "account" =>
                 PayLoad(reply[p], "nonce") \in {Null} \cup 0..Len(chain)
           /\ call[p].what = "send" /\ PayLoad(reply[p], "txHash") # Null =>
                 PayLoad(reply[p], "txHash") = call[p].tx /\ Taken(call[p].tx)
           /\ call[p].what = "status" /\ PayLoad(reply[p], "status") # Null =>
                 \/ PayLoad(reply[p], "status") = "pending"
                 \/ \E i \in DOMAIN chain :
                       /\ chain[i].tx = call[p].tx
                       /\ PayLoad(reply[p], "status") = chain[i].status
<1>1. CASE reply[p] = NoReply \/ reply[p].code = "internal_issue"
  BY <1>1, PayLoadOf
<1>2. ASSUME call[p].what = "account", NEW n \in 0..Len(chain),
             reply[p] = Body("", "successful", [nonce |-> n])
      PROVE  PayLoad(reply[p], "nonce") \in {Null} \cup 0..Len(chain)
  BY <1>2, PayLoadOf
<1>3. ASSUME reply[p] = Body("", "successful", [txHash |-> call[p].tx])
      PROVE  PayLoad(reply[p], "txHash") \in {Null, call[p].tx}
  BY <1>3, PayLoadOf
<1>4. ASSUME NEW s, reply[p] = Body("", "successful", [status |-> s])
      PROVE  PayLoad(reply[p], "status") \in {Null, s}
  BY <1>4, PayLoadOf
<1>5. CASE call[p].what = "account"
  BY <1>1, <1>2, <1>5 DEF ReplyTrue, ReplyTrueAt
<1>6. CASE call[p].what = "send"
  BY <1>1, <1>3, <1>6 DEF ReplyTrue, ReplyTrueAt
<1>7. CASE call[p].what = "status"
  BY <1>1, <1>4, <1>7 DEF ReplyTrue, ReplyTrueAt
<1> QED
  BY <1>5, <1>6, <1>7

LEMMA InitType == Init => TypeOK
BY SessionAssumption DEF Init, TypeOK, Executed, Calls, Tx

\* A transaction that is executed takes the next place of the chain.
LEMMA ExecuteType ==
    ASSUME TypeOK, NEW t \in pool, Execute(t)
    PROVE  /\ chain' \in Seq(Entry)
           /\ Len(chain') = Len(chain) + 1
           /\ chain'[Len(chain) + 1].tx = t /\ t.nonce = Len(chain) /\ t \in Tx
           /\ \A i \in 1..Len(chain) : chain'[i] = chain[i]
<1>1. PICK s \in {"success", "fail", "invalid"} : chain' = Append(chain, [tx |-> t, status |-> s])
  BY DEF Execute
<1>2. t \in Tx /\ t.nonce = Len(chain)
  BY DEF TypeOK, Execute
<1>3. chain \in Seq(Entry) /\ [tx |-> t, status |-> s] \in Entry
  BY <1>2 DEF TypeOK, Entry
<1> QED
  BY <1>1, <1>2, <1>3

\* A reply leaves everything but the program that gets it.
LEMMA AnswerType ==
    ASSUME TypeOK, NEW r \in requests, NEW replies, Answer(r, replies)
    PROVE  /\ phase' \in [Program -> {"idle", "waiting", "answered"}]
           /\ reply' = [p \in Program |-> reply'[p]]
           /\ requests' \subseteq requests
           /\ UNCHANGED <<call, nonce, order, hash, verdict, calls>>
BY DEF TypeOK, Answer, prog

LEMMA StepType == TypeOK /\ Working /\ ReplyTrue /\ [Next]_vars => TypeOK'
<1> SUFFICES ASSUME TypeOK, Working, ReplyTrue, [Next]_vars PROVE TypeOK'
  OBVIOUS
<1>1. ASSUME NEW r \in requests, AnswerAccount(r) \/ AnswerStatus(r) PROVE TypeOK'
  <2>1. UNCHANGED <<chain, pool>> /\ \E replies : Answer(r, replies)
    BY <1>1 DEF AnswerAccount, AnswerStatus, net
  <2> QED
    BY <2>1, AnswerType DEF TypeOK
<1>2. ASSUME NEW r \in requests, AnswerSend(r) PROVE TypeOK'
  <2>1. UNCHANGED chain /\ \E replies : Answer(r, replies)
    BY <1>2 DEF AnswerSend
  <2>2. pool' \subseteq Tx
    BY <1>2 DEF AnswerSend, TypeOK
  <2> QED
    BY <2>1, <2>2, AnswerType DEF TypeOK
<1>3. ASSUME NEW t \in pool, Execute(t) PROVE TypeOK'
  <2>1. /\ chain' \in Seq(Entry) /\ Len(chain') = Len(chain) + 1
        /\ chain'[Len(chain) + 1].tx = t /\ t.nonce = Len(chain)
        /\ \A i \in 1..Len(chain) : chain'[i] = chain[i]
    BY <1>3, ExecuteType
  <2>2. \A i \in DOMAIN chain' : chain'[i].tx.nonce = i - 1
    <3> SUFFICES ASSUME NEW i \in DOMAIN chain' PROVE chain'[i].tx.nonce = i - 1
      OBVIOUS
    <3>1. DOMAIN chain = 1..Len(chain) /\ Len(chain) \in Nat
      BY DEF TypeOK
    <3>2. i \in 1..Len(chain) \/ i = Len(chain) + 1
      BY <2>1, <3>1
    <3> QED
      BY <2>1, <3>1, <3>2 DEF TypeOK
  <2> QED
    BY <1>3, <2>1, <2>2 DEF TypeOK, Execute, Entry, prog
<1>4. ASSUME NEW p \in Program, NEW what \in {"account", "send", "status"},
             NEW t \in Tx \cup {Null}, what # "account" => t \in Tx, Request(p, what, t)
      PROVE  TypeOK'
  <2>1. [by |-> p, id |-> calls[p] + 1, what |-> what, tx |-> t]
           \in {r \in Calls : r.what # "account" => r.tx \in Tx}
    BY <1>4 DEF TypeOK, Calls
  <2> QED
    BY <1>4, <2>1 DEF TypeOK, Request, net, prog
<1>5. ASSUME NEW p \in Program, GetAccount(p) PROVE TypeOK'
  BY <1>4, <1>5 DEF GetAccount
<1>6. ASSUME NEW p \in Program, Send(p) PROVE TypeOK'
  <2>1. [by |-> p, order |-> order[p], nonce |-> nonce[p]] \in Tx
    BY <1>6, SessionAssumption DEF Send, TypeOK, Tx
  <2> QED
    BY <1>4, <1>6, <2>1 DEF Send
<1>7. ASSUME NEW p \in Program, GetTransactionStatus(p) PROVE TypeOK'
  <2>1. hash[p] \in Tx
    BY <1>7 DEF GetTransactionStatus, TypeOK
  <2> QED
    BY <1>4, <1>7, <2>1 DEF GetTransactionStatus
<1>8. ASSUME NEW p \in Program, TimeOut(p) PROVE TypeOK'
  BY <1>8 DEF TypeOK, TimeOut, net, prog
<1>9. ASSUME NEW p \in Program, NEW what, Returns(p, what)
      PROVE  /\ UNCHANGED <<chain, pool, requests, call, calls>>
             /\ phase' \in [Program -> {"idle", "waiting", "answered"}]
             /\ reply' = [q \in Program |-> reply'[q]]
  BY <1>9 DEF Returns, TypeOK, net
<1>10. ASSUME NEW p \in Program, AccountReturns(p) PROVE TypeOK'
  <2>1. PayLoad(reply[p], "nonce") \in {Null} \cup 0..Len(chain)
    BY <1>10, Returned DEF AccountReturns, Returns
  <2>2. nonce' \in [Program -> Nat \cup {Null}]
    BY <1>10, <2>1 DEF AccountReturns, TypeOK
  <2> QED
    BY <1>9, <1>10, <2>2 DEF AccountReturns, TypeOK
<1>11. ASSUME NEW p \in Program, SendReturns(p) PROVE TypeOK'
  <2>1. /\ call[p] = [by |-> p, id |-> call[p].id, what |-> "send", tx |-> call[p].tx]
        /\ nonce[p] \in Nat /\ order[p] \in 1..MaxOrders
        /\ call[p].tx = [by |-> p, order |-> order[p], nonce |-> nonce[p]]
    BY <1>11, SessionAssumption DEF SendReturns, Returns, Working, WorkingAt, TypeOK, Calls
  <2>2. call[p].tx \in Tx /\ call[p].tx.by = p /\ call[p].tx.order = order[p]
    BY <2>1 DEF Tx
  <2>3. hash'[p] = Null \/ hash'[p] = call[p].tx
    BY <1>11, Returned DEF SendReturns, Returns, TypeOK
  <2>4. nonce' \in [Program -> Nat \cup {Null}]
    BY <1>11, <2>1 DEF SendReturns, TypeOK
  <2>5. /\ hash' \in [Program -> Tx \cup {Null}]
        /\ \A q \in Program : q # p => hash'[q] = hash[q]
    BY <1>11, <2>2, <2>3 DEF SendReturns, TypeOK
  <2> QED
    BY <1>9, <1>11, <2>2, <2>3, <2>4, <2>5 DEF SendReturns, TypeOK
<1>12. ASSUME NEW p \in Program, order[p] \in 1..MaxOrders,
              order' = [order EXCEPT ![p] = @ + 1], hash' = [hash EXCEPT ![p] = Null]
       PROVE  /\ order' \in [Program -> 1..(MaxOrders + 1)]
              /\ hash' \in [Program -> Tx \cup {Null}]
              /\ \A q \in Program :
                    hash'[q] # Null => hash'[q].by = q /\ hash'[q].order = order'[q]
  BY <1>12, SessionAssumption DEF TypeOK
<1>13. ASSUME NEW p \in Program, StatusReturns(p) PROVE TypeOK'
  <2>1. order[p] \in 1..MaxOrders
    <3>1. hash[p] \in Tx /\ hash[p].order = order[p]
      <4>1. hash[p] # Null
        BY <1>13 DEF StatusReturns, Returns, Working, WorkingAt
      <4> QED
        BY <4>1 DEF TypeOK
    <3> QED
      BY <3>1 DEF Tx
  <2>2. CASE UNCHANGED <<verdict, order, hash>>
    BY <1>9, <1>13, <2>2 DEF StatusReturns, TypeOK
  <2>3. CASE /\ order' = [order EXCEPT ![p] = @ + 1] /\ hash' = [hash EXCEPT ![p] = Null]
             /\ \E v \in {"success", "failed"} :
                   verdict' = [verdict EXCEPT ![p][order[p]] = v]
    <3>1. verdict' \in [Program -> [1..MaxOrders -> {"success", "failed", "unknown"}]]
      BY <2>1, <2>3 DEF TypeOK
    <3> QED
      BY <1>9, <1>12, <1>13, <2>1, <2>3, <3>1 DEF StatusReturns, TypeOK
  <2> QED
    BY <1>13, <2>2, <2>3 DEF StatusReturns
<1>15. ASSUME NEW p \in Program, GiveUp(p) PROVE TypeOK'
  <2>1. order[p] \in 1..MaxOrders
    BY <1>15, SessionAssumption DEF GiveUp, TypeOK
  <2> QED
    BY <1>12, <1>15, <2>1 DEF GiveUp, TypeOK, net
<1>14. ASSUME UNCHANGED vars PROVE TypeOK'
  BY <1>14 DEF vars, TypeOK
<1> QED
  BY <1>1, <1>2, <1>3, <1>5, <1>6, <1>7, <1>8, <1>10, <1>11, <1>13, <1>14, <1>15 DEF Next

-----------------------------------------------------------------------------
(* What the network has stays *)

\* Steps that leave the chain and the pool to themselves.
LEMMA NetKept ==
    ASSUME NEW p \in Program,
           \/ GetAccount(p) \/ Send(p) \/ GetTransactionStatus(p) \/ TimeOut(p)
           \/ AccountReturns(p) \/ SendReturns(p) \/ StatusReturns(p) \/ GiveUp(p)
    PROVE  UNCHANGED <<chain, pool>>
BY DEF GetAccount, Send, GetTransactionStatus, Request, TimeOut, AccountReturns,
       SendReturns, StatusReturns, Returns, GiveUp, net

LEMMA StepGrows ==
    ASSUME TypeOK, [Next]_vars
    PROVE  /\ Len(chain) \in Nat /\ Len(chain') \in Nat /\ Len(chain) <= Len(chain')
           /\ \A i \in 1..Len(chain) : chain'[i] = chain[i]
           /\ \A t \in Tx : Taken(t) => Taken(t)'
           /\ \A n \in Nat : Covered(n) => Covered(n)'
<1>0. chain \in Seq(Entry) /\ Len(chain) \in Nat
  BY DEF TypeOK, Entry
<1>1. CASE UNCHANGED chain /\ pool \subseteq pool'
  BY <1>0, <1>1 DEF Taken, Covered
<1>2. ASSUME NEW t \in pool, Execute(t)
      PROVE  /\ Len(chain') \in Nat /\ Len(chain) <= Len(chain')
             /\ \A i \in 1..Len(chain) : chain'[i] = chain[i]
             /\ \A u \in Tx : Taken(u) => Taken(u)'
             /\ \A n \in Nat : Covered(n) => Covered(n)'
  <2>1. /\ Len(chain') = Len(chain) + 1 /\ t.nonce = Len(chain)
        /\ \A i \in 1..Len(chain) : chain'[i] = chain[i]
    BY <1>2, ExecuteType
  <2>2. \A u \in pool : u.nonce \in Nat /\ (u \in pool' \/ u.nonce < Len(chain'))
    BY <1>0, <1>2, <2>1 DEF Execute, TypeOK, Tx
  <2>3. \A u \in Tx : Taken(u) => Taken(u)'
    BY <1>0, <2>1, <2>2 DEF Taken, Tx
  <2>4. \A n \in Nat : Covered(n) => Covered(n)'
    BY <1>0, <2>1, <2>2 DEF Covered
  <2> QED
    BY <1>0, <2>1, <2>3, <2>4
<1>3. ASSUME NEW r \in requests, AnswerAccount(r) \/ AnswerSend(r) \/ AnswerStatus(r)
      PROVE  UNCHANGED chain /\ pool \subseteq pool'
  BY <1>3 DEF AnswerAccount, AnswerSend, AnswerStatus, net
<1>4. CASE UNCHANGED vars
  BY <1>1, <1>4 DEF vars
<1> QED
  BY <1>0, <1>1, <1>2, <1>3, <1>4, NetKept DEF Next

\* Only a send adds to what the network may know.
LEMMA StepKnown ==
    ASSUME TypeOK, [Next]_vars, NEW t \in Known'
    PROVE  \/ t \in Known
           \/ \E p \in Program : /\ Send(p)
                                 /\ t = [by |-> p, order |-> order[p], nonce |-> nonce[p]]
<1>1. ASSUME UNCHANGED <<chain, pool>>, requests' \subseteq requests PROVE t \in Known
  BY <1>1 DEF Known, Accepted, Executed
<1>2. ASSUME NEW u \in pool, Execute(u) PROVE t \in Known
  <2>1. Executed' \subseteq Executed \cup {u}
    <3>1. /\ chain' \in Seq(Entry) /\ chain \in Seq(Entry)
          /\ Len(chain') = Len(chain) + 1 /\ chain'[Len(chain) + 1].tx = u
          /\ \A i \in 1..Len(chain) : chain'[i] = chain[i]
      BY <1>2, ExecuteType DEF TypeOK, Entry
    <3>2. \A i \in DOMAIN chain' : i \in DOMAIN chain \/ i = Len(chain) + 1
      BY <3>1
    <3>3. \A i \in DOMAIN chain : chain'[i] = chain[i]
      BY <3>1
    <3> QED
      BY <3>1, <3>2, <3>3 DEF Executed
  <2> QED
    BY <1>2, <2>1 DEF Execute, Known, Accepted
<1>3. ASSUME NEW r \in requests, AnswerSend(r) PROVE t \in Known
  <2>1. r.what = "send" /\ pool' \subseteq pool \cup {r.tx} /\ UNCHANGED chain
        /\ requests' \subseteq requests
    BY <1>3 DEF AnswerSend, Answer
  <2> QED
    BY <2>1 DEF Known, Accepted, Executed
<1>4. ASSUME NEW r \in requests, AnswerAccount(r) \/ AnswerStatus(r) PROVE t \in Known
  BY <1>1, <1>4 DEF AnswerAccount, AnswerStatus, Answer, net
<1>5. ASSUME NEW p \in Program, NEW what, NEW u, Request(p, what, u)
      PROVE  t \in Known \/ (what = "send" /\ t = u)
  BY <1>5 DEF Request, Known, Accepted, Executed, net
<1>6. ASSUME NEW p \in Program, GetAccount(p) \/ GetTransactionStatus(p)
      PROVE  t \in Known
  BY <1>5, <1>6 DEF GetAccount, GetTransactionStatus
<1>7. ASSUME NEW p \in Program, Send(p)
      PROVE  t \in Known \/ t = [by |-> p, order |-> order[p], nonce |-> nonce[p]]
  BY <1>5, <1>7 DEF Send
<1>8. ASSUME NEW p \in Program,
             \/ TimeOut(p) \/ AccountReturns(p) \/ SendReturns(p)
             \/ StatusReturns(p) \/ GiveUp(p)
      PROVE  t \in Known
  BY <1>1, <1>8 DEF TimeOut, AccountReturns, SendReturns, StatusReturns, Returns, GiveUp, net
<1>9. CASE UNCHANGED vars
  BY <1>1, <1>9 DEF vars
<1> QED
  BY <1>2, <1>3, <1>4, <1>6, <1>7, <1>8, <1>9 DEF Next

LEMMA KnownType == TypeOK => Known \subseteq Tx /\ Accepted \subseteq Known
<1> SUFFICES ASSUME TypeOK PROVE Known \subseteq Tx /\ Accepted \subseteq Known
  OBVIOUS
<1>1. Executed \subseteq Tx
  <2>1. \A i \in DOMAIN chain : chain[i] \in Entry
    <3>1. chain \in Seq(Entry)
      BY DEF TypeOK, Entry
    <3> QED
      BY <3>1
  <2> QED
    BY <2>1 DEF Executed, Entry
<1> QED
  BY <1>1 DEF Known, Accepted, TypeOK

-----------------------------------------------------------------------------
(* Every step keeps the invariant *)

\* A step of one program leaves the others alone.
LEMMA OthersKeep ==
    ASSUME TypeOK, NEW p \in Program,
           \/ GetAccount(p) \/ Send(p) \/ GetTransactionStatus(p) \/ TimeOut(p)
           \/ AccountReturns(p) \/ SendReturns(p) \/ StatusReturns(p) \/ GiveUp(p),
           NEW q \in Program, q # p
    PROVE  /\ phase'[q] = phase[q] /\ call'[q] = call[q] /\ nonce'[q] = nonce[q]
           /\ order'[q] = order[q] /\ hash'[q] = hash[q] /\ calls'[q] = calls[q]
           /\ verdict'[q] = verdict[q] /\ reply'[q] = reply[q]
<1>1. CASE GetAccount(p) \/ Send(p) \/ GetTransactionStatus(p)
  <2>1. PICK what, t : Request(p, what, t)
    BY <1>1 DEF GetAccount, Send, GetTransactionStatus
  <2> QED
    BY <2>1 DEF Request, prog, TypeOK
<1>2. CASE TimeOut(p)
  BY <1>2 DEF TimeOut, prog, TypeOK
<1>3. CASE AccountReturns(p)
  BY <1>3 DEF AccountReturns, Returns, TypeOK
<1>4. CASE SendReturns(p)
  BY <1>4 DEF SendReturns, Returns, TypeOK
<1>5. CASE StatusReturns(p)
  BY <1>5 DEF StatusReturns, Returns, TypeOK
<1>6. CASE GiveUp(p)
  BY <1>6 DEF GiveUp, TypeOK
<1> QED
  BY <1>1, <1>2, <1>3, <1>4, <1>5, <1>6

\* A step of the network changes no more of a program than that it is answered.
LEMMA NetworkKeeps ==
    ASSUME TypeOK,
           \/ \E r \in requests : AnswerAccount(r) \/ AnswerSend(r) \/ AnswerStatus(r)
           \/ \E t \in pool : Execute(t)
           \/ UNCHANGED vars
    PROVE  /\ UNCHANGED <<call, nonce, order, hash, verdict, calls>>
           /\ \A q \in Program : phase'[q] # "idle" => phase[q] # "idle"
           /\ \A p \in Program : ~Send(p)
<1>1. /\ UNCHANGED <<call, nonce, order, hash, verdict, calls>>
      /\ \A q \in Program : phase'[q] # "idle" => phase[q] # "idle"
  BY DEF AnswerAccount, AnswerSend, AnswerStatus, Answer, Execute, prog, vars, TypeOK
<1>2. ASSUME NEW p \in Program, Send(p) PROVE calls'[p] # calls[p]
  BY <1>2 DEF Send, Request, TypeOK
<1> QED
  BY <1>1, <1>2

\* The request of each of the calls.
LEMMA RequestOf ==
    ASSUME TypeOK, NEW p \in Program
    PROVE  /\ GetAccount(p) => /\ call'[p].what = "account" /\ call'[p].by = p
                               /\ call'[p] # Null /\ phase'[p] = "waiting"
                               /\ UNCHANGED <<nonce, order, hash, verdict>>
           /\ Send(p) => /\ call'[p].what = "send" /\ call'[p].by = p
                         /\ call'[p].tx = [by |-> p, order |-> order[p], nonce |-> nonce[p]]
                         /\ call'[p] # Null /\ phase'[p] = "waiting"
                         /\ UNCHANGED <<nonce, order, hash, verdict>>
           /\ GetTransactionStatus(p) =>
                         /\ call'[p].what = "status" /\ call'[p].by = p
                         /\ call'[p].tx = hash[p]
                         /\ call'[p] # Null /\ phase'[p] = "waiting"
                         /\ UNCHANGED <<nonce, order, hash, verdict>>
<1>1. ASSUME NEW what \in {"account", "send", "status"},
             NEW t \in Tx \cup {Null}, Request(p, what, t)
      PROVE  /\ call'[p].what = what /\ call'[p].by = p /\ call'[p].tx = t
             /\ call'[p] # Null /\ phase'[p] = "waiting"
             /\ UNCHANGED <<nonce, order, hash, verdict>>
  <2>1. call'[p] = [by |-> p, id |-> calls[p] + 1, what |-> what, tx |-> t]
    BY <1>1 DEF Request, TypeOK
  <2>2. call'[p] \in Calls
    BY <2>1, <1>1 DEF Calls, TypeOK
  <2> QED
    BY <1>1, <2>1, <2>2, SessionAssumption DEF Request, TypeOK, prog
<1>2. Send(p) => [by |-> p, order |-> order[p], nonce |-> nonce[p]] \in Tx
  BY SessionAssumption DEF Send, TypeOK, Tx
<1>3. hash[p] \in Tx \cup {Null}
  BY DEF TypeOK
<1>4. CASE GetAccount(p)
  <2>1. Request(p, "account", Null)
    BY <1>4 DEF GetAccount
  <2>2. ~Send(p) /\ ~GetTransactionStatus(p)
    BY <1>1, <1>2, <1>3, <2>1 DEF Send, GetTransactionStatus
  <2> QED
    BY <1>1, <2>1, <2>2
<1>5. CASE Send(p)
  <2>1. Request(p, "send", [by |-> p, order |-> order[p], nonce |-> nonce[p]])
    BY <1>5 DEF Send
  <2>2. ~GetAccount(p) /\ ~GetTransactionStatus(p)
    BY <1>1, <1>2, <1>3, <1>5, <2>1 DEF GetAccount, GetTransactionStatus
  <2> QED
    BY <1>1, <1>2, <1>5, <2>1, <2>2
<1>6. CASE GetTransactionStatus(p)
  <2>1. Request(p, "status", hash[p])
    BY <1>6 DEF GetTransactionStatus
  <2>2. ~GetAccount(p) /\ ~Send(p)
    BY <1>1, <1>2, <1>3, <2>1 DEF GetAccount, Send
  <2> QED
    BY <1>1, <1>3, <2>1, <2>2
<1> QED
  BY <1>4, <1>5, <1>6

LEMMA StepWorking ==
    ASSUME TypeOK, Working, ReplyTrue, SameNonce, [Next]_vars
    PROVE  Working'
<1> SUFFICES ASSUME NEW q \in Program PROVE WorkingAt(q)'
  BY DEF Working
<1>0. WorkingAt(q)
  BY DEF Working
<1>1. ASSUME ~Send(q), NEW t \in Known', t.by = q PROVE t \in Known
  BY <1>1, StepKnown
<1>2. ASSUME ~Send(q), UNCHANGED <<call[q], hash[q], nonce[q], order[q]>>,
             phase'[q] # "idle" => phase[q] # "idle"
      PROVE  WorkingAt(q)'
  BY <1>0, <1>1, <1>2 DEF WorkingAt
<1>3. CASE \/ \E r \in requests : AnswerAccount(r) \/ AnswerSend(r) \/ AnswerStatus(r)
           \/ \E t \in pool : Execute(t)
           \/ UNCHANGED vars
  BY <1>2, <1>3, NetworkKeeps
<1>4. ASSUME NEW p \in Program, p # q,
             \/ GetAccount(p) \/ Send(p) \/ GetTransactionStatus(p) \/ TimeOut(p)
             \/ AccountReturns(p) \/ SendReturns(p) \/ StatusReturns(p) \/ GiveUp(p)
      PROVE  WorkingAt(q)'
  <2>1. /\ phase'[q] = phase[q] /\ call'[q] = call[q] /\ nonce'[q] = nonce[q]
        /\ order'[q] = order[q] /\ hash'[q] = hash[q] /\ calls'[q] = calls[q]
    BY <1>4, OthersKeep
  <2>2. ~Send(q)
    BY <2>1 DEF Send, Request, TypeOK
  <2> QED
    BY <1>2, <2>1, <2>2
<1>5. CASE GetAccount(q)
  <2>1. ~Sent(q) /\ hash[q] = Null
    BY <1>0, <1>5 DEF GetAccount, Sent, WorkingAt
  <2>2. /\ call'[q].what = "account" /\ call'[q].by = q /\ call'[q] # Null
        /\ UNCHANGED <<order, hash>>
    BY <1>5, RequestOf
  <2>3. ~Send(q)
    BY <2>2, RequestOf
  <2>4. ~\E t \in Known' : t.by = q /\ t.order = order[q]
    BY <1>1, <2>1, <2>3 DEF SameNonce, NonceAt
  <2> QED
    BY <2>1, <2>2, <2>4 DEF WorkingAt
<1>6. CASE Send(q)
  <2>1. /\ call'[q].what = "send" /\ call'[q].by = q /\ call'[q] # Null
        /\ call'[q].tx = [by |-> q, order |-> order[q], nonce |-> nonce[q]]
        /\ UNCHANGED <<nonce, order, hash>>
    BY <1>6, RequestOf
  <2>2. hash[q] = Null /\ nonce[q] # Null /\ order[q] <= MaxOrders
    BY <1>6 DEF Send
  <2> QED
    BY <2>1, <2>2 DEF WorkingAt
<1>7. CASE GetTransactionStatus(q)
  <2>1. /\ call'[q].what = "status" /\ call'[q].by = q /\ call'[q] # Null
        /\ call'[q].tx = hash[q]
        /\ UNCHANGED <<nonce, order, hash>>
    BY <1>7, RequestOf
  <2>2. hash[q] # Null
    BY <1>7 DEF GetTransactionStatus
  <2> QED
    BY <2>1, <2>2 DEF WorkingAt
<1>8. CASE TimeOut(q)
  <2>1. phase[q] # "idle" /\ UNCHANGED <<call, nonce, order, hash, calls>>
    BY <1>8 DEF TimeOut, prog
  <2>2. ~Send(q)
    BY <2>1 DEF Send, Request
  <2> QED
    BY <1>2, <2>1, <2>2
<1>9. CASE AccountReturns(q) \/ SendReturns(q) \/ StatusReturns(q)
  <2>1. call' = call /\ phase[q] # "idle" /\ phase'[q] = "idle"
    BY <1>9 DEF AccountReturns, SendReturns, StatusReturns, Returns, TypeOK
  <2>2. call[q] # Null
    BY <1>0, <2>1 DEF WorkingAt
  <2> QED
    BY <2>1, <2>2 DEF WorkingAt
<1>10. CASE GiveUp(q)
  BY <1>10 DEF GiveUp, WorkingAt, TypeOK
<1> QED
  BY <1>3, <1>4, <1>5, <1>6, <1>7, <1>8, <1>9, <1>10 DEF Next

LEMMA StepReply ==
    ASSUME TypeOK, Working, ReplyTrue, [Next]_vars
    PROVE  ReplyTrue'
<1> SUFFICES ASSUME NEW q \in Program, phase'[q] = "answered" PROVE ReplyTrueAt(q)'
  BY DEF ReplyTrue
<1>1. ASSUME phase[q] = "answered", UNCHANGED <<call[q], reply[q]>>
      PROVE  ReplyTrueAt(q)'
  <2>1. ReplyTrueAt(q)
    BY <1>1 DEF ReplyTrue
  <2>2. call[q].what = "send" => call[q].tx \in Tx
    <3>1. call[q].what = "send" =>
             /\ call[q].tx = [by |-> q, order |-> order[q], nonce |-> nonce[q]]
             /\ nonce[q] # Null /\ order[q] <= MaxOrders
      BY <1>1 DEF Working, WorkingAt
    <3> QED
      BY <3>1, SessionAssumption DEF TypeOK, Tx
  <2>3. call[q].what = "send" /\ Taken(call[q].tx) => Taken(call[q].tx)'
    BY <1>1, <2>2, StepGrows DEF Taken
  <2>4. \A n \in 0..Len(chain) : n \in 0..Len(chain')
    BY StepGrows
  <2>5. \A i \in DOMAIN chain : i \in DOMAIN chain' /\ chain'[i] = chain[i]
    <3>1. chain \in Seq(Entry) /\ chain' \in Seq(Entry)
      BY StepType DEF TypeOK, Entry
    <3> QED
      BY <3>1, StepGrows
  <2>6. CASE reply[q] = NoReply \/ reply[q].code = "internal_issue"
    BY <1>1, <2>6 DEF ReplyTrueAt
  <2>7. CASE /\ call[q].what = "account"
             /\ \E n \in 0..Len(chain) : reply[q] = Body("", "successful", [nonce |-> n])
    BY <1>1, <2>4, <2>7 DEF ReplyTrueAt
  <2>8. CASE /\ call[q].what = "send" /\ Taken(call[q].tx)
             /\ reply[q] = Body("", "successful", [txHash |-> call[q].tx])
    BY <1>1, <2>3, <2>8 DEF ReplyTrueAt
  <2>9. CASE /\ call[q].what = "status"
             /\ reply[q] = Body("", "successful", [status |-> "pending"])
    BY <1>1, <2>9 DEF ReplyTrueAt
  <2>10. CASE /\ call[q].what = "status"
              /\ \E i \in DOMAIN chain :
                    /\ chain[i].tx = call[q].tx
                    /\ reply[q] = Body("", "successful", [status |-> chain[i].status])
    BY <1>1, <2>5, <2>10 DEF ReplyTrueAt
  <2> QED
    BY <2>1, <2>6, <2>7, <2>8, <2>9, <2>10 DEF ReplyTrueAt
<1>2. ASSUME NEW r \in requests, NEW replies, Answer(r, replies),
             \A res \in replies : reply'[q] = res /\ call'[q] = r => ReplyTrueAt(q)'
      PROVE  ReplyTrueAt(q)'
  <2>1. \/ phase'[q] = phase[q] /\ reply'[q] = reply[q]
        \/ call[q] = r /\ \E res \in replies : reply'[q] = res
    BY <1>2 DEF Answer, TypeOK
  <2>2. UNCHANGED call
    BY <1>2 DEF Answer
  <2> QED
    BY <1>1, <1>2, <2>1, <2>2
<1>3. ASSUME NEW r, NEW d, NEW res \in Error(d), reply'[q] = res
      PROVE  ReplyTrueAt(q)'
  <2>1. PICK m \in {"", "error"}, x \in {Null, d} : res = Body(m, "internal_issue", x)
    BY <1>3 DEF Error
  <2>2. res.code = "internal_issue"
    BY <2>1 DEF Body
  <2> QED
    BY <1>3, <2>2 DEF ReplyTrueAt
<1>4. ASSUME NEW r \in requests, AnswerAccount(r) PROVE ReplyTrueAt(q)'
  <2>1. /\ r.what = "account" /\ UNCHANGED chain
        /\ Answer(r, Ok([nonce |-> Len(chain)]))
    BY <1>4 DEF AnswerAccount, net
  <2>2. Len(chain) \in 0..Len(chain)
    BY StepGrows
  <2>3. \A res \in Ok([nonce |-> Len(chain)]) :
            reply'[q] = res /\ call'[q] = r => ReplyTrueAt(q)'
    BY <2>1, <2>2 DEF Ok, ReplyTrueAt
  <2> QED
    BY <1>2, <2>1, <2>3
<1>5. ASSUME NEW r \in requests, AnswerSend(r) PROVE ReplyTrueAt(q)'
  <2>1. CASE /\ pool' = pool \cup {r.tx}
             /\ Answer(r, Ok([txHash |-> r.tx]) \cup Error([txHash |-> r.tx]))
    <3>1. Taken(r.tx)'
      BY <2>1 DEF Taken
    <3>2. \A res \in Ok([txHash |-> r.tx]) :
              reply'[q] = res /\ call'[q] = r => ReplyTrueAt(q)'
      BY <1>5, <3>1 DEF Ok, ReplyTrueAt, AnswerSend, Taken
    <3> QED
      BY <1>2, <1>3, <2>1, <3>2
  <2>2. CASE Answer(r, Error([txHash |-> r.tx]))
    BY <1>2, <1>3, <2>2
  <2> QED
    BY <1>5, <2>1, <2>2 DEF AnswerSend
<1>6. ASSUME NEW r \in requests, AnswerStatus(r) PROVE ReplyTrueAt(q)'
  <2>0. r.what = "status" /\ UNCHANGED chain
    BY <1>6 DEF AnswerStatus, net
  <2>1. CASE r.tx \in Executed
    <3>1. Answer(r, Ok([status |-> StatusOf(r.tx)]))
      BY <1>6, <2>1 DEF AnswerStatus
    <3>2. PICK i \in DOMAIN chain : chain[i].tx = r.tx /\ StatusOf(r.tx) = chain[i].status
      BY <2>1 DEF Executed, StatusOf
    <3>3. \A res \in Ok([status |-> StatusOf(r.tx)]) :
              reply'[q] = res /\ call'[q] = r => ReplyTrueAt(q)'
      BY <2>0, <3>2 DEF Ok, ReplyTrueAt
    <3> QED
      BY <1>2, <3>1, <3>3
  <2>2. CASE r.tx \notin Executed /\ r.tx \in pool
    <3>1. Answer(r, Ok([status |-> "pending"]))
      BY <1>6, <2>2 DEF AnswerStatus
    <3>2. \A res \in Ok([status |-> "pending"]) :
              reply'[q] = res /\ call'[q] = r => ReplyTrueAt(q)'
      BY <2>0 DEF Ok, ReplyTrueAt
    <3> QED
      BY <1>2, <3>1, <3>2
  <2>3. CASE r.tx \notin Executed /\ r.tx \notin pool
    <3>1. Answer(r, Error(Null))
      BY <1>6, <2>3 DEF AnswerStatus
    <3> QED
      BY <1>2, <1>3, <3>1
  <2> QED
    BY <2>1, <2>2, <2>3
<1>7. CASE (\E t \in pool : Execute(t)) \/ UNCHANGED vars
  BY <1>1, <1>7 DEF Execute, vars
<1>8. ASSUME NEW p \in Program, p # q,
             \/ GetAccount(p) \/ Send(p) \/ GetTransactionStatus(p) \/ TimeOut(p)
             \/ AccountReturns(p) \/ SendReturns(p) \/ StatusReturns(p) \/ GiveUp(p)
      PROVE  ReplyTrueAt(q)'
  BY <1>1, <1>8, OthersKeep
<1>9. CASE TimeOut(q)
  BY <1>9 DEF TimeOut, TypeOK, ReplyTrueAt
<1>10. ~GetAccount(q) /\ ~Send(q) /\ ~GetTransactionStatus(q)
  BY RequestOf
<1>11. ~AccountReturns(q) /\ ~SendReturns(q) /\ ~StatusReturns(q) /\ ~GiveUp(q)
  BY DEF AccountReturns, SendReturns, StatusReturns, Returns, GiveUp, TypeOK
<1> QED
  BY <1>4, <1>5, <1>6, <1>7, <1>8, <1>9, <1>10, <1>11 DEF Next

\* Nothing is sent for an order that has ended, and until it ends it is sent
\* with one nonce.
LEMMA StepSameNonce ==
    ASSUME TypeOK, Working, ReplyTrue, SameNonce, [Next]_vars
    PROVE  SameNonce'
<1>0. Known \subseteq Tx
  BY KnownType
<1>1. ASSUME NEW t \in Known, NEW q \in Program, t.by = q
      PROVE  NonceAt(t, q)'
  <2>0. NonceAt(t, q) /\ t.order \in Nat /\ order[q] \in Nat
    BY <1>0, <1>1, SessionAssumption DEF SameNonce, Tx, TypeOK
  <2>1. CASE UNCHANGED <<call[q], hash[q], nonce[q], order[q]>>
    BY <2>0, <2>1 DEF NonceAt, Sent
  <2>2. ASSUME order'[q] = order[q] + 1 PROVE NonceAt(t, q)'
    BY <2>0, <2>2 DEF NonceAt
  <2>3. CASE \/ \E r \in requests : AnswerAccount(r) \/ AnswerSend(r) \/ AnswerStatus(r)
             \/ \E u \in pool : Execute(u)
             \/ UNCHANGED vars
    BY <2>1, <2>3, NetworkKeeps
  <2>4. ASSUME NEW p \in Program, p # q,
               \/ GetAccount(p) \/ Send(p) \/ GetTransactionStatus(p) \/ TimeOut(p)
               \/ AccountReturns(p) \/ SendReturns(p) \/ StatusReturns(p) \/ GiveUp(p)
        PROVE  NonceAt(t, q)'
    BY <2>1, <2>4, OthersKeep
  <2>5. CASE GetAccount(q)
    <3>1. ~Sent(q) /\ order' = order
      BY <2>5, RequestOf DEF GetAccount
    <3> QED
      BY <2>0, <3>1 DEF NonceAt
  <2>6. CASE Send(q)
    <3>1. /\ call'[q].what = "send" /\ call'[q] # Null
          /\ call'[q].tx = [by |-> q, order |-> order[q], nonce |-> nonce[q]]
          /\ UNCHANGED <<nonce, order, hash>>
      BY <2>6, RequestOf
    <3>2. hash[q] = Null
      BY <2>6 DEF Send
    <3>3. call'[q].tx.order = order[q]
      BY <3>1
    <3> QED
      BY <2>0, <3>1, <3>2, <3>3 DEF NonceAt, Sent
  <2>7. CASE GetTransactionStatus(q)
    <3>1. hash[q] # Null /\ call'[q] # Null /\ UNCHANGED <<nonce, order, hash>>
      BY <2>7, RequestOf DEF GetTransactionStatus
    <3> QED
      BY <2>0, <3>1 DEF NonceAt, Sent
  <2>8. CASE TimeOut(q)
    BY <2>1, <2>8 DEF TimeOut, prog
  <2>9. CASE AccountReturns(q)
    <3>1. call[q].what = "account" /\ phase[q] # "idle" /\ order' = order
      BY <2>9 DEF AccountReturns, Returns
    <3>2. t.order # order[q]
      BY <1>1, <3>1 DEF Working, WorkingAt
    <3> QED
      BY <2>0, <3>1, <3>2 DEF NonceAt
  <2>10. CASE SendReturns(q)
    <3>1. /\ call[q].what = "send" /\ phase[q] # "idle" /\ UNCHANGED <<call, order>>
          /\ hash'[q] = Null => nonce'[q] = nonce[q]
      BY <2>10 DEF SendReturns, Returns
    <3>2. /\ hash[q] = Null /\ call[q] # Null
          /\ call[q].tx = [by |-> q, order |-> order[q], nonce |-> nonce[q]]
      BY <3>1 DEF Working, WorkingAt
    <3>3. call[q].tx.order = order[q]
      BY <3>2
    <3> QED
      BY <2>0, <3>1, <3>2, <3>3 DEF NonceAt, Sent
  <2>11. CASE StatusReturns(q)
    <3>1. UNCHANGED <<call, nonce>>
      BY <2>11 DEF StatusReturns, Returns
    <3>2. UNCHANGED <<hash, order>> \/ order'[q] = order[q] + 1
      BY <2>11 DEF StatusReturns, TypeOK
    <3> QED
      BY <2>1, <2>2, <3>1, <3>2
  <2>12. CASE GiveUp(q)
    BY <2>2, <2>12 DEF GiveUp, TypeOK
  <2> QED
    BY <2>3, <2>4, <2>5, <2>6, <2>7, <2>8, <2>9, <2>10, <2>11, <2>12 DEF Next
<1>2. ASSUME NEW p \in Program, Send(p),
             NEW t, t = [by |-> p, order |-> order[p], nonce |-> nonce[p]]
      PROVE  /\ t.by = p /\ NonceAt(t, p)'
             /\ \A u \in Known : u.by = t.by /\ u.order = t.order => u.nonce = t.nonce
  <2>1. /\ call'[p].what = "send" /\ call'[p] # Null
        /\ call'[p].tx = t
        /\ UNCHANGED <<nonce, order, hash>>
    BY <1>2, RequestOf
  <2>2. hash[p] = Null
    BY <1>2 DEF Send
  <2>3. order[p] \in Nat
    BY SessionAssumption DEF TypeOK
  <2> QED
    BY <1>2, <2>1, <2>2, <2>3 DEF NonceAt, Sent, SameNonce
<1>3. ASSUME NEW t \in Known' PROVE t.by \in Program /\ NonceAt(t, t.by)'
  BY <1>0, <1>1, <1>2, StepKnown DEF Tx
<1>4. ASSUME NEW t \in Known', NEW u \in Known', t.by = u.by, t.order = u.order
      PROVE  t.nonce = u.nonce
  <2>1. CASE t \in Known /\ u \in Known
    BY <1>4, <2>1 DEF SameNonce
  <2>2. CASE t \notin Known
    <3>1. PICK p \in Program : /\ Send(p)
                               /\ t = [by |-> p, order |-> order[p], nonce |-> nonce[p]]
      BY <2>2, StepKnown
    <3>2. CASE u \in Known
      BY <1>2, <1>4, <3>1, <3>2
    <3>3. CASE u \notin Known
      BY <1>4, <3>1, <3>3, StepKnown
    <3> QED
      BY <3>2, <3>3
  <2>3. CASE u \notin Known /\ t \in Known
    <3>1. PICK p \in Program : /\ Send(p)
                               /\ u = [by |-> p, order |-> order[p], nonce |-> nonce[p]]
      BY <2>3, StepKnown
    <3> QED
      BY <1>2, <1>4, <2>3, <3>1
  <2> QED
    BY <2>1, <2>2, <2>3
<1> QED
  BY <1>3, <1>4 DEF SameNonce

LEMMA StepGapFree ==
    ASSUME TypeOK, Working, ReplyTrue, GapFree, [Next]_vars
    PROVE  GapFree'
<1>0. \A n \in Nat : Covered(n) => Covered(n)'
  BY StepGrows
<1>1. ASSUME NEW p \in Program, nonce'[p] # Null, NEW n \in 0..(nonce'[p] - 1)
      PROVE  Covered(n)'
  <2>0. nonce'[p] \in Nat /\ n \in Nat /\ n < nonce'[p]
    BY <1>1, StepType DEF TypeOK
  <2>1. CASE nonce'[p] = nonce[p]
    BY <1>0, <1>1, <2>0, <2>1 DEF GapFree
  <2>2. CASE AccountReturns(p)
    <3>1. PayLoad(reply[p], "nonce") \in {Null} \cup 0..Len(chain)
      BY <2>2, Returned DEF AccountReturns, Returns
    <3>2. nonce'[p] = nonce[p] \/ nonce'[p] \in 0..Len(chain)
      BY <2>2, <3>1 DEF AccountReturns, TypeOK
    <3>3. nonce'[p] \in 0..Len(chain) => Covered(n)
      BY <2>0, StepGrows DEF Covered
    <3> QED
      BY <1>0, <2>0, <2>1, <3>2, <3>3
  <2>3. CASE SendReturns(p)
    <3>1. /\ call[p].what = "send" /\ phase[p] = "answered"
          /\ nonce'[p] = nonce[p] \/ (/\ PayLoad(reply[p], "txHash") # Null
                                      /\ nonce'[p] = nonce[p] + 1)
      BY <2>3 DEF SendReturns, Returns, TypeOK
    <3>2. /\ nonce[p] \in Nat /\ nonce[p] # Null
          /\ call[p].tx = [by |-> p, order |-> order[p], nonce |-> nonce[p]]
      BY <3>1 DEF Working, WorkingAt, TypeOK
    <3>3. ASSUME PayLoad(reply[p], "txHash") # Null PROVE Covered(nonce[p])
      <4>1. Taken(call[p].tx) /\ call[p].tx.nonce = nonce[p]
        BY <3>1, <3>2, <3>3, Returned
      <4> QED
        BY <4>1 DEF Taken, Covered
    <3>4. CASE /\ PayLoad(reply[p], "txHash") # Null
               /\ nonce'[p] = nonce[p] + 1
      <4>1. n = nonce[p] \/ n \in 0..(nonce[p] - 1)
        BY <2>0, <3>2, <3>4
      <4> QED
        BY <1>0, <2>0, <3>2, <3>3, <3>4, <4>1 DEF GapFree
    <3> QED
      BY <2>1, <3>1, <3>4
  <2>4. ASSUME NEW q \in Program, q # p, AccountReturns(q) \/ SendReturns(q)
        PROVE  nonce'[p] = nonce[p]
    BY <2>4, OthersKeep
  <2>5. ASSUME NEW q \in Program, GetAccount(q) \/ Send(q) \/ GetTransactionStatus(q)
        PROVE  nonce' = nonce
    BY <2>5, RequestOf
  <2>6. ASSUME NEW q \in Program, TimeOut(q) \/ StatusReturns(q) \/ GiveUp(q)
        PROVE  nonce' = nonce
    BY <2>6 DEF TimeOut, StatusReturns, GiveUp, prog
  <2>7. CASE \/ \E r \in requests : AnswerAccount(r) \/ AnswerSend(r) \/ AnswerStatus(r)
             \/ \E t \in pool : Execute(t)
             \/ UNCHANGED vars
    BY <2>1, <2>7, NetworkKeeps
  <2> QED
    BY <2>1, <2>2, <2>3, <2>4, <2>5, <2>6, <2>7 DEF Next
<1>2. ASSUME NEW t \in Known', NEW n \in 0..(t.nonce - 1) PROVE Covered(n)'
  <2>1. CASE t \in Known
    <3>1. t.nonce \in Nat
      BY <2>1, KnownType DEF Tx
    <3> QED
      BY <1>0, <1>2, <2>1, <3>1 DEF GapFree
  <2>2. ASSUME NEW p \in Program, Send(p),
               t = [by |-> p, order |-> order[p], nonce |-> nonce[p]]
        PROVE  Covered(n)'
    <3>1. nonce[p] # Null /\ nonce[p] \in Nat /\ t.nonce = nonce[p]
      BY <2>2 DEF Send, TypeOK
    <3> QED
      BY <1>0, <1>2, <3>1 DEF GapFree
  <2> QED
    BY <2>1, <2>2, StepKnown
<1> QED
  BY <1>1, <1>2 DEF GapFree

LEMMA StepHashTaken ==
    ASSUME TypeOK, Working, ReplyTrue, HashTaken, [Next]_vars
    PROVE  HashTaken'
<1> SUFFICES ASSUME NEW p \in Program, hash'[p] # Null PROVE Taken(hash[p])'
  BY DEF HashTaken
<1>0. hash'[p] \in Tx
  BY StepType DEF TypeOK
<1>1. CASE hash'[p] = hash[p]
  <2>1. Taken(hash[p]) /\ hash[p] \in Tx
    BY <1>0, <1>1 DEF HashTaken
  <2> QED
    BY <1>1, <2>1, StepGrows
<1>2. CASE SendReturns(p)
  <2>1. Taken(hash'[p])
    BY <1>2, Returned DEF SendReturns, Returns, TypeOK
  <2>2. UNCHANGED <<chain, pool>>
    BY <1>2, NetKept
  <2> QED
    BY <2>1, <2>2 DEF Taken
<1>3. ASSUME NEW q \in Program, q # p, SendReturns(q) \/ StatusReturns(q) \/ GiveUp(q)
      PROVE  hash'[p] = hash[p]
  BY <1>3, OthersKeep
<1>4. ASSUME StatusReturns(p) \/ GiveUp(p) PROVE hash'[p] = hash[p]
  BY <1>4 DEF StatusReturns, GiveUp, TypeOK
<1>5. ASSUME NEW q \in Program, GetAccount(q) \/ Send(q) \/ GetTransactionStatus(q)
      PROVE  hash' = hash
  BY <1>5, RequestOf
<1>6. ASSUME NEW q \in Program, TimeOut(q) \/ AccountReturns(q)
      PROVE  hash' = hash
  BY <1>6 DEF TimeOut, AccountReturns, prog
<1>7. CASE \/ \E r \in requests : AnswerAccount(r) \/ AnswerSend(r) \/ AnswerStatus(r)
           \/ \E t \in pool : Execute(t)
           \/ UNCHANGED vars
  BY <1>1, <1>7, NetworkKeeps
<1> QED
  BY <1>1, <1>2, <1>3, <1>4, <1>5, <1>6, <1>7 DEF Next

LEMMA StepVerdict ==
    ASSUME TypeOK, Working, ReplyTrue, VerdictTrue, [Next]_vars
    PROVE  VerdictTrue'
<1> SUFFICES ASSUME NEW p \in Program, NEW o \in 1..MaxOrders, verdict'[p][o] # "unknown"
             PROVE  VerdictAt(p, o)'
  BY DEF VerdictTrue, VerdictAt
<1>0. \A i \in DOMAIN chain : i \in DOMAIN chain' /\ chain'[i] = chain[i]
  <2>1. chain \in Seq(Entry) /\ chain' \in Seq(Entry)
    BY StepType DEF TypeOK, Entry
  <2> QED
    BY <2>1, StepGrows
<1>1. CASE verdict'[p][o] = verdict[p][o]
  BY <1>0, <1>1 DEF VerdictTrue, VerdictAt
<1>2. CASE StatusReturns(p) /\ verdict'[p][o] # verdict[p][o]
  <2> DEFINE s == PayLoad(reply[p], "status")
  <2>1. /\ o = order[p] /\ s # Null /\ (IsSuccessful(s) \/ IsFailed(s))
        /\ verdict'[p][o] = IF IsSuccessful(s) THEN "success" ELSE "failed"
    <3>1. \/ verdict' = verdict
          \/ /\ s # Null /\ (IsSuccessful(s) \/ IsFailed(s))
             /\ verdict' = [verdict EXCEPT ![p][order[p]] =
                               IF IsSuccessful(s) THEN "success" ELSE "failed"]
      BY <1>2 DEF StatusReturns
    <3>2. verdict \in [Program -> [1..MaxOrders -> {"success", "failed", "unknown"}]]
      BY DEF TypeOK
    <3> HIDE DEF s
    <3> QED
      BY <1>2, <3>1, <3>2
  <2>2. /\ call[p].what = "status" /\ phase[p] = "answered" /\ UNCHANGED chain
        /\ hash[p] # Null /\ hash[p] = call[p].tx
    BY <1>2 DEF StatusReturns, Returns, Working, WorkingAt, net
  <2>3. hash[p].by = p /\ hash[p].order = order[p]
    BY <2>2 DEF TypeOK
  <2>4. s # "pending"
    BY <2>1 DEF IsSuccessful, IsFailed, IsInvalid
  <2>5. PICK i \in DOMAIN chain : chain[i].tx = call[p].tx /\ s = chain[i].status
    BY <2>1, <2>2, <2>4, Returned
  <2>6. chain[i].status \in {"success", "fail", "invalid"}
    <3>1. chain \in Seq(Entry)
      BY DEF TypeOK, Entry
    <3>2. chain[i] \in Entry
      BY <2>5, <3>1
    <3> QED
      BY <3>2 DEF Entry
  <2>7. chain[i].status = "success" <=> verdict'[p][o] = "success"
    BY <2>1, <2>5, <2>6 DEF IsSuccessful
  <2> QED
    BY <2>1, <2>2, <2>3, <2>5, <2>7 DEF VerdictAt
<1>3. ASSUME NEW q \in Program, q # p, StatusReturns(q) PROVE verdict'[p] = verdict[p]
  BY <1>3, OthersKeep
<1>4. ASSUME NEW q \in Program, GetAccount(q) \/ Send(q) \/ GetTransactionStatus(q)
      PROVE  verdict' = verdict
  BY <1>4, RequestOf
<1>5. ASSUME NEW q \in Program,
             TimeOut(q) \/ AccountReturns(q) \/ SendReturns(q) \/ GiveUp(q)
      PROVE  verdict' = verdict
  BY <1>5 DEF TimeOut, AccountReturns, SendReturns, GiveUp, prog
<1>6. CASE \/ \E r \in requests : AnswerAccount(r) \/ AnswerSend(r) \/ AnswerStatus(r)
           \/ \E t \in pool : Execute(t)
           \/ UNCHANGED vars
  BY <1>1, <1>6, NetworkKeeps
<1> QED
  BY <1>1, <1>2, <1>3, <1>4, <1>5, <1>6 DEF Next

LEMMA InitSession == Init => SessionInv
<1> SUFFICES ASSUME Init PROVE SessionInv
  OBVIOUS
<1>1. Known = {}
  BY DEF Init, Known, Accepted, Executed
<1> QED
  BY <1>1, InitType DEF Init, SessionInv, Working, WorkingAt, ReplyTrue, SameNonce,
                        GapFree, HashTaken, VerdictTrue

-----------------------------------------------------------------------------
(* Theorems *)

(***************************************************************************)
(* The inductive invariant: types, what waits and what was answered, one   *)
(* nonce for an order, no gap below a nonce that is used or will be.       *)
(***************************************************************************)
THEOREM SessionInvAlways == Spec => []SessionInv
<1>1. SessionInv /\ [Next]_vars => SessionInv'
  BY StepType, StepWorking, StepReply, StepSameNonce, StepGapFree, StepHashTaken,
     StepVerdict DEF SessionInv
<1> QED
  BY InitSession, <1>1, PTL DEF Spec

(***************************************************************************)
(* Every variable has a value of its type, in every state.                 *)
(***************************************************************************)
THEOREM SessionTypeCorrect == Spec => []TypeOK
<1>1. SessionInv => TypeOK
  BY DEF SessionInv
<1> QED
  BY <1>1, SessionInvAlways, PTL

(***************************************************************************)
(* When send() returns a hash the network has taken the transaction.       *)
(***************************************************************************)
THEOREM HashMeansTakenTheorem == Spec => []HashMeansTaken
<1>1. SessionInv => HashMeansTaken
  BY DEF SessionInv, HashTaken, Taken, HashMeansTaken, Accepted
<1> QED
  BY <1>1, SessionInvAlways, PTL

(***************************************************************************)
(* No order is paid twice: transactions of one order have one nonce, and   *)
(* the chain has one transaction for each nonce.                           *)
(***************************************************************************)
THEOREM PaidOnceTheorem == Spec => []PaidOnce
<1>1. SessionInv => PaidOnce
  <2> SUFFICES ASSUME SessionInv, NEW i \in DOMAIN chain, NEW j \in DOMAIN chain,
                      chain[i].tx.by = chain[j].tx.by,
                      chain[i].tx.order = chain[j].tx.order
               PROVE  i = j
    BY DEF PaidOnce
  <2>1. chain[i].tx \in Known /\ chain[j].tx \in Known
    BY DEF Known, Accepted, Executed
  <2>2. chain[i].tx.nonce = chain[j].tx.nonce
    BY <2>1 DEF SessionInv, SameNonce
  <2>3. chain[i].tx.nonce = i - 1 /\ chain[j].tx.nonce = j - 1
    BY DEF SessionInv, TypeOK
  <2>4. i \in Nat /\ j \in Nat
    BY DEF SessionInv, TypeOK
  <2>5. i - 1 = j - 1
    BY <2>2, <2>3
  <2> QED
    BY <2>4, <2>5
<1> QED
  BY <1>1, SessionInvAlways, PTL

(***************************************************************************)
(* The verdict on an order is what became of it.                           *)
(***************************************************************************)
THEOREM VerdictTrueTheorem == Spec => []VerdictTrue
<1>1. SessionInv => VerdictTrue
  BY DEF SessionInv
<1> QED
  BY <1>1, SessionInvAlways, PTL

(***************************************************************************)
(* The nonces of accepted transactions have no gap.                        *)
(***************************************************************************)
THEOREM NoGapTheorem == Spec => []NoGap
<1>1. SessionInv => NoGap
  <2> SUFFICES ASSUME SessionInv, NEW t \in Accepted, NEW n \in 0..t.nonce
               PROVE  \E u \in Accepted : u.nonce = n
    BY DEF NoGap
  <2>0. TypeOK
    BY DEF SessionInv
  <2>1. t \in Known /\ t.nonce \in Nat
    BY <2>0, KnownType DEF Tx
  <2>2. CASE n = t.nonce
    BY <2>2
  <2>3. CASE n # t.nonce
    <3>1. n \in 0..(t.nonce - 1)
      BY <2>1, <2>3
    <3>2. Covered(n)
      BY <2>1, <3>1 DEF SessionInv, GapFree
    <3>3. CASE n < Len(chain)
      <4>1. n + 1 \in DOMAIN chain
        BY <2>0, <2>1, <3>3 DEF TypeOK
      <4>2. chain[n + 1].tx.nonce = n
        BY <2>0, <2>1, <4>1 DEF TypeOK
      <4> QED
        BY <4>1, <4>2 DEF Accepted, Executed
    <3> QED
      BY <3>2, <3>3 DEF Covered, Accepted
  <2> QED
    BY <2>2, <2>3
<1> QED
  BY <1>1, SessionInvAlways, PTL

-----------------------------------------------------------------------------
(* The session implements PaidOrders *)

\* A program knows nothing of the order it works on, nor of later ones.
Unsettled ==
    \A p \in Program : \A o \in 1..MaxOrders : o >= order[p] => verdict[p][o] = "unknown"

LEMMA StepUnsettled ==
    ASSUME TypeOK, Unsettled, [Next]_vars
    PROVE  Unsettled'
<1>1. ASSUME UNCHANGED <<order, verdict>> PROVE Unsettled'
  BY <1>1 DEF Unsettled
<1>2. ASSUME NEW p \in Program, StatusReturns(p) \/ GiveUp(p) PROVE Unsettled'
  <2>1. \/ UNCHANGED <<order, verdict>>
        \/ /\ order' = [order EXCEPT ![p] = order[p] + 1]
           /\ \/ verdict' = verdict
              \/ \E v \in {"success", "failed"} :
                    verdict' = [verdict EXCEPT ![p][order[p]] = v]
    BY <1>2 DEF StatusReturns, GiveUp
  <2>2. CASE UNCHANGED <<order, verdict>>
    BY <1>1, <2>2
  <2>3. CASE order' = [order EXCEPT ![p] = order[p] + 1] /\ verdict' = verdict
    BY <2>3 DEF Unsettled, TypeOK
  <2>4. ASSUME order' = [order EXCEPT ![p] = order[p] + 1], NEW v,
               verdict' = [verdict EXCEPT ![p][order[p]] = v]
        PROVE  Unsettled'
    <3> SUFFICES ASSUME NEW q \in Program, NEW o \in 1..MaxOrders, o >= order'[q]
                 PROVE  verdict'[q][o] = "unknown"
      BY DEF Unsettled
    <3>1. /\ order \in [Program -> 1..(MaxOrders + 1)]
          /\ verdict \in [Program -> [1..MaxOrders -> {"success", "failed", "unknown"}]]
      BY DEF TypeOK
    <3>2. CASE q = p
      <4>1. o >= order[p] /\ o # order[p]
        BY <2>4, <3>1, <3>2, SessionAssumption
      <4>2. verdict'[p] = [verdict[p] EXCEPT ![order[p]] = v]
        BY <2>4, <3>1
      <4>3. verdict'[p][o] = verdict[p][o]
        BY <3>1, <4>1, <4>2
      <4> QED
        BY <3>2, <4>1, <4>3 DEF Unsettled
    <3>3. CASE q # p
      BY <2>4, <3>1, <3>3 DEF Unsettled
    <3> QED
      BY <3>2, <3>3
  <2> QED
    BY <2>1, <2>2, <2>3, <2>4
<1>3. ASSUME NEW p \in Program, GetAccount(p) \/ Send(p) \/ GetTransactionStatus(p)
      PROVE  Unsettled'
  BY <1>1, <1>3, RequestOf
<1>4. ASSUME NEW p \in Program, TimeOut(p) \/ AccountReturns(p) \/ SendReturns(p)
      PROVE  Unsettled'
  BY <1>1, <1>4 DEF TimeOut, AccountReturns, SendReturns, prog
<1>5. CASE \/ \E r \in requests : AnswerAccount(r) \/ AnswerSend(r) \/ AnswerStatus(r)
           \/ \E t \in pool : Execute(t)
           \/ UNCHANGED vars
  BY <1>1, <1>5, NetworkKeeps
<1> QED
  BY <1>2, <1>3, <1>4, <1>5 DEF Next

\* An execution pays an order that was not paid.
LEMMA StepPays ==
    ASSUME SessionInv, NEW t \in pool, Execute(t)
    PROVE  \E m \in Orders!Payment : Orders!Pay(m)
<1>0. TypeOK /\ chain \in Seq(Entry) /\ Len(chain) \in Nat
  BY DEF SessionInv, TypeOK, Entry
<1>1. PICK status \in {"success", "fail", "invalid"} :
         chain' = Append(chain, [tx |-> t, status |-> status])
  BY DEF Execute
<1> DEFINE m == [by |-> t.by, order |-> t.order,
                 outcome |-> IF status = "success" THEN "success" ELSE "failed"]
<1>2. t \in Tx /\ t \in Known
  BY <1>0 DEF TypeOK, Known, Accepted
<1>3. m \in Orders!Payment
  BY <1>2 DEF Tx, Orders!Payment
<1>4. \A i \in DOMAIN Paid : Paid[i].by = m.by => Paid[i].order # m.order
  <2> SUFFICES ASSUME NEW i \in DOMAIN chain, chain[i].tx.by = t.by,
                      chain[i].tx.order = t.order
               PROVE  FALSE
    BY DEF Paid
  <2>1. chain[i].tx \in Known
    BY DEF Known, Accepted, Executed
  <2>2. chain[i].tx.nonce = t.nonce
    BY <1>2, <2>1 DEF SessionInv, SameNonce
  <2>3. chain[i].tx.nonce = i - 1 /\ t.nonce = Len(chain) /\ i \in 1..Len(chain)
    BY <1>0 DEF TypeOK, Execute
  <2>4. i - 1 = Len(chain)
    BY <2>2, <2>3
  <2>5. i \in Nat /\ i <= Len(chain)
    BY <1>0, <2>3
  <2> QED
    BY <1>0, <2>4, <2>5
<1>5. Paid' = Append(Paid, m)
  <2> DEFINE P(c) == [by |-> c.tx.by, order |-> c.tx.order,
                      outcome |-> IF c.status = "success" THEN "success" ELSE "failed"]
             e == [tx |-> t, status |-> status]
  <2>1. P(e) = m
    OBVIOUS
  <2>2. /\ Paid = [i \in DOMAIN chain |-> P(chain[i])]
        /\ Paid' = [i \in DOMAIN chain' |-> P(chain'[i])]
    BY DEF Paid
  <2>3. e \in Entry
    BY <1>2 DEF Entry
  <2>4. /\ DOMAIN chain = 1..Len(chain) /\ DOMAIN chain' = 1..(Len(chain) + 1)
        /\ chain'[Len(chain) + 1] = e
        /\ \A i \in 1..Len(chain) : chain'[i] = chain[i]
    BY <1>0, <1>1, <2>3
  <2>5. \A i \in DOMAIN chain : chain[i].tx \in Tx
    <3>1. \A i \in DOMAIN chain : chain[i] \in Entry
      BY <1>0
    <3> QED
      BY <3>1 DEF Entry
  <2>6. e.tx \in Tx /\ \A i \in DOMAIN chain' : chain'[i].tx \in Tx
    BY <1>0, <2>3, <2>4, <2>5 DEF Entry
  <2>7. \A c : c.tx \in Tx => P(c) \in Orders!Payment
    BY DEF Tx, Orders!Payment
  <2> HIDE DEF P, e, m
  <2>8. /\ Paid \in Seq(Orders!Payment) /\ Len(Paid) = Len(chain)
        /\ Paid' \in Seq(Orders!Payment) /\ Len(Paid') = Len(chain) + 1
    BY <1>0, <2>2, <2>4, <2>5, <2>6, <2>7
  <2>9. /\ Append(Paid, m) \in Seq(Orders!Payment)
        /\ Len(Append(Paid, m)) = Len(chain) + 1
        /\ Append(Paid, m)[Len(chain) + 1] = m
        /\ \A i \in 1..Len(chain) : Append(Paid, m)[i] = Paid[i]
    BY <1>0, <1>3, <2>8
  <2>10. \A i \in 1..(Len(chain) + 1) : Paid'[i] = Append(Paid, m)[i]
    BY <1>0, <2>1, <2>2, <2>4, <2>9
  <2> QED
    BY <2>8, <2>9, <2>10, SeqEqual
<1>6. verdict' = verdict
  BY DEF Execute, prog
<1> QED
  BY <1>3, <1>4, <1>5, <1>6 DEF Orders!Pay

\* A status that is final tells the outcome of the order the program works on.
LEMMA StepLearns ==
    ASSUME SessionInv, Unsettled, NEW p \in Program, StatusReturns(p)
    PROVE  \/ \E o \in 1..MaxOrders : Orders!Learn(p, o)
           \/ UNCHANGED <<Paid, verdict>>
<1> DEFINE s == PayLoad(reply[p], "status")
<1>0. /\ TypeOK /\ UNCHANGED chain
      /\ call[p].what = "status" /\ phase[p] = "answered"
      /\ hash[p] # Null /\ hash[p] = call[p].tx
  BY DEF SessionInv, StatusReturns, Returns, Working, WorkingAt, net
<1>1. Paid' = Paid
  BY <1>0 DEF Paid
<1>2. \/ verdict' = verdict
      \/ /\ s # Null /\ (IsSuccessful(s) \/ IsFailed(s))
         /\ verdict' = [verdict EXCEPT ![p][order[p]] =
                           IF IsSuccessful(s) THEN "success" ELSE "failed"]
  BY DEF StatusReturns
<1> HIDE DEF s
<1>3. ASSUME s # Null, IsSuccessful(s) \/ IsFailed(s),
             verdict' = [verdict EXCEPT ![p][order[p]] =
                           IF IsSuccessful(s) THEN "success" ELSE "failed"]
      PROVE  \E o \in 1..MaxOrders : Orders!Learn(p, o)
  <2>1. hash[p].by = p /\ hash[p].order = order[p] /\ order[p] \in 1..MaxOrders
    BY <1>0 DEF TypeOK, Tx
  <2>2. s # "pending"
    BY <1>3 DEF IsSuccessful, IsFailed, IsInvalid
  <2>3. PICK i \in DOMAIN chain : chain[i].tx = call[p].tx /\ s = chain[i].status
    BY <1>0, <1>3, <2>2, Returned DEF SessionInv, s
  <2>4. chain[i].status \in {"success", "fail", "invalid"}
    <3>1. chain \in Seq(Entry)
      BY <1>0 DEF TypeOK, Entry
    <3>2. chain[i] \in Entry
      BY <2>3, <3>1
    <3> QED
      BY <3>2 DEF Entry
  <2>5. IsSuccessful(s) <=> chain[i].status = "success"
    BY <2>3, <2>4 DEF IsSuccessful
  <2>6. /\ i \in DOMAIN Paid /\ Paid[i].by = p /\ Paid[i].order = order[p]
        /\ Paid[i].outcome = IF IsSuccessful(s) THEN "success" ELSE "failed"
    BY <1>0, <2>1, <2>3, <2>5 DEF Paid
  <2>7. verdict[p][order[p]] = "unknown"
    BY <1>0, <2>1 DEF Unsettled, TypeOK
  <2>8. Orders!Learn(p, order[p])
    BY <1>1, <1>3, <2>6, <2>7 DEF Orders!Learn
  <2> QED
    BY <2>1, <2>8
<1> QED
  BY <1>1, <1>2, <1>3

(***************************************************************************)
(* The session implements PaidOrders, for any programs and numbers of      *)
(* calls: no loss, delay or repetition of a request or a reply shows in    *)
(* what is paid and what the programs are told.                            *)
(***************************************************************************)
THEOREM PaidOrdersTheorem == Spec => IsPaidOrders
<1>1. Init => Unsettled /\ Orders!Init
  BY DEF Init, Unsettled, Orders!Init, Paid
<1>2. SessionInv /\ Unsettled /\ [Next]_vars => Unsettled'
  BY StepUnsettled DEF SessionInv
<1>3. SessionInv /\ Unsettled /\ [Next]_vars => [Orders!Next]_<<Paid, verdict>>
  <2> SUFFICES ASSUME SessionInv, Unsettled, [Next]_vars
               PROVE  Orders!Next \/ UNCHANGED <<Paid, verdict>>
    OBVIOUS
  <2>1. ASSUME UNCHANGED <<chain, verdict>> PROVE UNCHANGED <<Paid, verdict>>
    BY <2>1 DEF Paid
  <2>2. ASSUME NEW t \in pool, Execute(t) PROVE Orders!Next
    BY <2>2, StepPays DEF Orders!Next
  <2>3. ASSUME NEW p \in Program, StatusReturns(p)
        PROVE  Orders!Next \/ UNCHANGED <<Paid, verdict>>
    BY <2>3, StepLearns DEF Orders!Next
  <2>4. ASSUME NEW p \in Program,
               \/ GetAccount(p) \/ Send(p) \/ GetTransactionStatus(p) \/ TimeOut(p)
               \/ AccountReturns(p) \/ SendReturns(p) \/ GiveUp(p)
        PROVE  UNCHANGED <<chain, verdict>>
    <3>1. chain' = chain
      BY <2>4, NetKept
    <3>2. CASE GetAccount(p) \/ Send(p) \/ GetTransactionStatus(p)
      BY <3>1, <3>2, RequestOf DEF SessionInv
    <3>3. CASE TimeOut(p) \/ AccountReturns(p) \/ SendReturns(p) \/ GiveUp(p)
      BY <3>1, <3>3 DEF TimeOut, AccountReturns, SendReturns, GiveUp, prog
    <3> QED
      BY <2>4, <3>2, <3>3
  <2>5. ASSUME NEW r \in requests, AnswerAccount(r) \/ AnswerSend(r) \/ AnswerStatus(r)
        PROVE  UNCHANGED <<chain, verdict>>
    BY <2>5 DEF AnswerAccount, AnswerSend, AnswerStatus, Answer, net, prog
  <2>6. CASE UNCHANGED vars
    BY <2>1, <2>6 DEF vars
  <2> QED
    BY <2>1, <2>2, <2>3, <2>4, <2>5, <2>6 DEF Next
<1> QED
  BY <1>1, <1>2, <1>3, SessionInvAlways, PTL DEF Spec, IsPaidOrders, Orders!Spec
=============================================================================
