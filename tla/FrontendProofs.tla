---------------------------- MODULE FrontendProofs ----------------------------
(* Proofs about Frontend, for any students, invoices, payments and number  *)
(* of handlers at work.                                                    *)
EXTENDS Frontend, TLAPS

(* Lasting in three parts: what the server has, what the page shows, what  *)
(* travels between them.                                                   *)
ServerOK ==
    /\ payment \in [Payments -> Row \cup {None}]
    /\ payer \in [Payments -> Students \cup {None}]
    /\ closed \subseteq Fees
    /\ PayersAreOwners

PageOK ==
    /\ selected \in Students \cup {None}
    /\ listed \in BOOLEAN
    /\ student \in Students \cup {None}
    /\ pending \subseteq Fees
    /\ invoice \in Fees \cup {None}
    /\ open \in BOOLEAN
    /\ txn \in Payments \cup {None, Empty}
    /\ card \in Card
    /\ CardFollowsTransaction
    /\ NoDebtIsHidden
    /\ ListIsOwn

CallsOK ==
    /\ calls \in [Calls -> Call \cup {None}]
    /\ CallsAreTrue

RunOK == faults \in 0 .. MaxFaults /\ overlapped \in BOOLEAN

(* The three parts and the bounds of the run are the whole.                *)
LEMMA Parts == Lasting <=> ServerOK /\ PageOK /\ CallsOK /\ RunOK
BY DEF Lasting, TypeOK, ServerOK, PageOK, CallsOK, RunOK

(* What the server has recorded or closed, it keeps.                       *)
Grows ==
    /\ \A p \in Payments : payment[p] # None => payment'[p] # None
    /\ closed \subseteq closed'

(* What is true of a record that travels stays true as the server grows.   *)
LEMMA TruthStays ==
  ASSUME NEW k \in Call, CallIsTrue(k), Grows
  PROVE  CallIsTrue(k)'
<1>1. k.to = "profile" /\ k.answer \notin {None, Error, Empty} => ProfileIsTrue(k.answer)'
  BY DEF CallIsTrue, ProfileIsTrue, Grows
<1>2. k.to = "initiate" /\ k.answer \notin {None, Error, Empty} => k.answer \in Payments
  BY DEF Call, Await
<1>3. k.to = "payment" /\ k.body # None => k.body \in Payments
  BY DEF Call, Await, Id
<1>4. QED
  BY <1>1, <1>2, <1>3 DEF CallIsTrue, Grows

(* One handler moves on while the server grows.                            *)
LEMMA OneCall ==
  ASSUME CallsOK, Grows, NEW c \in Calls, NEW k \in Call \cup {None},
         calls' = [calls EXCEPT ![c] = k],
         k # None => CallIsTrue(k)'
  PROVE  CallsOK'
<1>1. calls' \in [Calls -> Call \cup {None}]
  BY DEF CallsOK
<1>2. ASSUME NEW d \in Calls, calls'[d] # None
      PROVE  CallIsTrue(calls[d])'
  <2>1. CASE d = c
    <3>1. calls'[d] = k /\ k # None
      BY <2>1, <1>2 DEF CallsOK
    <3>2. QED
      BY <3>1 DEF CallIsTrue, ProfileIsTrue
  <2>2. CASE d # c
    <3>1. calls'[d] = calls[d] /\ calls[d] \in Call /\ CallIsTrue(calls[d])
      BY <2>2, <1>2 DEF CallsOK, CallsAreTrue
    <3>2. PICK m \in Call : m = calls[d]
      BY <3>1
    <3>3. CallIsTrue(m)
      BY <3>1, <3>2
    <3>4. CallIsTrue(m)' /\ m = calls'[d]
      BY <3>1, <3>2, <3>3, TruthStays
    <3>5. QED
      BY <3>4 DEF CallIsTrue, ProfileIsTrue
  <2>3. QED
    BY <2>1, <2>2
<1>3. QED
  BY <1>1, <1>2 DEF CallsOK, CallsAreTrue

(* The page that shows nothing new stays right as the server grows.        *)
LEMMA PageStays ==
  ASSUME PageOK, Grows, UNCHANGED page
  PROVE  PageOK'
<1>1. Field(txn) # None => Field(txn) \in Payments /\ Field(txn)' = Field(txn)
  BY DEF PageOK, Field, page
<1>2. CardFollowsTransaction'
  BY <1>1 DEF PageOK, Grows, page, CardFollowsTransaction, Field
<1>3. QED
  BY <1>2 DEF PageOK, Grows, page, profile, NoDebtIsHidden, ListIsOwn

(* The server that does nothing grows.                                     *)
LEMMA ServerStays ==
  ASSUME ServerOK, UNCHANGED server
  PROVE  ServerOK' /\ Grows
BY DEF ServerOK, Grows, server, ledger, PayersAreOwners

-----------------------------------------------------------------------------
(* An answer replaces the answer of a request, nothing else.               *)
LEMMA Answering ==
  ASSUME CallsOK, NEW c \in Calls, calls[c] # None, NEW a
  PROVE  [calls EXCEPT ![c].answer = a]
           = [calls EXCEPT ![c] = [to |-> calls[c].to, body |-> calls[c].body, answer |-> a]]
<1>1. calls[c] \in Call
  BY DEF CallsOK
<1>2. [calls[c] EXCEPT !.answer = a]
        = [to |-> calls[c].to, body |-> calls[c].body, answer |-> a]
  BY <1>1 DEF Call, Await
<1>3. QED
  BY <1>2

(* A reply that fits its request and is true.                              *)
LEMMA ReplyIsTrue ==
  ASSUME CallsOK, Grows, NEW c \in Calls, calls[c] # None, NEW a,
         calls' = [calls EXCEPT ![c].answer = a],
         NEW k, k = [to |-> calls[c].to, body |-> calls[c].body, answer |-> a],
         k \in Call, CallIsTrue(k)'
  PROVE  CallsOK'
<1>1. calls' = [calls EXCEPT ![c] = k]
  BY Answering
<1>2. QED
  BY <1>1, OneCall

(* A refusal, nothing, or the object without a field, is an answer to      *)
(* every request.                                                          *)
LEMMA ErrorIsTrue ==
  ASSUME CallsOK, Grows, NEW c \in Calls, calls[c] # None, NEW e \in {Error, Empty},
         calls' = [calls EXCEPT ![c].answer = e]
  PROVE  CallsOK'
<1>1. calls[c] \in Call /\ CallIsTrue(calls[c])
  BY DEF CallsOK, CallsAreTrue
<1>2. PICK k : k = [to |-> calls[c].to, body |-> calls[c].body, answer |-> e]
  OBVIOUS
<1>3. k \in Call
  BY <1>1, <1>2 DEF Call, Await
<1>4. CallIsTrue(k)
  BY <1>1, <1>2 DEF CallIsTrue
<1>5. CallIsTrue(k)'
  BY <1>3, <1>4, TruthStays
<1>6. QED
  BY <1>2, <1>3, <1>5, ReplyIsTrue

(* A request that leaves fits its route, and is true if it names a payment *)
(* or a student's invoice.                                                 *)
LEMMA RequestIsTrue ==
  ASSUME CallsOK, Grows, NEW c \in Calls, NEW to, NEW body,
         Request(to, body) \in Call,
         to = "initiate" => body.student = Owner[body.invoice],
         to = "payment" /\ body # None => payment'[body] # None,
         calls' = [calls EXCEPT ![c] = Request(to, body)]
  PROVE  CallsOK'
<1>1. PICK k \in Call : k = Request(to, body)
  OBVIOUS
<1>2. CallIsTrue(k)'
  BY <1>1 DEF CallIsTrue, Request
<1>3. QED
  BY <1>1, <1>2, OneCall

(* A handler that ends leaves the others as they are.                      *)
LEMMA FinishIsTrue ==
  ASSUME CallsOK, Grows, NEW c \in Calls, Finish(c)
  PROVE  CallsOK'
<1>1. calls' = [calls EXCEPT ![c] = None]
  BY DEF Finish
<1>2. QED
  BY <1>1, OneCall

-----------------------------------------------------------------------------
(* A page just loaded shows nothing and asks for the students.             *)
LEMMA LastingInit == ASSUME Init PROVE Lasting
<1> USE PageAssumption, NoneAssumption
<1>1. ServerOK
  BY DEF Init, Ledger!Init, ServerOK, PayersAreOwners
<1>2. PageOK
  BY DEF Init, PageOK, CardFollowsTransaction, Field, NoDebtIsHidden, ListIsOwn, Card, Status
<1>3. CallsOK
  <2>1. PICK c \in Calls :
          calls = [d \in Calls |-> IF d = c THEN Request("students", None) ELSE None]
    BY DEF Init
  <2>2. Request("students", None) \in Call
    BY DEF Request, Call, Await
  <2>3. CallIsTrue(Request("students", None))
    BY DEF CallIsTrue, Request
  <2>4. PICK k \in Call : k = Request("students", None)
    BY <2>2
  <2>5. calls = [d \in Calls |-> IF d = c THEN k ELSE None]
    BY <2>1, <2>4
  <2>6. \A d \in Calls : calls[d] # None => calls[d] = k
    BY <2>5
  <2>7. CallIsTrue(k)
    BY <2>3, <2>4
  <2>8. calls \in [Calls -> Call \cup {None}]
    BY <2>5
  <2>9. \A d \in Calls : calls[d] # None => CallIsTrue(calls[d])
    BY <2>6, <2>7 DEF CallIsTrue, ProfileIsTrue
  <2>10. QED
    BY <2>8, <2>9 DEF CallsOK, CallsAreTrue
<1>4. RunOK
  <2>1. faults \in 0 .. MaxFaults
    BY DEF Init
  <2>2. overlapped \in BOOLEAN
    BY DEF Init
  <2>3. QED
    BY <2>1, <2>2 DEF RunOK
<1>5. QED
  BY <1>1, <1>2, <1>3, <1>4, Parts

-----------------------------------------------------------------------------
(* A step that keeps the server and the page needs only its calls.         *)
LEMMA ServerAndPageStay ==
  ASSUME Lasting, UNCHANGED server, UNCHANGED page, RunOK', Grows => CallsOK'
  PROVE  Lasting'
<1>1. ServerOK' /\ Grows
  BY Parts, ServerStays
<1>2. PageOK'
  BY <1>1, Parts, PageStays
<1>3. QED
  BY <1>1, <1>2, Parts DEF Parts, Lasting, TypeOK, ServerOK, PageOK, CallsOK, RunOK

(* A true reply of a server that changes nothing.                          *)
LEMMA ReadStep ==
  ASSUME Lasting, NEW c \in Calls, calls[c] # None, NEW a, Reply(c, a), UNCHANGED server,
         NEW k, k = [to |-> calls[c].to, body |-> calls[c].body, answer |-> a],
         k \in Call, CallIsTrue(k)'
  PROVE  Lasting'
<1>1. calls' = [calls EXCEPT ![c].answer = a] /\ UNCHANGED page /\ RunOK'
  BY Parts DEF Reply, RunOK
<1>2. Grows => CallsOK'
  BY <1>1, Parts, ReplyIsTrue
<1>3. QED
  BY <1>1, <1>2, ServerAndPageStay

(* A refusal changes nothing.                                              *)
LEMMA RefuseStep ==
  ASSUME Lasting, NEW c \in Calls, calls[c] # None, Refuse(c), UNCHANGED server
  PROVE  Lasting'
<1>1. calls' = [calls EXCEPT ![c].answer = Error] /\ UNCHANGED page /\ RunOK'
  BY Parts DEF Refuse, Reply, RunOK
<1>2. Grows => CallsOK'
  BY <1>1, Parts, ErrorIsTrue
<1>3. QED
  BY <1>1, <1>2, ServerAndPageStay

-----------------------------------------------------------------------------
(* The server: every answer is true when it leaves.                        *)
LEMMA ServeKeeps ==
  ASSUME Lasting, NEW c \in Calls, Serve(c)
  PROVE  Lasting'
<1> USE PageAssumption, NoneAssumption
<1>t. calls[c] # None => calls[c] \in Call /\ CallIsTrue(calls[c])
  BY Parts DEF CallsOK, CallsAreTrue
<1>1. CASE ServeStudents(c)
  <2>1. PICK k : k = [to |-> calls[c].to, body |-> calls[c].body, answer |-> "list"]
    OBVIOUS
  <2>2. k \in Call /\ CallIsTrue(k)'
    BY <1>1, <1>t, <2>1 DEF ServeStudents, Asked, Call, Await, CallIsTrue
  <2>3. QED
    BY <1>1, <2>1, <2>2, ReadStep DEF ServeStudents, Asked
<1>2. CASE ServeProfile(c)
  <2> DEFINE s == calls[c].body
  <2>1. PICK a : a = [student |-> s, pending |-> PendingOf(s)]
    OBVIOUS
  <2>2. PICK k : k = [to |-> calls[c].to, body |-> s, answer |-> a]
    OBVIOUS
  <2>3. s \in Students /\ calls[c].to = "profile"
    BY <1>2, <1>t DEF ServeProfile, Asked, Call, Await
  <2>4. a \in Profile
    BY <2>1, <2>3 DEF Profile, PendingOf
  <2>5. k \in Call
    BY <2>2, <2>3, <2>4 DEF Call, Await
  <2>6. closed' = closed
    BY <1>2 DEF ServeProfile, server, ledger
  <2>7. ProfileIsTrue(a)'
    BY <2>1, <2>6 DEF ProfileIsTrue, PendingOf
  <2>8. CallIsTrue(k)'
    BY <2>2, <2>3, <2>7 DEF CallIsTrue
  <2>9. QED
    BY <1>2, <2>1, <2>2, <2>5, <2>8, ReadStep DEF ServeProfile, Asked
<1>3. CASE ServeInitiate(c)
  <2> DEFINE f == calls[c].body.invoice
             s == calls[c].body.student
  <2>1. PICK p \in Payments : /\ Ledger!Open(p, f)
                             /\ payer' = [payer EXCEPT ![p] = s]
                             /\ Reply(c, p)
    BY <1>3 DEF ServeInitiate
  <2>2. calls[c] # None /\ calls[c].to = "initiate" /\ f \in Fees /\ s = Owner[f]
    BY <1>3, <1>t DEF ServeInitiate, Asked, Call, Await, CallIsTrue
  <2>3. PICK row \in Row : row = [fee |-> f, status |-> "PENDING", ref |-> None]
    BY <2>2 DEF Row, Status
  <2>4. payment' = [payment EXCEPT ![p] = row] /\ closed' = closed
    BY <2>1, <2>3 DEF Ledger!Open
  <2>5. payment'[p] = row /\ row # None /\ \A q \in Payments : q # p => payment'[q] = payment[q]
    BY <2>4, Parts DEF ServerOK
  <2>6. Grows
    BY <2>4, <2>5 DEF Grows
  <2>7. ServerOK'
    <3>1. payer'[p] = s /\ \A q \in Payments : q # p => payer'[q] = payer[q]
      BY <2>1, Parts DEF ServerOK
    <3>2. PayersAreOwners'
      BY <2>2, <2>3, <2>5, <3>1, Parts DEF ServerOK, PayersAreOwners
    <3>3. QED
      BY <2>1, <2>2, <2>4, <3>2, Parts DEF ServerOK
  <2>8. PICK k : k = [to |-> calls[c].to, body |-> calls[c].body, answer |-> p]
    OBVIOUS
  <2>9. k \in Call
    BY <1>t, <2>2, <2>8 DEF Call, Await
  <2>10. CallIsTrue(k)'
    BY <2>2, <2>5, <2>8 DEF CallIsTrue
  <2>11. calls' = [calls EXCEPT ![c].answer = p] /\ UNCHANGED page /\ RunOK'
    BY <2>1, Parts DEF Reply, RunOK
  <2>12. CallsOK' /\ PageOK'
    BY <2>2, <2>6, <2>8, <2>9, <2>10, <2>11, Parts, ReplyIsTrue, PageStays
  <2>13. QED
    BY <2>7, <2>11, <2>12 DEF Lasting, TypeOK, ServerOK, PageOK, CallsOK, RunOK
<1>4. CASE RefuseInitiate(c)
  BY <1>4, RefuseStep DEF RefuseInitiate, Asked
<1>5. CASE ServeUtr(c)
  <2>1. PICK k : k = [to |-> calls[c].to, body |-> calls[c].body, answer |-> "utr"]
    OBVIOUS
  <2>2. k \in Call /\ CallIsTrue(k)'
    BY <1>5, <1>t, <2>1 DEF ServeUtr, Asked, Call, Await, CallIsTrue
  <2>3. QED
    BY <1>5, <2>1, <2>2, ReadStep DEF ServeUtr, Asked
<1>6. CASE ServeSign(c)
  <2>1. PICK a : a = calls[c].body.txn
    OBVIOUS
  <2>2. PICK k : k = [to |-> calls[c].to, body |-> calls[c].body, answer |-> a]
    OBVIOUS
  <2>3. k \in Call /\ CallIsTrue(k)'
    BY <1>6, <1>t, <2>1, <2>2 DEF ServeSign, Complete, Asked, Call, Await, Id, CallIsTrue
  <2>4. QED
    BY <1>6, <2>1, <2>2, <2>3, ReadStep DEF ServeSign, Asked
<1>7. CASE ServeWebhook(c)
  <2> DEFINE p == calls[c].body.txn
             f == payment[p].fee
  <2>1. calls[c] # None /\ calls[c].to = "webhook" /\ p \in Payments
    BY <1>7, <1>t DEF ServeWebhook, Acceptable, Complete, Asked, Call, Await, Id
  <2>2. Ledger!Settle(p, f, p) /\ Reply(c, "SUCCESS") /\ payer' = payer
    BY <1>7 DEF ServeWebhook
  <2>3. payment[p] \in Row
    BY <2>1, <2>2, Parts DEF Ledger!Settle, Ledger!Close, ServerOK
  <2>4. PICK row \in Row : row = [fee |-> f, status |-> "SUCCESS", ref |-> p]
    BY <2>1, <2>3 DEF Row, Refs, Status
  <2>5. payment' = [payment EXCEPT ![p] = row] /\ closed' = closed \cup {f} /\ f \in Fees
    BY <2>2, <2>3, <2>4 DEF Ledger!Settle, Ledger!Close, Row
  <2>6. payment'[p] = row /\ row # None /\ \A q \in Payments : q # p => payment'[q] = payment[q]
    BY <2>1, <2>5, Parts DEF ServerOK
  <2>7. Grows
    BY <2>5, <2>6 DEF Grows
  <2>8. ServerOK'
    <3>1. PayersAreOwners'
      BY <2>1, <2>2, <2>3, <2>4, <2>6, Parts DEF ServerOK, PayersAreOwners
    <3>2. QED
      BY <2>2, <2>5, <3>1, Parts DEF ServerOK
  <2>9. PICK k : k = [to |-> calls[c].to, body |-> calls[c].body, answer |-> "SUCCESS"]
    OBVIOUS
  <2>10. k \in Call /\ CallIsTrue(k)'
    BY <1>t, <2>1, <2>9 DEF Call, Await, CallIsTrue
  <2>11. calls' = [calls EXCEPT ![c].answer = "SUCCESS"] /\ UNCHANGED page /\ RunOK'
    BY <2>2, Parts DEF Reply, RunOK
  <2>12. CallsOK' /\ PageOK'
    BY <2>1, <2>7, <2>9, <2>10, <2>11, Parts, ReplyIsTrue, PageStays
  <2>13. QED
    BY <2>8, <2>11, <2>12 DEF Lasting, TypeOK, ServerOK, PageOK, CallsOK, RunOK
<1>8. CASE RefuseWebhook(c)
  BY <1>8, RefuseStep DEF RefuseWebhook, Asked
<1>9. CASE ServePayment(c)
  <2>1. PICK a : a = payment[calls[c].body].status
    OBVIOUS
  <2>2. PICK k : k = [to |-> calls[c].to, body |-> calls[c].body, answer |-> a]
    OBVIOUS
  <2>3. calls[c].to = "payment" /\ calls[c].body \in Payments /\ payment[calls[c].body] # None
    BY <1>9, <1>t DEF ServePayment, Asked, Call, Await, Id, CallIsTrue
  <2>4. a \in Status
    BY <2>1, <2>3, Parts DEF ServerOK, Row
  <2>5. k \in Call
    BY <2>2, <2>3, <2>4 DEF Call, Await, Id
  <2>6. payment' = payment
    BY <1>9 DEF ServePayment, server, ledger
  <2>7. CallIsTrue(k)'
    BY <2>2, <2>3, <2>6 DEF CallIsTrue
  <2>8. QED
    BY <1>9, <2>1, <2>2, <2>5, <2>7, ReadStep DEF ServePayment, Asked
<1>10. CASE RefuseSign(c)
  BY <1>10, RefuseStep DEF RefuseSign, Asked
<1>11. CASE RefusePayment(c)
  BY <1>11, RefuseStep DEF RefusePayment, Asked
<1>12. QED
  BY <1>1, <1>2, <1>3, <1>4, <1>5, <1>6, <1>7, <1>8, <1>9, <1>10, <1>11 DEF Serve

-----------------------------------------------------------------------------
(* The page with a new profile, or with a new transaction on its card.     *)
LEMMA ResumeKeeps ==
  ASSUME Lasting, NEW c \in Calls, Resume(c)
  PROVE  Lasting'
<1> USE PageAssumption, NoneAssumption
<1>t. calls[c] # None => calls[c] \in Call /\ CallIsTrue(calls[c])
  BY Parts DEF CallsOK, CallsAreTrue
<1>s. UNCHANGED server => ServerOK' /\ Grows
  BY Parts, ServerStays
<1>f. Finish(c) => RunOK' /\ (UNCHANGED server => CallsOK')
  BY <1>s, Parts, FinishIsTrue DEF Finish, RunOK
<1>w. ServerOK' /\ PageOK' /\ CallsOK' /\ RunOK' => Lasting'
  BY DEF Lasting, TypeOK, ServerOK, PageOK, CallsOK, RunOK
<1>1. CASE ShowStudents(c)
  <2>1. UNCHANGED <<server, selected, profile, txn, card>> /\ Finish(c) /\ listed' = TRUE
    BY <1>1 DEF ShowStudents
  <2>2. PageOK'
    BY <2>1, Parts
       DEF PageOK, server, ledger, profile, CardFollowsTransaction, Field, NoDebtIsHidden,
           ListIsOwn
  <2>3. QED
    BY <2>1, <2>2, <1>s, <1>f, <1>w
<1>2. CASE ShowProfile(c)
  <2> DEFINE a == calls[c].answer
  <2>1. a \in Profile /\ ProfileIsTrue(a)
    BY <1>2, <1>t DEF ShowProfile, Answered, Call, Await, CallIsTrue
  <2>2. UNCHANGED <<server, selected, listed, txn, card>> /\ Finish(c) /\ open' = TRUE
    BY <1>2 DEF ShowProfile
  <2>3. /\ student' = a.student
        /\ pending' = a.pending
        /\ invoice' = None \/ invoice' \in a.pending
    BY <1>2 DEF ShowProfile
  <2>4. ListIsOwn' /\ NoDebtIsHidden'
    BY <2>1, <2>2, <2>3 DEF ProfileIsTrue, ListIsOwn, NoDebtIsHidden, server, ledger
  <2>5. CardFollowsTransaction'
    BY <2>2, Parts DEF PageOK, CardFollowsTransaction, Field, server, ledger
  <2>6. PageOK'
    BY <2>1, <2>2, <2>3, <2>4, <2>5, Parts DEF PageOK, Profile
  <2>7. QED
    BY <2>2, <2>6, <1>s, <1>f, <1>w
<1>3. CASE ShowPayment(c)
  <2> DEFINE p == calls[c].answer
  <2>1. \/ p = Empty
        \/ p \in Payments /\ payment[p] # None /\ p # Empty
    BY <1>3, <1>t DEF ShowPayment, Answered, Call, Await, CallIsTrue
  <2>2. /\ UNCHANGED <<server, selected, listed, student, pending, invoice, open>>
        /\ Finish(c)
        /\ txn' = p
    BY <1>3 DEF ShowPayment, RenderPayment
  <2>3. card' = [shown |-> TRUE, txn |-> Field(p),
                 badge |-> IF p = Empty THEN None ELSE "PENDING"]
    BY <1>3 DEF ShowPayment, RenderPayment, CardOf
  <2>4. card' \in Card /\ card'.shown = TRUE /\ card'.txn = Field(p)
    <3>1. Field(p) \in Payments \cup {None}
      BY <2>1 DEF Field
    <3>2. QED
      BY <2>3, <3>1 DEF Card, Status
  <2>5. CardFollowsTransaction'
    <3>1. txn' # None /\ Field(txn)' = Field(p)
      BY <2>1, <2>2 DEF Field
    <3>2. Field(p) # None => payment'[Field(p)] # None
      BY <2>1, <2>2 DEF Field, server, ledger
    <3>3. card'.shown => card'.txn = Field(txn)'
      BY <2>4, <3>1
    <3>4. card'.shown = (txn' # None)
      BY <2>4, <3>1
    <3>5. Field(txn)' # None => payment'[Field(txn)'] # None
      BY <3>1, <3>2
    <3>6. QED
      BY <3>3, <3>4, <3>5 DEF CardFollowsTransaction, Field
  <2>6. PageOK'
    <3>1. txn' \in Payments \cup {None, Empty} /\ card' \in Card
      BY <2>1, <2>2, <2>4
    <3>2. NoDebtIsHidden' /\ ListIsOwn'
      BY <2>2, Parts DEF PageOK, server, ledger, NoDebtIsHidden, ListIsOwn
    <3>3. QED
      BY <2>2, <2>5, <3>1, <3>2, Parts DEF PageOK
  <2>7. QED
    BY <2>2, <2>6, <1>s, <1>f, <1>w
<1>4. CASE SignUtr(c)
  <2>1. UNCHANGED server /\ UNCHANGED page /\ ServerOK' /\ Grows
    BY <1>4, <1>s DEF SignUtr
  <2>2. CASE txn = None
    BY <1>4, <2>1, <2>2, <1>f, ServerAndPageStay DEF SignUtr
  <2>3. CASE txn # None
    <3> DEFINE body == [txn |-> Field(txn), utr |-> Field(calls[c].answer)]
    <3>1. Continue(c, "sign", body)
      BY <1>4, <2>3 DEF SignUtr
    <3>2. body \in [txn : Id, utr : Utr]
      BY <1>4, <2>3, <1>t, Parts
         DEF PageOK, SignUtr, Answered, Call, Await, Field, Id, Utr
    <3>3. Request("sign", body) \in Call
      BY <3>2 DEF Request, Call, Await
    <3>4. CallsOK' /\ RunOK'
      BY <2>1, <3>1, <3>3, Parts, RequestIsTrue DEF Continue, RunOK
    <3>5. QED
      BY <2>1, <3>4, ServerAndPageStay
  <2>4. QED
    BY <2>2, <2>3
<1>5. CASE PostWebhook(c)
  <2>1. UNCHANGED server /\ UNCHANGED page /\ ServerOK' /\ Grows
    BY <1>5, <1>s DEF PostWebhook
  <2>2. CASE txn = None
    BY <1>5, <2>1, <2>2, <1>f, ServerAndPageStay DEF PostWebhook
  <2>3. CASE txn # None
    <3> DEFINE body == [txn |-> Field(txn), utr |-> calls[c].body.utr,
                        signature |-> Field(calls[c].answer)]
    <3>1. Continue(c, "webhook", body)
      BY <1>5, <2>3 DEF PostWebhook
    <3>2. body \in [txn : Id, utr : Utr, signature : Id]
      BY <1>5, <2>3, <1>t, Parts DEF PageOK, PostWebhook, Answered, Call, Await, Field, Id
    <3>3. Request("webhook", body) \in Call
      BY <3>2 DEF Request, Call, Await
    <3>4. CallsOK' /\ RunOK'
      BY <2>1, <3>1, <3>3, Parts, RequestIsTrue DEF Continue, RunOK
    <3>5. QED
      BY <2>1, <3>4, ServerAndPageStay
  <2>4. QED
    BY <2>2, <2>3
<1>6. ASSUME NEW to \in {"webhook", "payment"}, Answered(c, to),
             SetStatusBadge(Field(calls[c].answer)), UNCHANGED server,
             UNCHANGED <<selected, listed, profile, txn>>
      PROVE  PageOK'
  <2>1. Field(calls[c].answer) \in Status \cup {None}
    BY <1>6, <1>t DEF Answered, Call, Await, Status, Field
  <2>2. card' \in Card /\ card'.shown = card.shown /\ card'.txn = card.txn
    BY <1>6, <2>1, Parts DEF SetStatusBadge, PageOK, Card
  <2>3. CardFollowsTransaction'
    BY <1>6, <2>2, Parts DEF PageOK, CardFollowsTransaction, Field, server, ledger
  <2>4. QED
    BY <1>6, <2>2, <2>3, Parts
       DEF PageOK, server, ledger, profile, NoDebtIsHidden, ListIsOwn
<1>7. CASE ShowSettled(c)
  <2>1. PageOK' /\ ServerOK' /\ Grows /\ UNCHANGED server
    BY <1>6, <1>7, <1>s DEF ShowSettled
  <2>2. CallsOK' /\ RunOK'
    <3>1. CASE student = None
      BY <1>7, <2>1, <3>1, <1>f DEF ShowSettled, ReloadProfile
    <3>2. CASE student # None
      <4>1. Continue(c, "profile", student)
        BY <1>7, <3>2 DEF ShowSettled, ReloadProfile
      <4>2. Request("profile", student) \in Call
        BY <3>2, Parts DEF PageOK, Request, Call, Await
      <4>3. QED
        BY <2>1, <4>1, <4>2, Parts, RequestIsTrue DEF Continue, RunOK
    <3>3. QED
      BY <3>1, <3>2
  <2>3. QED
    BY <2>1, <2>2, <1>w
<1>8. CASE ShowStatus(c)
  <2>1. PageOK' /\ UNCHANGED server /\ Finish(c)
    BY <1>6, <1>8 DEF ShowStatus
  <2>2. QED
    BY <2>1, <1>s, <1>f, <1>w
<1>9. CASE CatchError(c)
  BY <1>9, <1>f, ServerAndPageStay DEF CatchError
<1>10. CASE ShowNoProfile(c)
  <2>1. /\ UNCHANGED <<server, selected, listed, pending, invoice, txn, card>>
        /\ Finish(c) /\ student' = None /\ open' = TRUE
    BY <1>10 DEF ShowNoProfile
  <2>2. PageOK'
    BY <2>1, Parts
       DEF PageOK, server, ledger, CardFollowsTransaction, Field, NoDebtIsHidden, ListIsOwn
  <2>3. QED
    BY <2>1, <2>2, <1>s, <1>f, <1>w
<1>11. QED
  BY <1>1, <1>2, <1>3, <1>4, <1>5, <1>7, <1>8, <1>9, <1>10 DEF Resume

-----------------------------------------------------------------------------
(* A click whose request is true, on a page that stays.                    *)
LEMMA StartStep ==
  ASSUME Lasting, NEW c \in Calls, NEW to, NEW body, Start(c, to, body),
         UNCHANGED server, UNCHANGED page,
         Request(to, body) \in Call,
         to = "initiate" => body.student = Owner[body.invoice],
         to = "payment" /\ body # None => payment[body] # None
  PROVE  Lasting'
<1>1. calls' = [calls EXCEPT ![c] = Request(to, body)]
  BY DEF Start
<1>2. RunOK'
  <2>1. faults' \in 0 .. MaxFaults
    BY Parts DEF Start, RunOK
  <2>2. overlapped' \in BOOLEAN
    BY Parts DEF Start, RunOK
  <2>3. QED
    BY <2>1, <2>2 DEF RunOK
<1>3. payment' = payment
  BY DEF server, ledger
<1>4. Grows => CallsOK'
  BY <1>1, <1>3, Parts, RequestIsTrue
<1>5. QED
  BY <1>2, <1>4, ServerAndPageStay

(* Whatever the user does, and whatever is lost.                           *)
LEMMA UserKeeps ==
  ASSUME Lasting, NEW c \in Calls,
         \/ Lose(c) \/ Cut(c) \/ Reload(c)
         \/ \E s \in Students : SelectStudent(c, s)
         \/ InitiatePayment(c) \/ SimulatePaymentSuccess(c) \/ RefreshStatus(c)
  PROVE  Lasting'
<1> USE PageAssumption, NoneAssumption
<1>s. UNCHANGED server => ServerOK' /\ Grows
  BY Parts, ServerStays
<1>w. ServerOK' /\ PageOK' /\ CallsOK' /\ RunOK' => Lasting'
  BY DEF Lasting, TypeOK, ServerOK, PageOK, CallsOK, RunOK
<1>1. CASE Lose(c) \/ Cut(c)
  <2>1. PICK e \in {Error, Empty} : Fault(c, e) /\ calls[c] # None
    BY <1>1 DEF Lose, Cut
  <2>2. Grows => CallsOK'
    BY <2>1, Parts, ErrorIsTrue DEF Fault
  <2>3. RunOK'
    <3>1. faults' \in 0 .. MaxFaults
      BY <2>1, Parts DEF Fault, RunOK
    <3>2. overlapped' \in BOOLEAN
      BY <2>1, Parts DEF Fault, RunOK
    <3>3. QED
      BY <3>1, <3>2 DEF RunOK
  <2>4. QED
    BY <2>1, <2>2, <2>3, ServerAndPageStay DEF Fault
<1>2. CASE Reload(c)
  <2>1. UNCHANGED server /\ calls' = [calls EXCEPT ![c] = Request("students", None)]
    BY <1>2 DEF Reload
  <2>2. Request("students", None) \in Call
    BY DEF Request, Call, Await
  <2>3. CallsOK'
    BY <2>1, <2>2, <1>s, Parts, RequestIsTrue
  <2>4. RunOK'
    <3>1. faults' \in 0 .. MaxFaults
      BY <1>2 DEF Reload
    <3>2. overlapped' \in BOOLEAN
      BY <1>2 DEF Reload
    <3>3. QED
      BY <3>1, <3>2 DEF RunOK
  <2>5. selected' = None /\ listed' = FALSE /\ open' = FALSE
    BY <1>2 DEF Reload
  <2>6. student' = None /\ pending' = {} /\ invoice' = None
    BY <1>2 DEF Reload
  <2>7. txn' = None /\ card' \in Card /\ card'.shown = FALSE
    BY <1>2 DEF Reload, Card, Status
  <2>8. CardFollowsTransaction' /\ NoDebtIsHidden' /\ ListIsOwn'
    BY <2>6, <2>7 DEF CardFollowsTransaction, Field, NoDebtIsHidden, ListIsOwn
  <2>9. PageOK'
    BY <2>5, <2>6, <2>7, <2>8 DEF PageOK
  <2>10. QED
    BY <2>1, <2>3, <2>4, <2>9, <1>s, <1>w
<1>3. ASSUME NEW s \in Students, SelectStudent(c, s)
      PROVE  Lasting'
  <2>1. /\ UNCHANGED <<server, listed, pending, invoice, open, student>>
        /\ Start(c, "profile", s)
        /\ selected' = s
        /\ txn' = None
        /\ card' = [card EXCEPT !.shown = FALSE]
    BY <1>3 DEF SelectStudent, ForgetTransaction, HideCard
  <2>2. Request("profile", s) \in Call
    BY DEF Request, Call, Await
  <2>3. CallsOK'
    BY <2>1, <2>2, <1>s, Parts, RequestIsTrue DEF Start
  <2>4. card' \in Card /\ card'.shown = FALSE
    BY <2>1, Parts DEF PageOK, Card
  <2>5. CardFollowsTransaction' /\ NoDebtIsHidden' /\ ListIsOwn'
    BY <2>1, <2>4, Parts
       DEF PageOK, server, ledger, CardFollowsTransaction, Field, NoDebtIsHidden, ListIsOwn
  <2>6. PageOK'
    BY <2>1, <2>4, <2>5, Parts DEF PageOK
  <2>7. RunOK'
    <3>1. faults' \in 0 .. MaxFaults
      BY <2>1, Parts DEF Start, RunOK
    <3>2. overlapped' \in BOOLEAN
      BY <2>1, Parts DEF Start, RunOK
    <3>3. QED
      BY <3>1, <3>2 DEF RunOK
  <2>8. QED
    BY <2>1, <2>3, <2>6, <2>7, <1>s, <1>w
<1>4. CASE InitiatePayment(c)
  <2>1. PICK body : body = [student |-> student, invoice |-> invoice]
    OBVIOUS
  <2>2. student \in Students /\ invoice \in Fees /\ Owner[invoice] = student
    BY <1>4, Parts DEF InitiatePayment, Chosen, PageOK, ListIsOwn
  <2>3. Request("initiate", body) \in Call /\ body.student = Owner[body.invoice]
    BY <2>1, <2>2 DEF Request, Call, Await
  <2>4. QED
    BY <1>4, <2>1, <2>3, StartStep DEF InitiatePayment
<1>5. CASE SimulatePaymentSuccess(c)
  <2>1. Request("generate-utr", None) \in Call
    BY DEF Request, Call, Await
  <2>2. QED
    BY <1>5, <2>1, StartStep DEF SimulatePaymentSuccess
<1>6. CASE RefreshStatus(c)
  <2>1. Field(txn) \in Id /\ (Field(txn) # None => payment[Field(txn)] # None)
    BY <1>6, Parts DEF RefreshStatus, PageOK, CardFollowsTransaction, Field, Id
  <2>2. Request("payment", Field(txn)) \in Call
    BY <2>1 DEF Request, Call, Await
  <2>3. PICK p \in Id : p = Field(txn)
    BY <2>1
  <2>4. QED
    BY <1>6, <2>1, <2>2, <2>3, StartStep DEF RefreshStatus
<1>7. QED
  BY <1>1, <1>2, <1>3, <1>4, <1>5, <1>6

(* Every step keeps the invariant.                                         *)
LEMMA LastingStep == ASSUME Lasting, [Next]_vars PROVE Lasting'
<1> USE PageAssumption, NoneAssumption
<1>s. UNCHANGED server => ServerOK' /\ Grows
  BY Parts, ServerStays
<1>1. ASSUME SelectNobody
      PROVE  Lasting'
  <2>1. /\ UNCHANGED <<server, listed, pending, invoice, calls, faults, overlapped, student>>
        /\ selected' = None /\ txn' = None
        /\ card' = [card EXCEPT !.shown = FALSE]
    BY <1>1 DEF SelectNobody, ForgetTransaction, HideCard
  <2>2. open' = FALSE
    BY <1>1 DEF SelectNobody
  <2>3. card' \in Card /\ card'.shown = FALSE
    BY <2>1, Parts DEF PageOK, Card
  <2>4. CardFollowsTransaction' /\ NoDebtIsHidden' /\ ListIsOwn'
    BY <2>1, <2>3, Parts
       DEF PageOK, server, ledger, CardFollowsTransaction, Field, NoDebtIsHidden, ListIsOwn
  <2>5. PageOK'
    BY <2>1, <2>2, <2>3, <2>4, Parts DEF PageOK
  <2>6. CallsOK' /\ RunOK'
    BY <2>1, Parts
       DEF CallsOK, CallsAreTrue, CallIsTrue, ProfileIsTrue, RunOK, server, ledger
  <2>7. QED
    BY <2>1, <2>5, <2>6, <1>s DEF Lasting, TypeOK, ServerOK, PageOK, CallsOK, RunOK
<1>2. ASSUME NEW f \in Fees, SelectInvoice(f)
      PROVE  Lasting'
  <2>1. /\ UNCHANGED <<server, selected, listed, student, pending, open, txn, card, calls,
                       faults, overlapped>>
        /\ invoice' = f /\ f \in pending
    BY <1>2 DEF SelectInvoice
  <2>2. PageOK'
    BY <2>1, Parts
       DEF PageOK, server, ledger, CardFollowsTransaction, Field, NoDebtIsHidden, ListIsOwn
  <2>3. CallsOK' /\ RunOK'
    BY <2>1, Parts
       DEF CallsOK, CallsAreTrue, CallIsTrue, ProfileIsTrue, RunOK, server, ledger
  <2>4. QED
    BY <2>1, <2>2, <2>3, <1>s DEF Lasting, TypeOK, ServerOK, PageOK, CallsOK, RunOK
<1>3. ASSUME UNCHANGED vars
      PROVE  Lasting'
  <2>1. UNCHANGED server /\ UNCHANGED page /\ UNCHANGED <<calls, faults, overlapped>>
    BY <1>3 DEF vars, server, page
  <2>2. CallsOK' /\ RunOK'
    BY <2>1, Parts
       DEF CallsOK, CallsAreTrue, CallIsTrue, ProfileIsTrue, RunOK, server, ledger
  <2>3. QED
    BY <2>1, <2>2, ServerAndPageStay
<1>4. QED
  BY <1>1, <1>2, <1>3, ServeKeeps, ResumeKeeps, UserKeeps DEF Next

-----------------------------------------------------------------------------
(* Where undefined fields come from.                                       *)

(* One handler moves on, to a request or an answer with its fields.        *)
LEMMA DefinedAfter ==
  ASSUME Lasting, NothingIsUndefined, NEW c \in Calls, NEW k,
         calls' = [calls EXCEPT ![c] = k],
         faults' = 0 => faults = 0,
         faults' = 0 => txn' # Empty,
         faults' = 0 /\ k # None => k.answer # Empty /\ IsComplete(k)
  PROVE  NothingIsUndefined'
<1>1. calls'[c] = k /\ \A d \in Calls \ {c} : calls'[d] = calls[d]
  BY Parts DEF CallsOK
<1>2. SUFFICES ASSUME faults' = 0, NEW d \in Calls, calls'[d] # None
               PROVE  calls'[d].answer # Empty /\ IsComplete(calls'[d])
  BY DEF NothingIsUndefined, IsComplete, Complete
<1>3. CASE d = c
  BY <1>1, <1>2, <1>3
<1>4. CASE d # c
  BY <1>1, <1>2, <1>4 DEF NothingIsUndefined
<1>5. QED
  BY <1>3, <1>4

(* The server answers with something.                                      *)
LEMMA DefinedReply ==
  ASSUME Lasting, NothingIsUndefined, NEW c \in Calls, calls[c] # None, NEW a,
         Reply(c, a), a # Empty
  PROVE  NothingIsUndefined'
<1>1. PICK k : k = [to |-> calls[c].to, body |-> calls[c].body, answer |-> a]
  OBVIOUS
<1>2. calls' = [calls EXCEPT ![c] = k] /\ txn' = txn /\ faults' = faults
  BY <1>1, Parts, Answering DEF Reply, page
<1>3. faults' = 0 => txn' # Empty /\ IsComplete(calls[c])
  BY <1>2 DEF NothingIsUndefined
<1>4. faults' = 0 => k.answer # Empty /\ IsComplete(k)
  BY <1>1, <1>3 DEF IsComplete
<1>5. QED
  BY <1>2, <1>3, <1>4, DefinedAfter

LEMMA ServeDefines ==
  ASSUME Lasting, NothingIsUndefined, NEW c \in Calls, Serve(c)
  PROVE  NothingIsUndefined'
<1> USE NoneAssumption
<1>t. calls[c] # None => calls[c] \in Call /\ CallIsTrue(calls[c])
  BY Parts DEF CallsOK, CallsAreTrue
<1>1. CASE ServeStudents(c)
  BY <1>1, DefinedReply DEF ServeStudents, Asked
<1>2. CASE ServeProfile(c)
  <2>1. calls[c].body \in Students
    BY <1>2, <1>t DEF ServeProfile, Asked, Call, Await
  <2>2. PICK a : a = [student |-> calls[c].body, pending |-> PendingOf(calls[c].body)]
    OBVIOUS
  <2>3. a \in Profile
    BY <2>1, <2>2 DEF Profile, PendingOf
  <2>4. QED
    BY <1>2, <2>2, <2>3, DefinedReply DEF ServeProfile, Asked
<1>3. CASE ServeInitiate(c)
  <2>1. PICK p \in Payments : Reply(c, p)
    BY <1>3 DEF ServeInitiate
  <2>2. QED
    BY <1>3, <2>1, DefinedReply DEF ServeInitiate, Asked
<1>4. CASE RefuseInitiate(c) \/ RefuseSign(c) \/ RefuseWebhook(c) \/ RefusePayment(c)
  BY <1>4, DefinedReply
     DEF RefuseInitiate, RefuseSign, RefuseWebhook, RefusePayment, Refuse, Asked
<1>5. CASE ServeUtr(c)
  BY <1>5, DefinedReply DEF ServeUtr, Asked
<1>6. CASE ServeSign(c)
  <2>1. calls[c].body.txn \in Payments
    BY <1>6, <1>t DEF ServeSign, Complete, Asked, Call, Await, Id
  <2>2. QED
    BY <1>6, <2>1, DefinedReply DEF ServeSign, Asked
<1>7. CASE ServeWebhook(c)
  BY <1>7, DefinedReply DEF ServeWebhook, Asked, Status
<1>8. CASE ServePayment(c)
  <2>1. calls[c].body \in Payments /\ payment[calls[c].body] # None
    BY <1>8, <1>t DEF ServePayment, Asked, Call, Await, Id, CallIsTrue
  <2>2. payment[calls[c].body].status \in Status
    BY <2>1, Parts DEF ServerOK, Row
  <2>3. QED
    BY <1>8, <2>2, DefinedReply DEF ServePayment, Asked
<1>9. QED
  BY <1>1, <1>2, <1>3, <1>4, <1>5, <1>6, <1>7, <1>8 DEF Serve

(* The page sends only the fields it has been given.                       *)
LEMMA ResumeDefines ==
  ASSUME Lasting, NothingIsUndefined, NEW c \in Calls, Resume(c)
  PROVE  NothingIsUndefined'
<1> USE NoneAssumption
<1>c. calls[c] # None
  BY DEF Resume, ShowStudents, ShowProfile, ShowNoProfile, ShowPayment, SignUtr,
         PostWebhook, ShowSettled, ShowStatus, CatchError, Answered
<1>t. /\ calls[c] \in Call
      /\ faults = 0 => txn # Empty /\ calls[c].answer # Empty /\ IsComplete(calls[c])
  BY <1>c, Parts DEF CallsOK, NothingIsUndefined
<1>f. ASSUME Finish(c), faults' = 0 => txn' # Empty
      PROVE  NothingIsUndefined'
  <2>1. PICK k : k = None
    OBVIOUS
  <2>2. QED
    BY <1>f, <2>1, DefinedAfter DEF Finish
<1>n. ASSUME NEW to, NEW body, Continue(c, to, body), txn' = txn,
             faults = 0 => IsComplete(Request(to, body))
      PROVE  NothingIsUndefined'
  <2>1. PICK k : k = Request(to, body)
    OBVIOUS
  <2>2. faults' = 0 => txn' # Empty /\ k.answer # Empty /\ IsComplete(k)
    BY <1>n, <1>t, <2>1 DEF Continue, Request
  <2>3. QED
    BY <1>n, <2>1, <2>2, DefinedAfter DEF Continue
<1>1. CASE ShowStudents(c) \/ ShowProfile(c) \/ ShowNoProfile(c) \/ ShowStatus(c) \/ CatchError(c)
  <2>1. Finish(c) /\ txn' = txn /\ faults' = faults
    BY <1>1 DEF ShowStudents, ShowProfile, ShowNoProfile, ShowStatus, CatchError, Finish, page
  <2>2. QED
    BY <1>f, <1>t, <2>1
<1>2. CASE ShowPayment(c)
  <2>1. Finish(c) /\ txn' = calls[c].answer /\ faults' = faults
    BY <1>2 DEF ShowPayment, Finish
  <2>2. QED
    BY <1>f, <1>t, <2>1
<1>3. CASE SignUtr(c)
  <2>1. txn' = txn /\ (txn = None => Finish(c) /\ faults' = faults)
    BY <1>3 DEF SignUtr, page, Finish
  <2>2. CASE txn # None
    <3>1. PICK body : body = [txn |-> Field(txn), utr |-> Field(calls[c].answer)]
      OBVIOUS
    <3>2. calls[c].answer # None
      BY <1>3 DEF SignUtr, Answered
    <3>3. faults = 0 => Complete(body)
      BY <1>t, <2>2, <3>1, <3>2 DEF Complete, Field
    <3>4. faults = 0 => IsComplete(Request("sign", body))
      BY <3>3 DEF IsComplete, Request
    <3>5. Continue(c, "sign", body)
      BY <1>3, <2>2, <3>1 DEF SignUtr
    <3>6. QED
      BY <1>n, <2>1, <3>4, <3>5
  <2>3. QED
    BY <1>f, <1>t, <2>1, <2>2
<1>4. CASE PostWebhook(c)
  <2>1. txn' = txn /\ (txn = None => Finish(c) /\ faults' = faults)
    BY <1>4 DEF PostWebhook, page, Finish
  <2>2. CASE txn # None
    <3>1. PICK body : body = [txn |-> Field(txn), utr |-> calls[c].body.utr,
                              signature |-> Field(calls[c].answer)]
      OBVIOUS
    <3>2. calls[c].answer # None /\ calls[c].to = "sign"
      BY <1>4 DEF PostWebhook, Answered
    <3>3. faults = 0 => Complete(body) /\ body.signature # None
      BY <1>t, <2>2, <3>1, <3>2 DEF IsComplete, Complete, Field
    <3>4. faults = 0 => IsComplete(Request("webhook", body))
      BY <3>3 DEF IsComplete, Request
    <3>5. Continue(c, "webhook", body)
      BY <1>4, <2>2, <3>1 DEF PostWebhook
    <3>6. QED
      BY <1>n, <2>1, <3>4, <3>5
  <2>3. QED
    BY <1>f, <1>t, <2>1, <2>2
<1>5. CASE ShowSettled(c)
  <2>1. txn' = txn /\ ReloadProfile(c)
    BY <1>5 DEF ShowSettled
  <2>2. CASE student = None
    BY <1>f, <1>t, <2>1, <2>2 DEF ReloadProfile, Finish
  <2>3. CASE student # None
    <3>1. PICK s : s = student
      OBVIOUS
    <3>2. Continue(c, "profile", s)
      BY <2>1, <2>3, <3>1 DEF ReloadProfile
    <3>3. IsComplete(Request("profile", s))
      BY DEF IsComplete, Request
    <3>4. QED
      BY <1>n, <2>1, <3>2, <3>3
  <2>4. QED
    BY <2>2, <2>3
<1>6. QED
  BY <1>1, <1>2, <1>3, <1>4, <1>5 DEF Resume

(* A click sends what the page has; a fault ends the promise; a page that  *)
(* is loaded again starts anew.                                            *)
LEMMA UserDefines ==
  ASSUME Lasting, NothingIsUndefined, NEW c \in Calls,
         \/ Lose(c) \/ Cut(c) \/ Reload(c)
         \/ \E s \in Students : SelectStudent(c, s)
         \/ InitiatePayment(c) \/ SimulatePaymentSuccess(c) \/ RefreshStatus(c)
  PROVE  NothingIsUndefined'
<1> USE NoneAssumption
<1>1. CASE Lose(c) \/ Cut(c)
  <2>1. faults' = faults + 1 /\ faults \in 0 .. MaxFaults
    BY <1>1, Parts DEF Lose, Cut, Fault, RunOK
  <2>2. faults' # 0
    BY <2>1, PageAssumption
  <2>3. QED
    BY <2>2 DEF NothingIsUndefined
<1>2. CASE Reload(c)
  <2>1. PICK k : k = Request("students", None)
    OBVIOUS
  <2>2. /\ calls' = [calls EXCEPT ![c] = k] /\ txn' = None
        /\ \A d \in Calls : calls[d] = None
    BY <1>2, <2>1 DEF Reload, Quiet
  <2>3. k.answer # Empty /\ IsComplete(k)
    BY <2>1 DEF Request, IsComplete
  <2>4. \A d \in Calls : calls'[d] # None => calls'[d] = k
    BY <2>2, Parts DEF CallsOK
  <2>5. QED
    BY <2>2, <2>3, <2>4 DEF NothingIsUndefined, IsComplete, Complete
<1>n. ASSUME NEW to, NEW body, Start(c, to, body), txn' \in {txn, None},
             faults = 0 => IsComplete(Request(to, body))
      PROVE  NothingIsUndefined'
  <2>1. PICK k : k = Request(to, body)
    OBVIOUS
  <2>2. calls' = [calls EXCEPT ![c] = k] /\ faults' = faults
    BY <1>n, <2>1 DEF Start
  <2>3. faults' = 0 => txn' # Empty /\ k.answer # Empty /\ IsComplete(k)
    BY <1>n, <2>1, <2>2 DEF Request, NothingIsUndefined
  <2>4. QED
    BY <2>2, <2>3, DefinedAfter
<1>3. ASSUME NEW s \in Students, SelectStudent(c, s)
      PROVE  NothingIsUndefined'
  <2>1. Start(c, "profile", s) /\ txn' = None
    BY <1>3 DEF SelectStudent, ForgetTransaction
  <2>2. QED
    BY <1>n, <2>1 DEF IsComplete, Request
<1>4. CASE InitiatePayment(c)
  <2>1. PICK body : body = [student |-> student, invoice |-> invoice]
    OBVIOUS
  <2>2. Start(c, "initiate", body) /\ txn' = txn
    BY <1>4, <2>1 DEF InitiatePayment, page
  <2>3. QED
    BY <1>n, <2>2 DEF IsComplete, Request
<1>5. CASE SimulatePaymentSuccess(c)
  <2>1. Start(c, "generate-utr", None) /\ txn' = txn
    BY <1>5 DEF SimulatePaymentSuccess, page
  <2>2. QED
    BY <1>n, <2>1 DEF IsComplete, Request
<1>6. CASE RefreshStatus(c)
  <2>1. PICK p : p = Field(txn)
    OBVIOUS
  <2>2. Start(c, "payment", p) /\ txn' = txn /\ txn # None
    BY <1>6, <2>1 DEF RefreshStatus, page
  <2>3. faults = 0 => p # None
    BY <2>1, <2>2 DEF Field, NothingIsUndefined
  <2>4. QED
    BY <1>n, <2>2, <2>3 DEF IsComplete, Request
<1>7. QED
  BY <1>1, <1>2, <1>3, <1>4, <1>5, <1>6

(* Every step keeps what is undefined on the account of a fault.           *)
LEMMA DefinedStep ==
  ASSUME Lasting, NothingIsUndefined, [Next]_vars
  PROVE  NothingIsUndefined'
<1>1. CASE SelectNobody
  BY <1>1, NoneAssumption
     DEF SelectNobody, ForgetTransaction, NothingIsUndefined, IsComplete, Complete
<1>2. ASSUME NEW f \in Fees, SelectInvoice(f)
      PROVE  NothingIsUndefined'
  BY <1>2 DEF SelectInvoice, NothingIsUndefined, IsComplete, Complete
<1>3. CASE UNCHANGED vars
  BY <1>3 DEF vars, NothingIsUndefined, IsComplete, Complete
<1>4. QED
  BY <1>1, <1>2, <1>3, ServeDefines, ResumeDefines, UserDefines DEF Next

(* A page just loaded has asked for its students and nothing else.         *)
LEMMA DefinedInit == ASSUME Init PROVE NothingIsUndefined
<1>1. PICK c \in Calls :
        calls = [d \in Calls |-> IF d = c THEN Request("students", None) ELSE None]
  BY DEF Init
<1>2. txn # Empty
  BY NoneAssumption DEF Init
<1>3. ASSUME NEW d \in Calls, calls[d] # None
      PROVE  calls[d].answer # Empty /\ IsComplete(calls[d])
  <2>1. calls[d] = Request("students", None)
    BY <1>1, <1>3
  <2>2. QED
    BY <2>1, NoneAssumption DEF Request, IsComplete
<1>4. QED
  BY <1>2, <1>3 DEF NothingIsUndefined

-----------------------------------------------------------------------------
(* The page of a patient user: one request at a time, whose answer fits    *)
(* the page it comes back to.                                              *)

(* The other handlers rest, and the one at work goes on to k.              *)
LEMMA FreshAfter ==
  ASSUME Lasting, NEW c \in Calls, NEW k,
         \A d \in Calls \ {c} : calls[d] = None,
         calls' = [calls EXCEPT ![c] = k],
         k # None => CallIsFresh(k)',
         StatusIsShown' \/ (k # None /\ Settling(k)),
         ListIsShown' \/ (k # None /\ (Settling(k) \/ Reloading(k))),
         SelectionIsShown' \/ (k # None /\ Reloading(k))
  PROVE  FreshWhilePatient'
<1>1. calls'[c] = k /\ \A d \in Calls \ {c} : calls'[d] = None
  BY Parts DEF CallsOK
<1>2. \A d \in Calls : calls'[d] # None => CallIsFresh(calls[d])'
  <2>1. ASSUME NEW d \in Calls, calls'[d] # None
        PROVE  CallIsFresh(calls[d])'
    <3>1. d = c /\ calls'[d] = k /\ CallIsFresh(k)'
      BY <1>1, <2>1
    <3>2. QED
      BY <3>1 DEF CallIsFresh, PendingOf
  <2>2. QED
    BY <2>1
<1>3. QED
  BY <1>1, <1>2 DEF FreshWhilePatient, Settling, Reloading, CallIsFresh, PendingOf

(* What a patient user may rely on while handler c is at work.             *)
LEMMA WhatIsFresh ==
  ASSUME FreshWhilePatient, Patient, NEW c \in Calls, calls[c] # None
  PROVE  /\ \A d \in Calls \ {c} : calls[d] = None
         /\ CallIsFresh(calls[c])
         /\ StatusIsShown \/ Settling(calls[c])
         /\ ListIsShown \/ Settling(calls[c]) \/ Reloading(calls[c])
         /\ SelectionIsShown \/ Reloading(calls[c])
BY DEF FreshWhilePatient

(* And when no handler is.                                                 *)
LEMMA WhatIsShown ==
  ASSUME FreshWhilePatient, Patient, Quiet
  PROVE  StatusIsShown /\ ListIsShown /\ SelectionIsShown
BY DEF FreshWhilePatient, Quiet

(* An answer to the one request of a patient user, from a server that does *)
(* nothing else.                                                           *)
LEMMA ReadFresh ==
  ASSUME Lasting, FreshWhilePatient, Patient, NEW c \in Calls, NEW to, Asked(c, to),
         NEW a, Reply(c, a), UNCHANGED server,
         NEW k, k = [to |-> calls[c].to, body |-> calls[c].body, answer |-> a],
         k # None, CallIsFresh(k)
  PROVE  FreshWhilePatient'
<1>1. calls' = [calls EXCEPT ![c] = k]
  BY Parts, Answering DEF Reply, Asked
<1>2. UNCHANGED <<page, server>>
  BY DEF Reply
<1>3. CallIsFresh(k)'
  BY <1>2 DEF CallIsFresh, PendingOf, page, profile, server, ledger
<1>4. /\ calls[c] # None /\ calls[c].answer = None
      /\ \A d \in Calls \ {c} : calls[d] = None
      /\ StatusIsShown \/ Settling(calls[c])
      /\ ListIsShown \/ Settling(calls[c]) \/ Reloading(calls[c])
      /\ SelectionIsShown \/ Reloading(calls[c])
  BY WhatIsFresh DEF Asked
<1>5. ~Settling(calls[c]) /\ (Reloading(calls[c]) <=> Reloading(k))
  BY <1>4, NoneAssumption DEF Settling, Reloading, Status
<1>6. /\ StatusIsShown' <=> StatusIsShown
      /\ ListIsShown' <=> ListIsShown
      /\ SelectionIsShown' <=> SelectionIsShown
  BY <1>2 DEF StatusIsShown, ListIsShown, SelectionIsShown, PendingOf, page, profile,
              server, ledger
<1>7. /\ StatusIsShown'
      /\ ListIsShown' \/ Reloading(k)
      /\ SelectionIsShown' \/ Reloading(k)
  BY <1>4, <1>5, <1>6
<1>8. \A d \in Calls \ {c} : calls[d] = None
  BY <1>4
<1>9. QED
  BY <1>1, <1>3, <1>7, <1>8, FreshAfter

(* The server: what it answers a patient user is what it has.              *)
LEMMA ServeFresh ==
  ASSUME Lasting, NothingIsUndefined, FreshWhilePatient, Patient, NEW c \in Calls, Serve(c)
  PROVE  FreshWhilePatient'
<1> USE NoneAssumption, CallAssumption
<1>d. txn # Empty /\ (calls[c] # None => IsComplete(calls[c]))
  BY DEF Patient, NothingIsUndefined
<1>t. /\ calls[c] # None => calls[c] \in Call /\ CallIsTrue(calls[c])
      /\ calls[c] # None => CallIsFresh(calls[c])
  BY Parts, WhatIsFresh DEF CallsOK, CallsAreTrue
<1>1. CASE ServeStudents(c)
  <2>1. PICK k : k = [to |-> calls[c].to, body |-> calls[c].body, answer |-> "list"]
    OBVIOUS
  <2>2. k \in Call /\ CallIsFresh(k)
    BY <1>1, <1>t, <2>1 DEF ServeStudents, Asked, Call, Await, CallIsFresh
  <2>3. QED
    BY <1>1, <2>1, <2>2, ReadFresh DEF ServeStudents
<1>2. CASE ServeProfile(c)
  <2> DEFINE s == calls[c].body
  <2>1. PICK a : a = [student |-> s, pending |-> PendingOf(s)]
    OBVIOUS
  <2>2. PICK k : k = [to |-> calls[c].to, body |-> s, answer |-> a]
    OBVIOUS
  <2>3. calls[c] # None /\ calls[c].to = "profile" /\ s \in Students
    BY <1>2, <1>t DEF ServeProfile, Asked, Call, Await
  <2>4. a \in Profile
    BY <2>1, <2>3 DEF Profile, PendingOf
  <2>5. k \in Call
    BY <2>2, <2>3, <2>4 DEF Call, Await
  <2>6. selected \in {None, s}
    BY <1>t, <2>3 DEF CallIsFresh
  <2>7. CallIsFresh(k)
    BY <2>1, <2>2, <2>3, <2>6 DEF CallIsFresh
  <2>8. Asked(c, "profile") /\ Reply(c, a) /\ UNCHANGED server
    BY <1>2, <2>1 DEF ServeProfile
  <2>9. QED
    BY <2>2, <2>5, <2>7, <2>8, ReadFresh
<1>3. CASE ServeInitiate(c)
  <2> DEFINE f == calls[c].body.invoice
  <2>1. PICK p \in Payments : /\ Ledger!Open(p, f)
                             /\ payer' = [payer EXCEPT ![p] = calls[c].body.student]
                             /\ Reply(c, p)
    BY <1>3 DEF ServeInitiate
  <2>2. /\ calls[c] # None /\ calls[c].to = "initiate" /\ calls[c].answer = None
        /\ calls[c] \in Call
    BY <1>3, <1>t DEF ServeInitiate, Asked
  <2>3. PICK k : k = [to |-> calls[c].to, body |-> calls[c].body, answer |-> p]
    OBVIOUS
  <2>4. k \in Call /\ k.to = "initiate" /\ k.answer = p
    BY <2>2, <2>3 DEF Call, Await
  <2>5. calls' = [calls EXCEPT ![c] = k] /\ UNCHANGED page
    BY <2>1, <2>2, <2>3, Parts, Answering DEF Reply
  <2>6. /\ payment[p] = None /\ closed' = closed
        /\ payment' = [payment EXCEPT ![p] = [fee |-> f, status |-> "PENDING", ref |-> None]]
    BY <2>1 DEF Ledger!Open
  <2>7. payment'[p].status = "PENDING" /\ \A q \in Payments \ {p} : payment'[q] = payment[q]
    BY <2>6, Parts DEF ServerOK
  <2>8. CallIsFresh(k)'
    BY <2>4, <2>7 DEF CallIsFresh
  <2>9. /\ \A d \in Calls \ {c} : calls[d] = None
        /\ StatusIsShown /\ ListIsShown /\ SelectionIsShown
    BY <2>2, WhatIsFresh DEF Settling, Reloading
  <2>10. card.shown => txn \in Payments \ {p}
    BY <1>d, <2>6, Parts DEF PageOK, CardFollowsTransaction, Field
  <2>11. StatusIsShown'
    BY <2>5, <2>7, <2>9, <2>10 DEF StatusIsShown, page
  <2>12. ListIsShown' /\ SelectionIsShown'
    BY <2>5, <2>6, <2>9 DEF ListIsShown, SelectionIsShown, PendingOf, page, profile
  <2>13. QED
    BY <2>5, <2>8, <2>9, <2>11, <2>12, FreshAfter
<1>4. CASE RefuseInitiate(c)
  <2>1. PICK k : k = [to |-> calls[c].to, body |-> calls[c].body, answer |-> Error]
    OBVIOUS
  <2>2. k \in Call /\ CallIsFresh(k)
    BY <1>4, <1>t, <2>1 DEF RefuseInitiate, Asked, Call, Await, CallIsFresh
  <2>3. QED
    BY <1>4, <2>1, <2>2, ReadFresh DEF RefuseInitiate, Refuse
<1>5. CASE ServeUtr(c)
  <2>1. PICK k : k = [to |-> calls[c].to, body |-> calls[c].body, answer |-> "utr"]
    OBVIOUS
  <2>2. k \in Call /\ CallIsFresh(k)
    BY <1>5, <1>t, <2>1 DEF ServeUtr, Asked, Call, Await, CallIsFresh
  <2>3. QED
    BY <1>5, <2>1, <2>2, ReadFresh DEF ServeUtr
<1>6. CASE ServeSign(c)
  <2>1. PICK a : a = calls[c].body.txn
    OBVIOUS
  <2>2. PICK k : k = [to |-> calls[c].to, body |-> calls[c].body, answer |-> a]
    OBVIOUS
  <2>3. k \in Call /\ CallIsFresh(k)
    BY <1>6, <1>t, <2>1, <2>2
       DEF ServeSign, Complete, Asked, Call, Await, Id, CallIsFresh
  <2>4. QED
    BY <1>6, <2>1, <2>2, <2>3, ReadFresh DEF ServeSign
<1>7. CASE ServeWebhook(c)
  <2> DEFINE p == calls[c].body.txn
  <2>1. /\ calls[c] # None /\ calls[c].to = "webhook" /\ calls[c].answer = None
        /\ calls[c] \in Call /\ p \in Payments /\ txn \in {None, p}
    BY <1>7, <1>t
       DEF ServeWebhook, Acceptable, Complete, Asked, Call, Await, Id, CallIsFresh
  <2>2. Ledger!Settle(p, payment[p].fee, p) /\ Reply(c, "SUCCESS")
    BY <1>7 DEF ServeWebhook
  <2>3. PICK k : k = [to |-> calls[c].to, body |-> calls[c].body, answer |-> "SUCCESS"]
    OBVIOUS
  <2>4. k \in Call /\ Settling(k)
    BY <2>1, <2>3 DEF Call, Await, Settling
  <2>5. calls' = [calls EXCEPT ![c] = k] /\ UNCHANGED page
    BY <2>1, <2>2, <2>3, Parts, Answering DEF Reply
  <2>6. payment'[p].status = "SUCCESS"
    BY <2>1, <2>2, Parts DEF Ledger!Settle, Ledger!Close, ServerOK
  <2>7. CallIsFresh(k)'
    BY <2>1, <2>3, <2>5, <2>6 DEF CallIsFresh, page
  <2>8. (\A d \in Calls \ {c} : calls[d] = None) /\ SelectionIsShown
    BY <2>1, WhatIsFresh DEF Reloading
  <2>9. SelectionIsShown'
    BY <2>5, <2>8 DEF SelectionIsShown, page, profile
  <2>10. QED
    BY <2>4, <2>5, <2>7, <2>8, <2>9, FreshAfter
<1>8. CASE RefuseWebhook(c)
  <2>1. PICK k : k = [to |-> calls[c].to, body |-> calls[c].body, answer |-> Error]
    OBVIOUS
  <2>2. Error # "SUCCESS"
    BY DEF Status
  <2>3. k \in Call /\ CallIsFresh(k)
    BY <1>8, <1>t, <2>1, <2>2 DEF RefuseWebhook, Asked, Call, Await, CallIsFresh
  <2>4. QED
    BY <1>8, <2>1, <2>3, ReadFresh DEF RefuseWebhook, Refuse
<1>9. CASE ServePayment(c)
  <2> DEFINE p == calls[c].body
  <2>1. PICK a : a = payment[p].status
    OBVIOUS
  <2>2. PICK k : k = [to |-> calls[c].to, body |-> calls[c].body, answer |-> a]
    OBVIOUS
  <2>3. /\ calls[c] # None /\ calls[c].to = "payment" /\ p \in Payments
        /\ payment[p] # None /\ txn \in {None, p}
    BY <1>9, <1>t DEF ServePayment, Asked, Call, Await, Id, CallIsTrue, CallIsFresh
  <2>4. a \in Status
    BY <2>1, <2>3, Parts DEF ServerOK, Row
  <2>5. k \in Call
    BY <2>2, <2>3, <2>4 DEF Call, Await, Id
  <2>6. CallIsFresh(k)
    BY <2>1, <2>2, <2>3 DEF CallIsFresh
  <2>7. Asked(c, "payment") /\ Reply(c, a) /\ UNCHANGED server
    BY <1>9, <2>1 DEF ServePayment
  <2>8. QED
    BY <2>2, <2>5, <2>6, <2>7, ReadFresh
<1>10. ~RefuseSign(c) /\ ~RefusePayment(c)
  BY <1>d DEF RefuseSign, RefusePayment, Asked, IsComplete
<1>11. QED
  BY <1>1, <1>2, <1>3, <1>4, <1>5, <1>6, <1>7, <1>8, <1>9, <1>10 DEF Serve

-----------------------------------------------------------------------------
(* A page that is not told anything new shows what it showed.              *)
LEMMA ShowsTheSame ==
  ASSUME UNCHANGED server, UNCHANGED <<selected, student, pending, txn, card>>
  PROVE  /\ StatusIsShown' <=> StatusIsShown
         /\ ListIsShown' <=> ListIsShown
         /\ SelectionIsShown' <=> SelectionIsShown
BY DEF StatusIsShown, ListIsShown, SelectionIsShown, PendingOf, server, ledger

(* The page of a patient user: what it takes over is what the server has.  *)
LEMMA ResumeFresh ==
  ASSUME Lasting, NothingIsUndefined, FreshWhilePatient, Patient, NEW c \in Calls, Resume(c)
  PROVE  FreshWhilePatient'
<1> USE NoneAssumption, CallAssumption
<1>c. calls[c] # None
  BY DEF Resume, ShowStudents, ShowProfile, ShowNoProfile, ShowPayment, SignUtr,
         PostWebhook, ShowSettled, ShowStatus, CatchError, Answered
<1>d. txn # Empty /\ calls[c].answer # Empty /\ IsComplete(calls[c])
  BY <1>c DEF Patient, NothingIsUndefined
<1>t. /\ calls[c] \in Call /\ CallIsFresh(calls[c])
      /\ \A d \in Calls \ {c} : calls[d] = None
      /\ StatusIsShown \/ Settling(calls[c])
      /\ ListIsShown \/ Settling(calls[c]) \/ Reloading(calls[c])
      /\ SelectionIsShown \/ Reloading(calls[c])
  BY <1>c, Parts, WhatIsFresh DEF CallsOK
<1>f. Finish(c) /\ StatusIsShown' /\ ListIsShown' /\ SelectionIsShown' => FreshWhilePatient'
  <2>1. PICK k : k = None
    OBVIOUS
  <2>2. QED
    BY <1>t, <2>1, FreshAfter DEF Finish
<1>1. CASE ShowStudents(c)
  <2>1. UNCHANGED server /\ UNCHANGED <<selected, student, pending, txn, card>> /\ Finish(c)
    BY <1>1 DEF ShowStudents, profile
  <2>2. StatusIsShown /\ ListIsShown /\ SelectionIsShown
    BY <1>1, <1>t DEF ShowStudents, Answered, Settling, Reloading
  <2>3. QED
    BY <1>f, <2>1, <2>2, ShowsTheSame
<1>2. CASE ShowProfile(c)
  <2> DEFINE s == calls[c].body
             a == calls[c].answer
  <2>1. /\ a = [student |-> s, pending |-> PendingOf(s)]
        /\ selected \in {None, s}
        /\ StatusIsShown
    BY <1>2, <1>t DEF ShowProfile, Answered, CallIsFresh, Settling
  <2>2. UNCHANGED <<server, selected, txn, card>> /\ Finish(c)
    BY <1>2 DEF ShowProfile
  <2>3. student' = s /\ pending' = PendingOf(s)
    BY <1>2, <2>1 DEF ShowProfile
  <2>4. StatusIsShown'
    BY <2>1, <2>2 DEF StatusIsShown, server, ledger
  <2>5. ListIsShown'
    BY <2>2, <2>3 DEF ListIsShown, PendingOf, server, ledger
  <2>6. SelectionIsShown'
    BY <2>1, <2>2, <2>3 DEF SelectionIsShown
  <2>7. QED
    BY <1>f, <2>2, <2>4, <2>5, <2>6
<1>3. CASE ShowPayment(c)
  <2> DEFINE p == calls[c].answer
  <2>1. /\ payment[p].status = "PENDING"
        /\ ListIsShown /\ SelectionIsShown
    BY <1>3, <1>d, <1>t DEF ShowPayment, Answered, CallIsFresh, Settling, Reloading
  <2>2. UNCHANGED <<server, selected, student, pending>> /\ Finish(c)
    BY <1>3 DEF ShowPayment, RenderPayment
  <2>3. txn' = p /\ card'.badge = "PENDING"
    BY <1>3, <1>d DEF ShowPayment, RenderPayment, CardOf
  <2>4. StatusIsShown'
    BY <2>1, <2>2, <2>3 DEF StatusIsShown, server, ledger
  <2>5. ListIsShown' /\ SelectionIsShown'
    BY <2>1, <2>2 DEF ListIsShown, SelectionIsShown, PendingOf, server, ledger
  <2>6. QED
    BY <1>f, <2>2, <2>4, <2>5
<1>4. CASE SignUtr(c)
  <2>1. StatusIsShown' /\ ListIsShown' /\ SelectionIsShown'
    BY <1>4, <1>t, ShowsTheSame DEF SignUtr, Answered, Settling, Reloading, page, profile
  <2>2. CASE txn = None
    BY <1>4, <1>f, <2>1, <2>2 DEF SignUtr
  <2>3. CASE txn # None
    <3>1. PICK k : k = Request("sign", [txn |-> Field(txn), utr |-> Field(calls[c].answer)])
      OBVIOUS
    <3>2. calls' = [calls EXCEPT ![c] = k]
      BY <1>4, <2>3, <3>1 DEF SignUtr, Continue
    <3>3. CallIsFresh(k)'
      BY <3>1 DEF Request, CallIsFresh
    <3>4. QED
      BY <1>t, <2>1, <3>2, <3>3, FreshAfter
  <2>4. QED
    BY <2>2, <2>3
<1>5. CASE PostWebhook(c)
  <2>1. StatusIsShown' /\ ListIsShown' /\ SelectionIsShown' /\ txn' = txn
    BY <1>5, <1>t, ShowsTheSame
       DEF PostWebhook, Answered, Settling, Reloading, page, profile
  <2>2. CASE txn = None
    BY <1>5, <1>f, <2>1, <2>2 DEF PostWebhook
  <2>3. CASE txn # None
    <3>1. PICK k : k = Request("webhook", [txn |-> Field(txn), utr |-> calls[c].body.utr,
                                          signature |-> Field(calls[c].answer)])
      OBVIOUS
    <3>2. calls' = [calls EXCEPT ![c] = k]
      BY <1>5, <2>3, <3>1 DEF PostWebhook, Continue
    <3>3. None # "SUCCESS"
      BY DEF Status
    <3>4. CallIsFresh(k)'
      BY <1>d, <2>1, <3>1, <3>3 DEF Request, CallIsFresh, Field
    <3>5. QED
      BY <1>t, <2>1, <3>2, <3>4, FreshAfter
  <2>4. QED
    BY <2>2, <2>3
<1>6. CASE ShowSettled(c)
  <2> DEFINE p == calls[c].body.txn
  <2>1. /\ calls[c].to = "webhook" /\ calls[c].answer = "SUCCESS"
    BY <1>6, <1>d, <1>t DEF ShowSettled, Answered, Call, Await
  <2>2. payment[p].status = "SUCCESS" /\ txn \in {None, p} /\ SelectionIsShown
    BY <1>t, <2>1 DEF CallIsFresh, Reloading
  <2>3. UNCHANGED <<server, selected, student, pending, txn>> /\ ReloadProfile(c)
    BY <1>6 DEF ShowSettled, profile
  <2>4. card'.shown = card.shown /\ card'.badge = "SUCCESS"
    BY <1>6, <1>d, <2>1, Parts DEF ShowSettled, SetStatusBadge, Field, PageOK, Card
  <2>5. StatusIsShown'
    <3>1. card.shown => txn = p
      BY <2>2, Parts DEF PageOK, CardFollowsTransaction
    <3>2. QED
      BY <2>2, <2>3, <2>4, <3>1 DEF StatusIsShown, server, ledger
  <2>6. SelectionIsShown'
    BY <2>2, <2>3 DEF SelectionIsShown
  <2>7. CASE student = None
    <3>1. Finish(c) /\ ListIsShown'
      BY <2>3, <2>7 DEF ReloadProfile, ListIsShown
    <3>2. QED
      BY <1>f, <2>5, <2>6, <3>1
  <2>8. CASE student # None
    <3>1. PICK k : k = Request("profile", student)
      OBVIOUS
    <3>2. calls' = [calls EXCEPT ![c] = k]
      BY <2>3, <2>8, <3>1 DEF ReloadProfile, Continue
    <3>3. student \in Students
      BY <2>8, Parts DEF PageOK
    <3>4. k \in Call /\ Reloading(k)
      BY <3>1, <3>3 DEF Request, Call, Await, Reloading
    <3>5. CallIsFresh(k)'
      BY <2>2, <2>3, <3>1 DEF Request, CallIsFresh, SelectionIsShown
    <3>6. QED
      BY <1>t, <2>5, <2>6, <3>2, <3>4, <3>5, FreshAfter
  <2>9. QED
    BY <2>7, <2>8
<1>7. CASE ShowStatus(c)
  <2> DEFINE p == calls[c].body
  <2>1. /\ calls[c].answer = payment[p].status /\ txn \in {None, p}
        /\ ListIsShown /\ SelectionIsShown
    BY <1>7, <1>t DEF ShowStatus, Answered, CallIsFresh, Settling, Reloading
  <2>2. UNCHANGED <<server, selected, student, pending, txn>> /\ Finish(c)
    BY <1>7 DEF ShowStatus, profile
  <2>3. card'.shown = card.shown /\ card'.badge = payment[p].status
    BY <1>7, <1>d, <2>1, Parts DEF ShowStatus, SetStatusBadge, Field, PageOK, Card
  <2>4. StatusIsShown'
    <3>1. card.shown => txn = p
      BY <2>1, Parts DEF PageOK, CardFollowsTransaction
    <3>2. QED
      BY <2>2, <2>3, <3>1 DEF StatusIsShown, server, ledger
  <2>5. ListIsShown' /\ SelectionIsShown'
    BY <2>1, <2>2 DEF ListIsShown, SelectionIsShown, PendingOf, server, ledger
  <2>6. QED
    BY <1>f, <2>2, <2>4, <2>5
<1>8. CASE CatchError(c)
  <2>1. UNCHANGED server /\ UNCHANGED <<selected, student, pending, txn, card>> /\ Finish(c)
    BY <1>8 DEF CatchError, page, profile
  <2>2. calls[c].answer = Error
    BY <1>8, <1>d DEF CatchError
  <2>3. ~Settling(calls[c])
    BY <2>2 DEF Settling, Status
  <2>4. ~Reloading(calls[c])
    <3>1. SUFFICES ASSUME calls[c].to = "profile" PROVE FALSE
      BY DEF Reloading
    <3>2. calls[c].body \in Students
      BY <1>t, <3>1 DEF Call, Await
    <3>3. [student |-> calls[c].body, pending |-> PendingOf(calls[c].body)] \in Profile
      BY <3>2 DEF Profile, PendingOf
    <3>4. QED
      BY <1>t, <2>2, <3>1, <3>3 DEF CallIsFresh
  <2>5. QED
    BY <1>f, <1>t, <2>1, <2>3, <2>4, ShowsTheSame
<1>9. ~ShowNoProfile(c)
  BY <1>d DEF ShowNoProfile
<1>10. QED
  BY <1>1, <1>2, <1>3, <1>4, <1>5, <1>6, <1>7, <1>8, <1>9 DEF Resume

-----------------------------------------------------------------------------
(* A click of a patient user: no handler is at work, and the page is right *)
(* except for the profile that the click may ask for.                      *)
LEMMA StartFresh ==
  ASSUME Lasting, FreshWhilePatient, Patient', NEW c \in Calls, NEW to, NEW body,
         Start(c, to, body), Request(to, body) \in Call,
         CallIsFresh(Request(to, body))',
         Patient /\ Quiet /\ StatusIsShown /\ ListIsShown /\ SelectionIsShown =>
             /\ StatusIsShown' /\ ListIsShown'
             /\ SelectionIsShown' \/ to = "profile"
  PROVE  FreshWhilePatient'
<1>1. Patient /\ Quiet
  BY DEF Patient, Start
<1>2. StatusIsShown' /\ ListIsShown' /\ (SelectionIsShown' \/ to = "profile")
  BY <1>1, WhatIsShown
<1>3. PICK k \in Call : k = Request(to, body)
  OBVIOUS
<1>4. k # None /\ (to = "profile" => Reloading(k))
  BY <1>3, CallAssumption DEF Reloading, Request
<1>5. CallIsFresh(k)'
  BY <1>3 DEF CallIsFresh, PendingOf
<1>6. calls' = [calls EXCEPT ![c] = k] /\ \A d \in Calls \ {c} : calls[d] = None
  BY <1>1, <1>3 DEF Start, Quiet
<1>7. QED
  BY <1>2, <1>4, <1>5, <1>6, FreshAfter

(* What the user does; a request or an answer that is lost or cut ends     *)
(* patience; a page that is loaded again has nothing to be behind with.    *)
LEMMA UserFresh ==
  ASSUME Lasting, NothingIsUndefined, FreshWhilePatient, Patient', NEW c \in Calls,
         \/ Lose(c) \/ Cut(c) \/ Reload(c)
         \/ \E s \in Students : SelectStudent(c, s)
         \/ InitiatePayment(c) \/ SimulatePaymentSuccess(c) \/ RefreshStatus(c)
  PROVE  FreshWhilePatient'
<1> USE NoneAssumption, CallAssumption
<1>1. CASE Lose(c) \/ Cut(c)
  <2>1. faults' # 0
    BY <1>1, PageAssumption, Parts DEF Lose, Cut, Fault, RunOK
  <2>2. QED
    BY <2>1 DEF Patient
<1>2. CASE Reload(c)
  <2>1. PICK k : k = Request("students", None)
    OBVIOUS
  <2>2. calls' = [calls EXCEPT ![c] = k] /\ \A d \in Calls \ {c} : calls[d] = None
    BY <1>2, <2>1 DEF Reload, Quiet
  <2>3. CallIsFresh(k)'
    BY <2>1 DEF Request, CallIsFresh
  <2>4. StatusIsShown' /\ ListIsShown' /\ SelectionIsShown'
    BY <1>2 DEF Reload, StatusIsShown, ListIsShown, SelectionIsShown
  <2>5. QED
    BY <2>2, <2>3, <2>4, FreshAfter
<1>3. ASSUME NEW s \in Students, SelectStudent(c, s)
      PROVE  FreshWhilePatient'
  <2>1. /\ UNCHANGED <<server, student, pending>> /\ Start(c, "profile", s)
        /\ selected' = s /\ card' = [card EXCEPT !.shown = FALSE]
    BY <1>3 DEF SelectStudent, ForgetTransaction, HideCard
  <2>2. Request("profile", s) \in Call
    BY DEF Request, Call, Await
  <2>3. CallIsFresh(Request("profile", s))'
    BY <2>1 DEF Request, CallIsFresh
  <2>4. StatusIsShown'
    BY <2>1, Parts DEF StatusIsShown, PageOK, Card
  <2>5. ListIsShown => ListIsShown'
    BY <2>1 DEF ListIsShown, PendingOf, server, ledger
  <2>6. QED
    BY <2>1, <2>2, <2>3, <2>4, <2>5, StartFresh
<1>4. ASSUME UNCHANGED <<server, page>>
      PROVE  StatusIsShown /\ ListIsShown /\ SelectionIsShown =>
                 StatusIsShown' /\ ListIsShown' /\ SelectionIsShown'
  BY <1>4, ShowsTheSame DEF page, profile
<1>5. CASE InitiatePayment(c)
  <2>1. PICK body : body = [student |-> student, invoice |-> invoice]
    OBVIOUS
  <2>2. student \in Students /\ invoice \in Fees
    BY <1>5, Parts DEF InitiatePayment, Chosen, PageOK
  <2>3. Request("initiate", body) \in Call /\ CallIsFresh(Request("initiate", body))'
    BY <2>1, <2>2 DEF Request, Call, Await, CallIsFresh
  <2>4. QED
    BY <1>4, <1>5, <2>1, <2>3, StartFresh DEF InitiatePayment
<1>6. CASE SimulatePaymentSuccess(c)
  <2>1. /\ Request("generate-utr", None) \in Call
        /\ CallIsFresh(Request("generate-utr", None))'
    BY DEF Request, Call, Await, CallIsFresh
  <2>2. QED
    BY <1>4, <1>6, <2>1, StartFresh DEF SimulatePaymentSuccess
<1>7. CASE RefreshStatus(c)
  <2>0. txn # Empty /\ Field(txn) = txn
    BY <1>7 DEF RefreshStatus, Start, Patient, NothingIsUndefined, Field
  <2>1. PICK p \in Payments : p = txn
    BY <1>7, <2>0, Parts DEF RefreshStatus, PageOK
  <2>2. txn' = p
    BY <1>7, <2>1 DEF RefreshStatus, page
  <2>3. Request("payment", p) \in Call /\ CallIsFresh(Request("payment", p))'
    BY <2>2 DEF Request, Call, Await, Id, CallIsFresh
  <2>4. QED
    BY <1>4, <1>7, <2>0, <2>1, <2>3, StartFresh DEF RefreshStatus
<1>8. QED
  BY <1>1, <1>2, <1>3, <1>5, <1>6, <1>7

-----------------------------------------------------------------------------
(* A step that moves no handler leaves the one request as fresh as it was. *)
LEMMA FreshStays ==
  ASSUME FreshWhilePatient,
         UNCHANGED <<server, student, pending, calls, faults, overlapped>>,
         /\ selected' \in {selected, None}
         /\ txn' \in {txn, None}
         /\ StatusIsShown => StatusIsShown'
         /\ SelectionIsShown => SelectionIsShown'
  PROVE  FreshWhilePatient'
<1>1. SUFFICES ASSUME Patient PROVE FreshWhilePatient'
  BY DEF FreshWhilePatient, Patient
<1>2. ASSUME NEW c \in Calls, calls[c] # None, CallIsFresh(calls[c])
      PROVE  CallIsFresh(calls[c])'
  BY <1>2 DEF CallIsFresh, PendingOf, server, ledger
<1>3. ListIsShown => ListIsShown'
  BY DEF ListIsShown, PendingOf, server, ledger
<1>4. QED
  BY <1>1, <1>2, <1>3 DEF FreshWhilePatient, Settling, Reloading

(* Before the first answer of a page just loaded.                          *)
LEMMA FreshInit == ASSUME Init PROVE FreshWhilePatient
<1>1. PICK c \in Calls :
        calls = [d \in Calls |-> IF d = c THEN Request("students", None) ELSE None]
  BY DEF Init
<1>2. PICK k : k = Request("students", None)
  OBVIOUS
<1>3. \A d \in Calls : calls[d] # None => d = c /\ calls[d] = k
  BY <1>1, <1>2
<1>4. CallIsFresh(k)
  BY <1>2 DEF Request, CallIsFresh
<1>5. \A d \in Calls : calls[d] # None => CallIsFresh(calls[d])
  BY <1>3, <1>4
<1>6. StatusIsShown /\ ListIsShown /\ SelectionIsShown
  BY DEF Init, StatusIsShown, ListIsShown, SelectionIsShown
<1>7. \A d, e \in Calls : calls[d] # None /\ calls[e] # None => d = e
  BY <1>3
<1>8. QED
  BY <1>5, <1>6, <1>7 DEF FreshWhilePatient

(* Who is patient after a step was patient before it, or has just loaded   *)
(* the page.                                                               *)
LEMMA PatienceIsOld ==
  ASSUME Lasting, NEW c \in Calls, Serve(c) \/ Resume(c), Patient'
  PROVE  Patient
BY DEF Patient, Serve, Resume, ServeStudents, ServeProfile, ServeInitiate, RefuseInitiate,
       ServeUtr, ServeSign, RefuseSign, ServeWebhook, RefuseWebhook, ServePayment,
       RefusePayment, Reply, Refuse, ShowStudents, ShowProfile, ShowNoProfile, ShowPayment,
       SignUtr, PostWebhook, ShowSettled, ReloadProfile, ShowStatus, CatchError, Finish,
       Continue

(* Every step keeps a patient user's page up to date.                      *)
LEMMA FreshStep ==
  ASSUME Lasting, NothingIsUndefined, FreshWhilePatient, [Next]_vars
  PROVE  FreshWhilePatient'
<1> USE NoneAssumption, CallAssumption
<1>1. SUFFICES ASSUME Patient' PROVE FreshWhilePatient'
  BY DEF FreshWhilePatient
<1>2. ASSUME NEW c \in Calls, Serve(c) \/ Resume(c)
      PROVE  FreshWhilePatient'
  BY <1>1, <1>2, PatienceIsOld, ServeFresh, ResumeFresh
<1>3. CASE SelectNobody
  <2>1. /\ UNCHANGED <<server, student, pending, calls, faults, overlapped>>
        /\ selected' = None /\ txn' = None /\ card' = [card EXCEPT !.shown = FALSE]
    BY <1>3 DEF SelectNobody, ForgetTransaction, HideCard
  <2>2. StatusIsShown' /\ SelectionIsShown'
    BY <2>1, Parts DEF StatusIsShown, SelectionIsShown, PageOK, Card
  <2>3. QED
    BY <2>1, <2>2, FreshStays
<1>4. ASSUME NEW f \in Fees, SelectInvoice(f)
      PROVE  FreshWhilePatient'
  BY <1>4, ShowsTheSame, FreshStays DEF SelectInvoice
<1>5. CASE UNCHANGED vars
  BY <1>5, ShowsTheSame, FreshStays DEF vars, server, profile
<1>6. QED
  BY <1>1, <1>2, <1>3, <1>4, <1>5, UserFresh DEF Next

(***************************************************************************)
(* IInv holds throughout every run of the page.                            *)
(***************************************************************************)
THEOREM Invariance == Spec => []IInv
<1>1. Init => IInv
  BY LastingInit, DefinedInit, FreshInit DEF IInv
<1>2. IInv /\ [Next]_vars => IInv'
  BY LastingStep, DefinedStep, FreshStep DEF IInv
<1>3. QED
  BY <1>1, <1>2, PTL DEF Spec

(***************************************************************************)
(* Until an answer of this page is lost or cut, whatever the order of      *)
(* clicks and answers, no request leaves without its transaction, bank     *)
(* reference or signature, and the current transaction has an id.  The     *)
(* undefined fields of index.html:176 have no other source.                *)
(***************************************************************************)
THEOREM RequestsAreComplete == Spec => []NothingIsUndefined
<1>1. IInv => NothingIsUndefined
  BY DEF IInv
<1>2. QED
  BY <1>1, Invariance, PTL

(***************************************************************************)
(* Every payment the page opens is recorded for the owner of its invoice,  *)
(* though the server does not compare them.                                *)
(***************************************************************************)
THEOREM OwnersPay == Spec => []PayersAreOwners
<1>1. IInv => PayersAreOwners
  BY DEF IInv, Lasting
<1>2. QED
  BY <1>1, Invariance, PTL

(***************************************************************************)
(* The payment card is shown for the current transaction and no other,     *)
(* with an id the server knows, or with none after a fault of the network. *)
(***************************************************************************)
THEOREM CardFollows == Spec => []CardIsOfTransaction
<1>1. IInv => CardIsOfTransaction
  BY DEF IInv, Lasting, CardIsOfTransaction, NothingIsUndefined
<1>2. QED
  BY <1>1, Invariance, PTL

(***************************************************************************)
(* No invoice that the student on the page owes is missing from the list.  *)
(***************************************************************************)
THEOREM DebtsShow == Spec => []NoDebtIsHidden
<1>1. IInv => NoDebtIsHidden
  BY DEF IInv, Lasting
<1>2. QED
  BY <1>1, Invariance, PTL

(***************************************************************************)
(* A user who waits for each answer, none of them lost or cut, sees the    *)
(* server's badge, the server's list and the student who is selected.      *)
(* UiRefreshes fails only through answers that overlap.                    *)
(***************************************************************************)
THEOREM PatientSees == Spec => []PatientUserIsUpToDate
<1>1. IInv => PatientUserIsUpToDate
  BY WhatIsShown DEF IInv, PatientUserIsUpToDate, AllAnswered, Patient
<1>2. QED
  BY <1>1, Invariance, PTL

(* A payment changes only when it is opened, or by the webhook that was    *)
(* signed for it.                                                          *)
LEMMA SettlingStep ==
  ASSUME Lasting, [Next]_vars, NEW p \in Payments, payment'[p] # payment[p], payment[p] # None
  PROVE  \E c \in Calls : /\ calls[c] # None
                          /\ calls[c].to = "webhook"
                          /\ calls[c].body = [txn |-> p, utr |-> "utr", signature |-> p]
<1>1. ASSUME NEW c \in Calls, ServeInitiate(c)
      PROVE  FALSE
  <2>1. PICK q \in Payments : Ledger!Open(q, calls[c].body.invoice)
    BY <1>1 DEF ServeInitiate
  <2>2. QED
    BY <2>1, Parts DEF Ledger!Open, ServerOK
<1>2. ASSUME NEW c \in Calls, ServeWebhook(c)
      PROVE  /\ calls[c] # None
             /\ calls[c].to = "webhook"
             /\ calls[c].body = [txn |-> p, utr |-> "utr", signature |-> p]
  <2> DEFINE body == calls[c].body
  <2>1. calls[c] # None /\ calls[c].to = "webhook" /\ body.signature = body.txn
    BY <1>2 DEF ServeWebhook, Asked, Acceptable, VerifySignature
  <2>2. body \in [txn : Payments, utr : {"utr"}, signature : Payments]
    BY <1>2, <2>1, Parts
       DEF ServeWebhook, Acceptable, Complete, CallsOK, Call, Await, Id, Utr
  <2>3. Ledger!Settle(body.txn, payment[body.txn].fee, body.txn)
    BY <1>2 DEF ServeWebhook
  <2>4. body.txn = p
    BY <2>2, <2>3, Parts DEF Ledger!Settle, Ledger!Close, ServerOK
  <2>5. QED
    BY <2>1, <2>2, <2>4
<1>3. payment' = payment \/ \E c \in Calls : ServeInitiate(c) \/ ServeWebhook(c)
  BY DEF Next, vars, server, ledger, Serve, Resume, ServeStudents, ServeProfile,
         RefuseInitiate, ServeUtr, ServeSign, RefuseSign, RefuseWebhook, ServePayment,
         RefusePayment, Lose, Cut, Fault, SelectStudent, SelectNobody, SelectInvoice,
         InitiatePayment, SimulatePaymentSuccess, RefreshStatus, Reload, ShowStudents,
         ShowProfile, ShowNoProfile, ShowPayment, SignUtr, PostWebhook, ShowSettled,
         ShowStatus, CatchError
<1>4. QED
  BY <1>1, <1>2, <1>3

(***************************************************************************)
(* A payment the page settles is the one it had signed and posted, however *)
(* many payments came and went on the card in between.                     *)
(***************************************************************************)
THEOREM SettlesSigned == Spec => SettlesWhatWasSigned
<1>1. ASSUME IInv, [Next]_vars
      PROVE  [\A p \in Payments :
                payment'[p] # payment[p] /\ payment[p] # None =>
                    \E c \in Calls :
                       /\ calls[c] # None
                       /\ calls[c].to = "webhook"
                       /\ calls[c].body = [txn |-> p, utr |-> "utr", signature |-> p]]_vars
  BY <1>1, SettlingStep DEF IInv
<1>2. QED
  BY <1>1, Invariance, PTL DEF Spec, SettlesWhatWasSigned
===============================================================================
