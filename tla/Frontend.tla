------------------------------- MODULE Frontend -------------------------------
(***************************************************************************)
(* The page: the script of index.html against the routes it calls.  A      *)
(* handler runs undisturbed up to each await; then other clicks and other  *)
(* answers run, and answers come back in any order.  The server is the     *)
(* ledger that PaymentGateway implements and answers a request in one      *)
(* step.  A bank reference is drawn at random for each click and settles   *)
(* at most one payment, so it is named after the payment it settles.       *)
(***************************************************************************)
EXTENDS Integers

CONSTANTS
    Calls,      \* handlers that may be at an await at the same time
    Students,   \* active students
    Owner,      \* Owner[f]: the student of invoice f
    MaxFaults,  \* bounds the requests and answers lost or cut until a reload
    Payments, Fees, Opening, Debt, ClosedAtStart, None, \* as in SettlementLedger
    Error,      \* an answer that is not ok, or none at all
    Empty       \* {}: what api() makes of an ok answer whose body cannot be read

Refs == Payments

Status == {"PENDING", "SUCCESS", "FAILED"}
Row == [fee : Fees, status : Status, ref : Refs \cup {None}]
Card == [shown : BOOLEAN, txn : Payments \cup {None}, badge : Status \cup {None}]
Profile == [student : Students, pending : SUBSET Fees]

ASSUME PageAssumption ==
    /\ Owner \in [Fees -> Students]
    /\ ClosedAtStart \subseteq Fees
    /\ MaxFaults \in Nat

(* Neither null, nor a failure, nor {} is a value the page asked for.      *)
ASSUME NoneAssumption ==
    /\ None \notin Students \cup Fees \cup Payments \cup Row \cup Status \cup {"utr"}
    /\ Error \notin Status \cup Profile \cup {None}
    /\ Empty \notin Status \cup Profile \cup Payments \cup {None, Error, "list", "utr"}

VARIABLES
    payment, settled, balance, closed, \* the server, as in SettlementLedger
    payer,       \* payer[p]: student_id of payment p
    selected,    \* studentSelect.value, None for the empty option
    listed,      \* studentSelect has its options
    student,     \* currentStudent
    pending,     \* the options of invoiceSelect
    invoice,     \* invoiceSelect.value
    open,        \* invoiceCard is not hidden
    txn,         \* currentTxn, by its transaction_id, or Empty
    card,        \* paymentCard: hidden or not, the transaction and the badge
    calls,       \* calls[c]: what handler c awaits, None when it is not running
    faults,      \* requests and answers lost or cut since the page was loaded
    overlapped   \* whether two handlers have run at the same time since then

ledger == <<payment, settled, balance, closed>>
profile == <<student, pending, invoice, open>>
vars == <<ledger, payer, selected, listed, profile, txn, card, calls, faults, overlapped>>

Ledger == INSTANCE SettlementLedger

(* The requests of the page, by route, and what an answer carries.  A      *)
(* signature is what it binds: the transaction it was made for.  A field   *)
(* that is undefined is left out of the body, or named so in the path.     *)
Await(to, body, answer) ==
    [to : {to}, body : body, answer : answer \cup {None, Error, Empty}]
Id == Payments \cup {None}
Utr == {"utr", None}
Call ==
    Await("students", {None}, {"list"})
    \cup Await("profile", Students, Profile)
    \cup Await("initiate", [student : Students, invoice : Fees], Payments)
    \cup Await("generate-utr", {None}, {"utr"})
    \cup Await("sign", [txn : Id, utr : Utr], Payments)
    \cup Await("webhook", [txn : Id, utr : Utr, signature : Id], {"SUCCESS"})
    \cup Await("payment", Id, Status)

(* And null is no request.                                                 *)
ASSUME CallAssumption == None \notin Call

-----------------------------------------------------------------------------
(* api(): a request leaves, and its handler waits.                         *)
Request(to, body) == [to |-> to, body |-> body, answer |-> None]

Quiet == \A c \in Calls : calls[c] = None

(* An event of the page starts handler c with the given request.           *)
Start(c, to, body) ==
    /\ calls[c] = None
    /\ calls' = [calls EXCEPT ![c] = Request(to, body)]
    /\ overlapped' = (overlapped \/ ~Quiet)
    /\ UNCHANGED faults

Continue(c, to, body) ==
    /\ calls' = [calls EXCEPT ![c] = Request(to, body)]
    /\ UNCHANGED <<faults, overlapped>>

Finish(c) ==
    /\ calls' = [calls EXCEPT ![c] = None]
    /\ UNCHANGED <<faults, overlapped>>

Asked(c, to) == calls[c] # None /\ calls[c].to = to /\ calls[c].answer = None

(* fetch has resolved and the answer is ok; it may be {}.                  *)
Answered(c, to) ==
    /\ calls[c] # None
    /\ calls[c].to = to
    /\ calls[c].answer \notin {None, Error}

server == <<ledger, payer>>
page == <<selected, listed, profile, txn, card>>

-----------------------------------------------------------------------------
(* The routes.                                                             *)
Reply(c, answer) ==
    /\ calls' = [calls EXCEPT ![c].answer = answer]
    /\ UNCHANGED <<page, faults, overlapped>>

(* Variant: res.ok is not looked at, and the body has none of the fields. *)
RefuseUnchecked(c) == Reply(c, Empty)

(* An answer that is not ok: api() throws, with or without a body.         *)
Refuse(c) == Reply(c, Error)

ServeStudents(c) ==
    /\ Asked(c, "students")
    /\ Reply(c, "list")
    /\ UNCHANGED server

PendingOf(s) == {f \in Fees : Owner[f] = s /\ f \notin closed}

ServeProfile(c) ==
    /\ Asked(c, "profile")
    /\ Reply(c, [student |-> calls[c].body, pending |-> PendingOf(calls[c].body)])
    /\ UNCHANGED server

AlreadySettled(f) == f \in closed \/ Debt[f] <= 0

(* The server never asks whether the invoice is the student's.             *)
ServeInitiate(c) ==
    /\ Asked(c, "initiate")
    /\ ~AlreadySettled(calls[c].body.invoice)
    /\ \E p \in Payments :
          /\ Ledger!Open(p, calls[c].body.invoice)
          /\ payer' = [payer EXCEPT ![p] = calls[c].body.student]
          /\ Reply(c, p)

(* InvoiceAlreadySettledError, or no transaction id is left in the model.  *)
RefuseInitiate(c) ==
    /\ Asked(c, "initiate")
    /\ \/ AlreadySettled(calls[c].body.invoice)
       \/ \A p \in Payments : payment[p] # None
    /\ Refuse(c)
    /\ UNCHANGED server

ServeUtr(c) ==
    /\ Asked(c, "generate-utr")
    /\ Reply(c, "utr")
    /\ UNCHANGED server

(* What the request models demand of a body.                               *)
Complete(body) == body.txn # None /\ body.utr # None

ServeSign(c) ==
    /\ Asked(c, "sign")
    /\ Complete(calls[c].body)
    /\ Reply(c, calls[c].body.txn)
    /\ UNCHANGED server

(* 422 for a body that lacks a field.                                      *)
RefuseSign(c) ==
    /\ Asked(c, "sign")
    /\ ~Complete(calls[c].body)
    /\ Refuse(c)
    /\ UNCHANGED server

(* Variant: the signature is not compared with the body. *)
VerifySignatureAny(body) == body.signature # None

VerifySignature(body) == body.signature = body.txn

Acceptable(body) ==
    /\ Complete(body)
    /\ VerifySignature(body)
    /\ payment[body.txn].status = "PENDING"

ServeWebhook(c) ==
    LET body == calls[c].body
    IN
    /\ Asked(c, "webhook")
    /\ Acceptable(body)
    /\ Ledger!Settle(body.txn, payment[body.txn].fee, body.txn)
    /\ Reply(c, "SUCCESS")
    /\ UNCHANGED payer

(* 422, WebhookSignatureError or DuplicateWebhookError.                    *)
RefuseWebhook(c) ==
    /\ Asked(c, "webhook")
    /\ ~Acceptable(calls[c].body)
    /\ Refuse(c)
    /\ UNCHANGED server

ServePayment(c) ==
    /\ Asked(c, "payment")
    /\ calls[c].body # None
    /\ Reply(c, payment[calls[c].body].status)
    /\ UNCHANGED server

(* TransactionNotFoundError: nothing is recorded under "undefined".        *)
RefusePayment(c) ==
    /\ Asked(c, "payment")
    /\ calls[c].body = None
    /\ Refuse(c)
    /\ UNCHANGED server

-----------------------------------------------------------------------------
(* The network.                                                            *)
Fault(c, answer) ==
    /\ faults < MaxFaults
    /\ faults' = faults + 1
    /\ calls' = [calls EXCEPT ![c].answer = answer]
    /\ UNCHANGED <<server, page, overlapped>>

(* The request does not reach the server, or not even the head of its      *)
(* answer the page: fetch rejects.                                         *)
Lose(c) ==
    /\ calls[c] # None
    /\ calls[c].answer \notin {Error, Empty}
    /\ Fault(c, Error)

(* The head says ok, and the body breaks off: res.json() rejects, and the  *)
(* handler goes on with {}.                                                *)
Cut(c) ==
    /\ calls[c] # None
    /\ calls[c].answer \notin {None, Error, Empty}
    /\ Fault(c, Empty)

-----------------------------------------------------------------------------
(* What the user does.                                                     *)

(* A field of an object of the page; those of {} are undefined.            *)
Field(object) == IF object = Empty THEN None ELSE object

(* The student of the dropdown changes.                                    *)
HideCard == card' = [card EXCEPT !.shown = FALSE]

(* Variants: the current transaction is kept; the student is taken over    *)
(* before its profile has come.                                            *)
ForgetTransactionNot == HideCard /\ UNCHANGED <<txn, student>>
ForgetTransactionEarly == HideCard /\ txn' = None /\ student' = selected'

ForgetTransaction == HideCard /\ txn' = None /\ UNCHANGED student

SelectStudent(c, s) ==
    /\ listed
    /\ s # selected
    /\ selected' = s
    /\ ForgetTransaction
    /\ Start(c, "profile", s)
    /\ UNCHANGED <<server, listed, pending, invoice, open>>

SelectNobody ==
    /\ selected # None
    /\ selected' = None
    /\ ForgetTransaction
    /\ open' = FALSE
    /\ UNCHANGED <<server, listed, pending, invoice, calls, faults, overlapped>>

SelectInvoice(f) ==
    /\ open
    /\ f \in pending \ {invoice}
    /\ invoice' = f
    /\ UNCHANGED <<server, selected, listed, student, pending, open, txn, card, calls,
                   faults, overlapped>>

(* Variant: the test of invoiceId is left out. *)
ChosenStudent == student # None

Chosen == student # None /\ invoice # None

InitiatePayment(c) ==
    /\ open
    /\ Chosen
    /\ Start(c, "initiate", [student |-> student, invoice |-> invoice])
    /\ UNCHANGED <<server, page>>

SimulatePaymentSuccess(c) ==
    /\ card.shown
    /\ txn # None
    /\ Start(c, "generate-utr", None)
    /\ UNCHANGED <<server, page>>

RefreshStatus(c) ==
    /\ card.shown
    /\ txn # None
    /\ Start(c, "payment", Field(txn))
    /\ UNCHANGED <<server, page>>

(* The page is loaded again; no request is travelling.                     *)
Reload(c) ==
    /\ Quiet
    /\ selected' = None /\ listed' = FALSE
    /\ student' = None /\ pending' = {} /\ invoice' = None /\ open' = FALSE
    /\ txn' = None /\ card' = [shown |-> FALSE, txn |-> None, badge |-> "PENDING"]
    /\ calls' = [calls EXCEPT ![c] = Request("students", None)]
    /\ faults' = 0 /\ overlapped' = FALSE
    /\ UNCHANGED server

-----------------------------------------------------------------------------
(* What the page does with an answer.                                      *)

ShowStudents(c) ==
    /\ Answered(c, "students")
    /\ calls[c].answer # Empty
    /\ listed' = TRUE
    /\ Finish(c)
    /\ UNCHANGED <<server, selected, profile, txn, card>>

(* currentStudent, pendingInvoices and the options change together; the    *)
(* first option, the invoice due first, is selected.                       *)
ShowProfile(c) ==
    LET shown == calls[c].answer
    IN
    /\ Answered(c, "profile")
    /\ shown # Empty
    /\ student' = shown.student
    /\ pending' = shown.pending
    /\ invoice' \in IF shown.pending = {} THEN {None} ELSE shown.pending
    /\ open' = TRUE
    /\ Finish(c)
    /\ UNCHANGED <<server, selected, listed, txn, card>>

(* {}: currentStudent and pendingInvoices become undefined and the invoice *)
(* card is shown; then reading student_name throws, before the options.    *)
ShowNoProfile(c) ==
    /\ Answered(c, "profile")
    /\ calls[c].answer = Empty
    /\ student' = None
    /\ open' = TRUE
    /\ Finish(c)
    /\ UNCHANGED <<server, selected, listed, pending, invoice, txn, card>>

CardOf(result) ==
    [shown |-> TRUE, txn |-> Field(result),
     badge |-> IF result = Empty THEN None ELSE "PENDING"]

(* Variant: the invoice leaves the list as soon as a payment is opened. *)
RenderPaymentOnce(result) ==
    /\ card' = CardOf(result)
    /\ pending' = IF result = Empty THEN pending ELSE pending \ {payment[result].fee}

RenderPayment(result) ==
    /\ card' = CardOf(result)
    /\ UNCHANGED pending

(* {} is as good a current transaction as any other.                       *)
ShowPayment(c) ==
    /\ Answered(c, "initiate")
    /\ txn' = calls[c].answer
    /\ RenderPayment(calls[c].answer)
    /\ Finish(c)
    /\ UNCHANGED <<server, selected, listed, student, invoice, open>>

(* currentTxn is read again.  If another handler has forgotten it, reading *)
(* its transaction_id throws and the handler ends in its catch.            *)
SignUtr(c) ==
    /\ Answered(c, "generate-utr")
    /\ IF txn = None
         THEN Finish(c)
         ELSE Continue(c, "sign", [txn |-> Field(txn), utr |-> Field(calls[c].answer)])
    /\ UNCHANGED <<server, page>>

(* And once more: the webhook may be for another transaction than the      *)
(* signature.                                                              *)
PostWebhook(c) ==
    /\ Answered(c, "sign")
    /\ IF txn = None
         THEN Finish(c)
         ELSE Continue(c, "webhook", [txn |-> Field(txn), utr |-> calls[c].body.utr,
                                      signature |-> Field(calls[c].answer)])
    /\ UNCHANGED <<server, page>>

SetStatusBadge(status) == card' = [card EXCEPT !.badge = status]

(* Variant: the list is not loaded again after a payment. *)
ReloadProfileNot(c) == Finish(c)

ReloadProfile(c) ==
    IF student = None THEN Finish(c) ELSE Continue(c, "profile", student)

ShowSettled(c) ==
    /\ Answered(c, "webhook")
    /\ SetStatusBadge(Field(calls[c].answer))
    /\ ReloadProfile(c)
    /\ UNCHANGED <<server, selected, listed, profile, txn>>

ShowStatus(c) ==
    /\ Answered(c, "payment")
    /\ SetStatusBadge(Field(calls[c].answer))
    /\ Finish(c)
    /\ UNCHANGED <<server, selected, listed, profile, txn>>

(* fetch or api() throws: the catch logs it, and a profile asked for by a  *)
(* change of student is dropped without one.  {} has no map to list the    *)
(* students with.                                                          *)
CatchError(c) ==
    /\ calls[c] # None
    /\ \/ calls[c].answer = Error
       \/ calls[c].to = "students" /\ calls[c].answer = Empty
    /\ Finish(c)
    /\ UNCHANGED <<server, page>>

-----------------------------------------------------------------------------
Init ==
    /\ Ledger!Init
    /\ payer = [p \in Payments |-> None]
    /\ selected = None /\ listed = FALSE
    /\ student = None /\ pending = {} /\ invoice = None /\ open = FALSE
    /\ txn = None /\ card = [shown |-> FALSE, txn |-> None, badge |-> "PENDING"]
    /\ \E c \in Calls :
          calls = [d \in Calls |-> IF d = c THEN Request("students", None) ELSE None]
    /\ faults = 0 /\ overlapped = FALSE

Serve(c) ==
    \/ ServeStudents(c) \/ ServeProfile(c)
    \/ ServeInitiate(c) \/ RefuseInitiate(c)
    \/ ServeUtr(c) \/ ServeSign(c) \/ RefuseSign(c)
    \/ ServeWebhook(c) \/ RefuseWebhook(c)
    \/ ServePayment(c) \/ RefusePayment(c)

Resume(c) ==
    \/ ShowStudents(c) \/ ShowProfile(c) \/ ShowNoProfile(c) \/ ShowPayment(c)
    \/ SignUtr(c) \/ PostWebhook(c) \/ ShowSettled(c) \/ ShowStatus(c)
    \/ CatchError(c)

Next ==
    \/ \E c \in Calls :
          \/ Serve(c) \/ Resume(c) \/ Lose(c) \/ Cut(c)
          \/ \E s \in Students : SelectStudent(c, s)
          \/ InitiatePayment(c) \/ SimulatePaymentSuccess(c) \/ RefreshStatus(c)
          \/ Reload(c)
    \/ SelectNobody
    \/ \E f \in Fees : SelectInvoice(f)

Spec == Init /\ [][Next]_vars

-----------------------------------------------------------------------------
TypeOK ==
    /\ payment \in [Payments -> Row \cup {None}]
    /\ payer \in [Payments -> Students \cup {None}]
    /\ closed \subseteq Fees
    /\ selected \in Students \cup {None}
    /\ listed \in BOOLEAN
    /\ student \in Students \cup {None}
    /\ pending \subseteq Fees
    /\ invoice \in Fees \cup {None}
    /\ open \in BOOLEAN
    /\ txn \in Payments \cup {None, Empty}
    /\ card \in Card
    /\ calls \in [Calls -> Call \cup {None}]
    /\ faults \in 0 .. MaxFaults
    /\ overlapped \in BOOLEAN

(***************************************************************************)
(* A payment is recorded for the student who owes its invoice.  The server *)
(* does not compare them: it is the page that never offers one student's   *)
(* invoice in the name of another, whatever profiles are still to come.    *)
(***************************************************************************)
PayersAreOwners == \A p \in Payments : payment[p] # None => payer[p] = Owner[payment[p].fee]

(* The payment card is on the page exactly while there is a current        *)
(* transaction, and shows its id, which is one the server knows.           *)
CardFollowsTransaction ==
    /\ card.shown = (txn # None)
    /\ card.shown => card.txn = Field(txn)
    /\ Field(txn) # None => payment[txn] # None

(***************************************************************************)
(* The payment card follows the current transaction, and shows one without *)
(* an id, undefined at index.html:252, only after a fault of the network.  *)
(***************************************************************************)
CardIsOfTransaction ==
    /\ CardFollowsTransaction
    /\ txn = Empty => faults # 0

(***************************************************************************)
(* Late answers may show an invoice that has been paid since, never hide   *)
(* one that is still owed by the student on the page.                      *)
(***************************************************************************)
NoDebtIsHidden ==
    \A f \in Fees : student # None /\ Owner[f] = student /\ f \notin closed => f \in pending

(* The list is the current student's, and the selected invoice is one of   *)
(* the list.  After a profile without a student the list of the last one   *)
(* stays, and nothing can be paid from it.                                 *)
ListIsOwn ==
    /\ student # None => \A f \in pending : Owner[f] = student
    /\ invoice # None => invoice \in pending

(* What travels is true, or was when the server sent it: a profile is the  *)
(* student's own and misses nothing that is owed, a payment to open is for *)
(* the owner of its invoice, and a payment that is named is recorded.      *)
ProfileIsTrue(a) ==
    /\ \A f \in a.pending : Owner[f] = a.student
    /\ \A f \in Fees : Owner[f] = a.student /\ f \notin closed => f \in a.pending

CallIsTrue(k) ==
    /\ k.to = "profile" /\ k.answer \notin {None, Error, Empty} => ProfileIsTrue(k.answer)
    /\ k.to = "initiate" => k.body.student = Owner[k.body.invoice]
    /\ k.to = "initiate" /\ k.answer \notin {None, Error, Empty} => payment[k.answer] # None
    /\ k.to = "payment" /\ k.body # None => payment[k.body] # None

CallsAreTrue == \A c \in Calls : calls[c] # None => CallIsTrue(calls[c])

(* What holds whatever the user does and however late an answer comes.     *)
Lasting ==
    /\ TypeOK
    /\ PayersAreOwners
    /\ CardFollowsTransaction
    /\ NoDebtIsHidden
    /\ ListIsOwn
    /\ CallsAreTrue

(* Before the first fault no answer is {} and no request lacks a field, an *)
(* id, a bank reference or a signature: what is undefined came from        *)
(* index.html:176, and loading the page again ends it.                     *)
IsComplete(k) ==
    /\ k.to \in {"sign", "webhook"} => Complete(k.body)
    /\ k.to = "webhook" => k.body.signature # None
    /\ k.to = "payment" => k.body # None

NothingIsUndefined ==
    faults = 0 =>
        /\ txn # Empty
        /\ \A c \in Calls : calls[c] # None => calls[c].answer # Empty /\ IsComplete(calls[c])

(* The page shows what the server has, of the student who is selected.     *)
StatusIsShown == card.shown => card.badge = payment[txn].status

ListIsShown == student # None => pending = PendingOf(student)

SelectionIsShown == selected # None => student = selected

(* A user who starts nothing before the last answer has come, none of      *)
(* which is lost or cut.                                                   *)
Patient == ~overlapped /\ faults = 0

(* The one request of a patient user.  Its answer is what the server has   *)
(* now, and is about what the page shows now, if it has not been put away. *)
CallIsFresh(k) ==
    /\ k.to = "profile" =>
          /\ selected \in {None, k.body}
          /\ k.answer \in {None, [student |-> k.body, pending |-> PendingOf(k.body)]}
    /\ k.to = "initiate" /\ k.answer \notin {None, Error, Empty} =>
          payment[k.answer].status = "PENDING"
    /\ k.to = "payment" =>
          /\ txn \in {None, k.body}
          /\ k.answer \in {None, payment[k.body].status}
    /\ k.to = "webhook" =>
          /\ txn \in {None, k.body.txn}
          /\ k.answer = "SUCCESS" => payment[k.body.txn].status = "SUCCESS"

(* The two ways in which the page may be behind: it has not yet taken over *)
(* that its payment is settled, or a profile it has asked for.             *)
Settling(k) == k.to = "webhook" /\ k.answer = "SUCCESS"
Reloading(k) == k.to = "profile"

FreshWhilePatient ==
    Patient =>
        /\ \A c, d \in Calls : calls[c] # None /\ calls[d] # None => c = d
        /\ \A c \in Calls : calls[c] # None => CallIsFresh(calls[c])
        /\ StatusIsShown \/ \E c \in Calls : calls[c] # None /\ Settling(calls[c])
        /\ ListIsShown \/ \E c \in Calls :
              calls[c] # None /\ (Settling(calls[c]) \/ Reloading(calls[c]))
        /\ SelectionIsShown \/ \E c \in Calls : calls[c] # None /\ Reloading(calls[c])

(* The inductive invariant.                                                *)
IInv == Lasting /\ NothingIsUndefined /\ FreshWhilePatient

AllAnswered == Quiet /\ faults = 0

(***************************************************************************)
(* Steps 2 to 6 of the offline walk-through: a user who waits for each     *)
(* answer, none of them lost or cut, always sees the state of the server.  *)
(***************************************************************************)
PatientUserIsUpToDate ==
    AllAnswered /\ ~overlapped => StatusIsShown /\ ListIsShown /\ SelectionIsShown

(***************************************************************************)
(* A click settles the payment it had signed: whatever transactions come   *)
(* and go on the card between the three requests, a payment the server     *)
(* settles was the current one both when its signature was asked for and   *)
(* when its webhook was sent.                                              *)
(***************************************************************************)
SettlesWhatWasSigned ==
    [][\A p \in Payments :
          payment'[p] # payment[p] /\ payment[p] # None =>
              \E c \in Calls :
                 /\ calls[c] # None
                 /\ calls[c].to = "webhook"
                 /\ calls[c].body = [txn |-> p, utr |-> "utr", signature |-> p]]_vars

-----------------------------------------------------------------------------
(* README.md:839, "UI refreshes: transaction badge turns green, invoice    *)
(* drops off the pending list": once every answer has come, badge and list *)
(* are those of the server.                                                *)
UiRefreshes == AllAnswered => StatusIsShown /\ ListIsShown
===============================================================================
