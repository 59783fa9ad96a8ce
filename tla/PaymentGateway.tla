---------------------------- MODULE PaymentGateway ----------------------------
(***************************************************************************)
(* The payment core: PaymentService.initiate_payment and                   *)
(* PaymentService.reconcile_webhook, run by concurrent request threads     *)
(* (FastAPI runs the synchronous route handlers on a thread pool) over the *)
(* two Oracle tables FEE_INVOICES and PAYMENT_TRANSACTIONS.                *)
(*                                                                         *)
(* A step is one database statement or one remote call, the points at      *)
(* which threads interleave.  `invoice' and `txns' are the COMMITTED rows. *)
(* What an open session has written but not committed, and the row and     *)
(* index locks it holds, follow from how far its thread has come (pc), so  *)
(* they are operators and not variables.                                   *)
(***************************************************************************)
EXTENDS Integers, FiniteSets

CONSTANTS
    Workers,    \* threads of the server's pool, one request each
    Invoices,   \* invoice_id of every row of FEE_INVOICES
    Students,   \* student_id of every row of STUDENTS
    TxnIds,     \* the transaction ids uuid4 may yet produce (bounds the run)
    Utrs,       \* bank references webhooks carry, None for an empty one
    Modes,      \* the payment modes clients ask for
    MaxAmount,  \* largest value of a NUMBER(12,2) column, in coarse units
    Seed,       \* the FEE_INVOICES rows before the first request
    None        \* SQL NULL, Python None, "no such row"

PaymentModes == {"UPI_QR", "UPI_ID", "NET_BANKING"}
PaymentStatus == {"PENDING", "SUCCESS", "FAILED"}
InvoiceStatus == {"PENDING", "PARTIAL", "PAID", "CANCELLED"}
Amounts == 0 .. MaxAmount

(***************************************************************************)
(* A seeded row is one the schema accepts and whose status describes its   *)
(* balance, as the rows of 02_seed_sample_data.sql do.                     *)
(***************************************************************************)
SeedRow == [due : Amounts, paid : Amounts, status : InvoiceStatus]

WellSeeded(r) ==
    \/ r.status = "PENDING"   /\ r.paid = 0
    \/ r.status = "PARTIAL"   /\ r.paid > 0 /\ r.paid < r.due
    \/ r.status = "PAID"      /\ r.paid >= r.due
    \/ r.status = "CANCELLED" /\ r.paid < r.due

ASSUME ModesAssumption == Modes \subseteq PaymentModes
ASSUME AmountAssumption == MaxAmount \in Nat
ASSUME SeedAssumption ==
    /\ Seed \in [Invoices -> SeedRow]
    /\ \A i \in Invoices : WellSeeded(Seed[i])

VARIABLES
    invoice,  \* invoice[i]: amount_paid and invoice_status of the committed row
    txns,     \* txns[t]: the committed PAYMENT_TRANSACTIONS row, None before it
    pc,       \* pc[w]: the next statement of thread w
    draft,    \* draft[w]: the row initiate_payment is about to insert
    msg,      \* msg[w]: the webhook body reconcile_webhook works on
    seen,     \* seen[w]: amount_paid as read by apply_payment_in_session
    qrSent,   \* transaction ids the QR microservice rendered a code for
    reply     \* the last answer a client got

db == <<invoice, txns>>
vars == <<invoice, txns, pc, draft, msg, seen, qrSent, reply>>

Row == [invoice : Invoices, student : Students, amount : Amounts,
        status : PaymentStatus, utr : Utrs \cup {None}]
Draft == [txn : TxnIds, invoice : Invoices, student : Students, amount : Amounts]
Message == [txn : TxnIds, utr : Utrs, status : {"SUCCESS", "FAILED"}]

(* A row as SettlementLedger sees it. *)
LedgerRow == [fee : Invoices, status : PaymentStatus, ref : Utrs \cup {None}]

(* NULL is no id, no status and no row; uuid4 has finitely many values. *)
ASSUME NoneAssumption ==
    /\ None \notin Students \cup Invoices \cup TxnIds \cup PaymentStatus
    /\ None \notin Row
    /\ None \notin LedgerRow
ASSUME TxnIdsAssumption == IsFiniteSet(TxnIds)

InitiatePc == {"qr", "insert"}
LockedPc == {"updateTxn", "readInvoice", "updateInvoice", "commit"}
SessionPc == {"lockTxn"} \cup LockedPc

(* Answers claim something about a row, or only say why nothing was done.  *)
Claim ==
    [code : {"INITIATED", "RECONCILED", "PAY-409-DUP"}, about : TxnIds,
     status : {"SUCCESS", "FAILED", None}, utr : Utrs \cup {None}]
    \cup [code : {"PAY-409-INV"}, about : Invoices, status : {None}, utr : {None}]
Excuse ==
    [code : {"PAY-404-STU", "PAY-404-INV", "PAY-404-TXN", "PAY-401-SIG",
             "PAY-422-VAL", "DB-003", "HTTP-500"},
     about : {None}, status : {None}, utr : {None}]
Reply == Claim \cup Excuse

-----------------------------------------------------------------------------
(* Answers to the client. *)

Refusal(code, about) ==
    [code |-> code, about |-> about, status |-> None, utr |-> None]
Initiated(t) ==
    [code |-> "INITIATED", about |-> t, status |-> None, utr |-> None]
Reconciled(m) ==
    [code |-> "RECONCILED", about |-> m.txn, status |-> m.status, utr |-> m.utr]

(* The handler returns r to its client and the thread goes back to the pool. *)
Answer(w, r) ==
    /\ pc' = [pc EXCEPT ![w] = "idle"]
    /\ draft' = [draft EXCEPT ![w] = None]
    /\ msg' = [msg EXCEPT ![w] = None]
    /\ seen' = [seen EXCEPT ![w] = 0]
    /\ reply' = r

Goto(w, next) == pc' = [pc EXCEPT ![w] = next]

-----------------------------------------------------------------------------
(***************************************************************************)
(* initiate_payment.  STUDENTS and the request are immutable, so arrival,  *)
(* the student lookup and the invoice lookup are one step: the read of the *)
(* committed invoice row.  The row is not locked; the checks are made on   *)
(* the copy read here and the insert comes later.                          *)
(***************************************************************************)
(* Variant: amount_paid is not subtracted. *)
OutstandingForgetsPaid(i) == Seed[i].due

Outstanding(i) == Seed[i].due - invoice[i].paid

Settled(i) == invoice[i].status = "PAID" \/ Outstanding(i) <= 0

(* uuid4 never repeats an id, used or about to be. *)
FreshTxnId(t) ==
    /\ txns[t] = None
    /\ t \notin qrSent
    /\ \A v \in Workers : pc[v] \in InitiatePc => draft[v].txn # t

RefuseInitiate(w, s, i) ==
    /\ pc[w] = "idle"
    /\ \/ Answer(w, Refusal("DB-003", None))  \* a lookup fails
       \/ s = None /\ Answer(w, Refusal("PAY-404-STU", None))
       \/ s # None /\ i = None /\ Answer(w, Refusal("PAY-404-INV", None))
       \/ /\ s # None /\ i # None /\ Settled(i)
          /\ Answer(w, Refusal("PAY-409-INV", i))
    /\ UNCHANGED <<db, qrSent>>

AcceptInitiate(w, s, i, mode, t) ==
    /\ pc[w] = "idle"
    /\ ~Settled(i)
    /\ FreshTxnId(t)
    /\ draft' = [draft EXCEPT ![w] = [txn |-> t, invoice |-> i, student |-> s,
                                      amount |-> Outstanding(i)]]
    /\ Goto(w, IF mode = "UPI_QR" THEN "qr" ELSE "insert")
    /\ UNCHANGED <<db, msg, seen, qrSent, reply>>

(***************************************************************************)
(* QrServiceClient.generate_qr: the microservice is called before the row  *)
(* exists.  It renders a code or not; after an answer, an error status, a  *)
(* timeout or a refused connection the handler goes on to the insert.      *)
(***************************************************************************)
CallQrService(w, rendered) ==
    /\ pc[w] = "qr"
    /\ qrSent' = IF rendered THEN qrSent \cup {draft[w].txn} ELSE qrSent
    /\ Goto(w, "insert")
    /\ UNCHANGED <<db, draft, msg, seen, reply>>

NewRow(d) == [invoice |-> d.invoice, student |-> d.student, amount |-> d.amount,
              status |-> "PENDING", utr |-> None]

(***************************************************************************)
(* PaymentRepository.create in a session of its own.  When the connection  *)
(* breaks after Oracle committed, the row exists and the client is told    *)
(* DB-003 (acknowledged = FALSE).                                          *)
(***************************************************************************)
InsertTxn(w, acknowledged) ==
    /\ pc[w] = "insert"
    /\ txns' = [txns EXCEPT ![draft[w].txn] = NewRow(draft[w])]
    /\ Answer(w, IF acknowledged THEN Initiated(draft[w].txn)
                                 ELSE Refusal("DB-003", None))
    /\ UNCHANGED <<invoice, qrSent>>

-----------------------------------------------------------------------------
(***************************************************************************)
(* reconcile_webhook.  The status is validated and the HMAC checked before *)
(* the session opens.  The HMAC is taken over "txn|utr|status"; neither an *)
(* id nor a status contains the separator, so the text determines its      *)
(* three parts.  None is a string that signs nothing.                      *)
(***************************************************************************)
SignPayload(m) == <<m.txn, m.utr, m.status>>

VerifySignature(m, signature) == signature = SignPayload(m)

SupportedStatus(m) == m.status \in {"SUCCESS", "FAILED"}

RefuseWebhook(w, m, signature) ==
    /\ pc[w] = "idle"
    /\ \/ /\ ~SupportedStatus(m)
          /\ Answer(w, Refusal("PAY-422-VAL", None))
       \/ /\ SupportedStatus(m)
          /\ ~VerifySignature(m, signature)
          /\ Answer(w, Refusal("PAY-401-SIG", None))
    /\ UNCHANGED <<db, qrSent>>

AcceptWebhook(w, m, signature) ==
    /\ pc[w] = "idle"
    /\ SupportedStatus(m)
    /\ VerifySignature(m, signature)
    /\ msg' = [msg EXCEPT ![w] = m]
    /\ Goto(w, "lockTxn")
    /\ UNCHANGED <<db, draft, seen, qrSent, reply>>

(***************************************************************************)
(* Locks.  SELECT ... FOR UPDATE and UPDATE keep the row lock, and an      *)
(* UPDATE of a unique column keeps the index entry, until the session      *)
(* commits or rolls back; a second session that needs it waits.            *)
(***************************************************************************)
(* Variants: sess.get without with_for_update; a unique index that two *)
(* uncommitted rows may share.                                          *)
HoldsTxnLockPlainRead(v, t) == FALSE
HoldsUtrNotYet(v, u) == FALSE

HoldsTxnLock(v, t) == pc[v] \in LockedPc /\ msg[v].txn = t
HoldsUtr(v, u) == pc[v] \in LockedPc \ {"updateTxn"} /\ msg[v].utr = u

(* Variant: the read takes a share lock, which the UPDATE has to upgrade. *)
HoldsInvoiceLockShared(v, i) ==
    /\ pc[v] \in {"updateInvoice", "commit"}
    /\ msg[v].status = "SUCCESS"
    /\ txns[msg[v].txn].invoice = i

HoldsInvoiceLock(v, i) ==
    /\ pc[v] = "commit"
    /\ msg[v].status = "SUCCESS"
    /\ txns[msg[v].txn].invoice = i

(***************************************************************************)
(* get_for_update_in_session.  An unknown or already settled transaction   *)
(* ends the session at once, its lock with it; the error is raised after   *)
(* the session has committed nothing.                                      *)
(***************************************************************************)
LockTxn(w) ==
    LET t == msg[w].txn IN
    /\ pc[w] = "lockTxn"
    /\ \A v \in Workers \ {w} : ~HoldsTxnLock(v, t)
    /\ \/ txns[t] = None /\ Answer(w, Refusal("PAY-404-TXN", None))
       \/ /\ txns[t] # None /\ txns[t].status # "PENDING"
          /\ Answer(w, Refusal("PAY-409-DUP", t))
       \/ /\ txns[t] # None /\ txns[t].status = "PENDING"
          /\ Goto(w, "updateTxn")
          /\ UNCHANGED <<draft, msg, seen, reply>>
    /\ UNCHANGED <<db, qrSent>>

(***************************************************************************)
(* update_status_in_session: the flush sends the UPDATE.  uq_txn_bank_ref  *)
(* refuses a bank reference that another committed row carries; the        *)
(* session rolls back and the client is told DB-003.  An empty reference   *)
(* is not written.                                                         *)
(***************************************************************************)
UtrTaken(u) == u # None /\ \E t \in TxnIds : txns[t] # None /\ txns[t].utr = u

UpdateTxn(w) ==
    /\ pc[w] = "updateTxn"
    /\ msg[w].utr # None => \A v \in Workers \ {w} : ~HoldsUtr(v, msg[w].utr)
    /\ \/ /\ UtrTaken(msg[w].utr)
          /\ Answer(w, Refusal("DB-003", None))
       \/ /\ ~UtrTaken(msg[w].utr)
          /\ Goto(w, IF msg[w].status = "SUCCESS" THEN "readInvoice" ELSE "commit")
          /\ UNCHANGED <<draft, msg, seen, reply>>
    /\ UNCHANGED <<db, qrSent>>

(***************************************************************************)
(* apply_payment_in_session.  sess.get reads the last committed invoice    *)
(* row without locking it; the flush then writes the sum computed from     *)
(* that copy.  NUMBER(12,2) refuses a sum it cannot hold.                  *)
(***************************************************************************)
ReadInvoice(w) ==
    /\ pc[w] = "readInvoice"
    /\ seen' = [seen EXCEPT ![w] = invoice[txns[msg[w].txn].invoice].paid]
    /\ Goto(w, "updateInvoice")
    /\ UNCHANGED <<db, draft, msg, qrSent, reply>>

NewPaid(w) == seen[w] + txns[msg[w].txn].amount

(* Variant: a column without precision. *)
FitsUnboundedColumn(n) == TRUE

FitsColumn(n) == n <= MaxAmount

UpdateInvoice(w) ==
    /\ pc[w] = "updateInvoice"
    /\ \A v \in Workers \ {w} : ~HoldsInvoiceLock(v, txns[msg[w].txn].invoice)
    /\ \/ /\ ~FitsColumn(NewPaid(w))
          /\ Answer(w, Refusal("DB-003", None))
       \/ /\ FitsColumn(NewPaid(w))
          /\ Goto(w, "commit")
          /\ UNCHANGED <<draft, msg, seen, reply>>
    /\ UNCHANGED <<db, qrSent>>

(* Variant: `>' for `>='. *)
CreditedWhenExceeded(row, due, paid) ==
    [paid |-> paid,
     status |-> IF paid > due THEN "PAID"
                ELSE IF paid > 0 THEN "PARTIAL" ELSE row.status]

(* The row as apply_payment_in_session leaves it when it has read `paid'. *)
Credited(row, due, paid) ==
    [paid |-> paid,
     status |-> IF paid >= due THEN "PAID"
                ELSE IF paid > 0 THEN "PARTIAL" ELSE row.status]

(* Variant: update_status_in_session forgets payment_status. *)
SettledRowKeepsStatus(row, m) == [row EXCEPT !.utr = m.utr]

SettledRow(row, m) == [row EXCEPT !.status = m.status, !.utr = m.utr]

(***************************************************************************)
(* DatabaseManager.session commits on normal exit: both rows change in one *)
(* step.  A connection that breaks after Oracle committed makes the client *)
(* see DB-003 for a payment that is settled.                               *)
(***************************************************************************)
Commit(w, acknowledged) ==
    LET m == msg[w]
        i == txns[m.txn].invoice
    IN
    /\ pc[w] = "commit"
    /\ txns' = [txns EXCEPT ![m.txn] = SettledRow(@, m)]
    /\ invoice' = IF m.status = "SUCCESS"
                  THEN [invoice EXCEPT ![i] = Credited(@, Seed[i].due, NewPaid(w))]
                  ELSE invoice
    /\ Answer(w, IF acknowledged THEN Reconciled(m) ELSE Refusal("DB-003", None))
    /\ UNCHANGED qrSent

-----------------------------------------------------------------------------
(***************************************************************************)
(* Failures.  Any statement may fail: session() rolls back, which undoes   *)
(* the uncommitted writes and frees the locks, and wraps the exception in  *)
(* DatabaseQueryError (HTTP 500).  Of the QR call only the failures        *)
(* QrServiceClient knows are caught: an answer 200 without the expected    *)
(* fields ends the request before the insert.                              *)
(***************************************************************************)
StatementFails(w) ==
    /\ \/ /\ pc[w] \in SessionPc \cup {"insert"}
          /\ Answer(w, Refusal("DB-003", None))
       \/ /\ pc[w] = "qr"
          /\ Answer(w, Refusal("HTTP-500", None))
    /\ UNCHANGED <<db, qrSent>>

(* The server process dies: Oracle rolls every open session back. *)
Crash ==
    /\ \E w \in Workers : pc[w] # "idle"
    /\ pc' = [w \in Workers |-> "idle"]
    /\ draft' = [w \in Workers |-> None]
    /\ msg' = [w \in Workers |-> None]
    /\ seen' = [w \in Workers |-> 0]
    /\ UNCHANGED <<db, qrSent, reply>>

-----------------------------------------------------------------------------
Init ==
    /\ invoice = [i \in Invoices |-> [paid |-> Seed[i].paid, status |-> Seed[i].status]]
    /\ txns = [t \in TxnIds |-> None]
    /\ pc = [w \in Workers |-> "idle"]
    /\ draft = [w \in Workers |-> None]
    /\ msg = [w \in Workers |-> None]
    /\ seen = [w \in Workers |-> 0]
    /\ qrSent = {}
    /\ reply = None

(* Bodies a client may post: pydantic checks only that the fields are text. *)
Body == [txn : TxnIds, utr : Utrs,
         status : {"SUCCESS", "FAILED", "PENDING"}]

(* A body or payment mode that FastAPI or the route refuses with 422 never *)
(* reaches the service and is not a request here.                          *)
InitiateRequest(w) ==
    \/ \E s \in Students \cup {None}, i \in Invoices \cup {None} :
          RefuseInitiate(w, s, i)
    \/ \E s \in Students, i \in Invoices, mode \in Modes, t \in TxnIds :
          AcceptInitiate(w, s, i, mode, t)

WebhookRequest(w) ==
    \E m \in Body : \E signature \in {SignPayload(m), None} :
        RefuseWebhook(w, m, signature) \/ AcceptWebhook(w, m, signature)

(* The steps of a request already accepted. *)
Proceed(w) ==
    \/ \E rendered \in BOOLEAN : CallQrService(w, rendered)
    \/ \E acknowledged \in BOOLEAN : InsertTxn(w, acknowledged)
    \/ LockTxn(w)
    \/ UpdateTxn(w)
    \/ ReadInvoice(w)
    \/ UpdateInvoice(w)
    \/ \E acknowledged \in BOOLEAN : Commit(w, acknowledged)

Next ==
    \/ \E w \in Workers : \/ InitiateRequest(w)
                          \/ WebhookRequest(w)
                          \/ Proceed(w)
                          \/ StatementFails(w)
    \/ Crash

Spec == Init /\ [][Next]_vars

(***************************************************************************)
(* Fairness.  A request thread that can run its next statement does; Oracle *)
(* queues the waiters of a row or index lock first come first served, so a *)
(* lock that is freed again and again is eventually granted.               *)
(***************************************************************************)
Fairness ==
    \A w \in Workers :
        /\ WF_vars(Proceed(w))
        /\ SF_vars(LockTxn(w))
        /\ SF_vars(UpdateTxn(w))
        /\ SF_vars(UpdateInvoice(w))

FairSpec == Spec /\ Fairness

-----------------------------------------------------------------------------
Recorded(t) == txns[t] # None
Succeeded(t) == Recorded(t) /\ txns[t].status = "SUCCESS"
Successes(i) == {t \in TxnIds : Succeeded(t) /\ txns[t].invoice = i}
Paid(i) == invoice[i].status = "PAID" /\ invoice[i].paid >= Seed[i].due
OpeningDebt(i) == Seed[i].due - Seed[i].paid

(* Type invariant; the columns of both tables hold what the schema allows. *)
TypeOK ==
    /\ invoice \in [Invoices -> [paid : Amounts, status : InvoiceStatus]]
    /\ txns \in [TxnIds -> Row \cup {None}]
    /\ pc \in [Workers -> {"idle"} \cup InitiatePc \cup SessionPc]
    /\ draft \in [Workers -> Draft \cup {None}]
    /\ msg \in [Workers -> Message \cup {None}]
    /\ seen \in [Workers -> Amounts]
    /\ qrSent \in SUBSET TxnIds
    /\ reply \in Reply \cup {None}

(***************************************************************************)
(* A transaction marked SUCCESS has settled its invoice: the invoice is    *)
(* PAID and its balance covers the amount due, whatever other webhooks     *)
(* read and overwrote in between (reconcile_webhook commits both rows, and *)
(* initiate_payment only ever asks for the whole outstanding amount).      *)
(***************************************************************************)
SuccessImpliesPaid ==
    \A t \in TxnIds : Succeeded(t) => Paid(txns[t].invoice)

(***************************************************************************)
(* An invoice is either as it was before the first payment or PAID in      *)
(* full: apply_payment_in_session never leaves a PARTIAL balance behind,   *)
(* and every recorded transaction asks for exactly the opening debt, even  *)
(* when it was priced from a copy of the invoice that has changed since.   *)
(***************************************************************************)
NothingIsPaidInPart ==
    /\ \A i \in Invoices :
          \/ invoice[i] = [paid |-> Seed[i].paid, status |-> Seed[i].status]
          \/ Paid(i)
    /\ \A t \in TxnIds : Recorded(t) =>
          /\ txns[t].amount = OpeningDebt(txns[t].invoice)
          /\ txns[t].amount > 0

(***************************************************************************)
(* The balance never shows money no transaction brought: a webhook that is *)
(* delivered again, or twice at once, does not credit its amount again.    *)
(***************************************************************************)
Backed(i, n) ==
    \E k \in 0 .. Cardinality(Successes(i)) : n = Seed[i].paid + k * OpeningDebt(i)

EveryCreditIsBacked == \A i \in Invoices : Backed(i, invoice[i].paid)

(***************************************************************************)
(* What a client is told is true: a reconciled transaction has the         *)
(* reported status and bank reference, an initiated one is on record, a    *)
(* webhook called a duplicate was for a settled transaction, an invoice    *)
(* called settled owes nothing.                                            *)
(***************************************************************************)
AnswerHolds(r) ==
    /\ r.code = "INITIATED" => Recorded(r.about)
    /\ r.code = "RECONCILED" =>
          /\ Recorded(r.about)
          /\ txns[r.about].status = r.status
          /\ txns[r.about].utr = r.utr
    /\ r.code = "PAY-409-DUP" =>
          Recorded(r.about) /\ txns[r.about].status # "PENDING"
    /\ r.code = "PAY-409-INV" => Settled(r.about)

AnswersAreTrue == reply # None => AnswerHolds(reply)

(* And it stays true whatever other clients do: no step makes false an     *)
(* answer that initiate_payment or reconcile_webhook could truly have given. *)
AnswersStayTrue == [][\A r \in Claim : AnswerHolds(r) => AnswerHolds(r)']_vars

(***************************************************************************)
(* The two tables, seen alone, behave as the ledger of SettlementLedger.   *)
(***************************************************************************)
LedgerView(t) ==
    IF Recorded(t)
    THEN [fee |-> txns[t].invoice, status |-> txns[t].status, ref |-> txns[t].utr]
    ELSE None

Ledger == INSTANCE SettlementLedger WITH
    Payments <- TxnIds,
    Fees <- Invoices,
    Refs <- Utrs,
    Opening <- [i \in Invoices |-> Seed[i].paid],
    Debt <- [i \in Invoices |-> OpeningDebt(i)],
    ClosedAtStart <- {i \in Invoices : Seed[i].status = "PAID"},
    payment <- [t \in TxnIds |-> LedgerView(t)],
    settled <- [i \in Invoices |-> Cardinality(Successes(i))],
    balance <- [i \in Invoices |-> invoice[i].paid],
    closed <- {i \in Invoices : invoice[i].status = "PAID"}

(* Every step of the threads on the tables is a step of that ledger, or    *)
(* leaves them alone: initiate_payment opens, reconcile_webhook settles or *)
(* fails, and nothing else ever touches a row.                             *)
ImplementsLedger == Ledger!Spec

(***************************************************************************)
(* Every accepted request is answered: no thread waits for ever for a row  *)
(* or index lock, and neither a QR microservice that keeps failing nor a   *)
(* failed statement keeps a request from its answer.                       *)
(***************************************************************************)
EveryRequestIsAnswered ==
    \A w \in Workers : pc[w] # "idle" ~> pc[w] = "idle"

-----------------------------------------------------------------------------
(***************************************************************************)
(* What the repository's documents say and the code does not do.           *)
(***************************************************************************)

(* README.md:121, "atomically updates both the transaction and the invoice *)
(* balance": the committed balance is the opening one and what every       *)
(* successful transaction brought.                                         *)
BalanceIsSumOfSuccesses ==
    \A i \in Invoices :
        invoice[i].paid = Seed[i].paid + Cardinality(Successes(i)) * OpeningDebt(i)

(* README.md:943, "duplicate-webhook rejection to prevent double-crediting": *)
(* no credit takes an invoice beyond its amount_due.                       *)
NoDoubleCredit ==
    \A i \in Invoices : invoice[i].paid <= Seed[i].due \/ invoice[i].paid = Seed[i].paid
===============================================================================
