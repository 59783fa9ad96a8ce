------------------------- MODULE PaymentGatewayProofs -------------------------
EXTENDS PaymentCauses, FiniteSetTheorems, TLAPS

(* Every answer the handlers compose is one of the declared replies. *)
LEMMA AnswersAreReplies ==
  /\ \A code \in {"PAY-404-STU", "PAY-404-INV", "PAY-404-TXN", "PAY-401-SIG",
                  "PAY-422-VAL", "DB-003", "HTTP-500"} : Refusal(code, None) \in Reply
  /\ \A i \in Invoices : Refusal("PAY-409-INV", i) \in Reply
  /\ \A t \in TxnIds : Refusal("PAY-409-DUP", t) \in Reply
  /\ \A t \in TxnIds : Initiated(t) \in Reply
  /\ \A m \in Message : Reconciled(m) \in Reply
BY DEF Refusal, Initiated, Reconciled, Reply, Claim, Excuse, Message

(* A request that is answered without touching the tables leaves no trace. *)
LEMMA AnswerKeepsShape ==
  ASSUME Shape, NEW w \in Workers, NEW r \in Reply, Answer(w, r), UNCHANGED <<db, qrSent>>
  PROVE  Shape'
<1> USE NoneAssumption DEF Answer, Shape, db
<1> USE DEF InitiatePc, LockedPc, SessionPc
<1>1. TypeOK'
  BY AmountAssumption DEF TypeOK, Amounts
<1>2. DraftsAreNew'
  BY DEF TypeOK, DraftsAreNew
<1>3. SessionsAreTyped'
  BY DEF TypeOK, SessionsAreTyped, Recorded, NewPaid
<1>4. QED
  BY <1>1, <1>2, <1>3

(* Every statement keeps the columns typed, the drafts new and the open *)
(* sessions on a recorded row.                                          *)
LEMMA ShapeStep ==
  ASSUME Shape, [Next]_vars
  PROVE  Shape'
<1> USE ModesAssumption, AmountAssumption, SeedAssumption, NoneAssumption
        DEF Shape, TypeOK, DraftsAreNew, SessionsAreTyped, Recorded, db
<1> USE DEF InitiatePc, LockedPc, SessionPc, Row, Draft, Message, Amounts
<1>1. ASSUME NEW w \in Workers, NEW s \in Students \cup {None},
             NEW i \in Invoices \cup {None}, RefuseInitiate(w, s, i)
      PROVE  Shape'
  <2>1. PICK r \in Reply : Answer(w, r) /\ UNCHANGED <<db, qrSent>>
    BY <1>1, AnswersAreReplies DEF RefuseInitiate
  <2>2. QED
    BY <2>1, AnswerKeepsShape
<1>2. ASSUME NEW w \in Workers, NEW s \in Students, NEW i \in Invoices,
             NEW mode \in Modes, NEW t \in TxnIds, AcceptInitiate(w, s, i, mode, t)
      PROVE  Shape'
  BY <1>2 DEF AcceptInitiate, Goto, FreshTxnId, Outstanding, Settled, NewPaid, SeedRow
<1>3. ASSUME NEW w \in Workers, NEW m \in Body,
             NEW signature \in {SignPayload(m), None}, RefuseWebhook(w, m, signature)
      PROVE  Shape'
  <2>1. PICK r \in Reply : Answer(w, r) /\ UNCHANGED <<db, qrSent>>
    BY <1>3, AnswersAreReplies DEF RefuseWebhook
  <2>2. QED
    BY <2>1, AnswerKeepsShape
<1>4. ASSUME NEW w \in Workers, NEW m \in Body,
             NEW signature \in {SignPayload(m), None}, AcceptWebhook(w, m, signature)
      PROVE  Shape'
  BY <1>4 DEF AcceptWebhook, Goto, Body, SupportedStatus, NewPaid
<1>5. ASSUME NEW w \in Workers, NEW rendered \in BOOLEAN, CallQrService(w, rendered)
      PROVE  Shape'
  BY <1>5 DEF CallQrService, Goto, NewPaid
<1>6. ASSUME NEW w \in Workers, NEW acknowledged \in BOOLEAN, InsertTxn(w, acknowledged)
      PROVE  Shape'
  BY <1>6, AnswersAreReplies DEF InsertTxn, Answer, NewPaid, NewRow, PaymentStatus
<1>7. ASSUME NEW w \in Workers, LockTxn(w)
      PROVE  Shape'
  <2>1. CASE \E r \in Reply : Answer(w, r) /\ UNCHANGED <<db, qrSent>>
    BY <2>1, AnswerKeepsShape
  <2>2. CASE \E next : Goto(w, next) /\ UNCHANGED <<db, draft, msg, seen, qrSent, reply>>
    BY <1>7, <2>2 DEF LockTxn, Goto, Answer, NewPaid
  <2>3. QED
    BY <1>7, <2>1, <2>2, AnswersAreReplies DEF LockTxn
<1>8. ASSUME NEW w \in Workers, UpdateTxn(w)
      PROVE  Shape'
  <2>1. CASE \E r \in Reply : Answer(w, r) /\ UNCHANGED <<db, qrSent>>
    BY <2>1, AnswerKeepsShape
  <2>2. CASE \E next : Goto(w, next) /\ UNCHANGED <<db, draft, msg, seen, qrSent, reply>>
    BY <1>8, <2>2 DEF UpdateTxn, Goto, Answer, NewPaid
  <2>3. QED
    BY <1>8, <2>1, <2>2, AnswersAreReplies DEF UpdateTxn
<1>9. ASSUME NEW w \in Workers, ReadInvoice(w)
      PROVE  Shape'
  BY <1>9 DEF ReadInvoice, Goto, NewPaid
<1>10. ASSUME NEW w \in Workers, UpdateInvoice(w)
       PROVE  Shape'
  <2>1. CASE \E r \in Reply : Answer(w, r) /\ UNCHANGED <<db, qrSent>>
    BY <2>1, AnswerKeepsShape
  <2>2. CASE \E next : Goto(w, next) /\ UNCHANGED <<db, draft, msg, seen, qrSent, reply>>
    BY <1>10, <2>2 DEF UpdateInvoice, Goto, Answer, NewPaid
  <2>3. QED
    BY <1>10, <2>1, <2>2, AnswersAreReplies DEF UpdateInvoice
<1>11. ASSUME NEW w \in Workers, NEW acknowledged \in BOOLEAN, Commit(w, acknowledged)
       PROVE  Shape'
  <2> USE DEF Commit, Answer, SettledRow, Credited, NewPaid, FitsColumn
  <2>1. /\ msg[w] \in Message
        /\ txns[msg[w].txn] \in Row
    BY <1>11
  <2>2. invoice' \in [Invoices -> [paid : Amounts, status : InvoiceStatus]]
    BY <1>11, <2>1 DEF InvoiceStatus
  <2>3. txns' \in [TxnIds -> Row \cup {None}]
    BY <1>11, <2>1 DEF PaymentStatus
  <2>4. reply' \in Reply
    BY <1>11, <2>1, AnswersAreReplies 
  <2>5. TypeOK'
    BY <1>11, <2>2, <2>3, <2>4
  <2>6. \A t \in TxnIds :
           /\ Recorded(t) <=> Recorded(t)'
           /\ Recorded(t) => txns'[t].amount = txns[t].amount
    <3>1. /\ txns'[msg[w].txn] = SettledRow(txns[msg[w].txn], msg[w])
          /\ \A t \in TxnIds \ {msg[w].txn} : txns'[t] = txns[t]
      BY <1>11, <2>1
    <3>2. /\ txns'[msg[w].txn] \in Row
          /\ txns'[msg[w].txn].amount = txns[msg[w].txn].amount
      BY <2>1, <3>1 DEF PaymentStatus
    <3>3. QED
      BY <2>1, <3>1, <3>2
  <2>7. DraftsAreNew'
    BY <1>11, <2>6
  <2>8. SessionsAreTyped'
    BY <1>11, <2>6
  <2>9. QED
    BY <2>5, <2>7, <2>8
<1>12. ASSUME NEW w \in Workers, StatementFails(w)
       PROVE  Shape'
  <2>1. PICK r \in Reply : Answer(w, r) /\ UNCHANGED <<db, qrSent>>
    BY <1>12, AnswersAreReplies DEF StatementFails
  <2>2. QED
    BY <2>1, AnswerKeepsShape
<1>13. CASE Crash
  BY <1>13 DEF Crash
<1>14. CASE UNCHANGED vars
  BY <1>14 DEF vars, NewPaid
<1>15. QED
  BY <1>1, <1>2, <1>3, <1>4, <1>5, <1>6, <1>7, <1>8, <1>9, <1>10, <1>11, <1>12,
     <1>13, <1>14 DEF Next, InitiateRequest, WebhookRequest, Proceed

-----------------------------------------------------------------------------
(* The locks. *)

(* Only an insert and a commit change the tables. *)
LEMMA TableSteps ==
  ASSUME [Next]_vars
  PROVE  \/ UNCHANGED db
         \/ \E w \in Workers, acknowledged \in BOOLEAN : InsertTxn(w, acknowledged)
         \/ \E w \in Workers, acknowledged \in BOOLEAN : Commit(w, acknowledged)
BY DEF Next, InitiateRequest, WebhookRequest, Proceed, vars, db, Crash,
       RefuseInitiate, AcceptInitiate, RefuseWebhook, AcceptWebhook, CallQrService,
       LockTxn, UpdateTxn, ReadInvoice, UpdateInvoice, StatementFails

(* What a commit does to the transactions. *)
LEMMA CommitEffect ==
  ASSUME Shape, LocksAreExclusive, NEW w \in Workers, NEW acknowledged \in BOOLEAN,
         Commit(w, acknowledged)
  PROVE  /\ msg[w] \in Message
         /\ txns[msg[w].txn] \in Row
         /\ txns[msg[w].txn].status = "PENDING"
         /\ txns'[msg[w].txn] = [txns[msg[w].txn] EXCEPT !.status = msg[w].status,
                                                        !.utr = msg[w].utr]
         /\ \A t \in TxnIds \ {msg[w].txn} : txns'[t] = txns[t]
<1>1. pc[w] \in LockedPc /\ pc[w] \in SessionPc
  BY DEF Commit, LockedPc, SessionPc
<1>2. /\ msg[w] \in Message
      /\ txns[msg[w].txn] \in Row
      /\ txns[msg[w].txn].status = "PENDING"
  BY <1>1 DEF Shape, TypeOK, SessionsAreTyped, LocksAreExclusive, Recorded, Message
<1>3. txns' = [txns EXCEPT ![msg[w].txn] = SettledRow(txns[msg[w].txn], msg[w])]
  BY DEF Commit
<1>4. QED
  BY <1>2, <1>3 DEF Shape, TypeOK, SettledRow, Message

(* A row keeps what was recorded, and once settled it keeps everything. *)
LEMMA RowsOnlySettle ==
  ASSUME Shape, LocksAreExclusive, [Next]_vars, NEW t \in TxnIds, Recorded(t)
  PROVE  /\ Recorded(t)'
         /\ txns'[t].invoice = txns[t].invoice
         /\ txns'[t].amount = txns[t].amount
         /\ txns[t].status # "PENDING" => txns'[t] = txns[t]
<1>1. CASE UNCHANGED db
  BY <1>1 DEF db, Recorded
<1>2. ASSUME NEW w \in Workers, NEW acknowledged \in BOOLEAN, InsertTxn(w, acknowledged)
      PROVE  txns'[t] = txns[t]
  BY <1>2 DEF InsertTxn, DraftsAreNew, InitiatePc, Draft, Recorded, Shape, TypeOK
<1>3. ASSUME NEW w \in Workers, NEW acknowledged \in BOOLEAN, Commit(w, acknowledged),
             t # msg[w].txn
      PROVE  txns'[t] = txns[t]
  BY <1>3, CommitEffect
<1>4. ASSUME NEW w \in Workers, NEW acknowledged \in BOOLEAN, Commit(w, acknowledged),
             t = msg[w].txn
      PROVE  /\ txns[t].status = "PENDING"
             /\ txns'[t].invoice = txns[t].invoice
             /\ txns'[t].amount = txns[t].amount
             /\ txns'[t] \in Row
  <2>1. /\ txns[t] \in Row /\ msg[w] \in Message /\ txns[t].status = "PENDING"
        /\ txns'[t] = [txns[t] EXCEPT !.status = msg[w].status, !.utr = msg[w].utr]
    BY <1>4, CommitEffect
  <2>2. QED
    BY <2>1 DEF Row, Message, PaymentStatus
<1>5. QED
  BY <1>1, <1>2, <1>3, <1>4, TableSteps, NoneAssumption DEF Recorded

(* While the tables stay as they are, threads that leave a session, or do  *)
(* not enter the locks, disturb no lock.                                   *)
LEMMA AnswerKeepsLocks ==
  ASSUME Shape, LocksAreExclusive, NEW w \in Workers, NEW r, Answer(w, r), UNCHANGED db
  PROVE  LocksAreExclusive'
BY DEF Shape, TypeOK, LocksAreExclusive, Answer, db, LockedPc, UtrPc, UtrTaken

(* The row locks and the unique index keep two sessions apart. *)
LEMMA LocksStep ==
  ASSUME Shape, LocksAreExclusive, [Next]_vars
  PROVE  LocksAreExclusive'
<1> USE NoneAssumption DEF Shape, TypeOK, LocksAreExclusive, db
<1> USE DEF LockedPc, UtrPc, UtrTaken, Goto
<1>1. CASE \E w \in Workers : \E r : Answer(w, r) /\ UNCHANGED db
  BY <1>1, AnswerKeepsLocks
<1>2. ASSUME NEW w \in Workers, NEW s \in Students, NEW i \in Invoices,
             NEW mode \in Modes, NEW t \in TxnIds, AcceptInitiate(w, s, i, mode, t)
      PROVE  LocksAreExclusive'
  BY <1>2 DEF AcceptInitiate
<1>3. ASSUME NEW w \in Workers, NEW m \in Body,
             NEW signature \in {SignPayload(m), None}, AcceptWebhook(w, m, signature)
      PROVE  LocksAreExclusive'
  BY <1>3 DEF AcceptWebhook
<1>4. ASSUME NEW w \in Workers, NEW rendered \in BOOLEAN, CallQrService(w, rendered)
      PROVE  LocksAreExclusive'
  BY <1>4 DEF CallQrService
<1>5. ASSUME NEW w \in Workers, NEW acknowledged \in BOOLEAN, InsertTxn(w, acknowledged)
      PROVE  LocksAreExclusive'
  BY <1>5 DEF InsertTxn, Answer, NewRow, DraftsAreNew, InitiatePc, SessionPc, Draft,
              SessionsAreTyped, Recorded, Message
<1>6. ASSUME NEW w \in Workers, LockTxn(w), Goto(w, "updateTxn"), UNCHANGED msg,
             txns[msg[w].txn].status = "PENDING"
      PROVE  LocksAreExclusive'
  BY <1>6 DEF LockTxn, HoldsTxnLock
<1>7. ASSUME NEW w \in Workers, UpdateTxn(w), ~UtrTaken(msg[w].utr), UNCHANGED msg
      PROVE  LocksAreExclusive'
  BY <1>7 DEF UpdateTxn, HoldsUtr
<1>8. ASSUME NEW w \in Workers, ReadInvoice(w)
      PROVE  LocksAreExclusive'
  BY <1>8 DEF ReadInvoice
<1>9. ASSUME NEW w \in Workers, UpdateInvoice(w), Goto(w, "commit"), UNCHANGED msg
      PROVE  LocksAreExclusive'
  BY <1>9 DEF UpdateInvoice
<1>10. ASSUME NEW w \in Workers, NEW acknowledged \in BOOLEAN, Commit(w, acknowledged)
       PROVE  LocksAreExclusive'
  <2>1. /\ msg[w] \in Message
        /\ txns'[msg[w].txn].utr = msg[w].utr
        /\ \A t \in TxnIds \ {msg[w].txn} : txns'[t] = txns[t]
    <3>1. /\ msg[w] \in Message /\ txns[msg[w].txn] \in Row
          /\ txns'[msg[w].txn] = [txns[msg[w].txn] EXCEPT !.status = msg[w].status,
                                                         !.utr = msg[w].utr]
          /\ \A t \in TxnIds \ {msg[w].txn} : txns'[t] = txns[t]
      BY <1>10, CommitEffect
    <3>2. QED
      BY <3>1 DEF Row
  <2>2. /\ pc'[w] = "idle" /\ pc[w] = "commit"
        /\ \A v \in Workers \ {w} : pc'[v] = pc[v] /\ msg'[v] = msg[v]
    BY <1>10 DEF Commit, Answer
  <2>3. \A v \in Workers \ {w} : pc[v] \in LockedPc =>
           /\ msg[v] \in Message
           /\ msg[v].txn # msg[w].txn
           /\ pc[v] \in UtrPc => msg[v].utr = None \/ msg[v].utr # msg[w].utr
    BY <2>2 DEF SessionsAreTyped, SessionPc
  <2>4. ASSUME NEW v \in Workers, pc'[v] \in LockedPc
        PROVE  txns'[msg'[v].txn].status = "PENDING"
    BY <2>1, <2>2, <2>3, <2>4 DEF Message
  <2>5. ASSUME NEW v \in Workers, pc'[v] \in UtrPc
        PROVE  ~UtrTaken(msg[v].utr)'
    <3>1. v # w /\ pc[v] \in UtrPc /\ msg'[v] = msg[v] /\ ~UtrTaken(msg[v].utr)
      BY <2>2, <2>5
    <3>2. ASSUME NEW t \in TxnIds, msg[v].utr # None, txns'[t] # None,
                 txns'[t].utr = msg[v].utr
          PROVE  FALSE
      <4>1. CASE t = msg[w].txn
        BY <2>1, <2>3, <3>1, <3>2, <4>1
      <4>2. CASE t # msg[w].txn
        BY <2>1, <3>1, <3>2, <4>2
      <4>3. QED
        BY <4>1, <4>2
    <3>3. QED
      BY <3>1, <3>2
  <2>6. QED
    BY <2>2, <2>3, <2>4, <2>5
<1>11. CASE Crash
  BY <1>11 DEF Crash
<1>12. CASE UNCHANGED vars
  BY <1>12 DEF vars
<1>13. QED
  BY <1>1, <1>2, <1>3, <1>4, <1>5, <1>6, <1>7, <1>8, <1>9, <1>10, <1>11, <1>12
     DEF Next, InitiateRequest, WebhookRequest, Proceed, RefuseInitiate,
         RefuseWebhook, LockTxn, UpdateTxn, UpdateInvoice, StatementFails

-----------------------------------------------------------------------------
(* The money. *)

(* Cardinalities of successful transactions are natural numbers. *)
LEMMA SuccessesAreFinite ==
  ASSUME NEW i \in Invoices
  PROVE  IsFiniteSet(Successes(i)) /\ Cardinality(Successes(i)) \in Nat
BY TxnIdsAssumption, FS_Subset, FS_CardinalityType DEF Successes

(* The same of the next state. *)
LEMMA SuccessesPrimedAreFinite ==
  ASSUME NEW i \in Invoices
  PROVE  IsFiniteSet(Successes(i)') /\ Cardinality(Successes(i)') \in Nat
<1>1. Successes(i)' \in SUBSET TxnIds
  BY DEF Successes
<1>2. QED
  BY <1>1, TxnIdsAssumption, FS_Subset, FS_CardinalityType

(* A success is never taken back, so its count only grows. *)
LEMMA SuccessesNeverShrink ==
  ASSUME Shape, LocksAreExclusive, [Next]_vars, NEW i \in Invoices
  PROVE  /\ Successes(i) \subseteq Successes(i)'
         /\ Cardinality(Successes(i)) <= Cardinality(Successes(i)')
<1>1. ASSUME NEW t \in Successes(i)
      PROVE  t \in Successes(i)'
  <2>1. t \in TxnIds /\ Recorded(t) /\ txns[t].status = "SUCCESS"
    BY DEF Successes, Succeeded
  <2>2. txns'[t] = txns[t]
    BY <2>1, RowsOnlySettle
  <2>3. QED
    BY <2>1, <2>2 DEF Successes, Succeeded, Recorded
<1>2. QED
  BY <1>1, SuccessesPrimedAreFinite, FS_Subset

(* A success is one more transaction to back the balance with. *)
LEMMA CommitAddsSuccess ==
  ASSUME Shape, LocksAreExclusive, NEW w \in Workers, NEW acknowledged \in BOOLEAN,
         Commit(w, acknowledged), msg[w].status = "SUCCESS",
         NEW i \in Invoices, txns[msg[w].txn].invoice = i
  PROVE  Cardinality(Successes(i)') = Cardinality(Successes(i)) + 1
<1>1. PICK t \in TxnIds : t = msg[w].txn
  BY CommitEffect DEF Message
<1>2. /\ txns[t] \in Row /\ txns[t].status = "PENDING" /\ txns[t].invoice = i
      /\ txns'[t] = [txns[t] EXCEPT !.status = "SUCCESS", !.utr = msg[w].utr]
      /\ \A u \in TxnIds \ {t} : txns'[u] = txns[u]
  BY <1>1, CommitEffect
<1>3. txns'[t] \in Row /\ txns'[t].status = "SUCCESS" /\ txns'[t].invoice = i
  <2>1. msg[w].utr \in Utrs
    BY CommitEffect DEF Message
  <2>2. QED
    BY <1>2, <2>1 DEF Row, PaymentStatus
<1>4. t \notin Successes(i)
  BY <1>2 DEF Successes, Succeeded
<1>5. Successes(i)' = Successes(i) \cup {t}
  <2>1. ASSUME NEW u \in TxnIds, u # t
        PROVE  u \in Successes(i)' <=> u \in Successes(i)
    BY <1>2, <2>1 DEF Successes, Succeeded, Recorded
  <2>2. t \in Successes(i)'
    BY <1>1, <1>3, NoneAssumption DEF Successes, Succeeded, Recorded
  <2>3. QED
    BY <1>1, <2>1, <2>2 DEF Successes
<1>6. QED
  BY <1>4, <1>5, SuccessesAreFinite, FS_AddElement

(* The opening debt of an invoice is an integer. *)
LEMMA DebtIsInteger ==
  ASSUME NEW i \in Invoices
  PROVE  /\ Seed[i].paid \in Nat /\ Seed[i].due \in Nat /\ OpeningDebt(i) \in Int
         /\ Seed[i].paid + OpeningDebt(i) = Seed[i].due
BY SeedAssumption, AmountAssumption DEF SeedRow, Amounts, OpeningDebt

(* A backed balance stays backed when more transactions succeed. *)
LEMMA BackedStays ==
  ASSUME Shape, LocksAreExclusive, [Next]_vars, NEW i \in Invoices, NEW n, Backed(i, n)
  PROVE  Backed(i, n)'
<1>1. PICK k \in 0 .. Cardinality(Successes(i)) : n = Seed[i].paid + k * OpeningDebt(i)
  BY DEF Backed
<1>2. k \in 0 .. Cardinality(Successes(i)')
  BY <1>1, SuccessesNeverShrink, SuccessesAreFinite, SuccessesPrimedAreFinite
<1>3. QED
  BY <1>1, <1>2 DEF Backed, OpeningDebt

(* Adding one debt to a backed balance needs one more success. *)
LEMMA OneMoreDebt ==
  ASSUME NEW p \in Int, NEW d \in Int, NEW k \in Nat
  PROVE  /\ (p + k * d) + d = p + (k + 1) * d
         /\ d > 0 => p + (k + 1) * d >= p + d
<1>1. (k + 1) * d = k * d + d
  OBVIOUS
<1>2. d > 0 => k * d >= 0
  OBVIOUS
<1>3. k * d \in Int
  OBVIOUS
<1>4. QED
  BY <1>1, <1>2, <1>3

(* A thread that stands still carries what it carried. *)
LEMMA WaitingThreadCarries ==
  ASSUME Shape, LocksAreExclusive, [Next]_vars, NEW v \in Workers, CarriesWholeAmounts(v),
         pc'[v] = pc[v], draft'[v] = draft[v], msg'[v] = msg[v], seen'[v] = seen[v]
  PROVE  CarriesWholeAmounts(v)'
<1>1. ASSUME pc[v] \in InitiatePc
      PROVE  draft'[v].amount = OpeningDebt(draft'[v].invoice) /\ draft'[v].amount > 0
  BY <1>1 DEF CarriesWholeAmounts
<1>2. ASSUME Crediting(v)
      PROVE  Backed(txns[msg[v].txn].invoice, seen[v])'
  <2>1. pc[v] \in LockedPc /\ pc[v] \in SessionPc
    BY <1>2 DEF Crediting, LockedPc, SessionPc
  <2>2. /\ msg[v].txn \in TxnIds /\ Recorded(msg[v].txn)
        /\ txns[msg[v].txn] \in Row
    BY <2>1 DEF Shape, TypeOK, SessionsAreTyped, Message, Recorded
  <2>3. PICK i \in Invoices : i = txns[msg[v].txn].invoice
    BY <2>2 DEF Row
  <2>4. txns'[msg[v].txn].invoice = i
    BY <2>2, <2>3, RowsOnlySettle
  <2>5. Backed(i, seen[v])
    BY <1>2, <2>3 DEF CarriesWholeAmounts
  <2>6. Backed(i, seen[v])'
    <3>1. PICK n : n = seen[v]
      OBVIOUS
    <3>2. Backed(i, n)'
      BY <2>5, <3>1, BackedStays
    <3>3. QED
      BY <3>1, <3>2
  <2>7. QED
    BY <2>4, <2>6
<1>3. QED
  BY <1>1, <1>2 DEF CarriesWholeAmounts, Crediting, OpeningDebt

(* A committed SUCCESS closes its invoice with one more opening debt than  *)
(* the balance the thread had read.                                        *)
LEMMA CommitCredits ==
  ASSUME Shape, LocksAreExclusive, MoneyIsWhole,
         NEW w \in Workers, NEW acknowledged \in BOOLEAN,
         Commit(w, acknowledged), msg[w].status = "SUCCESS",
         NEW i \in Invoices, txns[msg[w].txn].invoice = i
  PROVE  /\ invoice' = [invoice EXCEPT ![i] = [paid |-> NewPaid(w), status |-> "PAID"]]
         /\ NewPaid(w) >= Seed[i].due
         /\ \E k \in 1 .. Cardinality(Successes(i)) + 1 :
               NewPaid(w) = Seed[i].paid + k * OpeningDebt(i)
<1>1. msg[w].txn \in TxnIds /\ Recorded(msg[w].txn)
  BY CommitEffect DEF Commit, Message, Shape, SessionsAreTyped, LockedPc
<1>2. txns[msg[w].txn].amount = OpeningDebt(i) /\ OpeningDebt(i) > 0
  BY <1>1 DEF MoneyIsWhole, NothingIsPaidInPart
<1>3. PICK k \in 0 .. Cardinality(Successes(i)) : seen[w] = Seed[i].paid + k * OpeningDebt(i)
  BY DEF MoneyIsWhole, CarriedAmountsAreWhole, CarriesWholeAmounts, Crediting, Commit, Backed
<1>4. k \in Nat /\ k + 1 \in 1 .. Cardinality(Successes(i)) + 1
  BY <1>3, SuccessesAreFinite
<1>5. NewPaid(w) = Seed[i].paid + (k + 1) * OpeningDebt(i)
  BY <1>2, <1>3, <1>4, DebtIsInteger, OneMoreDebt DEF NewPaid
<1>6. NewPaid(w) >= Seed[i].due
  BY <1>2, <1>4, <1>5, DebtIsInteger, OneMoreDebt
<1>7. invoice' = [invoice EXCEPT ![i] = [paid |-> NewPaid(w), status |-> "PAID"]]
  BY <1>6 DEF Commit, Credited
<1>8. QED
  BY <1>4, <1>5, <1>6, <1>7

(* Thread v makes no step. *)
Stands(v) == /\ pc'[v] = pc[v] /\ draft'[v] = draft[v]
             /\ msg'[v] = msg[v] /\ seen'[v] = seen[v]

(* The threads: what they carry stays whole. *)
LEMMA CarriedStep ==
  ASSUME Shape, LocksAreExclusive, MoneyIsWhole, [Next]_vars
  PROVE  CarriedAmountsAreWhole'
<1> USE DEF Shape, TypeOK, CarriedAmountsAreWhole, MoneyIsWhole, Goto
<1>1. ASSUME NEW v \in Workers, pc'[v] = "idle"
      PROVE  CarriesWholeAmounts(v)'
  BY <1>1 DEF CarriesWholeAmounts, Crediting, InitiatePc
<1>2. ASSUME NEW v \in Workers, pc'[v] \in {"lockTxn", "updateTxn", "readInvoice"}
      PROVE  CarriesWholeAmounts(v)'
  BY <1>2 DEF CarriesWholeAmounts, Crediting, InitiatePc
<1>3. ASSUME NEW w \in Workers, NEW s \in Students, NEW i \in Invoices,
             NEW mode \in Modes, NEW t \in TxnIds, AcceptInitiate(w, s, i, mode, t)
      PROVE  CarriesWholeAmounts(w)'
  <2>1. invoice[i].paid = Seed[i].paid
    BY <1>3, DebtIsInteger DEF AcceptInitiate, Settled, Paid, NothingIsPaidInPart
  <2>2. Outstanding(i) = OpeningDebt(i) /\ Outstanding(i) > 0
    BY <1>3, <2>1, DebtIsInteger DEF AcceptInitiate, Settled, Outstanding, OpeningDebt
  <2>3. QED
    BY <1>3, <2>2 DEF AcceptInitiate, CarriesWholeAmounts, Crediting, OpeningDebt
<1>4. ASSUME NEW w \in Workers, NEW rendered \in BOOLEAN, CallQrService(w, rendered)
      PROVE  CarriesWholeAmounts(w)'
  BY <1>4 DEF CallQrService, CarriesWholeAmounts, Crediting, InitiatePc, OpeningDebt
<1>5. ASSUME NEW w \in Workers, ReadInvoice(w)
      PROVE  CarriesWholeAmounts(w)'
  <2>1. /\ pc[w] \in LockedPc /\ pc[w] \in SessionPc
        /\ pc'[w] = "updateInvoice" /\ UNCHANGED <<invoice, txns, msg>>
        /\ seen'[w] = invoice[txns[msg[w].txn].invoice].paid
    BY <1>5 DEF ReadInvoice, LockedPc, SessionPc, db
  <2>2. txns[msg[w].txn].invoice \in Invoices
    BY <2>1 DEF SessionsAreTyped, Message, Recorded, Row
  <2>3. Backed(txns[msg[w].txn].invoice, invoice[txns[msg[w].txn].invoice].paid)
    BY <2>2 DEF EveryCreditIsBacked
  <2>4. Backed(txns[msg[w].txn].invoice, seen[w])'
    BY <2>1, <2>3 DEF Backed, OpeningDebt, Successes, Succeeded, Recorded
  <2>5. QED
    BY <2>1, <2>4 DEF CarriesWholeAmounts, InitiatePc
<1>6. ASSUME NEW w \in Workers, UpdateInvoice(w), Goto(w, "commit"),
             UNCHANGED <<invoice, txns, draft, msg, seen>>
      PROVE  CarriesWholeAmounts(w)'
  BY <1>6 DEF UpdateInvoice, CarriesWholeAmounts, Crediting, InitiatePc, Backed,
              OpeningDebt, Successes, Succeeded, Recorded
<1>7. ASSUME NEW w \in Workers, UpdateTxn(w), Goto(w, "commit"), msg'[w] = msg[w],
             msg[w].status # "SUCCESS"
      PROVE  CarriesWholeAmounts(w)'
  BY <1>7 DEF CarriesWholeAmounts, Crediting, InitiatePc
<1>8. ASSUME NEW w \in Workers, InitiateRequest(w) \/ WebhookRequest(w) \/ Proceed(w)
                                  \/ StatementFails(w)
      PROVE  /\ CarriesWholeAmounts(w)'
             /\ \A v \in Workers \ {w} : Stands(v)
  <2>1. CASE \E r : Answer(w, r)
    BY <1>1, <2>1 DEF Answer, Stands
  <2>2. CASE InitiateRequest(w)
    BY <1>3, <2>1, <2>2 DEF InitiateRequest, RefuseInitiate, AcceptInitiate, Stands
  <2>3. CASE WebhookRequest(w)
    BY <1>2, <2>1, <2>3 DEF WebhookRequest, RefuseWebhook, AcceptWebhook, Stands
  <2>4. CASE \E rendered \in BOOLEAN : CallQrService(w, rendered)
    BY <1>4, <2>4 DEF CallQrService, Stands
  <2>5. CASE LockTxn(w)
    BY <1>2, <2>1, <2>5 DEF LockTxn, Stands
  <2>6. CASE UpdateTxn(w)
    BY <1>2, <1>7, <2>1, <2>6 DEF UpdateTxn, Stands
  <2>7. CASE ReadInvoice(w)
    BY <1>5, <2>7 DEF ReadInvoice, Stands
  <2>8. CASE UpdateInvoice(w)
    BY <1>6, <2>1, <2>8 DEF UpdateInvoice, Stands, db
  <2>9. QED
    BY <1>8, <2>1, <2>2, <2>3, <2>4, <2>5, <2>6, <2>7, <2>8
       DEF Proceed, InsertTxn, Commit, StatementFails
<1>9. CASE Crash
  BY <1>1, <1>9 DEF Crash
<1>10. CASE UNCHANGED vars
  BY <1>10, WaitingThreadCarries DEF vars
<1>11. QED
  BY <1>8, <1>9, <1>10, WaitingThreadCarries DEF Next, Stands

(* The tables: rows ask for the opening debt, balances are backed. *)
LEMMA InsertKeepsMoney ==
  ASSUME Shape, LocksAreExclusive, MoneyIsWhole, [Next]_vars,
         NEW w \in Workers, NEW acknowledged \in BOOLEAN, InsertTxn(w, acknowledged)
  PROVE  NothingIsPaidInPart' /\ EveryCreditIsBacked' /\ SuccessImpliesPaid'
<1>1. PICK t \in TxnIds : t = draft[w].txn
  BY DEF InsertTxn, Shape, DraftsAreNew, InitiatePc, Draft
<1>2. /\ UNCHANGED invoice
      /\ txns'[t].amount = OpeningDebt(txns'[t].invoice) /\ txns'[t].amount > 0
      /\ txns'[t].status = "PENDING"
      /\ \A u \in TxnIds \ {t} : txns'[u] = txns[u]
  BY <1>1 DEF InsertTxn, NewRow, MoneyIsWhole, CarriedAmountsAreWhole,
              CarriesWholeAmounts, InitiatePc, Shape, TypeOK, OpeningDebt
<1>3. NothingIsPaidInPart'
  BY <1>2 DEF MoneyIsWhole, NothingIsPaidInPart, Recorded, Paid, OpeningDebt
<1>4. EveryCreditIsBacked'
  BY <1>2, BackedStays DEF MoneyIsWhole, EveryCreditIsBacked
<1>5. SuccessImpliesPaid'
  BY <1>2 DEF MoneyIsWhole, SuccessImpliesPaid, Succeeded, Recorded, Paid
<1>6. QED
  BY <1>3, <1>4, <1>5

(* A commit pays its invoice with a backed balance. *)
LEMMA CommitKeepsMoney ==
  ASSUME Shape, LocksAreExclusive, MoneyIsWhole, [Next]_vars,
         NEW w \in Workers, NEW acknowledged \in BOOLEAN, Commit(w, acknowledged)
  PROVE  NothingIsPaidInPart' /\ EveryCreditIsBacked' /\ SuccessImpliesPaid'
<1>1. /\ msg[w].txn \in TxnIds /\ Recorded(msg[w].txn)
      /\ txns[msg[w].txn] \in Row /\ msg[w] \in Message
  BY CommitEffect DEF Commit, Message, Shape, SessionsAreTyped, LockedPc
<1>2. PICK t \in TxnIds, i \in Invoices : t = msg[w].txn /\ i = txns[t].invoice
  BY <1>1 DEF Row
<1>3. /\ txns'[t] \in Row /\ txns'[t].invoice = i
      /\ txns'[t].amount = txns[t].amount /\ txns'[t].status = msg[w].status
      /\ \A u \in TxnIds \ {t} : txns'[u] = txns[u]
  <2>1. /\ txns'[t] = [txns[t] EXCEPT !.status = msg[w].status, !.utr = msg[w].utr]
        /\ \A u \in TxnIds \ {t} : txns'[u] = txns[u]
    BY <1>2, CommitEffect
  <2>2. QED
    BY <1>1, <1>2, <2>1 DEF Row, Message, PaymentStatus
<1>4. \A u \in TxnIds : Recorded(u)' =>
          /\ txns'[u].amount = OpeningDebt(txns'[u].invoice)
          /\ txns'[u].amount > 0
  BY <1>1, <1>2, <1>3 DEF MoneyIsWhole, NothingIsPaidInPart, Recorded
<1>5. CASE msg[w].status = "SUCCESS"
  <2>1. /\ invoice' = [invoice EXCEPT ![i] = [paid |-> NewPaid(w), status |-> "PAID"]]
        /\ NewPaid(w) >= Seed[i].due
    BY <1>2, <1>5, CommitCredits
  <2>2. PICK k \in 1 .. Cardinality(Successes(i)) + 1 :
               NewPaid(w) = Seed[i].paid + k * OpeningDebt(i)
    BY <1>2, <1>5, CommitCredits
  <2>3. /\ invoice'[i] = [paid |-> NewPaid(w), status |-> "PAID"]
        /\ \A j \in Invoices \ {i} : invoice'[j] = invoice[j]
    BY <2>1 DEF Shape, TypeOK
  <2>4. Paid(i)'
    BY <2>1, <2>3 DEF Paid
  <2>5. NothingIsPaidInPart'
    BY <1>4, <2>3, <2>4 DEF MoneyIsWhole, NothingIsPaidInPart, Recorded, Paid, OpeningDebt
  <2>6. k \in 0 .. Cardinality(Successes(i)')
    BY <1>2, <1>5, <2>2, CommitAddsSuccess, SuccessesAreFinite
  <2>7. Backed(i, invoice[i].paid)'
    BY <2>2, <2>3, <2>6 DEF Backed, OpeningDebt
  <2>8. ASSUME NEW j \in Invoices, j # i
        PROVE  Backed(j, invoice[j].paid)'
    <3>1. PICK n : n = invoice[j].paid
      OBVIOUS
    <3>2. Backed(j, n)'
      BY <3>1, BackedStays DEF MoneyIsWhole, EveryCreditIsBacked
    <3>3. QED
      BY <2>3, <2>8, <3>1, <3>2
  <2>9. SuccessImpliesPaid'
    <3>1. ASSUME NEW u \in TxnIds, Succeeded(u)'
          PROVE  Paid(txns[u].invoice)'
      <4>1. CASE u = t
        BY <1>3, <2>4, <4>1
      <4>2. CASE u # t
        <5>1. /\ txns'[u] = txns[u] /\ Succeeded(u) /\ Paid(txns[u].invoice)
              /\ txns[u].invoice \in Invoices
          BY <1>3, <3>1, <4>2 DEF MoneyIsWhole, SuccessImpliesPaid, Succeeded, Recorded,
                                  Shape, TypeOK, Row
        <5>2. QED
          BY <2>3, <2>4, <5>1 DEF Paid
      <4>3. QED
        BY <4>1, <4>2
    <3>2. QED
      BY <3>1 DEF SuccessImpliesPaid
  <2>10. QED
    BY <2>5, <2>7, <2>8, <2>9 DEF EveryCreditIsBacked
<1>6. CASE msg[w].status # "SUCCESS"
  <2>1. UNCHANGED invoice
    BY <1>6 DEF Commit
  <2>2. NothingIsPaidInPart'
    BY <1>4, <2>1 DEF MoneyIsWhole, NothingIsPaidInPart, Recorded, Paid
  <2>3. EveryCreditIsBacked'
    BY <2>1, BackedStays DEF MoneyIsWhole, EveryCreditIsBacked
  <2>4. SuccessImpliesPaid'
    BY <1>3, <1>6, <2>1 DEF MoneyIsWhole, SuccessImpliesPaid, Succeeded, Recorded, Paid
  <2>5. QED
    BY <2>2, <2>3, <2>4
<1>7. QED
  BY <1>5, <1>6

(* Threads and tables together. *)
LEMMA MoneyStep ==
  ASSUME Shape, LocksAreExclusive, MoneyIsWhole, [Next]_vars
  PROVE  MoneyIsWhole'
<1>1. CarriedAmountsAreWhole'
  BY CarriedStep
<1>2. CASE UNCHANGED db
  <2>1. NothingIsPaidInPart' /\ SuccessImpliesPaid'
    BY <1>2 DEF db, MoneyIsWhole, NothingIsPaidInPart, SuccessImpliesPaid, Recorded,
                Succeeded, Paid, OpeningDebt
  <2>2. EveryCreditIsBacked'
    BY <1>2, BackedStays DEF db, MoneyIsWhole, EveryCreditIsBacked
  <2>3. QED
    BY <1>1, <2>1, <2>2 DEF MoneyIsWhole
<1>3. QED
  BY <1>1, <1>2, InsertKeepsMoney, CommitKeepsMoney, TableSteps DEF MoneyIsWhole

-----------------------------------------------------------------------------
(* The answers. *)

(* An invoice row changes only to be paid. *)
LEMMA InvoicesOnlyClose ==
  ASSUME Shape, LocksAreExclusive, MoneyIsWhole, [Next]_vars, NEW i \in Invoices
  PROVE  invoice'[i] = invoice[i] \/ Paid(i)'
<1>1. ASSUME NEW w \in Workers, NEW acknowledged \in BOOLEAN, Commit(w, acknowledged),
             msg[w].status = "SUCCESS"
      PROVE  invoice'[i] = invoice[i] \/ Paid(i)'
  <2>1. PICK j \in Invoices : j = txns[msg[w].txn].invoice
    BY <1>1, CommitEffect DEF Row
  <2>2. /\ invoice' = [invoice EXCEPT ![j] = [paid |-> NewPaid(w), status |-> "PAID"]]
        /\ NewPaid(w) >= Seed[j].due
    BY <1>1, <2>1, CommitCredits
  <2>3. QED
    BY <2>2 DEF Shape, TypeOK, Paid
<1>2. QED
  BY <1>1, TableSteps DEF db, InsertTxn, Commit

(* What a client could truly be told stays true. *)
LEMMA ClaimsLast ==
  ASSUME Shape, LocksAreExclusive, MoneyIsWhole, [Next]_vars,
         NEW r \in Claim, AnswerHolds(r)
  PROVE  AnswerHolds(r)'
<1>1. CASE r.code \in {"INITIATED", "RECONCILED", "PAY-409-DUP"}
  <2>1. r.about \in TxnIds /\ Recorded(r.about) /\ txns[r.about] \in Row
    BY <1>1 DEF Claim, AnswerHolds, Shape, TypeOK, Recorded
  <2>2. /\ Recorded(r.about)'
        /\ txns[r.about].status # "PENDING" => txns'[r.about] = txns[r.about]
    BY <2>1, RowsOnlySettle
  <2>3. r.code = "RECONCILED" => txns[r.about].status # "PENDING"
    BY <2>1, NoneAssumption DEF Claim, AnswerHolds, Row, PaymentStatus
  <2>4. QED
    BY <1>1, <2>2, <2>3 DEF AnswerHolds
<1>2. CASE r.code = "PAY-409-INV"
  <2>1. PICK i \in Invoices : i = r.about
    BY <1>2 DEF Claim
  <2>2. Settled(i)
    BY <1>2, <2>1 DEF AnswerHolds
  <2>3. invoice[i] = [paid |-> Seed[i].paid, status |-> Seed[i].status] \/ Paid(i)
    BY DEF MoneyIsWhole, NothingIsPaidInPart
  <2>4. Settled(i)'
    <3>1. invoice'[i] = invoice[i] \/ Paid(i)'
      BY InvoicesOnlyClose
    <3>2. CASE invoice'[i] = invoice[i]
      BY <2>2, <3>2 DEF Settled, Outstanding
    <3>3. CASE Paid(i)'
      BY <3>3 DEF Settled, Paid
    <3>4. QED
      BY <3>1, <3>2, <3>3
  <2>5. QED
    BY <1>2, <2>1, <2>4 DEF AnswerHolds
<1>3. QED
  BY <1>1, <1>2 DEF Claim

(* The occasions on which a client is told something about a row. *)
LEMMA AnswerKinds ==
  ASSUME [Next]_vars
  PROVE  \/ UNCHANGED reply
         \/ reply' \in Excuse
         \/ \E w \in Workers, i \in Invoices :
               UNCHANGED db /\ Settled(i) /\ Answer(w, Refusal("PAY-409-INV", i))
         \/ \E w \in Workers :
               /\ LockTxn(w) /\ UNCHANGED db
               /\ Recorded(msg[w].txn) /\ txns[msg[w].txn].status # "PENDING"
               /\ Answer(w, Refusal("PAY-409-DUP", msg[w].txn))
         \/ \E w \in Workers, acknowledged \in BOOLEAN :
               InsertTxn(w, acknowledged) /\ reply' = Initiated(draft[w].txn)
         \/ \E w \in Workers, acknowledged \in BOOLEAN :
               Commit(w, acknowledged) /\ reply' = Reconciled(msg[w])
<1> USE DEF Answer, Refusal, Excuse
<1>1. ASSUME NEW w \in Workers, NEW s, NEW i \in Invoices \cup {None}, RefuseInitiate(w, s, i)
      PROVE  \/ reply' \in Excuse
             \/ /\ i \in Invoices /\ UNCHANGED db /\ Settled(i)
                /\ Answer(w, Refusal("PAY-409-INV", i))
  BY <1>1 DEF RefuseInitiate
<1>2. ASSUME NEW w \in Workers, LockTxn(w)
      PROVE  \/ UNCHANGED reply
             \/ reply' \in Excuse
             \/ /\ UNCHANGED db /\ Recorded(msg[w].txn)
                /\ txns[msg[w].txn].status # "PENDING"
                /\ Answer(w, Refusal("PAY-409-DUP", msg[w].txn))
  BY <1>2 DEF LockTxn, Recorded
<1>3. ASSUME NEW w \in Workers, NEW acknowledged \in BOOLEAN, InsertTxn(w, acknowledged)
      PROVE  reply' \in Excuse \/ reply' = Initiated(draft[w].txn)
  BY <1>3 DEF InsertTxn
<1>4. ASSUME NEW w \in Workers, NEW acknowledged \in BOOLEAN, Commit(w, acknowledged)
      PROVE  reply' \in Excuse \/ reply' = Reconciled(msg[w])
  BY <1>4 DEF Commit
<1>5. ASSUME NEW w \in Workers, WebhookRequest(w) \/ UpdateTxn(w) \/ ReadInvoice(w)
                                \/ UpdateInvoice(w) \/ StatementFails(w)
      PROVE  UNCHANGED reply \/ reply' \in Excuse
  BY <1>5 DEF WebhookRequest, RefuseWebhook, AcceptWebhook, UpdateTxn, ReadInvoice,
              UpdateInvoice, StatementFails
<1>6. QED
  BY <1>1, <1>2, <1>3, <1>4, <1>5 DEF Next, InitiateRequest, Proceed, AcceptInitiate,
     CallQrService, Crash, vars

(* The last answer is true after every step. *)
LEMMA AnswersStep ==
  ASSUME Shape, LocksAreExclusive, MoneyIsWhole, AnswersAreTrue, [Next]_vars, Shape'
  PROVE  AnswersAreTrue'
<1>1. CASE UNCHANGED reply
  <2>1. CASE reply = None
    BY <1>1, <2>1 DEF AnswersAreTrue
  <2>2. CASE reply # None /\ reply \in Claim
    <3>1. PICK r \in Claim : r = reply
      BY <2>2
    <3>2. AnswerHolds(r)'
      BY <2>2, <3>1, ClaimsLast DEF AnswersAreTrue
    <3>3. QED
      BY <1>1, <3>1, <3>2 DEF AnswersAreTrue
  <2>3. CASE reply \in Excuse
    BY <1>1, <2>3 DEF AnswersAreTrue, AnswerHolds, Excuse
  <2>4. QED
    BY <2>1, <2>2, <2>3 DEF Shape, TypeOK, Reply
<1>2. CASE reply' \in Excuse
  BY <1>2 DEF AnswersAreTrue, AnswerHolds, Excuse
<1>3. ASSUME NEW w \in Workers, NEW i \in Invoices, UNCHANGED db, Settled(i),
             Answer(w, Refusal("PAY-409-INV", i))
      PROVE  AnswersAreTrue'
  BY <1>3 DEF Answer, Refusal, AnswersAreTrue, AnswerHolds, Settled, Outstanding, db
<1>4. ASSUME NEW w \in Workers, LockTxn(w), Recorded(msg[w].txn), UNCHANGED db,
             txns[msg[w].txn].status # "PENDING",
             Answer(w, Refusal("PAY-409-DUP", msg[w].txn))
      PROVE  AnswersAreTrue'
  BY <1>4 DEF Answer, Refusal, AnswersAreTrue, AnswerHolds, Recorded, db
<1>5. ASSUME NEW w \in Workers, NEW acknowledged \in BOOLEAN, InsertTxn(w, acknowledged),
             reply' = Initiated(draft[w].txn)
      PROVE  AnswersAreTrue'
  <2>1. draft[w].txn \in TxnIds /\ draft[w] \in Draft
    BY <1>5 DEF InsertTxn, Shape, DraftsAreNew, InitiatePc, Draft
  <2>2. txns'[draft[w].txn] # None
    BY <1>5, <2>1, NoneAssumption DEF InsertTxn, NewRow, Shape, TypeOK, Row, Draft, PaymentStatus
  <2>3. QED
    BY <1>5, <2>2 DEF Initiated, AnswersAreTrue, AnswerHolds, Recorded
<1>6. ASSUME NEW w \in Workers, NEW acknowledged \in BOOLEAN, Commit(w, acknowledged),
             reply' = Reconciled(msg[w])
      PROVE  AnswersAreTrue'
  <2>1. PICK t \in TxnIds : t = msg[w].txn
    BY <1>6, CommitEffect DEF Message
  <2>2. /\ txns[t] \in Row /\ msg[w] \in Message
        /\ txns'[t] = [txns[t] EXCEPT !.status = msg[w].status, !.utr = msg[w].utr]
    BY <1>6, <2>1, CommitEffect
  <2>3. /\ txns'[t] \in Row /\ txns'[t].status = msg[w].status
        /\ txns'[t].utr = msg[w].utr
    BY <2>2 DEF Row, Message, PaymentStatus
  <2>4. QED
    BY <1>6, <2>1, <2>3, NoneAssumption DEF Reconciled, AnswersAreTrue, AnswerHolds, Recorded
<1>7. QED
  BY <1>1, <1>2, <1>3, <1>4, <1>5, <1>6, AnswerKinds

-----------------------------------------------------------------------------
(* The theorems about every behaviour. *)

(* The inductive invariant holds of the seeded tables. *)
LEMMA IInvInit == ASSUME Init PROVE IInv
<1> USE NoneAssumption DEF Init
<1>1. Shape
  BY SeedAssumption, AmountAssumption
     DEF Shape, TypeOK, DraftsAreNew, SessionsAreTyped, InitiatePc, LockedPc, SessionPc,
         SeedRow, Amounts
<1>2. LocksAreExclusive
  BY DEF LocksAreExclusive, LockedPc, UtrPc
<1>3. EveryCreditIsBacked
  <2>1. ASSUME NEW i \in Invoices
        PROVE  Backed(i, Seed[i].paid)
    <3>1. 0 \in 0 .. Cardinality(Successes(i))
      BY SuccessesAreFinite
    <3>2. Seed[i].paid = Seed[i].paid + 0 * OpeningDebt(i)
      BY DebtIsInteger
    <3>3. QED
      BY <3>1, <3>2 DEF Backed
  <2>2. QED
    BY <2>1 DEF EveryCreditIsBacked
<1>4. NothingIsPaidInPart /\ SuccessImpliesPaid
  BY DEF NothingIsPaidInPart, SuccessImpliesPaid, Succeeded, Recorded
<1>5. CarriedAmountsAreWhole
  BY DEF CarriedAmountsAreWhole, CarriesWholeAmounts, Crediting, InitiatePc
<1>6. AnswersAreTrue
  BY DEF AnswersAreTrue
<1>7. QED
  BY <1>1, <1>2, <1>3, <1>4, <1>5, <1>6 DEF IInv, MoneyIsWhole

(* And every statement of every thread preserves it. *)
LEMMA IInvStep == ASSUME IInv, [Next]_vars PROVE IInv'
<1>1. Shape'
  BY ShapeStep DEF IInv
<1>2. LocksAreExclusive'
  BY LocksStep DEF IInv
<1>3. MoneyIsWhole'
  BY MoneyStep DEF IInv
<1>4. AnswersAreTrue'
  BY <1>1, AnswersStep DEF IInv
<1>5. QED
  BY <1>1, <1>2, <1>3, <1>4 DEF IInv

(* Threads, sessions, locks, rows, balances and answers always agree, in   *)
(* every interleaving of initiate_payment and reconcile_webhook.           *)
THEOREM Invariance == Spec => []IInv
<1>1. Init => IInv
  BY IInvInit
<1>2. IInv /\ [Next]_vars => IInv'
  BY IInvStep
<1>3. QED
  BY <1>1, <1>2, PTL DEF Spec

(* The tables and the threads are always of their types: in particular no  *)
(* balance outgrows its column and no row is written half.                 *)
THEOREM TypeCorrectness == Spec => []TypeOK
<1>1. IInv => TypeOK
  BY DEF IInv, Shape
<1>2. QED
  BY <1>1, Invariance, PTL

(* A transaction marked SUCCESS has settled its invoice.                   *)
THEOREM SuccessIsPaid == Spec => []SuccessImpliesPaid
<1>1. IInv => SuccessImpliesPaid
  BY DEF IInv, MoneyIsWhole
<1>2. QED
  BY <1>1, Invariance, PTL

(* No invoice is ever left partly paid by apply_payment_in_session.        *)
THEOREM NeverPaidInPart == Spec => []NothingIsPaidInPart
<1>1. IInv => NothingIsPaidInPart
  BY DEF IInv, MoneyIsWhole
<1>2. QED
  BY <1>1, Invariance, PTL

(* A balance never shows money that no successful transaction brought.     *)
THEOREM CreditsAreBacked == Spec => []EveryCreditIsBacked
<1>1. IInv => EveryCreditIsBacked
  BY DEF IInv, MoneyIsWhole
<1>2. QED
  BY <1>1, Invariance, PTL

(* What a client is told is true when it is told.                          *)
THEOREM AnswersTrue == Spec => []AnswersAreTrue
<1>1. IInv => AnswersAreTrue
  BY DEF IInv
<1>2. QED
  BY <1>1, Invariance, PTL

(* What a client could truly be told stays true for ever.                  *)
THEOREM AnswersLast == Spec => AnswersStayTrue
<1>1. IInv /\ [Next]_vars => [\A r \in Claim : AnswerHolds(r) => AnswerHolds(r)']_vars
  BY ClaimsLast DEF IInv
<1>2. QED
  BY <1>1, Invariance, PTL DEF Spec, AnswersStayTrue

-----------------------------------------------------------------------------
(* The refinement. *)

(* What the ledger sees of a transaction row. *)
LEMMA ViewOfRow ==
  ASSUME Shape, NEW t \in TxnIds
  PROVE  /\ LedgerView(t) # None <=> Recorded(t)
         /\ Recorded(t) => LedgerView(t) = [fee |-> txns[t].invoice,
                                            status |-> txns[t].status,
                                            ref |-> txns[t].utr]
BY NoneAssumption DEF LedgerView, Recorded, Shape, TypeOK, Row, LedgerRow

(* It depends on that row alone. *)
LEMMA ViewIsLocal ==
  ASSUME NEW t \in TxnIds, \A u \in TxnIds \ {t} : txns'[u] = txns[u]
  PROVE  \A u \in TxnIds \ {t} : LedgerView(u)' = LedgerView(u)
BY DEF LedgerView, Recorded

(* The seeded tables are an initial ledger. *)
LEMMA LedgerInit == ASSUME Init PROVE Ledger!Init
<1>1. [t \in TxnIds |-> LedgerView(t)] = [t \in TxnIds |-> None]
  BY DEF Init, LedgerView, Recorded
<1>2. [i \in Invoices |-> invoice[i].paid]
        = [f \in Invoices |-> [i \in Invoices |-> Seed[i].paid][f]]
  BY DEF Init
<1>3. {i \in Invoices : invoice[i].status = "PAID"}
        = {i \in Invoices : Seed[i].status = "PAID"}
  BY DEF Init
<1>4. [i \in Invoices |-> Cardinality(Successes(i))] = [f \in Invoices |-> 0]
  <2>1. ASSUME NEW i \in Invoices
        PROVE  Successes(i) = {}
    BY DEF Init, Successes, Succeeded, Recorded
  <2>2. QED
    BY <2>1, FS_EmptySet
<1>5. QED
  BY <1>1, <1>2, <1>3, <1>4 DEF Ledger!Init

(* Only a SUCCESS counts as one.                                           *)
LEMMA SuccessesUnchanged ==
  ASSUME NEW t \in TxnIds, \A u \in TxnIds \ {t} : txns'[u] = txns[u],
         txns'[t] # None, txns'[t].status # "SUCCESS",
         Recorded(t) => txns[t].status # "SUCCESS"
  PROVE  [i \in Invoices |-> Cardinality(Successes(i))]'
           = [i \in Invoices |-> Cardinality(Successes(i))]
<1>1. ASSUME NEW i \in Invoices
      PROVE  Successes(i)' = Successes(i)
  <2>1. ASSUME NEW u \in TxnIds
        PROVE  u \in Successes(i)' <=> u \in Successes(i)
    BY DEF Successes, Succeeded, Recorded
  <2>2. QED
    BY <2>1 DEF Successes
<1>2. QED
  BY <1>1

(* The INSERT of initiate_payment opens a payment.                         *)
LEMMA InsertOpens ==
  ASSUME IInv, IInv', NEW w \in Workers, NEW acknowledged \in BOOLEAN,
         InsertTxn(w, acknowledged)
  PROVE  Ledger!Next
<1>1. PICK t \in TxnIds, i \in Invoices : t = draft[w].txn /\ i = draft[w].invoice
  BY DEF InsertTxn, IInv, Shape, DraftsAreNew, InitiatePc, Draft
<1>2. /\ txns[t] = None /\ OpeningDebt(i) > 0
      /\ txns'[t] = NewRow(draft[w]) /\ UNCHANGED invoice
      /\ \A u \in TxnIds \ {t} : txns'[u] = txns[u]
  BY <1>1 DEF InsertTxn, IInv, Shape, DraftsAreNew, InitiatePc, TypeOK, MoneyIsWhole,
              CarriedAmountsAreWhole, CarriesWholeAmounts
<1>3. /\ txns'[t] # None
      /\ txns'[t].invoice = i /\ txns'[t].status = "PENDING" /\ txns'[t].utr = None
  <2>1. txns'[t] \in Row
    BY <1>1, <1>2 DEF IInv, Shape, DraftsAreNew, InsertTxn, InitiatePc, Draft, NewRow, Row,
                      PaymentStatus
  <2>2. QED
    BY <1>1, <1>2, <2>1, NoneAssumption DEF NewRow
<1>4. /\ LedgerView(t) = None
      /\ LedgerView(t)' = [fee |-> i, status |-> "PENDING", ref |-> None]
      /\ \A u \in TxnIds \ {t} : LedgerView(u)' = LedgerView(u)
  BY <1>2, <1>3, ViewIsLocal DEF LedgerView, Recorded
<1>5. [u \in TxnIds |-> LedgerView(u)]'
        = [[u \in TxnIds |-> LedgerView(u)] EXCEPT
             ![t] = [fee |-> i, status |-> "PENDING", ref |-> None]]
  BY <1>4
<1>6. [j \in Invoices |-> Cardinality(Successes(j))]'
        = [j \in Invoices |-> Cardinality(Successes(j))]
  BY <1>2, <1>3, SuccessesUnchanged DEF Recorded
<1>7. Ledger!Open(t, i)
  BY <1>2, <1>4, <1>5, <1>6 DEF Ledger!Open
<1>8. QED
  BY <1>7 DEF Ledger!Next

(* The COMMIT of reconcile_webhook closes its payment with a new reference. *)
LEMMA CommitCloses ==
  ASSUME IInv, NEW w \in Workers, NEW acknowledged \in BOOLEAN, Commit(w, acknowledged),
         NEW t \in TxnIds, t = msg[w].txn, NEW status, status = msg[w].status,
         NEW ref, ref = msg[w].utr
  PROVE  Ledger!Close(t, status, ref)
<1>1. /\ msg[w] \in Message /\ txns[t] \in Row /\ txns[t].status = "PENDING"
      /\ txns'[t] = [txns[t] EXCEPT !.status = msg[w].status, !.utr = msg[w].utr]
      /\ \A u \in TxnIds \ {t} : txns'[u] = txns[u]
  BY CommitEffect DEF IInv
<1>2. txns[t] # None /\ txns'[t] # None
  <2>1. txns'[t] \in Row
    BY <1>1 DEF Row, Message, PaymentStatus
  <2>2. QED
    BY <1>1, <2>1, NoneAssumption
<1>3. /\ LedgerView(t) = [fee |-> txns[t].invoice, status |-> "PENDING", ref |-> txns[t].utr]
      /\ LedgerView(t)' = [fee |-> txns[t].invoice, status |-> msg[w].status,
                           ref |-> msg[w].utr]
  BY <1>1, <1>2 DEF LedgerView, Recorded, Row
<1>4. LedgerView(t)' = [fee |-> LedgerView(t).fee, status |-> msg[w].status,
                        ref |-> msg[w].utr]
  BY <1>3
<1>5. [u \in TxnIds |-> LedgerView(u)]'
        = [[u \in TxnIds |-> LedgerView(u)] EXCEPT
             ![t] = [fee |-> @.fee, status |-> msg[w].status, ref |-> msg[w].utr]]
  BY <1>1, <1>4, ViewIsLocal
<1>6. LedgerView(t) # None /\ LedgerView(t).status = "PENDING"
  BY <1>2, <1>3, ViewOfRow DEF IInv, Recorded
<1>7. ASSUME msg[w].utr # None, NEW q \in TxnIds, LedgerView(q) # None
      PROVE  LedgerView(q).ref # msg[w].utr
  <2>1. ~UtrTaken(msg[w].utr)
    BY DEF Commit, IInv, LocksAreExclusive, UtrPc, LockedPc
  <2>2. Recorded(q) /\ LedgerView(q).ref = txns[q].utr
    BY <1>7, ViewOfRow DEF IInv
  <2>3. QED
    BY <1>7, <2>1, <2>2 DEF UtrTaken, Recorded
<1>8. QED
  BY <1>5, <1>6, <1>7 DEF Ledger!Close

(* A successful one settles it: the balance holds k of n + 1 payments.     *)
LEMMA CommitSettles ==
  ASSUME IInv, [Next]_vars, NEW w \in Workers, NEW acknowledged \in BOOLEAN,
         Commit(w, acknowledged), msg[w].status = "SUCCESS",
         NEW t \in TxnIds, t = msg[w].txn, NEW i \in Invoices, i = txns[t].invoice,
         NEW ref, ref = msg[w].utr
  PROVE  Ledger!Settle(t, i, ref)
<1>1. txns[t] \in Row /\ Recorded(t)
  BY CommitEffect, NoneAssumption DEF IInv, Recorded
<1>2. LedgerView(t).fee = i
  BY <1>1, ViewOfRow DEF IInv
<1>3. /\ invoice' = [invoice EXCEPT ![i] = [paid |-> NewPaid(w), status |-> "PAID"]]
      /\ \E k \in 1 .. Cardinality(Successes(i)) + 1 :
            NewPaid(w) = Seed[i].paid + k * OpeningDebt(i)
  BY CommitCredits DEF IInv
<1>4. {j \in Invoices : invoice[j].status = "PAID"}'
        = {j \in Invoices : invoice[j].status = "PAID"} \cup {i}
  BY <1>3 DEF IInv, Shape, TypeOK
<1>5. PICK k \in 1 .. Cardinality(Successes(i)) + 1 :
        [j \in Invoices |-> invoice[j].paid]'
          = [[j \in Invoices |-> invoice[j].paid] EXCEPT
               ![i] = [j \in Invoices |-> Seed[j].paid][i]
                      + k * [j \in Invoices |-> OpeningDebt(j)][i]]
  BY <1>3 DEF IInv, Shape, TypeOK
<1>6. [j \in Invoices |-> Cardinality(Successes(j))]'
        = [[j \in Invoices |-> Cardinality(Successes(j))] EXCEPT ![i] = @ + 1]
  <2>1. Cardinality(Successes(i)') = Cardinality(Successes(i)) + 1
    BY CommitAddsSuccess DEF IInv
  <2>2. ASSUME NEW j \in Invoices, j # i
        PROVE  Successes(j)' = Successes(j)
    <3>1. /\ \A u \in TxnIds \ {t} : txns'[u] = txns[u]
          /\ txns'[t].invoice = i
      BY <1>1, CommitEffect, RowsOnlySettle DEF IInv
    <3>2. ASSUME NEW u \in TxnIds
          PROVE  u \in Successes(j)' <=> u \in Successes(j)
      BY <2>2, <3>1 DEF Successes, Succeeded, Recorded
    <3>3. QED
      BY <3>2 DEF Successes
  <2>3. QED
    BY <2>1, <2>2
<1>7. Ledger!Close(t, "SUCCESS", ref)
  BY CommitCloses
<1>8. QED
  BY <1>2, <1>4, <1>5, <1>6, <1>7 DEF Ledger!Settle

(* Every step is a ledger step or leaves the ledger alone. *)
LEMMA LedgerStep ==
  ASSUME IInv, IInv', [Next]_vars
  PROVE  [Ledger!Next]_(Ledger!ledger)
<1>1. CASE UNCHANGED db
  BY <1>1 DEF db, Ledger!ledger, LedgerView, Recorded, Successes, Succeeded
<1>2. ASSUME NEW w \in Workers, NEW acknowledged \in BOOLEAN, Commit(w, acknowledged)
      PROVE  Ledger!Next
  <2>1. PICK t \in TxnIds : t = msg[w].txn /\ msg[w] \in Message /\ txns[t] \in Row
    BY <1>2, CommitEffect DEF IInv, Message
  <2>2. PICK i \in Invoices : i = txns[t].invoice
    BY <2>1 DEF Row
  <2>3. PICK ref \in Utrs \cup {None} : ref = msg[w].utr
    BY <2>1 DEF Message
  <2>4. CASE msg[w].status = "SUCCESS"
    <3>1. Ledger!Settle(t, i, ref)
      BY <1>2, <2>1, <2>2, <2>3, <2>4, CommitSettles
    <3>2. QED
      BY <2>3, <3>1 DEF Ledger!Next
  <2>5. CASE msg[w].status = "FAILED"
    <3>1. UNCHANGED invoice
      BY <1>2, <2>5 DEF Commit
    <3>2. /\ \A u \in TxnIds \ {t} : txns'[u] = txns[u]
          /\ txns[t].status = "PENDING"
          /\ txns'[t] = [txns[t] EXCEPT !.status = "FAILED", !.utr = msg[w].utr]
      BY <1>2, <2>1, <2>5, CommitEffect DEF IInv
    <3>3. txns'[t] # None /\ txns'[t].status = "FAILED"
      <4>1. txns'[t] \in Row
        BY <2>1, <3>2 DEF Row, Message, PaymentStatus
      <4>2. QED
        BY <2>1, <3>2, <4>1, NoneAssumption DEF Row
    <3>4. [j \in Invoices |-> Cardinality(Successes(j))]'
            = [j \in Invoices |-> Cardinality(Successes(j))]
      BY <3>2, <3>3, SuccessesUnchanged
    <3>5. Ledger!Fail(t, ref)
      BY <1>2, <2>1, <2>3, <2>5, <3>1, <3>4, CommitCloses DEF Ledger!Fail
    <3>6. QED
      BY <2>3, <3>5 DEF Ledger!Next
  <2>6. QED
    BY <2>1, <2>4, <2>5 DEF Message
<1>3. QED
  BY <1>1, <1>2, InsertOpens, TableSteps

(* The payment core implements the ledger of SettlementLedger.             *)
THEOREM Refinement == Spec => ImplementsLedger
<1>1. Init => Ledger!Init
  BY LedgerInit
<1>2. IInv /\ IInv' /\ [Next]_vars => [Ledger!Next]_(Ledger!ledger)
  BY LedgerStep
<1>3. QED
  BY <1>1, <1>2, Invariance, PTL DEF Spec, ImplementsLedger, Ledger!Spec

-----------------------------------------------------------------------------
(* The causes of what the code does not keep. *)

(* A step is one thread's; the others stand, unless the process dies.      *)
LEMMA OneThreadMoves ==
  ASSUME Shape, [Next]_vars, NEW v \in Workers, pc'[v] # "idle"
  PROVE  \/ Stands(v)
         \/ InitiateRequest(v) \/ WebhookRequest(v) \/ Proceed(v)
<1> USE DEF Stands, Answer, Goto, Shape, TypeOK
<1>1. ASSUME NEW w \in Workers, w # v, InitiateRequest(w) \/ WebhookRequest(w)
      PROVE  Stands(v)
  BY <1>1 DEF InitiateRequest, WebhookRequest, RefuseInitiate, AcceptInitiate,
              RefuseWebhook, AcceptWebhook
<1>2. ASSUME NEW w \in Workers, w # v, Proceed(w) \/ StatementFails(w)
      PROVE  Stands(v)
  BY <1>2 DEF Proceed, StatementFails, CallQrService, InsertTxn, LockTxn, UpdateTxn,
              ReadInvoice, UpdateInvoice, Commit
<1>3. ~StatementFails(v) /\ ~Crash
  BY DEF StatementFails, Crash
<1>4. CASE UNCHANGED vars
  BY <1>4 DEF vars
<1>5. QED
  BY <1>1, <1>2, <1>3, <1>4 DEF Next

(* A thread past its read of the invoice has read before, or reads now.    *)
LEMMA CreditsWere ==
  ASSUME Shape, LocksAreExclusive, [Next]_vars, NEW v \in Workers, NEW i \in Invoices,
         Credits(v, i)'
  PROVE  \/ Credits(v, i) /\ seen'[v] = seen[v] /\ pc'[v] # "idle"
         \/ seen'[v] = invoice[i].paid /\ UNCHANGED db
<1> USE DEF Credits, Crediting
<1>1. pc'[v] \in {"updateInvoice", "commit"}
  OBVIOUS
<1>2. CASE Stands(v)
  <2>1. pc[v] \in LockedPc /\ pc[v] \in SessionPc /\ Crediting(v)
    BY <1>1, <1>2 DEF Stands, LockedPc, SessionPc
  <2>2. msg[v].txn \in TxnIds /\ Recorded(msg[v].txn)
    BY <2>1 DEF Shape, SessionsAreTyped, Message
  <2>3. txns'[msg[v].txn].invoice = txns[msg[v].txn].invoice
    BY <2>2, RowsOnlySettle
  <2>4. QED
    BY <1>1, <1>2, <2>1, <2>3 DEF Stands
<1>3. CASE ReadInvoice(v)
  BY <1>3 DEF ReadInvoice, db, Shape, TypeOK
<1>4. CASE UpdateInvoice(v)
  <2>1. UNCHANGED <<db, msg, seen>> /\ pc[v] = "updateInvoice"
    BY <1>1, <1>4 DEF UpdateInvoice, Answer, Shape, TypeOK
  <2>2. QED
    BY <1>1, <2>1 DEF db
<1>5. CASE InitiateRequest(v) \/ WebhookRequest(v)
  <2>1. pc'[v] \notin {"updateInvoice", "commit"}
    BY <1>5 DEF InitiateRequest, WebhookRequest, RefuseInitiate, AcceptInitiate,
                RefuseWebhook, AcceptWebhook, Answer, Goto, Shape, TypeOK
  <2>2. QED
    BY <1>1, <2>1
<1>6. CASE UpdateTxn(v)
  <2>1. pc'[v] \in {"idle", "readInvoice"} \/ (msg[v].status # "SUCCESS" /\ msg' = msg)
    BY <1>6 DEF UpdateTxn, Answer, Goto, Shape, TypeOK
  <2>2. pc'[v] # "updateInvoice"
    BY <1>6 DEF UpdateTxn, Answer, Goto, Shape, TypeOK
  <2>3. QED
    BY <1>1, <2>1, <2>2
<1>7. CASE \/ \E rendered \in BOOLEAN : CallQrService(v, rendered)
           \/ \E acknowledged \in BOOLEAN : InsertTxn(v, acknowledged)
           \/ LockTxn(v)
           \/ \E acknowledged \in BOOLEAN : Commit(v, acknowledged)
  <2>1. pc'[v] \notin {"updateInvoice", "commit"}
    BY <1>7 DEF CallQrService, InsertTxn, LockTxn, Commit, Answer, Goto, Shape, TypeOK
  <2>2. QED
    BY <1>1, <2>1
<1>8. QED
  BY <1>1, <1>2, <1>3, <1>4, <1>5, <1>6, <1>7, OneThreadMoves DEF Proceed

(* A commit concerns the successes of its own invoice only.                *)
LEMMA OtherSuccesses ==
  ASSUME Shape, LocksAreExclusive, [Next]_vars,
         NEW w \in Workers, NEW acknowledged \in BOOLEAN, Commit(w, acknowledged),
         NEW j \in Invoices, txns[msg[w].txn].invoice # j
  PROVE  Successes(j)' = Successes(j)
<1>1. PICK t \in TxnIds : t = msg[w].txn
  BY CommitEffect DEF Message
<1>2. txns[t] \in Row /\ \A u \in TxnIds \ {t} : txns'[u] = txns[u]
  BY <1>1, CommitEffect
<1>3. txns'[t].invoice # j
  BY <1>1, <1>2, RowsOnlySettle, NoneAssumption DEF Recorded
<1>4. \A u \in TxnIds : u \in Successes(j)' <=> u \in Successes(j)
  BY <1>1, <1>2, <1>3 DEF Successes, Succeeded, Recorded
<1>5. QED
  BY <1>4 DEF Successes

(* A step that is not the commit of a SUCCESS makes no success.            *)
LEMMA SuccessesStay ==
  ASSUME Shape, LocksAreExclusive, [Next]_vars, NEW i \in Invoices
  PROVE  \/ Successes(i)' = Successes(i) /\ invoice' = invoice
         \/ \E w \in Workers, acknowledged \in BOOLEAN :
               Commit(w, acknowledged) /\ msg[w].status = "SUCCESS"
<1>1. CASE UNCHANGED db
  BY <1>1 DEF db, Successes, Succeeded, Recorded
<1>2. ASSUME NEW w \in Workers, NEW acknowledged \in BOOLEAN, InsertTxn(w, acknowledged)
      PROVE  Successes(i)' = Successes(i) /\ invoice' = invoice
  <2>1. PICK t \in TxnIds : t = draft[w].txn
    BY <1>2 DEF InsertTxn, Shape, DraftsAreNew, InitiatePc, Draft
  <2>2. /\ txns[t] = None /\ txns'[t].status = "PENDING"
        /\ \A u \in TxnIds \ {t} : txns'[u] = txns[u]
    BY <1>2, <2>1 DEF InsertTxn, NewRow, Shape, TypeOK, DraftsAreNew, InitiatePc
  <2>3. \A u \in TxnIds : u \in Successes(i)' <=> u \in Successes(i)
    BY <2>2 DEF Successes, Succeeded, Recorded
  <2>4. QED
    BY <1>2, <2>3 DEF Successes, InsertTxn
<1>3. ASSUME NEW w \in Workers, NEW acknowledged \in BOOLEAN, Commit(w, acknowledged),
             msg[w].status # "SUCCESS"
      PROVE  Successes(i)' = Successes(i) /\ invoice' = invoice
  <2>1. PICK t \in TxnIds : t = msg[w].txn
    BY <1>3, CommitEffect DEF Message
  <2>2. /\ txns[t] \in Row /\ msg[w] \in Message /\ txns[t].status = "PENDING"
        /\ txns'[t] = [txns[t] EXCEPT !.status = msg[w].status, !.utr = msg[w].utr]
        /\ \A u \in TxnIds \ {t} : txns'[u] = txns[u]
    BY <1>3, <2>1, CommitEffect
  <2>3. txns'[t].status # "SUCCESS"
    BY <1>3, <2>2 DEF Row
  <2>4. \A u \in TxnIds : u \in Successes(i)' <=> u \in Successes(i)
    BY <2>2, <2>3 DEF Successes, Succeeded, Recorded
  <2>5. QED
    BY <1>3, <2>4 DEF Successes, Commit
<1>4. QED
  BY <1>1, <1>2, <1>3, TableSteps

(* While credits take turns, a commit adds its debt to the balance it      *)
(* replaces, and leaves no thread with an old one.                         *)
LEMMA TurnsStep ==
  ASSUME TurnsInv, [Next /\ CreditsTakeTurns']_vars
  PROVE  TurnsInv'
<1>s. Shape /\ LocksAreExclusive /\ MoneyIsWhole /\ [Next]_vars
  BY DEF TurnsInv, IInv
<1>1. IInv'
  BY <1>s, IInvStep DEF TurnsInv
<1>2. CreditsTakeTurns'
  <2>1. CASE UNCHANGED vars
    BY <2>1 DEF TurnsInv, CreditsTakeTurns, Credits, Crediting, vars
  <2>2. QED
    BY <2>1
<1>3. ASSUME NEW w \in Workers, NEW acknowledged \in BOOLEAN, Commit(w, acknowledged),
             msg[w].status = "SUCCESS"
      PROVE  ReadBalanceIsCurrent' /\ BalanceIsSumOfSuccesses'
  <2>1. PICK i \in Invoices : i = txns[msg[w].txn].invoice
    BY <1>s, <1>3, CommitEffect DEF Row
  <2>2. Credits(w, i) /\ seen[w] = invoice[i].paid
    BY <1>3, <2>1 DEF Commit, Credits, Crediting, TurnsInv, ReadBalanceIsCurrent
  <2>3. msg[w].txn \in TxnIds /\ Recorded(msg[w].txn)
    BY <1>s, <1>3, CommitEffect, NoneAssumption DEF Message, Recorded
  <2>4. txns[msg[w].txn].amount = OpeningDebt(i)
    BY <1>s, <2>1, <2>3 DEF MoneyIsWhole, NothingIsPaidInPart
  <2>5. /\ invoice'[i].paid = invoice[i].paid + OpeningDebt(i)
        /\ \A j \in Invoices \ {i} : invoice'[j] = invoice[j]
    <3>1. invoice' = [invoice EXCEPT ![i] = [paid |-> NewPaid(w), status |-> "PAID"]]
      BY <1>s, <1>3, <2>1, CommitCredits
    <3>2. QED
      BY <1>s, <2>2, <2>4, <3>1 DEF NewPaid, Shape, TypeOK
  <2>6. Cardinality(Successes(i)') = Cardinality(Successes(i)) + 1
    BY <1>s, <1>3, <2>1, CommitAddsSuccess
  <2>7. \A j \in Invoices \ {i} : Successes(j)' = Successes(j)
    BY <1>s, <1>3, <2>1, OtherSuccesses
  <2>8. invoice'[i].paid = Seed[i].paid + Cardinality(Successes(i)') * OpeningDebt(i)
    <3>1. PICK n \in Nat : n = Cardinality(Successes(i))
      BY SuccessesAreFinite
    <3>2. invoice[i].paid = Seed[i].paid + n * OpeningDebt(i)
      BY <3>1 DEF TurnsInv, BalanceIsSumOfSuccesses
    <3>3. QED
      BY <2>5, <2>6, <3>1, <3>2, DebtIsInteger, OneMoreDebt
  <2>9. BalanceIsSumOfSuccesses'
    BY <2>5, <2>7, <2>8 DEF TurnsInv, BalanceIsSumOfSuccesses, OpeningDebt
  <2>10. ASSUME NEW j \in Invoices, NEW v \in Workers, Credits(v, j)'
         PROVE  seen'[v] = invoice'[j].paid
    <3>1. pc'[w] = "idle" /\ txns' # txns
      <4>1. pc'[w] = "idle"
        BY <1>s, <1>3 DEF Commit, Answer, Shape, TypeOK
      <4>2. /\ txns[msg[w].txn] \in Row /\ txns[msg[w].txn].status = "PENDING"
            /\ txns'[msg[w].txn] = [txns[msg[w].txn] EXCEPT !.status = msg[w].status,
                                                           !.utr = msg[w].utr]
        BY <1>s, <1>3, CommitEffect
      <4>3. txns'[msg[w].txn].status = "SUCCESS"
        BY <1>3, <4>2 DEF Row
      <4>4. QED
        BY <4>1, <4>2, <4>3
    <3>2. Credits(v, j) /\ seen'[v] = seen[v] /\ v # w
      BY <1>s, <2>10, <3>1, CreditsWere DEF db
    <3>3. j # i
      BY <2>2, <3>2 DEF TurnsInv, CreditsTakeTurns
    <3>4. QED
      BY <2>5, <3>2, <3>3 DEF TurnsInv, ReadBalanceIsCurrent
  <2>11. QED
    BY <2>9, <2>10 DEF ReadBalanceIsCurrent
<1>4. ASSUME \A i \in Invoices : Successes(i)' = Successes(i) /\ invoice' = invoice
      PROVE  ReadBalanceIsCurrent' /\ BalanceIsSumOfSuccesses'
  <2>1. BalanceIsSumOfSuccesses'
    BY <1>4 DEF TurnsInv, BalanceIsSumOfSuccesses, OpeningDebt
  <2>2. ASSUME NEW j \in Invoices, NEW v \in Workers, Credits(v, j)'
        PROVE  seen'[v] = invoice'[j].paid
    <3>1. CASE Credits(v, j) /\ seen'[v] = seen[v]
      BY <1>4, <3>1 DEF TurnsInv, ReadBalanceIsCurrent
    <3>2. QED
      BY <1>s, <1>4, <2>2, <3>1, CreditsWere
  <2>3. QED
    BY <2>1, <2>2 DEF ReadBalanceIsCurrent
<1>5. ReadBalanceIsCurrent' /\ BalanceIsSumOfSuccesses'
  BY <1>s, <1>3, <1>4, SuccessesStay
<1>6. QED
  BY <1>1, <1>2, <1>5 DEF TurnsInv

(* The seeded balances hold what no transaction has brought yet.           *)
LEMMA TurnsInit == ASSUME Init PROVE TurnsInv
<1>1. IInv
  BY IInvInit
<1>2. \A w \in Workers : ~Crediting(w)
  BY DEF Init, Crediting
<1>3. ASSUME NEW i \in Invoices
      PROVE  invoice[i].paid = Seed[i].paid + Cardinality(Successes(i)) * OpeningDebt(i)
  <2>1. Successes(i) = {} /\ Cardinality({}) = 0
    BY FS_EmptySet DEF Init, Successes, Succeeded, Recorded
  <2>2. 0 * OpeningDebt(i) = 0
    BY DebtIsInteger
  <2>3. QED
    BY <2>1, <2>2, DebtIsInteger DEF Init
<1>4. QED
  BY <1>1, <1>2, <1>3
     DEF TurnsInv, CreditsTakeTurns, ReadBalanceIsCurrent, Credits, BalanceIsSumOfSuccesses

(* If no two webhooks credit one invoice at the same time, the threads,    *)
(* the tables and what the threads have read agree to the last credit.     *)
THEOREM TurnsInvariance == TurnsSpec => []TurnsInv
<1>1. Init => TurnsInv
  BY TurnsInit
<1>2. TurnsInv /\ [Next /\ CreditsTakeTurns']_vars => TurnsInv'
  BY TurnsStep
<1>3. QED
  BY <1>1, <1>2, PTL DEF TurnsSpec

(* The unlocked read of the invoice is all that can make a balance miss a  *)
(* success: where credits take turns, README.md:121 holds.                 *)
THEOREM TurnsLoseNothing == TurnsSpec => []BalanceIsSumOfSuccesses
<1>1. TurnsInv => BalanceIsSumOfSuccesses
  BY DEF TurnsInv
<1>2. QED
  BY <1>1, TurnsInvariance, PTL

(* A payment that may be credited could be before, unless it is being      *)
(* accepted.                                                               *)
LEMMA ContendersWere ==
  ASSUME Shape, LocksAreExclusive, [Next]_vars, NEW i \in Invoices, NEW t \in Contenders(i)'
  PROVE  \/ t \in Contenders(i)
         \/ \E w \in Workers, s \in Students, mode \in Modes : AcceptInitiate(w, s, i, mode, t)
<1> USE DEF Contenders, OpenPayments
<1>1. CASE t \in TxnIds /\ Recorded(t)' /\ txns'[t].invoice = i
           /\ txns'[t].status \in {"PENDING", "SUCCESS"}
  <2>1. CASE txns'[t] = txns[t]
    BY <1>1, <2>1 DEF Successes, Succeeded, Recorded
  <2>2. ASSUME NEW w \in Workers, NEW acknowledged \in BOOLEAN, InsertTxn(w, acknowledged),
               txns'[t] # txns[t]
        PROVE  t \in OpenPayments(i)
    <3>1. draft[w].txn = t /\ pc[w] \in InitiatePc /\ txns'[t] = NewRow(draft[w])
      BY <1>1, <2>2 DEF InsertTxn, InitiatePc, Shape, TypeOK
    <3>2. draft[w].invoice = i
      BY <1>1, <3>1 DEF NewRow
    <3>3. QED
      BY <3>1, <3>2
  <2>3. ASSUME NEW w \in Workers, NEW acknowledged \in BOOLEAN, Commit(w, acknowledged),
               txns'[t] # txns[t]
        PROVE  t \in OpenPayments(i)
    <3>1. t = msg[w].txn /\ txns[t] \in Row /\ txns[t].status = "PENDING"
      BY <1>1, <2>3, CommitEffect
    <3>2. Recorded(t) /\ txns'[t].invoice = txns[t].invoice
      BY <1>1, <3>1, RowsOnlySettle, NoneAssumption DEF Recorded
    <3>3. QED
      BY <1>1, <3>1, <3>2
  <2>4. QED
    BY <2>1, <2>2, <2>3, TableSteps DEF db
<1>2. ASSUME NEW w \in Workers, pc'[w] \in InitiatePc, draft'[w].invoice = i,
             t = draft'[w].txn
      PROVE  \/ t \in OpenPayments(i)
             \/ \E s \in Students, mode \in Modes : AcceptInitiate(w, s, i, mode, t)
  <2>1. pc'[w] # "idle"
    BY <1>2 DEF InitiatePc
  <2>2. CASE Stands(w)
    BY <1>2, <2>2 DEF Stands
  <2>3. CASE InitiateRequest(w)
    <3>1. PICK s \in Students, j \in Invoices, mode \in Modes, u \in TxnIds :
            AcceptInitiate(w, s, j, mode, u)
      BY <2>1, <2>3 DEF InitiateRequest, RefuseInitiate, Answer, Shape, TypeOK
    <3>2. draft'[w].invoice = j /\ draft'[w].txn = u
      BY <3>1 DEF AcceptInitiate, Shape, TypeOK
    <3>3. QED
      BY <1>2, <3>1, <3>2
  <2>4. CASE \E rendered \in BOOLEAN : CallQrService(w, rendered)
    <3>1. draft' = draft /\ pc[w] \in InitiatePc
      BY <2>4 DEF CallQrService, InitiatePc
    <3>2. QED
      BY <1>2, <3>1
  <2>5. CASE WebhookRequest(w)
    BY <1>2, <2>5 DEF WebhookRequest, RefuseWebhook, AcceptWebhook, Answer, Goto, Shape,
                      TypeOK, InitiatePc
  <2>6. CASE \/ \E acknowledged \in BOOLEAN : InsertTxn(w, acknowledged)
             \/ \E acknowledged \in BOOLEAN : Commit(w, acknowledged)
             \/ LockTxn(w) \/ UpdateTxn(w) \/ ReadInvoice(w) \/ UpdateInvoice(w)
    <3>1. pc'[w] \notin InitiatePc
      BY <2>6 DEF InsertTxn, Commit, LockTxn, UpdateTxn, ReadInvoice, UpdateInvoice, Answer,
                  Goto, Shape, TypeOK, InitiatePc
    <3>2. QED
      BY <1>2, <3>1
  <2>7. QED
    BY <2>1, <2>2, <2>3, <2>4, <2>5, <2>6, OneThreadMoves DEF Proceed
<1>3. QED
  BY <1>1, <1>2 DEF Successes, Succeeded

(* A payment is accepted only while none has succeeded.                    *)
LEMMA AcceptedFirst ==
  ASSUME IInv, NEW w \in Workers, NEW s \in Students, NEW i \in Invoices, NEW mode \in Modes,
         NEW t \in TxnIds, AcceptInitiate(w, s, i, mode, t)
  PROVE  Successes(i)' = {}
<1>1. ASSUME NEW u \in Successes(i)
      PROVE  FALSE
  <2>1. Paid(i)
    BY <1>1 DEF IInv, MoneyIsWhole, SuccessImpliesPaid, Successes
  <2>2. QED
    BY <2>1 DEF AcceptInitiate, Settled, Paid
<1>2. Successes(i)' = Successes(i)
  BY DEF AcceptInitiate, db, Successes, Succeeded, Recorded
<1>3. QED
  BY <1>1, <1>2

(* While one payment is open at a time, one is all there ever is to credit. *)
LEMMA OneOpenStep ==
  ASSUME OneOpenInv, [Next /\ OneOpenPayment']_vars
  PROVE  OneOpenInv'
<1>1. IInv' /\ IInv /\ Shape /\ LocksAreExclusive
  BY IInvStep DEF OneOpenInv, IInv
<1>2. CASE UNCHANGED vars
  BY <1>1, <1>2 DEF OneOpenInv, Contenders, OpenPayments, Successes, Succeeded, Recorded, vars
<1>3. ASSUME Next, OneOpenPayment',
             NEW i \in Invoices, NEW t \in Contenders(i)', NEW u \in Contenders(i)'
      PROVE  t = u
  <2>1. CASE t \in Contenders(i) /\ u \in Contenders(i)
    BY <2>1 DEF OneOpenInv
  <2>2. CASE \E x \in {t, u} : \E w \in Workers, s \in Students, mode \in Modes :
               AcceptInitiate(w, s, i, mode, x)
    <3>1. PICK x \in {t, u}, w \in Workers, s \in Students, mode \in Modes :
            AcceptInitiate(w, s, i, mode, x)
      BY <2>2
    <3>2. x \in TxnIds
      <4>1. draft'[w] = [txn |-> x, invoice |-> i, student |-> s, amount |-> Outstanding(i)]
            /\ pc'[w] \in InitiatePc
        BY <1>1, <3>1 DEF AcceptInitiate, Goto, Shape, TypeOK, InitiatePc
      <4>2. QED
        BY <1>1, <4>1 DEF IInv, Shape, DraftsAreNew, Draft
    <3>3. Successes(i)' = {}
      BY <1>1, <3>1, <3>2, AcceptedFirst
    <3>4. t \in OpenPayments(i)' /\ u \in OpenPayments(i)'
      BY <3>3 DEF Contenders
    <3>5. QED
      BY <1>3, <3>4 DEF OneOpenPayment
  <2>3. QED
    BY <1>1, <1>3, <2>1, <2>2, ContendersWere
<1>4. QED
  BY <1>1, <1>2, <1>3 DEF OneOpenInv

(* No payment is open or settled before the first request.                 *)
LEMMA OneOpenInit == ASSUME Init PROVE OneOpenInv
<1>1. IInv
  BY IInvInit
<1>2. \A i \in Invoices : Contenders(i) = {}
  BY DEF Init, Contenders, OpenPayments, Successes, Succeeded, Recorded, InitiatePc
<1>3. QED
  BY <1>1, <1>2 DEF OneOpenInv

(* One success at most, and a balance that is what it brought.             *)
LEMMA OneCredit ==
  ASSUME OneOpenInv, NEW i \in Invoices
  PROVE  \/ Successes(i) = {} /\ invoice[i].paid = Seed[i].paid
         \/ Cardinality(Successes(i)) = 1 /\ invoice[i].paid = Seed[i].due
<1>1. PICK k \in 0 .. Cardinality(Successes(i)) :
        invoice[i].paid = Seed[i].paid + k * OpeningDebt(i)
  BY DEF OneOpenInv, IInv, MoneyIsWhole, EveryCreditIsBacked, Backed
<1>2. CASE Successes(i) = {}
  <2>1. k = 0 /\ 0 * OpeningDebt(i) = 0
    BY <1>1, <1>2, FS_EmptySet, DebtIsInteger
  <2>2. QED
    BY <1>1, <1>2, <2>1, DebtIsInteger
<1>3. CASE Successes(i) # {}
  <2>1. PICK t \in Successes(i) : TRUE
    BY <1>3
  <2>2. Successes(i) = {t}
    BY <2>1 DEF OneOpenInv, Contenders
  <2>3. Cardinality(Successes(i)) = 1
    BY <2>2, FS_Singleton
  <2>4. Paid(i) /\ OpeningDebt(i) > 0
    BY <2>1 DEF OneOpenInv, IInv, MoneyIsWhole, SuccessImpliesPaid, NothingIsPaidInPart,
                Successes, Succeeded
  <2>5. k \in {0, 1}
    BY <1>1, <2>3
  <2>6. 0 * OpeningDebt(i) = 0 /\ 1 * OpeningDebt(i) = OpeningDebt(i)
    BY DebtIsInteger
  <2>7. QED
    BY <1>1, <2>3, <2>4, <2>5, <2>6, DebtIsInteger DEF Paid
<1>4. QED
  BY <1>2, <1>3

(* If no second payment of an invoice is opened beside an open one, the    *)
(* invoice has one credited payment at most.                               *)
THEOREM OneOpenInvariance == OneOpenSpec => []OneOpenInv
<1>1. Init => OneOpenInv
  BY OneOpenInit
<1>2. OneOpenInv /\ [Next /\ OneOpenPayment']_vars => OneOpenInv'
  BY OneOpenStep
<1>3. QED
  BY <1>1, <1>2, PTL DEF OneOpenSpec

(* A second open payment is all that can credit an invoice twice: with the *)
(* idempotent creation of README.md:943 there is no double credit, though  *)
(* the invoice is still read without a lock.                               *)
THEOREM OneOpenCreditsOnce == OneOpenSpec => []NoDoubleCredit
<1>1. OneOpenInv => NoDoubleCredit
  BY OneCredit, DebtIsInteger DEF NoDoubleCredit
<1>2. QED
  BY <1>1, OneOpenInvariance, PTL

(* Nor is a success missed then, for no two webhooks credit one invoice.   *)
THEOREM OneOpenLosesNothing == OneOpenSpec => []BalanceIsSumOfSuccesses
<1>1. ASSUME OneOpenInv, NEW i \in Invoices
      PROVE  invoice[i].paid = Seed[i].paid + Cardinality(Successes(i)) * OpeningDebt(i)
  <2>1. CASE Successes(i) = {} /\ invoice[i].paid = Seed[i].paid
    <3>1. Cardinality(Successes(i)) = 0 /\ 0 * OpeningDebt(i) = 0
      BY <2>1, FS_EmptySet, DebtIsInteger
    <3>2. QED
      BY <2>1, <3>1, DebtIsInteger
  <2>2. CASE Cardinality(Successes(i)) = 1 /\ invoice[i].paid = Seed[i].due
    <3>1. 1 * OpeningDebt(i) = OpeningDebt(i)
      BY DebtIsInteger
    <3>2. QED
      BY <2>2, <3>1, DebtIsInteger
  <2>3. QED
    BY <1>1, <2>1, <2>2, OneCredit
<1>2. OneOpenInv => BalanceIsSumOfSuccesses
  BY <1>1 DEF BalanceIsSumOfSuccesses
<1>3. QED
  BY <1>2, OneOpenInvariance, PTL
===============================================================================
