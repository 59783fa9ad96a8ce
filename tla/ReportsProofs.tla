----------------------------- MODULE ReportsProofs -----------------------------
(* Proofs about Reports, for any payments, invoices, bank references and   *)
(* any zone of the server.                                                 *)
EXTENDS Reports, TLAPS

(* IInv in three parts: the tables, the dashboard, the receipts.           *)
TablesOK ==
    /\ payment \in [Payments -> Row \cup {None}]
    /\ closed \subseteq Fees
    /\ completed \in [Payments -> Int \cup {None}]
    /\ SuccessClosesFee

DashboardOK ==
    /\ today \in Int \cup {None}
    /\ figure \in [Names -> SUBSET (Payments \cup Fees)]
    /\ FiguresAreFinal
    /\ FiguresInOrder
    /\ NoneCountedTwice

ReceiptsOK ==
    /\ draft \in Draft \cup {None}
    /\ receipt \in [Payments -> Receipt \cup {Damaged, None}]
    /\ ReceiptsRepeatRows

CountersOK == now \in 0 .. MaxTime /\ at \in 0 .. 7

LEMMA SixQueries == Len(Queries) = 6
BY DEF Queries

(* The three parts and the counters are the whole.                         *)
LEMMA Parts == IInv <=> TablesOK /\ DashboardOK /\ ReceiptsOK /\ CountersOK
<1>1. 0 .. Len(Queries) + 1 = 0 .. 7
  BY SixQueries
<1>2. QED
  BY <1>1 DEF IInv, TypeOK, TablesOK, DashboardOK, ReceiptsOK, CountersOK

(* Final states are final, and an invoice that is paid stays paid.         *)
Grows ==
    /\ \A p \in Payments : payment[p] # None /\ payment[p].status # "PENDING" =>
          payment'[p] = payment[p] /\ completed'[p] = completed[p]
    /\ closed \subseteq closed'

(* The receipts that are there stay, as they are or damaged.               *)
Same ==
    \A p \in Payments :
        /\ receipt[p] # None => receipt'[p] # None
        /\ Readable(p) => receipt'[p] \in {receipt[p], Damaged}

-----------------------------------------------------------------------------
(* A new PENDING payment.                                                  *)
LEMMA Opened ==
  ASSUME TablesOK, NEW p \in Payments, NEW f \in Fees, Open(p, f)
  PROVE  TablesOK' /\ Grows
<1>1. PICK r \in Row : r = [fee |-> f, status |-> "PENDING", ref |-> None]
  BY DEF Row, Status
<1>2. /\ payment[p] = None
      /\ payment' = [payment EXCEPT ![p] = r]
      /\ closed' = closed /\ completed' = completed
  BY <1>1 DEF Open, Ledger!Open
<1>3. payment' \in [Payments -> Row \cup {None}]
  BY <1>2 DEF TablesOK
<1>4. r.status = "PENDING" /\ r # None
  BY <1>1, NoneAssumption
<1>5. InStatus("SUCCESS")' = InStatus("SUCCESS")
  BY <1>2, <1>4 DEF InStatus, TablesOK
<1>6. SuccessClosesFee'
  BY <1>2, <1>4, <1>5 DEF SuccessClosesFee, TablesOK, InStatus
<1>7. QED
  BY <1>2, <1>3, <1>6 DEF TablesOK, Grows

(* A PENDING payment gets its final state and its time.                    *)
LEMMA Closing ==
  ASSUME TablesOK, CountersOK, NEW p \in Payments, NEW status \in {"SUCCESS", "FAILED"},
         NEW ref \in Refs \cup {None}, Ledger!Close(p, status, ref), Complete(p),
         closed' = IF status = "SUCCESS" THEN closed \cup {payment[p].fee} ELSE closed
  PROVE  TablesOK' /\ Grows
<1>1. payment[p] \in Row /\ payment[p].status = "PENDING"
  BY DEF Ledger!Close, TablesOK
<1>2. PICK f \in Fees : f = payment[p].fee
  BY <1>1 DEF Row
<1>3. PICK r \in Row : r = [fee |-> f, status |-> status, ref |-> ref]
  BY DEF Row, Status
<1>4. payment' = [payment EXCEPT ![p] = r]
  BY <1>2, <1>3 DEF Ledger!Close, TablesOK
<1>5. PICK t \in Int : completed' = [completed EXCEPT ![p] = t]
  <2>1. 0 .. now \subseteq Int
    BY DEF CountersOK
  <2>2. QED
    BY <2>1 DEF Complete
<1>5a. t # None
  BY NoneAssumption
<1>6. payment' \in [Payments -> Row \cup {None}] /\ completed' \in [Payments -> Int \cup {None}]
  BY <1>4, <1>5 DEF TablesOK
<1>7. r # None /\ r.status = status /\ r.fee = f
  BY <1>3, NoneAssumption
<1>8. /\ payment'[p] = r /\ completed'[p] = t
      /\ \A q \in Payments \ {p} : payment'[q] = payment[q] /\ completed'[q] = completed[q]
  BY <1>4, <1>5 DEF TablesOK
<1>9. CASE status = "SUCCESS"
  <2>1. InStatus("SUCCESS")' = InStatus("SUCCESS") \cup {p} /\ closed' = closed \cup {f}
    BY <1>1, <1>2, <1>7, <1>8, <1>9 DEF InStatus
  <2>2. \A q \in InStatus("SUCCESS") : payment'[q] = payment[q]
    BY <1>1, <1>8 DEF InStatus
  <2>3. \A q \in InStatus("SUCCESS")' : payment'[q].fee \in closed'
    BY <1>7, <1>8, <2>1, <2>2 DEF TablesOK, SuccessClosesFee
  <2>4. \A g \in closed' \ ClosedAtStart : \E q \in InStatus("SUCCESS")' : payment'[q].fee = g
    BY <1>7, <1>8, <2>1, <2>2 DEF TablesOK, SuccessClosesFee
  <2>5. \A q \in Payments : payment'[q] # None /\ payment'[q].status # "PENDING" => completed'[q] # None
    BY <1>8, <1>5a DEF TablesOK, SuccessClosesFee
  <2>6. SuccessClosesFee'
    BY <2>3, <2>4, <2>5 DEF SuccessClosesFee
  <2>7. QED
    BY <1>1, <1>2, <1>6, <1>8, <2>1, <2>6 DEF TablesOK, Grows
<1>10. CASE status = "FAILED"
  <2>1. InStatus("SUCCESS")' = InStatus("SUCCESS") /\ closed' = closed
    BY <1>1, <1>7, <1>8, <1>10 DEF InStatus
  <2>2. \A q \in InStatus("SUCCESS") : payment'[q] = payment[q]
    BY <1>1, <1>8 DEF InStatus
  <2>3. \A q \in Payments : payment'[q] # None /\ payment'[q].status # "PENDING" => completed'[q] # None
    BY <1>8, <1>5a DEF TablesOK, SuccessClosesFee
  <2>4. SuccessClosesFee'
    BY <2>1, <2>2, <2>3 DEF TablesOK, SuccessClosesFee
  <2>5. QED
    BY <1>1, <1>6, <1>8, <2>1, <2>4 DEF TablesOK, Grows
<1>11. QED
  BY <1>9, <1>10

-----------------------------------------------------------------------------
(* What the dashboard and the receipts rest on survives any commit.        *)
LEMMA DashboardStays ==
  ASSUME TablesOK, DashboardOK, Grows, UNCHANGED dashboard
  PROVE  DashboardOK'
<1>1. UNCHANGED <<at, today, figure>>
  BY DEF dashboard
<1>2. \A p \in Payments : payment[p] # None /\ payment[p].status # "PENDING" => payment'[p] = payment[p]
  BY DEF Grows
<1>3. InStatus("SUCCESS") \subseteq InStatus("SUCCESS")' /\ InStatus("FAILED") \subseteq InStatus("FAILED")'
  BY <1>2 DEF InStatus
<1>4. FiguresAreFinal'
  BY <1>1, <1>3 DEF DashboardOK, FiguresAreFinal
<1>5. \A p \in figure["success"] : payment'[p] = payment[p]
  BY <1>2 DEF DashboardOK, FiguresAreFinal, InStatus
<1>6. FiguresInOrder'
  BY <1>1, <1>5 DEF DashboardOK, FiguresInOrder, Grows
<1>7. NoneCountedTwice'
  BY <1>1 DEF DashboardOK, NoneCountedTwice
<1>8. QED
  BY <1>1, <1>4, <1>6, <1>7 DEF DashboardOK

LEMMA ReceiptsPersist ==
  ASSUME ReceiptsOK, Grows, UNCHANGED <<draft, receipt>>
  PROVE  ReceiptsOK'
<1>1. \A p \in Payments : payment[p] # None /\ payment[p].status = "SUCCESS" =>
         payment'[p] = payment[p] /\ completed'[p] = completed[p]
  BY DEF Grows
<1>2. draft # None => draft.txn \in Payments
  BY DEF ReceiptsOK, Draft
<1>3. ReceiptsRepeatRows'
  BY <1>1, <1>2 DEF ReceiptsOK, ReceiptsRepeatRows, Readable, IsOfSuccess
<1>4. QED
  BY <1>3 DEF ReceiptsOK

LEMMA NothingCommitted ==
  ASSUME TablesOK, UNCHANGED tables
  PROVE  TablesOK' /\ Grows
BY DEF TablesOK, Grows, tables, ledger, SuccessClosesFee, InStatus

-----------------------------------------------------------------------------
(* The next query.  Everything that the later figures are compared with    *)
(* was found at a time when it was final.                                  *)
LEMMA Asking ==
  ASSUME TablesOK, DashboardOK, CountersOK, Ask
  PROVE  DashboardOK' /\ CountersOK'
<1>1. /\ at \in 1 .. 6 /\ at' = at + 1
      /\ today' = IF Queries[at] = "today" THEN LocalDay(now) ELSE today
      /\ figure' = [figure EXCEPT ![Queries[at]] = Select(Queries[at])]
      /\ UNCHANGED <<payment, closed, completed, now>>
  BY SixQueries DEF Ask, tables, ledger
<1>2. CountersOK'
  BY <1>1 DEF CountersOK
<1>3. today' \in Int \cup {None}
  <2>1. now + Zone \in Int /\ Day \in Nat \ {0}
    BY ClockAssumption DEF CountersOK
  <2>2. LocalDay(now) \in Int
    BY <2>1 DEF LocalDay
  <2>3. QED
    BY <1>1, <2>2 DEF DashboardOK
<1>4. \A status : InStatus(status)' = InStatus(status) /\ InStatus(status) \subseteq Payments
  BY <1>1 DEF InStatus
<1>5. CollectedOn(today) \subseteq InStatus("SUCCESS") /\ PendingFees \subseteq Fees
  BY DEF CollectedOn, PendingFees
<1>6. /\ InStatus("SUCCESS") \cap InStatus("FAILED") = {}
      /\ InStatus("SUCCESS") \cap InStatus("PENDING") = {}
      /\ InStatus("FAILED") \cap InStatus("PENDING") = {}
  BY DEF InStatus
<1>7. ASSUME NEW q \in Names, NEW S \in SUBSET (Payments \cup Fees),
             figure' = [figure EXCEPT ![q] = S]
      PROVE  /\ figure' \in [Names -> SUBSET (Payments \cup Fees)] /\ figure'[q] = S
             /\ \A n \in Names : n # q => figure'[n] = figure[n]
  BY <1>7 DEF DashboardOK
<1>8. CASE at = 1
  <2>1. figure' = [figure EXCEPT !["invoices"] = PendingFees]
    BY <1>1, <1>8 DEF Queries, Select
  <2>2. /\ figure' \in [Names -> SUBSET (Payments \cup Fees)] /\ figure'["invoices"] = PendingFees
        /\ \A n \in Names : n # "invoices" => figure'[n] = figure[n]
    BY <1>4, <1>5, <1>7, <2>1 DEF Names
  <2>4. FiguresAreFinal' /\ NoneCountedTwice'
    BY <1>4, <1>5, <2>2 DEF DashboardOK, FiguresAreFinal, NoneCountedTwice, Names
  <2>5. FiguresInOrder'
    BY <1>1, <1>4, <1>8, <2>2 DEF DashboardOK, FiguresAreFinal, FiguresInOrder, Names, PendingFees
  <2>6. QED
    BY <1>2, <1>3, <2>2, <2>4, <2>5 DEF DashboardOK
<1>9. CASE at = 2
  <2>1. figure' = [figure EXCEPT !["today"] = {}]
    BY <1>1, <1>9 DEF Queries, Select
  <2>2. /\ figure' \in [Names -> SUBSET (Payments \cup Fees)] /\ figure'["today"] = {}
        /\ \A n \in Names : n # "today" => figure'[n] = figure[n]
    <3>1. {} \in SUBSET (Payments \cup Fees) /\ "today" \in Names
      BY DEF Names
    <3>2. QED
      BY <1>7, <2>1, <3>1
  <2>4. FiguresAreFinal' /\ NoneCountedTwice'
    BY <1>4, <1>5, <2>2 DEF DashboardOK, FiguresAreFinal, NoneCountedTwice, Names
  <2>5. FiguresInOrder'
    BY <1>1, <1>4, <1>9, <2>2 DEF DashboardOK, FiguresAreFinal, FiguresInOrder, Names, PendingFees
  <2>6. QED
    BY <1>2, <1>3, <2>2, <2>4, <2>5 DEF DashboardOK
<1>10. CASE at = 3
  <2>1. figure' = [figure EXCEPT !["collected"] = CollectedOn(today)]
    BY <1>1, <1>10 DEF Queries, Select
  <2>2. /\ figure' \in [Names -> SUBSET (Payments \cup Fees)] /\ figure'["collected"] = CollectedOn(today)
        /\ \A n \in Names : n # "collected" => figure'[n] = figure[n]
    BY <1>4, <1>5, <1>7, <2>1 DEF Names
  <2>4. FiguresAreFinal' /\ NoneCountedTwice'
    BY <1>4, <1>5, <2>2 DEF DashboardOK, FiguresAreFinal, NoneCountedTwice, Names
  <2>5. FiguresInOrder'
    BY <1>1, <1>4, <1>10, <2>2 DEF DashboardOK, FiguresAreFinal, FiguresInOrder, Names, PendingFees
  <2>6. QED
    BY <1>2, <1>3, <2>2, <2>4, <2>5 DEF DashboardOK
<1>11. CASE at = 4
  <2>1. figure' = [figure EXCEPT !["success"] = InStatus("SUCCESS")]
    BY <1>1, <1>11 DEF Queries, Select
  <2>2. /\ figure' \in [Names -> SUBSET (Payments \cup Fees)] /\ figure'["success"] = InStatus("SUCCESS")
        /\ \A n \in Names : n # "success" => figure'[n] = figure[n]
    BY <1>4, <1>5, <1>7, <2>1 DEF Names
  <2>3. /\ \A f \in Fees \ ClosedAtStart :
              f \in figure["invoices"] \/ \E p \in InStatus("SUCCESS") : payment[p].fee = f
        /\ figure["failed"] \cap InStatus("SUCCESS") = {} /\ figure["pending"] = {}
    BY <1>6, <1>11 DEF TablesOK, SuccessClosesFee, DashboardOK, FiguresAreFinal, FiguresInOrder
  <2>4. FiguresAreFinal' /\ NoneCountedTwice'
    BY <1>4, <1>5, <2>2, <2>3 DEF DashboardOK, FiguresAreFinal, NoneCountedTwice, Names
  <2>5. FiguresInOrder'
    BY <1>1, <1>4, <1>11, <2>2, <2>3 DEF DashboardOK, FiguresAreFinal, FiguresInOrder, Names, PendingFees
  <2>6. QED
    BY <1>2, <1>3, <2>2, <2>4, <2>5 DEF DashboardOK
<1>12. CASE at = 5
  <2>1. figure' = [figure EXCEPT !["failed"] = InStatus("FAILED")]
    BY <1>1, <1>12 DEF Queries, Select
  <2>2. /\ figure' \in [Names -> SUBSET (Payments \cup Fees)] /\ figure'["failed"] = InStatus("FAILED")
        /\ \A n \in Names : n # "failed" => figure'[n] = figure[n]
    BY <1>4, <1>5, <1>7, <2>1 DEF Names
  <2>3. figure["success"] \cap InStatus("FAILED") = {} /\ figure["pending"] = {}
    BY <1>6, <1>12 DEF DashboardOK, FiguresAreFinal, FiguresInOrder
  <2>4. FiguresAreFinal' /\ NoneCountedTwice'
    BY <1>4, <1>5, <2>2, <2>3 DEF DashboardOK, FiguresAreFinal, NoneCountedTwice, Names
  <2>5. FiguresInOrder'
    BY <1>1, <1>4, <1>12, <2>2, <2>3 DEF DashboardOK, FiguresAreFinal, FiguresInOrder, Names, PendingFees
  <2>6. QED
    BY <1>2, <1>3, <2>2, <2>4, <2>5 DEF DashboardOK
<1>13. CASE at = 6
  <2>1. figure' = [figure EXCEPT !["pending"] = InStatus("PENDING")]
    BY <1>1, <1>13 DEF Queries, Select
  <2>2. /\ figure' \in [Names -> SUBSET (Payments \cup Fees)] /\ figure'["pending"] = InStatus("PENDING")
        /\ \A n \in Names : n # "pending" => figure'[n] = figure[n]
    BY <1>4, <1>5, <1>7, <2>1 DEF Names
  <2>3. figure["success"] \cap InStatus("PENDING") = {} /\ figure["failed"] \cap InStatus("PENDING") = {}
    BY <1>6 DEF DashboardOK, FiguresAreFinal
  <2>4. FiguresAreFinal' /\ NoneCountedTwice'
    BY <1>4, <1>5, <2>2, <2>3 DEF DashboardOK, FiguresAreFinal, NoneCountedTwice, Names
  <2>5. FiguresInOrder'
    BY <1>1, <1>4, <1>13, <2>2, <2>3 DEF DashboardOK, FiguresAreFinal, FiguresInOrder, Names, PendingFees
  <2>6. QED
    BY <1>2, <1>3, <2>2, <2>4, <2>5 DEF DashboardOK
<1>14. QED
  BY <1>1, <1>8, <1>9, <1>10, <1>11, <1>12, <1>13

(* A receipt is taken from a row that is final, and its invoice is PAID by *)
(* the time it is read.                                                    *)
LEMMA Receipting ==
  ASSUME TablesOK, ReceiptsOK, NEW p \in Payments, GenerateReceipt(p)
  PROVE  ReceiptsOK'
<1>1. PICK r \in Row : r = payment[p]
  BY DEF GenerateReceipt, Receiptable, TablesOK
<1>2. PICK t \in Int : t = completed[p]
  BY DEF GenerateReceipt, Receiptable, TablesOK, SuccessClosesFee
<1>3. PICK d \in Draft : d = [txn |-> p, row |-> r, completed |-> t]
  BY DEF Draft
<1>4. draft' = d /\ d # None /\ UNCHANGED <<payment, closed, completed, receipt>>
  BY <1>1, <1>2, <1>3, NoneAssumption DEF GenerateReceipt, tables, ledger
<1>5. payment[p] # None /\ payment[p].status = "SUCCESS"
  BY DEF GenerateReceipt, Receiptable
<1>6. IsOfSuccess(draft.txn, draft)'
  BY <1>1, <1>2, <1>3, <1>4, <1>5 DEF IsOfSuccess
<1>7. QED
  BY <1>4, <1>6 DEF ReceiptsOK, ReceiptsRepeatRows, Readable, IsOfSuccess

LEMMA Rendering ==
  ASSUME TablesOK, ReceiptsOK, Render
  PROVE  ReceiptsOK' /\ Same
<1> USE DamagedAssumption, NoneAssumption
<1>1. PICK d \in Draft : d = draft /\ IsOfSuccess(d.txn, d)
  BY DEF Render, ReceiptsOK, ReceiptsRepeatRows
<1>2. d.txn \in Payments /\ d.row \in Row /\ d.completed \in Int
  BY DEF Draft
<1>3. PICK r \in Receipt : r = [row |-> d.row, completed |-> d.completed, paid |-> TRUE]
  BY <1>2 DEF Receipt
<1>4. d.row.fee \in closed
  BY <1>1, <1>2 DEF IsOfSuccess, TablesOK, SuccessClosesFee, InStatus
<1>4a. (d.row.fee \in closed) = TRUE
  BY <1>4
<1>5. /\ receipt' = [receipt EXCEPT ![d.txn] = r] /\ draft' = None
      /\ UNCHANGED <<payment, closed, completed>>
  BY <1>1, <1>3, <1>4a DEF Render, tables, ledger
<1>6. IsOfSuccess(d.txn, r) /\ r.paid
  BY <1>1, <1>3, <1>4, <1>4a DEF IsOfSuccess
<1>7. \A p \in Payments : Readable(p)' => IsOfSuccess(p, receipt'[p]) /\ receipt'[p].paid
  BY <1>2, <1>5, <1>6 DEF ReceiptsOK, ReceiptsRepeatRows, Readable
<1>8. ReceiptsOK'
  BY <1>2, <1>5, <1>7 DEF ReceiptsOK, ReceiptsRepeatRows, Readable, IsOfSuccess
<1>9. Same
  <2>1. ASSUME Readable(d.txn) PROVE receipt[d.txn] = r
    <3>1. PICK old \in Receipt : old = receipt[d.txn]
      BY <1>2, <2>1 DEF ReceiptsOK, Readable
    <3>2. IsOfSuccess(d.txn, old) /\ old.paid
      BY <1>2, <2>1, <3>1 DEF ReceiptsOK, ReceiptsRepeatRows
    <3>3. old.row = r.row /\ old.completed = r.completed /\ old.paid = TRUE /\ r.paid = TRUE
      BY <1>6, <3>1, <3>2 DEF IsOfSuccess, Receipt
    <3>4. QED
      BY <3>1, <3>3 DEF Receipt
  <2>2. r # None /\ receipt'[d.txn] = r
    BY <1>2, <1>5 DEF ReceiptsOK
  <2>3. \A p \in Payments : p # d.txn => receipt'[p] = receipt[p]
    BY <1>5 DEF ReceiptsOK
  <2>4. QED
    BY <2>1, <2>2, <2>3 DEF Same
<1>10. QED
  BY <1>8, <1>9

(* A write that fails damages the file and no other.                       *)
LEMMA RenderingFails ==
  ASSUME ReceiptsOK, RenderFails
  PROVE  ReceiptsOK' /\ Same
<1> USE DamagedAssumption
<1>1. PICK d \in Draft : d = draft
  BY DEF RenderFails, ReceiptsOK
<1>2. /\ receipt' = [receipt EXCEPT ![d.txn] = Damaged] /\ draft' = None
      /\ UNCHANGED <<payment, closed, completed>> /\ d.txn \in Payments
  BY <1>1 DEF RenderFails, tables, ledger, Draft
<1>3. /\ receipt'[d.txn] = Damaged /\ Damaged # None
      /\ \A p \in Payments : p # d.txn => receipt'[p] = receipt[p]
  BY <1>2 DEF ReceiptsOK
<1>4. Same
  BY <1>3 DEF Same
<1>5. \A p \in Payments : Readable(p)' => IsOfSuccess(p, receipt[p]) /\ receipt[p].paid
                                        /\ receipt'[p] = receipt[p]
  BY <1>3 DEF ReceiptsOK, ReceiptsRepeatRows, Readable
<1>6. ReceiptsOK'
  BY <1>2, <1>5 DEF ReceiptsOK, ReceiptsRepeatRows, Readable, IsOfSuccess
<1>7. QED
  BY <1>4, <1>6

-----------------------------------------------------------------------------
LEMMA Initially == Init => IInv
<1>1. SUFFICES ASSUME Init PROVE TablesOK /\ DashboardOK /\ ReceiptsOK /\ CountersOK
  BY Parts
<1>2. /\ payment = [p \in Payments |-> None]
      /\ closed = ClosedAtStart
      /\ completed = [p \in Payments |-> None]
      /\ now = 0 /\ at = 0 /\ today = None /\ figure = [q \in Names |-> {}]
      /\ draft = None /\ receipt = [p \in Payments |-> None]
  BY <1>1 DEF Init, Ledger!Init
<1>3. TablesOK
  BY <1>2, SeedAssumption DEF TablesOK, SuccessClosesFee, InStatus
<1>4. DashboardOK
  BY <1>2 DEF DashboardOK, FiguresAreFinal, FiguresInOrder, NoneCountedTwice, Names
<1>5. ReceiptsOK
  BY <1>2 DEF ReceiptsOK, ReceiptsRepeatRows, Readable
<1>6. CountersOK
  BY <1>2, ClockAssumption DEF CountersOK
<1>7. QED
  BY <1>3, <1>4, <1>5, <1>6

LEMMA Committing ==
  ASSUME TablesOK', Grows, DashboardOK, ReceiptsOK, CountersOK, TablesOK,
         UNCHANGED <<now, dashboard, draft, receipt>>
  PROVE  DashboardOK' /\ ReceiptsOK' /\ CountersOK' /\ Same
<1>1. UNCHANGED <<now, at, receipt>>
  BY DEF dashboard
<1>2. QED
  BY <1>1, DashboardStays, ReceiptsPersist DEF CountersOK, Same

(* A step keeps the invariant, and the receipts.                           *)
LEMMA Step ==
  ASSUME TablesOK, DashboardOK, ReceiptsOK, CountersOK, [Next]_vars
  PROVE  TablesOK' /\ DashboardOK' /\ ReceiptsOK' /\ CountersOK' /\ Same
<1>1. ASSUME NEW p \in Payments, NEW f \in Fees, Open(p, f)
      PROVE  TablesOK' /\ DashboardOK' /\ ReceiptsOK' /\ CountersOK' /\ Same
  BY <1>1, Opened, Committing DEF Open
<1>2. ASSUME NEW p \in Payments, NEW ref \in Refs \cup {None}, Fail(p, ref)
      PROVE  TablesOK' /\ DashboardOK' /\ ReceiptsOK' /\ CountersOK' /\ Same
  <2>1. Ledger!Close(p, "FAILED", ref) /\ Complete(p) /\ closed' = closed
    BY <1>2 DEF Fail, Ledger!Fail
  <2>2. TablesOK' /\ Grows
    BY <2>1, Closing
  <2>3. QED
    BY <2>1, <2>2, Committing DEF Complete
<1>3. ASSUME NEW p \in Payments, NEW ref \in Refs \cup {None}, NEW f \in Fees, Settle(p, f, ref)
      PROVE  TablesOK' /\ DashboardOK' /\ ReceiptsOK' /\ CountersOK' /\ Same
  <2>1. Ledger!Close(p, "SUCCESS", ref) /\ Complete(p) /\ closed' = closed \cup {payment[p].fee}
    BY <1>3 DEF Settle, Ledger!Settle
  <2>2. TablesOK' /\ Grows
    BY <2>1, Closing
  <2>3. QED
    BY <2>1, <2>2, Committing DEF Complete
<1>4. ASSUME NEW p \in Payments, GenerateReceipt(p)
      PROVE  TablesOK' /\ DashboardOK' /\ ReceiptsOK' /\ CountersOK' /\ Same
  <2>1. UNCHANGED <<tables, now, dashboard, receipt>>
    BY <1>4 DEF GenerateReceipt
  <2>2. UNCHANGED <<now, at, receipt>>
    BY <2>1 DEF dashboard
  <2>3. QED
    BY <1>4, <2>1, <2>2, NothingCommitted, DashboardStays, Receipting DEF CountersOK, Same
<1>5. CASE Tick
  <2>1. UNCHANGED <<tables, dashboard, draft, receipt>> /\ now' = now + 1 /\ now < MaxTime
    BY <1>5 DEF Tick
  <2>2. UNCHANGED <<at, receipt>>
    BY <2>1 DEF dashboard
  <2>3. CountersOK'
    BY <2>1, <2>2, ClockAssumption DEF CountersOK
  <2>4. QED
    BY <2>1, <2>2, <2>3, NothingCommitted, DashboardStays, ReceiptsPersist DEF Same
<1>6. CASE Summarise
  <2>1. /\ UNCHANGED <<tables, now, draft, receipt>>
        /\ at' = 1 /\ today' = None /\ figure' = [q \in Names |-> {}]
    BY <1>6 DEF Summarise
  <2>2. DashboardOK'
    BY <2>1 DEF DashboardOK, FiguresAreFinal, FiguresInOrder, NoneCountedTwice, Names
  <2>3. QED
    BY <2>1, <2>2, NothingCommitted, ReceiptsPersist DEF CountersOK, Same
<1>7. CASE Ask
  <2>1. UNCHANGED <<tables, draft, receipt>>
    BY <1>7 DEF Ask
  <2>2. QED
    BY <1>7, <2>1, Asking, NothingCommitted, ReceiptsPersist DEF Same
<1>8. CASE EndSummary
  <2>1. UNCHANGED <<tables, now, today, figure, draft, receipt>> /\ at' = 0
    BY <1>8 DEF EndSummary
  <2>2. UNCHANGED <<payment, closed>>
    BY <2>1 DEF tables, ledger
  <2>3. DashboardOK'
    BY <2>1, <2>2 DEF DashboardOK, FiguresAreFinal, FiguresInOrder, NoneCountedTwice, InStatus
  <2>4. QED
    BY <2>1, <2>3, NothingCommitted, ReceiptsPersist DEF CountersOK, Same
<1>9. CASE Render
  <2>1. UNCHANGED <<tables, now, dashboard>>
    BY <1>9 DEF Render
  <2>2. UNCHANGED <<now, at>>
    BY <2>1 DEF dashboard
  <2>3. QED
    BY <1>9, <2>1, <2>2, Rendering, NothingCommitted, DashboardStays DEF CountersOK, Same
<1>10. CASE Abandon
  <2>1. UNCHANGED <<tables, now, dashboard, receipt>> /\ draft' = None
    BY <1>10 DEF Abandon
  <2>2. UNCHANGED <<now, at, receipt, payment, closed, completed>>
    BY <2>1 DEF dashboard, tables, ledger
  <2>3. ReceiptsOK'
    BY <2>1, <2>2 DEF ReceiptsOK, ReceiptsRepeatRows, Readable, IsOfSuccess
  <2>4. QED
    BY <2>1, <2>2, <2>3, NothingCommitted, DashboardStays DEF CountersOK, Same
<1>10a. CASE RenderFails
  <2>1. UNCHANGED <<tables, now, dashboard>>
    BY <1>10a DEF RenderFails
  <2>2. UNCHANGED <<now, at>>
    BY <2>1 DEF dashboard
  <2>3. QED
    BY <1>10a, <2>1, <2>2, RenderingFails, NothingCommitted, DashboardStays DEF CountersOK
<1>11. CASE UNCHANGED vars
  <2>1. UNCHANGED <<tables, now, dashboard, draft, receipt>>
    BY <1>11 DEF vars
  <2>2. QED
    BY <2>1, NothingCommitted, Committing
<1>12. QED
  BY <1>1, <1>2, <1>3, <1>4, <1>5, <1>6, <1>7, <1>8, <1>9, <1>10, <1>10a, <1>11 DEF Next

-----------------------------------------------------------------------------
(* The inductive invariant holds in every reachable state.                 *)
THEOREM Invariance == Spec => []IInv
<1>1. IInv /\ [Next]_vars => IInv'
  <2>1. SUFFICES ASSUME IInv, [Next]_vars PROVE IInv'
    OBVIOUS
  <2>2. TablesOK' /\ DashboardOK' /\ ReceiptsOK' /\ CountersOK'
    BY <2>1, Parts, Step
  <2>3. (IInv <=> TablesOK /\ DashboardOK /\ ReceiptsOK /\ CountersOK)'
    BY Parts, PTL
  <2>4. QED
    BY <2>2, <2>3
<1>2. QED
  BY Initially, <1>1, PTL DEF Spec

(* No transaction is in two figures of a summary (dashboard_summary).      *)
THEOREM Disjoint == Spec => []NoneCountedTwice
<1>1. IInv => NoneCountedTwice
  BY DEF IInv
<1>2. QED
  BY Invariance, <1>1, PTL

(* An invoice that a summary does not have as outstanding is paid by one   *)
(* of its successful transactions.                                         *)
THEOREM DebtsKept == Spec => []NoDebtDisappears
<1>1. IInv => NoDebtDisappears
  BY SixQueries, Parts DEF CountersOK, IInv, FiguresInOrder, NoDebtDisappears, Summary
<1>2. QED
  BY Invariance, <1>1, PTL

(* What a summary has as collected today is among its successes.           *)
THEOREM CollectedCounted == Spec => []CollectedIsSuccess
<1>1. IInv => CollectedIsSuccess
  BY SixQueries, Parts DEF CountersOK, IInv, FiguresInOrder, CollectedIsSuccess, Summary
<1>2. QED
  BY Invariance, <1>1, PTL

(* A receipt that can be read is for a success and shows a PAID invoice.   *)
THEOREM ReceiptsOfPaid == Spec => []ReceiptsAreOfPaid
<1>1. IInv => ReceiptsAreOfPaid
  BY DEF IInv, ReceiptsRepeatRows, IsOfSuccess, ReceiptsAreOfPaid
<1>2. QED
  BY Invariance, <1>1, PTL

(* A receipt made again (generate_receipt) stays, and says what the first  *)
(* one said unless the file could not be written to its end.               *)
THEOREM ReceiptsLast == Spec => ReceiptsStay
<1>1. IInv /\ [Next]_vars =>
        [\A p \in Payments :
            /\ receipt[p] # None => receipt'[p] # None
            /\ Readable(p) => receipt'[p] \in {receipt[p], Damaged}]_vars
  BY Parts, Step DEF Same
<1>2. QED
  BY Invariance, <1>1, PTL DEF Spec, ReceiptsStay
=============================================================================
