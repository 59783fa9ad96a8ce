-------------------------------- MODULE Reports --------------------------------
(***************************************************************************)
(* What is read from the tables while payments go on: the dashboard of     *)
(* reports_repository.py, five statements in one session, and the receipt  *)
(* of receipt_service.py, three reads in sessions of their own.  Oracle    *)
(* shows each statement what is committed when it starts.  Readers change  *)
(* no row, so one of each kind stands for any number.  A figure is the set *)
(* of the rows that it counts or sums.                                     *)
(***************************************************************************)
EXTENDS Integers, Sequences

CONSTANTS
    Payments, Fees, Refs, Opening, Debt, ClosedAtStart, None, \* as in SettlementLedger
    Damaged,  \* a PDF that was not written to its end
    Day,      \* length of a day in units of the clock
    Zone,     \* the server's zone: local time minus UTC
    MaxTime   \* bounds the clock of a run

ASSUME SeedAssumption == ClosedAtStart \subseteq Fees

ASSUME ClockAssumption ==
    /\ Day \in Nat \ {0}
    /\ Zone \in Int
    /\ MaxTime \in Nat

VARIABLES
    payment, settled, balance, closed, \* the tables, as in SettlementLedger
    completed,  \* completed[p]: completed_at of payment p
    now,        \* the clock, in UTC
    at,         \* the next query of the dashboard, 0 when there is none under way
    today,      \* the date the dashboard compares with
    figure,     \* figure[q]: the rows query q found
    draft,      \* the receipt being made: its transaction as read, None if none
    receipt     \* receipt[p]: what RECEIPT_p.pdf says, None when there is no such file

ledger == <<payment, settled, balance, closed>>
tables == <<ledger, completed>>
dashboard == <<at, today, figure>>
vars == <<tables, now, dashboard, draft, receipt>>

Ledger == INSTANCE SettlementLedger

Status == {"PENDING", "SUCCESS", "FAILED"}
Row == [fee : Fees, status : Status, ref : Refs \cup {None}]
Draft == [txn : Payments, row : Row, completed : Int]
Receipt == [row : Row, completed : Int, paid : BOOLEAN]

ASSUME NoneAssumption == None \notin Row \cup Draft \cup Receipt \cup Int
ASSUME DamagedAssumption == Damaged \notin Receipt \cup {None}

-----------------------------------------------------------------------------
(* The tables change, one commit at a time.                                *)
Open(p, f) ==
    /\ Ledger!Open(p, f)
    /\ UNCHANGED <<completed, now, dashboard, draft, receipt>>

(* completed_at is datetime.utcnow(), taken some time before the commit.   *)
Complete(p) ==
    /\ \E t \in 0 .. now : completed' = [completed EXCEPT ![p] = t]
    /\ UNCHANGED <<now, dashboard, draft, receipt>>

Settle(p, f, ref) == Ledger!Settle(p, f, ref) /\ Complete(p)
Fail(p, ref) == Ledger!Fail(p, ref) /\ Complete(p)

Tick ==
    /\ now < MaxTime
    /\ now' = now + 1
    /\ UNCHANGED <<tables, dashboard, draft, receipt>>

-----------------------------------------------------------------------------
(* What the statements select.  Fees leaves out CANCELLED invoices.        *)
PendingFees == Fees \ closed

InStatus(status) ==
    {p \in Payments : payment[p] # None /\ payment[p].status = status}

UtcDay(t) == t \div Day
LocalDay(t) == (t + Zone) \div Day

CollectedOn(day) == {p \in InStatus("SUCCESS") : UtcDay(completed[p]) = day}

(* Variants: PENDING transactions are counted first and invoices last; the *)
(* successful ones before the sum of what was collected.                   *)
QueriesPendingFirst ==
    <<"pending", "today", "collected", "success", "failed", "invoices">>
QueriesSuccessFirst ==
    <<"invoices", "today", "success", "collected", "failed", "pending">>

(* dashboard_summary in the order of its statements; "today" is the call   *)
(* of date.today() between two of them.                                    *)
Queries == <<"invoices", "today", "collected", "success", "failed", "pending">>

Names == {"invoices", "today", "collected", "success", "failed", "pending"}

Select(query) ==
    CASE query = "invoices"  -> PendingFees
      [] query = "today"     -> {}
      [] query = "collected" -> CollectedOn(today)
      [] query = "success"   -> InStatus("SUCCESS")
      [] query = "failed"    -> InStatus("FAILED")
      [] query = "pending"   -> InStatus("PENDING")

Summarise ==
    /\ at = 0
    /\ at' = 1
    /\ today' = None
    /\ figure' = [q \in Names |-> {}]
    /\ UNCHANGED <<tables, now, draft, receipt>>

Ask ==
    /\ at \in 1 .. Len(Queries)
    /\ at' = at + 1
    /\ today' = IF Queries[at] = "today" THEN LocalDay(now) ELSE today
    /\ figure' = [figure EXCEPT ![Queries[at]] = Select(Queries[at])]
    /\ UNCHANGED <<tables, now, draft, receipt>>

(* The summary is returned, or a statement raised and there is none.       *)
EndSummary ==
    /\ at > 0
    /\ at' = 0
    /\ UNCHANGED <<tables, now, today, figure, draft, receipt>>

-----------------------------------------------------------------------------
(* Variants: the test of the status, or of the transaction, is left out. *)
ReceiptableAlways(p) == payment[p] # None
ReceiptableUnknown(p) == payment[p] # None => payment[p].status = "SUCCESS"

(* TransactionNotFoundError, ReceiptNotAvailableError.                     *)
Receiptable(p) == payment[p] # None /\ payment[p].status = "SUCCESS"

GenerateReceipt(p) ==
    /\ draft = None
    /\ Receiptable(p)
    /\ draft' = [txn |-> p, row |-> payment[p], completed |-> completed[p]]
    /\ UNCHANGED <<tables, now, dashboard, receipt>>

(* The invoice is read in a session of its own, and the PDF is written     *)
(* under the name of the transaction, over the one that may be there.      *)
Render ==
    /\ draft # None
    /\ receipt' = [receipt EXCEPT ![draft.txn] =
                      [row |-> draft.row, completed |-> draft.completed,
                       paid |-> draft.row.fee \in closed]]
    /\ draft' = None
    /\ UNCHANGED <<tables, now, dashboard>>

(* The file cannot be written to its end: what it said before is gone.     *)
RenderFails ==
    /\ draft # None
    /\ receipt' = [receipt EXCEPT ![draft.txn] = Damaged]
    /\ draft' = None
    /\ UNCHANGED <<tables, now, dashboard>>

(* A read or the drawing raises before the file is opened.                 *)
Abandon ==
    /\ draft # None
    /\ draft' = None
    /\ UNCHANGED <<tables, now, dashboard, receipt>>

-----------------------------------------------------------------------------
Init ==
    /\ Ledger!Init
    /\ completed = [p \in Payments |-> None]
    /\ now = 0
    /\ at = 0 /\ today = None /\ figure = [q \in Names |-> {}]
    /\ draft = None
    /\ receipt = [p \in Payments |-> None]

Next ==
    \/ \E p \in Payments :
          \/ \E f \in Fees : Open(p, f)
          \/ \E ref \in Refs \cup {None} : Fail(p, ref) \/ \E f \in Fees : Settle(p, f, ref)
          \/ GenerateReceipt(p)
    \/ Tick
    \/ Summarise \/ Ask \/ EndSummary
    \/ Render \/ RenderFails \/ Abandon

Spec == Init /\ [][Next]_vars

-----------------------------------------------------------------------------
TypeOK ==
    /\ payment \in [Payments -> Row \cup {None}]
    /\ closed \subseteq Fees
    /\ completed \in [Payments -> Int \cup {None}]
    /\ now \in 0 .. MaxTime
    /\ at \in 0 .. Len(Queries) + 1
    /\ today \in Int \cup {None}
    /\ figure \in [Names -> SUBSET (Payments \cup Fees)]
    /\ draft \in Draft \cup {None}
    /\ receipt \in [Payments -> Receipt \cup {Damaged, None}]

Summary == at > Len(Queries)

(* There is a receipt of payment p, and it can be read.                    *)
Readable(p) == receipt[p] \notin {Damaged, None}

(***************************************************************************)
(* No transaction is in two figures of a summary, though the figures are   *)
(* read one after the other while transactions settle: the statements go   *)
(* from the final states to the passing one.                               *)
(***************************************************************************)
NoneCountedTwice ==
    /\ figure["success"] \cap figure["failed"] = {}
    /\ figure["success"] \cap figure["pending"] = {}
    /\ figure["failed"] \cap figure["pending"] = {}

(***************************************************************************)
(* An invoice that a summary no longer has as outstanding is one whose     *)
(* payment it has among the successful ones: no debt falls between two     *)
(* statements.                                                             *)
(***************************************************************************)
NoDebtDisappears ==
    Summary =>
        \A f \in Fees \ ClosedAtStart :
            \/ f \in figure["invoices"]
            \/ \E p \in figure["success"] : payment[p].fee = f

(***************************************************************************)
(* What a summary has as collected is among its successful transactions.   *)
(***************************************************************************)
CollectedIsSuccess == Summary => figure["collected"] \subseteq figure["success"]

(***************************************************************************)
(* A receipt that can be read, which carries a PAID stamp, is for a        *)
(* payment that succeeded, and says of its invoice that it is PAID.        *)
(***************************************************************************)
ReceiptsAreOfPaid ==
    \A p \in Payments : Readable(p) =>
        receipt[p].row.status = "SUCCESS" /\ receipt[p].paid

(***************************************************************************)
(* generate_receipt may "build (or rebuild)" a receipt: the file stays     *)
(* there, and as long as it can be read it says what it said.              *)
(***************************************************************************)
ReceiptsStay ==
    [][\A p \in Payments :
          /\ receipt[p] # None => receipt'[p] # None
          /\ Readable(p) => receipt'[p] \in {receipt[p], Damaged}]_vars

-----------------------------------------------------------------------------
(* What the tables promise to those who read them: a success has a time    *)
(* and a PAID invoice, and every invoice that was paid has a success.      *)
SuccessClosesFee ==
    /\ \A p \in Payments :
          payment[p] # None /\ payment[p].status # "PENDING" => completed[p] # None
    /\ \A p \in InStatus("SUCCESS") : payment[p].fee \in closed
    /\ \A f \in closed \ ClosedAtStart :
          \E p \in InStatus("SUCCESS") : payment[p].fee = f

(* What was found in a final state is in it still.                         *)
FiguresAreFinal ==
    /\ figure["collected"] \subseteq InStatus("SUCCESS")
    /\ figure["success"] \subseteq InStatus("SUCCESS")
    /\ figure["failed"] \subseteq InStatus("FAILED")
    /\ figure["pending"] \subseteq Payments

(* What the figures say when the dashboard has come so far.                *)
FiguresInOrder ==
    /\ at \in 1 .. 6 => figure["pending"] = {}
    /\ at \in 2 .. 7 => \A f \in Fees : f \in figure["invoices"] \/ f \in closed
    /\ at \in 5 .. 7 =>
          /\ figure["collected"] \subseteq figure["success"]
          /\ \A f \in Fees \ ClosedAtStart :
                \/ f \in figure["invoices"]
                \/ \E p \in figure["success"] : payment[p].fee = f

(* A receipt, and one being made, repeats its transaction's row, which is  *)
(* final.                                                                  *)
IsOfSuccess(p, r) ==
    /\ payment[p] # None
    /\ payment[p].status = "SUCCESS"
    /\ r.row = payment[p]
    /\ r.completed = completed[p]

ReceiptsRepeatRows ==
    /\ draft # None => IsOfSuccess(draft.txn, draft)
    /\ \A p \in Payments : Readable(p) => IsOfSuccess(p, receipt[p]) /\ receipt[p].paid

(* The inductive invariant.                                                *)
IInv ==
    /\ TypeOK
    /\ SuccessClosesFee
    /\ FiguresAreFinal
    /\ FiguresInOrder
    /\ NoneCountedTwice
    /\ ReceiptsRepeatRows
===============================================================================
