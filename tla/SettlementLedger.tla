--------------------------- MODULE SettlementLedger ---------------------------
(***************************************************************************)
(* What the payment core promises of its two tables, with no thread, lock, *)
(* session or message in sight.  A payment is opened, then settled or      *)
(* failed once and for ever; a bank reference settles one payment; the     *)
(* first payment settled for an invoice closes it, and the invoice's       *)
(* balance holds the amount of at least one and at most all of its settled *)
(* payments.                                                               *)
(***************************************************************************)
EXTENDS Integers

CONSTANTS
    Payments,  \* identities of payments
    Fees,      \* identities of invoices
    Refs,      \* bank references
    Opening,   \* Opening[f]: balance of fee f at the start
    Debt,      \* Debt[f]: what fee f lacked at the start
    ClosedAtStart,  \* fees paid before the start
    None

VARIABLES
    payment,  \* payment[p]: None, or its fee, its status and its reference
    settled,  \* settled[f]: how many payments were settled for fee f
    balance,  \* balance[f]: money received for fee f
    closed    \* fees that are paid

ledger == <<payment, settled, balance, closed>>

Init ==
    /\ payment = [p \in Payments |-> None]
    /\ settled = [f \in Fees |-> 0]
    /\ balance = [f \in Fees |-> Opening[f]]
    /\ closed = ClosedAtStart

(* A payment of the whole debt is opened, perhaps for a fee closed since.  *)
Open(p, f) ==
    /\ payment[p] = None
    /\ Debt[f] > 0
    /\ payment' = [payment EXCEPT ![p] = [fee |-> f, status |-> "PENDING", ref |-> None]]
    /\ UNCHANGED <<settled, balance, closed>>

Close(p, status, ref) ==
    /\ payment[p] # None
    /\ payment[p].status = "PENDING"
    /\ ref # None => \A q \in Payments : payment[q] # None => payment[q].ref # ref
    /\ payment' = [payment EXCEPT ![p] = [fee |-> @.fee, status |-> status, ref |-> ref]]

Fail(p, ref) == Close(p, "FAILED", ref) /\ UNCHANGED <<settled, balance, closed>>

(* The balance comes to hold k of the payments settled for the fee so far. *)
Settle(p, f, ref) ==
    /\ Close(p, "SUCCESS", ref)
    /\ payment[p].fee = f
    /\ settled' = [settled EXCEPT ![f] = @ + 1]
    /\ closed' = closed \cup {f}
    /\ \E k \in 1 .. settled[f] + 1 :
          balance' = [balance EXCEPT ![f] = Opening[f] + k * Debt[f]]

Next ==
    \/ \E p \in Payments, f \in Fees : Open(p, f)
    \/ \E p \in Payments, ref \in Refs \cup {None} : Fail(p, ref)
    \/ \E p \in Payments, f \in Fees, ref \in Refs \cup {None} : Settle(p, f, ref)

Spec == Init /\ [][Next]_ledger
===============================================================================
