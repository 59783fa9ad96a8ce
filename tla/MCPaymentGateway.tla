--------------------------- MODULE MCPaymentGateway ---------------------------
(* Small instances of PaymentGateway for TLC. *)
EXTENDS PaymentCauses, TLC

CONSTANTS owed, part, paid, void, free

Fee(due, amountPaid, status) == [due |-> due, paid |-> amountPaid, status |-> status]

(* Invoices of the kinds the schema allows: partly paid (OneFee has one that *)
(* is untouched), paid, cancelled with money owed, and nothing due.          *)
EveryKind ==
    part :> Fee(2, 1, "PARTIAL") @@ paid :> Fee(1, 1, "PAID") @@ void :> Fee(1, 0, "CANCELLED")
    @@ free :> Fee(0, 0, "PENDING")

OneFee == owed :> Fee(2, 0, "PENDING")
PartPaidFee == part :> Fee(2, 1, "PARTIAL")

(* No guard and no liveness property reads the last answer. *)
WithoutAnswer == <<invoice, txns, pc, draft, msg, seen, qrSent>>

Symmetric ==
    Permutations(Workers) \cup Permutations(TxnIds) \cup Permutations(Utrs \ {None})
===============================================================================
