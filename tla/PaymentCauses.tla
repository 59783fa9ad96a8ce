----------------------------- MODULE PaymentCauses -----------------------------
(***************************************************************************)
(* What it takes for a balance to miss a successful transaction, and for   *)
(* an invoice to be credited twice.  Each disagreement has one cause: runs *)
(* of PaymentGateway that keep clear of it do not have the disagreement.   *)
(***************************************************************************)
EXTENDS PaymentGatewayInv

(* Thread w has read the balance of invoice i and not yet replaced it.     *)
Credits(w, i) == Crediting(w) /\ txns[msg[w].txn].invoice = i

(* What a SELECT FOR UPDATE of the invoice in apply_payment_in_session     *)
(* would bring about: nobody reads a balance that another is to replace.   *)
CreditsTakeTurns ==
    \A i \in Invoices : \A v, w \in Workers : Credits(v, i) /\ Credits(w, i) => v = w

TurnsSpec == Init /\ [][Next /\ CreditsTakeTurns']_vars

ReadBalanceIsCurrent ==
    \A i \in Invoices : \A w \in Workers : Credits(w, i) => seen[w] = invoice[i].paid

(***************************************************************************)
(* While credits take turns, a balance read is the balance replaced, and   *)
(* so every success is in it.                                              *)
(***************************************************************************)
TurnsInv ==
    /\ IInv
    /\ CreditsTakeTurns
    /\ ReadBalanceIsCurrent
    /\ BalanceIsSumOfSuccesses

(* The payments of invoice i that are neither settled nor failed, those    *)
(* that initiate_payment has yet to insert included.                       *)
OpenPayments(i) ==
    {t \in TxnIds : Recorded(t) /\ txns[t].invoice = i /\ txns[t].status = "PENDING"}
    \cup {draft[w].txn : w \in {v \in Workers : pc[v] \in InitiatePc /\ draft[v].invoice = i}}

(* What a check for an open transaction in initiate_payment would bring    *)
(* about: a client that asks again does not get a second one.              *)
OneOpenPayment == \A i \in Invoices : \A t, u \in OpenPayments(i) : t = u

OneOpenSpec == Init /\ [][Next /\ OneOpenPayment']_vars

(* The payments that have credited invoice i, or may.                      *)
Contenders(i) == OpenPayments(i) \cup Successes(i)

(***************************************************************************)
(* While an invoice has one open payment at a time, one payment in all is  *)
(* ever credited to it.                                                    *)
(***************************************************************************)
OneOpenInv ==
    /\ IInv
    /\ \A i \in Invoices : \A t, u \in Contenders(i) : t = u
===============================================================================
