-------------------------- MODULE PaymentGatewayInv --------------------------
(***************************************************************************)
(* The inductive invariant of PaymentGateway: what every thread may rely   *)
(* on between two of its statements.  Its parts are checked by TLC and     *)
(* proved in PaymentGatewayProofs.                                         *)
(***************************************************************************)
EXTENDS PaymentGateway

(* A row that is about to be inserted has an id nobody else has.           *)
DraftsAreNew ==
    /\ \A w \in Workers : pc[w] \in InitiatePc =>
          draft[w] \in Draft /\ txns[draft[w].txn] = None
    /\ \A v, w \in Workers :
          v # w /\ pc[v] \in InitiatePc /\ pc[w] \in InitiatePc =>
              draft[v].txn # draft[w].txn

(* An open session works on a message, and past the SELECT FOR UPDATE on a *)
(* row; only a SUCCESS touches the invoice, with a sum the column holds.   *)
SessionsAreTyped ==
    \A w \in Workers :
        /\ pc[w] \in SessionPc => msg[w] \in Message
        /\ pc[w] \in LockedPc => Recorded(msg[w].txn)
        /\ pc[w] \in {"readInvoice", "updateInvoice"} => msg[w].status = "SUCCESS"
        /\ pc[w] = "commit" /\ msg[w].status = "SUCCESS" => FitsColumn(NewPaid(w))

Shape == TypeOK /\ DraftsAreNew /\ SessionsAreTyped

(* The row lock keeps a transaction PENDING and to one session; the unique *)
(* index keeps a bank reference to one session and off the committed rows. *)
UtrPc == LockedPc \ {"updateTxn"}

LocksAreExclusive ==
    /\ \A w \in Workers :
          /\ pc[w] \in LockedPc => txns[msg[w].txn].status = "PENDING"
          /\ pc[w] \in UtrPc => ~UtrTaken(msg[w].utr)
    /\ \A v, w \in Workers : v # w =>
          /\ pc[v] \in LockedPc /\ pc[w] \in LockedPc => msg[v].txn # msg[w].txn
          /\ pc[v] \in UtrPc /\ pc[w] \in UtrPc /\ msg[v].utr # None =>
                msg[v].utr # msg[w].utr

(* Thread w is about to write a balance computed from seen[w].             *)
Crediting(w) ==
    pc[w] = "updateInvoice" \/ (pc[w] = "commit" /\ msg[w].status = "SUCCESS")

(* Whatever a thread carries from one statement to the next is a whole     *)
(* number of opening debts: the amount it will ask for, the balance it read. *)
CarriesWholeAmounts(w) ==
    /\ pc[w] \in InitiatePc =>
          /\ draft[w].amount = OpeningDebt(draft[w].invoice)
          /\ draft[w].amount > 0
    /\ Crediting(w) => Backed(txns[msg[w].txn].invoice, seen[w])

CarriedAmountsAreWhole == \A w \in Workers : CarriesWholeAmounts(w)

MoneyIsWhole ==
    /\ CarriedAmountsAreWhole
    /\ NothingIsPaidInPart
    /\ EveryCreditIsBacked
    /\ SuccessImpliesPaid

IInv ==
    /\ Shape
    /\ LocksAreExclusive
    /\ MoneyIsWhole
    /\ AnswersAreTrue
===============================================================================
