------------------------------ MODULE MCReports ------------------------------
(* An instance of Reports for TLC: one invoice owed, one paid before.      *)
EXTENDS Reports, TLC

CONSTANTS f1, f2

FeesOwed == {f1, f2}
OpeningOfFee == f1 :> 0 @@ f2 :> 1
DebtOfFee == f1 :> 1 @@ f2 :> 0

Symmetry == Permutations(Payments) \cup Permutations(Refs)
===============================================================================
