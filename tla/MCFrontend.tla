------------------------------ MODULE MCFrontend ------------------------------
(* Instances of Frontend for TLC: two students, one of whom owes two        *)
(* invoices.                                                                *)
EXTENDS Frontend, TLC

CONSTANTS s1, s2, f1, f2, f3

Pupils == {s1, s2}
FeesOwed == {f1, f2, f3}
OwnerOfFee == f1 :> s1 @@ f2 :> s1 @@ f3 :> s2
OpeningOfFee == [f \in FeesOwed |-> 0]
DebtOfFee == [f \in FeesOwed |-> 1]

Symmetry == Permutations(Calls) \cup Permutations(Payments) \cup Permutations({f1, f2})
===============================================================================
