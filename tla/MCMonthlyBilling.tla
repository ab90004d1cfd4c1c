-------------------------- MODULE MCMonthlyBilling --------------------------
(* MonthlyBilling on small instances. *)
EXTENDS MonthlyBilling, TLC

\* Requests are interchangeable: no action orders or chooses them.
Symmetry == Permutations(Requests)
=============================================================================
