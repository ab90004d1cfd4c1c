---------------------------- MODULE InvoiceAccount ----------------------------
(***************************************************************************)
(* What an invoice promises the people who pay it, with every table, lock  *)
(* and webhook left out: a credit is accepted only up to what is owed, a   *)
(* reversal only up to what was paid.                                      *)
(***************************************************************************)
EXTENDS Integers

CONSTANTS Invoices, Totals

VARIABLES paid, total

Init ==
  /\ paid = [i \in Invoices |-> 0]
  /\ total \in [Invoices -> Totals]

Credit(i, a) ==
  /\ paid[i] + a <= total[i]
  /\ paid' = [paid EXCEPT ![i] = @ + a]
  /\ UNCHANGED total

Reverse(i, a) ==
  /\ a <= paid[i]
  /\ paid' = [paid EXCEPT ![i] = @ - a]
  /\ UNCHANGED total

Next == \E i \in Invoices :
  \/ \E a \in 1..(total[i] - paid[i]) : Credit(i, a)
  \/ \E a \in 1..paid[i] : Reverse(i, a)

Spec == Init /\ [][Next]_<<paid, total>>
=============================================================================
