------------------------- MODULE MCPaymentSettlement -------------------------
(* PaymentSettlement on small instances. *)
EXTENDS PaymentSettlement, TLC

\* Requests, payment ids, Payme links and the ids they get are interchangeable: no
\* action orders or chooses them.
Symmetry ==
  Permutations(Requests) \cup Permutations(Payments) \cup Permutations(PaymeTxns) \cup Permutations(ProviderIds)
=============================================================================
