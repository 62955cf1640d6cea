----------------------------- MODULE PaymentsMC -----------------------------
(* Small instances of Payments for TLC. *)
EXTENDS Payments, TLC

Symmetry == Permutations(Agreements) \cup Permutations(Invoices) \cup Permutations(Payers)
=============================================================================
