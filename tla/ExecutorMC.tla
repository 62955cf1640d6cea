----------------------------- MODULE ExecutorMC -----------------------------
(* Small instances of Executor for TLC. *)
EXTENDS Executor, TLC

Symmetry == Permutations(Items) \cup Permutations(Consumers)
=============================================================================
