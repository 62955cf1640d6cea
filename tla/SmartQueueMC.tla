---------------------------- MODULE SmartQueueMC ----------------------------
(* Small instances of SmartQueue for TLC. *)
EXTENDS SmartQueue, TLC

(* Items and consumers are interchangeable: sound for invariants and for     *)
(* the action properties, which quantify over all of them.                   *)
Symmetry == Permutations(Items) \cup Permutations(Consumers)
=============================================================================
