-------------------------- MODULE AgreementsPoolMC --------------------------
(* Small instances of AgreementsPool for TLC. *)
EXTENDS AgreementsPool, TLC

Symmetry == Permutations(Agreements) \cup Permutations(Workers)
=============================================================================
