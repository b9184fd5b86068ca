--------------------------- MODULE MCMandateVault ---------------------------
(* An instance of MandateVault for TLC.                                     *)
EXTENDS MandateVault, TLC

Symmetry == Permutations(Users) \cup Permutations(Mandates) \cup Permutations(Matches)
            \cup Permutations(LockIds) \cup Permutations(AuthIds)
=============================================================================
