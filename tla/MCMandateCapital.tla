-------------------------- MODULE MCMandateCapital --------------------------
(* Instances of MandateCapital for TLC.  With two units of the book to one  *)
(* of USDC, every conversion of an odd amount leaves a remainder.           *)
EXTENDS MandateCapital, TLC

Symmetry == Permutations(Requests)
=============================================================================
