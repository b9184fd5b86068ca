---------------------------- MODULE MCReceivable ----------------------------
(* The instance of Receivable for TLC; without symmetry, for its liveness.  *)
EXTENDS Receivable
=============================================================================
