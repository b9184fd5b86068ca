------------------------------- MODULE Totals -------------------------------
(* The sum of a function over a finite set, as the specifications of this   *)
(* project use it.                                                          *)
EXTENDS Integers, FiniteSetsExt

(* What f comes to over S, a part of its domain.                            *)
Total(f, S) == MapThenSumSet(LAMBDA x : f[x], S)
=============================================================================
