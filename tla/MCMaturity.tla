----------------------------- MODULE MCMaturity -----------------------------
(* Instances of Maturity for TLC: a debtor two payments from the top grade. *)
EXTENDS Maturity

OpeningRecord == [on_time |-> 3, late |-> 1, default |-> 0]
Ladder == [A |-> 3, B |-> 2, C |-> 1]
=============================================================================
