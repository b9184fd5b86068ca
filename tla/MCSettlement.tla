---------------------------- MODULE MCSettlement ----------------------------
(* Instances of Settlement for TLC: capital for two unit-priced sales, and  *)
(* the symmetries of requests, quotes, payments and mandates.               *)
EXTENDS Settlement, TLC

CONSTANTS FundedEach  \* capital every mandate starts with

EachFunded == [m \in Mandates |-> FundedEach]

Symmetry == Permutations(Requests) \cup Permutations(Payments)
            \cup Permutations(Quotes)

(* Symmetric in the mandates too: only for instances whose mandates are     *)
(* alike (all escrowed or none, all resellers or none).                     *)
MandateSymmetry == Symmetry \cup Permutations(Mandates)
=============================================================================
