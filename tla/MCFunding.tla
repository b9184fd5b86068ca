----------------------------- MODULE MCFunding -----------------------------
(* Instances of Funding for TLC.  One mandate is behind in three parts, so  *)
(* that a deposit can make up for some of it, others for the rest.          *)
EXTENDS Funding

CONSTANTS m1

Three == [m \in Bids |-> 3]
=============================================================================
