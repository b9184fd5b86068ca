---------------------------- MODULE MCMandateBook ----------------------------
(* Instances of MandateBook for TLC.                                        *)
EXTENDS MandateBook, TLC

CONSTANTS seller, debtor, buyer

TheSeller == [h \in Receivables |-> seller]
TheDebtor == [h \in Receivables |-> debtor]
OneUnit == [h \in Receivables |-> 3]

Open == [paused |-> "no", list |-> "block", member |-> "no", kyc |-> "granted"]
Closed == [Open EXCEPT !.kyc = "other"]
BuyerOnly == [b \in Bonds |-> [u \in Users |-> IF u = buyer THEN Open ELSE Closed]]

(* A day at this rate is a third of the face; three days would be all of it *)
Bids == {[floor |-> 1, tenor |-> 2, yield |-> 2, cap |-> 4],
         [floor |-> 1, tenor |-> 3, yield |-> 2, cap |-> 4]}

Symmetry == Permutations(Invoices) \cup Permutations(Bonds) \cup
            Permutations(Receivables) \cup Permutations(LockIds)
=============================================================================
