------------------------------ MODULE MCMarket ------------------------------
(* Instances of Market for TLC.  Mandates 1 and 2 are the agent's, 3 is     *)
(* another buyer's, dearer for it and so better for the seller.             *)
EXTENDS Market, TLC

MCBuyerOf == [m \in Mandates |-> IF m = 3 THEN "another buyer" ELSE CHOOSE a \in Agents : TRUE]
MCYield == [m \in Mandates |-> IF m = 3 THEN 1000 ELSE 5000]
MCLimit == [m \in Mandates |-> 8]
MCFunded == [m \in Mandates |-> IF m = 3 THEN 8 ELSE 2 * m]
MCDebtorCap == [m \in Mandates |-> IF m = 3 THEN 5 ELSE 4 * m - 2]
MCMaxTenor == [m \in Mandates |-> 365]
MCTakes == [m \in Mandates |-> Debtors]
MCDebtorOf == [i \in Invoices |-> CHOOSE d \in Debtors : TRUE]
MCFace == [i \in Invoices |-> 5]
MCDue == [i \in Invoices |-> 365]
MCBarred == [i \in Invoices |-> {1}]

Symmetry == Permutations(Invoices) \cup Permutations(Requests)
=============================================================================
