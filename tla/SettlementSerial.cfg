CONSTANTS
    Invoices = {i1}
    Mandates = {m1, m2}
    Originator = originator
    Quotes = {q1, q2}
    Requests = {r1}
    Payments = {p1, p2}
    Prices = {1, 2}
    MaxTrades = 2
    FundedEach = 3
    Escrowed = {m1, m2}
    Resellers = {m1, m2}
    Lossy = TRUE
    MaxCrashes = 0
    Funded <- EachFunded
SPECIFICATION Spec
SYMMETRY MandateSymmetry
CHECK_DEADLOCK FALSE
INVARIANTS
    AllocationExact
    FreeCapitalBacked
    HolderOwnsPaper
