CONSTANTS
    Invoices = {i1}
    Mandates = {m1}
    Originator = originator
    Quotes = {q1}
    Requests = {r1, r2}
    Payments = {p1}
    Prices = {1}
    MaxTrades = 2
    FundedEach = 1
    Escrowed = {m1}
    Resellers = {m1}
    Lossy = FALSE
    MaxCrashes = 1
    Funded <- EachFunded
SPECIFICATION Spec
SYMMETRY Symmetry
CHECK_DEADLOCK FALSE
INVARIANTS
    DeliveredImpliesPaid
    SettledMeansBothLegs
    OneRail
    CapitalWithinFunded
