CONSTANTS
    Invoices = {i1}
    Mandates = {m1}
    Originator = originator
    Quotes = {q1}
    Requests = {r1, r2}
    Payments = {p1}
    Prices = {1}
    MaxTrades = 1
    FundedEach = 2
    Escrowed = {m1}
    Resellers = {m1}
    Lossy = FALSE
    MaxCrashes = 0
    Funded <- EachFunded
SPECIFICATION FairSpec
CHECK_DEADLOCK FALSE
PROPERTIES
    ArmedTradesEnd
