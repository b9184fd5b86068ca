CONSTANTS
    Agents = {a1}
    Keyed = {a1}
    Mandates = {1, 2, 3}
    BuyerOf <- MCBuyerOf
    Yield <- MCYield
    Limit <- MCLimit
    DebtorCap <- MCDebtorCap
    MaxTenor <- MCMaxTenor
    Takes <- MCTakes
    Escrowed = {3}
    Invoices = {i1, i2}
    Debtors = {d1}
    DebtorOf <- MCDebtorOf
    Face <- MCFace
    Due <- MCDue
    Barred <- MCBarred
    Days = {0, 365}
    Funded <- MCFunded
    Quotes = {1, 2}
    Trades = {1, 2}
    Requests = {r1, r2}
SPECIFICATION Spec
SYMMETRY Symmetry
CHECK_DEADLOCK FALSE
INVARIANTS
    TickWithinMandates
    PartsOnlyByRoom
    
    LimitsBrokenOnlyByRaces
    PaysUnderItsOwnQuote
