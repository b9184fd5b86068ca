CONSTANTS
    Invoices = {i1}
    Bonds = {b1}
    Receivables = {h1}
    Grades = {1}
    DueDates = {3}
    Null = null
    MaxTime = 4
    Users = {seller, buyer}
    seller = seller
    buyer = buyer
    debtor = debtor
    SellerOf <- TheSeller
    DebtorOf <- TheDebtor
    FaceOf <- OneUnit
    Facets <- BuyerOnly
    Mandates = {m1}
    Terms <- Bids
    Refs = {1, 2}
    Statuses = {"confirmed"}
    Amounts = {3}
    Settlers = {}
    LockIds = {l1}
    Attempts = 2
    MaxAuths = 1
    MatchBy = 2
    Day = 1
    YearBps = 6
    MaxYield = 2
    MaxTenor = 3
    MinLock = 1
    MaxLock = 1
    SettlementWindow = 2
    Diligent = TRUE
SPECIFICATION LegsFairSpec
CHECK_DEADLOCK FALSE
INVARIANTS
    Conserved
    CancelledMeansUndelivered
PROPERTIES
    DeliveryIsPaid
    NothingStranded
