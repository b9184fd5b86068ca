CONSTANTS
    Invoices = {i1, i2}
    Bonds = {b1, b2}
    Receivables = {h1, h2}
    Grades = {1}
    DueDates = {3}
    Null = null
    MaxTime = 3
    Users = {seller, buyer}
    seller = seller
    buyer = buyer
    debtor = debtor
    SellerOf <- TheSeller
    DebtorOf <- TheDebtor
    FaceOf <- OneUnit
    Facets <- BuyerOnly
    Mandates = {m1}
    Terms <- Bids
    Refs = {1}
    Statuses = {"confirmed"}
    Amounts = {3}
    Settlers = {buyer}
    LockIds = {l1}
    Attempts = 1
    MaxAuths = 1
    MatchBy = 1
    Day = 1
    YearBps = 6
    MaxYield = 2
    MaxTenor = 3
    MinLock = 1
    MaxLock = 1
    SettlementWindow = 2
    Diligent = FALSE
SPECIFICATION Spec
CHECK_DEADLOCK FALSE
SYMMETRY Symmetry
INVARIANTS
    AllocatedIsOpen
    ExposureExact
    OneSalePerReceivable
    PreviewNeverReverts
