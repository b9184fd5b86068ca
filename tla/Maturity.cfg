CONSTANTS
    Invoices = {i1}
    Buyers = {b1, b2}
    Vaulted = {b1}
    Payable = {b1, b2}
    Requests = {r1, r2}
    Funded = 1
    Opening <- OpeningRecord
    Buckets <- Ladder
    DueAt = 1
    MaxDay = 2
    MaxSchedules = 2
    Collecting = TRUE
    Lossy = TRUE
    MaxCrashes = 1
SPECIFICATION FairSpec
CHECK_DEADLOCK FALSE
INVARIANTS
    StatusFollowsLedger
    CountedOnce
    PaysTheOwner
    LossKept
PROPERTIES
    PaymentSeenThrough
