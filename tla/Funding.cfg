CONSTANTS
    m1 = m1
    Bids = {m1}
    Required <- Three
    Keys = {k1, k2, k3}
    Wealth = 5
    Outside = 2
    Outflow = 1
    Runs = 4
SPECIFICATION FundingSpec
CHECK_DEADLOCK FALSE
INVARIANTS
    NothingPostedTwice
