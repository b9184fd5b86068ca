CONSTANTS
    Requests = {r1}
    Funders = {r1}
    Withdrawers = {r1}
    Positions = {p1, p2}
    Amounts = {0, 1, 2, 3}
    Prices = {1, 2, 3}
    Limit = 4
    Scale = 2
    Wealth = 3
    Late = FALSE
    MaxAgain = 9
    MaxCrashes = 1
SPECIFICATION Spec
CHECK_DEADLOCK FALSE
INVARIANTS
    BookWithinVault
    QuotedIsBacked
