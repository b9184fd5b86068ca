CONSTANTS
    Requests = {r1, r2}
    Funders = {r1, r2}
    Withdrawers = {r1, r2}
    Positions = {p1}
    Amounts = {1, 2}
    Prices = {1}
    Limit = 2
    Scale = 2
    Wealth = 2
    Late = TRUE
    MaxAgain = 1
    MaxCrashes = 1
SPECIFICATION Spec
CHECK_DEADLOCK FALSE
SYMMETRY Symmetry
INVARIANTS
    WithinCommitment
PROPERTIES
    CloseStrandsNothing
