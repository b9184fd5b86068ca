CONSTANTS
    Users = {u1, u2}
    Vault = vault
    Escrow = escrow
    Null = null
    LockIds = {l1, l2}
    Secrets = {k1}
    Matches = {x1}
    MinLock = 1
    MaxLock = 1
    Supply = 1
    MaxTime = 1
    Mandates = {m1, m2}
    AuthIds = {a1, a2}
    Amounts = {1, 2}
    Durations = {1}
    PayoutWindow = 1
SPECIFICATION Spec
CHECK_DEADLOCK FALSE
SYMMETRY Symmetry
INVARIANTS
    Solvent
    PaidAsBound
    Reclaimable
PROPERTIES
    ImplementsLedger
