CONSTANTS
    Invoices = {i1, i2}
    Receivables = {h1, h2}
    MaxRequests = 2
    Links = {l1, l2}
    Asked = {i1}
    Rivals = {h2}
    MaxAttempts = 2
    ResumeLimit = 2
    Lossy = FALSE
    MaxCrashes = 1
SPECIFICATION FairSpec
CHECK_DEADLOCK FALSE
INVARIANTS
    OneRowPerReceivable
    RegistryFollowsRow
    ConfirmedOnChainIsAnswered
PROPERTIES
    AnswerStands
    IssuanceConcludes
