SPECIFICATION SettledSpec
CONSTANTS
    Ledger = {1, 2, 3}
    Chain <- MCChain
    Window = 256
    NodeID = {n1, n2}
    None = None
    Claim <- MCClaim
    SignSkew = {0}
    MaxTime = 1
    validationCurrentWall = 2
    validationCurrentLocal = 2
    validationCurrentEarly = 1
    validationSetExpires = 2
    validationFRESHNESS = 1
INVARIANTS
    TypeOK
    TrieCountsLastLedgers
    AcquiringIsCurrent
    FinishedAreCounted
    PreferredStays
PROPERTIES
    WithTrieSeesCurrent

VIEW SupportView
SYMMETRY Nodes
CHECK_DEADLOCK FALSE
