SPECIFICATION SettledSpec
CONSTANTS
    Ledger = {1, 2, 3}
    Chain <- MCChain
    Window = 256
    NodeID = {n1, n2}
    None = None
    Claim <- MCClaim
    SignSkew = {0}
    MaxTime = 2
    validationCurrentWall = 2
    validationCurrentLocal = 2
    validationCurrentEarly = 1
    validationSetExpires = 2
    validationFRESHNESS = 1
INVARIANTS
    OnlyTrustedSupport

VIEW SupportView
CHECK_DEADLOCK FALSE
