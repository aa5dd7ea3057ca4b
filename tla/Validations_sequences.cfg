SPECIFICATION Spec
CONSTANTS
    Ledger = {1, 2, 3}
    Chain <- MCChain
    Window = 256
    NodeID = {n1}
    None = None
    Claim <- MCClaim
    SignSkew = {0}
    MaxTime = 4
    validationCurrentWall = 2
    validationCurrentLocal = 2
    validationCurrentEarly = 2
    validationSetExpires = 2
    validationFRESHNESS = 1
INVARIANTS
    OneLedgerPerSequence

VIEW SetsView
CHECK_DEADLOCK FALSE
