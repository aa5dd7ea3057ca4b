SPECIFICATION Spec
CONSTANTS
    Ledger = {1, 2, 3, 4, 5}
    Chain <- MCChain
    Window = 256
    Count = {1, 2}
    Issued = {0, 2, 3}
    MaxSupport = 4
INVARIANTS
    checkInvariants
    BranchSupportExact
    PreferredExact
PROPERTIES
    ImplementsBag
CHECK_DEADLOCK FALSE
