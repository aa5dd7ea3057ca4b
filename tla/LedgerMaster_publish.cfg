CONSTANTS
    n1 = n1
    n2 = n2
    n3 = n3
    t1 = t1
    t2 = t2
    Ledger = {1, 2, 3, 4, 5}
    Chain <- Line5
    Window = 8
    NodeID = {n1}
    minimumQuorum = 1
    Trusted = {n1}
    Self = Nobody
    NegativeUNL = {}
    Thread = {t1}
    Validation <- AllButSecond
    Builds = {}
    Untimely = {}
    maxSeqLead = 4
    kMaxLedgerGap = 3
    ledgerFetchSize = 3
    Unavailable = {2, 3, 4}
    Nobody = Nobody
SPECIFICATION Spec
INVARIANTS TypeOK NextIsComing
PROPERTY PublishedInOrder
