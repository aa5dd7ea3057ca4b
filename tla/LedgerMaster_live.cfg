CONSTANTS
    n1 = n1
    n2 = n2
    n3 = n3
    t1 = t1
    t2 = t2
    Ledger = {1, 2, 3, 4}
    Chain <- Line4
    Window = 8
    NodeID = {n1}
    minimumQuorum = 0
    Trusted = {n1}
    Self = Nobody
    NegativeUNL = {}
    Thread = {t1}
    Validation <- FirstAndLast
    Builds = {}
    Untimely = {}
    maxSeqLead = 3
    kMaxLedgerGap = 3
    ledgerFetchSize = 3
    Unavailable = {1, 2, 3, 4}
    Nobody = Nobody
SPECIFICATION FairSpec
PROPERTY EventuallyPublished
