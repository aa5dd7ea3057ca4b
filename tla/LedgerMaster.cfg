CONSTANTS
    n1 = n1
    n2 = n2
    n3 = n3
    t1 = t1
    t2 = t2
    Ledger = {1, 2, 3}
    Chain <- ForkChain
    Window = 8
    NodeID = {n1, n2, n3}
    minimumQuorum = 1
    Trusted = {n1, n2, n3}
    Self = n3
    NegativeUNL = {n3}
    Thread = {t1, t2}
    Validation <- ForkValidations
    Builds = {2}
    Untimely = {}
    maxSeqLead = 2
    kMaxLedgerGap = 1
    ledgerFetchSize = 2
    Unavailable = {}
    Nobody = Nobody
SPECIFICATION Spec
SYMMETRY Symmetry
PROPERTY KeepsPromise
