SPECIFICATION Spec
CONSTANTS
    NodeID = {p1, p2}
    None = None
    LedgerID = {1}
    Tx = {x}
    CloseTime = {2}
    Resolution = 2
    CloseAge = {0}
    Delay = {1}
    RecentPositions = 1
    MaxSeq = 1
    Proposals <- VotesProposals
    MaxProposals = 3
    MaxRounds = 1
    MaxRoundTime = 1
    RoundTimeCap = 4
    ledgerMinConsensus = 1
    ledgerMaxConsensus = 2
    ledgerAbandonConsensus = 3
    ledgerAbandonConsensusFactor = 2
    ledgerMinClose = 1
    ledgerIdleInterval = 1
    longWait = 2
    avMinConsensusTime = 1
    avMinRounds = 1
    avStalledRounds = 2
    proposeFRESHNESS = 2
    proposeINTERVAL = 1
INVARIANTS
    TypeOK
    VotesMatchPositions
    DisputesComplete
    EndsForAReason
SYMMETRY PeerSymmetry
CHECK_DEADLOCK FALSE
