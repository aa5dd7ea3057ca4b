SPECIFICATION Spec
CONSTANTS
    NodeID = {p1}
    None = None
    LedgerID = {1, 2}
    Tx = {x}
    CloseTime = {2}
    Resolution = 2
    CloseAge = {0}
    Delay = {1}
    RecentPositions = 2
    MaxSeq = 1
    Proposals <- LedgersProposals
    MaxProposals = 2
    MaxRounds = 1
    MaxRoundTime = 1
    RoundTimeCap = 4
    ledgerMinConsensus = 1
    ledgerMaxConsensus = 2
    ledgerAbandonConsensus = 3
    ledgerAbandonConsensusFactor = 2
    ledgerMinClose = 1
    ledgerIdleInterval = 1
    longWait = 2
    avMinConsensusTime = 1
    avMinRounds = 1
    avStalledRounds = 2
    proposeFRESHNESS = 2
    proposeINTERVAL = 1
INVARIANTS
    PeersKnowOurPosition
    PositionsForThisLedger
    RightLedgerUnlessWrong
PROPERTIES
    AcceptedIsFrozen
CHECK_DEADLOCK FALSE
