SPECIFICATION FairSpec
CONSTANTS
    NodeID = {p1, p2, p3, p4, p5}
    None = None
    ledgerMinConsensus = 1
    ledgerMaxConsensus = 2
    ledgerAbandonConsensus = 4
    ledgerAbandonConsensusFactor = 2
    ledgerMinClose = 1
    ledgerIdleInterval = 2
    longWait = 3
    avMinConsensusTime = 2
    avMinRounds = 1
    avStalledRounds = 2
    proposeFRESHNESS = 3
    proposeINTERVAL = 2
    MaxChanges = 5
INVARIANTS
    TypeOK
    CountsMatchVotes
    StalledIsFinal
PROPERTIES
    VoteSettles
