CONSTANTS
    s1 = s1
    s2 = s2
    n1 = n1
    n2 = n2
    n3 = n3
    Ledger = {1, 2, 3}
    Chain <- MCChain
    Window = 8
    NodeID = {n1, n2, n3}
    minimumQuorum = 0
    Server = {s1, s2}
    UNL <- MCUNL
    NegativeUNL = {}
    Faulty = {n3}
SPECIFICATION Spec
INVARIANT AgreeAtSequence
