SPECIFICATION Spec
CONSTANTS
    g0 = g0
    a1 = a1
    a2 = a2
    a3 = a3
    a4 = a4
    b1 = b1
    n1 = n1
    n2 = n2
    Blocks <- MCBlocks
    Genesis = g0
    Parent <- MCParent
    Number <- MCNumber
    FirstBlock = 1
    LastBlock = 3
    MaxBranchLen = 2
    Nodes = {n1, n2}
    Proposed <- MCProposed
    MaxOrdered = 3
    Nil = Nil
SYMMETRY Members
CHECK_DEADLOCK FALSE
INVARIANTS
    NeverPanics
    SentAlongOneChain
    SameDataSameBlock
    OwnDataPasses
