SPECIFICATION Spec
CONSTANTS
    n1 = n1
    n2 = n2
    n3 = n3
    Nodes = {n1, n2, n3}
    Quorum = 2
    LastBlock = 2
    MaxStops = 1
    EarlyEnd = TRUE
    Nil = Nil
CHECK_DEADLOCK FALSE
INVARIANTS
    SubmittedInOrder
PROPERTIES
    EveryBlockJustified
