SPECIFICATION Spec
CONSTANTS
    g0 = g0
    a1 = a1
    a2 = a2
    b1 = b1
    Blocks <- MCBlocks
    Genesis = g0
    Parent <- MCParent
    Number <- MCNumber
    FirstBlock = 1
    LastBlock = 2
    MaxBranchLen = 2
    Messages <- MCMessages
    MaxProposalsPending = 2
    MaxMessagesPending = 2
    MaxTriggersPending = 2
    MaxReceived = 3
    MaxLost = 1
INVARIANTS
    LinksAgree
    SentIsAvailable
    SentPromptly
    MemoryBounded
PROPERTIES
    AvailabilityIsStable
    MaintenanceRecovers
