SPECIFICATION Spec
CONSTANTS
    g0 = g0
    a1 = a1
    a2 = a2
    a3 = a3
    b1 = b1
    Blocks <- MCBlocks
    Genesis = g0
    Parent <- MCParent
    Number <- MCNumber
    Justifiable = {a1, a2, a3}
    MaxDepth = 3
    SessionPeriod = 2
    SyncThreshold = 1
    Requested = {a2}
    StateResponses <- MCStateResponses
    Responses <- MCResponses
    CacheSize = 2
    MaxFailures = 1
    MaxRestarts = 1
    NoBlock = NoBlock
INVARIANTS
    
    ForestSeesImports
    
PROPERTIES
    FinalizesSafely
