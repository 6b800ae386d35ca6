SPECIFICATION Spec
CONSTANTS
    g0 = g0
    a1 = a1
    a2 = a2
    a3 = a3
    a4 = a4
    a5 = a5
    Blocks <- MCBlocks
    Genesis = g0
    Parent <- MCParent
    Number <- MCNumber
    Justifiable = {a1, a2, a3, a5}
    MaxDepth = 3
    SessionPeriod = 2
    SyncThreshold = 2
    Requested = {}
    StateResponses = {}
    Responses = {}
    CacheSize = 2
    MaxFailures = 0
    MaxRestarts = 0
    NoBlock = NoBlock
INVARIANTS
    ForestSeesImports
