SPECIFICATION Spec
CONSTANTS
    g0 = g0
    a1 = a1
    a2 = a2
    Blocks <- MCBlocks
    Genesis = g0
    Parent <- MCParent
    Number <- MCNumber
    Justifiable = {a1, a2}
    MaxDepth = 3
    SessionPeriod = 3
    SyncThreshold = 1
    Requested = {a2}
    StateResponses = {}
    Responses = {}
    CacheSize = 2
    MaxFailures = 1
    MaxRestarts = 0
    NoBlock = NoBlock
PROPERTIES
    SessionEndFinalized
