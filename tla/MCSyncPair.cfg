SPECIFICATION PairSpec
CONSTANTS
    g0 = g0
    a1 = a1
    a2 = a2
    a3 = a3
    a4 = a4
    a5 = a5
    Blocks <- MCBlocks
    Genesis = g0
    Parent <- MCParent
    Number <- MCNumber
    Justifiable = {a1, a3, a5}
    MaxDepth = 3
    SessionPeriod = 2
    SyncThreshold = 2
    Requested = {a4}
    StateResponses = {}
    Responses = {}
    CacheSize = 2
    MaxFailures = 0
    MaxRestarts = 0
    NoBlock = NoBlock
    PeerStart = a3
    PeerBlocks <- MCBlocks
    MessageItems = 3
    MaxInFlight = 1
    MaxLost = 1
CHECK_DEADLOCK FALSE
PROPERTIES
    CatchesUp
    WantedArrives
INVARIANTS
    NeededIsVerifiable
