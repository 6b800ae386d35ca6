SPECIFICATION Spec
CONSTANTS
    r = r
    a = a
    b = b
    c = c
    k1 = k1
    k2 = k2
    Accounts = {r, a, b, c}
    GenesisReserved <- MCReserved
    GenesisNonReserved <- MCNonReserved
    GenesisSeats <- TwoSeats
    Lists <- MCLists
    SeatChoices <- MCSeats
    SessionPeriod = 2
    SessionsPerEra = 2
    MinValidators = 2
    MinPerformance = 50
    UnderperformedThreshold = 2
    CleanDelay = 4
    BanPeriod = 1
    Finalizers = {k1, k2}
    Versions = {0, 1}
    LastSession = 6
    MaxCalls = 2
    None = None
CHECK_DEADLOCK FALSE
INVARIANTS
    EmergencyKeyInForce
    ProducersAreJudged
    ChosenFinalize
    PredictionHolds
    BanServed
PROPERTIES
    VersionForeseen
