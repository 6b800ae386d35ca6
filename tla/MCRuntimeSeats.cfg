SPECIFICATION Spec
CONSTANTS
    r = r
    a = a
    b = b
    c = c
    k1 = k1
    k2 = k2
    Accounts = {r, a, b, c}
    GenesisReserved <- MCReserved
    GenesisNonReserved <- MCNonReserved
    GenesisSeats <- ThreeSeats
    Lists <- MCLists
    SeatChoices <- MCSeats
    SessionPeriod = 4
    SessionsPerEra = 2
    MinValidators = 2
    MinPerformance = 50
    UnderperformedThreshold = 2
    CleanDelay = 4
    BanPeriod = 1
    Finalizers = {k1, k2}
    Versions = {0, 1}
    LastSession = 4
    MaxCalls = 1
    None = None
CHECK_DEADLOCK FALSE
PROPERTIES
    JudgedByOwnSeats
