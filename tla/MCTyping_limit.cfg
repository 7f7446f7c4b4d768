SPECIFICATION FairSpec
CONSTANTS
    i1 = i1
    i2 = i2
    d1 = d1
    d2 = d2
    Instance = {i1, i2}
    Device = {d1, d2}
    Home <- MCHome
    PeerHome = i1
    TTL = 1
    Limit = 1
    Window = 2
    MaxInbox = 1
    MaxFaults = 1
CONSTRAINT
    Unspoiled
INVARIANTS
    TypeOK
    IndicatorBacked
    BurstBounded
PROPERTIES
    IndicatorClears
    LimitLifts
