SPECIFICATION FairSpec
CONSTANTS
    i1 = i1
    i2 = i2
    d1 = d1
    d2 = d2
    Instance = {i1, i2}
    Device = {d1, d2}
    Home <- MCHome
    PeerHome = i1
    TTL = 1
    Limit = 2
    Window = 1
    MaxInbox = 1
    MaxFaults = 0
PROPERTY
    NeverStuck
