SPECIFICATION FairSpec
\* an instance, and with it the user's sockets, may stop for good
CHECK_DEADLOCK FALSE
CONSTANTS
    Instance = {i1, i2}
    Handler = {h1}
    Length = 2
    MaxFaults = 2
INVARIANTS
    TypeOK
    InOrderOnce
    NothingOvertakes
PROPERTIES
    ReachesHealthy
    ListenerRecovers
