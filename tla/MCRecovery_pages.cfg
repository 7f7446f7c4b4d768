SPECIFICATION FairSpec
CONSTANTS
    Message = {1, 2, 3, 4}
    HistoryLimit = 2
    RecoverLimit = 1
    MaxPages = 2
    Slot = {1}
    MaxFaults = 1
INVARIANTS
    TypeOK
    RecoveryCovers
    CapMeansBacklog
    HistoryContiguous
PROPERTIES
    OnlyOlderFolded
    Reconnects
\* A tab that has been left, with a token that has expired, does nothing more.
CHECK_DEADLOCK FALSE
