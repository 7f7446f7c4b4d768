SPECIFICATION Spec
CONSTANTS
    Message = {1, 2, 3}
    HistoryLimit = 2
    RecoverLimit = 2
    MaxPages = 2
    Slot = {1}
    MaxFaults = 0
INVARIANT
    GapsClosed
\* A tab that has been left, with a token that has expired, does nothing more.
CHECK_DEADLOCK FALSE
