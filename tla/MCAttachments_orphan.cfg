SPECIFICATION Spec
CONSTANTS
    Att = {a1}
    Scopes = {sc1}
    Completions = {p1}
    Sends = {s1}
    Cleaners = {c1}
    Contents = {good, long}
    RightSize = {good}
    Infected = {}
    ScanMode = "disabled"
    UploadExpire = 1
    PendingTTL = 1
    BatchLimit = 1
    MaxPerMessage = 1
    MaxTime = 2
    MaxFaults = 1
    Null = Null
CHECK_DEADLOCK FALSE
INVARIANT
    NothingLeftBehind
