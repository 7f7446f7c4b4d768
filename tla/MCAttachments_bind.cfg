SPECIFICATION Spec
CONSTANTS
    Att = {a1, a2}
    Scopes = {sc1, sc2}
    Completions = {p1, p2}
    Sends = {s1, s2}
    Cleaners = {}
    Contents = {good}
    RightSize = {good}
    Infected = {}
    ScanMode = "disabled"
    UploadExpire = 0
    PendingTTL = 0
    BatchLimit = 1
    MaxPerMessage = 2
    MaxTime = 1
    MaxFaults = 0
    Null = Null
SYMMETRY Symmetry
CHECK_DEADLOCK FALSE
INVARIANTS
    BindingConsistent
