SPECIFICATION Spec
CONSTANTS
    Att = {a1}
    Scopes = {sc1}
    Completions = {p1, p2}
    Sends = {s1, s2}
    Cleaners = {c1, c2}
    Contents = {good, bad}
    RightSize = {good, bad}
    Infected = {bad}
    ScanMode = "clamav"
    UploadExpire = 1
    PendingTTL = 1
    BatchLimit = 1
    MaxPerMessage = 1
    MaxTime = 2
    MaxFaults = 1
    Null = Null
SYMMETRY Symmetry
CHECK_DEADLOCK FALSE
INVARIANTS
    TypeOK
    BindingConsistent
    ServedContentVerified
    PromptBindingServed
    LossNeedsFault
    LeftoversExplained
    SweepsDisjoint
PROPERTIES
    OneLife
