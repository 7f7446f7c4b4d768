SPECIFICATION AccountsSpec
CONSTANTS
    Request = {r1, r2}
    Name = {n1, n2}
    Token = {t1, t2, t3}
    None = None
    Conversation = {c1, c2}
    MaxFaults = 1
SYMMETRY Symmetry
INVARIANTS
    TypeOK
    RotationAtomic
    SuccessorsReplace
    RevokedRefused
    ConflictIsVisible
PROPERTIES
    OneConversation
