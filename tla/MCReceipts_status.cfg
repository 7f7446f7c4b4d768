SPECIFICATION Spec
CONSTANTS
    Messages = {1, 2}
    Sockets = {c1, c2}
    MaxFaults = 1
SYMMETRY Symmetry
INVARIANTS
    TypeOK
    NoMissedDelivery
    NeverOverclaims
PROPERTY
    StatusOnlyAdvances
