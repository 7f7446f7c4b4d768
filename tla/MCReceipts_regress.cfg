SPECIFICATION Spec
CONSTANTS
    Messages = {1}
    Sockets = {c1}
    MaxFaults = 0
INVARIANT
    PageMatchesRows
