SPECIFICATION Spec
CONSTANTS
    Instances = {i1, i2}
    Sockets = {k1, k2}
    Routes <- AnyRoute
    k1 = k1
    i1 = i1
    TTL = 1
    StaleSockets = TRUE
    Disruptive = {"crash", "error"}
    MaxFaults = 1
SYMMETRY Symmetry
INVARIANTS
    TypeOK
    IndexCoversLeases
    OnlineHasWitness
