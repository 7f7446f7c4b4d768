SPECIFICATION LiveSpec
CONSTANTS
    Instances = {i1, i2}
    Sockets = {k1, k2}
    Routes <- OneRoute
    k1 = k1
    i1 = i1
    TTL = 1
    StaleSockets = FALSE
    Disruptive = {}
    MaxFaults = 0
PROPERTIES
    OfflineDetected
    SnapshotHeals
