SPECIFICATION LiveSpec
CONSTANTS
    Instances = {i1}
    Sockets = {k1}
    Routes <- AnyRoute
    k1 = k1
    i1 = i1
    TTL = 1
    StaleSockets = TRUE
    Disruptive = {}
    MaxFaults = 0
PROPERTY
    OfflineDetected
