SPECIFICATION LiveSpec
CONSTANTS
    Instances = {i1, i2}
    Sockets = {k1}
    Routes <- AnyRoute
    k1 = k1
    i1 = i1
    TTL = 1
    StaleSockets = FALSE
    Disruptive = {"error"}
    MaxFaults = 1
PROPERTY
    OfflineDetected
