SPECIFICATION Spec
CONSTANTS
    Instances = {i1}
    Sockets = {k1, k2}
    Routes <- AnyRoute
    k1 = k1
    i1 = i1
    TTL = 1
    StaleSockets = FALSE
    Disruptive = {}
    MaxFaults = 0
PROPERTY
    LastDisconnectOnly
