SPECIFICATION FairSpec
CONSTANTS
    vector = vector
    c1 = c1
    r1 = r1
    r2 = r2
    Types = {vector}
    Clients = {c1}
    Reconcilers = {r1, r2}
    Ops = {"create", "rebuild", "rebuild_failed", "delete"}
    FaultKinds = {"error"}
    Ids = {1, 2, 3, 4, 5, 6}
    Batches = {1, 2, 3, 4, 5, 6}
    MaxVersion = 3
    MaxRetries = 0
    MaxFaults = 1
INVARIANT OneJobPerCurrentVersion
PROPERTY RequestsAreTakenUp
