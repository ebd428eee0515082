SPECIFICATION Spec
CONSTANTS
    vector = vector
    c1 = c1
    r1 = r1
    r2 = r2
    Types = {vector}
    Clients = {c1}
    Reconcilers = {r1, r2}
    Ops = {"create", "rebuild", "rebuild_failed", "delete"}
    FaultKinds = {"abort", "lose", "redeliver", "error"}
    Ids = {1, 2, 3, 4, 5, 6}
    Batches = {1, 2, 3, 4, 5, 6}
    MaxVersion = 3
    MaxRetries = 1
    MaxFaults = 1
INVARIANT ActiveIsReady
