SPECIFICATION HFairSpec
CHECK_DEADLOCK FALSE
CONSTANTS
    a = a
    q1 = q1
    q2 = q2
    r1 = r1
    r2 = r2
    Collections = {a}
    Clients = {q1, q2}
    Reconcilers = {r1, r2}
    Ids = {"i1", "i2", "i3"}
    Messages = {1, 2}
    FaultKinds = {"broker", "error", "request"}
    MaxUpdates = 2
    MaxFaults = 1
INVARIANT OneTaskPerSummary
INVARIANT RowMatchesConfig
PROPERTY WaitingIsTakenUp
