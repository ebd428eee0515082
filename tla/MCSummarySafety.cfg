SPECIFICATION Spec
CHECK_DEADLOCK FALSE
CONSTANTS
    a = a
    q1 = q1
    r1 = r1
    r2 = r2
    Collections = {a}
    Clients = {q1}
    Reconcilers = {r1, r2}
    Ids = {"i1", "i2", "i3"}
    Messages = {1, 2, 3}
    FaultKinds = {"request", "round", "broker", "lose", "redeliver", "error"}
    MaxUpdates = 2
    MaxFaults = 1
INVARIANT TypeOK
INVARIANT IndInv
PROPERTY ImplementsLifecycle
SYMMETRY Symmetry
