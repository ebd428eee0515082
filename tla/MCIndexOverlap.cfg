SPECIFICATION Spec
CONSTANTS
    vector = vector
    c1 = c1
    c2 = c2
    r1 = r1
    Types = {vector}
    Clients = {c1, c2}
    Reconcilers = {r1}
    Ops = {"upload", "confirm", "delete", "expire"}
    FaultKinds = {}
    Ids = {1, 2, 3, 4, 5, 6}
    Batches = {1, 2, 3, 4, 5, 6}
    MaxVersion = 2
    MaxRetries = 0
    MaxFaults = 0
INVARIANT HeldRowsKeep
PROPERTY OnlyJobsWriteIndexData
SYMMETRY Symmetry
