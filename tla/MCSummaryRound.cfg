SPECIFICATION Spec
CHECK_DEADLOCK FALSE
CONSTANTS
    a = a
    b = b
    q1 = q1
    q2 = q2
    r1 = r1
    Collections = {a, b}
    Clients = {q1, q2}
    Reconcilers = {r1}
    Ids = {"i1", "i2", "i3"}
    Messages = {1, 2}
    FaultKinds = {"broker"}
    MaxUpdates = 1
    MaxFaults = 1
INVARIANT HeldStaysClaimable
PROPERTY DescriptionFollowsSummary
SYMMETRY Symmetry
