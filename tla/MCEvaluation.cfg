SPECIFICATION FairSpec
CHECK_DEADLOCK FALSE
CONSTANTS
    e1 = e1
    i1 = i1
    b1 = b1
    b2 = b2
    t1 = t1
    t2 = t2
    Evals = {e1}
    Items = {i1}
    EvalOf <- MCEvalOf
    MaxEvals = 1
    MaxTasks = 1
    Batches = {b1, b2}
    Runs = {t1, t2}
    None = None
    MaxAsked = 1
    MaxFaults = 1
INVARIANT TypeOK
INVARIANT OneRunPerItem
INVARIANT CompletedIsComplete
PROPERTY RunningEnds
