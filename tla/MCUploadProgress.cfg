SPECIFICATION FairSpec
CHECK_DEADLOCK FALSE
CONSTANTS
    f1 = f1
    f2 = f2
    f3 = f3
    Files = {f1, f2, f3}
    Concurrency = 2
    MaxRuns = 2
INVARIANT TypeOK
INVARIANT BusyWhileRunning
INVARIANT OneLoopPerFile
INVARIANT WithinConcurrency
PROPERTY SuccessIsKept
PROPERTY EveryFileIsTried
