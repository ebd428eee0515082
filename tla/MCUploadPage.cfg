SPECIFICATION FairSpec
CHECK_DEADLOCK FALSE
CONSTANTS
    f1 = f1
    f2 = f2
    f3 = f3
    Files = {f1, f2, f3}
    Limit = 2
    MaxFiles = 3
    MaxRuns = 2
    MaxPages = 2
INVARIANT TypeOK
INVARIANT BusyWhileSending
INVARIANT OneSenderPerFile
INVARIANT StuckNeedsStop
PROPERTY LeavingStopsUploads
PROPERTY UploadingEnds
