CONSTANTS
    Detectors = {"optical", "infrared"}
    ExpTime = 3
    Break = 1
    StopTime = 1
    NImages = 2
    Resizes = {}
    UMod = 4
    ContRead = FALSE
    SupportAbort = TRUE
    ReadErrors = {"ETIME"}
    DriverFails = FALSE
    Commands = {"abort_all", "pause"}
    MaxCalls = 2
    MaxRuns = 1
    NReads = 1
    NPre = 1
    NPost = 1
    NCoadds = 1
    NSur = 1
SPECIFICATION FairSpec
PROPERTIES AbortEnds
CHECK_DEADLOCK FALSE
