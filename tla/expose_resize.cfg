CONSTANTS
    Detectors = {"optical", "infrared"}
    ExpTime = 3
    Break = 1
    StopTime = 1
    NImages = 2
    Resizes = {1,3}
    UMod = 4
    ContRead = FALSE
    SupportAbort = TRUE
    ReadErrors = {"ETIME"}
    DriverFails = FALSE
    Commands = {"set_nimages"}
    MaxCalls = 1
    MaxRuns = 1
    NReads = 1
    NPre = 1
    NPost = 1
    NCoadds = 1
    NSur = 1
SPECIFICATION Spec
INVARIANTS ResizeBounded
CHECK_DEADLOCK FALSE
