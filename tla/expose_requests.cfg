CONSTANTS
    Detectors = {"optical", "infrared"}
    ExpTime = 2
    Break = 1
    StopTime = 1
    NImages = 2
    Resizes = {}
    UMod = 4
    ContRead = FALSE
    SupportAbort = TRUE
    ReadErrors = {"ETIME"}
    DriverFails = FALSE
    Commands = {"stop_exp", "stop_coadd", "stop_sur", "stop_all", "abort_all"}
    MaxCalls = 2
    MaxRuns = 2
    NReads = 1
    NPre = 1
    NPost = 1
    NCoadds = 2
    NSur = 1
SPECIFICATION Spec
INVARIANTS CoaddsComplete NoOrphanExposure IdleAfterReturn SequenceLength ExposureTimeRestored
CHECK_DEADLOCK FALSE
