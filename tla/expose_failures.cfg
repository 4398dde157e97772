CONSTANTS
    Detectors = {"optical", "infrared"}
    ExpTime = 3
    Break = 1
    StopTime = 1
    NImages = 2
    Resizes = {1}
    UMod = 4
    ContRead = FALSE
    SupportAbort = TRUE
    ReadErrors = {"ECONNABORTED", "EIO", "ETIME"}
    DriverFails = TRUE
    Commands = {"stop_seq", "stop_coadd", "stop_exp", "stop_sur", "abort_all", "abort_coadd", "pause", "resume", "set_nimages"}
    MaxCalls = 2
    MaxRuns = 1
    NReads = 1
    NPre = 1
    NPost = 1
    NCoadds = 1
    NSur = 2
SPECIFICATION Spec
INVARIANTS TypeOK WholeImages ImagesAccounted AbortHasCause
PROPERTIES ImplementsSequence
CHECK_DEADLOCK FALSE
