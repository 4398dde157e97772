CONSTANTS
    Chunks = 3
    Layouts <- RoundLayouts
    Exposures <- AllExposures
    FastSlots = 3
    MaxBehind = 1
    MaxExposures = 2
    MaxFaults = 1
SPECIFICATION FairSpec
INVARIANTS TypeOK FramesIntact
PROPERTIES NoFalseTimeout ReadoutEnds
CHECK_DEADLOCK FALSE
