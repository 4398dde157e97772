CONSTANTS
    Circ = 2
    Bufs = 1
    Frames = 4
    MaxRuns = 2
SPECIFICATION FairSpec
INVARIANTS TypeOK NoPixelsBeforeRead
PROPERTIES EndReported ImplementsQueue
CHECK_DEADLOCK FALSE
