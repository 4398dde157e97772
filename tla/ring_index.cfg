CONSTANTS
    Circ = 2
    Bufs = 1
    Frames = 5
    MaxRuns = 1
SPECIFICATION Spec
INVARIANTS IndexInRange
CHECK_DEADLOCK FALSE
