CONSTANTS
    Size = 3
    ntries = 2
    MaxImages = 3
    MaxSockets = 3
SPECIFICATION FairSpec
INVARIANTS TypeOK StreamsReadable SentOnce OneConnection
PROPERTIES SendEnds
CHECK_DEADLOCK FALSE
