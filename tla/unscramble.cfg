CONSTANTS
    MaxAmps = 2
    PreCols = 1
    DataCols = 2
    PostCols = 1
    PreRows = 1
    DataRows = 1
    PostRows = 0
    Orders <- MCOrders
    Definitions <- MCDefinitions
    MaxCalls = 5
SPECIFICATION Spec
INVARIANTS TypeOK EveryPixelOnce Oriented SectionsOfAllSides
CHECK_DEADLOCK FALSE
