CONSTANTS
    NCols = 2
    NRows = 4
    MaxAmps = 4
    Layouts <- MCLayouts
    Maps <- MCMaps
    Beyond = {2}
    Regions <- MCRegions
    Depths = {1, 2}
    Pieces = {1, 3, 4}
    MaxImages = 2
SPECIFICATION Spec
INVARIANTS TypeOK PixelsInPlace ImagesWhole NothingOutside
CHECK_DEADLOCK FALSE
