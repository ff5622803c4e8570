SPECIFICATION FilesSpec
CONSTANTS
    Names = {create, scale}
    MaxClock = 2
    MaxOps = 3
    MaxCollects = 2
    Nothing = Nothing
INVARIANTS
    NoRecordLost
    LinesPerCollect
PROPERTIES
    SuccessCollectsAll
CHECK_DEADLOCK FALSE
