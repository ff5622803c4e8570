SPECIFICATION Spec
CONSTANTS
    Ids = {p1, p2, p3}
    Excluded = {p3}
    MaxEdits = 2
    MaxRuns = 2
INVARIANTS
    UnreadMeansUntouched
    EditsSurvive
    ExcludedIsUntouched
PROPERTIES
    ExitZeroIsComplete
CHECK_DEADLOCK FALSE
