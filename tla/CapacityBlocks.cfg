SPECIFICATION Spec
CONSTANTS
    Offerings <- MCOfferings
    Durations = {0, 1, 48}
    InstanceCounts = {0, 1}
    Resends = 1
    MaxRuns = 2
    None = None
INVARIANTS
    BoughtAsAsked
    PaidIsReported
CHECK_DEADLOCK FALSE
