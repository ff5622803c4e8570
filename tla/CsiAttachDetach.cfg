SPECIFICATION Spec
CONSTANTS
    DiskNumbers = {1, 2}
    MaxRuns = 2
    MaxRestarts = 1
    None = None
INVARIANTS
    PhasesAreComplete
PROPERTIES
    CollectedIsLastRun
    HangsOnlyOnForeignVolumes
CHECK_DEADLOCK FALSE
