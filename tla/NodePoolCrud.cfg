SPECIFICATION FairSpec
CONSTANTS
    Commands <- MCCommands
    MaxCount = 3
    Retries = 2
    MaxPolls = 2
INVARIANTS
    TypeOK
    ReadinessIsFresh
    StepsChain
    ScaledToTarget
    AllCleansUp
    ExitCodeIsHonest
PROPERTIES
    RecordsAreTrue
    EndsOrHangs
CHECK_DEADLOCK FALSE
