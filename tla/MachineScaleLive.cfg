SPECIFICATION FairSpec
CONSTANTS
    Requests <- MCLive
    OldNodes = 0
    BatchMaxRetries = 2
    BatchMaxMachines = 2
    ReadyTimeout = 2
    NodePoll = 1
    FailureCheckInterval = 2
    FailureDetailLimit = 1
    MaxPages = 2
    PoolTimeout = 2
    PoolPoll = 1
PROPERTY EndsOrNodeListHangs
CHECK_DEADLOCK FALSE
