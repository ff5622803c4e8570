SPECIFICATION Spec
CONSTANTS
    Requests <- MCRequests
    OldNodes = 1
    BatchMaxRetries = 2
    BatchMaxMachines = 2
    ReadyTimeout = 2
    NodePoll = 1
    FailureCheckInterval = 2
    FailureDetailLimit = 1
    MaxPages = 2
    PoolTimeout = 1
    PoolPoll = 1
INVARIANTS
    TimingsMonotone
    OnlyNewNodesCount
    FailureIsFinal
    SuccessMeansAllNew
    NothingOutstanding
PROPERTIES
    ImplementsMeasured
CHECK_DEADLOCK FALSE
