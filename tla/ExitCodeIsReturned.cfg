SPECIFICATION Spec
CONSTANTS
    Commands <- MCGpu
    MaxCount = 1
    Retries = 2
    MaxPolls = 2
INVARIANT ExitCodeIsReturned
CHECK_DEADLOCK FALSE
