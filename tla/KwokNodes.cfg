SPECIFICATION Spec
CONSTANTS
    NodeCounts = {1, 2}
    BaseIps <- MCBaseIps
    MaxRetries = 2
    MaxCommands = 3
    None = None
INVARIANTS
    SuccessMeansDone
    AddressIsSum
CHECK_DEADLOCK FALSE
