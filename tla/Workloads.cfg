SPECIFICATION WorkloadSpec
CONSTANTS
    Types = {"deployment", "statefulset", "job"}
    Pools = {"poolA", "poolB"}
    Counts = {1, 2}
    MaxNumber = 2
    MaxCommands = 2
    Commands <- MCCommands
    None = None
INVARIANTS
    AllInstancesExist
PROPERTIES
    CountedIsReady
    CommandEnds
CHECK_DEADLOCK FALSE
