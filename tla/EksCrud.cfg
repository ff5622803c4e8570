SPECIFICATION FairSpec
CONSTANTS
    Policies = {p1, p2}
    Reservations = {r1, r2}
    Placeable = {r1}
    MaxCount = 2
    MaxTemplates = 2
    Retries = 1
    MaxRuns = 2
    Commands <- MCCommands
INVARIANTS
    NodesCanJoin
    ReservationIsLaunched
    AllLeavesNothing
    ExitCodeIsHonest
PROPERTIES
    RecordsAreTrue
    ProcessEnds
CHECK_DEADLOCK FALSE
