--------------------------- MODULE MCMachineScale ---------------------------
EXTENDS MachineScale

Scale(count, workers, batch) ==
    [cmd |-> "scale-machine", count |-> count, workers |-> workers,
     batch |-> batch]

MCRequests ==
    {[cmd |-> "create-machine", count |-> 0, workers |-> 1, batch |-> FALSE]}
    \cup
    {Scale(2, 1, TRUE), Scale(2, 0, FALSE), Scale(1, 1, FALSE),
     Scale(0, 1, TRUE), Scale(1, -1, TRUE), Scale(1, 0, TRUE),
     Scale(3, 2, TRUE), Scale(3, 1, TRUE)}

MCLive == {Scale(1, 1, TRUE), Scale(1, 1, FALSE)} \cup
    {[cmd |-> "create-machine", count |-> 0, workers |-> 1, batch |-> FALSE]}

===========================================================================
