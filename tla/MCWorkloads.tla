---------------------------- MODULE MCWorkloads ----------------------------
EXTENDS Workloads

Command(type, pool, count, number) ==
    [type |-> type, pool |-> pool, count |-> count, number |-> number]

MCCommands ==
    {Command("deployment", "poolA", 1, 2),  \* one instance may fail
     Command("deployment", "poolA", 2, 2),  \* a patch of the first
     Command("deployment", "poolB", 1, 1),  \* the labels of the first
     Command("statefulset", "poolA", 2, 1),
     Command("statefulset", "poolB", 1, 0), \* nothing to create
     Command("job", "poolA", 1, 2),         \* repeated: jobs completed before
     Command("job", "poolA", 2, 1)}         \* a patch that is refused

===========================================================================
