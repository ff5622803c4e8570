--------------------------- MODULE MCNodePoolCrud ---------------------------
EXTENDS NodePoolCrud

Command(cmd, count, target, size, gpu, managed) ==
    [cmd |-> cmd, node_count |-> count, target_count |-> target,
     scale_step_size |-> size, gpu |-> gpu, managed |-> managed, mig |-> managed]

MCCommands ==
    {Command("all", 1, 3, 1, FALSE, FALSE),   \* progressive, both ways
     Command("all", 0, 2, 2, TRUE, TRUE),     \* direct, fully managed GPU
     Command("scale", 0, 3, 2, TRUE, FALSE),  \* from any count, uneven steps
     Command("scale", 0, 1, 0, FALSE, FALSE), \* range() with step 0
     Command("create", 2, 0, 1, TRUE, FALSE),
     Command("delete", 0, 0, 1, FALSE, FALSE)}

MCGpu == {Command("create", 1, 1, 1, TRUE, FALSE)}

===========================================================================
