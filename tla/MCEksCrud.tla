----------------------------- MODULE MCEksCrud -----------------------------
EXTENDS EksCrud

Command(cmd, count, target, size, block) ==
    [cmd |-> cmd, node_count |-> count, target_count |-> target,
     scale_step_size |-> size, block |-> block, gpu |-> block]

MCCommands ==
    {Command("all", 0, 2, 1, TRUE),    \* progressive, both ways, on a block
     Command("create", 1, 0, 1, FALSE),  \* without one, next to all() on one
     Command("scale", 0, 2, 3, FALSE),
     Command("scale", 0, 1, 0, FALSE), \* range() with step 0
     Command("delete", 0, 0, 1, FALSE)}

===========================================================================
