-------------------------- MODULE MCCapacityBlocks --------------------------
EXTENDS CapacityBlocks

MCOfferings ==
    {[id |-> "a", fee |-> 100, hours |-> 24, count |-> 1],
     [id |-> "b", fee |-> 90, hours |-> 24, count |-> 1],
     [id |-> "c", fee |-> 150, hours |-> 48, count |-> 1],
     [id |-> "d", fee |-> 10, hours |-> 1, count |-> 1]}

===========================================================================
