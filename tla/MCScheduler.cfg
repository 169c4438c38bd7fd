SPECIFICATION FairSpec
CONSTANT MaxProcs = 4
INVARIANTS
    OneRing
    InterruptsSeeCoherentCpu
    ContextsUsedOnce
    BoundedWaiting
PROPERTY EveryoneRuns
CHECK_DEADLOCK FALSE
