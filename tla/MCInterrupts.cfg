SPECIFICATION Spec
CONSTANT Line = {0, 1, 7, 8}
INVARIANTS
    InterruptsFindHandlers
    AllAcknowledged
CHECK_DEADLOCK FALSE
