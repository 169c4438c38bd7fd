SPECIFICATION Spec
CONSTANTS
    Word = 65536
    PAGE_SIZE = 128
    HEAP_BASE = 128
    HEAP_LIMIT = 640
    InitPages = 1
    GrowPages = 1
    Requests = {0, 1, 112}
INVARIANTS
    BlocksTileHeap
    BlocksHaveOneOwner
    HeldPayloadsAreSound
    DoubleFreeNoticed
CHECK_DEADLOCK FALSE
