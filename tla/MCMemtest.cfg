SPECIFICATION MTSpec
CONSTANTS
    Word = 65536
    PAGE_SIZE = 128
    HEAP_BASE = 128
    HEAP_LIMIT = 1664
    InitPages = 1
    GrowPages = 1
    Requests = {}
    FrameCounts = {6, 8, 13}
    PagesPerTable = 4
    LineSize = 16
    MEMTEST_SLOT_COUNT = 4
    MEMTEST_PMM_MAX_FRAMES = 5
    PmmMargin = 3
    PmmLeast = 2
    g_basic_sizes <- MCBasicSizes
    ReallocSizes <- MCReallocSizes
    FirstRange = 70
    RefillRange = 90
    Stride = 3
    SpecialSize = 50
    AdjacentSizes <- MCAdjacentSizes
    MEMTEST_GROWTH_SLOTS = 3
    MEMTEST_GROWTH_SIZE = 150
    GrowthStep = 9
    MaxSize = 184
    MEMTEST_RANDOM_OPS = 3
    MEMTEST_RANDOM_MAX_ALLOC = 150
    VerifyEvery = 2
    YieldEvery = 2
    Draws = {0, 139, 178}
    TagDraws = {0, 139}
INVARIANTS
    NoFalseAlarm
    NothingKept
