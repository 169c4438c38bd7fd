CONSTANTS
    Calls <- MCCalls
    PRINTF_NTOA_BUFFER_SIZE = 8
    PRINTF_FTOA_BUFFER_SIZE = 9
    PRINTF_DEFAULT_FLOAT_PRECISION = 2
    MaxPrecision = 2
    PRINTF_MAX_FLOAT = 100
    AdaptLimit = 100
    CharBits = 4
    ShortBits = 5
    IntBits = 6
    LongBits = 7
SPECIFICATION Spec
INVARIANTS
    OutputIsDelivered
    IntegersReadBack
    TextIsExact
    RealsAreRounded
CHECK_DEADLOCK FALSE
