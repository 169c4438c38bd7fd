SPECIFICATION Spec
CONSTANTS
    PageSize = 2
    FourGiB = 20
    BootInfos <- MCBootInfos
    Addresses <- MCAddresses
INVARIANTS
    TypeOK
    FreeCountExact
    HandedOutFramesAreExclusive
PROPERTIES
    PoolSpec
CHECK_DEADLOCK FALSE
