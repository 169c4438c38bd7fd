CONSTANTS
    LOGBUF_SIZE = 3
    Offered = {TRUE, FALSE}
SPECIFICATION Spec
INVARIANT TypeOK
PROPERTIES
    DevicesAreUsable
    PanicReachesScreen
CHECK_DEADLOCK FALSE
