SPECIFICATION FairSpec
CONSTANTS
    r1 = r1  r2 = r2  r3 = r3  r4 = r4
    Addr = {r1, r2, r3, r4}
    nSize = 3
    MIN_SIZE = 2
    NULL = NULL
INVARIANTS
    TypeOK
    OneOwner
PROPERTIES
    QueueSpec
    RequestsLeave
CHECK_DEADLOCK FALSE
