SPECIFICATION FairSpec
CONSTANTS
    u1 = u1
    Workers = 3
    StateBits = 32
    MaxTasks = 1
    Receive = {u1}
    MaxShutDown = 1
    NULL = NULL
INVARIANTS
    TypeOK
    PacketOutlivesUse
    CopyInOnePlace
PROPERTIES
    ShutDownReturns
    UnRegisteredTasksErased
CHECK_DEADLOCK FALSE
