SPECIFICATION FairSpec
CONSTANTS
    t1 = t1  t2 = t2  t3 = t3
    Thread = {t1, t2}
    MaxTasks = 2
    RunTimes = {1,2}
    MulNums = {1,2}
    MAX_TRHEAD_RUNTIMES = 2
    Removable = {1}
    Blocking = {0}
    Garbage = {0,1}
    ClockSize = 8
    FirstTick = 7
    LastTick = 1
INVARIANTS
    TypeOK
    ConcurrencyBound
    RunningNumCounts
PROPERTY
    NeverStartedAfterRemove
    Served
    CloseCompletes
CHECK_DEADLOCK FALSE
