SPECIFICATION FairSpec
CONSTANTS
    t1 = t1  t2 = t2
    Thread = {t1, t2}
    MaxTimers = 2
    Intervals = {1}
    RunCounts = {1}
    States = {"RUN", "REMOVE", "SUSPEND"}
    MaxChanges = 4
    MAX_TIMER_RUNCOUNT = 1
    MAX_THREAD_RUNNING = 1
    MAX_TRHEAD_RUNTIMES = 1
    ClockSize = 4
    LastTick = 3
INVARIANTS
    TypeOK
    CursorValid
    IntervalKeptUnwrapped
PROPERTY
    RemovalHappens
