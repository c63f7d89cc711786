SPECIFICATION Spec
CONSTANTS
    t1 = t1  t2 = t2
    Thread = {t1, t2}
    MaxTimers = 1
    Intervals = {2}
    RunCounts = {1}
    States = {}
    MaxChanges = 0
    MAX_TIMER_RUNCOUNT = 1
    MAX_THREAD_RUNNING = 1
    MAX_TRHEAD_RUNTIMES = 1
    ClockSize = 4
    LastTick = 3
INVARIANT
    IntervalKept
