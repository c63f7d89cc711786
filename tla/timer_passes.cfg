SPECIFICATION Spec
CONSTANTS
    t1 = t1  t2 = t2
    Thread = {t1, t2}
    MaxTimers = 1
    Intervals = {1}
    RunCounts = {9}
    States = {}
    MaxChanges = 0
    MAX_TIMER_RUNCOUNT = 9
    MAX_THREAD_RUNNING = 4
    MAX_TRHEAD_RUNTIMES = 9
    ClockSize = 8
    LastTick = 6
INVARIANT
    PassesLeft
