---------------------------- MODULE TimerManager ----------------------------
(***************************************************************************)
(* The timers of CommonLib (TimerManager.cpp).  Two threads of the pool    *)
(* run TimerThread: each pass scans the map under the critical section,    *)
(* erases removed timers, stops at the first timer that is to run, and     *)
(* calls it outside the critical section.                                  *)
(***************************************************************************)
EXTENDS Integers, FiniteSets, Functions

CONSTANTS
    Thread,                \* the pool's threads that may run TimerThread (mulNum is 2)
    MaxTimers,             \* bound: timers created
    Intervals,             \* the intervals timers are created with
    RunCounts,             \* the run counts timers are created with
    States,                \* the states ChangeTimerState is called with
    MaxChanges,            \* bound: calls of ChangeTimerState
    MAX_TIMER_RUNCOUNT,    \* the run count of a timer without a limit
    MAX_THREAD_RUNNING,    \* the run count TimerThread is added to the pool with
    MAX_TRHEAD_RUNTIMES,   \* the run count the pool never decrements
    ClockSize,             \* timeGetTime counts modulo ClockSize
    LastTick               \* bound: the clock stops there, unless it is ClockSize - 1

TimerState == {"WAIT", "RUN", "REMOVE", "SUSPEND"}

ASSUME TimerAssumption ==
    /\ IsFiniteSet(Thread)
    /\ MaxTimers \in Nat
    /\ Intervals \subseteq Nat
    /\ RunCounts \subseteq 0 .. MAX_TIMER_RUNCOUNT
    /\ States \subseteq TimerState
    /\ MaxChanges \in Nat
    /\ MAX_TIMER_RUNCOUNT \in Nat
    /\ MAX_TRHEAD_RUNTIMES \in Nat
    /\ MAX_THREAD_RUNNING \in 0 .. MAX_TRHEAD_RUNTIMES
    /\ ClockSize \in Nat \ {0}
    /\ LastTick \in 0 .. ClockSize - 1

Id    == 1 .. MaxTimers     \* _timerId, incremented before it is used
End   == MaxTimers + 1      \* _timer.end()
None  == 0
Out   == 0                  \* of a cursor: no scan under way
Never == -1

VARIABLES
    timer,      \* _timer
    nextId,     \* _timerId
    passes,     \* the runs the pool's task for TimerThread has left
    cursor,     \* of a thread: the iterator of its scan
    running,    \* of a thread: the timer it calls
    clock,      \* timeGetTime()
    changes,    \* calls of ChangeTimerState so far
    fired       \* of a timer: the last two times it ran on time, since the clock last
                \* came round (history)

vars == <<timer, nextId, passes, cursor, running, clock, changes, fired>>

Time == 0 .. ClockSize - 1

Timer == [interval : Intervals, runcount : RunCounts, state : TimerState, last : Time]

\* The type invariant.
TypeOK ==
    /\ DOMAIN timer \subseteq Id
    /\ timer \in [DOMAIN timer -> Timer]
    /\ nextId \in 0 .. MaxTimers
    /\ passes \in 0 .. MAX_THREAD_RUNNING
    /\ cursor \in [Thread -> {Out, End} \cup Id]
    /\ running \in [Thread -> {None} \cup Id]
    /\ clock \in 0 .. LastTick
    /\ changes \in 0 .. MaxChanges
    /\ fired \in [Id -> (Never .. LastTick) \X (Never .. LastTick)]

NothingFired == [i \in Id |-> <<Never, Never>>]

\* After InitTimerManager.
Init ==
    /\ timer = [i \in {} |-> None]
    /\ nextId = 0
    /\ passes = MAX_THREAD_RUNNING
    /\ cursor = [t \in Thread |-> Out]
    /\ running = [t \in Thread |-> None]
    /\ clock = 0
    /\ changes = 0
    /\ fired = NothingFired

CsIgnored == TRUE

\* EnterCriticalSection returns: no scan is under way.
CsFree == \A t \in Thread : cursor[t] = Out

-----------------------------------------------------------------------------
(***************************************************************************)
(* CTimer::QueryExcuteTimer.                                               *)
(***************************************************************************)
\* A DWORD sum: it wraps around.
Due(e) == (e.last + e.interval) % ClockSize < clock

ToRun(e) == e.state = "RUN" \/ (e.state = "WAIT" /\ Due(e))

RequestTaken(e) == [e EXCEPT !.state = "WAIT"]

LastStays(e) == e
LastUpdated(e) == [e EXCEPT !.last = clock]

\* An entry after QueryExcuteTimer said that it is to run.
Queried(e) == IF e.state = "RUN" THEN RequestTaken(e) ELSE LastUpdated(e)

(***************************************************************************)
(* TimerManager::TimerThread and ExcuteTimerTask.                          *)
(***************************************************************************)
\* ++it done twice.
AfterNext(i) ==
    LET later == {j \in DOMAIN timer : j > i + 1}
    IN  IF later = {} THEN End ELSE CHOOSE j \in later : \A k \in later : j <= k

\* ++it: the next entry of the map; end() stays where it is (the v141 runtime of
\* a Release build; a Debug build stops there).
After(i) ==
    LET later == {j \in DOMAIN timer : j > i}
    IN  IF later = {} THEN End ELSE CHOOSE j \in later : \A k \in later : j <= k

\* The pool takes a run of the task, and the pass enters the critical section.
BeginPass(t) ==
    /\ cursor[t] = Out
    /\ running[t] = None
    /\ passes > 0
    /\ CsFree
    /\ passes' = IF passes # MAX_TRHEAD_RUNTIMES THEN passes - 1 ELSE passes
    /\ cursor' = [cursor EXCEPT ![t] = After(None)]
    /\ UNCHANGED <<timer, nextId, running, clock, changes, fired>>

\* The first entry that is to run ends the scan.
PickTimer(t) ==
    LET i == cursor[t] IN
    /\ i \in DOMAIN timer
    /\ ToRun(timer[i])
    /\ timer' = [timer EXCEPT ![i] = Queried(@)]
    /\ fired' = IF timer[i].state = "WAIT"
                THEN [fired EXCEPT ![i] = <<@[2], clock>>]
                ELSE fired
    /\ cursor' = [cursor EXCEPT ![t] = Out]
    /\ running' = [running EXCEPT ![t] = i]
    /\ UNCHANGED <<nextId, passes, clock, changes>>

\* The entry is deleted; erase returns the next one, and ++it skips it.
EraseTimer(t) ==
    LET i == cursor[t] IN
    /\ i \in DOMAIN timer
    /\ timer[i].state = "REMOVE"
    /\ timer' = Restrict(timer, DOMAIN timer \ {i})
    /\ cursor' = [cursor EXCEPT ![t] = After(After(i))]
    /\ UNCHANGED <<nextId, passes, running, clock, changes, fired>>

NextTimer(t) ==
    LET i == cursor[t] IN
    /\ i \in DOMAIN timer
    /\ timer[i].state # "REMOVE"
    /\ ~ToRun(timer[i])
    /\ cursor' = [cursor EXCEPT ![t] = After(i)]
    /\ UNCHANGED <<timer, nextId, passes, running, clock, changes, fired>>

EndScan(t) ==
    /\ cursor[t] = End
    /\ cursor' = [cursor EXCEPT ![t] = Out]
    /\ UNCHANGED <<timer, nextId, passes, running, clock, changes, fired>>

\* The timer's callback returns.
ExcuteTimer(t) ==
    /\ running[t] # None
    /\ running' = [running EXCEPT ![t] = None]
    /\ UNCHANGED <<timer, nextId, passes, cursor, clock, changes, fired>>

(***************************************************************************)
(* The callers' operations, and time.                                      *)
(***************************************************************************)
OldValue == nextId
InterlockedIncrement == nextId + 1

CreateTimer(interval, runcount) ==
    /\ nextId < MaxTimers
    /\ CsFree
    /\ nextId' = nextId + 1
    /\ timer' = [j \in DOMAIN timer \cup {InterlockedIncrement} |->
                   IF j = InterlockedIncrement
                   THEN [interval |-> interval, runcount |-> runcount,
                         state |-> "WAIT", last |-> 0]
                   ELSE timer[j]]
    /\ UNCHANGED <<passes, cursor, running, clock, changes, fired>>

ChangeTimerState(i, state) ==
    /\ changes < MaxChanges
    /\ CsFree
    /\ i \in DOMAIN timer
    /\ timer' = [timer EXCEPT ![i].state = state]
    /\ changes' = changes + 1
    /\ UNCHANGED <<nextId, passes, cursor, running, clock, fired>>

\* timeGetTime() counts on, and comes round to zero.
Tick ==
    /\ \/ /\ clock < LastTick
          /\ clock' = clock + 1
          /\ UNCHANGED fired
       \/ /\ clock = ClockSize - 1
          /\ clock' = 0
          /\ fired' = NothingFired
    /\ UNCHANGED <<timer, nextId, passes, cursor, running, changes>>

-----------------------------------------------------------------------------
TimerThread(t) ==
    \/ BeginPass(t)
    \/ PickTimer(t)
    \/ EraseTimer(t)
    \/ NextTimer(t)
    \/ EndScan(t)
    \/ ExcuteTimer(t)

Next ==
    \/ \E t \in Thread : TimerThread(t)
    \/ \E n \in Intervals, c \in RunCounts : CreateTimer(n, c)
    \/ \E i \in Id, s \in States : ChangeTimerState(i, s)
    \/ Tick

Spec == Init /\ [][Next]_vars

\* The pool schedules the task again and again, and callbacks return.
Fairness == \A t \in Thread : WF_vars(TimerThread(t))

FairSpec == Spec /\ Fairness

-----------------------------------------------------------------------------
(***************************************************************************)
(* Properties.                                                             *)
(***************************************************************************)

\* The iterator of a scan points at an entry of the map: no other thread
\* changes the map during a scan.
CursorValid ==
    \A t \in Thread : cursor[t] \in DOMAIN timer \cup {Out, End}

\* TimerManager.h:4: a timer does not run again on time before its interval has
\* passed, although two threads look at it.
IntervalKept ==
    \A i \in DOMAIN timer :
        fired[i][1] # Never => fired[i][2] - fired[i][1] >= timer[i].interval

\* The same of a run that was not too late for its sum with the interval, a DWORD.
IntervalKeptUnwrapped ==
    \A i \in DOMAIN timer :
        fired[i][1] # Never /\ fired[i][1] + timer[i].interval < ClockSize
            => fired[i][2] - fired[i][1] > timer[i].interval

\* TimerManager.h:5: a timer with the unlimited run count can always run again.
PassesLeft ==
    \A i \in DOMAIN timer : timer[i].runcount = MAX_TIMER_RUNCOUNT => passes > 0

\* A timer in the state TIMER_REMOVE is erased, although a scan skips the timer
\* after one it erases.  Only an earlier timer that is to run puts it off, by ending
\* the scan; one that is due at every pass does so for ever.
RemovalHappens ==
    \A i \in Id :
        (i \in DOMAIN timer /\ timer[i].state = "REMOVE")
            ~> \/ i \in DOMAIN timer => timer[i].state # "REMOVE"
               \/ \E t \in Thread : running[t] # None /\ running[t] < i
=============================================================================
