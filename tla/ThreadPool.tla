----------------------------- MODULE ThreadPool -----------------------------
(***************************************************************************)
(* The thread pool of CommonLib (ThreadPool.cpp): its threads loop over    *)
(* GetThreadTask, which takes the eligible task of the lowest level, a     *)
(* call of that task's function, and the bookkeeping after the call.       *)
(* Times are DWORD milliseconds, kept modulo ClockSize.                    *)
(***************************************************************************)
EXTENDS Naturals, FiniteSets, Functions

CONSTANTS
    Thread,                \* the pool's threads
    MaxTasks,              \* bound: tasks added
    RunTimes,              \* the run counts tasks are added with
    MulNums,               \* the concurrency limits tasks are added with
    MAX_TRHEAD_RUNTIMES,   \* the run count that is never decremented
    Removable,             \* the tasks RemoveThreadTask is called for
    Blocking,              \* the tasks whose function does not return (accept, with no client)
    Garbage,               \* what an uninitialised UINT can hold
    ClockSize,             \* timeGetTime counts modulo ClockSize
    FirstTick,             \* the time InitThreadPool is called
    LastTick               \* bound: the clock stops there (ClockSize: it never stops)

Tid == 0 .. MaxTasks - 1
None == MaxTasks           \* no task

ASSUME PoolAssumption ==
    /\ IsFiniteSet(Thread)
    /\ MaxTasks \in Nat
    /\ MAX_TRHEAD_RUNTIMES \in Nat
    /\ RunTimes \subseteq 0 .. MAX_TRHEAD_RUNTIMES
    /\ MulNums \subseteq Nat
    /\ Garbage \subseteq Nat
    /\ ClockSize \in Nat \ {0, 1}
    /\ FirstTick \in 0 .. ClockSize - 1
    /\ LastTick \in 0 .. ClockSize

VARIABLES
    mapTask,     \* _mapTask
    adding,      \* the oneTask of each AddThreadTask that does not have the lock yet
    nextTid,     \* _tid
    removed,     \* the tids RemoveThreadTask took away (history, for the properties)
    runFlag,     \* _runFlag
    closing,     \* CloseThreadPool: not called ("no"), joining the threads, or returned
    clock,       \* timeGetTime()
    pc,          \* of a thread: where it is in ThreadCallBack
    tick,        \* of a thread: the time its turn began
    now,         \* of a thread: the time it read last
    task         \* of a thread: the tid of the task it runs

threadVars == <<pc, tick, now, task>>
vars == <<mapTask, adding, nextTid, removed, runFlag, closing, clock, threadVars>>

Time == 0 .. ClockSize - 1

\* cb: the entry has a callback and a parameter.
ThreadTask == [cb : BOOLEAN, runtimes : Nat, mulNum : Nat, runingnum : Nat,
               runtime : Time, lastruntime : Time]

\* The type invariant.
TypeOK ==
    /\ DOMAIN mapTask \subseteq Tid
    /\ mapTask \in [DOMAIN mapTask -> ThreadTask]
    /\ adding \subseteq ThreadTask
    /\ nextTid \in 0 .. MaxTasks
    /\ removed \subseteq Tid
    /\ runFlag \in BOOLEAN
    /\ closing \in {"no", "joining", "closed"}
    /\ clock \in Time
    /\ pc \in [Thread -> {"loop", "get", "lock", "call", "run", "finish", "ended"}]
    /\ tick \in [Thread -> Time]
    /\ now \in [Thread -> Time]
    /\ task \in [Thread -> Tid \cup {None}]

\* After InitThreadPool.
Init ==
    /\ mapTask = [i \in {} |-> None]
    /\ adding = {}
    /\ nextTid = 0
    /\ removed = {}
    /\ runFlag = TRUE
    /\ closing = "no"
    /\ clock = FirstTick
    /\ pc = [t \in Thread |-> "loop"]
    /\ tick = [t \in Thread |-> 0]
    /\ now = [t \in Thread |-> 0]
    /\ task = [t \in Thread |-> None]

Goto(t, l) == pc' = [pc EXCEPT ![t] = l]

\* DWORD arithmetic.
SignedMinus(a, b) == a - b
Minus(a, b) == (ClockSize + a - b) % ClockSize
Plus(a, b)  == (a + b) % ClockSize

-----------------------------------------------------------------------------
(***************************************************************************)
(* GetThreadTask.                                                          *)
(***************************************************************************)
AtMostLimit(e) == e.runingnum <= e.mulNum

BelowLimit(e) == e.runingnum < e.mulNum

\* The level of an entry at time n is idle / span: how long ago it last ended,
\* over that plus how long it ran.
Idle(e, n) == Minus(n, e.lastruntime)
Span(e, n) == Plus(Idle(e, n), e.runtime)

\* What the scan can take: a task with a thread and a run left, at a level below
\* the 1.0 the minimum starts from.  A wrapped subtraction or sum can push an
\* entry out.
Candidates(n) ==
    {i \in DOMAIN mapTask : /\ BelowLimit(mapTask[i])
                            /\ mapTask[i].runtimes > 0
                            /\ Idle(mapTask[i], n) < Span(mapTask[i], n)}

Lower(i, j, n) ==
    Idle(mapTask[i], n) * Span(mapTask[j], n) < Idle(mapTask[j], n) * Span(mapTask[i], n)

\* The scan selects the first entry of the lowest level.
Selected(i, n) ==
    \A j \in Candidates(n) \ {i} : Lower(i, j, n) \/ (~Lower(j, i, n) /\ i < j)

\* An entry given to one more thread; the run count is spent unless it is the
\* unlimited one.
Taken(e) ==
    [e EXCEPT !.runingnum = @ + 1,
              !.runtimes = IF @ # MAX_TRHEAD_RUNTIMES THEN @ - 1 ELSE @]

\* Back to the loop; the locals of the turn are dead.
TurnOver(t) ==
    /\ Goto(t, "loop")
    /\ tick' = [tick EXCEPT ![t] = 0]
    /\ task' = [task EXCEPT ![t] = None]

GetThreadTask(t) ==
    /\ pc[t] = "lock"
    /\ now' = [now EXCEPT ![t] = 0]
    /\ \/ /\ Candidates(now[t]) = {}
          /\ TurnOver(t)
          /\ UNCHANGED mapTask
       \/ \E i \in Candidates(now[t]) :
             /\ Selected(i, now[t])
             /\ mapTask' = [mapTask EXCEPT ![i] = Taken(@)]
             /\ IF mapTask[i].cb
                THEN /\ task' = [task EXCEPT ![t] = i]
                     /\ Goto(t, "call")
                     /\ UNCHANGED tick
                ELSE TurnOver(t)
    /\ UNCHANGED <<adding, nextTid, removed, runFlag, closing, clock>>

(***************************************************************************)
(* The rest of ThreadCallBack.                                             *)
(***************************************************************************)
LoopTop(t) ==
    /\ pc[t] = "loop"
    /\ IF runFlag
       THEN /\ tick' = [tick EXCEPT ![t] = clock]
            /\ Goto(t, "get")
       ELSE /\ Goto(t, "ended")
            /\ UNCHANGED tick
    /\ UNCHANGED <<mapTask, adding, nextTid, removed, runFlag, closing, clock, now, task>>

\* The time GetThreadTask compares with, read before it takes the lock.
ReadTick(t) ==
    /\ pc[t] = "get"
    /\ now' = [now EXCEPT ![t] = clock]
    /\ Goto(t, "lock")
    /\ UNCHANGED <<mapTask, adding, nextTid, removed, runFlag, closing, clock, tick, task>>

\* task.cb(task.param): the lock was left with the entry's copy, so that the task
\* may have been removed by now.
CallTask(t) ==
    /\ pc[t] = "call"
    /\ Goto(t, "run")
    /\ UNCHANGED <<mapTask, adding, nextTid, removed, runFlag, closing, clock>>
    /\ UNCHANGED <<tick, now, task>>

\* The task's function returns, and the end time is read.
CallbackReturns(t) ==
    /\ pc[t] = "run"
    /\ task[t] \notin Blocking
    /\ now' = [now EXCEPT ![t] = clock]
    /\ Goto(t, "finish")
    /\ UNCHANGED <<mapTask, adding, nextTid, removed, runFlag, closing, clock, tick, task>>

NotGivenBack(e) == e

GivenBack(e) == [e EXCEPT !.runingnum = IF @ > 0 THEN @ - 1 ELSE @]

CbNotCleared == TRUE

\* What the constructor of ThreadTask leaves in cb and param.
CbOfNewTask == FALSE

NewTask(r, m, n) ==
    [cb |-> CbOfNewTask, runtimes |-> r, mulNum |-> m, runingnum |-> n,
     runtime |-> 0, lastruntime |-> 0]

RunTime(t) == LET ran == Minus(now[t], tick[t]) IN IF ran # 0 THEN ran ELSE 1

\* An entry after thread t called it.
Ended(e, t) == [GivenBack(e) EXCEPT !.lastruntime = now[t], !.runtime = RunTime(t)]

\* tasks[task.tid] with operator[]: when the task was removed during the call,
\* a new entry appears, with no callback and with fields never initialised.
Finish(t) ==
    /\ pc[t] = "finish"
    /\ \/ /\ task[t] \in DOMAIN mapTask
          /\ mapTask' = [mapTask EXCEPT ![task[t]] = Ended(@, t)]
       \/ /\ task[t] \notin DOMAIN mapTask
          /\ \E r, m, n \in Garbage :
               mapTask' = [j \in DOMAIN mapTask \cup {task[t]} |->
                             IF j = task[t] THEN Ended(NewTask(r, m, n), t) ELSE mapTask[j]]
    /\ now' = [now EXCEPT ![t] = 0]
    /\ TurnOver(t)
    /\ UNCHANGED <<adding, nextTid, removed, runFlag, closing, clock>>

(***************************************************************************)
(* The callers' operations, and time.                                      *)
(***************************************************************************)
OneTask(r, m) ==
    [cb |-> TRUE, runtimes |-> r, mulNum |-> m, runingnum |-> 0,
     runtime |-> 1, lastruntime |-> clock]

\* The entry is made, with the time, before the lock is taken.
CallAddThreadTask(r, m) ==
    /\ closing # "closed"
    /\ nextTid + Cardinality(adding) < MaxTasks
    /\ OneTask(r, m) \notin adding
    /\ adding' = adding \cup {OneTask(r, m)}
    /\ UNCHANGED <<mapTask, nextTid, removed, runFlag, closing, clock, threadVars>>

AddThreadTask(e) ==
    /\ closing # "closed"
    /\ nextTid < MaxTasks
    /\ mapTask' = [j \in DOMAIN mapTask \cup {nextTid} |->
                     IF j = nextTid THEN e ELSE mapTask[j]]
    /\ nextTid' = nextTid + 1
    /\ adding' = adding \ {e}
    /\ UNCHANGED <<removed, runFlag, closing, clock, threadVars>>

RemoveThreadTask(i) ==
    /\ closing # "closed"
    /\ i \in DOMAIN mapTask
    /\ mapTask' = Restrict(mapTask, DOMAIN mapTask \ {i})
    /\ removed' = removed \cup {i}
    /\ UNCHANGED <<adding, nextTid, runFlag, closing, clock, threadVars>>

FlagStays == TRUE
FlagCleared == FALSE

CloseThreadPool ==
    /\ closing = "no"
    /\ closing' = "joining"
    /\ runFlag' = FlagCleared
    /\ UNCHANGED <<mapTask, adding, nextTid, removed, clock, threadVars>>

\* Every thread was waited for; the critical section is deleted.
CloseReturns ==
    /\ closing = "joining"
    /\ \A t \in Thread : pc[t] = "ended"
    /\ closing' = "closed"
    /\ UNCHANGED <<mapTask, adding, nextTid, removed, runFlag, clock, threadVars>>

Tick ==
    /\ clock # LastTick
    /\ clock' = (clock + 1) % ClockSize
    /\ UNCHANGED <<mapTask, adding, nextTid, removed, runFlag, closing, threadVars>>

-----------------------------------------------------------------------------
ThreadCallBack(t) ==
    \/ LoopTop(t)
    \/ ReadTick(t)
    \/ GetThreadTask(t)
    \/ CallTask(t)
    \/ CallbackReturns(t)
    \/ Finish(t)

Next ==
    \/ \E t \in Thread : ThreadCallBack(t)
    \/ \E r \in RunTimes, m \in MulNums : CallAddThreadTask(r, m)
    \/ \E e \in adding : AddThreadTask(e)
    \/ \E i \in Removable : RemoveThreadTask(i)
    \/ CloseThreadPool
    \/ CloseReturns
    \/ Tick

Spec == Init /\ [][Next]_vars

\* The operating system schedules every thread, and a function that is not
\* blocking returns; the closer is scheduled once the threads have ended.
Fairness ==
    /\ \A t \in Thread : WF_vars(ThreadCallBack(t))
    /\ WF_vars(CloseReturns)

FairSpec == Spec /\ Fairness

-----------------------------------------------------------------------------
(***************************************************************************)
(* Properties.                                                             *)
(***************************************************************************)

\* The threads that GetThreadTask gave the task to: about to call its function, in
\* it, or back from it and not yet counted off.
Runners(i) == {t \in Thread : pc[t] \in {"call", "run", "finish"} /\ task[t] = i}

\* ThreadPool.h:23: never more threads in a task's function than its mulNum.
\* AcceptThread counts on it: "only one thread of the pool, no re-entrance".
ConcurrencyBound ==
    \A i \in DOMAIN mapTask : mapTask[i].cb =>
        Cardinality({t \in Runners(i) : pc[t] = "run"}) <= mapTask[i].mulNum

\* ThreadPool.h:24: runingnum is the number of threads that run the task.  (Not of
\* an entry that Finish put back: nothing initialises that one.)
RunningNumCounts ==
    \A i \in DOMAIN mapTask : mapTask[i].cb =>
        mapTask[i].runingnum = Cardinality(Runners(i))

\* A task that was removed is never given to a thread again, although a call of it
\* that was under way puts an entry of its tid back.  (A thread that was given it
\* before, and is between leaving the lock and calling cb, still calls it.)
NeverStartedAfterRemove ==
    [][\A i \in removed : Runners(i)' \subseteq Runners(i)]_vars

\* An entry that a thread of the pool has to take up: a task with runs left, and
\* the limits of the blocking tasks leave a thread for it.
Pending(i) ==
    /\ i \in DOMAIN mapTask
    /\ mapTask[i].cb
    /\ mapTask[i].runtimes > 0
    /\ \A b \in Blocking \cap DOMAIN mapTask : mapTask[b].mulNum < Cardinality(Thread)

\* A task with runs left is served again and again, although the threads that
\* run a blocking one never come back: the mulNum of the blocking one keeps it
\* from taking every thread.  (Among tasks that return, the one that ran last has
\* the lowest level and can starve the others: nothing better holds of those.)
Served ==
    \A i \in Tid \ Blocking : []<>(Pending(i) => Runners(i) # {} \/ ~runFlag)

\* CloseThreadPool waits for every thread without a limit: it returns, unless a
\* thread is in a function that does not.
CloseCompletes ==
    (closing = "joining") ~>
        (closing = "closed" \/ \E t \in Thread : pc[t] = "run" /\ task[t] \in Blocking)
=============================================================================
