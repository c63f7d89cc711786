-------------------------- MODULE ThreadPoolProofs --------------------------
(***************************************************************************)
(* Theorems about ThreadPool, for any finite set of threads, any number of *)
(* tasks and any limits and run counts.  ConcurrencyBound is proved from   *)
(* what the code keeps: a live entry's runingnum is the number of its      *)
(* runners (RunningNumCounts) and never passes its mulNum (LimitKept).     *)
(***************************************************************************)
EXTENDS ThreadPool, FiniteSetTheorems, TLAPS

\* Tids are given out in order: no entry, runner or removed tid is ahead.
TidsGivenOut ==
    /\ \A i \in DOMAIN mapTask : i < nextTid
    /\ \A t \in Thread : pc[t] \in {"call", "run", "finish"} => task[t] \in Tid /\ task[t] < nextTid
    /\ \A i \in removed : i < nextTid

LimitKept ==
    \A i \in DOMAIN mapTask : mapTask[i].cb => mapTask[i].runingnum <= mapTask[i].mulNum

RemovedStayRemoved ==
    \A i \in removed : i \in DOMAIN mapTask => ~mapTask[i].cb

\* An entry that is not in the map yet is no thread's task.
AddedIdle == \A e \in adding : e.runingnum = 0

Counting == TidsGivenOut /\ RunningNumCounts /\ LimitKept /\ RemovedStayRemoved /\ AddedIdle

Inv == TypeOK /\ Counting

-----------------------------------------------------------------------------
\* The number of runners, and how it changes with one of them.
LEMMA FiniteThreads == \A S \in SUBSET Thread : IsFiniteSet(S) /\ Cardinality(S) \in Nat
BY PoolAssumption, FS_Subset, FS_CardinalityType

LEMMA RunnersAreThreads == \A i : Runners(i) \in SUBSET Thread
BY DEF Runners

LEMMA Joins ==
    ASSUME NEW S \in SUBSET Thread, NEW t \in Thread, t \notin S
    PROVE  Cardinality(S \cup {t}) = Cardinality(S) + 1
BY FiniteThreads, FS_AddElement

LEMMA Leaves ==
    ASSUME NEW S \in SUBSET Thread, NEW t \in S
    PROVE  Cardinality(S \ {t}) = Cardinality(S) - 1 /\ Cardinality(S) > 0
<1>1. IsFiniteSet(S) /\ Cardinality(S) \in Nat BY FiniteThreads
<1>2. Cardinality(S \ {t}) = Cardinality(S) - 1 BY <1>1, FS_RemoveElement
<1>3. Cardinality(S) # 0 BY <1>1, FS_EmptySet
<1>. QED BY <1>1, <1>2, <1>3

\* DWORD arithmetic stays in range.
LEMMA MinusInTime ==
    ASSUME NEW a \in Time, NEW b \in Time
    PROVE  Minus(a, b) \in Time
<1>1. ClockSize + a - b \in Nat BY PoolAssumption DEF Time
<1>. QED BY <1>1, PoolAssumption DEF Minus, Time

\* What one run changes of an entry, when it is taken and when it ends.
LEMMA TakenFields ==
    ASSUME NEW e \in ThreadTask, e.runtimes > 0
    PROVE  /\ Taken(e) \in ThreadTask
           /\ Taken(e).cb = e.cb
           /\ Taken(e).mulNum = e.mulNum
           /\ Taken(e).runingnum = e.runingnum + 1
<1>1. PICK r \in Nat : r = IF e.runtimes # MAX_TRHEAD_RUNTIMES THEN e.runtimes - 1 ELSE e.runtimes
      BY DEF ThreadTask
<1>2. PICK n \in Nat : n = e.runingnum + 1 BY DEF ThreadTask
<1>3. Taken(e) = [e EXCEPT !.runingnum = n, !.runtimes = r] BY <1>1, <1>2 DEF Taken
<1>. QED BY <1>2, <1>3 DEF ThreadTask

LEMMA GivenBackFields ==
    ASSUME NEW e \in ThreadTask
    PROVE  /\ GivenBack(e) \in ThreadTask
           /\ GivenBack(e).cb = e.cb
           /\ GivenBack(e).mulNum = e.mulNum
           /\ e.runingnum > 0 => GivenBack(e).runingnum = e.runingnum - 1
BY DEF GivenBack, ThreadTask

LEMMA NewTaskFields ==
    ASSUME NEW r \in Garbage, NEW m \in Garbage, NEW n \in Garbage
    PROVE  NewTask(r, m, n) \in ThreadTask /\ ~NewTask(r, m, n).cb
<1>1. r \in Nat /\ m \in Nat /\ n \in Nat /\ 0 \in Time BY PoolAssumption DEF Time
<1>2. NewTask(r, m, n) \in ThreadTask BY <1>1 DEF NewTask, CbOfNewTask, ThreadTask
<1>3. NewTask(r, m, n).cb = FALSE BY DEF NewTask, CbOfNewTask
<1>. QED BY <1>2, <1>3

LEMMA EndedFields ==
    ASSUME NEW e \in ThreadTask, NEW t \in Thread, TypeOK
    PROVE  /\ Ended(e, t) \in ThreadTask
           /\ Ended(e, t).cb = e.cb
           /\ Ended(e, t).mulNum = e.mulNum
           /\ e.runingnum > 0 => Ended(e, t).runingnum = e.runingnum - 1
<1>1. PICK g \in ThreadTask : g = GivenBack(e) BY GivenBackFields
<1>2. PICK r \in Time : r = RunTime(t)
  <2>1. Minus(now[t], tick[t]) \in Time BY MinusInTime DEF TypeOK
  <2>2. 1 \in Time BY PoolAssumption DEF Time
  <2>. QED BY <2>1, <2>2 DEF RunTime
<1>3. PICK n \in Time : n = now[t] BY DEF TypeOK
<1>4. Ended(e, t) = [g EXCEPT !.lastruntime = n, !.runtime = r] BY <1>1, <1>2, <1>3
                                                                DEF Ended
<1>5. /\ Ended(e, t) \in ThreadTask
      /\ Ended(e, t).cb = g.cb
      /\ Ended(e, t).mulNum = g.mulNum
      /\ Ended(e, t).runingnum = g.runingnum
      BY <1>4 DEF ThreadTask
<1>. QED BY <1>1, <1>5, GivenBackFields

-----------------------------------------------------------------------------
LEMMA InitInv == Init => Inv
<1>. SUFFICES ASSUME Init PROVE Inv OBVIOUS
<1>1. TypeOK BY PoolAssumption DEF Init, TypeOK, Time
<1>2. Counting BY DEF Init, Counting, TidsGivenOut, RunningNumCounts, LimitKept,
                  RemovedStayRemoved, AddedIdle
<1>. QED BY <1>1, <1>2 DEF Inv

\* A step that leaves the map alone and moves no thread into or out of a task.
LEMMA QuietStep ==
    ASSUME Counting, UNCHANGED <<mapTask, adding, nextTid, removed, task>>,
           \A u \in Thread : pc'[u] \in {"call", "run", "finish"} <=> pc[u] \in {"call", "run", "finish"}
    PROVE  Counting' /\ \A i : Runners(i)' = Runners(i)
<1>1. \A i : Runners(i)' = Runners(i) BY DEF Runners
<1>2. TidsGivenOut' BY DEF Counting, TidsGivenOut
<1>3. RunningNumCounts' BY <1>1 DEF Counting, RunningNumCounts
<1>4. LimitKept' BY DEF Counting, LimitKept
<1>5. RemovedStayRemoved' BY DEF Counting, RemovedStayRemoved
<1>6. AddedIdle' BY DEF Counting, AddedIdle
<1>. QED BY <1>1, <1>2, <1>3, <1>4, <1>5, <1>6 DEF Counting

LEMMA LoopTopInv ==
    ASSUME Inv, NEW t \in Thread, LoopTop(t)
    PROVE  Inv' /\ \A i : Runners(i)' = Runners(i)
<1>1. TypeOK' BY DEF Inv, TypeOK, LoopTop, Goto
<1>2. \A u \in Thread : pc'[u] \in {"call", "run", "finish"} <=> pc[u] \in {"call", "run", "finish"}
      BY DEF Inv, TypeOK, LoopTop, Goto
<1>. QED BY <1>1, <1>2, QuietStep DEF Inv, LoopTop

LEMMA ReadTickInv ==
    ASSUME Inv, NEW t \in Thread, ReadTick(t)
    PROVE  Inv' /\ \A i : Runners(i)' = Runners(i)
<1>1. TypeOK' BY DEF Inv, TypeOK, ReadTick, Goto
<1>2. \A u \in Thread : pc'[u] \in {"call", "run", "finish"} <=> pc[u] \in {"call", "run", "finish"}
      BY DEF ReadTick, Goto
<1>. QED BY <1>1, <1>2, QuietStep DEF Inv, ReadTick

LEMMA CallTaskInv ==
    ASSUME Inv, NEW t \in Thread, CallTask(t)
    PROVE  Inv' /\ \A i : Runners(i)' = Runners(i)
<1>1. TypeOK' BY DEF Inv, TypeOK, CallTask, Goto
<1>2. \A u \in Thread : pc'[u] \in {"call", "run", "finish"} <=> pc[u] \in {"call", "run", "finish"}
      BY DEF CallTask, Goto
<1>. QED BY <1>1, <1>2, QuietStep DEF Inv, CallTask

LEMMA CallbackReturnsInv ==
    ASSUME Inv, NEW t \in Thread, CallbackReturns(t)
    PROVE  Inv' /\ \A i : Runners(i)' = Runners(i)
<1>1. TypeOK' BY DEF Inv, TypeOK, CallbackReturns, Goto
<1>2. \A u \in Thread : pc'[u] \in {"call", "run", "finish"} <=> pc[u] \in {"call", "run", "finish"}
      BY DEF CallbackReturns, Goto
<1>. QED BY <1>1, <1>2, QuietStep DEF Inv, CallbackReturns

LEMMA OutsideInv ==
    ASSUME Inv, CloseThreadPool \/ CloseReturns \/ Tick
    PROVE  Inv' /\ \A i : Runners(i)' = Runners(i)
<1>. USE DEF CloseThreadPool, CloseReturns, Tick, threadVars
<1>1. ASSUME Tick PROVE (clock + 1) % ClockSize \in Time
      BY PoolAssumption DEF Inv, TypeOK, Time
<1>2. TypeOK' BY <1>1 DEF Inv, TypeOK, FlagCleared
<1>3. UNCHANGED <<mapTask, adding, nextTid, removed, task, pc>> OBVIOUS
<1>. QED BY <1>2, <1>3, QuietStep DEF Inv

-----------------------------------------------------------------------------
\* The scan finds nothing: the thread goes back to its loop.
LEMMA IdleInv ==
    ASSUME Inv, NEW t \in Thread, pc[t] = "lock", TurnOver(t), now' = [now EXCEPT ![t] = 0],
           UNCHANGED <<mapTask, adding, nextTid, removed, runFlag, closing, clock>>
    PROVE  Inv' /\ \A i : Runners(i)' = Runners(i)
<1>. USE DEF TurnOver, Goto
<1>1. TypeOK' BY PoolAssumption DEF Inv, TypeOK, Time
<1>2. \A i : Runners(i)' = Runners(i) BY DEF Runners
<1>3. TidsGivenOut' BY DEF Inv, Counting, TidsGivenOut
<1>4. RunningNumCounts' BY <1>2 DEF Inv, Counting, RunningNumCounts
<1>5. LimitKept' BY DEF Inv, Counting, LimitKept
<1>6. RemovedStayRemoved' BY DEF Inv, Counting, RemovedStayRemoved
<1>7. AddedIdle' BY DEF Inv, Counting, AddedIdle
<1>. QED BY <1>1, <1>2, <1>3, <1>4, <1>5, <1>6, <1>7 DEF Inv, Counting

\* The scan takes entry i, which has a callback: the thread becomes its runner.
LEMMA TakeInv ==
    ASSUME Inv, NEW t \in Thread, NEW i \in Candidates(now[t]), pc[t] = "lock", mapTask[i].cb,
           mapTask' = [mapTask EXCEPT ![i] = Taken(@)],
           task' = [task EXCEPT ![t] = i], now' = [now EXCEPT ![t] = 0], Goto(t, "call"),
           UNCHANGED <<tick, adding, nextTid, removed, runFlag, closing, clock>>
    PROVE  Inv' /\ \A j \in removed : Runners(j)' = Runners(j)
<1>. USE DEF Goto
<1>1. /\ i \in DOMAIN mapTask
      /\ i \in Tid
      /\ mapTask[i].runtimes > 0
      /\ mapTask[i].runingnum < mapTask[i].mulNum
      BY DEF Inv, TypeOK, Candidates, BelowLimit
<1>2. PICK e \in ThreadTask : e = mapTask[i] BY <1>1 DEF Inv, TypeOK
<1>3. PICK f \in ThreadTask : /\ f = Taken(e)
                              /\ f.cb = e.cb
                              /\ f.mulNum = e.mulNum
                              /\ f.runingnum = e.runingnum + 1
      BY <1>1, <1>2, TakenFields
<1>4. mapTask' = [mapTask EXCEPT ![i] = f] BY <1>2, <1>3
<1>5. TypeOK' BY <1>1, <1>4, PoolAssumption DEF Inv, TypeOK, Time
<1>6. t \notin Runners(i) BY DEF Runners
<1>7. Runners(i)' = Runners(i) \cup {t} BY DEF Inv, TypeOK, Runners
<1>8. \A j : j # i => Runners(j)' = Runners(j) BY DEF Inv, TypeOK, Runners
<1>9. TidsGivenOut' BY <1>1, <1>4 DEF Inv, TypeOK, Counting, TidsGivenOut
<1>10. RunningNumCounts'
  <2>1. f.runingnum = Cardinality(Runners(i)')
        BY <1>1, <1>2, <1>3, <1>6, <1>7, Joins, RunnersAreThreads
        DEF Inv, Counting, RunningNumCounts
  <2>. QED BY <1>1, <1>4, <1>8, <2>1 DEF Inv, Counting, RunningNumCounts
<1>11. LimitKept'
  <2>1. f.runingnum <= f.mulNum BY <1>1, <1>2, <1>3 DEF ThreadTask
  <2>. QED BY <1>4, <2>1 DEF Inv, Counting, LimitKept
<1>12. RemovedStayRemoved' BY <1>1, <1>2, <1>3, <1>4
                           DEF Inv, Counting, RemovedStayRemoved
<1>13. i \notin removed BY <1>1 DEF Inv, Counting, RemovedStayRemoved
<1>14. AddedIdle' BY DEF Inv, Counting, AddedIdle
<1>. QED BY <1>5, <1>8, <1>9, <1>10, <1>11, <1>12, <1>13, <1>14 DEF Inv, Counting

\* The scan takes an entry that was put back after its removal: nobody runs it.
LEMMA TakeDeadInv ==
    ASSUME Inv, NEW t \in Thread, NEW i \in Candidates(now[t]), pc[t] = "lock", ~mapTask[i].cb,
           mapTask' = [mapTask EXCEPT ![i] = Taken(@)],
           TurnOver(t), now' = [now EXCEPT ![t] = 0],
           UNCHANGED <<adding, nextTid, removed, runFlag, closing, clock>>
    PROVE  Inv' /\ \A j : Runners(j)' = Runners(j)
<1>. USE DEF TurnOver, Goto
<1>1. i \in DOMAIN mapTask /\ mapTask[i].runtimes > 0 BY DEF Candidates
<1>2. PICK e \in ThreadTask : e = mapTask[i] BY <1>1 DEF Inv, TypeOK
<1>3. PICK f \in ThreadTask : f = Taken(e) /\ f.cb = e.cb BY <1>1, <1>2, TakenFields
<1>4. mapTask' = [mapTask EXCEPT ![i] = f] /\ ~f.cb BY <1>2, <1>3
<1>5. TypeOK' BY <1>1, <1>4, PoolAssumption DEF Inv, TypeOK, Time
<1>6. \A j : Runners(j)' = Runners(j) BY DEF Runners
<1>7. TidsGivenOut' BY <1>1, <1>4 DEF Inv, Counting, TidsGivenOut
<1>8. RunningNumCounts' BY <1>4, <1>6 DEF Inv, Counting, RunningNumCounts
<1>9. LimitKept' BY <1>4 DEF Inv, Counting, LimitKept
<1>10. RemovedStayRemoved' BY <1>4 DEF Inv, Counting, RemovedStayRemoved
<1>11. AddedIdle' BY DEF Inv, Counting, AddedIdle
<1>. QED BY <1>5, <1>6, <1>7, <1>8, <1>9, <1>10, <1>11 DEF Inv, Counting

LEMMA GetThreadTaskInv ==
    ASSUME Inv, NEW t \in Thread, GetThreadTask(t)
    PROVE  Inv' /\ \A j \in removed : Runners(j)' \subseteq Runners(j)
<1>1. CASE Candidates(now[t]) = {} /\ TurnOver(t) /\ UNCHANGED mapTask
  BY <1>1, IdleInv DEF GetThreadTask
<1>2. ASSUME NEW i \in Candidates(now[t]), mapTask[i].cb,
             mapTask' = [mapTask EXCEPT ![i] = Taken(@)],
             task' = [task EXCEPT ![t] = i], Goto(t, "call"), UNCHANGED tick
      PROVE  Inv' /\ \A j \in removed : Runners(j)' \subseteq Runners(j)
  BY <1>2, TakeInv DEF GetThreadTask
<1>3. ASSUME NEW i \in Candidates(now[t]), ~mapTask[i].cb,
             mapTask' = [mapTask EXCEPT ![i] = Taken(@)], TurnOver(t)
      PROVE  Inv' /\ \A j \in removed : Runners(j)' \subseteq Runners(j)
  BY <1>3, TakeDeadInv DEF GetThreadTask
<1>. QED BY <1>1, <1>2, <1>3 DEF GetThreadTask

-----------------------------------------------------------------------------
\* The runners after a thread finished: it left the task it ran.
LEMMA FinishRunners ==
    ASSUME Inv, NEW t \in Thread, Finish(t), NEW i, i = task[t]
    PROVE  /\ i \in Tid /\ i < nextTid
           /\ t \in Runners(i)
           /\ Runners(i)' = Runners(i) \ {t}
           /\ \A j : j # i => Runners(j)' = Runners(j)
           /\ \A u \in Thread : pc'[u] \in {"call", "run", "finish"} =>
                pc[u] \in {"call", "run", "finish"} /\ task'[u] = task[u]
<1>1. pc[t] = "finish" /\ i \in Tid /\ i < nextTid
      BY DEF Finish, Inv, Counting, TidsGivenOut
<1>2. \A u \in Thread \ {t} : pc'[u] = pc[u] /\ task'[u] = task[u]
      BY DEF Finish, TurnOver, Goto
<1>3. pc'[t] = "loop" BY DEF Finish, TurnOver, Goto, Inv, TypeOK
<1>4. t \in Runners(i) BY <1>1 DEF Runners
<1>5. Runners(i)' = Runners(i) \ {t} BY <1>1, <1>2, <1>3 DEF Runners
<1>6. ASSUME NEW j, j # i PROVE Runners(j)' = Runners(j)
  BY <1>2, <1>3, <1>6 DEF Runners
<1>. QED BY <1>1, <1>2, <1>3, <1>4, <1>5, <1>6

LEMMA FinishInv ==
    ASSUME Inv, NEW t \in Thread, Finish(t)
    PROVE  Inv' /\ \A j : Runners(j)' \subseteq Runners(j)
<1>1. PICK i : i = task[t] OBVIOUS
<1>2. /\ i \in Tid /\ i < nextTid
      /\ t \in Runners(i)
      /\ Runners(i)' = Runners(i) \ {t}
      /\ \A j : j # i => Runners(j)' = Runners(j)
      /\ \A u \in Thread : pc'[u] \in {"call", "run", "finish"} =>
           pc[u] \in {"call", "run", "finish"} /\ task'[u] = task[u]
      BY <1>1, FinishRunners
<1>3. TypeOK /\ UNCHANGED <<adding, nextTid, removed, runFlag, closing, clock>>
      BY DEF Inv, Finish
<1>4. PICK e \in ThreadTask :
        /\ mapTask' = [j \in DOMAIN mapTask \cup {i} |-> IF j = i THEN e ELSE mapTask[j]]
        /\ i \notin DOMAIN mapTask => ~e.cb
        /\ i \in DOMAIN mapTask =>
             /\ e.cb = mapTask[i].cb
             /\ e.mulNum = mapTask[i].mulNum
             /\ mapTask[i].runingnum > 0 => e.runingnum = mapTask[i].runingnum - 1
  <2>1. CASE i \in DOMAIN mapTask
    <3>1. mapTask[i] \in ThreadTask BY <2>1, <1>3 DEF TypeOK
    <3>2. PICK e \in ThreadTask :
            /\ e = Ended(mapTask[i], t)
            /\ e.cb = mapTask[i].cb
            /\ e.mulNum = mapTask[i].mulNum
            /\ mapTask[i].runingnum > 0 => e.runingnum = mapTask[i].runingnum - 1
          BY <1>3, <3>1, EndedFields
    <3>3. mapTask' = [mapTask EXCEPT ![i] = e] BY <1>1, <2>1, <3>2 DEF Finish
    <3>4. mapTask' = [j \in DOMAIN mapTask \cup {i} |-> IF j = i THEN e ELSE mapTask[j]]
          BY <2>1, <3>3, <1>3
    <3>. QED BY <2>1, <3>2, <3>4
  <2>2. CASE i \notin DOMAIN mapTask
    <3>1. PICK r \in Garbage, m \in Garbage, n \in Garbage :
            mapTask' = [j \in DOMAIN mapTask \cup {i} |->
                          IF j = i THEN Ended(NewTask(r, m, n), t) ELSE mapTask[j]]
          BY <1>1, <2>2 DEF Finish
    <3>2. PICK g \in ThreadTask : g = NewTask(r, m, n) /\ ~g.cb BY NewTaskFields
    <3>3. PICK e \in ThreadTask : e = Ended(g, t) /\ e.cb = g.cb BY <1>3, EndedFields
    <3>. QED BY <2>2, <3>1, <3>2, <3>3
  <2>. QED BY <2>1, <2>2
<1>5. TypeOK'
  <2>1. mapTask' \in [DOMAIN mapTask' -> ThreadTask] /\ DOMAIN mapTask' \subseteq Tid
        BY <1>2, <1>3, <1>4 DEF TypeOK
  <2>. QED BY <1>3, <2>1, PoolAssumption DEF TypeOK, Finish, TurnOver, Goto, Time
<1>6. TidsGivenOut'
      BY <1>2, <1>3, <1>4 DEF Inv, Counting, TidsGivenOut
<1>7. ASSUME i \in DOMAIN mapTask, mapTask[i].cb
      PROVE  /\ e.runingnum = Cardinality(Runners(i)')
             /\ e.runingnum <= e.mulNum
  <2>1. /\ mapTask[i].runingnum = Cardinality(Runners(i))
        /\ mapTask[i].runingnum <= mapTask[i].mulNum
        /\ mapTask[i].runingnum \in Nat /\ mapTask[i].mulNum \in Nat
        BY <1>3, <1>7 DEF Inv, Counting, RunningNumCounts, LimitKept, TypeOK,
           ThreadTask
  <2>2. /\ Cardinality(Runners(i) \ {t}) = Cardinality(Runners(i)) - 1
        /\ Cardinality(Runners(i)) > 0
        BY <1>2, Leaves, RunnersAreThreads
  <2>. QED BY <1>2, <1>4, <1>7, <2>1, <2>2
<1>8. RunningNumCounts'
      BY <1>2, <1>4, <1>7 DEF Inv, Counting, RunningNumCounts
<1>9. LimitKept' BY <1>4, <1>7 DEF Inv, Counting, LimitKept
<1>10. RemovedStayRemoved' BY <1>3, <1>4 DEF Inv, Counting, RemovedStayRemoved
<1>11. AddedIdle' BY <1>3 DEF Inv, Counting, AddedIdle
<1>. QED BY <1>2, <1>5, <1>6, <1>8, <1>9, <1>10, <1>11 DEF Inv, Counting

-----------------------------------------------------------------------------
LEMMA OneTaskFields ==
    ASSUME TypeOK, NEW r \in RunTimes, NEW m \in MulNums
    PROVE  /\ OneTask(r, m) \in ThreadTask
           /\ OneTask(r, m).runingnum = 0
           /\ OneTask(r, m).mulNum \in Nat
<1>1. r \in Nat /\ m \in Nat /\ 1 \in Time BY PoolAssumption DEF Time
<1>2. clock \in Time BY DEF TypeOK
<1>. QED BY <1>1, <1>2 DEF OneTask, ThreadTask

\* The entry is made before it is put into the map.
LEMMA CallAddThreadTaskInv ==
    ASSUME Inv, NEW r \in RunTimes, NEW m \in MulNums, CallAddThreadTask(r, m)
    PROVE  Inv' /\ \A j : Runners(j)' = Runners(j)
<1>1. PICK e \in ThreadTask : e = OneTask(r, m) /\ e.runingnum = 0
      BY OneTaskFields DEF Inv
<1>2. /\ adding' = adding \cup {e}
      /\ UNCHANGED <<mapTask, nextTid, removed, runFlag, closing, clock, threadVars>>
      BY <1>1 DEF CallAddThreadTask
<1>3. TypeOK' BY <1>2 DEF Inv, TypeOK, threadVars
<1>4. \A j : Runners(j)' = Runners(j) BY <1>2 DEF Runners, threadVars
<1>5. TidsGivenOut' BY <1>2 DEF Inv, Counting, TidsGivenOut, threadVars
<1>6. RunningNumCounts' BY <1>2, <1>4 DEF Inv, Counting, RunningNumCounts
<1>7. LimitKept' /\ RemovedStayRemoved'
      BY <1>2 DEF Inv, Counting, LimitKept, RemovedStayRemoved
<1>8. AddedIdle' BY <1>1, <1>2 DEF Inv, Counting, AddedIdle
<1>. QED BY <1>3, <1>4, <1>5, <1>6, <1>7, <1>8 DEF Inv, Counting

\* The next tid is new: no thread runs it, and it was never removed.
LEMMA AddThreadTaskInv ==
    ASSUME Inv, NEW e \in adding, AddThreadTask(e)
    PROVE  Inv' /\ \A j : Runners(j)' = Runners(j)
<1>1. PICK i \in Tid : i = nextTid
      BY PoolAssumption DEF Inv, TypeOK, AddThreadTask, Tid
<1>2. e \in ThreadTask /\ e.runingnum = 0 /\ e.mulNum \in Nat
      BY DEF Inv, TypeOK, Counting, AddedIdle, ThreadTask
<1>3. mapTask' = [j \in DOMAIN mapTask \cup {i} |-> IF j = i THEN e ELSE mapTask[j]]
      BY <1>1, <1>2 DEF AddThreadTask
<1>4. nextTid' = i + 1 /\ adding' = adding \ {e} /\ UNCHANGED <<removed, runFlag, closing, clock, threadVars>>
      BY <1>1 DEF AddThreadTask
<1>5. nextTid' \in 0 .. MaxTasks BY <1>1, <1>4, PoolAssumption DEF Tid
<1>6. TypeOK' BY <1>1, <1>2, <1>3, <1>4, <1>5 DEF Inv, TypeOK, threadVars
<1>7. \A j : Runners(j)' = Runners(j) BY <1>4 DEF Runners, threadVars
<1>8. Runners(i) = {} BY <1>1 DEF Inv, Counting, TidsGivenOut, Runners, Tid
<1>9. DOMAIN mapTask \subseteq Nat /\ removed \subseteq Nat /\ i \in Nat
      BY <1>1 DEF Inv, TypeOK, Tid
<1>10. TidsGivenOut'
  <2>1. \A j \in DOMAIN mapTask' : j < nextTid'
        BY <1>1, <1>3, <1>4, <1>9 DEF Inv, Counting, TidsGivenOut
  <2>2. \A j \in removed' : j < nextTid'
        BY <1>1, <1>4, <1>9 DEF Inv, Counting, TidsGivenOut
  <2>3. \A t \in Thread : pc'[t] \in {"call", "run", "finish"} => task'[t] \in Tid /\ task'[t] < nextTid'
        BY <1>1, <1>4 DEF Inv, Counting, TidsGivenOut, threadVars, Tid
  <2>. QED BY <2>1, <2>2, <2>3 DEF TidsGivenOut
<1>11. RunningNumCounts'
  <2>1. e.runingnum = Cardinality(Runners(i)) BY <1>2, <1>8, FS_EmptySet
  <2>. QED BY <1>3, <1>7, <2>1 DEF Inv, Counting, RunningNumCounts
<1>12. LimitKept' BY <1>2, <1>3 DEF Inv, Counting, LimitKept
<1>13. RemovedStayRemoved'
  <2>1. i \notin removed BY <1>1, <1>9 DEF Inv, Counting, TidsGivenOut
  <2>. QED BY <1>3, <1>4, <2>1 DEF Inv, Counting, RemovedStayRemoved
<1>14. AddedIdle' BY <1>4 DEF Inv, Counting, AddedIdle
<1>. QED BY <1>6, <1>7, <1>10, <1>11, <1>12, <1>13, <1>14 DEF Inv, Counting

LEMMA RemoveThreadTaskInv ==
    ASSUME Inv, NEW i, RemoveThreadTask(i)
    PROVE  Inv' /\ \A j : Runners(j)' = Runners(j)
<1>1. /\ i \in DOMAIN mapTask
      /\ mapTask' = [j \in DOMAIN mapTask \ {i} |-> mapTask[j]]
      /\ removed' = removed \cup {i}
      /\ UNCHANGED <<adding, nextTid, runFlag, closing, clock, threadVars>>
      BY DEF RemoveThreadTask, Restrict
<1>2. TypeOK' BY <1>1 DEF Inv, TypeOK, threadVars
<1>3. \A j : Runners(j)' = Runners(j) BY <1>1 DEF Runners, threadVars
<1>4. TidsGivenOut' BY <1>1 DEF Inv, Counting, TidsGivenOut, threadVars
<1>5. RunningNumCounts' BY <1>1, <1>3 DEF Inv, Counting, RunningNumCounts
<1>6. LimitKept' BY <1>1 DEF Inv, Counting, LimitKept
<1>7. RemovedStayRemoved' BY <1>1 DEF Inv, Counting, RemovedStayRemoved
<1>8. AddedIdle' BY <1>1 DEF Inv, Counting, AddedIdle
<1>. QED BY <1>2, <1>3, <1>4, <1>5, <1>6, <1>7, <1>8 DEF Inv, Counting

LEMMA NextInv ==
    Inv /\ [Next]_vars => Inv' /\ \A j \in removed : Runners(j)' \subseteq Runners(j)
<1>. SUFFICES ASSUME Inv, [Next]_vars
              PROVE  Inv' /\ \A j \in removed : Runners(j)' \subseteq Runners(j)
     OBVIOUS
<1>1. CASE UNCHANGED vars
  <2>1. TypeOK' BY <1>1 DEF Inv, TypeOK, vars, threadVars
  <2>2. UNCHANGED <<mapTask, adding, nextTid, removed, task, pc>> BY <1>1 DEF vars, threadVars
  <2>. QED BY <2>1, <2>2, QuietStep DEF Inv
<1>2. ASSUME NEW t \in Thread, ThreadCallBack(t)
      PROVE  Inv' /\ \A j \in removed : Runners(j)' \subseteq Runners(j)
  BY <1>2, LoopTopInv, ReadTickInv, GetThreadTaskInv, CallTaskInv, CallbackReturnsInv, FinishInv
  DEF ThreadCallBack
<1>3. ASSUME NEW r \in RunTimes, NEW m \in MulNums, CallAddThreadTask(r, m)
      PROVE  Inv' /\ \A j \in removed : Runners(j)' \subseteq Runners(j)
  BY <1>3, CallAddThreadTaskInv
<1>4. ASSUME NEW e \in adding, AddThreadTask(e)
      PROVE  Inv' /\ \A j \in removed : Runners(j)' \subseteq Runners(j)
  BY <1>4, AddThreadTaskInv
<1>5. ASSUME NEW i \in Removable, RemoveThreadTask(i)
      PROVE  Inv' /\ \A j \in removed : Runners(j)' \subseteq Runners(j)
  BY <1>5, RemoveThreadTaskInv
<1>6. CASE CloseThreadPool \/ CloseReturns \/ Tick
  BY <1>6, OutsideInv
<1>. QED BY <1>1, <1>2, <1>3, <1>4, <1>5, <1>6 DEF Next

THEOREM Invariance == Spec => []Inv
BY InitInv, NextInv, PTL DEF Spec

\* GetThreadTask and the bookkeeping after a call keep runingnum equal to the
\* number of threads in the task, whatever interleaves and whatever the clock does.
THEOREM RunningNumAlwaysCounts == Spec => []RunningNumCounts
<1>1. Inv => RunningNumCounts BY DEF Inv, Counting
<1>. QED BY <1>1, Invariance, PTL

\* No more than mulNum threads are ever in a task's function.
THEOREM ConcurrencyAlwaysBounded == Spec => []ConcurrencyBound
<1>1. Inv => ConcurrencyBound
  <2>. SUFFICES ASSUME Inv, NEW i \in DOMAIN mapTask, mapTask[i].cb
                PROVE  Cardinality({t \in Runners(i) : pc[t] = "run"}) <= mapTask[i].mulNum
       BY DEF ConcurrencyBound
  <2>. DEFINE R == {t \in Runners(i) : pc[t] = "run"}
  <2>1. R \subseteq Runners(i) /\ IsFiniteSet(Runners(i))
        BY FiniteThreads, RunnersAreThreads
  <2>2. Cardinality(R) <= Cardinality(Runners(i)) BY <2>1, FS_Subset
  <2>3. Cardinality(R) \in Nat /\ Cardinality(Runners(i)) \in Nat
        BY <2>1, FiniteThreads, RunnersAreThreads
  <2>4. /\ mapTask[i].runingnum = Cardinality(Runners(i))
        /\ mapTask[i].runingnum <= mapTask[i].mulNum
        /\ mapTask[i].mulNum \in Nat
        BY DEF Inv, TypeOK, Counting, RunningNumCounts, LimitKept, ThreadTask
  <2>. QED BY <2>2, <2>3, <2>4
<1>. QED BY <1>1, Invariance, PTL

\* A removed task is never given to a thread again, although a finishing thread may
\* put an entry of its tid back.
THEOREM NeverStartedAgain == Spec => NeverStartedAfterRemove
<1>1. Inv /\ [Next]_vars => [\A i \in removed : Runners(i)' \subseteq Runners(i)]_vars
  BY NextInv
<1>. QED BY <1>1, Invariance, PTL DEF Spec, NeverStartedAfterRemove

\* Type correctness.
THEOREM TypeCorrect == Spec => []TypeOK
<1>1. Inv => TypeOK BY DEF Inv
<1>. QED BY <1>1, Invariance, PTL
=============================================================================
