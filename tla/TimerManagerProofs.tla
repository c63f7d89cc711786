------------------------ MODULE TimerManagerProofs ------------------------
(***************************************************************************)
(* Theorems about TimerManager, for any number of threads and timers: the  *)
(* types, the iterators of the scans, and the intervals of the timers on a *)
(* clock that comes round.                                                 *)
(***************************************************************************)
EXTENDS TimerManager, WellFoundedInduction, TLAPS

(***************************************************************************)
(* Iterators.                                                              *)
(***************************************************************************)
LEMMA LeastElement ==
    ASSUME NEW S \in SUBSET Nat, S # {}
    PROVE  \E m \in S : \A k \in S : m <= k
<1>1. PICK m \in S : \A k \in S : ~(<<k, m>> \in OpToRel(<, Nat))
      BY NatLessThanWellFounded, WFMin
<1>2. \A k \in S : ~(k < m) BY <1>1 DEF OpToRel
<1>. QED BY <1>2

\* The entry after i, or the end.
LEMMA AfterType ==
    ASSUME DOMAIN timer \subseteq Id, NEW i \in {None, End} \cup Id
    PROVE  \/ After(i) = End
           \/ After(i) \in DOMAIN timer /\ After(i) > i
<1>. DEFINE later == {j \in DOMAIN timer : j > i}
<1>1. CASE later = {} BY <1>1 DEF After
<1>2. CASE later # {}
  <2>1. later \in SUBSET Nat BY DEF Id
  <2>2. \E j \in later : \A k \in later : j <= k BY <1>2, <2>1, LeastElement
  <2>3. After(i) = CHOOSE j \in later : \A k \in later : j <= k BY <1>2 DEF After
  <2>. HIDE DEF later
  <2>4. After(i) \in later BY <2>2, <2>3
  <2>. QED BY <2>4 DEF later
<1>. QED BY <1>1, <1>2

LEMMA Indices ==
    /\ MaxTimers \in Nat /\ Id = 1 .. MaxTimers /\ End = MaxTimers + 1 /\ None = 0 /\ Out = 0
    /\ End \notin Id /\ Out \notin Id /\ None \notin Id /\ Out # End
BY TimerAssumption DEF Id, End, None, Out

LEMMA ClockType ==
    /\ LastTick \in Nat /\ ClockSize \in Nat \ {0} /\ LastTick <= ClockSize - 1
    /\ clock \in 0 .. LastTick => clock \in Time /\ clock \in Nat
BY TimerAssumption DEF Time

-----------------------------------------------------------------------------
(***************************************************************************)
(* The types, and the scans.                                               *)
(***************************************************************************)
\* The critical section: one scan at a time.
OneScan == \A t, u \in Thread : cursor[t] # Out /\ cursor[u] # Out => t = u

\* The timers were numbered by _timerId.
Numbered == DOMAIN timer \subseteq 1 .. nextId

ScanInv == TypeOK /\ OneScan /\ CursorValid /\ Numbered

LEMMA InitScan == Init => ScanInv
<1>. SUFFICES ASSUME Init PROVE ScanInv OBVIOUS
<1>1. TypeOK BY TimerAssumption DEF Init, NothingFired, TypeOK, Never, Id, Out, End, None
<1>. QED BY <1>1 DEF Init, ScanInv, OneScan, CursorValid, Numbered

\* An entry after QueryExcuteTimer is one with the same interval.
LEMMA QueriedType ==
    ASSUME NEW e \in Timer, clock \in Time
    PROVE  Queried(e) \in Timer /\ Queried(e).interval = e.interval
BY DEF Timer, TimerState, Queried, RequestTaken, LastUpdated

LEMMA BeginPassScan ==
    ASSUME ScanInv, NEW t \in Thread, BeginPass(t) PROVE ScanInv'
<1>. USE DEF ScanInv
<1>1. /\ cursor' = [cursor EXCEPT ![t] = After(None)]
      /\ UNCHANGED <<timer, nextId, running, clock, changes, fired>>
      /\ \A u \in Thread : cursor[u] = Out
      BY DEF BeginPass, CsFree
<1>2. After(None) \in DOMAIN timer \cup {End} BY AfterType, Indices DEF TypeOK
<1>3. passes' \in 0 .. MAX_THREAD_RUNNING
      BY TimerAssumption DEF BeginPass, TypeOK
<1>4. cursor' \in [Thread -> {Out, End} \cup Id] BY <1>1, <1>2 DEF TypeOK
<1>5. TypeOK' BY <1>1, <1>3, <1>4 DEF TypeOK
<1>6. OneScan' BY <1>1 DEF OneScan, TypeOK
<1>7. CursorValid' BY <1>1, <1>2 DEF CursorValid, TypeOK
<1>. QED BY <1>1, <1>5, <1>6, <1>7 DEF Numbered

LEMMA PickTimerScan ==
    ASSUME ScanInv, NEW t \in Thread, PickTimer(t) PROVE ScanInv'
<1>. USE DEF ScanInv
<1>. DEFINE i == cursor[t]
<1>1. /\ i \in DOMAIN timer /\ i \in Id
      /\ timer' = [timer EXCEPT ![i] = Queried(@)]
      /\ cursor' = [cursor EXCEPT ![t] = Out]
      /\ running' = [running EXCEPT ![t] = i]
      /\ UNCHANGED <<nextId, passes, clock, changes>>
      BY DEF PickTimer, TypeOK
<1>2. Queried(timer[i]) \in Timer BY <1>1, ClockType, QueriedType DEF TypeOK
<1>3. DOMAIN timer' = DOMAIN timer /\ timer' \in [DOMAIN timer -> Timer]
      BY <1>1, <1>2 DEF TypeOK
<1>4. fired' \in [Id -> (Never .. LastTick) \X (Never .. LastTick)]
  <2>1. fired[i][2] \in Never .. LastTick /\ clock \in Never .. LastTick
        BY <1>1 DEF TypeOK, Never
  <2>2. <<fired[i][2], clock>> \in (Never .. LastTick) \X (Never .. LastTick) BY <2>1
  <2>3. CASE fired' = fired BY <2>3 DEF TypeOK
  <2>4. CASE fired' = [fired EXCEPT ![i] = <<@[2], clock>>] BY <1>1, <2>2, <2>4 DEF TypeOK
  <2>. QED BY <2>3, <2>4 DEF PickTimer
<1>5. TypeOK' BY <1>1, <1>3, <1>4 DEF TypeOK
<1>6. OneScan' BY <1>1 DEF OneScan, TypeOK
<1>7. CursorValid' BY <1>1, <1>3 DEF CursorValid, TypeOK
<1>. QED BY <1>1, <1>3, <1>5, <1>6, <1>7 DEF Numbered

\* The entry after the next one is still there when this one is erased.
LEMMA EraseTimerScan ==
    ASSUME ScanInv, NEW t \in Thread, EraseTimer(t) PROVE ScanInv'
<1>. USE DEF ScanInv
<1>. DEFINE i == cursor[t]
<1>1. /\ i \in DOMAIN timer /\ i \in Id
      /\ timer' = [j \in DOMAIN timer \ {i} |-> timer[j]]
      /\ cursor' = [cursor EXCEPT ![t] = After(After(i))]
      /\ UNCHANGED <<nextId, passes, running, clock, changes, fired>>
      BY DEF EraseTimer, Restrict, TypeOK
<1>2. /\ DOMAIN timer' = DOMAIN timer \ {i}
      /\ \A j \in DOMAIN timer' : timer'[j] = timer[j]
      /\ timer' \in [DOMAIN timer' -> Timer]
      BY <1>1 DEF TypeOK
<1>3. After(i) = End \/ (After(i) \in DOMAIN timer /\ After(i) > i)
      BY <1>1, AfterType DEF TypeOK
<1>4. After(After(i)) = End \/ (After(After(i)) \in DOMAIN timer /\ After(After(i)) > i)
  <2>1. CASE After(i) = End
    <3>1. After(End) = End \/ (After(End) \in DOMAIN timer /\ After(End) > End)
          BY AfterType DEF TypeOK
    <3>2. \A j \in DOMAIN timer : ~(j > End) BY Indices DEF TypeOK
    <3>. QED BY <2>1, <3>1, <3>2
  <2>2. CASE After(i) \in DOMAIN timer /\ After(i) > i
    <3>1. \/ After(After(i)) = End
          \/ After(After(i)) \in DOMAIN timer /\ After(After(i)) > After(i)
          BY <2>2, AfterType DEF TypeOK
    <3>. QED BY <1>1, <2>2, <3>1, Indices DEF TypeOK
  <2>. QED BY <1>3, <2>1, <2>2
<1>5. After(After(i)) \in DOMAIN timer' \cup {End} BY <1>1, <1>2, <1>4, Indices
<1>6. cursor' \in [Thread -> {Out, End} \cup Id] BY <1>1, <1>2, <1>5 DEF TypeOK
<1>7. TypeOK' BY <1>1, <1>2, <1>6 DEF TypeOK
<1>8. \A u \in Thread \ {t} : cursor[u] = Out /\ cursor'[u] = Out
      BY <1>1, Indices DEF OneScan, TypeOK
<1>9. OneScan' BY <1>8 DEF OneScan
<1>10. CursorValid' BY <1>1, <1>5, <1>8 DEF CursorValid, TypeOK
<1>. QED BY <1>1, <1>2, <1>7, <1>9, <1>10 DEF Numbered

\* The other steps of a scan move the iterator, or leave it.
LEMMA IteratorScan ==
    ASSUME ScanInv, NEW t \in Thread, NextTimer(t) \/ EndScan(t) PROVE ScanInv'
<1>. USE DEF ScanInv
<1>1. PICK v \in DOMAIN timer \cup {Out, End} : cursor' = [cursor EXCEPT ![t] = v]
  <2>1. CASE NextTimer(t)
    <3>1. cursor[t] \in DOMAIN timer /\ cursor[t] \in Id BY <2>1 DEF NextTimer, TypeOK
    <3>2. After(cursor[t]) \in DOMAIN timer \cup {End} BY <3>1, AfterType DEF TypeOK
    <3>. QED BY <2>1, <3>2 DEF NextTimer
  <2>. QED BY <2>1 DEF EndScan
<1>2. UNCHANGED <<timer, nextId, passes, running, clock, changes, fired>> /\ cursor[t] # Out
      BY Indices DEF NextTimer, EndScan, TypeOK
<1>3. cursor' \in [Thread -> {Out, End} \cup Id] BY <1>1 DEF TypeOK
<1>4. TypeOK' BY <1>2, <1>3 DEF TypeOK
<1>5. OneScan' BY <1>1, <1>2 DEF OneScan, TypeOK
<1>6. CursorValid' BY <1>1, <1>2 DEF CursorValid, TypeOK
<1>. QED BY <1>2, <1>4, <1>5, <1>6 DEF Numbered

LEMMA CreateTimerScan ==
    ASSUME ScanInv, NEW n \in Intervals, NEW c \in RunCounts, CreateTimer(n, c) PROVE ScanInv'
<1>. USE DEF ScanInv
<1>. DEFINE new == [interval |-> n, runcount |-> c, state |-> "WAIT", last |-> 0]
<1>1. /\ nextId < MaxTimers /\ nextId' = nextId + 1
      /\ timer' = [j \in DOMAIN timer \cup {nextId + 1} |-> IF j = nextId + 1 THEN new ELSE timer[j]]
      /\ UNCHANGED <<passes, cursor, running, clock, changes, fired>>
      BY DEF CreateTimer, InterlockedIncrement
<1>2. nextId' \in 0 .. MaxTimers /\ nextId + 1 \in Id BY <1>1, TimerAssumption DEF TypeOK, Id
<1>3. new \in Timer BY TimerAssumption DEF Timer, TimerState, Time
<1>. HIDE DEF new
<1>4. DOMAIN timer' = DOMAIN timer \cup {nextId + 1} /\ timer' \in [DOMAIN timer' -> Timer]
      BY <1>1, <1>3 DEF TypeOK
<1>5. TypeOK' BY <1>1, <1>2, <1>4 DEF TypeOK
<1>6. Numbered' BY <1>1, <1>4 DEF Numbered, TypeOK
<1>. QED BY <1>1, <1>4, <1>5, <1>6 DEF OneScan, CursorValid

LEMMA ChangeTimerStateScan ==
    ASSUME ScanInv, NEW i \in Id, NEW v \in States, ChangeTimerState(i, v) PROVE ScanInv'
<1>. USE DEF ScanInv
<1>1. /\ i \in DOMAIN timer /\ changes < MaxChanges
      /\ timer' = [timer EXCEPT ![i] = [@ EXCEPT !.state = v]]
      /\ changes' = changes + 1
      /\ UNCHANGED <<passes, nextId, cursor, running, clock, fired>>
      BY DEF ChangeTimerState
<1>2. [timer[i] EXCEPT !.state = v] \in Timer BY <1>1, TimerAssumption DEF TypeOK, Timer
<1>3. DOMAIN timer' = DOMAIN timer /\ timer' \in [DOMAIN timer -> Timer] BY <1>1, <1>2 DEF TypeOK
<1>4. changes' \in 0 .. MaxChanges BY <1>1, TimerAssumption DEF TypeOK
<1>5. TypeOK' BY <1>1, <1>3, <1>4 DEF TypeOK
<1>. QED BY <1>1, <1>3, <1>5 DEF OneScan, CursorValid, Numbered

LEMMA ScanStep == ScanInv /\ [Next]_vars => ScanInv'
<1>. SUFFICES ASSUME ScanInv, [Next]_vars PROVE ScanInv' OBVIOUS
<1>1. CASE UNCHANGED vars
  BY <1>1 DEF vars, ScanInv, TypeOK, OneScan, CursorValid, Numbered
<1>2. ASSUME NEW t \in Thread, ExcuteTimer(t) PROVE ScanInv'
  <2>1. running' \in [Thread -> {None} \cup Id] BY <1>2 DEF ExcuteTimer, ScanInv, TypeOK
  <2>. QED BY <1>2, <2>1 DEF ExcuteTimer, ScanInv, TypeOK, OneScan, CursorValid, Numbered
<1>3. CASE Tick
  <2>1. clock' \in 0 .. LastTick BY <1>3, ClockType DEF Tick, ScanInv, TypeOK
  <2>2. fired' \in [Id -> (Never .. LastTick) \X (Never .. LastTick)]
    <3>1. NothingFired \in [Id -> (Never .. LastTick) \X (Never .. LastTick)]
          BY ClockType DEF NothingFired, Never
    <3>. QED BY <1>3, <3>1 DEF Tick, ScanInv, TypeOK
  <2>. QED BY <1>3, <2>1, <2>2 DEF Tick, ScanInv, TypeOK, OneScan, CursorValid, Numbered
<1>. QED BY <1>1, <1>2, <1>3, BeginPassScan, PickTimerScan, EraseTimerScan, IteratorScan,
      CreateTimerScan, ChangeTimerStateScan DEF Next, TimerThread

\* TimerManager: the map, its entries and the threads' locals keep their types.
THEOREM TypeCorrect == Spec => []TypeOK
<1>1. ScanInv => TypeOK BY DEF ScanInv
<1>. QED BY <1>1, InitScan, ScanStep, PTL DEF Spec

\* TimerManager::TimerThread: the iterator of a scan points at an entry of the map or
\* past its end, also after an erasure, since one thread scans at a time.
THEOREM IteratorsValid == Spec => []CursorValid
<1>1. ScanInv => CursorValid BY DEF ScanInv
<1>. QED BY <1>1, InitScan, ScanStep, PTL DEF Spec

-----------------------------------------------------------------------------
(***************************************************************************)
(* IntervalKeptUnwrapped.  Since the clock came round, the last time of an *)
(* entry is when it last ran on time, if it did.                           *)
(***************************************************************************)
\* A number not given to a timer yet has never run.
LastIsFired ==
    \A i \in Id :
        /\ fired[i][2] <= clock
        /\ i \in DOMAIN timer /\ fired[i][2] # Never => timer[i].last = fired[i][2]
        /\ i > nextId => fired[i] = <<Never, Never>>

IntervalInv == LastIsFired /\ IntervalKeptUnwrapped

LEMMA SmallModulus ==
    ASSUME NEW n \in Nat, NEW x \in 0 .. n - 1 PROVE x % n = x
OBVIOUS

LEMMA DueUnwrapped ==
    ASSUME NEW e \in Timer, e.last + e.interval < ClockSize, Due(e)
    PROVE  e.last + e.interval < clock
<1>1. e.interval \in Nat /\ e.last \in Nat
  <2>1. e.interval \in Intervals /\ e.last \in Time BY DEF Timer
  <2>2. Intervals \subseteq Nat BY TimerAssumption
  <2>3. e.interval \in Nat BY <2>1, <2>2
  <2>4. e.last \in Nat BY <2>1, TimerAssumption DEF Time
  <2>. QED BY <2>3, <2>4
<1>2. e.last + e.interval \in 0 .. ClockSize - 1 /\ ClockSize \in Nat BY <1>1, ClockType
<1>3. (e.last + e.interval) % ClockSize = e.last + e.interval BY <1>2, SmallModulus
<1>. QED BY <1>3 DEF Due

LEMMA InitInterval == Init => IntervalInv
BY DEF Init, NothingFired, IntervalInv, LastIsFired, IntervalKeptUnwrapped, Never

\* A step that fires no timer and keeps the entries' intervals and times.
LEMMA IntervalStays ==
    ASSUME TypeOK, IntervalInv, fired' = fired, clock' \in Int, clock' >= clock,
           nextId' \in Int, nextId' >= nextId,
           \A i \in DOMAIN timer' :
               \/ i \in DOMAIN timer /\ timer'[i].interval = timer[i].interval
                                     /\ timer'[i].last = timer[i].last
               \/ i > nextId /\ i \in Id
    PROVE  IntervalInv'
<1>1. \A i \in Id : /\ fired[i][2] \in Int /\ i \in Int
                    /\ i > nextId => fired[i] = <<Never, Never>>
      BY Indices DEF TypeOK, Never, IntervalInv, LastIsFired
<1>2. clock \in Int /\ nextId \in Int BY Indices DEF TypeOK
<1>3. LastIsFired' BY <1>1, <1>2 DEF IntervalInv, LastIsFired
<1>4. ASSUME NEW i \in DOMAIN timer', fired[i][1] # Never,
             fired[i][1] + timer'[i].interval < ClockSize
      PROVE  fired[i][2] - fired[i][1] > timer'[i].interval
  <2>1. i \in DOMAIN timer /\ timer'[i].interval = timer[i].interval
    <3>1. CASE i > nextId /\ i \in Id BY <1>1, <1>4, <3>1
    <3>. QED BY <3>1
  <2>. QED BY <1>4, <2>1 DEF IntervalInv, IntervalKeptUnwrapped
<1>5. IntervalKeptUnwrapped' BY <1>4 DEF IntervalKeptUnwrapped
<1>. QED BY <1>3, <1>5 DEF IntervalInv

\* A timer fires on time when more than its interval has passed since it last did.
LEMMA PickTimerInterval ==
    ASSUME ScanInv, IntervalInv, NEW t \in Thread, PickTimer(t)
    PROVE  IntervalInv'
<1>. USE DEF ScanInv
<1>. DEFINE i == cursor[t]
            e == timer[i]
<1>1. /\ i \in DOMAIN timer /\ i \in Id /\ e \in Timer /\ ToRun(e)
      /\ timer' = [timer EXCEPT ![i] = Queried(@)]
      /\ UNCHANGED <<nextId, clock>>
      BY DEF PickTimer, TypeOK
<1>2. /\ fired[i] \in (Never .. LastTick) \X (Never .. LastTick)
      /\ fired[i][2] \in Int /\ clock \in Nat /\ clock \in Time
      /\ fired[i][2] <= clock
      /\ fired[i][2] # Never => e.last = fired[i][2]
      BY <1>1, ClockType DEF TypeOK, Never, IntervalInv, LastIsFired
<1>3. /\ DOMAIN timer' = DOMAIN timer /\ timer'[i] = Queried(e)
      /\ \A j \in DOMAIN timer \ {i} : timer'[j] = timer[j]
      /\ Queried(e).interval = e.interval
      BY <1>1, <1>2, QueriedType DEF TypeOK
<1>5. CASE e.state # "WAIT"
  <2>1. fired' = fired /\ Queried(e).last = e.last
        BY <1>1, <1>5 DEF PickTimer, ToRun, Queried, RequestTaken, Timer
  <2>2. nextId \in Int BY DEF TypeOK
  <2>. QED BY <1>1, <1>2, <1>3, <2>1, <2>2, IntervalStays
<1>6. CASE e.state = "WAIT"
  <2>1. fired' = [fired EXCEPT ![i] = <<@[2], clock>>] BY <1>6 DEF PickTimer
  <2>2. /\ fired'[i] = <<fired[i][2], clock>>
        /\ \A j \in Id \ {i} : fired'[j] = fired[j]
        BY <1>1, <2>1 DEF TypeOK
  <2>3. /\ Queried(e).last = clock
        /\ e.last + e.interval < ClockSize => e.last + e.interval < clock
        BY <1>1, <1>6, DueUnwrapped DEF ToRun, Queried, LastUpdated, Timer
  <2>4. clock # Never BY <1>2 DEF Never
  <2>5. i <= nextId /\ i \in Int /\ nextId \in Int BY <1>1, Indices DEF Numbered, TypeOK
  <2>6. LastIsFired' BY <1>1, <1>2, <1>3, <2>2, <2>3, <2>4, <2>5 DEF IntervalInv, LastIsFired
  <2>7. IntervalKeptUnwrapped'
    <3>1. fired'[i][1] # Never /\ fired'[i][1] + timer'[i].interval < ClockSize
             => fired'[i][2] - fired'[i][1] > timer'[i].interval
      <4>1. e.interval \in Nat BY <1>1, TimerAssumption DEF Timer
      <4>. QED BY <1>2, <1>3, <2>2, <2>3, <4>1
    <3>2. \A j \in DOMAIN timer : j \in Id BY DEF TypeOK
    <3>. QED BY <1>3, <2>2, <3>1, <3>2 DEF IntervalInv, IntervalKeptUnwrapped
  <2>. QED BY <2>6, <2>7 DEF IntervalInv
<1>. QED BY <1>5, <1>6

LEMMA IntervalStep == ScanInv /\ IntervalInv /\ [Next]_vars => IntervalInv'
<1>. SUFFICES ASSUME ScanInv, IntervalInv, [Next]_vars PROVE IntervalInv' OBVIOUS
<1>. USE DEF ScanInv
<1>0. clock \in Int /\ nextId \in Int BY Indices DEF TypeOK
<1>1. CASE UNCHANGED vars
  BY <1>0, <1>1, IntervalStays DEF vars
<1>2. ASSUME NEW t \in Thread, BeginPass(t) \/ NextTimer(t) \/ EndScan(t) \/ ExcuteTimer(t)
      PROVE  IntervalInv'
  <2>1. UNCHANGED <<timer, nextId, clock, fired>>
        BY <1>2 DEF BeginPass, NextTimer, EndScan, ExcuteTimer
  <2>. QED BY <1>0, <2>1, IntervalStays
<1>3. ASSUME NEW t \in Thread, EraseTimer(t) PROVE IntervalInv'
  <2>1. /\ timer' = [j \in DOMAIN timer \ {cursor[t]} |-> timer[j]]
        /\ UNCHANGED <<nextId, clock, fired>>
        BY <1>3 DEF EraseTimer, Restrict
  <2>. QED BY <1>0, <2>1, IntervalStays
<1>4. ASSUME NEW n \in Intervals, NEW c \in RunCounts, CreateTimer(n, c) PROVE IntervalInv'
  <2>1. /\ nextId < MaxTimers /\ nextId' = nextId + 1
        /\ timer' = [j \in DOMAIN timer \cup {nextId + 1} |->
                       IF j = nextId + 1
                       THEN [interval |-> n, runcount |-> c, state |-> "WAIT", last |-> 0]
                       ELSE timer[j]]
        /\ UNCHANGED <<clock, fired>>
        BY <1>4 DEF CreateTimer, InterlockedIncrement
  <2>2. nextId + 1 \in Id BY <2>1, TimerAssumption DEF TypeOK, Id
  <2>. QED BY <1>0, <2>1, <2>2, IntervalStays
<1>5. ASSUME NEW i \in Id, NEW v \in States, ChangeTimerState(i, v) PROVE IntervalInv'
  <2>1. /\ i \in DOMAIN timer
        /\ timer' = [timer EXCEPT ![i] = [@ EXCEPT !.state = v]]
        /\ UNCHANGED <<nextId, clock, fired>>
        BY <1>5 DEF ChangeTimerState
  <2>2. \A j \in DOMAIN timer' : /\ j \in DOMAIN timer
                                 /\ timer'[j].interval = timer[j].interval
                                 /\ timer'[j].last = timer[j].last
        BY <2>1 DEF TypeOK, Timer
  <2>. QED BY <1>0, <2>1, <2>2, IntervalStays
<1>6. CASE Tick
  <2>1. CASE clock' = clock + 1 /\ UNCHANGED fired
    BY <1>0, <1>6, <2>1, IntervalStays DEF Tick
  <2>2. CASE clock' = 0 /\ fired' = NothingFired
    <3>1. \A i \in Id : fired'[i] = <<Never, Never>> /\ Never <= 0
          BY <2>2 DEF NothingFired, Never
    <3>2. DOMAIN timer' \subseteq Id BY <1>6 DEF Tick, TypeOK
    <3>. QED BY <2>2, <3>1, <3>2 DEF IntervalInv, LastIsFired, IntervalKeptUnwrapped
  <2>. QED BY <1>6, <2>1, <2>2 DEF Tick
<1>. QED BY <1>1, <1>2, <1>3, <1>4, <1>5, <1>6, PickTimerInterval DEF Next, TimerThread

\* CTimer::QueryExcuteTimer: two threads never run a timer on time before its interval
\* has passed, unless the last run was so late that the sum wrapped around; the run
\* timer_wrap finds a timer that then runs again at once.
THEOREM IntervalsKept == Spec => []IntervalKeptUnwrapped
<1>1. Init => ScanInv /\ IntervalInv BY InitScan, InitInterval
<1>2. ScanInv /\ IntervalInv /\ [Next]_vars => ScanInv' /\ IntervalInv'
      BY ScanStep, IntervalStep
<1>3. IntervalInv => IntervalKeptUnwrapped BY DEF IntervalInv
<1>. QED BY <1>1, <1>2, <1>3, PTL DEF Spec
=============================================================================
