----------------------------- MODULE RWAutoLock -----------------------------
(***************************************************************************)
(* The reader-writer lock of CommonLib (RWAutoLock.cpp): two interlocked   *)
(* counters and a critical section among the writers.  One action per      *)
(* access to shared memory.  A writer announces itself before it waits;    *)
(* a reader that sees it after announcing itself steps back.               *)
(***************************************************************************)
EXTENDS Naturals, FiniteSets

CONSTANTS
    Thread,    \* the threads that use the lock
    NoThread   \* _cs is free

ASSUME ThreadAssumption == IsFiniteSet(Thread) /\ NoThread \notin Thread

VARIABLES
    _ReadRefCount,
    _WriteRefCount,
    _cs,         \* the thread inside the critical section
    pc           \* of a thread: what it does next, in ReadLock or WriteLock or between

vars == <<_ReadRefCount, _WriteRefCount, _cs, pc>>

ReaderPc == {"readTest", "readCount", "readTestAgain", "readStepBack", "reading"}
WriterPc == {"writeEnter", "writeWait", "writing", "writeLeft"}

\* The type invariant.
TypeOK ==
    /\ _ReadRefCount \in Nat
    /\ _WriteRefCount \in Nat
    /\ _cs \in Thread \cup {NoThread}
    /\ pc \in [Thread -> {"outside"} \cup ReaderPc \cup WriterPc]

Init ==
    /\ _ReadRefCount = 0
    /\ _WriteRefCount = 0
    /\ _cs = NoThread
    /\ pc = [t \in Thread |-> "outside"]

Goto(t, from, to) == pc[t] = from /\ pc' = [pc EXCEPT ![t] = to]

-----------------------------------------------------------------------------
(***************************************************************************)
(* ReadLock and ReadUnLock.                                                *)
(***************************************************************************)
CallReadLock(t) ==
    /\ Goto(t, "outside", "readTest")
    /\ UNCHANGED <<_ReadRefCount, _WriteRefCount, _cs>>

\* Otherwise Sleep(0), and the test again.
ReadTest(t) ==
    /\ _WriteRefCount = 0
    /\ Goto(t, "readTest", "readCount")
    /\ UNCHANGED <<_ReadRefCount, _WriteRefCount, _cs>>

NotCounted == _ReadRefCount
Counted == _ReadRefCount + 1

ReadCount(t) ==
    /\ Goto(t, "readCount", "readTestAgain")
    /\ _ReadRefCount' = Counted
    /\ UNCHANGED <<_WriteRefCount, _cs>>

WriterIgnored == FALSE
WriterThere == _WriteRefCount # 0

ReadTestAgain(t) ==
    /\ Goto(t, "readTestAgain", IF WriterThere THEN "readStepBack" ELSE "reading")
    /\ UNCHANGED <<_ReadRefCount, _WriteRefCount, _cs>>

StillCounted == _ReadRefCount
Uncounted == _ReadRefCount - 1

ReadStepBack(t) ==
    /\ Goto(t, "readStepBack", "readTest")
    /\ _ReadRefCount' = Uncounted
    /\ UNCHANGED <<_WriteRefCount, _cs>>

ReadUnLock(t) ==
    /\ Goto(t, "reading", "outside")
    /\ _ReadRefCount' = _ReadRefCount - 1
    /\ UNCHANGED <<_WriteRefCount, _cs>>

(***************************************************************************)
(* WriteLock and WriteUnlock.                                              *)
(***************************************************************************)
CallWriteLock(t) ==
    /\ Goto(t, "outside", "writeEnter")
    /\ _WriteRefCount' = _WriteRefCount + 1
    /\ UNCHANGED <<_ReadRefCount, _cs>>

EnterCriticalSection(t) ==
    /\ _cs = NoThread
    /\ Goto(t, "writeEnter", "writeWait")
    /\ _cs' = t
    /\ UNCHANGED <<_ReadRefCount, _WriteRefCount>>

\* Otherwise Sleep(0), and the test again.
WaitForReaders(t) ==
    /\ _ReadRefCount = 0
    /\ Goto(t, "writeWait", "writing")
    /\ UNCHANGED <<_ReadRefCount, _WriteRefCount, _cs>>

LeaveCriticalSection(t) ==
    /\ Goto(t, "writing", "writeLeft")
    /\ _cs' = NoThread
    /\ UNCHANGED <<_ReadRefCount, _WriteRefCount>>

WriteUnlock(t) ==
    /\ Goto(t, "writeLeft", "outside")
    /\ _WriteRefCount' = _WriteRefCount - 1
    /\ UNCHANGED <<_ReadRefCount, _cs>>

-----------------------------------------------------------------------------
ReadLockStep(t) ==
    ReadTest(t) \/ ReadCount(t) \/ ReadTestAgain(t) \/ ReadStepBack(t)

WriteLockStep(t) == EnterCriticalSection(t) \/ WaitForReaders(t)

Unlock(t) == ReadUnLock(t) \/ LeaveCriticalSection(t) \/ WriteUnlock(t)

Next ==
    \E t \in Thread : \/ CallReadLock(t)
                      \/ CallWriteLock(t)
                      \/ ReadLockStep(t)
                      \/ WriteLockStep(t)
                      \/ Unlock(t)

Spec == Init /\ [][Next]_vars

\* A thread inside ReadLock, WriteLock or an unlock goes on, and every lock is
\* given back.
Fairness ==
    \A t \in Thread :
        /\ WF_vars(ReadLockStep(t))
        /\ WF_vars(WriteLockStep(t))
        /\ WF_vars(Unlock(t))

FairSpec == Spec /\ Fairness

-----------------------------------------------------------------------------
(***************************************************************************)
(* Properties.                                                             *)
(***************************************************************************)

\* A writer is alone: nobody reads or writes with it.
Exclusion ==
    \A t, u \in Thread :
        pc[t] = "writing" /\ u # t => pc[u] \notin {"reading", "writing"}

\* The threads each counter counts.
Readers == {t \in Thread : pc[t] \in {"readTestAgain", "readStepBack", "reading"}}
Writers == {t \in Thread : pc[t] \in WriterPc}

\* The writers own the critical section one at a time, and each counter is the
\* number of the threads that announced themselves and have not yet left.
CountsAgree ==
    /\ _ReadRefCount = Cardinality(Readers)
    /\ _WriteRefCount = Cardinality(Writers)
    /\ \A t \in Thread : pc[t] \in {"writeWait", "writing"} => _cs = t

\* Readers that come and go cannot keep the writers out: whenever a writer
\* waits, some writer gets in.  (Which one, and that a reader ever does, the
\* lock does not promise.)
WritersGetIn ==
    (\E t \in Thread : pc[t] \in {"writeEnter", "writeWait"})
        ~> (\E t \in Thread : pc[t] = "writing")
=============================================================================
