-------------------------- MODULE RWAutoLockProofs --------------------------
(***************************************************************************)
(* Theorems about RWAutoLock, for every finite set of threads.  Exclusion  *)
(* is not inductive by itself: a reader gets in because it saw no writer   *)
(* announced, and a writer because it saw no reader announced, so the      *)
(* invariant says in addition what the two counters count and who owns the *)
(* critical section (CountsAgree).                                         *)
(***************************************************************************)
EXTENDS RWAutoLock, FiniteSetTheorems, TLAPS

Inv == TypeOK /\ CountsAgree /\ Exclusion

\* Any set of threads is finite.
LEMMA FiniteThreads == \A S \in SUBSET Thread : IsFiniteSet(S)
BY ThreadAssumption, FS_Subset

LEMMA ReadersWriters == Readers \in SUBSET Thread /\ Writers \in SUBSET Thread
BY DEF Readers, Writers

\* A thread that joins a set of threads adds one to its cardinality.
LEMMA Joins ==
    ASSUME NEW S \in SUBSET Thread, NEW t \in Thread, t \notin S
    PROVE  Cardinality(S \cup {t}) = Cardinality(S) + 1
BY FiniteThreads, FS_AddElement

\* A thread that leaves a set of threads takes one from its cardinality, which
\* was not zero.
LEMMA Leaves ==
    ASSUME NEW S \in SUBSET Thread, NEW t \in S
    PROVE  /\ Cardinality(S \ {t}) = Cardinality(S) - 1
           /\ Cardinality(S) \in Nat \ {0}
<1>1. IsFiniteSet(S) BY FiniteThreads
<1>2. Cardinality(S \ {t}) = Cardinality(S) - 1 BY <1>1, FS_RemoveElement
<1>3. Cardinality(S) \in Nat BY <1>1, FS_CardinalityType
<1>4. Cardinality(S) # 0 BY <1>1, FS_EmptySet
<1>. QED BY <1>2, <1>3, <1>4

LEMMA InitInv == Init => Inv
<1>. SUFFICES ASSUME Init PROVE Inv OBVIOUS
<1>1. TypeOK BY DEF Init, TypeOK
<1>2. Readers = {} /\ Writers = {} BY DEF Init, Readers, Writers, WriterPc
<1>3. CountsAgree BY <1>2, FS_EmptySet DEF Init, CountsAgree
<1>4. Exclusion BY DEF Init, Exclusion
<1>. QED BY <1>1, <1>3, <1>4 DEF Inv

-----------------------------------------------------------------------------
\* ReadLock's first two steps and its call: only ReadCount touches a counter.
LEMMA CallReadLockInv ==
    ASSUME Inv, NEW t \in Thread, CallReadLock(t) \/ ReadTest(t)
    PROVE  Inv'
<1>. USE DEF CallReadLock, ReadTest, Goto, Inv
<1>1. TypeOK' BY DEF TypeOK, ReaderPc
<1>2. Readers' = Readers /\ Writers' = Writers
      BY DEF Readers, Writers, TypeOK, WriterPc
<1>3. CountsAgree' BY <1>2 DEF CountsAgree, TypeOK
<1>4. Exclusion' BY DEF Exclusion, TypeOK
<1>. QED BY <1>1, <1>3, <1>4

LEMMA ReadCountInv ==
    ASSUME Inv, NEW t \in Thread, ReadCount(t)
    PROVE  Inv'
<1>. USE DEF ReadCount, Counted, Goto, Inv
<1>1. TypeOK' BY DEF TypeOK, ReaderPc
<1>2. Writers' = Writers /\ Readers' = Readers \cup {t} /\ t \notin Readers
      BY DEF Readers, Writers, TypeOK, WriterPc
<1>3. Cardinality(Readers') = Cardinality(Readers) + 1
      BY <1>2, Joins, ReadersWriters
<1>4. CountsAgree' BY <1>2, <1>3 DEF CountsAgree
<1>5. Exclusion' BY DEF Exclusion
<1>. QED BY <1>1, <1>4, <1>5

\* The reader gets in only when no writer is announced: then none is writing.
LEMMA ReadTestAgainInv ==
    ASSUME Inv, NEW t \in Thread, ReadTestAgain(t)
    PROVE  Inv'
<1>. USE DEF ReadTestAgain, WriterThere, Goto, Inv
<1>1. TypeOK' BY DEF TypeOK, ReaderPc
<1>2. Writers' = Writers /\ Readers' = Readers
      BY DEF Readers, Writers, WriterPc
<1>3. CountsAgree' BY <1>2 DEF CountsAgree
<1>4. ASSUME _WriteRefCount # 0 PROVE Exclusion'
  <2>1. pc' = [pc EXCEPT ![t] = "readStepBack"] BY <1>4
  <2>2. \A u \in Thread \ {t} : pc'[u] = pc[u] BY <2>1
  <2>3. pc'[t] = "readStepBack" BY <2>1 DEF TypeOK
  <2>. QED BY <2>2, <2>3 DEF Exclusion
<1>5. ASSUME _WriteRefCount = 0 PROVE Exclusion'
  <2>1. Writers = {}
        BY <1>5, Leaves, ReadersWriters DEF CountsAgree
  <2>2. \A u \in Thread : pc[u] # "writing" BY <2>1 DEF Writers, WriterPc
  <2>3. pc' = [pc EXCEPT ![t] = "reading"] BY <1>5
  <2>4. \A u \in Thread \ {t} : pc'[u] # "writing" BY <2>2, <2>3
  <2>5. pc'[t] = "reading" BY <2>3 DEF TypeOK
  <2>. QED BY <2>4, <2>5 DEF Exclusion
<1>. QED BY <1>1, <1>3, <1>4, <1>5

\* A counted reader leaves: after a conflict with a writer, or after reading.
LEMMA ReaderLeavesInv ==
    ASSUME Inv, NEW t \in Thread, ReadStepBack(t) \/ ReadUnLock(t)
    PROVE  Inv'
<1>. USE DEF ReadStepBack, Uncounted, ReadUnLock, Goto, Inv
<1>1. Writers' = Writers /\ Readers' = Readers \ {t} /\ t \in Readers
      BY DEF Readers, Writers, TypeOK, WriterPc
<1>2. Cardinality(Readers') = Cardinality(Readers) - 1 /\ _ReadRefCount \in Nat \ {0}
      BY <1>1, Leaves, ReadersWriters DEF CountsAgree
<1>3. TypeOK' BY <1>2 DEF TypeOK, ReaderPc
<1>4. CountsAgree' BY <1>1, <1>2 DEF CountsAgree, TypeOK
<1>5. Exclusion' BY DEF Exclusion, TypeOK
<1>. QED BY <1>3, <1>4, <1>5

-----------------------------------------------------------------------------
LEMMA CallWriteLockInv ==
    ASSUME Inv, NEW t \in Thread, CallWriteLock(t)
    PROVE  Inv'
<1>. USE DEF CallWriteLock, Goto, Inv
<1>1. TypeOK' BY DEF TypeOK, WriterPc
<1>2. Readers' = Readers /\ Writers' = Writers \cup {t} /\ t \notin Writers
      BY DEF Readers, Writers, TypeOK, WriterPc
<1>3. Cardinality(Writers') = Cardinality(Writers) + 1
      BY <1>2, Joins, ReadersWriters
<1>4. CountsAgree' BY <1>2, <1>3 DEF CountsAgree
<1>5. Exclusion' BY DEF Exclusion
<1>. QED BY <1>1, <1>4, <1>5

\* The critical section was free, so no other writer waits or writes in it.
LEMMA EnterCriticalSectionInv ==
    ASSUME Inv, NEW t \in Thread, EnterCriticalSection(t)
    PROVE  Inv'
<1>. USE DEF EnterCriticalSection, Goto, Inv
<1>1. TypeOK' BY DEF TypeOK, WriterPc
<1>2. Readers' = Readers /\ Writers' = Writers
      BY DEF Readers, Writers, WriterPc
<1>3. CountsAgree' BY <1>2, ThreadAssumption DEF CountsAgree
<1>4. Exclusion' BY DEF Exclusion
<1>. QED BY <1>1, <1>3, <1>4

\* The writer gets in only when no reader is counted: then none is reading.
LEMMA WaitForReadersInv ==
    ASSUME Inv, NEW t \in Thread, WaitForReaders(t)
    PROVE  Inv'
<1>. USE DEF WaitForReaders, Goto, Inv
<1>1. TypeOK' BY DEF TypeOK, WriterPc
<1>2. Readers' = Readers /\ Writers' = Writers
      BY DEF Readers, Writers, WriterPc
<1>3. CountsAgree' BY <1>2 DEF CountsAgree, TypeOK
<1>4. Readers = {}
      BY Leaves, ReadersWriters DEF CountsAgree
<1>5. \A u \in Thread : pc[u] # "reading" BY <1>4 DEF Readers
<1>6. \A u \in Thread : pc[u] = "writing" => u = t BY DEF CountsAgree
<1>7. Exclusion' BY <1>5, <1>6 DEF Exclusion
<1>. QED BY <1>1, <1>3, <1>7

LEMMA LeaveCriticalSectionInv ==
    ASSUME Inv, NEW t \in Thread, LeaveCriticalSection(t)
    PROVE  Inv'
<1>. USE DEF LeaveCriticalSection, Goto, Inv
<1>1. TypeOK' BY DEF TypeOK, WriterPc
<1>2. Readers' = Readers /\ Writers' = Writers
      BY DEF Readers, Writers, WriterPc
<1>3. \A u \in Thread \ {t} : pc[u] \notin {"writeWait", "writing"}
      BY DEF CountsAgree
<1>4. CountsAgree' BY <1>2, <1>3 DEF CountsAgree, TypeOK
<1>5. Exclusion' BY DEF Exclusion
<1>. QED BY <1>1, <1>4, <1>5

LEMMA WriteUnlockInv ==
    ASSUME Inv, NEW t \in Thread, WriteUnlock(t)
    PROVE  Inv'
<1>. USE DEF WriteUnlock, Goto, Inv
<1>1. Readers' = Readers /\ Writers' = Writers \ {t} /\ t \in Writers
      BY DEF Readers, Writers, TypeOK, WriterPc
<1>2. Cardinality(Writers') = Cardinality(Writers) - 1 /\ _WriteRefCount \in Nat \ {0}
      BY <1>1, Leaves, ReadersWriters DEF CountsAgree
<1>3. TypeOK' BY <1>2 DEF TypeOK
<1>4. CountsAgree' BY <1>1, <1>2 DEF CountsAgree
<1>5. Exclusion' BY DEF Exclusion
<1>. QED BY <1>3, <1>4, <1>5

-----------------------------------------------------------------------------
LEMMA NextInv == Inv /\ [Next]_vars => Inv'
<1>. SUFFICES ASSUME Inv, [Next]_vars PROVE Inv' OBVIOUS
<1>1. CASE UNCHANGED vars
  BY <1>1 DEF vars, Inv, TypeOK, CountsAgree, Exclusion, Readers, Writers
<1>2. ASSUME NEW t \in Thread, CallReadLock(t) \/ CallWriteLock(t) PROVE Inv'
  BY <1>2, CallReadLockInv, CallWriteLockInv
<1>3. ASSUME NEW t \in Thread, ReadLockStep(t) PROVE Inv'
  BY <1>3, CallReadLockInv, ReadCountInv, ReadTestAgainInv, ReaderLeavesInv
  DEF ReadLockStep
<1>4. ASSUME NEW t \in Thread, WriteLockStep(t) PROVE Inv'
  BY <1>4, EnterCriticalSectionInv, WaitForReadersInv DEF WriteLockStep
<1>5. ASSUME NEW t \in Thread, Unlock(t) PROVE Inv'
  BY <1>5, ReaderLeavesInv, LeaveCriticalSectionInv, WriteUnlockInv DEF Unlock
<1>. QED BY <1>1, <1>2, <1>3, <1>4, <1>5 DEF Next

THEOREM Invariance == Spec => []Inv
BY InitInv, NextInv, PTL DEF Spec

\* ReadLock and WriteLock exclude each other: while a thread is between
\* WriteLock and WriteUnlock, no other one reads or writes.
THEOREM MutualExclusion == Spec => []Exclusion
<1>1. Inv => Exclusion BY DEF Inv
<1>. QED BY <1>1, Invariance, PTL

\* The two counters never go below zero, and the locals stay in their range.
THEOREM TypeCorrect == Spec => []TypeOK
<1>1. Inv => TypeOK BY DEF Inv
<1>. QED BY <1>1, Invariance, PTL
=============================================================================
