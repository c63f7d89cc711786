----------------------- MODULE HttpClientBoostProofs -----------------------
(***************************************************************************)
(* Theorems about HttpClientBoost, for any ring of two slots or more and   *)
(* any number of requests: the types, the one owner of each request, and   *)
(* that the ring implements the bounded queue of RequestQueue.             *)
(***************************************************************************)
EXTENDS HttpClientBoost, FiniteSetTheorems, SequenceTheorems, TLAPS

LEMMA SlotIsRing ==
    /\ m_ArraySize \in Nat /\ m_ArraySize > 1
    /\ Slot = 0 .. m_ArraySize - 1
    /\ NULL \notin Addr
BY RingAssumption DEF Slot

LEMMA AfterType == \A i \in Slot : After(i) \in Slot /\ After(i) # i
BY SlotIsRing DEF After

LEMMA AfterInjective == \A i, j \in Slot : After(i) = After(j) => i = j
BY SlotIsRing DEF After

(***************************************************************************)
(* The inductive invariant.                                                *)
(***************************************************************************)
\* The slots from m_PopIdx to m_PushIdx hold the requests that wait.
Between(pop, push, s) ==
    IF pop <= push THEN pop <= s /\ s < push ELSE pop <= s \/ s < push

Live(s) == Between(m_PopIdx, m_PushIdx, s)

\* The caller keeps the space that it saw, since only it takes any.
CallerInv ==
    /\ pcCaller = "idle" \/ request \in Addr
    /\ pcCaller \in {"slot", "push"} => HasSpace
    /\ pcCaller = "push" => m_pData[m_PushIdx] = request

\* The sending thread keeps the item that it saw.  The slot it reads after FreeSlot
\* is the empty one before m_PopIdx.
SenderInv ==
    /\ pData = NULL <=> pcSender \in {"off", "loop", "pop", "slot"}
    /\ pcSender = "pop" => HasItem /\ idx = m_PopIdx
    /\ pcSender = "slot" => After(idx) = m_PopIdx /\ m_pData[idx] \in Addr
    /\ \A s \in Slot : Live(s) => m_pData[s] \in Addr

TypeInv == TypeOK /\ CallerInv /\ SenderInv

CallerHas(a) == request = a /\ pcCaller \in {"space", "slot", "push"}

RingHas(a) == \E s \in Slot : Live(s) /\ m_pData[s] = a

SenderHas(a) == pData = a \/ (pcSender = "slot" /\ m_pData[idx] = a)

\* The owners of a request exclude each other, and no request is in two slots.
OwnedOnce ==
    /\ \A a \in Addr :
         /\ a \in heap \ refused <=> CallerHas(a) \/ RingHas(a) \/ SenderHas(a)
         /\ ~(CallerHas(a) /\ RingHas(a))
         /\ ~(CallerHas(a) /\ SenderHas(a))
         /\ ~(RingHas(a) /\ SenderHas(a))
    /\ \A s, u \in Slot : Live(s) /\ Live(u) /\ m_pData[s] = m_pData[u] => s = u
    /\ refused \subseteq heap

Inv == TypeInv /\ OwnedOnce

(***************************************************************************)
(* How the two indices move the slots in use.                              *)
(***************************************************************************)
LEMMA PushLive ==
    ASSUME NEW pop \in Slot, NEW push \in Slot, After(push) # pop, NEW s \in Slot
    PROVE  /\ ~Between(pop, push, push)
           /\ Between(pop, After(push), s) <=> Between(pop, push, s) \/ s = push
BY SlotIsRing DEF Between, After

LEMMA PopLive ==
    ASSUME NEW pop \in Slot, NEW push \in Slot, pop # push, NEW s \in Slot
    PROVE  /\ Between(pop, push, pop)
           /\ Between(After(pop), push, s) <=> Between(pop, push, s) /\ s # pop
BY SlotIsRing DEF Between, After

\* The slot before m_PopIdx holds no waiting request.
LEMMA FreedNotLive ==
    ASSUME NEW push \in Slot, NEW i \in Slot
    PROVE  ~Between(After(i), push, i)
BY SlotIsRing DEF Between, After

LEMMA InitInv == Init => Inv
<1>. SUFFICES ASSUME Init PROVE Inv OBVIOUS
<1>1. 0 \in Slot BY SlotIsRing
<1>2. TypeOK BY <1>1 DEF Init, TypeOK
<1>3. \A s \in Slot : ~Live(s) BY SlotIsRing DEF Init, Live, Between
<1>4. CallerInv /\ SenderInv BY <1>3 DEF Init, CallerInv, SenderInv
<1>5. OwnedOnce BY <1>3, SlotIsRing DEF Init, OwnedOnce, CallerHas, RingHas, SenderHas
<1>. QED BY <1>2, <1>4, <1>5 DEF Inv, TypeInv

(***************************************************************************)
(* The caller's steps.                                                     *)
(***************************************************************************)
LEMMA NewRequestInv == ASSUME Inv, ReqPlayerTotalCost PROVE Inv'
<1>1. PICK a \in Addr \ heap : heap' = heap \cup {a} /\ request' = a
      BY DEF ReqPlayerTotalCost
<1>2. /\ pcCaller = "idle" /\ pcCaller' = "space"
      /\ UNCHANGED <<ringVars, host, refused, senderVars>>
      BY DEF ReqPlayerTotalCost
<1>. USE DEF Inv, TypeInv, ringVars, senderVars
<1>3. TypeOK' BY <1>1, <1>2 DEF TypeOK
<1>4. CallerInv' /\ SenderInv' BY <1>1, <1>2 DEF CallerInv, SenderInv, Live, HasItem
<1>5. \A b \in Addr : /\ RingHas(b)' <=> RingHas(b)
                      /\ SenderHas(b)' <=> SenderHas(b)
                      /\ CallerHas(b)' <=> b = a
                      /\ ~CallerHas(b)
      BY <1>1, <1>2 DEF RingHas, SenderHas, CallerHas, Live
<1>6. OwnedOnce' BY <1>1, <1>2, <1>5 DEF OwnedOnce, Live
<1>. QED BY <1>3, <1>4, <1>6

LEMMA ReqDataInv == ASSUME Inv, ReqData PROVE Inv'
<1>. USE DEF Inv, TypeInv, ringVars, senderVars
<1>1. /\ pcCaller = "space" /\ request \in Addr
      /\ UNCHANGED <<ringVars, host, heap, request, senderVars>>
      BY DEF ReqData, CallerInv
<1>2. \A b \in Addr : /\ RingHas(b)' <=> RingHas(b)
                      /\ SenderHas(b)' <=> SenderHas(b)
                      /\ CallerHas(b) <=> b = request
      BY <1>1 DEF RingHas, SenderHas, CallerHas, Live
<1>3. SenderInv' BY <1>1 DEF SenderInv, Live, HasItem
<1>4. CASE HasSpace /\ pcCaller' = "slot" /\ refused' = refused
  <2>1. TypeOK' BY <1>1, <1>4 DEF TypeOK
  <2>2. CallerInv' BY <1>1, <1>4 DEF CallerInv, HasSpace
  <2>3. OwnedOnce' BY <1>1, <1>2, <1>4 DEF OwnedOnce, CallerHas, Live
  <2>. QED BY <1>3, <2>1, <2>2, <2>3
<1>5. CASE pcCaller' = "size" /\ refused' = refused \cup {request}
  <2>1. TypeOK' BY <1>1, <1>5 DEF TypeOK
  <2>2. CallerInv' BY <1>1, <1>5 DEF CallerInv
  <2>3. request \in heap \ refused BY <1>1, <1>2 DEF OwnedOnce
  <2>4. OwnedOnce' BY <1>1, <1>2, <1>5, <2>3 DEF OwnedOnce, CallerHas, Live
  <2>. QED BY <1>3, <2>1, <2>2, <2>4
<1>. QED BY <1>4, <1>5 DEF ReqData

\* The slot that is written is neither one that waits nor the one being read.
LEMMA WriteSlotApart ==
    ASSUME Inv, pcCaller = "slot"
    PROVE  /\ \A s \in Slot : Live(s) => s # m_PushIdx
           /\ pcSender = "slot" => idx # m_PushIdx
<1>1. m_PopIdx \in Slot /\ m_PushIdx \in Slot /\ idx \in Slot /\ After(m_PushIdx) # m_PopIdx
      BY DEF Inv, TypeInv, TypeOK, CallerInv, HasSpace
<1>2. \A s \in Slot : Live(s) => s # m_PushIdx BY <1>1, PushLive DEF Live
<1>3. pcSender = "slot" => idx # m_PushIdx BY <1>1 DEF Inv, TypeInv, SenderInv
<1>. QED BY <1>2, <1>3

LEMMA WriteSlotInv == ASSUME Inv, WriteSlot PROVE Inv'
<1>. USE DEF Inv, TypeInv, senderVars
<1>1. /\ pcCaller = "slot" /\ pcCaller' = "push" /\ request \in Addr
      /\ m_pData' = [m_pData EXCEPT ![m_PushIdx] = request]
      /\ UNCHANGED <<m_PushIdx, m_PopIdx, host, heap, refused, request, senderVars>>
      BY DEF WriteSlot, CallerInv
<1>2. TypeOK' BY <1>1 DEF TypeOK
<1>3. /\ \A s \in Slot : Live(s)' <=> Live(s)
      /\ \A s \in Slot : Live(s) => m_pData'[s] = m_pData[s]
      /\ pcSender = "slot" => m_pData'[idx] = m_pData[idx]
      BY <1>1, WriteSlotApart DEF Live, TypeOK
<1>4. CallerInv' BY <1>1 DEF CallerInv, HasSpace, TypeOK
<1>5. SenderInv' BY <1>1, <1>3 DEF SenderInv, HasItem
<1>6. \A b \in Addr : /\ RingHas(b)' <=> RingHas(b)
                      /\ SenderHas(b)' <=> SenderHas(b)
                      /\ CallerHas(b)' <=> CallerHas(b)
      BY <1>1, <1>3 DEF RingHas, SenderHas, CallerHas
<1>7. OwnedOnce' BY <1>1, <1>3, <1>6 DEF OwnedOnce
<1>. QED BY <1>2, <1>4, <1>5, <1>7

LEMMA AddItemInv == ASSUME Inv, AddItem PROVE Inv'
<1>. USE DEF Inv, TypeInv, senderVars
<1>1. /\ pcCaller = "push" /\ pcCaller' = "size" /\ request \in Addr
      /\ m_PushIdx' = After(m_PushIdx) /\ m_pData[m_PushIdx] = request
      /\ After(m_PushIdx) # m_PopIdx
      /\ m_PushIdx \in Slot /\ m_PopIdx \in Slot
      /\ UNCHANGED <<m_pData, m_PopIdx, host, heap, refused, request, senderVars>>
      BY DEF AddItem, CallerInv, HasSpace, TypeOK
<1>2. TypeOK' BY <1>1, AfterType DEF TypeOK
<1>3. \A s \in Slot : Live(s)' <=> Live(s) \/ s = m_PushIdx BY <1>1, PushLive DEF Live
<1>4. CallerInv' BY <1>1 DEF CallerInv
<1>5. SenderInv' BY <1>1, <1>3 DEF SenderInv, HasItem
<1>6. \A b \in Addr : /\ RingHas(b)' <=> RingHas(b) \/ b = request
                      /\ SenderHas(b)' <=> SenderHas(b)
                      /\ CallerHas(b) <=> b = request
                      /\ ~CallerHas(b)'
      BY <1>1, <1>3 DEF RingHas, SenderHas, CallerHas
<1>7. \A s \in Slot : Live(s) => m_pData[s] # request BY <1>1, <1>6 DEF OwnedOnce, RingHas
<1>8. OwnedOnce' BY <1>1, <1>3, <1>6, <1>7 DEF OwnedOnce
<1>. QED BY <1>2, <1>4, <1>5, <1>8

LEMMA RequestSizeInv == ASSUME Inv, RequestSize PROVE Inv'
<1>. USE DEF Inv, TypeInv, ringVars, senderVars
<1>1. /\ pcCaller = "size" /\ pcCaller' = "idle" /\ request' = NULL
      /\ UNCHANGED <<ringVars, host, heap, refused, senderVars>>
      BY DEF RequestSize
<1>2. TypeOK' BY <1>1 DEF TypeOK
<1>3. CallerInv' /\ SenderInv' BY <1>1 DEF CallerInv, SenderInv, Live, HasItem
<1>4. \A b \in Addr : /\ RingHas(b)' <=> RingHas(b)
                      /\ SenderHas(b)' <=> SenderHas(b)
                      /\ ~CallerHas(b) /\ ~CallerHas(b)'
      BY <1>1 DEF RingHas, SenderHas, CallerHas, Live
<1>5. OwnedOnce' BY <1>1, <1>4 DEF OwnedOnce, Live
<1>. QED BY <1>2, <1>3, <1>5

(***************************************************************************)
(* The sending thread's steps.                                             *)
(***************************************************************************)
LEMMA WaitingInv == ASSUME Inv, StartSender \/ GetItem \/ Send PROVE Inv'
<1>. USE DEF Inv, TypeInv, ringVars, callerVars
<1>1. /\ UNCHANGED <<ringVars, host, heap, refused, callerVars, pData>>
      /\ pcSender # "slot" /\ pcSender' # "slot"
      BY DEF StartSender, GetItem, Send
<1>2. TypeOK' BY <1>1 DEF TypeOK, StartSender, GetItem, Send
<1>3. CallerInv' BY <1>1 DEF CallerInv, HasSpace
<1>4. SenderInv' BY <1>1 DEF SenderInv, Live, HasItem, StartSender, GetItem, Send
<1>5. \A b \in Addr : /\ RingHas(b)' <=> RingHas(b)
                      /\ SenderHas(b)' <=> SenderHas(b)
                      /\ CallerHas(b)' <=> CallerHas(b)
      BY <1>1 DEF RingHas, SenderHas, CallerHas, Live
<1>6. OwnedOnce' BY <1>1, <1>5 DEF OwnedOnce, Live
<1>. QED BY <1>2, <1>3, <1>4, <1>6

LEMMA FreeSlotInv == ASSUME Inv, FreeSlot PROVE Inv'
<1>. USE DEF Inv, TypeInv, callerVars
<1>1. /\ pcSender = "pop" /\ pcSender' = "slot" /\ pData = NULL
      /\ m_PopIdx' = After(m_PopIdx) /\ idx = m_PopIdx /\ m_PushIdx # m_PopIdx
      /\ m_PushIdx \in Slot /\ m_PopIdx \in Slot
      /\ UNCHANGED <<m_pData, m_PushIdx, host, heap, refused, callerVars, idx, pData>>
      BY DEF FreeSlot, SenderInv, HasItem, TypeOK
<1>2. TypeOK' BY <1>1, AfterType DEF TypeOK
<1>3. Live(m_PopIdx) /\ \A s \in Slot : Live(s)' <=> Live(s) /\ s # m_PopIdx
      BY <1>1, PopLive DEF Live
<1>4. CallerInv'
  <2>1. HasSpace => HasSpace' BY <1>1, AfterInjective DEF HasSpace
  <2>. QED BY <1>1, <2>1 DEF CallerInv
<1>5. SenderInv' BY <1>1, <1>3 DEF SenderInv
<1>6. \A b \in Addr : /\ RingHas(b)' <=> RingHas(b) /\ b # m_pData[m_PopIdx]
                      /\ SenderHas(b)' <=> b = m_pData[m_PopIdx]
                      /\ CallerHas(b)' <=> CallerHas(b)
                      /\ ~SenderHas(b)
                      /\ b = m_pData[m_PopIdx] => RingHas(b)
      BY <1>1, <1>3, SlotIsRing DEF RingHas, SenderHas, CallerHas, OwnedOnce
<1>7. OwnedOnce' BY <1>1, <1>3, <1>6 DEF OwnedOnce
<1>. QED BY <1>2, <1>4, <1>5, <1>7

LEMMA ReadSlotInv == ASSUME Inv, ReadSlot PROVE Inv'
<1>. USE DEF Inv, TypeInv, ringVars, callerVars
<1>1. /\ pcSender = "slot" /\ m_pData[idx] \in Addr /\ m_pData[idx] # NULL /\ pData = NULL
      /\ pData' = m_pData[idx] /\ idx' = 0
      /\ UNCHANGED <<ringVars, host, heap, refused, callerVars>>
      BY SlotIsRing DEF ReadSlot, SenderInv
<1>2. pcSender' = "send" BY <1>1 DEF ReadSlot
<1>3. TypeOK' BY <1>1, <1>2, SlotIsRing DEF TypeOK
<1>4. CallerInv' /\ SenderInv' BY <1>1, <1>2 DEF CallerInv, HasSpace, SenderInv, Live
<1>5. \A b \in Addr : /\ RingHas(b)' <=> RingHas(b)
                      /\ SenderHas(b)' <=> SenderHas(b)
                      /\ CallerHas(b)' <=> CallerHas(b)
      BY <1>1, <1>2, SlotIsRing DEF RingHas, SenderHas, CallerHas, Live
<1>6. OwnedOnce' BY <1>1, <1>5 DEF OwnedOnce, Live
<1>. QED BY <1>3, <1>4, <1>6

LEMMA DeleteRequestInv == ASSUME Inv, DeleteRequest PROVE Inv'
<1>. USE DEF Inv, TypeInv, ringVars, callerVars
<1>1. /\ pcSender = "delete" /\ pcSender' = "loop" /\ pData' = NULL /\ pData \in Addr
      /\ heap' = heap \ {pData}
      /\ UNCHANGED <<ringVars, host, refused, callerVars, idx>>
      BY DEF DeleteRequest, Freed, SenderInv, TypeOK
<1>2. TypeOK' BY <1>1 DEF TypeOK
<1>3. CallerInv' /\ SenderInv' BY <1>1 DEF CallerInv, HasSpace, SenderInv, Live
<1>4. \A b \in Addr : /\ RingHas(b)' <=> RingHas(b)
                      /\ SenderHas(b) <=> b = pData
                      /\ ~SenderHas(b)'
                      /\ CallerHas(b)' <=> CallerHas(b)
      BY <1>1, SlotIsRing DEF RingHas, SenderHas, CallerHas, Live
<1>5. pData \in heap \ refused BY <1>1, <1>4 DEF OwnedOnce
<1>6. OwnedOnce' BY <1>1, <1>4, <1>5 DEF OwnedOnce, Live
<1>. QED BY <1>2, <1>3, <1>6

LEMMA InvStep == Inv /\ [Next]_vars => Inv'
<1>. SUFFICES ASSUME Inv, [Next]_vars PROVE Inv' OBVIOUS
<1>1. CASE UNCHANGED vars
  BY <1>1 DEF vars, ringVars, callerVars, senderVars, Inv, TypeInv, TypeOK, CallerInv, SenderInv,
     OwnedOnce, CallerHas, RingHas, SenderHas, Live, HasSpace, HasItem
<1>2. CASE Next
  BY <1>2, NewRequestInv, ReqDataInv, WriteSlotInv, AddItemInv, RequestSizeInv, WaitingInv,
     FreeSlotInv, ReadSlotInv, DeleteRequestInv DEF Next, Caller, ExecuteThread
<1>. QED BY <1>1, <1>2

\* SafeArray and HttpClientBoost: indices stay in the ring, and the callers' and the
\* thread's pointers are requests or NULL.
THEOREM TypeCorrect == Spec => []TypeOK
<1>1. Inv => TypeOK BY DEF Inv, TypeInv
<1>. QED BY InitInv, InvStep, <1>1, PTL DEF Spec

-----------------------------------------------------------------------------
(***************************************************************************)
(* The k-th request that waits is in the slot At(k).                       *)
(***************************************************************************)
LEMMA AtLive ==
    ASSUME TypeOK
    PROVE  /\ Count \in 0 .. m_ArraySize - 1
           /\ \A k \in 1 .. Count : At(k) \in Slot /\ Live(At(k))
           /\ \A s \in Slot : Live(s) => \E k \in 1 .. Count : At(k) = s
<1>1. m_PopIdx \in 0 .. m_ArraySize - 1 /\ m_PushIdx \in 0 .. m_ArraySize - 1
      BY SlotIsRing DEF TypeOK
<1>2. Count \in 0 .. m_ArraySize - 1 BY <1>1, SlotIsRing DEF Count
<1>3. \A k \in 1 .. Count : At(k) \in Slot /\ Live(At(k))
      BY <1>1, SlotIsRing DEF Count, At, Live, Between
<1>4. ASSUME NEW s \in Slot, Live(s) PROVE \E k \in 1 .. Count : At(k) = s
  <2>1. s \in 0 .. m_ArraySize - 1 BY SlotIsRing
  <2>2. CASE m_PopIdx <= s
    <3>1. s - m_PopIdx + 1 \in 1 .. Count
          BY <1>1, <1>4, <2>1, <2>2, SlotIsRing DEF Count, Live, Between
    <3>2. At(s - m_PopIdx + 1) = s BY <1>1, <2>1, <2>2, SlotIsRing DEF At
    <3>. QED BY <3>1, <3>2
  <2>3. CASE s < m_PopIdx
    <3>1. m_ArraySize - m_PopIdx + s + 1 \in 1 .. Count
          BY <1>1, <1>4, <2>1, <2>3, SlotIsRing DEF Count, Live, Between
    <3>2. At(m_ArraySize - m_PopIdx + s + 1) = s BY <1>1, <2>1, <2>3, SlotIsRing DEF At
    <3>. QED BY <3>1, <3>2
  <2>. QED BY <1>1, <2>1, <2>2, <2>3
<1>. QED BY <1>2, <1>3, <1>4

LEMMA InRingLive == ASSUME TypeOK, NEW a PROVE InRing(a) <=> RingHas(a)
BY AtLive DEF InRing, RingHas

LEMMA OwnedOnceSuffices == Inv => OneOwner
<1>. SUFFICES ASSUME Inv, NEW a \in Addr
              PROVE  Cardinality(Owners(a)) = (IF a \in heap \ refused THEN 1 ELSE 0)
  BY DEF OneOwner
<1>1. /\ "caller" \in Owners(a) <=> CallerHas(a)
      /\ "ring" \in Owners(a) <=> RingHas(a)
      /\ "sender" \in Owners(a) <=> SenderHas(a)
      /\ Owners(a) \subseteq {"caller", "ring", "sender"}
      BY InRingLive DEF Owners, CallerHas, SenderHas, Inv, TypeInv
<1>2. CASE a \in heap \ refused
  <2>1. \E o : Owners(a) = {o} BY <1>1, <1>2 DEF Inv, OwnedOnce
  <2>. QED BY <1>2, <2>1, FS_Singleton
<1>3. CASE a \notin heap \ refused
  <2>1. Owners(a) = {} BY <1>1, <1>3 DEF Inv, OwnedOnce
  <2>. QED BY <1>3, <2>1, FS_EmptySet
<1>. QED BY <1>2, <1>3

\* HttpClientBoost: a request that was allocated, and that the ring did not refuse, is
\* the caller's, the ring's or the sending thread's, and one only of theirs to delete.
THEOREM RequestsOwnedOnce == Spec => []OneOwner
BY InitInv, InvStep, OwnedOnceSuffices, PTL DEF Spec

-----------------------------------------------------------------------------
(***************************************************************************)
(* The ring implements RequestQueue.                                       *)
(***************************************************************************)
\* The refinement mapping of Queue.
Waiting == [k \in 1 .. Count |-> m_pData[At(k)]]

Taken == IF pcSender = "slot" THEN m_pData[idx] ELSE pData

LEMMA WaitingSeq ==
    ASSUME Inv
    PROVE  Waiting \in Seq(Addr) /\ Len(Waiting) = Count /\ DOMAIN Waiting = 1 .. Count
<1>1. Count \in Nat BY AtLive, SlotIsRing DEF Inv, TypeInv
<1>2. \A k \in 1 .. Count : m_pData[At(k)] \in Addr
      BY AtLive DEF Inv, TypeInv, SenderInv
<1>. QED BY <1>1, <1>2 DEF Waiting

\* A step that leaves what waits, and what the thread has, as it is.
LEMMA QueueStutters ==
    ASSUME Inv, m_PushIdx' = m_PushIdx, m_PopIdx' = m_PopIdx,
           \A s \in Slot : Live(s) => m_pData'[s] = m_pData[s]
    PROVE  Waiting' = Waiting
<1>1. Count' = Count /\ \A k : At(k)' = At(k) BY DEF Count, At
<1>2. \A k \in 1 .. Count : m_pData'[At(k)] = m_pData[At(k)]
      BY AtLive DEF Inv, TypeInv
<1>. QED BY <1>1, <1>2 DEF Waiting

LEMMA AddItemQueue ==
    ASSUME Inv, AddItem
    PROVE  Len(Waiting) < m_ArraySize - 1 /\ Waiting' = Append(Waiting, request) /\ request \in Addr
<1>. USE DEF Inv, TypeInv
<1>1. /\ request \in Addr /\ m_PushIdx' = After(m_PushIdx) /\ m_pData[m_PushIdx] = request
      /\ After(m_PushIdx) # m_PopIdx
      /\ m_pData' = m_pData /\ m_PopIdx' = m_PopIdx
      BY DEF AddItem, CallerInv, HasSpace
<1>2. m_PopIdx \in 0 .. m_ArraySize - 1 /\ m_PushIdx \in 0 .. m_ArraySize - 1
      BY SlotIsRing DEF TypeOK
<1>3. Count' = Count + 1 /\ Count < m_ArraySize - 1 /\ Count \in Nat
      BY <1>1, <1>2, SlotIsRing DEF Count, After
<1>4. \A k : At(k)' = At(k) BY <1>1 DEF At
<1>5. At(Count + 1) = m_PushIdx BY <1>2, SlotIsRing DEF At, Count
<1>6. Waiting' = [k \in 1 .. Count + 1 |-> m_pData[At(k)]]
      BY <1>1, <1>3, <1>4 DEF Waiting
<1>7. \A k \in 1 .. Count : Waiting[k] = m_pData[At(k)] BY DEF Waiting
<1>8. /\ Append(Waiting, request) \in Seq(Addr)
      /\ Len(Append(Waiting, request)) = Count + 1
      /\ \A k \in 1 .. Count : Append(Waiting, request)[k] = Waiting[k]
      /\ Append(Waiting, request)[Count + 1] = request
      BY <1>1, WaitingSeq, AppendProperties
<1>. DEFINE W == [k \in 1 .. Count + 1 |-> m_pData[At(k)]]
<1>9. \A k \in 1 .. Count + 1 : W[k] = Append(Waiting, request)[k]
      BY <1>1, <1>3, <1>5, <1>7, <1>8
<1>10. W \in Seq(Addr) /\ Len(W) = Count + 1
  <2>1. \A k \in 1 .. Count + 1 : m_pData[At(k)] \in Addr
        BY <1>1, <1>3, <1>5, AtLive DEF SenderInv
  <2>. QED BY <1>3, <2>1
<1>11. W = Append(Waiting, request)
  <2>. HIDE DEF W
  <2>. QED BY <1>8, <1>9, <1>10, SeqEqual
<1>. QED BY <1>1, <1>3, <1>6, <1>11, WaitingSeq

LEMMA FreeSlotQueue ==
    ASSUME Inv, FreeSlot
    PROVE  /\ Waiting # <<>> /\ Taken = NULL
           /\ Taken' = Head(Waiting) /\ Waiting' = Tail(Waiting)
<1>. USE DEF Inv, TypeInv
<1>1. /\ pcSender = "pop" /\ pcSender' = "slot" /\ pData = NULL
      /\ m_PopIdx' = After(m_PopIdx) /\ idx = m_PopIdx /\ idx' = idx /\ m_PushIdx # m_PopIdx
      /\ m_pData' = m_pData /\ m_PushIdx' = m_PushIdx
      BY DEF FreeSlot, SenderInv, HasItem
<1>2. m_PopIdx \in 0 .. m_ArraySize - 1 /\ m_PushIdx \in 0 .. m_ArraySize - 1
      BY SlotIsRing DEF TypeOK
<1>3. Count' = Count - 1 /\ Count \in Nat /\ Count > 0
      BY <1>1, <1>2, SlotIsRing DEF Count, After
<1>4. \A k \in 1 .. Count - 1 : At(k)' = At(k + 1)
      BY <1>1, <1>2, <1>3, SlotIsRing DEF At, After, Count
<1>5. Waiting # <<>> BY <1>3, WaitingSeq
<1>6. Head(Waiting) = m_pData[m_PopIdx]
  <2>1. At(1) = m_PopIdx BY <1>2, SlotIsRing DEF At
  <2>2. Head(Waiting) = Waiting[1] BY <1>5, WaitingSeq
  <2>. QED BY <1>3, <2>1, <2>2 DEF Waiting
<1>7. /\ Tail(Waiting) \in Seq(Addr) /\ Len(Tail(Waiting)) = Count - 1
      /\ \A k \in 1 .. Count - 1 : Tail(Waiting)[k] = Waiting[k + 1]
      BY <1>3, <1>5, WaitingSeq, HeadTailProperties
<1>8. Waiting' = [k \in 1 .. Count - 1 |-> m_pData[At(k + 1)]]
      BY <1>1, <1>3, <1>4 DEF Waiting
<1>. DEFINE W == [k \in 1 .. Count - 1 |-> m_pData[At(k + 1)]]
<1>9. \A k \in 1 .. Count - 1 : W[k] = Tail(Waiting)[k]
      BY <1>3, <1>7 DEF Waiting
<1>10. W \in Seq(Addr) /\ Len(W) = Count - 1
  <2>1. \A k \in 1 .. Count - 1 : m_pData[At(k + 1)] \in Addr
        BY <1>3, AtLive DEF SenderInv
  <2>. QED BY <1>3, <2>1
<1>11. W = Tail(Waiting)
  <2>. HIDE DEF W
  <2>. QED BY <1>7, <1>9, <1>10, SeqEqual
<1>12. Waiting' = Tail(Waiting) BY <1>8, <1>11
<1>. QED BY <1>1, <1>5, <1>6, <1>12 DEF Taken

LEMMA StepRefines ==
    ASSUME Inv, [Next]_vars
    PROVE  \/ Len(Waiting) < m_ArraySize - 1 /\ Taken' = Taken
              /\ \E r \in Addr : Waiting' = Append(Waiting, r)
           \/ Waiting # <<>> /\ Taken = NULL /\ Taken' = Head(Waiting) /\ Waiting' = Tail(Waiting)
           \/ Taken # NULL /\ Taken' = NULL /\ Waiting' = Waiting
           \/ Waiting' = Waiting /\ Taken' = Taken
<1>. USE DEF ringVars, callerVars, senderVars
<1>1. CASE UNCHANGED vars
  BY <1>1 DEF vars, Waiting, Taken, Count, At
<1>2. CASE ReqPlayerTotalCost \/ ReqData \/ RequestSize \/ StartSender
  <2>1. /\ UNCHANGED ringVars /\ idx' = idx /\ pData' = pData
        /\ pcSender' = "slot" <=> pcSender = "slot"
        BY <1>2 DEF ReqPlayerTotalCost, ReqData, RequestSize, StartSender
  <2>2. Waiting' = Waiting BY <2>1, QueueStutters
  <2>. QED BY <2>1, <2>2 DEF Taken
<1>3. CASE WriteSlot
  <2>1. /\ m_PushIdx' = m_PushIdx /\ m_PopIdx' = m_PopIdx
        /\ \A s \in Slot : s # m_PushIdx => m_pData'[s] = m_pData[s]
        /\ UNCHANGED senderVars /\ idx \in Slot
        BY <1>3 DEF WriteSlot, Inv, TypeInv, TypeOK
  <2>2. Waiting' = Waiting BY <1>3, <2>1, WriteSlotApart, QueueStutters DEF WriteSlot
  <2>3. Taken' = Taken BY <1>3, <2>1, WriteSlotApart DEF WriteSlot, Taken
  <2>. QED BY <2>2, <2>3
<1>4. CASE AddItem
  <2>1. Taken' = Taken BY <1>4 DEF AddItem, Taken
  <2>. QED BY <1>4, <2>1, AddItemQueue
<1>5. CASE GetItem \/ Send
  <2>1. UNCHANGED ringVars /\ pData' = pData /\ pcSender # "slot" /\ pcSender' # "slot"
        BY <1>5 DEF GetItem, Send
  <2>2. Waiting' = Waiting BY <2>1, QueueStutters
  <2>. QED BY <2>1, <2>2 DEF Taken
<1>6. CASE FreeSlot
  BY <1>6, FreeSlotQueue
<1>7. CASE ReadSlot
  <2>1. /\ UNCHANGED ringVars /\ pcSender = "slot" /\ pcSender' # "slot" /\ pData' = m_pData[idx]
        BY <1>7 DEF ReadSlot
  <2>2. Waiting' = Waiting BY <2>1, QueueStutters
  <2>. QED BY <2>1, <2>2 DEF Taken
<1>8. CASE DeleteRequest
  <2>1. /\ UNCHANGED ringVars /\ pcSender = "delete" /\ pcSender' = "loop"
        /\ pData # NULL /\ pData' = NULL
        BY <1>8 DEF DeleteRequest, Inv, TypeInv, SenderInv
  <2>2. Waiting' = Waiting BY <2>1, QueueStutters
  <2>. QED BY <2>1, <2>2 DEF Taken
<1>. QED BY <1>1, <1>2, <1>3, <1>4, <1>5, <1>6, <1>7, <1>8 DEF Next, Caller, ExecuteThread

\* SafeArray: the ring that neither side locks is a bounded first-in first-out queue,
\* although GetItem gives a slot free before it reads it.
THEOREM ImplementsQueue == Spec => QueueSpec
<1>1. Init => Queue!Init
  <2>. SUFFICES ASSUME Init PROVE Queue!Init OBVIOUS
  <2>1. Count = 0 BY DEF Init, Count
  <2>2. Waiting = <<>> BY <2>1 DEF Waiting
  <2>3. Taken = NULL BY DEF Init, Taken
  <2>. QED BY <2>2, <2>3 DEF Queue!Init, Waiting, Taken
<1>2. Inv /\ [Next]_vars => [Queue!Next]_Queue!vars
  <2>. SUFFICES ASSUME Inv, [Next]_vars PROVE [Queue!Next]_Queue!vars OBVIOUS
  <2>1. CASE Len(Waiting) < m_ArraySize - 1 /\ Taken' = Taken
             /\ \E r \in Addr : Waiting' = Append(Waiting, r)
    BY <2>1 DEF Queue!Next, Queue!AddItem, Waiting, Taken
  <2>2. CASE Waiting # <<>> /\ Taken = NULL /\ Taken' = Head(Waiting) /\ Waiting' = Tail(Waiting)
    BY <2>2 DEF Queue!Next, Queue!GetItem, Waiting, Taken
  <2>3. CASE Taken # NULL /\ Taken' = NULL /\ Waiting' = Waiting
    BY <2>3 DEF Queue!Next, Queue!Deleted, Waiting, Taken
  <2>4. CASE Waiting' = Waiting /\ Taken' = Taken
    BY <2>4 DEF Queue!vars, Waiting, Taken
  <2>. QED BY <2>1, <2>2, <2>3, <2>4, StepRefines
<1>. QED BY <1>1, <1>2, InitInv, InvStep, PTL DEF Spec, QueueSpec, Queue!Spec
=============================================================================
