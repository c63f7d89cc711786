-------------------------- MODULE HttpClientBoost --------------------------
(***************************************************************************)
(* The HTTP client (P1/HttpClientBoost.cpp): a caller puts requests into   *)
(* the ring of SafeArray.h, and the thread that Init starts takes them out *)
(* and sends each over a connection of its own.  Neither side locks: the   *)
(* caller writes m_PushIdx and the sending thread m_PopIdx, both volatile, *)
(* and one action is one access to them or to a slot.                      *)
(***************************************************************************)
EXTENDS Naturals, FiniteSets

CONSTANTS
    Addr,          \* bound: the addresses new returns for a request
    nSize,         \* the size asked of the ring
    MIN_SIZE,      \* the smallest ring (SafeArray.h:22)
    NULL           \* no request, and the contents of a slot nothing was written to

-----------------------------------------------------------------------------
(***************************************************************************)
(* SafeArray: a size that is not a power of two is replaced by the one     *)
(* with as many bits as it has.                                            *)
(***************************************************************************)
Bits[n \in Nat] == IF n = 0 THEN 0 ELSE 1 + Bits[n \div 2]

PowerOfTwo(n) == \E k \in 0 .. Bits[n] : n = 2 ^ k

Rounded(n) == IF n = 0 \/ PowerOfTwo(n) THEN n ELSE 2 ^ Bits[n]

ArraySizeFor(n) == IF Rounded(n) > MIN_SIZE THEN Rounded(n) ELSE MIN_SIZE

m_ArraySize == ArraySizeFor(nSize)

Slot == 0 .. m_ArraySize - 1

ASSUME RingAssumption ==
    /\ m_ArraySize \in Nat \ {0, 1}
    /\ IsFiniteSet(Addr)
    /\ NULL \notin Addr

VARIABLES
    m_pData,       \* the slots
    m_PushIdx,     \* written by the caller
    m_PopIdx,      \* written by the sending thread
    host,          \* whether from_string can parse the address given to Init
    heap,          \* the requests that were allocated and not deleted
    refused,       \* the requests ReqData did not take (history, for the properties)
    pcCaller,      \* where the caller is in ReqPlayerTotalCost
    request,       \* the caller's request
    pcSender,      \* where the sending thread is in ExecuteThread
    idx,           \* the sending thread's idx of GetItem
    pData          \* the sending thread's request

ringVars == <<m_pData, m_PushIdx, m_PopIdx>>
callerVars == <<pcCaller, request>>
senderVars == <<pcSender, idx, pData>>
vars == <<ringVars, host, heap, refused, callerVars, senderVars>>

\* The type invariant.
TypeOK ==
    /\ m_pData \in [Slot -> Addr \cup {NULL}]
    /\ m_PushIdx \in Slot
    /\ m_PopIdx \in Slot
    /\ host \in {"parses", "fails"}
    /\ heap \subseteq Addr
    /\ refused \subseteq Addr
    /\ pcCaller \in {"idle", "space", "slot", "push", "size"}
    /\ request \in Addr \cup {NULL}
    /\ pcSender \in {"off", "loop", "pop", "slot", "send", "delete", "ended"}
    /\ idx \in Slot
    /\ pData \in Addr \cup {NULL}

Init ==
    /\ m_pData = [i \in Slot |-> NULL]
    /\ m_PushIdx = 0
    /\ m_PopIdx = 0
    /\ host \in {"parses", "fails"}
    /\ heap = {}
    /\ refused = {}
    /\ pcCaller = "idle"
    /\ request = NULL
    /\ pcSender = "off"
    /\ idx = 0
    /\ pData = NULL

\* An index that is not masked.
Unmasked(i) == i + 1

\* (i + 1) & m_ArraySizeInv, for a size that is a power of two.
After(i) == IF i + 1 = m_ArraySize THEN 0 ELSE i + 1

\* A test that forgets that the indices wrap around.
PushAhead == m_PushIdx > m_PopIdx

HasItem == m_PushIdx # m_PopIdx

\* A ring that fills its last slot too.
NoSlotKept == TRUE

\* One slot stays empty.
HasSpace == After(m_PushIdx) # m_PopIdx

-----------------------------------------------------------------------------
(***************************************************************************)
(* The caller: ReqPlayerTotalCost and ReqData.                             *)
(***************************************************************************)
ReqPlayerTotalCost ==
    /\ pcCaller = "idle"
    /\ \E a \in Addr \ heap :
          /\ heap' = heap \cup {a}
          /\ request' = a
    /\ pcCaller' = "space"
    /\ UNCHANGED <<ringVars, host, refused, senderVars>>

\* A request the ring has no space for is not deleted by anyone.
ReqData ==
    /\ pcCaller = "space"
    /\ \/ /\ HasSpace
          /\ pcCaller' = "slot"
          /\ UNCHANGED refused
       \/ /\ ~HasSpace
          /\ pcCaller' = "size"
          /\ refused' = refused \cup {request}
    /\ UNCHANGED <<ringVars, host, heap, request, senderVars>>

WriteSlot ==
    /\ pcCaller = "slot"
    /\ m_pData' = [m_pData EXCEPT ![m_PushIdx] = request]
    /\ pcCaller' = "push"
    /\ UNCHANGED <<m_PushIdx, m_PopIdx, host, heap, refused, request, senderVars>>

AddItem ==
    /\ pcCaller = "push"
    /\ m_PushIdx' = After(m_PushIdx)
    /\ pcCaller' = "size"
    /\ UNCHANGED <<m_pData, m_PopIdx, host, heap, refused, request, senderVars>>

\* request->size() is printed; the request may be gone.
RequestSize ==
    /\ pcCaller = "size"
    /\ pcCaller' = "idle"
    /\ request' = NULL
    /\ UNCHANGED <<ringVars, host, heap, refused, senderVars>>

-----------------------------------------------------------------------------
(***************************************************************************)
(* The sending thread.                                                     *)
(***************************************************************************)
StartSender ==
    /\ pcSender = "off"
    /\ pcSender' = "loop"
    /\ UNCHANGED <<ringVars, host, heap, refused, callerVars, idx, pData>>

\* HasItem is asked by the loop and again by GetItem: only this thread could
\* make the second answer differ.  Without an item the thread sleeps.
GetItem ==
    /\ pcSender = "loop"
    /\ HasItem
    /\ idx' = m_PopIdx
    /\ pcSender' = "pop"
    /\ UNCHANGED <<ringVars, host, heap, refused, callerVars, pData>>

\* The slot is given free before it is read.
FreeSlot ==
    /\ pcSender = "pop"
    /\ m_PopIdx' = After(m_PopIdx)
    /\ pcSender' = "slot"
    /\ UNCHANGED <<m_pData, m_PushIdx, host, heap, refused, callerVars, idx, pData>>

ReadSlot ==
    /\ pcSender = "slot"
    /\ pData' = m_pData[idx]
    /\ idx' = 0
    /\ pcSender' = IF pData' # NULL THEN "send" ELSE "loop"
    /\ UNCHANGED <<ringVars, host, heap, refused, callerVars>>

\* An address that does not parse ends the thread, which then still has the
\* request.  A connection that fails, a write that fails or is short are reported
\* and change nothing else.
Send ==
    /\ pcSender = "send"
    /\ pcSender' = IF host = "parses" THEN "delete" ELSE "ended"
    /\ UNCHANGED <<ringVars, host, heap, refused, callerVars, idx, pData>>

\* A request that is sent and forgotten.
NothingFreed == {}

Freed == {pData}

\* What close throws after the delete is caught.
DeleteRequest ==
    /\ pcSender = "delete"
    /\ heap' = heap \ Freed
    /\ pData' = NULL
    /\ pcSender' = "loop"
    /\ UNCHANGED <<ringVars, host, refused, callerVars, idx>>

-----------------------------------------------------------------------------
Caller == ReqPlayerTotalCost \/ ReqData \/ WriteSlot \/ AddItem \/ RequestSize

ExecuteThread == GetItem \/ FreeSlot \/ ReadSlot \/ Send \/ DeleteRequest

Next == Caller \/ StartSender \/ ExecuteThread

Spec == Init /\ [][Next]_vars

\* The sending thread and a caller inside ReqPlayerTotalCost are scheduled.
Fairness ==
    /\ WF_vars(ExecuteThread)
    /\ WF_vars(ReqData \/ WriteSlot \/ AddItem \/ RequestSize)

FairSpec == Spec /\ Fairness

-----------------------------------------------------------------------------
(***************************************************************************)
(* Properties.                                                             *)
(***************************************************************************)
Count == IF m_PushIdx >= m_PopIdx THEN m_PushIdx - m_PopIdx
                                  ELSE m_ArraySize + m_PushIdx - m_PopIdx

\* The slot of the k-th request that waits.
At(k) == IF m_PopIdx + k - 1 < m_ArraySize THEN m_PopIdx + k - 1
                                           ELSE m_PopIdx + k - 1 - m_ArraySize

\* Between FreeSlot and ReadSlot the request is already the thread's.
Queue == INSTANCE RequestQueue WITH
    Request  <- Addr,
    Capacity <- m_ArraySize - 1,
    queue    <- [k \in 1 .. Count |-> m_pData[At(k)]],
    taken    <- IF pcSender = "slot" THEN m_pData[idx] ELSE pData

\* The ring is a bounded queue, although GetItem gives a slot free before it
\* reads it: the empty slot keeps the caller off the one being read.
QueueSpec == Queue!Spec

InRing(a) == \E k \in 1 .. Count : m_pData[At(k)] = a

\* Who has a to delete it: the caller before the push, the ring, the thread.
Owners(a) ==
    {o \in {"caller", "ring", "sender"} :
        \/ o = "caller" /\ request = a /\ pcCaller \in {"space", "slot", "push"}
        \/ o = "ring" /\ InRing(a)
        \/ o = "sender" /\ (pData = a \/ (pcSender = "slot" /\ m_pData[idx] = a))}

\* A request is deleted by one side only and none is forgotten, except those the
\* full ring refused: ReqPlayerTotalCost ignores what ReqData returns.
OneOwner ==
    \A a \in Addr : Cardinality(Owners(a)) = (IF a \in heap \ refused THEN 1 ELSE 0)

\* A request in the ring reaches the sending thread, whatever happens to the
\* connections of the ones before it, unless an address that does not parse has
\* ended the thread.
RequestsLeave ==
    \A a \in Addr :
        InRing(a) /\ pcSender # "off" ~> pcSender = "ended" \/ pData = a
=============================================================================
