----------------------------- MODULE IOService -----------------------------
(***************************************************************************)
(* The IOCP_Test prototype: IO_Service, whose workers wait at a completion *)
(* port and which shutDown ends; its ThreadPool, whose tasks are packets   *)
(* that a worker posts again after each call; and the receives of its      *)
(* UdpServer, which complete at the same port.                             *)
(***************************************************************************)
EXTENDS Naturals, Sequences, FiniteSets, SequencesExt, Functions

CONSTANTS
    Workers,       \* the threads of IoServiceExecuteThread (two more than processors)
    StateBits,     \* the bits of threadState, a DWORD
    MaxTasks,      \* bound: the tasks registered
    Receive,       \* the OVERLAPPEDs UdpServer receives with
    MaxShutDown,   \* bound: the shutdown packets at the port (shutDown posts one every 10 ms)
    NULL           \* no packet

ASSUME ServiceAssumption ==
    /\ Workers \in Nat
    /\ StateBits \in Nat \ {0}
    /\ MaxTasks \in Nat
    /\ MaxShutDown \in Nat \ {0}

Worker == 0 .. Workers - 1    \* threadId
Task   == 1 .. MaxTasks
Copy   == 1 .. Workers

\* 1 << i, as a shift of x86 and x64 does it: beyond 32 workers two share a bit.
Bit(i) == i % StateBits

Packet ==
    [kind : {"shutdown"}] \cup [kind : {"pool"}, task : Task, copy : Copy]
       \cup [kind : {"recv", "failed"}, ov : Receive]

\* The NULL pointer points to no packet.
ASSUME NullAssumption == NULL \notin Packet

PoolPacket(i, n) == [kind |-> "pool", task |-> i, copy |-> n]

VARIABLES
    port,          \* the packets at the completion port, first in first out
    threadState,   \* the bits that are set
    pc,            \* of a worker: where it is in its loop
    packet,        \* of a worker: the packet it got
    seen,          \* of a worker: threadState as it loaded it
    lost,          \* a store wrote back a bit another worker had cleared (history)
    shutting,      \* shutDown: not called, posting, joining (the packet is deleted), returned
    threadTasks,   \* of a registered task: which of its OVERLAPPEDs are not NULL
    taskState,     \* the OVERLAPPEDs that are allocated, with their taskState
    registering,   \* registerThread: the task's id and copies, and the copies made
    unposted,      \* the copies for which a postIocpTask failed (history)
    nextTask,      \* threadTaskId + 1
    receiving,     \* the receives that are pending in Winsock
    crashed        \* unRegisterThread went through a NULL pointer

workerVars == <<pc, packet, seen, lost>>
poolVars == <<threadTasks, taskState, registering, unposted, nextTask>>
vars == <<port, threadState, workerVars, shutting, poolVars, receiving, crashed>>

TypeOK ==
    /\ port \in Seq(Packet)
    /\ threadState \subseteq 0 .. StateBits - 1
    /\ pc \in [Worker -> {"wait", "got", "clear", "post", "erase", "ended"}]
    /\ packet \in [Worker -> Packet \cup {NULL}]
    /\ seen \in [Worker -> SUBSET (0 .. StateBits - 1)]
    /\ lost \in BOOLEAN
    /\ shutting \in {"no", "posting", "joining", "returned"}
    /\ DOMAIN threadTasks \subseteq Task
    /\ \A i \in DOMAIN threadTasks : \E c \in Copy : threadTasks[i] \in [1 .. c -> BOOLEAN]
    /\ DOMAIN taskState \subseteq Task \X Copy
    /\ taskState \in [DOMAIN taskState -> {0, 1}]
    /\ registering \in [task : Task, copies : Copy, posted : Nat] \cup {NULL}
    /\ unposted \subseteq Task \X Copy
    /\ nextTask \in 1 .. MaxTasks + 1
    /\ receiving \subseteq Receive
    /\ crashed \in BOOLEAN

\* After initService and UdpServer::initServer.
Init ==
    /\ port = <<>>
    /\ threadState = {Bit(w) : w \in Worker}
    /\ pc = [w \in Worker |-> "wait"]
    /\ packet = [w \in Worker |-> NULL]
    /\ seen = [w \in Worker |-> {}]
    /\ lost = FALSE
    /\ shutting = "no"
    /\ threadTasks = [i \in {} |-> <<>>]
    /\ taskState = [o \in {} |-> 0]
    /\ registering = NULL
    /\ unposted = {}
    /\ nextTask = 1
    /\ receiving = Receive
    /\ crashed = FALSE

Goto(w, l) == pc' = [pc EXCEPT ![w] = l]

\* Back to GetQueuedCompletionStatus.
NextPacket(w) ==
    /\ Goto(w, "wait")
    /\ packet' = [packet EXCEPT ![w] = NULL]
    /\ UNCHANGED <<seen, lost>>

-----------------------------------------------------------------------------
(***************************************************************************)
(* IoServiceExecuteThread.                                                 *)
(***************************************************************************)
\* A failed completion is logged and dropped, with the receive it was about.
GetQueuedCompletionStatus(w) ==
    /\ pc[w] = "wait"
    /\ port # <<>>
    /\ port' = Tail(port)
    /\ IF Head(port).kind = "failed"
       THEN UNCHANGED <<pc, packet>>
       ELSE Goto(w, "got") /\ packet' = [packet EXCEPT ![w] = Head(port)]
    /\ UNCHANGED <<threadState, seen, lost, shutting, poolVars, receiving, crashed>>

Got(w, kind) == pc[w] = "got" /\ packet[w].kind = kind

\* (*threadState) &= ... is a load and a store that another worker's may come
\* between.
LoadThreadState(w) ==
    /\ Got(w, "shutdown")
    /\ seen' = [seen EXCEPT ![w] = threadState]
    /\ Goto(w, "clear")
    /\ UNCHANGED <<port, threadState, packet, lost, shutting, poolVars, receiving, crashed>>

\* A worker that clears nothing, and one that clears every bit.
NoneCleared(w) == seen[w]
AllCleared(w) == {}

Cleared(w) == seen[w] \ {Bit(w)}

StoreThreadState(w) ==
    /\ pc[w] = "clear"
    /\ threadState' = Cleared(w)
    /\ lost' = (lost \/ threadState # seen[w])
    /\ seen' = [seen EXCEPT ![w] = {}]
    /\ packet' = [packet EXCEPT ![w] = NULL]
    /\ Goto(w, "ended")
    /\ UNCHANGED <<port, shutting, poolVars, receiving, crashed>>

-----------------------------------------------------------------------------
(***************************************************************************)
(* ThreadPool::callBackFunction.                                           *)
(***************************************************************************)
\* The task's function returns, and taskState is read outside of the mutex.
CallTask(w) ==
    /\ Got(w, "pool")
    /\ Goto(w, IF taskState[<<packet[w].task, packet[w].copy>>] = 0 THEN "erase" ELSE "post")
    /\ UNCHANGED <<port, threadState, packet, seen, lost, shutting, poolVars, receiving, crashed>>

\* postIocpTask, which may fail: it returns false, and its callers do not look.
postIocpTask(i, n) ==
    \/ /\ shutting # "returned"
       /\ port' = Append(port, PoolPacket(i, n))
       /\ UNCHANGED unposted
    \/ /\ unposted' = unposted \cup {<<i, n>>}
       /\ UNCHANGED port

PostAgain(w) ==
    /\ pc[w] = "post"
    /\ postIocpTask(packet[w].task, packet[w].copy)
    /\ NextPacket(w)
    /\ UNCHANGED <<threadState, shutting, threadTasks, taskState, registering, nextTask,
                   receiving, crashed>>

\* All copies of a task, deleted by the first that finds it unregistered.
EveryCopy(i, n) == {i} \X DOMAIN threadTasks[i]

OwnCopy(i, n) == {<<i, n>>}

\* A count that includes the copy just deleted.
LeftBefore(i, n) == {m \in DOMAIN threadTasks[i] : threadTasks[i][m]}

Left(i, n) == {m \in DOMAIN threadTasks[i] : threadTasks[i][m]} \ {n}

\* Under the mutex: the copy is deleted, and the task erased with its last one.
EraseCopy(w) ==
    LET i == packet[w].task
        n == packet[w].copy
    IN  /\ pc[w] = "erase"
        /\ \/ /\ i \in DOMAIN threadTasks
              /\ taskState' = Restrict(taskState, DOMAIN taskState \ OwnCopy(i, n))
              /\ threadTasks' =
                    IF Left(i, n) = {}
                    THEN Restrict(threadTasks, DOMAIN threadTasks \ {i})
                    ELSE [threadTasks EXCEPT ![i][n] = FALSE]
           \/ /\ i \notin DOMAIN threadTasks
              /\ UNCHANGED <<taskState, threadTasks>>
        /\ NextPacket(w)
        /\ UNCHANGED <<port, threadState, shutting, registering, unposted, nextTask, receiving,
                       crashed>>

\* UdpServer::callBackFunction: the receive is posted again, and what WSARecvFrom
\* returns is not looked at.
ReceiveAgain(w) ==
    /\ Got(w, "recv")
    /\ receiving' \in {receiving, receiving \cup {packet[w].ov}}
    /\ NextPacket(w)
    /\ UNCHANGED <<port, threadState, shutting, poolVars, crashed>>

IoServiceExecuteThread(w) ==
    \/ GetQueuedCompletionStatus(w)
    \/ LoadThreadState(w)
    \/ StoreThreadState(w)
    \/ CallTask(w)
    \/ PostAgain(w)
    \/ EraseCopy(w)
    \/ ReceiveAgain(w)

-----------------------------------------------------------------------------
(***************************************************************************)
(* ThreadPool::registerThread and unRegisterThread.                        *)
(***************************************************************************)
\* bound: not once shutDown was called.
RegisterThread ==
    /\ shutting = "no"
    /\ registering = NULL
    /\ nextTask \in Task
    /\ \E c \in Copy : registering' = [task |-> nextTask, copies |-> c, posted |-> 0]
    /\ nextTask' = nextTask + 1
    /\ UNCHANGED <<port, threadState, workerVars, shutting, threadTasks, taskState, unposted,
                   receiving, crashed>>

\* Copies counted from zero.
CountedFromZero == registering.posted

NextCopy == registering.posted + 1

PostCopy ==
    /\ registering # NULL
    /\ registering.posted < registering.copies
    /\ LET n == NextCopy
       IN  /\ registering' = [registering EXCEPT !.posted = n]
           /\ taskState' = [o \in DOMAIN taskState \cup {<<registering.task, n>>} |->
                              IF o \in DOMAIN taskState THEN taskState[o] ELSE 1]
           /\ postIocpTask(registering.task, n)
    /\ UNCHANGED <<threadState, workerVars, shutting, threadTasks, nextTask, receiving, crashed>>

\* Only now does unRegisterThread find the task, with the copies made, whether they
\* were posted or not: those that were may have run.
Registered ==
    /\ registering # NULL
    /\ registering.posted = registering.copies
    /\ threadTasks' = [i \in DOMAIN threadTasks \cup {registering.task} |->
                         IF i \in DOMAIN threadTasks THEN threadTasks[i]
                         ELSE [n \in 1 .. registering.copies |-> TRUE]]
    /\ registering' = NULL
    /\ UNCHANGED <<port, threadState, workerVars, shutting, taskState, unposted, nextTask,
                   receiving, crashed>>

\* Called again before the task is erased it finds a NULL pointer in the vector.
UnRegisterThread(i) ==
    /\ i \in DOMAIN threadTasks
    /\ IF \A n \in DOMAIN threadTasks[i] : threadTasks[i][n]
       THEN /\ taskState' = [o \in DOMAIN taskState |-> IF o[1] = i THEN 0 ELSE taskState[o]]
            /\ UNCHANGED crashed
       ELSE /\ crashed' = TRUE
            /\ UNCHANGED taskState
    /\ UNCHANGED <<port, threadState, workerVars, shutting, threadTasks, registering, unposted,
                   nextTask, receiving>>

(***************************************************************************)
(* IO_Service::shutDown, which posts one OVERLAPPED again and again.       *)
(***************************************************************************)
CallShutDown ==
    /\ shutting = "no"
    /\ shutting' = "posting"
    /\ UNCHANGED <<port, threadState, workerVars, poolVars, receiving, crashed>>

ShutDownPackets == Cardinality({j \in DOMAIN port : port[j].kind = "shutdown"})

\* A post that fails is logged, and tried again: a step that changes nothing.
PostShutDown ==
    /\ shutting = "posting"
    /\ threadState # {}
    /\ ShutDownPackets < MaxShutDown
    /\ port' = Append(port, [kind |-> "shutdown"])
    /\ UNCHANGED <<threadState, workerVars, shutting, poolVars, receiving, crashed>>

DeletePacket ==
    /\ shutting = "posting"
    /\ threadState = {}
    /\ shutting' = "joining"
    /\ UNCHANGED <<port, threadState, workerVars, poolVars, receiving, crashed>>

JoinThreads ==
    /\ shutting = "joining"
    /\ \A w \in Worker : pc[w] = "ended"
    /\ shutting' = "returned"
    /\ port' = <<>>
    /\ UNCHANGED <<threadState, workerVars, poolVars, receiving, crashed>>

ShutDown == CallShutDown \/ PostShutDown \/ DeletePacket \/ JoinThreads

\* Winsock: a datagram arrives, or the receive fails.
ReceiveEnds ==
    \E u \in receiving, k \in {"recv", "failed"} :
        /\ shutting # "returned"
        /\ receiving' = receiving \ {u}
        /\ port' = Append(port, [kind |-> k, ov |-> u])
        /\ UNCHANGED <<threadState, workerVars, shutting, poolVars, crashed>>

-----------------------------------------------------------------------------
Next ==
    /\ ~crashed
    /\ \/ \E w \in Worker : IoServiceExecuteThread(w)
       \/ RegisterThread
       \/ PostCopy
       \/ Registered
       \/ \E i \in Task : UnRegisterThread(i)
       \/ ShutDown
       \/ ReceiveEnds

Spec == Init /\ [][Next]_vars

\* The workers are scheduled and the tasks' functions return; shutDown, once
\* called, goes on, and its posts do not fail for ever.
Fairness ==
    /\ \A w \in Worker : WF_vars(~crashed /\ IoServiceExecuteThread(w))
    /\ WF_vars(~crashed /\ (PostShutDown \/ DeletePacket \/ JoinThreads))

FairSpec == Spec /\ Fairness

-----------------------------------------------------------------------------
(***************************************************************************)
(* Properties.                                                             *)
(***************************************************************************)

\* shutDown deletes its OVERLAPPED while copies of it may wait at the port and a
\* worker may just have got one.  The worker's own bit keeps it alive: no store,
\* stale as it may be, clears the bit of another.
PacketOutlivesUse ==
    \A w \in Worker :
        /\ pc[w] # "ended" => Bit(w) \in threadState
        /\ Got(w, "shutdown") => shutting = "posting"

\* Where a copy of a pool task is.
AtPort(i, n)   == {j \in DOMAIN port : port[j] = PoolPacket(i, n)}
AtWorker(i, n) == {w \in Worker : packet[w] = PoolPacket(i, n)}

\* A copy is at the port or with one worker, never twice, and is deleted by the
\* worker that has it: none is used after it was deleted.  Until the port is closed
\* only a post that failed loses one, and that one is nowhere.
CopyInOnePlace ==
    \A i \in Task, n \in Copy :
        LET places == Cardinality(AtPort(i, n)) + Cardinality(AtWorker(i, n))
        IN  IF <<i, n>> \in DOMAIN taskState
            THEN \/ places = IF <<i, n>> \in unposted THEN 0 ELSE 1
                 \/ places = 0 /\ shutting = "returned"
            ELSE places = 0

\* shutDown returns, unless two workers that ended together restored a bit of each
\* other's: then it posts for ever.
ShutDownReturns ==
    shutting = "posting" ~> shutting = "returned" \/ lost \/ crashed

\* Every copy of an unregistered task finds out, on whichever worker, and the last
\* one erases the task, unless a copy was lost to a post that failed.
UnRegisteredTasksErased ==
    \A i \in Task :
        (/\ i \in DOMAIN threadTasks
         /\ \E n \in Copy : <<i, n>> \in DOMAIN taskState /\ taskState[<<i, n>>] = 0)
            ~> \/ i \notin DOMAIN threadTasks
               \/ \E n \in Copy : <<i, n>> \in unposted
               \/ shutting # "no" \/ crashed
=============================================================================
