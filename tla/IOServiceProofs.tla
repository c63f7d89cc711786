-------------------------- MODULE IOServiceProofs --------------------------
(***************************************************************************)
(* Theorems about the IOCP_Test prototype, for every number of tasks and   *)
(* receives: its types, that shutDown never deletes its OVERLAPPED under   *)
(* one of up to StateBits workers, and that a copy of a task is in one     *)
(* place unless a post failed.                                             *)
(***************************************************************************)
EXTENDS IOService, FiniteSetTheorems, SequenceTheorems, TLAPS

\* A worker that has a packet has one of the kind the place it is at is for.
HoldsPacket ==
    \A w \in Worker :
        /\ pc[w] = "got" => packet[w] \in Packet
        /\ pc[w] \in {"post", "erase"} =>
              \E i \in Task, n \in Copy : packet[w] = PoolPacket(i, n)

TypeInv == TypeOK /\ HoldsPacket

LEMMA CopiesAreNumbers == Workers \in Nat /\ Copy \subseteq Nat \ {0}
BY ServiceAssumption DEF Copy

LEMMA BitType ==
    ASSUME NEW w \in Worker
    PROVE  /\ Bit(w) \in 0 .. StateBits - 1
           /\ Workers <= StateBits => Bit(w) = w
<1>1. w \in Nat /\ w < Workers /\ Workers \in Nat /\ StateBits \in Nat \ {0}
      BY ServiceAssumption DEF Worker
<1>2. w % StateBits \in 0 .. StateBits - 1 BY <1>1
<1>3. ASSUME Workers <= StateBits PROVE w % StateBits = w
  <2>1. w \in 0 .. StateBits - 1 BY <1>1, <1>3
  <2>. QED BY <1>1, <2>1
<1>. QED BY <1>2, <1>3 DEF Bit

LEMMA InitType == Init => TypeInv
<1>. SUFFICES ASSUME Init PROVE TypeInv OBVIOUS
<1>1. 1 \in 1 .. MaxTasks + 1 BY ServiceAssumption
<1>2. port \in Seq(Packet) BY DEF Init
<1>3. {Bit(w) : w \in Worker} \subseteq 0 .. StateBits - 1 BY BitType
<1>5. TypeOK BY <1>1, <1>2, <1>3 DEF Init, TypeOK, Packet
<1>4. HoldsPacket BY DEF Init, HoldsPacket
<1>. QED BY <1>4, <1>5 DEF TypeInv

LEMMA KindOfPacket ==
    ASSUME NEW p \in Packet
    PROVE  /\ p.kind = "pool" => \E i \in Task, n \in Copy : p = PoolPacket(i, n)
           /\ p.kind \in {"recv", "failed"} => p.ov \in Receive
<1>1. ASSUME p.kind = "pool" PROVE \E i \in Task, n \in Copy : p = PoolPacket(i, n)
  <2>1. p \in [kind : {"pool"}, task : Task, copy : Copy] BY <1>1 DEF Packet
  <2>2. p = [kind |-> "pool", task |-> p.task, copy |-> p.copy] BY <2>1
  <2>. QED BY <2>1, <2>2 DEF PoolPacket
<1>2. ASSUME p.kind \in {"recv", "failed"} PROVE p.ov \in Receive
  BY <1>2 DEF Packet
<1>. QED BY <1>1, <1>2

LEMMA PostedPacket ==
    ASSUME TypeInv, NEW w \in Worker, pc[w] \in {"post", "erase"}
    PROVE  packet[w] \in Packet /\ packet[w].kind = "pool"
<1>1. PICK i \in Task, n \in Copy : packet[w] = PoolPacket(i, n) BY DEF TypeInv, HoldsPacket
<1>2. PoolPacket(i, n) \in [kind : {"pool"}, task : Task, copy : Copy] BY DEF PoolPacket
<1>. QED BY <1>1, <1>2 DEF PoolPacket, Packet

LEMMA PostType ==
    ASSUME TypeOK, NEW i \in Task, NEW n \in Copy, postIocpTask(i, n)
    PROVE  port' \in Seq(Packet) /\ unposted' \subseteq Task \X Copy
<1>1. PoolPacket(i, n) \in Packet BY DEF PoolPacket, Packet
<1>2. Append(port, PoolPacket(i, n)) \in Seq(Packet) BY <1>1, AppendProperties DEF TypeOK
<1>3. /\ port' = Append(port, PoolPacket(i, n)) \/ port' = port
      /\ unposted' = unposted \/ unposted' = unposted \cup {<<i, n>>}
      BY DEF postIocpTask
<1>4. port \in Seq(Packet) /\ unposted \subseteq Task \X Copy BY DEF TypeOK
<1>5. port' \in Seq(Packet) BY <1>2, <1>3, <1>4
<1>6. unposted' \subseteq Task \X Copy BY <1>3, <1>4
<1>. QED BY <1>5, <1>6

LEMMA WorkerType ==
    ASSUME TypeInv, NEW w \in Worker, IoServiceExecuteThread(w)
    PROVE  TypeInv'
<1>1. CASE GetQueuedCompletionStatus(w)
  <2>1. Head(port) \in Packet /\ Tail(port) \in Seq(Packet)
        BY <1>1, HeadTailProperties DEF TypeInv, TypeOK, GetQueuedCompletionStatus
  <2>2. TypeOK' BY <1>1, <2>1 DEF TypeInv, TypeOK, GetQueuedCompletionStatus, Goto, poolVars
  <2>3. HoldsPacket' BY <1>1, <2>1 DEF TypeInv, TypeOK, HoldsPacket, GetQueuedCompletionStatus, Goto
  <2>. QED BY <2>2, <2>3 DEF TypeInv
<1>2. CASE LoadThreadState(w)
  BY <1>2 DEF TypeInv, TypeOK, HoldsPacket, LoadThreadState, Goto, poolVars
<1>3. CASE StoreThreadState(w)
  BY <1>3 DEF TypeInv, TypeOK, HoldsPacket, StoreThreadState, Cleared, Goto, poolVars
<1>4. CASE CallTask(w)
  <2>1. \E i \in Task, n \in Copy : packet[w] = PoolPacket(i, n)
        BY <1>4, KindOfPacket DEF TypeInv, HoldsPacket, CallTask, Got
  <2>2. TypeOK' BY <1>4 DEF TypeInv, TypeOK, CallTask, Goto, poolVars
  <2>3. HoldsPacket' BY <1>4, <2>1 DEF TypeInv, TypeOK, HoldsPacket, CallTask, Goto
  <2>. QED BY <2>2, <2>3 DEF TypeInv
<1>5. CASE PostAgain(w)
  <2>1. PICK i \in Task, n \in Copy : packet[w] = PoolPacket(i, n)
        BY <1>5 DEF PostAgain, TypeInv, HoldsPacket
  <2>2. packet[w].task = i /\ packet[w].copy = n BY <2>1 DEF PoolPacket
  <2>3. TypeOK'
    <3>1. port' \in Seq(Packet) /\ unposted' \subseteq Task \X Copy
          BY <1>5, <2>2, PostType DEF PostAgain, TypeInv
    <3>. QED BY <1>5, <3>1 DEF TypeInv, TypeOK, PostAgain, NextPacket, Goto
  <2>4. HoldsPacket' BY <1>5 DEF TypeInv, TypeOK, HoldsPacket, PostAgain, NextPacket, Goto
  <2>. QED BY <2>3, <2>4 DEF TypeInv
<1>6. CASE EraseCopy(w)
  <2>1. TypeOK'
    <3>1. taskState' \in [DOMAIN taskState' -> {0, 1}] /\ DOMAIN taskState' \subseteq Task \X Copy
          BY <1>6 DEF TypeInv, TypeOK, EraseCopy, Restrict
    <3>2. DOMAIN threadTasks' \subseteq Task
          BY <1>6 DEF TypeInv, TypeOK, EraseCopy, Restrict
    <3>3. ASSUME NEW i \in DOMAIN threadTasks'
          PROVE  \E c \in Copy : threadTasks'[i] \in [1 .. c -> BOOLEAN]
      <4>1. i \in DOMAIN threadTasks BY <1>6, <3>3 DEF EraseCopy, Restrict
      <4>2. PICK c \in Copy : threadTasks[i] \in [1 .. c -> BOOLEAN]
            BY <4>1 DEF TypeInv, TypeOK
      <4>3. CASE threadTasks' = threadTasks BY <4>2, <4>3
      <4>4. CASE threadTasks' = Restrict(threadTasks, DOMAIN threadTasks \ {packet[w].task})
            BY <3>3, <4>2, <4>4 DEF Restrict
      <4>5. CASE threadTasks' = [threadTasks EXCEPT ![packet[w].task][packet[w].copy] = FALSE]
        <5>1. CASE i # packet[w].task
          BY <3>3, <4>1, <4>2, <4>5, <5>1
        <5>2. CASE i = packet[w].task
          <6>1. threadTasks'[i] = [threadTasks[i] EXCEPT ![packet[w].copy] = FALSE]
                BY <4>1, <4>5, <5>2
          <6>. QED BY <4>2, <6>1
        <5>. QED BY <5>1, <5>2
      <4>. QED BY <1>6, <4>3, <4>4, <4>5 DEF EraseCopy
    <3>. QED BY <1>6, <3>1, <3>2, <3>3 DEF TypeInv, TypeOK, EraseCopy, NextPacket, Goto
  <2>2. HoldsPacket' BY <1>6 DEF TypeInv, TypeOK, HoldsPacket, EraseCopy, NextPacket, Goto
  <2>. QED BY <2>1, <2>2 DEF TypeInv
<1>7. CASE ReceiveAgain(w)
  <2>1. packet[w].ov \in Receive BY <1>7, KindOfPacket DEF TypeInv, HoldsPacket, ReceiveAgain, Got
  <2>2. TypeOK' BY <1>7, <2>1 DEF TypeInv, TypeOK, ReceiveAgain, NextPacket, Goto, poolVars
  <2>3. HoldsPacket' BY <1>7 DEF TypeInv, TypeOK, HoldsPacket, ReceiveAgain, NextPacket, Goto
  <2>. QED BY <2>2, <2>3 DEF TypeInv
<1>. QED BY <1>1, <1>2, <1>3, <1>4, <1>5, <1>6, <1>7 DEF IoServiceExecuteThread

LEMMA PostCopyType == TypeInv /\ PostCopy => TypeInv'
<1>. SUFFICES ASSUME TypeInv, PostCopy PROVE TypeInv' OBVIOUS
<1>. DEFINE n == NextCopy
            i == registering.task
<1>1. i \in Task /\ n \in Copy /\ n \in Nat
      BY CopiesAreNumbers DEF TypeInv, TypeOK, PostCopy, NextCopy, Copy
<1>3. port' \in Seq(Packet) /\ unposted' \subseteq Task \X Copy
      BY <1>1, PostType DEF PostCopy, TypeInv
<1>4. /\ DOMAIN taskState' \subseteq Task \X Copy
      /\ taskState' \in [DOMAIN taskState' -> {0, 1}]
      BY <1>1 DEF PostCopy, TypeInv, TypeOK
<1>5. registering' \in [task : Task, copies : Copy, posted : Nat] \cup {NULL}
      BY <1>1 DEF PostCopy, TypeInv, TypeOK
<1>6. TypeOK' BY <1>3, <1>4, <1>5 DEF PostCopy, TypeInv, TypeOK, workerVars
<1>7. HoldsPacket' BY DEF PostCopy, TypeInv, HoldsPacket, workerVars
<1>. QED BY <1>6, <1>7 DEF TypeInv

LEMMA RegisterType ==
    ASSUME TypeInv, RegisterThread \/ Registered \/ \E i \in Task : UnRegisterThread(i)
    PROVE  TypeInv'
<1>1. CASE RegisterThread
  <2>1. nextTask' \in 1 .. MaxTasks + 1
        BY <1>1, ServiceAssumption DEF RegisterThread, TypeInv, TypeOK, Task
  <2>2. registering' \in [task : Task, copies : Copy, posted : Nat] BY <1>1 DEF RegisterThread
  <2>. QED BY <1>1, <2>1, <2>2 DEF RegisterThread, TypeInv, TypeOK, HoldsPacket, workerVars
<1>2. CASE Registered
  <2>1. registering.task \in Task /\ registering.copies \in Copy
        BY <1>2 DEF Registered, TypeInv, TypeOK
  <2>2. /\ DOMAIN threadTasks' \subseteq Task
        /\ \A i \in DOMAIN threadTasks' : \E c \in Copy : threadTasks'[i] \in [1 .. c -> BOOLEAN]
        BY <1>2, <2>1 DEF Registered, TypeInv, TypeOK
  <2>3. TypeOK' BY <1>2, <2>2 DEF Registered, TypeInv, TypeOK, workerVars
  <2>. QED BY <1>2, <2>3 DEF Registered, TypeInv, HoldsPacket, workerVars
<1>3. ASSUME NEW i \in Task, UnRegisterThread(i) PROVE TypeInv'
  BY <1>3 DEF UnRegisterThread, TypeInv, TypeOK, HoldsPacket, workerVars
<1>. QED BY <1>1, <1>2, <1>3

LEMMA EnvironmentType ==
    ASSUME TypeInv, ShutDown \/ ReceiveEnds
    PROVE  TypeInv'
<1>1. CASE PostShutDown
  <2>1. [kind |-> "shutdown"] \in Packet BY DEF Packet
  <2>2. port' \in Seq(Packet) BY <1>1, <2>1, AppendProperties DEF PostShutDown, TypeInv, TypeOK
  <2>. QED BY <1>1, <2>2 DEF PostShutDown, TypeInv, TypeOK, HoldsPacket, workerVars, poolVars
<1>2. CASE CallShutDown \/ DeletePacket
  BY <1>2 DEF CallShutDown, DeletePacket, TypeInv, TypeOK, HoldsPacket, workerVars, poolVars
<1>3. CASE JoinThreads
  <2>1. port' \in Seq(Packet) BY <1>3 DEF JoinThreads
  <2>. QED BY <1>3, <2>1 DEF JoinThreads, TypeInv, TypeOK, HoldsPacket, workerVars, poolVars
<1>4. CASE ReceiveEnds
  <2>1. PICK u \in receiving, k \in {"recv", "failed"} :
            /\ port' = Append(port, [kind |-> k, ov |-> u])
            /\ receiving' = receiving \ {u}
        BY <1>4 DEF ReceiveEnds
  <2>2. [kind |-> k, ov |-> u] \in Packet BY DEF Packet, TypeInv, TypeOK
  <2>3. port' \in Seq(Packet) BY <2>1, <2>2, AppendProperties DEF TypeInv, TypeOK
  <2>. QED BY <1>4, <2>1, <2>3 DEF ReceiveEnds, TypeInv, TypeOK, HoldsPacket, workerVars, poolVars
<1>. QED BY <1>1, <1>2, <1>3, <1>4 DEF ShutDown

LEMMA NextType == TypeInv /\ [Next]_vars => TypeInv'
<1>. SUFFICES ASSUME TypeInv, [Next]_vars PROVE TypeInv' OBVIOUS
<1>1. CASE UNCHANGED vars
  BY <1>1 DEF vars, workerVars, poolVars, TypeInv, TypeOK, HoldsPacket
<1>. QED BY <1>1, WorkerType, PostCopyType, RegisterType, EnvironmentType DEF Next

\* The types of the prototype's state, and that a task's packet names a task and a
\* copy of it (registerThread, ThreadPool.cpp:13).
THEOREM TypeCorrect == Spec => []TypeOK
<1>1. TypeInv => TypeOK BY DEF TypeInv
<1>. QED BY <1>1, InitType, NextType, PTL DEF Spec

-----------------------------------------------------------------------------
(***************************************************************************)
(* PacketOutlivesUse.  A worker's own bit is set until its own store; what *)
(* another one loaded before holds it too, so that no stale store clears   *)
(* it.  Before shutDown posts, no shutdown packet is about; and once it    *)
(* has seen no bit set, every worker has ended.                            *)
(***************************************************************************)
Running == {w \in Worker : pc[w] # "ended"}

\* A stale copy has the bits of all that run.
LoadedBits == \A w \in Worker : pc[w] = "clear" => Running \subseteq seen[w]

PostedByShutDown ==
    shutting = "no" =>
        /\ \A j \in DOMAIN port : port[j].kind # "shutdown"
        /\ \A w \in Worker : ~Got(w, "shutdown")

EndedBeforeJoin == shutting \in {"joining", "returned"} => Running = {}

BitsInv ==
    /\ Running \subseteq threadState
    /\ LoadedBits
    /\ PostedByShutDown
    /\ EndedBeforeJoin

Inv == TypeInv /\ BitsInv

LEMMA InitBits == Workers <= StateBits /\ Init => BitsInv
BY BitType DEF Init, BitsInv, Running, LoadedBits, PostedByShutDown, EndedBeforeJoin, Got

\* A step that lets no worker end, leaves the bits and what was loaded alone, and
\* brings no shutdown packet about.
LEMMA BitsUndisturbed ==
    ASSUME BitsInv, threadState' = threadState, seen' = seen, shutting' = shutting,
           Running' = Running,
           \A w \in Worker : pc'[w] = "clear" => pc[w] = "clear",
           PostedByShutDown'
    PROVE  BitsInv'
BY DEF BitsInv, LoadedBits, EndedBeforeJoin

LEMMA ElementsOfAppend ==
    ASSUME NEW S, NEW s \in Seq(S), NEW e \in S, NEW j \in DOMAIN Append(s, e)
    PROVE  Append(s, e)[j] = e \/ (j \in DOMAIN s /\ Append(s, e)[j] = s[j])
<1>1. Len(s) \in Nat /\ DOMAIN s = 1 .. Len(s) BY LenProperties
<1>2. DOMAIN Append(s, e) = 1 .. Len(s) + 1 BY AppendProperties, LenProperties
<1>3. CASE j = Len(s) + 1 BY <1>3, AppendProperties
<1>4. CASE j \in 1 .. Len(s) BY <1>1, <1>4, AppendProperties
<1>. QED BY <1>1, <1>2, <1>3, <1>4

LEMMA ElementsOfTail ==
    ASSUME NEW S, NEW s \in Seq(S), s # <<>>
    PROVE  /\ 1 \in DOMAIN s /\ Head(s) = s[1]
           /\ \A j \in DOMAIN Tail(s) : j + 1 \in DOMAIN s /\ Tail(s)[j] = s[j + 1]
<1>1. Len(s) \in Nat \ {0} /\ DOMAIN s = 1 .. Len(s) BY LenProperties, EmptySeq
<1>2. DOMAIN Tail(s) = 1 .. Len(s) - 1 BY HeadTailProperties, LenProperties
<1>3. \A j \in 1 .. Len(s) - 1 : Tail(s)[j] = s[j + 1] BY HeadTailProperties
<1>. QED BY <1>1, <1>2, <1>3

\* postIocpTask posts a packet of the pool, or none.
LEMMA PostedKind ==
    ASSUME TypeInv, NEW w \in Worker, pc[w] \in {"post", "erase"},
           postIocpTask(packet[w].task, packet[w].copy), NEW j \in DOMAIN port'
    PROVE  port'[j].kind = "pool" \/ (j \in DOMAIN port /\ port'[j] = port[j])
<1>1. PICK i \in Task, n \in Copy : packet[w] = PoolPacket(i, n) BY DEF TypeInv, HoldsPacket
<1>2. /\ packet[w].task = i /\ packet[w].copy = n
      /\ PoolPacket(i, n) \in Packet /\ PoolPacket(i, n).kind = "pool"
      BY <1>1 DEF PoolPacket, Packet
<1>. QED BY <1>2, ElementsOfAppend DEF postIocpTask, TypeInv, TypeOK

LEMMA WorkerBits ==
    ASSUME Workers <= StateBits, Inv, NEW w \in Worker, IoServiceExecuteThread(w)
    PROVE  BitsInv'
<1>. pc \in [Worker -> {"wait", "got", "clear", "post", "erase", "ended"}]
     BY DEF Inv, TypeInv, TypeOK
<1>1. CASE GetQueuedCompletionStatus(w)
  <2>1. /\ Head(port) = port[1] /\ 1 \in DOMAIN port
        /\ \A j \in DOMAIN Tail(port) : j + 1 \in DOMAIN port /\ Tail(port)[j] = port[j + 1]
        BY <1>1, ElementsOfTail DEF GetQueuedCompletionStatus, Inv, TypeInv, TypeOK
  <2>2. PostedByShutDown'
    <3>. SUFFICES ASSUME shutting = "no"
                  PROVE  /\ \A j \in DOMAIN port' : port'[j].kind # "shutdown"
                         /\ \A v \in Worker : ~Got(v, "shutdown")'
         BY <1>1 DEF GetQueuedCompletionStatus, PostedByShutDown
    <3>1. /\ \A j \in DOMAIN port : port[j].kind # "shutdown"
          /\ \A v \in Worker : ~Got(v, "shutdown")
          BY DEF Inv, BitsInv, PostedByShutDown
    <3>2. \A j \in DOMAIN port' : port'[j].kind # "shutdown"
          BY <1>1, <2>1, <3>1 DEF GetQueuedCompletionStatus
    <3>3. Head(port).kind # "shutdown" BY <2>1, <3>1
    <3>4. ASSUME NEW v \in Worker PROVE ~Got(v, "shutdown")'
      <4>1. packet \in [Worker -> Packet \cup {NULL}] BY DEF Inv, TypeInv, TypeOK
      <4>2. CASE UNCHANGED <<pc, packet>> BY <3>1, <4>2 DEF Got
      <4>3. CASE Goto(w, "got") /\ packet' = [packet EXCEPT ![w] = Head(port)]
        BY <3>1, <3>3, <4>1, <4>3 DEF Goto, Got
      <4>. QED BY <1>1, <4>2, <4>3 DEF GetQueuedCompletionStatus
    <3>. QED BY <3>2, <3>4
  <2>3. Running' = Running /\ \A v \in Worker : pc'[v] = "clear" => pc[v] = "clear"
        BY <1>1 DEF GetQueuedCompletionStatus, Goto, Running
  <2>. QED BY <1>1, <2>2, <2>3, BitsUndisturbed DEF GetQueuedCompletionStatus, Inv
<1>2. CASE LoadThreadState(w)
  <2>1. Running' = Running BY <1>2 DEF LoadThreadState, Got, Goto, Running
  <2>. QED BY <1>2, <2>1 DEF LoadThreadState, Got, Goto, Inv, TypeInv, TypeOK, BitsInv,
           LoadedBits, PostedByShutDown, EndedBeforeJoin
<1>3. CASE StoreThreadState(w)
  <2>1. Running' = Running \ {w} BY <1>3 DEF StoreThreadState, Goto, Running
  <2>2. Running \subseteq seen[w] BY <1>3 DEF StoreThreadState, Inv, BitsInv, LoadedBits
  <2>3. Running' \subseteq threadState' BY <1>3, <2>1, <2>2, BitType DEF StoreThreadState, Cleared
  <2>4. LoadedBits'
        BY <1>3, <2>1 DEF StoreThreadState, Goto, Inv, TypeInv, TypeOK, BitsInv, LoadedBits
  <2>5. PostedByShutDown' /\ EndedBeforeJoin'
        BY <1>3, <2>1 DEF StoreThreadState, Goto, Inv, TypeInv, TypeOK, BitsInv,
           PostedByShutDown, EndedBeforeJoin, Got
  <2>. QED BY <2>3, <2>4, <2>5 DEF BitsInv
<1>4. CASE CallTask(w)
  <2>1. Running' = Running /\ \A v \in Worker : pc'[v] = "clear" => pc[v] = "clear"
        BY <1>4 DEF CallTask, Goto, Running, Got
  <2>2. PostedByShutDown' BY <1>4 DEF CallTask, Goto, Inv, BitsInv, PostedByShutDown, Got
  <2>. QED BY <1>4, <2>1, <2>2, BitsUndisturbed DEF CallTask, Inv
<1>5. CASE PostAgain(w)
  <2>1. Running' = Running /\ \A v \in Worker : pc'[v] = "clear" => pc[v] = "clear"
        BY <1>5 DEF PostAgain, NextPacket, Goto, Running
  <2>2. packet[w].kind = "pool" /\ packet[w] \in Packet
        BY <1>5, PostedPacket DEF PostAgain, Inv
  <2>3. \A j \in DOMAIN port' :
           port'[j].kind = "pool" \/ (j \in DOMAIN port /\ port'[j] = port[j])
        BY <1>5, PostedKind DEF PostAgain, Inv
  <2>4. PostedByShutDown'
        BY <1>5, <2>2, <2>3 DEF PostAgain, NextPacket, Goto, Inv, BitsInv, PostedByShutDown, Got
  <2>. QED BY <1>5, <2>1, <2>4, BitsUndisturbed DEF PostAgain, NextPacket, Inv
<1>6. CASE EraseCopy(w) \/ ReceiveAgain(w)
  <2>1. Running' = Running /\ \A v \in Worker : pc'[v] = "clear" => pc[v] = "clear"
        BY <1>6 DEF EraseCopy, ReceiveAgain, NextPacket, Goto, Running, Got
  <2>2. /\ port' = port /\ shutting' = shutting
        /\ pc' = [pc EXCEPT ![w] = "wait"] /\ packet' = [packet EXCEPT ![w] = NULL]
        BY <1>6 DEF EraseCopy, ReceiveAgain, NextPacket, Goto
  <2>3. PostedByShutDown'
        BY <2>2 DEF Inv, BitsInv, PostedByShutDown, Got, TypeInv, TypeOK
  <2>. QED BY <1>6, <2>1, <2>3, BitsUndisturbed DEF EraseCopy, ReceiveAgain, NextPacket, Inv
<1>. QED BY <1>1, <1>2, <1>3, <1>4, <1>5, <1>6 DEF IoServiceExecuteThread

\* The steps of the calling thread and of Winsock, which leave every worker alone.
LEMMA CallerBits ==
    ASSUME Inv, UNCHANGED <<threadState, workerVars>>,
           shutting' = shutting,
           port' = port \/ \E p \in Packet : p.kind # "shutdown" /\ port' = Append(port, p)
    PROVE  BitsInv'
<1>1. Running' = Running BY DEF Running, workerVars
<1>2. ASSUME shutting = "no", NEW j \in DOMAIN port' PROVE port'[j].kind # "shutdown"
  <2>1. CASE port' = port BY <1>2, <2>1 DEF Inv, BitsInv, PostedByShutDown
  <2>2. CASE \E p \in Packet : p.kind # "shutdown" /\ port' = Append(port, p)
    BY <1>2, <2>2, ElementsOfAppend DEF Inv, BitsInv, PostedByShutDown, TypeInv, TypeOK
  <2>. QED BY <2>1, <2>2
<1>3. PostedByShutDown'
      BY <1>2 DEF Inv, BitsInv, PostedByShutDown, Got, workerVars
<1>. QED BY <1>1, <1>3, BitsUndisturbed DEF Inv, workerVars

LEMMA PoolBits ==
    ASSUME Inv, RegisterThread \/ PostCopy \/ Registered \/ \E i \in Task : UnRegisterThread(i)
    PROVE  BitsInv'
<1>1. CASE PostCopy
  <2>1. registering.task \in Task /\ NextCopy \in Copy
        BY <1>1, CopiesAreNumbers DEF Inv, TypeInv, TypeOK, PostCopy, NextCopy, Copy
  <2>2. /\ PoolPacket(registering.task, NextCopy) \in Packet
        /\ PoolPacket(registering.task, NextCopy).kind = "pool"
        BY <2>1 DEF PoolPacket, Packet
  <2>3. port' = port \/ port' = Append(port, PoolPacket(registering.task, NextCopy))
        BY <1>1 DEF PostCopy, postIocpTask
  <2>. QED BY <1>1, <2>2, <2>3, CallerBits DEF PostCopy
<1>2. CASE RegisterThread \/ Registered \/ \E i \in Task : UnRegisterThread(i)
  BY <1>2, CallerBits DEF RegisterThread, Registered, UnRegisterThread
<1>. QED BY <1>1, <1>2

LEMMA ReceiveBits ==
    ASSUME Inv, ReceiveEnds
    PROVE  BitsInv'
<1>1. PICK u \in receiving, k \in {"recv", "failed"} : port' = Append(port, [kind |-> k, ov |-> u])
      BY DEF ReceiveEnds
<1>2. [kind |-> k, ov |-> u] \in Packet BY DEF Packet, Inv, TypeInv, TypeOK
<1>3. [kind |-> k, ov |-> u].kind # "shutdown" OBVIOUS
<1>. QED BY <1>1, <1>2, <1>3, CallerBits DEF ReceiveEnds

\* shutDown deletes its packet when it sees no bit set, so that none runs then.
LEMMA ShutDownBits ==
    ASSUME Inv, ShutDown
    PROVE  BitsInv'
<1>1. Running' = Running /\ threadState' = threadState /\ LoadedBits'
      BY DEF ShutDown, CallShutDown, PostShutDown, DeletePacket, JoinThreads, workerVars, Running,
         Inv, BitsInv, LoadedBits
<1>2. PostedByShutDown'
      BY DEF ShutDown, CallShutDown, PostShutDown, DeletePacket, JoinThreads, PostedByShutDown
<1>3. EndedBeforeJoin'
      BY <1>1 DEF ShutDown, CallShutDown, PostShutDown, DeletePacket, JoinThreads, EndedBeforeJoin,
         Inv, BitsInv
<1>. QED BY <1>1, <1>2, <1>3 DEF Inv, BitsInv

LEMMA NextInv == Workers <= StateBits /\ Inv /\ [Next]_vars => Inv'
<1>. SUFFICES ASSUME Workers <= StateBits, Inv, [Next]_vars PROVE Inv' OBVIOUS
<1>1. TypeInv' BY NextType DEF Inv
<1>2. BitsInv'
  <2>1. CASE UNCHANGED vars BY <2>1, CallerBits DEF vars
  <2>. QED BY <2>1, WorkerBits, PoolBits, ReceiveBits, ShutDownBits DEF Next
<1>. QED BY <1>1, <1>2 DEF Inv

LEMMA BitsSuffice == Workers <= StateBits /\ Inv => PacketOutlivesUse
<1>. SUFFICES ASSUME Workers <= StateBits, Inv, NEW w \in Worker
              PROVE  /\ pc[w] # "ended" => Bit(w) \in threadState
                     /\ Got(w, "shutdown") => shutting = "posting"
     BY DEF PacketOutlivesUse
<1>1. pc[w] # "ended" => w \in Running BY DEF Running
<1>2. ASSUME Got(w, "shutdown") PROVE shutting = "posting"
  <2>1. w \in Running BY <1>1, <1>2 DEF Got
  <2>2. shutting \notin {"joining", "returned"} BY <2>1 DEF Inv, BitsInv, EndedBeforeJoin
  <2>3. shutting # "no" BY <1>2 DEF Inv, BitsInv, PostedByShutDown
  <2>. QED BY <2>2, <2>3 DEF Inv, TypeInv, TypeOK
<1>. QED BY <1>1, <1>2, BitType DEF Inv, BitsInv

\* The OVERLAPPED that shutDown posts is deleted (IO_Service.cpp, shutDown) only when no
\* worker has it and none can get it, although the workers clear their bits of
\* threadState with a load and a store that others come between.  threadState is a
\* DWORD: the hypothesis is that there are at most as many workers as it has bits.
THEOREM PacketAlwaysOutlivesUse ==
    ASSUME Workers <= StateBits
    PROVE  Spec => []PacketOutlivesUse
<1>1. Init => Inv BY InitType, InitBits DEF Inv
<1>2. Inv /\ [Next]_vars => Inv' BY NextInv
<1>3. Inv => PacketOutlivesUse BY BitsSuffice
<1>. QED BY <1>1, <1>2, <1>3, PTL DEF Spec

-----------------------------------------------------------------------------
(***************************************************************************)
(* CopyInOnePlace.  A copy is deleted only by the worker that has its      *)
(* packet, which found its taskState zero.  That is zero only after the    *)
(* task was registered, and the task stays in threadTasks until its last   *)
(* copy is deleted: the packet never goes without its copy.                *)
(***************************************************************************)
Pool == {PoolPacket(i, n) : i \in Task, n \in Copy}

AtMostOne(p) ==
    /\ \A j, l \in DOMAIN port : port[j] = p /\ port[l] = p => j = l
    /\ \A v, w \in Worker : packet[v] = p /\ packet[w] = p => v = w
    /\ \A j \in DOMAIN port, w \in Worker : ~(port[j] = p /\ packet[w] = p)

Somewhere(p) == (\E j \in DOMAIN port : port[j] = p) \/ (\E w \in Worker : packet[w] = p)

\* The copies that have a packet, now or until the port is closed.
Posted == DOMAIN taskState \ unposted

\* The packets and the copies that are allocated.
Placed ==
    /\ unposted \subseteq DOMAIN taskState
    /\ \A i \in Task, n \in Copy :
          /\ AtMostOne(PoolPacket(i, n))
          /\ Somewhere(PoolPacket(i, n)) => <<i, n>> \in Posted
          /\ <<i, n>> \in Posted /\ shutting # "returned" => Somewhere(PoolPacket(i, n))

\* A worker has a packet only while it handles it.
HandsEmpty ==
    \A w \in Worker :
        /\ pc[w] \in {"wait", "ended"} => packet[w] = NULL
        /\ pc[w] = "clear" => packet[w].kind = "shutdown"
        /\ pc[w] = "erase" => taskState[<<packet[w].task, packet[w].copy>>] = 0

\* The copies of a registered task are those its vector does not have as NULL.
VectorsAgree ==
    \A i \in DOMAIN threadTasks, n \in Copy :
        <<i, n>> \in DOMAIN taskState <=> n \in DOMAIN threadTasks[i] /\ threadTasks[i][n]

\* Only a registered task is unregistered.
ZeroIsRegistered ==
    \A i \in Task, n \in Copy :
        <<i, n>> \in DOMAIN taskState /\ taskState[<<i, n>>] = 0 => i \in DOMAIN threadTasks

\* Tasks are numbered, and the one being registered has the copies posted so far.
TasksNumbered ==
    /\ \A i \in Task, n \in Copy : <<i, n>> \in DOMAIN taskState => i < nextTask
    /\ \A i \in DOMAIN threadTasks : i < nextTask
    /\ registering # NULL =>
          /\ registering.task < nextTask
          /\ registering.task \notin DOMAIN threadTasks
          /\ \A n \in Copy : <<registering.task, n>> \in DOMAIN taskState
                                <=> n \in 1 .. registering.posted

CopyInv == Placed /\ HandsEmpty /\ VectorsAgree /\ ZeroIsRegistered /\ TasksNumbered

LEMMA PoolPackets ==
    /\ Pool \subseteq Packet /\ NULL \notin Pool
    /\ \A p \in Pool : p.kind = "pool"
    /\ \A i \in Task, n \in Copy : /\ PoolPacket(i, n) \in Pool
                                   /\ PoolPacket(i, n).task = i /\ PoolPacket(i, n).copy = n
    /\ \A i \in Task, j \in Task, n \in Copy, m \in Copy :
          PoolPacket(i, n) = PoolPacket(j, m) => i = j /\ n = m
<1>1. \A i \in Task, n \in Copy :
         /\ PoolPacket(i, n) \in [kind : {"pool"}, task : Task, copy : Copy]
         /\ PoolPacket(i, n).kind = "pool"
         /\ PoolPacket(i, n).task = i /\ PoolPacket(i, n).copy = n
      BY DEF PoolPacket
<1>2. Pool \subseteq Packet BY <1>1 DEF Pool, Packet
<1>3. NULL \notin Pool BY <1>2, NullAssumption
<1>4. \A p \in Pool : p.kind = "pool" BY <1>1 DEF Pool
<1>5. \A i \in Task, n \in Copy : PoolPacket(i, n) \in Pool BY DEF Pool
<1>6. \A i \in Task, j \in Task, n \in Copy, m \in Copy :
         PoolPacket(i, n) = PoolPacket(j, m) => i = j /\ n = m
  <2>1. SUFFICES ASSUME NEW i \in Task, NEW j \in Task, NEW n \in Copy, NEW m \in Copy,
                        PoolPacket(i, n) = PoolPacket(j, m)
                 PROVE  i = j /\ n = m
        OBVIOUS
  <2>. QED BY <1>1, <2>1
<1>. QED BY <1>1, <1>2, <1>3, <1>4, <1>5, <1>6

\* A worker takes the first packet of the port.
LEMMA TakePlace ==
    ASSUME TypeOK, NEW p \in Pool, AtMostOne(p), NEW w \in Worker, port # <<>>,
           packet[w] = NULL, port' = Tail(port),
           packet' = IF Head(port).kind = "failed" THEN packet
                     ELSE [packet EXCEPT ![w] = Head(port)]
    PROVE  AtMostOne(p)' /\ (Somewhere(p)' <=> Somewhere(p))
<1>1. /\ 1 \in DOMAIN port /\ Head(port) = port[1]
      /\ \A j \in DOMAIN Tail(port) : j + 1 \in DOMAIN port /\ Tail(port)[j] = port[j + 1]
      BY ElementsOfTail DEF TypeOK
<1>2. port \in Seq(Packet) /\ DOMAIN port = 1 .. Len(port) /\ Len(port) \in Nat \ {0}
      BY DEF TypeOK
<1>3. DOMAIN port' = 1 .. Len(port) - 1 BY <1>2
<1>4. packet \in [Worker -> Packet \cup {NULL}] /\ packet[w] # p
      BY PoolPackets DEF TypeOK
<1>5. \A j \in DOMAIN port' : port'[j] = port[j + 1] /\ j + 1 \in DOMAIN port /\ j + 1 # 1
      BY <1>1, <1>3
<1>6. \A j \in DOMAIN port : j # 1 => j - 1 \in DOMAIN port' /\ port'[j - 1] = port[j]
  <2>1. SUFFICES ASSUME NEW j \in DOMAIN port, j # 1
                 PROVE  j - 1 \in DOMAIN port' /\ port'[j - 1] = port[j]
        OBVIOUS
  <2>2. j - 1 \in DOMAIN port' /\ (j - 1) + 1 = j BY <1>2, <1>3, <2>1
  <2>. QED BY <1>5, <2>2
<1>7. \A v \in Worker : packet'[v] = p <=> packet[v] = p \/ (v = w /\ port[1] = p)
  <2>1. CASE port[1].kind = "failed" BY <1>1, <1>4, <2>1, PoolPackets
  <2>2. CASE port[1].kind # "failed" BY <1>1, <1>4, <2>2
  <2>. QED BY <2>1, <2>2
<1>8. \A j, l \in DOMAIN port' : port'[j] = p /\ port'[l] = p => j = l
  <2>1. SUFFICES ASSUME NEW j \in DOMAIN port', NEW l \in DOMAIN port',
                        port'[j] = p, port'[l] = p
                 PROVE  j = l
        OBVIOUS
  <2>2. j + 1 = l + 1 BY <1>5, <2>1 DEF AtMostOne
  <2>. QED BY <1>3, <2>2
<1>9. \A j \in DOMAIN port' : port'[j] = p => port[1] # p
      BY <1>1, <1>5 DEF AtMostOne
<1>10. AtMostOne(p)' BY <1>1, <1>5, <1>7, <1>8, <1>9 DEF AtMostOne
<1>11. Somewhere(p)' => Somewhere(p) BY <1>1, <1>5, <1>7 DEF Somewhere
<1>12. Somewhere(p) => Somewhere(p)'
  <2>1. ASSUME NEW j \in DOMAIN port, port[j] = p PROVE Somewhere(p)'
    <3>1. CASE j = 1
      <4>1. packet'[w] = p BY <1>7, <2>1, <3>1
      <4>. QED BY <4>1 DEF Somewhere
    <3>2. CASE j # 1
      <4>1. j - 1 \in DOMAIN port' /\ port'[j - 1] = p BY <1>6, <2>1, <3>2
      <4>. QED BY <4>1 DEF Somewhere
    <3>. QED BY <3>1, <3>2
  <2>2. ASSUME NEW v \in Worker, packet[v] = p PROVE Somewhere(p)'
    <3>1. packet'[v] = p BY <1>7, <2>2
    <3>. QED BY <3>1 DEF Somewhere
  <2>. QED BY <2>1, <2>2 DEF Somewhere
<1>. QED BY <1>10, <1>11, <1>12

\* A packet that is nowhere, or in the hands of the worker that posts it, is posted.
LEMMA PostPlace ==
    ASSUME TypeOK, NEW p \in Pool, AtMostOne(p), NEW q \in Packet, port' = Append(port, q),
           \/ packet' = packet /\ (q = p => ~Somewhere(p))
           \/ \E w \in Worker : packet[w] = q /\ packet' = [packet EXCEPT ![w] = NULL]
    PROVE  AtMostOne(p)' /\ (Somewhere(p)' <=> Somewhere(p) \/ q = p)
<1>1. port \in Seq(Packet) /\ DOMAIN port = 1 .. Len(port) /\ Len(port) \in Nat BY DEF TypeOK
<1>2. /\ DOMAIN port' = 1 .. Len(port) + 1
      /\ port'[Len(port) + 1] = q
      /\ \A j \in DOMAIN port : j \in DOMAIN port' /\ port'[j] = port[j]
      BY <1>1
<1>3. \A j \in DOMAIN port' : j \in DOMAIN port \/ j = Len(port) + 1 BY <1>1, <1>2
<1>4. packet \in [Worker -> Packet \cup {NULL}] /\ NULL # p BY PoolPackets DEF TypeOK
<1>5. /\ \A v \in Worker : packet'[v] = p => packet[v] = p /\ q # p
      /\ \A v \in Worker : packet[v] = p => packet'[v] = p \/ q = p
      /\ q = p => \A j \in DOMAIN port : port[j] # p
  <2>1. CASE packet' = packet /\ (q = p => ~Somewhere(p)) BY <2>1 DEF Somewhere
  <2>2. ASSUME NEW w \in Worker, packet[w] = q, packet' = [packet EXCEPT ![w] = NULL]
        PROVE  /\ \A v \in Worker : packet'[v] = p => packet[v] = p /\ q # p
               /\ \A v \in Worker : packet[v] = p => packet'[v] = p \/ q = p
               /\ q = p => \A j \in DOMAIN port : port[j] # p
        BY <1>4, <2>2 DEF AtMostOne
  <2>. QED BY <2>1, <2>2
<1>6. \A j, l \in DOMAIN port' : port'[j] = p /\ port'[l] = p => j = l
      BY <1>2, <1>3, <1>5 DEF AtMostOne
<1>7. \A j \in DOMAIN port', v \in Worker : ~(port'[j] = p /\ packet'[v] = p)
      BY <1>2, <1>3, <1>5 DEF AtMostOne
<1>8. AtMostOne(p)' BY <1>5, <1>6, <1>7 DEF AtMostOne
<1>9. Len(port) + 1 \in DOMAIN port' BY <1>1, <1>2
<1>10. Somewhere(p)' <=> Somewhere(p) \/ q = p
       BY <1>2, <1>3, <1>5, <1>9 DEF Somewhere
<1>. QED BY <1>8, <1>10

\* A worker is done with the packet it has.
LEMMA DropPlace ==
    ASSUME TypeOK, NEW p \in Pool, AtMostOne(p), port' = port,
           NEW w \in Worker, packet' = [packet EXCEPT ![w] = NULL]
    PROVE  AtMostOne(p)' /\ (Somewhere(p)' <=> Somewhere(p) /\ packet[w] # p)
<1>1. packet \in [Worker -> Packet \cup {NULL}] /\ NULL # p BY PoolPackets DEF TypeOK
<1>2. \A v \in Worker : packet'[v] = p <=> packet[v] = p /\ v # w BY <1>1
<1>3. AtMostOne(p)' BY <1>2 DEF AtMostOne
<1>4. Somewhere(p)' <=> Somewhere(p) /\ packet[w] # p BY <1>2 DEF Somewhere, AtMostOne
<1>. QED BY <1>3, <1>4

\* A step that leaves the pool's tables alone keeps what is said of them.
TablesSame == UNCHANGED <<threadTasks, taskState, registering, nextTask>>

LEMMA TablesKept ==
    ASSUME CopyInv, TablesSame PROVE VectorsAgree' /\ ZeroIsRegistered' /\ TasksNumbered'
BY DEF CopyInv, TablesSame, VectorsAgree, ZeroIsRegistered, TasksNumbered

\* A step that keeps every pool packet where it is, or moves it.
LEMMA PlacedMoved ==
    ASSUME Placed, UNCHANGED <<taskState, unposted, shutting>>,
           \A p \in Pool : AtMostOne(p)' /\ (Somewhere(p)' <=> Somewhere(p))
    PROVE  Placed'
<1>1. \A i \in Task, n \in Copy : PoolPacket(i, n)' = PoolPacket(i, n) BY DEF PoolPacket
<1>. QED BY <1>1, PoolPackets DEF Placed, Posted

LEMMA InitCopies == Init => CopyInv
<1>. SUFFICES ASSUME Init PROVE CopyInv OBVIOUS
<1>1. port = <<>> /\ DOMAIN port = {} /\ taskState = [o \in {} |-> 0] /\ DOMAIN taskState = {}
      /\ DOMAIN threadTasks = {} /\ registering = NULL /\ unposted = {}
      /\ \A w \in Worker : pc[w] = "wait" /\ packet[w] = NULL
      BY DEF Init
<1>2. \A p \in Pool : AtMostOne(p) /\ ~Somewhere(p)
      BY <1>1, PoolPackets DEF AtMostOne, Somewhere
<1>3. Placed BY <1>1, <1>2, PoolPackets DEF Placed, Posted
<1>. QED BY <1>1, <1>3 DEF CopyInv, HandsEmpty, VectorsAgree, ZeroIsRegistered, TasksNumbered

\* The copy whose packet a worker has.
LEMMA CopyOfPacket ==
    ASSUME TypeInv, CopyInv, NEW w \in Worker, packet[w] \in Packet, packet[w].kind = "pool"
    PROVE  \E i \in Task, n \in Copy :
              /\ packet[w] = PoolPacket(i, n) /\ packet[w].task = i /\ packet[w].copy = n
              /\ <<i, n>> \in DOMAIN taskState
<1>1. PICK i \in Task, n \in Copy : packet[w] = PoolPacket(i, n) BY KindOfPacket
<1>2. Somewhere(PoolPacket(i, n)) BY <1>1 DEF Somewhere
<1>3. <<i, n>> \in DOMAIN taskState BY <1>2 DEF CopyInv, Placed, Posted
<1>. QED BY <1>1, <1>3, PoolPackets

LEMMA WorkerCopies ==
    ASSUME TypeInv, CopyInv, NEW w \in Worker, IoServiceExecuteThread(w)
    PROVE  CopyInv'
<1>. USE DEF TypeInv
<1>. pc \in [Worker -> {"wait", "got", "clear", "post", "erase", "ended"}]
     BY DEF TypeOK
<1>. packet \in [Worker -> Packet \cup {NULL}] BY DEF TypeOK
<1>0. /\ \A p \in Pool : AtMostOne(p)
      /\ Placed /\ HandsEmpty
  <2>1. Placed /\ HandsEmpty BY DEF CopyInv
  <2>2. ASSUME NEW p \in Pool PROVE AtMostOne(p)
    <3>1. PICK i \in Task, n \in Copy : p = PoolPacket(i, n) BY DEF Pool
    <3>2. AtMostOne(PoolPacket(i, n)) BY <2>1 DEF Placed
    <3>. QED BY <3>1, <3>2
  <2>. QED BY <2>1, <2>2
<1>1. CASE GetQueuedCompletionStatus(w)
  <2>1. /\ pc[w] = "wait" /\ port # <<>> /\ port' = Tail(port) /\ TablesSame
        /\ UNCHANGED <<unposted, shutting>>
        /\ packet[w] = NULL
        /\ \/ Head(port).kind = "failed" /\ UNCHANGED <<pc, packet>>
           \/ /\ Head(port).kind # "failed" /\ pc' = [pc EXCEPT ![w] = "got"]
              /\ packet' = [packet EXCEPT ![w] = Head(port)]
        BY <1>0, <1>1 DEF GetQueuedCompletionStatus, Goto, TablesSame, poolVars, HandsEmpty
  <2>2. packet' = IF Head(port).kind = "failed" THEN packet
                  ELSE [packet EXCEPT ![w] = Head(port)]
        BY <2>1
  <2>3. \A p \in Pool : AtMostOne(p)' /\ (Somewhere(p)' <=> Somewhere(p))
        BY <1>0, <2>1, <2>2, TakePlace
  <2>4. Placed' BY <1>0, <2>1, <2>3, PlacedMoved DEF TablesSame
  <2>5. HandsEmpty' BY <1>0, <2>1 DEF HandsEmpty, TablesSame
  <2>. QED BY <2>1, <2>4, <2>5, TablesKept DEF CopyInv
<1>2. CASE LoadThreadState(w) \/ CallTask(w)
  <2>1. /\ UNCHANGED <<port, packet, unposted, shutting>> /\ TablesSame /\ pc[w] = "got"
        /\ \/ pc' = [pc EXCEPT ![w] = "clear"] /\ packet[w].kind = "shutdown"
           \/ pc' = [pc EXCEPT ![w] = "post"]
           \/ /\ pc' = [pc EXCEPT ![w] = "erase"]
              /\ taskState[<<packet[w].task, packet[w].copy>>] = 0
        BY <1>2 DEF LoadThreadState, CallTask, Got, Goto, TablesSame, poolVars
  <2>2. \A p \in Pool : AtMostOne(p)' /\ (Somewhere(p)' <=> Somewhere(p))
        BY <1>0, <2>1 DEF AtMostOne, Somewhere
  <2>3. Placed' BY <1>0, <2>1, <2>2, PlacedMoved DEF TablesSame
  <2>4. HandsEmpty' BY <1>0, <2>1 DEF HandsEmpty, TablesSame
  <2>. QED BY <2>1, <2>3, <2>4, TablesKept DEF CopyInv
<1>3. CASE StoreThreadState(w) \/ ReceiveAgain(w)
  <2>1. /\ UNCHANGED <<port, unposted, shutting>> /\ TablesSame
        /\ packet' = [packet EXCEPT ![w] = NULL]
        /\ pc' = [pc EXCEPT ![w] = "ended"] \/ pc' = [pc EXCEPT ![w] = "wait"]
        /\ packet[w].kind # "pool"
        BY <1>0, <1>3 DEF StoreThreadState, ReceiveAgain, NextPacket, Got, Goto, TablesSame,
                          poolVars, HandsEmpty
  <2>2. \A p \in Pool : packet[w] # p BY <2>1, PoolPackets
  <2>3. \A p \in Pool : AtMostOne(p)' /\ (Somewhere(p)' <=> Somewhere(p))
        BY <1>0, <2>1, <2>2, DropPlace
  <2>4. Placed' BY <1>0, <2>1, <2>3, PlacedMoved DEF TablesSame
  <2>5. HandsEmpty' BY <1>0, <2>1 DEF HandsEmpty, TablesSame
  <2>. QED BY <2>1, <2>4, <2>5, TablesKept DEF CopyInv
<1>4. CASE PostAgain(w)
  <2>1. packet[w] \in Packet /\ packet[w].kind = "pool" BY <1>4, PostedPacket DEF PostAgain
  <2>2. PICK i \in Task, n \in Copy :
           /\ packet[w] = PoolPacket(i, n) /\ packet[w].task = i /\ packet[w].copy = n
           /\ <<i, n>> \in DOMAIN taskState
        BY <2>1, CopyOfPacket
  <2>3. /\ packet' = [packet EXCEPT ![w] = NULL] /\ pc' = [pc EXCEPT ![w] = "wait"]
        /\ shutting' = shutting /\ TablesSame /\ postIocpTask(i, n)
        BY <1>4, <2>2 DEF PostAgain, NextPacket, Goto, TablesSame
  <2>4. HandsEmpty' BY <1>0, <2>3 DEF HandsEmpty, TablesSame
  <2>5. CASE port' = Append(port, packet[w]) /\ unposted' = unposted
    <3>1. \A p \in Pool : AtMostOne(p)' /\ (Somewhere(p)' <=> Somewhere(p) \/ packet[w] = p)
          BY <1>0, <2>1, <2>3, <2>5, PostPlace
    <3>2. \A p \in Pool : packet[w] = p => Somewhere(p) BY DEF Somewhere
    <3>3. Placed' BY <1>0, <2>3, <2>5, <3>1, <3>2, PlacedMoved DEF TablesSame
    <3>. QED BY <2>3, <2>4, <3>3, TablesKept DEF CopyInv
  <2>6. CASE port' = port /\ unposted' = unposted \cup {<<i, n>>}
    <3>1. \A p \in Pool : AtMostOne(p)' /\ (Somewhere(p)' <=> Somewhere(p) /\ packet[w] # p)
          BY <1>0, <2>3, <2>6, DropPlace
    <3>2. ASSUME NEW j \in Task, NEW m \in Copy
          PROVE  /\ AtMostOne(PoolPacket(j, m))'
                 /\ Somewhere(PoolPacket(j, m))' => <<j, m>> \in Posted'
                 /\ <<j, m>> \in Posted' /\ shutting' # "returned" => Somewhere(PoolPacket(j, m))'
      <4>1. /\ PoolPacket(j, m) \in Pool /\ PoolPacket(j, m)' = PoolPacket(j, m)
            /\ packet[w] = PoolPacket(j, m) <=> <<j, m>> = <<i, n>>
            BY <2>2, PoolPackets DEF PoolPacket
      <4>2. <<j, m>> \in Posted' <=> <<j, m>> \in Posted /\ <<j, m>> # <<i, n>>
            BY <2>3, <2>6 DEF Posted, TablesSame
      <4>3. /\ Somewhere(PoolPacket(j, m)) => <<j, m>> \in Posted
            /\ <<j, m>> \in Posted /\ shutting # "returned" => Somewhere(PoolPacket(j, m))
            BY <1>0 DEF Placed
      <4>4. /\ AtMostOne(PoolPacket(j, m))'
            /\ Somewhere(PoolPacket(j, m))' <=>
                  Somewhere(PoolPacket(j, m)) /\ packet[w] # PoolPacket(j, m)
            BY <3>1, <4>1
      <4>. QED BY <2>3, <4>1, <4>2, <4>3, <4>4
    <3>3. unposted' \subseteq DOMAIN taskState'
          BY <1>0, <2>2, <2>3, <2>6 DEF Placed, TablesSame
    <3>4. Placed' BY <3>2, <3>3 DEF Placed
    <3>. QED BY <2>3, <2>4, <3>4, TablesKept DEF CopyInv
  <2>. QED BY <2>2, <2>3, <2>5, <2>6 DEF postIocpTask
<1>5. CASE EraseCopy(w)
  <2>1. packet[w] \in Packet /\ packet[w].kind = "pool" BY <1>5, PostedPacket DEF EraseCopy
  <2>2. PICK i \in Task, n \in Copy :
           /\ packet[w] = PoolPacket(i, n) /\ packet[w].task = i /\ packet[w].copy = n
           /\ <<i, n>> \in DOMAIN taskState
        BY <2>1, CopyOfPacket
  <2>3. taskState[<<i, n>>] = 0 BY <1>0, <1>5, <2>2 DEF EraseCopy, HandsEmpty
  <2>4. i \in DOMAIN threadTasks BY <2>2, <2>3 DEF CopyInv, ZeroIsRegistered
  <2>5. /\ taskState' = Restrict(taskState, DOMAIN taskState \ {<<i, n>>})
        /\ threadTasks' = IF Left(i, n) = {}
                          THEN Restrict(threadTasks, DOMAIN threadTasks \ {i})
                          ELSE [threadTasks EXCEPT ![i][n] = FALSE]
        /\ packet' = [packet EXCEPT ![w] = NULL] /\ pc' = [pc EXCEPT ![w] = "wait"]
        /\ UNCHANGED <<port, shutting, registering, unposted, nextTask>>
        BY <1>5, <2>2, <2>4 DEF EraseCopy, OwnCopy, NextPacket, Goto
  <2>6. /\ DOMAIN taskState' = DOMAIN taskState \ {<<i, n>>}
        /\ \A o \in DOMAIN taskState' : taskState'[o] = taskState[o]
        BY <2>5 DEF Restrict
  <2>7. PICK c \in Copy : threadTasks[i] \in [1 .. c -> BOOLEAN] BY <2>4 DEF TypeOK
  <2>8. n \in DOMAIN threadTasks[i] /\ threadTasks[i][n]
        BY <2>2, <2>4 DEF CopyInv, VectorsAgree
  <2>9. /\ DOMAIN threadTasks' \subseteq DOMAIN threadTasks
        /\ \A j \in DOMAIN threadTasks : j # i => j \in DOMAIN threadTasks'
                                                  /\ threadTasks'[j] = threadTasks[j]
        /\ i \in DOMAIN threadTasks' =>
              /\ DOMAIN threadTasks'[i] = DOMAIN threadTasks[i]
              /\ ~threadTasks'[i][n]
              /\ \A m \in DOMAIN threadTasks[i] : m # n => threadTasks'[i][m] = threadTasks[i][m]
        /\ i \notin DOMAIN threadTasks' =>
              \A m \in DOMAIN threadTasks[i] : threadTasks[i][m] => m = n
    <3>1. CASE Left(i, n) = {}
      <4>1. threadTasks' = Restrict(threadTasks, DOMAIN threadTasks \ {i}) BY <2>5, <3>1
      <4>. QED BY <3>1, <4>1 DEF Restrict, Left
    <3>2. CASE Left(i, n) # {}
      <4>1. threadTasks' = [threadTasks EXCEPT ![i][n] = FALSE] BY <2>5, <3>2
      <4>2. threadTasks'[i] = [threadTasks[i] EXCEPT ![n] = FALSE] BY <2>4, <4>1
      <4>. QED BY <2>4, <2>7, <2>8, <4>1, <4>2
    <3>. QED BY <3>1, <3>2
  <2>10. Placed'
    <3>1. ASSUME NEW j \in Task, NEW m \in Copy
          PROVE  /\ AtMostOne(PoolPacket(j, m))'
                 /\ Somewhere(PoolPacket(j, m))' => <<j, m>> \in Posted'
                 /\ <<j, m>> \in Posted' /\ shutting' # "returned"
                       => Somewhere(PoolPacket(j, m))'
      <4>. DEFINE p == PoolPacket(j, m)
      <4>1. p \in Pool BY PoolPackets
      <4>2. p' = p BY DEF PoolPacket
      <4>3. packet[w] = p <=> <<j, m>> = <<i, n>> BY <2>2, PoolPackets
      <4>4. /\ Somewhere(p) => <<j, m>> \in Posted
            /\ <<j, m>> \in Posted /\ shutting # "returned" => Somewhere(p)
            BY <1>0 DEF Placed
      <4>7. <<j, m>> \in Posted' <=> <<j, m>> \in Posted /\ <<j, m>> # <<i, n>>
            BY <2>5, <2>6 DEF Posted
      <4>. HIDE DEF p
      <4>5. AtMostOne(p)' /\ (Somewhere(p)' <=> Somewhere(p) /\ packet[w] # p)
            BY <1>0, <2>5, <4>1, <4>2, DropPlace
      <4>6. /\ AtMostOne(p)' /\ (Somewhere(p)' => <<j, m>> \in Posted')
            /\ <<j, m>> \in Posted' /\ shutting' # "returned" => Somewhere(p)'
            BY <2>5, <4>3, <4>4, <4>5, <4>7
      <4>. QED BY <4>6 DEF p
    <3>2. unposted' \subseteq DOMAIN taskState'
      <4>1. Somewhere(PoolPacket(i, n)) BY <2>2 DEF Somewhere
      <4>2. <<i, n>> \notin unposted BY <1>0, <4>1 DEF Placed, Posted
      <4>. QED BY <1>0, <2>5, <2>6, <4>2 DEF Placed
    <3>. QED BY <3>1, <3>2 DEF Placed
  <2>11. HandsEmpty'
    <3>1. ASSUME NEW v \in Worker, pc'[v] = "erase"
          PROVE  taskState'[<<packet'[v].task, packet'[v].copy>>] = 0
      <4>1. v # w /\ pc[v] = "erase" /\ packet'[v] = packet[v] BY <2>5, <3>1
      <4>2. packet[v] \in Packet /\ packet[v].kind = "pool" BY <4>1, PostedPacket
      <4>3. PICK j \in Task, m \in Copy :
               /\ packet[v] = PoolPacket(j, m) /\ packet[v].task = j /\ packet[v].copy = m
               /\ <<j, m>> \in DOMAIN taskState
            BY <4>2, CopyOfPacket
      <4>4. packet[v] # packet[w]
        <5>1. packet[w] \in Pool BY <2>2, PoolPackets
        <5>. QED BY <1>0, <4>1, <5>1 DEF AtMostOne
      <4>5. <<j, m>> # <<i, n>> BY <2>2, <4>3, <4>4
      <4>6. taskState[<<j, m>>] = 0 BY <1>0, <4>1, <4>3 DEF HandsEmpty
      <4>. QED BY <2>6, <4>1, <4>3, <4>5, <4>6
    <3>. QED BY <1>0, <2>5, <3>1 DEF HandsEmpty
  <2>12. VectorsAgree'
    <3>1. SUFFICES ASSUME NEW j \in DOMAIN threadTasks', NEW m \in Copy
                   PROVE  <<j, m>> \in DOMAIN taskState'
                             <=> m \in DOMAIN threadTasks'[j] /\ threadTasks'[j][m]
          BY DEF VectorsAgree
    <3>2. j \in DOMAIN threadTasks /\ (<<j, m>> \in DOMAIN taskState
                             <=> m \in DOMAIN threadTasks[j] /\ threadTasks[j][m])
          BY <2>9 DEF CopyInv, VectorsAgree
    <3>3. CASE j # i BY <2>6, <2>9, <3>2, <3>3
    <3>4. CASE j = i /\ m = n BY <2>6, <2>9, <3>2, <3>4
    <3>5. CASE j = i /\ m # n BY <2>6, <2>9, <3>2, <3>5
    <3>. QED BY <3>3, <3>4, <3>5
  <2>13. ZeroIsRegistered'
    <3>1. SUFFICES ASSUME NEW j \in Task, NEW m \in Copy, <<j, m>> \in DOMAIN taskState',
                          taskState'[<<j, m>>] = 0
                   PROVE  j \in DOMAIN threadTasks'
          BY DEF ZeroIsRegistered
    <3>2. /\ <<j, m>> \in DOMAIN taskState /\ taskState[<<j, m>>] = 0 /\ <<j, m>> # <<i, n>>
          BY <2>6, <3>1
    <3>3. j \in DOMAIN threadTasks BY <3>2 DEF CopyInv, ZeroIsRegistered
    <3>4. CASE j # i BY <2>9, <3>3, <3>4
    <3>5. CASE j = i
      <4>1. m \in DOMAIN threadTasks[i] /\ threadTasks[i][m] /\ m # n
            BY <2>4, <3>2, <3>5 DEF CopyInv, VectorsAgree
      <4>. QED BY <2>9, <3>5, <4>1
    <3>. QED BY <3>4, <3>5
  <2>14. TasksNumbered'
    <3>1. \A j \in Task, m \in Copy : <<j, m>> \in DOMAIN taskState' => j < nextTask
          BY <2>6 DEF CopyInv, TasksNumbered
    <3>2. \A j \in DOMAIN threadTasks' : j < nextTask BY <2>9 DEF CopyInv, TasksNumbered
    <3>3. ASSUME registering # NULL
          PROVE  /\ registering.task < nextTask
                 /\ registering.task \notin DOMAIN threadTasks'
                 /\ \A m \in Copy : <<registering.task, m>> \in DOMAIN taskState'
                                       <=> m \in 1 .. registering.posted
      <4>1. registering.task # i BY <2>4, <3>3 DEF CopyInv, TasksNumbered
      <4>. QED BY <2>6, <2>9, <3>3, <4>1 DEF CopyInv, TasksNumbered
    <3>. QED BY <2>5, <3>1, <3>2, <3>3 DEF TasksNumbered
  <2>. QED BY <2>10, <2>11, <2>12, <2>13, <2>14 DEF CopyInv
<1>. QED BY <1>1, <1>2, <1>3, <1>4, <1>5 DEF IoServiceExecuteThread

\* The workers keep their packets.
LEMMA HandsKept ==
    ASSUME TypeInv, CopyInv, UNCHANGED workerVars,
           \A i \in Task, n \in Copy :
              <<i, n>> \in DOMAIN taskState /\ taskState[<<i, n>>] = 0
                 => taskState'[<<i, n>>] = 0
    PROVE  HandsEmpty'
<1>1. ASSUME NEW w \in Worker, pc[w] = "erase"
      PROVE  taskState'[<<packet[w].task, packet[w].copy>>] = 0
  <2>1. packet[w] \in Packet /\ packet[w].kind = "pool" BY <1>1, PostedPacket
  <2>2. PICK i \in Task, n \in Copy :
           /\ packet[w] = PoolPacket(i, n) /\ packet[w].task = i /\ packet[w].copy = n
           /\ <<i, n>> \in DOMAIN taskState
        BY <2>1, CopyOfPacket
  <2>3. taskState[<<i, n>>] = 0 BY <1>1, <2>2 DEF CopyInv, HandsEmpty
  <2>. QED BY <2>2, <2>3
<1>. QED BY <1>1 DEF CopyInv, HandsEmpty, workerVars

LEMMA PoolCopies ==
    ASSUME TypeInv, CopyInv,
           RegisterThread \/ Registered \/ \E i \in Task : UnRegisterThread(i)
    PROVE  CopyInv'
<1>0. UNCHANGED <<port, packet, unposted, shutting>> /\ DOMAIN taskState' = DOMAIN taskState
      BY DEF RegisterThread, Registered, UnRegisterThread, workerVars
<1>1. Placed'
  <2>1. \A i \in Task, n \in Copy : PoolPacket(i, n)' = PoolPacket(i, n) BY DEF PoolPacket
  <2>2. \A i \in Task, n \in Copy :
           /\ AtMostOne(PoolPacket(i, n))' <=> AtMostOne(PoolPacket(i, n))
           /\ Somewhere(PoolPacket(i, n))' <=> Somewhere(PoolPacket(i, n))
        BY <1>0, <2>1 DEF AtMostOne, Somewhere
  <2>. QED BY <1>0, <2>1, <2>2 DEF CopyInv, Placed, Posted
<1>2. CASE RegisterThread
  <2>1. PICK c \in Copy : registering' = [task |-> nextTask, copies |-> c, posted |-> 0]
        BY <1>2 DEF RegisterThread
  <2>2. /\ nextTask \in Task /\ nextTask \in Nat /\ nextTask' = nextTask + 1
        /\ UNCHANGED <<workerVars, threadTasks, taskState>>
        BY <1>2 DEF RegisterThread, TypeInv, TypeOK
  <2>3. HandsEmpty' BY <2>2, HandsKept
  <2>4. VectorsAgree' /\ ZeroIsRegistered' BY <2>2 DEF CopyInv, VectorsAgree, ZeroIsRegistered
  <2>5. TasksNumbered'
    <3>1. /\ registering'.task = nextTask /\ registering'.posted = 0 BY <2>1
    <3>2. \A n \in Copy : <<nextTask, n>> \notin DOMAIN taskState
          BY <2>2 DEF CopyInv, TasksNumbered
    <3>3. nextTask \notin DOMAIN threadTasks BY <2>2 DEF CopyInv, TasksNumbered
    <3>4. \A i \in Task, n \in Copy : <<i, n>> \in DOMAIN taskState => i < nextTask + 1
          BY <2>2 DEF CopyInv, TasksNumbered, Task
    <3>5. \A i \in DOMAIN threadTasks : i < nextTask + 1
      <4>1. DOMAIN threadTasks \subseteq Task BY DEF TypeInv, TypeOK
      <4>. QED BY <2>2, <4>1 DEF CopyInv, TasksNumbered, Task
    <3>6. \A n \in Copy : n \notin 1 .. 0 OBVIOUS
    <3>. QED BY <2>2, <3>1, <3>2, <3>3, <3>4, <3>5, <3>6 DEF TasksNumbered
  <2>. QED BY <1>1, <2>3, <2>4, <2>5 DEF CopyInv
<1>3. CASE Registered
  <2>. DEFINE r == registering.task
  <2>1. /\ registering # NULL /\ registering' = NULL /\ r \in Task /\ registering.copies \in Copy
        /\ registering.posted = registering.copies
        /\ UNCHANGED <<workerVars, taskState, nextTask>>
        /\ threadTasks' = [i \in DOMAIN threadTasks \cup {r} |->
                             IF i \in DOMAIN threadTasks THEN threadTasks[i]
                             ELSE [n \in 1 .. registering.copies |-> TRUE]]
        BY <1>3 DEF Registered, TypeInv, TypeOK
  <2>2. r < nextTask /\ r \notin DOMAIN threadTasks
        /\ \A n \in Copy : <<r, n>> \in DOMAIN taskState <=> n \in 1 .. registering.copies
        BY <2>1 DEF CopyInv, TasksNumbered
  <2>3. HandsEmpty' BY <2>1, HandsKept
  <2>4. VectorsAgree'
    <3>1. ASSUME NEW i \in DOMAIN threadTasks', NEW n \in Copy
          PROVE  <<i, n>> \in DOMAIN taskState
                    <=> n \in DOMAIN threadTasks'[i] /\ threadTasks'[i][n]
      <4>1. CASE i \in DOMAIN threadTasks
            BY <2>1, <4>1 DEF CopyInv, VectorsAgree
      <4>2. CASE i = r
        <5>1. threadTasks'[i] = [m \in 1 .. registering.copies |-> TRUE]
              BY <2>1, <2>2, <4>2
        <5>. QED BY <2>2, <4>2, <5>1
      <4>. QED BY <2>1, <4>1, <4>2
    <3>. QED BY <2>1, <3>1 DEF VectorsAgree
  <2>5. DOMAIN threadTasks' = DOMAIN threadTasks \cup {r} BY <2>1
  <2>6. ZeroIsRegistered' BY <2>1, <2>5 DEF CopyInv, ZeroIsRegistered
  <2>7. TasksNumbered' BY <2>1, <2>2, <2>5 DEF CopyInv, TasksNumbered
  <2>. QED BY <1>1, <2>3, <2>4, <2>6, <2>7 DEF CopyInv
<1>4. ASSUME NEW i \in Task, UnRegisterThread(i) PROVE CopyInv'
  <2>1. /\ i \in DOMAIN threadTasks
        /\ UNCHANGED <<workerVars, threadTasks, registering, nextTask>>
        /\ \A j \in Task, n \in Copy : <<j, n>> \in DOMAIN taskState =>
              taskState'[<<j, n>>] = taskState[<<j, n>>] \/ (j = i /\ taskState'[<<j, n>>] = 0)
        BY <1>4 DEF UnRegisterThread
  <2>2. HandsEmpty' BY <2>1, HandsKept
  <2>3. VectorsAgree' BY <1>0, <2>1 DEF CopyInv, VectorsAgree
  <2>4. ZeroIsRegistered' BY <1>0, <2>1 DEF CopyInv, ZeroIsRegistered
  <2>5. TasksNumbered' BY <1>0, <2>1 DEF CopyInv, TasksNumbered
  <2>. QED BY <1>1, <2>2, <2>3, <2>4, <2>5 DEF CopyInv
<1>. QED BY <1>2, <1>3, <1>4

\* A copy gets its packet when it is allocated.
LEMMA PostCopyCopies == ASSUME TypeInv, CopyInv, PostCopy PROVE CopyInv'
<1>. DEFINE n == registering.posted + 1
            r == registering.task
            q == PoolPacket(r, n)
<1>1. /\ registering # NULL /\ r \in Task /\ n \in Copy /\ n \in Nat
      /\ registering \in [task : Task, copies : Copy, posted : Nat]
      BY CopiesAreNumbers DEF TypeInv, TypeOK, PostCopy, Copy
<1>2. /\ registering' = [registering EXCEPT !.posted = n]
      /\ taskState' = [o \in DOMAIN taskState \cup {<<r, n>>} |->
                         IF o \in DOMAIN taskState THEN taskState[o] ELSE 1]
      /\ \/ shutting # "returned" /\ port' = Append(port, q) /\ unposted' = unposted
         \/ port' = port /\ unposted' = unposted \cup {<<r, n>>}
      /\ UNCHANGED <<workerVars, packet, shutting, threadTasks, nextTask>>
      BY DEF PostCopy, postIocpTask, NextCopy, workerVars
<1>3. /\ DOMAIN taskState' = DOMAIN taskState \cup {<<r, n>>}
      /\ \A o \in DOMAIN taskState : taskState'[o] = taskState[o]
      BY <1>2
<1>4. /\ <<r, n>> \notin DOMAIN taskState /\ r < nextTask /\ r \notin DOMAIN threadTasks
      /\ \A m \in Copy : <<r, m>> \in DOMAIN taskState <=> m \in 1 .. registering.posted
  <2>1. /\ r < nextTask /\ r \notin DOMAIN threadTasks
        /\ \A m \in Copy : <<r, m>> \in DOMAIN taskState <=> m \in 1 .. registering.posted
        BY <1>1 DEF CopyInv, TasksNumbered
  <2>2. n \notin 1 .. registering.posted BY <1>1
  <2>. QED BY <1>1, <2>1, <2>2
<1>5. q \in Pool /\ q \in Packet /\ ~Somewhere(q)
  <2>1. q \in Pool BY <1>1, PoolPackets
  <2>2. Somewhere(q) => <<r, n>> \in DOMAIN taskState BY <1>1 DEF CopyInv, Placed, Posted
  <2>. QED BY <1>4, <2>1, <2>2, PoolPackets
<1>6. Placed'
  <2>1. ASSUME NEW j \in Task, NEW m \in Copy
        PROVE  /\ AtMostOne(PoolPacket(j, m))'
               /\ Somewhere(PoolPacket(j, m))' => <<j, m>> \in Posted'
               /\ <<j, m>> \in Posted' /\ shutting' # "returned"
                     => Somewhere(PoolPacket(j, m))'
    <3>. DEFINE p == PoolPacket(j, m)
    <3>1. p \in Pool BY PoolPackets
    <3>2. p' = p BY DEF PoolPacket
    <3>3. p = q <=> <<j, m>> = <<r, n>> BY <1>1, PoolPackets
    <3>4. /\ AtMostOne(p)
          /\ Somewhere(p) => <<j, m>> \in Posted
          /\ <<j, m>> \in Posted /\ shutting # "returned" => Somewhere(p)
          BY DEF CopyInv, Placed
    <3>7. <<r, n>> \notin unposted BY <1>4 DEF CopyInv, Placed
    <3>. HIDE DEF p, q, r, n
    <3>5. CASE port' = port /\ unposted' = unposted \cup {<<r, n>>}
      <4>1. AtMostOne(p)' /\ (Somewhere(p)' <=> Somewhere(p))
            BY <1>2, <3>2, <3>4, <3>5 DEF AtMostOne, Somewhere
      <4>2. <<j, m>> \in Posted' <=> <<j, m>> \in Posted
            BY <1>3, <1>4, <3>5 DEF Posted
      <4>3. /\ AtMostOne(p)' /\ (Somewhere(p)' => <<j, m>> \in Posted')
            /\ <<j, m>> \in Posted' /\ shutting' # "returned" => Somewhere(p)'
            BY <1>2, <3>4, <4>1, <4>2
      <4>. QED BY <4>3 DEF p
    <3>6. CASE port' = Append(port, q) /\ unposted' = unposted
      <4>1. AtMostOne(p)' /\ (Somewhere(p)' <=> Somewhere(p) \/ q = p)
        <5>1. q = p => ~Somewhere(p) BY <1>5
        <5>. QED BY <1>2, <1>5, <3>1, <3>2, <3>4, <3>6, <5>1, PostPlace DEF TypeInv
      <4>2. <<j, m>> \in Posted' <=> <<j, m>> \in Posted \/ <<j, m>> = <<r, n>>
            BY <1>3, <3>6, <3>7 DEF Posted
      <4>3. /\ AtMostOne(p)' /\ (Somewhere(p)' => <<j, m>> \in Posted')
            /\ <<j, m>> \in Posted' /\ shutting' # "returned" => Somewhere(p)'
            BY <1>2, <3>3, <3>4, <4>1, <4>2
      <4>. QED BY <4>3 DEF p
    <3>. QED BY <1>2, <3>5, <3>6
  <2>2. unposted' \subseteq DOMAIN taskState' BY <1>2, <1>3 DEF CopyInv, Placed
  <2>. QED BY <2>1, <2>2 DEF Placed
<1>7. HandsEmpty' BY <1>2, <1>3, HandsKept
<1>8. VectorsAgree'
  <2>1. \A i \in DOMAIN threadTasks, m \in Copy :
           <<i, m>> \in DOMAIN taskState' <=> <<i, m>> \in DOMAIN taskState
        BY <1>3, <1>4
  <2>. QED BY <1>2, <2>1 DEF CopyInv, VectorsAgree
<1>9. ZeroIsRegistered'
  <2>1. taskState'[<<r, n>>] = 1 BY <1>2, <1>4
  <2>. QED BY <1>2, <1>3, <2>1 DEF CopyInv, ZeroIsRegistered
<1>10. TasksNumbered'
  <2>1. \A i \in Task, m \in Copy : <<i, m>> \in DOMAIN taskState' => i < nextTask
        BY <1>3, <1>4 DEF CopyInv, TasksNumbered
  <2>2. registering'.task = r /\ registering'.posted = n BY <1>1, <1>2
  <2>3. \A m \in Copy : <<r, m>> \in DOMAIN taskState' <=> m \in 1 .. n
    <3>1. \A m \in Copy : m \in 1 .. n <=> m \in 1 .. registering.posted \/ m = n
          BY <1>1, CopiesAreNumbers
    <3>. QED BY <1>3, <1>4, <3>1
  <2>4. \A i \in DOMAIN threadTasks : i < nextTask BY DEF CopyInv, TasksNumbered
  <2>. QED BY <1>2, <1>4, <2>1, <2>2, <2>3, <2>4 DEF TasksNumbered
<1>. QED BY <1>6, <1>7, <1>8, <1>9, <1>10 DEF CopyInv

LEMMA EnvironmentCopies == ASSUME TypeInv, CopyInv, ShutDown \/ ReceiveEnds PROVE CopyInv'
<1>0. TablesSame /\ UNCHANGED workerVars /\ unposted' = unposted
      BY DEF ShutDown, CallShutDown, PostShutDown, DeletePacket, JoinThreads, ReceiveEnds,
             TablesSame, poolVars
<1>1. HandsEmpty' BY <1>0, HandsKept DEF TablesSame
<1>2. UNCHANGED <<pc, packet>> BY <1>0 DEF workerVars
<1>3. CASE /\ shutting' = shutting \/ (shutting' # "returned" /\ shutting # "returned")
           /\ (port' = port \/ \E q \in Packet \ Pool : port' = Append(port, q))
  <2>1. ASSUME NEW p \in Pool, AtMostOne(p)
        PROVE  AtMostOne(p)' /\ (Somewhere(p)' <=> Somewhere(p))
    <3>1. CASE port' = port BY <1>2, <2>1, <3>1 DEF AtMostOne, Somewhere
    <3>2. ASSUME NEW q \in Packet \ Pool, port' = Append(port, q)
          PROVE  AtMostOne(p)' /\ (Somewhere(p)' <=> Somewhere(p))
      <4>1. q # p BY <3>2
      <4>. QED BY <1>2, <2>1, <3>2, <4>1, PostPlace DEF TypeInv
    <3>. QED BY <1>3, <3>1, <3>2
  <2>2. Placed'
    <3>1. \A i \in Task, n \in Copy : PoolPacket(i, n)' = PoolPacket(i, n) BY DEF PoolPacket
    <3>2. \A i \in Task, n \in Copy :
             /\ AtMostOne(PoolPacket(i, n))'
             /\ Somewhere(PoolPacket(i, n))' <=> Somewhere(PoolPacket(i, n))
          BY <2>1, <3>1, PoolPackets DEF CopyInv, Placed
    <3>. QED BY <1>0, <1>3, <3>1, <3>2 DEF CopyInv, Placed, Posted, TablesSame
  <2>. QED BY <1>0, <1>1, <2>2, TablesKept DEF CopyInv
<1>4. CASE JoinThreads
  <2>1. \A w \in Worker : packet[w] = NULL BY <1>4 DEF JoinThreads, CopyInv, HandsEmpty
  <2>2. port' = <<>> /\ DOMAIN port' = {} /\ shutting' = "returned" BY <1>4 DEF JoinThreads
  <2>3. \A i \in Task, n \in Copy : PoolPacket(i, n)' = PoolPacket(i, n) BY DEF PoolPacket
  <2>4. \A i \in Task, n \in Copy : PoolPacket(i, n) # NULL BY PoolPackets
  <2>5. unposted' \subseteq DOMAIN taskState' BY <1>0 DEF CopyInv, Placed, TablesSame
  <2>6. Placed' BY <1>2, <2>1, <2>2, <2>3, <2>4, <2>5 DEF Placed, AtMostOne, Somewhere
  <2>. QED BY <1>0, <1>1, <2>6, TablesKept DEF CopyInv
<1>5. CASE CallShutDown \/ DeletePacket BY <1>3, <1>5 DEF CallShutDown, DeletePacket
<1>6. CASE PostShutDown
  <2>1. [kind |-> "shutdown"] \in Packet BY DEF Packet
  <2>2. [kind |-> "shutdown"] \notin Pool
    <3>1. [kind |-> "shutdown"].kind # "pool" OBVIOUS
    <3>. QED BY <3>1, PoolPackets
  <2>. QED BY <1>3, <1>6, <2>1, <2>2 DEF PostShutDown
<1>7. CASE ReceiveEnds
  <2>1. PICK u \in receiving, l \in {"recv", "failed"} :
           port' = Append(port, [kind |-> l, ov |-> u]) /\ shutting' = shutting
        BY <1>7 DEF ReceiveEnds
  <2>2. [kind |-> l, ov |-> u] \in Packet BY DEF Packet, TypeInv, TypeOK
  <2>3. [kind |-> l, ov |-> u] \notin Pool
    <3>1. [kind |-> l, ov |-> u].kind # "pool" OBVIOUS
    <3>. QED BY <3>1, PoolPackets
  <2>4. \E q \in Packet \ Pool : port' = Append(port, q) BY <2>1, <2>2, <2>3
  <2>. QED BY <1>3, <2>1, <2>4
<1>. QED BY <1>4, <1>5, <1>6, <1>7 DEF ShutDown

LEMMA NextCopies == TypeInv /\ CopyInv /\ [Next]_vars => CopyInv'
<1>. SUFFICES ASSUME TypeInv, CopyInv, [Next]_vars PROVE CopyInv' OBVIOUS
<1>1. CASE UNCHANGED vars
  <2>1. UNCHANGED <<port, packet, shutting, taskState, unposted>> /\ TablesSame
        /\ UNCHANGED workerVars
        BY <1>1 DEF vars, workerVars, poolVars, TablesSame
  <2>2. \A i \in Task, n \in Copy : PoolPacket(i, n)' = PoolPacket(i, n) BY DEF PoolPacket
  <2>3. Placed' BY <2>1, <2>2 DEF CopyInv, Placed, Posted, AtMostOne, Somewhere
  <2>4. HandsEmpty' BY <2>1, HandsKept
  <2>5. VectorsAgree' /\ ZeroIsRegistered' /\ TasksNumbered' BY <2>1, TablesKept
  <2>. QED BY <2>3, <2>4, <2>5 DEF CopyInv
<1>. QED BY <1>1, WorkerCopies, PostCopyCopies, PoolCopies, EnvironmentCopies DEF Next

LEMMA AtMostOneCardinality ==
    ASSUME NEW S, \A x, y \in S : x = y
    PROVE  Cardinality(S) = IF S = {} THEN 0 ELSE 1
<1>1. CASE S = {} BY <1>1, FS_EmptySet
<1>2. CASE S # {}
  <2>1. PICK x \in S : TRUE BY <1>2
  <2>2. S = {x} BY <2>1
  <2>. QED BY <2>2, FS_Singleton
<1>. QED BY <1>1, <1>2

LEMMA CopiesSuffice == CopyInv => CopyInOnePlace
<1>. SUFFICES ASSUME CopyInv, NEW i \in Task, NEW n \in Copy
              PROVE  LET places == Cardinality(AtPort(i, n)) + Cardinality(AtWorker(i, n))
                     IN  IF <<i, n>> \in DOMAIN taskState
                         THEN \/ places = IF <<i, n>> \in unposted THEN 0 ELSE 1
                              \/ places = 0 /\ shutting = "returned"
                         ELSE places = 0
     BY DEF CopyInOnePlace
<1>. DEFINE p == PoolPacket(i, n)
            A == AtPort(i, n)
            W == AtWorker(i, n)
<1>1. /\ \A j, l \in A : j = l
      /\ \A v, w \in W : v = w
      /\ A = {} \/ W = {}
      /\ Somewhere(p) <=> A # {} \/ W # {}
      /\ Somewhere(p) => <<i, n>> \in DOMAIN taskState /\ <<i, n>> \notin unposted
      /\ <<i, n>> \in DOMAIN taskState /\ <<i, n>> \notin unposted /\ shutting # "returned"
            => Somewhere(p)
      BY DEF CopyInv, Placed, Posted, AtMostOne, Somewhere, AtPort, AtWorker
<1>2. /\ Cardinality(A) = IF A = {} THEN 0 ELSE 1
      /\ Cardinality(W) = IF W = {} THEN 0 ELSE 1
  <2>. HIDE DEF A, W
  <2>. QED BY <1>1, AtMostOneCardinality
<1>. HIDE DEF A, W, p
<1>3. Cardinality(A) + Cardinality(W) = IF Somewhere(p) THEN 1 ELSE 0 BY <1>1, <1>2
<1>. QED BY <1>1, <1>3 DEF A, W

\* ThreadPool.cpp:58, callBackFunction: a copy of a task is at the port or with one
\* worker, and goes with its packet, whichever worker finds it unregistered; only a
\* postIocpTask that fails and the end of shutDown lose one.
THEOREM CopyAlwaysInOnePlace == Spec => []CopyInOnePlace
<1>1. Init => TypeInv /\ CopyInv BY InitType, InitCopies
<1>2. (TypeInv /\ CopyInv) /\ [Next]_vars => (TypeInv /\ CopyInv)' BY NextType, NextCopies
<1>. QED BY <1>1, <1>2, CopiesSuffice, PTL DEF Spec
=============================================================================
