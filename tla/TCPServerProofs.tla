--------------------------- MODULE TCPServerProofs ---------------------------
(***************************************************************************)
(* Theorems about TCPServer, for any number of handles, contexts, commands *)
(* and threads of each kind.                                               *)
(***************************************************************************)
EXTENDS TCPServer, TLAPS

\* TypeOK is inductive together with what threads know of their locals.
TypeInv == TypeOK /\ LocalsOK

LEMMA InitTypeInv == Init => TypeInv
<1> SUFFICES ASSUME Init PROVE TypeInv
  OBVIOUS
<1>1. KernelTypeOK
  BY DEF Init, KernelTypeOK, NoIo
<1>2. TableTypeOK
  <2>1. clientsContext \in [DOMAIN clientsContext -> Addr] /\ DOMAIN clientsContext = {}
    BY DEF Init, Empty
  <2>2. clientCmd \in [DOMAIN clientCmd -> Seq(Cmd)] /\ DOMAIN clientCmd = {}
    BY DEF Init, Empty
  <2>3. ctx \in [Addr -> Context]
    BY ConstantAssumption DEF Init, Context
  <2>. QED
    BY <2>1, <2>2, <2>3 DEF Init, TableTypeOK
<1>3. PcTypeOK
  BY DEF Init, PcTypeOK, Thread, Label
<1>4. LocalTypeOK
  BY DEF Init, LocalTypeOK
<1>5. BatchTypeOK
  BY DEF Init, BatchTypeOK
<1>6. LocalsOK
  BY DEF Init, LocalsOK, Thread
<1>. QED
  BY <1>1, <1>2, <1>3, <1>4, <1>5, <1>6 DEF TypeInv, TypeOK

(***************************************************************************)
(* Types of the pieces that several actions share.                         *)
(***************************************************************************)
LEMMA IncrType ==
  ASSUME NEW f \in [Handle -> [Addr -> Nat]], NEW h, NEW a \in Addr
  PROVE  Incr(f, h, a) \in [Handle -> [Addr -> Nat]]
<1>1. CASE h \in Handle
  <2>1. [f[h] EXCEPT ![a] = @ + 1] \in [Addr -> Nat]
    BY <1>1
  <2>. QED
    BY <1>1, <2>1 DEF Incr
<1>2. CASE h \notin Handle
  BY <1>2 DEF Incr
<1>. QED
  BY <1>1, <1>2

LEMMA DecrType ==
  ASSUME NEW f \in [Handle -> [Addr -> Nat]], NEW h \in Handle, NEW a \in Addr, f[h][a] > 0
  PROVE  Decr(f, h, a) \in [Handle -> [Addr -> Nat]]
<1>1. [f[h] EXCEPT ![a] = @ - 1] \in [Addr -> Nat]
  OBVIOUS
<1>. QED
  BY <1>1 DEF Decr

LEMMA NoIoType == NoIo \in [Addr -> Nat]
  BY DEF NoIo

\* What a push of a command leaves in the table of queues.
LEMMA PushType ==
  ASSUME TableTypeOK, NEW h \in DOMAIN clientCmd, NEW c \in Cmd, Push(h, c)
  PROVE  /\ DOMAIN clientCmd' = DOMAIN clientCmd
         /\ clientCmd' \in [DOMAIN clientCmd -> Seq(Cmd)]
<1>1. clientCmd[h] \in Seq(Cmd)
  BY DEF TableTypeOK
<1>2. Append(clientCmd[h], c) \in Seq(Cmd)
  BY <1>1
<1>. QED
  BY <1>2 DEF TableTypeOK, Push

LEMMA SendCmdDataType ==
  ASSUME TableTypeOK, NEW h, NEW c \in Cmd, SendCmdData(h, c)
  PROVE  /\ DOMAIN clientCmd' = DOMAIN clientCmd
         /\ clientCmd' \in [DOMAIN clientCmd -> Seq(Cmd)]
<1>1. CASE h \in DOMAIN clientCmd /\ Push(h, c)
  BY <1>1, PushType
<1>2. CASE UNCHANGED clientCmd
  BY <1>2 DEF TableTypeOK
<1>. QED
  BY <1>1, <1>2 DEF SendCmdData

LEMMA RemoveClientType ==
  ASSUME TypeOK, NEW h, RemoveClient(h)
  PROVE  KernelTypeOK' /\ TableTypeOK'
<1>1. KernelTypeOK'
  BY NoIoType DEF TypeOK, KernelTypeOK, RemoveClient, CloseSocket
<1>2. ctx' \in [Addr -> Context]
  <2>1. CASE h \in DOMAIN clientsContext
    <3>1. clientsContext[h] \in Addr
      BY <2>1 DEF TypeOK, TableTypeOK
    <3>. DEFINE c == ctx[clientsContext[h]]
    <3>2. [c EXCEPT !.server = FALSE] \in Context
      BY <3>1 DEF TypeOK, TableTypeOK, Context
    <3>. QED
      BY <2>1, <3>1, <3>2 DEF TypeOK, TableTypeOK, RemoveClient
  <2>2. CASE h \notin DOMAIN clientsContext
    BY <2>2 DEF TypeOK, TableTypeOK, RemoveClient
  <2>. QED
    BY <2>1, <2>2
<1>3. /\ DOMAIN clientsContext' \subseteq Handle
      /\ clientsContext' \in [DOMAIN clientsContext' -> Addr]
  BY DEF TypeOK, TableTypeOK, RemoveClient, Erase, Restrict
<1>4. /\ DOMAIN clientCmd' \subseteq Handle
      /\ clientCmd' \in [DOMAIN clientCmd' -> Seq(Cmd)]
  BY DEF TypeOK, TableTypeOK, RemoveClient, Erase, Restrict
<1>5. alloc' \subseteq Addr /\ heapCmd' \subseteq Cmd /\ writerWaits' \in BOOLEAN
  BY DEF TypeOK, TableTypeOK, RemoveClient
<1>. QED
  BY <1>1, <1>2, <1>3, <1>4, <1>5 DEF TableTypeOK

(***************************************************************************)
(* Every action preserves TypeInv, part by part.                           *)
(***************************************************************************)
LEMMA AcceptType ==
  ASSUME TypeInv, NEW h \in Handle, Accept(h) PROVE TypeInv'
<1>1. KernelTypeOK'
  BY DEF Accept, TypeInv, TypeOK, KernelTypeOK, ioVars
<1>2. TableTypeOK'
  BY DEF Accept, TypeInv, TypeOK, TableTypeOK, tableVars
<1>3. PcTypeOK'
  BY ThreadAssumption DEF Accept, TypeInv, TypeOK, PcTypeOK, Thread, Label, Goto
<1>4. LocalTypeOK'
  BY DEF Accept, TypeInv, TypeOK, LocalTypeOK
<1>5. BatchTypeOK'
  BY DEF Accept, TypeInv, TypeOK, BatchTypeOK, sendVars
<1>6. LocalsOK'
  BY ThreadAssumption DEF Accept, TypeInv, TypeOK, LocalsOK, LocalTypeOK, Goto,
     sendVars
<1>. QED
  BY <1>1, <1>2, <1>3, <1>4, <1>5, <1>6 DEF TypeInv, TypeOK

LEMMA NewContextType ==
  ASSUME TypeInv, NEW a \in Addr, NewContext(a) PROVE TypeInv'
<1>1. KernelTypeOK'
  BY DEF NewContext, TypeInv, TypeOK, KernelTypeOK, ioVars
<1>2. TableTypeOK'
  BY ConstantAssumption DEF NewContext, TypeInv, TypeOK, TableTypeOK, LocalsOK, Context
<1>3. PcTypeOK'
  BY DEF NewContext, TypeInv, TypeOK, PcTypeOK, Thread, Label, Goto
<1>4. LocalTypeOK'
  BY DEF NewContext, TypeInv, TypeOK, LocalTypeOK
<1>5. BatchTypeOK'
  BY DEF NewContext, TypeInv, TypeOK, BatchTypeOK, sendVars
<1>6. LocalsOK'
  BY ThreadAssumption DEF NewContext, TypeInv, TypeOK, LocalsOK, PcTypeOK, LocalTypeOK, Thread,
     Goto, sendVars
<1>. QED
  BY <1>1, <1>2, <1>3, <1>4, <1>5, <1>6 DEF TypeInv, TypeOK

LEMMA AddNewClientType ==
  ASSUME TypeInv, AddNewClient PROVE TypeInv'
<1>1. KernelTypeOK'
  BY DEF AddNewClient, TypeInv, TypeOK, KernelTypeOK, ioVars
<1>2. TableTypeOK'
  BY DEF AddNewClient, NewQueue, TypeInv, TypeOK, TableTypeOK, LocalsOK, Put
<1>3. PcTypeOK'
  BY DEF AddNewClient, TypeInv, TypeOK, PcTypeOK, Thread, Label, Goto
<1>4. LocalTypeOK'
  BY DEF AddNewClient, TypeInv, TypeOK, LocalTypeOK
<1>5. BatchTypeOK'
  BY DEF AddNewClient, TypeInv, TypeOK, BatchTypeOK, sendVars
<1>6. LocalsOK'
  BY DEF AddNewClient, TypeInv, TypeOK, LocalsOK, PcTypeOK, LocalTypeOK, Thread, Goto,
     SharedHeld
<1>. QED
  BY <1>1, <1>2, <1>3, <1>4, <1>5, <1>6 DEF TypeInv, TypeOK

LEMMA RegNewIocpTaskType ==
  ASSUME TypeInv, RegNewIocpTask PROVE TypeInv'
<1>1. KernelTypeOK'
  BY DEF RegNewIocpTask, TypeInv, TypeOK, KernelTypeOK
<1>2. TableTypeOK'
  BY DEF RegNewIocpTask, TypeInv, TypeOK, TableTypeOK, tableVars
<1>3. PcTypeOK'
  BY DEF RegNewIocpTask, TypeInv, TypeOK, PcTypeOK, Thread, Label, Goto
<1>4. LocalTypeOK'
  BY DEF RegNewIocpTask, TypeInv, TypeOK, LocalTypeOK
<1>5. BatchTypeOK'
  BY DEF RegNewIocpTask, TypeInv, TypeOK, BatchTypeOK, sendVars
<1>6. LocalsOK'
  BY DEF RegNewIocpTask, TypeInv, TypeOK, LocalsOK, PcTypeOK, LocalTypeOK, Thread, Goto,
     sendVars
<1>. QED
  BY <1>1, <1>2, <1>3, <1>4, <1>5, <1>6 DEF TypeInv, TypeOK

LEMMA RecvReqType ==
  ASSUME TypeInv, NEW t \in {acceptor} \cup Worker, RecvReq(t) PROVE TypeInv'
<1>1. KernelTypeOK'
  <2>1. recvs' \in [Handle -> [Addr -> Nat]]
    <3>1. ptr[t] \in Addr
      BY DEF RecvReq, TypeInv, LocalsOK
    <3>2. \/ recvs' = recvs
          \/ recvs' = Incr(recvs, ctx[ptr[t]].s, ptr[t])
      BY DEF RecvReq
    <3>. QED
      BY <3>1, <3>2, IncrType DEF TypeInv, TypeOK, KernelTypeOK
  <2>. QED
    BY <2>1 DEF RecvReq, TypeInv, TypeOK, KernelTypeOK
<1>2. TableTypeOK'
  <2>1. ctx' \in [Addr -> Context]
    <3>1. ptr[t] \in Addr
      BY DEF RecvReq, TypeInv, LocalsOK
    <3>. DEFINE c == ctx[ptr[t]]
    <3>2. c \in Context
      BY <3>1 DEF TypeInv, TypeOK, TableTypeOK
    <3>3. 0 \in 0 .. MaxPerRecv
      BY ConstantAssumption
    <3>4. [c EXCEPT !.data = 0, !.op = "READ"] \in Context
      BY <3>2, <3>3 DEF Context
    <3>. QED
      BY <3>1, <3>4 DEF RecvReq, TypeInv, TypeOK, TableTypeOK
  <2>. QED
    BY <2>1 DEF RecvReq, TypeInv, TypeOK, TableTypeOK, tableVars
<1>3. PcTypeOK'
  BY DEF RecvReq, TypeInv, TypeOK, PcTypeOK, Thread, Label, Goto
<1>4. LocalTypeOK'
  BY DEF RecvReq, TypeInv, TypeOK, LocalTypeOK
<1>5. BatchTypeOK'
  BY DEF RecvReq, TypeInv, TypeOK, BatchTypeOK, sendVars
<1>6. LocalsOK'
  BY DEF RecvReq, TypeInv, TypeOK, LocalsOK, PcTypeOK, LocalTypeOK, Thread,
     Goto, sendVars
<1>. QED
  BY <1>1, <1>2, <1>3, <1>4, <1>5, <1>6 DEF TypeInv, TypeOK

LEMMA RecvReqFailsType ==
  ASSUME TypeInv, NEW t \in {acceptor} \cup Worker, RecvReqFails(t) PROVE TypeInv'
<1>1. KernelTypeOK'
  BY DEF RecvReqFails, TypeInv, TypeOK, KernelTypeOK, ioVars
<1>2. TableTypeOK'
  BY DEF RecvReqFails, TypeInv, TypeOK, TableTypeOK, tableVars
<1>3. PcTypeOK'
  BY DEF RecvReqFails, RecvRefused, TypeInv, TypeOK, PcTypeOK, Thread, Label, Goto
<1>4. LocalTypeOK'
  BY DEF RecvReqFails, RecvRefused, TypeInv, TypeOK, LocalTypeOK, LocalsOK, TableTypeOK,
     Context
<1>5. BatchTypeOK'
  BY DEF RecvReqFails, TypeInv, TypeOK, BatchTypeOK, sendVars
<1>6. LocalsOK'
  BY ThreadAssumption DEF RecvReqFails, RecvRefused, TypeInv, TypeOK, LocalsOK, PcTypeOK,
     LocalTypeOK, Thread, Goto, sendVars
<1>. QED
  BY <1>1, <1>2, <1>3, <1>4, <1>5, <1>6 DEF TypeInv, TypeOK

LEMMA RemoveFailedType ==
  ASSUME TypeInv, NEW t \in {acceptor} \cup Worker \cup Sender, RemoveFailed(t) PROVE TypeInv'
<1>1. KernelTypeOK'
  BY RemoveClientType DEF RemoveFailed, TypeInv
<1>2. TableTypeOK'
  BY RemoveClientType DEF RemoveFailed, TypeInv
<1>3. PcTypeOK'
  BY ThreadAssumption DEF RemoveFailed, TypeInv, TypeOK, PcTypeOK, Thread, Label, Goto
<1>4. LocalTypeOK'
  BY DEF RemoveFailed, TypeInv, TypeOK, LocalTypeOK
<1>5. BatchTypeOK'
  BY DEF RemoveFailed, TypeInv, TypeOK, BatchTypeOK, sendVars
<1>6. LocalsOK'
  BY DEF RemoveFailed, TypeInv, TypeOK, LocalsOK, LocalTypeOK, Goto, SharedHeld,
     RemoveClient
<1>. QED
  BY <1>1, <1>2, <1>3, <1>4, <1>5, <1>6 DEF TypeInv, TypeOK

LEMMA WaitExclusiveType ==
  ASSUME TypeInv, NEW t \in Thread, WaitExclusive(t) PROVE TypeInv'
<1>1. KernelTypeOK'
  BY DEF WaitExclusive, TypeInv, TypeOK, KernelTypeOK, ioVars
<1>2. TableTypeOK'
  BY DEF WaitExclusive, TypeInv, TypeOK, TableTypeOK, tableVars
<1>3. PcTypeOK'
  BY DEF WaitExclusive, TypeInv, TypeOK, PcTypeOK, threadVars
<1>4. LocalTypeOK'
  BY DEF WaitExclusive, TypeInv, TypeOK, LocalTypeOK, threadVars
<1>5. BatchTypeOK'
  BY DEF WaitExclusive, TypeInv, TypeOK, BatchTypeOK, threadVars, sendVars
<1>6. LocalsOK'
  BY DEF WaitExclusive, TypeInv, LocalsOK, threadVars, sendVars
<1>. QED
  BY <1>1, <1>2, <1>3, <1>4, <1>5, <1>6 DEF TypeInv, TypeOK

LEMMA CompletionPortThreadType ==
  ASSUME TypeInv, NEW w \in Worker, NEW a \in Addr, CompletionPortThread(w, a) PROVE TypeInv'
<1>1. KernelTypeOK'
  BY DEF CompletionPortThread, PacketDequeued, TypeInv, TypeOK, KernelTypeOK
<1>2. TableTypeOK'
  BY DEF CompletionPortThread, TypeInv, TypeOK, TableTypeOK, tableVars
<1>3. PcTypeOK'
  BY ThreadAssumption
  DEF CompletionPortThread, TypeInv, TypeOK, PcTypeOK, Thread, Label, Goto
<1>4. LocalTypeOK'
  BY DEF CompletionPortThread, TypeInv, TypeOK, LocalTypeOK
<1>5. BatchTypeOK'
  BY DEF CompletionPortThread, TypeInv, TypeOK, BatchTypeOK, sendVars
<1>6. LocalsOK'
  BY DEF CompletionPortThread, TypeInv, TypeOK, LocalsOK, LocalTypeOK, Goto, sendVars
<1>. QED
  BY <1>1, <1>2, <1>3, <1>4, <1>5, <1>6 DEF TypeInv, TypeOK

LEMMA NetServerCallBackType ==
  ASSUME TypeInv, NEW w \in Worker, NetServerCallBack(w) PROVE TypeInv'
<1>1. KernelTypeOK'
  BY DEF NetServerCallBack, TypeInv, TypeOK, KernelTypeOK, ioVars
<1>2. TableTypeOK'
  BY DEF NetServerCallBack, TypeInv, TypeOK, TableTypeOK, tableVars
<1>3. PcTypeOK'
  BY DEF NetServerCallBack, TypeInv, TypeOK, PcTypeOK, Thread, Label, Goto
<1>4. LocalTypeOK'
  BY DEF NetServerCallBack, TypeInv, TypeOK, LocalTypeOK, LocalsOK, TableTypeOK,
     Context, ioVars, tableVars, sendVars
<1>5. BatchTypeOK'
  BY DEF NetServerCallBack, TypeInv, TypeOK, BatchTypeOK, sendVars
<1>6. LocalsOK'
  <2>1. ptr[w] \in Addr
    BY DEF NetServerCallBack, TypeInv, LocalsOK
  <2>2. CASE pc' = [pc EXCEPT ![w] = "parse"] /\ ptr' = ptr
    BY <2>1, <2>2
    DEF NetServerCallBack, TypeInv, TypeOK, LocalsOK, LocalTypeOK, sendVars
  <2>3. CASE pc' = [pc EXCEPT ![w] = "idle"] /\ ptr' = [ptr EXCEPT ![w] = NULL]
    BY <2>3
    DEF NetServerCallBack, TypeInv, TypeOK, LocalsOK, PcTypeOK, LocalTypeOK, Thread,
       sendVars
  <2>. QED
    BY <2>2, <2>3 DEF NetServerCallBack, Goto
<1>. QED
  BY <1>1, <1>2, <1>3, <1>4, <1>5, <1>6 DEF TypeInv, TypeOK

LEMMA RecvNetCmdDataType ==
  ASSUME TypeInv, NEW w \in Worker, RecvNetCmdData(w) PROVE TypeInv'
<1>1. KernelTypeOK'
  BY DEF RecvNetCmdData, TypeInv, TypeOK, KernelTypeOK, ioVars
<1>2. TableTypeOK'
  <2>1. CASE UNCHANGED <<clientCmd, heapCmd>>
    BY <2>1 DEF RecvNetCmdData, TypeInv, TypeOK, TableTypeOK, tableVars
  <2>2. ASSUME NEW c \in Cmd, heapCmd' = heapCmd \cup {c}, SendCmdData(fd[w], c)
        PROVE  TableTypeOK'
    BY <2>2, SendCmdDataType DEF RecvNetCmdData, TypeInv, TypeOK, TableTypeOK,
       tableVars
  <2>. QED
    BY <2>1, <2>2 DEF RecvNetCmdData
<1>3. PcTypeOK'
  BY DEF RecvNetCmdData, TypeInv, TypeOK, PcTypeOK
<1>4. LocalTypeOK'
  BY DEF RecvNetCmdData, TypeInv, TypeOK, LocalTypeOK
<1>5. BatchTypeOK'
  BY DEF RecvNetCmdData, TypeInv, TypeOK, BatchTypeOK, sendVars
<1>6. LocalsOK'
  BY DEF RecvNetCmdData, TypeInv, LocalsOK, SendCmdData, Push, sendVars
<1>. QED
  BY <1>1, <1>2, <1>3, <1>4, <1>5, <1>6 DEF TypeInv, TypeOK

LEMMA RecvNetCmdDataEndsType ==
  ASSUME TypeInv, NEW w \in Worker, RecvNetCmdDataEnds(w) PROVE TypeInv'
<1>1. KernelTypeOK'
  BY DEF RecvNetCmdDataEnds, TypeInv, TypeOK, KernelTypeOK, ioVars
<1>2. TableTypeOK'
  BY DEF RecvNetCmdDataEnds, TypeInv, TypeOK, TableTypeOK, tableVars
<1>3. PcTypeOK'
  BY DEF RecvNetCmdDataEnds, TypeInv, TypeOK, PcTypeOK, Thread, Label, Goto
<1>4. LocalTypeOK'
  BY DEF RecvNetCmdDataEnds, TypeInv, TypeOK, LocalTypeOK
<1>5. BatchTypeOK'
  BY DEF RecvNetCmdDataEnds, TypeInv, TypeOK, BatchTypeOK, sendVars
<1>6. LocalsOK'
  BY DEF RecvNetCmdDataEnds, TypeInv, LocalsOK, Goto, sendVars
<1>. QED
  BY <1>1, <1>2, <1>3, <1>4, <1>5, <1>6 DEF TypeInv, TypeOK

LEMMA CallSendCmdDataType ==
  ASSUME TypeInv, NEW h \in Handle, NEW c \in Cmd, CallSendCmdData(h, c) PROVE TypeInv'
<1>1. KernelTypeOK'
  BY DEF CallSendCmdData, TypeInv, TypeOK, KernelTypeOK, ioVars
<1>2. TableTypeOK'
  BY SendCmdDataType DEF CallSendCmdData, TypeInv, TypeOK, TableTypeOK, tableVars
<1>3. PcTypeOK'
  BY DEF CallSendCmdData, TypeInv, TypeOK, PcTypeOK, threadVars
<1>4. LocalTypeOK'
  BY DEF CallSendCmdData, TypeInv, TypeOK, LocalTypeOK, threadVars
<1>5. BatchTypeOK'
  BY DEF CallSendCmdData, TypeInv, TypeOK, BatchTypeOK, threadVars, sendVars
<1>6. LocalsOK'
  BY DEF CallSendCmdData, TypeInv, LocalsOK, SendCmdData, Push, threadVars, sendVars
<1>. QED
  BY <1>1, <1>2, <1>3, <1>4, <1>5, <1>6 DEF TypeInv, TypeOK

LEMMA SendThreadType ==
  ASSUME TypeInv, NEW t \in Sender, SendThread(t) PROVE TypeInv'
<1>1. KernelTypeOK'
  BY DEF SendThread, TypeInv, TypeOK, KernelTypeOK, ioVars
<1>2. TableTypeOK'
  BY DEF SendThread, TypeInv, TypeOK, TableTypeOK, tableVars
<1>3. PcTypeOK'
  BY ThreadAssumption DEF SendThread, TypeInv, TypeOK, PcTypeOK, Thread, Label, Goto
<1>4. LocalTypeOK'
  BY DEF SendThread, TypeInv, TypeOK, LocalTypeOK, TableTypeOK
<1>5. BatchTypeOK'
  BY DEF SendThread, TypeInv, TypeOK, BatchTypeOK, sendVars
<1>6. LocalsOK'
  BY DEF SendThread, TypeInv, TypeOK, LocalsOK, LocalTypeOK, Goto, sendVars
<1>. QED
  BY <1>1, <1>2, <1>3, <1>4, <1>5, <1>6 DEF TypeInv, TypeOK

LEMMA PopCmdType ==
  ASSUME TypeInv, NEW t \in Sender, PopCmd(t) PROVE TypeInv'
<1>. DEFINE h == fd[t]
<1>. DEFINE c == Head(clientCmd[h])
<1>1. h \in DOMAIN clientCmd /\ h \in Handle
  BY DEF PopCmd, TypeInv, LocalsOK, TypeOK, TableTypeOK
<1>2. clientCmd[h] \in Seq(Cmd) /\ clientCmd[h] # <<>>
  BY <1>1 DEF PopCmd, TypeInv, TypeOK, TableTypeOK
<1>3. c \in Cmd /\ Tail(clientCmd[h]) \in Seq(Cmd)
  BY <1>2
<1>4. Length[c] \in Nat
  BY <1>3, ConstantAssumption
<1>5. KernelTypeOK'
  BY DEF PopCmd, TypeInv, TypeOK, KernelTypeOK, ioVars
<1>6. DOMAIN clientCmd' = DOMAIN clientCmd /\ TableTypeOK'
  BY <1>1, <1>3 DEF PopCmd, Pop, TypeInv, TypeOK, TableTypeOK, tableVars
<1>7. PcTypeOK'
  BY DEF PopCmd, TypeInv, TypeOK, PcTypeOK, Thread, Label, Goto
<1>8. LocalTypeOK'
  BY DEF PopCmd, TypeInv, TypeOK, LocalTypeOK
<1>9. BatchTypeOK'
  <2>1. CASE cmdLength[t] + Length[c] < SOCKET_BUFFER_SIZE
    <3>1. Append(batch[t][h], c) \in Seq(Cmd)
      BY <1>1, <1>3 DEF TypeInv, TypeOK, BatchTypeOK
    <3>2. [batch[t] EXCEPT ![h] = Append(@, c)] \in [Handle -> Seq(Cmd)]
      BY <1>1, <3>1 DEF TypeInv, TypeOK, BatchTypeOK
    <3>3. batch' = [batch EXCEPT ![t] = [batch[t] EXCEPT ![h] = Append(@, c)]]
      BY <2>1 DEF PopCmd, FitsBuffer
    <3>. QED
      <4>1. batch' \in [Sender -> [Handle -> Seq(Cmd)]]
        BY <3>2, <3>3 DEF TypeInv, TypeOK, BatchTypeOK
      <4>2. cmdLength' = [cmdLength EXCEPT ![t] = @ + Length[c]] /\ hold' = hold
        BY <2>1 DEF PopCmd, FitsBuffer
      <4>3. cmdLength' \in [Sender -> Nat]
        BY <4>2, <1>4 DEF TypeInv, TypeOK, BatchTypeOK
      <4>. QED
        BY <4>1, <4>2, <4>3 DEF TypeInv, TypeOK, BatchTypeOK
  <2>2. CASE ~(cmdLength[t] + Length[c] < SOCKET_BUFFER_SIZE)
    BY <2>2, <1>3 DEF PopCmd, FitsBuffer, TypeInv, TypeOK, BatchTypeOK
  <2>. QED
    BY <2>1, <2>2
<1>10. LocalsOK'
  <2>1. CASE cmdLength[t] + Length[c] < SOCKET_BUFFER_SIZE
    BY <2>1, <1>6 DEF PopCmd, FitsBuffer, TypeInv, LocalsOK
  <2>2. CASE ~(cmdLength[t] + Length[c] < SOCKET_BUFFER_SIZE)
    <3>1. /\ pc' = [pc EXCEPT ![t] = "putback"]
          /\ hold' = [hold EXCEPT ![t] = c]
          /\ UNCHANGED <<fd, todo, ptr>>
      BY <2>2 DEF PopCmd, FitsBuffer, Goto
    <3>2. pc'[t] = "putback" /\ hold'[t] = c
      BY <3>1 DEF TypeInv, TypeOK, PcTypeOK, BatchTypeOK, Thread
    <3>3. \A u \in Thread \ {t} : pc'[u] = pc[u]
      BY <3>1
    <3>4. \A u \in Sender \ {t} : hold'[u] = hold[u]
      BY <3>1
    <3>5. pc[t] = "collect"
      BY DEF PopCmd
    <3>6. pc'[acceptor] \in {"add", "insert"} => fd'[acceptor] \in Handle
      BY <3>1, <3>3 DEF TypeInv, LocalsOK
    <3>7. ASSUME NEW u \in {acceptor} \cup Worker
          PROVE  pc'[u] \in {"insert", "reg", "callback", "parse", "recv", "refused"}
                   => ptr'[u] \in Addr
      BY <3>1, <3>3 DEF TypeInv, LocalsOK
    <3>8. ASSUME NEW u \in Sender \ {t}
          PROVE  /\ pc'[u] \in {"idle", "send"} => fd'[u] = NULL
                 /\ pc'[u] \in {"collect", "putback"} => todo'[u] \subseteq DOMAIN clientCmd'
                 /\ pc'[u] = "collect" => fd'[u] = NULL \/ fd'[u] \in DOMAIN clientCmd'
                 /\ pc'[u] = "putback" => fd'[u] \in DOMAIN clientCmd' /\ hold'[u] \in Cmd
      BY <3>1, <3>3, <3>4, <1>6 DEF TypeInv, LocalsOK
    <3>9. /\ todo'[t] \subseteq DOMAIN clientCmd'
          /\ fd'[t] \in DOMAIN clientCmd'
          /\ hold'[t] \in Cmd
      BY <3>1, <3>2, <3>5, <1>1, <1>3, <1>6 DEF TypeInv, LocalsOK
    <3>. QED
      BY <3>2, <3>6, <3>7, <3>8, <3>9 DEF LocalsOK
  <2>. QED
    BY <2>1, <2>2
<1>. QED
  BY <1>5, <1>6, <1>7, <1>8, <1>9, <1>10 DEF TypeInv, TypeOK

LEMMA PutBackType ==
  ASSUME TypeInv, NEW t \in Sender, PutBack(t) PROVE TypeInv'
<1>1. KernelTypeOK'
  BY DEF PutBack, TypeInv, TypeOK, KernelTypeOK, ioVars
<1>2. TableTypeOK'
  BY DEF PutBack, TypeInv, TypeOK, TableTypeOK, LocalsOK, Push, tableVars
<1>3. PcTypeOK'
  BY DEF PutBack, TypeInv, TypeOK, PcTypeOK, Thread, Label, Goto
<1>4. LocalTypeOK'
  BY DEF PutBack, TypeInv, TypeOK, LocalTypeOK
<1>5. BatchTypeOK'
  BY DEF PutBack, TypeInv, TypeOK, BatchTypeOK
<1>6. LocalsOK'
  BY DEF PutBack, TypeInv, TypeOK, LocalsOK, PcTypeOK, Thread, Goto, Push
<1>. QED
  BY <1>1, <1>2, <1>3, <1>4, <1>5, <1>6 DEF TypeInv, TypeOK

LEMMA ClientDoneType ==
  ASSUME TypeInv, NEW t \in Sender, ClientDone(t) PROVE TypeInv'
<1>1. KernelTypeOK'
  BY DEF ClientDone, TypeInv, TypeOK, KernelTypeOK, ioVars
<1>2. TableTypeOK'
  BY DEF ClientDone, TypeInv, TypeOK, TableTypeOK, tableVars
<1>3. PcTypeOK'
  BY DEF ClientDone, TypeInv, TypeOK, PcTypeOK
<1>4. LocalTypeOK'
  BY DEF ClientDone, TypeInv, TypeOK, LocalTypeOK
<1>5. BatchTypeOK'
  BY DEF ClientDone, TypeInv, TypeOK, BatchTypeOK, sendVars
<1>6. LocalsOK'
  BY DEF ClientDone, TypeInv, LocalsOK, sendVars
<1>. QED
  BY <1>1, <1>2, <1>3, <1>4, <1>5, <1>6 DEF TypeInv, TypeOK

LEMMA EndCollectType ==
  ASSUME TypeInv, NEW t \in Sender, EndCollect(t) PROVE TypeInv'
<1>1. KernelTypeOK'
  BY DEF EndCollect, TypeInv, TypeOK, KernelTypeOK, ioVars
<1>2. TableTypeOK'
  BY DEF EndCollect, TypeInv, TypeOK, TableTypeOK, tableVars
<1>3. PcTypeOK'
  BY DEF EndCollect, TypeInv, TypeOK, PcTypeOK, Thread, Label, Goto
<1>4. LocalTypeOK'
  BY DEF EndCollect, TypeInv, TypeOK, LocalTypeOK
<1>5. BatchTypeOK'
  BY DEF EndCollect, TypeInv, TypeOK, BatchTypeOK
<1>6. LocalsOK'
  BY DEF EndCollect, TypeInv, TypeOK, LocalsOK, PcTypeOK, Thread, Goto
<1>. QED
  BY <1>1, <1>2, <1>3, <1>4, <1>5, <1>6 DEF TypeInv, TypeOK

LEMMA SendThreadEndsType ==
  ASSUME TypeInv, NEW t \in Sender, SendThreadEnds(t) PROVE TypeInv'
<1>1. KernelTypeOK'
  BY DEF SendThreadEnds, TypeInv, TypeOK, KernelTypeOK, ioVars
<1>2. TableTypeOK'
  BY DEF SendThreadEnds, TypeInv, TypeOK, TableTypeOK, tableVars
<1>3. PcTypeOK'
  BY DEF SendThreadEnds, TypeInv, TypeOK, PcTypeOK, Thread, Label, Goto
<1>4. LocalTypeOK'
  BY DEF SendThreadEnds, TypeInv, TypeOK, LocalTypeOK
<1>5. BatchTypeOK'
  BY DEF SendThreadEnds, TypeInv, TypeOK, BatchTypeOK, sendVars
<1>6. LocalsOK'
  BY DEF SendThreadEnds, TypeInv, LocalsOK, Goto, sendVars
<1>. QED
  BY <1>1, <1>2, <1>3, <1>4, <1>5, <1>6 DEF TypeInv, TypeOK

LEMMA NextClientType ==
  ASSUME TypeInv, NEW t \in Sender, NEW h \in Handle, NextClient(t, h) PROVE TypeInv'
<1>1. KernelTypeOK'
  BY DEF NextClient, TypeInv, TypeOK, KernelTypeOK, ioVars
<1>2. TableTypeOK'
  BY DEF NextClient, TypeInv, TypeOK, TableTypeOK, tableVars
<1>3. PcTypeOK'
  BY DEF NextClient, TypeInv, TypeOK, PcTypeOK
<1>4. LocalTypeOK'
  BY DEF NextClient, TypeInv, TypeOK, LocalTypeOK
<1>5. BatchTypeOK'
  BY DEF NextClient, TypeInv, TypeOK, BatchTypeOK
<1>6. LocalsOK'
  BY DEF NextClient, TypeInv, LocalsOK
<1>. QED
  BY <1>1, <1>2, <1>3, <1>4, <1>5, <1>6 DEF TypeInv, TypeOK

LEMMA SendReqType ==
  ASSUME TypeInv, NEW t \in Sender, NEW h \in Handle, SendReq(t, h) PROVE TypeInv'
<1>1. KernelTypeOK'
  <2>1. sends' \in [Handle -> [Addr -> Nat]]
    <3>1. \/ sends' = sends
          \/ /\ h \in DOMAIN clientsContext
             /\ sends' = Incr(sends, h, clientsContext[h])
      BY DEF SendReq, PostSend
    <3>. QED
      <4>1. h \in DOMAIN clientsContext => clientsContext[h] \in Addr
        BY DEF TypeInv, TypeOK, TableTypeOK
      <4>. QED
        BY <3>1, <4>1, IncrType DEF TypeInv, TypeOK, KernelTypeOK
  <2>. QED
    BY <2>1 DEF SendReq, TypeInv, TypeOK, KernelTypeOK
<1>2. TableTypeOK'
  BY DEF SendReq, PostSend, TypeInv, TypeOK, TableTypeOK, tableVars
<1>3. PcTypeOK'
  BY DEF SendReq, TypeInv, TypeOK, PcTypeOK, Thread, Label, Goto
<1>4. LocalTypeOK'
  BY DEF SendReq, TypeInv, TypeOK, LocalTypeOK
<1>5. BatchTypeOK'
  BY DEF SendReq, TypeInv, TypeOK, BatchTypeOK
<1>6. LocalsOK'
  BY DEF SendReq, TypeInv, TypeOK, LocalsOK, PcTypeOK, LocalTypeOK, Thread, Goto
<1>. QED
  BY <1>1, <1>2, <1>3, <1>4, <1>5, <1>6 DEF TypeInv, TypeOK

LEMMA HeartRemoveType ==
  ASSUME TypeInv, NEW t \in Heart, NEW h \in Handle, HeartRemove(t, h) PROVE TypeInv'
<1>1. KernelTypeOK'
  BY RemoveClientType DEF HeartRemove, TypeInv
<1>2. TableTypeOK'
  BY RemoveClientType DEF HeartRemove, TypeInv
<1>3. PcTypeOK'
  BY DEF HeartRemove, TypeInv, TypeOK, PcTypeOK, Thread, Label, Goto
<1>4. LocalTypeOK'
  BY DEF HeartRemove, TypeInv, TypeOK, LocalTypeOK
<1>5. BatchTypeOK'
  BY DEF HeartRemove, TypeInv, TypeOK, BatchTypeOK, sendVars
<1>6. LocalsOK'
  BY ThreadAssumption DEF HeartRemove, TypeInv, LocalsOK, Goto, SharedHeld,
     RemoveClient
<1>. QED
  BY <1>1, <1>2, <1>3, <1>4, <1>5, <1>6 DEF TypeInv, TypeOK

LEMMA HeartCheckTimerType ==
  ASSUME TypeInv, NEW t \in Heart, HeartCheckTimer(t) PROVE TypeInv'
<1>1. KernelTypeOK'
  BY DEF HeartCheckTimer, TypeInv, TypeOK, KernelTypeOK, ioVars
<1>2. TableTypeOK'
  BY DEF HeartCheckTimer, TypeInv, TypeOK, TableTypeOK, tableVars
<1>3. PcTypeOK'
  BY ThreadAssumption
  DEF HeartCheckTimer, TypeInv, TypeOK, PcTypeOK, Thread, Label, Goto
<1>4. LocalTypeOK'
  BY DEF HeartCheckTimer, TypeInv, TypeOK, LocalTypeOK, TableTypeOK
<1>5. BatchTypeOK'
  BY DEF HeartCheckTimer, TypeInv, TypeOK, BatchTypeOK, sendVars
<1>6. LocalsOK'
  BY DEF HeartCheckTimer, TypeInv, LocalsOK, Goto, sendVars
<1>. QED
  BY <1>1, <1>2, <1>3, <1>4, <1>5, <1>6 DEF TypeInv, TypeOK

LEMMA RecvCompletesType ==
  ASSUME TypeInv, NEW h \in Handle, NEW a \in Addr, NEW n \in 0 .. MaxPerRecv, RecvCompletes(h, a, n) PROVE TypeInv'
<1>1. KernelTypeOK'
  BY DecrType DEF RecvCompletes, QueuePacket, TypeInv, TypeOK, KernelTypeOK
<1>2. TableTypeOK'
  <2>1. ctx' \in [Addr -> Context]
    <3>1. [ctx[a] EXCEPT !.data = IF n > @ THEN n ELSE @] \in Context
      BY DEF TypeInv, TypeOK, TableTypeOK, Context
    <3>. QED
      BY <3>1 DEF RecvCompletes, TypeInv, TypeOK, TableTypeOK
  <2>. QED
    BY <2>1 DEF RecvCompletes, TypeInv, TypeOK, TableTypeOK, tableVars
<1>3. PcTypeOK'
  BY DEF RecvCompletes, TypeInv, TypeOK, PcTypeOK, threadVars
<1>4. LocalTypeOK'
  BY DEF RecvCompletes, TypeInv, TypeOK, LocalTypeOK, threadVars
<1>5. BatchTypeOK'
  BY DEF RecvCompletes, TypeInv, TypeOK, BatchTypeOK, threadVars, sendVars
<1>6. LocalsOK'
  BY DEF RecvCompletes, TypeInv, LocalsOK, threadVars, sendVars
<1>. QED
  BY <1>1, <1>2, <1>3, <1>4, <1>5, <1>6 DEF TypeInv, TypeOK

LEMMA SendCompletesType ==
  ASSUME TypeInv, NEW h \in Handle, NEW a \in Addr, SendCompletes(h, a) PROVE TypeInv'
<1>1. KernelTypeOK'
  BY DecrType DEF SendCompletes, QueuePacket, TypeInv, TypeOK, KernelTypeOK
<1>2. TableTypeOK'
  BY DEF SendCompletes, TypeInv, TypeOK, TableTypeOK, tableVars
<1>3. PcTypeOK'
  BY DEF SendCompletes, TypeInv, TypeOK, PcTypeOK, threadVars
<1>4. LocalTypeOK'
  BY DEF SendCompletes, TypeInv, TypeOK, LocalTypeOK, threadVars
<1>5. BatchTypeOK'
  BY DEF SendCompletes, TypeInv, TypeOK, BatchTypeOK, threadVars, sendVars
<1>6. LocalsOK'
  BY DEF SendCompletes, TypeInv, LocalsOK, threadVars, sendVars
<1>. QED
  BY <1>1, <1>2, <1>3, <1>4, <1>5, <1>6 DEF TypeInv, TypeOK

LEMMA IoFailsType ==
  ASSUME TypeInv, NEW h \in Handle, NEW a \in Addr, IoFails(h, a) PROVE TypeInv'
<1>1. KernelTypeOK'
  <2>1. recvs' \in [Handle -> [Addr -> Nat]] /\ sends' \in [Handle -> [Addr -> Nat]]
    <3>1. \/ /\ recvs[h][a] > 0 /\ recvs' = Decr(recvs, h, a)
             /\ sends' = sends
          \/ /\ sends[h][a] > 0 /\ sends' = Decr(sends, h, a)
             /\ recvs' = recvs
      BY DEF IoFails
    <3>. QED
      BY <3>1, DecrType DEF TypeInv, TypeOK, KernelTypeOK
  <2>. QED
    BY <2>1 DEF IoFails, TypeInv, TypeOK, KernelTypeOK
<1>2. TableTypeOK'
  BY DEF IoFails, TypeInv, TypeOK, TableTypeOK, tableVars
<1>3. PcTypeOK'
  BY DEF IoFails, TypeInv, TypeOK, PcTypeOK, threadVars
<1>4. LocalTypeOK'
  BY DEF IoFails, TypeInv, TypeOK, LocalTypeOK, threadVars
<1>5. BatchTypeOK'
  BY DEF IoFails, TypeInv, TypeOK, BatchTypeOK, threadVars, sendVars
<1>6. LocalsOK'
  BY DEF IoFails, TypeInv, LocalsOK, threadVars, sendVars
<1>. QED
  BY <1>1, <1>2, <1>3, <1>4, <1>5, <1>6 DEF TypeInv, TypeOK

LEMMA PeerBreaksType ==
  ASSUME TypeInv, NEW h \in Handle, PeerBreaks(h) PROVE TypeInv'
<1>1. KernelTypeOK'
  BY DEF PeerBreaks, TypeInv, TypeOK, KernelTypeOK, ioVars
<1>2. TableTypeOK'
  BY DEF PeerBreaks, TypeInv, TypeOK, TableTypeOK, tableVars
<1>3. PcTypeOK'
  BY DEF PeerBreaks, TypeInv, TypeOK, PcTypeOK, threadVars
<1>4. LocalTypeOK'
  BY DEF PeerBreaks, TypeInv, TypeOK, LocalTypeOK, threadVars
<1>5. BatchTypeOK'
  BY DEF PeerBreaks, TypeInv, TypeOK, BatchTypeOK, threadVars, sendVars
<1>6. LocalsOK'
  BY DEF PeerBreaks, TypeInv, LocalsOK, threadVars, sendVars
<1>. QED
  BY <1>1, <1>2, <1>3, <1>4, <1>5, <1>6 DEF TypeInv, TypeOK

\* The variables change, or one of the actions fired.
LEMMA TypeInvStep == TypeInv /\ [Next]_vars => TypeInv'
<1>1. ASSUME TypeInv, UNCHANGED vars PROVE TypeInv'
  BY <1>1
  DEF vars, ioVars, tableVars, threadVars, sendVars, TypeInv, TypeOK, LocalsOK,
     KernelTypeOK, TableTypeOK, PcTypeOK, LocalTypeOK, BatchTypeOK
<1>2. ASSUME TypeInv, AcceptThread PROVE TypeInv'
  BY <1>2, AcceptType, NewContextType, AddNewClientType, RegNewIocpTaskType, RecvReqType,
     RecvReqFailsType, RemoveFailedType DEF AcceptThread
<1>3. ASSUME TypeInv, NEW w \in Worker, WorkerStep(w) PROVE TypeInv'
  BY <1>3, CompletionPortThreadType, NetServerCallBackType, RecvNetCmdDataType,
     RecvNetCmdDataEndsType, RecvReqType, RecvReqFailsType, RemoveFailedType
  DEF WorkerStep
<1>4. ASSUME TypeInv, NEW t \in Sender, SenderStep(t) PROVE TypeInv'
  BY <1>4, SendThreadType, NextClientType, SendReqType, PopCmdType, PutBackType,
     ClientDoneType, EndCollectType, RemoveFailedType, SendThreadEndsType DEF SenderStep
<1>5. ASSUME TypeInv, NEW t \in Heart, HeartStep(t) PROVE TypeInv'
  BY <1>5, HeartCheckTimerType, HeartRemoveType DEF HeartStep
<1>6. ASSUME TypeInv, Environment PROVE TypeInv'
  BY <1>6, PeerBreaksType, CallSendCmdDataType, RecvCompletesType, SendCompletesType,
     IoFailsType DEF Environment
<1>. QED
  BY <1>1, <1>2, <1>3, <1>4, <1>5, <1>6, WaitExclusiveType DEF Next

\* Type correctness: whatever threads of the server do, the tables, the kernel's
\* counters and the threads' locals keep their shapes.
THEOREM TypeCorrect == Spec => []TypeOK
<1>1. Init => TypeInv
  BY InitTypeInv
<1>2. TypeInv /\ [Next]_vars => TypeInv'
  BY TypeInvStep
<1>3. TypeInv => TypeOK
  BY DEF TypeInv
<1>. QED
  BY <1>1, <1>2, <1>3, PTL DEF Spec

(***************************************************************************)
(* The two tables, the heap and the sockets agree.                         *)
(***************************************************************************)
Inv == TypeInv /\ TablesAgree

\* The acceptor has a socket that is not in the tables yet.
Adding == pc[acceptor] \in {"add", "insert"}

\* A step that leaves the tables, the owner of each context, the open sockets
\* and the client the acceptor is adding as they are keeps the agreement.
LEMMA TablesStutter ==
  ASSUME Inv, TypeInv',
         clientsContext' = clientsContext,
         DOMAIN clientCmd' = DOMAIN clientCmd,
         alloc' = alloc,
         \A h \in Handle : sock'[h] = "free" <=> sock[h] = "free",
         \A a \in Addr : ctx'[a].s = ctx[a].s /\ ctx'[a].server = ctx[a].server,
         Adding \/ Adding' => /\ pc'[acceptor] = pc[acceptor]
                              /\ fd'[acceptor] = fd[acceptor]
                              /\ ptr'[acceptor] = ptr[acceptor]
  PROVE  TablesAgree'
<1>1. DOMAIN clientsContext \subseteq Handle
      /\ \A h \in DOMAIN clientsContext : clientsContext[h] \in Addr
  BY DEF TypeInv, TypeOK, TableTypeOK
<1>2. NewContexts' = NewContexts /\ NewContexts \subseteq Addr
  BY DEF NewContexts, Adding, Inv, TypeInv, LocalsOK
<1>3. \A a \in NewContexts : ctx'[a].s = fd'[acceptor] /\ ctx'[a].server
  BY <1>2 DEF Inv, TablesAgree, NewContexts, Adding
<1>. QED
  BY <1>1, <1>2, <1>3 DEF Inv, TablesAgree, Adding

\* No two clients share a context: each context names its client.
LEMMA OneClientPerContext ==
  ASSUME TablesAgree, NEW g \in DOMAIN clientsContext, NEW h \in DOMAIN clientsContext,
         clientsContext[g] = clientsContext[h]
  PROVE  g = h
  BY DEF TablesAgree

LEMMA RemoveClientTables ==
  ASSUME Inv, NEW h, RemoveClient(h),
         Adding \/ Adding' => /\ pc'[acceptor] = pc[acceptor]
                              /\ fd'[acceptor] = fd[acceptor]
                              /\ ptr'[acceptor] = ptr[acceptor]
  PROVE  TablesAgree'
<1>. USE DEF Inv, TypeInv, TypeOK, TableTypeOK, KernelTypeOK
<1>0. NewContexts' = NewContexts /\ NewContexts \subseteq Addr
  BY DEF NewContexts, Adding, LocalsOK
<1>1. CASE h \in DOMAIN clientsContext
  <2>. DEFINE a == clientsContext[h]
  <2>1. a \in Addr /\ h \in Handle /\ h \in DOMAIN clientCmd
    BY <1>1 DEF TablesAgree
  <2>2. /\ clientsContext' = [g \in DOMAIN clientsContext \ {h} |-> clientsContext[g]]
        /\ DOMAIN clientCmd' = DOMAIN clientCmd \ {h}
        /\ sock' = [sock EXCEPT ![h] = "free"]
        /\ alloc' = alloc \ {a}
        /\ ctx' = [ctx EXCEPT ![a].server = FALSE]
    BY <1>1, <2>1 DEF RemoveClient, CloseSocket, Erase, Restrict
  <2>3. \A g \in DOMAIN clientsContext' :
          /\ sock'[g] # "free"
          /\ ctx'[clientsContext'[g]].s = g
          /\ ctx'[clientsContext'[g]].server
    <3>. TAKE g \in DOMAIN clientsContext'
    <3>1. g \in DOMAIN clientsContext /\ g # h /\ clientsContext'[g] = clientsContext[g]
      BY <2>2
    <3>2. clientsContext[g] # a /\ clientsContext[g] \in Addr
      BY <1>1, <3>1, OneClientPerContext
    <3>. QED
      BY <2>1, <2>2, <3>1, <3>2 DEF TablesAgree
  <2>4. /\ alloc' = Range(clientsContext') \cup NewContexts'
        /\ Range(clientsContext') \cap NewContexts' = {}
    <3>1. \A g \in DOMAIN clientsContext \ {h} : clientsContext[g] # a
      BY <1>1, OneClientPerContext
    <3>2. Range(clientsContext') = Range(clientsContext) \ {a}
      BY <1>1, <2>2, <3>1 DEF Range
    <3>3. a \notin NewContexts
      BY <1>1 DEF TablesAgree, Range
    <3>4. alloc = Range(clientsContext) \cup NewContexts /\ alloc' = alloc \ {a}
      BY <2>2 DEF TablesAgree
    <3>5. Range(clientsContext) \cap NewContexts = {}
      BY DEF TablesAgree
    <3>6. NewContexts' = NewContexts
      BY <1>0
    <3>. HIDE DEF a
    <3>. QED
      BY ONLY <3>2, <3>3, <3>4, <3>5, <3>6
  <2>5. \A g \in Handle : sock'[g] # "free" =>
          g \in DOMAIN clientsContext' \/ (Adding' /\ fd'[acceptor] = g)
    BY <2>1, <2>2 DEF TablesAgree, Adding
  <2>6. Adding' => /\ fd'[acceptor] \in Handle \ DOMAIN clientsContext'
                   /\ sock'[fd'[acceptor]] # "free"
    BY <1>1, <2>1, <2>2 DEF TablesAgree, Adding
  <2>8. \A b \in NewContexts' : ctx'[b].s = fd'[acceptor] /\ ctx'[b].server
    <3>1. a \notin NewContexts
      BY <1>1 DEF TablesAgree, Range
    <3>2. NewContexts # {} => fd'[acceptor] = fd[acceptor]
      BY DEF NewContexts, Adding
    <3>. QED
      BY <1>0, <2>1, <2>2, <3>1, <3>2 DEF TablesAgree
  <2>7. DOMAIN clientCmd' = DOMAIN clientsContext'
    BY <2>2 DEF TablesAgree
  <2>. QED
    BY <2>3, <2>4, <2>5, <2>6, <2>7, <2>8 DEF TablesAgree, Adding
<1>2. CASE h \notin DOMAIN clientsContext
  <2>1. clientsContext' = clientsContext /\ DOMAIN clientCmd' = DOMAIN clientCmd
    BY <1>2 DEF TablesAgree, RemoveClient, Erase, Restrict
  <2>2. UNCHANGED <<sock, ctx, alloc>>
    BY <1>2 DEF TablesAgree, RemoveClient
  <2>3. NewContexts # {} => fd'[acceptor] = fd[acceptor]
    BY DEF NewContexts, Adding
  <2>. QED
    BY <1>0, <2>1, <2>2, <2>3 DEF TablesAgree, Adding
<1>. QED
  BY <1>1, <1>2

LEMMA InitTables == Init => TablesAgree
<1>. SUFFICES ASSUME Init PROVE TablesAgree
  OBVIOUS
<1>1. DOMAIN clientsContext = {} /\ DOMAIN clientCmd = {} /\ Range(clientsContext) = {}
  BY DEF Init, Empty, Range
<1>2. pc[acceptor] = "idle" /\ alloc = {} /\ \A h \in Handle : sock[h] = "free"
  BY DEF Init, Thread
<1>3. NewContexts = {}
  BY <1>2 DEF NewContexts
<1>. QED
  BY <1>1, <1>2, <1>3 DEF TablesAgree

LEMMA AcceptTables ==
  ASSUME Inv, NEW h \in Handle, Accept(h) PROVE TablesAgree'
<1>. USE DEF Inv, TypeInv, TypeOK, TableTypeOK, KernelTypeOK, LocalTypeOK, PcTypeOK, Thread
<1>1. h \notin DOMAIN clientsContext
  BY DEF Accept, TablesAgree
<1>2. /\ sock' = [sock EXCEPT ![h] = "up"]
      /\ fd'[acceptor] = h
      /\ pc'[acceptor] = "add"
      /\ pc[acceptor] = "idle"
      /\ UNCHANGED <<ctx, clientsContext, alloc, clientCmd>>
  BY DEF Accept, Goto, tableVars
<1>3. NewContexts = {} /\ NewContexts' = {}
  BY <1>2 DEF NewContexts
<1>. QED
  BY <1>1, <1>2, <1>3 DEF TablesAgree

LEMMA NewContextTables ==
  ASSUME Inv, NEW a \in Addr, NewContext(a) PROVE TablesAgree'
<1>. USE DEF Inv, TypeInv, TypeOK, TableTypeOK, KernelTypeOK, LocalTypeOK, PcTypeOK, Thread
<1>. DEFINE h == fd[acceptor]
<1>1. h \in Handle \ DOMAIN clientsContext /\ sock[h] # "free"
  BY DEF NewContext, TablesAgree
<1>2. /\ ctx' = [ctx EXCEPT ![a] = [s |-> h, server |-> TRUE, op |-> "NONE", data |-> 0]]
      /\ alloc' = alloc \cup {a}
      /\ UNCHANGED <<sock, fd, clientsContext, clientCmd>>
      /\ pc'[acceptor] = "insert"
      /\ pc[acceptor] = "add"
      /\ ptr'[acceptor] = a
      /\ a \notin alloc
  BY DEF NewContext, Goto
<1>3. NewContexts = {} /\ NewContexts' = {a}
  BY <1>2 DEF NewContexts
<1>4. alloc = Range(clientsContext)
  BY <1>3 DEF TablesAgree
<1>5. \A g \in DOMAIN clientsContext : clientsContext[g] \in alloc
  BY <1>4 DEF Range
<1>6. \A g \in DOMAIN clientsContext' :
        /\ sock'[g] # "free"
        /\ ctx'[clientsContext'[g]].s = g
        /\ ctx'[clientsContext'[g]].server
  BY <1>2, <1>5 DEF TablesAgree
<1>7. ctx'[a].s = fd'[acceptor] /\ ctx'[a].server
  BY <1>2
<1>8. /\ alloc' = Range(clientsContext') \cup NewContexts'
      /\ Range(clientsContext') \cap NewContexts' = {}
  BY <1>2, <1>3, <1>4
<1>9. \A g \in Handle : sock'[g] # "free" => g \in DOMAIN clientsContext' \/ fd'[acceptor] = g
  BY <1>2 DEF TablesAgree
<1>. QED
  BY <1>1, <1>2, <1>3, <1>6, <1>7, <1>8, <1>9 DEF TablesAgree

LEMMA AddNewClientTables ==
  ASSUME Inv, AddNewClient PROVE TablesAgree'
<1>. USE DEF Inv, TypeInv, TypeOK, TableTypeOK, KernelTypeOK, LocalTypeOK, PcTypeOK, Thread
<1>. DEFINE h == fd[acceptor]
            a == ptr[acceptor]
<1>1. h \in Handle \ DOMAIN clientsContext /\ sock[h] # "free" /\ a \in Addr
  BY DEF AddNewClient, TablesAgree, LocalsOK
<1>2. /\ clientsContext' = [x \in DOMAIN clientsContext \cup {h} |->
                              IF x = h THEN a ELSE clientsContext[x]]
      /\ DOMAIN clientCmd' = DOMAIN clientCmd \cup {h}
      /\ UNCHANGED <<sock, ctx, alloc>>
      /\ pc'[acceptor] = "reg"
      /\ pc[acceptor] = "insert"
  BY DEF AddNewClient, NewQueue, Goto, Put
<1>3. NewContexts = {a} /\ NewContexts' = {}
  BY <1>2 DEF NewContexts
<1>4. \A g \in DOMAIN clientsContext' :
        /\ sock'[g] # "free"
        /\ ctx'[clientsContext'[g]].s = g
        /\ ctx'[clientsContext'[g]].server
  BY <1>1, <1>2, <1>3 DEF TablesAgree
<1>5. alloc' = Range(clientsContext')
  <2>1. /\ DOMAIN clientsContext' = DOMAIN clientsContext \cup {h}
        /\ clientsContext'[h] = a
        /\ \A g \in DOMAIN clientsContext : clientsContext'[g] = clientsContext[g]
    BY <1>1, <1>2
  <2>2. Range(clientsContext') = Range(clientsContext) \cup {a}
    BY <2>1 DEF Range
  <2>. QED
    BY <1>2, <1>3, <2>2 DEF TablesAgree
<1>6. DOMAIN clientCmd' = DOMAIN clientsContext'
  BY <1>2 DEF TablesAgree
<1>7. \A g \in Handle : sock'[g] # "free" => g \in DOMAIN clientsContext'
  BY <1>2 DEF TablesAgree
<1>8. /\ alloc' = Range(clientsContext') \cup NewContexts'
      /\ Range(clientsContext') \cap NewContexts' = {}
  BY <1>3, <1>5
<1>. QED
  BY ONLY <1>2, <1>3, <1>4, <1>6, <1>7, <1>8 DEF TablesAgree

\* Receives and completions write a context's buffer and op, never its owner.
LEMMA OwnersStay ==
  ASSUME TypeOK,
         \/ UNCHANGED ctx
         \/ \E t \in {acceptor} \cup Worker : RecvReq(t)
         \/ \E h \in Handle, a \in Addr, n \in 0 .. MaxPerRecv : RecvCompletes(h, a, n)
  PROVE  \A a \in Addr : ctx'[a].s = ctx[a].s /\ ctx'[a].server = ctx[a].server
<1>. USE DEF TypeOK, TableTypeOK, Context
<1>1. CASE UNCHANGED ctx
  BY <1>1
<1>2. ASSUME NEW t \in {acceptor} \cup Worker, RecvReq(t)
      PROVE  \A a \in Addr : ctx'[a].s = ctx[a].s /\ ctx'[a].server = ctx[a].server
  BY <1>2 DEF RecvReq
<1>3. ASSUME NEW h \in Handle, NEW b \in Addr, NEW n \in 0 .. MaxPerRecv, RecvCompletes(h, b, n)
      PROVE  \A a \in Addr : ctx'[a].s = ctx[a].s /\ ctx'[a].server = ctx[a].server
  BY <1>3 DEF RecvCompletes
<1>. QED
  BY <1>1, <1>2, <1>3

LEMMA TablesStep == Inv /\ [Next]_vars => TablesAgree'
<1>. SUFFICES ASSUME Inv, [Next]_vars PROVE TablesAgree'
  OBVIOUS
<1>. USE DEF Inv, Adding
<1>0. TypeInv'
  BY TypeInvStep
<1>1. CASE UNCHANGED vars
  BY <1>1 DEF vars, tableVars, threadVars, TablesAgree, NewContexts
<1>2. CASE AcceptThread
  <2>1. ASSUME NEW h \in Handle, Accept(h) PROVE TablesAgree'
    BY <2>1, AcceptTables
  <2>2. ASSUME NEW a \in Addr, NewContext(a) PROVE TablesAgree'
    BY <2>2, NewContextTables
  <2>7. CASE AddNewClient
    BY <2>7, AddNewClientTables
  <2>3. CASE RegNewIocpTask
    BY <2>3, <1>0, TablesStutter
    DEF RegNewIocpTask, Goto, tableVars, TypeInv, TypeOK, PcTypeOK
  <2>4. CASE RecvReq(acceptor)
    BY <2>4, <1>0, TablesStutter
    DEF RecvReq, Goto, tableVars, TypeInv, TypeOK, PcTypeOK, Thread
  <2>5. CASE RemoveFailed(acceptor)
    BY <2>5, RemoveClientTables, ThreadAssumption
    DEF RemoveFailed, Goto, TypeInv, TypeOK, PcTypeOK, Thread
  <2>6. CASE RecvReqFails(acceptor)
    BY <2>6, <1>0, TablesStutter
    DEF RecvReqFails, RecvRefused, Goto, tableVars, TypeInv, TypeOK, PcTypeOK, Thread
  <2>. QED
    BY <1>2, <2>1, <2>2, <2>3, <2>4, <2>5, <2>6, <2>7 DEF AcceptThread
<1>3. ASSUME NEW w \in Worker, WorkerStep(w) PROVE TablesAgree'
  <2>. USE ThreadAssumption DEF TypeInv, TypeOK, PcTypeOK, LocalTypeOK, Thread, Goto, tableVars
  <2>1. ASSUME NEW a \in Addr, CompletionPortThread(w, a) PROVE TablesAgree'
    BY <2>1, <1>0, TablesStutter DEF CompletionPortThread
  <2>2. CASE NetServerCallBack(w)
    BY <2>2, <1>0, TablesStutter DEF NetServerCallBack
  <2>3. CASE RecvNetCmdData(w)
    <3>1. DOMAIN clientCmd' = DOMAIN clientCmd
      BY <2>3, SendCmdDataType DEF RecvNetCmdData
    <3>. QED
      BY <2>3, <3>1, <1>0, TablesStutter DEF RecvNetCmdData
  <2>4. CASE RecvNetCmdDataEnds(w)
    BY <2>4, <1>0, TablesStutter DEF RecvNetCmdDataEnds
  <2>5. CASE RecvReq(w)
    BY <2>5, <1>0, TablesStutter DEF RecvReq
  <2>6. CASE RemoveFailed(w)
    BY <2>6, RemoveClientTables DEF RemoveFailed
  <2>7. CASE RecvReqFails(w)
    BY <2>7, <1>0, TablesStutter DEF RecvReqFails, RecvRefused
  <2>. QED
    BY <1>3, <2>1, <2>2, <2>3, <2>4, <2>5, <2>6, <2>7 DEF WorkerStep
<1>4. ASSUME NEW t \in Sender, SenderStep(t) PROVE TablesAgree'
  <2>. USE ThreadAssumption DEF TypeInv, TypeOK, PcTypeOK, LocalTypeOK, Thread, Goto, tableVars
  <2>1. CASE SendThread(t)
    BY <2>1, <1>0, TablesStutter DEF SendThread
  <2>2. ASSUME NEW h \in Handle, NextClient(t, h) PROVE TablesAgree'
    BY <2>2, <1>0, TablesStutter DEF NextClient
  <2>3. ASSUME NEW h \in Handle, SendReq(t, h) PROVE TablesAgree'
    BY <2>3, <1>0, TablesStutter DEF SendReq, PostSend
  <2>4. CASE PopCmd(t)
    <3>1. DOMAIN clientCmd' = DOMAIN clientCmd
      BY <2>4 DEF PopCmd, Pop
    <3>. QED
      BY <2>4, <3>1, <1>0, TablesStutter DEF PopCmd
  <2>5. CASE PutBack(t)
    <3>1. DOMAIN clientCmd' = DOMAIN clientCmd
      BY <2>5 DEF PutBack, Push
    <3>. QED
      BY <2>5, <3>1, <1>0, TablesStutter DEF PutBack
  <2>6. CASE ClientDone(t)
    BY <2>6, <1>0, TablesStutter DEF ClientDone
  <2>7. CASE EndCollect(t)
    BY <2>7, <1>0, TablesStutter DEF EndCollect
  <2>8. CASE RemoveFailed(t)
    BY <2>8, RemoveClientTables DEF RemoveFailed
  <2>9. CASE SendThreadEnds(t)
    BY <2>9, <1>0, TablesStutter DEF SendThreadEnds
  <2>. QED
    BY <1>4, <2>1, <2>2, <2>3, <2>4, <2>5, <2>6, <2>7, <2>8, <2>9 DEF SenderStep
<1>5. ASSUME NEW t \in Heart, HeartStep(t) PROVE TablesAgree'
  <2>. USE ThreadAssumption DEF TypeInv, TypeOK, PcTypeOK, LocalTypeOK, Thread, Goto, tableVars
  <2>1. CASE HeartCheckTimer(t)
    BY <2>1, <1>0, TablesStutter DEF HeartCheckTimer
  <2>2. ASSUME NEW h \in Handle, HeartRemove(t, h) PROVE TablesAgree'
    BY <2>2, RemoveClientTables DEF HeartRemove
  <2>. QED
    BY <1>5, <2>1, <2>2 DEF HeartStep
<1>6. CASE Environment
  <2>. USE DEF TypeInv, TypeOK, tableVars, threadVars
  <2>1. ASSUME NEW h \in Handle, PeerBreaks(h) PROVE TablesAgree'
    BY <2>1, <1>0, TablesStutter DEF PeerBreaks
  <2>2. ASSUME NEW h \in Handle, NEW c \in Cmd, CallSendCmdData(h, c) PROVE TablesAgree'
    <3>1. DOMAIN clientCmd' = DOMAIN clientCmd
      BY <2>2, SendCmdDataType DEF CallSendCmdData
    <3>. QED
      BY <2>2, <3>1, <1>0, TablesStutter DEF CallSendCmdData
  <2>3. ASSUME NEW h \in Handle, NEW a \in Addr, NEW n \in 0 .. MaxPerRecv, RecvCompletes(h, a, n)
        PROVE  TablesAgree'
    BY <2>3, <1>0, TablesStutter DEF RecvCompletes
  <2>4. ASSUME NEW h \in Handle, NEW a \in Addr, SendCompletes(h, a) PROVE TablesAgree'
    BY <2>4, <1>0, TablesStutter DEF SendCompletes
  <2>5. ASSUME NEW h \in Handle, NEW a \in Addr, IoFails(h, a) PROVE TablesAgree'
    BY <2>5, <1>0, TablesStutter DEF IoFails
  <2>. QED
    BY <1>6, <2>1, <2>2, <2>3, <2>4, <2>5 DEF Environment
<1>7. ASSUME NEW t \in Thread, WaitExclusive(t) PROVE TablesAgree'
  BY <1>7, <1>0, TablesStutter DEF WaitExclusive, tableVars, threadVars
<1>. QED
  BY <1>1, <1>2, <1>3, <1>4, <1>5, <1>6, <1>7 DEF Next

\* After any interleaving of accepts, failures, heart checks and sends, the two
\* tables hold the same clients, each with an open socket and its own live
\* context, and nothing is left allocated or open that they do not lead to.
THEOREM TablesAlwaysAgree == Spec => []TablesAgree
<1>1. Init => Inv
  BY InitTypeInv, InitTables DEF Inv
<1>2. Inv /\ [Next]_vars => Inv'
  BY TypeInvStep, TablesStep DEF Inv
<1>3. Inv => TablesAgree
  BY DEF Inv
<1>. QED
  BY <1>1, <1>2, <1>3, PTL DEF Spec

(***************************************************************************)
(* Refinement: TCPServer implements ClientRegistry.                        *)
(***************************************************************************)
OpenHandles == {h \in Handle : sock[h] # "free"}

\* An accepted socket is one the registry opens.
LEMMA AcceptRefines ==
  ASSUME Inv, NEW h \in Handle, Accept(h) PROVE Registry!Accept(h)
  BY DEF Accept, Registry!Accept, tableVars, Inv, TypeInv, TypeOK, KernelTypeOK

\* Both tables are filled in one critical section: the client joins.
LEMMA AddNewClientRefines ==
  ASSUME Inv, AddNewClient
  PROVE  \E h \in Handle, a \in Addr : Registry!Join(h, a)
<1>. DEFINE h == fd[acceptor]
            a == ptr[acceptor]
<1>1. h \in Handle \ DOMAIN clientsContext /\ sock[h] # "free"
  BY DEF Inv, AddNewClient, TablesAgree
<1>2. a \in Addr /\ a \notin Range(clientsContext)
  BY DEF Inv, AddNewClient, TablesAgree, NewContexts, TypeInv, LocalsOK
<1>3. Registry!Join(h, a)
  <2>1. /\ sock' = sock
        /\ clientsContext' = Put(clientsContext, h, a)
    BY DEF AddNewClient
  <2>2. {g \in Handle : sock'[g] # "free"} = {g \in Handle : sock[g] # "free"}
    BY <2>1
  <2>3. h \in {g \in Handle : sock[g] # "free"} \ DOMAIN clientsContext
    BY <1>1
  <2>. QED
    BY <1>2, <2>1, <2>2, <2>3 DEF Put, Registry!Join, Range, Registry!Range
<1>. QED
  BY <1>1, <1>2, <1>3

\* Whoever calls RemoveClient, with however stale a handle: the client leaves,
\* or nothing happens.
LEMMA RemoveClientRefines ==
  ASSUME Inv, NEW h, RemoveClient(h)
  PROVE  Registry!Leave(h) \/ UNCHANGED <<OpenHandles, clientsContext>>
<1>1. CASE h \in DOMAIN clientsContext
  <2>1. h \in DOMAIN clientCmd /\ h \in Handle
    BY <1>1 DEF Inv, TablesAgree, TypeInv, TypeOK, TableTypeOK
  <2>2. sock' = [sock EXCEPT ![h] = "free"]
    BY <2>1 DEF RemoveClient, CloseSocket
  <2>3. {g \in Handle : sock'[g] # "free"} = {g \in Handle : sock[g] # "free"} \ {h}
    BY <2>1, <2>2 DEF Inv, TypeInv, TypeOK, KernelTypeOK
  <2>4. clientsContext' = Restrict(clientsContext, DOMAIN clientsContext \ {h})
    BY DEF RemoveClient, Erase
  <2>5. Registry!Leave(h)
    BY <1>1, <2>3, <2>4 DEF Registry!Leave, Restrict, Registry!Restrict
  <2>. QED
    BY <2>5
<1>2. CASE h \notin DOMAIN clientsContext
  <2>1. clientsContext' = clientsContext
    BY <1>2 DEF RemoveClient, Erase, Restrict, Inv, TypeInv, TypeOK, TableTypeOK
  <2>2. UNCHANGED sock
    BY <1>2 DEF RemoveClient, Inv, TablesAgree
  <2>. QED
    BY <2>1, <2>2 DEF OpenHandles
<1>. QED
  BY <1>1, <1>2

LEMMA StepRefines ==
  ASSUME Inv, [Next]_vars
  PROVE  [Registry!Next]_<<OpenHandles, clientsContext>>
<1>. DEFINE Stutter == UNCHANGED <<OpenHandles, clientsContext>>
<1>1. ASSUME UNCHANGED <<sock, clientsContext>> PROVE Stutter
  BY <1>1 DEF OpenHandles
<1>2. CASE UNCHANGED vars
  BY <1>1, <1>2 DEF vars, tableVars
<1>3. ASSUME NEW t, RemoveFailed(t) PROVE \/ Stutter
                                         \/ \E h \in Handle : Registry!Leave(h)
  <2>1. PICK h : RemoveClient(h)
    BY <1>3 DEF RemoveFailed
  <2>2. Registry!Leave(h) \/ Stutter
    BY <2>1, RemoveClientRefines
  <2>3. Registry!Leave(h) => h \in Handle
    BY DEF Registry!Leave, Inv, TypeInv, TypeOK, TableTypeOK
  <2>. QED
    BY <2>2, <2>3
<1>4. CASE AcceptThread
  <2>1. ASSUME NEW h \in Handle, Accept(h) PROVE Registry!Next
    BY <2>1, AcceptRefines DEF Registry!Next
  <2>2. CASE AddNewClient
    BY <2>2, AddNewClientRefines DEF Registry!Next
  <2>3. CASE \/ \E a \in Addr : NewContext(a)
             \/ RegNewIocpTask \/ RecvReq(acceptor) \/ RecvReqFails(acceptor)
    BY <2>3, <1>1 DEF NewContext, RegNewIocpTask, RecvReq, RecvReqFails, tableVars
  <2>4. CASE RemoveFailed(acceptor)
    BY <2>4, <1>3 DEF Registry!Next
  <2>. QED
    BY <1>4, <2>1, <2>2, <2>3, <2>4 DEF AcceptThread
<1>5. ASSUME NEW w \in Worker, WorkerStep(w) PROVE Registry!Next \/ Stutter
  <2>1. CASE RemoveFailed(w)
    BY <2>1, <1>3 DEF Registry!Next
  <2>2. CASE ~RemoveFailed(w)
    BY <1>5, <2>2, <1>1
    DEF WorkerStep, CompletionPortThread, NetServerCallBack, RecvNetCmdData,
       RecvNetCmdDataEnds, RecvReq, RecvReqFails, tableVars
  <2>. QED
    BY <2>1, <2>2
<1>6. ASSUME NEW t \in Sender, SenderStep(t) PROVE Registry!Next \/ Stutter
  <2>1. CASE RemoveFailed(t)
    BY <2>1, <1>3 DEF Registry!Next
  <2>2. CASE ~RemoveFailed(t)
    BY <1>6, <2>2, <1>1
    DEF SenderStep, SendThread, NextClient, SendReq, PopCmd, PutBack, ClientDone,
       EndCollect, SendThreadEnds, tableVars
  <2>. QED
    BY <2>1, <2>2
<1>7. ASSUME NEW t \in Heart, HeartStep(t) PROVE Registry!Next \/ Stutter
  <2>1. ASSUME NEW h \in Handle, HeartRemove(t, h) PROVE Registry!Next \/ Stutter
    BY <2>1, RemoveClientRefines DEF HeartRemove, Registry!Next
  <2>2. CASE HeartCheckTimer(t)
    BY <2>2, <1>1 DEF HeartCheckTimer, tableVars
  <2>. QED
    BY <1>7, <2>1, <2>2 DEF HeartStep
<1>8. CASE Environment
  <2>1. ASSUME NEW h \in Handle, PeerBreaks(h) PROVE Stutter
    BY <2>1 DEF PeerBreaks, OpenHandles, tableVars
  <2>2. ASSUME NEW h \in Handle, ~PeerBreaks(h),
               \/ \E c \in Cmd : CallSendCmdData(h, c)
               \/ \E a \in Addr : \/ \E n \in 0 .. MaxPerRecv : RecvCompletes(h, a, n)
                                  \/ SendCompletes(h, a)
                                  \/ IoFails(h, a)
        PROVE  Stutter
    BY <2>2, <1>1 DEF CallSendCmdData, RecvCompletes, SendCompletes, IoFails, tableVars
  <2>. QED
    BY <1>8, <2>1, <2>2 DEF Environment
<1>9. ASSUME NEW t \in Thread, WaitExclusive(t) PROVE Stutter
  BY <1>9, <1>1 DEF WaitExclusive, tableVars
<1>. QED
  BY <1>2, <1>4, <1>5, <1>6, <1>7, <1>8, <1>9 DEF Next

\* Every behaviour of the server is one of the abstract registry: a socket is
\* closed only when its client leaves, once, together with its own context.
THEOREM ImplementsRegistry == Spec => RegistrySpec
<1>1. Init => Inv
  BY InitTypeInv, InitTables DEF Inv
<1>2. Inv /\ [Next]_vars => Inv'
  BY TypeInvStep, TablesStep DEF Inv
<1>3. Init => Registry!Init
  BY DEF Init, Registry!Init, Empty
<1>4. Inv /\ [Next]_vars => [Registry!Next]_<<OpenHandles, clientsContext>>
  BY StepRefines
<1>. QED
  BY <1>1, <1>2, <1>3, <1>4, PTL DEF Spec, RegistrySpec, Registry!Spec, OpenHandles
=============================================================================
