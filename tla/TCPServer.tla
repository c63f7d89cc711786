------------------------------ MODULE TCPServer ------------------------------
(***************************************************************************)
(* The TCP server of CommonLib: TCPServer.cpp with the two layers under    *)
(* it, NetServiceTask.cpp (the completion callback) and IOCPService.cpp    *)
(* (the completion port and its worker threads).                           *)
(*                                                                         *)
(* Four kinds of thread share the two tables of the server under _mutex:   *)
(* the pool thread that accepts, the IOCP workers, the pool threads in     *)
(* SendThread, and the timer threads in HeartCheckTimer.  A step is what   *)
(* one of them does between two points where another can interfere.        *)
(* SendThread holds _mutex shared while it collects, during which other    *)
(* threads may push; every section under the exclusive lock is one step.   *)
(*                                                                         *)
(* A context that was deleted keeps its contents until its address is      *)
(* allocated again: that is what a read through a dangling NET_CONTEXT*    *)
(* returns here.                                                           *)
(***************************************************************************)
EXTENDS Naturals, Sequences, SequencesExt

CONSTANTS
    Handle,                  \* the values a client SOCKET can take; closesocket frees one for reuse
    Addr,                    \* the heap addresses a NET_CONTEXT can have
    Cmd,                     \* the NetCmd objects that can be alive
    Length,                  \* Length[c] is the field c->length
    TestLength,              \* sizeof(TestNetCmd)
    acceptor,                \* the one pool thread in AcceptThread (mulNum is 1)
    Worker,                  \* the threads in CompletionPortThread
    Sender,                  \* the pool threads in SendThread (mulNum is 4)
    Heart,                   \* the timer threads in HeartCheckTimer
    SOCKET_BUFFER_SIZE,      \* Interface.h:8
    FRAME_NUMBER_SEND_DATA,  \* commands of one client collected per pass
    QueueSize,               \* capacity of a client's sendQueue
    MaxPerRecv,              \* bound: command headers one receive brings
    MaxIo,                   \* bound: operations in flight, or packets queued, per OVERLAPPED
    NULL

Thread == {acceptor} \cup Worker \cup Sender \cup Heart

ASSUME ThreadAssumption ==
    /\ acceptor \notin Worker \cup Sender \cup Heart
    /\ Worker \cap (Sender \cup Heart) = {}
    /\ Sender \cap Heart = {}

ASSUME ConstantAssumption ==
    /\ NULL \notin Handle \cup Addr \cup Cmd
    /\ Length \in [Cmd -> Nat]
    /\ TestLength \in Nat
    /\ SOCKET_BUFFER_SIZE \in Nat
    /\ FRAME_NUMBER_SEND_DATA \in Nat
    /\ QueueSize \in Nat
    /\ MaxPerRecv \in Nat
    /\ MaxIo \in Nat

VARIABLES
    sock,            \* the socket behind a handle: "free", "up", or "down" (the peer has broken it)
    registered,      \* the handles associated with the completion port
    recvs, sends,    \* WSARecv and WSASend in flight on a handle with a context's OVERLAPPED
    port,            \* successful completion packets waiting, by OVERLAPPED
    ctx,             \* the contents of the memory at each context address
    alloc,           \* the addresses that hold a live NET_CONTEXT
    clientsContext,  \* _clientsContext
    clientCmd,       \* _clientCmd, each client as its sendQueue
    heapCmd,         \* the NetCmd objects allocated
    writerWaits,     \* _mutex lets no new reader in: a thread waits for it exclusively
    pc, ptr, fd,     \* of a thread: where it is, its NET_CONTEXT*, its SOCKET
    parsed,          \* of a worker: headers of the buffer handled so far
    todo,            \* of a sender or timer thread: clients still to visit
    batch,           \* of a sender: tempCmds
    cmdLength,       \* of a sender: bytes collected for the client it is at
    hold             \* of a sender: the command popped that did not fit

ioVars     == <<registered, recvs, sends, port>>
tableVars  == <<alloc, clientsContext>>
sendVars   == <<batch, cmdLength, hold>>
threadVars == <<pc, ptr, fd, parsed, todo, sendVars>>
vars == <<sock, ioVars, ctx, tableVars, clientCmd, heapCmd, writerWaits, threadVars>>

\* One operation more, or less, in flight on handle h with the OVERLAPPED at a.
Incr(f, h, a) == [f EXCEPT ![h][a] = @ + 1]
Decr(f, h, a) == [f EXCEPT ![h][a] = @ - 1]

NoIo  == [a \in Addr |-> 0]
Empty == [h \in {} |-> NULL]

(***************************************************************************)
(* Types.                                                                  *)
(***************************************************************************)
Context == [s : Handle \cup {NULL}, server : BOOLEAN,
            op : {"NONE", "READ"}, data : 0 .. MaxPerRecv]

Label == {"idle", "add", "insert", "reg", "recv", "refused", "remove", "callback", "parse",
          "collect", "putback", "send", "reap"}

KernelTypeOK ==
    /\ sock \in [Handle -> {"free", "up", "down"}]
    /\ registered \subseteq Handle
    /\ recvs \in [Handle -> [Addr -> Nat]]
    /\ sends \in [Handle -> [Addr -> Nat]]
    /\ port \in [Addr -> Nat]

TableTypeOK ==
    /\ ctx \in [Addr -> Context]
    /\ alloc \subseteq Addr
    /\ DOMAIN clientsContext \subseteq Handle
    /\ clientsContext \in [DOMAIN clientsContext -> Addr]
    /\ DOMAIN clientCmd \subseteq Handle
    /\ clientCmd \in [DOMAIN clientCmd -> Seq(Cmd)]
    /\ heapCmd \subseteq Cmd
    /\ writerWaits \in BOOLEAN

PcTypeOK ==
    /\ pc \in [Thread -> Label]
    /\ pc[acceptor] \in {"idle", "add", "insert", "reg", "recv", "refused", "remove"}
    /\ \A t \in Worker : pc[t] \in {"idle", "callback", "parse", "recv", "refused", "remove"}
    /\ \A t \in Sender : pc[t] \in {"idle", "collect", "putback", "send", "remove"}
    /\ \A t \in Heart : pc[t] \in {"idle", "reap"}

LocalTypeOK ==
    /\ ptr \in [{acceptor} \cup Worker -> Addr \cup {NULL}]
    /\ fd \in [{acceptor} \cup Worker \cup Sender -> Handle \cup {NULL}]
    /\ parsed \in [Worker -> Nat]
    /\ todo \in [Sender \cup Heart -> SUBSET Handle]

BatchTypeOK ==
    /\ batch \in [Sender -> [Handle -> Seq(Cmd)]]
    /\ cmdLength \in [Sender -> Nat]
    /\ hold \in [Sender -> Cmd \cup {NULL}]

\* The type invariant: the kernel's bookkeeping, the shape of the tables, which
\* code each kind of thread can be in, and its locals.
TypeOK ==
    /\ KernelTypeOK
    /\ TableTypeOK
    /\ PcTypeOK
    /\ LocalTypeOK
    /\ BatchTypeOK

Init ==
    /\ sock = [h \in Handle |-> "free"]
    /\ registered = {}
    /\ recvs = [h \in Handle |-> NoIo]
    /\ sends = [h \in Handle |-> NoIo]
    /\ port = NoIo
    /\ ctx = [a \in Addr |-> [s |-> NULL, server |-> FALSE, op |-> "NONE", data |-> 0]]
    /\ alloc = {}
    /\ clientsContext = Empty
    /\ clientCmd = Empty
    /\ heapCmd = {}
    /\ writerWaits = FALSE
    /\ pc = [t \in Thread |-> "idle"]
    /\ ptr = [t \in {acceptor} \cup Worker |-> NULL]
    /\ fd = [t \in {acceptor} \cup Worker \cup Sender |-> NULL]
    /\ parsed = [t \in Worker |-> 0]
    /\ todo = [t \in Sender \cup Heart |-> {}]
    /\ batch = [t \in Sender |-> [h \in Handle |-> <<>>]]
    /\ cmdLength = [t \in Sender |-> 0]
    /\ hold = [t \in Sender |-> NULL]

Goto(t, l) == pc' = [pc EXCEPT ![t] = l]

\* std::map: insertion (or overwriting) and erasure.
Put(m, h, v) == [x \in DOMAIN m \cup {h} |-> IF x = h THEN v ELSE m[x]]
Erase(m, h)  == Restrict(m, DOMAIN m \ {h})

\* A sender is inside its shared section: nobody can take _mutex exclusively.
SharedHeld == \E t \in Sender : pc[t] \in {"collect", "putback"}

\* A mutex that kept letting readers in would starve the exclusive sections.
SharedLockAnyway == TRUE

\* boost::shared_mutex lets a reader in unless a thread waits for it exclusively.
SharedLock == ~writerWaits

\* A thread that finds _mutex shared waits for it, and from then on no reader
\* enters; the last reader to leave lets everybody try again.
WaitExclusive(t) ==
    /\ pc[t] \in {"insert", "remove", "reap"}
    /\ SharedHeld
    /\ ~writerWaits
    /\ writerWaits' = TRUE
    /\ UNCHANGED <<sock, ioVars, ctx, tableVars, clientCmd, heapCmd, threadVars>>

(***************************************************************************)
(* Operations under _mutex that several threads call.                      *)
(***************************************************************************)

\* bounded_push on a client's sendQueue; it fails when the queue is full.
Push(h, c) ==
    clientCmd' = IF Len(clientCmd[h]) < QueueSize
                 THEN [clientCmd EXCEPT ![h] = Append(@, c)]
                 ELSE clientCmd

AnyLength(c) == c \in Cmd

LengthAccepted(c) == Length[c] < SOCKET_BUFFER_SIZE

\* A command refused for its length, for its unknown client or by a full queue
\* stays allocated: SendCmdData returns false either way and nobody deletes it.
SendCmdData(h, c) ==
    \/ /\ ~LengthAccepted(c)
       /\ UNCHANGED clientCmd
    \/ /\ LengthAccepted(c)
       /\ SharedLock
       /\ IF h \in DOMAIN clientCmd THEN Push(h, c) ELSE UNCHANGED clientCmd

KeepSocketOpen(h) == h \in Handle /\ UNCHANGED <<sock, registered, recvs, sends>>

\* closesocket aborts what is in flight; an aborted operation completes with an
\* error, and CompletionPortThread drops every failed completion.
CloseSocket(h) ==
    /\ sock' = [sock EXCEPT ![h] = "free"]
    /\ registered' = registered \ {h}
    /\ recvs' = [recvs EXCEPT ![h] = NoIo]
    /\ sends' = [sends EXCEPT ![h] = NoIo]

RemoveClient(h) ==
    /\ ~SharedHeld
    /\ IF h \in DOMAIN clientsContext
       THEN /\ ctx' = [ctx EXCEPT ![clientsContext[h]].server = FALSE]
            /\ alloc' = alloc \ {clientsContext[h]}
       ELSE UNCHANGED <<ctx, alloc>>
    /\ clientsContext' = Erase(clientsContext, h)
    /\ IF h \in DOMAIN clientCmd
       THEN /\ heapCmd' = heapCmd \ ToSet(clientCmd[h])
            /\ CloseSocket(h)
       ELSE UNCHANGED <<heapCmd, sock, registered, recvs, sends>>
    /\ clientCmd' = Erase(clientCmd, h)
    /\ UNCHANGED <<port, writerWaits>>

(***************************************************************************)
(* The accepting thread: AcceptThread, then AddNewClient in its four parts *)
(* (the new context, the two tables, the registration, the first receive). *)
(***************************************************************************)
Accept(h) ==
    /\ pc[acceptor] = "idle"
    /\ sock[h] = "free"
    /\ sock' = [sock EXCEPT ![h] = "up"]
    /\ fd' = [fd EXCEPT ![acceptor] = h]
    /\ Goto(acceptor, "add")
    /\ UNCHANGED <<ioVars, ctx, tableVars, clientCmd, heapCmd, writerWaits, ptr, parsed, todo, sendVars>>

NoQueue(h) == h \in Handle /\ UNCHANGED clientCmd

NewQueue(h) == clientCmd' = Put(clientCmd, h, <<>>)

\* The context is allocated and filled before _mutex is taken.
NewContext(a) ==
    /\ pc[acceptor] = "add"
    /\ a \notin alloc
    /\ ctx' = [ctx EXCEPT ![a] = [s |-> fd[acceptor], server |-> TRUE, op |-> "NONE", data |-> 0]]
    /\ alloc' = alloc \cup {a}
    /\ ptr' = [ptr EXCEPT ![acceptor] = a]
    /\ Goto(acceptor, "insert")
    /\ UNCHANGED <<sock, ioVars, clientsContext, clientCmd, heapCmd, writerWaits, fd, parsed, todo,
                   sendVars>>

AddNewClient ==
    /\ pc[acceptor] = "insert"
    /\ ~SharedHeld
    /\ clientsContext' = Put(clientsContext, fd[acceptor], ptr[acceptor])
    /\ NewQueue(fd[acceptor])
    /\ fd' = [fd EXCEPT ![acceptor] = NULL]
    /\ Goto(acceptor, "reg")
    /\ UNCHANGED <<sock, ioVars, ctx, alloc, heapCmd, writerWaits, ptr, parsed, todo, sendVars>>

\* The registration can fail: on a socket closed meanwhile, or for lack of
\* resources.  AddNewClient then returns, and the client stays in the tables.
RegNewIocpTask ==
    /\ pc[acceptor] = "reg"
    /\ LET h == ctx[ptr[acceptor]].s IN
         \/ /\ h \in Handle /\ sock[h] # "free" /\ h \notin registered
            /\ registered' = registered \cup {h}
            /\ Goto(acceptor, "recv")
            /\ UNCHANGED ptr
         \/ /\ ptr' = [ptr EXCEPT ![acceptor] = NULL]
            /\ Goto(acceptor, "idle")
            /\ UNCHANGED registered
    /\ UNCHANGED <<sock, recvs, sends, port, ctx, tableVars, clientCmd, heapCmd, writerWaits, fd,
                   parsed, todo, sendVars>>

\* WSARecv on the socket the context names: in flight (also when it completes
\* at once, the packet is queued), or refused.
RecvReq(t) ==
    /\ pc[t] = "recv"
    /\ LET a == ptr[t]
           h == ctx[a].s IN
         /\ ctx' = [ctx EXCEPT ![a] = [@ EXCEPT !.data = 0, !.op = "READ"]]
         /\ \/ /\ sock[h] # "free"
               /\ recvs[h][a] < MaxIo
               /\ recvs' = Incr(recvs, h, a)
               /\ ptr' = [ptr EXCEPT ![t] = NULL]
               /\ Goto(t, "idle")
            \/ /\ Goto(t, "refused")
               /\ UNCHANGED <<recvs, ptr>>
    /\ UNCHANGED <<sock, registered, sends, port, tableVars, clientCmd, heapCmd,
                   writerWaits, fd, parsed, todo, sendVars>>

RefusalIgnored(t, h) == h \in Handle /\ Goto(t, "idle") /\ UNCHANGED fd

RecvRefused(t, h) ==
    /\ fd' = [fd EXCEPT ![t] = h]
    /\ Goto(t, "remove")

\* After a refusal the handle to remove is read from the context once more: if
\* the context was freed and taken for a new client meanwhile, it is that one's.
RecvReqFails(t) ==
    /\ pc[t] = "refused"
    /\ RecvRefused(t, ctx[ptr[t]].s)
    /\ ptr' = [ptr EXCEPT ![t] = NULL]
    /\ UNCHANGED <<sock, ioVars, ctx, tableVars, clientCmd, heapCmd, writerWaits, parsed, todo,
                   sendVars>>

\* The RemoveClient of RecvReq and SendReq, after the call has failed.
RemoveFailed(t) ==
    /\ pc[t] = "remove"
    /\ RemoveClient(fd[t])
    /\ fd' = [fd EXCEPT ![t] = NULL]
    /\ Goto(t, IF t \in Sender THEN "send" ELSE "idle")
    /\ UNCHANGED <<ptr, parsed, todo, sendVars>>

(***************************************************************************)
(* The IOCP workers: CompletionPortThread, IocpCallBack, NetServerCallBack.*)
(***************************************************************************)
StatusIgnored(a) == port[a] >= 0

\* GetQueuedCompletionStatus returns a packet, rather than a failure or a timeout.
PacketDequeued(a) == port[a] > 0

CompletionPortThread(w, a) ==
    /\ pc[w] = "idle"
    /\ PacketDequeued(a)
    /\ port' = [port EXCEPT ![a] = @ - 1]
    /\ ptr' = [ptr EXCEPT ![w] = a]
    /\ Goto(w, "callback")
    /\ UNCHANGED <<sock, registered, recvs, sends, ctx, tableVars, clientCmd, heapCmd, writerWaits, fd,
                   parsed, todo, sendVars>>

\* op is read from the context, not from the operation that completed: nothing
\* ever sets it to NET_OP_WRITE, so the completion of a send is handled as a read.
NetServerCallBack(w) ==
    /\ pc[w] = "callback"
    /\ LET c == ctx[ptr[w]] IN
         IF c.server /\ c.op = "READ"
         THEN /\ fd' = [fd EXCEPT ![w] = c.s]
              /\ Goto(w, "parse")
              /\ UNCHANGED ptr
         ELSE /\ ptr' = [ptr EXCEPT ![w] = NULL]
              /\ Goto(w, "idle")
              /\ UNCHANGED fd
    /\ UNCHANGED <<sock, ioVars, ctx, tableVars, clientCmd, heapCmd, writerWaits, parsed, todo, sendVars>>

\* One turn of the loop in RecvNetCmdData.  The buffer is the one in the
\* context, read as it is now.  A header of another kind, or a first command in
\* the buffer of another length, creates nothing.
RecvNetCmdData(w) ==
    /\ pc[w] = "parse"
    /\ parsed[w] < ctx[ptr[w]].data
    /\ parsed' = [parsed EXCEPT ![w] = @ + 1]
    /\ \/ UNCHANGED <<clientCmd, heapCmd>>
       \/ \E c \in Cmd \ heapCmd :
            /\ Length[c] = TestLength
            /\ heapCmd' = heapCmd \cup {c}
            /\ SendCmdData(fd[w], c)
    /\ UNCHANGED <<sock, ioVars, ctx, tableVars, writerWaits, pc, ptr, fd, todo, sendVars>>

\* The loop ends at the first header whose length is 0.
RecvNetCmdDataEnds(w) ==
    /\ pc[w] = "parse"
    /\ parsed[w] >= ctx[ptr[w]].data
    /\ parsed' = [parsed EXCEPT ![w] = 0]
    /\ fd' = [fd EXCEPT ![w] = NULL]
    /\ Goto(w, "recv")
    /\ UNCHANGED <<sock, ioVars, ctx, tableVars, clientCmd, heapCmd, writerWaits, ptr, todo, sendVars>>

\* Another holder of the INetService queues a command of its own.  One that is
\* refused is still the caller's, and here as if the call had not been made.
CallSendCmdData(h, c) ==
    /\ c \notin heapCmd
    /\ SendCmdData(h, c)
    /\ clientCmd' # clientCmd
    /\ heapCmd' = heapCmd \cup {c}
    /\ UNCHANGED <<sock, ioVars, ctx, tableVars, writerWaits, threadVars>>

(***************************************************************************)
(* SendThread.                                                             *)
(***************************************************************************)
SendThread(t) ==
    /\ pc[t] = "idle"
    /\ SharedLock
    /\ DOMAIN clientCmd # {}
    /\ todo' = [todo EXCEPT ![t] = DOMAIN clientCmd]
    /\ Goto(t, "collect")
    /\ UNCHANGED <<sock, ioVars, ctx, tableVars, clientCmd, heapCmd, writerWaits, ptr, fd, parsed, sendVars>>

\* The for loop over _clientCmd reaches its next client.
NextClient(t, h) ==
    /\ pc[t] = "collect"
    /\ fd[t] = NULL
    /\ h \in todo[t]
    /\ todo' = [todo EXCEPT ![t] = @ \ {h}]
    /\ fd' = [fd EXCEPT ![t] = h]
    /\ cmdLength' = [cmdLength EXCEPT ![t] = 0]
    /\ UNCHANGED <<sock, ioVars, ctx, tableVars, clientCmd, heapCmd, writerWaits, pc, ptr, parsed,
                   batch, hold>>

FrontNotPopped(h) == h \in Handle /\ UNCHANGED clientCmd

Pop(h) == clientCmd' = [clientCmd EXCEPT ![h] = Tail(@)]

FillsBuffer(t, c) == cmdLength[t] + Length[c] <= SOCKET_BUFFER_SIZE

FitsBuffer(t, c) == cmdLength[t] + Length[c] < SOCKET_BUFFER_SIZE

\* A command is popped, and kept if it fits what this pass can still send.
PopCmd(t) ==
    /\ pc[t] = "collect"
    /\ fd[t] # NULL
    /\ LET h == fd[t] IN
         /\ Len(batch[t][h]) < FRAME_NUMBER_SEND_DATA
         /\ clientCmd[h] # <<>>
         /\ Pop(h)
         /\ LET c == Head(clientCmd[h]) IN
              IF FitsBuffer(t, c)
              THEN /\ batch' = [batch EXCEPT ![t][h] = Append(@, c)]
                   /\ cmdLength' = [cmdLength EXCEPT ![t] = @ + Length[c]]
                   /\ UNCHANGED <<hold, pc>>
              ELSE /\ hold' = [hold EXCEPT ![t] = c]
                   /\ Goto(t, "putback")
                   /\ UNCHANGED <<batch, cmdLength>>
    /\ UNCHANGED <<sock, ioVars, ctx, tableVars, heapCmd, writerWaits, ptr, fd, parsed, todo>>

\* The command that did not fit is pushed again, and the client is done.  The
\* result of bounded_push is not looked at.
PutBack(t) ==
    /\ pc[t] = "putback"
    /\ Push(fd[t], hold[t])
    /\ hold' = [hold EXCEPT ![t] = NULL]
    /\ fd' = [fd EXCEPT ![t] = NULL]
    /\ Goto(t, "collect")
    /\ UNCHANGED <<sock, ioVars, ctx, tableVars, heapCmd, writerWaits, ptr, parsed, todo, batch, cmdLength>>

\* The queue is empty, or the frame is full.
ClientDone(t) ==
    /\ pc[t] = "collect"
    /\ fd[t] # NULL
    /\ clientCmd[fd[t]] = <<>> \/ Len(batch[t][fd[t]]) >= FRAME_NUMBER_SEND_DATA
    /\ fd' = [fd EXCEPT ![t] = NULL]
    /\ UNCHANGED <<sock, ioVars, ctx, tableVars, clientCmd, heapCmd, writerWaits, pc, ptr, parsed, todo, sendVars>>

\* The shared lock is released; what was collected is sent client by client.
EndCollect(t) ==
    /\ pc[t] = "collect"
    /\ fd[t] = NULL
    /\ todo[t] = {}
    /\ todo' = [todo EXCEPT ![t] = {h \in Handle : batch[t][h] # <<>>}]
    /\ cmdLength' = [cmdLength EXCEPT ![t] = 0]
    /\ Goto(t, "send")
    /\ writerWaits' = (writerWaits /\ \E u \in Sender \ {t} : pc[u] \in {"collect", "putback"})
    /\ UNCHANGED <<sock, ioVars, ctx, tableVars, clientCmd, heapCmd, ptr, fd, parsed, batch, hold>>

\* op marked for a send, with the one op that receives use as well.
PostSendAsWrite(h) ==
    /\ sends[h][clientsContext[h]] < MaxIo
    /\ sends' = Incr(sends, h, clientsContext[h])
    /\ ctx' = [ctx EXCEPT ![clientsContext[h]].op = "WRITE"]

\* WSASend is given the OVERLAPPED of the client's context; op stays as it is.
PostSend(h) ==
    /\ sends[h][clientsContext[h]] < MaxIo
    /\ sends' = Incr(sends, h, clientsContext[h])
    /\ UNCHANGED ctx

\* The commands are packed into sendBuff and deleted, then SendReq looks the
\* handle up again: unknown, sent with the context's OVERLAPPED, or refused.
SendReq(t, h) ==
    /\ pc[t] = "send"
    /\ h \in todo[t]
    /\ SharedLock
    /\ todo' = [todo EXCEPT ![t] = @ \ {h}]
    /\ heapCmd' = heapCmd \ ToSet(batch[t][h])
    /\ batch' = [batch EXCEPT ![t][h] = <<>>]
    /\ \/ /\ h \notin DOMAIN clientsContext
          /\ UNCHANGED <<sends, ctx, fd, pc>>
       \/ /\ h \in DOMAIN clientsContext
          /\ PostSend(h)
          /\ UNCHANGED <<fd, pc>>
       \/ /\ h \in DOMAIN clientsContext
          /\ fd' = [fd EXCEPT ![t] = h]
          /\ Goto(t, "remove")
          /\ UNCHANGED <<sends, ctx>>
    /\ UNCHANGED <<sock, registered, recvs, port, tableVars, clientCmd, writerWaits, ptr, parsed,
                   cmdLength, hold>>

SendThreadEnds(t) ==
    /\ pc[t] = "send"
    /\ todo[t] = {}
    /\ Goto(t, "idle")
    /\ UNCHANGED <<sock, ioVars, ctx, tableVars, clientCmd, heapCmd, writerWaits, ptr, fd, parsed, todo, sendVars>>

(***************************************************************************)
(* HeartCheckTimer: the handles found broken under the shared lock, then   *)
(* one RemoveClient for each of them.                                      *)
(***************************************************************************)
HeartCheckTimer(t) ==
    /\ pc[t] = "idle"
    /\ SharedLock
    /\ LET invalidSocket == {h \in DOMAIN clientsContext : sock[h] # "up"} IN
         /\ invalidSocket # {}
         /\ todo' = [todo EXCEPT ![t] = invalidSocket]
    /\ Goto(t, "reap")
    /\ UNCHANGED <<sock, ioVars, ctx, tableVars, clientCmd, heapCmd, writerWaits, ptr, fd, parsed, sendVars>>

HeartRemove(t, h) ==
    /\ pc[t] = "reap"
    /\ h \in todo[t]
    /\ RemoveClient(h)
    /\ todo' = [todo EXCEPT ![t] = @ \ {h}]
    /\ Goto(t, IF todo[t] = {h} THEN "idle" ELSE "reap")
    /\ UNCHANGED <<ptr, fd, parsed, sendVars>>

(***************************************************************************)
(* The network and the kernel.  A packet reaches the port only from a      *)
(* handle associated with it.                                              *)
(***************************************************************************)
QueuePacket(h, a) ==
    /\ port[a] < MaxIo
    /\ port' = [port EXCEPT ![a] = IF h \in registered THEN @ + 1 ELSE @]

\* A receive completes with n headers (0: the peer has closed gracefully, or
\* less than a header came).  They overwrite the start of the context's buffer.
RecvCompletes(h, a, n) ==
    /\ recvs[h][a] > 0
    /\ recvs' = Decr(recvs, h, a)
    /\ ctx' = [ctx EXCEPT ![a].data = IF n > @ THEN n ELSE @]
    /\ QueuePacket(h, a)
    /\ UNCHANGED <<sock, registered, sends, tableVars, clientCmd, heapCmd, writerWaits, threadVars>>

SendCompletes(h, a) ==
    /\ sends[h][a] > 0
    /\ sends' = Decr(sends, h, a)
    /\ QueuePacket(h, a)
    /\ UNCHANGED <<sock, registered, recvs, ctx, tableVars, clientCmd, heapCmd, writerWaits, threadVars>>

\* On a broken socket an operation fails; its completion is dropped.
IoFails(h, a) ==
    /\ sock[h] = "down"
    /\ \/ /\ recvs[h][a] > 0
          /\ recvs' = Decr(recvs, h, a)
          /\ UNCHANGED sends
       \/ /\ sends[h][a] > 0
          /\ sends' = Decr(sends, h, a)
          /\ UNCHANGED recvs
    /\ UNCHANGED <<sock, registered, port, ctx, tableVars, clientCmd, heapCmd, writerWaits, threadVars>>

PeerBreaks(h) ==
    /\ sock[h] = "up"
    /\ sock' = [sock EXCEPT ![h] = "down"]
    /\ UNCHANGED <<ioVars, ctx, tableVars, clientCmd, heapCmd, writerWaits, threadVars>>

(***************************************************************************)
(* The specification.                                                      *)
(***************************************************************************)
AcceptThread ==
    \/ \E h \in Handle : Accept(h)
    \/ \E a \in Addr : NewContext(a)
    \/ AddNewClient
    \/ RegNewIocpTask
    \/ RecvReq(acceptor)
    \/ RecvReqFails(acceptor)
    \/ RemoveFailed(acceptor)

WorkerStep(w) ==
    \/ \E a \in Addr : CompletionPortThread(w, a)
    \/ NetServerCallBack(w)
    \/ RecvNetCmdData(w)
    \/ RecvNetCmdDataEnds(w)
    \/ RecvReq(w)
    \/ RecvReqFails(w)
    \/ RemoveFailed(w)

SenderStep(t) ==
    \/ SendThread(t)
    \/ \E h \in Handle : NextClient(t, h) \/ SendReq(t, h)
    \/ PopCmd(t)
    \/ PutBack(t)
    \/ ClientDone(t)
    \/ EndCollect(t)
    \/ RemoveFailed(t)
    \/ SendThreadEnds(t)

HeartStep(t) ==
    \/ HeartCheckTimer(t)
    \/ \E h \in Handle : HeartRemove(t, h)

Environment ==
    \E h \in Handle :
        \/ PeerBreaks(h)
        \/ \E c \in Cmd : CallSendCmdData(h, c)
        \/ \E a \in Addr :
             \/ \E n \in 0 .. MaxPerRecv : RecvCompletes(h, a, n)
             \/ SendCompletes(h, a)
             \/ IoFails(h, a)

Next ==
    \/ AcceptThread
    \/ \E w \in Worker : WorkerStep(w)
    \/ \E t \in Sender : SenderStep(t)
    \/ \E t \in Heart : HeartStep(t)
    \/ \E t \in Thread : WaitExclusive(t)
    \/ Environment

Spec == Init /\ [][Next]_vars

(***************************************************************************)
(* Fairness.  The pool calls SendThread again and again (the task has      *)
(* MAX_TRHEAD_RUNTIMES runs), the timer fires every 5 seconds, and a       *)
(* thread that runs goes on.  It is strong because of _mutex: a thread     *)
(* that waits for it sees it free again and again, never for good.         *)
(***************************************************************************)
Fairness ==
    /\ \A t \in Sender : SF_vars(SenderStep(t))
    /\ \A t \in Heart : SF_vars(HeartStep(t))
    /\ WF_vars(\E t \in Thread : WaitExclusive(t))

FairSpec == Spec /\ Fairness

(***************************************************************************)
(* Properties.                                                             *)
(***************************************************************************)

\* A thread past the point where it takes a pointer has one, and a collecting
\* sender stays on clients of the table: nobody removes them under its lock.
LocalsOK ==
    /\ pc[acceptor] \in {"add", "insert"} => fd[acceptor] \in Handle
    /\ \A t \in {acceptor} \cup Worker :
         pc[t] \in {"insert", "reg", "callback", "parse", "recv", "refused"} => ptr[t] \in Addr
    /\ \A t \in Sender :
         /\ pc[t] \in {"idle", "send"} => fd[t] = NULL
         /\ pc[t] \in {"collect", "putback"} => todo[t] \subseteq DOMAIN clientCmd
         /\ pc[t] = "collect" => fd[t] = NULL \/ fd[t] \in DOMAIN clientCmd
         /\ pc[t] = "putback" => fd[t] \in DOMAIN clientCmd /\ hold[t] \in Cmd

\* The context the accepting thread has made and not yet entered in the tables.
NewContexts == IF pc[acceptor] = "insert" THEN {ptr[acceptor]} ELSE {}

\* AddNewClient fills, and RemoveClient and the destructor empty, two tables
\* and the heap together.  Between any two critical sections: the same clients
\* are in both tables, each with an open socket and a live context of its own
\* that names it, and no context or socket is left that neither a table nor the
\* accepting thread leads to.
TablesAgree ==
    /\ DOMAIN clientCmd = DOMAIN clientsContext
    /\ \A h \in DOMAIN clientsContext :
         /\ sock[h] # "free"
         /\ ctx[clientsContext[h]].s = h
         /\ ctx[clientsContext[h]].server
    /\ alloc = Range(clientsContext) \cup NewContexts
    /\ Range(clientsContext) \cap NewContexts = {}
    /\ \A a \in NewContexts : ctx[a].s = fd[acceptor] /\ ctx[a].server
    /\ \A h \in Handle : sock[h] # "free" =>
         \/ h \in DOMAIN clientsContext
         \/ pc[acceptor] \in {"add", "insert"} /\ fd[acceptor] = h
    /\ pc[acceptor] \in {"add", "insert"} =>
         /\ fd[acceptor] \in Handle \ DOMAIN clientsContext
         /\ sock[fd[acceptor]] # "free"

\* A client whose socket works and is associated with the port is listened to:
\* a receive of its context is in flight, or its completion waits at the port, or
\* a thread is on the way to the next RecvReq, or a thread is about to remove it.
\* Send completions posted with the same OVERLAPPED, failed completions that are
\* dropped, and contexts freed under a worker must never break this chain.
NeverDeaf ==
    \A h \in DOMAIN clientsContext : sock[h] = "up" /\ h \in registered =>
        LET a == clientsContext[h] IN
        \/ recvs[h][a] > 0
        \/ port[a] > 0
        \/ \E t \in {acceptor} \cup Worker :
             ptr[t] = a /\ pc[t] \in {"callback", "parse", "recv", "refused"}
        \/ \E t \in {acceptor} \cup Worker \cup Sender : pc[t] = "remove" /\ fd[t] = h

\* Where a pointer to command c is kept.
Places(c) ==
    (UNION {{<<"queue", h, i>> : i \in {j \in DOMAIN clientCmd[h] : clientCmd[h][j] = c}}
              : h \in DOMAIN clientCmd})
    \cup (UNION {{<<"batch", t, h, i>> : i \in {j \in DOMAIN batch[t][h] : batch[t][h][j] = c}}
              : t \in Sender, h \in Handle})
    \cup {<<"hold", t>> : t \in {x \in Sender : hold[x] = c}}

\* A command is deleted by the thread that sent it, or with its client's queue.
\* Whatever senders, removals and put-backs interleave, one place at most holds
\* it and it is allocated while held: never deleted twice, never used after.
OneOwnerPerCommand ==
    \A c \in Cmd : Places(c) = {} \/ (c \in heapCmd /\ \E p \in Places(c) : Places(c) = {p})

\* What a pass collects for a client fits one buffer: the packing loop finds an
\* offset for each command and for the end of the last, all of them less than the
\* buffer's size, so SendThread sends it in one SendReq, never splitting.
PassFitsBuffer ==
    \A t \in Sender, h \in Handle : batch[t][h] # <<>> =>
        \E offset \in [1 .. Len(batch[t][h]) + 1 -> 0 .. SOCKET_BUFFER_SIZE - 1] :
            /\ offset[1] = 0
            /\ \A i \in DOMAIN batch[t][h] : offset[i + 1] = offset[i] + Length[batch[t][h][i]]

\* The comment at TCPServer.cpp:126: the command that does not fit is put back
\* in the queue and waits for the next send.
PutBackWaits ==
    [][\A t \in Sender : hold[t] # NULL /\ hold'[t] = NULL =>
           hold[t] \in ToSet(clientCmd'[fd[t]])]_vars

\* The server implements the abstract registry of clients: every step of every
\* thread opens one handle, registers one, unregisters and closes one, or leaves
\* the tables and the sockets alone.
Registry == INSTANCE ClientRegistry
              WITH open <- {h \in Handle : sock[h] # "free"}, contextOf <- clientsContext

RegistrySpec == Registry!Spec

\* HeartCheckTimer is the only place that looks for dead peers: a client whose
\* socket is broken eventually leaves the tables, whatever the senders do.
BrokenClientReaped ==
    \A h \in Handle : (h \in DOMAIN clientsContext /\ sock[h] = "down")
                        ~> h \notin DOMAIN clientsContext

\* Command c waits in the queue of h, or was popped and is about to be put back.
Waiting(h, c) ==
    /\ h \in DOMAIN clientCmd
    /\ \/ c \in ToSet(clientCmd[h])
       \/ \E t \in Sender : fd[t] = h /\ hold[t] = c

\* A sender that has collected other commands of h holds c while more wait: c
\* goes back behind them, or is lost if the queue is full by then.
PassedOver(h, c) ==
    /\ h \in DOMAIN clientCmd
    /\ clientCmd[h] # <<>>
    /\ \E t \in Sender : fd[t] = h /\ hold[t] = c /\ batch[t][h] # <<>>

\* A queued command never just stays where it is: a SendThread collects it, its
\* client is removed, or a pass that had no room for it puts it back behind others
\* or loses it.  It waits for ever only if newer commands overtake it at each pass.
QueuedCommandLeaves ==
    \A h \in Handle, c \in {d \in Cmd : LengthAccepted(d)} :
        Waiting(h, c) ~> \/ \E t \in Sender : c \in ToSet(batch[t][h])
                        \/ h \notin DOMAIN clientCmd
                        \/ PassedOver(h, c)
=============================================================================
