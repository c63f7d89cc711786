------------------------ MODULE TCPServerTrafficProofs ------------------------
(***************************************************************************)
(* Theorems about what TCPServer's clients send and are sent: a client     *)
(* whose socket works is never left without a receive, a command has one   *)
(* owner, and what a pass of SendThread collects for a client fits its     *)
(* buffer.  They rest on the types and tables of TCPServerProofs.          *)
(***************************************************************************)
EXTENDS TCPServerProofs, SequenceTheorems

(***************************************************************************)
(* NeverDeaf.                                                              *)
(***************************************************************************)
\* What keeps the chain of receives of client h going.
Listened(h) ==
    LET a == clientsContext[h] IN
    \/ recvs[h][a] > 0
    \/ port[a] > 0
    \/ \E t \in {acceptor} \cup Worker :
         ptr[t] = a /\ pc[t] \in {"callback", "parse", "recv", "refused"}
    \/ \E t \in {acceptor} \cup Worker \cup Sender : pc[t] = "remove" /\ fd[t] = h

\* A worker that gets the packet of a client finds the op that makes it go on: RecvReq
\* sets it, and until the acceptor's first RecvReq the acceptor keeps the chain.
OpRead ==
    \A h \in registered :
        \/ ctx[clientsContext[h]].op = "READ"
        \/ pc[acceptor] = "recv" /\ ptr[acceptor] = clientsContext[h]

\* The context the acceptor registers is its client's, or the client is gone: only
\* the acceptor allocates contexts.
AcceptorsContext ==
    pc[acceptor] \in {"reg", "recv"} =>
        LET h == ctx[ptr[acceptor]].s
        IN  h \in DOMAIN clientsContext => clientsContext[h] = ptr[acceptor]

ListenInv ==
    /\ registered \subseteq DOMAIN clientsContext
    /\ OpRead
    /\ AcceptorsContext
    /\ \A h \in registered : sock[h] = "up" => Listened(h)

LEMMA ListenInvSuffices == ListenInv => NeverDeaf
BY DEF ListenInv, NeverDeaf, Listened

LEMMA InitListen == Init => ListenInv
BY DEF Init, ListenInv, OpRead, AcceptorsContext, Empty, Thread

\* The context of each client is its own.
LEMMA OwnContext ==
    ASSUME Inv, NEW h \in DOMAIN clientsContext
    PROVE  /\ h \in Handle /\ clientsContext[h] \in Addr
           /\ ctx[clientsContext[h]].s = h /\ ctx[clientsContext[h]].server
           /\ sock[h] # "free"
           /\ \A g \in DOMAIN clientsContext : clientsContext[g] = clientsContext[h] => g = h
BY DEF Inv, TypeInv, TypeOK, TableTypeOK, TablesAgree

\* A step that leaves receives, workers and acceptor alone and takes no packet.
LEMMA StillListened ==
    ASSUME NEW h, Listened(h),
           clientsContext' = clientsContext,
           recvs' = recvs,
           \A a \in Addr : port[a] > 0 => port'[a] > 0,
           clientsContext[h] \in Addr,
           \A t \in {acceptor} \cup Worker :
               pc[t] \in {"callback", "parse", "recv", "refused"} =>
                   pc'[t] \in {"callback", "parse", "recv", "refused"} /\ ptr'[t] = ptr[t],
           \A t \in {acceptor} \cup Worker \cup Sender :
               pc[t] = "remove" => pc'[t] = "remove" /\ fd'[t] = fd[t]
    PROVE  Listened(h)'
BY DEF Listened

\* A step that leaves the registered clients and their contexts alone, and the
\* acceptor where it is or out of AddNewClient.
LEMMA ListenKept ==
    ASSUME Inv, ListenInv,
           registered' = registered, clientsContext' = clientsContext,
           \A a \in Addr : ctx'[a].s = ctx[a].s /\ ctx'[a].op \in {ctx[a].op, "READ"},
           \A h \in registered : sock'[h] = "up" => sock[h] = "up",
           pc[acceptor] = "recv" => pc'[acceptor] = "recv",
           pc'[acceptor] \in {"reg", "recv"} =>
               pc[acceptor] = pc'[acceptor] /\ ptr'[acceptor] = ptr[acceptor],
           \A h \in registered : sock[h] = "up" /\ Listened(h) => Listened(h)'
    PROVE  ListenInv'
<1>1. \A h \in registered : h \in DOMAIN clientsContext /\ clientsContext[h] \in Addr
      BY OwnContext DEF ListenInv
<1>2. OpRead' BY <1>1 DEF ListenInv, OpRead
<1>3. pc[acceptor] \in {"reg", "recv"} => ptr[acceptor] \in Addr
      BY DEF Inv, TypeInv, LocalsOK
<1>4. AcceptorsContext' BY <1>3 DEF ListenInv, AcceptorsContext
<1>. QED BY <1>2, <1>4 DEF ListenInv

\* SendThread's steps, except RemoveClient, leave receives, packets and all other
\* threads alone.
LEMMA SenderListen ==
    ASSUME Inv, ListenInv, NEW t \in Sender, SenderStep(t), ~RemoveFailed(t)
    PROVE  ListenInv'
<1>. USE ThreadAssumption DEF Inv, TypeInv, TypeOK, PcTypeOK, TableTypeOK, Thread, Goto, tableVars,
     ioVars, threadVars
<1>1. /\ registered' = registered /\ clientsContext' = clientsContext
      /\ ctx' = ctx /\ sock' = sock /\ recvs' = recvs /\ port' = port /\ ptr' = ptr
      /\ \A u \in ({acceptor} \cup Worker \cup Sender) \ {t} : pc'[u] = pc[u] /\ fd'[u] = fd[u]
      /\ pc[t] = "remove" => pc'[t] = "remove" /\ fd'[t] = fd[t]
  <2>1. CASE \E h \in Handle : NextClient(t, h) \/ SendReq(t, h)
    BY <2>1 DEF NextClient, SendReq, PostSend, LocalTypeOK
  <2>2. CASE SendThread(t) \/ PopCmd(t) \/ PutBack(t)
    BY <2>2 DEF SendThread, PopCmd, PutBack, LocalTypeOK
  <2>3. CASE ClientDone(t) \/ EndCollect(t) \/ SendThreadEnds(t)
    BY <2>3 DEF ClientDone, EndCollect, SendThreadEnds, LocalTypeOK
  <2>. QED BY <2>1, <2>2, <2>3 DEF SenderStep
<1>2. \A h \in registered : Listened(h) => Listened(h)'
  <2>. SUFFICES ASSUME NEW h \in registered, Listened(h) PROVE Listened(h)' OBVIOUS
  <2>1. clientsContext[h] \in Addr BY OwnContext DEF ListenInv
  <2>. QED BY <1>1, <2>1, StillListened
<1>. QED BY <1>1, <1>2, ListenKept

\* RemoveClient of g takes g out of the registered handles, and leaves the operations
\* and the context of every other client alone.
LEMMA RemoveListen ==
    ASSUME Inv, ListenInv, NEW g, RemoveClient(g), ptr' = ptr,
           \A t \in {acceptor} \cup Worker \cup Sender :
              \/ pc'[t] = pc[t] /\ fd'[t] = fd[t]
              \/ pc[t] = "remove" /\ fd[t] = g /\ pc'[t] \in {"idle", "send"}
    PROVE  ListenInv'
<1>1. /\ registered' = registered \ {g}
      /\ \A h \in DOMAIN clientsContext \ {g} :
            /\ h \in DOMAIN clientsContext' /\ clientsContext'[h] = clientsContext[h]
            /\ recvs'[h] = recvs[h] /\ sock'[h] = sock[h]
      /\ DOMAIN clientsContext' = DOMAIN clientsContext \ {g}
      /\ port' = port
      /\ \A a \in Addr : ctx'[a].op = ctx[a].op /\ ctx'[a].s = ctx[a].s
  <2>1. CASE g \in DOMAIN clientsContext
    <3>1. g \in DOMAIN clientCmd /\ clientsContext[g] \in Addr /\ g \in Handle
          BY <2>1, OwnContext DEF Inv, TablesAgree
    <3>2. /\ clientsContext' = [h \in DOMAIN clientsContext \ {g} |-> clientsContext[h]]
          /\ ctx' = [ctx EXCEPT ![clientsContext[g]].server = FALSE]
          /\ CloseSocket(g)
          /\ port' = port
          BY <2>1, <3>1 DEF RemoveClient, Erase, Restrict
    <3>3. \A a \in Addr : ctx'[a].op = ctx[a].op /\ ctx'[a].s = ctx[a].s
          BY <3>1, <3>2 DEF Inv, TypeInv, TypeOK, TableTypeOK, Context
    <3>4. \A h \in DOMAIN clientsContext \ {g} : recvs'[h] = recvs[h] /\ sock'[h] = sock[h]
          BY <3>1, <3>2, OwnContext DEF CloseSocket, Inv, TypeInv, TypeOK, KernelTypeOK
    <3>. QED BY <3>2, <3>3, <3>4 DEF CloseSocket
  <2>2. CASE g \notin DOMAIN clientsContext
    BY <2>2 DEF RemoveClient, Erase, Restrict, Inv, TypeInv, TypeOK,
       TableTypeOK, TablesAgree, ListenInv
  <2>. QED BY <2>1, <2>2
<1>2. registered' \subseteq DOMAIN clientsContext' BY <1>1 DEF ListenInv
<1>3. \A h \in registered' : h \in DOMAIN clientsContext /\ clientsContext[h] \in Addr
      BY <1>1, OwnContext DEF ListenInv
<1>4. OpRead' BY <1>1, <1>3 DEF ListenInv, OpRead
<1>5. AcceptorsContext'
  <2>1. pc[acceptor] \in {"reg", "recv"} => ptr[acceptor] \in Addr
        BY DEF Inv, TypeInv, LocalsOK
  <2>. QED BY <1>1, <2>1 DEF ListenInv, AcceptorsContext
<1>6. ASSUME NEW h \in registered', sock'[h] = "up" PROVE Listened(h)'
  <2>1. Listened(h) /\ h # g /\ h \in DOMAIN clientsContext
        BY <1>1, <1>3, <1>6 DEF ListenInv
  <2>2. /\ clientsContext'[h] = clientsContext[h] /\ recvs'[h] = recvs[h]
        /\ clientsContext[h] \in Addr
        BY <1>1, <1>3, <1>6, <2>1
  <2>. QED BY <1>1, <2>1, <2>2 DEF Listened
<1>. QED BY <1>2, <1>4, <1>5, <1>6 DEF ListenInv

LEMMA HeartListen ==
    ASSUME Inv, ListenInv, NEW t \in Heart, HeartStep(t)
    PROVE  ListenInv'
<1>. USE ThreadAssumption DEF Inv, TypeInv, TypeOK, PcTypeOK, TableTypeOK, Thread, Goto
<1>1. ASSUME NEW h \in Handle, HeartRemove(t, h) PROVE ListenInv'
  BY <1>1, RemoveListen DEF HeartRemove
<1>2. CASE HeartCheckTimer(t)
  <2>1. /\ registered' = registered /\ clientsContext' = clientsContext
        /\ ctx' = ctx /\ sock' = sock /\ recvs' = recvs /\ port' = port /\ ptr' = ptr /\ fd' = fd
        /\ \A u \in {acceptor} \cup Worker \cup Sender : pc'[u] = pc[u]
        BY <1>2 DEF HeartCheckTimer, tableVars, ioVars
  <2>2. \A h \in registered : Listened(h) => Listened(h)'
    <3>. SUFFICES ASSUME NEW h \in registered, Listened(h) PROVE Listened(h)' OBVIOUS
    <3>1. clientsContext[h] \in Addr BY OwnContext DEF ListenInv
    <3>. QED BY <2>1, <3>1, StillListened
  <2>. QED BY <2>1, <2>2, ListenKept
<1>. QED BY <1>1, <1>2 DEF HeartStep

-----------------------------------------------------------------------------
\* A receive is posted for the client the context names, or the thread goes on to
\* remove that client.
LEMMA RecvReqListen ==
    ASSUME Inv, ListenInv, NEW t \in {acceptor} \cup Worker, RecvReq(t)
    PROVE  ListenInv'
<1>. USE ThreadAssumption DEF Inv, TypeInv, TypeOK, PcTypeOK, TableTypeOK, KernelTypeOK, LocalTypeOK,
     Thread, Goto
<1>. DEFINE a == ptr[t]
            g == ctx[a].s
<1>1. a \in Addr /\ pc[t] = "recv" BY DEF RecvReq, LocalsOK
<1>2. /\ registered' = registered /\ clientsContext' = clientsContext
      /\ sock' = sock /\ port' = port
      /\ ctx' = [ctx EXCEPT ![a] = [@ EXCEPT !.data = 0, !.op = "READ"]]
      /\ fd' = fd
      /\ \/ /\ recvs' = Incr(recvs, g, a) /\ sock[g] # "free"
            /\ pc' = [pc EXCEPT ![t] = "idle"] /\ ptr' = [ptr EXCEPT ![t] = NULL]
         \/ /\ recvs' = recvs
            /\ pc' = [pc EXCEPT ![t] = "refused"] /\ ptr' = ptr
      BY DEF RecvReq, tableVars
<1>3. \A b \in Addr : /\ ctx'[b].s = ctx[b].s
                      /\ ctx'[b].op = IF b = a THEN "READ" ELSE ctx[b].op
      BY <1>1, <1>2 DEF Context
<1>4. \A h \in registered : /\ h \in Handle /\ clientsContext[h] \in Addr
                            /\ clientsContext[h] = a => h = g
      BY OwnContext DEF ListenInv
<1>5. OpRead' BY <1>1, <1>2, <1>3, <1>4 DEF ListenInv, OpRead
<1>6. AcceptorsContext'
  <2>1. pc'[acceptor] \in {"reg", "recv"} => pc[acceptor] \in {"reg", "recv"} /\ acceptor # t
        BY <1>1, <1>2
  <2>2. pc[acceptor] \in {"reg", "recv"} => ptr[acceptor] \in Addr
        BY DEF LocalsOK
  <2>. QED BY <1>1, <1>2, <1>3, <2>1, <2>2 DEF ListenInv, AcceptorsContext
<1>7. ASSUME NEW h \in registered, sock[h] = "up", Listened(h) PROVE Listened(h)'
  <2>1. CASE clientsContext[h] = a
    <3>1. CASE recvs' = Incr(recvs, g, a)
      <4>1. h = g /\ h \in Handle BY <1>4, <2>1
      <4>2. recvs'[h][a] = recvs[h][a] + 1 BY <1>1, <3>1, <4>1 DEF Incr
      <4>3. recvs[h][a] \in Nat BY <1>1, <4>1
      <4>4. recvs'[h][a] > 0 BY <4>2, <4>3
      <4>. QED BY <1>2, <2>1, <4>4 DEF Listened
    <3>2. CASE pc' = [pc EXCEPT ![t] = "refused"] /\ ptr' = ptr
      <4>1. pc'[t] = "refused" /\ ptr'[t] = clientsContext'[h] BY <1>2, <2>1, <3>2
      <4>. QED BY <4>1 DEF Listened
    <3>. QED BY <1>2, <3>1, <3>2
  <2>2. CASE clientsContext[h] # a
    <3>1. recvs'[h][clientsContext[h]] = recvs[h][clientsContext[h]]
      <4>1. CASE recvs' = recvs BY <4>1
      <4>2. CASE recvs' = Incr(recvs, g, a) /\ h # g BY <1>4, <4>2 DEF Incr
      <4>3. CASE recvs' = Incr(recvs, g, a) /\ h = g BY <1>1, <1>4, <2>2, <4>3 DEF Incr
      <4>. QED BY <1>2, <4>1, <4>2, <4>3
    <3>2. \A u \in {acceptor} \cup Worker : ptr[u] = clientsContext[h] =>
              u # t /\ ptr'[u] = ptr[u] /\ pc'[u] = pc[u]
          BY <1>2, <2>2
    <3>3. \A u \in {acceptor} \cup Worker \cup Sender :
              pc[u] = "remove" => pc'[u] = "remove" /\ fd'[u] = fd[u]
          BY <1>1, <1>2
    <3>. QED BY <1>2, <1>7, <3>1, <3>2, <3>3 DEF Listened
  <2>. QED BY <2>1, <2>2
<1>. QED BY <1>2, <1>5, <1>6, <1>7 DEF ListenInv

\* The handle read again is still the client's, if the context is.
LEMMA RecvReqFailsListen ==
    ASSUME Inv, ListenInv, NEW t \in {acceptor} \cup Worker, RecvReqFails(t)
    PROVE  ListenInv'
<1>. USE ThreadAssumption DEF Inv, TypeInv, TypeOK, PcTypeOK, TableTypeOK, LocalTypeOK, Thread, Goto
<1>. DEFINE g == ctx[ptr[t]].s
<1>1. /\ registered' = registered /\ clientsContext' = clientsContext
      /\ sock' = sock /\ ctx' = ctx /\ recvs' = recvs /\ port' = port
      /\ pc[t] = "refused"
      /\ pc' = [pc EXCEPT ![t] = "remove"] /\ fd' = [fd EXCEPT ![t] = g]
      /\ ptr' = [ptr EXCEPT ![t] = NULL]
      BY DEF RecvReqFails, RecvRefused, tableVars, ioVars
<1>2. ASSUME NEW h \in registered, Listened(h) PROVE Listened(h)'
  <2>1. CASE ptr[t] = clientsContext[h]
    <3>1. g = h BY <2>1, OwnContext DEF ListenInv
    <3>2. pc'[t] = "remove" /\ fd'[t] = h BY <1>1, <3>1
    <3>. QED BY <3>2 DEF Listened
  <2>2. CASE ptr[t] # clientsContext[h]
    <3>1. \A u \in ({acceptor} \cup Worker) \ {t} : ptr'[u] = ptr[u] /\ pc'[u] = pc[u] BY <1>1
    <3>2. \A u \in {acceptor} \cup Worker \cup Sender :
              pc[u] = "remove" => pc'[u] = "remove" /\ fd'[u] = fd[u]
          BY <1>1
    <3>. QED BY <1>1, <1>2, <2>2, <3>1, <3>2 DEF Listened
  <2>. QED BY <2>1, <2>2
<1>. QED BY <1>1, <1>2, ListenKept

LEMMA CompletionPortListen ==
    ASSUME Inv, ListenInv, NEW w \in Worker, NEW a \in Addr, CompletionPortThread(w, a)
    PROVE  ListenInv'
<1>. USE ThreadAssumption DEF Inv, TypeInv, TypeOK, PcTypeOK, TableTypeOK, KernelTypeOK, LocalTypeOK,
     Thread, Goto
<1>1. /\ registered' = registered /\ clientsContext' = clientsContext
      /\ sock' = sock /\ ctx' = ctx /\ recvs' = recvs /\ fd' = fd
      /\ port' = [port EXCEPT ![a] = @ - 1]
      /\ ptr' = [ptr EXCEPT ![w] = a]
      /\ pc' = [pc EXCEPT ![w] = "callback"]
      /\ pc[w] = "idle"
      BY DEF CompletionPortThread, tableVars
<1>2. pc'[w] = "callback" /\ ptr'[w] = a /\ w # acceptor BY <1>1
<1>3. ASSUME NEW h \in registered, Listened(h) PROVE Listened(h)'
  <2>1. clientsContext[h] \in Addr BY OwnContext DEF ListenInv
  <2>2. CASE clientsContext[h] = a BY <1>1, <1>2, <2>2 DEF Listened
  <2>3. CASE clientsContext[h] # a
    <3>1. port'[clientsContext[h]] = port[clientsContext[h]] BY <1>1, <2>1, <2>3
    <3>2. \A u \in {acceptor} \cup Worker \cup Sender :
              pc[u] # "idle" => pc'[u] = pc[u] /\ u # w
          BY <1>1
    <3>3. \A u \in {acceptor} \cup Worker : u # w => ptr'[u] = ptr[u] BY <1>1
    <3>. QED BY <1>1, <1>3, <3>1, <3>2, <3>3 DEF Listened
  <2>. QED BY <2>2, <2>3
<1>. QED BY <1>1, <1>2, <1>3, ListenKept

\* The worker goes on: the context is its client's, which has READ as its op.
LEMMA CallBackListen ==
    ASSUME Inv, ListenInv, NEW w \in Worker, NetServerCallBack(w)
    PROVE  ListenInv'
<1>. USE ThreadAssumption DEF Inv, TypeInv, TypeOK, PcTypeOK, TableTypeOK, LocalTypeOK, Thread, Goto
<1>1. /\ registered' = registered /\ clientsContext' = clientsContext
      /\ sock' = sock /\ ctx' = ctx /\ recvs' = recvs /\ port' = port
      /\ pc[w] = "callback"
      /\ \A u \in ({acceptor} \cup Worker \cup Sender) \ {w} : pc'[u] = pc[u] /\ fd'[u] = fd[u]
      /\ \A u \in ({acceptor} \cup Worker) \ {w} : ptr'[u] = ptr[u]
      BY DEF NetServerCallBack, tableVars, ioVars
<1>2. ctx[ptr[w]].server /\ ctx[ptr[w]].op = "READ" => pc'[w] = "parse" /\ ptr'[w] = ptr[w]
      BY DEF NetServerCallBack
<1>3. ASSUME NEW h \in registered, Listened(h) PROVE Listened(h)'
  <2>1. ctx[clientsContext[h]].server BY OwnContext DEF ListenInv
  <2>2. CASE ptr[w] = clientsContext[h] /\ ctx[clientsContext[h]].op = "READ"
    <3>1. pc'[w] = "parse" /\ ptr'[w] = clientsContext[h] BY <1>2, <2>1, <2>2
    <3>. QED BY <1>1, <3>1 DEF Listened
  <2>3. CASE ptr[w] = clientsContext[h] /\ ctx[clientsContext[h]].op # "READ"
    <3>1. pc[acceptor] = "recv" /\ ptr[acceptor] = clientsContext[h]
          BY <2>3 DEF ListenInv, OpRead
    <3>2. pc'[acceptor] = "recv" /\ ptr'[acceptor] = clientsContext[h] BY <1>1, <3>1
    <3>. QED BY <1>1, <3>2 DEF Listened
  <2>4. CASE ptr[w] # clientsContext[h]
    BY <1>1, <1>3, <2>4 DEF Listened
  <2>. QED BY <2>2, <2>3, <2>4
<1>. QED BY <1>1, <1>3, ListenKept

LEMMA WorkerListen ==
    ASSUME Inv, ListenInv, NEW w \in Worker, WorkerStep(w)
    PROVE  ListenInv'
<1>. USE ThreadAssumption DEF Inv, TypeInv, TypeOK, PcTypeOK, TableTypeOK, LocalTypeOK, Thread, Goto
<1>1. CASE RecvNetCmdData(w) \/ RecvNetCmdDataEnds(w)
  <2>1. /\ registered' = registered /\ clientsContext' = clientsContext
        /\ ctx' = ctx /\ sock' = sock /\ recvs' = recvs /\ port' = port /\ ptr' = ptr
        /\ \A u \in ({acceptor} \cup Worker \cup Sender) \ {w} : pc'[u] = pc[u] /\ fd'[u] = fd[u]
        /\ pc[w] \in {"callback", "parse", "recv", "refused"} => pc'[w] \in {"callback", "parse", "recv", "refused"}
        /\ pc[w] = "remove" => pc'[w] = "remove" /\ fd'[w] = fd[w]
        BY <1>1 DEF RecvNetCmdData, RecvNetCmdDataEnds, tableVars, ioVars
  <2>2. \A h \in registered : Listened(h) => Listened(h)'
    <3>. SUFFICES ASSUME NEW h \in registered, Listened(h) PROVE Listened(h)' OBVIOUS
    <3>1. clientsContext[h] \in Addr BY OwnContext DEF ListenInv
    <3>. QED BY <2>1, <3>1, StillListened
  <2>. QED BY <2>1, <2>2, ListenKept
<1>2. CASE RemoveFailed(w)
  BY <1>2, RemoveListen DEF RemoveFailed
<1>. QED BY <1>1, <1>2, CompletionPortListen, CallBackListen, RecvReqListen, RecvReqFailsListen
         DEF WorkerStep

LEMMA AcceptorListen ==
    ASSUME Inv, ListenInv, AcceptThread
    PROVE  ListenInv'
<1>. USE ThreadAssumption DEF Inv, TypeInv, TypeOK, PcTypeOK, TableTypeOK, KernelTypeOK, LocalTypeOK,
     Thread, Goto
<1>1. ASSUME NEW g \in Handle, Accept(g) PROVE ListenInv'
  <2>1. /\ registered' = registered /\ clientsContext' = clientsContext
        /\ ctx' = ctx /\ sock' = [sock EXCEPT ![g] = "up"] /\ recvs' = recvs /\ port' = port
        /\ ptr' = ptr /\ pc[acceptor] = "idle" /\ sock[g] = "free"
        /\ pc' = [pc EXCEPT ![acceptor] = "add"] /\ fd' = [fd EXCEPT ![acceptor] = g]
        BY <1>1 DEF Accept, tableVars, ioVars
  <2>2. \A h \in registered : h # g /\ sock'[h] = sock[h] BY <2>1, OwnContext DEF ListenInv
  <2>3. ASSUME NEW h \in registered, Listened(h) PROVE Listened(h)'
    <3>1. clientsContext[h] \in Addr BY OwnContext DEF ListenInv
    <3>. QED BY <2>1, <2>3, <3>1, StillListened
  <2>. QED BY <2>1, <2>2, <2>3, ListenKept
<1>6. ASSUME NEW a \in Addr, NewContext(a) PROVE ListenInv'
  <2>1. /\ registered' = registered /\ recvs' = recvs /\ port' = port /\ sock' = sock
        /\ fd' = fd /\ clientsContext' = clientsContext
        /\ pc[acceptor] = "add" /\ a \notin alloc
        /\ ctx' = [ctx EXCEPT ![a] = [s |-> fd[acceptor], server |-> TRUE, op |-> "NONE", data |-> 0]]
        /\ pc' = [pc EXCEPT ![acceptor] = "insert"]
        /\ ptr' = [ptr EXCEPT ![acceptor] = a]
        BY <1>6 DEF NewContext, ioVars
  <2>2. \A h \in DOMAIN clientsContext :
            clientsContext[h] \in Addr /\ ctx'[clientsContext[h]] = ctx[clientsContext[h]]
        BY <2>1, OwnContext DEF TablesAgree, Range
  <2>3. OpRead' BY <2>1, <2>2 DEF ListenInv, OpRead
  <2>4. AcceptorsContext' BY <2>1 DEF AcceptorsContext
  <2>5. ASSUME NEW h \in registered, Listened(h) PROVE Listened(h)'
    <3>1. clientsContext[h] \in Addr BY OwnContext DEF ListenInv
    <3>. QED BY <2>1, <2>5, <3>1, StillListened
  <2>. QED BY <2>1, <2>3, <2>4, <2>5 DEF ListenInv
<1>2. CASE AddNewClient
  <2>. DEFINE g == fd[acceptor]
              a == ptr[acceptor]
  <2>1. /\ registered' = registered /\ recvs' = recvs /\ port' = port /\ sock' = sock
        /\ pc[acceptor] = "insert" /\ ctx' = ctx /\ ptr' = ptr
        /\ clientsContext' = Put(clientsContext, g, a)
        /\ pc' = [pc EXCEPT ![acceptor] = "reg"]
        /\ fd' = [fd EXCEPT ![acceptor] = NULL]
        BY <1>2 DEF AddNewClient, ioVars
  <2>2. g \notin DOMAIN clientsContext BY <2>1 DEF TablesAgree
  <2>8. ctx[a].s = g BY <2>1 DEF TablesAgree, NewContexts
  <2>3. \A h \in DOMAIN clientsContext :
            /\ h \in DOMAIN clientsContext' /\ clientsContext'[h] = clientsContext[h]
            /\ clientsContext[h] \in Addr
        BY <2>1, <2>2, OwnContext DEF Put
  <2>4. registered' \subseteq DOMAIN clientsContext' BY <2>1, <2>3 DEF ListenInv
  <2>5. OpRead' BY <2>1, <2>3 DEF ListenInv, OpRead
  <2>6. AcceptorsContext'
    <3>1. ptr'[acceptor] = a /\ ctx'[a].s = g /\ clientsContext'[g] = a BY <2>1, <2>8 DEF Put
    <3>. QED BY <3>1 DEF AcceptorsContext
  <2>7. ASSUME NEW h \in registered, Listened(h) PROVE Listened(h)'
    <3>1. h \in DOMAIN clientsContext BY DEF ListenInv
    <3>2. \A u \in {acceptor} \cup Worker : pc[u] \in {"callback", "parse", "recv", "refused"} =>
              pc'[u] = pc[u] /\ ptr'[u] = ptr[u]
          BY <2>1
    <3>3. \A u \in {acceptor} \cup Worker \cup Sender : pc[u] = "remove" =>
              pc'[u] = pc[u] /\ fd'[u] = fd[u]
          BY <2>1
    <3>. QED BY <2>1, <2>3, <2>7, <3>1, <3>2, <3>3 DEF Listened
  <2>. QED BY <2>1, <2>4, <2>5, <2>6, <2>7 DEF ListenInv
<1>3. CASE RegNewIocpTask
  <2>. DEFINE b == ptr[acceptor]
              g == ctx[b].s
  <2>1. /\ clientsContext' = clientsContext /\ pc[acceptor] = "reg"
        /\ ctx' = ctx /\ sock' = sock /\ recvs' = recvs /\ port' = port /\ fd' = fd
        BY <1>3 DEF RegNewIocpTask, tableVars
  <2>2. \A u \in ({acceptor} \cup Worker \cup Sender) \ {acceptor} :
            pc'[u] = pc[u] /\ (u \in Worker => ptr'[u] = ptr[u])
        BY <1>3 DEF RegNewIocpTask
  <2>3. ASSUME NEW h \in registered, Listened(h) PROVE Listened(h)'
    <3>1. clientsContext[h] \in Addr BY OwnContext DEF ListenInv
    <3>. QED BY <2>1, <2>2, <2>3, <3>1, StillListened
  <2>4. CASE registered' = registered /\ pc'[acceptor] = "idle"
    BY <2>1, <2>3, <2>4, ListenKept
  <2>5. CASE /\ g \in Handle /\ sock[g] # "free" /\ registered' = registered \cup {g}
             /\ pc' = [pc EXCEPT ![acceptor] = "recv"] /\ ptr' = ptr
    <3>1. g \in DOMAIN clientsContext BY <2>1, <2>5 DEF TablesAgree
    <3>2. clientsContext[g] = b BY <2>1, <3>1 DEF ListenInv, AcceptorsContext
    <3>3. pc'[acceptor] = "recv" /\ ptr'[acceptor] = b BY <2>5
    <3>4. Listened(g)' BY <2>1, <3>2, <3>3 DEF Listened
    <3>5. OpRead' BY <2>1, <2>5, <3>2, <3>3 DEF ListenInv, OpRead
    <3>6. AcceptorsContext' BY <2>1, <2>5, <3>2 DEF ListenInv, AcceptorsContext
    <3>. QED BY <2>1, <2>3, <2>5, <3>1, <3>4, <3>5, <3>6 DEF ListenInv
  <2>. QED BY <1>3, <2>4, <2>5 DEF RegNewIocpTask
<1>5. CASE RemoveFailed(acceptor)
  BY <1>5, RemoveListen DEF RemoveFailed
<1>. QED BY <1>1, <1>2, <1>3, <1>5, <1>6, RecvReqListen, RecvReqFailsListen DEF AcceptThread

-----------------------------------------------------------------------------
\* The completion of a receive brings the packet of a registered client to the port.
LEMMA EnvironmentListen ==
    ASSUME Inv, ListenInv, Environment
    PROVE  ListenInv'
<1>. USE ThreadAssumption DEF Inv, TypeInv, TypeOK, PcTypeOK, TableTypeOK, KernelTypeOK
<1>1. ASSUME NEW g \in Handle,
             PeerBreaks(g) \/ \E c \in Cmd : CallSendCmdData(g, c)
      PROVE  ListenInv'
  <2>1. /\ ioVars' = ioVars /\ tableVars' = tableVars /\ threadVars' = threadVars /\ ctx' = ctx
        /\ \A h \in Handle : sock'[h] = "up" => sock[h] = "up"
        BY <1>1 DEF PeerBreaks, CallSendCmdData
  <2>2. /\ registered' = registered /\ recvs' = recvs /\ port' = port
        /\ clientsContext' = clientsContext /\ pc' = pc /\ ptr' = ptr /\ fd' = fd
        BY <2>1 DEF ioVars, tableVars, threadVars
  <2>3. \A h \in registered : Listened(h) => Listened(h)' BY <2>2 DEF Listened
  <2>. QED BY <2>1, <2>2, <2>3, ListenKept
<1>2. ASSUME NEW g \in Handle, NEW a \in Addr,
             \/ \E n \in 0 .. MaxPerRecv : RecvCompletes(g, a, n)
             \/ SendCompletes(g, a)
             \/ IoFails(g, a)
      PROVE  ListenInv'
  <2>1. /\ registered' = registered /\ clientsContext' = clientsContext /\ sock' = sock
        /\ threadVars' = threadVars
        BY <1>2 DEF RecvCompletes, SendCompletes, IoFails, tableVars
  <2>4. \A b \in Addr : ctx'[b].op = ctx[b].op /\ ctx'[b].s = ctx[b].s
    <3>1. CASE ctx' = ctx BY <3>1
    <3>2. ASSUME NEW n \in 0 .. MaxPerRecv, RecvCompletes(g, a, n)
          PROVE  \A b \in Addr : ctx'[b].op = ctx[b].op /\ ctx'[b].s = ctx[b].s
      BY <3>2 DEF RecvCompletes, Context
    <3>. QED BY <1>2, <3>1, <3>2 DEF SendCompletes, IoFails
  <2>2. \A b \in Addr : port[b] > 0 => port'[b] > 0
        BY <1>2 DEF RecvCompletes, SendCompletes, IoFails, QueuePacket
  <2>3. ASSUME NEW h \in registered, sock[h] = "up", Listened(h) PROVE Listened(h)'
    <3>1. h \in Handle /\ clientsContext[h] \in Addr BY OwnContext DEF ListenInv
    <3>2. \/ recvs'[h][clientsContext[h]] = recvs[h][clientsContext[h]]
          \/ port'[clientsContext[h]] > 0
      <4>1. CASE SendCompletes(g, a) BY <4>1 DEF SendCompletes
      <4>2. CASE IoFails(g, a)
        BY <2>3, <3>1, <4>2 DEF IoFails, Decr
      <4>3. ASSUME NEW n \in 0 .. MaxPerRecv, RecvCompletes(g, a, n)
            PROVE  \/ recvs'[h][clientsContext[h]] = recvs[h][clientsContext[h]]
                   \/ port'[clientsContext[h]] > 0
        <5>1. CASE h = g /\ a = clientsContext[h]
          BY <3>1, <4>3, <5>1 DEF RecvCompletes, QueuePacket
        <5>2. CASE h # g \/ a # clientsContext[h]
          BY <3>1, <4>3, <5>2 DEF RecvCompletes, Decr
        <5>. QED BY <5>1, <5>2
      <4>. QED BY <1>2, <4>1, <4>2, <4>3
    <3>. QED BY <2>1, <2>2, <2>3, <3>1, <3>2 DEF Listened, threadVars
  <2>. QED BY <2>1, <2>3, <2>4, ListenKept DEF threadVars
<1>. QED BY <1>1, <1>2 DEF Environment

LEMMA ListenStep == Inv /\ ListenInv /\ [Next]_vars => ListenInv'
<1>. SUFFICES ASSUME Inv, ListenInv, [Next]_vars PROVE ListenInv' OBVIOUS
<1>1. CASE UNCHANGED vars
  BY <1>1 DEF vars, ioVars, tableVars, threadVars, ListenInv, OpRead, AcceptorsContext, Listened
<1>2. ASSUME NEW t \in Sender, RemoveFailed(t) PROVE ListenInv'
  BY <1>2, RemoveListen, ThreadAssumption DEF RemoveFailed, Goto, Inv, TypeInv, TypeOK, PcTypeOK,
     LocalTypeOK, Thread
<1>3. ASSUME NEW t \in Thread, WaitExclusive(t) PROVE ListenInv'
  <2>1. ioVars' = ioVars /\ tableVars' = tableVars /\ threadVars' = threadVars
        /\ sock' = sock /\ ctx' = ctx
        BY <1>3 DEF WaitExclusive
  <2>. QED BY <2>1 DEF ioVars, tableVars, threadVars, ListenInv, OpRead, AcceptorsContext, Listened
<1>. QED BY <1>1, <1>2, <1>3, AcceptorListen, WorkerListen, SenderListen, HeartListen,
         EnvironmentListen DEF Next

\* TCPServer.cpp: a client whose socket works always has a receive in flight, or its
\* completion at the port, or a thread on the way to RecvReq or RemoveClient.
THEOREM AlwaysListened == Spec => []NeverDeaf
<1>1. Init => Inv /\ ListenInv BY InitTypeInv, InitTables, InitListen DEF Inv
<1>2. Inv /\ ListenInv /\ [Next]_vars => Inv' /\ ListenInv'
      BY TypeInvStep, TablesStep, ListenStep DEF Inv
<1>. QED BY <1>1, <1>2, ListenInvSuffices, PTL DEF Spec

-----------------------------------------------------------------------------
LEMMA ElementsOfAppend ==
    ASSUME NEW S, NEW s \in Seq(S), NEW e \in S
    PROVE  /\ Append(s, e) \in Seq(S)
           /\ \A j \in DOMAIN Append(s, e) :
                 \/ j \in DOMAIN s /\ Append(s, e)[j] = s[j]
                 \/ j = Len(s) + 1 /\ Append(s, e)[j] = e
<1>1. Len(s) \in Nat /\ DOMAIN s = 1 .. Len(s) BY LenProperties
<1>2. DOMAIN Append(s, e) = 1 .. Len(s) + 1 BY AppendProperties, LenProperties
<1>3. Append(s, e)[Len(s) + 1] = e BY AppendProperties
<1>4. \A j \in 1 .. Len(s) : Append(s, e)[j] = s[j] BY AppendProperties
<1>. QED BY <1>1, <1>2, <1>3, <1>4, AppendProperties

LEMMA ElementsOfTail ==
    ASSUME NEW S, NEW s \in Seq(S), s # <<>>
    PROVE  /\ Head(s) \in S /\ Tail(s) \in Seq(S)
           /\ 1 \in DOMAIN s /\ Head(s) = s[1]
           /\ \A j \in DOMAIN Tail(s) : j \in Nat \ {0} /\ j + 1 \in DOMAIN s /\ Tail(s)[j] = s[j + 1]
<1>1. Len(s) \in Nat \ {0} /\ DOMAIN s = 1 .. Len(s) BY LenProperties, EmptySeq
<1>2. DOMAIN Tail(s) = 1 .. Len(s) - 1 BY HeadTailProperties, LenProperties
<1>3. \A j \in 1 .. Len(s) - 1 : Tail(s)[j] = s[j + 1] BY HeadTailProperties
<1>. QED BY <1>1, <1>2, <1>3, HeadTailProperties

(***************************************************************************)
(* OneOwnerPerCommand.                                                     *)
(***************************************************************************)
\* The sequences of commands: a client's queue, what a sender collected for a client,
\* and the command a sender holds.
Place ==
    {<<"queue", h, h>> : h \in Handle} \cup {<<"batch", t, h>> : t \in Sender, h \in Handle}
    \cup {<<"hold", t, t>> : t \in Sender}

StoreOf(queues, batches, held) ==
    [p \in Place |->
        IF p[1] = "queue" THEN IF p[2] \in DOMAIN queues THEN queues[p[2]] ELSE <<>>
        ELSE IF p[1] = "batch" THEN batches[p[2]][p[3]]
        ELSE IF held[p[2]] = NULL THEN <<>> ELSE <<held[p[2]]>>]

Store == StoreOf(clientCmd, batch, hold)

\* Every command in the sequences F is allocated, and is there once.
Owned(F, heap) ==
    \A p \in Place : \A i \in DOMAIN F[p] :
        /\ F[p][i] \in heap
        /\ \A q \in Place : \A j \in DOMAIN F[q] : F[p][i] = F[q][j] => p = q /\ i = j

OwnerInv ==
    /\ Owned(Store, heapCmd)
    /\ \A t \in Sender : hold[t] # NULL => pc[t] = "putback"

\* The command at the head of p goes to the end of q.
Moved(F, G, p, q) ==
    /\ p # q
    /\ F[p] # <<>>
    /\ G[p] = Tail(F[p])
    /\ G[q] = Append(F[q], Head(F[p]))
    /\ \A r \in Place \ {p, q} : G[r] = F[r]

LEMMA OwnedMove ==
    ASSUME NEW F \in [Place -> Seq(Cmd)], NEW G \in [Place -> Seq(Cmd)], NEW heap, Owned(F, heap),
           NEW p \in Place, NEW q \in Place, Moved(F, G, p, q)
    PROVE  Owned(G, heap)
<1>. USE DEF Moved
<1>. DEFINE c == Head(F[p])
<1>1. /\ c \in Cmd /\ 1 \in DOMAIN F[p] /\ c = F[p][1]
      /\ \A j \in DOMAIN G[p] : j \in Nat \ {0} /\ j + 1 \in DOMAIN F[p] /\ G[p][j] = F[p][j + 1]
      BY ElementsOfTail
<1>2. \A j \in DOMAIN G[q] : \/ j \in DOMAIN F[q] /\ G[q][j] = F[q][j]
                             \/ j = Len(F[q]) + 1 /\ G[q][j] = c
      BY <1>1, ElementsOfAppend
\* Where a command is now, and where it was.
<1>3. \A r \in Place : \A i \in DOMAIN G[r] : \E s \in Place : \E k \in DOMAIN F[s] :
         /\ G[r][i] = F[s][k]
         /\ \/ r = p /\ s = p /\ i \in Nat \ {0} /\ k = i + 1
            \/ r # p /\ s = r /\ k = i
            \/ r = q /\ i = Len(F[q]) + 1 /\ s = p /\ k = 1
  <2>. SUFFICES ASSUME NEW r \in Place, NEW i \in DOMAIN G[r]
                PROVE  \E s \in Place : \E k \in DOMAIN F[s] :
                         /\ G[r][i] = F[s][k]
                         /\ \/ r = p /\ s = p /\ i \in Nat \ {0} /\ k = i + 1
                            \/ r # p /\ s = r /\ k = i
                            \/ r = q /\ i = Len(F[q]) + 1 /\ s = p /\ k = 1
    OBVIOUS
  <2>1. CASE r = p BY <1>1, <2>1
  <2>2. CASE r = q BY <1>1, <1>2, <2>2
  <2>3. CASE r \notin {p, q} BY <2>3
  <2>. QED BY <2>1, <2>2, <2>3
<1>4. ASSUME NEW r \in Place, NEW i \in DOMAIN G[r]
      PROVE  G[r][i] \in heap
  BY <1>3 DEF Owned
<1>5. ASSUME NEW r \in Place, NEW i \in DOMAIN G[r], NEW u \in Place, NEW j \in DOMAIN G[u],
             G[r][i] = G[u][j]
      PROVE  r = u /\ i = j
  <2>1. PICK s \in Place : \E k \in DOMAIN F[s] :
         /\ G[r][i] = F[s][k]
         /\ \/ r = p /\ s = p /\ i \in Nat \ {0} /\ k = i + 1
            \/ r # p /\ s = r /\ k = i
            \/ r = q /\ i = Len(F[q]) + 1 /\ s = p /\ k = 1
        BY <1>3
  <2>2. PICK k \in DOMAIN F[s] :
         /\ G[r][i] = F[s][k]
         /\ \/ r = p /\ s = p /\ i \in Nat \ {0} /\ k = i + 1
            \/ r # p /\ s = r /\ k = i
            \/ r = q /\ i = Len(F[q]) + 1 /\ s = p /\ k = 1
        BY <2>1
  <2>3. PICK w \in Place : \E l \in DOMAIN F[w] :
         /\ G[u][j] = F[w][l]
         /\ \/ u = p /\ w = p /\ j \in Nat \ {0} /\ l = j + 1
            \/ u # p /\ w = u /\ l = j
            \/ u = q /\ j = Len(F[q]) + 1 /\ w = p /\ l = 1
        BY <1>3
  <2>4. PICK l \in DOMAIN F[w] :
         /\ G[u][j] = F[w][l]
         /\ \/ u = p /\ w = p /\ j \in Nat \ {0} /\ l = j + 1
            \/ u # p /\ w = u /\ l = j
            \/ u = q /\ j = Len(F[q]) + 1 /\ w = p /\ l = 1
        BY <2>3
  <2>5. F[s][k] = F[w][l] BY <1>5, <2>2, <2>4
  <2>6. s = w /\ k = l BY <2>5 DEF Owned
  <2>. QED BY <2>2, <2>4, <2>6
<1>. QED BY <1>4, <1>5 DEF Owned

LEMMA OwnedPush ==
    ASSUME NEW F \in [Place -> Seq(Cmd)], NEW G \in [Place -> Seq(Cmd)], NEW heap, Owned(F, heap),
           NEW p \in Place, NEW c \in Cmd \ heap, G[p] = Append(F[p], c),
           \A r \in Place \ {p} : G[r] = F[r]
    PROVE  Owned(G, heap \cup {c})
<1>1. \A r \in Place : \A i \in DOMAIN G[r] :
         \/ i \in DOMAIN F[r] /\ G[r][i] = F[r][i]
         \/ r = p /\ i = Len(F[p]) + 1 /\ G[r][i] = c
      BY ElementsOfAppend
<1>. QED BY <1>1 DEF Owned

\* Sequences that lose commands at their end, or all of them.
LEMMA OwnedFewer ==
    ASSUME NEW F, NEW G, NEW heap, NEW fewer, Owned(F, heap),
           \A r \in Place : G[r] = F[r] \/ G[r] = <<>>,
           \A r \in Place : G[r] = F[r] => \A i \in DOMAIN F[r] : F[r][i] \in fewer
    PROVE  Owned(G, fewer)
<1>1. \A r \in Place : \A i \in DOMAIN G[r] : G[r] = F[r] OBVIOUS
<1>. QED BY <1>1 DEF Owned

LEMMA StoreParts ==
    ASSUME NEW queues, NEW batches, NEW held
    PROVE  /\ \A h \in Handle : StoreOf(queues, batches, held)[<<"queue", h, h>>]
                                  = IF h \in DOMAIN queues THEN queues[h] ELSE <<>>
           /\ \A t \in Sender, h \in Handle :
                StoreOf(queues, batches, held)[<<"batch", t, h>>] = batches[t][h]
           /\ \A t \in Sender : StoreOf(queues, batches, held)[<<"hold", t, t>>]
                                  = IF held[t] = NULL THEN <<>> ELSE <<held[t]>>
BY DEF StoreOf, Place

LEMMA StoreType ==
    ASSUME NEW queues, queues \in [DOMAIN queues -> Seq(Cmd)],
           NEW batches \in [Sender -> [Handle -> Seq(Cmd)]],
           NEW held \in [Sender -> Cmd \cup {NULL}]
    PROVE  StoreOf(queues, batches, held) \in [Place -> Seq(Cmd)]
<1>. DEFINE F == StoreOf(queues, batches, held)
<1>1. ASSUME NEW p \in Place PROVE F[p] \in Seq(Cmd)
  <2>1. CASE \E h \in Handle : p = <<"queue", h, h>>
    <3>1. PICK h \in Handle : p = <<"queue", h, h>> BY <2>1
    <3>2. F[p] = IF h \in DOMAIN queues THEN queues[h] ELSE <<>> BY <3>1, StoreParts
    <3>. HIDE DEF F
    <3>. QED BY <3>2
  <2>2. CASE \E t \in Sender, h \in Handle : p = <<"batch", t, h>>
    <3>1. PICK t \in Sender, h \in Handle : p = <<"batch", t, h>> BY <2>2
    <3>2. F[p] = batches[t][h] BY <3>1, StoreParts
    <3>. HIDE DEF F
    <3>. QED BY <3>2
  <2>3. CASE \E t \in Sender : p = <<"hold", t, t>>
    <3>1. PICK t \in Sender : p = <<"hold", t, t>> BY <2>3
    <3>2. F[p] = IF held[t] = NULL THEN <<>> ELSE <<held[t]>> BY <3>1, StoreParts
    <3>3. \A c \in Cmd : <<c>> \in Seq(Cmd) OBVIOUS
    <3>4. held[t] \in Cmd \cup {NULL} OBVIOUS
    <3>. HIDE DEF F
    <3>. QED BY <3>2, <3>3, <3>4
  <2>. QED BY <2>1, <2>2, <2>3 DEF Place
<1>2. DOMAIN F = Place /\ F = [p \in DOMAIN F |-> F[p]] BY DEF StoreOf
<1>. HIDE DEF F
<1>3. F \in [Place -> Seq(Cmd)] BY <1>1, <1>2
<1>. QED BY <1>3 DEF F

\* The same, of the state before and after a step.
LEMMA StoreAt ==
    /\ \A h \in Handle : h \in DOMAIN clientCmd => Store[<<"queue", h, h>>] = clientCmd[h]
    /\ \A h \in Handle : h \notin DOMAIN clientCmd => Store[<<"queue", h, h>>] = <<>>
    /\ \A t \in Sender, h \in Handle : Store[<<"batch", t, h>>] = batch[t][h]
    /\ \A t \in Sender : hold[t] = NULL => Store[<<"hold", t, t>>] = <<>>
    /\ \A t \in Sender : hold[t] # NULL => Store[<<"hold", t, t>>] = <<hold[t]>>
    /\ \A h \in Handle : h \in DOMAIN clientCmd' => Store'[<<"queue", h, h>>] = clientCmd'[h]
    /\ \A h \in Handle : h \notin DOMAIN clientCmd' => Store'[<<"queue", h, h>>] = <<>>
    /\ \A t \in Sender, h \in Handle : Store'[<<"batch", t, h>>] = batch'[t][h]
    /\ \A t \in Sender : hold'[t] = NULL => Store'[<<"hold", t, t>>] = <<>>
    /\ \A t \in Sender : hold'[t] # NULL => Store'[<<"hold", t, t>>] = <<hold'[t]>>
<1>1. Store = StoreOf(clientCmd, batch, hold) BY DEF Store
<1>2. Store' = StoreOf(clientCmd', batch', hold') BY DEF Store
<1>3. /\ \A h \in Handle : Store[<<"queue", h, h>>]
                             = IF h \in DOMAIN clientCmd THEN clientCmd[h] ELSE <<>>
      /\ \A t \in Sender, h \in Handle : Store[<<"batch", t, h>>] = batch[t][h]
      /\ \A t \in Sender : Store[<<"hold", t, t>>] = IF hold[t] = NULL THEN <<>> ELSE <<hold[t]>>
      BY <1>1, StoreParts
<1>4. /\ \A h \in Handle : Store'[<<"queue", h, h>>]
                             = IF h \in DOMAIN clientCmd' THEN clientCmd'[h] ELSE <<>>
      /\ \A t \in Sender, h \in Handle : Store'[<<"batch", t, h>>] = batch'[t][h]
      /\ \A t \in Sender :
            Store'[<<"hold", t, t>>] = IF hold'[t] = NULL THEN <<>> ELSE <<hold'[t]>>
      BY <1>2, StoreParts
<1>. QED BY <1>3, <1>4

LEMMA StoresTyped ==
    ASSUME TypeOK, TypeOK'
    PROVE  Store \in [Place -> Seq(Cmd)] /\ Store' \in [Place -> Seq(Cmd)]
BY StoreType DEF Store, TypeOK, TableTypeOK, BatchTypeOK

LEMMA OwnedDrop ==
    ASSUME NEW F, NEW G, NEW heap, NEW p \in Place, Owned(F, heap),
           G[p] = <<>>, \A r \in Place \ {p} : G[r] = F[r]
    PROVE  Owned(G, heap \ ToSet(F[p]))
<1>1. \A r \in Place : \A i \in DOMAIN G[r] : r # p /\ G[r] = F[r] OBVIOUS
<1>2. ToSet(F[p]) = {F[p][i] : i \in DOMAIN F[p]} BY DEF ToSet
<1>3. \A r \in Place : \A i \in DOMAIN G[r] : G[r][i] \in heap \ ToSet(F[p])
      BY <1>1, <1>2 DEF Owned
<1>. QED BY <1>1, <1>3 DEF Owned

\* A step that moves no command and frees none.
LEMMA OwnerKept ==
    ASSUME OwnerInv, clientCmd' = clientCmd, batch' = batch, hold' = hold, heapCmd' = heapCmd,
           \A t \in Sender : hold[t] # NULL /\ pc[t] = "putback" => pc'[t] = "putback"
    PROVE  OwnerInv'
<1>1. Store' = Store BY DEF Store
<1>2. Owned(Store', heapCmd') BY <1>1 DEF OwnerInv
<1>. QED BY <1>2 DEF OwnerInv

\* A new command enters a client's queue, or is leaked.
LEMMA SendCmdDataOwner ==
    ASSUME Inv, TypeOK', OwnerInv, NEW h, NEW c \in Cmd \ heapCmd, SendCmdData(h, c),
           heapCmd' = heapCmd \cup {c}, batch' = batch, hold' = hold, pc' = pc
    PROVE  OwnerInv'
<1>. USE DEF Inv, TypeInv
<1>1. Store \in [Place -> Seq(Cmd)] /\ Store' \in [Place -> Seq(Cmd)] BY StoresTyped
<1>2. CASE clientCmd' = clientCmd
  <2>1. Store' = Store BY <1>2 DEF Store
  <2>2. Owned(Store', heapCmd') BY <2>1 DEF OwnerInv, Owned
  <2>. QED BY <2>2 DEF OwnerInv
<1>3. CASE h \in DOMAIN clientCmd /\ clientCmd' = [clientCmd EXCEPT ![h] = Append(@, c)]
  <2>. DEFINE p == <<"queue", h, h>>
  <2>1. h \in Handle /\ p \in Place BY <1>3 DEF TypeOK, TableTypeOK, Place
  <2>2. Store[p] = clientCmd[h]
        BY <1>3, <2>1, StoreAt
  <2>6. Store'[p] = clientCmd'[h]
    <3>1. h \in DOMAIN clientCmd' BY <1>3
    <3>. QED BY <2>1, <3>1, StoreAt
  <2>5. Store'[p] = Append(Store[p], c) BY <1>3, <2>2, <2>6 DEF TypeOK, TableTypeOK
  <2>3. \A r \in Place \ {p} : Store'[r] = Store[r]
    BY <1>3, <2>1 DEF Store, StoreOf, Place
  <2>4. Owned(Store', heapCmd') BY <1>1, <2>1, <2>3, <2>5, OwnedPush DEF OwnerInv
  <2>. QED BY <2>4 DEF OwnerInv
<1>. QED BY <1>2, <1>3 DEF SendCmdData, Push

LEMMA RemoveClientOwner ==
    ASSUME Inv, OwnerInv, NEW h, RemoveClient(h), batch' = batch, hold' = hold,
           \A t \in Sender : hold[t] # NULL /\ pc[t] = "putback" => pc'[t] = "putback"
    PROVE  OwnerInv'
<1>1. clientCmd' = [g \in DOMAIN clientCmd \ {h} |-> clientCmd[g]]
      BY DEF RemoveClient, Erase, Restrict, Inv, TypeInv, TypeOK, TableTypeOK
<1>2. CASE h \in DOMAIN clientCmd
  <2>. DEFINE p == <<"queue", h, h>>
  <2>1. h \in Handle /\ p \in Place BY <1>2 DEF Place, Inv, TypeInv, TypeOK, TableTypeOK
  <2>2. Store'[p] = <<>> BY <1>1, <2>1, StoreAt
  <2>3. \A r \in Place \ {p} : Store'[r] = Store[r] BY <1>1 DEF Store, StoreOf, Place
  <2>4. heapCmd' = heapCmd \ ToSet(Store[p])
        BY <1>2, <2>1, StoreAt DEF RemoveClient
  <2>5. Owned(Store', heapCmd') BY <2>1, <2>2, <2>3, <2>4, OwnedDrop DEF OwnerInv
  <2>. QED BY <2>5 DEF OwnerInv
<1>3. CASE h \notin DOMAIN clientCmd
  <2>1. clientCmd' = clientCmd
        BY <1>1, <1>3 DEF Inv, TypeInv, TypeOK, TableTypeOK
  <2>. QED BY <1>3, <2>1, OwnerKept DEF RemoveClient
<1>. QED BY <1>2, <1>3

\* The queue of a new client: nobody's command was there.
LEMMA AddNewClientOwner ==
    ASSUME Inv, OwnerInv, AddNewClient
    PROVE  OwnerInv'
<1>. DEFINE h == fd[acceptor]
<1>1. /\ pc[acceptor] = "insert" /\ NewQueue(h)
      /\ pc' = [pc EXCEPT ![acceptor] = "reg"]
      /\ heapCmd' = heapCmd /\ batch' = batch /\ hold' = hold
      BY DEF AddNewClient, Goto, sendVars
<1>2. h \notin DOMAIN clientCmd BY <1>1 DEF Inv, TablesAgree
<1>3. \A r \in Place : Store'[r] = Store[r]
      BY <1>1, <1>2 DEF Store, StoreOf, Place, NewQueue, Put
<1>4. Owned(Store', heapCmd') BY <1>1, <1>3 DEF OwnerInv, Owned
<1>5. \A t \in Sender : pc'[t] = pc[t]
      BY <1>1, ThreadAssumption
<1>. QED BY <1>1, <1>4, <1>5 DEF OwnerInv

LEMMA PopCmdOwner ==
    ASSUME Inv, TypeOK', OwnerInv, NEW t \in Sender, PopCmd(t)
    PROVE  OwnerInv'
<1>. USE DEF Inv, TypeInv
<1>. DEFINE h == fd[t]
            c == Head(clientCmd[h])
            p == <<"queue", h, h>>
<1>1. /\ pc[t] = "collect" /\ h \in DOMAIN clientCmd /\ h \in Handle /\ clientCmd[h] # <<>>
      /\ clientCmd[h] \in Seq(Cmd) /\ c \in Cmd
      /\ clientCmd' = [clientCmd EXCEPT ![h] = Tail(@)] /\ heapCmd' = heapCmd
      BY DEF PopCmd, Pop, LocalsOK, TypeOK, TableTypeOK
<1>2. Store \in [Place -> Seq(Cmd)] /\ Store' \in [Place -> Seq(Cmd)] BY StoresTyped
<1>3. p \in Place /\ Store[p] = clientCmd[h] BY <1>1, StoreAt DEF Place
<1>4. Store'[p] = Tail(Store[p])
  <2>1. h \in DOMAIN clientCmd' /\ clientCmd'[h] = Tail(clientCmd[h]) BY <1>1 DEF TypeOK, TableTypeOK
  <2>2. Store'[p] = clientCmd'[h] BY <1>1, <2>1, StoreAt
  <2>. QED BY <1>3, <2>1, <2>2
<1>5. CASE batch' = [batch EXCEPT ![t][h] = Append(@, c)] /\ hold' = hold /\ pc' = pc
  <2>. DEFINE q == <<"batch", t, h>>
  <2>1. q \in Place /\ p # q /\ Store[q] = batch[t][h]
        BY <1>1, StoreAt DEF Place
  <2>2. Store'[q] = Append(Store[q], Head(Store[p]))
    <3>1. batch'[t][h] = Append(batch[t][h], c) BY <1>1, <1>5 DEF TypeOK, BatchTypeOK
    <3>2. Store'[q] = batch'[t][h] BY <1>1, StoreAt
    <3>. QED BY <1>3, <2>1, <3>1, <3>2
  <2>3. \A r \in Place \ {p, q} : Store'[r] = Store[r]
    <3>1. \A u \in Sender, g \in Handle : <<u, g>> # <<t, h>> => batch'[u][g] = batch[u][g]
          BY <1>1, <1>5 DEF TypeOK, BatchTypeOK
    <3>2. /\ DOMAIN clientCmd' = DOMAIN clientCmd
          /\ \A g \in DOMAIN clientCmd \ {h} : clientCmd'[g] = clientCmd[g]
          BY <1>1 DEF TypeOK, TableTypeOK
    <3>. QED BY <1>5, <3>1, <3>2 DEF Store, StoreOf, Place
  <2>4. Owned(Store', heapCmd)
    <3>1. Store[p] # <<>> /\ q # p BY <1>1, <1>3, <2>1
    <3>. HIDE DEF p, q
    <3>2. Moved(Store, Store', p, q) BY <1>4, <2>2, <2>3, <3>1 DEF Moved
    <3>. QED BY <1>2, <1>3, <2>1, <3>2, OwnedMove DEF OwnerInv
  <2>. QED BY <1>1, <1>5, <2>4 DEF OwnerInv
<1>6. CASE hold' = [hold EXCEPT ![t] = c] /\ pc' = [pc EXCEPT ![t] = "putback"] /\ batch' = batch
  <2>. DEFINE q == <<"hold", t, t>>
  <2>1. hold[t] = NULL BY <1>1 DEF OwnerInv
  <2>2. q \in Place /\ p # q /\ Store[q] = <<>>
        BY <1>1, <2>1, StoreAt DEF Place
  <2>3. Store'[q] = Append(Store[q], Head(Store[p]))
    <3>1. hold'[t] = c /\ c # NULL BY <1>1, <1>6, ConstantAssumption DEF TypeOK, BatchTypeOK
    <3>2. Store'[q] = <<c>> BY <3>1, StoreAt
    <3>. QED BY <1>1, <1>3, <2>2, <3>2
  <2>4. \A r \in Place \ {p, q} : Store'[r] = Store[r]
    <3>1. \A u \in Sender \ {t} : hold'[u] = hold[u] BY <1>6 DEF TypeOK, BatchTypeOK
    <3>2. /\ DOMAIN clientCmd' = DOMAIN clientCmd
          /\ \A g \in DOMAIN clientCmd \ {h} : clientCmd'[g] = clientCmd[g]
          BY <1>1 DEF TypeOK, TableTypeOK
    <3>. QED BY <1>6, <3>1, <3>2 DEF Store, StoreOf, Place
  <2>5. Owned(Store', heapCmd)
    <3>1. Store[p] # <<>> BY <1>1, <1>3
    <3>. HIDE DEF p, q
    <3>2. Moved(Store, Store', p, q) BY <1>4, <2>2, <2>3, <2>4, <3>1 DEF Moved
    <3>. QED BY <1>2, <1>3, <2>2, <3>2, OwnedMove DEF OwnerInv
  <2>6. \A u \in Sender : hold'[u] # NULL => pc'[u] = "putback"
        BY <1>6 DEF OwnerInv, TypeOK, PcTypeOK, BatchTypeOK, Thread
  <2>. QED BY <1>1, <2>5, <2>6 DEF OwnerInv
<1>. QED BY <1>5, <1>6 DEF PopCmd, Goto

\* The held command returns to its queue, or is dropped where the queue is full.
LEMMA PutBackOwner ==
    ASSUME Inv, TypeOK', OwnerInv, NEW t \in Sender, PutBack(t)
    PROVE  OwnerInv'
<1>. USE DEF Inv, TypeInv
<1>. DEFINE h == fd[t]
            c == hold[t]
            p == <<"queue", h, h>>
            q == <<"hold", t, t>>
<1>1. /\ h \in DOMAIN clientCmd /\ h \in Handle /\ c \in Cmd /\ c # NULL
      /\ hold' = [hold EXCEPT ![t] = NULL] /\ heapCmd' = heapCmd /\ batch' = batch
      /\ pc' = [pc EXCEPT ![t] = "collect"] /\ Push(h, c)
      BY ConstantAssumption DEF PutBack, Goto, LocalsOK, TypeOK, TableTypeOK
<1>2. Store \in [Place -> Seq(Cmd)] /\ Store' \in [Place -> Seq(Cmd)] BY StoresTyped
<1>3. p \in Place /\ q \in Place /\ p # q BY <1>1 DEF Place
<1>4. Store[p] = clientCmd[h] BY <1>1, StoreAt
<1>5. Store[q] = <<c>> BY <1>1, StoreAt
<1>6. hold'[t] = NULL /\ \A u \in Sender \ {t} : hold'[u] = hold[u]
      BY <1>1 DEF TypeOK, BatchTypeOK
<1>7. Store'[q] = <<>> BY <1>6, StoreAt
<1>8. Owned(Store', heapCmd')
  <2>1. CASE clientCmd' = [clientCmd EXCEPT ![h] = Append(@, c)]
    <3>1. /\ DOMAIN clientCmd' = DOMAIN clientCmd
          /\ \A g \in DOMAIN clientCmd \ {h} : clientCmd'[g] = clientCmd[g]
          /\ clientCmd'[h] = Append(clientCmd[h], c)
          BY <1>1, <2>1 DEF TypeOK, TableTypeOK
    <3>2. Store'[p] = clientCmd'[h] BY <1>1, <3>1, StoreAt
    <3>7. Head(<<c>>) = c OBVIOUS
    <3>. HIDE DEF p, q
    <3>3. Store'[p] = Append(Store[p], Head(Store[q]))
      <4>1. Head(Store[q]) = c BY <1>5, <3>7
      <4>. QED BY <1>4, <3>1, <3>2, <4>1
    <3>4. Store[q] # <<>> /\ Store'[q] = Tail(Store[q]) BY <1>1, <1>5, <1>7
    <3>5. \A r \in Place \ {p, q} : Store'[r] = Store[r]
          BY <1>1, <1>6, <3>1 DEF Store, StoreOf, Place, p, q
    <3>6. Moved(Store, Store', q, p) BY <1>3, <3>3, <3>4, <3>5 DEF Moved
    <3>8. Owned(Store', heapCmd) BY <1>2, <1>3, <3>6, OwnedMove DEF OwnerInv
    <3>. QED BY <1>1, <3>8
  <2>2. CASE clientCmd' = clientCmd
    <3>1. \A r \in Place \ {q} : Store'[r] = Store[r]
          BY <1>1, <1>6, <2>2 DEF Store, StoreOf, Place
    <3>2. \A r \in Place : Store'[r] = Store[r] \/ Store'[r] = <<>> BY <1>7, <3>1
    <3>3. \A r \in Place : \A i \in DOMAIN Store[r] : Store[r][i] \in heapCmd BY DEF OwnerInv, Owned
    <3>. QED BY <1>1, <3>2, <3>3, OwnedFewer DEF OwnerInv
  <2>. QED BY <1>1, <2>1, <2>2 DEF Push
<1>9. \A u \in Sender : hold'[u] # NULL => pc'[u] = "putback"
      BY <1>1, <1>6 DEF OwnerInv
<1>. QED BY <1>8, <1>9 DEF OwnerInv

LEMMA SendReqOwner ==
    ASSUME Inv, OwnerInv, NEW t \in Sender, NEW h \in Handle, SendReq(t, h)
    PROVE  OwnerInv'
<1>. USE DEF Inv, TypeInv
<1>. DEFINE p == <<"batch", t, h>>
<1>1. /\ clientCmd' = clientCmd /\ hold' = hold
      /\ heapCmd' = heapCmd \ ToSet(batch[t][h])
      /\ batch' = [batch EXCEPT ![t][h] = <<>>]
      BY DEF SendReq
<1>2. pc[t] = "send" /\ \A u \in Sender \ {t} : pc'[u] = pc[u]
      BY DEF SendReq, Goto, TypeOK, PcTypeOK, Thread
<1>3. p \in Place /\ Store[p] = batch[t][h] BY StoreAt DEF Place
<1>4. Store'[p] = <<>>
  <2>1. batch'[t][h] = <<>> BY <1>1 DEF TypeOK, BatchTypeOK
  <2>. QED BY <2>1, StoreAt
<1>5. \A r \in Place \ {p} : Store'[r] = Store[r]
  <2>1. \A u \in Sender, g \in Handle : <<u, g>> # <<t, h>> => batch'[u][g] = batch[u][g]
        BY <1>1 DEF TypeOK, BatchTypeOK
  <2>. QED BY <1>1, <2>1 DEF Store, StoreOf, Place
<1>6. Owned(Store', heapCmd') BY <1>1, <1>3, <1>4, <1>5, OwnedDrop DEF OwnerInv
<1>. QED BY <1>1, <1>2, <1>6 DEF OwnerInv

-----------------------------------------------------------------------------
LEMMA OwnerStep == Inv /\ OwnerInv /\ [Next]_vars => OwnerInv'
<1>. SUFFICES ASSUME Inv, OwnerInv, [Next]_vars PROVE OwnerInv' OBVIOUS
<1>. USE DEF Inv, TypeInv
<1>1. TypeOK' BY TypeInvStep
<1>2. \A l \in Thread : \A v : Goto(l, v) => \A t \in Sender \ {l} : pc'[t] = pc[t]
      BY DEF Goto, TypeOK, PcTypeOK, Thread
<1>3. CASE UNCHANGED vars
  BY <1>3, OwnerKept DEF vars, threadVars, sendVars
<1>4. CASE AcceptThread
  <2>1. ASSUME NEW h \in Handle, Accept(h) PROVE OwnerInv'
    BY <1>2, <2>1, OwnerKept, ThreadAssumption DEF Accept, Thread, sendVars
  <2>2. CASE \/ \E a \in Addr : NewContext(a)
             \/ RegNewIocpTask \/ RecvReq(acceptor) \/ RecvReqFails(acceptor)
    <3>1. /\ clientCmd' = clientCmd /\ batch' = batch /\ hold' = hold /\ heapCmd' = heapCmd
          /\ \E v : Goto(acceptor, v)
          BY <2>2 DEF NewContext, RegNewIocpTask, RecvReq, RecvReqFails, RecvRefused, sendVars
    <3>. QED BY <1>2, <3>1, OwnerKept, ThreadAssumption DEF Thread
  <2>3. CASE RemoveFailed(acceptor)
    BY <1>2, <2>3, RemoveClientOwner, ThreadAssumption DEF RemoveFailed, Thread, sendVars
  <2>. QED BY <1>4, <2>1, <2>2, <2>3, AddNewClientOwner DEF AcceptThread
<1>5. ASSUME NEW w \in Worker, WorkerStep(w) PROVE OwnerInv'
  <2>1. ASSUME NEW v, Goto(w, v) PROVE \A t \in Sender : pc'[t] = pc[t]
    BY <1>2, <2>1, ThreadAssumption DEF Thread
  <2>2. CASE \/ \E a \in Addr : CompletionPortThread(w, a)
             \/ NetServerCallBack(w) \/ RecvNetCmdDataEnds(w) \/ RecvReq(w) \/ RecvReqFails(w)
    <3>1. /\ clientCmd' = clientCmd /\ batch' = batch /\ hold' = hold /\ heapCmd' = heapCmd
          /\ \E v : Goto(w, v)
          BY <2>2 DEF CompletionPortThread, NetServerCallBack, RecvNetCmdDataEnds, RecvReq,
             RecvReqFails, RecvRefused, sendVars
    <3>. QED BY <2>1, <3>1, OwnerKept
  <2>3. CASE RecvNetCmdData(w)
    <3>1. batch' = batch /\ hold' = hold /\ pc' = pc BY <2>3 DEF RecvNetCmdData, sendVars
    <3>2. CASE UNCHANGED <<clientCmd, heapCmd>> BY <3>1, <3>2, OwnerKept
    <3>3. ASSUME NEW c \in Cmd \ heapCmd, heapCmd' = heapCmd \cup {c}, SendCmdData(fd[w], c)
          PROVE  OwnerInv'
      BY <1>1, <3>1, <3>3, SendCmdDataOwner
    <3>. QED BY <2>3, <3>2, <3>3 DEF RecvNetCmdData
  <2>4. CASE RemoveFailed(w)
    BY <2>1, <2>4, RemoveClientOwner DEF RemoveFailed, sendVars
  <2>. QED BY <1>5, <2>2, <2>3, <2>4 DEF WorkerStep
<1>6. ASSUME NEW t \in Sender, SenderStep(t) PROVE OwnerInv'
  <2>1. ASSUME NEW v, Goto(t, v) PROVE \A u \in Sender \ {t} : pc'[u] = pc[u]
    BY <1>2, <2>1 DEF Thread
  <2>2. CASE \E h \in Handle : NextClient(t, h)
    BY <2>2, OwnerKept DEF NextClient
  <2>3. CASE SendThread(t) \/ EndCollect(t) \/ SendThreadEnds(t)
    <3>1. /\ clientCmd' = clientCmd /\ batch' = batch /\ hold' = hold /\ heapCmd' = heapCmd
          /\ pc[t] \in {"idle", "collect", "send"} /\ \E v : Goto(t, v)
          BY <2>3 DEF SendThread, EndCollect, SendThreadEnds, sendVars
    <3>. QED BY <2>1, <3>1, OwnerKept
  <2>4. CASE ClientDone(t)
    BY <2>4, OwnerKept DEF ClientDone, sendVars
  <2>5. CASE RemoveFailed(t)
    <3>1. \A u \in Sender : pc[u] = "putback" => pc'[u] = pc[u]
          BY <2>1, <2>5 DEF RemoveFailed
    <3>. QED BY <2>5, <3>1, RemoveClientOwner DEF RemoveFailed, sendVars
  <2>. QED BY <1>1, <1>6, <2>2, <2>3, <2>4, <2>5, PopCmdOwner, PutBackOwner, SendReqOwner DEF SenderStep
<1>7. ASSUME NEW t \in Heart, HeartStep(t) PROVE OwnerInv'
  <2>1. ASSUME NEW v, Goto(t, v) PROVE \A u \in Sender : pc'[u] = pc[u]
    BY <1>2, <2>1, ThreadAssumption DEF Thread
  <2>2. CASE HeartCheckTimer(t)
    BY <2>1, <2>2, OwnerKept DEF HeartCheckTimer, sendVars
  <2>3. ASSUME NEW h \in Handle, HeartRemove(t, h) PROVE OwnerInv'
    BY <2>1, <2>3, RemoveClientOwner DEF HeartRemove, sendVars
  <2>. QED BY <1>7, <2>2, <2>3 DEF HeartStep
<1>8. CASE Environment
  <2>1. ASSUME NEW h \in Handle, NEW c \in Cmd, CallSendCmdData(h, c) PROVE OwnerInv'
    BY <1>1, <2>1, SendCmdDataOwner DEF CallSendCmdData, threadVars, sendVars
  <2>2. ASSUME NEW h \in Handle, NEW a \in Addr,
               \/ PeerBreaks(h)
               \/ \E n \in 0 .. MaxPerRecv : RecvCompletes(h, a, n)
               \/ SendCompletes(h, a)
               \/ IoFails(h, a)
        PROVE  OwnerInv'
    BY <2>2, OwnerKept DEF PeerBreaks, RecvCompletes, SendCompletes, IoFails, threadVars, sendVars
  <2>3. ASSUME NEW h \in Handle, PeerBreaks(h) PROVE OwnerInv'
    BY <2>3, OwnerKept DEF PeerBreaks, threadVars, sendVars
  <2>. QED BY <1>8, <2>1, <2>2, <2>3 DEF Environment
<1>9. ASSUME NEW t \in Thread, WaitExclusive(t) PROVE OwnerInv'
  BY <1>9, OwnerKept DEF WaitExclusive, threadVars, sendVars
<1>. QED BY <1>3, <1>4, <1>5, <1>6, <1>7, <1>8, <1>9 DEF Next

LEMMA InitOwner == Init => OwnerInv
<1>. SUFFICES ASSUME Init PROVE OwnerInv OBVIOUS
<1>1. \A p \in Place : Store[p] = <<>>
      BY DEF Init, Empty, Store, StoreOf, Place
<1>2. Owned(Store, heapCmd) BY <1>1 DEF Owned
<1>. QED BY <1>2 DEF Init, OwnerInv

\* A place of Places(c) is an element of a sequence of the store.
LEMMA PlacesInStore ==
    ASSUME TypeOK, NEW c \in Cmd, NEW y \in Places(c)
    PROVE  \E p \in Place : \E i \in DOMAIN Store[p] :
              /\ Store[p][i] = c
              /\ \/ p[1] = "queue" /\ y = <<"queue", p[2], i>>
                 \/ p[1] = "batch" /\ y = <<"batch", p[2], p[3], i>>
                 \/ p[1] = "hold" /\ y = <<"hold", p[2]>>
<1>1. CASE \E h \in DOMAIN clientCmd : \E i \in DOMAIN clientCmd[h] :
              clientCmd[h][i] = c /\ y = <<"queue", h, i>>
  <2>1. PICK h \in DOMAIN clientCmd : \E i \in DOMAIN clientCmd[h] :
              clientCmd[h][i] = c /\ y = <<"queue", h, i>>
        BY <1>1
  <2>2. <<"queue", h, h>> \in Place /\ Store[<<"queue", h, h>>] = clientCmd[h]
        BY StoreAt DEF Place, TypeOK, TableTypeOK
  <2>. QED BY <2>1, <2>2
<1>2. CASE \E t \in Sender, h \in Handle : \E i \in DOMAIN batch[t][h] :
              batch[t][h][i] = c /\ y = <<"batch", t, h, i>>
  <2>1. PICK t \in Sender, h \in Handle : \E i \in DOMAIN batch[t][h] :
              batch[t][h][i] = c /\ y = <<"batch", t, h, i>>
        BY <1>2
  <2>2. <<"batch", t, h>> \in Place /\ Store[<<"batch", t, h>>] = batch[t][h]
        BY StoreAt DEF Place
  <2>. QED BY <2>1, <2>2
<1>3. CASE \E t \in Sender : hold[t] = c /\ y = <<"hold", t>>
  <2>1. PICK t \in Sender : hold[t] = c /\ y = <<"hold", t>> BY <1>3
  <2>2. <<"hold", t, t>> \in Place /\ Store[<<"hold", t, t>>] = <<c>>
        BY <2>1, StoreAt, ConstantAssumption DEF Place
  <2>3. 1 \in DOMAIN <<c>> /\ <<c>>[1] = c OBVIOUS
  <2>. QED BY <2>1, <2>2, <2>3
<1>4. \/ \E h \in DOMAIN clientCmd : \E i \in DOMAIN clientCmd[h] :
            clientCmd[h][i] = c /\ y = <<"queue", h, i>>
      \/ \E t \in Sender, h \in Handle : \E i \in DOMAIN batch[t][h] :
            batch[t][h][i] = c /\ y = <<"batch", t, h, i>>
      \/ \E t \in Sender : hold[t] = c /\ y = <<"hold", t>>
  <2>. DEFINE Queued ==
                UNION {{<<"queue", h, i>> : i \in {j \in DOMAIN clientCmd[h] : clientCmd[h][j] = c}}
                         : h \in DOMAIN clientCmd}
              Batched ==
                UNION {{<<"batch", t, h, i>> : i \in {j \in DOMAIN batch[t][h] : batch[t][h][j] = c}}
                         : t \in Sender, h \in Handle}
              Held == {<<"hold", t>> : t \in {x \in Sender : hold[x] = c}}
  <2>4. Places(c) = Queued \cup Batched \cup Held BY DEF Places
  <2>1. CASE y \in Queued
    <3>1. PICK h \in DOMAIN clientCmd :
             y \in {<<"queue", h, i>> : i \in {j \in DOMAIN clientCmd[h] : clientCmd[h][j] = c}}
          BY <2>1
    <3>. QED BY <3>1
  <2>2. CASE y \in Batched
    <3>1. PICK t \in Sender, h \in Handle :
             y \in {<<"batch", t, h, i>> : i \in {j \in DOMAIN batch[t][h] : batch[t][h][j] = c}}
          BY <2>2
    <3>2. PICK i \in DOMAIN batch[t][h] : batch[t][h][i] = c /\ y = <<"batch", t, h, i>>
          BY <3>1
    <3>. QED BY <3>2
  <2>3. CASE y \in Held
    BY <2>3
  <2>. HIDE DEF Queued, Batched, Held
  <2>. QED BY <2>1, <2>2, <2>3, <2>4
<1>. QED BY <1>1, <1>2, <1>3, <1>4

LEMMA OwnerInvSuffices == TypeOK /\ OwnerInv => OneOwnerPerCommand
<1>. SUFFICES ASSUME TypeOK, OwnerInv, NEW c \in Cmd, NEW x \in Places(c)
              PROVE  c \in heapCmd /\ \A y \in Places(c) : y = x
  BY DEF OneOwnerPerCommand
<1>1. c \in heapCmd BY PlacesInStore DEF OwnerInv, Owned
<1>2. ASSUME NEW y \in Places(c) PROVE y = x
  <2>1. PICK p \in Place : \E i \in DOMAIN Store[p] :
              /\ Store[p][i] = c
              /\ \/ p[1] = "queue" /\ x = <<"queue", p[2], i>>
                 \/ p[1] = "batch" /\ x = <<"batch", p[2], p[3], i>>
                 \/ p[1] = "hold" /\ x = <<"hold", p[2]>>
        BY PlacesInStore
  <2>2. PICK i \in DOMAIN Store[p] :
              /\ Store[p][i] = c
              /\ \/ p[1] = "queue" /\ x = <<"queue", p[2], i>>
                 \/ p[1] = "batch" /\ x = <<"batch", p[2], p[3], i>>
                 \/ p[1] = "hold" /\ x = <<"hold", p[2]>>
        BY <2>1
  <2>3. PICK q \in Place : \E j \in DOMAIN Store[q] :
              /\ Store[q][j] = c
              /\ \/ q[1] = "queue" /\ y = <<"queue", q[2], j>>
                 \/ q[1] = "batch" /\ y = <<"batch", q[2], q[3], j>>
                 \/ q[1] = "hold" /\ y = <<"hold", q[2]>>
        BY PlacesInStore
  <2>4. PICK j \in DOMAIN Store[q] :
              /\ Store[q][j] = c
              /\ \/ q[1] = "queue" /\ y = <<"queue", q[2], j>>
                 \/ q[1] = "batch" /\ y = <<"batch", q[2], q[3], j>>
                 \/ q[1] = "hold" /\ y = <<"hold", q[2]>>
        BY <2>3
  <2>5. Store[p][i] = Store[q][j] BY <2>2, <2>4
  <2>6. p = q /\ i = j BY <2>5 DEF OwnerInv, Owned
  <2>. QED BY <2>2, <2>4, <2>6
<1>. QED BY <1>1, <1>2

\* SendThread, RemoveClient and SendCmdData: a command in a queue, in a batch or held
\* by a sender is allocated and has that one owner, whoever interleaves.
THEOREM CommandsOwnedOnce == Spec => []OneOwnerPerCommand
<1>1. Init => Inv /\ OwnerInv BY InitTypeInv, InitTables, InitOwner DEF Inv
<1>2. Inv /\ OwnerInv /\ [Next]_vars => Inv' /\ OwnerInv'
      BY TypeInvStep, TablesStep, OwnerStep DEF Inv
<1>3. Inv /\ OwnerInv => OneOwnerPerCommand BY OwnerInvSuffices DEF Inv, TypeInv
<1>. QED BY <1>1, <1>2, <1>3, PTL DEF Spec

(***************************************************************************)
(* PassFitsBuffer.                                                         *)
(***************************************************************************)
\* The commands b have offsets in the buffer, and n is the one after the last.
PacksTo(b, n) ==
    \/ b = <<>> /\ n = 0
    \/ \E offset \in [1 .. Len(b) + 1 -> 0 .. SOCKET_BUFFER_SIZE - 1] :
          /\ offset[1] = 0
          /\ \A i \in DOMAIN b : offset[i + 1] = offset[i] + Length[b[i]]
          /\ offset[Len(b) + 1] = n

Packs(t) == \A h \in Handle : \E n : PacksTo(batch[t][h], n)

\* cmdLength is the offset after the last command of the client a sender is at, and
\* the clients it has still to visit have an empty batch.
CollectsAt(t) ==
    pc[t] \in {"collect", "putback"} =>
        /\ fd[t] # NULL => fd[t] \notin todo[t] /\ PacksTo(batch[t][fd[t]], cmdLength[t])
        /\ \A h \in todo[t] : batch[t][h] = <<>>

\* Nothing is left when a pass ends.
AllSent(t) ==
    /\ pc[t] = "idle" => \A h \in Handle : batch[t][h] = <<>>
    /\ pc[t] \in {"send", "remove"} => \A h \in Handle : batch[t][h] # <<>> => h \in todo[t]

BufferInv == \A t \in Sender : Packs(t) /\ CollectsAt(t) /\ AllSent(t)

LEMMA BufferInvSuffices == BufferInv => PassFitsBuffer
BY DEF BufferInv, Packs, PacksTo, PassFitsBuffer

LEMMA PacksAppend ==
    ASSUME NEW b \in Seq(Cmd), NEW n, PacksTo(b, n), NEW c \in Cmd, n + Length[c] < SOCKET_BUFFER_SIZE
    PROVE  PacksTo(Append(b, c), n + Length[c])
<1>1. /\ Len(b) \in Nat /\ DOMAIN b = 1 .. Len(b)
      /\ Len(Append(b, c)) = Len(b) + 1 /\ DOMAIN Append(b, c) = 1 .. Len(b) + 1
      /\ Append(b, c)[Len(b) + 1] = c
      /\ \A i \in 1 .. Len(b) : Append(b, c)[i] = b[i]
      BY LenProperties, AppendProperties
<1>2. Length[c] \in Nat /\ SOCKET_BUFFER_SIZE \in Nat BY ConstantAssumption
<1>3. PICK old \in [1 .. Len(b) + 1 -> 0 .. SOCKET_BUFFER_SIZE - 1] :
          /\ old[1] = 0
          /\ \A i \in DOMAIN b : old[i + 1] = old[i] + Length[b[i]]
          /\ old[Len(b) + 1] = n
  <2>1. CASE b = <<>> /\ n = 0
    <3>. DEFINE old == [i \in 1 .. Len(b) + 1 |-> 0]
    <3>1. old \in [1 .. Len(b) + 1 -> 0 .. SOCKET_BUFFER_SIZE - 1] BY <1>1, <1>2, <2>1
    <3>2. Len(b) = 0 /\ DOMAIN b = {} BY <2>1
    <3>3. old[1] = 0 /\ old[Len(b) + 1] = n BY <2>1, <3>2
    <3>. QED BY <3>1, <3>2, <3>3
  <2>. QED BY <2>1 DEF PacksTo
<1>4. n \in Nat BY <1>1, <1>2, <1>3
<1>. DEFINE new == [i \in 1 .. Len(b) + 2 |-> IF i = Len(b) + 2 THEN n + Length[c] ELSE old[i]]
<1>5. new \in [1 .. Len(Append(b, c)) + 1 -> 0 .. SOCKET_BUFFER_SIZE - 1]
  <2>1. \A i \in 1 .. Len(b) + 2 : new[i] \in 0 .. SOCKET_BUFFER_SIZE - 1 BY <1>1, <1>2, <1>3, <1>4
  <2>2. Len(Append(b, c)) + 1 = Len(b) + 2 BY <1>1
  <2>. QED BY <2>1, <2>2
<1>6. new[1] = 0 BY <1>1, <1>3
<1>7. ASSUME NEW i \in DOMAIN Append(b, c) PROVE new[i + 1] = new[i] + Length[Append(b, c)[i]]
  <2>1. CASE i = Len(b) + 1 BY <1>1, <1>3, <1>4, <2>1
  <2>2. CASE i \in 1 .. Len(b)
    <3>1. new[i] = old[i] /\ new[i + 1] = old[i + 1] BY <1>1, <2>2
    <3>. QED BY <1>1, <1>3, <2>2, <3>1
  <2>. QED BY <1>1, <2>1, <2>2
<1>8. new[Len(Append(b, c)) + 1] = n + Length[c] BY <1>1
<1>. HIDE DEF new
<1>. QED BY <1>5, <1>6, <1>7, <1>8 DEF PacksTo

\* A step that leaves the batches of t alone, and t where it is.
LEMMA BufferSame ==
    ASSUME NEW t \in Sender, Packs(t), CollectsAt(t), AllSent(t),
           batch'[t] = batch[t], cmdLength'[t] = cmdLength[t], pc'[t] = pc[t],
           fd'[t] = fd[t], todo'[t] = todo[t]
    PROVE  Packs(t)' /\ CollectsAt(t)' /\ AllSent(t)'
BY DEF Packs, CollectsAt, AllSent

LEMMA SenderBuffer ==
    ASSUME Inv, BufferInv, NEW t \in Sender, SenderStep(t)
    PROVE  Packs(t)' /\ CollectsAt(t)' /\ AllSent(t)'
<1>. USE DEF Inv, TypeInv, Goto
<1>1. pc \in [Thread -> Label] /\ t \in Thread BY DEF TypeOK, PcTypeOK, Thread
<1>2. /\ fd \in [{acceptor} \cup Worker \cup Sender -> Handle \cup {NULL}]
      /\ todo \in [Sender \cup Heart -> SUBSET Handle]
      /\ batch \in [Sender -> [Handle -> Seq(Cmd)]]
      /\ cmdLength \in [Sender -> Nat]
      /\ NULL \notin Handle
      BY ConstantAssumption DEF TypeOK, LocalTypeOK, BatchTypeOK
<1>3. Packs(t) /\ CollectsAt(t) /\ AllSent(t) BY DEF BufferInv
<1>4. CASE SendThread(t)
  <2>1. /\ pc[t] = "idle" /\ pc'[t] = "collect" /\ batch' = batch /\ fd'[t] = fd[t]
        /\ todo'[t] \subseteq Handle
        BY <1>1, <1>2, <1>4 DEF SendThread, sendVars, TypeOK, TableTypeOK
  <2>2. fd[t] = NULL BY <2>1 DEF LocalsOK
  <2>3. Packs(t)' BY <1>3, <2>1 DEF Packs
  <2>4. \A h \in Handle : batch[t][h] = <<>> BY <1>3, <2>1 DEF AllSent
  <2>5. CollectsAt(t)' BY <2>1, <2>2, <2>4 DEF CollectsAt
  <2>6. AllSent(t)' BY <2>1 DEF AllSent
  <2>. QED BY <2>3, <2>5, <2>6
<1>5. ASSUME NEW h \in Handle, NextClient(t, h)
      PROVE  Packs(t)' /\ CollectsAt(t)' /\ AllSent(t)'
  <2>1. /\ pc[t] = "collect" /\ pc'[t] = "collect" /\ batch' = batch /\ fd'[t] = h
        /\ h \in todo[t] /\ todo'[t] = todo[t] \ {h} /\ cmdLength'[t] = 0
        BY <1>1, <1>2, <1>5 DEF NextClient
  <2>2. batch'[t][h] = <<>> BY <1>3, <2>1 DEF CollectsAt
  <2>3. Packs(t)' BY <1>3, <2>1 DEF Packs
  <2>4. PacksTo(batch'[t][h], cmdLength'[t]) BY <2>1, <2>2 DEF PacksTo
  <2>5. CollectsAt(t)'
    <3>1. \A g \in todo'[t] : batch'[t][g] = <<>> BY <1>3, <2>1 DEF CollectsAt
    <3>. QED BY <2>1, <2>4, <3>1 DEF CollectsAt
  <2>6. AllSent(t)' BY <2>1 DEF AllSent
  <2>. QED BY <2>3, <2>5, <2>6
<1>6. CASE PopCmd(t)
  <2>. DEFINE h == fd[t]
              c == Head(clientCmd[h])
  <2>1. /\ pc[t] = "collect" /\ fd'[t] = h /\ todo'[t] = todo[t] /\ h # NULL
        /\ h \in Handle /\ c \in Cmd
    <3>1. pc[t] = "collect" /\ fd' = fd /\ todo' = todo /\ h # NULL /\ clientCmd[h] # <<>>
          BY <1>6 DEF PopCmd
    <3>2. h \in DOMAIN clientCmd BY <3>1 DEF LocalsOK
    <3>3. h \in Handle /\ clientCmd[h] \in Seq(Cmd) BY <3>2 DEF TypeOK, TableTypeOK
    <3>4. c \in Cmd BY <3>1, <3>3
    <3>. QED BY <3>1, <3>3, <3>4
  <2>2. PacksTo(batch[t][h], cmdLength[t]) /\ h \notin todo[t]
        /\ \A g \in todo[t] : batch[t][g] = <<>>
        BY <1>3, <2>1 DEF CollectsAt
  <2>3. CASE /\ FitsBuffer(t, c) /\ pc' = pc
             /\ batch' = [batch EXCEPT ![t][h] = Append(@, c)]
             /\ cmdLength' = [cmdLength EXCEPT ![t] = @ + Length[c]]
    <3>1. /\ batch'[t][h] = Append(batch[t][h], c) /\ cmdLength'[t] = cmdLength[t] + Length[c]
          /\ \A g \in Handle \ {h} : batch'[t][g] = batch[t][g]
          /\ batch[t][h] \in Seq(Cmd)
          BY <1>2, <2>1, <2>3
    <3>2. cmdLength[t] + Length[c] < SOCKET_BUFFER_SIZE BY <2>3 DEF FitsBuffer
    <3>3. PacksTo(batch'[t][h], cmdLength'[t])
      <4>. HIDE DEF h, c
      <4>1. PacksTo(Append(batch[t][h], c), cmdLength[t] + Length[c])
            BY <2>1, <2>2, <3>1, <3>2, PacksAppend
      <4>. QED BY <3>1, <4>1
    <3>4. Packs(t)' BY <1>3, <3>1, <3>3 DEF Packs
    <3>5. \A g \in todo[t] : batch'[t][g] = <<>> BY <1>2, <2>2, <3>1
    <3>6. pc'[t] = "collect" BY <2>1, <2>3
    <3>. QED BY <2>1, <2>2, <3>3, <3>4, <3>5, <3>6 DEF CollectsAt, AllSent
  <2>4. CASE pc'[t] = "putback" /\ batch' = batch /\ cmdLength' = cmdLength
    BY <1>3, <2>1, <2>2, <2>4 DEF Packs, CollectsAt, AllSent
  <2>. QED BY <1>1, <1>6, <2>3, <2>4 DEF PopCmd
<1>7. CASE PutBack(t) \/ ClientDone(t)
  <2>1. /\ pc[t] \in {"collect", "putback"} /\ pc'[t] = "collect" /\ batch' = batch
        /\ fd'[t] = NULL /\ todo' = todo
        BY <1>1, <1>2, <1>7 DEF PutBack, ClientDone, sendVars
  <2>. QED BY <1>3, <2>1 DEF Packs, CollectsAt, AllSent
<1>8. CASE EndCollect(t)
  <2>1. /\ pc'[t] = "send" /\ batch' = batch
        /\ todo'[t] = {h \in Handle : batch[t][h] # <<>>}
        BY <1>1, <1>2, <1>8 DEF EndCollect
  <2>. QED BY <1>3, <2>1 DEF Packs, CollectsAt, AllSent
<1>9. ASSUME NEW h \in Handle, SendReq(t, h)
      PROVE  Packs(t)' /\ CollectsAt(t)' /\ AllSent(t)'
  <2>1. /\ pc[t] = "send" /\ pc'[t] \in {"send", "remove"}
        /\ todo'[t] = todo[t] \ {h}
        /\ batch'[t][h] = <<>>
        /\ \A g \in Handle \ {h} : batch'[t][g] = batch[t][g]
        BY <1>1, <1>2, <1>9 DEF SendReq
  <2>2. PacksTo(batch'[t][h], 0) BY <2>1 DEF PacksTo
  <2>3. Packs(t)' BY <1>3, <2>1, <2>2 DEF Packs
  <2>. QED BY <1>3, <2>1, <2>3 DEF CollectsAt, AllSent
<1>10. CASE SendThreadEnds(t)
  <2>1. /\ pc[t] = "send" /\ pc'[t] = "idle" /\ todo[t] = {} /\ batch' = batch
        BY <1>1, <1>10 DEF SendThreadEnds, sendVars
  <2>. QED BY <1>3, <2>1 DEF Packs, CollectsAt, AllSent
<1>11. CASE RemoveFailed(t)
  <2>1. /\ pc[t] = "remove" /\ pc'[t] = "send" /\ todo' = todo /\ batch' = batch
        BY <1>1, <1>11 DEF RemoveFailed, sendVars
  <2>. QED BY <1>3, <2>1 DEF Packs, CollectsAt, AllSent
<1>. QED BY <1>4, <1>5, <1>6, <1>7, <1>8, <1>9, <1>10, <1>11 DEF SenderStep

\* What another thread does leaves a sender's locals alone.
LEMMA SendersApart ==
    ASSUME Inv, [Next]_vars, NEW u \in Sender, ~SenderStep(u)
    PROVE  /\ batch'[u] = batch[u] /\ cmdLength'[u] = cmdLength[u] /\ pc'[u] = pc[u]
           /\ fd'[u] = fd[u] /\ todo'[u] = todo[u]
<1>. USE ThreadAssumption DEF Inv, TypeInv, TypeOK, Goto
<1>1. /\ pc \in [Thread -> Label]
      /\ fd \in [{acceptor} \cup Worker \cup Sender -> Handle \cup {NULL}]
      /\ todo \in [Sender \cup Heart -> SUBSET Handle]
      /\ batch \in [Sender -> [Handle -> Seq(Cmd)]]
      /\ cmdLength \in [Sender -> Nat]
      BY DEF PcTypeOK, LocalTypeOK, BatchTypeOK
<1>2. CASE UNCHANGED vars
  BY <1>2 DEF vars, threadVars, sendVars
<1>3. CASE AcceptThread
  <2>1. /\ sendVars' = sendVars /\ todo' = todo
        /\ fd' = fd \/ \E v : fd' = [fd EXCEPT ![acceptor] = v]
        /\ pc' = pc \/ \E v : pc' = [pc EXCEPT ![acceptor] = v]
        BY <1>3 DEF AcceptThread, Accept, NewContext, AddNewClient, RegNewIocpTask, RecvReq,
           RecvReqFails, RecvRefused, RemoveFailed
  <2>. QED BY <1>1, <2>1 DEF sendVars, Thread
<1>4. ASSUME NEW w \in Worker, WorkerStep(w)
      PROVE  /\ batch'[u] = batch[u] /\ cmdLength'[u] = cmdLength[u] /\ pc'[u] = pc[u]
             /\ fd'[u] = fd[u] /\ todo'[u] = todo[u]
  <2>1. /\ sendVars' = sendVars /\ todo' = todo
        /\ fd' = fd \/ \E v : fd' = [fd EXCEPT ![w] = v]
        /\ pc' = pc \/ \E v : pc' = [pc EXCEPT ![w] = v]
        BY <1>4 DEF WorkerStep, CompletionPortThread, NetServerCallBack, RecvNetCmdData,
           RecvNetCmdDataEnds, RecvReq, RecvReqFails, RecvRefused, RemoveFailed
  <2>. QED BY <1>1, <2>1 DEF sendVars, Thread
<1>5. ASSUME NEW t \in Sender, t # u, SenderStep(t)
      PROVE  /\ batch'[u] = batch[u] /\ cmdLength'[u] = cmdLength[u] /\ pc'[u] = pc[u]
             /\ fd'[u] = fd[u] /\ todo'[u] = todo[u]
  <2>7. t \in Thread /\ u \in Thread BY DEF Thread
  <2>1. CASE \E h \in Handle : NextClient(t, h)
    BY <1>1, <1>5, <2>7, <2>1 DEF NextClient
  <2>2. CASE \E h \in Handle : SendReq(t, h)
    BY <1>1, <1>5, <2>7, <2>2 DEF SendReq
  <2>3. CASE SendThread(t) \/ EndCollect(t) \/ SendThreadEnds(t)
    BY <1>1, <1>5, <2>7, <2>3 DEF SendThread, EndCollect, SendThreadEnds, sendVars
  <2>4. CASE PopCmd(t)
    BY <1>1, <1>5, <2>7, <2>4 DEF PopCmd
  <2>5. CASE PutBack(t) \/ ClientDone(t)
    BY <1>1, <1>5, <2>7, <2>5 DEF PutBack, ClientDone, sendVars
  <2>6. CASE RemoveFailed(t)
    BY <1>1, <1>5, <2>7, <2>6 DEF RemoveFailed, sendVars
  <2>. QED BY <1>5, <2>1, <2>2, <2>3, <2>4, <2>5, <2>6 DEF SenderStep
<1>6. ASSUME NEW t \in Heart, HeartStep(t)
      PROVE  /\ batch'[u] = batch[u] /\ cmdLength'[u] = cmdLength[u] /\ pc'[u] = pc[u]
             /\ fd'[u] = fd[u] /\ todo'[u] = todo[u]
  <2>1. /\ sendVars' = sendVars /\ fd' = fd
        /\ todo' = todo \/ \E v : todo' = [todo EXCEPT ![t] = v]
        /\ pc' = pc \/ \E v : pc' = [pc EXCEPT ![t] = v]
        BY <1>6 DEF HeartStep, HeartCheckTimer, HeartRemove
  <2>. QED BY <1>1, <2>1 DEF sendVars, Thread
<1>7. CASE Environment
  BY <1>7 DEF Environment, PeerBreaks, CallSendCmdData, RecvCompletes, SendCompletes, IoFails,
     threadVars, sendVars
<1>8. ASSUME NEW t \in Thread, WaitExclusive(t)
      PROVE  /\ batch'[u] = batch[u] /\ cmdLength'[u] = cmdLength[u] /\ pc'[u] = pc[u]
             /\ fd'[u] = fd[u] /\ todo'[u] = todo[u]
  BY <1>8 DEF WaitExclusive, threadVars, sendVars
<1>. QED BY <1>2, <1>3, <1>4, <1>5, <1>6, <1>7, <1>8 DEF Next

LEMMA BufferStep == Inv /\ BufferInv /\ [Next]_vars => BufferInv'
<1>. SUFFICES ASSUME Inv, BufferInv, [Next]_vars, NEW t \in Sender
              PROVE  Packs(t)' /\ CollectsAt(t)' /\ AllSent(t)'
  BY DEF BufferInv
<1>1. CASE SenderStep(t) BY <1>1, SenderBuffer
<1>2. CASE ~SenderStep(t) BY <1>2, SendersApart, BufferSame DEF BufferInv
<1>. QED BY <1>1, <1>2

LEMMA InitBuffer == Init => BufferInv
BY DEF Init, BufferInv, Packs, CollectsAt, AllSent, PacksTo, Thread

\* SendThread: the commands a pass collects for a client always fit one sendBuff.
THEOREM PassAlwaysFits == Spec => []PassFitsBuffer
<1>1. Init => Inv /\ BufferInv BY InitTypeInv, InitTables, InitBuffer DEF Inv
<1>2. Inv /\ BufferInv /\ [Next]_vars => Inv' /\ BufferInv'
      BY TypeInvStep, TablesStep, BufferStep DEF Inv
<1>. QED BY <1>1, <1>2, BufferInvSuffices, PTL DEF Spec
=============================================================================
