# P1: models, checks and proofs

P1 is a small Windows server framework in C++: an IOCP service, a TCP server on top of it, a
thread pool, timers, an asynchronous log and a few utilities. This directory holds TLA+ modules
that model its core, configurations that model-check them with TLC, and theorems about them that
TLAPS proves. `PROJECT.json` lists the components, the runs, the source lines each definition
stands for, the hazards and the theorems.

To check something: `tlc -config <run>.cfg <module>` and `tlapm <module>.tla`.

## 1. The system

All of the program's own logic is in `src/CommonLib`; `src/P1`, `src/IOCP_Test` and `src/Clients`
hold an HTTP client, an older prototype and load generators. `src/GTest` and
`src/AsioTest/proto.hpp` are vendored.

    accept ──▶ AcceptThread ─┐                      ┌─ HeartCheckTimer ◀── TimerManager
                             ▼                      ▼                          ▲
       IOCP workers ──▶ _clientsContext, _clientCmd (one shared_mutex) ◀── SendThread x4
            ▲                │                                                 ▲
            └── completions ─┘ WSARecv, WSASend          ThreadPool runs all of these tasks

| Component | State it keeps | Operations | What must hold |
|---|---|---|---|
| TCP server (`TCPServer.cpp`) | two tables by socket, a context with one OVERLAPPED per client, a bounded queue of commands per client | AcceptThread, AddNewClient, RecvReq, NetServerCallBack, RecvNetCmdData, SendCmdData, SendThread, SendReq, HeartCheckTimer, RemoveClient | tables, sockets and contexts agree; a healthy client always has a receive under way; a command has one owner; a pass never overfills its buffer; dead clients leave; queued commands go out |
| IOCP service (`IOCPService.cpp`, `NetServiceTask.cpp`) | the port, handle to task | RegisterHandle, CompletionPortThread, RegNewIocpTask | a completion reaches the client it is about |
| Thread pool (`ThreadPool.cpp`) | tasks with limits and run counts | AddThreadTask, RemoveThreadTask, GetThreadTask, the loop, CloseThreadPool | never more threads in a task than its limit; a removed task does not start; a blocked task does not starve the others; closing ends |
| Timer manager (`TimerManager.cpp`) | timers with a state and the time of the last run | CreateTimer, ChangeTimerState, ExcuteTimerTask, QueryExcuteTimer | an interval is kept; removed timers go; a scan's iterator stays valid; timers never stop |
| Reader-writer lock (`RWAutoLock.cpp`) | two counters and a critical section | ReadLock, ReadUnLock, WriteLock, WriteUnlock | a writer is alone; writers get in |
| HTTP client (`P1/HttpClientBoost.cpp`, `SafeArray.h`) | a ring of requests, one sending thread | Init, ReqPlayerTotalCost, ReqData, ExecuteThread, AddItem, GetItem | requests leave in order, none twice, none lost unless refused |
| Trace log (`TraceLog.cpp`) | a list of lines, one OVERLAPPED for the file | InitIocpTask, TRACELOG, TraceLogThread | every line reaches the file once, at a place of its own |
| Start-up (`P1_Service.cpp`, `ConfigManager.cpp`, `InitServer`) | which services are up, the tasks added so far | P1_Start, ParseConfigFile, InitIocpTask, InitServer | no task runs before what it uses or after its server; a start that succeeds serves every port |
| TCP client, UDP server | stubs | - | - |
| IOCP_Test | a port, a bit per worker thread, its own pool, UDP receives | initService, shutDown, registerThread, unRegisterThread, callBackFunction | shutDown ends and frees nothing in use; a task's packet is in one place; an unregistered task goes |
| P1_main | an atomic index | one loop | every item is processed once |

Interaction: the pool calls AcceptThread (one thread), SendThread (four), TimerThread (two) and
TraceLogThread (one) for ever; TimerThread calls HeartCheckTimer every five seconds; the IOCP
workers call the TCP server back for every completion. They share the tables under a
`boost::shared_mutex`, held shared by readers and senders, exclusively by AddNewClient and
RemoveClient. The lock is given up between the steps of every longer operation, and that is where
the hard behaviours are: a worker holds a `NET_CONTEXT*` that another thread frees, a handle is
closed and reused, a queue changes between a pop and a put-back, a failed completion is dropped.

## 2. What is modelled

Nothing in the modules is about wording, logging or layout. Data is what the control flow can tell
apart: a command is a model value with a length, a socket a handle that is free, up or broken.

**TCPServer.tla** (with the IOCP service's loop). Threads are the one acceptor, IOCP workers,
senders and timer threads; `pc` says where each is between two critical sections or system calls,
`ptr` and `fd` are its pointer and socket. One action per step between two such points:
`Accept`, `NewContext` (allocated before the lock is taken), `AddNewClient`, `RegNewIocpTask`,
`RecvReq`, `RecvReqFails` (which reads the handle to remove from the context again,
`TCPServer.cpp:221`, when it may already be another client's), `RemoveClient` (whoever calls it),
`CompletionPortThread`, `NetServerCallBack`, `RecvNetCmdData`, `SendThread` with `NextClient`,
`PopCmd`, `PutBack`, `EndCollect`, `SendReq`, and the two halves of `HeartCheckTimer`.

 - The lock: a shared section of SendThread has several steps (others push and pop meanwhile), an
   exclusive section is one action whose guard is that no sender is inside. `writerWaits` is
   boost's writer preference: once a thread waits exclusively, no new reader gets in.
 - Memory: `alloc` are the addresses that hold a live context, `ctx` what each address contains. A
   context freed under a worker keeps its contents until the address is allocated again: that is
   what a read through the dangling pointer returns. A crash is not a state.
 - I/O: `recvs` and `sends` count the operations in flight per handle and OVERLAPPED, `port` the
   successful completions waiting. An operation on a closed or broken socket fails, and
   CompletionPortThread drops failed completions, as the code does.
 - A command that is refused for its length, by a full queue or for an unknown client is leaked
   when RecvNetCmdData made it. Another caller of SendCmdData keeps it: `CallSendCmdData` models the
   calls that queue one.
 - The two senders' comparison with SOCKET_BUFFER_SIZE is kept, as the strict one of the code.

**ClientRegistry.tla** is the abstract specification of the server: open sockets, and a map from
registered handles to contexts; a socket is accepted, joins, and leaves when it is closed.
TCPServer implements it with `open` and `contextOf` mapped to `sock` and `_clientsContext`.

**ThreadPool.tla**: `mapTask` is `_mapTask`, one record per task without the pointers (`cb` says
that there is a callback). A turn of a thread is `LoopTop`, `ReadTick` (GetThreadTask reads the
clock before it takes the lock), `GetThreadTask`, `CallTask` (the lock was left before: the task may
be removed between the two, and is called all the same), `CallbackReturns`, `Finish`. AddThreadTask
makes the entry, with the time, in `CallAddThreadTask` and puts it into the map under the lock;
`adding` are the entries between the two. Levels are kept as
the two numbers that are divided, with DWORD wrap-around. `Finish` has the branch in which
`tasks[task.tid]` creates an entry for a task that was removed meanwhile: its fields are any
values of `Garbage`. `removed` is a history variable.

**TimerManager.tla**: a pass is `BeginPass`, one of `PickTimer`, `EraseTimer`, `NextTimer` per
entry, and `EndScan`; `ExcuteTimer` is the callback's return. The critical section is held as
long as some thread's `cursor` is in the map. After `erase` returns the next entry the loop still
does `++it`: `After(After(i))`. Incrementing `end()` is undefined; with the v141 runtime the
project files name, a Release build leaves it there, which is what `After` does. (A Debug build
stops with an assertion.) `fired`, a history variable, has the last two times a timer ran because
its time had come; it starts anew when the clock comes round to 0.

**RWAutoLock.tla**: one action per access to shared memory.

**HttpClientBoost.tla**: the ring of `SafeArray.h`, one action per access to it by the two threads
that share it without a lock. A caller goes through `ReqPlayerTotalCost` (the request is
allocated), `ReqData` (HasSpace), `WriteSlot`, `AddItem` and `RequestSize` (the late read of a
request that may be gone); the sending thread through `GetItem`, `FreeSlot`, `ReadSlot`, `Send`
and `DeleteRequest`. `heap` are the allocated requests; `refused`, a history variable, those that the
full ring did not take and nobody deletes. `host` says whether the address parses: if not, the
thread ends at the first request. **RequestQueue.tla** is what the ring promises, a bounded queue;
the refinement mapping reads the queue off the slots between the two indices, and counts a request
as taken from the moment its slot is free, before it is read.

**TraceLog.tla**: `InitIocpTask` step by step (`CreateLogFile`, `AddLogTask`, `RegisterLogFile`,
`SwitchOn`), `TRACELOG`, and TraceLogThread as `DrainList`, `WriteFile`, `AdvanceOffset`. The pool
runs it in one thread at a time (`ConcurrencyBound` of ThreadPool), so one `pcLog` is enough. The
file system is external: a write ends at once, fails, or stays in `writes` and ends later in any
order; if its text was freed meanwhile it may store anything (`Torn`). A text is a sequence with one
line name per byte, so that places in the file can be compared. **P1Service.tla** extends it with
P1_Start: `pcStart` is the step it is at, `up` the services that are initialised, `tasks` the tasks
and timers added so far, `server` and `bound` the TCPServer objects and the port each socket has. A
configured server is an address and a port of 32 bits, of which `Port` keeps 16. `Bindable` says what
bind does with it: 0, which 65536 becomes too, asks for any port, one of `Ephemeral`.
The pool's threads run what is in `tasks` at any time; what they do there is the other modules'
subject, here it matters that they may.

**IOService.tla** is the IOCP_Test prototype. The port is a queue of packets; a worker's turn is
`GetQueuedCompletionStatus` and then the steps for the packet it got: `LoadThreadState` and
`StoreThreadState` for a shutdown packet (the statement is not interlocked), `CallTask` and
`PostAgain` or `EraseCopy` for a pool task, `ReceiveAgain` for a datagram. registerThread is
`RegisterThread`, one `PostCopy` per OVERLAPPED, and `Registered`, which puts the task into the
map. `postIocpTask` may fail, and neither `PostAgain` nor `PostCopy` looks at the result: the copy
then is nowhere (`unposted`, a history variable). A worker's `Bit` of threadState is its number modulo
`StateBits`, as `1 << i` is on x86 and x64. `lost` is a history variable: a store wrote back a bit that
another worker had cleared.

`MC*.tla` declare the model values of the configurations (`MCP1Service` its configurations;
`MCHttpClientBoost` also compares the ring's size with the least power of two, for 1 to 80). Operators such as
`StatusIgnored` or `NotGivenBack`, which no action uses, are defined beside the one they differ
from: they are the plausible bugs that `PROJECT.json` uses to show that each property can fail.

## 3. Runs

| Run | Instance | Checks |
|---|---|---|
| `tcp_lifecycle` | 2 handles, 2 addresses, 2 workers, a timer thread, no commands | `TypeOK`, `TablesAgree`, `NeverDeaf`, refinement of ClientRegistry |
| `tcp_commands` | 1 handle, 3 commands of lengths 2, 3 and 5 (5 is refused), a worker, 2 senders, a queue of 2, 2 operations per OVERLAPPED | `NeverDeaf`, `OneOwnerPerCommand`, `PassFitsBuffer` |
| `tcp_liveness` | 2 senders, a queue of 2, a frame of 2, a buffer of 4, commands of lengths 2, 2 and 3, no two of which fit one buffer, and 4, which is refused | `BrokenClientReaped`, `QueuedCommandLeaves` |
| `tcp_putback` | a queue of 1, 2 senders | `PutBackWaits`: **violated** |
| `pool_tasks` | 2 threads, 2 tasks of limits 1 and 2, with limited and unlimited runs, one that never returns and one that may be removed, the clock from 7 over 0 to 1 modulo 8 | `TypeOK`, `ConcurrencyBound`, `RunningNumCounts`, `NeverStartedAfterRemove`, `Served`, `CloseCompletes` |
| `timers` | 2 threads, 2 timers, 4 changes of state, a clock modulo 4 that never stops | `TypeOK`, `CursorValid`, `IntervalKeptUnwrapped`, `RemovalHappens` |
| `timer_wrap` | 1 timer of interval 2, clock modulo 4 | `IntervalKept`: **violated** |
| `timer_passes` | a task with 4 passes for a timer without a limit | `PassesLeft`: **violated** |
| `rw_lock` | 4 threads, each reading or writing | `TypeOK`, `Exclusion`, `WritersGetIn` |
| `http_ring` | a ring of 4 slots, 4 addresses for requests, an address that parses and one that does not | `TypeOK`, `OneOwner`, refinement of RequestQueue, `RequestsLeave` |
| `p1_service` | 9 configurations (no file, no entry, 0, 1 and 2 servers, 2 with one port at two addresses, 2 that share a port in 16 bits, 1 and 2 of two with port 0 in 16 bits), 3 lines of 4 bytes in all, an offset modulo 4 | `TypeOK`, `ReadyBeforeUse`, `JobsOwnLiveServers`, `StartedMeansServing`, `LinesInPlace`, `EveryLineSettles` |
| `iocp_test` | 3 workers, 32 bits, a task of 1 to 3 copies each of whose posts may fail, a receive | `TypeOK`, `PacketOutlivesUse`, `CopyInOnePlace`, `ShutDownReturns`, `UnRegisteredTasksErased` |

What the three violations are:

 - `tcp_putback`: a command that does not fit is pushed back (`TCPServer.cpp:127`) with the result
   ignored. If a SendCmdData takes the freed slot of a full queue first, the command is lost, not
   put back to wait for the next send as the comment above says.
 - `timer_wrap`: `_lastExcuteTime + _interval < tick` (`TimerManager.cpp:35`) wraps around before the
   clock does. In the last interval before timeGetTime wraps (every 49.7 days) the timer runs at
   every pass.
 - `timer_passes`: TimerThread is added to the pool with `MAX_THREAD_RUNNING`, 2^32-1, as its run
   count (`TimerManager.cpp:89`) where the unlimited count is 2^64-1. After that many passes no
   timer, the heart check among them, runs again.

Also seen, without a document it contradicts: a full queue makes SendCmdData leak its command
(`TCPServer.cpp:66`); a run count given to CreateTimer is stored and never used
(`TimerManager.cpp:12`); an entry put back by `Finish` for a removed task is selected like a task
and its runingnum only grows, which is why `RunningNumCounts` speaks of entries with a callback;
and among tasks that return, the one that ran last has the lowest level and may starve the others
(TLC finds such a schedule for three tasks on three threads), which is why `Served` is checked for
a task beside one that blocks. Further:

 - A command that does not fit goes to the end of its queue. With newer commands pushed at the right
   moments, one that is longer than what is left of the buffer is overtaken at each pass and waits for
   ever; `QueuedCommandLeaves` has this as its exception `PassedOver`, and TLC finds the lasso when
   the exception is taken out. What the property says is that nothing else keeps a command waiting.
 - A scan of the timers ends at the first that is to run. An earlier timer that is due, or asked to run, at
   every pass keeps a removed one in the map for ever: the exception of `RemovalHappens`, which TLC
   finds violated without it.
 - A timer whose last time and interval add up to exactly 2^32-1 is never due again: no clock is
   above that sum.
 - A configured port that is 0 modulo 65536 becomes port 0, and the server listens at a port the
   system picked, which nobody is told. `StartedMeansServing` says so.
 - IOCP_Test: with more than 32 workers (31 processors) two of them have one bit of threadState.
   The first that ends clears it for both, and shutDown may delete its OVERLAPPED under the other:
   with `StateBits` 2 and three workers TLC finds `PacketOutlivesUse` violated.
 - IOCP_Test: a copy whose post failed never runs again and is never deleted, so that its task, once
   unregistered, is never erased: the exceptions of `CopyInOnePlace` and `UnRegisteredTasksErased`.
 - P1_Start that fails leaves everything up: the pool and its timers, the port, servers before the
   one that failed; a listen that fails leaves its socket bound. A configuration without the
   server's id parses, and fails only after all else is up.
 - The log's OVERLAPPED is used again while the write it belongs to is pending. The comment at
   `TraceLog.cpp:31` says that with one thread there is no re-entry to think of; the file system is
   the second party. `LinesInPlace` shows that the places of the lines do not suffer; the text,
   freed on return, may.
 - The HTTP client's thread ends for good at an address that does not parse
   (`HttpClientBoost.cpp:34`); a request the full ring refuses is never deleted.
 - IOCP_Test: two workers that end together restore each other's bit and shutDown never returns (the
   exception `lost` of `ShutDownReturns`; without it TLC finds the behaviour). A second
   unRegisterThread while some copies are deleted goes through a NULL pointer (`crashed`).

**Bounds.** `MaxIo` caps the operations in flight per OVERLAPPED, which needs one more than the one
receive for a send to share it (2 in `tcp_commands`). `MaxPerRecv` caps the headers one receive
brings. Two handles and two addresses are the least with which one client can be removed while
another joins with its handle or its memory; two senders the least for a race on one queue; a
queue of one or two is full after one or two pushes. In `pool_tasks` the clock starts just before it
wraps around and stops (`LastTick`) soon after; in `timers` it comes round again and again, so
that timers keep being due; in `timer_wrap` the one interval of 2 makes the sum wrap in a clock of
4. In the runs that are to be about time, not about the pool's budget, the two run
counts of the pool are equal, so that the passes never run out. `MaxChanges` caps
ChangeTimerState: four let a caller remove a timer, ask an earlier one to run twice, and remove or
suspend it; the earlier timer is due again and again without any. In `tcp_liveness` no two commands
fit one buffer, so that each pass puts one back, and the frame and the queue of two hold what
overtakes it. Four addresses fill the ring of `http_ring` (three) with one more at the sending
thread or refused, and its indices wrap around as addresses are allocated again; requests are not
limited. Three lines of one, two and one byte let three writes be in flight, end in any order and
make the offset wrap. Two configured servers are the least of which the second can fail. In
`iocp_test` three workers, each with a bit of its own, and three copies are what two workers that race leave a third one to
see; the port holds at most one shutdown packet at a time (`MaxShutDown`), and with the packets in
the workers' hands three are under way.

**Fairness** (`FairSpec` of each module). The pool calls a task again and again (its run count is
unlimited), and the operating system schedules every thread: weak fairness of each thread's
steps. Waiting for the shared mutex is strongly fair: a waiting thread sees it free infinitely often,
and boost's writer preference keeps new readers out: a thread that waits announces it (`WaitExclusive`,
weakly fair for the threads together), and SenderStep and HeartStep are strongly fair. In ThreadPool and TimerManager callbacks
return, unless they are in `Blocking`. In RWAutoLock every lock is given back, and nothing is
assumed about which writer the critical section lets in, so only "some writer" is promised. In P1Service,
weak fairness of TraceLogThread says that the pool calls it again and again: of the twenty threads,
the limits of all tasks of a server add up to eight (accept 1, send 4, timers 2, log 1), so that
threads are left for it; ThreadPool alone cannot promise it among tasks that return (see above). The
file system ends every write; P1_Start itself is not fair. In HttpClientBoost connect and write
return, with or without an error; in IOService the tasks' functions do, and shutDown, once called,
goes on; its own posts do not fail for ever. Callers, the network and the clock are never fair: nothing has to happen to the system.
CHECK_DEADLOCK is off where the system may really stop: in `pool_tasks` (the pool is closed and the
clock stopped), `http_ring` (the sending thread has ended), `p1_service` (the start is over and every
line logged) and `iocp_test` (shutDown has returned, a crash, or workers that all ended).

## 4. What is proved

For every value of the constants that satisfies the modules' assumptions:

| Theorem | Statement |
|---|---|
| `TCPServerProofs!TypeCorrect` | `Spec => []TypeOK` |
| `TCPServerProofs!TablesAlwaysAgree` | `Spec => []TablesAgree` |
| `TCPServerProofs!ImplementsRegistry` | `Spec => RegistrySpec`: the server implements ClientRegistry |
| `TCPServerTrafficProofs!AlwaysListened` | `Spec => []NeverDeaf` |
| `TCPServerTrafficProofs!CommandsOwnedOnce` | `Spec => []OneOwnerPerCommand` |
| `TCPServerTrafficProofs!PassAlwaysFits` | `Spec => []PassFitsBuffer` |
| `ThreadPoolProofs!RunningNumAlwaysCounts` | `Spec => []RunningNumCounts` |
| `ThreadPoolProofs!ConcurrencyAlwaysBounded` | `Spec => []ConcurrencyBound` |
| `ThreadPoolProofs!NeverStartedAgain` | `Spec => NeverStartedAfterRemove` |
| `ThreadPoolProofs!TypeCorrect` | `Spec => []TypeOK` |
| `TimerManagerProofs!TypeCorrect` | `Spec => []TypeOK` |
| `TimerManagerProofs!IteratorsValid` | `Spec => []CursorValid` |
| `TimerManagerProofs!IntervalsKept` | `Spec => []IntervalKeptUnwrapped` |
| `RWAutoLockProofs!MutualExclusion` | `Spec => []Exclusion` |
| `RWAutoLockProofs!TypeCorrect` | `Spec => []TypeOK` |
| `HttpClientBoostProofs!TypeCorrect` | `Spec => []TypeOK` |
| `HttpClientBoostProofs!RequestsOwnedOnce` | `Spec => []OneOwner` |
| `HttpClientBoostProofs!ImplementsQueue` | `Spec => QueueSpec`: the ring implements RequestQueue |
| `P1ServiceProofs!TypeCorrect` | `Spec => []TypeOK` |
| `P1ServiceProofs!ReadyInTime` | `Spec => []ReadyBeforeUse` |
| `P1ServiceProofs!JobsOutliveNoServer` | `Spec => []JobsOwnLiveServers` |
| `P1ServiceProofs!StartedIsServing` | `Spec => []StartedMeansServing` |
| `P1ServiceProofs!LinesStayInPlace` | `Spec => []LinesInPlace` |
| `IOServiceProofs!PacketAlwaysOutlivesUse` | `Spec => []PacketOutlivesUse`, if `Workers <= StateBits` |
| `IOServiceProofs!CopyAlwaysInOnePlace` | `Spec => []CopyInOnePlace` |
| `IOServiceProofs!TypeCorrect` | `Spec => []TypeOK` |

These are all the invariants and all the refinements that the passing runs check. Each inductive
invariant was checked by TLC on the run of its module before it was proved.

*TCP server.* `TypeOK` is not inductive: a step uses a thread's pointer or the client it is at,
so `TypeInv` adds `LocalsOK` (a thread past the point where it takes a pointer has one; the
clients a sender still has to visit are in the table, because nobody removes them under its
lock). `Inv` adds `TablesAgree`, which is inductive with them: AddNewClient puts a fresh address
under a handle that is open and in no table (the context that `NewContext` made and that is in no
table yet is `NewContexts`), RemoveClient takes one handle out of both tables,
the sockets and the heap in one step. Every other action leaves the four alone. From `Inv` each step
is a step of ClientRegistry or a stutter. One lemma per action, one step per conjunct.

*TCP traffic.* Three more invariants, each inductive with `Inv`:

 - `ListenInv` for `NeverDeaf`. A packet that a worker takes keeps the chain of receives going only
   if the context's `op` says READ (`OpRead`): AddNewClient leaves it unset, and until the first
   RecvReq sets it the acceptor is itself at the client. The context the acceptor still points to
   is that client's or of a client that left (`AcceptorsContext`): only the acceptor allocates.
 - `OwnerInv` for `OneOwnerPerCommand`. Queues, batches and held commands are put into one function
   from places to sequences (`Store`), in which every command occurs once and is allocated
   (`Owned`). Each step is a move between two places, an addition of a new command or a removal of
   whole sequences, and a lemma each says that these keep `Owned`; that a sender holds a command
   only between PopCmd and PutBack is what lets it take the next one.
 - `BufferInv` for `PassFitsBuffer`. `cmdLength` is the offset after the last command of the client
   a sender is at (`CollectsAt`), the clients it has yet to visit have an empty batch, and nothing is
   left when a pass ends (`AllSent`), so that the next one starts from empty buffers. The property is
   stated by the offsets themselves, not by a sum, which the prover could not unfold.

*Thread pool.* `ConcurrencyBound` follows from two facts the code keeps about entries with a
callback: runingnum is the cardinality of the set of the task's runners, and it never exceeds
mulNum (`LimitKept`). An entry on its way into the map has none (`AddedIdle`). For them to be inductive, tids must be new when they are given out
(`TidsGivenOut`: no runner of the next tid, no removed one), and an entry of a removed tid must
have no callback (`RemovedStayRemoved`), or Finish could give a count to the wrong life of a tid.
The arithmetic of levels and clocks does not matter: whichever candidate is selected, the proof
holds.

*Reader-writer lock.* `Exclusion` is not inductive: a reader gets in because it saw no writer
announced, a writer because it saw no reader announced. `CountsAgree` says that each counter is
the cardinality of the set of threads that announced themselves, and that the thread past
EnterCriticalSection owns it.

*Timers.* The critical section is what `OneScan` says: two threads never have a cursor in the map.
With it, and with ids given out in order (`Numbered`), an erased entry or one that is created leaves
every other cursor valid. `IntervalKeptUnwrapped` rests on `LastIsFired`: an entry's `last` is the
time of the last run on time since the clock came round, so the next one is compared with it. Its
exception, a sum of time and interval that wraps around, is the code's: run `timer_wrap` shows what
happens then.

*HTTP client.* `Live` are the slots from m_PopIdx to m_PushIdx. Neither side locks: the caller
keeps the space it saw because only it takes any (`CallerInv`), the sending thread keeps the item
(`SenderInv`), and the slot that it reads after giving it free is the one before m_PopIdx, which the
caller cannot fill as long as one slot stays empty. `OwnedOnce` says that the caller, the live slots
and the sending thread share out the requests that are allocated and not refused. For the
refinement every step is shown to append to the queue, to take its head, or to leave it. Of the size
of the ring the proofs know `RingAssumption` only (at least two slots).

*Start-up and trace log.* `UpInOrder`, `LogInOrder`, `ServersInOrder`, `TasksInOrder` and
`PortsInOrder` say, for each step P1_Start can be at, what is up, which servers are kept and which
tasks and sockets each of them has by then, with the port asked for or a picked one (`HasPort`) and no
two servers of one address at the same; the steps are grouped into sets such as
`PastPort` or `Serving`, so that a step of the start disturbs few conjuncts. For the log,
`TextPlaced` splits what was said into a first part, which the offset counts until it wraps
around, the text the thread has at hand, and the list; `WritesInPlace` says that each pending write
holds the bytes said at its place, so that it does not matter in which order writes end. The
text of a list is a fold (`FlattenSeq`), defined by a recursive function: its three facts (it
is unique, has the type of a text, and grows at its end) are proved from the least index at which
they would fail.

*IOCP_Test prototype.* `PacketOutlivesUse` is not inductive: what a worker stores is what it loaded
earlier. `LoadedBits` says that every stale copy has the bits of all workers that run, since a bit
is only ever cleared by its own worker as it ends: a stale store may bring a bit back (and keep
shutDown posting), never take one away. This needs a bit for each worker, the hypothesis
`Workers <= StateBits`. `PostedByShutDown` and `EndedBeforeJoin` say that no shutdown
packet is about before shutDown, and that all workers ended once it saw no bit set. `TypeOK` needs
that a worker past a pool packet still has it (`HoldsPacket`).

`CopyInOnePlace` needs to know who deletes a copy: the worker that has its packet and found its
taskState zero. It is zero only for a task that was registered (`ZeroIsRegistered`), whose vector in
threadTasks has the copy as long as it is allocated (`VectorsAgree`), so that the packet never goes
without its copy nor the copy without its packet (`Placed`), unless its post failed: such a copy is
in `unposted` and in neither place; `TasksNumbered` keeps a task that is
being registered apart from all others. `NullAssumption`, the NULL pointer is no packet, is the one
assumption this adds.

*Only model-checked:* everything about liveness, which is beyond the prover: `BrokenClientReaped`,
`QueuedCommandLeaves`, `Served`, `CloseCompletes`, `RemovalHappens`, `WritersGetIn`, `RequestsLeave`,
`EveryLineSettles`, `ShutDownReturns` and `UnRegisteredTasksErased`. The size of the ring is computed
by a recursive function over a shift, whose value for every input is an induction over data: TLC
compares it with its definition for 1 to 80. The three violated properties have nothing to prove.

## 5. What is not modelled

 - Crashes from use after free: the contents survive until the address is reused.
 - Bytes: the contents of messages, the re-parse of the first command (`TCPServer.cpp:378`), the
   buffer of a pending WSASend that is reused or freed (`TCPServer.cpp:171`). A receive brings any
   number of headers up to `MaxPerRecv`.
 - `RemoveAllClient` and the destructors, which run at process exit (in IOCP_Test's main they run
   in an order in which the workers may still call back into UdpServer and AsynLog);
   `QueryTcpServer`, which nothing calls.
 - A second IO_Service::shutDown (the destructor after an explicit call), which finds no thread and
   closes the handle again; a second HttpClientBoost::Init, which would start a second reader.
 - A second P1_Start after a failed one, which initialises critical sections that are in use.
 - RecvNetCmdData's parsing: it passes the start of the buffer for every command it finds and trusts
   every length, so what it parses depends on bytes only, and no document says what it should be.
 - AsynLog of IOCP_Test: its offset is read before the interlocked addition, so that two lines may
   get one place, and a failed write logs itself again; no property worth stating is left.
 - The stubs TCPClient and UDPServer, P1_main (one atomic counter), the load clients, AsioTest, and
   the vendored frameworks: `src/GTest` and `src/AsioTest/proto.hpp` are nine tenths of the
   repository's lines and no part of this program. That is why the share of the repository's lines
   that the modules stand for is small, although most of the program's own logic is modelled.

## 6. Plan

Done: TCPServer with ClientRegistry, ThreadPool, TimerManager, RWAutoLock, HttpClientBoost with
RequestQueue, TraceLog with P1Service, IOService, and a theorem for every safety property above.

Next, in this order:

 1. Action properties and their theorems, where the code makes a promise about a step: a timer that
    was asked to stop does not run on time again, RemoveClient by several threads at once closes a
    socket once.
 2. An abstract specification of the trace log, a file to which lines are appended at places of their
    own, that P1Service implements until the offset wraps around; one of the pool, from
    `RunningNumCounts`.
 3. A composition of ThreadPool and TimerManager in which the pool's run count of TimerThread is the
    pool's own.
