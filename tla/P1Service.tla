----------------------------- MODULE P1Service -----------------------------
(***************************************************************************)
(* P1_Start (P1_Service.cpp) brings the services up one after the other    *)
(* and stops at the first that fails; what is up then stays up.  The       *)
(* threads of the pool run a task from the moment it is added, next to the *)
(* rest of the start.  The trace log, which every thread writes to and     *)
(* which the start itself switches on, is the one of TraceLog.             *)
(***************************************************************************)
EXTENDS TraceLog, FiniteSets

CONSTANTS
    Configs,       \* what ParseConfigFile may make of the file
    PortSize,      \* a configured port, a uint32_t, is kept modulo PortSize
    Ephemeral      \* the ports the system picks from when asked for port 0

\* parsed: the file is there and well formed; found: it has the server's id;
\* tcpServer: the address and the port of each configured TcpServer.
ASSUME ConfigAssumption ==
    /\ Configs \subseteq [parsed : BOOLEAN, found : BOOLEAN,
                    tcpServer : Seq([ip : Nat, uProt : Nat])]
    /\ PortSize \in Nat \ {0}
    /\ Ephemeral \subseteq 1 .. PortSize - 1

VARIABLES
    config,        \* the configuration file
    pcStart,       \* where P1_Start is, or what it returned
    up,            \* the services that are initialised
    k,             \* the TCP server InitIocpTask has come to
    server,        \* the life of each TCPServer object
    bound,         \* of a server: the port its socket is bound to, 0 for none
    tasks,         \* the tasks of the pool and the timers: function and server
    toReport       \* the lines a failed InitServer still has to log

startVars == <<config, pcStart, up, k, server, bound, tasks, toReport>>
vars == <<logVars, startVars>>

Server == 1 .. Len(config.tcpServer)

TypeOK ==
    /\ LogTypeOK
    /\ config \in Configs
    /\ pcStart \in {"config", "pool", "timers", "timerTask", "port", "log", "wsa", "cfg",
                    "new", "socket", "listen", "accept", "send", "heart", "report",
                    "started", "failed"}
    /\ up \subseteq {"pool", "timers", "port", "wsa"}
    /\ k \in 1 .. Len(config.tcpServer) + 1
    /\ server \in [Server -> {"none", "new", "kept", "deleted"}]
    /\ bound \in [Server -> 0 .. PortSize - 1]
    /\ tasks \subseteq
          {<<"TimerThread", 0>>}
             \cup ({"AcceptThread", "SendThread", "HeartCheckTimer"} \X Server)
    /\ toReport \in 0 .. 2

Init ==
    /\ LogInit
    /\ config \in Configs
    /\ pcStart = "config"
    /\ up = {}
    /\ k = 1
    /\ server = [s \in Server |-> "none"]
    /\ bound = [s \in Server |-> 0]
    /\ tasks = {}
    /\ toReport = 0

-----------------------------------------------------------------------------
\* A service is initialised: it is up and the start goes on.
BringUp(from, service, to) ==
    /\ pcStart = from
    /\ up' = up \cup service
    /\ pcStart' = to
    /\ UNCHANGED <<logVars, config, k, server, bound, tasks, toReport>>

\* The start goes from one step to another and changes nothing else.
Go(from, to) ==
    /\ pcStart = from
    /\ pcStart' = to
    /\ UNCHANGED <<logVars, config, up, k, server, bound, tasks, toReport>>

AddJob(from, f, s, to) ==
    /\ pcStart = from
    /\ tasks' = tasks \cup {<<f, s>>}
    /\ pcStart' = to
    /\ UNCHANGED <<logVars, config, up, k, server, bound, toReport>>

ParseConfigFile == Go("config", IF config.parsed THEN "pool" ELSE "failed")

InitThreadPool == BringUp("pool", {"pool"}, "timers")

\* The pool's threads may run TimerThread before InitTimerManager returns.
NoTimerCs == {}
TimerCs == {"timers"}

InitTimerManager ==
    \/ BringUp("timers", TimerCs, "timerTask")
    \/ AddJob("timerTask", "TimerThread", 0, "port")

InitService ==
    \/ BringUp("port", {"port"}, "log")
    \/ Go("port", "failed")

InitTraceLog ==
    \/ /\ pcStart = "log"
       /\ pcInit = "off"
       /\ pcInit' = "file"
       /\ UNCHANGED <<runFlag, logList, logTask, threadVars, writes, outputVars, startVars>>
    \/ InitIocpTask /\ UNCHANGED startVars
    \/ pcInit = "true" /\ Go("log", "wsa")
    \/ pcInit = "false" /\ Go("log", "failed")

-----------------------------------------------------------------------------
(***************************************************************************)
(* NetServiceTask::InitIocpTask and TCPServer::InitServer.                 *)
(***************************************************************************)
WSAStartup ==
    \/ BringUp("wsa", {"wsa"}, "cfg")
    \/ Go("wsa", "failed")

\* A file without the server's id parses, and is found out only here.
GetServerCfg == Go("cfg", IF config.found THEN "new" ELSE "failed")

NewServer ==
    /\ pcStart = "new"
    /\ IF k \in Server
       THEN /\ server' = [server EXCEPT ![k] = "new"]
            /\ pcStart' = "socket"
       ELSE /\ pcStart' = "started"
            /\ UNCHANGED server
    /\ UNCHANGED <<logVars, config, up, k, bound, tasks, toReport>>

Port(s) == config.tcpServer[s].uProt % PortSize
Ip(s)   == config.tcpServer[s].ip

FailInitServer(lines) ==
    /\ pcStart' = "report"
    /\ toReport' = lines
    /\ UNCHANGED <<logVars, config, up, k, server, tasks>>

\* A port that has a socket is bound again.
Reused(s, p) == TRUE

PortFree(s, p) == \A r \in Server : Ip(r) = Ip(s) => bound[r] # p

\* bind: port 0 asks for any port that is free.
Bindable(s) == IF Port(s) = 0 THEN Ephemeral ELSE {Port(s)}

\* WSASocket and bind.  CreateSocket and InitServer each log a failure.
CreateSocket ==
    /\ pcStart = "socket"
    /\ \/ \E p \in Bindable(k) :
             /\ PortFree(k, p)
             /\ bound' = [bound EXCEPT ![k] = p]
             /\ pcStart' = "listen"
             /\ UNCHANGED <<logVars, config, up, k, server, tasks, toReport>>
       \/ /\ FailInitServer(2)
          /\ UNCHANGED bound

\* A failure leaves the socket bound: nothing closes it.
Listen ==
    \/ Go("listen", "accept")
    \/ /\ pcStart = "listen"
       /\ FailInitServer(1)
       /\ UNCHANGED bound

AddServerJobs ==
    \/ AddJob("accept", "AcceptThread", k, "send")
    \/ AddJob("send", "SendThread", k, "heart")

\* The timer, and the entry in _tcpServers.
CreateTimer ==
    /\ pcStart = "heart"
    /\ tasks' = tasks \cup {<<"HeartCheckTimer", k>>}
    /\ server' = [server EXCEPT ![k] = "kept"]
    /\ k' = k + 1
    /\ pcStart' = "new"
    /\ UNCHANGED <<logVars, config, up, bound, toReport>>

\* The failure is logged (bound: as long as there are lines).
ReportFailure ==
    /\ pcStart = "report"
    /\ toReport > 0
    /\ \/ \E l \in Line : TRACELOG(l)
       \/ Fresh = {} /\ UNCHANGED logVars
    /\ toReport' = toReport - 1
    /\ UNCHANGED <<config, pcStart, up, k, server, bound, tasks>>

\* A cleanup of every server made so far.
EveryServer == 1 .. k

Unfinished == {k}

DeleteServer ==
    /\ pcStart = "report"
    /\ toReport = 0
    /\ server' = [s \in Server |-> IF s \in Unfinished THEN "deleted" ELSE server[s]]
    /\ pcStart' = "failed"
    /\ UNCHANGED <<logVars, config, up, k, bound, tasks, toReport>>

-----------------------------------------------------------------------------
P1_Start ==
    \/ ParseConfigFile
    \/ InitThreadPool
    \/ InitTimerManager
    \/ InitService
    \/ InitTraceLog
    \/ WSAStartup
    \/ GetServerCfg
    \/ NewServer
    \/ CreateSocket
    \/ Listen
    \/ AddServerJobs
    \/ CreateTimer
    \/ ReportFailure
    \/ DeleteServer

\* Any thread of the process.
P1_LOG == \E l \in Line : TRACELOG(l) /\ UNCHANGED startVars

Next ==
    \/ P1_Start
    \/ P1_LOG
    \/ LogStep /\ UNCHANGED startVars

Spec == Init /\ [][Next]_vars

FairSpec == Spec /\ LogFairness

-----------------------------------------------------------------------------
(***************************************************************************)
(* Properties.                                                             *)
(***************************************************************************)

\* The services a task of the pool, or a timer, calls.
Uses(f) ==
    CASE f = "TimerThread"     -> {"pool", "timers"}
      [] f = "AcceptThread"    -> {"pool", "port", "wsa"}
      [] f = "SendThread"      -> {"pool", "wsa"}
      [] f = "HeartCheckTimer" -> {"pool", "timers", "wsa"}

\* A thread of the pool may run a task before the step that added it has returned:
\* what it uses is up by then, the log with its file and critical section too.
ReadyBeforeUse ==
    /\ \A t \in tasks : Uses(t[1]) \subseteq up
    /\ (\E t \in tasks : t[2] > 0) => runFlag
    /\ logTask => "pool" \in up /\ pcInit \notin {"off", "file", "task"}

\* Nothing undoes AddThreadTask or CreateTimer when the start fails: a server a
\* task or a timer has a pointer to must not be deleted.
JobsOwnLiveServers == \A t \in tasks : t[2] # 0 => server[t[2]] \in {"new", "kept"}

\* The port that was asked for, or one that was picked.
HasPort(s) == bound[s] # 0 /\ (Port(s) # 0 => bound[s] = Port(s))

\* P1_Start returns true only when every configured server listens at a port that no
\* other server has, and has its threads and its heart check.  The port is the one
\* asked for, of whose 32 bits 16 are kept, unless those are zero.
StartedMeansServing ==
    pcStart = "started" =>
        /\ config.parsed /\ config.found
        /\ \A s \in Server :
              /\ server[s] = "kept"
              /\ HasPort(s)
              /\ {"AcceptThread", "SendThread", "HeartCheckTimer"} \X {s} \subseteq tasks
        /\ \A s, r \in Server : Ip(s) = Ip(r) /\ bound[s] = bound[r] => s = r
=============================================================================
