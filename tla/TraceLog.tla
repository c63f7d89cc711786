------------------------------ MODULE TraceLog ------------------------------
(***************************************************************************)
(* The trace log of CommonLib (TraceLog.cpp).  Callers append lines to     *)
(* _logList; one thread of the pool at a time takes what is there, hands   *)
(* it to an overlapped WriteFile and advances the offset of the one        *)
(* OVERLAPPED all its writes share.  A text is a sequence with one element *)
(* per byte: the line the byte belongs to.                                 *)
(***************************************************************************)
EXTENDS Naturals, Sequences, SequencesExt

CONSTANTS
    Line,          \* bound: the lines logged, each once
    Length,        \* the bytes of each line
    OffsetSize,    \* ov.Offset, a DWORD, counts modulo OffsetSize
    Torn           \* a byte of a buffer that was freed before it was written

ASSUME LogAssumption ==
    /\ Length \in [Line -> Nat \ {0}]
    /\ OffsetSize \in Nat \ {0}
    /\ Torn \notin Line

VARIABLES
    runFlag,       \* _runFlag: TRACELOG puts lines into the list
    logList,       \* _logList: the lines that wait
    pcInit,        \* InitIocpTask: not called, the step it is at, or what it returned
    logTask,       \* TraceLogThread is a task of the pool
    pcLog,         \* where the pool's thread is in TraceLogThread, or "out"
    log,           \* its local text
    Offset,        \* _pLogContext->ov.Offset
    writes,        \* the writes in flight: where, what, and whether the text was freed
    file,          \* the bytes of the file that were written
    printed,       \* the lines that went to the console
    said           \* the text of all lines taken into the list (history)

initVars == <<pcInit, logTask>>
threadVars == <<pcLog, log, Offset>>
outputVars == <<file, printed, said>>
logVars == <<runFlag, logList, initVars, threadVars, writes, outputVars>>

Text == Seq(Line)

LogTypeOK ==
    /\ runFlag \in BOOLEAN
    /\ logList \in Seq(Line)
    /\ pcInit \in {"off", "file", "task", "register", "flag", "true", "false"}
    /\ logTask \in BOOLEAN
    /\ pcLog \in {"out", "write", "advance"}
    /\ log \in Text
    /\ Offset \in 0 .. OffsetSize - 1
    /\ writes \subseteq [at : 0 .. OffsetSize - 1, text : Text, freed : BOOLEAN]
    /\ DOMAIN file \subseteq Nat
    /\ file \in [DOMAIN file -> Line \cup {Torn}]
    /\ printed \subseteq Line
    /\ said \in Text

LogInit ==
    /\ runFlag = FALSE
    /\ logList = <<>>
    /\ pcInit = "off"
    /\ logTask = FALSE
    /\ pcLog = "out"
    /\ log = <<>>
    /\ Offset = 0
    /\ writes = {}
    /\ file = <<>>
    /\ printed = {}
    /\ said = <<>>

TextOf(lines) == FlattenSeq([i \in DOMAIN lines |-> [b \in 1 .. Length[lines[i]] |-> lines[i]]])

\* bound: every line is logged once.
Fresh == Line \ (printed \cup Range(said))

-----------------------------------------------------------------------------
(***************************************************************************)
(* InitIocpTask.  The task is in the pool before the file is registered;   *)
(* a failure leaves it there.                                              *)
(***************************************************************************)
CreateLogFile ==
    /\ pcInit = "file"
    /\ pcInit' \in {"task", "false"}
    /\ UNCHANGED <<runFlag, logList, logTask, threadVars, writes, outputVars>>

AddLogTask ==
    /\ pcInit = "task"
    /\ pcInit' = "register"
    /\ logTask' = TRUE
    /\ UNCHANGED <<runFlag, logList, threadVars, writes, outputVars>>

RegisterLogFile ==
    /\ pcInit = "register"
    /\ pcInit' \in {"flag", "false"}
    /\ UNCHANGED <<runFlag, logList, logTask, threadVars, writes, outputVars>>

SwitchOn ==
    /\ pcInit = "flag"
    /\ pcInit' = "true"
    /\ runFlag' = TRUE
    /\ UNCHANGED <<logList, logTask, threadVars, writes, outputVars>>

InitIocpTask == CreateLogFile \/ AddLogTask \/ RegisterLogFile \/ SwitchOn

-----------------------------------------------------------------------------
\* The flag, once set, stays set until the process exits: reading it outside of
\* the critical section is one step with what follows.
TRACELOG(l) ==
    /\ l \in Fresh
    /\ IF runFlag
       THEN /\ logList' = Append(logList, l)
            /\ said' = said \o TextOf(<<l>>)
            /\ UNCHANGED printed
       ELSE /\ printed' = printed \cup {l}
            /\ UNCHANGED <<logList, said>>
    /\ UNCHANGED <<runFlag, initVars, threadVars, writes, file>>

(***************************************************************************)
(* TraceLogThread.  The offset is advanced whatever WriteFile returns, and *)
(* the text is freed on return, written or not.                            *)
(***************************************************************************)
\* A loop that stops one line early.
AllButLast(lines) == Front(lines)

Drained(lines) == lines

DrainList ==
    /\ logTask
    /\ pcLog = "out"
    /\ logList # <<>>
    /\ log' = TextOf(Drained(logList))
    /\ logList' = SubSeq(logList, Len(Drained(logList)) + 1, Len(logList))
    /\ pcLog' = IF log' # <<>> THEN "write" ELSE "out"
    /\ UNCHANGED <<runFlag, initVars, Offset, writes, outputVars>>

\* The file with a text stored at an offset.
Stored(at, text) ==
    LET bytes == at .. at + Len(text) - 1
    IN  [p \in bytes \cup DOMAIN file |-> IF p \in bytes THEN text[p - at + 1] ELSE file[p]]

\* The write ends at once, stays in flight, or fails.
WriteFile ==
    /\ pcLog = "write"
    /\ \/ /\ file' = Stored(Offset, log)
          /\ UNCHANGED writes
       \/ /\ writes' = writes \cup {[at |-> Offset, text |-> log, freed |-> FALSE]}
          /\ UNCHANGED file
       \/ UNCHANGED <<file, writes>>
    /\ pcLog' = "advance"
    /\ UNCHANGED <<runFlag, logList, initVars, log, Offset, printed, said>>

\* An offset that stays where it was.
NotAdvanced(n) == Offset

\* An offset that does not wrap around.
Unwrapped(n) == Offset + n

Advanced(n) == (Offset + n) % OffsetSize

AdvanceOffset ==
    /\ pcLog = "advance"
    /\ Offset' = Advanced(Len(log))
    /\ log' = <<>>
    /\ writes' = {[w EXCEPT !.freed = TRUE] : w \in writes}
    /\ pcLog' = "out"
    /\ UNCHANGED <<runFlag, logList, initVars, outputVars>>

TraceLogThread == DrainList \/ WriteFile \/ AdvanceOffset

\* The file system: the writes in flight end in any order; one whose text was
\* freed may store anything, and one may fail.  IocpCallBack does nothing.
WriteEnds ==
    \E w \in writes :
        /\ writes' = writes \ {w}
        /\ \/ file' = Stored(w.at, w.text)
           \/ w.freed /\ file' = Stored(w.at, [b \in DOMAIN w.text |-> Torn])
           \/ UNCHANGED file
        /\ UNCHANGED <<runFlag, logList, initVars, threadVars, printed, said>>

LogStep == TraceLogThread \/ WriteEnds

\* Enough other threads are in the pool for it to run the task again and again
\* (see the README); the file system ends every write.
LogFairness == WF_logVars(TraceLogThread) /\ WF_logVars(WriteEnds)

-----------------------------------------------------------------------------
(***************************************************************************)
(* Properties.                                                             *)
(***************************************************************************)

\* What the file holds is what was logged, every line at the place the ones
\* before it leave it, although writes share one OVERLAPPED, end in any order
\* and fail: until more was logged than the 32-bit offset counts.
LinesInPlace ==
    Len(said) <= OffsetSize =>
        \A p \in DOMAIN file : file[p] # Torn => p < Len(said) /\ file[p] = said[p + 1]

\* The lines that wait in the list, in the thread or in the file system.
Unsettled ==
    Range(logList) \cup Range(log) \cup UNION {Range(w.text) : w \in writes}

\* A line that was taken is written, or lost by a write that failed, or torn because
\* its text was freed while the write was pending: none waits in the list for ever.
EveryLineSettles == \A l \in Line : l \in Unsettled ~> l \notin Unsettled
=============================================================================
