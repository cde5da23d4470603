---------------------------- MODULE CrashHandler ----------------------------
(***************************************************************************)
(* The start of the client and its handler of fatal signals, which leaves  *)
(* a stack trace on stderr and in a file before the process dies of the    *)
(* signal.  A fault runs the handler on the thread that made it, also if   *)
(* that thread is in the handler already.  While a handler runs its signal *)
(* is blocked in the thread: one that is raised is delivered when the      *)
(* handler returns, and a fault that would make it kills the process.      *)
(***************************************************************************)
EXTENDS Naturals, Sequences

CONSTANTS Main, Threads,  \* the main thread, all threads
          Signals,        \* SIGSEGV, SIGABRT, SIGBUS, SIGFPE, SIGILL
          MaxFaults       \* bound: faults

ASSUME CrashAssumption == Main \in Threads /\ MaxFaults \in Nat

VARIABLES
  process,   \* "started", "guarded" (the handler is installed), "running", "ended", "killed"
  logFile,   \* g_crashLogFd is open
  entered,   \* the handler's static flag
  default,   \* signals with their default action
  stack,     \* the handlers that a thread is in, the innermost last
  written,   \* places with a whole trace
  faults,    \* history: how many faults there were
  first      \* history: the signal of the first one that the handler got

vars == <<process, logFile, entered, default, stack, written, faults, first>>

Alive == process \in {"started", "guarded", "running"}
Labels == {"check", "mark", "header", "trace", "footer", "default", "raise", "return"}
Writing == {"header", "trace", "footer"}

TypeOK ==
  /\ process \in {"started", "guarded", "running", "ended", "killed"}
  /\ logFile \in BOOLEAN /\ entered \in BOOLEAN
  /\ default \subseteq Signals /\ written \subseteq {"stderr", "log"}
  /\ stack \in [Threads -> Seq([sig : Signals, at : Labels])]
  /\ written # {} => entered
  /\ faults \in 0..MaxFaults /\ first \in Signals \cup {"none"}

Init ==
  /\ process = "started" /\ logFile = FALSE /\ entered = FALSE
  /\ default = Signals /\ stack = [t \in Threads |-> <<>>]
  /\ written = {} /\ faults = 0 /\ first = "none"

-----------------------------------------------------------------------------
(***************************************************************************)
(* main.                                                                   *)
(***************************************************************************)
\* The log file may fail to open.
InstallCrashHandler ==
  /\ process = "started" /\ process' = "guarded"
  /\ logFile' \in BOOLEAN /\ default' = {}
  /\ UNCHANGED <<entered, stack, written, faults, first>>

\* GetToken: the entry of the configuration, or an empty one if there is none; it throws
\* if the file is not there or cannot be parsed.
Tokens == {"token", "empty", "exception"}

\* The bot runs with a token; otherwise main returns 1.
RunWithToken ==
  /\ process = "guarded" /\ stack[Main] = <<>>
  /\ \E token \in Tokens : process' = IF token = "token" THEN "running" ELSE "ended"
  /\ UNCHANGED <<logFile, entered, default, stack, written, faults, first>>

-----------------------------------------------------------------------------
(***************************************************************************)
(* Signals.                                                                *)
(***************************************************************************)
Top(t) == stack[t][Len(stack[t])]
In(t, label) == Alive /\ stack[t] # <<>> /\ Top(t).at = label
Blocked(t, s) == \E i \in DOMAIN stack[t] : stack[t][i].sig = s
Goto(t, label) == stack' = [stack EXCEPT ![t][Len(stack[t])].at = label]
Enter(t, s) == stack' = [stack EXCEPT ![t] = Append(@, [sig |-> s, at |-> "check"])]

\* In the code of the program, or while the handler writes.
Fault(t, s) ==
  /\ Alive /\ (t = Main \/ process = "running") /\ faults < MaxFaults
  /\ stack[t] # <<>> => Top(t).at \in Writing
  /\ faults' = faults + 1
  /\ IF s \in default \/ Blocked(t, s)
     THEN process' = "killed" /\ UNCHANGED <<stack, first>>
     ELSE /\ Enter(t, s) /\ UNCHANGED process
          /\ first' = IF first = "none" THEN s ELSE first
  /\ UNCHANGED <<logFile, entered, default, written>>

Check(t) ==
  /\ In(t, "check")
  /\ Goto(t, IF entered THEN "default" ELSE "mark")
  /\ UNCHANGED <<process, logFile, entered, default, written, faults, first>>

\* Bug: the flag is set when the trace has been written.
MarkLate(t) ==
  /\ In(t, "mark")
  /\ Goto(t, "header")
  /\ UNCHANGED <<process, logFile, entered, default, written, faults, first>>

Mark(t) ==
  /\ In(t, "mark")
  /\ entered' = TRUE /\ Goto(t, "header")
  /\ UNCHANGED <<process, logFile, default, written, faults, first>>

WriteHeader(t) ==
  /\ In(t, "header")
  /\ Goto(t, "trace")
  /\ UNCHANGED <<process, logFile, entered, default, written, faults, first>>

\* Bug: the trace goes to stderr only.
WriteTraceOnce(t) ==
  /\ In(t, "trace")
  /\ written' = written \cup {"stderr"} /\ Goto(t, "footer")
  /\ UNCHANGED <<process, logFile, entered, default, faults, first>>

\* backtrace_symbols_fd to stderr, and to the file if it is open.
WriteTrace(t) ==
  /\ In(t, "trace")
  /\ IF logFile /\ "stderr" \in written
     THEN written' = written \cup {"log"} /\ Goto(t, "footer")
     ELSE /\ written' = written \cup {"stderr"}
          /\ IF logFile THEN UNCHANGED stack ELSE Goto(t, "footer")
  /\ UNCHANGED <<process, logFile, entered, default, faults, first>>

WriteFooter(t) ==
  /\ In(t, "footer")
  /\ Goto(t, "default")
  /\ UNCHANGED <<process, logFile, entered, default, written, faults, first>>

\* Bug: the action of the signal is not set back.
DefaultKept(t) ==
  /\ In(t, "default")
  /\ Goto(t, "raise")
  /\ UNCHANGED <<process, logFile, entered, default, written, faults, first>>

\* signal(sig, SIG_DFL).
Default(t) ==
  /\ In(t, "default")
  /\ default' = default \cup {Top(t).sig} /\ Goto(t, "raise")
  /\ UNCHANGED <<process, logFile, entered, written, faults, first>>

\* The signal is pending, as it is blocked.
Raise(t) ==
  /\ In(t, "raise")
  /\ Goto(t, "return")
  /\ UNCHANGED <<process, logFile, entered, default, written, faults, first>>

\* The handler returns, and the pending signal is delivered.
Return(t) ==
  /\ In(t, "return")
  /\ IF Top(t).sig \in default THEN process' = "killed" /\ UNCHANGED stack
     ELSE Goto(t, "check") /\ UNCHANGED process
  /\ UNCHANGED <<logFile, entered, default, written, faults, first>>

HandlerStep(t) ==
  \/ Check(t) \/ Mark(t) \/ WriteHeader(t) \/ WriteTrace(t) \/ WriteFooter(t)
  \/ Default(t) \/ Raise(t) \/ Return(t)

Next ==
  \/ InstallCrashHandler \/ RunWithToken
  \/ \E t \in Threads : HandlerStep(t) \/ (\E s \in Signals : Fault(t, s))

Spec == Init /\ [][Next]_vars

\* Threads are scheduled.
FairSpec == Spec /\ \A t \in Threads : WF_vars(HandlerStep(t))

-----------------------------------------------------------------------------
(***************************************************************************)
(* Properties.                                                             *)
(***************************************************************************)
\* A handler that faults is run inside itself once and not again, by whatever signals and
\* in however many threads at a time.
NoRecursion == \A t \in Threads : Len(stack[t]) <= 2

\* If the process dies of the only fault there was, by its own signal, it has left the
\* whole trace wherever it could write one.
TracedBeforeDeath ==
  process = "killed" /\ faults = 1 /\ first # "none" =>
    default = {first} /\ "stderr" \in written /\ (logFile => "log" \in written)

\* A process with a fault dies, whatever its other threads and the handler itself do.
FaultKills == (\E t \in Threads : stack[t] # <<>>) ~> process \in {"killed", "ended"}
=============================================================================
