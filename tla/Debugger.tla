------------------------------ MODULE Debugger ------------------------------
(* The debugger session: DebuggingConsole's consumer, which carries out one *)
(* command at a time (Debugger.Step, RunAsync, CallAsync, Restart), and its *)
(* producer, which handles "!pause" while a command is under way            *)
(* (PauseAsync); the checks that compiled code makes before an instruction  *)
(* (DebugCheck) decide what the two amount to.  The program is any program. *)
EXTENDS Integers

CONSTANTS
    Addr,          \* addresses of instructions
    Start,         \* where the main program starts
    Repertoire,    \* what else than compute and jump the instructions do
    MaxDepth       \* bound: call frames

ASSUME AddrAssumption == Start \in Addr
ASSUME DepthAssumption == MaxDepth \in Nat
ASSUME RepertoireAssumption ==
    Repertoire \subseteq {"call", "read", "read_char", "fault", "quit", "print"}

VARIABLES
    \* the machine
    pc,
    depth,         \* callStack.Count
    running,
    stepping,
    debugState,
    breakpoints,
    \* the consumer
    op,            \* the command it carries out
    at,            \* where it is in that command
    inner,         \* is this the Step that RunAsync makes to leave a breakpoint?
    first,         \* is this Step's first OneStepAsync still to be made?
    startDepth,    \* callDepth, initialCallDepth
    executed,      \* instructions executed by the command; from the third on 3 and 2
                   \* take turns, so that each instruction changes it
    linked,        \* is zm.interruptToken the token of zmachineInterruptSource?
    \* shared with the producer
    cancelled,     \* was zmachineInterruptSource cancelled?
    whenStopped,
    pauser

machine == <<pc, depth, running, stepping, debugState>>
consumer == <<op, at, inner, first, startDepth, executed, linked>>
shared == <<cancelled, whenStopped, pauser>>
vars == <<machine, breakpoints, consumer, shared>>

Steps == {"into", "over", "up"}
Paused == {"PausedOnEntry", "PausedByBreakpoint", "PausedByStep", "PausedByUser",
           "PausedByError"}

Has(instruction) == instruction \in Repertoire

(* After DebuggingConsole.Activate: Debug() and Restart(), which cancels the  *)
(* first source.  Its token is not the machine's: that is the default one,   *)
(* which nobody cancels, until a step or a run assigns another.             *)
Init == /\ pc = Start
        /\ depth = 0
        /\ running = FALSE
        /\ stepping = -1
        /\ debugState = "PausedOnEntry"
        /\ breakpoints = {}
        /\ op = "none"
        /\ at = "idle"
        /\ inner = FALSE
        /\ first = FALSE
        /\ startDepth = 0
        /\ executed = 0
        /\ linked = FALSE
        /\ cancelled = TRUE
        /\ whenStopped = TRUE
        /\ pauser = "reading"

-----------------------------------------------------------------------------
(* The consumer between commands *)

SetBreakpoint(address, enabled) ==
    /\ at = "idle"
    /\ breakpoints' = IF enabled THEN breakpoints \cup {address}
                      ELSE breakpoints \ {address}
    /\ UNCHANGED <<machine, consumer, shared>>

(* The machine after Debugger.Restart. *)
Restarted == /\ pc' = Start
             /\ depth' = 0
             /\ debugState' = "PausedOnEntry"
             /\ UNCHANGED <<running, stepping>>

Restart == /\ at = "idle"
           /\ cancelled' = TRUE
           /\ whenStopped' = TRUE
           /\ Restarted
           /\ UNCHANGED <<breakpoints, consumer, pauser>>

(* HandleCommandAsync up to whenStopped.Reset(). *)
Command(o) ==
    /\ at = "idle"
    /\ \/ o \in Steps /\ debugState \in Paused /\ UNCHANGED <<machine, cancelled>>
       \/ o = "run" /\ debugState # "Terminated" /\ UNCHANGED <<machine, cancelled>>
       \/ o = "run" /\ debugState = "Terminated" /\ Restarted /\ cancelled' = TRUE
    /\ op' = o
    /\ at' = "source"
    /\ executed' = 0
    /\ whenStopped' = FALSE
    /\ UNCHANGED <<breakpoints, inner, first, startDepth, linked, pauser>>

(* Evaluating an expression of a "print" command: CallAsync enters a routine*)
(* of the paused program and runs JitLoopAsync.                             *)
Call == /\ at = "idle" /\ Has("print")
        /\ depth < MaxDepth
        /\ running' = TRUE
        /\ depth' = depth + 1
        /\ pc' \in Addr
        /\ op' = "call"
        /\ at' = "loop"
        /\ startDepth' = depth + 1
        /\ executed' = 0
        /\ UNCHANGED <<stepping, debugState, breakpoints, inner, first, linked, shared>>

-----------------------------------------------------------------------------
(* Step and RunAsync *)

ContinuesFromBreakpoint == pc \in breakpoints /\ debugState # "PausedOnEntry"

(* RunAsync's new interrupt source, and what follows unless a Step does. *)
BeginRun ==
    /\ at = "source" /\ op = "run" /\ ~inner
    /\ cancelled' = FALSE
    /\ linked' = TRUE
    /\ \/ /\ ContinuesFromBreakpoint
          /\ inner' = TRUE
          /\ UNCHANGED <<at, running, debugState>>
       \/ /\ ~ContinuesFromBreakpoint
          /\ at' = "loop"
          /\ running' = TRUE
          /\ debugState' = "Running"
          /\ UNCHANGED inner
    /\ UNCHANGED <<pc, depth, stepping, breakpoints, op, first, startDepth,
                   executed, whenStopped, pauser>>

FirstCount_OffByOne == 2
FirstCount == 1

(* Step's own interrupt source: one that was cancelled is forgotten. *)
BeginStep ==
    /\ at = "source" /\ (op \in Steps \/ inner)
    /\ cancelled' = FALSE
    /\ linked' = TRUE
    /\ stepping' = FirstCount
    /\ running' = TRUE
    /\ debugState' = "Running"
    /\ startDepth' = depth
    /\ first' = TRUE
    /\ at' = "loop"
    /\ UNCHANGED <<pc, depth, breakpoints, op, inner, executed, whenStopped, pauser>>

(* Is another OneStepAsync due?  JitLoopAsync, for a call, does not ask     *)
(* whether the debugger has paused.                                         *)
GoesOn_UpToItself ==
    \/ first
    \/ op = "call" /\ running /\ depth >= startDepth
    \/ /\ running /\ debugState = "Running" /\ ~inner
       /\ \/ op = "run"
          \/ op \in {"over", "up"} /\ depth > startDepth
GoesOn ==
    \/ first
    \/ op = "call" /\ running /\ depth >= startDepth
    \/ /\ running /\ debugState = "Running" /\ ~inner
       /\ \/ op = "run"
          \/ op = "over" /\ depth > startDepth
          \/ op = "up" /\ depth >= startDepth

OneStep == /\ at = "loop" /\ GoesOn
           /\ at' = "fragment"
           /\ first' = FALSE
           /\ UNCHANGED <<machine, breakpoints, op, inner, startDepth, executed, linked,
                          shared>>

StateAfterStep_StillRunning == IF ~running THEN "Terminated" ELSE debugState
StateAfterStep == IF ~running THEN "Terminated"
                  ELSE IF debugState = "Running" THEN "PausedByStep"
                  ELSE debugState

EndStep ==
    /\ at = "loop" /\ ~GoesOn /\ (op \in Steps \/ inner)
    /\ stepping' = -1
    /\ debugState' = StateAfterStep
    /\ whenStopped' = TRUE
    /\ IF inner THEN at' = "resume" /\ UNCHANGED op
                ELSE at' = "idle" /\ op' = "none"
    /\ inner' = FALSE
    /\ UNCHANGED <<pc, depth, running, breakpoints, first, startDepth, executed,
                   linked, cancelled, pauser>>

(* RunAsync after its Step, whatever that Step ended with. *)
ResumeRun ==
    /\ at = "resume"
    /\ running' = TRUE
    /\ debugState' = "Running"
    /\ at' = "loop"
    /\ UNCHANGED <<pc, depth, stepping, breakpoints, op, inner, first, startDepth,
                   executed, linked, shared>>

EndRun ==
    /\ at = "loop" /\ ~GoesOn /\ op = "run" /\ ~inner
    /\ debugState' = IF ~running THEN "Terminated" ELSE debugState
    /\ whenStopped' = TRUE
    /\ at' = "idle"
    /\ op' = "none"
    /\ UNCHANGED <<pc, depth, running, stepping, breakpoints, inner, first, startDepth,
                   executed, linked, cancelled, pauser>>

EndCall ==
    /\ at = "loop" /\ ~GoesOn /\ op = "call"
    /\ at' = "idle"
    /\ op' = "none"
    /\ UNCHANGED <<machine, breakpoints, inner, first, startDepth, executed, linked,
                   shared>>

-----------------------------------------------------------------------------
(* Compiled code *)

(* interruptToken.IsCancellationRequested *)
Interrupted == linked /\ cancelled

(* What DebugCheck answers, and what it leaves in stepping. *)
Breaks_RunOnly ==
    \/ stepping = 0
    \/ stepping < 0 /\ ((op = "run" /\ pc \in breakpoints) \/ Interrupted)
Breaks_NoInterrupt ==
    \/ stepping = 0
    \/ stepping < 0 /\ pc \in breakpoints
Breaks ==
    \/ stepping = 0
    \/ stepping < 0 /\ (pc \in breakpoints \/ Interrupted)

SteppingNext == IF stepping >= 0 THEN stepping - 1 ELSE stepping
ExecutedNext == IF executed < 3 THEN executed + 1 ELSE 2

DebugCheckBreaks ==
    /\ at = "fragment" /\ Breaks
    /\ stepping' = SteppingNext
    /\ debugState' = IF stepping = 0 THEN debugState
                     ELSE IF pc \in breakpoints THEN "PausedByBreakpoint"
                     ELSE "PausedByUser"
    /\ at' = "loop"
    /\ UNCHANGED <<pc, depth, running, breakpoints, op, inner, first, startDepth,
                   executed, linked, shared>>

(* An instruction whose check passed. *)
Executes == /\ at = "fragment" /\ ~Breaks
            /\ stepping' = SteppingNext
            /\ executed' = ExecutedNext
            /\ UNCHANGED <<breakpoints, op, inner, first, startDepth, linked, shared>>

(* Anything that stays in the routine, in the fragment or at its end. *)
Compute(next) == /\ Executes
                 /\ pc' = next
                 /\ at' \in {"fragment", "loop"}
                 /\ UNCHANGED <<depth, running, debugState>>

EnterRoutine(entry) == /\ Executes /\ Has("call")
                       /\ depth < MaxDepth
                       /\ depth' = depth + 1
                       /\ pc' = entry
                       /\ at' = "loop"
                       /\ UNCHANGED <<running, debugState>>

(* A return, or a throw when more than one frame goes. *)
LeaveRoutine(left, returnPC) == /\ Executes /\ Has("call")
                                /\ left \in 1..depth
                                /\ depth' = depth - left
                                /\ pc' = returnPC
                                /\ at' = "loop"
                                /\ UNCHANGED <<running, debugState>>

(* pc is that of the fragment's end, wherever its compilation ended. *)
Quit(end) == /\ Executes /\ Has("quit")
             /\ running' = FALSE
             /\ pc' = end
             /\ at' = "loop"
             /\ UNCHANGED <<depth, debugState>>

(* An exception leaves every operation; only the finally clauses run, and   *)
(* the consumer reports it.  The commands' pc is the fragment's end.        *)
Fails_NotFinally(end) ==
              /\ pc' = end
              /\ at' = "idle"
              /\ op' = "none"
              /\ inner' = FALSE
              /\ UNCHANGED <<depth, running, debugState, breakpoints, first,
                             startDepth, linked, shared>>
Fails(end) == /\ pc' = end
              /\ at' = "idle"
              /\ op' = "none"
              /\ inner' = FALSE
              /\ whenStopped' = TRUE
              /\ UNCHANGED <<depth, running, debugState, breakpoints, first,
                             startDepth, linked, cancelled, pauser>>

Fault(end) == /\ at = "fragment" /\ ~Breaks /\ Has("fault")
              /\ stepping' = SteppingNext
              /\ executed' = ExecutedNext
              /\ Fails(end)

(* ReadImplAsync and ReadCharImplAsync, up to the wait for the player; pc   *)
(* stands for retryPC.                                                      *)
Read == /\ Executes
        /\ \/ Has("read") /\ at' = "reading"
           \/ Has("read_char") /\ at' = "reading char"
        /\ UNCHANGED <<pc, depth, running, debugState>>

ReadAnswered(next) ==
    /\ at \in {"reading", "reading char"}
    /\ pc' = next
    /\ at' = "loop"
    /\ UNCHANGED <<depth, running, stepping, debugState, breakpoints, op, inner, first,
                   startDepth, executed, linked, shared>>

(* The wait is cancelled, or the player breaks into the debugger: the       *)
(* instruction will be executed again.  OneStepAsync catches the exception, *)
(* and so does CallAsync, which gives up.                                   *)
ReadBroken ==
    /\ at = "reading"
    /\ debugState' = "PausedByUser"
    /\ IF op = "call" THEN at' = "idle" /\ op' = "none"
                      ELSE at' = "loop" /\ UNCHANGED op
    /\ UNCHANGED <<pc, depth, running, stepping, breakpoints, inner, first, startDepth,
                   executed, linked, shared>>

(* Nothing catches it in read_char. *)
ReadCharBroken(end) ==
    /\ at = "reading char" /\ Interrupted
    /\ UNCHANGED <<stepping, executed>>
    /\ Fails(end)

-----------------------------------------------------------------------------
(* The producer: PauseAsync *)

Pause == /\ pauser = "reading"
         /\ cancelled' = TRUE
         /\ pauser' = "waiting"
         /\ UNCHANGED <<machine, breakpoints, consumer, whenStopped>>

PauseReturns == /\ pauser = "waiting" /\ whenStopped
                /\ pauser' = "reading"
                /\ UNCHANGED <<machine, breakpoints, consumer, cancelled, whenStopped>>

-----------------------------------------------------------------------------
(* What the consumer does without waiting for anyone. *)
Proceeds ==
    \/ BeginRun \/ BeginStep \/ OneStep \/ EndStep \/ ResumeRun \/ EndRun \/ EndCall
    \/ DebugCheckBreaks
    \/ \E a \in Addr : \/ Compute(a) \/ EnterRoutine(a) \/ Quit(a) \/ Fault(a)
                       \/ \E left \in 1..depth : LeaveRoutine(left, a)
    \/ Read
    \/ Interrupted /\ ReadBroken
    \/ \E a \in Addr : ReadCharBroken(a)

Next ==
    \/ \E a \in Addr, enabled \in BOOLEAN : SetBreakpoint(a, enabled)
    \/ Restart
    \/ \E o \in Steps \cup {"run"} : Command(o)
    \/ Call
    \/ Proceeds
    \/ ReadBroken
    \/ \E a \in Addr : ReadAnswered(a)
    \/ Pause
    \/ PauseReturns

Spec == Init /\ [][Next]_vars

(* The consumer's task is scheduled; nobody has to type anything. *)
FairSpec == Spec /\ WF_vars(Proceeds)

-----------------------------------------------------------------------------
(* Properties *)

TypeOK ==
    /\ pc \in Addr
    /\ depth \in 0..MaxDepth
    /\ running \in BOOLEAN
    /\ stepping \in -1..1
    /\ debugState \in Paused \cup {"Running", "Terminated"}
    /\ breakpoints \subseteq Addr
    /\ op \in Steps \cup {"run", "call", "none"}
    /\ at \in {"idle", "source", "loop", "fragment", "reading", "reading char", "resume"}
    /\ inner \in BOOLEAN /\ first \in BOOLEAN
    /\ startDepth \in 0..MaxDepth
    /\ executed \in 0..3
    /\ linked \in BOOLEAN
    /\ cancelled \in BOOLEAN /\ whenStopped \in BOOLEAN
    /\ pauser \in {"reading", "waiting"}

(* No instruction at a breakpoint is executed, except by a step that starts *)
(* there, and then first of all, RunAsync's own step included: not by one   *)
(* over or up that runs into it, nor after the step with which RunAsync     *)
(* leaves one, nor by a call.  Every instruction executed changes executed. *)
BreakpointsHold ==
    [][executed' # executed /\ executed' # 0 /\ pc \in breakpoints
        => executed = 0 /\ (op \in Steps \/ inner)]_vars

(* A step that is not cut short ends where its name says: into, one         *)
(* instruction on; over, back in the routine it started in or above; up,    *)
(* above.                                                                   *)
StepsEndInPlace ==
    [][at = "loop" /\ at' = "idle" /\ debugState' = "PausedByStep" =>
          /\ op = "into" => executed = 1
          /\ op = "over" => depth <= startDepth
          /\ op = "up" => depth < startDepth]_vars

(* A step or a run that no exception ends says what became of the program:  *)
(* that it has ended if it has quit, why it is paused otherwise, and never  *)
(* that it still runs.                                                      *)
StopIsReported ==
    [][at = "loop" /\ at' = "idle" /\ op # "call" =>
          /\ debugState' # "Running"
          /\ debugState' = "Terminated" <=> ~running']_vars

(* A pause requested while a command executes code ends that command,       *)
(* whatever it is doing: in a loop, in a routine it steps over, waiting for *)
(* the player, or leaving a breakpoint.                                     *)
PauseTakesEffect ==
    (cancelled /\ op # "call" /\ at \in {"loop", "fragment", "reading"}) ~> at = "idle"

(* No command, whatever ends it, leaves a PauseAsync waiting that it would  *)
(* have had to release.                                                     *)
IdleIsStopped == at = "idle" => whenStopped

(* A call that a breakpoint or a pause interrupts comes back to whoever     *)
(* made it.                                                                 *)
InterruptedCallReturns ==
    (op = "call" /\ at = "fragment" /\ stepping < 0 /\ Breaks) ~> at = "idle"
=============================================================================
