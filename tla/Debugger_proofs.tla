--------------------------- MODULE Debugger_proofs ---------------------------
(* For any program and any breakpoints, whatever the player types and the   *)
(* timing of "!pause": breakpoints hold, steps end where they should, and a *)
(* command that ends without an exception says what became of the program.  *)
EXTENDS Debugger, TLAPS

Busy == {"loop", "fragment", "reading", "reading char"}

LEMMA InitTypeOK == Init => TypeOK
<1> SUFFICES ASSUME Init PROVE TypeOK
  OBVIOUS
<1>1. /\ depth \in 0..MaxDepth /\ stepping \in -1..1
      /\ startDepth \in 0..MaxDepth /\ executed \in 0..3
  BY DepthAssumption DEF Init
<1> QED BY <1>1, Zenon, AddrAssumption DEF Init, TypeOK, Paused

(* How a step may change the numbers. *)
LEMMA Counting ==
    TypeOK => /\ SteppingNext \in -1..1 /\ SteppingNext # 1
              /\ stepping = 1 => SteppingNext = 0
              /\ ExecutedNext \in 0..3
              /\ executed = 0 => ExecutedNext = 1
<1> SUFFICES ASSUME TypeOK
             PROVE  /\ SteppingNext \in -1..1 /\ SteppingNext # 1
                    /\ stepping = 1 => SteppingNext = 0
                    /\ ExecutedNext \in 0..3
                    /\ executed = 0 => ExecutedNext = 1
  OBVIOUS
<1>1. stepping \in -1..1 /\ executed \in 0..3
  BY Zenon DEF TypeOK
<1> QED BY <1>1 DEF SteppingNext, ExecutedNext

LEMMA Depths ==
    TypeOK => /\ 0 \in 0..MaxDepth
              /\ depth < MaxDepth => depth + 1 \in 0..MaxDepth
              /\ \A left \in 1..depth : depth - left \in 0..MaxDepth
<1> SUFFICES ASSUME TypeOK
             PROVE  /\ 0 \in 0..MaxDepth
                    /\ depth < MaxDepth => depth + 1 \in 0..MaxDepth
                    /\ \A left \in 1..depth : depth - left \in 0..MaxDepth
  OBVIOUS
<1>1. depth \in 0..MaxDepth
  BY Zenon DEF TypeOK
<1> QED BY <1>1, DepthAssumption

LEMMA StutterTypeOK == TypeOK /\ UNCHANGED vars => TypeOK'
  BY ZenonT(40) DEF TypeOK, vars, machine, consumer, shared

LEMMA NextTypeOK == TypeOK /\ [Next]_vars => TypeOK'
<1> SUFFICES ASSUME TypeOK, [Next]_vars PROVE TypeOK'
  OBVIOUS
<1> USE DEF vars, machine, consumer, shared
<1>n. /\ FirstCount \in -1..1 /\ -1 \in -1..1 /\ 0 \in 0..3
  BY DEF FirstCount
<1>c. SteppingNext \in -1..1 /\ ExecutedNext \in 0..3
  BY Counting
<1>d. /\ 0 \in 0..MaxDepth
      /\ depth < MaxDepth => depth + 1 \in 0..MaxDepth
      /\ \A left \in 1..depth : depth - left \in 0..MaxDepth
  BY Depths
<1>1. ASSUME NEW a \in Addr, NEW enabled \in BOOLEAN, SetBreakpoint(a, enabled)
      PROVE  TypeOK'
  BY <1>1, ZenonT(40) DEF SetBreakpoint, TypeOK
<1>2. ASSUME Restart
      PROVE  TypeOK'
  BY <1>2, <1>n, <1>d, Zenon, AddrAssumption DEF Restart, Restarted, Steps,
     Paused, TypeOK
<1>3. ASSUME NEW o \in Steps \cup {"run"}, Command(o)
      PROVE  TypeOK'
  BY <1>3, <1>n, <1>d, ZenonT(40), AddrAssumption DEF Command, Restarted, Steps,
     Paused, TypeOK
<1>4. ASSUME Call
      PROVE  TypeOK'
  BY <1>4, <1>n, <1>d, Zenon DEF Call, Steps, Paused, TypeOK
<1>5. ASSUME BeginRun
      PROVE  TypeOK'
  BY <1>5, Zenon DEF BeginRun, Steps, Paused, TypeOK
<1>6. ASSUME BeginStep
      PROVE  TypeOK'
  BY <1>6, <1>n, Zenon DEF BeginStep, Steps, Paused, TypeOK
<1>7. ASSUME OneStep
      PROVE  TypeOK'
  BY <1>7, Zenon DEF OneStep, TypeOK
<1>8. ASSUME EndStep
      PROVE  TypeOK'
  BY <1>8, <1>n, Zenon DEF EndStep, StateAfterStep, Steps, Paused, TypeOK
<1>9. ASSUME ResumeRun
      PROVE  TypeOK'
  BY <1>9, Zenon DEF ResumeRun, Steps, Paused, TypeOK
<1>10. ASSUME EndRun
      PROVE  TypeOK'
  BY <1>10, Zenon DEF EndRun, Steps, Paused, TypeOK
<1>11. ASSUME EndCall
      PROVE  TypeOK'
  BY <1>11, Zenon DEF EndCall, TypeOK
<1>12. ASSUME DebugCheckBreaks
      PROVE  TypeOK'
  BY <1>12, <1>c, Zenon DEF DebugCheckBreaks, Steps, Paused, TypeOK
<1>13. ASSUME NEW a \in Addr, Compute(a)
      PROVE  TypeOK'
  BY <1>13, <1>c, ZenonT(40) DEF Compute, Executes, TypeOK
<1>14. ASSUME NEW a \in Addr, EnterRoutine(a)
      PROVE  TypeOK'
  BY <1>14, <1>c, <1>d, Zenon DEF EnterRoutine, Executes, TypeOK
<1>15. ASSUME NEW a \in Addr, NEW left \in 1..depth, LeaveRoutine(left, a)
      PROVE  TypeOK'
  BY <1>15, <1>c, <1>d, Zenon DEF LeaveRoutine, Executes, TypeOK
<1>16. ASSUME NEW a \in Addr, Quit(a)
      PROVE  TypeOK'
  BY <1>16, <1>c, Zenon DEF Quit, Executes, TypeOK
<1>17. ASSUME NEW a \in Addr, Fault(a)
      PROVE  TypeOK'
  BY <1>17, <1>c, Zenon DEF Fault, Fails, TypeOK
<1>18. ASSUME Read
      PROVE  TypeOK'
  BY <1>18, <1>c, ZenonT(40) DEF Read, Executes, TypeOK
<1>19. ASSUME ReadBroken
      PROVE  TypeOK'
  BY <1>19, Zenon DEF ReadBroken, Steps, Paused, TypeOK
<1>20. ASSUME NEW a \in Addr, ReadCharBroken(a)
      PROVE  TypeOK'
  BY <1>20, Zenon DEF ReadCharBroken, Fails, TypeOK
<1>21. ASSUME NEW a \in Addr, ReadAnswered(a)
      PROVE  TypeOK'
  BY <1>21, Zenon DEF ReadAnswered, TypeOK
<1>22. ASSUME Pause
      PROVE  TypeOK'
  BY <1>22, Zenon DEF Pause, TypeOK
<1>23. ASSUME PauseReturns
      PROVE  TypeOK'
  BY <1>23, ZenonT(40) DEF PauseReturns, TypeOK
<1>24. ASSUME UNCHANGED vars
      PROVE  TypeOK'
  BY <1>24, StutterTypeOK
<1> QED BY <1>1, <1>2, <1>3, <1>4, <1>5, <1>6, <1>7, <1>8, <1>9, <1>10,
         <1>11, <1>12, <1>13, <1>14, <1>15, <1>16, <1>17, <1>18, <1>19,
         <1>20, <1>21, <1>22, <1>23, <1>24 DEF Next, Proceeds

(* The types of the debugger's state, for any program. *)
THEOREM DebuggerTypeCorrect == Spec => []TypeOK
  BY InitTypeOK, NextTypeOK, PTL DEF Spec

-----------------------------------------------------------------------------
(* The count of instructions a step may execute without asking about        *)
(* breakpoints is used up by its first one, so that no run and no call has  *)
(* it; and only the Step that RunAsync makes has a command other than a step*)
(* around it.                                                               *)
CountIsForTheFirst ==
    /\ stepping = 1 => /\ executed = 0
                       /\ at \in {"loop", "fragment"}
                       /\ op \in Steps \/ inner
    /\ at = "source" => executed = 0

InnerBelongsToRun == /\ inner \/ at = "resume" => op = "run"
                     /\ at = "idle" => ~inner

(* A step into is about to execute its instruction, or has done so. *)
IntoExecutesOne ==
    op = "into" /\ at \in Busy =>
        \/ /\ stepping = 1 /\ executed = 0
           /\ at = IF first THEN "loop" ELSE "fragment"
        \/ stepping # 1 /\ executed = 1 /\ ~first /\ (at = "fragment" => stepping = 0)

(* The outcome of a command is decided when it ends. *)
OutcomeIsOpen ==
    at \in Busy => /\ op \in Steps => debugState # "PausedByStep"
                   /\ op \in Steps \cup {"run"} => debugState # "Terminated"

StepInv == /\ TypeOK
           /\ CountIsForTheFirst
           /\ InnerBelongsToRun
           /\ IntoExecutesOne
           /\ OutcomeIsOpen

LEMMA InitStepInv == Init => StepInv
  BY InitTypeOK DEF Init, StepInv, CountIsForTheFirst, InnerBelongsToRun,
     IntoExecutesOne, OutcomeIsOpen, Busy, Steps

LEMMA NextStepInv == StepInv /\ [Next]_vars => StepInv'
<1> SUFFICES ASSUME StepInv, [Next]_vars PROVE StepInv'
  OBVIOUS
<1> USE DEF vars, machine, consumer, shared
<1>t. TypeOK /\ TypeOK'
  BY NextTypeOK DEF StepInv
<1>n. stepping \in {-1, 0, 1} /\ 0 # 1 /\ -1 # 1 /\ -1 # 0
  <2>1. stepping \in -1..1
    BY <1>t, Zenon DEF TypeOK
  <2> QED BY <2>1
<1>b. (stepping = 1 => ~Breaks) /\ (stepping = 0 => Breaks)
  BY DEF Breaks
<1>c. /\ SteppingNext # 1
      /\ stepping = 1 => SteppingNext = 0
      /\ executed = 0 => ExecutedNext = 1
  BY <1>t, Counting
<1>1. ASSUME NEW a \in Addr, NEW enabled \in BOOLEAN, SetBreakpoint(a, enabled)
      PROVE  StepInv'
  BY <1>1, <1>t, Zenon DEF SetBreakpoint, StepInv, CountIsForTheFirst,
     InnerBelongsToRun, IntoExecutesOne, OutcomeIsOpen, Busy, Steps
<1>2. ASSUME Restart
      PROVE  StepInv'
  BY <1>2, <1>t, <1>n, <1>c, Zenon DEF Restart, Restarted, StepInv,
     CountIsForTheFirst, InnerBelongsToRun, IntoExecutesOne, OutcomeIsOpen,
     Busy, Steps
<1>3. ASSUME NEW o \in Steps \cup {"run"}, Command(o)
      PROVE  StepInv'
  <2>1. CountIsForTheFirst'
    BY <1>3, <1>n, <1>c, Zenon DEF Command, Restarted, StepInv,
       CountIsForTheFirst
  <2>2. InnerBelongsToRun'
    BY <1>3, <1>t, Zenon DEF Command, Restarted, StepInv, InnerBelongsToRun,
       Steps
  <2>3. IntoExecutesOne'
    BY <1>3, <1>b, <1>n, <1>c, Zenon DEF Command, Restarted, StepInv,
       IntoExecutesOne, Busy
  <2>4. OutcomeIsOpen'
    BY <1>3, Zenon DEF Command, Restarted, StepInv, OutcomeIsOpen, Busy, Steps
  <2> QED BY <1>t, <2>1, <2>2, <2>3, <2>4 DEF StepInv
<1>4. ASSUME Call
      PROVE  StepInv'
  <2>1. CountIsForTheFirst'
    BY <1>4, <1>n, <1>c, Zenon DEF Call, StepInv, CountIsForTheFirst
  <2>2. InnerBelongsToRun'
    BY <1>4, <1>t, Zenon DEF Call, StepInv, InnerBelongsToRun, Steps
  <2>3. IntoExecutesOne'
    BY <1>4, <1>b, <1>n, <1>c, Zenon DEF Call, StepInv, IntoExecutesOne, Busy
  <2>4. OutcomeIsOpen'
    BY <1>4, Zenon DEF Call, StepInv, OutcomeIsOpen, Busy, Steps
  <2> QED BY <1>t, <2>1, <2>2, <2>3, <2>4 DEF StepInv
<1>5. ASSUME BeginRun
      PROVE  StepInv'
  BY <1>5, <1>t, Zenon DEF BeginRun, StepInv, CountIsForTheFirst,
     InnerBelongsToRun, IntoExecutesOne, OutcomeIsOpen, Busy, Steps
<1>6. ASSUME BeginStep
      PROVE  StepInv'
  <2>1. /\ stepping' = 1 /\ executed' = 0
        /\ at' = "loop" /\ first' /\ debugState' = "Running"
        /\ inner' => op' = "run"
        /\ op' \in Steps \/ inner'
    BY <1>6, <1>t, Zenon DEF BeginStep, FirstCount, StepInv, CountIsForTheFirst,
                             InnerBelongsToRun
  <2>2. CountIsForTheFirst' /\ InnerBelongsToRun'
    BY <2>1, Zenon DEF CountIsForTheFirst, InnerBelongsToRun
  <2>3. IntoExecutesOne' /\ OutcomeIsOpen'
    BY <2>1, Zenon DEF IntoExecutesOne, OutcomeIsOpen
  <2> QED BY <1>t, <2>2, <2>3 DEF StepInv
<1>7. ASSUME OneStep
      PROVE  StepInv'
  BY <1>7, <1>t, Zenon DEF OneStep, GoesOn, StepInv, CountIsForTheFirst,
     InnerBelongsToRun, IntoExecutesOne, OutcomeIsOpen, Busy, Steps
<1>8. ASSUME EndStep
      PROVE  StepInv'
  BY <1>8, <1>t, <1>n, <1>c, Zenon DEF EndStep, StateAfterStep, GoesOn, StepInv,
     CountIsForTheFirst, InnerBelongsToRun, IntoExecutesOne, OutcomeIsOpen,
     Busy, Steps
<1>9. ASSUME ResumeRun
      PROVE  StepInv'
  BY <1>9, <1>t, Zenon DEF ResumeRun, StepInv, CountIsForTheFirst,
     InnerBelongsToRun, IntoExecutesOne, OutcomeIsOpen, Busy, Steps
<1>10. ASSUME EndRun
      PROVE  StepInv'
  BY <1>10, <1>t, Zenon DEF EndRun, GoesOn, StepInv, CountIsForTheFirst,
     InnerBelongsToRun, IntoExecutesOne, OutcomeIsOpen, Busy, Steps
<1>11. ASSUME EndCall
      PROVE  StepInv'
  BY <1>11, <1>t, Zenon DEF EndCall, StepInv, CountIsForTheFirst,
     InnerBelongsToRun, IntoExecutesOne, OutcomeIsOpen, Busy, Steps
<1>12. ASSUME DebugCheckBreaks
      PROVE  StepInv'
  <2>1. CountIsForTheFirst'
    BY <1>12, <1>n, <1>c, Zenon DEF DebugCheckBreaks, StepInv,
       CountIsForTheFirst
  <2>2. InnerBelongsToRun'
    BY <1>12, <1>t, Zenon DEF DebugCheckBreaks, StepInv, InnerBelongsToRun,
       Steps
  <2>3. IntoExecutesOne'
    BY <1>12, <1>b, <1>n, <1>c, Zenon DEF DebugCheckBreaks, StepInv,
       IntoExecutesOne, Busy
  <2>4. OutcomeIsOpen'
    BY <1>12, Zenon DEF DebugCheckBreaks, StepInv, OutcomeIsOpen, Busy, Steps
  <2> QED BY <1>t, <2>1, <2>2, <2>3, <2>4 DEF StepInv
<1>13. ASSUME NEW a \in Addr, Compute(a)
      PROVE  StepInv'
  <2>1. CountIsForTheFirst'
    BY <1>13, <1>n, <1>c, Zenon DEF Compute, Executes, StepInv,
       CountIsForTheFirst
  <2>2. InnerBelongsToRun'
    BY <1>13, <1>t, Zenon DEF Compute, Executes, StepInv, InnerBelongsToRun,
       Steps
  <2>3. IntoExecutesOne'
    BY <1>13, <1>b, <1>n, <1>c, Zenon DEF Compute, Executes, StepInv,
       IntoExecutesOne, Busy
  <2>4. OutcomeIsOpen'
    BY <1>13, Zenon DEF Compute, Executes, StepInv, OutcomeIsOpen, Busy, Steps
  <2> QED BY <1>t, <2>1, <2>2, <2>3, <2>4 DEF StepInv
<1>14. ASSUME NEW a \in Addr, EnterRoutine(a)
      PROVE  StepInv'
  <2>1. CountIsForTheFirst'
    BY <1>14, <1>n, <1>c, Zenon DEF EnterRoutine, Executes, StepInv,
       CountIsForTheFirst
  <2>2. InnerBelongsToRun'
    BY <1>14, <1>t, Zenon DEF EnterRoutine, Executes, StepInv,
       InnerBelongsToRun, Steps
  <2>3. IntoExecutesOne'
    BY <1>14, <1>b, <1>n, <1>c, Zenon DEF EnterRoutine, Executes, StepInv,
       IntoExecutesOne, Busy
  <2>4. OutcomeIsOpen'
    BY <1>14, Zenon DEF EnterRoutine, Executes, StepInv, OutcomeIsOpen, Busy,
       Steps
  <2> QED BY <1>t, <2>1, <2>2, <2>3, <2>4 DEF StepInv
<1>15. ASSUME NEW a \in Addr, NEW left \in 1..depth, LeaveRoutine(left, a)
      PROVE  StepInv'
  <2>1. CountIsForTheFirst'
    BY <1>15, <1>n, <1>c, Zenon DEF LeaveRoutine, Executes, StepInv,
       CountIsForTheFirst
  <2>2. InnerBelongsToRun'
    BY <1>15, <1>t, Zenon DEF LeaveRoutine, Executes, StepInv,
       InnerBelongsToRun, Steps
  <2>3. IntoExecutesOne'
    BY <1>15, <1>b, <1>n, <1>c, Zenon DEF LeaveRoutine, Executes, StepInv,
       IntoExecutesOne, Busy
  <2>4. OutcomeIsOpen'
    BY <1>15, Zenon DEF LeaveRoutine, Executes, StepInv, OutcomeIsOpen, Busy,
       Steps
  <2> QED BY <1>t, <2>1, <2>2, <2>3, <2>4 DEF StepInv
<1>16. ASSUME NEW a \in Addr, Quit(a)
      PROVE  StepInv'
  <2>1. CountIsForTheFirst'
    BY <1>16, <1>n, <1>c, Zenon DEF Quit, Executes, StepInv, CountIsForTheFirst
  <2>2. InnerBelongsToRun'
    BY <1>16, <1>t, Zenon DEF Quit, Executes, StepInv, InnerBelongsToRun, Steps
  <2>3. IntoExecutesOne'
    BY <1>16, <1>b, <1>n, <1>c, Zenon DEF Quit, Executes, StepInv,
       IntoExecutesOne, Busy
  <2>4. OutcomeIsOpen'
    BY <1>16, Zenon DEF Quit, Executes, StepInv, OutcomeIsOpen, Busy, Steps
  <2> QED BY <1>t, <2>1, <2>2, <2>3, <2>4 DEF StepInv
<1>17. ASSUME NEW a \in Addr, Fault(a)
      PROVE  StepInv'
  BY <1>17, <1>t, <1>n, <1>c, Zenon DEF Fault, Fails, StepInv,
     CountIsForTheFirst, InnerBelongsToRun, IntoExecutesOne, OutcomeIsOpen,
     Busy, Steps
<1>18. ASSUME Read
      PROVE  StepInv'
  <2>1. CountIsForTheFirst'
    BY <1>18, <1>n, <1>c, Zenon DEF Read, Executes, StepInv, CountIsForTheFirst
  <2>2. InnerBelongsToRun'
    BY <1>18, <1>t, Zenon DEF Read, Executes, StepInv, InnerBelongsToRun, Steps
  <2>3. IntoExecutesOne'
    BY <1>18, <1>b, <1>n, <1>c, Zenon DEF Read, Executes, StepInv,
       IntoExecutesOne, Busy
  <2>4. OutcomeIsOpen'
    BY <1>18, Zenon DEF Read, Executes, StepInv, OutcomeIsOpen, Busy, Steps
  <2> QED BY <1>t, <2>1, <2>2, <2>3, <2>4 DEF StepInv
<1>19. ASSUME ReadBroken
      PROVE  StepInv'
  BY <1>19, <1>t, Zenon DEF ReadBroken, StepInv, CountIsForTheFirst,
     InnerBelongsToRun, IntoExecutesOne, OutcomeIsOpen, Busy, Steps
<1>20. ASSUME NEW a \in Addr, ReadCharBroken(a)
      PROVE  StepInv'
  BY <1>20, <1>t, Zenon DEF ReadCharBroken, Fails, StepInv, CountIsForTheFirst,
     InnerBelongsToRun, IntoExecutesOne, OutcomeIsOpen, Busy, Steps
<1>21. ASSUME NEW a \in Addr, ReadAnswered(a)
      PROVE  StepInv'
  BY <1>21, <1>t, Zenon DEF ReadAnswered, StepInv, CountIsForTheFirst,
     InnerBelongsToRun, IntoExecutesOne, OutcomeIsOpen, Busy, Steps
<1>22. ASSUME Pause
      PROVE  StepInv'
  BY <1>22, <1>t, Zenon DEF Pause, StepInv, CountIsForTheFirst,
     InnerBelongsToRun, IntoExecutesOne, OutcomeIsOpen, Busy, Steps
<1>23. ASSUME PauseReturns
      PROVE  StepInv'
  BY <1>23, <1>t, Zenon DEF PauseReturns, StepInv, CountIsForTheFirst,
     InnerBelongsToRun, IntoExecutesOne, OutcomeIsOpen, Busy, Steps
<1>24. ASSUME UNCHANGED vars
      PROVE  StepInv'
  BY <1>24, <1>t, Zenon DEF StepInv, CountIsForTheFirst, InnerBelongsToRun,
     IntoExecutesOne, OutcomeIsOpen, Busy, Steps
<1> QED BY <1>1, <1>2, <1>3, <1>4, <1>5, <1>6, <1>7, <1>8, <1>9, <1>10,
         <1>11, <1>12, <1>13, <1>14, <1>15, <1>16, <1>17, <1>18, <1>19,
         <1>20, <1>21, <1>22, <1>23, <1>24 DEF Next, Proceeds

(* No instruction at a breakpoint is executed, however many a command       *)
(* executes, but the first one of a step, that of RunAsync included         *)
(* (Debugger.cs, DebugCheck and the count that Step sets).                  *)
THEOREM BreakpointsAlwaysHold == Spec => BreakpointsHold
<1>1. StepInv /\ [Next]_vars =>
        [executed' # executed /\ executed' # 0 /\ pc \in breakpoints
            => executed = 0 /\ (op \in Steps \/ inner)]_vars
  <2> SUFFICES ASSUME StepInv, Next, executed' # executed, executed' # 0,
                      pc \in breakpoints
               PROVE  executed = 0 /\ (op \in Steps \/ inner)
    OBVIOUS
  <2>1. at = "fragment" /\ ~Breaks
    BY DEF Next, Proceeds, SetBreakpoint, Restart, Restarted, Command, Call,
       BeginRun, BeginStep, OneStep, EndStep, ResumeRun, EndRun, EndCall,
       DebugCheckBreaks, Compute, EnterRoutine, LeaveRoutine, Quit, Fault, Read,
       Executes, ReadBroken, ReadCharBroken, Fails, ReadAnswered, Pause,
       PauseReturns, vars, machine, consumer, shared
  <2>2. stepping = 1
    BY <2>1 DEF Breaks, StepInv, TypeOK
  <2> QED BY <2>2 DEF StepInv, CountIsForTheFirst
<1> QED BY InitStepInv, NextStepInv, <1>1, PTL DEF Spec, BreakpointsHold

(* A step that nothing cuts short ends where its name says (Debugger.cs,    *)
(* StepIntoAsync, StepOverAsync, StepUpAsync).                              *)
EndsInPlace ==
    at = "loop" /\ at' = "idle" /\ debugState' = "PausedByStep" =>
        /\ op = "into" => executed = 1
        /\ op = "over" => depth <= startDepth
        /\ op = "up" => depth < startDepth

THEOREM StepsAlwaysEndInPlace == Spec => StepsEndInPlace
<1>1. StepInv /\ [Next]_vars => [EndsInPlace]_vars
  <2> SUFFICES ASSUME StepInv, Next, at = "loop", at' = "idle",
                      debugState' = "PausedByStep"
               PROVE  /\ op = "into" => executed = 1
                      /\ op = "over" => depth <= startDepth
                      /\ op = "up" => depth < startDepth
    BY DEF EndsInPlace
  <2>1. EndStep \/ EndRun \/ EndCall
    BY DEF Next, Proceeds, SetBreakpoint, Restart, Restarted, Command, Call,
       BeginRun, BeginStep, OneStep, ResumeRun, DebugCheckBreaks, Compute,
       EnterRoutine, LeaveRoutine, Quit, Fault, Read, Executes, ReadBroken,
       ReadCharBroken, Fails, ReadAnswered, Pause, PauseReturns, vars, machine,
       consumer, shared
  <2>2. CASE EndRun \/ EndCall
    BY <2>2 DEF EndRun, EndCall
  <2>3. CASE EndStep
    <3>1. ~GoesOn /\ ~inner /\ op \in Steps
      BY <2>3 DEF EndStep
    <3>p. debugState # "PausedByStep"
      BY <3>1 DEF StepInv, OutcomeIsOpen, Busy
    <3>2. debugState = "Running" /\ running
      BY <2>3, <3>p DEF EndStep, StateAfterStep
    <3>3. /\ ~first
          /\ op = "over" => ~(depth > startDepth)
          /\ op = "up" => ~(depth >= startDepth)
      BY <3>1, <3>2 DEF GoesOn
    <3>4. op = "into" => executed = 1
      BY <3>3 DEF StepInv, IntoExecutesOne, Busy
    <3>5. depth \in Int /\ startDepth \in Int
      BY DepthAssumption DEF StepInv, TypeOK
    <3> QED BY <3>3, <3>4, <3>5
  <2> QED BY <2>1, <2>2, <2>3
<1> QED BY InitStepInv, NextStepInv, <1>1, PTL DEF Spec, StepsEndInPlace, EndsInPlace

(* A command that ends without an exception says what became of the program *)
(* (Debugger.cs, Step and RunAsync).                                        *)
Reports ==
    at = "loop" /\ at' = "idle" /\ op # "call" =>
        /\ debugState' # "Running"
        /\ debugState' = "Terminated" <=> ~running'

THEOREM StopIsAlwaysReported == Spec => StopIsReported
<1>1. StepInv /\ [Next]_vars => [Reports]_vars
  <2> SUFFICES ASSUME StepInv, Next, at = "loop", at' = "idle", op # "call"
               PROVE  /\ debugState' # "Running"
                      /\ debugState' = "Terminated" <=> ~running'
    BY DEF Reports
  <2>1. EndStep \/ EndRun
    BY DEF Next, Proceeds, SetBreakpoint, Restart, Restarted, Command, Call,
       BeginRun, BeginStep, OneStep, EndCall, ResumeRun, DebugCheckBreaks, Compute,
       EnterRoutine, LeaveRoutine, Quit, Fault, Read, Executes, ReadBroken,
       ReadCharBroken, Fails, ReadAnswered, Pause, PauseReturns, vars, machine,
       consumer, shared
  <2>2. op \in Steps \cup {"run"} => debugState # "Terminated"
    BY DEF StepInv, OutcomeIsOpen, Busy
  <2>3. CASE EndStep
    BY <2>2, <2>3 DEF EndStep, StateAfterStep, StepInv, InnerBelongsToRun
  <2>4. CASE EndRun
    BY <2>2, <2>4 DEF EndRun, GoesOn
  <2> QED BY <2>1, <2>3, <2>4
<1> QED BY InitStepInv, NextStepInv, <1>1, PTL DEF Spec, StopIsReported, Reports

-----------------------------------------------------------------------------
(* A pause that waits is let go when the command ends (DebuggingConsole.cs, *)
(* whenStopped): a command that no exception ends has set the event, one    *)
(* that an exception ends sets it in the finally clause, and an evaluation  *)
(* never resets it, which is why the invariant speaks of "call" too.        *)
NobodyWaits == at = "idle" \/ op = "call" => whenStopped

LEMMA NextNobodyWaits == NobodyWaits /\ [Next]_vars => NobodyWaits'
<1> SUFFICES ASSUME NobodyWaits, [Next]_vars PROVE NobodyWaits'
  OBVIOUS
<1> USE DEF NobodyWaits, vars, machine, consumer, shared
<1>1. ASSUME NEW a \in Addr, NEW enabled \in BOOLEAN, SetBreakpoint(a, enabled)
      PROVE  NobodyWaits'
  BY <1>1, Zenon DEF SetBreakpoint
<1>2. ASSUME Restart \/ Call
      PROVE  NobodyWaits'
  BY <1>2, Zenon DEF Restart, Call
<1>3. ASSUME NEW o \in Steps \cup {"run"}, Command(o)
      PROVE  NobodyWaits'
  BY <1>3, Zenon DEF Command, Steps
<1>4. ASSUME BeginRun \/ BeginStep \/ OneStep \/ ResumeRun
      PROVE  NobodyWaits'
  BY <1>4, Zenon DEF BeginRun, BeginStep, OneStep, ResumeRun
<1>5. ASSUME EndStep \/ EndRun
      PROVE  NobodyWaits'
  BY <1>5, Zenon DEF EndStep, EndRun
<1>6. ASSUME EndCall \/ ReadBroken
      PROVE  NobodyWaits'
  BY <1>6, Zenon DEF EndCall, ReadBroken
<1>7. ASSUME DebugCheckBreaks \/ Read
      PROVE  NobodyWaits'
  BY <1>7, Zenon DEF DebugCheckBreaks, Read, Executes
<1>8. ASSUME NEW a \in Addr, Compute(a) \/ EnterRoutine(a) \/ Quit(a)
      PROVE  NobodyWaits'
  BY <1>8, Zenon DEF Compute, EnterRoutine, Quit, Executes
<1>9. ASSUME NEW a \in Addr, NEW left \in 1..depth, LeaveRoutine(left, a)
      PROVE  NobodyWaits'
  BY <1>9, Zenon DEF LeaveRoutine, Executes
<1>10. ASSUME NEW a \in Addr, Fault(a) \/ ReadCharBroken(a)
       PROVE  NobodyWaits'
  BY <1>10, Zenon DEF Fault, ReadCharBroken, Fails
<1>11. ASSUME NEW a \in Addr, ReadAnswered(a)
       PROVE  NobodyWaits'
  BY <1>11, Zenon DEF ReadAnswered
<1>12. ASSUME Pause \/ PauseReturns
       PROVE  NobodyWaits'
  BY <1>12, Zenon DEF Pause, PauseReturns
<1>13. ASSUME UNCHANGED vars
       PROVE  NobodyWaits'
  BY <1>13, Zenon
<1> QED BY <1>1, <1>2, <1>3, <1>4, <1>5, <1>6, <1>7, <1>8, <1>9, <1>10,
         <1>11, <1>12, <1>13 DEF Next, Proceeds

(* Whenever no command is carried out, nobody waits for one to stop         *)
(* (DebuggingConsole.cs, PauseAsync and HandleCommandAsync).                *)
THEOREM IdleIsAlwaysStopped == Spec => []IdleIsStopped
<1>1. Init => NobodyWaits
  BY DEF Init, NobodyWaits
<1>2. NobodyWaits => IdleIsStopped
  BY DEF NobodyWaits, IdleIsStopped
<1> QED BY <1>1, NextNobodyWaits, <1>2, PTL DEF Spec
=============================================================================
