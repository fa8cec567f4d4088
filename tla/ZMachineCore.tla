---------------------------- MODULE ZMachineCore ----------------------------
(* The state a running story file shares with the interpreter's C# side:    *)
(* one evaluation stack for all routines (ZMachine.stack), the call frames  *)
(* with the depth that stack had when each was entered (callStack), the     *)
(* global variables, the undo slots and the save file, and the nested       *)
(* execution loops that timed input opens.  The program is any program:     *)
(* each action is one instruction, with the operands it may have.           *)
(*                                                                          *)
(* The model is of Versions 4, 5, 7 and 8: save and restore store a result  *)
(* (Versions 1-3 branch instead), and the main program has no frame.        *)
EXTENDS Integers, Sequences

CONSTANTS
    WordSize,      \* number of values of a variable: 65536 in the code
    Addr,          \* code addresses that control can be transferred to
    Start,         \* where the main program starts
    Routine,       \* packed addresses of routines
    Entry,         \* Entry[r]: address of the first instruction of routine r
    Defaults,      \* Defaults[r]: initial values of the locals of routine r
    Global,        \* numbers of the global variables in use
    Globals0,      \* their values in the story file
    MaxUndoDepth,  \* the command line's number of undo slots
    Repertoire,    \* the instruction families the program uses
    Data,          \* bounds: values that instructions compute,
    MaxArgs,       \*         arguments of a call,
    MaxDepth,      \*         call frames,
    MaxStack,      \*         words on the evaluation stack,
    MaxReads       \*         input instructions that wait at once

Families == {"compute", "variable", "call", "throw", "undo", "save", "restart", "quit",
             "read", "timed quit", "illegal"}

Local == 1..15
Word == 0..(WordSize - 1)
Locals == {l \in Seq(Word) : Len(l) <= 15}   \* the local variables of a frame
Variable == {0} \cup Local \cup Global
None == -1               \* no result is stored
NoRoutine == 0

ASSUME WordAssumption == WordSize \in Nat /\ WordSize >= 3
ASSUME CodeAssumption ==
    /\ Start \in Addr
    /\ Routine \subseteq Nat \ {NoRoutine}
    /\ Entry \in [Routine -> Addr]
    /\ Defaults \in [Routine -> Locals]
ASSUME MemoryAssumption ==
    /\ Global \subseteq 16..255
    /\ Globals0 \in [Global -> Word]
ASSUME BoundAssumption ==
    MaxUndoDepth \in Nat /\ Data \subseteq Word /\ MaxArgs \in 0..7
ASSUME RepertoireAssumption == Repertoire \subseteq Families

VARIABLES
    pc,
    stack,
    callStack,
    globals,
    running,
    readers,     \* the input instructions under way, outermost first
    awaiting,    \* does the last of them await the player?
    undoStates,
    saveFile,
    fault        \* the exception that ended the program, if any

vars == <<pc, stack, callStack, globals, running, readers, awaiting,
          undoStates, saveFile, fault>>

NoFile == [kind |-> "none"]
BadFile == [kind |-> "bad"]

Frame == [returnPC : Addr, prevStackDepth : Nat, locals : Locals,
          argCount : 0..7, resultStorage : {None} \cup Variable]
Snapshot == [kind : {"state"}, stack : Seq(Word), callStack : Seq(Frame),
             globals : [Global -> Word], pc : Addr, dest : Variable]
(* depth: the call depth below which the loop that runs the timer routine   *)
(* ends (initialCallDepth); 0 until the timer first fires.                  *)
Reader == [nextPC : Addr, dest : {None} \cup Variable, depth : Nat]

Top(s) == s[Len(s)]
Pop(s, k) == SubSeq(s, 1, Len(s) - k)

(* The stack depth at which the executing routine's own values begin. *)
Base == IF callStack = <<>> THEN 0 ELSE Top(callStack).prevStackDepth

NumLocals == IF callStack = <<>> THEN 0 ELSE Len(Top(callStack).locals)

(* Variables an instruction of the executing routine may name. *)
InScope == {0} \cup 1..NumLocals \cup Global

Init == /\ pc = Start
        /\ stack = <<>>
        /\ callStack = <<>>
        /\ globals = Globals0
        /\ running = TRUE
        /\ readers = <<>>
        /\ awaiting = FALSE
        /\ undoStates = <<>>
        /\ saveFile = NoFile
        /\ fault = "none"

(* The condition of the innermost JitLoopAsync. *)
InLoop_OutermostDepth ==
    running /\ (readers # <<>> => Len(callStack) >= readers[1].depth)
InLoop == running /\ (readers # <<>> => Len(callStack) >= Top(readers).depth)

Executing == fault = "none" /\ ~awaiting /\ InLoop

Has(family) == family \in Repertoire

Interrupted == readers # <<>>

(* The Z-machine Standard lets a routine take only what it has pushed, and  *)
(* lets no interrupt routine save, restore, restart or throw past itself.   *)
(* The interpreter checks none of this: "illegal" programs do it.           *)
CanPop(k) == Len(stack) - k >= IF Has("illegal") THEN 0 ELSE Base
Uninterrupted == Has("illegal") \/ ~Interrupted

-----------------------------------------------------------------------------
(* Storing *)

(* The parts of a state after StoreResult: the evaluation stack is pushed   *)
(* to, where StoreVariableImpl replaces its top.                            *)
StackWith(s, dest, v) == IF dest = 0 THEN Append(s, v) ELSE s
LocalsWith(cs, dest, v) ==
    IF dest \in Local /\ cs # <<>>
    THEN [cs EXCEPT ![Len(cs)].locals[dest] = v]
    ELSE cs
GlobalsWith(g, dest, v) ==
    IF dest \in Global THEN [g EXCEPT ![dest] = v] ELSE g

StoreResult(dest, v, s, cs, g) ==
    /\ stack' = StackWith(s, dest, v)
    /\ callStack' = LocalsWith(cs, dest, v)
    /\ globals' = GlobalsWith(g, dest, v)

StoreVariableImpl(dest, v, s) ==
    StoreResult(dest, v, IF dest = 0 THEN Pop(s, 1) ELSE s, callStack, globals)

-----------------------------------------------------------------------------
(* Calls *)

NewLocals(r, args) ==
    [i \in 1..Len(Defaults[r]) |->
        IF i <= Len(args) THEN args[i] ELSE Defaults[r][i]]

(* s is the stack that the operands have been taken off. *)
NewFrame_DepthAtArgs(r, args, dest, returnPC, s) ==
    [returnPC |-> returnPC, prevStackDepth |-> Len(s) - Len(args),
     locals |-> NewLocals(r, args), argCount |-> Len(args),
     resultStorage |-> dest]
NewFrame(r, args, dest, returnPC, s) ==
    [returnPC |-> returnPC, prevStackDepth |-> Len(s),
     locals |-> NewLocals(r, args), argCount |-> Len(args),
     resultStorage |-> dest]

EnterFunctionImpl(r, args, dest, returnPC, s) ==
    \/ /\ r = NoRoutine
       /\ StoreResult(dest, 0, s, callStack, globals)
       /\ pc' = returnPC
    \/ /\ r \in Routine
       /\ Len(callStack) < MaxDepth
       /\ callStack' = Append(callStack, NewFrame(r, args, dest, returnPC, s))
       /\ stack' = s
       /\ pc' = Entry[r]
       /\ UNCHANGED globals

Trimmed_NotAtAll(s, frame) == s
Trimmed(s, frame) == SubSeq(s, 1, frame.prevStackDepth)

TookTooMuch_OrExactlyAll(s, frame) == Len(s) <= frame.prevStackDepth
TookTooMuch(s, frame) == Len(s) < frame.prevStackDepth

(* Leaving the routine on top of cs: what it left on the stack goes, or,    *)
(* if it took more than was its own, an exception.                          *)
LeaveFunctionImpl(v, s, cs) ==
    LET frame == Top(cs)
        rest == Pop(cs, 1)
    IN  \/ /\ ~TookTooMuch(s, frame)
           /\ StoreResult(frame.resultStorage, v,
                          Trimmed(s, frame), rest, globals)
           /\ pc' = frame.returnPC
           /\ UNCHANGED fault
        \/ /\ TookTooMuch(s, frame)
           /\ fault' = "routine used too much stack"
           /\ stack' = s
           /\ callStack' = rest
           /\ UNCHANGED <<pc, globals>>

-----------------------------------------------------------------------------
(* Instructions.  k is the number of operands taken from the stack, next    *)
(* the address of the instruction that is executed after this one.          *)

(* Any instruction that computes a word: StoreResult or, with None, nothing.*)
Compute(k, dest, v, next) ==
    /\ Executing /\ Has("compute")
    /\ CanPop(k)
    /\ Len(stack) < MaxStack
    /\ StoreResult(dest, v, Pop(stack, k), callStack, globals)
    /\ pc' = next
    /\ UNCHANGED <<running, readers, awaiting, undoStates, saveFile, fault>>

(* op_store with k = 0, op_pull with k = 1 (the value is then the one       *)
(* popped); a second word is replaced when the variable is the stack.       *)
Assign(k, dest, v, next) ==
    /\ Executing /\ Has("variable")
    /\ CanPop(IF dest = 0 THEN k + 1 ELSE k)
    /\ StoreVariableImpl(dest, IF k = 1 THEN Top(stack) ELSE v, Pop(stack, k))
    /\ pc' = next
    /\ UNCHANGED <<running, readers, awaiting, undoStates, saveFile, fault>>

(* The value of a variable that stays where it is. *)
LoadVariableImpl(num) ==
    IF num = 0 THEN Top(stack)
    ELSE IF num \in Local THEN Top(callStack).locals[num]
    ELSE globals[num]

(* op_inc, op_dec and the branching forms of both. *)
Increment(dest, amount, next) ==
    /\ Executing /\ Has("variable")
    /\ dest = 0 => CanPop(1)
    /\ StoreVariableImpl(dest, (LoadVariableImpl(dest) + amount) % WordSize, stack)
    /\ pc' = next
    /\ UNCHANGED <<running, readers, awaiting, undoStates, saveFile, fault>>

Call(k, r, args, dest, next) ==
    /\ Executing /\ Has("call")
    /\ CanPop(k)
    /\ k <= 1 + Len(args)
    /\ Len(stack) < MaxStack
    /\ EnterFunctionImpl(r, args, dest, next, Pop(stack, k))
    /\ UNCHANGED <<running, readers, awaiting, undoStates, saveFile, fault>>

Return(k, v) ==
    /\ Executing /\ Has("call")
    /\ callStack # <<>>
    /\ CanPop(k)
    /\ LeaveFunctionImpl(v, Pop(stack, k), callStack)
    /\ UNCHANGED <<running, readers, awaiting, undoStates, saveFile>>

(* The token of the executing routine is the number of frames. *)
Catch(dest, next) ==
    /\ Executing /\ Has("throw")
    /\ Len(stack) < MaxStack
    /\ StoreResult(dest, Len(callStack) % WordSize, stack, callStack, globals)
    /\ pc' = next
    /\ UNCHANGED <<running, readers, awaiting, undoStates, saveFile, fault>>

(* The frames above the catching one go, then that one is left. *)
ThrowImpl(v, frame) ==
    /\ Executing /\ Has("throw")
    /\ frame \in 1..Len(callStack)
    /\ Has("illegal") \/ (Interrupted => frame >= Top(readers).depth)
    /\ LeaveFunctionImpl(v, stack, SubSeq(callStack, 1, frame))
    /\ UNCHANGED <<running, readers, awaiting, undoStates, saveFile>>

(* An operand is popped off an empty stack; or the main program returns or  *)
(* throws, or a routine throws to frame 0, which is all that catch gives    *)
(* the main program: the .NET collection throws.                            *)
Collapse ==
    /\ Executing /\ Has("illegal")
    /\ \/ stack = <<>> /\ UNCHANGED callStack
       \/ callStack' = <<>>
    /\ fault' = "empty stack"
    /\ UNCHANGED <<pc, stack, globals, running, readers, awaiting,
                   undoStates, saveFile>>

-----------------------------------------------------------------------------
(* Snapshots *)

CurrentState_AtTheSave(dest, next) ==
    [kind |-> "state", stack |-> stack, callStack |-> callStack,
     globals |-> globals, pc |-> pc, dest |-> dest]
CurrentState(dest, next) ==
    [kind |-> "state", stack |-> stack, callStack |-> callStack,
     globals |-> globals, pc |-> next, dest |-> dest]

(* The state that a snapshot holds, with 2 in the variable that the save    *)
(* instruction names.                                                       *)
ResumeFrom_KeepsGlobals(s) ==
    /\ StoreResult(s.dest, 2, s.stack, s.callStack, globals)
    /\ pc' = s.pc
ResumeFrom(s) == /\ StoreResult(s.dest, 2, s.stack, s.callStack, s.globals)
                 /\ pc' = s.pc

(* The slots that stay when one more is needed: the oldest goes. *)
KeptUndoStates_DropsNewest ==
    IF Len(undoStates) >= MaxUndoDepth THEN Pop(undoStates, 1) ELSE undoStates
KeptUndoStates ==
    IF Len(undoStates) >= MaxUndoDepth THEN Tail(undoStates) ELSE undoStates

SaveUndo(dest, next) ==
    /\ Executing /\ Has("undo") /\ Uninterrupted
    /\ Len(stack) < MaxStack
    /\ \/ /\ MaxUndoDepth > 0
          /\ undoStates' = Append(KeptUndoStates, CurrentState(dest, next))
          /\ StoreResult(dest, 1, stack, callStack, globals)
       \/ /\ MaxUndoDepth = 0
          /\ StoreResult(dest, 0, stack, callStack, globals)
          /\ UNCHANGED undoStates
    /\ pc' = next
    /\ UNCHANGED <<running, readers, awaiting, saveFile, fault>>

RestoreUndo(dest, failurePC) ==
    /\ Executing /\ Has("undo") /\ Uninterrupted
    /\ \/ /\ undoStates = <<>>
          /\ Len(stack) < MaxStack
          /\ StoreResult(dest, 0, stack, callStack, globals)
          /\ pc' = failurePC
          /\ UNCHANGED undoStates
       \/ /\ undoStates # <<>>
          /\ ResumeFrom(Top(undoStates))
          /\ undoStates' = Pop(undoStates, 1)
    /\ UNCHANGED <<running, readers, awaiting, saveFile, fault>>

(* The player names no file, the file is written, or writing fails. *)
Save(dest, next) ==
    /\ Executing /\ Has("save") /\ Uninterrupted
    /\ Len(stack) < MaxStack
    /\ \/ /\ saveFile' = CurrentState(dest, next)
          /\ StoreResult(dest, 1, stack, callStack, globals)
       \/ /\ saveFile' \in {saveFile, BadFile}
          /\ StoreResult(dest, 0, stack, callStack, globals)
    /\ pc' = next
    /\ UNCHANGED <<running, readers, awaiting, undoStates, fault>>

(* RestoreQuetzal, then the compiled instruction's own store of its result  *)
(* (1) in dest: on the stack or in a local it reaches the objects that were *)
(* just replaced, in a global the memory that was just restored.            *)
Restore(dest, failurePC) ==
    /\ Executing /\ Has("save") /\ Uninterrupted
    /\ \/ /\ Len(stack) < MaxStack      \* no file, or not a good one
          /\ StoreResult(dest, 0, stack, callStack, globals)
          /\ pc' = failurePC
       \/ /\ saveFile \notin {NoFile, BadFile}
          /\ stack' = StackWith(saveFile.stack, saveFile.dest, 2)
          /\ callStack' = LocalsWith(saveFile.callStack, saveFile.dest, 2)
          /\ globals' = GlobalsWith(GlobalsWith(saveFile.globals, saveFile.dest, 2),
                                    dest, 1)
          /\ pc' = saveFile.pc
    /\ UNCHANGED <<running, readers, awaiting, undoStates, saveFile, fault>>

Restart ==
    /\ Executing /\ Has("restart") /\ Uninterrupted
    /\ globals' = Globals0
    /\ stack' = <<>>
    /\ callStack' = <<>>
    /\ undoStates' = <<>>
    /\ pc' = Start
    /\ UNCHANGED <<running, readers, awaiting, saveFile, fault>>

Quit ==
    /\ Executing /\ Has("quit")
    /\ Interrupted => Has("timed quit")
    /\ running' = FALSE
    /\ UNCHANGED <<pc, stack, callStack, globals, readers, awaiting,
                   undoStates, saveFile, fault>>

-----------------------------------------------------------------------------
(* Timed input *)

(* The instruction's fragment ends here; pc is already past the fragment.   *)
Read(dest, next, fragmentEnd) ==
    /\ Executing /\ Has("read")
    /\ Len(readers) < MaxReads
    /\ readers' = Append(readers, [nextPC |-> next, dest |-> dest, depth |-> 0])
    /\ awaiting' = TRUE
    /\ pc' = fragmentEnd
    /\ UNCHANGED <<stack, callStack, globals, running, undoStates, saveFile, fault>>

(* A timer routine's result goes to the stack. *)
TimerResult == 0

(* HandleInputTimerAsync, up to its JitLoopAsync. *)
TimerFires(r) ==
    /\ fault = "none" /\ awaiting
    /\ r # NoRoutine
    /\ Len(stack) < MaxStack
    /\ EnterFunctionImpl(r, <<>>, TimerResult, pc, stack)
    /\ readers' = [readers EXCEPT ![Len(readers)].depth = Len(callStack) + 1]
    /\ awaiting' = FALSE
    /\ UNCHANGED <<running, undoStates, saveFile, fault>>

(* The nested JitLoopAsync has ended: its routine's result is popped, and   *)
(* not looked at; the input instruction goes on waiting.                    *)
TimerRoutineDone ==
    /\ fault = "none" /\ ~awaiting /\ Interrupted /\ ~InLoop
    /\ \/ /\ stack # <<>>
          /\ stack' = Pop(stack, 1)
          /\ awaiting' = TRUE
          /\ UNCHANGED fault
       \/ /\ stack = <<>>
          /\ fault' = "empty stack"
          /\ UNCHANGED <<stack, awaiting>>
    /\ UNCHANGED <<pc, callStack, globals, running, readers, undoStates, saveFile>>

(* The player has answered: the terminating key is stored. *)
ReadDone(v) ==
    /\ fault = "none" /\ awaiting
    /\ Len(stack) < MaxStack
    /\ StoreResult(Top(readers).dest, v, stack, callStack, globals)
    /\ pc' = Top(readers).nextPC
    /\ readers' = Pop(readers, 1)
    /\ awaiting' = FALSE
    /\ UNCHANGED <<running, undoStates, saveFile, fault>>

-----------------------------------------------------------------------------
Args == UNION {[1..n -> Data] : n \in 0..MaxArgs}

Next ==
    \/ \E k \in 0..2, dest \in InScope \cup {None}, v \in Data, next \in Addr :
           Compute(k, dest, v, next)
    \/ \E k \in 0..1, dest \in InScope, v \in Data, next \in Addr :
           Assign(k, dest, v, next)
    \/ \E dest \in InScope, amount \in {-1, 1}, next \in Addr :
           Increment(dest, amount, next)
    \/ \E k \in 0..2, r \in Routine \cup {NoRoutine}, args \in Args,
          dest \in InScope \cup {None}, next \in Addr :
           Call(k, r, args, dest, next)
    \/ \E k \in 0..1, v \in Data : Return(k, v)
    \/ \E dest \in InScope, next \in Addr : Catch(dest, next)
    \/ \E v \in Data, frame \in 1..Len(callStack) : ThrowImpl(v, frame)
    \/ Collapse
    \/ \E dest \in InScope, next \in Addr :
           \/ SaveUndo(dest, next) \/ RestoreUndo(dest, next)
           \/ Save(dest, next) \/ Restore(dest, next)
    \/ Restart
    \/ Quit
    \/ \E dest \in InScope \cup {None}, next, end \in Addr : Read(dest, next, end)
    \/ \E r \in Routine : TimerFires(r)
    \/ TimerRoutineDone
    \/ \E v \in Data : ReadDone(v)

Spec == Init /\ [][Next]_vars

-----------------------------------------------------------------------------
(* How the flat stack stands for the activations of RoutineCalls: the frame *)
(* i owns the words from its depth to the depth of the next frame, and the  *)
(* main program those below the first frame.                                *)
Owned(s, cs, i) ==
    SubSeq(s, IF i = 0 THEN 1 ELSE cs[i].prevStackDepth + 1,
              IF i = Len(cs) THEN Len(s) ELSE cs[i + 1].prevStackDepth)

(* Depths of the frames whose result HandleInputTimerAsync takes back. *)
TimerFrames == {readers[j].depth : j \in 1..Len(readers)} \
               (IF awaiting THEN {Top(readers).depth} ELSE {})

(* Between the end of a timer routine and the Pop its result is on the      *)
(* stack of the routine it interrupted.                                     *)
ResultPending == Interrupted /\ ~awaiting /\ Len(callStack) < Top(readers).depth

Dropped == -2

Activations(s, cs, timers) ==
    [i \in 1..(Len(cs) + 1) |->
        IF i = 1 THEN [returnPC |-> Start, stack |-> Owned(s, cs, 0),
                       locals |-> <<>>, argCount |-> 0, resultStorage |-> None]
        ELSE [returnPC |-> cs[i - 1].returnPC,
              stack |-> Owned(s, cs, i - 1),
              locals |-> cs[i - 1].locals,
              argCount |-> cs[i - 1].argCount,
              resultStorage |-> IF i - 1 \in timers THEN Dropped
                                ELSE cs[i - 1].resultStorage]]

AbstractSnapshot(s) ==
    IF s.kind # "state" THEN s
    ELSE [acts |-> Activations(s.stack, s.callStack, {}),
          globals |-> s.globals, pc |-> s.pc, dest |-> s.dest]

Calls == INSTANCE RoutineCalls WITH
    acts <- Activations(IF ResultPending THEN Pop(stack, 1) ELSE stack,
                        callStack, TimerFrames),
    undo <- [i \in 1..Len(undoStates) |-> AbstractSnapshot(undoStates[i])],
    file <- AbstractSnapshot(saveFile)

-----------------------------------------------------------------------------
(* Properties *)

(* Every variable has the shape its C# declaration gives it. *)
TypeOK ==
    /\ pc \in Addr
    /\ stack \in Seq(Word)
    /\ callStack \in Seq(Frame)
    /\ globals \in [Global -> Word]
    /\ running \in BOOLEAN
    /\ readers \in Seq(Reader)
    /\ awaiting \in BOOLEAN
    /\ undoStates \in Seq(Snapshot)
    /\ saveFile \in Snapshot \cup {NoFile, BadFile}
    /\ fault \in {"none", "routine used too much stack", "empty stack"}

Disciplined(s, cs) ==
    /\ \A i \in 1..Len(cs) : cs[i].prevStackDepth <= Len(s)
    /\ \A i, j \in 1..Len(cs) :
           i < j => cs[i].prevStackDepth <= cs[j].prevStackDepth

(* The frames cut the flat stack into one part per routine: in the running  *)
(* program, in every undo slot and in the save file.  SerializeStacks and   *)
(* LeaveFunctionImpl rely on it; nothing checks it before they do.          *)
StackDiscipline ==
    /\ Disciplined(stack, callStack)
    /\ \A i \in 1..Len(undoStates) :
           Disciplined(undoStates[i].stack, undoStates[i].callStack)
    /\ saveFile.kind = "state" => Disciplined(saveFile.stack, saveFile.callStack)

(* While a timer routine runs, the frame that the nested loop waits for     *)
(* pushes its result, so that the Pop in HandleInputTimerAsync takes that   *)
(* result and not a value of the program it interrupted.                    *)
ResultAwaitsPop ==
    \A i \in 1..Len(readers) : LET d == readers[i].depth IN
        d > 0 /\ (i = Len(readers) => ~awaiting) =>
            \/ d <= Len(callStack) /\ callStack[d].resultStorage = 0
            \/ i = Len(readers) /\ d = Len(callStack) + 1 /\ Len(stack) > Base

(* The interpreter keeps RoutineCalls' promise: no instruction, return,     *)
(* throw, timer routine or restored snapshot ever touches the values of an  *)
(* activation that is not executing.                                        *)
ImplementsRoutineCalls == Calls!Spec

(* Whatever a program does, a routine that is left leaves the stack as deep *)
(* as it was when the routine was entered, and its result at most on top    *)
(* ("the stack can be deeper than it was on entry, but not shallower").     *)
LeavesAtEntryDepth ==
    [][Len(callStack') < Len(callStack) /\ fault' = "none" =>
          LET left == callStack[Len(callStack') + 1]
          IN  Len(stack') = left.prevStackDepth +
                            IF left.resultStorage = 0 THEN 1 ELSE 0]_vars

(* A program that keeps to the Standard never ends in an exception. *)
NoFault == fault = "none"
=============================================================================
