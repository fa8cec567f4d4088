---------------------------- MODULE RoutineCalls ----------------------------
(* What the interpreter promises a Z-machine program about routine calls,   *)
(* and nothing about how it keeps that promise.  Every activation of a      *)
(* routine owns an evaluation stack and a set of local variables; what an   *)
(* instruction does is confined to the activation that executes it and to   *)
(* the global variables; leaving a routine, normally or by a throw, drops   *)
(* what it had and delivers one result to the activation it uncovers; a     *)
(* snapshot (undo slot or save file) is the whole of this and nothing less. *)
(*                                                                          *)
(* The actions are relations between two states, some of them not           *)
(* executable: the module is a PROPERTY of ZMachineCore, which keeps one    *)
(* flat stack for all activations (ZMachineCore!Calls).                     *)
EXTENDS Integers, Sequences

CONSTANTS
    Word,          \* the values of variables
    Global,        \* numbers of the global variables (16..255)
    Globals0,      \* their values in the story file
    Start,         \* where the main program starts
    MaxUndoDepth,  \* number of undo slots
    Dropped,       \* destination of an interrupt routine's result
    NoFile,        \* what the save file is before the first save
    BadFile        \* what it is when writing it failed half way

VARIABLES
    acts,          \* the activations, the main program first
    globals,
    pc,
    undo,          \* the undo slots, oldest first
    file           \* the save file

vars == <<acts, globals, pc, undo, file>>

Main == [returnPC |-> Start, stack |-> <<>>, locals |-> <<>>,
         argCount |-> 0, resultStorage |-> -1]

(* The activation that is executing, and those below the n-th one of as. *)
Current == acts[Len(acts)]
Under(as, n) == SubSeq(as, 1, n - 1)

(* as, with v delivered to variable dest of its last activation. *)
DeliveredTo(as, dest, v) ==
    IF dest = 0 THEN [as EXCEPT ![Len(as)].stack = Append(@, v)]
    ELSE IF dest \in 1..15 THEN [as EXCEPT ![Len(as)].locals[dest] = v]
    ELSE as

GlobalsWith(g, dest, v) ==
    IF dest \in Global THEN [g EXCEPT ![dest] = v] ELSE g

Init == /\ acts = <<Main>>
        /\ globals = Globals0
        /\ pc = Start
        /\ undo = <<>>
        /\ file = NoFile

(* An instruction works on the current activation and on the globals. *)
Work == /\ Len(acts') = Len(acts)
        /\ Under(acts', Len(acts)) = Under(acts, Len(acts))
        /\ acts'[Len(acts)] = [Current EXCEPT !.stack = Current'.stack,
                                              !.locals = Current'.locals]
        /\ UNCHANGED <<undo, file>>

(* A call or an interrupt: a new activation that owns nothing yet; what the *)
(* caller computed the arguments from is taken off the caller's stack.      *)
Enter == /\ Len(acts') = Len(acts) + 1
         /\ Under(acts', Len(acts)) = Under(acts, Len(acts))
         /\ acts'[Len(acts)] =
                [Current EXCEPT !.stack = acts'[Len(acts)].stack]
         /\ \E n \in 0..Len(Current.stack) :
                acts'[Len(acts)].stack = SubSeq(Current.stack, 1, n)
         /\ Current'.stack = <<>>
         /\ UNCHANGED <<globals, undo, file>>

(* Leaving the n-th activation: a return when it is the current one, a      *)
(* throw when others above it go with it.                                   *)
Leave(n, v) ==
    /\ acts' = DeliveredTo(Under(acts, n), acts[n].resultStorage, v)
    /\ globals' = GlobalsWith(globals, acts[n].resultStorage, v)
    /\ pc' = acts[n].returnPC
    /\ UNCHANGED <<undo, file>>

Snapshot(dest) == [acts |-> acts, globals |-> globals, pc |-> pc', dest |-> dest]

(* What storing a result in variable dest does to the two parts of a state. *)
Store(dest, v) == /\ acts' = DeliveredTo(acts, dest, v)
                  /\ globals' = GlobalsWith(globals, dest, v)

(* The newest undo slot is filled, at the cost of the oldest if need be. *)
SaveUndo(dest) ==
    /\ MaxUndoDepth > 0
    /\ Store(dest, 1)
    /\ LET kept == IF Len(undo) < MaxUndoDepth THEN undo ELSE Tail(undo)
       IN  undo' = Append(kept, Snapshot(dest))
    /\ UNCHANGED file

RestoreUndo ==
    /\ undo # <<>>
    /\ LET s == undo[Len(undo)] IN
          /\ acts' = DeliveredTo(s.acts, s.dest, 2)
          /\ globals' = GlobalsWith(s.globals, s.dest, 2)
          /\ pc' = s.pc
    /\ undo' = SubSeq(undo, 1, Len(undo) - 1)
    /\ UNCHANGED file

Save(dest) == /\ \/ file' = Snapshot(dest) /\ Store(dest, 1)
                 \/ file' = BadFile /\ Store(dest, 0)
              /\ UNCHANGED undo

(* The result 1 of the restore instruction itself goes, like everything     *)
(* else, where the stack and the locals have gone; but in a global it is    *)
(* stored over what the file had there, a 2 included.                       *)
Restore(dest) ==
    /\ file \notin {NoFile, BadFile}
    /\ acts' = DeliveredTo(file.acts, file.dest, 2)
    /\ globals' = GlobalsWith(GlobalsWith(file.globals, file.dest, 2), dest, 1)
    /\ pc' = file.pc
    /\ UNCHANGED <<undo, file>>

Restart == /\ acts' = <<Main>>
           /\ globals' = Globals0
           /\ pc' = Start
           /\ undo' = <<>>
           /\ UNCHANGED file

Next == \/ Work
        \/ Enter
        \/ \E n \in 2..Len(acts), v \in Word : Leave(n, v)
        \/ \E dest \in 0..15 \cup Global : SaveUndo(dest) \/ Save(dest) \/ Restore(dest)
        \/ RestoreUndo
        \/ Restart

Spec == Init /\ [][Next]_vars
=============================================================================
