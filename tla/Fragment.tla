------------------------------ MODULE Fragment ------------------------------
(* The just-in-time compiler: CompileZCode turns the code that is reachable *)
(* from pc without leaving the routine into one .NET method, in three       *)
(* passes over the same dictionary of instructions, and JitLoopAsync runs   *)
(* it.  While it compiles, pc is the decoder's position; when the method    *)
(* starts, pc is the address after the instruction that was compiled last.  *)
(*                                                                          *)
(* Each step is one iteration of a loop of CompileZCode, or one item of the *)
(* generated code.  The code is any code: an instruction may even start in  *)
(* the middle of another one.                                               *)
EXTENDS Integers, Sequences

CONSTANTS
    LastAddr,   \* the bound of the code addresses, 0 to LastAddr
    Kinds,      \* the kinds of instructions that the program has, see AllKinds
    Debugging   \* does the compiled code ask the debugger?

(* "call" is every instruction that ends its fragment and leaves the address *)
(* that follows it in pc: calls, and the asynchronous instructions.  A       *)
(* "return branch" has the offset 0 or 1.  "auxiliary" is save or restore    *)
(* with operands, "custom" an extended instruction of number 29 or above.    *)
AllKinds == {"plain", "branch", "return branch", "jump", "computed jump",
             "call", "return", "throw", "quit", "auxiliary", "custom"}

ASSUME AddrAssumption == LastAddr \in Nat
ASSUME KindsAssumption == Kinds \subseteq AllKinds /\ Debugging \in BOOLEAN

VARIABLES
    code,       \* code[a]: the instruction that starts at address a
    phase,
    pc,
    running,
    start,      \* CompilationStart
    opcodes,    \* the instructions decoded so far, by address
    todoList,
    lastOp,
    node,
    todoNodes,
    emitted,    \* what pass 3 has taken out of opcodes again
    needRet,
    il,         \* the generated code
    ip          \* the place in it that is executed next

vars == <<code, phase, pc, running, start, opcodes, todoList, lastOp, node,
          todoNodes, emitted, needRet, il, ip>>

Addr == 0..LastAddr
None == -1

Terminators == {"jump", "computed jump", "call", "return", "throw", "quit", "auxiliary"}

Instruction == [kind : Kinds, length : 1..2, target : Addr]

(* Instructions that can stand at address a: control stays in the bounds,   *)
(* and only lengths and targets that make a difference are told apart.      *)
FallsThrough(instr) == instr.kind \notin {"jump", "return", "throw", "quit"}
StandsAt(instr, a) ==
    /\ FallsThrough(instr) => a + instr.length \in Addr
    /\ instr.kind # "plain" => instr.length = 1
    /\ instr.kind \notin {"branch", "jump"} => instr.target = 0
Programs == {p \in [Addr -> {i \in Instruction : \E a \in Addr : StandsAt(i, a)}] :
                \A a \in Addr : StandsAt(p[a], a)}

IsTerminator_AllButThrow(a) == code[a].kind \in Terminators \ {"throw"}
IsTerminator(a) == code[a].kind \in Terminators
IsBranch(a) == code[a].kind = "branch"
IsUnconditionalJump(a) == code[a].kind = "jump"
HasTarget(a) == IsBranch(a) \/ IsUnconditionalJump(a)

Init == /\ code \in Programs
        /\ phase = "decode"
        /\ pc \in Addr
        /\ running = TRUE
        /\ start = pc
        /\ opcodes = <<>>
        /\ todoList = <<>>
        /\ lastOp = None
        /\ node = None
        /\ todoNodes = <<>>
        /\ emitted = {}
        /\ needRet = FALSE
        /\ il = <<>>
        /\ ip = 0

-----------------------------------------------------------------------------
(* Pass 1: chains of instructions *)

Known(a) == a \in DOMAIN opcodes

(* opcodes, with the instruction at a following the last one. *)
Linked_AfterTheLastOneIsSet(ops, a) == [ops EXCEPT ![a].next = a]
Linked(ops, a) ==
    IF lastOp = None THEN ops ELSE [ops EXCEPT ![lastOp].next = a]

WithNode(a) ==
    [b \in DOMAIN opcodes \cup {a} |->
        IF b = a THEN [next |-> None, target |-> None] ELSE opcodes[b]]

(* The chain goes on at a, unless this iteration ended it: then with the    *)
(* next address that is still to do, or, if there is none, with pass 2.     *)
GoesOnAt(a, last, ended, todo) ==
    \/ /\ ~ended
       /\ pc' = a
       /\ lastOp' = last
       /\ todoList' = todo
       /\ UNCHANGED <<phase, node>>
    \/ /\ ended /\ todo # <<>>
       /\ pc' = Head(todo)
       /\ lastOp' = None
       /\ todoList' = Tail(todo)
       /\ UNCHANGED <<phase, node>>
    \/ /\ ended /\ todo = <<>>
       /\ pc' = a
       /\ lastOp' = None
       /\ todoList' = <<>>
       /\ phase' = "tie"
       /\ node' = start

LoopBack ==
    /\ phase = "decode"
    /\ Known(pc)
    /\ opcodes' = Linked(opcodes, pc)
    /\ GoesOnAt(pc, lastOp, TRUE, todoList)
    /\ UNCHANGED <<code, running, start, todoNodes, emitted, needRet, il, ip>>

Decode ==
    /\ phase = "decode"
    /\ ~Known(pc)
    /\ code[pc].kind # "custom"
    /\ opcodes' = Linked(WithNode(pc), pc)
    /\ LET target == code[pc].target
           todo == IF HasTarget(pc) /\ target \notin DOMAIN opcodes \cup {pc}
                   THEN Append(todoList, target) ELSE todoList
       IN  GoesOnAt(pc + code[pc].length, pc, IsTerminator(pc), todo)
    /\ UNCHANGED <<code, running, start, todoNodes, emitted, needRet, il, ip>>

(* FindOpcodeInfo finds nothing for an extended instruction of number 29 or *)
(* above, and DecodeOneOp goes on to look at what was not found.            *)
DecodeCustom ==
    /\ phase = "decode"
    /\ ~Known(pc)
    /\ code[pc].kind = "custom"
    /\ phase' = "exception"
    /\ UNCHANGED <<code, pc, running, start, opcodes, todoList, lastOp, node,
                   todoNodes, emitted, needRet, il, ip>>

-----------------------------------------------------------------------------
(* Pass 2: the targets *)

Target(a) == IF HasTarget(a) /\ Known(code[a].target) THEN code[a].target ELSE None

Tie ==
    /\ phase = "tie" /\ node # None
    /\ LET target == IF opcodes[node].target = None THEN Target(node) ELSE None
           todo == IF target = None THEN todoNodes ELSE Append(todoNodes, target)
           next == opcodes[node].next
       IN  /\ opcodes' = IF target = None THEN opcodes
                         ELSE [opcodes EXCEPT ![node].target = target]
           /\ \/ /\ next = None /\ todo # <<>>
                 /\ node' = Head(todo)
                 /\ todoNodes' = Tail(todo)
              \/ /\ next # None \/ todo = <<>>
                 /\ node' = next
                 /\ todoNodes' = todo
    /\ UNCHANGED <<code, phase, pc, running, start, todoList, lastOp, emitted,
                   needRet, il, ip>>

TieDone ==
    /\ phase = "tie" /\ node = None
    /\ phase' = "emit"
    /\ node' = start
    /\ UNCHANGED <<code, pc, running, start, opcodes, todoList, lastOp,
                   todoNodes, emitted, needRet, il, ip>>

-----------------------------------------------------------------------------
(* Pass 3: the generated code.  The label, the debugger's check and the     *)
(* body of an instruction are one item.                                     *)

Item(op, a) == [op |-> op, at |-> a, pc |-> None, target |-> None]
CodeOf(a) == [op |-> "code", at |-> a, pc |-> a + code[a].length,
              target |-> opcodes[a].target]

(* What Opcode.Compile returns: may the code that follows be generated? *)
KeepsCompiling(a) ==
    \/ code[a].kind \in {"plain", "return branch", "throw", "auxiliary"}
    \/ HasTarget(a) /\ opcodes[a].target # None

(* The targets that code must still be generated for. *)
TodoAfter_JumpsOnly(a) ==
    IF IsUnconditionalJump(a) THEN Append(todoNodes, opcodes[a].target) ELSE todoNodes
TodoAfter(a) ==
    IF opcodes[a].target # None THEN Append(todoNodes, opcodes[a].target) ELSE todoNodes

Ret_Never == <<>>
Ret == IF needRet THEN <<Item("ret", None)>> ELSE <<>>

(* The next node to generate code for, a todo node when this chain ends. *)
MovesOn(keeps, todo, ret) ==
    LET next == opcodes[node].next
    IN  \/ /\ next = None \/ ~keeps
           /\ todo # <<>>
           /\ node' = Head(todo)
           /\ todoNodes' = Tail(todo)
           /\ lastOp' = None
           /\ needRet' = TRUE
        \/ /\ (next # None /\ keeps) \/ todo = <<>>
           /\ node' = IF keeps THEN next ELSE None
           /\ todoNodes' = todo
           /\ lastOp' = node
           /\ needRet' = ret

Emit ==
    /\ phase = "emit" /\ node # None
    /\ node \notin emitted
    /\ emitted' = emitted \cup {node}
    /\ il' = il \o Ret \o <<CodeOf(node)>>
    /\ pc' = node + code[node].length
    /\ MovesOn(KeepsCompiling(node), TodoAfter(node), FALSE)
    /\ UNCHANGED <<code, phase, running, start, opcodes, todoList, ip>>

(* Control that falls through into generated code has to jump to it. *)
EmitAgain ==
    /\ phase = "emit" /\ node # None
    /\ node \in emitted
    /\ \/ /\ lastOp # None
          /\ il' = il \o Ret \o <<Item("br", node)>>
          /\ MovesOn(FALSE, todoNodes, FALSE)
       \/ /\ lastOp = None
          /\ UNCHANGED il
          /\ MovesOn(FALSE, todoNodes, needRet)
    /\ UNCHANGED <<code, phase, pc, running, start, opcodes, todoList, emitted, ip>>

(* The last Ret; JitLoopAsync then sets pc, which it has been left at.      *)
EmitDone ==
    /\ phase = "emit" /\ node = None
    /\ il' = Append(il, Item("ret", None))
    /\ phase' = "run"
    /\ ip' = 1
    /\ opcodes' = <<>>
    /\ lastOp' = None
    /\ emitted' = {}
    /\ needRet' = FALSE
    /\ UNCHANGED <<code, pc, running, start, todoList, node, todoNodes>>

-----------------------------------------------------------------------------
(* The generated code *)

Label(a) == CHOOSE i \in 1..Len(il) : il[i].op = "code" /\ il[i].at = a

(* The method returns, and JitLoopAsync goes on at pc. *)
Returns == /\ ip' = 0
           /\ il' = <<>>
           /\ UNCHANGED running

FallsToNext == ip' = ip + 1 /\ UNCHANGED <<pc, il, running>>

(* A branch is taken or not, as its operands have it. *)
Branches(item) == ip' = Label(item.target) /\ UNCHANGED <<pc, il, running>>

(* LeaveFunctionImpl sets pc to wherever the routine was called from. *)
LeavesRoutine == pc' \in Addr /\ Returns

(* Entering a routine gives it the address to come back to; an input        *)
(* instruction sets pc to it.                                               *)
GoesOnAfterwards(item) == pc' = item.pc /\ Returns

(* The operand of a computed jump, 2, is added to the end of the            *)
(* instruction as it is when the code is generated, less 2.                 *)
JumpsByOperand(item) == /\ pc' = item.pc
                        /\ ip' = ip + 1
                        /\ UNCHANGED <<il, running>>

Throws == /\ pc' \in Addr
          /\ ip' = ip + 1
          /\ UNCHANGED <<il, running>>

Quits == /\ running' = FALSE
         /\ ip' = ip + 1
         /\ UNCHANGED <<pc, il>>

Body(item) ==
    LET kind == code[item.at].kind IN
    \/ kind \in {"plain", "branch", "return branch", "auxiliary"} /\ FallsToNext
    \/ kind \in {"branch", "jump"} /\ Branches(item)
    \/ kind \in {"return", "return branch"} /\ LeavesRoutine
    \/ kind = "call" /\ GoesOnAfterwards(item)
    \/ kind = "computed jump" /\ JumpsByOperand(item)
    \/ kind = "throw" /\ Throws
    \/ kind = "quit" /\ Quits

InMethod == phase = "run" /\ ip # 0

RunCode == /\ InMethod /\ il[ip].op = "code"
           /\ Body(il[ip])
           /\ UNCHANGED <<code, phase, start, opcodes, todoList, lastOp, node,
                          todoNodes, emitted, needRet>>

(* DebugCheck says stop: it has put the instruction's address in pc. *)
Break == /\ InMethod /\ il[ip].op = "code" /\ Debugging
         /\ pc' = il[ip].at
         /\ Returns
         /\ UNCHANGED <<code, phase, start, opcodes, todoList, lastOp, node,
                        todoNodes, emitted, needRet>>

RunBr == /\ InMethod /\ il[ip].op = "br"
         /\ ip' = Label(il[ip].at)
         /\ UNCHANGED <<code, phase, pc, running, start, opcodes, todoList, lastOp,
                        node, todoNodes, emitted, needRet, il>>

RunRet == /\ InMethod /\ il[ip].op = "ret"
          /\ Returns
          /\ UNCHANGED <<code, phase, pc, start, opcodes, todoList, lastOp, node,
                         todoNodes, emitted, needRet>>

(* The next iteration of JitLoopAsync. *)
Compile == /\ phase = "run" /\ ip = 0 /\ running
           /\ phase' = "decode"
           /\ start' = pc
           /\ UNCHANGED <<code, pc, running, opcodes, todoList, lastOp, node,
                          todoNodes, emitted, needRet, il, ip>>

Next == \/ LoopBack \/ Decode \/ DecodeCustom
        \/ Tie \/ TieDone
        \/ Emit \/ EmitAgain \/ EmitDone
        \/ RunCode \/ Break \/ RunBr \/ RunRet \/ Compile

Spec == Init /\ [][Next]_vars

CompileStep == LoopBack \/ Decode \/ DecodeCustom \/ Tie \/ TieDone
                   \/ Emit \/ EmitAgain \/ EmitDone

FairSpec == Spec /\ WF_vars(CompileStep)

-----------------------------------------------------------------------------
(* Properties *)

(* The address of the instruction that is executed next. *)
NextPC == IF phase # "run" THEN start
          ELSE IF ip = 0 \/ il[ip].op = "ret" THEN pc
          ELSE il[ip].at

Program == INSTANCE Interpreter WITH pc <- NextPC

(* Every variable has the shape of the code's, and the decoder stays in it. *)
Node == [next : Addr \cup {None}, target : Addr \cup {None}]
ItemType == [op : {"code", "br", "ret"}, at : Addr \cup {None},
             pc : 0..(LastAddr + 2) \cup {None}, target : Addr \cup {None}]
TypeOK ==
    /\ phase \in {"decode", "tie", "emit", "run", "exception"}
    /\ pc \in IF phase = "decode" THEN Addr ELSE 0..(LastAddr + 2)
    /\ running \in BOOLEAN
    /\ start \in Addr
    /\ DOMAIN opcodes \subseteq Addr
    /\ \A a \in DOMAIN opcodes : opcodes[a] \in Node
    /\ todoList \in Seq(Addr) /\ todoNodes \in Seq(Addr)
    /\ lastOp \in Addr \cup {None} /\ node \in Addr \cup {None}
    /\ emitted \subseteq Addr
    /\ needRet \in BOOLEAN
    /\ il \in Seq(ItemType)
    /\ ip \in 0..Len(il)

(* Running the generated code, fragment after fragment, with whatever       *)
(* instruction came last in each and wherever the debugger breaks in, is    *)
(* executing the program: JitLoopAsync and CompileZCode.                    *)
RunsTheProgram == Program!Spec

(* Whatever generated code jumps to has been generated, and once: without   *)
(* its label, or with two of them, CreateDelegate would throw.              *)
Labels(a) == {i \in 1..Len(il) : il[i].op = "code" /\ il[i].at = a}
LabelsAreMarkedOnce ==
    phase = "run" =>
        \A i \in 1..Len(il) :
            /\ il[i].op = "br" \/ (il[i].op = "code" /\ HasTarget(il[i].at)) =>
                   \E j \in 1..Len(il) :
                       Labels(IF il[i].op = "br" THEN il[i].at ELSE il[i].target) = {j}
            /\ il[i].op = "code" => Labels(il[i].at) = {i}

(* The three passes come to an end, whatever loops the code has. *)
CompilationEnds == phase = "decode" ~> phase \in {"run", "exception"}
=============================================================================
