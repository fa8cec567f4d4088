----------------------------- MODULE Interpreter -----------------------------
(* What executing Z-code means: one instruction after the other, each at    *)
(* the address that the one before it leads to.  The routines that calls    *)
(* enter are left out: a call leads to the instruction that follows it.     *)
EXTENDS Integers

CONSTANT Addr   \* the addresses of instructions

VARIABLES
    code,       \* code[a]: the instruction that starts at address a
    pc,
    running

vars == <<code, pc, running>>

After(a) == a + code[a].length

(* Where the instruction at a may lead. *)
Successors(a) ==
    CASE code[a].kind \in {"plain", "call", "computed jump", "auxiliary", "custom"} -> {After(a)}
      [] code[a].kind = "branch" -> {After(a), code[a].target}
      [] code[a].kind = "jump" -> {code[a].target}
      [] code[a].kind \in {"return", "throw", "return branch"} -> Addr

Execute == /\ running
           /\ code[pc].kind # "quit"
           /\ pc' \in Successors(pc)
           /\ UNCHANGED <<code, running>>

Quit == /\ running
        /\ code[pc].kind = "quit"
        /\ running' = FALSE
        /\ UNCHANGED code

Next == Execute \/ Quit

Init == running = TRUE /\ pc \in Addr

Spec == Init /\ [][Next]_vars
=============================================================================
