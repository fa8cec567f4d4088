------------------------------ MODULE CodeCache ------------------------------
(* How the interpreter uses its LruCache: JitLoopAsync (and the debugger's  *)
(* OneStepAsync) looks up the fragment at pc and compiles it when it is not *)
(* there; Debug() empties the cache because what it holds was compiled      *)
(* without debugger checks; ClearCache() lets the front end do so, but only *)
(* while the machine waits for input, which BeginExternalWait and           *)
(* EndExternalWait keep track of.                                           *)
EXTENDS LruCache, SequencesExt

CONSTANTS
    Rom, Ram,      \* addresses of code: from RomStart on, and below
    Size,          \* Size[a]: number of instructions of the fragment at a
    MaxWaits       \* bound: input instructions that wait at once

ASSUME CodeAssumption == Rom \cap Ram = {} /\ Size \in [Rom \cup Ram -> Nat \ {0}]
ASSUME KeyAssumption == Key = Rom /\ Value = [start : Rom \cup Ram, checks : BOOLEAN]
ASSUME BoundAssumption == MaxWaits \in Nat

VARIABLES
    debugging,
    clearable,
    waits,         \* input instructions under way
    executing,     \* is code being executed, or is the last of them waiting?
    current,       \* the fragment that was executed last
    recency        \* history: the cached addresses and those evicted since
                   \* they were last used, in the order of use, latest first

vars == <<cacheVars, debugging, clearable, waits, executing, current, recency>>

Compiled(a) == [start |-> a, checks |-> debugging]
Nothing == [start |-> 0, checks |-> FALSE]

Init == /\ CacheInit
        /\ debugging \in BOOLEAN
        /\ clearable = FALSE
        /\ waits = 0
        /\ executing = TRUE
        /\ current = Nothing
        /\ recency = <<>>

Used(a) == <<a>> \o RemoveFirst(recency, a)

(* Only code that the program cannot change is cached: pc >= RomStart. *)
Cacheable_Everything(a) == TRUE
Cacheable(a) == a \in Rom

(* One turn of JitLoopAsync. *)
Execute(a) ==
    /\ executing
    /\ \/ /\ ~Cacheable(a)
          /\ current' = Compiled(a)
          /\ UNCHANGED <<cacheVars, recency>>
       \/ /\ Cacheable(a) /\ a \in Cached
          /\ current' = dict[a].value
          /\ Touch(a)
          /\ recency' = Used(a)
       \/ /\ Cacheable(a) /\ a \notin Cached
          /\ current' = Compiled(a)
          /\ Add(a, Compiled(a), Size[a])
          /\ recency' = Used(a)
    /\ UNCHANGED <<debugging, clearable, waits, executing>>

(* ReadImplAsync, ReadCharImplAsync, SaveQuetzalAsync: BeginExternalWait. *)
BeginWait == /\ executing
             /\ waits < MaxWaits
             /\ waits' = waits + 1
             /\ clearable' = TRUE
             /\ executing' = FALSE
             /\ UNCHANGED <<cacheVars, debugging, current, recency>>

(* EndExternalWait. *)
EndWait == /\ waits > 0 /\ ~executing
           /\ waits' = waits - 1
           /\ clearable' = FALSE
           /\ executing' = TRUE
           /\ UNCHANGED <<cacheVars, debugging, current, recency>>

(* HandleInputTimerAsync: the nested JitLoopAsync begins, and ends. *)
TimerFires == /\ waits > 0 /\ ~executing
              /\ executing' = TRUE
              /\ UNCHANGED <<cacheVars, debugging, clearable, waits, current, recency>>

TimerRoutineDone == /\ waits > 0 /\ executing
                    /\ executing' = FALSE
                    /\ UNCHANGED <<cacheVars, debugging, clearable, waits, current, recency>>

ClearCache == /\ clearable
              /\ Clear
              /\ recency' = <<>>
              /\ UNCHANGED <<debugging, clearable, waits, executing, current>>

(* The debugger is attached while no fragment is being looked up. *)
Debug_KeepsCache == /\ debugging' = TRUE
                    /\ UNCHANGED <<cacheVars, clearable, waits, executing, current, recency>>
Debug == /\ debugging' = TRUE
         /\ Clear
         /\ recency' = <<>>
         /\ UNCHANGED <<clearable, waits, executing, current>>

Next == \/ \E a \in Rom \cup Ram : Execute(a)
        \/ BeginWait
        \/ EndWait
        \/ TimerFires
        \/ TimerRoutineDone
        \/ ClearCache
        \/ Debug

Spec == Init /\ [][Next]_vars

-----------------------------------------------------------------------------
(* Properties *)

TypeOK == /\ CacheTypeOK
          /\ debugging \in BOOLEAN /\ clearable \in BOOLEAN /\ executing \in BOOLEAN
          /\ waits \in 0..MaxWaits
          /\ current \in Value \cup {Nothing}

(* What is executed is the fragment at the address it was looked up for,    *)
(* and once the debugger is attached it has the debugger's checks.          *)
ExecutesWhatIsThere ==
    [][\A a \in Rom \cup Ram : Execute(a) => current' = Compiled(a)]_vars

Evicted == {a \in Cached : a \notin Cached'}
Before(a, b) == \E i, j \in 1..Len(recency) : i < j /\ recency[i] = a /\ recency[j] = b

SizeOf(as) ==
    LET sizes[S \in SUBSET as] ==
            IF S = {} THEN 0
            ELSE LET b == CHOOSE b \in S : TRUE IN Size[b] + sizes[S \ {b}]
    IN  sizes[as]

(* Making room for a fragment removes the least recently used ones, and not *)
(* one more than it takes: what was used no earlier than one that goes and  *)
(* the new fragment are too much for the cache together.                    *)
EvictsLeastRecent ==
    [][\A a \in Rom : Execute(a) =>
          \A gone \in Evicted :
              /\ \A kept \in Cached \ Evicted : Before(kept, gone)
              /\ SizeOf({b \in Cached : b = gone \/ Before(b, gone)}) + Size[a]
                    > MaxSize]_vars
=============================================================================
