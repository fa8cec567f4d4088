# TLA+ models of ZLR

ZLR is a Z-machine interpreter in C#: it compiles the Z-code of a story file, a
fragment at a time, into .NET methods and runs them. This directory holds TLA+
modules that model its core, TLC configurations that check the models on small
instances, and proofs, checked by TLAPS, of theorems about them.

## The system

| Part | Source | State | Operations |
|---|---|---|---|
| Engine | `ZLR.VM/ZMachine.cs`, `Opcodes*.cs`, `Opcodes_Impl.cs` | `pc`, `stack`, `callStack` (`TopFrame`), `zmem`, `undoStates`, `running` | one per opcode; `RunAsync`, `Reset`, `JitLoopAsync` |
| Compiler | `ZMachine.CompileZCode`, `Opcodes.cs` | `pc` (as a decoder's position), `il`, `compiling`, the node graph | compile the fragment at `pc` |
| Code cache | `LruCache.cs`, `ZMachine.cs` | `dict`, `llist`, `CurrentSize`, `clearable` | look up, add, clear |
| Input | `Input.cs` | `cmdRdr`, `cmdWtr`, the waiting read and its timer | read a line or key, timed or not; tokenise; command files |
| Output | `Output.cs` | stream flags, `tableOutputStack`, header bits | select streams, print, sounds |
| Saved games | `Quetzal.cs`, `IFF.cs` | a file | save, restore |
| Object table | `Objects.cs` | bytes of `zmem` | insert, remove, attributes, properties |
| Memory traps | `ZMachine.MemoryTraps` | ranges with handlers | reload the alphabet, the terminating characters |
| Debugger | `Debugging/Debugger.cs` | `stepping`, `breakpoints`, `debugState`, interrupt source, `whenStopped` | step, run, pause, call, restart |
| Debugger console | `ConsoleZLR/Debugger/DebuggingConsole.cs` | a queue between two tasks | one per command |
| I/O filters | `IOFilters/*.cs` | a saved stream at most | decorate the I/O interface |
| Front ends | `ConsoleZLR`, `Demona/Source` | windows, history | the I/O interface |
| Debug information | `Debugging/DebugInfo.cs` | tables | lookups |

The engine calls the front end through `IAsyncZMachineIO`; a front end's timer
makes the engine run code again *within* the input instruction
(`HandleInputTimerAsync` calls `JitLoopAsync` inside `ReadImplAsync`). The
debugger drives the engine through `OneStepAsync` instead of `JitLoopAsync`,
compiled code asks it before every instruction (`DebugCheck`), and its console
has two tasks that share the debugger: one executes commands, the other handles
`!pause` while a command is under way.

What is hard in this code:

* all routines share one evaluation stack, and only a depth in each call frame
  says whose words are whose; returns, throws, timer routines, undo and restore
  all depend on those depths;
* the interpreter is re-entered, to any nesting, by timer routines that may
  themselves read, save, restart or quit;
* a saved state is a copy of four data structures of one moment;
* pauses arrive at any moment of a step, a run or an input;
* the cache keeps one set in two data structures; the object table keeps one
  forest in three fields of every object;
* a timer may go off, or its routine still run, when the player's answer comes;
  a recorded line may still be on its way to the file when the next one is read;
* Flags 2, the character tables and the separators exist twice, in the memory
  that programs write and in the interpreter, and are kept in agreement by hand.

`PROJECT.json` lists each hazard with its line and the properties that cover it.

## The modules

### Routine calls: `RoutineCalls`, `ZMachineCore`, `ZMachineCore_proofs`

`RoutineCalls` states what a program is promised: every activation owns a stack
and locals of its own, an instruction touches those of the current activation
and the globals only, leaving delivers one result to the activation below, and
a snapshot is the whole state.

`ZMachineCore` is the code: `stack` and `callStack` are the fields of
`ZMachine`, `globals` the words of `zmem` that the property tells apart,
`readers` the input instructions under way (each with the `initialCallDepth` of
the loop that runs its timer routine). One action per family of instructions:
`Compute` (anything that computes a word), `Assign` and `Increment` (the
instructions that replace a variable, the top of the stack included), `Call`,
`Return`, `Catch`, `ThrowImpl`, `SaveUndo`, `RestoreUndo`, `Save`, `Restore`,
`Restart`, `Quit`, and for timed input `Read`, `TimerFires`,
`TimerRoutineDone`, `ReadDone`. The program is arbitrary: an action takes its
operands, destination and next address from small sets. Two things are taken
from the Z-machine Standard rather than from the code, which does not check
them: a routine takes from the stack only what it has pushed (`CanPop`), and an
interrupt routine does not save, restore, restart or throw past itself
(`Uninterrupted`). The family `illegal` lifts both, and `timed quit` lets a
timer routine quit.

Restoring distinguishes where the instruction's own result goes: compiled code
holds the old stack and locals, so a result for them is lost with them, while a
global is written in the restored memory, over what the file has there.
`RoutineCalls!Restore` states both, since a program may use either: the promise is
the code's, and a game that names one global in both instructions finds 1 in it.

The refinement mapping (`Activations`) cuts the flat stack at the depths of the
frames; the result that a timer routine leaves until it is popped is not part of
anybody's stack.

### The debugger: `Debugger`, `Debugger_proofs`

The machine is reduced to `pc`, the call depth and `running`. `op` and `at` are
the command that the consumer task carries out and its place in `Step`,
`RunAsync` or `CallAsync`; `cancelled` says whether the current interrupt source is
cancelled, and `linked` whether the machine's `interruptToken` is a token of that
source: before the first step or run it is not, so that a call does not see a pause.
`whenStopped` is the event that `PauseAsync` waits for, `pauser` the producer task.
Resetting the event and creating the source are two steps, because the other
task may act between them. An instruction is one action after its check
(`Breaks` is `DebugCheck`'s answer); a fragment may end after any instruction.
`executed` counts the instructions of a command, to state the properties: none, the
first, and then 2 and 3 in turn, so that every instruction changes it.

### The code cache: `LruCache`, `CodeCache`, `CodeCache_proofs`

`LruCache` has the dictionary, the list and the size as three variables;
`CodeCache` adds the use that `JitLoopAsync` and the debugger make of it. An
address stands for the fragment that starts there, and `checks` for whether it
was compiled with the debugger's checks. `recency` is history: the order of use,
that the list must follow.

### The object tree: `ObjectForest`, `ObjectTree`, `GameState_proofs`

`ObjectTree` has `parent`, `sibling` and `child` of every object and the local
variables of `InsertObject`, one action per branch and loop iteration;
`op_remove_obj` is an insertion in 0. `ObjectForest` has, for every object, the
sequence of its children. Nothing in the code refuses to insert an object in
itself or in its descendants, so both modules include it.

### The compiler: `Interpreter`, `Fragment`, `Fragment_proofs`

`Interpreter` is what executing Z-code means: one instruction after the other,
each at the address the one before leads to. `Fragment` is `CompileZCode` and
the loop of `JitLoopAsync`: its three passes over one dictionary of nodes
(`opcodes`, with `todoList`, `todoNodes`, `lastOp`, `needRet` under their names
in the code), one action per iteration of each loop, then the generated code
`il`, one action per item of it. The code itself is any assignment of kinds,
lengths and targets to addresses, chosen in `Init`. `pc` is one variable, as in
the code: the decoder's position while compiling, the end of the instruction
compiled last when the fragment starts, and then what the instructions make it.
The mapping to `Interpreter` is `NextPC`: the address of the instruction that is
executed next. The kind `auxiliary` (save and restore with operands) is in the
module and not in the run: such an instruction ends its fragment without setting
`pc`, so that with code after it the program goes on at the wrong address, and
save leaves a value on the .NET stack, about which the source says nothing more.

### Saved games: `QuetzalFormat`, `SavedGames`, `GameState_proofs`

`QuetzalFormat` has the format byte by byte: run-length coded differences
(`CompressRAM`, `UncompressRAM`), frames with their parts of the flat stack
(`SerializeStacks`, `DeserializeStacks`), `IFhd`, and the container with its
lengths and padding. It works on bytes because what can go wrong does: run
lengths at 256, two's complement words, a truncated file, a length that the
reader takes for negative or that overflows when 8 is added to it. Each reader and
writer is a function of the place in the bytes. `SavedGames` saves
and restores a machine (memory, stack, frames, `pc`) in any order with other
play, with a stream that may fail after any number of bytes, as a result of the write
(`SaveFails`) or when it is closed, which nothing catches (`SaveThrows`). `saved` is
history: the machine that the file holds, if it holds one, at the place that the file
names, where the save instruction has its branch (up to Version 3) or the number of
its variable. Where `ZMachineCore` takes a file for a snapshot, these modules show that
it is one. A restore that succeeds is followed by its own result's store, which is part
of `ZMachineCore!Restore`.

`Restores` has what `RestoreQuetzal` does after the chunks are verified: memory, stack,
frames and `pc` are replaced, the byte at the saved place is read, the branch is taken
or 2 is stored, and the header's fields are reset, which reads the tables again. Each
of these may throw, and the `catch` at `Quetzal.cs:153` then answers false with what was
replaced so far (`CanGoOn`, `Stranded`, `Continued`). No file is excluded from it.

`version` is the story's, one of `Versions`: up to Version 3 save branches, later it
stores its result. The constants are what the format can say. Static memory starts at an address of 16
bits (`StoryAssumption`), and what is above it, `HighMemory`, never changes. The globals
lie in dynamic memory behind the header (`MemoryAssumption`). A machine of `Machines` is
`Savable`: the depths of its frames lie above one another, a routine has up to 15
locals, and a frame's part of the stack, whose length is written in two bytes, fewer
than 2^16 words. `Sites` are the addresses of the story's save instructions, above
dynamic memory and below 2^24; their branch or variable follows the opcode in memory,
and no branch has the offset 0 or 1 (`SitesAssumption`). A routine saves where it has
the variable (`Saves`). Of other files nothing is assumed but that they are bytes.
The header's addresses (of the globals, of static memory) are taken to be the story's
in every file, and `LoadsTables` says of which memories the tables can be read.

### Input: `CommandFile`, `Words`, `GameInput`, `GameInput_proofs`

`CommandFile` is the format in which inputs are recorded, with writer and reader
character by character, because lines and keys may look like its own notation.
`Words` is tokenising, the encoding of words and the binary search, and what they
are to compute: maximal tokens, and the entries that agree with the first
Z-characters. A word is its sequence of Z-characters; the code packs three of them
in two bytes, in order, with the mark of the end at a fixed place, so that the
bytes compare as the Z-characters do.

`GameInput` is the instructions: `ReadImplAsync` and `ReadCharImplAsync` from
`AskPlayer` to `FinishLine` and `FinishKey`, or at once from a file (`ReadLineFromFile`,
`ReadKeyFromFile`). `reads` is the reads under way, an outer one in whose timer routine
the next one executes; each has `readTask` and `delayTask` as `task` and `timer`, and in
`picked` what `Task.WhenAny` found complete: tasks complete at any time, in particular
while a routine runs, and `NextPick` is the order in which `WhenAny` looks at them.
`writing` is the write that nobody awaits. A program is what its instructions use, with
any first bytes of its two buffers; the engine's other instructions, which a routine may
execute, are in `ZMachineCore`. The limit of a line is computed in a byte
(`MaxLetters`), and so is a token's place in the parse table (`Position`); behind the
text buffer memory holds 1s, so that a 0 written there shows.

### Output, header and memory traps: `OutputStreams`, `OutputStreams_proofs`

Memory is the bytes around Flags 2, the end of the header and a stretch of dynamic
and static memory, with the tables of extra characters, terminating characters and
separators in it. `tables` is `tableOutputStack`, `traps` the three lists of
`MemoryTraps` with `firstAddress` and `lastAddress`, and `loaded` the fields that
the handlers fill. `Handle` walks the list by index while the handlers remove and
add entries, as in the code. `screen` and `transcript` are the character that the
last instruction gave to the I/O module, which may refuse to transcribe. `meant` is
history: what was printed to each open table, a character as all the codes that
mean it. `storew` and `storeb` are modelled with their checked variants; the
unchecked ones, which the compiler takes when it knows the address, are used only
where the check would pass. `copy_table` is as the code has it: nothing keeps it from
the header or from static memory (`HasSpan` is all of memory), and with 0 for a
destination it clears the source, with traps where the 0 is a constant (`ZeroMemory`)
and without where it is a variable. A bound, `CopyAssumption`, keeps its copies in the
stretch of memory that is modelled or beyond the end, and off the header word that is
`RomStart`.

## The runs

| Run | Module | Bounds | Shows |
|---|---|---|---|
| `core_calls` | `MCZMachineCore` | 1 routine with 1 argument, depth 2, 2 words, 2 nested reads, 2 addresses | calls, returns, throws and timer routines refine `RoutineCalls`; the frames cut the stack; lawful programs do not fault; a timer routine's result is what is popped |
| `core_undo` | `MCZMachineCore` | 2 undo slots, depth 1, 1 word, one local and one global | undo and restart refine it too, the global included |
| `core_save` | `MCZMachineCore` | one global, depth 1, 1 word | storing in place, save, restore, restart and quit do |
| `core_illegal` | `MCZMachineCore` | depth 2, 2 words, 1 read | programs that keep to no rule leave routines at the depth of their entry |
| `debug` | `Debugger` | 2 addresses, depth 2 | breakpoints, steps, reported states, pauses, exceptions |
| `cache_lru` | `MCCodeCache` | 5 cacheable addresses of sizes 1 to 7, cache size 6 | the cache's two structures, its size, order and bound; what it executes |
| `fragments` | `Fragment` | every program of 4 addresses | the compiler ends, its labels are right, its code is the program |
| `saved_games` | `MCSavedGames` | Versions 3 and 5; 546 bytes of memory, 3 machines, 3 save instructions (a result on the stack, in a local, in a global; a branch that is short, backwards, far), 17 files of other origin, 10 places for a write to fail | whole files bring the machine back, those with no game change nothing, and the rest fail as the code has it |
| `object_tree` | `MCObjectTree` | 4 objects | the links, the forest, the end of the walk |
| `input` | `MCGameInput` | 11 programs; lines of up to 7 characters, and of up to 271 in two of them; 4 inputs; 2 nested reads | replaying, buffers, the parse table, answers against timers |
| `output` | `MCOutputStreams` | 6 programs; 5 or 6 instructions; 2 nested tables; 3 loaded tables, one of them up to and over the end of dynamic memory | memory tables, what stores change, Flags 2, reloading |

One run expects a violation, of what a comment promises: `debug_call` (an
interrupted call never comes back). `PROJECT.json` quotes the line.

Met while modelling, and followed by the models, but not checked as properties:

* Restoring: a restore may fail with the machine replaced, although the code announces
  to "verify everything first" (`Quetzal.cs:111`): the byte at the file's place, the
  variable that it names and the tables of the restored header are looked at only
  afterwards, and the answer false (`Quetzal.cs:153`) leaves the restored memory, stack
  and frames, and a place behind that byte (`WholeGamesComeBack` says so); the compiled
  restore stores its own result after the saved memory is
  in place, so that a global variable that both instructions name holds 1, not the
  2 by which a game tells that it was restored (`Opcodes_EXT.cs:104`; the models and
  the theorem have it so); a Version 3
  game takes the branch offsets 0 and 1 for distances (`Quetzal.cs:141`); a restore
  takes the synchronous `OpenRestoreFile`, which `InternalSaveFilter` does not
  override.
* Debugger: `RunAsync` leaves a breakpoint with a step and then sets `running`
  whatever that step ended with, so that a program that quit in it is executed
  further (`Debugger.cs:428`); nothing assigns `DebuggerState.PausedByError`, so
  that a program that ended with an exception is still `Running`; the cache may be
  cleared while a timer routine runs (`ZMachine.cs:539`).
* Compiler: extended instructions of number 29 and above end in a null reference
  and are not skipped (`ZMachine.cs:1004`).
* Input: up to Version 4 a text buffer whose first byte is 0 takes 255 letters and a
  zero, because the limit is computed in a byte (`Input.cs:23`; `StaysInBuffers` says
  so in `Room`); the place of a word is stored in a byte, so that 256 becomes 0
  (`Input.cs:425`); a timer routine's true does not end the input (`Output.cs:188` says it
  does); the length of a Version 5 line is stored unclamped, and tokenising reads
  on behind the buffer; the loop over an unsorted dictionary is never entered
  (`Input.cs:469`; the comment there announces a linear search); the write of a
  recorded line is not awaited, so that the next line may be dropped; where lines
  end in CR LF a recorded Enter key is read back as two inputs (the run's lines end
  in LF); a pause during a timed read or a read of a key is an exception that no
  one takes for a pause, and the instruction is not executed again.
* Output: `storeb` to the lower byte of Flags 2 goes unnoticed, because the code
  looks for 0x10 (the comment at `ZMachine.cs:285` says lower byte); stream 2 leaves
  Flags 2 as they are; a second trap is ignored where one starts already, and the
  terminating characters' starts at the end of their table (`ZMachine.cs:1330`);
  adding a trap does not widen the range that `Handle` looks at, so that nothing is
  loaded again before the first restore or restart; text in memory tables,
  `encode_text`, a `copy_table` that clears with a variable 0 and writes to variables
  reach no trap; `copy_table` writes into the header and into static memory
  (`Opcodes_Impl.cs:440`), Flags 2 included, which then differ from the I/O module's
  state.

**Why the bounds are enough.** The properties of the stack relate a frame to the
one above it and to the stack: two frames and the main program, with words of
each, have every such pair. Words are told apart by 0, 1 and 2, the results of
the instructions that store one, so `WordSize` is 3. Two undo slots are the
fewest with an oldest, a newest and an overflow, and need only one activation above the
main program, with a local and a global that the slots bring back; two readers the fewest that
nest. In the debugger an address either has a breakpoint or not, so two addresses
give every pattern of crossing, by any number of instructions; depth 2 is needed for a routine that a step up
leaves while a step over stays. In the cache the sizes make it evict none, one,
several or all, and one fragment is larger than the cache. Four addresses hold a
branch, both its arms and a place where they join, a loop with its exit, and an
instruction that starts within another. The memory of `saved_games` is longer than
the longest two runs, its machines have runs of 255 to 257 bytes, and its writes fail
in and at the end of every field of the container; the whole files of other origin name
every place where going on may fail: a local that is not there, the last byte of memory
and the first beyond it, the largest that three bytes can say, a dictionary beyond
memory. Four objects make lists of
three, whose middle element is removed. In `input` the lines are every text of up to
three characters out of a space, a separator and two letters, and longer ones that
overflow the text buffer, the parse buffer, a word or a Z-character's end; recorded
inputs are those that look like the file's notation, alone and in sequence; two
nested reads have every order of two timers and two answers. Two more programs have a
text buffer whose first byte is 0 (Version 3) and 255 (Version 5), and lines of 252 to 271 characters, so that a line is one letter below, at and above the limit of
255, and its word at the places 254 to 257. In `output` the tables
lie below, at and across the ends of dynamic memory and of each other, the stores at
both sides of each boundary, copies go into the header, across each end of dynamic
memory, beyond the end of memory and over themselves in both directions, and three traps are the code's number without the
alphabets'; `MaxTables` is 2 where the code has 16, one table inside another with the
refusal of a third. Deadlock is not checked in the `core` runs and in `fragments`,
whose programs quit or end in an exception, nor in `input` and `output`, whose
programs end with their bounds.

**Fairness.** `Debugger!FairSpec` assumes that the consumer's task goes on
(`Proceeds`: everything that waits for nobody), because the .NET scheduler runs
it; it does not assume that a player answers or types. `ObjectTree!FairSpec`
assumes that the loop of `InsertObject` goes on, and `Fragment!FairSpec` that the
compiler's loops do (`CompileStep`): each runs to its end in one thread.
`GameInput!FairSpec` assumes that a loop of `TimedReadAsync` that has found a
completed task goes on (weak fairness: it waits for nobody), and that a timer routine
that may return again and again does (strong fairness: it may ask the player for
something in between); it assumes nothing of timers, players or files. All other
properties are safety.

## The proofs

Theorems hold for every value of the constants that the modules' assumptions
admit. Besides those on versions, sizes, alphabets and programs there are three on
bounds: `MaxWaits` of `CodeCache` is a natural number, `MaxText` of `GameInput` at
least 1, so that the text buffer has its first two bytes, and the copies of
`OutputStreams` stay in the memory that is modelled or go beyond its end
(`CopyAssumption`); and in `OutputStreams` static memory starts at an address of two
bytes, as the header word that says where it starts must.

`Induction` is what the other modules share. An operator cannot be a parameter of a
fact that the provers use, so induction is stated of a set: `InductionOnNat`,
`InductionUpTo` and `InductionDown` say that a set of numbers that holds one end and
is closed under steps holds all, and a leaf cites them with the set of the numbers for
which the claim is true. In the same way `RecursionExists` and `JumpsExist` give a
recursive function its defining equation, which is first shown of an explicit one
(the least relation closed under its steps), and `SameRecursion` and `SameSetRecursion`
that two functions with one equation are one. Sums, folds, numbers in decimal and the
tokens of a line are reached with these.

`ZMachineCore_proofs`: `TypeCorrect`, then, for a program that keeps to the
Standard (`Lawful`: no `illegal`, no `timed quit`), `StackIsDisciplined`,
`LawfulProgramsDoNotFault` and `TimerResultIsPopped`. They come from one
inductive invariant, `SafeInv`. `StackDiscipline` is not inductive: a return
trims the stack to the depth of the frame that it leaves, which is at least that
of the frame below only because depths grow with the frames; the loops of timer
routines matter because each frame that a loop waits for must deliver its result
to the stack, be distinct from those of the outer loops and be above them. The
invariant says so of the frames and the readers, of every undo slot and of the
save file. `RoutinesAlwaysLeaveAtEntryDepth` is about any program, illegal ones
included, as long as it takes no snapshots: a restored stack is that of another
moment, so that a step of it has no depth of entry to be compared with.

`RoutineCallsAreKept`, in the same module, is the refinement. Its lemmas say what
the cuts of the flat stack (`Activations`) become when a word is pushed or popped,
a frame is added, and one or several are removed; then each action, under
`SafeInv`, is one of `RoutineCalls` or stutters. Restore instructions may store
anywhere: what one does to a global that the save instruction names too is in
`RoutineCalls!Restore`.

`Fragment_proofs`: `CompiledCodeRunsTheProgram`, `LabelsAreAlwaysMarkedOnce` and
`CompilerIsTyped`, for a code of any length and any place of entry, without the
kind `auxiliary` (`NoAuxiliary`). `Inv` has one part for each pass. In pass 1 every
node but the last one is linked to the node after it, and every target is decoded
or still to do (`Chains`); so it ends with a closed graph. In pass 2 the nodes that
were visited lead only to each other and to what is still to do. In pass 3 every
item is followed by what it needs, or pass 3 still owes it: code that control falls
through by the code after it or a jump there, code that stays in the method with
nothing after it by a return (`Follows`, `Pending`). What is run is then `Complete`,
from which each step of it is a step of the program.

`Debugger_proofs`: `DebuggerTypeCorrect`; `BreakpointsAlwaysHold`,
`StepsAlwaysEndInPlace` and `StopIsAlwaysReported` from one invariant, `StepInv`,
which ties the step counter to the number of instructions executed (a counter
that is still to be used up belongs to a step that has executed nothing, `RunAsync`'s
own included, never to a call) and,
in `OutcomeIsOpen`, the debugger's state to the place of the command that is under
way. They hold with programs that end in exceptions too. `IdleIsAlwaysStopped`: the
event that a pause waits for is set whenever the console is idle; the invariant adds
that a command that evaluates never resets it, because such a command may end in an
exception that no `finally` clause follows.

`CodeCache_proofs`: `DictionaryAlwaysMirrorsList`, by lemmas on what `Add`,
`Clear` and `Touch` do to the list, and `AlwaysExecutesWhatIsThere`, whose
invariant is that whatever is cached was compiled for its key and in the present
mode of the debugger. `SizeIsAlwaysAccountedFor` carries the list's partial sums
(`SizeInv`): what remains after a removal from the end is one of them, and `CurrentSize`
with it. `AlwaysEvictsLeastRecent` needs in addition that the addresses of the list
stand in the history of uses in the same order (`UseInv`), and that the sizes of a set
of addresses may be added in any order. `CacheAlwaysTyped` is the type invariant.

`GameState_proofs`: `LinksAlwaysAgree` and `ListsAlwaysEnd`, from an invariant
that holds in the middle of an insertion too: the links agree but for the object
that is being moved, and siblings can be ranked. The walk stays in the list
because its object is reached from an elder sibling. `InsertionMovesOneObject` is the
refinement. `Lists(s, c, si)` says of a sequence what its links are; by the ranking
there is one for every first child (`ListExists`), by the pigeonhole principle it has
at most `N` objects, so the recursion that maps the state to `ObjectForest` computes
it and nothing else (`ListIsComputed`, `ListIsUnique`). Each change of a link is then
a change of one sequence: unlinking takes the object out of the list it is in and
leaves the lists it is not in, linking puts it in front.

`GameInput_proofs`: `AnswerIsAlwaysTakenNext`, for any nesting of reads. The
invariant `ReadsInv` says of every read that a routine runs only while no completed
task is picked; so one that starts after the answer is followed by a look at the
tasks, which finds the answer first. `InputAlwaysTyped` needs the values of numbers in
brackets and that what a line is cut into is a line again. `BuffersAlwaysKept`, for
any first bytes of the two buffers: every recorded token is one of the line
(`TokensSplit`), and their number is cut to the parse buffer's. The room of the text
buffer is the one that the code computes (`Room`), which for a first byte 0 up to
Version 4 is 256 bytes where the program has said none.

`ReplayIsFaithful` is about the text of command files. Its invariant (`ReplayInv`)
says that the file that is being written, and the one completed last, is the writing
of what was recorded (`Encodes`), and that what is left of a file that is being read
is the writing of the inputs not yet read (`Replays`), as long as kinds agree. The
lemmas are the format's: a number in decimal is read back (`DecimalDigits`), a line is
cut where it was ended (`LineCut`), whatever brackets its text has
(`BracketedLineRead`), and a key is (`KeyEncoded`). The theorem's hypothesis
`KeysKeepTheirLine` is an exception the code makes: a key below 128 is written as it
is (`Input.cs:915`), so that where lines end in CR LF the Enter key gives CR CR LF,
which is read as two lines, and so does anywhere the key 10, which no keyboard sends
but a file with the line `[10]` does. Without such keys it holds for either line ending.

`ParseAlwaysFollowsText` proves for any text what the run compares for short ones, one
algorithm after the other. What `SplitTokens` has found from a place on, where no word
goes through it, is the set of tokens from there on in their order (`SplitEnumerates`,
by induction from the end); so the first `n` of it are the `n` first tokens
(`SplitsFirstTokens`). Filling a word until it is full and cutting it gives the same
Z-characters as cutting the encoding of the whole text (`EncodedIsSameWord`). After each
round of the binary search the word is nowhere but in the range that is left, and
`Len(words)` rounds leave none (`SearchRounds`). The theorem assumes of each dictionary
that no space is among its separators (the code would not return it as a token) and, if
it is sorted, that no entry precedes an earlier one, which the search needs; of the main
dictionary that it is sorted; and that memory goes on for 256 bytes from the text buffer
on, because a stored length of a line longer than its buffer is taken as it is. A place
is the low byte that the table has of it.

`OutputStreams_proofs`: `HeaderAndRomAlwaysStay` and `TranscriptAlwaysSurvives` from
`MemoryInv`, which says that memory and every undo slot are bytes with the story's
`RomStart`, and that every open table starts in dynamic memory. The first is about each
step: what a store, a table that is closed or a stream changes lies in dynamic memory or
in the three bits of Flags 2, and so does a `copy_table` whose destination lies there;
one that is aimed elsewhere (`Strays`) is let through by the code and is excepted, and so
are undo and restart, which bring back an earlier header. `TablesAlwaysHoldTheirText`
from `MeantInv`, by which a table's buffer has a code for every character printed. It
assumes `[]ExtraCharsFit`, that the story's table of extra characters has no more
entries than there are codes (101): the code reads any number of entries, and for a
character further on there is no code.

`TrapsAlwaysCoverTables`, `OutputAlwaysTyped` and `TrappedWritesAlwaysLoad` are about a
walk over a list of traps that its handlers change (`Handle`, a fold). They assume
`[]TablesInPlace`: each table, as long as it says it is, lies in memory, and none starts
where the trap of another does. A program may break this by writing a count, and then
the code follows a table beyond the memory, or `Add` ignores the second of two traps.
The invariant is that the traps are in the order of their addresses, one to an address,
and that each of the two counted tables has one of the length that was loaded; a handler
removes its table's trap and inserts one at the same place, so that the walk's index
stays right. The exception is the terminating characters, whose new trap starts where
the table ends (`ZMachine.cs:1330`): with another table behind them, the insertion moves
that table's trap beyond the count that was taken before the handlers were called
(`ZMachine.cs:1568`), and a write that touches both loads one only. (A story with
separators at 64, none of them, terminating characters 65 to 67, the end of the list at
68, and extra characters at 69 has it after a byte 0 at 67 and another at 71.)
`TrappedWritesAlwaysLoad` therefore assumes `TerminatingLast`, as does the run.

In `GameState_proofs` also, `GamesTyped` and `WholeGames`: what `SaveQuetzalAsync`
writes is read back whole, and a file that ends early is never taken for a game, for
every story, every machine that a file can hold and every point at which a stream can
fail. Most of the proof is about the format, layer by layer. What is read of the coded
differences is the memory that they were taken from (`MemoryAgain`): the reader, one
byte at a time, goes from the memory as far as it is read to that memory with one run
or change more. The frames that are read are those that were written, each with its
words (`FramesAgain`), and the depths that the reader adds up are the machine's
(`StacksAgain`), which needs that the frames cut the stack. The blocks that are read
are those that were written, padding and order included (`BlocksAgain`). So what is
found in the file of a machine is that machine (`GameAgain`), and in a proper prefix of
it nothing (`NoGameInPart`), because the length in the header is that of the whole
file, and the reader ends in the middle of a block.

The invariant, `GamesInv`, says of the machine that its parts are of the code's types
and its frames cut the stack, and of history that it is what is found in the file.
`GamesTypeOK` alone is not inductive, because a restore that stores in a local needs
that local, and the story's save instructions have it. That any other file leaves a
machine of the same shape, whichever step of going on fails, is shown of the readers:
whatever the bytes, the depths that are read add up, a frame has up to 15 locals and a
word 16 bits (`UncompressTyped` to `GameTyped`). Both theorems have the hypothesis
`OtherFilesHold`: a file of other origin holds, by history, what `RestoreQuetzal` finds
in it, which may be a game that cannot be gone on with. For the run's files history is
written down beside them instead, and `WholeGamesComeBack`, from each of them, is what
compares the two.

Only model-checked: liveness (`PauseTakesEffect`, `InsertionEnds`, `CompilationEnds`,
`AnsweredReadEnds`), which is beyond the prover. The other properties of the runs that
pass are each stated by a theorem.

## Not modelled

| Part | Why not |
|---|---|
| `encode_text`, alphabets, decoding of packed text | conversions from table to table, without state; the alphabets are one more trap, added and never removed |
| The text that a line may begin with | it is given to the front end, which edits the line |
| Windows, cursor, colours, fonts, `print_table` | each is a call of the I/O interface |
| Sounds | the routine that a finished sound calls runs on a thread of the front end, beside the program (`Output.cs:1212`): what two interpreters do to one `Stack` is not determined by the source |
| A read whose loop ends while an inner one waits | only an illegal program gets there: its timer routine throws past itself |
| Auxiliary files (`save` and `restore` with operands), Blorb and `SubStream` | byte ranges of a stream; the end of the fragment that they leave out is under `hazards` |
| Branches of `save` with the offsets 0 and 1 | a return, which a restore takes for a distance: see "Met while modelling" |
| A header that a file or a copy changes | `ResetHeaderFields` reads the addresses of the globals and of static memory again; in the models they stay the story's, and the tables that the header names can be read or not (`LoadsTables`) |
| Operands and arithmetic of the generated code | each is one .NET instruction |
| Attributes and properties of objects | lookups in tables that the compiler of the story laid out |
| I/O filters | pass-through, but for `InternalSaveFilter` |
| Debug information, expression evaluators | parsers and lookups |
| Console front end | windows, line editing and history of one console |
| Glk front end | its thread calls a library that belongs to the main thread: see `PROJECT.json` |
| Test harness | compares transcripts |
| Version 6 | its main program is a routine; `Restart` does not enter it |
