----------------------------- MODULE SavedGames -----------------------------
(* Saving a game and restoring it: SaveQuetzalAsync writes the machine to a *)
(* file, which may fail at any byte; RestoreQuetzal verifies a file and     *)
(* only then replaces the machine.  What the program does in between is     *)
(* left open: it takes the machine from one state to another.               *)
EXTENDS QuetzalFormat

CONSTANTS
    Versions,       \* a story is of one of these
    HighMemory,     \* the bytes of memory from RomStart on
    Machines,       \* the states that the program reaches
    Sites,          \* the addresses of its save instructions
    RestoreSites,   \* where it goes on after a restore that fails
    OtherFiles,     \* files of other origin, with what is saved in them
    Header,         \* what ResetHeaderFields writes: address -> byte
    LoadsTables(_), \* whether the tables that a memory's header names can be
                    \* read
    Globals,        \* the address of variable 16
    Cuts            \* a bound: a stream fails after so many bytes, or with
                    \* so many missing

VARIABLES
    version,    \* the story's
    machine,
    file,       \* the saved game's bytes
    saved,      \* history: the machine and the place that file is of
    answer      \* of the last save or restore instruction

gamesVars == <<version, machine, file, saved, answer>>

None == [pc |-> -1]

CallFrame == [returnPC : 0..(2^24 - 1), prevStackDepth : Nat, locals : Seq(Word),
          argCount : 0..7, resultStorage : Byte \cup {-1}]
ZMachine == [ram : [1..RomStart -> Byte], stack : Seq(Word), callStack : Seq(CallFrame), pc : Int]

(* What a file can say: the depths of the frames lie above one another, a   *)
(* frame's part of the stack has a length of 16 bits, and a file of 32.     *)
Savable(m) ==
    /\ m \in ZMachine
    /\ \A i \in 1..Len(m.callStack) : Len(m.callStack[i].locals) <= 15
    /\ \A i \in 0..Len(m.callStack) :
           PartEnd(m.stack, m.callStack, i) - PartStart(m.callStack, i) \in 0..(2^16 - 1)
    /\ Len(SerializeStacks(m.stack, m.callStack)) < 2^30

(* Memory: an address beyond it is an exception. *)
MemorySize == RomStart + Len(HighMemory)
InMemory(a) == a \in 0..(MemorySize - 1)
GetByte(m, a) == IF a < RomStart THEN m.ram[a + 1] ELSE HighMemory[a - RomStart + 1]

(* The branch that is encoded at m.pc, and where it ends. *)
IsShort(m) == (GetByte(m, m.pc) \div 64) % 2 = 1
DecodeBranch(m) ==
    LET first == GetByte(m, m.pc)
        far == 256 * (first % 64) + GetByte(m, m.pc + 1)
    IN  [ifTrue |-> first >= 128,
         offset |-> IF IsShort(m) THEN first % 64
                    ELSE IF far >= 2^13 THEN far - 2^14 ELSE far,
         end |-> m.pc + (IF IsShort(m) THEN 1 ELSE 2)]

(* A variable that an instruction names is one of the routine's. *)
HasVariable(m, dest) ==
    dest \in 1..15 => /\ Len(m.callStack) > 0
                      /\ dest <= Len(m.callStack[Len(m.callStack)].locals)

(* The save instruction branches up to Version 3, and has its branch behind *)
(* an opcode of one byte; later ones store, and have the variable behind an *)
(* opcode of one byte, or of three from Version 5.                          *)
Branching == version < 4
PlaceIn(v, site) == site + (IF v < 5 THEN 1 ELSE 3)
SavedPlace(site) == PlaceIn(version, site)
AtPlace(m, site) == [m EXCEPT !.pc = SavedPlace(site)]
RetryPC(site) == site

ASSUME MemoryAssumption ==
    /\ HighMemory \in Seq(Byte)
    /\ Globals \in 64..(RomStart - 480)

(* The program's instructions lie above its dynamic memory, where a file    *)
(* can say so in three bytes.  The offsets 0 and 1, which mean a return,    *)
(* are left out: restoring takes them for distances.                        *)
ASSUME SitesAssumption ==
    /\ Versions \subseteq {1, 2, 3, 4, 5, 7, 8}
    /\ \A site \in Sites : site \in RomStart..(2^24 - 4)
    /\ \A site \in Sites, v \in Versions : InMemory(PlaceIn(v, site) + 1)
    /\ \A site \in Sites, v \in Versions \cap 1..3, m \in Machines :
           DecodeBranch([m EXCEPT !.pc = PlaceIn(v, site)]).offset \notin {0, 1}
    /\ RestoreSites \subseteq Nat

ASSUME MachinesAssumption == \A m \in Machines : Savable(m)

ASSUME OtherFilesAssumption == \A other \in OtherFiles : other.bytes \in Seq(Byte)

ASSUME HeaderAssumption == \A a \in DOMAIN Header : Header[a] \in Byte

TopFrame(m) == Len(m.callStack)

(* Locals and words are 16 bits wide, and memory is big-endian. *)
StoreResult(m, dest, result) ==
    CASE dest = 0 -> [m EXCEPT !.stack = Append(@, result)]
      [] dest \in 1..15 -> [m EXCEPT !.callStack[TopFrame(m)].locals[dest] = result]
      [] OTHER -> LET a == Globals + 2 * (dest - 16)
                      bytes == Bytes2(result % 65536)
                  IN  [m EXCEPT !.ram[a + 1] = bytes[1], !.ram[a + 2] = bytes[2]]

(* The tables come first: if they cannot be read, nothing is written. *)
ResetHeaderFields(m) ==
    [m EXCEPT !.ram = [a \in DOMAIN m.ram |->
        IF a - 1 \in DOMAIN Header THEN Header[a - 1] ELSE m.ram[a]]]

(* From the place of a branch or a variable: the instruction goes on with   *)
(* its result, which for a branch is true or false.                         *)
BranchOn(m, true) ==
    LET branch == DecodeBranch(m)
    IN  [m EXCEPT !.pc = IF branch.ifTrue = true THEN branch.end + branch.offset - 2
                         ELSE branch.end]
StoreHere(m, result) == [StoreResult(m, GetByte(m, m.pc), result) EXCEPT !.pc = m.pc + 1]

(* Where the save instruction goes on with its result. *)
Answered(m, site, ok) ==
    IF Branching THEN BranchOn(AtPlace(m, site), ok)
    ELSE StoreHere(AtPlace(m, site), IF ok THEN 1 ELSE 0)

(* Bounds: the program saves in the states of Machines only, and stores to  *)
(* variables that it has.                                                   *)
Saves(m, site) ==
    /\ m \in Machines
    /\ Branching \/ HasVariable(m, GetByte(m, SavedPlace(site)))

-----------------------------------------------------------------------------
(* Saving *)

Image(m, savedPC) ==
    FileBytes(<<Block(IFhd, MakeIFHD(savedPC)),
                Block(CMem, CompressRAM(m.ram)),
                Block(Stks, SerializeStacks(m.stack, m.callStack))>>)

Answers(site, ok) == /\ answer' = ok
                     /\ machine' = Answered(machine, site, ok)

Save(site) ==
    /\ Saves(machine, site)
    /\ file' = Image(machine, SavedPlace(site))
    /\ saved' = AtPlace(machine, site)
    /\ Answers(site, TRUE)

(* The stream throws after some bytes: the file holds those. *)
CutShort(site) ==
    /\ Saves(machine, site)
    /\ LET image == Image(machine, SavedPlace(site))
           cuts == Cuts \cup {Len(image) - n : n \in Cuts}
       IN  \E n \in cuts \cap 0..(Len(image) - 1) : file' = SubSeq(image, 1, n)
    /\ saved' = None

SaveFails(site) == CutShort(site) /\ Answers(site, FALSE)

(* It throws when it is closed, which nothing catches: the program stops in *)
(* its save instruction.                                                    *)
SaveThrows(site) == CutShort(site) /\ UNCHANGED <<machine, answer>>

SaveDeclined(site) ==
    /\ Saves(machine, site)
    /\ Answers(site, FALSE)
    /\ UNCHANGED <<file, saved>>

(* The debugger interrupts the choice of a file: the instruction is going   *)
(* to be executed again.                                                    *)
SaveInterrupted(site) ==
    /\ Saves(machine, site)
    /\ machine' = [machine EXCEPT !.pc = RetryPC(site)]
    /\ UNCHANGED <<file, saved, answer>>

-----------------------------------------------------------------------------
(* Restoring *)

(* What stands at the place of the file can be read, and its variable is    *)
(* one that the restored routine has.                                       *)
CanGoOn(m) ==
    IF Branching THEN InMemory(m.pc) /\ (IsShort(m) \/ InMemory(m.pc + 1))
    ELSE InMemory(m.pc) /\ HasVariable(m, GetByte(m, m.pc))

(* The saved instruction continues with true, or 2. *)
Continued(m) == IF Branching THEN BranchOn(m, TRUE) ELSE StoreHere(m, 2)

(* An exception leaves the place behind the byte that was read last. *)
Stranded(m) ==
    [m EXCEPT !.pc = @ + (IF Branching /\ InMemory(m.pc) THEN 2 ELSE 1)]

(* What the blocks of a file hold, if they pass all checks. *)
GameIn(bytes) ==
    LET read == BlocksIn(bytes)
        blocks == read.blocks
        Has(type) == HasBlock(blocks, type)
        ram == IF Has(CMem) THEN UncompressRAM(GetBlock(blocks, CMem))
               ELSE IF Has(UMem) THEN GetBlock(blocks, UMem)
               ELSE <<>>
        stacks == DeserializeStacks(GetBlock(blocks, Stks))
    IN  IF \/ ~read.ok
           \/ ~Has(IFhd) \/ ~VerifyIFHD(GetBlock(blocks, IFhd))
           \/ Len(ram) # RomStart
           \/ ~Has(Stks) \/ ~stacks.ok
        THEN None
        ELSE [ram |-> ram, stack |-> stacks.stack, callStack |-> stacks.callStack,
              pc |-> SavedPC(GetBlock(blocks, IFhd))]

(* What a file of other origin is said to hold is what is found in it.      *)
OtherFilesHold == \A other \in OtherFiles : other.saved = GameIn(other.bytes)

RestoreFails(failurePC) == /\ machine' = [machine EXCEPT !.pc = failurePC]
                           /\ answer' = FALSE

(* After a whole game has been found the machine is replaced, and what goes *)
(* wrong then leaves what was replaced so far.                              *)
Restores(game, failurePC) ==
    IF game = None THEN RestoreFails(failurePC)
    ELSE IF ~CanGoOn(game) THEN machine' = Stranded(game) /\ answer' = FALSE
    ELSE IF ~LoadsTables(Continued(game).ram)
    THEN machine' = Continued(game) /\ answer' = FALSE
    ELSE machine' = ResetHeaderFields(Continued(game)) /\ answer' = TRUE

RestoreQuetzal(failurePC) ==
    /\ UNCHANGED <<file, saved>>
    /\ Restores(GameIn(file), failurePC)

(* No file is chosen. *)
RestoreDeclined(failurePC) == /\ RestoreFails(failurePC)
                              /\ UNCHANGED <<file, saved>>

-----------------------------------------------------------------------------
GamesInit ==
    /\ version \in Versions
    /\ machine \in Machines
    /\ \E other \in OtherFiles : file = other.bytes /\ saved = other.saved
    /\ answer = FALSE

Play == /\ machine' \in Machines
        /\ UNCHANGED <<file, saved, answer>>

GamesNext ==
    /\ UNCHANGED version
    /\ \/ Play
       \/ \E site \in Sites : \/ Save(site) \/ SaveFails(site) \/ SaveThrows(site)
                              \/ SaveDeclined(site) \/ SaveInterrupted(site)
       \/ \E pc \in RestoreSites : RestoreQuetzal(pc) \/ RestoreDeclined(pc)

GamesSpec == GamesInit /\ [][GamesNext]_gamesVars

-----------------------------------------------------------------------------
(* Properties *)

(* Every variable has the shape of the code's; the frames of a restored     *)
(* machine cut its stack as those of any other do.                          *)
GamesTypeOK ==
    /\ version \in Versions
    /\ machine.ram \in [1..RomStart -> Byte]
    /\ machine.stack \in Seq(Word)
    /\ machine.pc \in Int
    /\ \A i \in 1..Len(machine.callStack) :
           LET frame == machine.callStack[i]
               above == IF i = Len(machine.callStack) THEN Len(machine.stack)
                        ELSE machine.callStack[i + 1].prevStackDepth
           IN  /\ frame.prevStackDepth \in 0..above
               /\ frame.argCount \in 0..7
               /\ Len(frame.locals) \in 0..15
               /\ frame.resultStorage \in Byte \cup {-1}
    /\ file \in Seq(Byte)
    /\ answer \in BOOLEAN

(* A machine that the program saved. *)
OfTheProgram(m) == \E was \in Machines, site \in Sites :
                       Saves(was, site) /\ m = AtPlace(was, site)

(* A restore of what the program saved brings back all of the machine,      *)
(* every byte of memory, word and field of a frame, at the instruction that *)
(* saved it, and succeeds if its tables can be read.  A file that holds no  *)
(* whole game changes nothing but the place where the program goes on.  Any *)
(* other, in which a game is found, brings back all of it, but may fail     *)
(* with the machine replaced.                                               *)
WholeGamesComeBack ==
    [][\A pc \in RestoreSites :
          RestoreQuetzal(pc) =>
              /\ saved = None => ~answer' /\ machine' = [machine EXCEPT !.pc = pc]
              /\ OfTheProgram(saved) => (answer' <=> LoadsTables(Continued(saved).ram))
              /\ saved # None =>
                     IF answer' THEN machine' = ResetHeaderFields(Continued(saved))
                     ELSE machine' = IF CanGoOn(saved) THEN Continued(saved)
                                     ELSE Stranded(saved)]_gamesVars
=============================================================================
