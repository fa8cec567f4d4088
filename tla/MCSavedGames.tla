---------------------------- MODULE MCSavedGames ----------------------------
(* A dynamic memory that is a little longer than two of the longest runs.   *)
(* The header field at address 1 is always changed, so that the machines    *)
(* below have runs of 256, 257 and fewer unchanged bytes.  The dictionary,  *)
(* whose address is at 8, is the one table of the story.                    *)
EXTENDS SavedGames

Size == 546
SmallStory == [i \in 1..Size |-> IF i \in {3, Size} THEN 7 ELSE IF i = 9 THEN 4 ELSE 0]
OurGame == <<0, 1, 48, 53, 48, 54, 48, 55, 171, 205>>
AnotherGame == <<0, 2, 48, 53, 48, 54, 48, 55, 171, 205>>
ScreenHeader == 1 :> 25
GlobalsAt == 64
DictionaryInMemory(ram) == InMemory(At2(ram, 9))

(* Above it there are 0s, but for what the save instructions need: a        *)
(* variable (the stack, a local, a global), and up to Version 3 a branch    *)
(* (short, back, far).                                                      *)
SmallHighMemory ==
    LET variables == 66003 :> 0 @@ 770 :> 1 @@ 1283 :> 16
        branches == 66001 :> 197 @@ 768 :> 63 @@ 769 :> 249 @@ 1281 :> 129 @@ 1282 :> 4
        others == 1284 :> 9 @@ 1285 :> 255
        bytes == variables @@ branches @@ others
    IN  [i \in 1..(66010 - Size) |->
            IF Size + i - 1 \in DOMAIN bytes THEN bytes[Size + i - 1] ELSE 0]
ThreeSites == {66000, 767, 1280}

Memory(changes) == [i \in 1..Size |-> IF i = 2 THEN 25
                                      ELSE IF i \in DOMAIN changes THEN changes[i]
                                      ELSE SmallStory[i]]

Frame(returnPC, depth, locals, args, result) ==
    [returnPC |-> returnPC, prevStackDepth |-> depth, locals |-> locals,
     argCount |-> args, resultStorage |-> result]

InMain == [ram |-> Memory(259 :> 255), stack |-> <<-1, 256>>, callStack |-> <<>>,
           pc |-> 1000]
InRoutines == [ram |-> Memory(260 :> 1 @@ 518 :> 3 @@ Size :> 0), stack |-> <<1, -32768, 3>>,
               callStack |-> <<Frame(70000, 1, <<>>, 0, -1),
                               Frame(300, 2, <<5, -2>>, 2, 0)>>, pc |-> 1000]
Deep == [ram |-> Memory(3 :> 0), stack |-> [i \in 1..260 |-> i],
         callStack |-> <<Frame(1, 0, [i \in 1..15 |-> -i], 7, 255),
                         Frame(65536, 258, <<>>, 1, 16)>>, pc |-> 1000]
ThreeMachines == {InMain, InRoutines, Deep}
OneRestore == {1000}

(* Files of other interpreters, of another game, files with lengths that    *)
(* are negative, and none at all; and whole games of this story at places   *)
(* where no instruction of its can go on.                                   *)
Chunks(m, game) ==
    [head |-> Block(IFhd, game \o Bytes3(m.pc)),
     mem |-> Block(UMem, m.ram),
     stks |-> Block(Stks, SerializeStacks(m.stack, m.callStack)),
     note |-> Block(FORM, <<1, 2, 3>>)]
File(blocks, held) == [bytes |-> FileBytes(blocks), saved |-> held]
NoGame(bytes) == [bytes |-> bytes, saved |-> None]
Whole(m) == LET own == Chunks(m, OurGame) IN File(<<own.mem, own.note, own.stks, own.head>>, m)
InRoutinesAt(pc) == [InRoutines EXCEPT !.pc = pc]
FilesOfOthers ==
    LET ours == Chunks(InRoutinesAt(1283), OurGame)
        theirs == Chunks(InRoutinesAt(1283), AnotherGame)
        short == Block(UMem, SubSeq(InRoutines.ram, 1, Size - 1))
        beyond == Block(CMem, <<0, 255, 0, 255, 0, 33, 1>>)
        whole == FileBytes(<<ours.head, ours.stks, ours.mem>>)
    IN  {NoGame(<<>>),
         NoGame(FileBytes(<<theirs.head, theirs.mem, theirs.stks>>)),
         NoGame(FileBytes(<<ours.head, short, ours.stks>>)),
         NoGame(FileBytes(<<ours.head, beyond, ours.stks>>)),
         NoGame(FileBytes(<<ours.head, ours.mem>>)),
         NoGame([whole EXCEPT ![5] = 255]),
         NoGame([whole EXCEPT ![17] = 128]),
         File(<<ours.head, ours.stks, ours.mem>>, InRoutinesAt(1283)),
         File(<<ours.head, ours.mem, Block(Stks, <<>>)>>,
              [InRoutinesAt(1283) EXCEPT !.stack = <<>>, !.callStack = <<>>]),
         Whole([InRoutinesAt(1283) EXCEPT !.ram[9] = 255]),
         Whole(InRoutinesAt(0))}
    \cup {Whole(InRoutinesAt(pc)) : pc \in {1283, 1284, 1285, MemorySize - 1, MemorySize, 2^24 - 1}}
=============================================================================
