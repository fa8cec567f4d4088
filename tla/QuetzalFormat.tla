---------------------------- MODULE QuetzalFormat ----------------------------
(* The bytes of a saved game: the chunks of Quetzal.cs in the container of  *)
(* IFF.cs.  A file is a sequence of bytes; a machine is what a chunk of it  *)
(* stands for: the dynamic memory, the flat stack (bottom first) and the    *)
(* call frames (outermost first).                                           *)
EXTENDS Integers, Sequences, FiniteSetsExt, SequencesExt

CONSTANTS
    Story,      \* the dynamic memory of the story file, by address
    GameId      \* its release number, serial number and checksum, 10 bytes

(* The static memory begins at an address of 16 bits. *)
ASSUME StoryAssumption == Story \in Seq(0..255) /\ Len(Story) < 2^16
ASSUME GameIdAssumption == GameId \in Seq(0..255) /\ Len(GameId) = 10

Byte == 0..255
Word == -(2^15)..(2^15 - 1)
RomStart == Len(Story)

(* Big-endian numbers; a word is written in two's complement. *)
Bytes4(n) == <<n \div 2^24, (n \div 2^16) % 256, (n \div 2^8) % 256, n % 256>>
Bytes3(n) == <<(n \div 2^16) % 256, (n \div 2^8) % 256, n % 256>>
Bytes2(n) == <<(n \div 2^8) % 256, n % 256>>
At4(bytes, p) ==      \* an int
    LET first == IF bytes[p] < 128 THEN bytes[p] ELSE bytes[p] - 256
    IN  2^24 * first + 2^16 * bytes[p + 1] + 2^8 * bytes[p + 2] + bytes[p + 3]
At3(bytes, p) == 2^16 * bytes[p] + 2^8 * bytes[p + 1] + bytes[p + 2]
At2(bytes, p) == 2^8 * bytes[p] + bytes[p + 1]
Signed_NotAtAll(n) == n
Signed(n) == IF n >= 32768 THEN n - 65536 ELSE n

WordBytes(words) ==
    [i \in 1..(2 * Len(words)) |->
        LET word == words[(i + 1) \div 2]
        IN  IF i % 2 = 1 THEN (word \div 2^8) % 256 ELSE word % 256]
Words(bytes) == [i \in 1..(Len(bytes) \div 2) |-> Signed(At2(bytes, 2 * i - 1))]

-----------------------------------------------------------------------------
(* CMem: memory, as its difference from the story's, zeros run-length coded *)

Xor(a, b) ==
    LET bit(i) == IF (a \div 2^i) % 2 = (b \div 2^i) % 2 THEN 0 ELSE 2^i
    IN  bit(0) + bit(1) + bit(2) + bit(3) + bit(4) + bit(5) + bit(6) + bit(7)

LongestRun_UpTo257 == 257
LongestRun == 256

(* The code of n unchanged bytes. *)
Runs(n) ==
    LET full == [i \in 1..(2 * (n \div LongestRun)) |->
                    IF i % 2 = 1 THEN 0 ELSE (LongestRun - 1) % 256]
        rest == n % LongestRun
    IN  full \o (IF rest = 0 THEN <<>> ELSE <<0, rest - 1>>)

(* Each changed byte after the runs that lead to it; what follows the last  *)
(* one is left out.                                                         *)
CompressRAM(ram) ==
    LET from[a \in 1..(RomStart + 1)] ==
            LET changed == {c \in a..RomStart : ram[c] # Story[c]}
                next == Min(changed)
            IN  IF changed = {} THEN <<>>
                ELSE Runs(next - a) \o <<Xor(ram[next], Story[next])>> \o from[next + 1]
    IN  from[1]

(* One byte more of the code: the length of a run, the beginning of one, or *)
(* a change; a change beyond the memory is an exception.                    *)
Uncompressed(s, b) ==
    IF s.inRun THEN [s EXCEPT !.rp = @ + b + 1, !.inRun = FALSE]
    ELSE IF b = 0 THEN [s EXCEPT !.inRun = TRUE]
    ELSE IF s.rp > RomStart THEN [s EXCEPT !.ok = FALSE]
    ELSE [s EXCEPT !.result[s.rp] = Xor(@, b), !.rp = @ + 1]

(* UncompressRAM returns null, <<>> here, after an exception; so is a run   *)
(* whose length is missing.                                                 *)
UncompressRAM(cmem) ==
    LET read[i \in 0..Len(cmem)] ==
            IF i = 0 THEN [result |-> Story, rp |-> 1, inRun |-> FALSE, ok |-> TRUE]
            ELSE Uncompressed(read[i - 1], cmem[i])
        last == read[Len(cmem)]
    IN  IF last.ok /\ ~last.inRun THEN last.result ELSE <<>>

-----------------------------------------------------------------------------
(* Stks: the frames, each with its part of the stack *)

(* A frame's own part ends where the next one's begins. *)
PartStart(frames, k) == IF k = 0 THEN 0 ELSE frames[k].prevStackDepth
PartEnd(stack, frames, k) ==
    IF k = Len(frames) THEN Len(stack) ELSE PartStart(frames, k + 1)

ArgBits(argCount) == IF argCount \in 1..7 THEN 2^argCount - 1 ELSE 0
ArgCount(argBits) == CHOOSE n \in 0..7 : argBits % 128 \in (2^n \div 2)..(2^n - 1)

FrameBytes(frame, words) ==
    LET noResult == frame.resultStorage = -1
    IN  Bytes3(frame.returnPC)
        \o <<Len(frame.locals) + (IF noResult THEN 16 ELSE 0),
             IF noResult THEN 0 ELSE frame.resultStorage,
             ArgBits(frame.argCount)>>
        \o Bytes2(Len(words)) \o WordBytes(frame.locals) \o WordBytes(words)

DummyFrame == [returnPC |-> 0, prevStackDepth |-> 0, locals |-> <<>>,
               argCount |-> 0, resultStorage |-> 0]

SerializeStacks(stack, frames) ==
    FlattenSeq([i \in 1..(Len(frames) + 1) |->
        FrameBytes(IF i = 1 THEN DummyFrame ELSE frames[i - 1],
                   SubSeq(stack, PartStart(frames, i - 1) + 1,
                                 PartEnd(stack, frames, i - 1)))])

(* The frames that bytes consist of, with the words of each; bytes that end *)
(* in the middle of a frame are not ok.                                     *)
WholeFrames(bytes) ==
    LET locals(p) == bytes[p + 3] % 16
        words(p) == p + 8 + 2 * locals(p)
        end(p) == words(p) + 2 * At2(bytes, p + 6)
        fits(p) == p + 7 <= Len(bytes) /\ end(p) <= Len(bytes) + 1
        part(p) ==
            [returnPC |-> At3(bytes, p),
             resultStorage |-> IF (bytes[p + 3] \div 16) % 2 = 1 THEN -1 ELSE bytes[p + 4],
             argCount |-> ArgCount(bytes[p + 5]),
             locals |-> Words(SubSeq(bytes, p + 8, words(p) - 1)),
             words |-> Words(SubSeq(bytes, words(p), end(p) - 1))]
        from[p \in 1..(Len(bytes) + 1)] ==
            IF p > Len(bytes) THEN [ok |-> TRUE, parts |-> <<>>]
            ELSE IF ~fits(p) THEN [ok |-> FALSE, parts |-> <<>>]
            ELSE [from[end(p)] EXCEPT !.parts = <<part(p)>> \o @]
    IN  from[1]

(* The frames' parts make up the stack; the first frame is not one of the   *)
(* call stack.                                                              *)
DeserializeStacks(bytes) ==
    LET parts == WholeFrames(bytes).parts
        words(k) == FlattenSeq([i \in 1..k |-> parts[i].words])
        frame(k) == [returnPC |-> parts[k].returnPC,
                     prevStackDepth |-> Len(words(k - 1)),
                     locals |-> parts[k].locals,
                     argCount |-> parts[k].argCount,
                     resultStorage |-> parts[k].resultStorage]
    IN  [ok |-> WholeFrames(bytes).ok,
         stack |-> words(Len(parts)),
         callStack |-> [k \in 1..(Len(parts) - 1) |-> frame(k + 1)]]

-----------------------------------------------------------------------------
(* IFhd, and the container *)

MakeIFHD(savePC) == GameId \o Bytes3(savePC)
VerifyIFHD(ifhd) == Len(ifhd) >= 13 /\ SubSeq(ifhd, 1, 10) = GameId
SavedPC(ifhd) == At3(ifhd, 11)

StringToTypeID(type) == At4(type, 1)
FORM == StringToTypeID(<<70, 79, 82, 77>>)
IFZS == StringToTypeID(<<73, 70, 90, 83>>)
IFhd == StringToTypeID(<<73, 70, 104, 100>>)
CMem == StringToTypeID(<<67, 77, 101, 109>>)
UMem == StringToTypeID(<<85, 77, 101, 109>>)
Stks == StringToTypeID(<<83, 116, 107, 115>>)

Block(type, data) == [type |-> type, data |-> data]

Padding_Never(data) == <<>>
Padding(data) == IF Len(data) % 2 = 1 THEN <<0>> ELSE <<>>

BlockBytes(block) ==
    Bytes4(block.type) \o Bytes4(Len(block.data)) \o block.data \o Padding(block.data)

(* WriteToStreamAsync: the blocks in order, but IFhd before all others. *)
FileBytes(blocks) ==
    LET places == 1..Len(blocks)
        IsFirst(i) == blocks[i].type = IFhd
        Before(i, j) == IF IsFirst(i) = IsFirst(j) THEN i < j ELSE IsFirst(i)
        sorted == CHOOSE s \in [places -> places] :
                      \A i, j \in places : i < j => Before(s[i], s[j])
        data == FlattenSeq([i \in places |-> BlockBytes(blocks[sorted[i]])])
    IN  Bytes4(FORM) \o Bytes4(4 + Len(data)) \o Bytes4(IFZS) \o data

(* ReadFromStream.  The end of the stream is an exception where a byte is   *)
(* read, and makes a block's data shorter.  Lengths are signed: no block    *)
(* has a negative one, and 8 added to a file's may overflow.                *)
BlocksIn(file) ==
    LET end == IF At4(file, 5) > 2^30 + (2^30 - 9) THEN 0 ELSE 8 + At4(file, 5)
        length(p) == At4(file, p + 4)
        dataEnd(p) == IF p + 7 + length(p) <= Len(file) THEN p + 7 + length(p) ELSE Len(file)
        after(p) == dataEnd(p) + 1 + (length(p) % 2)
        fits(p) == p + 7 <= Len(file) /\ length(p) >= 0 /\ after(p) <= Len(file) + 1
        from[p \in 1..(Len(file) + 1)] ==
            IF p > end THEN [ok |-> TRUE, blocks |-> <<>>]
            ELSE IF ~fits(p) THEN [ok |-> FALSE, blocks |-> <<>>]
            ELSE LET block == Block(At4(file, p), SubSeq(file, p + 8, dataEnd(p)))
                 IN  [from[after(p)] EXCEPT !.blocks = <<block>> \o @]
    IN  IF Len(file) >= 12 /\ At4(file, 1) = FORM /\ At4(file, 9) = IFZS
        THEN from[13]
        ELSE [ok |-> FALSE, blocks |-> <<>>]

HasBlock(blocks, type) == \E i \in 1..Len(blocks) : blocks[i].type = type
GetBlock(blocks, type) ==
    LET first == Min({i \in 1..Len(blocks) : blocks[i].type = type})
    IN  blocks[first].data
=============================================================================
