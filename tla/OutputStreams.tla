--------------------------- MODULE OutputStreams ---------------------------
(* Where a program's text goes, and what its writes to memory change in the *)
(* interpreter: the output streams with the stack of memory tables          *)
(* (SetOutputStreamAsync), Flags 2 in the header, and the tables that are   *)
(* loaded again when they are written (MemoryTraps).  Memory is the bytes   *)
(* around Flags 2 and those from just below 64 on; characters and addresses *)
(* are their numbers.                                                       *)
EXTENDS Integers, SequencesExt

CONSTANTS
    RomStart, Top,     \* dynamic memory ends before RomStart, memory with Top
    ExtraChars,        \* addresses: the extra characters, the terminating
    TerminatingChars,  \*   characters and the separators, each in dynamic
    Separators,        \*   memory
    MaxTables,         \* how deep output stream 3 nests (16 in the code)
    Programs           \* what programs do: see their assumptions

Flags2 == 17                        \* the lower byte of Flags 2
Header == 14..19 \cup {62, 63}      \* as much of the header as is modelled
Addresses == Header \cup 64..Top
Byte == 0..255
MaxCharacter == 65535
Characters == 0..MaxCharacter

ASSUME LayoutAssumption ==
    /\ Top \in Nat /\ RomStart <= 65535   \* a word of the header
    /\ {RomStart, ExtraChars, TerminatingChars, Separators} \subseteq 64..Top
    /\ \A table \in {ExtraChars, TerminatingChars, Separators} : table < RomStart
    /\ MaxTables \in Nat \ {0}

IsStory(m) == m \in [Addresses -> Byte] /\ m[16] = 0 /\ m[Flags2] = 16

(* The story file, and the characters that are printed. *)
ASSUME StoryAssumption ==
    \A p \in Programs :
        /\ IsStory(p.memory)
        /\ p.zscii \subseteq Byte
        /\ p.unicode \subseteq Characters

ASSUME ProgramAssumption ==
    \A p \in Programs :
        /\ p.tables \subseteq Addresses         \* where it has tables printed
        /\ p.stores \subseteq Addresses \X Nat  \* its storeb and storew
        /\ p.copies \subseteq Nat \X Nat \X Int   \* the operands of its copy_table
        /\ p.undoes \in BOOLEAN                 \* does it save and restore?
        /\ p.length \in Nat                     \* bound: instructions executed

Length(size) == IF size < 0 THEN -size ELSE size
Span(first, size) == first..first + Length(size) - 1

(* Where copy_table writes: with 0 for its second operand it writes zeros.  *)
Destination(copy) == IF copy[2] = 0 THEN copy[1] ELSE copy[2]

(* Bound: copies lie in the part of memory that is modelled, or go beyond   *)
(* its end, and do not change the word of the header that is RomStart.      *)
ASSUME CopyAssumption ==
    \A p \in Programs : \A copy \in p.copies :
        /\ \A a \in Span(copy[1], copy[3]) : a <= Top => a \in Addresses
        /\ \A a \in Span(Destination(copy), copy[3]) :
                a <= Top => a \in Addresses \ {14, 15}

VARIABLES
    program,
    status,         \* "running", or "failed" with an exception
    memory,         \* zmem
    normalOutput,
    transcripting,  \* io.Transcripting
    fixedPitch,     \* io.ForceFixedPitch
    tables,         \* tableOutputStack, the innermost last
    screen,         \* the character that the last instruction gave to the I/O
    transcript,     \*   module for the screen and for the transcript, or 0
    traps,          \* MemoryTraps: the traps in order of their addresses, and
                    \*   the range that Handle looks at
    loaded,         \* extraChars, terminatingChars, wordSeparators
    undo,           \* the state saved last, if any
    executed,       \* instructions executed
    meant           \* history: for each of tables, what was printed to it, each
                    \*   character as the set of codes that mean it

io == <<transcripting, fixedPitch>>
shown == <<screen, transcript>>
tracked == <<traps, loaded>>
streams == <<normalOutput, tables, meant>>
vars == <<program, status, memory, streams, io, shown, tracked, undo, executed>>

-----------------------------------------------------------------------------
(* Characters.  The extra characters are those from 155 on. *)

CharFromZSCII(extra, code) ==
    IF code = 13 THEN 10
    ELSE IF code \in 155..154 + Len(extra) THEN extra[code - 154] ELSE code

CharToZSCII_NoExtra(extra, ch) == IF ch = 10 THEN 13 ELSE ch
CharToZSCII(extra, ch) ==
    IF ch = 10 THEN 13
    ELSE IF Contains(extra, ch) THEN 154 + SelectInSeq(extra, LAMBDA c : c = ch)
    ELSE ch

-----------------------------------------------------------------------------
(* The tables in memory that are loaded: LoadExtraChars, LoadTerminating-   *)
(* Chars, LoadWordSeparators                                                *)

Tables == {"extra", "terminating", "separators"}

WordAt(m, a) == 256 * m[a] + m[a + 1]

(* The end of the terminating characters: a zero, or 255 for all of them.   *)
EndOfTerminating(m) ==
    CHOOSE a \in TerminatingChars..Top :
        m[a] \in {0, 255} /\ \A b \in TerminatingChars..a - 1 : m[b] \notin {0, 255}

Contents(m, table) ==
    CASE table = "extra" ->
            [k \in 1..m[ExtraChars] |-> WordAt(m, ExtraChars + 2 * k - 1)]
      [] table = "separators" ->
            [k \in 1..m[Separators] |-> m[Separators + k]]
      [] table = "terminating" ->
            IF m[EndOfTerminating(m)] = 255 THEN <<255>>
            ELSE [k \in 1..EndOfTerminating(m) - TerminatingChars |->
                    m[TerminatingChars + k - 1]]

(* The trap for a table.  The terminating characters' has the table's length*)
(* and starts at its end.                                                   *)
Trap(m, table) ==
    CASE table = "extra" ->
            [start |-> ExtraChars, length |-> 2 * m[ExtraChars] + 1, table |-> table]
      [] table = "separators" ->
            [start |-> Separators, length |-> m[Separators] + 1, table |-> table]
      [] table = "terminating" ->
            [start |-> EndOfTerminating(m),
             length |-> EndOfTerminating(m) - TerminatingChars + 1, table |-> table]

-----------------------------------------------------------------------------
(* MemoryTraps *)

NoTraps == [list |-> <<>>, first |-> 0, last |-> -1]

HasTrap(list, start) == \E i \in DOMAIN list : list[i].start = start

(* Where the binary search finds start, or where it would belong. *)
Place(list, start) ==
    CHOOSE p \in 1..Len(list) + 1 :
        \A i \in DOMAIN list : list[i].start < start <=> i < p

(* A second trap with the same start is ignored.  The range of addresses    *)
(* stays as it is.                                                          *)
AddTrap_AtTheEnd(t, trap) ==
    IF HasTrap(t.list, trap.start) THEN t
    ELSE [t EXCEPT !.list = Append(@, trap)]
AddTrap(t, trap) ==
    IF HasTrap(t.list, trap.start) THEN t
    ELSE [t EXCEPT !.list = InsertAt(@, Place(@, trap.start), trap)]

RemoveTrap(t, start) ==
    LET list == RemoveAt(t.list, Place(t.list, start))
    IN  IF ~HasTrap(t.list, start) THEN t
        ELSE IF list = <<>> THEN NoTraps
        ELSE [list |-> list, first |-> list[1].start,
              last |-> Last(list).start + Last(list).length - 1]

(* Loading a table again, with its trap: none if the terminating characters *)
(* end in read-only memory.  s has both variables.                          *)
Load_KeepsTrap(s, m, table) ==
    [loaded |-> [s.loaded EXCEPT ![table] = Contents(m, table)],
     traps |-> IF Trap(m, table).start < RomStart THEN AddTrap(s.traps, Trap(m, table))
               ELSE s.traps]
Load(s, m, table) ==
    [loaded |-> [s.loaded EXCEPT ![table] = Contents(m, table)],
     traps |-> LET trap == Trap(m, table)
               IN  IF trap.start < RomStart
                   THEN AddTrap(RemoveTrap(s.traps, trap.start), trap) ELSE s.traps]

LoadAll(s, m) == Load(Load(Load(s, m, "extra"), m, "terminating"), m, "separators")

(* Handle calls the handlers of the traps that contain the change.  It walks*)
(* the lists that the handlers change, by index.                            *)
Within(start, length, trap) ==
    start >= trap.start /\ start + length <= trap.start + trap.length

OutOfRange_LastIncluded(t, start, length) ==
    start >= t.last \/ start + length - 1 < t.first
OutOfRange(t, start, length) ==
    start > t.last \/ start + length - 1 < t.first

HandleTrap(s, m, start, length, i) ==
    LET trap == s.traps.list[i]
    IN  IF Within(start, length, trap) THEN Load(s, m, trap.table) ELSE s

Handle(s, m, start, length) ==
    LET handled[i \in 0..Len(s.traps.list)] ==
            IF i = 0 THEN s ELSE HandleTrap(handled[i - 1], m, start, length, i)
    IN  IF OutOfRange(s.traps, start, length) THEN s ELSE handled[Len(s.traps.list)]

Tracked == [loaded |-> loaded, traps |-> traps]
TrackedBecomes(s) == loaded' = s.loaded /\ traps' = s.traps

-----------------------------------------------------------------------------
(* ResetHeaderFields: the header's Flags 2 are made from the I/O module's   *)
(* state (with 16, for undo), and the tables are loaded.                    *)

Flags(transcripts, fixes) == 16 + (IF transcripts THEN 1 ELSE 0) + (IF fixes THEN 2 ELSE 0)

WithFlags_FromMemory(m, transcripts, fixes) == [m EXCEPT ![16] = 0]
WithFlags(m, transcripts, fixes) ==
    [m EXCEPT ![16] = 0, ![Flags2] = Flags(transcripts, fixes)]

Bit(n, flags) == (flags \div n) % 2 = 1

ResetHeaderFields(m) ==
    /\ memory' = WithFlags(m, transcripting, fixedPitch)
    /\ transcripting' = Bit(1, memory'[Flags2])
    /\ fixedPitch' = Bit(2, memory'[Flags2])
    /\ TrackedBecomes(LoadAll(Tracked, m))
    /\ normalOutput' = TRUE
    /\ tables' = <<>> /\ meant' = <<>>

NothingSaved == [saved |-> FALSE, memory |-> <<>>]
NothingLoaded == [loaded |-> [table \in Tables |-> <<>>], traps |-> NoTraps]

Init == /\ program \in Programs
        /\ status = "running"
        /\ memory = program.memory
        /\ normalOutput = TRUE
        /\ transcripting = FALSE /\ fixedPitch = FALSE
        /\ tables = <<>> /\ meant = <<>>
        /\ screen = 0 /\ transcript = 0
        /\ loaded = LoadAll(NothingLoaded, program.memory).loaded
        /\ traps = LoadAll(NothingLoaded, program.memory).traps
        /\ undo = NothingSaved
        /\ executed = 0

(* Every instruction counts against the bound. *)
Executes == /\ status = "running" /\ executed < program.length
            /\ executed' = executed + 1
            /\ UNCHANGED program

ShowsNothing == screen' = 0 /\ transcript' = 0
Quietly == Executes /\ ShowsNothing

Fails == /\ status' = "failed"
         /\ UNCHANGED <<memory, streams, io, tracked, undo>>

-----------------------------------------------------------------------------
(* op_output_stream *)

(* The I/O module may refuse to transcribe (the player names no file). *)
Transcribes(on) == transcripting' \in (IF on /\ ~transcripting THEN BOOLEAN ELSE {on})

SelectScreen(enabled) ==
    /\ Quietly
    /\ normalOutput' = enabled
    /\ UNCHANGED <<status, memory, io, tables, meant, tracked, undo>>

SelectTranscript(enabled) ==
    /\ Quietly
    /\ Transcribes(enabled)
    /\ UNCHANGED <<status, memory, fixedPitch, streams, tracked, undo>>

IsTableAddress_OneByte(address) == address >= 64 /\ address < RomStart
IsTableAddress(address) == address >= 64 /\ address + 1 < RomStart

OpenTable(address) ==
    /\ Quietly
    /\ IF Len(tables) = MaxTables \/ ~IsTableAddress(address)
       THEN Fails
       ELSE /\ tables' = Append(tables, [address |-> address, buffer |-> <<>>])
            /\ meant' = Append(meant, <<>>)
            /\ UNCHANGED <<status, memory, normalOutput, io, tracked, undo>>

(* The table's length and as much of its text as there is dynamic memory    *)
(* for.                                                                     *)
Room(address) == RomStart - address - 2
StoredLength(table) ==
    IF Len(table.buffer) < Room(table.address) THEN Len(table.buffer) ELSE Room(table.address)

WithTable(m, table) ==
    [a \in Addresses |->
        IF a = table.address THEN StoredLength(table) \div 256
        ELSE IF a = table.address + 1 THEN StoredLength(table) % 256
        ELSE IF a \in table.address + 2..table.address + 1 + StoredLength(table)
             THEN table.buffer[a - table.address - 1]
        ELSE m[a]]

CloseTable ==
    /\ Quietly
    /\ tables # <<>>
    /\ memory' = WithTable(memory, Last(tables))
    /\ tables' = Front(tables) /\ meant' = Front(meant)
    /\ UNCHANGED <<status, normalOutput, io, tracked, undo>>

(* A number that is no stream's. *)
InvalidStream == Quietly /\ Fails

-----------------------------------------------------------------------------
(* PrintZSCII, PrintUnicode, PrintString *)

Codes(ch) == {code \in Byte : CharFromZSCII(loaded["extra"], code) = ch}

Innermost_Outermost == 1
Innermost == Len(tables)

(* A character, its code, and what it is on the screen. *)
Prints(code, ch) ==
    /\ IF tables # <<>>
       THEN /\ tables' = [tables EXCEPT ![Innermost].buffer = Append(@, code % 256)]
            /\ meant' = [meant EXCEPT ![Len(meant)] =
                    Append(@, IF Codes(ch) = {} THEN Byte ELSE Codes(ch))]
            /\ ShowsNothing
       ELSE /\ screen' = IF normalOutput THEN ch ELSE 0
            /\ transcript' = IF transcripting THEN ch ELSE 0
            /\ UNCHANGED <<tables, meant>>
    /\ UNCHANGED <<status, memory, normalOutput, io, tracked, undo>>

PrintZSCII(code) == /\ Executes /\ code # 0
                    /\ Prints(code, CharFromZSCII(loaded["extra"], code))

PrintUnicode(ch) == Executes /\ Prints(CharToZSCII(loaded["extra"], ch), ch)

(* A string of the story file has been decoded before: one character of it. *)
PrintString(code) ==
    LET ch == CharFromZSCII(loaded["extra"], code)
    IN  Executes /\ code # 0 /\ Prints(CharToZSCII(loaded["extra"], ch), ch)

-----------------------------------------------------------------------------
(* Writes to memory: storeb, storew, copy_table *)

(* What the header takes of a byte. *)
AllowedByte_Whole(address, value) == IF address = Flags2 THEN value ELSE memory[address]
AllowedByte(address, value) ==
    IF address = Flags2 THEN (value % 8) + 8 * (memory[address] \div 8) ELSE memory[address]

(* Flags 2 are looked at when a write starts there. *)
Watches(address, watched) ==
    IF address \in watched
    THEN /\ Transcribes(Bit(1, memory'[Flags2]))
         /\ fixedPitch' = Bit(2, memory'[Flags2])
    ELSE UNCHANGED io

StoreByte(address, value) ==
    /\ Quietly
    /\ memory' = IF address < 64
                 THEN [memory EXCEPT ![address] = AllowedByte(address, value % 256)]
                 ELSE IF address < RomStart THEN [memory EXCEPT ![address] = value % 256]
                 ELSE memory
    /\ Watches(address, {16})
    /\ TrackedBecomes(Handle(Tracked, memory', address, 1))
    /\ UNCHANGED <<status, streams, undo>>

StoreWord(address, value) ==
    LET high == (value \div 256) % 256
        low == value % 256
    IN  /\ Quietly /\ address + 1 \in Addresses
        /\ memory' =
             IF address + 1 >= RomStart THEN memory
             ELSE IF address < 64
             THEN [memory EXCEPT ![address] = AllowedByte(address, high),
                                 ![address + 1] = AllowedByte(address + 1, low)]
             ELSE [memory EXCEPT ![address] = high, ![address + 1] = low]
        /\ Watches(address, {15, 16})
        /\ TrackedBecomes(Handle(Tracked, memory', address, 2))
        /\ UNCHANGED <<status, streams, undo>>

(* A negative size copies byte after byte, even onto bytes to be copied yet:*)
(* what lies between the two addresses is then repeated.                    *)
Copied(m, from, to, size) ==
    LET source(i) == from + (IF size < 0 /\ to > from THEN i % (to - from) ELSE i)
    IN  [a \in Addresses |-> IF a \in Span(to, size) THEN m[source(a - to)] ELSE m[a]]

Zeroed(m, first, size) == [a \in Addresses |-> IF a \in Span(first, size) THEN 0 ELSE m[a]]

(* GetSpan: all of memory, the header and static memory included. *)
HasSpan(first, size) == size >= 0 /\ first + size <= Top + 1

(* What copy_table changes is not looked at as the stores are: Flags 2 may  *)
(* differ from the I/O module's state, and zeros are not trapped where the  *)
(* second operand is a variable.                                            *)
CopyTable(from, to, size) ==
    /\ Quietly
    /\ IF to = 0 /\ HasSpan(from, size)
       THEN /\ memory' = Zeroed(memory, from, size)
            /\ UNCHANGED <<status, streams, io, tracked, undo>>
       ELSE IF to # 0 /\ HasSpan(from, Length(size)) /\ HasSpan(to, Length(size))
       THEN /\ memory' = Copied(memory, from, to, size)
            /\ TrackedBecomes(Handle(Tracked, memory', to, Length(size)))
            /\ UNCHANGED <<status, streams, io, undo>>
       ELSE Fails

(* copy_table with the constant 0. *)
ZeroMemory(address, size) ==
    /\ Quietly
    /\ IF HasSpan(address, size)
       THEN /\ memory' = Zeroed(memory, address, size)
            /\ TrackedBecomes(Handle(Tracked, memory', address, size))
            /\ UNCHANGED <<status, streams, io, undo>>
       ELSE Fails

-----------------------------------------------------------------------------
(* SaveUndo, RestoreUndo and Restart, as far as they concern output *)

SaveUndo ==
    /\ Quietly /\ program.undoes
    /\ undo' = [saved |-> TRUE, memory |-> [a \in Addresses |->
                    IF a < RomStart THEN memory[a] ELSE 0]]
    /\ UNCHANGED <<status, memory, streams, io, tracked>>

RestoreUndo ==
    /\ Quietly /\ undo.saved
    /\ ResetHeaderFields([a \in Addresses |->
            IF a < RomStart THEN undo.memory[a] ELSE memory[a]])
    /\ undo' = NothingSaved
    /\ UNCHANGED status

(* The story file is read again. *)
Restart ==
    /\ Quietly /\ program.undoes
    /\ ResetHeaderFields(program.memory)
    /\ undo' = NothingSaved
    /\ UNCHANGED status

-----------------------------------------------------------------------------
Next ==
    \/ \E enabled \in BOOLEAN : SelectScreen(enabled) \/ SelectTranscript(enabled)
    \/ \E address \in program.tables : OpenTable(address)
    \/ CloseTable
    \/ InvalidStream
    \/ \E code \in program.zscii : PrintZSCII(code) \/ PrintString(code)
    \/ \E ch \in program.unicode : PrintUnicode(ch)
    \/ \E store \in program.stores :
            StoreByte(store[1], store[2]) \/ StoreWord(store[1], store[2])
    \/ \E copy \in program.copies :
            \/ CopyTable(copy[1], copy[2], copy[3])
            \/ copy[2] = 0 /\ ZeroMemory(copy[1], copy[3])
    \/ SaveUndo \/ RestoreUndo \/ Restart

Spec == Init /\ [][Next]_vars

-----------------------------------------------------------------------------
(* Properties *)

Trapped == [start : Addresses, length : Nat, table : Tables]
Table == [address : 64..RomStart - 2, buffer : Seq(Byte)]

TypeOK ==
    /\ program \in Programs
    /\ status \in {"running", "failed"}
    /\ memory \in [Addresses -> Byte]
    /\ {normalOutput, transcripting, fixedPitch} \subseteq BOOLEAN
    /\ tables \in Seq(Table) /\ Len(tables) <= MaxTables /\ Len(meant) = Len(tables)
    /\ \A i \in DOMAIN tables : Len(tables[i].buffer) = Len(meant[i])
    /\ screen \in Characters /\ transcript \in Characters
    /\ traps.list \in Seq(Trapped)
    /\ loaded \in [Tables -> Seq(Characters)]
    /\ undo.saved => undo.memory \in [Addresses -> Byte]
    /\ executed \in 0..program.length

(* A table that is closed holds what was printed while it was the innermost *)
(* one: its length and codes for the same characters, cut off where dynamic *)
(* memory ends; and closing it changes nothing else, whatever tables were   *)
(* opened inside it, wherever they lie.                                     *)
Holds(m, address, text) ==
    /\ WordAt(m, address) = IF Len(text) < Room(address) THEN Len(text) ELSE Room(address)
    /\ \A k \in 1..WordAt(m, address) : m[address + 1 + k] \in text[k]

TablesHoldTheirText ==
    [][CloseTable =>
          LET table == Last(tables)
          IN  /\ Holds(memory', table.address, Last(meant))
              /\ \A a \in Addresses : memory'[a] # memory[a] =>
                    a \in table.address..table.address + 1 + WordAt(memory', table.address)
      ]_vars

(* Nothing that a program does with its stores and streams changes memory   *)
(* that is not dynamic, nor the header but for the three bits of Flags 2    *)
(* that are the program's: only a copy_table whose destination is there     *)
(* does, which the code lets pass, and undo and restart, which bring back   *)
(* another header.                                                          *)
KeepsToDynamic(copy) == Span(Destination(copy), copy[3]) \subseteq 64..RomStart - 1

Strays == \E copy \in program.copies :
            /\ ~KeepsToDynamic(copy)
            /\ CopyTable(copy[1], copy[2], copy[3]) \/ ZeroMemory(copy[1], copy[3])

HeaderAndRomStay ==
    [][Strays \/ RestoreUndo \/ Restart
       \/ /\ \A a \in Addresses \ {Flags2} :
                a < 64 \/ a >= RomStart => memory'[a] = memory[a]
          /\ \/ memory'[Flags2] = memory[Flags2]
             \/ \E bits \in 0..7 : memory'[Flags2] = bits + 8 * (memory[Flags2] \div 8)
      ]_vars

(* Transcribing and the fixed pitch font go on as they were when a game is  *)
(* restored or started again, whatever Flags 2 were when it was saved, and  *)
(* Flags 2 tell so.                                                         *)
TranscriptSurvives ==
    [][RestoreUndo \/ Restart =>
          /\ UNCHANGED io
          /\ Bit(1, memory'[Flags2]) <=> transcripting
          /\ Bit(2, memory'[Flags2]) <=> fixedPitch
      ]_vars

(* The traps stay in order, for the binary search, and those of the extra   *)
(* characters and the separators cover their tables as they were loaded.    *)
Covers(trap, table, start, length) ==
    trap.table = table /\ trap.start = start /\ trap.length = length

TrapsCoverTables ==
    /\ \A i, j \in DOMAIN traps.list : i < j => traps.list[i].start < traps.list[j].start
    /\ \E i \in DOMAIN traps.list :
            Covers(traps.list[i], "extra", ExtraChars, 2 * Len(loaded["extra"]) + 1)
    /\ \E i \in DOMAIN traps.list :
            Covers(traps.list[i], "separators", Separators, Len(loaded["separators"]) + 1)

(* A write within a trap and within the range that Handle looks at loads the*)
(* trap's table again, although the handlers change the lists that Handle   *)
(* walks.                                                                   *)
LoadsAgain(start, length) ==
    length > 0 /\ traps.first <= start /\ start + length - 1 <= traps.last =>
        \A i \in DOMAIN traps.list :
            LET trap == traps.list[i]
            IN  trap.start <= start /\ start + length <= trap.start + trap.length =>
                    loaded'[trap.table] = Contents(memory', trap.table)

TrappedWritesLoadAgain ==
    [][/\ \A store \in program.stores :
            /\ StoreByte(store[1], store[2]) => LoadsAgain(store[1], 1)
            /\ StoreWord(store[1], store[2]) => LoadsAgain(store[1], 2)
       /\ \A copy \in program.copies :
            \/ Fails
            \/ IF copy[2] = 0 THEN ZeroMemory(copy[1], copy[3]) => LoadsAgain(copy[1], copy[3])
               ELSE CopyTable(copy[1], copy[2], copy[3]) =>
                        LoadsAgain(copy[2], Length(copy[3]))]_vars
=============================================================================
