------------------------ MODULE OutputStreams_proofs ------------------------
(* For any layout of memory and any programs: what stores and streams do to *)
(* the header and to read-only memory, what the tables of output stream 3   *)
(* hold when they are closed, that transcribing survives a restore, and     *)
(* that the traps stay with the tables that are loaded, and load them.      *)
EXTENDS OutputStreams, Induction

IsSeq(s) == \E S : s \in Seq(S)

MemoryOK(m) == DOMAIN m = Addresses

IoOK == transcripting \in BOOLEAN /\ fixedPitch \in BOOLEAN

(* A table starts where there is room for its length in dynamic memory. *)
Opened(t) == \E a \in 64..RomStart - 2 : \E b :
                IsSeq(b) /\ t = [address |-> a, buffer |-> b]

TablesOK == IsSeq(tables) /\ \A i \in DOMAIN tables : Opened(tables[i])

MemoryInv == /\ program \in Programs
             /\ MemoryOK(memory)
             /\ IoOK
             /\ TablesOK

-----------------------------------------------------------------------------
(* Sequences and layout *)

LEMMA AppendIsSeq ==
    ASSUME NEW s, IsSeq(s), NEW e
    PROVE  /\ IsSeq(Append(s, e))
           /\ Len(s) \in Nat /\ DOMAIN s = 1..Len(s)
           /\ Len(Append(s, e)) = Len(s) + 1
           /\ DOMAIN Append(s, e) = 1..Len(s) + 1
           /\ \A i \in 1..Len(s) + 1 :
                Append(s, e)[i] = IF i = Len(s) + 1 THEN e ELSE s[i]
<1>1. PICK S : s \in Seq(S)
  BY DEF IsSeq
<1>2. s \in Seq(S \cup {e}) /\ e \in S \cup {e}
  BY <1>1
<1>3. Append(s, e) \in Seq(S \cup {e})
  BY <1>2
<1> QED BY <1>1, <1>2, <1>3 DEF IsSeq

LEMMA FrontIsSeq ==
    ASSUME NEW s, IsSeq(s), s # <<>>
    PROVE  /\ IsSeq(Front(s))
           /\ Len(s) \in Nat \ {0} /\ DOMAIN s = 1..Len(s)
           /\ DOMAIN Front(s) = 1..Len(s) - 1 /\ Len(Front(s)) = Len(s) - 1
           /\ Last(s) = s[Len(s)]
           /\ \A i \in 1..Len(s) - 1 : Front(s)[i] = s[i]
<1>1. PICK S : s \in Seq(S)
  BY DEF IsSeq
<1>2. Len(s) \in Nat \ {0} /\ DOMAIN s = 1..Len(s)
  BY <1>1
<1>3. Front(s) \in Seq(S) /\ Len(Front(s)) = Len(s) - 1
  BY <1>1, <1>2 DEF Front
<1>4. \A i \in 1..Len(s) - 1 : Front(s)[i] = s[i]
  BY <1>1, <1>2 DEF Front
<1> QED BY <1>1, <1>2, <1>3, <1>4 DEF IsSeq, Last

LEMMA Layout ==
    /\ RomStart \in Int /\ Top \in Int /\ 64 < RomStart /\ RomStart <= Top
    /\ \A a \in Addresses : a \in Int
    /\ 16 \in Addresses /\ Flags2 \in Addresses /\ Flags2 # 16
    /\ \A a \in 64..Top : a \in Addresses
    /\ \A a \in Addresses : a < 64 \/ a \in 64..Top
<1>1. RomStart \in 64..Top /\ ExtraChars \in 64..Top /\ ExtraChars < RomStart
  BY LayoutAssumption
<1>2. Top \in Int
  BY LayoutAssumption
<1> QED BY <1>1, <1>2 DEF Addresses, Header, Flags2

LEMMA ByteBounds == \A n : n \in Byte <=> n \in Int /\ 0 <= n /\ n <= 255
BY DEF Byte

LEMMA StoryMemory ==
    ASSUME program \in Programs
    PROVE  /\ DOMAIN program.memory = Addresses
           /\ \A a \in Addresses : program.memory[a] \in Byte
           /\ program.memory[16] = 0 /\ program.memory[Flags2] = 16
<1>1. IsStory(program.memory)
  BY StoryAssumption
<1> QED BY <1>1 DEF IsStory

LEMMA InitMemoryInv == Init => MemoryInv
<1> SUFFICES ASSUME Init PROVE MemoryInv
  OBVIOUS
<1>1. program \in Programs /\ memory = program.memory
  BY DEF Init
<1>2. MemoryOK(memory)
  BY <1>1, StoryMemory DEF MemoryOK
<1>3. IoOK
  BY DEF Init, IoOK
<1>4. TablesOK
  <2>1. tables \in Seq({}) /\ DOMAIN tables = {}
    BY DEF Init
  <2> QED BY <2>1 DEF TablesOK, IsSeq
<1> QED BY <1>1, <1>2, <1>3, <1>4 DEF MemoryInv

-----------------------------------------------------------------------------
(* What each instruction makes of memory *)

LEMMA AllowedFlags ==
    ASSUME NEW value \in Int
    PROVE  /\ value % 8 \in 0..7
           /\ \A flags \in Byte : (value % 8) + 8 * (flags \div 8) \in Byte
<1>1. value % 8 \in 0..7
  OBVIOUS
<1> DEFINE bits == value % 8
<1> HIDE DEF bits
<1>2. \A flags \in Byte : bits \in 0..7 => bits + 8 * (flags \div 8) \in Byte
  BY ByteBounds
<1> QED BY <1>1, <1>2 DEF bits

(* The three bits of Flags 2 that are the program's.                        *)
FlagsKept == \/ memory'[Flags2] = memory[Flags2]
             \/ \E bits \in 0..7 : memory'[Flags2] = bits + 8 * (memory[Flags2] \div 8)

Stays == /\ \A a \in Addresses \ {Flags2} :
                a < 64 \/ a >= RomStart => memory'[a] = memory[a]
         /\ FlagsKept

LEMMA StoredByteMemory ==
    ASSUME MemoryOK(memory), NEW address \in Addresses, NEW value \in Nat,
           StoreByte(address, value)
    PROVE  MemoryOK(memory') /\ Stays
<1>1. CASE address < 64
  <2>1. memory' = [memory EXCEPT ![address] = AllowedByte(address, value % 256)]
    BY <1>1 DEF StoreByte
  <2>2. CASE address = Flags2
    <3> DEFINE bits == (value % 256) % 8
    <3>0. value % 256 \in Int
      OBVIOUS
    <3>1. bits \in 0..7
      BY <3>0, AllowedFlags
    <3>2. memory'[Flags2] = bits + 8 * (memory[Flags2] \div 8)
      BY <2>1, <2>2, Layout DEF AllowedByte, MemoryOK
    <3> HIDE DEF bits
    <3>3. FlagsKept
      BY <3>1, <3>2 DEF FlagsKept
    <3> QED BY <2>1, <2>2, <3>3 DEF MemoryOK, Stays
  <2>3. CASE address # Flags2
    BY <2>1, <2>3 DEF AllowedByte, MemoryOK, Stays, FlagsKept
  <2> QED BY <2>2, <2>3
<1>2. CASE address >= 64
  <2>1. address # Flags2 /\ address \in Int /\ RomStart \in Int
    BY <1>2, Layout DEF Flags2
  <2> QED BY <1>2, <2>1, Layout DEF StoreByte, MemoryOK, Stays, FlagsKept
<1> QED BY <1>1, <1>2, Layout

LEMMA StoredWordMemory ==
    ASSUME MemoryOK(memory), NEW address \in Addresses, NEW value \in Nat,
           StoreWord(address, value)
    PROVE  MemoryOK(memory') /\ Stays
<1> DEFINE high == (value \div 256) % 256
           low == value % 256
<1>0. /\ address \in Int /\ RomStart \in Int /\ 64 < RomStart
      /\ high \in Int /\ low \in Int /\ address + 1 \in Addresses
  BY Layout DEF StoreWord
<1>1. CASE address + 1 >= RomStart
  BY <1>1 DEF StoreWord, Stays, FlagsKept
<1>2. CASE address + 1 < RomStart /\ address < 64
  <2>1. memory' = [memory EXCEPT ![address] = AllowedByte(address, high),
                                 ![address + 1] = AllowedByte(address + 1, low)]
    BY <1>0, <1>2 DEF StoreWord
  <2>2. \A a \in Addresses, v \in Int :
            a # Flags2 => AllowedByte(a, v) = memory[a]
    BY DEF AllowedByte
  <2> HIDE DEF high, low
  <2>4. AllowedByte(address, high) = memory[address] \/ address = Flags2
    BY <1>0, <2>2
  <2>5. AllowedByte(address + 1, low) = memory[address + 1] \/ address + 1 = Flags2
    BY <1>0, <2>2
  <2>6. /\ DOMAIN memory' = Addresses
        /\ \A a \in Addresses \ {Flags2} : memory'[a] = memory[a]
    BY <1>0, <2>1, <2>4, <2>5 DEF MemoryOK
  <2>7. \/ memory'[Flags2] = memory[Flags2]
        \/ \E v \in Int : memory'[Flags2] = AllowedByte(Flags2, v)
    BY <1>0, <2>1, Layout DEF MemoryOK
  <2>8. ASSUME NEW v \in Int, memory'[Flags2] = AllowedByte(Flags2, v) PROVE FlagsKept
    <3> DEFINE bits == v % 8
    <3>1. bits \in 0..7
      BY AllowedFlags
    <3>2. memory'[Flags2] = bits + 8 * (memory[Flags2] \div 8)
      BY <2>8 DEF AllowedByte
    <3> HIDE DEF bits
    <3> QED BY <3>1, <3>2 DEF FlagsKept
  <2>9. FlagsKept
    BY <2>7, <2>8 DEF FlagsKept
  <2> QED BY <2>6, <2>9 DEF MemoryOK, Stays
<1>3. CASE address + 1 < RomStart /\ address >= 64
  <2>1. memory' = [memory EXCEPT ![address] = high, ![address + 1] = low]
    BY <1>0, <1>3 DEF StoreWord
  <2>2. address # Flags2 /\ address + 1 # Flags2
    BY <1>0, <1>3 DEF Flags2
  <2> HIDE DEF high, low
  <2>3. \A a \in Addresses \ {Flags2} :
            a < 64 \/ a >= RomStart => a # address /\ a # address + 1
    BY <1>0, <1>3, Layout
  <2> QED BY <1>0, <2>1, <2>2, <2>3, Layout DEF MemoryOK, Stays, FlagsKept
<1> QED BY <1>0, <1>1, <1>2, <1>3

(* What changes lies in dynamic memory above the header. *)
LEMMA ChangedAboveHeader ==
    ASSUME DOMAIN memory' = Addresses,
           NEW first \in Int, NEW last \in Int, first >= 64, last < RomStart,
           \A a \in Addresses : a \in first..last \/ memory'[a] = memory[a]
    PROVE  Stays
<1>1. RomStart \in Int /\ Flags2 \in Addresses /\ Flags2 < 64
  BY Layout DEF Flags2
<1>2. \A a \in Addresses : a < 64 \/ a >= RomStart => memory'[a] = memory[a]
  BY <1>1, Layout
<1> QED BY <1>1, <1>2 DEF Stays, FlagsKept

(* copy_table reaches all of memory.                                        *)
LEMMA CopiedMemory ==
    ASSUME MemoryOK(memory), NEW copy,
           CopyTable(copy[1], copy[2], copy[3])
             \/ (copy[2] = 0 /\ ZeroMemory(copy[1], copy[3]))
    PROVE  MemoryOK(memory') /\ UNCHANGED <<io, tables, undo>>
<1>1. \/ memory' = Copied(memory, copy[1], copy[2], copy[3])
      \/ memory' = Zeroed(memory, copy[1], copy[3])
      \/ UNCHANGED memory
  BY Zenon DEF CopyTable, ZeroMemory, Fails
<1>2. MemoryOK(memory')
  BY <1>1 DEF MemoryOK, Copied, Zeroed
<1>3. UNCHANGED <<io, tables, undo>>
  BY Zenon DEF CopyTable, ZeroMemory, Fails, streams
<1> QED BY <1>2, <1>3

(* With its destination in dynamic memory it changes nothing else.          *)
LEMMA CopyStays ==
    ASSUME MemoryOK(memory), NEW copy \in Nat \X Nat \X Int, KeepsToDynamic(copy),
           CopyTable(copy[1], copy[2], copy[3])
             \/ (copy[2] = 0 /\ ZeroMemory(copy[1], copy[3]))
    PROVE  Stays
<1> DEFINE to == Destination(copy)
           span == Span(to, copy[3])
<1>1. span \subseteq 64..RomStart - 1
  BY DEF KeepsToDynamic
<1>2. \/ /\ copy[2] # 0
         /\ memory' = Copied(memory, copy[1], copy[2], copy[3])
      \/ /\ copy[2] = 0
         /\ memory' = Zeroed(memory, copy[1], copy[3])
      \/ UNCHANGED memory
  BY Zenon DEF CopyTable, ZeroMemory, Fails
<1>3. \A a \in Addresses : a \in span \/ memory'[a] = memory[a]
  BY <1>2 DEF Copied, Zeroed, Destination
<1> HIDE DEF span
<1>4. \A a \in Addresses : a < 64 \/ a >= RomStart => memory'[a] = memory[a]
  BY <1>1, <1>3, Layout
<1>5. Flags2 \in Addresses /\ Flags2 < 64
  BY Layout DEF Flags2
<1> QED BY <1>4, <1>5 DEF Stays, FlagsKept

(* A table that is closed: its text ends in dynamic memory. *)
LEMMA RoomForTables ==
    ASSUME NEW t, Opened(t)
    PROVE  /\ t.address \in 64..RomStart - 2 /\ t.address \in Int
           /\ IsSeq(t.buffer) /\ Len(t.buffer) \in Nat
           /\ Room(t.address) \in Nat
           /\ StoredLength(t) \in Nat /\ StoredLength(t) <= Len(t.buffer)
           /\ t.address + 1 + StoredLength(t) < RomStart
<1>0. PICK a \in 64..RomStart - 2 : \E b : IsSeq(b) /\ t = [address |-> a, buffer |-> b]
  BY DEF Opened
<1>1. PICK b : a \in 64..RomStart - 2 /\ IsSeq(b) /\ t = [address |-> a, buffer |-> b]
  BY <1>0
<1>2. t.address = a /\ t.buffer = b
  BY <1>1
<1>3. Len(b) \in Nat /\ a \in Int /\ RomStart \in Int
  BY <1>1, Layout DEF IsSeq
<1>4. Room(a) \in Nat /\ Room(a) = RomStart - a - 2
  BY <1>1, <1>3 DEF Room
<1>5. StoredLength(t) = IF Len(b) < Room(a) THEN Len(b) ELSE Room(a)
  BY <1>2 DEF StoredLength
<1>6. /\ StoredLength(t) \in Nat /\ StoredLength(t) <= Len(b)
      /\ a + 1 + StoredLength(t) < RomStart
  <2>1. CASE Len(b) < Room(a)
    BY <1>3, <1>4, <1>5, <2>1
  <2>2. CASE ~(Len(b) < Room(a))
    BY <1>3, <1>4, <1>5, <2>2
  <2> QED BY <2>1, <2>2
<1> QED BY <1>1, <1>2, <1>3, <1>4, <1>6

LEMMA ClosedMemory ==
    ASSUME MemoryOK(memory), TablesOK, CloseTable
    PROVE  /\ MemoryOK(memory') /\ Stays
           /\ Last(tables) = tables[Len(tables)] /\ Opened(Last(tables))
<1> DEFINE t == Last(tables)
           last == t.address + 1 + StoredLength(t)
<1>1. tables # <<>> /\ memory' = WithTable(memory, t)
  BY DEF CloseTable
<1>2. t = tables[Len(tables)] /\ Opened(t)
  BY <1>1, FrontIsSeq DEF TablesOK
<1>3. /\ t.address \in 64..RomStart - 2 /\ t.address \in Int
      /\ StoredLength(t) \in Nat /\ last < RomStart
  BY <1>2, RoomForTables
<1> HIDE DEF t
<1>4. /\ DOMAIN memory' = Addresses
      /\ \A a \in Addresses : a \in t.address..last \/ memory'[a] = memory[a]
  BY SMTT(30), <1>1, <1>3, Layout DEF WithTable
<1>5. last \in Int /\ t.address >= 64
  BY <1>3, Layout
<1> HIDE DEF last
<1>6. MemoryOK(memory') /\ Stays
  BY <1>3, <1>4, <1>5, ChangedAboveHeader DEF MemoryOK
<1> QED BY <1>2, <1>6 DEF t

-----------------------------------------------------------------------------
(* Restoring and starting again *)

LEMMA FlagsOK ==
    ASSUME NEW transcripts \in BOOLEAN, NEW fixes \in BOOLEAN,
           NEW flags, flags = Flags(transcripts, fixes)
    PROVE  /\ flags \in Byte
           /\ Bit(1, flags) <=> transcripts
           /\ Bit(2, flags) <=> fixes
<1>1. CASE transcripts /\ fixes
  <2>1. flags = 19
    BY <1>1 DEF Flags
  <2>2. flags \in Byte /\ flags \div 8 = 2
    BY <2>1 DEF Byte
  <2>3. Bit(1, flags) /\ Bit(2, flags)
    BY <2>1 DEF Bit
  <2> QED BY <1>1, <2>2, <2>3
<1>2. CASE transcripts /\ ~fixes
  <2>1. flags = 17
    BY <1>2 DEF Flags
  <2>2. flags \in Byte /\ flags \div 8 = 2
    BY <2>1 DEF Byte
  <2>3. Bit(1, flags) /\ ~Bit(2, flags)
    BY <2>1 DEF Bit
  <2> QED BY <1>2, <2>2, <2>3
<1>3. CASE ~transcripts /\ fixes
  <2>1. flags = 18
    BY <1>3 DEF Flags
  <2>2. flags \in Byte /\ flags \div 8 = 2
    BY <2>1 DEF Byte
  <2>3. ~Bit(1, flags) /\ Bit(2, flags)
    BY <2>1 DEF Bit
  <2> QED BY <1>3, <2>2, <2>3
<1>4. CASE ~transcripts /\ ~fixes
  <2>1. flags = 16
    BY <1>4 DEF Flags
  <2>2. flags \in Byte /\ flags \div 8 = 2
    BY <2>1 DEF Byte
  <2>3. ~Bit(1, flags) /\ ~Bit(2, flags)
    BY <2>1 DEF Bit
  <2> QED BY <1>4, <2>2, <2>3
<1> QED BY <1>1, <1>2, <1>3, <1>4

LEMMA ResetHeader ==
    ASSUME NEW m, IoOK, DOMAIN m = Addresses, ResetHeaderFields(m)
    PROVE  /\ MemoryOK(memory') /\ TablesOK'
           /\ UNCHANGED io
           /\ Bit(1, memory'[Flags2]) <=> transcripting
           /\ Bit(2, memory'[Flags2]) <=> fixedPitch
<1> DEFINE flags == Flags(transcripting, fixedPitch)
<1>1. memory' = [m EXCEPT ![16] = 0, ![Flags2] = flags]
  BY DEF ResetHeaderFields, WithFlags
<1> HIDE DEF flags
<1>2. /\ DOMAIN memory' = Addresses /\ memory'[Flags2] = flags /\ memory'[16] = 0
      /\ \A a \in Addresses \ {16, Flags2} : memory'[a] = m[a]
  BY <1>1, Layout
<1>3. /\ Bit(1, flags) <=> transcripting
      /\ Bit(2, flags) <=> fixedPitch
  BY FlagsOK DEF flags, IoOK
<1>4. MemoryOK(memory')
  BY <1>2 DEF MemoryOK
<1>5. UNCHANGED io
  <2>1. transcripting' = Bit(1, flags) /\ fixedPitch' = Bit(2, flags)
    BY <1>2, Zenon DEF ResetHeaderFields
  <2>2. Bit(1, flags) \in BOOLEAN /\ Bit(2, flags) \in BOOLEAN
    BY DEF Bit
  <2> QED BY <1>3, <2>1, <2>2, Zenon DEF io, IoOK
<1>6. TablesOK'
  <2>1. tables' \in Seq({}) /\ DOMAIN tables' = {}
    BY DEF ResetHeaderFields
  <2> QED BY <2>1 DEF TablesOK, IsSeq
<1> QED BY <1>2, <1>3, <1>4, <1>5, <1>6

-----------------------------------------------------------------------------
(* The stack of tables *)

LEMMA OpenedTables ==
    ASSUME TablesOK, NEW address \in Addresses, IsTableAddress(address),
           tables' = Append(tables, [address |-> address, buffer |-> <<>>])
    PROVE  TablesOK'
<1> DEFINE t == [address |-> address, buffer |-> <<>>]
<1>1. address \in 64..RomStart - 2
  BY Layout DEF IsTableAddress
<1>2. IsSeq(<<>>)
  <2>1. <<>> \in Seq({})
    OBVIOUS
  <2> QED BY <2>1 DEF IsSeq
<1>3. Opened(t)
  BY <1>1, <1>2 DEF Opened
<1> HIDE DEF t
<1>4. /\ IsSeq(tables') /\ DOMAIN tables' = 1..Len(tables) + 1
      /\ Len(tables) \in Nat /\ DOMAIN tables = 1..Len(tables)
      /\ \A i \in 1..Len(tables) + 1 :
            tables'[i] = IF i = Len(tables) + 1 THEN t ELSE tables[i]
  BY AppendIsSeq DEF TablesOK, t
<1>5. ASSUME NEW i \in 1..Len(tables) + 1 PROVE Opened(tables'[i])
  BY <1>3, <1>4, <1>5 DEF TablesOK
<1> QED BY <1>4, <1>5 DEF TablesOK

LEMMA ClosedTables ==
    ASSUME TablesOK, tables # <<>>, tables' = Front(tables)
    PROVE  TablesOK'
<1>1. /\ IsSeq(tables') /\ Len(tables) \in Nat \ {0} /\ DOMAIN tables = 1..Len(tables)
      /\ DOMAIN tables' = 1..Len(tables) - 1
      /\ \A i \in 1..Len(tables) - 1 : tables'[i] = tables[i]
  BY FrontIsSeq DEF TablesOK
<1>2. \A i \in 1..Len(tables) - 1 : i \in DOMAIN tables
  BY <1>1
<1> QED BY <1>1, <1>2 DEF TablesOK

(* A character more in the innermost table. *)
LEMMA PrintedTable ==
    ASSUME NEW t, Opened(t), NEW byte, NEW s,
           s = [t EXCEPT !.buffer = Append(t.buffer, byte)]
    PROVE  /\ Opened(s) /\ s.address = t.address
           /\ s.buffer = Append(t.buffer, byte)
<1>0. PICK a \in 64..RomStart - 2 : \E b : IsSeq(b) /\ t = [address |-> a, buffer |-> b]
  BY DEF Opened
<1>1. PICK b : a \in 64..RomStart - 2 /\ IsSeq(b) /\ t = [address |-> a, buffer |-> b]
  BY <1>0
<1>2. t.address = a /\ t.buffer = b
  BY <1>1
<1>3. s = [address |-> a, buffer |-> Append(b, byte)]
  BY <1>1, <1>2
<1>4. IsSeq(Append(b, byte))
  BY <1>1, AppendIsSeq
<1> QED BY <1>2, <1>3, <1>4 DEF Opened

LEMMA PrintedTables ==
    ASSUME TablesOK, tables # <<>>, NEW byte,
           tables' = [tables EXCEPT ![Innermost].buffer = Append(@, byte)]
    PROVE  /\ TablesOK'
           /\ Len(tables) \in Nat \ {0} /\ Innermost = Len(tables)
           /\ DOMAIN tables = 1..Len(tables) /\ DOMAIN tables' = DOMAIN tables
           /\ \A i \in DOMAIN tables : i # Innermost => tables'[i] = tables[i]
           /\ tables'[Innermost].buffer = Append(tables[Innermost].buffer, byte)
<1> DEFINE t == tables[Innermost]
           s == [t EXCEPT !.buffer = Append(t.buffer, byte)]
<1>1. Innermost = Len(tables)
  BY DEF Innermost
<1>2. PICK S : tables \in Seq(S)
  BY DEF TablesOK, IsSeq
<1>3. /\ Len(tables) \in Nat \ {0} /\ DOMAIN tables = 1..Len(tables)
      /\ Innermost \in DOMAIN tables
  BY <1>1, <1>2
<1>4. Opened(t)
  BY <1>3 DEF TablesOK
<1>5. tables' = [tables EXCEPT ![Innermost] = s]
  OBVIOUS
<1>6. Opened(s) /\ s.buffer = Append(t.buffer, byte)
  BY <1>4, PrintedTable
<1> HIDE DEF s
<1>7. /\ DOMAIN tables' = DOMAIN tables /\ tables'[Innermost] = s
      /\ \A i \in DOMAIN tables : i # Innermost => tables'[i] = tables[i]
  BY <1>3, <1>5
<1>8. IsSeq(tables')
  <2>1. tables \in Seq(S \cup {s}) /\ s \in S \cup {s}
    BY <1>2
  <2>2. tables' \in Seq(S \cup {s})
    BY <1>3, <1>5, <2>1
  <2> QED BY <2>2 DEF IsSeq
<1>9. ASSUME NEW i \in DOMAIN tables PROVE Opened(tables'[i])
  BY <1>6, <1>7 DEF TablesOK
<1> QED BY <1>1, <1>3, <1>6, <1>7, <1>8, <1>9 DEF TablesOK

-----------------------------------------------------------------------------
(* Every step *)

LEMMA TranscribesBoolean ==
    ASSUME NEW on \in BOOLEAN, Transcribes(on)
    PROVE  transcripting' \in BOOLEAN
BY Zenon DEF Transcribes

LEMMA WatchedIo ==
    ASSUME IoOK, NEW address, NEW watched, Watches(address, watched)
    PROVE  IoOK'
<1>1. CASE address \in watched
  <2>1. Bit(1, memory'[Flags2]) \in BOOLEAN /\ Bit(2, memory'[Flags2]) \in BOOLEAN
    BY DEF Bit
  <2>2. Transcribes(Bit(1, memory'[Flags2])) /\ fixedPitch' = Bit(2, memory'[Flags2])
    BY <1>1, Zenon DEF Watches
  <2> QED BY <2>1, <2>2, TranscribesBoolean, Zenon DEF IoOK
<1>2. CASE address \notin watched
  BY <1>2, Zenon DEF Watches, io, IoOK
<1> QED BY <1>1, <1>2

LEMMA Unchanged ==
    /\ MemoryOK(memory) /\ UNCHANGED memory => MemoryOK(memory')
    /\ IoOK /\ UNCHANGED io => IoOK'
    /\ TablesOK /\ UNCHANGED tables => TablesOK'
<1>1. MemoryOK(memory) /\ UNCHANGED memory => MemoryOK(memory')
  BY DEF MemoryOK
<1>2. IoOK /\ UNCHANGED io => IoOK'
  BY Zenon DEF IoOK, io
<1>3. TablesOK /\ UNCHANGED tables => TablesOK'
  BY DEF TablesOK
<1> QED BY <1>1, <1>2, <1>3

LEMMA ProgramTypes ==
    ASSUME program \in Programs
    PROVE  /\ \A address \in program.tables : address \in Addresses
           /\ \A store \in program.stores : store[1] \in Addresses /\ store[2] \in Nat
           /\ \A copy \in program.copies :
                /\ copy \in Nat \X Nat \X Int
                /\ copy[1] \in Nat /\ copy[2] \in Nat /\ copy[3] \in Int
           /\ \A code \in program.zscii : code \in Byte
           /\ \A ch \in program.unicode : ch \in Characters
<1>1. /\ program.tables \subseteq Addresses
      /\ program.stores \subseteq Addresses \X Nat
      /\ program.copies \subseteq Nat \X Nat \X Int
  BY ProgramAssumption
<1>2. program.zscii \subseteq Byte /\ program.unicode \subseteq Characters
  BY StoryAssumption
<1> QED BY <1>1, <1>2

LEMMA SameProgram == [Next]_vars => UNCHANGED program
<1>1. Next => UNCHANGED program
  BY Zenon DEF Next, SelectScreen, SelectTranscript, OpenTable, CloseTable,
     InvalidStream, PrintZSCII, PrintUnicode, PrintString, StoreByte, StoreWord,
     CopyTable, ZeroMemory, SaveUndo, RestoreUndo, Restart, Quietly, Executes
<1> QED BY <1>1 DEF vars

LEMMA NextMemoryInv == MemoryInv /\ [Next]_vars => MemoryInv'
<1> SUFFICES ASSUME MemoryInv, [Next]_vars PROVE MemoryInv'
  OBVIOUS
<1>u. /\ program \in Programs /\ MemoryOK(memory) /\ IoOK /\ TablesOK
  BY DEF MemoryInv
<1>p. UNCHANGED program
  BY SameProgram
<1>m. MemoryOK(memory') => MemoryOK(memory)'
  BY <1>p DEF MemoryOK
<1> USE DEF streams
<1>1. CASE UNCHANGED vars
  BY <1>1, <1>u, <1>p, <1>m, Unchanged DEF vars, MemoryInv
<1>2. ASSUME NEW enabled \in BOOLEAN, SelectScreen(enabled) PROVE MemoryInv'
  BY <1>2, <1>u, <1>p, <1>m, Unchanged DEF SelectScreen, MemoryInv
<1>3. ASSUME NEW enabled \in BOOLEAN, SelectTranscript(enabled) PROVE MemoryInv'
  <2>1. IoOK'
    BY <1>3, <1>u, TranscribesBoolean, Zenon DEF SelectTranscript, IoOK
  <2> QED BY <1>3, <1>u, <1>p, <1>m, <2>1, Unchanged DEF SelectTranscript, MemoryInv
<1>4. ASSUME NEW address \in program.tables, OpenTable(address) PROVE MemoryInv'
  <2>1. address \in Addresses
    BY <1>u, ProgramTypes
  <2>2. UNCHANGED <<memory, io, undo>>
    BY <1>4, Zenon DEF OpenTable, Fails
  <2>3. \/ UNCHANGED tables
        \/ /\ IsTableAddress(address)
           /\ tables' = Append(tables, [address |-> address, buffer |-> <<>>])
    BY <1>4, Zenon DEF OpenTable, Fails
  <2>4. TablesOK'
    BY <1>u, <2>1, <2>3, OpenedTables, Unchanged
  <2> QED BY <1>u, <1>p, <1>m, <2>2, <2>4, Unchanged DEF MemoryInv
<1>5. CASE CloseTable
  <2>1. MemoryOK(memory')
    BY <1>5, <1>u, ClosedMemory
  <2>2. TablesOK'
    BY <1>5, <1>u, ClosedTables DEF CloseTable
  <2>3. UNCHANGED <<io, undo>>
    BY <1>5 DEF CloseTable
  <2> QED BY <1>u, <1>p, <1>m, <2>1, <2>2, <2>3, Unchanged DEF MemoryInv
<1>6. CASE InvalidStream
  BY <1>6, <1>u, <1>p, <1>m, Unchanged DEF InvalidStream, Fails, MemoryInv
<1>7. ASSUME NEW code, NEW ch, Prints(code, ch) PROVE MemoryInv'
  <2>1. UNCHANGED <<memory, io, undo>>
    BY <1>7, Zenon DEF Prints
  <2>2. \/ UNCHANGED tables
        \/ /\ tables # <<>>
           /\ tables' = [tables EXCEPT ![Innermost].buffer = Append(@, code % 256)]
    BY <1>7 DEF Prints
  <2>3. TablesOK'
    BY <1>u, <2>2, PrintedTables, Unchanged
  <2> QED BY <1>u, <1>p, <1>m, <2>1, <2>3, Unchanged DEF MemoryInv
<1>8. ASSUME NEW store \in program.stores, StoreByte(store[1], store[2])
      PROVE  MemoryInv'
  <2>1. store[1] \in Addresses /\ store[2] \in Nat
    BY <1>u, ProgramTypes
  <2>2. MemoryOK(memory')
    BY <1>8, <1>u, <2>1, StoredByteMemory
  <2>3. IoOK'
    BY <1>8, <1>u, WatchedIo DEF StoreByte
  <2>4. UNCHANGED <<tables, undo>>
    BY <1>8 DEF StoreByte
  <2> QED BY <1>u, <1>p, <1>m, <2>2, <2>3, <2>4, Unchanged DEF MemoryInv
<1>9. ASSUME NEW store \in program.stores, StoreWord(store[1], store[2])
      PROVE  MemoryInv'
  <2>1. store[1] \in Addresses /\ store[2] \in Nat
    BY <1>u, ProgramTypes
  <2>2. MemoryOK(memory')
    BY <1>9, <1>u, <2>1, StoredWordMemory
  <2>3. IoOK'
    BY <1>9, <1>u, WatchedIo DEF StoreWord
  <2>4. UNCHANGED <<tables, undo>>
    BY <1>9 DEF StoreWord
  <2> QED BY <1>u, <1>p, <1>m, <2>2, <2>3, <2>4, Unchanged DEF MemoryInv
<1>10. ASSUME NEW copy \in program.copies,
              CopyTable(copy[1], copy[2], copy[3])
                \/ (copy[2] = 0 /\ ZeroMemory(copy[1], copy[3]))
       PROVE  MemoryInv'
  <2>1. MemoryOK(memory') /\ UNCHANGED <<io, tables>>
    BY <1>10, <1>u, CopiedMemory
  <2> QED BY <1>u, <1>p, <1>m, <2>1, Unchanged DEF MemoryInv
<1>11. CASE SaveUndo
  BY <1>11, <1>u, <1>p, <1>m, Unchanged DEF SaveUndo, MemoryInv
<1>12. ASSUME NEW m, DOMAIN m = Addresses, ResetHeaderFields(m) PROVE MemoryInv'
  <2>1. MemoryOK(memory') /\ TablesOK' /\ UNCHANGED io
    BY <1>12, <1>u, ResetHeader
  <2> QED BY <1>u, <1>p, <1>m, <2>1, Unchanged DEF MemoryInv
<1>13. CASE RestoreUndo
  BY <1>12, <1>13 DEF RestoreUndo
<1>14. CASE Restart
  <2>1. ResetHeaderFields(program.memory)
    BY <1>14 DEF Restart
  <2> QED BY <1>12, <1>u, <2>1, StoryMemory
<1> QED BY <1>1, <1>2, <1>3, <1>4, <1>5, <1>6, <1>7, <1>8, <1>9, <1>10, <1>11,
           <1>13, <1>14 DEF Next, PrintZSCII, PrintUnicode, PrintString

OnlyStrays == Strays \/ RestoreUndo \/ Restart \/ Stays

(* Neither the header, but for the program's bits of Flags 2, nor read-only *)
(* memory changes by stores, tables and streams, nor by a copy_table whose  *)
(* destination is in dynamic memory (ZMachine.cs, SetByteChecked and        *)
(* ValidHeaderWrite; Output.cs, the length of a table that is closed): only *)
(* by one whose destination is not, because CopyTableImpl checks nothing,   *)
(* and by undo and restart.                                                 *)
THEOREM HeaderAndRomAlwaysStay == Spec => HeaderAndRomStay
<1>1. MemoryInv /\ [Next]_vars => [OnlyStrays]_vars
  <2> SUFFICES ASSUME MemoryInv, Next PROVE OnlyStrays
    OBVIOUS
  <2>u. program \in Programs /\ MemoryOK(memory) /\ TablesOK
    BY DEF MemoryInv
  <2>0. UNCHANGED memory => Stays
    BY DEF Stays, FlagsKept
  <2>1. CASE CloseTable
    BY <2>1, <2>u, ClosedMemory DEF OnlyStrays
  <2>2. ASSUME NEW store \in program.stores, StoreByte(store[1], store[2])
        PROVE  OnlyStrays
    BY <2>2, <2>u, ProgramTypes, StoredByteMemory DEF OnlyStrays
  <2>3. ASSUME NEW store \in program.stores, StoreWord(store[1], store[2])
        PROVE  OnlyStrays
    BY <2>3, <2>u, ProgramTypes, StoredWordMemory DEF OnlyStrays
  <2>4. ASSUME NEW copy \in program.copies,
               CopyTable(copy[1], copy[2], copy[3])
                 \/ (copy[2] = 0 /\ ZeroMemory(copy[1], copy[3]))
        PROVE  OnlyStrays
    <3>1. CASE KeepsToDynamic(copy)
      <4>1. copy \in Nat \X Nat \X Int
        BY <2>u, ProgramTypes
      <4>2. Stays
        BY <2>4, <2>u, <3>1, <4>1, CopyStays
      <4> QED BY <4>2 DEF OnlyStrays
    <3>2. CASE ~KeepsToDynamic(copy)
      BY <2>4, <3>2, Zenon DEF OnlyStrays, Strays
    <3> QED BY <3>1, <3>2
  <2>5. CASE RestoreUndo \/ Restart
    BY <2>5 DEF OnlyStrays
  <2>6. \/ UNCHANGED memory
        \/ CloseTable
        \/ \E store \in program.stores :
                StoreByte(store[1], store[2]) \/ StoreWord(store[1], store[2])
        \/ \E copy \in program.copies :
                CopyTable(copy[1], copy[2], copy[3])
                  \/ (copy[2] = 0 /\ ZeroMemory(copy[1], copy[3]))
        \/ RestoreUndo \/ Restart
    BY Zenon DEF Next, SelectScreen, SelectTranscript, OpenTable, InvalidStream, Fails,
        PrintZSCII, PrintUnicode, PrintString, Prints, SaveUndo
  <2> QED BY <2>0, <2>1, <2>2, <2>3, <2>4, <2>5, <2>6 DEF OnlyStrays
<1> QED BY InitMemoryInv, NextMemoryInv, <1>1, PTL
        DEF Spec, HeaderAndRomStay, OnlyStrays, Stays, FlagsKept

Survives ==
    RestoreUndo \/ Restart =>
        /\ UNCHANGED io
        /\ Bit(1, memory'[Flags2]) <=> transcripting
        /\ Bit(2, memory'[Flags2]) <=> fixedPitch

(* A restored or restarted game goes on transcribing, and Flags 2 say so,   *)
(* whatever they were when it was saved (ZMachine.cs, ResetHeaderFields).   *)
THEOREM TranscriptAlwaysSurvives == Spec => TranscriptSurvives
<1>1. MemoryInv /\ [Next]_vars => [Survives]_vars
  <2> SUFFICES ASSUME MemoryInv, [Next]_vars, RestoreUndo \/ Restart
               PROVE  /\ UNCHANGED io
                      /\ Bit(1, memory'[Flags2]) <=> transcripting
                      /\ Bit(2, memory'[Flags2]) <=> fixedPitch
    BY DEF Survives
  <2>1. program \in Programs /\ IoOK
    BY DEF MemoryInv
  <2>2. CASE RestoreUndo
    BY <2>1, <2>2, ResetHeader DEF RestoreUndo
  <2>3. CASE Restart
    <3>1. ResetHeaderFields(program.memory)
      BY <2>3 DEF Restart
    <3> QED BY <2>1, <3>1, StoryMemory, ResetHeader
  <2> QED BY <2>2, <2>3
<1> QED BY InitMemoryInv, NextMemoryInv, <1>1, PTL DEF Spec, TranscriptSurvives, Survives

-----------------------------------------------------------------------------
(* Characters and their codes *)

LEMMA FirstIndex ==
    ASSUME NEW S, NEW s \in Seq(S), NEW c, Contains(s, c)
    PROVE  LET k == SelectInSeq(s, LAMBDA d : d = c)
           IN  k \in 1..Len(s) /\ s[k] = c
<1> DEFINE I == {i \in 1..Len(s) : s[i] = c}
<1>1. I # {} /\ I \subseteq Nat
  BY DEF Contains
<1>3. SelectInSeq(s, LAMBDA d : d = c) = Min(I)
  BY <1>1, Zenon DEF SelectInSeq
<1> HIDE DEF I
<1>4. Min(I) \in I
  BY <1>1, MinIsLeast, Zenon
<1> QED BY <1>3, <1>4 DEF I

(* There are codes up to 255 for 101 extra characters; more of them, which  *)
(* the Standard forbids, are not bounded by the code.                       *)
ExtraCharsFit == loaded["extra"] \in Seq(Characters) /\ Len(loaded["extra"]) <= 101

(* (The provers spell out an interval of numbers up to 65535.) *)
LEMMA MaxCharacterIs ==
    MaxCharacter \in Int /\ MaxCharacter <= 65535 /\ 65535 <= MaxCharacter
BY DEF MaxCharacter

LEMMA CharactersAreNumbers == \A n \in Characters : n \in Int
BY MaxCharacterIs DEF Characters

LEMMA ByteOfCode ==
    ASSUME NEW code \in Byte
    PROVE  code % 256 = code /\ code \in Codes(CharFromZSCII(loaded["extra"], code))
<1>1. code \in Int /\ 0 <= code /\ code <= 255
  BY ByteBounds
<1> QED BY <1>1 DEF Codes

(* A character is printed to a table by a code that means it, if there is   *)
(* one: the first of the extra characters' if it is among them.             *)
LEMMA CodeMeansCharacter ==
    ASSUME ExtraCharsFit, NEW ch \in Int, NEW code,
           code = CharToZSCII(loaded["extra"], ch)
    PROVE  code % 256 \in (IF Codes(ch) = {} THEN Byte ELSE Codes(ch))
<1> DEFINE extra == loaded["extra"]
<1>0. extra \in Seq(Characters) /\ Len(extra) \in Nat /\ Len(extra) <= 101
  BY DEF ExtraCharsFit
<1> HIDE DEF extra
<1>1. CASE ch = 10
  <2>1. code = 13 /\ 13 \in Byte
    BY <1>1, ByteBounds DEF CharToZSCII
  <2>2. CharFromZSCII(loaded["extra"], 13) = ch
    BY <1>1 DEF CharFromZSCII
  <2> QED BY <2>1, <2>2 DEF Codes
<1>2. CASE ch # 10 /\ Contains(extra, ch)
  <2> DEFINE k == SelectInSeq(extra, LAMBDA c : c = ch)
  <2>1. k \in 1..Len(extra) /\ extra[k] = ch
    BY <1>0, <1>2, FirstIndex
  <2>2. code = 154 + k
    BY <1>2 DEF CharToZSCII, extra
  <2> HIDE DEF k
  <2>3. /\ code \in Byte /\ code % 256 = code
        /\ code # 13 /\ code \in 155..154 + Len(extra) /\ code - 154 = k
    BY <1>0, <2>1, <2>2, ByteBounds
  <2>4. CharFromZSCII(loaded["extra"], code) = ch
    BY <2>1, <2>3 DEF CharFromZSCII, extra
  <2> QED BY <2>3, <2>4 DEF Codes
<1>3. CASE ch # 10 /\ ~Contains(extra, ch)
  <2>1. code = ch
    BY <1>3 DEF CharToZSCII, extra
  <2>2. code % 256 \in Byte
    BY <2>1, ByteBounds
  <2>3. ASSUME NEW c \in Codes(ch) PROVE c = ch
    <3>1. c \in Byte /\ c \in Int /\ CharFromZSCII(loaded["extra"], c) = ch
      BY ByteBounds DEF Codes
    <3>2. \A k \in 1..Len(extra) : extra[k] # ch
      BY <1>3 DEF Contains
    <3>3. c \in 155..154 + Len(extra) => c - 154 \in 1..Len(extra)
      BY <1>0, <3>1
    <3> QED BY <1>3, <3>1, <3>2, <3>3 DEF CharFromZSCII, extra
  <2>4. CASE Codes(ch) = {}
    BY <2>2, <2>4
  <2>5. CASE Codes(ch) # {}
    <3>1. ch \in Codes(ch)
      BY <2>3, <2>5
    <3>2. ch % 256 = ch
      BY <3>1, ByteBounds DEF Codes
    <3> QED BY <2>1, <2>5, <3>1, <3>2
  <2> QED BY <2>4, <2>5
<1> QED BY <1>1, <1>2, <1>3

LEMMA CharacterOfCode ==
    ASSUME ExtraCharsFit, NEW code \in Byte
    PROVE  CharFromZSCII(loaded["extra"], code) \in Int
<1>1. \A n \in Characters : n \in Int
  BY CharactersAreNumbers
<1>2. code \in Int
  BY ByteBounds
<1>3. CASE code \in 155..154 + Len(loaded["extra"])
  <2>1. loaded["extra"] \in Seq(Characters) /\ code - 154 \in 1..Len(loaded["extra"])
    BY <1>2, <1>3 DEF ExtraCharsFit
  <2>2. loaded["extra"][code - 154] \in Int
    BY <1>1, <2>1
  <2> QED BY <1>3, <2>2 DEF CharFromZSCII
<1>4. CASE code \notin 155..154 + Len(loaded["extra"])
  BY <1>2, <1>4 DEF CharFromZSCII
<1> QED BY <1>3, <1>4

-----------------------------------------------------------------------------
(* What the tables hold *)

(* A table has as many codes as there was text, and if there are codes for  *)
(* all characters, each for its own: what is kept, "codes" or "lengths".    *)
TextKept(t, text, kept) ==
    /\ IsSeq(text)
    /\ Len(text) = Len(t.buffer)
    /\ kept = "codes" => \A k \in 1..Len(text) : t.buffer[k] \in text[k]

MeantInv(kept) == /\ IsSeq(meant) /\ Len(meant) = Len(tables)
                  /\ \A i \in DOMAIN tables : TextKept(tables[i], meant[i], kept)

LEMMA InitMeantInv == \A kept : Init => MeantInv(kept)
<1> SUFFICES ASSUME NEW kept, Init PROVE MeantInv(kept)
  OBVIOUS
<1>1. /\ tables \in Seq({}) /\ meant \in Seq({}) /\ DOMAIN tables = {}
      /\ Len(meant) = Len(tables)
  BY DEF Init
<1> QED BY <1>1 DEF MeantInv, IsSeq

LEMMA OpenedMeant ==
    ASSUME NEW kept, TablesOK, MeantInv(kept), NEW address,
           tables' = Append(tables, [address |-> address, buffer |-> <<>>]),
           meant' = Append(meant, <<>>)
    PROVE  MeantInv(kept)'
<1> DEFINE t == [address |-> address, buffer |-> <<>>]
<1>1. IsSeq(tables) /\ IsSeq(meant) /\ Len(meant) = Len(tables)
  BY DEF TablesOK, MeantInv
<1>2. TextKept(t, <<>>, kept)
  <2>1. <<>> \in Seq({}) /\ Len(<<>>) = 0
    OBVIOUS
  <2>2. IsSeq(<<>>)
    BY <2>1 DEF IsSeq
  <2> QED BY <2>1, <2>2 DEF TextKept
<1> HIDE DEF t
<1>3. /\ Len(tables) \in Nat /\ DOMAIN tables = 1..Len(tables)
      /\ Len(tables') = Len(tables) + 1 /\ DOMAIN tables' = 1..Len(tables) + 1
      /\ \A i \in 1..Len(tables) + 1 :
            tables'[i] = IF i = Len(tables) + 1 THEN t ELSE tables[i]
  BY <1>1, AppendIsSeq DEF t
<1>4. /\ IsSeq(meant') /\ Len(meant') = Len(meant) + 1
      /\ \A i \in 1..Len(meant) + 1 :
            meant'[i] = IF i = Len(meant) + 1 THEN <<>> ELSE meant[i]
  BY <1>1, AppendIsSeq
<1>5. ASSUME NEW i \in 1..Len(tables) + 1 PROVE TextKept(tables'[i], meant'[i], kept)
  <2>1. CASE i = Len(tables) + 1
    BY <1>1, <1>2, <1>3, <1>4, <2>1
  <2>2. CASE i # Len(tables) + 1
    <3>1. i \in DOMAIN tables
      BY <1>3, <2>2
    <3> QED BY <1>1, <1>3, <1>4, <2>2, <3>1 DEF MeantInv
  <2> QED BY <2>1, <2>2
<1> QED BY <1>1, <1>3, <1>4, <1>5 DEF MeantInv

LEMMA ClosedMeant ==
    ASSUME NEW kept, TablesOK, MeantInv(kept), tables # <<>>,
           tables' = Front(tables), meant' = Front(meant)
    PROVE  MeantInv(kept)' /\ Last(meant) = meant[Len(tables)] /\ Len(tables) \in DOMAIN tables
<1>1. IsSeq(tables) /\ IsSeq(meant) /\ Len(meant) = Len(tables)
  BY DEF TablesOK, MeantInv
<1>2. /\ Len(tables) \in Nat \ {0} /\ DOMAIN tables = 1..Len(tables)
      /\ IsSeq(tables') /\ DOMAIN tables' = 1..Len(tables) - 1
      /\ \A i \in 1..Len(tables) - 1 : tables'[i] = tables[i]
  BY <1>1, FrontIsSeq
<1>3. meant # <<>>
  BY <1>1, <1>2
<1>4. /\ IsSeq(meant') /\ DOMAIN meant' = 1..Len(meant) - 1
      /\ Last(meant) = meant[Len(meant)]
      /\ \A i \in 1..Len(meant) - 1 : meant'[i] = meant[i]
  BY <1>1, <1>3, FrontIsSeq
<1>5. Len(meant') = Len(tables')
  BY <1>1, <1>3, FrontIsSeq
<1> QED BY <1>1, <1>2, <1>4, <1>5 DEF MeantInv

LEMMA PrintedText ==
    ASSUME NEW kept, NEW t, NEW text, IsSeq(t.buffer), TextKept(t, text, kept),
           NEW s, NEW byte, s.buffer = Append(t.buffer, byte),
           NEW codes, kept = "codes" => byte \in codes
    PROVE  TextKept(s, Append(text, codes), kept)
<1>1. IsSeq(text) /\ Len(text) = Len(t.buffer)
  BY DEF TextKept
<1>2. /\ Len(t.buffer) \in Nat
      /\ Len(s.buffer) = Len(t.buffer) + 1
      /\ \A k \in 1..Len(t.buffer) + 1 :
            s.buffer[k] = IF k = Len(t.buffer) + 1 THEN byte ELSE t.buffer[k]
  BY AppendIsSeq
<1>3. /\ IsSeq(Append(text, codes)) /\ Len(Append(text, codes)) = Len(text) + 1
      /\ \A k \in 1..Len(text) + 1 :
            Append(text, codes)[k] = IF k = Len(text) + 1 THEN codes ELSE text[k]
  BY <1>1, AppendIsSeq
<1>4. ASSUME kept = "codes", NEW k \in 1..Len(text) + 1
      PROVE  s.buffer[k] \in Append(text, codes)[k]
  <2>1. CASE k = Len(text) + 1
    BY <1>1, <1>2, <1>3, <1>4, <2>1
  <2>2. CASE k # Len(text) + 1
    <3>1. k \in 1..Len(text)
      BY <1>1, <1>2, <2>2
    <3>2. t.buffer[k] \in text[k]
      BY <1>4, <3>1 DEF TextKept
    <3> QED BY <1>1, <1>2, <1>3, <2>2, <3>2
  <2> QED BY <2>1, <2>2
<1> QED BY <1>1, <1>2, <1>3, <1>4 DEF TextKept

LEMMA PrintedMeant ==
    ASSUME NEW kept, TablesOK, MeantInv(kept), tables # <<>>,
           NEW byte, NEW codes, kept = "codes" => byte \in codes,
           tables' = [tables EXCEPT ![Innermost].buffer = Append(@, byte)],
           meant' = [meant EXCEPT ![Len(meant)] = Append(@, codes)]
    PROVE  MeantInv(kept)'
<1>1. /\ Len(tables) \in Nat \ {0} /\ Innermost = Len(tables)
      /\ DOMAIN tables = 1..Len(tables) /\ DOMAIN tables' = DOMAIN tables
      /\ IsSeq(tables')
      /\ \A i \in DOMAIN tables : i # Innermost => tables'[i] = tables[i]
      /\ tables'[Innermost].buffer = Append(tables[Innermost].buffer, byte)
  BY PrintedTables DEF TablesOK
<1>2. IsSeq(meant) /\ Len(meant) = Len(tables)
  BY DEF MeantInv
<1>3. PICK S : meant \in Seq(S)
  BY <1>2 DEF IsSeq
<1> DEFINE longer == Append(meant[Len(meant)], codes)
<1>4. /\ meant' = [meant EXCEPT ![Len(meant)] = longer]
      /\ Len(meant) \in DOMAIN meant /\ DOMAIN meant = 1..Len(meant)
  BY <1>1, <1>2, <1>3
<1> HIDE DEF longer
<1>5. /\ meant'[Len(tables)] = longer
      /\ \A i \in DOMAIN tables : i # Len(tables) => meant'[i] = meant[i]
  BY <1>1, <1>2, <1>4
<1>6. IsSeq(meant') /\ Len(meant') = Len(meant)
  <2>1. meant \in Seq(S \cup {longer}) /\ longer \in S \cup {longer}
    BY <1>3
  <2>2. meant' \in Seq(S \cup {longer}) /\ Len(meant') = Len(meant)
    BY <1>4, <2>1
  <2> QED BY <2>2 DEF IsSeq
<1>7. Len(tables') = Len(tables)
  <2>1. PICK T : tables' \in Seq(T)
    BY <1>1 DEF IsSeq
  <2> QED BY <1>1, <2>1
<1>8. ASSUME NEW i \in DOMAIN tables PROVE TextKept(tables'[i], meant'[i], kept)
  <2>1. CASE i = Innermost
    <3>1. TextKept(tables[i], meant[i], kept) /\ Opened(tables[i])
      BY DEF MeantInv, TablesOK
    <3>2. IsSeq(tables[i].buffer)
      BY <3>1, RoomForTables
    <3>3. longer = Append(meant[i], codes)
      BY <1>1, <1>2, <2>1 DEF longer
    <3>4. tables'[i].buffer = Append(tables[i].buffer, byte) /\ meant'[i] = longer
      BY <1>1, <1>5, <2>1
    <3>5. TextKept(tables'[i], Append(meant[i], codes), kept)
      BY <3>1, <3>2, <3>4, PrintedText
    <3> QED BY <3>3, <3>4, <3>5
  <2>2. CASE i # Innermost
    BY <1>1, <1>5, <2>2 DEF MeantInv
  <2> QED BY <2>1, <2>2
<1> QED BY <1>1, <1>2, <1>6, <1>7, <1>8 DEF MeantInv

LEMMA KeptMeant ==
    \A kept : MeantInv(kept) /\ UNCHANGED <<tables, meant>> => MeantInv(kept)'
BY DEF MeantInv

(* Whatever prints: the code that goes into a table means its character. *)
LEMMA PrintsMeant ==
    ASSUME NEW kept, TablesOK, MeantInv(kept), NEW code, NEW ch, Prints(code, ch),
           kept = "codes" => code % 256 \in (IF Codes(ch) = {} THEN Byte ELSE Codes(ch))
    PROVE  MeantInv(kept)'
<1>1. CASE tables = <<>>
  <2>1. UNCHANGED <<tables, meant>>
    BY <1>1 DEF Prints
  <2> QED BY <2>1, KeptMeant
<1>2. CASE tables # <<>>
  <2> DEFINE codes == IF Codes(ch) = {} THEN Byte ELSE Codes(ch)
  <2>1. /\ tables' = [tables EXCEPT ![Innermost].buffer = Append(@, code % 256)]
        /\ meant' = [meant EXCEPT ![Len(meant)] = Append(@, codes)]
    BY <1>2 DEF Prints
  <2>2. kept = "codes" => code % 256 \in codes
    OBVIOUS
  <2> HIDE DEF codes
  <2> QED BY <1>2, <2>1, <2>2, PrintedMeant
<1> QED BY <1>1, <1>2

LEMMA NextMeantInv ==
    \A kept : /\ MemoryInv /\ MeantInv(kept) /\ [Next]_vars
              /\ kept = "codes" => ExtraCharsFit
              => MeantInv(kept)'
<1> SUFFICES ASSUME NEW kept, MemoryInv, MeantInv(kept), [Next]_vars,
                    kept = "codes" => ExtraCharsFit
             PROVE  MeantInv(kept)'
  OBVIOUS
<1>t. program \in Programs /\ TablesOK
  BY DEF MemoryInv
<1>1. CASE UNCHANGED vars
  BY <1>1, KeptMeant DEF vars, streams
<1>2. ASSUME NEW enabled \in BOOLEAN, SelectScreen(enabled) \/ SelectTranscript(enabled)
      PROVE  MeantInv(kept)'
  BY <1>2, KeptMeant DEF SelectScreen, SelectTranscript, streams
<1>3. ASSUME NEW address \in program.tables, OpenTable(address) PROVE MeantInv(kept)'
  <2>1. \/ UNCHANGED <<tables, meant>>
        \/ /\ tables' = Append(tables, [address |-> address, buffer |-> <<>>])
           /\ meant' = Append(meant, <<>>)
    BY <1>3, Zenon DEF OpenTable, Fails, streams
  <2> QED BY <1>t, <2>1, OpenedMeant, KeptMeant
<1>4. CASE CloseTable
  BY <1>t, <1>4, ClosedMeant DEF CloseTable
<1>5. CASE InvalidStream
  BY <1>5, KeptMeant DEF InvalidStream, Fails, streams
<1>6. ASSUME NEW code \in program.zscii, PrintZSCII(code) PROVE MeantInv(kept)'
  <2> DEFINE ch == CharFromZSCII(loaded["extra"], code)
  <2>1. Prints(code, ch)
    BY <1>6 DEF PrintZSCII
  <2>2. code \in Byte
    BY <1>t, ProgramTypes
  <2>3. kept = "codes" => code % 256 \in (IF Codes(ch) = {} THEN Byte ELSE Codes(ch))
    BY <2>2, ByteOfCode
  <2> HIDE DEF ch
  <2> QED BY <1>t, <2>1, <2>3, PrintsMeant
<1>7. ASSUME NEW ch, kept = "codes" => ch \in Int, Prints(CharToZSCII(loaded["extra"], ch), ch)
      PROVE  MeantInv(kept)'
  <2>1. kept = "codes" =>
            CharToZSCII(loaded["extra"], ch) % 256
                \in (IF Codes(ch) = {} THEN Byte ELSE Codes(ch))
    BY <1>7, CodeMeansCharacter
  <2> QED BY <1>t, <1>7, <2>1, PrintsMeant
<1>8. ASSUME NEW ch \in program.unicode, PrintUnicode(ch) PROVE MeantInv(kept)'
  <2>1. ch \in Int
    BY <1>t, ProgramTypes, CharactersAreNumbers
  <2> QED BY <1>7, <1>8, <2>1 DEF PrintUnicode
<1>9. ASSUME NEW code \in program.zscii, PrintString(code) PROVE MeantInv(kept)'
  <2>1. code \in Byte
    BY <1>t, ProgramTypes
  <2>2. kept = "codes" => CharFromZSCII(loaded["extra"], code) \in Int
    BY <2>1, CharacterOfCode
  <2> QED BY <1>7, <1>9, <2>2 DEF PrintString
<1>10. ASSUME NEW store \in program.stores,
              StoreByte(store[1], store[2]) \/ StoreWord(store[1], store[2])
       PROVE  MeantInv(kept)'
  BY <1>10, KeptMeant DEF StoreByte, StoreWord, streams
<1>11. ASSUME NEW copy \in program.copies,
              CopyTable(copy[1], copy[2], copy[3])
                \/ (copy[2] = 0 /\ ZeroMemory(copy[1], copy[3]))
       PROVE  MeantInv(kept)'
  <2>1. UNCHANGED <<tables, meant>>
    BY <1>11, Zenon DEF CopyTable, ZeroMemory, Fails, streams
  <2> QED BY <2>1, KeptMeant
<1>12. CASE SaveUndo
  BY <1>12, KeptMeant DEF SaveUndo, streams
<1>13. CASE RestoreUndo \/ Restart
  <2>1. tables' = <<>> /\ meant' = <<>>
    BY <1>13, Zenon DEF RestoreUndo, Restart, ResetHeaderFields
  <2>2. /\ tables' \in Seq({}) /\ meant' \in Seq({})
        /\ DOMAIN tables' = {} /\ Len(meant') = Len(tables')
    BY <2>1
  <2> QED BY <2>2 DEF MeantInv, IsSeq
<1> QED BY <1>1, <1>2, <1>3, <1>4, <1>5, <1>6, <1>8, <1>9, <1>10, <1>11, <1>12,
           <1>13 DEF Next

(* The words and the text in memory after a table has been closed. *)
LEMMA ClosedTableHolds ==
    ASSUME NEW t, Opened(t), NEW text, TextKept(t, text, "codes"), NEW m,
           m = WithTable(memory, t)
    PROVE  /\ WordAt(m, t.address) = StoredLength(t)
           /\ Holds(m, t.address, text)
           /\ \A a \in Addresses : m[a] # memory[a] =>
                a \in t.address..t.address + 1 + WordAt(m, t.address)
<1>1. /\ t.address \in 64..RomStart - 2 /\ t.address \in Int
      /\ Len(t.buffer) \in Nat
      /\ StoredLength(t) \in Nat /\ StoredLength(t) <= Len(t.buffer)
      /\ t.address + 1 + StoredLength(t) < RomStart
  BY RoomForTables
<1>2. \A a \in t.address..t.address + 1 + StoredLength(t) : a \in Addresses
  BY <1>1, Layout
<1>3. /\ m[t.address] = StoredLength(t) \div 256
      /\ m[t.address + 1] = StoredLength(t) % 256
      /\ \A k \in 1..StoredLength(t) : m[t.address + 1 + k] = t.buffer[k]
      /\ \A a \in Addresses : a \notin t.address..t.address + 1 + StoredLength(t) =>
            m[a] = memory[a]
  <2>1. t.address \in Addresses /\ t.address + 1 \in Addresses
    BY <1>1, <1>2
  <2>2. m[t.address] = StoredLength(t) \div 256
    BY <2>1 DEF WithTable
  <2>3. m[t.address + 1] = StoredLength(t) % 256
    BY <1>1, <2>1 DEF WithTable
  <2>4. ASSUME NEW k \in 1..StoredLength(t)
        PROVE  m[t.address + 1 + k] = t.buffer[k]
    <3> DEFINE a == t.address + 1 + k
    <3>1. /\ a \in Addresses /\ a # t.address /\ a # t.address + 1
          /\ a \in t.address + 2..t.address + 1 + StoredLength(t)
      BY <1>1, <1>2
    <3>2. a - t.address - 1 = k
      BY <1>1
    <3> HIDE DEF a
    <3>3. m[a] = t.buffer[a - t.address - 1]
      BY <3>1 DEF WithTable
    <3> QED BY <3>2, <3>3 DEF a
  <2>5. ASSUME NEW a \in Addresses, a \notin t.address..t.address + 1 + StoredLength(t)
        PROVE  m[a] = memory[a]
    <3>1. /\ a # t.address /\ a # t.address + 1
          /\ a \notin t.address + 2..t.address + 1 + StoredLength(t)
      BY <1>1, <2>5, Layout
    <3> QED BY <3>1 DEF WithTable
  <2> QED BY <2>2, <2>3, <2>4, <2>5
<1>4. WordAt(m, t.address) = StoredLength(t)
  BY <1>1, <1>3 DEF WordAt
<1>5. Holds(m, t.address, text)
  <2>1. Len(text) = Len(t.buffer) /\ \A k \in 1..Len(text) : t.buffer[k] \in text[k]
    BY DEF TextKept
  <2>2. StoredLength(t) = IF Len(text) < Room(t.address) THEN Len(text)
                          ELSE Room(t.address)
    BY <2>1 DEF StoredLength
  <2>3. ASSUME NEW k \in 1..StoredLength(t) PROVE m[t.address + 1 + k] \in text[k]
    BY <1>1, <1>3, <2>1
  <2> QED BY <1>4, <2>2, <2>3 DEF Holds
<1> QED BY <1>3, <1>4, <1>5

Means == MeantInv("codes")

ClosesInPlace ==
    CloseTable =>
        LET table == Last(tables)
        IN  /\ Holds(memory', table.address, Last(meant))
            /\ \A a \in Addresses : memory'[a] # memory[a] =>
                  a \in table.address..table.address + 1 + WordAt(memory', table.address)

(* A closed table holds the length and the codes of its text, as much of it *)
(* as there is dynamic memory for, and nothing else changes (Output.cs,     *)
(* SetOutputStreamAsync), while there is a code for every extra character.  *)
THEOREM TablesAlwaysHoldTheirText == Spec /\ []ExtraCharsFit => TablesHoldTheirText
<1>1. MemoryInv /\ Means /\ [Next]_vars => [ClosesInPlace]_vars
  <2> SUFFICES ASSUME MemoryInv, Means, [Next]_vars, CloseTable
               PROVE  LET t == Last(tables)
                      IN  /\ Holds(memory', t.address, Last(meant))
                          /\ \A a \in Addresses : memory'[a] # memory[a] =>
                                a \in t.address..t.address + 1 + WordAt(memory', t.address)
    BY DEF ClosesInPlace
  <2> DEFINE t == Last(tables)
  <2>1. /\ tables # <<>> /\ memory' = WithTable(memory, t)
        /\ tables' = Front(tables) /\ meant' = Front(meant)
    BY DEF CloseTable
  <2>2. TablesOK /\ MeantInv("codes")
    BY DEF MemoryInv, Means
  <2>3. t = tables[Len(tables)] /\ Len(tables) \in DOMAIN tables
    BY <2>1, <2>2, FrontIsSeq, ClosedMeant DEF TablesOK
  <2>4. Last(meant) = meant[Len(tables)]
    BY <2>1, <2>2, ClosedMeant
  <2>5. Opened(t) /\ TextKept(t, Last(meant), "codes")
    BY <2>2, <2>3, <2>4 DEF TablesOK, MeantInv
  <2> HIDE DEF t
  <2>6. /\ Holds(memory', t.address, Last(meant))
        /\ \A a \in Addresses : memory'[a] # memory[a] =>
              a \in t.address..t.address + 1 + WordAt(memory', t.address)
    BY <2>1, <2>5, ClosedTableHolds
  <2> QED BY <2>6 DEF t
<1>2. Init => Means
  BY InitMeantInv DEF Means
<1>3. MemoryInv /\ Means /\ ExtraCharsFit /\ [Next]_vars => Means'
  BY NextMeantInv DEF Means
<1> QED BY InitMemoryInv, NextMemoryInv, <1>1, <1>2, <1>3, PTL
        DEF Spec, TablesHoldTheirText, ClosesInPlace

-----------------------------------------------------------------------------
(* The traps: they stay in order, each at a table of its own.               *)

Ordered(list) == \A i, j \in DOMAIN list : i < j => list[i].start < list[j].start

(* new is list with trap: in the place of one with the same start, or where *)
(* it belongs, at p.                                                        *)
SetAgain(list, trap, new, p) ==
    /\ p \in 1..Len(list) + 1
    /\ \A i \in 1..Len(list) : list[i].start < trap.start <=> i < p
    /\ \A i \in 1..p - 1 : new[i] = list[i]
    /\ new[p] = trap
    /\ \/ /\ p <= Len(list) /\ list[p].start = trap.start
          /\ Len(new) = Len(list)
          /\ \A i \in p + 1..Len(list) : new[i] = list[i]
       \/ /\ \A i \in 1..Len(list) : list[i].start # trap.start
          /\ Len(new) = Len(list) + 1
          /\ \A i \in p..Len(list) : new[i + 1] = list[i]

LEMMA PlaceFound ==
    ASSUME NEW list \in Seq(Trapped), Ordered(list), NEW start \in Int
    PROVE  /\ Place(list, start) \in 1..Len(list) + 1
           /\ \A i \in 1..Len(list) : list[i].start < start <=> i < Place(list, start)
<1>0. /\ Len(list) \in Nat /\ DOMAIN list = 1..Len(list)
      /\ \A i \in 1..Len(list) : list[i].start \in Int
  <2>1. \A t \in Trapped : t.start \in Int
    BY Layout DEF Trapped
  <2>2. \A i \in 1..Len(list) : list[i] \in Trapped
    OBVIOUS
  <2> QED BY <2>1, <2>2
<1> DEFINE T == {p \in 1..Len(list) + 1 : p = Len(list) + 1 \/ ~(list[p].start < start)}
<1>1. Len(list) + 1 \in T /\ T \subseteq Nat
  BY <1>0
<1>2. PICK p \in T : \A q \in T : p <= q
  BY <1>1, LeastElement
<1>3. ASSUME NEW i \in 1..Len(list) PROVE list[i].start < start <=> i < p
  <2>1. p \in 1..Len(list) + 1 /\ p \in Int /\ i \in Int
    BY <1>0, <1>2
  <2>2. CASE i < p
    <3>1. i \notin T
      BY <1>2, <2>1, <2>2
    <3> QED BY <2>2, <3>1
  <2>3. CASE ~(i < p)
    <3>1. p \in 1..Len(list) /\ ~(list[p].start < start)
      BY <1>0, <1>2, <2>1, <2>3
    <3>2. i = p \/ list[p].start < list[i].start
      BY <1>0, <2>1, <2>3, <3>1 DEF Ordered
    <3> QED BY <1>0, <2>3, <3>1, <3>2
  <2> QED BY <2>2, <2>3
<1>4. \E q \in 1..Len(list) + 1 : \A i \in DOMAIN list : list[i].start < start <=> i < q
  BY <1>0, <1>2, <1>3
<1> HIDE DEF T
<1> QED BY <1>0, <1>4, Zenon DEF Place

(* Where a trap with the start is, if there is one. *)
LEMMA PlaceOfTrap ==
    ASSUME NEW list \in Seq(Trapped), Ordered(list), NEW start \in Int,
           NEW k \in 1..Len(list), list[k].start = start
    PROVE  Place(list, start) = k
<1>0. /\ Len(list) \in Nat /\ DOMAIN list = 1..Len(list)
  OBVIOUS
<1>1. /\ Place(list, start) \in 1..Len(list) + 1
      /\ \A i \in 1..Len(list) : list[i].start < start <=> i < Place(list, start)
  BY PlaceFound
<1> DEFINE p == Place(list, start)
<1>2. p \in Int /\ k \in Int /\ p <= k
  <2>1. ~(start < start)
    OBVIOUS
  <2>2. ~(k < p)
    BY <1>1, <2>1
  <2> QED BY <1>0, <1>1, <2>2
<1>3. CASE p < k
  <2>1. p \in 1..Len(list)
    BY <1>0, <1>1, <1>2, <1>3
  <2>2. list[p].start < start
    BY <1>0, <1>3, <2>1 DEF Ordered
  <2>3. p < p
    BY <1>1, <2>1, <2>2
  <2> QED BY <1>2, <2>3
<1> QED BY <1>2, <1>3

LEMMA SetAgainOrdered ==
    ASSUME NEW list \in Seq(Trapped), Ordered(list), NEW trap \in Trapped,
           NEW new \in Seq(Trapped), NEW p, SetAgain(list, trap, new, p)
    PROVE  /\ Ordered(new)
           /\ Len(list) \in Nat /\ Len(new) \in Nat /\ Len(new) >= Len(list)
           /\ \A j \in 1..Len(new) : j # p => \E i \in 1..Len(list) : new[j] = list[i]
<1> DEFINE n == Len(list)
<1>0. /\ n \in Nat /\ DOMAIN list = 1..n
      /\ Len(new) \in Nat /\ DOMAIN new = 1..Len(new) /\ p \in 1..n + 1
      /\ trap.start \in Int
      /\ \A i \in 1..n : list[i].start \in Int
  <2>1. \A t \in Trapped : t.start \in Int
    BY Layout DEF Trapped
  <2>2. \A i \in 1..n : list[i] \in Trapped
    OBVIOUS
  <2> QED BY <2>1, <2>2 DEF SetAgain
<1>s. /\ \A i \in 1..n : list[i].start < trap.start <=> i < p
      /\ \A i \in 1..p - 1 : new[i] = list[i]
  BY DEF SetAgain
<1>1. CASE p <= n /\ list[p].start = trap.start /\ Len(new) = n
           /\ \A i \in p + 1..n : new[i] = list[i]
  <2>0. \A i \in 1..n : i # p => i \in 1..p - 1 \/ i \in p + 1..n
    BY <1>0
  <2>1. \A i \in 1..n : i # p => new[i] = list[i]
    BY <1>s, <1>1, <2>0
  <2>2. \A i \in 1..n : new[i].start = list[i].start
    BY <1>1, <2>1 DEF SetAgain
  <2>3. Ordered(new)
    BY <1>0, <1>1, <2>2 DEF Ordered
  <2> QED BY <1>0, <1>1, <2>1, <2>3
<1>2. CASE /\ \A i \in 1..n : list[i].start # trap.start
           /\ Len(new) = n + 1
           /\ \A i \in p..n : new[i + 1] = list[i]
  <2>1. \A i \in 1..n + 1 : i < p => i \in 1..n /\ new[i] = list[i] /\ list[i].start < trap.start
    <3>1. \A i \in 1..n + 1 : i < p => i \in 1..n /\ i \in 1..p - 1
      BY <1>0
    <3> QED BY <3>1 DEF SetAgain
  <2>2. \A i \in 1..n + 1 : i > p =>
            i - 1 \in 1..n /\ new[i] = list[i - 1] /\ trap.start < list[i - 1].start
    <3>1. \A i \in 1..n + 1 : i > p => i - 1 \in 1..n /\ i - 1 \in p..n /\ (i - 1) + 1 = i
                                      /\ ~(i - 1 < p)
      BY <1>0
    <3>2. \A i \in p..n : i \in 1..n /\ ~(i < p)
      BY <1>0
    <3>3. ASSUME NEW i \in p..n PROVE trap.start < list[i].start
      <4>1. i \in 1..n /\ ~(list[i].start < trap.start) /\ list[i].start # trap.start
        BY <1>s, <1>2, <3>2
      <4> QED BY <1>0, <4>1
    <3> QED BY <1>2, <3>1, <3>3
  <2>3. new[p] = trap
    BY DEF SetAgain
  <2>4. ASSUME NEW i \in 1..n + 1, NEW j \in 1..n + 1, i < j
        PROVE  new[i].start < new[j].start
    <3>1. i \in Int /\ j \in Int /\ p \in Int
      BY <1>0
    <3>2. CASE j < p
      BY SMTT(30), <1>0, <2>1, <2>4, <3>1, <3>2 DEF Ordered
    <3>3. CASE j = p
      BY <2>1, <2>3, <2>4, <3>1, <3>3
    <3>4. CASE j > p /\ i < p
      <4>1. list[i].start < trap.start /\ trap.start < list[j - 1].start
            /\ i \in 1..n /\ j - 1 \in 1..n /\ new[i] = list[i] /\ new[j] = list[j - 1]
        BY <2>1, <2>2, <3>4
      <4> QED BY <1>0, <4>1
    <3>5. CASE j > p /\ i = p
      BY <2>2, <2>3, <3>5
    <3>6. CASE j > p /\ i > p
      <4>1. i - 1 \in 1..n /\ j - 1 \in 1..n /\ i - 1 < j - 1
            /\ new[i] = list[i - 1] /\ new[j] = list[j - 1]
        BY <2>2, <2>4, <3>1, <3>6
      <4> QED BY <1>0, <4>1 DEF Ordered
    <3> QED BY <3>1, <3>2, <3>3, <3>4, <3>5, <3>6
  <2>5. Ordered(new)
    BY <1>0, <1>2, <2>4 DEF Ordered
  <2>6. ASSUME NEW j \in 1..n + 1, j # p PROVE \E i \in 1..n : new[j] = list[i]
    <3>1. j < p \/ j > p
      BY <1>0, <2>6
    <3> QED BY <2>1, <2>2, <3>1
  <2> QED BY <1>0, <1>2, <2>5, <2>6
<1> QED BY <1>1, <1>2 DEF SetAgain

IsTraps(t) == /\ t \in [list : Seq(Trapped), first : Int, last : Int]
              /\ Ordered(t.list)

LEMMA TrapRemoved ==
    ASSUME NEW t, IsTraps(t), NEW start \in Int, NEW k \in 1..Len(t.list),
           t.list[k].start = start, NEW r, r = RemoveTrap(t, start)
    PROVE  /\ r \in [list : Seq(Trapped), first : Int, last : Int]
           /\ r.list = RemoveAt(t.list, k)
<1> DEFINE list == RemoveAt(t.list, Place(t.list, start))
<1>0. /\ t.list \in Seq(Trapped) /\ Ordered(t.list)
      /\ DOMAIN t.list = 1..Len(t.list) /\ Len(t.list) \in Nat
  BY DEF IsTraps
<1>1. Place(t.list, start) = k
  BY <1>0, PlaceOfTrap
<1>2. list \in Seq(Trapped) /\ list = RemoveAt(t.list, k)
  BY <1>0, <1>1, RemoveAtProperties
<1>3. HasTrap(t.list, start)
  BY <1>0 DEF HasTrap
<1> HIDE DEF list
<1>4. r = IF list = <<>> THEN NoTraps
          ELSE [list |-> list, first |-> list[1].start,
                last |-> Last(list).start + Last(list).length - 1]
  BY <1>3, Zenon DEF RemoveTrap, list
<1>5. CASE list = <<>>
  <2>1. r = [list |-> <<>>, first |-> 0, last |-> -1]
    BY <1>4, <1>5 DEF NoTraps
  <2>2. <<>> \in Seq(Trapped)
    OBVIOUS
  <2> QED BY <2>1, <2>2, <1>2, <1>5
<1>6. CASE list # <<>>
  <2>1. list[1] \in Trapped /\ Last(list) \in Trapped
    BY <1>2, <1>6 DEF Last
  <2>2. \A u \in Trapped : u.start \in Int /\ u.length \in Nat
    BY Layout DEF Trapped
  <2>3. list[1].start \in Int /\ Last(list).start + Last(list).length - 1 \in Int
    BY <2>1, <2>2
  <2> QED BY <1>2, <1>4, <1>6, <2>3
<1> QED BY <1>5, <1>6

LEMMA TrapAgain ==
    ASSUME NEW t, IsTraps(t), NEW trap \in Trapped,
           NEW r, r = AddTrap(RemoveTrap(t, trap.start), trap)
    PROVE  IsTraps(r) /\ \E p : SetAgain(t.list, trap, r.list, p)
<1> DEFINE start == trap.start
           s == RemoveTrap(t, start)
           n == Len(t.list)
<1>0. /\ t \in [list : Seq(Trapped), first : Int, last : Int]
      /\ t.list \in Seq(Trapped) /\ Ordered(t.list)
      /\ DOMAIN t.list = 1..n /\ n \in Nat
  BY DEF IsTraps
<1>1. /\ start \in Int /\ \A i \in 1..n : t.list[i].start \in Int
  <2>1. \A u \in Trapped : u.start \in Int
    BY Layout DEF Trapped
  <2>2. \A i \in 1..n : t.list[i] \in Trapped
    BY <1>0
  <2> QED BY <2>1, <2>2
<1>2. SUFFICES \E p : /\ r \in [list : Seq(Trapped), first : Int, last : Int]
                      /\ SetAgain(t.list, trap, r.list, p)
  <2>1. PICK p : /\ r \in [list : Seq(Trapped), first : Int, last : Int]
                 /\ SetAgain(t.list, trap, r.list, p)
    BY <1>2
  <2>2. r.list \in Seq(Trapped)
    BY <2>1
  <2>3. Ordered(r.list)
    BY <1>0, <2>1, <2>2, SetAgainOrdered
  <2> QED BY <2>1, <2>3 DEF IsTraps
<1> HIDE DEF start
<1>3. CASE ~HasTrap(t.list, start)
  <2> DEFINE p == Place(t.list, start)
             new == InsertAt(t.list, p, trap)
  <2>1. r = [t EXCEPT !.list = new]
    BY <1>3, Zenon DEF start, RemoveTrap, AddTrap
  <2>2. \A i \in 1..n : t.list[i].start # start
    BY <1>0, <1>3 DEF HasTrap
  <2>3. p \in 1..n + 1 /\ \A i \in 1..n : t.list[i].start < start <=> i < p
    BY <1>0, <1>1, PlaceFound
  <2> HIDE DEF p
  <2>4. /\ new \in Seq(Trapped) /\ Len(new) = n + 1
        /\ \A j \in 1..n + 1 :
                new[j] = IF j < p THEN t.list[j] ELSE IF j = p THEN trap ELSE t.list[j - 1]
    BY <1>0, <2>3, InsertAtProperties
  <2> HIDE DEF new
  <2>5. r.list = new /\ r \in [list : Seq(Trapped), first : Int, last : Int]
    BY <1>0, <2>1, <2>4
  <2>6. \A i \in 1..p - 1 : new[i] = t.list[i]
    BY <1>0, <2>3, <2>4
  <2>7. new[p] = trap
    BY <1>0, <2>3, <2>4
  <2>8. ASSUME NEW i \in p..n PROVE new[i + 1] = t.list[i]
    <3>1. i + 1 \in 1..n + 1 /\ ~(i + 1 < p) /\ i + 1 # p /\ (i + 1) - 1 = i
      BY <1>0, <2>3
    <3> QED BY <2>4, <3>1
  <2>9. SetAgain(t.list, trap, new, p)
    BY <2>2, <2>3, <2>4, <2>6, <2>7, <2>8 DEF SetAgain, start
  <2> QED BY <2>5, <2>9
<1>4. CASE HasTrap(t.list, start)
  <2>1. PICK k \in 1..n : t.list[k].start = start
    BY <1>0, <1>4 DEF HasTrap
  <2> DEFINE less == RemoveAt(t.list, k)
             p == Place(less, start)
             new == InsertAt(less, p, trap)
  <2>2. s \in [list : Seq(Trapped), first : Int, last : Int] /\ s.list = less
    BY <1>1, <2>1, TrapRemoved
  <2>3. /\ less \in Seq(Trapped) /\ Len(less) = n - 1
        /\ \A j \in 1..n - 1 : less[j] = IF j < k THEN t.list[j] ELSE t.list[j + 1]
    BY <1>0, RemoveAtProperties
  <2>4. k \in Int /\ 1 <= k /\ k <= n /\ DOMAIN less = 1..n - 1
    BY <1>0, <2>3
  <2> HIDE DEF less, s
  <2>5. \A j \in 1..n - 1 : /\ j < k => less[j].start < start
                            /\ ~(j < k) => start < less[j].start
    <3>1. ASSUME NEW j \in 1..n - 1, j < k PROVE less[j].start < start
      <4>1. j \in 1..n /\ t.list[j].start < t.list[k].start
        BY <1>0, <2>4, <3>1 DEF Ordered
      <4> QED BY <2>1, <2>3, <3>1, <4>1
    <3>2. ASSUME NEW j \in 1..n - 1, ~(j < k) PROVE start < less[j].start
      <4>1. j + 1 \in 1..n /\ k < j + 1
        BY <1>0, <2>4, <3>2
      <4>2. t.list[k].start < t.list[j + 1].start
        BY <1>0, <4>1 DEF Ordered
      <4> QED BY <2>1, <2>3, <3>2, <4>2
    <3> QED BY <3>1, <3>2
  <2>6. Ordered(less)
    <3>1. ASSUME NEW i \in 1..n - 1, NEW j \in 1..n - 1, i < j
          PROVE  less[i].start < less[j].start
      <4> DEFINE a == IF i < k THEN i ELSE i + 1
                 b == IF j < k THEN j ELSE j + 1
      <4>1. a \in 1..n /\ b \in 1..n /\ a < b
        BY <1>0, <2>4, <3>1
      <4>2. less[i] = t.list[a] /\ less[j] = t.list[b]
        BY <2>3
      <4> HIDE DEF a, b
      <4> QED BY <1>0, <4>1, <4>2 DEF Ordered
    <3> QED BY <2>4, <3>1 DEF Ordered
  <2>7. \A j \in 1..n - 1 : less[j].start \in Int /\ less[j].start # start
    <3>1. \A j \in 1..n - 1 : less[j] \in Trapped
      BY <2>3, <2>4
    <3>2. \A u \in Trapped : u.start \in Int
      BY Layout DEF Trapped
    <3>3. \A j \in 1..n - 1 : less[j].start \in Int
      BY <3>1, <3>2
    <3>4. \A j \in 1..n - 1 : less[j].start < start \/ start < less[j].start
      BY <2>5
    <3> QED BY <1>1, <3>3, <3>4
  <2>8. /\ p \in 1..Len(less) + 1
        /\ \A i \in 1..Len(less) : less[i].start < start <=> i < p
    BY <1>1, <2>3, <2>6, PlaceFound
  <2> HIDE DEF p
  <2>9. p = k
    <3>1. p \in Int /\ 1 <= p /\ p <= n
      BY <1>0, <2>3, <2>8
    <3>2. ~(k < p)
      <4>1. SUFFICES ASSUME k < p PROVE FALSE
        OBVIOUS
      <4>2. k \in 1..n - 1 /\ ~(k < k)
        BY <1>0, <2>4, <3>1, <4>1
      <4>3. less[k].start < start /\ start < less[k].start
        BY <2>3, <2>5, <2>8, <4>1, <4>2
      <4> QED BY <1>1, <2>7, <4>2, <4>3
    <3>3. ~(p < k)
      <4>1. SUFFICES ASSUME p < k PROVE FALSE
        OBVIOUS
      <4>2. p \in 1..n - 1 /\ ~(p < p)
        BY <1>0, <2>4, <3>1, <4>1
      <4>3. less[p].start < start
        BY <2>5, <4>1, <4>2
      <4> QED BY <2>3, <2>8, <4>2, <4>3
    <3> QED BY <2>4, <3>1, <3>2, <3>3
  <2>10. /\ new \in Seq(Trapped) /\ Len(new) = Len(less) + 1
         /\ \A j \in 1..Len(less) + 1 :
                new[j] = IF j < p THEN less[j] ELSE IF j = p THEN trap ELSE less[j - 1]
    BY <2>3, <2>8, InsertAtProperties
  <2> HIDE DEF new
  <2>11. r = [s EXCEPT !.list = new]
    <3>1. ~HasTrap(s.list, start)
      BY <2>2, <2>4, <2>7 DEF HasTrap
    <3> QED BY <2>2, <3>1, Zenon DEF AddTrap, start, s, new, p
  <2>12. r.list = new /\ r \in [list : Seq(Trapped), first : Int, last : Int]
    BY <2>2, <2>10, <2>11
  <2>13. Len(new) = n /\ new[k] = trap
    BY <1>0, <2>3, <2>4, <2>9, <2>10
  <2>14. ASSUME NEW j \in 1..n, j # k PROVE new[j] = t.list[j]
    <3>1. CASE j < k
      <4>1. j \in 1..n - 1 /\ j \in 1..Len(less) + 1
        BY <1>0, <2>3, <2>4, <3>1
      <4> QED BY <2>3, <2>9, <2>10, <3>1, <4>1
    <3>2. CASE j > k
      <4>1. /\ j - 1 \in 1..n - 1 /\ j \in 1..Len(less) + 1
            /\ ~(j - 1 < k) /\ (j - 1) + 1 = j /\ ~(j < k)
        BY <1>0, <2>3, <2>4, <3>2
      <4> QED BY <2>3, <2>9, <2>10, <3>2, <4>1
    <3> QED BY <2>4, <2>14, <3>1, <3>2
  <2>15. \A i \in 1..n : t.list[i].start < start <=> i < k
    <3>1. ASSUME NEW i \in 1..n PROVE t.list[i].start < start <=> i < k
      <4>1. i < k => t.list[i].start < start
        BY <1>0, <2>1 DEF Ordered
      <4>2. k < i => start < t.list[i].start
        BY <1>0, <2>1 DEF Ordered
      <4> QED BY <1>0, <1>1, <2>1, <2>4, <4>1, <4>2
    <3> QED BY <3>1
  <2>16. SetAgain(t.list, trap, new, k)
    <3>1. k \in 1..n + 1 /\ \A i \in 1..k - 1 : new[i] = t.list[i]
      BY <1>0, <2>4, <2>14
    <3>2. \A i \in k + 1..n : new[i] = t.list[i]
      BY <1>0, <2>4, <2>14
    <3> QED BY <2>1, <2>4, <2>13, <2>15, <3>1, <3>2 DEF SetAgain, start
  <2> QED BY <2>12, <2>16
<1> QED BY <1>3, <1>4

-----------------------------------------------------------------------------
(* Loading a table again                                                    *)

(* The tables lie in memory, and none where another's trap starts. *)
TablesWithin(m) ==
    /\ ExtraChars # Separators
    /\ ExtraChars + 2 * m[ExtraChars] <= Top
    /\ Separators + m[Separators] <= Top
    /\ \E a \in TerminatingChars..Top : m[a] \in {0, 255}
    /\ EndOfTerminating(m) \notin {ExtraChars, Separators}

InPlace(m) == m \in [Addresses -> Byte] /\ TablesWithin(m)

Located(trap) ==
    /\ trap.table = "extra" <=> trap.start = ExtraChars
    /\ trap.table = "separators" <=> trap.start = Separators
    /\ trap.table = "terminating" => trap.start >= TerminatingChars

Loads == [loaded : [Tables -> Seq(Characters)],
          traps : [list : Seq(Trapped), first : Int, last : Int]]

LoadsOK(s) == /\ s \in Loads
              /\ Ordered(s.traps.list)
              /\ \A i \in 1..Len(s.traps.list) : Located(s.traps.list[i])

(* The trap that a table needs. *)
Covered(s, table, start) ==
    \E i \in 1..Len(s.traps.list) :
        Covers(s.traps.list[i], table, start,
               IF table = "extra" THEN 2 * Len(s.loaded[table]) + 1
               ELSE Len(s.loaded[table]) + 1)

AllCovered(s) == Covered(s, "extra", ExtraChars) /\ Covered(s, "separators", Separators)

LEMMA TableAddresses ==
    /\ ExtraChars \in 64..Top /\ Separators \in 64..Top /\ TerminatingChars \in 64..Top
    /\ ExtraChars < RomStart /\ Separators < RomStart /\ TerminatingChars < RomStart
    /\ ExtraChars \in Addresses /\ Separators \in Addresses
    /\ Top \in Int /\ RomStart \in Int
    /\ Tables = {"extra", "terminating", "separators"}
    /\ \A a \in 64..Top : a \in Addresses
    /\ \A t \in Trapped : t.start \in Int /\ t.length \in Nat /\ t.table \in Tables
<1>1. Top \in Int /\ RomStart \in Int
  BY Layout
<1>2. /\ ExtraChars \in 64..Top /\ Separators \in 64..Top /\ TerminatingChars \in 64..Top
      /\ ExtraChars < RomStart /\ Separators < RomStart /\ TerminatingChars < RomStart
  BY LayoutAssumption
<1>3. \A a \in 64..Top : a \in Addresses
  BY Layout
<1>4. \A t \in Trapped : t.start \in Int /\ t.length \in Nat /\ t.table \in Tables
  BY Layout DEF Trapped
<1> QED BY <1>1, <1>2, <1>3, <1>4 DEF Tables

Ends(m, a) == /\ a \in TerminatingChars..Top
              /\ m[a] \in {0, 255}
              /\ \A b \in TerminatingChars..a - 1 : m[b] \notin {0, 255}

LEMMA EndFound ==
    ASSUME NEW m, \E a \in TerminatingChars..Top : m[a] \in {0, 255}
    PROVE  Ends(m, EndOfTerminating(m)) /\ \A a : Ends(m, a) => a = EndOfTerminating(m)
<1> DEFINE T == {a \in TerminatingChars..Top : m[a] \in {0, 255}}
<1>1. T # {} /\ T \subseteq Nat
  BY TableAddresses
<1>2. PICK e \in T : \A a \in T : e <= a
  BY <1>1, LeastElement
<1>3. ASSUME NEW b \in TerminatingChars..e - 1 PROVE m[b] \notin {0, 255}
  <2>1. b \in TerminatingChars..Top /\ ~(e <= b)
    BY <1>2, TableAddresses
  <2> QED BY <1>2, <2>1
<1>4. \E a \in TerminatingChars..Top :
        m[a] \in {0, 255} /\ \A b \in TerminatingChars..a - 1 : m[b] \notin {0, 255}
  BY <1>2, <1>3
<1>5. Ends(m, EndOfTerminating(m))
  BY <1>4, Zenon DEF EndOfTerminating, Ends
<1>6. ASSUME NEW a, NEW b, Ends(m, a), Ends(m, b) PROVE ~(a < b)
  BY <1>6, TableAddresses DEF Ends
<1>7. ASSUME NEW a, Ends(m, a) PROVE a = EndOfTerminating(m)
  <2> DEFINE end == EndOfTerminating(m)
  <2>1. Ends(m, end)
    BY <1>5
  <2> HIDE DEF end
  <2>2. ~(a < end) /\ ~(end < a)
    BY <1>6, <1>7, <2>1
  <2>3. a \in Int /\ end \in Int
    BY <1>7, <2>1, TableAddresses DEF Ends
  <2>4. a = end
    BY <2>2, <2>3
  <2> QED BY <2>4 DEF end
<1> QED BY <1>5, <1>7

LEMMA EndInPlace ==
    ASSUME NEW m, InPlace(m)
    PROVE  /\ EndOfTerminating(m) \in TerminatingChars..Top
           /\ EndOfTerminating(m) \notin {ExtraChars, Separators}
           /\ \A b \in TerminatingChars..EndOfTerminating(m) : b \in Addresses
           /\ m \in [Addresses -> Byte]
           /\ \A a \in Addresses : m[a] \in Byte /\ m[a] \in Nat
           /\ m[ExtraChars] \in Nat /\ m[Separators] \in Nat
<1>1. EndOfTerminating(m) \in TerminatingChars..Top
  BY EndFound DEF InPlace, TablesWithin, Ends
<1>2. \A a \in Addresses : m[a] \in Byte /\ m[a] \in Nat
  BY DEF InPlace, Byte
<1> QED BY <1>1, <1>2, TableAddresses DEF InPlace, TablesWithin

LEMMA BytesMakeCharacters == \A b, c \in Byte : 256 * b + c \in Characters
<1>1. \A n : n \in Characters <=> n \in Int /\ 0 <= n /\ n <= 65535
  BY MaxCharacterIs DEF Characters
<1> SUFFICES ASSUME NEW b \in Byte, NEW c \in Byte PROVE 256 * b + c \in Characters
  OBVIOUS
<1>2. b \in Int /\ c \in Int /\ 0 <= b /\ b <= 255 /\ 0 <= c /\ c <= 255
  BY ByteBounds
<1>3. 256 * b + c \in Int /\ 0 <= 256 * b + c /\ 256 * b + c <= 65535
  BY <1>2
<1> QED BY <1>1, <1>3

(* What is read is characters, as many as the table's length tells. *)
LEMMA ContentsRead ==
    ASSUME NEW m, InPlace(m), NEW table \in Tables
    PROVE  /\ Contents(m, table) \in Seq(Characters)
           /\ table = "extra" => Len(Contents(m, table)) = m[ExtraChars]
           /\ table = "separators" => Len(Contents(m, table)) = m[Separators]
<1>0. /\ \A a \in Addresses : m[a] \in Byte
      /\ m[ExtraChars] \in Nat /\ m[Separators] \in Nat
      /\ ExtraChars + 2 * m[ExtraChars] <= Top /\ Separators + m[Separators] <= Top
  BY EndInPlace DEF InPlace, TablesWithin
<1>b. \A b \in Byte : b \in Characters
  BY MaxCharacterIs DEF Byte, Characters
<1>1. CASE table = "extra"
  <2> DEFINE n == m[ExtraChars]
             x == [k \in 1..n |-> WordAt(m, ExtraChars + 2 * k - 1)]
  <2>1. Contents(m, table) = x
    BY <1>1 DEF Contents
  <2>2. ASSUME NEW k \in 1..n PROVE WordAt(m, ExtraChars + 2 * k - 1) \in Characters
    <3> DEFINE a == ExtraChars + 2 * k - 1
    <3>1. a \in 64..Top /\ a + 1 \in 64..Top
      BY <1>0, TableAddresses
    <3> HIDE DEF a
    <3>2. m[a] \in Byte /\ m[a + 1] \in Byte
      BY <1>0, <3>1, TableAddresses
    <3>4. WordAt(m, a) \in Characters
      BY <3>2, BytesMakeCharacters DEF WordAt
    <3> QED BY <3>4 DEF a
  <2>3. x \in Seq(Characters) /\ Len(x) = n
    BY <1>0, <2>2
  <2> QED BY <1>1, <2>1, <2>3
<1>2. CASE table = "separators"
  <2> DEFINE n == m[Separators]
             x == [k \in 1..n |-> m[Separators + k]]
  <2>1. Contents(m, table) = x
    BY <1>2 DEF Contents
  <2>2. ASSUME NEW k \in 1..n PROVE m[Separators + k] \in Characters
    <3>1. Separators + k \in 64..Top
      BY <1>0, TableAddresses
    <3> QED BY <1>0, <1>b, <3>1, TableAddresses
  <2>3. x \in Seq(Characters) /\ Len(x) = n
    BY <1>0, <2>2
  <2> QED BY <1>2, <2>1, <2>3
<1>3. CASE table = "terminating"
  <2> DEFINE n == EndOfTerminating(m) - TerminatingChars
             x == [k \in 1..n |-> m[TerminatingChars + k - 1]]
  <2>1. Contents(m, table) = IF m[EndOfTerminating(m)] = 255 THEN <<255>> ELSE x
    BY <1>3 DEF Contents
  <2>2. n \in Nat /\ EndOfTerminating(m) = TerminatingChars + n
    BY EndInPlace, TableAddresses
  <2>3. \A b \in TerminatingChars..TerminatingChars + n : b \in Addresses
    BY <2>2, EndInPlace
  <2> HIDE DEF n
  <2>4. ASSUME NEW k \in 1..n PROVE m[TerminatingChars + k - 1] \in Characters
    <3>1. TerminatingChars + k - 1 \in TerminatingChars..TerminatingChars + n
      BY <2>2, TableAddresses
    <3> QED BY <1>0, <1>b, <2>3, <3>1
  <2>5. x \in Seq(Characters)
    BY <2>2, <2>4
  <2>6. 255 \in Byte /\ <<255>> \in Seq(Characters)
    BY <1>b DEF Byte
  <2> QED BY <1>3, <2>1, <2>5, <2>6
<1> QED BY <1>1, <1>2, <1>3, TableAddresses

LEMMA TrapInPlace ==
    ASSUME NEW m, InPlace(m), NEW table \in Tables
    PROVE  /\ Trap(m, table) \in Trapped /\ Located(Trap(m, table))
           /\ Trap(m, table).table = table
           /\ table = "extra" =>
                /\ Trap(m, table).start = ExtraChars
                /\ Trap(m, table).length = 2 * m[ExtraChars] + 1
           /\ table = "separators" =>
                /\ Trap(m, table).start = Separators
                /\ Trap(m, table).length = m[Separators] + 1
           /\ table = "terminating" => Trap(m, table).start = EndOfTerminating(m)
<1>0. /\ EndOfTerminating(m) \in TerminatingChars..Top
      /\ EndOfTerminating(m) # ExtraChars /\ EndOfTerminating(m) # Separators
      /\ ExtraChars # Separators
      /\ m[ExtraChars] \in Nat /\ m[Separators] \in Nat
  BY EndInPlace DEF InPlace, TablesWithin
<1>1. CASE table = "extra"
  <2>1. Trap(m, table) = [start |-> ExtraChars, length |-> 2 * m[ExtraChars] + 1,
                          table |-> "extra"]
    BY <1>1 DEF Trap
  <2>2. 2 * m[ExtraChars] + 1 \in Nat
    BY <1>0
  <2> QED BY <1>0, <1>1, <2>1, <2>2, TableAddresses DEF Trapped, Located
<1>2. CASE table = "separators"
  <2>1. Trap(m, table) = [start |-> Separators, length |-> m[Separators] + 1,
                          table |-> "separators"]
    BY <1>2 DEF Trap
  <2>2. m[Separators] + 1 \in Nat
    BY <1>0
  <2> QED BY <1>0, <1>2, <2>1, <2>2, TableAddresses DEF Trapped, Located
<1>3. CASE table = "terminating"
  <2> DEFINE e == EndOfTerminating(m)
  <2>1. Trap(m, table) = [start |-> e, length |-> e - TerminatingChars + 1,
                          table |-> "terminating"]
    BY <1>3 DEF Trap
  <2>2. e \in Addresses /\ e - TerminatingChars + 1 \in Nat /\ e >= TerminatingChars
    BY <1>0, TableAddresses
  <2>3. e # ExtraChars /\ e # Separators
    BY <1>0
  <2> HIDE DEF e
  <2>4. Trap(m, table).start = e /\ Trap(m, table).table = "terminating"
    BY <2>1
  <2>5. Trap(m, table) \in Trapped
    BY <2>1, <2>2, TableAddresses DEF Trapped
  <2>6. Located(Trap(m, table))
    BY <2>2, <2>3, <2>4 DEF Located
  <2> QED BY <1>3, <2>4, <2>5, <2>6 DEF e
<1> QED BY <1>1, <1>2, <1>3, TableAddresses

(* The list of traps after a table has been loaded again. *)
Replaced(list, trap, new) ==
    IF trap.start < RomStart THEN \E p : SetAgain(list, trap, new, p) ELSE new = list

LEMMA Loaded ==
    ASSUME NEW s, LoadsOK(s), NEW m, InPlace(m), NEW table \in Tables,
           NEW r, r = Load(s, m, table)
    PROVE  /\ LoadsOK(r)
           /\ Len(s.traps.list) \in Nat /\ Len(r.traps.list) >= Len(s.traps.list)
           /\ r.loaded = [s.loaded EXCEPT ![table] = Contents(m, table)]
           /\ Replaced(s.traps.list, Trap(m, table), r.traps.list)
<1> DEFINE trap == Trap(m, table)
<1>0. /\ s \in Loads /\ Ordered(s.traps.list)
      /\ s.traps \in [list : Seq(Trapped), first : Int, last : Int]
      /\ s.loaded \in [Tables -> Seq(Characters)]
      /\ s.traps.list \in Seq(Trapped) /\ Len(s.traps.list) \in Nat
      /\ IsTraps(s.traps)
  BY DEF LoadsOK, Loads, IsTraps
<1>1. /\ trap \in Trapped /\ Located(trap) /\ trap.start \in Int
      /\ Contents(m, table) \in Seq(Characters)
  BY TrapInPlace, ContentsRead, TableAddresses
<1> HIDE DEF trap
<1> DEFINE traps2 == IF trap.start < RomStart
                     THEN AddTrap(RemoveTrap(s.traps, trap.start), trap) ELSE s.traps
           loaded2 == [s.loaded EXCEPT ![table] = Contents(m, table)]
<1>2. r = [loaded |-> loaded2, traps |-> traps2]
  BY Zenon DEF Load, trap
<1>3. loaded2 \in [Tables -> Seq(Characters)]
  BY <1>0, <1>1
<1>4. IsTraps(traps2) /\ Replaced(s.traps.list, trap, traps2.list)
  <2>1. CASE trap.start < RomStart
    <3>1. traps2 = AddTrap(RemoveTrap(s.traps, trap.start), trap)
      BY <2>1
    <3> HIDE DEF traps2
    <3>2. IsTraps(traps2) /\ \E p : SetAgain(s.traps.list, trap, traps2.list, p)
      BY <1>0, <1>1, <3>1, TrapAgain
    <3> QED BY <2>1, <3>2 DEF Replaced
  <2>2. CASE ~(trap.start < RomStart)
    BY <1>0, <2>2 DEF Replaced
  <2> QED BY <2>1, <2>2
<1> HIDE DEF traps2, loaded2
<1>5. r.loaded = loaded2 /\ r.traps = traps2 /\ r \in Loads /\ Ordered(r.traps.list)
      /\ traps2.list \in Seq(Trapped)
  <2>1. traps2 \in [list : Seq(Trapped), first : Int, last : Int] /\ Ordered(traps2.list)
    BY <1>4 DEF IsTraps
  <2>2. traps2.list \in Seq(Trapped)
    BY <2>1
  <2> QED BY <1>2, <1>3, <2>1, <2>2 DEF Loads
<1>6. /\ Len(traps2.list) >= Len(s.traps.list)
      /\ \A j \in 1..Len(traps2.list) : Located(traps2.list[j])
  <2>1. CASE trap.start < RomStart
    <3>1. PICK p : SetAgain(s.traps.list, trap, traps2.list, p)
      BY <1>4, <2>1 DEF Replaced
    <3>2. /\ Len(traps2.list) >= Len(s.traps.list)
          /\ \A j \in 1..Len(traps2.list) : j # p =>
                \E i \in 1..Len(s.traps.list) : traps2.list[j] = s.traps.list[i]
      BY SMTT(30), <1>0, <1>1, <1>5, <3>1, SetAgainOrdered
    <3>3. traps2.list[p] = trap
      BY <3>1 DEF SetAgain
    <3>4. \A i \in 1..Len(s.traps.list) : Located(s.traps.list[i])
      BY DEF LoadsOK
    <3> QED BY <1>1, <3>2, <3>3, <3>4
  <2>2. CASE ~(trap.start < RomStart)
    <3>1. traps2.list = s.traps.list
      BY <1>4, <2>2 DEF Replaced
    <3> QED BY <1>0, <3>1 DEF LoadsOK
  <2> QED BY <2>1, <2>2
<1>7. LoadsOK(r)
  BY <1>5, <1>6 DEF LoadsOK
<1> QED BY <1>0, <1>4, <1>5, <1>6, <1>7 DEF loaded2, trap

(* Loading a table covers it, and leaves the others covered. *)
LEMMA LoadedCovers ==
    ASSUME NEW s, LoadsOK(s), NEW m, InPlace(m), NEW table \in Tables,
           NEW r, r = Load(s, m, table)
    PROVE  /\ table = "extra" \/ Covered(s, "extra", ExtraChars)
                => Covered(r, "extra", ExtraChars)
           /\ table = "separators" \/ Covered(s, "separators", Separators)
                => Covered(r, "separators", Separators)
<1> DEFINE trap == Trap(m, table)
           old == s.traps.list
           new == r.traps.list
<1>1. /\ LoadsOK(r) /\ Len(old) \in Nat /\ Len(new) >= Len(old)
      /\ r.loaded = [s.loaded EXCEPT ![table] = Contents(m, table)]
      /\ Replaced(old, trap, new)
  BY Loaded
<1>2. /\ old \in Seq(Trapped) /\ new \in Seq(Trapped) /\ Len(new) \in Nat
      /\ s.loaded \in [Tables -> Seq(Characters)]
  BY <1>1 DEF LoadsOK, Loads
<1>3. /\ r.loaded[table] = Contents(m, table)
      /\ \A other \in Tables : other # table => r.loaded[other] = s.loaded[other]
  BY <1>1, <1>2
<1>4. /\ trap \in Trapped /\ Located(trap) /\ trap.table = table
  BY TrapInPlace
<1>5. ASSUME NEW other, NEW start,
             \/ other = "extra" /\ start = ExtraChars
             \/ other = "separators" /\ start = Separators,
             table = other \/ Covered(s, other, start)
      PROVE  Covered(r, other, start)
  <2> DEFINE length == IF other = "extra" THEN 2 * Len(r.loaded[other]) + 1
                       ELSE Len(r.loaded[other]) + 1
  <2>0. start \in Int /\ start < RomStart /\ other \in Tables /\ other # "terminating"
    BY <1>5, TableAddresses
  <2>1. CASE table = other
    <3>1. trap.start = start /\ trap.length = length
      BY <1>3, <1>5, <2>1, TrapInPlace, ContentsRead
    <3>2. PICK p : SetAgain(old, trap, new, p)
      BY <1>1, <2>0, <3>1 DEF Replaced
    <3>3. p \in 1..Len(new) /\ new[p] = trap
      BY <1>1, <1>2, <3>2 DEF SetAgain
    <3>4. Covers(new[p], other, start, length)
      BY <1>4, <2>1, <3>1, <3>3 DEF Covers
    <3> QED BY <3>3, <3>4 DEF Covered
  <2>2. CASE table # other
    <3>1. PICK i \in 1..Len(old) : Covers(old[i], other, start, length)
      BY <1>3, <1>5, <2>0, <2>2 DEF Covered
    <3>2. old[i].start = start /\ trap.start # start
      BY <1>4, <1>5, <2>2, <3>1 DEF Covers, Located
    <3> HIDE DEF length, trap, new, old
    <3>3. SUFFICES \E j \in 1..Len(new) : new[j] = old[i]
      BY <3>1, <3>3 DEF Covered, length, new
    <3>4. CASE trap.start < RomStart
      <4>1. PICK p : SetAgain(old, trap, new, p)
        BY <1>1, <3>4 DEF Replaced
      <4>2. p \in Int /\ i \in Int /\ 1 <= i /\ i <= Len(old)
        BY <1>1, <4>1 DEF SetAgain
      <4>3. CASE i < p
        <5>1. i \in 1..p - 1 /\ i \in 1..Len(new)
          BY <1>1, <1>2, <4>2, <4>3
        <5>2. new[i] = old[i]
          BY <4>1, <5>1 DEF SetAgain
        <5> QED BY <5>1, <5>2
      <4>4. CASE ~(i < p) /\ Len(new) = Len(old) + 1 /\ \A k \in p..Len(old) : new[k + 1] = old[k]
        <5>1. i \in p..Len(old) /\ i + 1 \in 1..Len(new)
          BY <1>1, <1>2, <4>2, <4>4
        <5> QED BY <4>4, <5>1
      <4>5. CASE ~(i < p) /\ old[p].start = trap.start /\ Len(new) = Len(old)
                 /\ \A k \in p + 1..Len(old) : new[k] = old[k]
        <5>1. i # p
          BY <3>2, <4>5
        <5>2. i \in p + 1..Len(old) /\ i \in 1..Len(new)
          BY <1>1, <4>2, <4>5, <5>1
        <5> QED BY <4>5, <5>2
      <4> QED BY <4>1, <4>3, <4>4, <4>5 DEF SetAgain
    <3>5. CASE ~(trap.start < RomStart)
      BY <1>1, <3>5 DEF Replaced
    <3> QED BY <3>4, <3>5
  <2> QED BY <2>1, <2>2
<1>6. ASSUME table = "extra" \/ Covered(s, "extra", ExtraChars)
      PROVE  Covered(r, "extra", ExtraChars)
  BY <1>5, <1>6
<1>7. ASSUME table = "separators" \/ Covered(s, "separators", Separators)
      PROVE  Covered(r, "separators", Separators)
  BY <1>5, <1>7
<1> QED BY <1>6, <1>7

LEMMA LoadedAll ==
    ASSUME NEW s, LoadsOK(s), NEW m, InPlace(m), NEW r, r = LoadAll(s, m)
    PROVE  LoadsOK(r) /\ AllCovered(r)
<1> DEFINE a == Load(s, m, "extra")
           b == Load(a, m, "terminating")
           c == Load(b, m, "separators")
<1>0. "extra" \in Tables /\ "terminating" \in Tables /\ "separators" \in Tables /\ r = c
  BY DEF Tables, LoadAll
<1>1. LoadsOK(a) /\ Covered(a, "extra", ExtraChars)
  BY <1>0, Loaded, LoadedCovers
<1> HIDE DEF a
<1>2. LoadsOK(b) /\ Covered(b, "extra", ExtraChars)
  BY <1>0, <1>1, Loaded, LoadedCovers
<1> HIDE DEF b
<1>3. LoadsOK(c) /\ Covered(c, "extra", ExtraChars) /\ Covered(c, "separators", Separators)
  BY <1>0, <1>2, Loaded, LoadedCovers
<1> QED BY <1>0, <1>3 DEF AllCovered

LEMMA NothingLoadedOK == LoadsOK(NothingLoaded)
<1>1. <<>> \in Seq(Characters) /\ <<>> \in Seq(Trapped) /\ Len(<<>>) = 0 /\ DOMAIN <<>> = {}
  OBVIOUS
<1>2. NothingLoaded = [loaded |-> [table \in Tables |-> <<>>],
                       traps |-> [list |-> <<>>, first |-> 0, last |-> -1]]
  BY DEF NothingLoaded, NoTraps
<1>3. NothingLoaded \in Loads /\ NothingLoaded.traps.list = <<>>
  BY <1>1, <1>2 DEF Loads
<1> QED BY <1>1, <1>3 DEF LoadsOK, Ordered

-----------------------------------------------------------------------------
(* Handle: one trap after the other, by index, in lists that never shrink.  *)

Handles(f, s, m, start, length) ==
    /\ f[0] = s
    /\ \A i \in 1..Len(s.traps.list) : f[i] = HandleTrap(f[i - 1], m, start, length, i)
    /\ \A i \in 0..Len(s.traps.list) :
            LoadsOK(f[i]) /\ Len(f[i].traps.list) >= Len(s.traps.list)

LEMMA TrapHandled ==
    ASSUME NEW s, LoadsOK(s), NEW m, InPlace(m), NEW start, NEW length,
           NEW i \in 1..Len(s.traps.list), NEW r, r = HandleTrap(s, m, start, length, i)
    PROVE  /\ LoadsOK(r)
           /\ Len(r.traps.list) >= Len(s.traps.list)
           /\ AllCovered(s) => AllCovered(r)
           /\ s.traps.list[i].table \in Tables
           /\ IF Within(start, length, s.traps.list[i])
              THEN r = Load(s, m, s.traps.list[i].table) ELSE r = s
<1> DEFINE trap == s.traps.list[i]
<1>1. /\ s.traps.list \in Seq(Trapped) /\ Len(s.traps.list) \in Nat
      /\ trap \in Trapped /\ trap.table \in Tables
  <2>1. s.traps.list \in Seq(Trapped) /\ Len(s.traps.list) \in Nat
    BY DEF LoadsOK, Loads
  <2>2. trap \in Trapped
    BY <2>1
  <2> QED BY <2>1, <2>2, TableAddresses
<1>2. IF Within(start, length, trap) THEN r = Load(s, m, trap.table) ELSE r = s
  BY Zenon DEF HandleTrap
<1> HIDE DEF trap
<1>3. CASE Within(start, length, trap)
  <2> DEFINE table == trap.table
  <2>1. r = Load(s, m, table) /\ table \in Tables
    BY <1>1, <1>2, <1>3
  <2> HIDE DEF table
  <2> DEFINE q == Load(s, m, table)
  <2>2. LoadsOK(q) /\ Len(q.traps.list) >= Len(s.traps.list)
    BY <2>1, Loaded
  <2>3. AllCovered(s) => AllCovered(r)
    BY <2>1, LoadedCovers DEF AllCovered
  <2> HIDE DEF q
  <2>4. LoadsOK(r) /\ Len(r.traps.list) >= Len(s.traps.list)
    BY <2>1, <2>2 DEF q
  <2> QED BY <1>1, <1>3, <2>1, <2>3, <2>4 DEF trap, table
<1>4. CASE ~Within(start, length, trap)
  <2>1. r = s
    BY <1>2, <1>4
  <2> QED BY <1>1, <1>4, <2>1 DEF trap
<1> QED BY <1>3, <1>4

LEMMA HandledInTurn ==
    ASSUME NEW s, LoadsOK(s), NEW m, InPlace(m), NEW start, NEW length
    PROVE  LET handled[i \in 0..Len(s.traps.list)] ==
                   IF i = 0 THEN s ELSE HandleTrap(handled[i - 1], m, start, length, i)
           IN  Handles(handled, s, m, start, length)
<1> DEFINE n == Len(s.traps.list)
           handled[i \in 0..n] ==
               IF i = 0 THEN s ELSE HandleTrap(handled[i - 1], m, start, length, i)
           V == {r \in Loads : LoadsOK(r) /\ Len(r.traps.list) >= n}
           G == [i \in 1..n |-> [r \in V |-> HandleTrap(r, m, start, length, i)]]
<1>0. n \in Nat /\ s \in V
  BY DEF LoadsOK, Loads
<1>1. \A i \in 1..n : \A r \in V : HandleTrap(r, m, start, length, i) \in V
  <2> SUFFICES ASSUME NEW i \in 1..n, NEW r \in V
               PROVE  HandleTrap(r, m, start, length, i) \in V
    OBVIOUS
  <2> DEFINE q == HandleTrap(r, m, start, length, i)
  <2>1. LoadsOK(r) /\ Len(r.traps.list) \in Nat /\ Len(r.traps.list) >= n
    BY DEF LoadsOK, Loads
  <2>2. i \in 1..Len(r.traps.list)
    BY <1>0, <2>1
  <2>3. LoadsOK(q) /\ Len(q.traps.list) >= Len(r.traps.list)
    BY <2>1, <2>2, TrapHandled
  <2> HIDE DEF q
  <2>4. q \in Loads /\ Len(q.traps.list) \in Nat
    BY <2>3 DEF LoadsOK, Loads
  <2>5. Len(q.traps.list) >= n
    BY <1>0, <2>1, <2>3, <2>4
  <2>6. q \in V
    BY <2>3, <2>4, <2>5
  <2> QED BY <2>6 DEF q
<1> HIDE DEF V, n
<1>2. G \in [1..n -> [V -> V]]
  BY <1>1
<1>3. PICK g : Iterates(g, n, V, s, G)
  <2> HIDE DEF G
  <2> QED BY <1>0, <1>2, RecursionExists
<1>4. ASSUME NEW i \in 1..n PROVE g[i] = HandleTrap(g[i - 1], m, start, length, i)
  <2>1. g[i - 1] \in V /\ g[i] = G[i][g[i - 1]]
    BY <1>0, <1>3 DEF Iterates
  <2> QED BY <2>1
<1>5. g = [i \in 0..n |-> IF i = 0 THEN s ELSE HandleTrap(g[i - 1], m, start, length, i)]
  <2>1. g = [i \in 0..n |-> g[i]] /\ g[0] = s
    BY <1>3 DEF Iterates
  <2>2. \A i \in 0..n : i # 0 => i \in 1..n
    BY <1>0
  <2>3. \A i \in 0..n : g[i] = IF i = 0 THEN s
                               ELSE HandleTrap(g[i - 1], m, start, length, i)
    BY <1>4, <2>1, <2>2
  <2> QED BY <2>1, <2>3
<1>6. handled = [i \in 0..n |-> IF i = 0 THEN s
                                ELSE HandleTrap(handled[i - 1], m, start, length, i)]
  BY <1>5, Zenon
<1> HIDE DEF handled, G
<1>7. handled[0] = s
  BY <1>0, <1>6
<1>8. ASSUME NEW i \in 1..n
      PROVE  handled[i] = HandleTrap(handled[i - 1], m, start, length, i)
  <2>1. i \in 0..n /\ i # 0
    BY <1>0
  <2> QED BY <1>6, <2>1
<1>9. \A i \in 0..n : handled[i] \in V
  <2> DEFINE S == {i \in 0..n : handled[i] \in V}
  <2>1. 0 \in S
    BY <1>0, <1>7
  <2>2. ASSUME NEW i \in 1..n, i - 1 \in S PROVE i \in S
    <3>1. handled[i] \in V
      BY <1>1, <1>8, <2>2
    <3> QED BY <1>0, <3>1
  <2> HIDE DEF S
  <2>3. \A i \in 0..n : i \in S
    BY <1>0, <2>1, <2>2, InductionUpTo
  <2> QED BY <2>3 DEF S
<1>10. \A i \in 0..n : LoadsOK(handled[i]) /\ Len(handled[i].traps.list) >= n
  BY <1>9 DEF V
<1>11. Handles(handled, s, m, start, length)
  BY <1>7, <1>8, <1>10 DEF Handles, n
<1> QED BY <1>11 DEF handled, n

LEMMA Handled ==
    ASSUME NEW s, LoadsOK(s), NEW m, InPlace(m), NEW start, NEW length,
           ~OutOfRange(s.traps, start, length)
    PROVE  \E f : /\ Handles(f, s, m, start, length)
                  /\ Handle(s, m, start, length) = f[Len(s.traps.list)]
BY HandledInTurn, Zenon DEF Handle

LEMMA HandleCovers ==
    ASSUME NEW s, LoadsOK(s), AllCovered(s), NEW m, InPlace(m), NEW start, NEW length,
           NEW r, r = Handle(s, m, start, length)
    PROVE  LoadsOK(r) /\ AllCovered(r)
<1>1. CASE OutOfRange(s.traps, start, length)
  <2>1. r = s
    BY <1>1, Zenon DEF Handle
  <2> QED BY <2>1
<1>2. CASE ~OutOfRange(s.traps, start, length)
  <2>1. PICK f : Handles(f, s, m, start, length) /\ r = f[Len(s.traps.list)]
    BY <1>2, Handled
  <2> DEFINE n == Len(s.traps.list)
             S == {i \in 0..n : AllCovered(f[i])}
  <2>2. n \in Nat /\ n \in 0..n
    BY DEF LoadsOK, Loads
  <2>3. 0 \in S
    BY <2>1, <2>2 DEF Handles
  <2>4. ASSUME NEW i \in 1..n, i - 1 \in S PROVE i \in S
    <3>1. i - 1 \in 0..n /\ i \in 0..n /\ LoadsOK(f[i - 1])
          /\ Len(f[i - 1].traps.list) >= n
          /\ f[i] = HandleTrap(f[i - 1], m, start, length, i)
      BY <2>1, <2>2 DEF Handles
    <3>2. i \in 1..Len(f[i - 1].traps.list)
      BY <2>2, <3>1 DEF LoadsOK, Loads
    <3>3. AllCovered(f[i - 1])
      BY <2>4
    <3>4. AllCovered(f[i])
      BY <3>1, <3>2, <3>3, TrapHandled
    <3> QED BY <3>1, <3>4
  <2> HIDE DEF S
  <2>5. \A i \in 0..n : i \in S
    BY <2>2, <2>3, <2>4, InductionUpTo
  <2>6. AllCovered(f[n])
    BY <2>2, <2>5 DEF S
  <2> QED BY <2>1, <2>2, <2>6 DEF Handles
<1> QED BY <1>1, <1>2

-----------------------------------------------------------------------------
(* Memory holds bytes, and so do the tables of stream 3.                    *)

Bytes(m) == m \in [Addresses -> Byte]

UndoBytes == undo.saved => Bytes(undo.memory)

LEMMA RemainderIsByte == \A n \in Int : n % 256 \in Byte
BY ByteBounds

LEMMA StoredBytes ==
    ASSUME Bytes(memory), MemoryOK(memory), NEW address \in Addresses, NEW value \in Nat,
           StoreByte(address, value)
    PROVE  Bytes(memory')
<1> DEFINE v == value % 256
           w == AllowedByte(address, v)
<1>1. v \in Byte /\ v \in Int
  BY RemainderIsByte
<1> HIDE DEF v
<1>2. w \in Byte
  <2>1. CASE address = Flags2
    <3>1. w = (v % 8) + 8 * (memory[Flags2] \div 8)
      BY <2>1 DEF AllowedByte
    <3>2. memory[Flags2] \in Byte
      BY Layout DEF Bytes
    <3> QED BY <1>1, <3>1, <3>2, AllowedFlags
  <2>2. CASE address # Flags2
    BY <2>2 DEF AllowedByte, Bytes
  <2> QED BY <2>1, <2>2
<1> HIDE DEF w
<1>3. memory' = IF address < 64 THEN [memory EXCEPT ![address] = w]
                ELSE IF address < RomStart THEN [memory EXCEPT ![address] = v] ELSE memory
  BY DEF StoreByte, w, v
<1> QED BY <1>1, <1>2, <1>3 DEF Bytes

LEMMA StoredWord ==
    ASSUME Bytes(memory), MemoryOK(memory), NEW address \in Addresses, NEW value \in Nat,
           StoreWord(address, value)
    PROVE  Bytes(memory')
<1> DEFINE high == (value \div 256) % 256
           low == value % 256
           a == AllowedByte(address, high)
           b == AllowedByte(address + 1, low)
<1>1. high \in Byte /\ low \in Byte /\ high \in Int /\ low \in Int
  <2>1. value \div 256 \in Int /\ value \in Int
    OBVIOUS
  <2> QED BY <2>1, RemainderIsByte, ByteBounds
<1> HIDE DEF high, low
<1>2. \A x \in Addresses, v \in Int : AllowedByte(x, v) \in Byte
  <2> SUFFICES ASSUME NEW x \in Addresses, NEW v \in Int PROVE AllowedByte(x, v) \in Byte
    OBVIOUS
  <2>1. CASE x = Flags2
    <3>1. AllowedByte(x, v) = (v % 8) + 8 * (memory[Flags2] \div 8)
      BY <2>1 DEF AllowedByte
    <3>2. memory[Flags2] \in Byte
      BY Layout DEF Bytes
    <3> QED BY <3>1, <3>2, AllowedFlags
  <2>2. CASE x # Flags2
    BY <2>2 DEF AllowedByte, Bytes
  <2> QED BY <2>1, <2>2
<1>3. address + 1 \in Addresses
  BY DEF StoreWord
<1>4. a \in Byte /\ b \in Byte
  BY <1>1, <1>2, <1>3
<1>5. memory' = IF address + 1 >= RomStart THEN memory
                ELSE IF address < 64
                THEN [memory EXCEPT ![address] = a, ![address + 1] = b]
                ELSE [memory EXCEPT ![address] = high, ![address + 1] = low]
  BY DEF StoreWord, high, low
<1> HIDE DEF a, b
<1> QED BY <1>1, <1>3, <1>4, <1>5 DEF Bytes

(* A copy takes its bytes from the span of its first operand. *)
LEMMA RemainderBelow ==
    ASSUME NEW i \in Nat, NEW d \in Nat, d > 0
    PROVE  i % d \in Nat /\ i % d <= i
<1>1. CASE i < d
  BY <1>1
<1>2. CASE i >= d
  <2>1. i % d \in 0..d - 1
    OBVIOUS
  <2> QED BY <1>2, <2>1
<1> QED BY <1>1, <1>2

LEMMA CopiedBytes ==
    ASSUME Bytes(memory), NEW from \in Nat, NEW to \in Nat, NEW size \in Int,
           \A a \in Span(from, size) : a <= Top => a \in Addresses,
           HasSpan(from, Length(size))
    PROVE  Bytes(Copied(memory, from, to, size))
<1> DEFINE source(i) == from + (IF size < 0 /\ to > from THEN i % (to - from) ELSE i)
<1>1. /\ Length(size) \in Nat /\ Top \in Int /\ from + Length(size) <= Top + 1
      /\ \A a \in Addresses : a \in Int
  BY Layout DEF Length, HasSpan
<1>2. ASSUME NEW i \in 0..Length(size) - 1 PROVE from + i \in Addresses
  BY <1>1, <1>2 DEF Span
<1>3. ASSUME NEW i \in 0..Length(size) - 1 PROVE source(i) \in Addresses
  <2>1. CASE size < 0 /\ to > from
    <3> DEFINE d == to - from
    <3>1. d \in Nat /\ d > 0 /\ i \in Nat
      BY <1>1, <2>1
    <3> HIDE DEF d
    <3> DEFINE k == i % d
    <3>2. k \in Nat /\ k <= i
      BY <3>1, RemainderBelow
    <3>3. source(i) = from + k
      BY <2>1 DEF d
    <3> HIDE DEF k
    <3>4. k \in 0..Length(size) - 1
      BY <1>1, <3>2
    <3> HIDE DEF source
    <3> QED BY <1>2, <3>3, <3>4
  <2>2. CASE ~(size < 0 /\ to > from)
    <3>1. source(i) = from + i
      BY <2>2
    <3> HIDE DEF source
    <3> QED BY <1>2, <3>1
  <2> QED BY <2>1, <2>2
<1>4. ASSUME NEW a \in Addresses, a \in Span(to, size)
      PROVE  a - to \in 0..Length(size) - 1
  BY <1>1, <1>4 DEF Span
<1> HIDE DEF source
<1>5. Copied(memory, from, to, size) =
        [a \in Addresses |-> IF a \in Span(to, size) THEN memory[source(a - to)]
                             ELSE memory[a]]
  BY Zenon DEF Copied, source
<1>6. \A a \in Addresses : a \in Span(to, size) => source(a - to) \in Addresses
  BY <1>3, <1>4
<1> QED BY <1>5, <1>6 DEF Bytes

LEMMA ZeroedBytes ==
    ASSUME Bytes(memory), NEW first, NEW size
    PROVE  Bytes(Zeroed(memory, first, size))
<1>1. 0 \in Byte
  BY ByteBounds
<1> QED BY <1>1 DEF Bytes, Zeroed

(* What copy_table does: it fails, or memory holds bytes and the traps have *)
(* been handled, unless it has written zeros untrapped.                     *)
LEMMA CopyStep ==
    ASSUME Bytes(memory), program \in Programs, NEW copy \in program.copies,
           CopyTable(copy[1], copy[2], copy[3])
             \/ (copy[2] = 0 /\ ZeroMemory(copy[1], copy[3]))
    PROVE  /\ Bytes(memory')
           /\ \/ UNCHANGED tracked
              \/ \E start, length : TrackedBecomes(Handle(Tracked, memory', start, length))
           /\ UNCHANGED <<tables, undo>>
<1>1. copy[1] \in Nat /\ copy[2] \in Nat /\ copy[3] \in Int
  BY ProgramTypes
<1>2. \A a \in Span(copy[1], copy[3]) : a <= Top => a \in Addresses
  BY CopyAssumption
<1>3. \/ UNCHANGED memory
      \/ memory' = Zeroed(memory, copy[1], copy[3])
      \/ /\ HasSpan(copy[1], Length(copy[3]))
         /\ memory' = Copied(memory, copy[1], copy[2], copy[3])
  BY Zenon DEF CopyTable, ZeroMemory, Fails
<1>4. Bytes(memory')
  BY <1>1, <1>2, <1>3, CopiedBytes, ZeroedBytes
<1>5. \/ UNCHANGED tracked
      \/ \E start, length : TrackedBecomes(Handle(Tracked, memory', start, length))
  BY Zenon DEF CopyTable, ZeroMemory, Fails
<1>6. UNCHANGED <<tables, undo>>
  BY Zenon DEF CopyTable, ZeroMemory, Fails, streams
<1> QED BY <1>4, <1>5, <1>6

LEMMA TableOpened ==
    ASSUME NEW t \in Table
    PROVE  /\ Opened(t) /\ t.buffer \in Seq(Byte) /\ t.address \in 64..RomStart - 2
           /\ t = [address |-> t.address, buffer |-> t.buffer]
<1>1. /\ t.buffer \in Seq(Byte) /\ t.address \in 64..RomStart - 2
      /\ t = [address |-> t.address, buffer |-> t.buffer]
  BY DEF Table
<1>2. IsSeq(t.buffer)
  BY <1>1 DEF IsSeq
<1> QED BY <1>1, <1>2 DEF Opened

LEMMA ClosedBytes ==
    ASSUME Bytes(memory), tables \in Seq(Table), CloseTable
    PROVE  Bytes(memory')
<1> DEFINE t == Last(tables)
           n == StoredLength(t)
<1>1. tables # <<>> /\ memory' = WithTable(memory, t)
  BY DEF CloseTable
<1>2. t \in Table
  BY <1>1 DEF Last
<1> HIDE DEF t
<1>3. Opened(t) /\ t.buffer \in Seq(Byte)
  BY <1>2, TableOpened
<1>4. /\ t.address \in Int /\ 64 <= t.address /\ n \in Nat /\ n <= Len(t.buffer)
      /\ t.address + 1 + n < RomStart
  BY <1>3, RoomForTables
<1> HIDE DEF n
<1>5. n < 65536
  <2>1. RomStart \in Int /\ RomStart <= 65535
    BY Layout, LayoutAssumption
  <2> QED BY <1>4, <2>1
<1>6. n \div 256 \in Byte /\ n % 256 \in Byte
  BY <1>4, <1>5, ByteBounds
<1>7. \A a \in Addresses : a \in t.address + 2..t.address + 1 + n =>
            t.buffer[a - t.address - 1] \in Byte
  <2> SUFFICES ASSUME NEW a \in Addresses, a \in t.address + 2..t.address + 1 + n
               PROVE  t.buffer[a - t.address - 1] \in Byte
    OBVIOUS
  <2>1. a - t.address - 1 \in 1..Len(t.buffer)
    BY SMTT(30), <1>3, <1>4
  <2> QED BY <1>3, <2>1
<1>8. memory' = [a \in Addresses |->
                    IF a = t.address THEN n \div 256
                    ELSE IF a = t.address + 1 THEN n % 256
                    ELSE IF a \in t.address + 2..t.address + 1 + n
                         THEN t.buffer[a - t.address - 1]
                    ELSE memory[a]]
  BY <1>1, Zenon DEF WithTable, n
<1> QED BY <1>6, <1>7, <1>8 DEF Bytes

LEMMA ResetBytes ==
    ASSUME NEW m, Bytes(m), IoOK, ResetHeaderFields(m)
    PROVE  /\ Bytes(memory')
           /\ \A a \in 64..Top : memory'[a] = m[a]
<1> DEFINE flags == Flags(transcripting, fixedPitch)
<1>1. memory' = [m EXCEPT ![16] = 0, ![Flags2] = flags]
  BY DEF ResetHeaderFields, WithFlags
<1>2. flags \in Byte
  BY FlagsOK DEF IoOK
<1> HIDE DEF flags
<1>3. 0 \in Byte
  BY ByteBounds
<1>4. \A a \in 64..Top : a \in Addresses /\ a # 16 /\ a # Flags2
  BY Layout DEF Flags2
<1> QED BY <1>1, <1>2, <1>3, <1>4, Layout DEF Bytes

LEMMA SavedBytes ==
    ASSUME Bytes(memory), UndoBytes
    PROVE  /\ Bytes([a \in Addresses |-> IF a < RomStart THEN memory[a] ELSE 0])
           /\ undo.saved =>
                Bytes([a \in Addresses |->
                        IF a < RomStart THEN undo.memory[a] ELSE memory[a]])
<1>1. 0 \in Byte
  BY ByteBounds
<1> QED BY <1>1 DEF Bytes, UndoBytes

(* A table's place and contents do not depend on the header. *)
LEMMA SameTablesWithin ==
    ASSUME NEW m, Bytes(m), NEW n, InPlace(n), \A a \in 64..Top : n[a] = m[a]
    PROVE  InPlace(m)
<1>1. \A a \in TerminatingChars..Top : n[a] = m[a]
  BY TableAddresses
<1>2. \E a \in TerminatingChars..Top : m[a] \in {0, 255}
  BY <1>1 DEF InPlace, TablesWithin
<1>3. Ends(m, EndOfTerminating(m)) /\ \A a : Ends(n, a) => a = EndOfTerminating(n)
  BY <1>2, EndFound DEF InPlace, TablesWithin
<1> DEFINE e == EndOfTerminating(m)
<1> HIDE DEF e
<1>4. Ends(m, e) => Ends(n, e)
  <2> SUFFICES ASSUME Ends(m, e) PROVE Ends(n, e)
    OBVIOUS
  <2>1. e \in TerminatingChars..Top /\ m[e] \in {0, 255}
    BY DEF Ends
  <2>2. \A b \in TerminatingChars..e - 1 : b \in TerminatingChars..Top
    BY <2>1, TableAddresses
  <2> QED BY <1>1, <2>1, <2>2 DEF Ends
<1>5. EndOfTerminating(n) = EndOfTerminating(m)
  BY <1>3, <1>4 DEF e
<1>6. n[ExtraChars] = m[ExtraChars] /\ n[Separators] = m[Separators]
  BY TableAddresses
<1> QED BY <1>2, <1>5, <1>6 DEF InPlace, TablesWithin, Bytes

-----------------------------------------------------------------------------
(* The tables that are tracked, while they lie within memory and none starts*)
(* where another's trap does: where a program, or its story file, puts them *)
(* otherwise, one trap takes the place of another, or loading a table fails.*)
TablesInPlace == TablesWithin(memory)

StreamsInv == /\ MemoryInv
              /\ Bytes(memory) /\ UndoBytes
              /\ tables \in Seq(Table)
              /\ LoadsOK(Tracked) /\ AllCovered(Tracked)

LEMMA TrackedIs ==
    ASSUME NEW s, LoadsOK(s), AllCovered(s), TrackedBecomes(s)
    PROVE  LoadsOK(Tracked)' /\ AllCovered(Tracked)'
<1>1. s = [loaded |-> s.loaded, traps |-> s.traps]
  BY DEF LoadsOK, Loads
<1>2. Tracked' = s
  BY <1>1 DEF Tracked, TrackedBecomes
<1> QED BY <1>2

LEMMA InitStreamsInv == Init /\ TablesInPlace => StreamsInv
<1> SUFFICES ASSUME Init, TablesInPlace PROVE StreamsInv
  OBVIOUS
<1> DEFINE s == LoadAll(NothingLoaded, memory)
<1>1. MemoryInv /\ program \in Programs /\ memory = program.memory
  BY InitMemoryInv DEF Init
<1>2. Bytes(memory)
  BY <1>1, StoryAssumption DEF Bytes, IsStory
<1>3. InPlace(memory)
  BY <1>2 DEF InPlace, Bytes, TablesInPlace
<1>4. UndoBytes /\ tables \in Seq(Table)
  BY DEF Init, UndoBytes, NothingSaved
<1>5. LoadsOK(s) /\ AllCovered(s)
  BY <1>3, NothingLoadedOK, LoadedAll
<1>6. loaded = s.loaded /\ traps = s.traps
  BY <1>1 DEF Init
<1> HIDE DEF s
<1>7. s = [loaded |-> s.loaded, traps |-> s.traps]
  BY <1>5 DEF LoadsOK, Loads
<1>8. Tracked = s
  BY <1>6, <1>7 DEF Tracked
<1> QED BY <1>1, <1>2, <1>4, <1>5, <1>8 DEF StreamsInv

LEMMA HandledStep ==
    ASSUME LoadsOK(Tracked), AllCovered(Tracked), Bytes(memory'), TablesInPlace',
           NEW start, NEW length, TrackedBecomes(Handle(Tracked, memory', start, length))
    PROVE  LoadsOK(Tracked)' /\ AllCovered(Tracked)'
<1>1. InPlace(memory')
  BY DEF InPlace, Bytes, TablesInPlace
<1> DEFINE r == Handle(Tracked, memory', start, length)
<1>2. LoadsOK(r) /\ AllCovered(r)
  BY <1>1, HandleCovers
<1> HIDE DEF r
<1>3. TrackedBecomes(r)
  BY DEF r
<1> QED BY <1>2, <1>3, TrackedIs

LEMMA ResetStep ==
    ASSUME LoadsOK(Tracked), AllCovered(Tracked), IoOK, TablesInPlace',
           NEW m, Bytes(m), ResetHeaderFields(m)
    PROVE  Bytes(memory') /\ LoadsOK(Tracked)' /\ AllCovered(Tracked)'
<1>1. Bytes(memory') /\ \A a \in 64..Top : memory'[a] = m[a]
  BY ResetBytes
<1>2. InPlace(memory')
  BY <1>1 DEF InPlace, Bytes, TablesInPlace
<1>3. InPlace(m)
  BY <1>1, <1>2, SameTablesWithin
<1> DEFINE r == LoadAll(Tracked, m)
<1>4. LoadsOK(r) /\ AllCovered(r)
  BY <1>3, LoadedAll
<1> HIDE DEF r
<1>5. TrackedBecomes(r)
  BY DEF r, ResetHeaderFields
<1> QED BY <1>1, <1>4, <1>5, TrackedIs

LEMMA SameTracked ==
    /\ UNCHANGED tracked /\ LoadsOK(Tracked) /\ AllCovered(Tracked)
            => LoadsOK(Tracked)' /\ AllCovered(Tracked)'
    /\ UNCHANGED memory /\ Bytes(memory) => Bytes(memory')
    /\ UNCHANGED undo /\ UndoBytes => UndoBytes'
    /\ UNCHANGED tables /\ tables \in Seq(Table) => tables' \in Seq(Table)
<1>1. UNCHANGED tracked => Tracked' = Tracked
  BY DEF tracked, Tracked
<1>2. UNCHANGED tracked /\ LoadsOK(Tracked) /\ AllCovered(Tracked)
            => LoadsOK(Tracked)' /\ AllCovered(Tracked)'
  BY <1>1
<1>3. UNCHANGED undo /\ UndoBytes => UndoBytes'
  BY DEF UndoBytes
<1> QED BY <1>2, <1>3

(* A character more, whatever its code, keeps the tables' type. *)
LEMMA PrintedTyped ==
    ASSUME tables \in Seq(Table), NEW code \in Int, NEW ch, Prints(code, ch)
    PROVE  tables' \in Seq(Table)
<1>1. CASE tables = <<>>
  BY <1>1 DEF Prints
<1>2. CASE tables # <<>>
  <2> DEFINE n == Len(tables)
             t == tables[n]
             s == [t EXCEPT !.buffer = Append(t.buffer, code % 256)]
  <2>1. n \in 1..Len(tables) /\ t \in Table
    BY <1>2
  <2>2. tables' = [tables EXCEPT ![n] = s]
    BY <1>2 DEF Prints, Innermost
  <2> HIDE DEF n, t
  <2>3. PICK a \in 64..RomStart - 2, b \in Seq(Byte) : t = [address |-> a, buffer |-> b]
    BY <2>1, TableOpened
  <2>4. s \in Table
    <3>1. code % 256 \in Byte
      BY RemainderIsByte
    <3>2. Append(b, code % 256) \in Seq(Byte)
      BY <3>1
    <3> DEFINE longer == Append(b, code % 256)
    <3>3. t.buffer = b
      BY <2>3
    <3>4. s = [t EXCEPT !.buffer = longer]
      BY <3>3
    <3> HIDE DEF longer, s
    <3>5. s = [address |-> a, buffer |-> longer]
      BY <2>3, <3>4
    <3>6. longer \in Seq(Byte)
      BY <3>2 DEF longer
    <3> QED BY <3>5, <3>6 DEF Table
  <2> HIDE DEF s
  <2> QED BY <2>1, <2>2, <2>4
<1> QED BY <1>1, <1>2

LEMMA CodesAreNumbers ==
    ASSUME LoadsOK(Tracked)
    PROVE  /\ \A ch \in Characters : CharToZSCII(loaded["extra"], ch) \in Int
           /\ \A code \in Byte : CharFromZSCII(loaded["extra"], code) \in Characters
           /\ \A ch \in Characters : ch \in Int
           /\ \A code \in Byte : code \in Int
<1> DEFINE extra == loaded["extra"]
<1>1. extra \in Seq(Characters) /\ Len(extra) \in Nat
  BY DEF LoadsOK, Loads, Tracked, Tables
<1>2. \A code \in Byte : code \in Int /\ code \in Characters
  BY MaxCharacterIs DEF Byte, Characters
<1> HIDE DEF extra
<1>3. ASSUME NEW ch \in Characters PROVE CharToZSCII(extra, ch) \in Int
  <2>1. CASE ch = 10
    BY <2>1 DEF CharToZSCII
  <2>2. CASE ch # 10 /\ Contains(extra, ch)
    <3> DEFINE k == SelectInSeq(extra, LAMBDA c : c = ch)
    <3>1. k \in 1..Len(extra)
      BY <1>1, <2>2, FirstIndex
    <3>2. CharToZSCII(extra, ch) = 154 + k
      BY <2>2 DEF CharToZSCII
    <3> HIDE DEF k
    <3> QED BY <1>1, <3>1, <3>2
  <2>3. CASE ch # 10 /\ ~Contains(extra, ch)
    BY <2>3, CharactersAreNumbers DEF CharToZSCII
  <2> QED BY <2>1, <2>2, <2>3
<1>4. ASSUME NEW code \in Byte PROVE CharFromZSCII(extra, code) \in Characters
  <2>1. 10 \in Characters
    BY <1>2, ByteBounds
  <2>2. code \in 155..154 + Len(extra) => extra[code - 154] \in Characters
    BY <1>1, <1>2
  <2> QED BY <1>2, <2>1, <2>2 DEF CharFromZSCII
<1> QED BY <1>2, <1>3, <1>4, CharactersAreNumbers DEF extra

LEMMA NextStreamsInv == StreamsInv /\ TablesInPlace' /\ [Next]_vars => StreamsInv'
<1> SUFFICES ASSUME StreamsInv, TablesInPlace', [Next]_vars PROVE StreamsInv'
  OBVIOUS
<1> DEFINE Rest == /\ Bytes(memory') /\ UndoBytes' /\ tables' \in Seq(Table)
                   /\ LoadsOK(Tracked)' /\ AllCovered(Tracked)'
<1>u. /\ MemoryOK(memory) /\ IoOK /\ TablesOK /\ program \in Programs
      /\ Bytes(memory) /\ UndoBytes /\ tables \in Seq(Table)
      /\ LoadsOK(Tracked) /\ AllCovered(Tracked)
  BY DEF StreamsInv, MemoryInv
<1>p. MemoryInv' /\ UNCHANGED program
  BY NextMemoryInv, SameProgram DEF StreamsInv
<1>s. SUFFICES Rest
  BY <1>p, <1>s DEF StreamsInv
<1>1. CASE UNCHANGED vars
  BY <1>1, <1>u, SameTracked DEF vars, streams
<1>2. ASSUME NEW enabled \in BOOLEAN, SelectScreen(enabled) \/ SelectTranscript(enabled)
      PROVE  Rest
  <2>1. UNCHANGED <<memory, tables, tracked, undo>>
    BY <1>2, Zenon DEF SelectScreen, SelectTranscript, streams
  <2> QED BY <2>1, <1>u, SameTracked
<1>3. ASSUME NEW address \in program.tables, OpenTable(address) PROVE Rest
  <2>1. UNCHANGED <<memory, tracked, undo>>
    BY <1>3, Zenon DEF OpenTable, Fails, streams
  <2>2. \/ UNCHANGED tables
        \/ /\ IsTableAddress(address)
           /\ tables' = Append(tables, [address |-> address, buffer |-> <<>>])
    BY <1>3, Zenon DEF OpenTable, Fails, streams
  <2>3. tables' \in Seq(Table)
    <3>1. IsTableAddress(address) => address \in 64..RomStart - 2
      BY <1>u, ProgramTypes, Layout DEF IsTableAddress
    <3>2. <<>> \in Seq(Byte)
      OBVIOUS
    <3>3. IsTableAddress(address) => [address |-> address, buffer |-> <<>>] \in Table
      BY <3>1, <3>2 DEF Table
    <3> QED BY <1>u, <2>2, <3>3
  <2> QED BY <2>1, <2>3, <1>u, SameTracked
<1>4. CASE CloseTable
  <2>1. UNCHANGED <<tracked, undo>> /\ tables # <<>> /\ tables' = Front(tables)
    BY <1>4 DEF CloseTable
  <2>2. tables' \in Seq(Table)
    BY <1>u, <2>1 DEF Front
  <2> QED BY <1>4, <1>u, <2>1, <2>2, ClosedBytes, SameTracked
<1>5. CASE InvalidStream
  <2>1. UNCHANGED <<memory, tables, tracked, undo>>
    BY <1>5, Zenon DEF InvalidStream, Fails, streams
  <2> QED BY <2>1, <1>u, SameTracked
<1>6. ASSUME NEW code \in Int, NEW ch, Prints(code, ch) PROVE Rest
  <2>1. UNCHANGED <<memory, tracked, undo>>
    BY <1>6, Zenon DEF Prints
  <2> QED BY <1>6, <1>u, <2>1, PrintedTyped, SameTracked
<1>7. ASSUME NEW code \in program.zscii, PrintZSCII(code) \/ PrintString(code) PROVE Rest
  <2>1. code \in Byte /\ code \in Int
    BY <1>u, ProgramTypes, CodesAreNumbers
  <2>2. CASE PrintZSCII(code)
    BY <1>6, <2>1, <2>2 DEF PrintZSCII
  <2>3. CASE PrintString(code)
    <3> DEFINE ch == CharFromZSCII(loaded["extra"], code)
    <3>1. ch \in Characters
      BY <1>u, <2>1, CodesAreNumbers
    <3>2. Prints(CharToZSCII(loaded["extra"], ch), ch)
      BY <2>3 DEF PrintString
    <3> HIDE DEF ch
    <3>3. CharToZSCII(loaded["extra"], ch) \in Int
      BY <1>u, <3>1, CodesAreNumbers
    <3> QED BY <1>6, <3>2, <3>3
  <2> QED BY <1>7, <2>2, <2>3
<1>8. ASSUME NEW ch \in program.unicode, PrintUnicode(ch) PROVE Rest
  <2>1. ch \in Characters
    BY <1>u, ProgramTypes
  <2>2. CharToZSCII(loaded["extra"], ch) \in Int
    BY <1>u, <2>1, CodesAreNumbers
  <2> QED BY <1>6, <1>8, <2>2 DEF PrintUnicode
<1>9. ASSUME NEW store \in program.stores, StoreByte(store[1], store[2]) PROVE Rest
  <2>1. store[1] \in Addresses /\ store[2] \in Nat
    BY <1>u, ProgramTypes
  <2>2. Bytes(memory')
    BY <1>9, <1>u, <2>1, StoredBytes
  <2>3. /\ UNCHANGED <<tables, undo>>
        /\ TrackedBecomes(Handle(Tracked, memory', store[1], 1))
    BY <1>9 DEF StoreByte, streams
  <2>4. LoadsOK(Tracked)' /\ AllCovered(Tracked)'
    BY <1>u, <2>2, <2>3, HandledStep
  <2> QED BY <1>u, <2>2, <2>3, <2>4, SameTracked
<1>10. ASSUME NEW store \in program.stores, StoreWord(store[1], store[2]) PROVE Rest
  <2>1. store[1] \in Addresses /\ store[2] \in Nat
    BY <1>u, ProgramTypes
  <2>2. Bytes(memory')
    BY <1>10, <1>u, <2>1, StoredWord
  <2>3. /\ UNCHANGED <<tables, undo>>
        /\ TrackedBecomes(Handle(Tracked, memory', store[1], 2))
    BY <1>10 DEF StoreWord, streams
  <2>4. LoadsOK(Tracked)' /\ AllCovered(Tracked)'
    BY <1>u, <2>2, <2>3, HandledStep
  <2> QED BY <1>u, <2>2, <2>3, <2>4, SameTracked
<1>11. ASSUME NEW copy \in program.copies,
              CopyTable(copy[1], copy[2], copy[3])
                \/ (copy[2] = 0 /\ ZeroMemory(copy[1], copy[3]))
       PROVE  Rest
  <2>1. /\ Bytes(memory') /\ UNCHANGED <<tables, undo>>
        /\ \/ UNCHANGED tracked
           \/ \E start, length : TrackedBecomes(Handle(Tracked, memory', start, length))
    BY <1>11, <1>u, CopyStep
  <2>2. LoadsOK(Tracked)' /\ AllCovered(Tracked)'
    BY <1>u, <2>1, HandledStep, SameTracked
  <2> QED BY <1>u, <2>1, <2>2, SameTracked
<1>12. CASE SaveUndo
  <2> DEFINE m == [a \in Addresses |-> IF a < RomStart THEN memory[a] ELSE 0]
  <2>1. UNCHANGED <<memory, tables, tracked>> /\ undo' = [saved |-> TRUE, memory |-> m]
    BY <1>12 DEF SaveUndo, streams
  <2>2. Bytes(m)
    BY <1>u, SavedBytes
  <2> HIDE DEF m
  <2>3. UndoBytes'
    BY <2>1, <2>2 DEF UndoBytes
  <2> QED BY <1>u, <2>1, <2>3, SameTracked
<1>13. ASSUME NEW m, Bytes(m), ResetHeaderFields(m), undo' = NothingSaved PROVE Rest
  <2>1. Bytes(memory') /\ LoadsOK(Tracked)' /\ AllCovered(Tracked)'
    BY <1>13, <1>u, ResetStep
  <2>2. tables' \in Seq(Table)
    BY <1>13 DEF ResetHeaderFields
  <2>3. UndoBytes'
    BY <1>13 DEF UndoBytes, NothingSaved
  <2> QED BY <2>1, <2>2, <2>3
<1>14. CASE RestoreUndo
  <2> DEFINE m == [a \in Addresses |-> IF a < RomStart THEN undo.memory[a] ELSE memory[a]]
  <2>1. ResetHeaderFields(m) /\ undo.saved /\ undo' = NothingSaved
    BY <1>14 DEF RestoreUndo
  <2>2. Bytes(m)
    BY <1>u, <2>1, SavedBytes
  <2> HIDE DEF m
  <2> QED BY <1>13, <2>1, <2>2
<1>15. CASE Restart
  <2>1. Bytes(program.memory)
    BY <1>u, StoryAssumption DEF Bytes, IsStory
  <2> QED BY <1>13, <1>15, <2>1 DEF Restart
<1> QED BY <1>1, <1>2, <1>3, <1>4, <1>5, <1>7, <1>8, <1>9, <1>10, <1>11, <1>12,
           <1>14, <1>15 DEF Next

(* The traps stay in order for their binary search, and those of the extra  *)
(* characters and the separators cover their tables as they were loaded     *)
(* (ZMachine.cs, MemoryTraps and the Load... handlers), as long as these    *)
(* tables lie apart in memory.                                              *)
THEOREM TrapsAlwaysCoverTables == Spec /\ []TablesInPlace => []TrapsCoverTables
<1>1. StreamsInv => TrapsCoverTables
  <2> SUFFICES ASSUME StreamsInv PROVE TrapsCoverTables
    OBVIOUS
  <2>1. LoadsOK(Tracked) /\ AllCovered(Tracked)
    BY DEF StreamsInv
  <2>2. Ordered(traps.list) /\ DOMAIN traps.list = 1..Len(traps.list)
    BY <2>1 DEF LoadsOK, Loads, Tracked
  <2>3. /\ Covered(Tracked, "extra", ExtraChars)
        /\ Covered(Tracked, "separators", Separators)
    BY <2>1 DEF AllCovered
  <2>4. \E i \in DOMAIN traps.list :
            Covers(traps.list[i], "extra", ExtraChars, 2 * Len(loaded["extra"]) + 1)
    BY <2>2, <2>3 DEF Covered, Tracked
  <2>5. \E i \in DOMAIN traps.list :
            Covers(traps.list[i], "separators", Separators, Len(loaded["separators"]) + 1)
    BY <2>2, <2>3 DEF Covered, Tracked
  <2> QED BY <2>2, <2>4, <2>5 DEF TrapsCoverTables, Ordered
<1> QED BY InitStreamsInv, NextStreamsInv, <1>1, PTL DEF Spec

-----------------------------------------------------------------------------
(* The type invariant                                                       *)

Shown == /\ status \in {"running", "failed"}
         /\ normalOutput \in BOOLEAN
         /\ Len(tables) <= MaxTables
         /\ screen \in Characters /\ transcript \in Characters
         /\ executed \in 0..program.length

LEMMA InitShown == Init => Shown
<1> SUFFICES ASSUME Init PROVE Shown
  OBVIOUS
<1>1. 0 \in Characters
  BY MaxCharacterIs DEF Characters
<1>2. Len(tables) <= MaxTables
  BY LayoutAssumption DEF Init
<1>3. program.length \in Nat
  BY ProgramAssumption DEF Init
<1> QED BY <1>1, <1>2, <1>3 DEF Init, Shown

LEMMA NextShown == StreamsInv /\ Shown /\ [Next]_vars => Shown'
<1> SUFFICES ASSUME StreamsInv, Shown, [Next]_vars PROVE Shown'
  OBVIOUS
<1>u. /\ program \in Programs /\ tables \in Seq(Table) /\ LoadsOK(Tracked)
      /\ program.length \in Nat /\ MaxTables \in Nat /\ Len(tables) \in Nat
  BY ProgramAssumption, LayoutAssumption DEF StreamsInv, MemoryInv
<1>0. 0 \in Characters
  BY MaxCharacterIs DEF Characters
<1>e. Executes => UNCHANGED program /\ executed' \in 0..program.length
  BY <1>u DEF Executes, Shown
<1>q. Quietly =>
        UNCHANGED program /\ executed' \in 0..program.length
        /\ screen' \in Characters /\ transcript' \in Characters
  BY <1>e, <1>0 DEF Quietly, ShowsNothing
<1>1. CASE UNCHANGED vars
  BY <1>1 DEF vars, streams, shown, Shown
<1>2. ASSUME Quietly, UNCHANGED status, UNCHANGED normalOutput \/ normalOutput' \in BOOLEAN,
             UNCHANGED tables \/ Len(tables') <= MaxTables
      PROVE  Shown'
  BY <1>2, <1>q DEF Shown
<1>3. ASSUME NEW enabled \in BOOLEAN, SelectScreen(enabled) PROVE Shown'
  <2>1. Quietly /\ UNCHANGED status /\ normalOutput' \in BOOLEAN /\ UNCHANGED tables
    BY <1>3, Zenon DEF SelectScreen
  <2> QED BY <1>2, <2>1
<1>4. ASSUME NEW enabled \in BOOLEAN, SelectTranscript(enabled) PROVE Shown'
  <2>1. Quietly /\ UNCHANGED <<status, normalOutput, tables>>
    BY <1>4, Zenon DEF SelectTranscript, streams
  <2> QED BY <1>2, <2>1
<1>5. ASSUME NEW address \in program.tables, OpenTable(address) PROVE Shown'
  <2>1. Quietly
    BY <1>5 DEF OpenTable
  <2>2. CASE Fails
    <3>1. status' = "failed" /\ UNCHANGED <<normalOutput, tables>>
      BY <2>2, Zenon DEF Fails, streams
    <3> QED BY <1>q, <2>1, <3>1 DEF Shown
  <2>3. CASE ~Fails
    <3>1. /\ Len(tables) # MaxTables
          /\ tables' = Append(tables, [address |-> address, buffer |-> <<>>])
          /\ UNCHANGED <<status, normalOutput>>
      BY <1>5, <2>3, Zenon DEF OpenTable
    <3>2. Len(tables') = Len(tables) + 1
      BY <1>u, <3>1
    <3>3. Len(tables') <= MaxTables
      BY <1>u, <3>1, <3>2 DEF Shown
    <3> QED BY <1>2, <2>1, <3>1, <3>3
  <2> QED BY <2>2, <2>3
<1>6. CASE CloseTable
  <2>1. Quietly /\ tables # <<>> /\ tables' = Front(tables) /\ UNCHANGED <<status, normalOutput>>
    BY <1>6 DEF CloseTable
  <2>2. Len(tables') = Len(tables) - 1
    <3>1. IsSeq(tables)
      BY <1>u, Zenon DEF IsSeq
    <3>2. Len(Front(tables)) = Len(tables) - 1
      BY <2>1, <3>1, FrontIsSeq
    <3> QED BY <2>1, <3>2
  <2>3. Len(tables') <= MaxTables
    BY <1>u, <2>2 DEF Shown
  <2> QED BY <1>2, <2>1, <2>3
<1>7. CASE InvalidStream
  <2>1. Quietly /\ status' = "failed" /\ UNCHANGED <<normalOutput, tables>>
    BY <1>7, Zenon DEF InvalidStream, Fails, streams
  <2> QED BY <1>q, <2>1 DEF Shown
<1>8. ASSUME Executes, NEW code, NEW ch \in Characters, Prints(code, ch) PROVE Shown'
  <2>1. UNCHANGED <<status, normalOutput>>
    BY <1>8, Zenon DEF Prints
  <2>2. CASE tables # <<>>
    <3>1. tables' = [tables EXCEPT ![Innermost].buffer = Append(@, code % 256)]
          /\ ShowsNothing
      BY <1>8, <2>2 DEF Prints
    <3>2. Len(tables') = Len(tables)
      BY <1>u, <3>1
    <3> QED BY <1>0, <1>8, <1>e, <2>1, <3>1, <3>2 DEF Shown, ShowsNothing
  <2>3. CASE tables = <<>>
    <3>1. /\ screen' = IF normalOutput THEN ch ELSE 0
          /\ transcript' = IF transcripting THEN ch ELSE 0
          /\ UNCHANGED tables
      BY <1>8, <2>3, Zenon DEF Prints
    <3>2. screen' \in Characters /\ transcript' \in Characters
      BY <1>0, <3>1
    <3> QED BY <1>8, <1>e, <2>1, <3>1, <3>2 DEF Shown
  <2> QED BY <2>2, <2>3
<1>9. ASSUME NEW code \in program.zscii, PrintZSCII(code) \/ PrintString(code) PROVE Shown'
  <2> DEFINE ch == CharFromZSCII(loaded["extra"], code)
  <2>1. ch \in Characters
    BY <1>u, ProgramTypes, CodesAreNumbers
  <2>2. Executes /\ \E c : Prints(c, ch)
    BY <1>9, Zenon DEF PrintZSCII, PrintString
  <2> HIDE DEF ch
  <2> QED BY <1>8, <2>1, <2>2
<1>10. ASSUME NEW ch \in program.unicode, PrintUnicode(ch) PROVE Shown'
  <2>1. ch \in Characters
    BY <1>u, ProgramTypes
  <2> QED BY <1>8, <1>10, <2>1 DEF PrintUnicode
<1>11. ASSUME NEW store, StoreByte(store[1], store[2]) \/ StoreWord(store[1], store[2])
       PROVE  Shown'
  <2>1. Quietly /\ UNCHANGED <<status, normalOutput, tables>>
    BY <1>11, Zenon DEF StoreByte, StoreWord, streams
  <2> QED BY <1>2, <2>1
<1>12. ASSUME NEW copy, CopyTable(copy[1], copy[2], copy[3]) \/ ZeroMemory(copy[1], copy[3])
       PROVE  Shown'
  <2>1. Quietly /\ UNCHANGED <<normalOutput, tables>>
        /\ (UNCHANGED status \/ status' = "failed")
    BY <1>12, Zenon DEF CopyTable, ZeroMemory, Fails, streams
  <2> QED BY <1>q, <2>1 DEF Shown
<1>13. CASE SaveUndo
  <2>1. Quietly /\ UNCHANGED <<status, normalOutput, tables>>
    BY <1>13, Zenon DEF SaveUndo, streams
  <2> QED BY <1>2, <2>1
<1>14. CASE RestoreUndo \/ Restart
  <2>1. Quietly /\ UNCHANGED status /\ normalOutput' = TRUE /\ tables' = <<>>
    BY <1>14, Zenon DEF RestoreUndo, Restart, ResetHeaderFields
  <2>2. Len(tables') <= MaxTables
    BY <1>u, <2>1
  <2> QED BY <1>2, <2>1, <2>2
<1> QED BY <1>1, <1>3, <1>4, <1>5, <1>6, <1>7, <1>9, <1>10, <1>11, <1>12, <1>13,
           <1>14 DEF Next

Lengths == MeantInv("lengths")

(* Memory and the tables of stream 3 hold bytes, what is loaded from memory *)
(* is characters, each table has as many codes as were printed to it, and   *)
(* they nest as deep as they may (Output.cs, SetOutputStreamAsync).         *)
THEOREM OutputAlwaysTyped == Spec /\ []TablesInPlace => []TypeOK
<1>1. StreamsInv /\ Shown /\ Lengths => TypeOK
  <2> SUFFICES ASSUME StreamsInv, Shown, Lengths PROVE TypeOK
    OBVIOUS
  <2>1. /\ program \in Programs /\ IoOK /\ Bytes(memory) /\ UndoBytes
        /\ tables \in Seq(Table) /\ LoadsOK(Tracked)
    BY DEF StreamsInv, MemoryInv
  <2>2. traps.list \in Seq(Trapped) /\ loaded \in [Tables -> Seq(Characters)]
    BY <2>1 DEF LoadsOK, Loads, Tracked
  <2>3. {normalOutput, transcripting, fixedPitch} \subseteq BOOLEAN
    BY <2>1, Zenon DEF IoOK, Shown
  <2>4. /\ Len(meant) = Len(tables)
        /\ \A i \in DOMAIN tables : Len(tables[i].buffer) = Len(meant[i])
    BY DEF Lengths, MeantInv, TextKept
  <2>5. /\ status \in {"running", "failed"} /\ Len(tables) <= MaxTables
        /\ screen \in Characters /\ transcript \in Characters
        /\ executed \in 0..program.length
    BY DEF Shown
  <2>6. /\ memory \in [Addresses -> Byte]
        /\ undo.saved => undo.memory \in [Addresses -> Byte]
    BY <2>1 DEF Bytes, UndoBytes
  <2> QED BY <2>1, <2>2, <2>3, <2>4, <2>5, <2>6, Zenon DEF TypeOK
<1>2. Init => Lengths
  BY InitMeantInv DEF Lengths
<1>3. StreamsInv /\ Lengths /\ [Next]_vars => Lengths'
  BY NextMeantInv DEF Lengths, StreamsInv
<1> QED BY InitStreamsInv, NextStreamsInv, InitShown, NextShown, <1>1, <1>2, <1>3, PTL
        DEF Spec

-----------------------------------------------------------------------------
(* A write loads the tables it changes                                      *)

(* Otherwise a trap for a new end of the terminating characters pushes the  *)
(* last trap beyond the number of traps that Handle counted at first.       *)
TerminatingLast == TerminatingChars > ExtraChars /\ TerminatingChars > Separators

(* Loading a table moves the traps of no other one. *)
LEMMA LoadedInPlace ==
    ASSUME TerminatingLast, NEW s, LoadsOK(s), NEW m, InPlace(m), NEW table \in Tables,
           NEW k \in 1..Len(s.traps.list), s.traps.list[k].table = table,
           NEW r, r = Load(s, m, table), NEW j \in 1..Len(s.traps.list)
    PROVE  /\ s.traps.list[j].table # table => r.traps.list[j] = s.traps.list[j]
           /\ s.traps.list[j].table = table /\ table # "terminating"
                => r.traps.list[j].table = table
<1> DEFINE old == s.traps.list
           new == r.traps.list
           trap == Trap(m, table)
<1>0. /\ old \in Seq(Trapped) /\ Len(old) \in Nat
      /\ Located(old[j]) /\ Located(old[k])
      /\ old[j].start \in Int /\ old[j].table \in Tables
  <2>1. old \in Seq(Trapped) /\ Located(old[j]) /\ Located(old[k])
    BY DEF LoadsOK, Loads
  <2>2. old[j] \in Trapped
    BY <2>1
  <2> QED BY <2>1, <2>2, TableAddresses
<1>1. Replaced(old, trap, new)
  BY Loaded
<1>2. /\ Located(trap) /\ trap.table = table /\ trap.start \in Int
  BY TrapInPlace, TableAddresses
<1> HIDE DEF old, new, trap
<1>k. old[k].table = table
  BY DEF old
<1>3. CASE ~(trap.start < RomStart)
  <2>1. new = old
    BY <1>1, <1>3 DEF Replaced
  <2> QED BY <2>1 DEF new, old
<1>4. CASE trap.start < RomStart
  <2>1. PICK p : SetAgain(old, trap, new, p)
    BY <1>1, <1>4 DEF Replaced
  <2>j. j \in 1..Len(old) /\ j \in Int
    BY <1>0 DEF old
  <2>2. /\ p \in 1..Len(old) + 1 /\ p \in Int
        /\ old[j].start < trap.start <=> j < p
        /\ \A i \in 1..p - 1 : new[i] = old[i]
        /\ new[p] = trap
    BY <1>0, <2>1, <2>j DEF SetAgain
  <2>b. j < p => new[j] = old[j]
    <3>1. j < p => j \in 1..p - 1
      BY <2>j, <2>2
    <3> QED BY <2>2, <3>1
  <2>3. CASE table = "terminating"
    <3>1. old[j].table # table => old[j].start < trap.start
      BY <1>0, <1>2, <2>3, TableAddresses DEF Located, TerminatingLast
    <3>2. old[j].table # table => new[j] = old[j]
      BY <2>2, <2>b, <3>1
    <3> QED BY <2>3, <3>2 DEF new, old
  <2>4. CASE table # "terminating"
    <3>1. old[k].start = trap.start
      BY <1>0, <1>k, <1>2, <2>4, TableAddresses DEF Located
    <3>k. k \in 1..Len(old)
      BY DEF old
    <3>2. /\ p <= Len(old) /\ old[p].start = trap.start
          /\ \A i \in p + 1..Len(old) : new[i] = old[i]
      BY <2>1, <3>1, <3>k DEF SetAgain
    <3>3. j # p => new[j] = old[j]
      <4>1. j > p => j \in p + 1..Len(old)
        BY <1>0, <2>j, <2>2
      <4>2. j # p => j < p \/ j > p
        BY <2>j, <2>2
      <4> QED BY <2>b, <3>2, <4>1, <4>2
    <3>4. old[j].table # table => old[j].start # trap.start
      BY <1>0, <1>2, <2>4, TableAddresses DEF Located
    <3>5. old[j].table # table => new[j] = old[j]
      BY <3>2, <3>3, <3>4
    <3>6. old[j].table = table => new[j].table = table
      BY <1>2, <2>2, <3>3
    <3> QED BY <3>5, <3>6 DEF new, old
  <2> QED BY <2>3, <2>4
<1> QED BY <1>3, <1>4

LEMMA LoadedContents ==
    ASSUME NEW s, LoadsOK(s), NEW m, InPlace(m), NEW table \in Tables,
           NEW r, r = Load(s, m, table), NEW other \in Tables,
           other = table \/ s.loaded[other] = Contents(m, other)
    PROVE  r.loaded[other] = Contents(m, other)
<1>1. r.loaded = [s.loaded EXCEPT ![table] = Contents(m, table)]
  BY Loaded
<1>2. s.loaded \in [Tables -> Seq(Characters)]
  BY DEF LoadsOK, Loads
<1> QED BY <1>1, <1>2

(* What remains of a list of traps after the first i have been handled: the *)
(* rest, or their tables are loaded already.                                *)
HandledSoFar(list, r, m, start, length, i) ==
    /\ \A j \in 1..Len(list) :
            list[j].table # "terminating" => r.traps.list[j].table = list[j].table
    /\ \A j \in i + 1..Len(list) :
            \/ r.traps.list[j] = list[j]
            \/ /\ list[j].table = "terminating"
               /\ r.loaded["terminating"] = Contents(m, "terminating")
    /\ \A j \in 1..i : Within(start, length, list[j]) =>
            r.loaded[list[j].table] = Contents(m, list[j].table)

LEMMA NextHandled ==
    ASSUME TerminatingLast, NEW list \in Seq(Trapped), NEW i \in 1..Len(list),
           NEW s, LoadsOK(s), Len(s.traps.list) >= Len(list),
           NEW m, InPlace(m), NEW start, NEW length,
           HandledSoFar(list, s, m, start, length, i - 1),
           NEW r, r = HandleTrap(s, m, start, length, i)
    PROVE  HandledSoFar(list, r, m, start, length, i)
<1> DEFINE n == Len(list)
           old == s.traps.list
           new == r.traps.list
           table == old[i].table
<1>0. /\ n \in Nat /\ i \in 1..n /\ i \in Int /\ Len(old) \in Nat /\ Len(old) >= n
      /\ s.loaded \in [Tables -> Seq(Characters)]
      /\ \A j \in 1..n : j \in 1..Len(old) /\ list[j].table \in Tables
  <2>1. old \in Seq(Trapped) /\ s.loaded \in [Tables -> Seq(Characters)]
    BY DEF LoadsOK, Loads
  <2>2. \A j \in 1..n : list[j] \in Trapped
    OBVIOUS
  <2> QED BY <2>1, <2>2, TableAddresses
<1>1. /\ \A j \in 1..n : list[j].table # "terminating" => old[j].table = list[j].table
      /\ \A j \in i..n :
            \/ old[j] = list[j]
            \/ /\ list[j].table = "terminating"
               /\ s.loaded["terminating"] = Contents(m, "terminating")
      /\ \A j \in 1..i - 1 : Within(start, length, list[j]) =>
            s.loaded[list[j].table] = Contents(m, list[j].table)
  BY <1>0 DEF HandledSoFar
<1>2. /\ table \in Tables
      /\ IF Within(start, length, old[i]) THEN r = Load(s, m, table) ELSE r = s
  BY <1>0, TrapHandled
<1>i. i \in i..n /\ \A j \in 1..i : j = i \/ j \in 1..i - 1
  BY <1>0
<1>h. \A j \in i + 1..n : j \in i..n /\ j \in 1..n /\ j # i
  BY <1>0
<1>3. CASE ~Within(start, length, old[i])
  <2>1. r = s
    BY <1>2, <1>3
  <2>2. Within(start, length, list[i]) =>
            s.loaded[list[i].table] = Contents(m, list[i].table)
    BY <1>1, <1>3, <1>i
  <2> QED BY <1>1, <1>i, <1>h, <2>1, <2>2 DEF HandledSoFar
<1>4. CASE Within(start, length, old[i])
  <2>1. r = Load(s, m, table)
    BY <1>2, <1>4
  <2>3. \A other \in Tables :
            other = table \/ s.loaded[other] = Contents(m, other)
                => r.loaded[other] = Contents(m, other)
    <3> HIDE DEF table
    <3> QED BY <1>2, <2>1, LoadedContents
  <2>4. \A j \in 1..n :
            /\ old[j].table # table => new[j] = old[j]
            /\ old[j].table = table /\ table # "terminating" => new[j].table = table
    BY SMTT(30), <1>0, <1>2, <2>1, LoadedInPlace
  <2>5. \A j \in i + 1..n : old[j].table = table => table = "terminating"
    <3> SUFFICES ASSUME NEW j \in i + 1..n, old[j].table = table, table # "terminating"
                 PROVE  FALSE
      OBVIOUS
    <3>0. old \in Seq(Trapped) /\ Ordered(old) /\ \A l \in 1..Len(old) : Located(old[l])
      BY DEF LoadsOK, Loads
    <3> HIDE DEF old, n
    <3>1. i \in 1..Len(old) /\ j \in 1..Len(old) /\ i < j /\ DOMAIN old = 1..Len(old)
      BY <1>0, <1>h, <3>0
    <3>2. Located(old[i]) /\ Located(old[j]) /\ old[i].start < old[j].start
      BY <3>0, <3>1 DEF Ordered
    <3>3. old[i].start = old[j].start
      BY <1>2, <3>2, TableAddresses DEF Located
    <3>4. old[i].start \in Int
      <4>1. old[i] \in Trapped
        BY <3>0, <3>1
      <4> QED BY <4>1, TableAddresses
    <3> QED BY <3>2, <3>3, <3>4
  <2>t. "terminating" \in Tables
    BY DEF Tables
  <2> HIDE DEF n, old, new, table
  <2>6. \A j \in 1..n : list[j].table # "terminating" => new[j].table = list[j].table
    BY <1>1, <2>4
  <2>7. ASSUME NEW j \in i + 1..n
        PROVE  \/ new[j] = list[j]
               \/ /\ list[j].table = "terminating"
                  /\ r.loaded["terminating"] = Contents(m, "terminating")
    <3>1. CASE old[j] = list[j] /\ list[j].table # table
      BY <1>h, <2>4, <3>1
    <3>2. CASE old[j] = list[j] /\ list[j].table = table
      BY <2>3, <2>5, <2>t, <3>2
    <3>3. CASE /\ list[j].table = "terminating"
               /\ s.loaded["terminating"] = Contents(m, "terminating")
      BY <2>3, <2>t, <3>3
    <3> QED BY <1>1, <1>h, <3>1, <3>2, <3>3
  <2>8. ASSUME NEW j \in 1..i, Within(start, length, list[j])
        PROVE  r.loaded[list[j].table] = Contents(m, list[j].table)
    <3>1. CASE j = i
      <4>1. CASE old[i] = list[i]
        BY <1>2, <2>3, <3>1, <4>1 DEF table
      <4>2. CASE old[i] # list[i]
        BY <1>1, <1>i, <2>3, <2>t, <3>1, <4>2
      <4> QED BY <4>1, <4>2
    <3>2. CASE j \in 1..i - 1
      <4>1. list[j].table \in Tables
        BY <1>0, <3>2
      <4>2. s.loaded[list[j].table] = Contents(m, list[j].table)
        BY <1>1, <2>8, <3>2
      <4> QED BY <2>3, <4>1, <4>2
    <3> QED BY <1>i, <3>1, <3>2
  <2> QED BY <2>6, <2>7, <2>8 DEF HandledSoFar, n, new
<1> QED BY <1>3, <1>4

LEMMA HandleLoads ==
    ASSUME TerminatingLast, NEW s, LoadsOK(s), NEW m, InPlace(m), NEW start, NEW length,
           ~OutOfRange(s.traps, start, length),
           NEW r, r = Handle(s, m, start, length),
           NEW j \in 1..Len(s.traps.list), Within(start, length, s.traps.list[j])
    PROVE  r.loaded[s.traps.list[j].table] = Contents(m, s.traps.list[j].table)
<1> DEFINE list == s.traps.list
           n == Len(list)
<1>1. PICK f : Handles(f, s, m, start, length) /\ r = f[n]
  BY Handled
<1>0. list \in Seq(Trapped) /\ n \in Nat
  BY DEF LoadsOK, Loads
<1> DEFINE S == {i \in 0..n : HandledSoFar(list, f[i], m, start, length, i)}
<1>2. 0 \in S
  <2>1. f[0] = s
    BY <1>1 DEF Handles
  <2>2. HandledSoFar(list, s, m, start, length, 0)
    BY DEF HandledSoFar
  <2> QED BY <1>0, <2>1, <2>2
<1>3. ASSUME NEW i \in 1..n, i - 1 \in S PROVE i \in S
  <2>1. /\ i - 1 \in 0..n /\ i \in 0..n /\ LoadsOK(f[i - 1])
        /\ Len(f[i - 1].traps.list) >= n
        /\ f[i] = HandleTrap(f[i - 1], m, start, length, i)
    BY <1>0, <1>1 DEF Handles
  <2>2. HandledSoFar(list, f[i - 1], m, start, length, i - 1)
    BY <1>3
  <2>3. HandledSoFar(list, f[i], m, start, length, i)
    BY <1>0, <2>1, <2>2, NextHandled
  <2> QED BY <2>1, <2>3
<1> HIDE DEF S
<1>4. \A i \in 0..n : i \in S
  BY <1>0, <1>2, <1>3, InductionUpTo
<1>5. HandledSoFar(list, r, m, start, length, n)
  BY <1>0, <1>1, <1>4 DEF S
<1> QED BY <1>5 DEF HandledSoFar

LEMMA HandledLoadsAgain ==
    ASSUME TerminatingLast, LoadsOK(Tracked), Bytes(memory'), TablesInPlace',
           NEW start \in Int, NEW length \in Int,
           TrackedBecomes(Handle(Tracked, memory', start, length))
    PROVE  LoadsAgain(start, length)
<1> DEFINE r == Handle(Tracked, memory', start, length)
<1>1. InPlace(memory')
  BY DEF InPlace, Bytes, TablesInPlace
<1>2. loaded' = r.loaded
  BY DEF TrackedBecomes
<1>3. /\ Tracked.traps = traps
      /\ traps.list \in Seq(Trapped) /\ DOMAIN traps.list = 1..Len(traps.list)
      /\ traps.first \in Int /\ traps.last \in Int
  BY DEF LoadsOK, Loads, Tracked
<1>4. SUFFICES ASSUME length > 0, traps.first <= start, start + length - 1 <= traps.last,
                      NEW i \in 1..Len(traps.list),
                      traps.list[i].start <= start,
                      start + length <= traps.list[i].start + traps.list[i].length
               PROVE  loaded'[traps.list[i].table] = Contents(memory', traps.list[i].table)
  BY <1>3, <1>4 DEF LoadsAgain
<1>5. ~OutOfRange(Tracked.traps, start, length)
  BY <1>3, <1>4 DEF OutOfRange
<1>6. Within(start, length, Tracked.traps.list[i])
  <2>1. traps.list[i].start \in Int
    <3>1. traps.list[i] \in Trapped
      BY <1>3
    <3> QED BY <3>1, TableAddresses
  <2> QED BY <1>3, <1>4, <2>1 DEF Within
<1> HIDE DEF r
<1>7. r = Handle(Tracked, memory', start, length)
  BY DEF r
<1>8. r.loaded[Tracked.traps.list[i].table] = Contents(memory', Tracked.traps.list[i].table)
  BY <1>1, <1>3, <1>5, <1>6, <1>7, HandleLoads
<1> QED BY <1>2, <1>3, <1>8

(* A store or a copy within a trap and within the range of the traps loads  *)
(* the trap's table again (ZMachine.cs, MemoryTraps.Handle), although the   *)
(* handlers change the lists that Handle walks: as long as the tables lie   *)
(* apart in memory, the terminating characters behind the others.           *)
THEOREM TrappedWritesAlwaysLoad ==
    Spec /\ []TablesInPlace /\ TerminatingLast => TrappedWritesLoadAgain
<1> SUFFICES ASSUME TerminatingLast
             PROVE  Spec /\ []TablesInPlace => TrappedWritesLoadAgain
  OBVIOUS
<1> DEFINE
      Loading ==
        /\ \A store \in program.stores :
                /\ StoreByte(store[1], store[2]) => LoadsAgain(store[1], 1)
                /\ StoreWord(store[1], store[2]) => LoadsAgain(store[1], 2)
        /\ \A copy \in program.copies :
                \/ Fails
                \/ IF copy[2] = 0
                   THEN ZeroMemory(copy[1], copy[3]) => LoadsAgain(copy[1], copy[3])
                   ELSE CopyTable(copy[1], copy[2], copy[3]) =>
                            LoadsAgain(copy[2], Length(copy[3]))
<1>1. ASSUME StreamsInv, StreamsInv', TablesInPlace' PROVE Loading
  <2>0. LoadsOK(Tracked) /\ Bytes(memory') /\ program \in Programs
    BY <1>1 DEF StreamsInv, MemoryInv
  <2>1. ASSUME NEW store \in program.stores, StoreByte(store[1], store[2])
        PROVE  LoadsAgain(store[1], 1)
    <3>1. store[1] \in Int /\ TrackedBecomes(Handle(Tracked, memory', store[1], 1))
      BY <2>0, <2>1, ProgramTypes, Layout DEF StoreByte
    <3> QED BY <1>1, <2>0, <3>1, HandledLoadsAgain
  <2>2. ASSUME NEW store \in program.stores, StoreWord(store[1], store[2])
        PROVE  LoadsAgain(store[1], 2)
    <3>1. store[1] \in Int /\ TrackedBecomes(Handle(Tracked, memory', store[1], 2))
      BY <2>0, <2>2, ProgramTypes, Layout DEF StoreWord
    <3> QED BY <1>1, <2>0, <3>1, HandledLoadsAgain
  <2>3. ASSUME NEW copy \in program.copies, ~Fails, copy[2] = 0,
               ZeroMemory(copy[1], copy[3])
        PROVE  LoadsAgain(copy[1], copy[3])
    <3>1. copy[1] \in Int /\ copy[3] \in Int
      BY <2>0, ProgramTypes
    <3>2. TrackedBecomes(Handle(Tracked, memory', copy[1], copy[3]))
      BY <2>3, Zenon DEF ZeroMemory
    <3> HIDE DEF Loading
    <3> QED BY <1>1, <2>0, <3>1, <3>2, HandledLoadsAgain
  <2>4. ASSUME NEW copy \in program.copies, ~Fails, copy[2] # 0,
               CopyTable(copy[1], copy[2], copy[3])
        PROVE  LoadsAgain(copy[2], Length(copy[3]))
    <3>1. copy[2] \in Int /\ copy[3] \in Int
      BY <2>0, ProgramTypes
    <3>2. Length(copy[3]) \in Int
      BY <3>1 DEF Length
    <3>3. TrackedBecomes(Handle(Tracked, memory', copy[2], Length(copy[3])))
      BY <2>4, Zenon DEF CopyTable
    <3> HIDE DEF Loading
    <3> QED BY <1>1, <2>0, <3>1, <3>2, <3>3, HandledLoadsAgain
  <2> QED BY <2>1, <2>2, <2>3, <2>4, Zenon
<1>2. StreamsInv /\ TablesInPlace' /\ [Next]_vars => StreamsInv'
  BY NextStreamsInv
<1>3. StreamsInv /\ TablesInPlace' /\ [Next]_vars => Loading
  BY <1>1, <1>2
<1> QED BY InitStreamsInv, NextStreamsInv, <1>3, PTL DEF Spec, TrappedWritesLoadAgain
=============================================================================
