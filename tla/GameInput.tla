----------------------------- MODULE GameInput -----------------------------
(* The input instructions: reading lines and keys from the player or from a *)
(* command file, with a timer whose routine runs other instructions while   *)
(* the player is being waited for (ReadImplAsync, ReadCharImplAsync,        *)
(* TimedReadAsync), recording what was read, and dividing lines in words.   *)
(* A program is described by what its instructions use.                     *)
EXTENDS CommandFile, Words, FiniteSets

CONSTANTS
    Programs,          \* the programs: see ProgramAssumption
    MainDictionary,
    UserDictionaries,
    MaxText            \* bound: bytes of memory from the text buffer on

Dictionaries == UserDictionaries \cup {MainDictionary}

ASSUME BoundAssumption == MaxText \in Nat \ {0}

(* What the player may enter: a line with the key that ended it, and a key  *)
(* (FilterInput).                                                           *)
Lines == [text : Seq(Byte \ {CR, LF}), terminator : 1..255]
Keys == {8, 13, 27} \cup 32..126 \cup 129..254

ASSUME ProgramAssumption ==
    \A p \in Programs :
        /\ p.version \in 1..8           \* zversion
        /\ p.room \in Byte              \* the text buffer's first byte
        /\ p.words \in Byte             \* the parse buffer's first byte
        /\ p.lines \subseteq Lines
        /\ p.keys \subseteq Keys
        /\ p.timers \in BOOLEAN         \* does it use timed input?
        /\ p.files \in BOOLEAN          \* does it use command files?
        /\ p.slow \in BOOLEAN           \* may a write to them take time?
        /\ p.tokenises \in BOOLEAN      \* does it use op_tokenise?
        /\ p.debugging \in BOOLEAN
        /\ p.nesting \in Nat            \* bound: reads in timer routines
        /\ p.inputs \in Nat             \* bound: inputs read

VARIABLES
    program,
    status,        \* "running", "broken" into the debugger, "failed" with an exception
    reads,         \* the reads that wait for the player, the outermost first
    cmdRdr,        \* what is left of the command file being read, or NoFile
    cmdWtr,        \* what was written to the command file, or NoFile
    writing,       \* is a WriteLineAsync under way?
    text,          \* the text buffer and the bytes after it
    parse,         \* the parse buffer: its count, its entries, one entry more
    inputs,        \* inputs read
    tape,          \* the command file that was completed last
    recorded,      \* history: the inputs given while cmdWtr was open
    replayed       \* history: those read from cmdRdr, and those it had recorded

files == <<cmdRdr, cmdWtr, writing, tape, recorded, replayed>>
memory == <<text, parse>>
vars == <<program, status, reads, files, memory, inputs>>

NoFile == <<-1>>
NoRecord == [inputs |-> <<>>, whole |-> TRUE]

(* An input is a line with its terminator, or a key. *)
Key(code) == [text |-> <<code>>, terminator |-> 0]
Kind(input) == IF input.terminator = 0 THEN "key" ELSE "line"

(* A read's task and timer are readTask and delayTask; picked is the one    *)
(* that Task.WhenAny found complete; routine tells whether the timer routine*)
(* runs.  late is history: routines started since the player answered.      *)
NewRead(kind, timed) ==
    [kind |-> kind, task |-> "waiting", timer |-> IF timed THEN "ticking" ELSE "off",
     picked |-> "none", routine |-> FALSE, late |-> 0]

Innermost == Len(reads)
Executing == status = "running" /\ (reads # <<>> => reads[Innermost].routine)

Early == program.version <= 4
TokenOffset == IF Early THEN 1 ELSE 2

(* What is in memory where the text buffer ends. *)
Beyond == 1

Init == /\ program \in Programs
        /\ status = "running"
        /\ reads = <<>>
        /\ cmdRdr = NoFile
        /\ cmdWtr = NoFile
        /\ writing = FALSE
        /\ text = [i \in 0..MaxText |-> IF i = 0 THEN program.room
                                        ELSE IF i < TokenOffset + program.room THEN 0
                                        ELSE Beyond]
        /\ parse = [count |-> 0, entries |-> [i \in 1..program.words + 1 |->
                        [word |-> 0, length |-> 0, position |-> 0]]]
        /\ inputs = 0
        /\ tape = [content |-> NoFile, record |-> NoRecord]
        /\ recorded = NoRecord
        /\ replayed = [read |-> <<>>, of |-> NoRecord]

-----------------------------------------------------------------------------
(* The text buffer and the parse buffer *)

Smaller(m, n) == IF m < n THEN m ELSE n

Lower(c) == IF c \in 65..90 THEN c + 32 ELSE c

(* The typed line in lower case, as much of it as there is room for; a zero *)
(* follows it, or its whole length precedes it.                             *)
MaxLetters == IF Early THEN (program.room - 1) % 256 ELSE program.room

Stored_Unclamped(line) ==
    LET n == Len(line)
    IN  [i \in DOMAIN text |->
            IF i \in TokenOffset..TokenOffset + n - 1 THEN Lower(line[i - TokenOffset + 1])
            ELSE IF Early /\ i = TokenOffset + n THEN 0
            ELSE IF ~Early /\ i = 1 THEN Len(line) % 256
            ELSE text[i]]
Stored_FarTerminator(line) ==
    LET n == Smaller(Len(line), MaxLetters)
    IN  [i \in DOMAIN text |->
            IF i \in TokenOffset..TokenOffset + n - 1 THEN Lower(line[i - TokenOffset + 1])
            ELSE IF Early /\ i = TokenOffset + n + 1 THEN 0
            ELSE IF ~Early /\ i = 1 THEN Len(line) % 256
            ELSE text[i]]
Stored(line) ==
    LET n == Smaller(Len(line), MaxLetters)
    IN  [i \in DOMAIN text |->
            IF i \in TokenOffset..TokenOffset + n - 1 THEN Lower(line[i - TokenOffset + 1])
            ELSE IF Early /\ i = TokenOffset + n THEN 0
            ELSE IF ~Early /\ i = 1 THEN Len(line) % 256
            ELSE text[i]]

(* Tokenize's bufLen, and the span of memory it takes for the line.         *)
BufLen(t) ==
    IF ~Early THEN t[1]
    ELSE IF \E i \in 1..MaxText : t[i] = 0
         THEN ((CHOOSE i \in 1..MaxText : t[i] = 0 /\ \A j \in 1..i - 1 : t[j] # 0) - 1)
                % 256
         ELSE 0

Span(t, start, length) == [i \in 1..length |-> t[start + i - 1]]

(* The place of a token in the text buffer, of which a byte is kept.        *)
Position_Whole(token) == TokenOffset + token.start
Position(token) == (TokenOffset + token.start) % 256

(* The parse buffer after its first entries have been filled.  A word that  *)
(* is not in the dictionary may leave its entry as it was.                  *)
Parsed(t, tokens, dictionary, skipUnrecognized) ==
    LET word(k) == LookUpWord(dictionary,
                              Span(t, TokenOffset + tokens[k].start, tokens[k].length))
    IN  [count |-> Len(tokens),
         entries |-> [k \in DOMAIN parse.entries |->
            IF k > Len(tokens) \/ (skipUnrecognized /\ word(k) = 0) THEN parse.entries[k]
            ELSE [word |-> word(k), length |-> tokens[k].length,
                  position |-> Position(tokens[k])]]]

Tokenize_OneMore(t, dictionary, skipUnrecognized) ==
    LET tokens == SplitTokens(Span(t, TokenOffset, BufLen(t)), dictionary.separators)
    IN  Parsed(t, SubSeq(tokens, 1, Smaller(Len(tokens), program.words + 1)),
               dictionary, skipUnrecognized)
Tokenize(t, dictionary, skipUnrecognized) ==
    LET tokens == SplitTokens(Span(t, TokenOffset, BufLen(t)), dictionary.separators)
    IN  Parsed(t, SubSeq(tokens, 1, Smaller(Len(tokens), program.words)),
               dictionary, skipUnrecognized)

(* op_tokenise, of the line read last. *)
TokeniseInstruction(dictionary, skipUnrecognized) ==
    /\ Executing /\ program.tokenises
    /\ parse' = Tokenize(text, dictionary, skipUnrecognized)
    /\ UNCHANGED <<program, status, reads, files, text, inputs>>

(* What ReadImplAsync does with a line; there may be no parse buffer.       *)
StoreLine(line) ==
    /\ text' = Stored(line.text)
    /\ parse' \in {Tokenize(Stored(line.text), MainDictionary, FALSE), parse}

-----------------------------------------------------------------------------
(* Command files *)

(* The write of a line is not waited for.  The next one finds the writer    *)
(* busy: a line is then dropped, because nobody awaits that write either.   *)
RecordLine(line) ==
    IF cmdWtr = NoFile THEN UNCHANGED <<cmdWtr, writing, recorded>>
    ELSE IF writing
    THEN /\ recorded' = [inputs |-> Append(recorded.inputs, line), whole |-> FALSE]
         /\ UNCHANGED <<cmdWtr, writing>>
    ELSE /\ cmdWtr' = cmdWtr \o WrittenLine(line.text, line.terminator)
         /\ writing' \in {FALSE, program.slow}
         /\ recorded' = [recorded EXCEPT !.inputs = Append(@, line)]

RecordKey(key) ==
    IF cmdWtr = NoFile THEN UNCHANGED <<cmdWtr, writing, recorded>>
    ELSE /\ cmdWtr' = cmdWtr \o WrittenKey(key.text[1])
         /\ recorded' = [recorded EXCEPT !.inputs = Append(@, key)]
         /\ UNCHANGED writing

WriteEnds == /\ writing
             /\ writing' = FALSE
             /\ UNCHANGED <<program, status, reads, cmdRdr, cmdWtr, memory, inputs,
                            tape, recorded, replayed>>

(* An exception that nothing between the instruction and RunAsync catches.  *)
Fails == /\ status' = "failed"
         /\ reads' = <<>>

(* SetInputStreamAsync: stream 1 opens the file that was completed last, if *)
(* the player chooses one.                                                  *)
SelectKeyboard ==
    /\ Executing /\ cmdRdr # NoFile
    /\ cmdRdr' = NoFile
    /\ UNCHANGED <<program, status, reads, cmdWtr, writing, memory, inputs, tape,
                   recorded, replayed>>

SelectFile ==
    /\ Executing /\ program.files /\ tape.content # NoFile
    /\ cmdRdr' = tape.content
    /\ replayed' = [read |-> <<>>, of |-> tape.record]
    /\ UNCHANGED <<program, status, reads, cmdWtr, writing, memory, inputs, tape,
                   recorded>>

(* SetOutputStreamAsync for stream 4.  A writer that is still open is closed*)
(* first, and closing it throws an exception while it is busy.              *)
Completed == IF cmdWtr = NoFile THEN tape
             ELSE [content |-> cmdWtr, record |-> recorded]

SetRecording(enabled) ==
    /\ Executing /\ program.files
    /\ enabled \/ cmdWtr # NoFile
    /\ IF writing
       THEN Fails /\ UNCHANGED <<cmdWtr, writing, tape, recorded>>
       ELSE /\ tape' = Completed
            /\ cmdWtr' = IF enabled THEN <<>> ELSE NoFile
            /\ recorded' = NoRecord
            /\ UNCHANGED <<status, reads, writing>>
    /\ UNCHANGED <<program, cmdRdr, memory, inputs, replayed>>

-----------------------------------------------------------------------------
(* Reading from a command file *)

Reads(kind) == /\ Executing /\ inputs + Len(reads) < program.inputs
               /\ kind = "line" \/ program.keys # {}

AtEnd(file) == file = <<>>

ReadLineFromFile ==
    /\ Reads("line") /\ cmdRdr # NoFile /\ ~AtEnd(cmdRdr)
    /\ LET line == LineIn(ReadLine(cmdRdr))
       IN  /\ StoreLine(line)
           /\ RecordLine(line)
           /\ replayed' = [replayed EXCEPT !.read = Append(@, line)]
    /\ cmdRdr' = AfterLine(cmdRdr)
    /\ inputs' = inputs + 1
    /\ UNCHANGED <<program, status, reads, tape>>

(* A key that the busy writer cannot take is lost with the program.         *)
ReadKeyFromFile ==
    /\ Reads("key") /\ cmdRdr # NoFile /\ ~AtEnd(cmdRdr)
    /\ LET key == Key(KeyIn(ReadLine(cmdRdr)))
       IN  /\ IF writing THEN Fails /\ UNCHANGED <<cmdWtr, recorded>> /\ UNCHANGED writing
              ELSE RecordKey(key) /\ UNCHANGED <<status, reads>>
           /\ replayed' = [replayed EXCEPT !.read = Append(@, key)]
    /\ cmdRdr' = AfterLine(cmdRdr)
    /\ inputs' = inputs + 1
    /\ UNCHANGED <<program, memory, tape>>

-----------------------------------------------------------------------------
(* Reading from the player *)

(* A command file that is at its end gives way to the keyboard. *)
AskPlayer(kind, timed) ==
    /\ Reads(kind) /\ Len(reads) <= program.nesting
    /\ timed => program.timers
    /\ cmdRdr = NoFile \/ AtEnd(cmdRdr)
    /\ cmdRdr' = NoFile
    /\ reads' = Append(reads, NewRead(kind, timed))
    /\ UNCHANGED <<program, status, cmdWtr, writing, memory, inputs, tape, recorded,
                   replayed>>

(* Tasks complete at any time.  A loop that waits for either of the two goes*)
(* on with that one; while its routine runs it does not wait.               *)
Picks(r, task) == IF r.picked = "none" /\ ~r.routine THEN task ELSE r.picked

PlayerAnswers(i, outcome) ==
    /\ status = "running" /\ reads[i].task = "waiting"
    /\ outcome = "broken" => program.debugging /\ reads[i].kind = "line"
    /\ reads' = [reads EXCEPT ![i].task = outcome, ![i].picked = Picks(reads[i], "read")]
    /\ UNCHANGED <<program, status, files, memory, inputs>>

TimerExpires(i) ==
    /\ status = "running" /\ reads[i].timer = "ticking"
    /\ reads' = [reads EXCEPT ![i].timer = "due", ![i].picked = Picks(reads[i], "timer")]
    /\ UNCHANGED <<program, status, files, memory, inputs>>

(* The next timer starts before the routine does (HandleInputTimerAsync).   *)
InRoutine(r) ==
    [r EXCEPT !.timer = "ticking", !.picked = "none", !.routine = TRUE,
              !.late = IF @ < 2 /\ r.task # "waiting" THEN @ + 1 ELSE @]

StartRoutine ==
    /\ reads # <<>> /\ reads[Innermost].picked = "timer"
    /\ reads' = [reads EXCEPT ![Innermost] = InRoutine(@)]
    /\ UNCHANGED <<program, status, files, memory, inputs>>

(* Whatever the routine returns, the loop looks at its tasks again, at the  *)
(* read's first.                                                            *)
NextPick_TimerFirst(r) == IF r.timer = "due" THEN "timer"
                          ELSE IF r.task # "waiting" THEN "read" ELSE "none"
NextPick(r) == IF r.task # "waiting" THEN "read"
               ELSE IF r.timer = "due" THEN "timer" ELSE "none"

RoutineReturns ==
    /\ status = "running" /\ reads # <<>> /\ reads[Innermost].routine
    /\ reads' = [reads EXCEPT ![Innermost] =
            [@ EXCEPT !.routine = FALSE, !.picked = NextPick(reads[Innermost])]]
    /\ UNCHANGED <<program, status, files, memory, inputs>>

Answered(kind) ==
    /\ reads # <<>>
    /\ reads[Innermost].picked = "read" /\ reads[Innermost].task = "answered"
    /\ reads[Innermost].kind = kind

FinishLine(line) ==
    /\ Answered("line")
    /\ reads' = Front(reads)
    /\ StoreLine(line)
    /\ RecordLine(line)
    /\ inputs' = inputs + 1
    /\ UNCHANGED <<program, status, cmdRdr, tape, replayed>>

FinishKey(key) ==
    /\ Answered("key")
    /\ IF cmdWtr # NoFile /\ writing
       THEN Fails /\ UNCHANGED <<cmdWtr, writing, recorded>>
       ELSE reads' = Front(reads) /\ RecordKey(key) /\ UNCHANGED status
    /\ inputs' = inputs + 1
    /\ UNCHANGED <<program, cmdRdr, memory, tape, replayed>>

(* The player breaks into the debugger: the exception leaves the loops of   *)
(* the outer reads too, and the instruction will be executed again.         *)
Breaks == /\ status' = "broken"
          /\ reads' = <<>>
          /\ UNCHANGED <<program, files, memory, inputs>>

BreakIn == /\ reads # <<>>
           /\ reads[Innermost].picked = "read" /\ reads[Innermost].task = "broken"
           /\ Breaks

(* The debugger's pause cancels every task.  Only an untimed line says so in*)
(* the way that ReadImplAsync understands, unless it is found out between   *)
(* two waits for a key.                                                     *)
Paused ==
    /\ status = "running" /\ program.debugging
    /\ reads # <<>> /\ reads[Innermost].picked = "none" /\ ~reads[Innermost].routine
    /\ \/ reads[Innermost].kind = "line" /\ reads[Innermost].timer = "off" /\ Breaks
       \/ Fails /\ UNCHANGED <<program, files, memory, inputs>>

Resumes == /\ status = "broken"
           /\ status' = "running"
           /\ UNCHANGED <<program, reads, files, memory, inputs>>

-----------------------------------------------------------------------------
Next ==
    \/ \E dictionary \in Dictionaries, skip \in BOOLEAN :
            TokeniseInstruction(dictionary, skip)
    \/ SelectKeyboard \/ SelectFile
    \/ \E enabled \in BOOLEAN : SetRecording(enabled)
    \/ WriteEnds
    \/ ReadLineFromFile \/ ReadKeyFromFile
    \/ \E kind \in {"line", "key"}, timed \in BOOLEAN : AskPlayer(kind, timed)
    \/ \E i \in DOMAIN reads :
            \/ \E outcome \in {"answered", "broken"} : PlayerAnswers(i, outcome)
            \/ TimerExpires(i)
    \/ StartRoutine \/ RoutineReturns
    \/ \E line \in program.lines : FinishLine(line)
    \/ \E key \in program.keys : FinishKey(Key(key))
    \/ BreakIn \/ Paused \/ Resumes

Spec == Init /\ [][Next]_vars

(* A loop that has found a completed task goes on, in whichever way: with   *)
(* the routine, at the read's end, or with an exception.                    *)
LoopGoesOn ==
    /\ reads # <<>> /\ reads[Innermost].picked # "none"
    /\ reads' \in {[reads EXCEPT ![Innermost] = InRoutine(@)], Front(reads), <<>>}

(* And timer routines return, whatever else the program does in them.       *)
FairSpec == Spec /\ WF_reads(LoopGoesOn) /\ SF_vars(RoutineReturns)

-----------------------------------------------------------------------------
(* Properties *)

Inputs == [text : Seq(Byte), terminator : Byte]
Records == [inputs : Seq(Inputs), whole : BOOLEAN]
Read == [kind : {"line", "key"}, task : {"waiting", "answered", "broken"},
         timer : {"off", "ticking", "due"}, picked : {"none", "read", "timer"},
         routine : BOOLEAN, late : 0..2]
File == Seq(Byte) \cup {NoFile}

TypeOK ==
    /\ program \in Programs
    /\ status \in {"running", "broken", "failed"}
    /\ reads \in Seq(Read)
    /\ cmdRdr \in File
    /\ cmdWtr \in File
    /\ writing \in BOOLEAN
    /\ text \in [0..MaxText -> Byte]
    /\ parse.count \in Byte
    /\ inputs \in Nat /\ inputs + Len(reads) <= program.inputs
    /\ tape \in [content : File, record : Records]
    /\ recorded \in Records
    /\ replayed \in [read : Seq(Inputs), of : Records]

(* A recorded session is replayed: a program that asks for the same kinds   *)
(* of input gets the same input, each once and in order, and goes back to   *)
(* the keyboard after the last, unless a write was dropped when recording.  *)
ReplayGivesTheSameInputs ==
    LET read == replayed.read
        of == replayed.of.inputs
        sameKinds == \A n \in 1..Smaller(Len(read), Len(of)) : Kind(read[n]) = Kind(of[n])
    IN  replayed.of.whole /\ sameKinds =>
            /\ IsPrefix(read, of)
            /\ cmdRdr = <<>> => read = of

Entry(entry, position, letters, dictionary) ==
    /\ entry.position = position % 256
    /\ entry.length = Len(letters)
    /\ IF entry.word = 0
       THEN \A w \in DOMAIN dictionary.words : ~SameWord(letters, dictionary.words[w])
       ELSE /\ entry.word \in DOMAIN dictionary.words
            /\ SameWord(letters, dictionary.words[entry.word])

ListsTokens(t, tokens, dictionary, skip) ==
    /\ parse'.count = Len(tokens)
    /\ \A k \in DOMAIN tokens :
          \/ Entry(parse'.entries[k], TokenOffset + tokens[k].start,
                   Span(t, TokenOffset + tokens[k].start, tokens[k].length), dictionary)
          \/ /\ skip /\ parse'.entries[k] = parse.entries[k]
             /\ \A w \in DOMAIN dictionary.words :
                   ~SameWord(Span(t, TokenOffset + tokens[k].start, tokens[k].length),
                             dictionary.words[w])

Describes(t, dictionary, skip) ==
    ListsTokens(t, FirstTokens(Span(t, TokenOffset, BufLen(t)), dictionary.separators,
                               program.words), dictionary, skip)

(* The parse table lists the words of the text that was stored, as many as  *)
(* it has room for, each with its place (in a byte: the place 256 is a 0)   *)
(* and with the dictionary's entry for its first letters; so does the       *)
(* instruction that divides a text again, with another sorted dictionary.   *)
ParseFollowsText ==
    [][/\ inputs' # inputs /\ parse' # parse => Describes(text', MainDictionary, FALSE)
       /\ \A dictionary \in Dictionaries, skip \in BOOLEAN :
            dictionary.sorted /\ TokeniseInstruction(dictionary, skip) =>
                Describes(text', dictionary, skip)]_vars

(* The room of the text buffer, as the code takes it: it computes the limit *)
(* of a line in a byte, so that up to Version 4 a first byte 0 gives 255    *)
(* letters and a zero, where the program has said that there is no room.    *)
Room == IF Early /\ program.room = 0 THEN 256 ELSE program.room

(* However long the line and however many its words, nothing is written     *)
(* beyond the ends of the two buffers.                                      *)
StaysInBuffers ==
    /\ \A i \in TokenOffset + Room..MaxText : text[i] = Beyond
    /\ text[0] = program.room
    /\ parse.count <= program.words
    /\ parse.entries[program.words + 1] = [word |-> 0, length |-> 0, position |-> 0]

(* Once the player has answered, at most one more timer routine starts: one *)
(* whose time had come before the answer did.                               *)
AnswerIsTakenNext == \A i \in DOMAIN reads : reads[i].late <= 1

(* An answered read ends, however fast its timer, unless the routine itself *)
(* asks the player for something.                                           *)
AnsweredReadEnds ==
    (reads # <<>> /\ reads[1].task = "answered")
        ~> (reads = <<>> \/ (Len(reads) > 1 /\ reads[Innermost].task = "waiting"))
=============================================================================
