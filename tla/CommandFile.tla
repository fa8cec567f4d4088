---------------------------- MODULE CommandFile ----------------------------
(* The format of command files, in which output stream 4 records the        *)
(* player's inputs and from which input stream 1 replays them: one input a  *)
(* line (CommandFileReader and CommandFileWriter).  Text is a sequence of   *)
(* character codes.                                                         *)
EXTENDS Integers, SequencesExt

CONSTANT NewLine      \* the line ending that the platform's StreamWriter uses

Byte == 0..255
CR == 13
LF == 10
OpenBracket == 91
CloseBracket == 93

ASSUME NewLineAssumption == NewLine \in {<<LF>>, <<CR, LF>>}

-----------------------------------------------------------------------------
(* Lines of a file, as StreamReader cuts them: at CR, at LF or at both.     *)

EndOfLine(file) ==
    LET end == SelectInSeq(file, LAMBDA c : c \in {CR, LF})
    IN  IF end = 0 THEN Len(file) + 1 ELSE end

ReadLine(file) == SubSeq(file, 1, EndOfLine(file) - 1)

AfterLine(file) ==
    LET end == EndOfLine(file)
        both == end < Len(file) /\ file[end] = CR /\ file[end + 1] = LF
    IN  SubSeq(file, IF both THEN end + 2 ELSE end + 1, Len(file))

-----------------------------------------------------------------------------
(* Numbers in brackets: ToString and int.TryParse. *)

Decimal(n) ==
    LET digits == <<48 + (n \div 100), 48 + ((n \div 10) % 10), 48 + (n % 10)>>
    IN  SubSeq(digits, IF n < 10 THEN 3 ELSE IF n < 100 THEN 2 ELSE 1, 3)

IsNumber(text) == text # <<>> /\ \A i \in DOMAIN text : text[i] \in 48..57

ValueOf(text) ==
    LET value[i \in 0..Len(text)] ==
            IF i = 0 THEN 0 ELSE 10 * value[i - 1] + text[i] - 48
    IN  value[Len(text)]

Bracketed(n) == <<OpenBracket>> \o Decimal(n) \o <<CloseBracket>>

-----------------------------------------------------------------------------
(* CommandFileWriter *)

EndsInBracket(text) == text # <<>> /\ Last(text) = CloseBracket

WrittenLine_OnlyKeys(text, terminator) ==
    (IF terminator # 13 THEN text \o Bracketed(terminator) ELSE text) \o NewLine
WrittenLine(text, terminator) ==
    (IF terminator # 13 \/ EndsInBracket(text) THEN text \o Bracketed(terminator)
     ELSE text) \o NewLine

WrittenKey(key) ==
    (IF key < 128 /\ key # OpenBracket THEN <<key>> ELSE Bracketed(key)) \o NewLine

-----------------------------------------------------------------------------
(* CommandFileReader *)

(* ReadLineAsync of one line of the file: its text and terminator. *)
LineIn(line) ==
    LET open == SelectLastInSeq(line, LAMBDA c : c = OpenBracket)
        key == SubSeq(line, open + 1, Len(line) - 1)
    IN  IF EndsInBracket(line) /\ open > 0 /\ IsNumber(key)
        THEN [text |-> SubSeq(line, 1, open - 1), terminator |-> ValueOf(key) % 256]
        ELSE [text |-> line, terminator |-> 13]

(* ReadKeyAsync of one line of the file. *)
KeyIn_NoKeyIfEmpty(line) ==
    IF line = <<>> THEN -1
    ELSE LET close == SelectInSeq(line, LAMBDA c : c = CloseBracket)
             key == SubSeq(line, 2, close - 1)
         IN  IF line[1] = OpenBracket /\ IsNumber(key) THEN ValueOf(key) % 256 ELSE line[1]
KeyIn(line) ==
    LET close == SelectInSeq(line, LAMBDA c : c = CloseBracket)
        key == SubSeq(line, 2, close - 1)
    IN  IF line = <<>> THEN 13
        ELSE IF line[1] = OpenBracket /\ IsNumber(key)
             THEN ValueOf(key) % 256
             ELSE line[1]
=============================================================================
