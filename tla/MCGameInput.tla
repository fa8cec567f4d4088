---------------------------- MODULE MCGameInput ----------------------------
(* Programs, dictionaries and lines for GameInput: letters a and b, a comma *)
(* that separates words, brackets.                                          *)
EXTENDS GameInput

Letters == <<97, 98, 99, 100, 101, 102, 103, 104, 105, 106, 107, 108, 109, 110, 111,
             112, 113, 114, 115, 116, 117, 118, 119, 120, 121, 122>>
Marks == <<32, 10, 48, 49, 50, 51, 52, 53, 54, 55, 56, 57, 46, 44, 33, 63, 95, 35, 39,
           34, 47, 92, 45, 58, 40, 41>>

UnixLines == <<10>>

(* Entries of six Z-characters, sorted: "a", "ab", "aaaaaa.", "b[" cut in   *)
(* the middle of its second character, ",".                                 *)
Main == [separators |-> {44}, sorted |-> TRUE,
         words |-> <<<<5, 19, 5, 5, 5, 5>>, <<6, 5, 5, 5, 5, 5>>, <<6, 6, 6, 6, 6, 6>>,
                     <<6, 7, 5, 5, 5, 5>>, <<7, 7, 7, 5, 6, 2>>>>]
User == [separators |-> {98}, sorted |-> TRUE,
         words |-> <<<<6, 5, 5, 5, 5, 5>>, <<7, 5, 5, 5, 5, 5>>>>]
UserDictionary == {User, [User EXCEPT !.sorted = FALSE]}

Line(t) == [text |-> t, terminator |-> 13]

Base == [version |-> 5, room |-> 4, words |-> 2, lines |-> {Line(<<97>>)}, keys |-> {},
         timers |-> FALSE, files |-> FALSE, slow |-> FALSE, tokenises |-> FALSE,
         debugging |-> FALSE, nesting |-> 0, inputs |-> 1]

(* Every short line, and a few long ones. *)
Short == {Line(t) : t \in BoundedSeq({32, 44, 97, 98}, 3)}
Long == {Line(t) : t \in {<<97, 97, 97, 97, 97, 97, 97>>, <<98, 98, 98, 91>>,
                          <<98, 98, 98, 93>>, <<65, 98>>, <<97, 32, 97, 98, 44, 97>>,
                          <<97, 44, 44, 98>>}}
Tokenising == [Base EXCEPT !.lines = Short \cup Long, !.room = 7, !.words = 3,
                           !.tokenises = TRUE]
Narrow == [Base EXCEPT !.lines = Long, !.room = 3, !.words = 1, !.inputs = 2]

(* Lines and keys that look like the file's own notation, each recorded and *)
(* replayed, and pairs of some of them.                                     *)
Recording == [Base EXCEPT
    !.lines = {Line(<<>>), Line(<<97>>), Line(<<97, 93>>), Line(<<91, 53, 93>>),
               [text |-> <<97>>, terminator |-> 129], [text |-> <<91>>, terminator |-> 27]},
    !.keys = {13, 27, 91, 93, 97, 129},
    !.files = TRUE, !.inputs = 2]
RecordingTwo == [Recording EXCEPT
    !.lines = {Line(<<>>), Line(<<97, 93>>)}, !.keys = {13, 91}, !.inputs = 4]
Slow == [Base EXCEPT !.keys = {97}, !.files = TRUE, !.slow = TRUE, !.inputs = 4]

Timed == [Base EXCEPT !.keys = {97}, !.timers = TRUE, !.debugging = TRUE,
                      !.nesting = 1, !.inputs = 2]
TimedFiles == [Timed EXCEPT !.files = TRUE, !.debugging = FALSE, !.inputs = 3]

(* The ends of a byte: buffers of 255 letters, and of none, for lines of    *)
(* about as many, and a word at about the place that a byte cannot hold.    *)
Indented(n, c) == Line(Append([i \in 1..n |-> Space], c))
Longest == {Indented(n, c) : n \in {0, 1, 252, 253, 254, 255, 270}, c \in {97, 98}}
BytePrograms == {[Base EXCEPT !.version = 3, !.room = 0, !.lines = Longest, !.inputs = 2],
                 [Base EXCEPT !.version = 5, !.room = 255, !.lines = Longest, !.inputs = 2]}

AllPrograms == {Tokenising, Narrow, Recording, RecordingTwo, Slow, Timed, TimedFiles,
                [Tokenising EXCEPT !.version = 3, !.tokenises = FALSE],
                [Narrow EXCEPT !.version = 4]}
               \cup BytePrograms
=============================================================================
