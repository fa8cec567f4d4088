-------------------------- MODULE MCOutputStreams --------------------------
(* A story file with two separators' room at 65, two extra characters at 68,*)
(* one terminating character at 74 and dynamic memory up to 79, and programs*)
(* for OutputStreams.                                                       *)
EXTENDS OutputStreams

Story == [a \in Addresses |->
            CASE a = 17 -> 16
              [] a = 65 -> 1 [] a = 66 -> 44                            \* ","
              [] a = 68 -> 2 [] a = 69 -> 1 [] a = 70 -> 83 [] a = 72 -> 228
              [] a = 74 -> 129
              [] a = 80 -> 7
              [] OTHER -> 0]

Base == [memory |-> Story, zscii |-> {}, unicode |-> {}, tables |-> {}, stores |-> {},
         copies |-> {}, undoes |-> FALSE, length |-> 5]

(* Tables at and over the ends of dynamic memory, one over the characters.  *)
Printing == [Base EXCEPT
    !.zscii = {13, 65, 155}, !.unicode = {228, 339}, !.tables = {63, 76, 78, 79}]
Nesting == [Base EXCEPT !.zscii = {156}, !.unicode = {10, 322}, !.tables = {68, 70, 75},
                        !.length = 6]

(* Writes around Flags 2, at the ends of dynamic memory, and to the tables. *)
Edges == [Base EXCEPT !.stores = {<<15, 771>>, <<16, 2>>, <<16, 1>>, <<17, 255>>, <<62, 1>>,
                                  <<63, 257>>, <<79, 257>>, <<80, 5>>},
                      !.undoes = TRUE]
Copying == [Base EXCEPT !.stores = {<<17, 255>>, <<79, 7>>},
                        !.copies = {<<79, 16, 2>>, <<16, 62, 2>>, <<17, 80, 2>>,
                                    <<78, 79, -2>>, <<81, 82, 2>>, <<82, 78, -2>>,
                                    <<82, 0, 1>>, <<79, 0, 2>>, <<79, 0, -1>>},
                        !.tables = {78}, !.undoes = TRUE]
Storing == [Base EXCEPT !.stores = {<<65, 0>>, <<66, 46>>, <<68, 1>>, <<70, 66>>,
                                    <<74, 255>>, <<75, 130>>},
                        !.copies = {<<69, 71, 2>>, <<68, 69, -2>>, <<65, 0, 2>>}, !.undoes = TRUE]

(* Terminating characters up to the end of dynamic memory, and over it.     *)
Filling == [Base EXCEPT
    !.memory = [a \in Addresses |-> IF a \in 74..78 THEN 129 ELSE Story[a]],
    !.stores = {<<79, 130>>, <<79, 0>>, <<76, 255>>}, !.undoes = TRUE]

AllPrograms == {Printing, Nesting, Edges, Copying, Storing, Filling}
=============================================================================
