---------------------------- MODULE ObjectForest ----------------------------
(* What insert_obj and remove_obj promise: every object is among the        *)
(* children of at most one other (or of none: 0), the children have an      *)
(* order, and moving an object makes it the first child of its new parent   *)
(* and changes nothing else.  A program may even insert an object in itself *)
(* or in one of its descendants, so that "parent" need not be a forest's.   *)
EXTENDS Integers, SequencesExt

CONSTANTS N                \* number of objects
Object == 1..N

VARIABLES children         \* children[p]: the children of p, eldest last

vars == <<children>>

(* An object is in one list and there once. *)
Move(o, dest) ==
    children' = [p \in Object |->
                    IF p = dest THEN <<o>> \o RemoveFirst(children[p], o)
                    ELSE RemoveFirst(children[p], o)]

Init == /\ children \in [Object -> Seq(Object)]
        /\ \A p, q \in Object : \A i \in 1..Len(children[p]), j \in 1..Len(children[q]) :
               children[p][i] = children[q][j] => p = q /\ i = j

Next == \E o \in Object, dest \in {0} \cup Object : Move(o, dest)

Spec == Init /\ [][Next]_vars
=============================================================================
