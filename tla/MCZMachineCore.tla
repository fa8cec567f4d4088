--------------------------- MODULE MCZMachineCore ---------------------------
(* Values of ZMachineCore's constants that a .cfg cannot write.             *)
EXTENDS ZMachineCore

OneRoutine == {1}
EntryOfOne == [r \in {1} |-> 2]
EntryAtStart == [r \in {1} |-> 1]
NoLocal == [r \in {1} |-> <<>>]
OneLocal == [r \in {1} |-> <<0>>]

OneGlobal == [g \in {16} |-> 0]
NoGlobal == [g \in {} |-> 0]
=============================================================================
