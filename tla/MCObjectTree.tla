---------------------------- MODULE MCObjectTree ----------------------------
(* Values of ObjectTree's constants that a .cfg cannot write.  Every        *)
(* consistent table of four objects is reached from the first one.          *)
EXTENDS ObjectTree

Table(pa, si, ch) == [parent |-> pa, sibling |-> si, child |-> ch]

LooseObjects == Table(<<0, 0, 0, 0>>, <<0, 0, 0, 0>>, <<0, 0, 0, 0>>)
RoomOfThree == Table(<<0, 1, 1, 1>>, <<0, 3, 4, 0>>, <<2, 0, 0, 0>>)
StoryTables == {LooseObjects, RoomOfThree}
=============================================================================
