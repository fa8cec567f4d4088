----------------------------- MODULE MCCodeCache -----------------------------
(* Values of CodeCache's constants that a .cfg cannot write.                *)
EXTENDS CodeCache, TLC

FiveAddresses == 101..105
OneRamAddress == {50}
Fragments == [start : FiveAddresses \cup OneRamAddress, checks : BOOLEAN]
Sizes == (50 :> 1) @@ (101 :> 1) @@ (102 :> 2) @@ (103 :> 3) @@ (104 :> 2) @@
         (105 :> 7)
=============================================================================
