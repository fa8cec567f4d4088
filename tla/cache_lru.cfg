SPECIFICATION Spec
CONSTANTS
    Key <- FiveAddresses
    Rom <- FiveAddresses
    Ram <- OneRamAddress
    Value <- Fragments
    Size <- Sizes
    MaxSize = 6
    MaxWaits = 1
INVARIANTS TypeOK DictionaryMirrorsList SizeIsAccountedFor
PROPERTIES ExecutesWhatIsThere EvictsLeastRecent
