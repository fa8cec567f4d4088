SPECIFICATION GamesSpec
CONSTANTS
    Story <- SmallStory
    GameId <- OurGame
    Versions = {3, 5}
    HighMemory <- SmallHighMemory
    Machines <- ThreeMachines
    Sites <- ThreeSites
    RestoreSites <- OneRestore
    OtherFiles <- FilesOfOthers
    Header <- ScreenHeader
    LoadsTables <- DictionaryInMemory
    Globals <- GlobalsAt
    Cuts = {0, 1, 9, 12, 33}
INVARIANT GamesTypeOK
PROPERTY WholeGamesComeBack
