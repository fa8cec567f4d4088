SPECIFICATION FairSpec
CONSTANTS
    N = 4
    Tables <- StoryTables
INVARIANTS LinksAgree
PROPERTIES ImplementsForest InsertionEnds
