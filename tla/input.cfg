SPECIFICATION FairSpec
CONSTANTS
    NewLine <- UnixLines
    Alphabet0 <- Letters
    Alphabet2 <- Marks
    DictWordSize = 6
    Programs <- AllPrograms
    MainDictionary <- Main
    UserDictionaries <- UserDictionary
    MaxText = 280
INVARIANTS TypeOK ReplayGivesTheSameInputs StaysInBuffers AnswerIsTakenNext
PROPERTIES ParseFollowsText AnsweredReadEnds
CHECK_DEADLOCK FALSE
