SPECIFICATION Spec
CONSTANTS
    RomStart = 80
    Top = 82
    ExtraChars = 68
    TerminatingChars = 74
    Separators = 65
    MaxTables = 2
    Programs <- AllPrograms
INVARIANTS TypeOK TrapsCoverTables
PROPERTIES TablesHoldTheirText HeaderAndRomStay TranscriptSurvives TrappedWritesLoadAgain
CHECK_DEADLOCK FALSE
