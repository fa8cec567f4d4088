SPECIFICATION Spec
CONSTANTS
    WordSize = 3
    Addr = {1}
    Start = 1
    Routine <- OneRoutine
    Entry <- EntryAtStart
    Defaults <- OneLocal
    Global = {}
    Globals0 <- NoGlobal
    MaxUndoDepth = 0
    Repertoire = {"compute", "call", "throw", "read", "quit", "timed quit", "illegal"}
    Data = {0}
    MaxArgs = 0
    MaxDepth = 2
    MaxStack = 2
    MaxReads = 1

PROPERTY LeavesAtEntryDepth
CHECK_DEADLOCK FALSE
