SPECIFICATION Spec
CONSTANTS
    WordSize = 3
    Addr = {1, 2}
    Start = 1
    Routine <- OneRoutine
    Entry <- EntryOfOne
    Defaults <- NoLocal
    Global = {16}
    Globals0 <- OneGlobal
    MaxUndoDepth = 0
    Repertoire = {"compute", "variable", "call", "save", "restart", "quit"}
    Data = {0}
    MaxArgs = 0
    MaxDepth = 1
    MaxStack = 1
    MaxReads = 0
PROPERTIES ImplementsRoutineCalls
CHECK_DEADLOCK FALSE
