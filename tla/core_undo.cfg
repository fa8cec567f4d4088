SPECIFICATION Spec
CONSTANTS
    WordSize = 3
    Addr = {1}
    Start = 1
    Routine <- OneRoutine
    Entry <- EntryAtStart
    Defaults <- OneLocal
    Global = {16}
    Globals0 <- OneGlobal
    MaxUndoDepth = 2
    Repertoire = {"compute", "call", "undo", "restart"}
    Data = {0}
    MaxArgs = 0
    MaxDepth = 1
    MaxStack = 1
    MaxReads = 0
PROPERTIES ImplementsRoutineCalls
CHECK_DEADLOCK FALSE
