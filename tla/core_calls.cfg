SPECIFICATION Spec
CONSTANTS
    WordSize = 3
    Addr = {1, 2}
    Start = 1
    Routine <- OneRoutine
    Entry <- EntryOfOne
    Defaults <- OneLocal
    Global = {}
    Globals0 <- NoGlobal
    MaxUndoDepth = 0
    Repertoire = {"compute", "call", "throw", "read"}
    Data = {0}
    MaxArgs = 1
    MaxDepth = 2
    MaxStack = 2
    MaxReads = 2
INVARIANTS TypeOK StackDiscipline NoFault ResultAwaitsPop
PROPERTIES ImplementsRoutineCalls
CHECK_DEADLOCK FALSE
