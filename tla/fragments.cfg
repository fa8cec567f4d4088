SPECIFICATION FairSpec
CONSTANTS
    LastAddr = 3
    Kinds = {"plain", "branch", "return branch", "jump", "computed jump", "call", "return", "throw", "quit", "custom"}
    Debugging = TRUE
INVARIANTS TypeOK LabelsAreMarkedOnce
PROPERTIES RunsTheProgram CompilationEnds
CHECK_DEADLOCK FALSE
