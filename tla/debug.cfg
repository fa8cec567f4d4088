SPECIFICATION FairSpec
CONSTANTS
    Addr = {1, 2}
    Start = 1
    Repertoire = {"call", "read", "read_char", "fault", "quit", "print"}
    MaxDepth = 2
INVARIANTS TypeOK IdleIsStopped
PROPERTIES StopIsReported BreakpointsHold StepsEndInPlace PauseTakesEffect
