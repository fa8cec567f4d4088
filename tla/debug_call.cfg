SPECIFICATION FairSpec
CONSTANTS
    Addr = {1, 2}
    Start = 1
    Repertoire = {"call", "print"}
    MaxDepth = 1
PROPERTIES InterruptedCallReturns
