SPECIFICATION FairSpec
CONSTANTS
    n1 = n1
    n2 = n2
    Names = {n1, n2}
    Size = 2
    TakeLimit = 2
    MaxWorkers = 2
    FaultSets = {{}, {"impatient", "ignoresRange", "errorPage", "writeError", "sharedName", "restart"}}
INVARIANTS
    CompletedIsWhole
    ThreadIsHeld
PROPERTIES
    PausedUntilResumed
    Settles
