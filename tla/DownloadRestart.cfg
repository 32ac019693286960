SPECIFICATION Spec
CONSTANTS
    n1 = n1
    Names = {n1}
    Size = 1
    TakeLimit = 1
    MaxWorkers = 2
    FaultSets = {{"restart"}}
PROPERTIES
    ResumesPending
