SPECIFICATION Spec
CONSTANTS
    NFiles = 1
    Blocks <- OneFile
    Seeds <- FromScratch
    Window = 1
    MaxRetries = 1
    Frags = 1
    Cutover = TRUE
    MaxTimeouts = 0
    MaxPauses = 1
    Faults = TRUE
    Races = {"early"}
INVARIANT SuccessMeansComplete
CHECK_DEADLOCK FALSE
