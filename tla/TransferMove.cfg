SPECIFICATION FairSpec
CONSTANTS
    NFiles = 2
    Blocks <- TwoFiles
    Seeds <- TwoFileSeeds
    Window = 2
    MaxRetries = 3
    Frags = 2
    Cutover = TRUE
    MaxTimeouts = 1
    MaxPauses = 0
    Faults = FALSE
    Races = {}
INVARIANT TypeOK
INVARIANT AckedIsWritten
 
INVARIANT RetryQueueOfFile
 
