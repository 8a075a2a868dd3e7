SPECIFICATION FairSpec
CONSTANTS
    Window = 2
    ClientWindow = 2
    Batch = 1
    MaxFrames = 3
    MaxBlips = 1
    Closes = {"receiver"}
 
 
 
PROPERTY CloseEnds
CHECK_DEADLOCK FALSE
