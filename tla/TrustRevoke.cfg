SPECIFICATION Spec
CONSTANTS
    Starters = {"a"}
    Shells = {}
    MaxPairings = 1
    MaxSessions = 2
    MaxOps = 2
    MaxRot = 0
    MaxFaults = 0
PROPERTY RevokedRefused
CHECK_DEADLOCK FALSE
