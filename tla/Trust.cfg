SPECIFICATION FairSpec
CONSTANTS
    Starters = {"a"}
    Shells = {"b"}
    MaxPairings = 2
    MaxSessions = 1
    MaxOps = 2
    MaxRot = 1
    MaxFaults = 1
INVARIANT IntentKept
 
INVARIANT Agreement
PROPERTY MutualPairing
CHECK_DEADLOCK FALSE
