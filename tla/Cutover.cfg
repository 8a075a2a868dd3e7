SPECIFICATION FairSpec
CONSTANT Engines <- AllEngines
INVARIANT ToldOnce
INVARIANT PathsAgree
 
 
CHECK_DEADLOCK FALSE
