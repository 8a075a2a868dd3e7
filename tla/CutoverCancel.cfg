SPECIFICATION FairSpec
CONSTANT Engines <- AllEngines
PROPERTY CancelUnblocksSend
CHECK_DEADLOCK FALSE
