SPECIFICATION FairSpec
CONSTANTS
    Keys = {k}
    MaxRuns = 2
    MaxActs = 1
 
INVARIANT CredentialOfCreator
INVARIANT RecordUntilSuccess
PROPERTY StopsWhenAsked
\* Every run has ended and the process only waits for the user.
CHECK_DEADLOCK FALSE
