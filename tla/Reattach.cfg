SPECIFICATION FairSpec
CONSTANTS
    Contents <- MCContents
    MaxSessions = 3
    MaxFaults = 1
    Host = "cli"
INVARIANT Agreement
INVARIANT CredentialsAgree
INVARIANT OneManifestPerId
INVARIANT ReusedOnlyAuthenticated
PROPERTY Settles
CHECK_DEADLOCK FALSE
