SPECIFICATION FairSpec
CONSTANTS
    None = None
    Workers = {w1, w2}
    Finishers = {stop}
    ClaimWindow = 1
    ProviderDelay = 1
    AuthorityEnds = 3
    MaxIssues = 2
    MaxFaults = 2
CHECK_DEADLOCK FALSE
INVARIANTS
    TypeOK
    MintedOnce
    ClosedRowHasNoLiveKey
    LiveKeyStaysInCustody
PROPERTIES
    CleanupIsFinal
    RevocationCompletes
