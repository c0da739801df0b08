SPECIFICATION FairSpec
CONSTANTS
    Validity = 3
    RenewBefore = 2
    RetryAfter = 1
    WarnAt = 2
    MaxDay = 3
    MaxCertificates = 2
    MaxFaults = 1
    MaxRevision = 2
    MaxSyncs = 2
    MaxUpdates = 1
INVARIANTS UpdateFindsRunnerIdle QuarantineHasCause ExpiryIsAnnounced
PROPERTIES  UpdateGetsItsTurn 
CHECK_DEADLOCK FALSE
