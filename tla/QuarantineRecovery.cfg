SPECIFICATION Spec
CONSTANTS
    Validity = 3
    RenewBefore = 2
    RetryAfter = 1
    WarnAt = 2
    MaxDay = 3
    MaxCertificates = 2
    MaxFaults = 1
    MaxRevision = 1
    MaxSyncs = 1
    MaxUpdates = 1
PROPERTY UpdateLiftsQuarantine
CHECK_DEADLOCK FALSE
