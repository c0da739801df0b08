SPECIFICATION FairSpec
CONSTANTS
    l1 = l1
    l2 = l2
    local = local
    r1 = r1
    p1 = p1
    p2 = p2
    Launchers = {l1, l2}
    Refreshing = {l2}
    Runners = {r1}
    Starters = {r1, local}
    Nobody = Nobody
    NoRunner = NoRunner
    Unsigned = Unsigned
    Signatures = {p1, p2}
    Policies = {"distinct_parameters", "serialized", "exclusive"}
    MaxJobs = 2
    RemoteJobs = {2}
    MaxStamp = 2
    MaxTokens = 2
    MaxDisturbances = 1
INVARIANTS
    AdmittedAlone
    SerializedInOrder
    
    
PROPERTIES
    QueuedJobsGetTheirTurn
