SPECIFICATION QueueSpec
CONSTANTS
    l1 = l1
    l2 = l2
    r1 = r1
    p1 = p1
    Launchers = {l1, l2}
    Refreshing = {l2}
    Starters = {r1}
    Nobody = Nobody
    Unsigned = Unsigned
    Signatures = {p1}
    Policies = {"serialized", "exclusive"}
    MaxJobs = 2
    RemoteJobs = {}
    MaxStamp = 2
INVARIANT
    ExclusiveForEveryLaunch
CHECK_DEADLOCK FALSE
