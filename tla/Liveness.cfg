SPECIFICATION FairSpec
CONSTANTS
    a = a
    b = b
    c = c
    d = d
    e = e
    r1 = r1
    t1 = t1
    t2 = t2
    t3 = t3
    Local = Local
    NoRunner = NoRunner
    NoToken = NoToken
    NoSlice = NoSlice
    Steps = {1, 2}
    Deps <- PairDeps
    FailureOnly = {}
    OversightAfter = {}
    Slices = {a, b, c}
    StepOf <- PairStepOf
    ZeroHost = {}
    Runners = {r1}
    Target <- PairTarget
    InitialPlan = {a, b, c}
    RefreshAfter = {1}
    Tokens = {t1, t2, t3}
    Capacity = 1
    Faults = {"crash", "partition", "claim_lost", "start_lost", "ack_lost", "artifact", "environment", "local_crash", "refresh_crash"}
    MaxDisturbances = 1
PROPERTIES
    StopRequestIsHonoured
    JobGetsSettled
