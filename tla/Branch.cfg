SPECIFICATION Spec
CONSTANTS
    a = a
    b = b
    c = c
    d = d
    e = e
    r1 = r1
    t1 = t1
    t2 = t2
    t3 = t3
    Local = Local
    NoRunner = NoRunner
    NoToken = NoToken
    NoSlice = NoSlice
    Steps = {1, 2, 3, 4}
    Deps <- BranchDeps
    FailureOnly = {3}
    OversightAfter = {}
    Slices = {a, b, c, d, e}
    StepOf <- BranchStepOf
    ZeroHost = {e}
    Runners = {r1}
    Target <- BranchTarget
    InitialPlan = {a, b, c, d, e}
    RefreshAfter = {}
    Tokens = {t1, t2, t3}
    Capacity = 1
    Faults = {"crash", "partition", "claim_lost", "start_lost", "ack_lost", "environment", "drain", "local_crash"}
    MaxDisturbances = 2
SYMMETRY TokenSymmetry
INVARIANTS
    TypeOK
    DependenciesRespected
    StartedAtMostOnce
    SuccessMeansAllSlices
    NoStepLeftBehind
    LastStepEndsJob
PROPERTIES
    ImplementsLifecycle
    LiveWorkIsSpared
