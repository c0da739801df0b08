SPECIFICATION Spec
CONSTANTS
    a = a
    b = b
    c = c
    d = d
    e = e
    r1 = r1
    t1 = t1
    t2 = t2
    t3 = t3
    Local = Local
    NoRunner = NoRunner
    NoToken = NoToken
    NoSlice = NoSlice
    Steps = {1, 2, 3}
    Deps <- RefreshDeps
    FailureOnly = {3}
    OversightAfter = {1}
    Slices = {a, b, c, d, e}
    StepOf <- RefreshStepOf
    ZeroHost = {e}
    Runners = {r1}
    Target <- RefreshTarget
    InitialPlan = {a, b, c, e}
    RefreshAfter = {1}
    Tokens = {t1, t2, t3}
    Capacity = 1
    Faults = {"crash", "partition", "claim_lost", "start_lost", "ack_lost", "environment", "drain", "local_crash", "refresh_crash", "empty_replan"}
    MaxDisturbances = 2
SYMMETRY TokenSymmetry
INVARIANTS
    EndedJobIsSettled
    
