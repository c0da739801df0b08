SPECIFICATION Spec
CONSTANTS
    Positions = {1, 2, 3}
    MayName <- LoopMayName
    b = b
    c = c
    d = d
    Slices = {b, c, d}
    StepOf <- LoopStepOf
    Statuses = {"pending", "running", "successful", "failed"}
INVARIANTS
    LoopFindsTheFixpoint
CHECK_DEADLOCK FALSE
