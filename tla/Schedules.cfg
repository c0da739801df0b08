SPECIFICATION FairSpec
CONSTANTS
    s1 = s1
    w1 = w1
    w2 = w2
    Schedules = {s1}
    Interval = 3
    End = 4
    MaxTime = 6
    StaleAfter = 1
    Workers = {w1, w2}
    MaxEdits = 1
    MaxStops = 1
INVARIANTS
    OneJobPerOccurrence
PROPERTIES
    MissedRunsAreSkipped
    DueRunsAreHandled
    SavedRunsAreKept
CHECK_DEADLOCK FALSE
