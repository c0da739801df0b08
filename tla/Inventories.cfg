SPECIFICATION Spec
CONSTANTS
    sat = sat
    zab = zab
    f = f
    c = c
    first = first
    second = second
    w1 = w1
    Providers = {sat, zab}
    Filters = {f}
    Composites = {c}
    Requests = {first, second}
    Resolvers = {w1}
    InitialSources <- FilterOfSat
    MaxSaves = 3
    MaxRevision = 1
SYMMETRY Interchangeable
INVARIANTS
    DefinitionsAreSound
    CacheIsOfItsDefinition
    NoProviderTwice
CHECK_DEADLOCK FALSE
