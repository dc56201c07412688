SPECIFICATION Spec
CONSTANTS
    NumIndices = 2
    MaxBuilds = 1
    MaxRevision = 2
    Admins = {a1, a2}
    HandStatuses = {"built", "cancelled"}
    a1 = a1
    a2 = a2
    MaxStops = 1
    MaxFaults = 1
INVARIANTS
    OwnBuildsAreWhole
    BindingsNameBuiltIndices
    CachedGraphsAreServable
CHECK_DEADLOCK FALSE
SYMMETRY AdminSymmetry
