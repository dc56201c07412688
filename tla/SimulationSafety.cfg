\* Two requests in flight, five in all, one error or crash.
SPECIFICATION Spec
CONSTANTS
    Slots = {r1, r2}
    Teachers = {t1, t2}
    NoTeacher = NoTeacher
    MaxRequests = 5
    MaxFaults = 1
SYMMETRY Symmetry
INVARIANTS
    TurnsAreKept
    ProxiesKeepTheirModel
    ReviewsAreWhole
PROPERTIES
    EndedSimulationsAreFrozen
CHECK_DEADLOCK FALSE
