\* One request at a time is enough: creation, start, one turn.
SPECIFICATION Spec
CONSTANTS
    Slots = {r1}
    Teachers = {t1}
    NoTeacher = NoTeacher
    MaxRequests = 2
    MaxFaults = 0
PROPERTIES SettingsAreKept
CHECK_DEADLOCK FALSE
