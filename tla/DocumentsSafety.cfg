\* Two documents, two uploads and two requests, an error and a restart.  Every
\* request ends, so the system really stops.
SPECIFICATION Spec
CONSTANTS
    Files = {1, 2}
    Uploads = {u1, u2}
    u1 = u1
    u2 = u2
    Requests = {r1, r2}
    r1 = r1
    r2 = r2
    Edited = {1}
    MaxChunks = 2
    MaxStops = 1
    MaxFaults = 1
INVARIANTS
    SourcesMatchTheirRows
    ChunksAreDuplicatedByRivalsOnly
SYMMETRY Symmetry
CHECK_DEADLOCK FALSE
