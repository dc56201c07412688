\* Two builds of one graph, a stop, and an error of the database or of Neo4j.
\* When the bounds are used up the system really stops.
SPECIFICATION Spec
CONSTANTS
    NumJobs = 2
    MaxStops = 1
    MaxFaults = 1
INVARIANTS
    CompletedBuildsKeepTheirData
    SettledGraphsOwnOneGeneration
    CacheHoldsNoDeletedGeneration
CHECK_DEADLOCK FALSE
