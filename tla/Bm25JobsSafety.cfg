\* Two jobs that may ask for the same name, one crash or shutdown, and one
\* database error.
SPECIFICATION FairSpec
CONSTANTS
    NumJobs = 2
    Names = {n1, n2}
    MaxStops = 1
    MaxFaults = 1
INVARIANTS
    OneJobRuns
    CompletedJobsServeAnIndex
    FailedJobsLeaveNoArtifact
    ReservedNamesAreExclusive
PROPERTIES
    CancellationsEndJobs
    QueueDrains
