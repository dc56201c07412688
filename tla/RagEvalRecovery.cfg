\* One run of two examples, two stops and a database error, and a restart that
\* may ship another evaluation suite.
SPECIFICATION FairSpec
CONSTANTS
    NumRuns = 1
    NumExamples = 2
    NumSuites = 2
    MaxStops = 2
    MaxFaults = 1
INVARIANTS
    ResultsAreAllOrNothing
    LeftoverScopesAreFailedCleanups
PROPERTIES
    ProgressNeverGoesBack
    PendingCleanupsAreRetried
