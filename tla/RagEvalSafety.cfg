\* Two runs of one example each, and one crash or shutdown.
SPECIFICATION FairSpec
CONSTANTS
    NumRuns = 2
    NumExamples = 1
    NumSuites = 1
    MaxStops = 1
    MaxFaults = 0
INVARIANTS
    ExecutionOwnsTheRunningRow
PROPERTIES
    AcceptedCancellationHolds
    ImplementsQueue
    QueueDrains
