\* One pipe and its child, a crash or shutdown and an error; only its owner
\* cancels.  The system may stop as in FullPipeSafety.
SPECIFICATION FairPipeSpec
CONSTANTS
    NumJobs = 1
    Names = {n1}
    MaxStops = 1
    MaxFaults = 1
    UsersInterfere = FALSE
PROPERTIES
    ImplementsPipeProtocol
    PipesEnd
    CancellationsRollBack
CHECK_DEADLOCK FALSE
