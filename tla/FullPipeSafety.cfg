\* One pipe and its child, a crash or shutdown, an error of the database or of
\* the vector store, and users who interfere.  A parent whose child has lost
\* its worker polls for ever, so the system may really stop.
SPECIFICATION PipeSpec
CONSTANTS
    NumJobs = 1
    Names = {n1}
    MaxStops = 1
    MaxFaults = 1
    UsersInterfere = TRUE
INVARIANTS
    CompletedPipesServeBoth
    RolledBackPipesLeaveNothing
CHECK_DEADLOCK FALSE
