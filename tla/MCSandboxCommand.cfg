CONSTANTS
    NULL = NULL
    id1 = id1
    id2 = id2
    ImageIds <- MCImageIds
    Inputs <- AllCalls
    Fetched <- MCFetched
    Written <- MCWritten
    Events = {"network", "env_sweep"}
    Materializations = {"completed", "partial", "failed", "mkdtemp", "loop"}
    TimeoutOutput = {TRUE, FALSE}
    Logs = {"readable", "no_strace", "no_hooks", "neither", "garbled"}
    MaxRetags = 1
SPECIFICATION Spec
CHECK_DEADLOCK FALSE
CONSTRAINT OneTrouble
INVARIANTS
    RunsAsApproved
    RepoCodeIsPrepared
    PassedIsObserved
    EndIsClean
PROPERTIES
    Ends
