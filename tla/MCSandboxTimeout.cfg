CONSTANTS
    NULL = NULL
    id1 = id1
    id2 = id2
    ImageIds <- MCImageIds
    Inputs <- LocalCalls
    Fetched = {}
    Written = {}
    Events = {}
    Materializations = {"completed"}
    TimeoutOutput = {TRUE, FALSE}
    Logs = {"readable"}
    MaxRetags = 0
SPECIFICATION Spec
CHECK_DEADLOCK FALSE
INVARIANTS TimeoutIsReported
