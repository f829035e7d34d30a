SPECIFICATION Spec
CONSTANTS
    NULL = NULL
    NumFeatures = 2
    Files = {"src"}
    Forbidden = {}
    FeaturesFile = "features"
    Modes = {"runner", "legacy", "kickoff"}
    MaxIterations = 2
    MaxAttempts = 1
    Orphans = TRUE
    MaxEdits = 2
    MaxRuns = 2
CONSTRAINT OneRunOrTwoShort
INVARIANTS
    CommitsAreDue
    FeaturesDecide
    SignalReported
    IndexRestored
PROPERTIES
    RunEnds
CHECK_DEADLOCK FALSE
