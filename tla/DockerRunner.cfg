SPECIFICATION FairSpec
CONSTANTS
    NULL = NULL
    own = own
    OtherRun = {other}
    Unlabelled = {plain}
    Delays = 2
    ExitCode = {0, 3}
INVARIANTS
    ResultIsTrue
PROPERTIES
    NoStartAfterReturn
    RunEnds
