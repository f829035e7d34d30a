SPECIFICATION Spec
CONSTANTS
    NULL = NULL
    Fingerprint <- MCFingerprint
    PinnedRef = {"img"}
    LocalImageId = {"id"}
    MaxRefs = 4
    MaxBytes = 2
    MaxTotalBytes = 4
    MaxAge = 1
    MaxSkew = 0
    Trees <- MCTrees
    Args <- MCArgs
    Files <- MCFiles
    FirstFiles <- MCFirstFiles
    Images <- MCImages
    MaxClock = 2
    MaxRuns = 2
    MaxReplaced = 1
CONSTRAINT OneOrFour
INVARIANTS
    AuthorizedIsEarned
    ReturnIsSound
    CopyAccounted
CHECK_DEADLOCK FALSE
