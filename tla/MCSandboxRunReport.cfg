SPECIFICATION FairSpec
CONSTANTS
    NULL = NULL
    p1 = p1
    p2 = p2
    art = art
    sha = sha
    img = img
    imgId = imgId
    otherImgId = otherImgId
    Proc = {p1}
    Path = {art}
    Fingerprint <- Sha
    PinnedRef <- Refs
    LocalImageId <- Ids
    Request <- AllRequests
    Snapshot <- MixedSnapshots
    Artifact <- AllArtifacts
    GateVerdict <- WarnVerdict
    PolicyVersion <- Policy
    ExitCode = {0, 3}
    MaxStamp = 1
    MaxTime = 1
INVARIANTS
    LaunchWasAuthorized
    OnlyAuthorizedConsumes
    ReportIsTrue
PROPERTIES
    EveryInvocationEnds
