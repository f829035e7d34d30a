SPECIFICATION EvidenceSpec
CONSTANTS
    NULL = NULL
    Fingerprint = {"f1", "f2", "f3"}
    PinnedRef = {"img"}
    LocalImageId = {"id"}
    MaxRefs = 3
    Subject <- MCSubject
    Policy <- MCPolicy
    Items <- MCItems
    Sandbox <- MCSandbox
    Suites <- MCSuites
    Findings <- MCFindings
CONSTRAINT WideOrDeep
INVARIANTS
    UnlockableIsClean
PROPERTIES
    SandboxNeverImproves
    EvidenceIsOneWay
