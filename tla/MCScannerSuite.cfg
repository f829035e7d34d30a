CONSTANTS
    NULL = NULL
    ArgSets <- MCArgs
    Preflights <- MCPreflights
    Scans <- MCScans
    EntryBytes = 20
    FindingBytes = 15
    TextBytes = 5
    Stamps <- MCStamps
SPECIFICATION Spec
INVARIANTS
    ReportIsWhole
    SilenceIsEvidence
    EvidenceIsSafe
PROPERTIES
    SuiteEnds
