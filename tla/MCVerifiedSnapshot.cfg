SPECIFICATION Spec
CONSTANTS
    NULL = NULL
    Files <- MCFiles
    Dirs <- MCDirs
    Root = "."
    Parent <- MCParent
    Excluded = {"auth"}
    AuthFile = "auth"
    Start <- MCStart
    Commits = {"clean", "edited", "link"}
    Tree <- MCTree
    Cases <- MCCases
    MaxFiles = 3
    MaxDirs = 2
    MaxDepth = 2
    MaxPaths = 5
    MaxFileSize = 3
    MaxTotal = 4
INVARIANTS
    SnapshotWasReal
    CopyWasReal
    NothingLeaks
    TamperingIsSeen
PROPERTIES
    IntakeEnds
