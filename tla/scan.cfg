CONSTANTS
    Nodes <- MCNodes
    Sources <- MCSources
    Kind <- MCKind
    LinkTo <- MCLinkTo
    Size <- MCSize
    Dsts <- MCDsts
    WorkingDirectory <- MCWorkingDirectory
    TypedRoots <- MCTypedRoots
    ExcludeLists <- MCExcludeLists
    Texts <- MCTexts
    Thresholds = {0, 5}
    Faults = {"read_dir", "entry", "metadata"}
SPECIFICATION Spec
INVARIANTS
    TypeOK
    PlanIsExact
    WalkedOnce
    DirectoriesReady
    PathsOpenRight
    GlobIsRight
