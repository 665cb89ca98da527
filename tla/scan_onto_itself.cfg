CONSTANTS
    Nodes <- MCNodes
    Sources <- MCSourcesInside
    Kind <- MCKind
    LinkTo <- MCLinkTo
    Size <- MCSize
    Dsts <- MCDstsInside
    WorkingDirectory <- MCWorkingDirectory
    TypedRoots <- MCTypedRoots
    ExcludeLists <- MCExcludeLists
    Texts <- MCTexts
    Thresholds = {0, 5}
    Faults = {"read_dir", "entry", "metadata"}
SPECIFICATION Spec
INVARIANTS
    SourceKept
