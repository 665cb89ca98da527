CONSTANTS
    b1 = b1
    b2 = b2
    s1 = s1
    s2 = s2
    Bulk = {b1, b2}
    ChunksOf <- MCChunksOf
    Small <- MCSmall
    Threads = {t1, t2}
    ErrorCap = 1
    NoFile = NoFile
SPECIFICATION FairSpec
INVARIANTS
    TypeOK
    ExitCodeTellsTruth
    ShortfallIsNamed
    OneVoice
PROPERTIES
    RunEnds
