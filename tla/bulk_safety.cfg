CONSTANTS
    f1 = f1
    f2 = f2
    Workers = {w1, w2, w3}
    Buffers = {b1, b2}
    NoBuffer = NoBuffer
    Files = {f1, f2}
    Jobs <- MCJobs
    Size <- MCSize
    Align <- MCAlign
    UseValidData = FALSE
    Faults = {"read", "short_read", "write"}
    ErrorCap = 1
SPECIFICATION Spec
SYMMETRY Symmetry
INVARIANTS
    TypeOK
    BufferOwnership
    NoBufferLeaked
    RemainingIsExact
    OwnBytes
    FilesCounted
    FailureIsolated
PROPERTIES
    NeverUnwritten
