CONSTANTS
    f1 = f1
    f2 = f2
    Workers = {w1, w2}
    Buffers = {b1, b2}
    NoBuffer = NoBuffer
    Files = {f1, f2}
    Jobs <- MCJobs
    Size <- MCSize
    Align <- MCAlign
    UseValidData = FALSE
    Faults = {"short_read"}
    ErrorCap = 1
SPECIFICATION Spec
INVARIANTS
    ShortfallReported
