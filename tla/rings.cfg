CONSTANTS
    Workers = {w1, w2, w3}
    Buffers = 2
    JobCount = 3
SPECIFICATION FairSpec
INVARIANTS
    TypeOK
    NoLostWakeup
PROPERTIES
    CallsReturn
