CONSTANTS
    WorkerCounts = {16}
    Depths = {2}
    Spindles = {FALSE}
    Capacity = 9
    MaxStreak = 3
SPECIFICATION Spec
INVARIANTS
    DepthRespected
