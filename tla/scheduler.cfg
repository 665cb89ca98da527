CONSTANTS
    WorkerCounts = {2, 3, 5, 8}
    Depths = {1, 2, 4, 12}
    Spindles = {TRUE, FALSE}
    Capacity = 9
    MaxStreak = 3
SPECIFICATION FairSpec
INVARIANTS
    TypeOK
    BothSidesAlive
PROPERTIES
    TwoIndications
    OneWorkerPerSample
    SettlesOnSplit
    StarvationAnswered
