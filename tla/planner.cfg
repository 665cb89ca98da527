CONSTANTS
    Disks <- MCDisks
    Penalty <- MCPenalty
    Bus <- MCBus
    Latencies <- MCLatencies
    ProbeReads = 4
    SeekLatency = 3
    MinSector = 1
    MinAlign = 1
    MiB = 1
    Volumes <- MCVolumes
    FileSizes = {0, 1, 8, 9, 17}
    MaxFiles = 2
    BlockOptions = {{}, {0}, {1}, {3}}
    RamOptions = {{}, {3}}
    Available = {40, 400}
    ArenaFloor = 12
    ArenaCap = 30
    PageSize = 2
    LargePages = {0, 4}
    LenBits = 5
SPECIFICATION Spec
INVARIANTS
    ChunksTileFiles
    PaddingIsHarmless
    BuffersFit
    SpindleRecognised
