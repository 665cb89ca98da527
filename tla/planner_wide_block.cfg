CONSTANTS
    Disks <- MCDisks
    Penalty <- MCPenalty
    Bus <- MCBus
    Latencies <- MCLatencies
    ProbeReads = 4
    SeekLatency = 3
    MinSector = 1
    MinAlign = 1
    MiB = 1
    Volumes <- MCVolumes
    FileSizes = {17, 20}
    MaxFiles = 1
    BlockOptions = {{16}}
    RamOptions = {{}}
    Available = {40, 400}
    ArenaFloor = 12
    ArenaCap = 30
    PageSize = 2
    LargePages = {0, 4}
    LenBits = 4
SPECIFICATION Spec
INVARIANTS
    ChunksTileFiles
