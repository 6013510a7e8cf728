SPECIFICATION FairSpec
CONSTANTS
    align = 2
    sector_size = 4
    area_size = 16
    trailer_sz = 3
    Files = {"f", "g"}
    FileSize <- MCFileSize
    Chunk = 5
    Erased = Erased
    Old = Old
    Queue = 2
    MaxErrors = 1
    MaxSessions = 2
    MaxLost = 1
    MaxFaults = 1
    MaxResets = 1
CHECK_DEADLOCK FALSE
INVARIANTS
    PrefixWritten
    ToldMeansStored
PROPERTY UploadCompletes
