SPECIFICATION FairSpec
CONSTANTS
    Area <- MCArea
    erase_size = 2
    max_blocks = 3
    File = {"app", "both", "fs", "long", "other"}
    Blocks <- MCBlocks
    NoTag = 0
    None = "none"
    Erased = Erased
    Mixed = Mixed
    Old = Old
    MaxFiles = 2
    MaxResets = 1
CHECK_DEADLOCK FALSE
INVARIANTS
    WholeFileWritten
    BeyondFrontierKept
    MarkedIfAppWritten
    ProgrammedOnce
PROPERTIES
    CopyCompletes
