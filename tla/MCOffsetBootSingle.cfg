SPECIFICATION BootSpec
CONSTANTS
    PriSectors = 3
    SecSectors = 4
    None = None
    Torn <- MCTorn
    Content <- MCContent
    Used <- MCUsed
    Images <- MCSingle
    Valid <- MCSingle
    Size <- MCSingleSize
    TearMagic = {}
    ReplaceBackup = FALSE
INVARIANT AlwaysBoots
