SPECIFICATION BootSpec
CONSTANTS
    PriSectors = 3
    SecSectors = 4
    None = None
    Torn <- MCTorn
    Content <- MCContent
    Used <- MCUsed
    Images <- MCLonger
    Valid <- MCLonger
    Size <- MCLongerSize
    TearMagic = {}
    ReplaceBackup = FALSE
INVARIANT AlwaysBoots
