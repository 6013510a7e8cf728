SPECIFICATION Uf2Spec
CONSTANTS
    PriSectors = 2
    SecSectors = 3
    None = None
    Torn <- MCTorn
    Content <- MCContent
    Used <- MCUsed
    Images <- MCImages
    Valid <- MCImages
    Size <- MCSize
    TearMagic <- MCTear
    ReplaceBackup = FALSE
    MaxDrops = 1
INVARIANT IdleDropRuns
