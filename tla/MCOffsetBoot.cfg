SPECIFICATION FairBootSpec
CONSTANTS
    PriSectors = 3
    SecSectors = 4
    None = None
    Torn <- MCTorn
    Content <- MCContent
    Used <- MCUsed
    Images <- MCImages
    Valid <- MCValid
    Size <- MCSize
    TearMagic <- MCTearPri
    ReplaceBackup = FALSE
INVARIANTS
    NeverBricked
PROPERTIES
    ImplementsContract
    EventuallyUp
