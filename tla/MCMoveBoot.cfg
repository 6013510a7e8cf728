SPECIFICATION FairBootSpec
CONSTANTS
    PriSectors = 3
    SecSectors = 2
    MaxImgSectors = 3
    None = None
    Torn <- MCTorn
    Content <- MCContent
    Images <- MCImages
    Valid <- MCValid
    Size <- MCSize
    TearMagic <- MCTearPri
INVARIANTS
    NeverBricked
    LoopsEnteredRight
PROPERTIES
    ImplementsContract
    EventuallyUp
