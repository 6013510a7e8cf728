SPECIFICATION FairBootSpec
CONSTANTS
    None = None
    Torn <- MCTorn
    Images <- MCImages
    Valid <- MCValid
    Size <- MCSize
    TearMagic <- MCTear
    Layouts <- MCLayouts
INVARIANTS
    NeverBricked
    HeadersFound
PROPERTIES
    ImplementsContract
    EventuallyUp
