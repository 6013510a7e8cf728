SPECIFICATION BootSpec
CONSTANTS
    None = None
    Torn <- MCTorn
    Images <- MCImages
    Valid <- MCValid
    Size <- MCTallSize
    TearMagic <- MCTear
    Layouts <- MCUnevenLayouts
INVARIANTS
    NeverBricked
