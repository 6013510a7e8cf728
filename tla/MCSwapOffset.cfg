SPECIFICATION MCSpec
CONSTANTS
    PriSectors <- MCPriSectors
    SecSectors <- MCSecSectors
    Torn <- MCTorn
    Content <- MCContent
    Used <- MCUsed
INVARIANTS
    SwapDone
    NoSectorLost
PROPERTY SwapCompletes
