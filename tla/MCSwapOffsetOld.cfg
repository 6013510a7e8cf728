SPECIFICATION MCSpec
CONSTANTS
    PriSectors <- MCPriSectors
    SecSectors <- MCSecSectors
    Torn <- MCTorn
    Content <- MCContent
    Used <- MCUsed
CHECK_DEADLOCK FALSE
INVARIANT OldImageKept
