SPECIFICATION MCSpec
CONSTANTS
    PriSectors <- MCPriSectors
    SecSectors <- MCSecSectors
    MaxImgSectors <- MCMaxImgSectors
    Torn <- MCTorn
    Content <- MCContent
INVARIANTS
    SwapInv
    NoSectorLost
    SwapDone
    ResumeLosesNoProgress
