CONSTANTS
    nStreamBufferSize = 2
    nMaxFrameNum = 3
    GuardBytes = 1
    Pts <- MCPts
SPECIFICATION SbmSpec
INVARIANTS SbmTypeOK NeverAborts DataSizeExact
PROPERTY ImplementsFifo
