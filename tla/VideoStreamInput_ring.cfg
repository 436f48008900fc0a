CONSTANTS
    nStreamBufferSize = 4
    nMaxFrameNum = 2
    GuardBytes = 1
    Pts <- MCPts
    MinRequire = 1
    PartLengths <- MCPartLengths
SPECIFICATION FairSpec
INVARIANTS WritesDisjoint RingLayout PartialAccepted
PROPERTY DemuxNotBlocked
