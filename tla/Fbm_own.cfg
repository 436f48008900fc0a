CONSTANTS
    nFrameNum = 3
    bUseGpuBuf = FALSE
    nHoldByGpu = 0
    EngineShares = TRUE
    MaxRelease = 0
SPECIFICATION FairSpec
INVARIANTS
    TypeOK
    ListIntegrity
    DecodeExclusive
    OfferedOnce
    EmptyQueueFlagsClear
    CountsExact
PROPERTY BuffersComeBack
