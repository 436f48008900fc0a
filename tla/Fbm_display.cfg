CONSTANTS
    nFrameNum = 2
    bUseGpuBuf = TRUE
    nHoldByGpu = 1
    EngineShares = FALSE
    MaxRelease = 2
SPECIFICATION FairSpec
INVARIANTS
    NoFrameLost
PROPERTY
    ResetFinishes
