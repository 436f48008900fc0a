CONSTANTS
    nFrameNum = 2
    bUseGpuBuf = TRUE
    nHoldByGpu = 0
    EngineShares = TRUE
    MaxRelease = 1
SPECIFICATION BusySpec
PROPERTY ResetFinishes
