SPECIFICATION Spec
CONSTANTS
    SeekTime = {1, 2}
    CacheSize = 1
    AppCalls = {"SET_FILE_SOURCE", "PREPARE", "PREPARE_ASYNC", "START", "STOP", "PAUSE", "RESET", "SEEK"}
    Seekable = {TRUE}
    InitResults = {"ok", "fails"}
    Looping = {TRUE}
    MaxSeeks = 1
    MaxMessages = 1
CHECK_DEADLOCK FALSE
INVARIANTS PrepareFindsClosed DemuxLoopAlive PausedMeansPaused StartedPlays
PROPERTY CallsReturn
