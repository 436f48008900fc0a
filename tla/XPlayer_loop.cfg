SPECIFICATION Spec
CONSTANTS
    SeekTime = {1}
    CacheSize = 1
    AppCalls = {"SET_FILE_SOURCE", "PREPARE", "START"}
    Seekable = {FALSE}
    InitResults = {"ok"}
    Looping = {TRUE}
    MaxSeeks = 0
    MaxMessages = 1
CHECK_DEADLOCK FALSE
PROPERTY LoopReplays
