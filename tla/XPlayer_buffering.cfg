SPECIFICATION Spec
CONSTANTS
    SeekTime = {1}
    CacheSize = 1
    AppCalls = {"SET_NET_SOURCE", "PREPARE_ASYNC", "START"}
    Seekable = {TRUE}
    InitResults = {"ok"}
    Looping = {FALSE}
    MaxSeeks = 0
    MaxMessages = 1
CHECK_DEADLOCK FALSE
PROPERTY StartEndsBuffering
