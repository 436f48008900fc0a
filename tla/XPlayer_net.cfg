SPECIFICATION Spec
CONSTANTS
    SeekTime = {1}
    CacheSize = 1
    AppCalls = {"SET_NET_SOURCE", "PREPARE_ASYNC", "START", "STOP", "SEEK"}
    Seekable = {TRUE}
    InitResults = {"ok"}
    Looping = {FALSE}
    MaxSeeks = 0
    MaxMessages = 1
CHECK_DEADLOCK FALSE
INVARIANTS TypeOK ParserOpen CancelForcesParser
