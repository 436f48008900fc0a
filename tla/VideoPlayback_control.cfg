SPECIFICATION Spec
CONSTANT nMaxMessageNum = 4
INVARIANTS
    PostsFit
    LoopsAlive
    DecodeStaysOff
    EosNotStale
    EosFindsRender
PROPERTY
    CallsReturn
