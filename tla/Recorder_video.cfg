SPECIFICATION Spec
CONSTANTS
    nFrameBufferNum = 2
    nBufferNum = 4
    nStreamBufferSize = 4
    nMaxFrameNum = 2
    AlignBytes = 2
    StreamLengths <- MCLengths
    UseAlloc = {TRUE, FALSE}
    EncodeResults = {"dropped"}
INVARIANTS TypeOK NothingOverwritten NotUsedAfterFree WriteFindsBuffer
PROPERTY RecordingGoesOn
