-------------------------------- MODULE Fbm --------------------------------
(***************************************************************************)
(* The decoder's frame buffer manager (vdecoder/fbm/fbm.c): a pool of      *)
(* nFrameNum picture buffers that circulate between the codec engine (the  *)
(* decode thread), the render thread and three linked lists.               *)
(*                                                                         *)
(* Each FrameNode flag is the set of the frames whose flag is 1.  The      *)
(* linked lists are sequences; a node has one pNext field, so a sequence   *)
(* stands for a list only while no node is on two lists, which is          *)
(* ListIntegrity below.  Every section between lock and unlock is one      *)
(* step, except the loops of FbmFlush and FbmNewDispRelease, which take a  *)
(* step per node with the mutex held so that code outside the lock can     *)
(* interleave with them.                                                   *)
(*                                                                         *)
(* nWaitForDispNum (written, never read) and the picture contents are left *)
(* out, as is the path of a 3D stream whose two streams share one Fbm.     *)
(***************************************************************************)
EXTENDS Integers, Sequences, FiniteSets

CONSTANTS
    nFrameNum,     \* frames in the pool
    bUseGpuBuf,    \* the buffers come from the display ("new display" mode)
    nHoldByGpu,    \* buffers the display keeps (LayerGetBufferNumHoldByGpu)
    EngineShares,  \* the codec shares a picture before it gives it back
    MaxRelease     \* bound: how often the window is changed

ASSUME FbmAssumption ==
    /\ nFrameNum \in Nat \ {0}
    /\ bUseGpuBuf \in BOOLEAN
    /\ nHoldByGpu \in 0 .. nFrameNum - 1
    /\ EngineShares \in BOOLEAN
    /\ MaxRelease \in Nat

Frames == 0 .. nFrameNum - 1
NoFrame == -1

VARIABLES
    \* FrameNode.Flag, one set per flag
    bUsedByDecoder, bUsedByRender, bInValidPictureQueue, bAlreadyDisplayed,
    bNeedRelease,
    nID,                    \* vpicture.nID: the index, or a tag
    pEmptyBufferQueue, pValidPictureQueue, pReleaseBufferQueue,
    nEmptyBufferNum, nValidPictureNum, nReleaseBufferNum,
    nDecoderHoldingNum, nRenderHoldingNum,
    nValidBufNum,           \* frames the display has given a buffer to
    mutex,                  \* who holds pFbm->mutex inside a loop
    \* the callers
    decHeld,                \* frames the codec engine has not given back
    shared,                 \* those of them it has passed to FbmShareBuffer
    sharing,                \* frame between the check and the lock of a share
    renHeld,                \* frames the render thread or the display holds
    relPc,                  \* where SetGpuBufferToDecoder or handleSetWindow is
    nGpuBufferNum,          \* buffers the layer was asked for
    bHadSetBufferToDecoderFlag,
    bResetBufToDecoderFlag, \* the buffers are being replaced
    nNeedReleaseBufferNum,  \* buffers the render thread has still to replace
    bHadRequestReleasePicFlag,
    releases,               \* window changes so far
    \* history
    offered                 \* times a frame was put on the valid queue since
                            \* the engine last requested it

flagVars == << bUsedByDecoder, bUsedByRender, bInValidPictureQueue,
               bAlreadyDisplayed, bNeedRelease >>
queueVars == << pEmptyBufferQueue, pValidPictureQueue, pReleaseBufferQueue,
                nEmptyBufferNum, nValidPictureNum, nReleaseBufferNum >>
holdVars == << nDecoderHoldingNum, nRenderHoldingNum >>
engineVars == << decHeld, shared, sharing >>
setVars == << nGpuBufferNum, bHadSetBufferToDecoderFlag >>
resetVars == << bResetBufToDecoderFlag, nNeedReleaseBufferNum,
                bHadRequestReleasePicFlag >>
renderVars == << renHeld, relPc, setVars, resetVars, releases >>
vars == << flagVars, nID, queueVars, holdVars, nValidBufNum, mutex,
           engineVars, renderVars, offered >>

-----------------------------------------------------------------------------
(* Definitions whose names end in _No..., _Never... or the like are faulty *)
(* variants: a slip in the code that a property must detect.               *)

FbmEnqueue_NoLink(queue, f, taken) == queue

\* FbmEnqueue, on the path where the code takes it.
FbmEnqueue(queue, f, taken) == IF taken THEN Append(queue, f) ELSE queue

FbmDequeue_NoAdvance(queue) == queue

FbmDequeue(queue) == Tail(queue)

Inc(n, taken) == IF taken THEN n + 1 ELSE n

Dec_Never(n, taken) == n

Dec(n, taken) == IF taken THEN n - 1 ELSE n

Set(flag, f, taken) == IF taken THEN flag \cup {f} ELSE flag

Clear_Never(flag, f, taken) == flag

Clear(flag, f, taken) == IF taken THEN flag \ {f} ELSE flag

InQueue(queue, f) == \E i \in 1 .. Len(queue) : queue[i] = f

KeptByDecoder_Never(f) == FALSE

\* The engine still needs the frame as a reference.
KeptByDecoder(f) == f \in bUsedByDecoder

InitialEmptyQueue_OffByOne == [i \in 1 .. nFrameNum |-> i]

InitialEmptyQueue ==
    IF bUseGpuBuf THEN << >> ELSE [i \in 1 .. nFrameNum |-> i - 1]

\* FbmCreateBuffer: without display buffers every frame is allocated and
\* queued as empty; with them the queue fills through FbmSetFbmBufAddress.
Init ==
    /\ bUsedByDecoder = {} /\ bUsedByRender = {}
    /\ bInValidPictureQueue = {} /\ bAlreadyDisplayed = {}
    /\ bNeedRelease = {}
    /\ nID = [f \in Frames |-> "index"]
    /\ pEmptyBufferQueue = InitialEmptyQueue
    /\ pValidPictureQueue = << >> /\ pReleaseBufferQueue = << >>
    /\ nEmptyBufferNum = IF bUseGpuBuf THEN 0 ELSE nFrameNum
    /\ nValidPictureNum = 0 /\ nReleaseBufferNum = 0
    /\ nDecoderHoldingNum = 0 /\ nRenderHoldingNum = 0
    /\ nValidBufNum = IF bUseGpuBuf THEN 0 ELSE nFrameNum
    /\ mutex = "free"
    /\ decHeld = {} /\ shared = {} /\ sharing = NoFrame
    /\ renHeld = {} /\ relPc = "idle"
    /\ nGpuBufferNum = 0 /\ bHadSetBufferToDecoderFlag = FALSE
    /\ bResetBufToDecoderFlag = FALSE /\ nNeedReleaseBufferNum = 0
    /\ bHadRequestReleasePicFlag = FALSE /\ releases = 0
    /\ offered = [f \in Frames |-> 0]

-----------------------------------------------------------------------------
(* The decode thread.                                                      *)

DecoderReady == mutex = "free" /\ sharing = NoFrame

\* A frame on the empty queue with one of its four flags set is dropped:
\* dequeued, not handed out, and still counted.
FbmRequestBuffer ==
    /\ DecoderReady /\ pEmptyBufferQueue # << >>
    /\ LET f == Head(pEmptyBufferQueue)
           ok == f \notin bUsedByDecoder \cup bInValidPictureQueue
                          \cup bUsedByRender \cup bAlreadyDisplayed
       IN  /\ pEmptyBufferQueue' = FbmDequeue(pEmptyBufferQueue)
           /\ nEmptyBufferNum' = Dec(nEmptyBufferNum, ok)
           /\ nDecoderHoldingNum' = Inc(nDecoderHoldingNum, ok)
           /\ bUsedByDecoder' = Set(bUsedByDecoder, f, ok)
           /\ decHeld' = Set(decHeld, f, ok)
           /\ offered' = [offered EXCEPT ![f] = IF ok THEN 0 ELSE @]
    /\ UNCHANGED << bUsedByRender, bInValidPictureQueue, bAlreadyDisplayed,
                    bNeedRelease, nID, pValidPictureQueue,
                    pReleaseBufferQueue, nValidPictureNum, nReleaseBufferNum,
                    nRenderHoldingNum, nValidBufNum, mutex, shared, sharing,
                    renderVars >>

\* The engine gives frame f back, with or without a picture to display.  On
\* the release path nDecoderHoldingNum is not decremented.
FbmReturnBuffer(f, bValidPicture) ==
    /\ DecoderReady /\ f \in decHeld
    /\ LET ok == nID[f] = "index" /\ f \in bUsedByDecoder
           queued == f \in bInValidPictureQueue
           toRelease == ok /\ f \in bNeedRelease /\ ~queued
           error == ok /\ queued /\ f \in bUsedByRender \cup bAlreadyDisplayed
           done == ok /\ ~toRelease /\ ~error
           unused == done /\ ~queued /\ f \notin bUsedByRender
           displayed == f \in bAlreadyDisplayed
           toEmpty == unused /\ (displayed \/ ~bValidPicture)
           toValid == unused /\ ~displayed /\ bValidPicture
       IN  /\ bUsedByDecoder' = Clear(bUsedByDecoder, f, ok)
           /\ bAlreadyDisplayed' =
                Clear(bAlreadyDisplayed, f, toRelease \/ (unused /\ displayed))
           /\ bInValidPictureQueue' = Set(bInValidPictureQueue, f, toValid)
           /\ pReleaseBufferQueue' = FbmEnqueue(pReleaseBufferQueue, f, toRelease)
           /\ nReleaseBufferNum' = Inc(nReleaseBufferNum, toRelease)
           /\ pEmptyBufferQueue' = FbmEnqueue(pEmptyBufferQueue, f, toEmpty)
           /\ nEmptyBufferNum' = Inc(nEmptyBufferNum, toEmpty)
           /\ pValidPictureQueue' = FbmEnqueue(pValidPictureQueue, f, toValid)
           /\ nValidPictureNum' = Inc(nValidPictureNum, toValid)
           /\ nDecoderHoldingNum' = Dec(nDecoderHoldingNum, done)
           /\ offered' = [offered EXCEPT ![f] = Inc(@, toValid)]
    /\ decHeld' = decHeld \ {f}
    /\ shared' = shared \ {f}
    /\ UNCHANGED << bUsedByRender, bNeedRelease, nID, nRenderHoldingNum,
                    nValidBufNum, mutex, sharing, renderVars >>

\* FbmShareBuffer reads bNeedRelease before it takes the lock ...
FbmShareBufferCheck(f) ==
    /\ EngineShares
    /\ sharing = NoFrame /\ f \in decHeld \ shared
    /\ shared' = shared \cup {f}
    /\ sharing' = IF nID[f] = "index" /\ f \notin bNeedRelease
                  THEN f ELSE NoFrame
    /\ UNCHANGED << flagVars, nID, queueVars, holdVars, nValidBufNum, mutex,
                    decHeld, renderVars, offered >>

\* ... and queues the picture for display under the lock.
FbmShareBuffer ==
    /\ mutex = "free" /\ sharing # NoFrame
    /\ LET f == sharing
           ok == /\ f \in bUsedByDecoder
                 /\ f \notin bInValidPictureQueue \cup bAlreadyDisplayed
       IN  /\ bInValidPictureQueue' = Set(bInValidPictureQueue, f, ok)
           /\ pValidPictureQueue' = FbmEnqueue(pValidPictureQueue, f, ok)
           /\ nValidPictureNum' = Inc(nValidPictureNum, ok)
           /\ offered' = [offered EXCEPT ![f] = Inc(@, ok)]
    /\ sharing' = NoFrame
    /\ UNCHANGED << bUsedByDecoder, bUsedByRender, bAlreadyDisplayed,
                    bNeedRelease, nID, pEmptyBufferQueue,
                    pReleaseBufferQueue, nEmptyBufferNum, nReleaseBufferNum,
                    holdVars, nValidBufNum, mutex, decHeld, shared,
                    renderVars >>

-----------------------------------------------------------------------------
(* FbmFlush, called by ResetVideoDecoder (mutex = "reset") and by          *)
(* FbmSetNewDispRelease (mutex = "flush").                                 *)

FlushBegin ==
    /\ mutex = "free"
    /\ \/ sharing = NoFrame /\ mutex' = "reset"
       \/ relPc = "flush" /\ mutex' = "flush"
    /\ UNCHANGED << flagVars, nID, queueVars, holdVars, nValidBufNum,
                    engineVars, renderVars, offered >>

\* The flush ends: FbmSetNewDispRelease goes on to FbmNewDispRelease.
FlushUnlock ==
    /\ mutex' = "free"
    /\ relPc' = IF mutex = "flush" THEN "release" ELSE relPc

\* One picture leaves the valid queue.  A picture the engine still holds is
\* marked as displayed, so that it is not queued when the engine returns it.
FlushPicture ==
    /\ mutex \in {"reset", "flush"} /\ pValidPictureQueue # << >>
    /\ LET f == Head(pValidPictureQueue)
           ok == f \notin bUsedByRender \cup bAlreadyDisplayed
           toEmpty == ok /\ ~KeptByDecoder(f)
       IN  /\ pValidPictureQueue' = FbmDequeue(pValidPictureQueue)
           /\ nValidPictureNum' = nValidPictureNum - 1
           /\ bInValidPictureQueue' = Clear(bInValidPictureQueue, f, ok)
           /\ bAlreadyDisplayed' =
                Set(bAlreadyDisplayed, f, ok /\ KeptByDecoder(f))
           /\ pEmptyBufferQueue' = FbmEnqueue(pEmptyBufferQueue, f, toEmpty)
           /\ nEmptyBufferNum' = Inc(nEmptyBufferNum, toEmpty)
           /\ IF ok THEN UNCHANGED << mutex, relPc >> ELSE FlushUnlock
    /\ UNCHANGED << bUsedByDecoder, bUsedByRender, bNeedRelease, nID,
                    pReleaseBufferQueue, nReleaseBufferNum, holdVars,
                    nValidBufNum, engineVars, renHeld, setVars, resetVars,
                    releases, offered >>

FlushEnd ==
    /\ mutex \in {"reset", "flush"} /\ pValidPictureQueue = << >>
    /\ FlushUnlock
    /\ UNCHANGED << flagVars, nID, queueVars, holdVars, nValidBufNum,
                    engineVars, renHeld, setVars, resetVars,
                    releases, offered >>

-----------------------------------------------------------------------------
(* The render thread.                                                      *)

RenderReady == mutex = "free" /\ relPc = "idle"

Resetting == bResetBufToDecoderFlag

\* No picture taken from the valid queue is waiting to be given back.
NothingShown == \A f \in renHeld : nID[f] = "forbid"

\* While buffers are being replaced the render thread asks for a picture only
\* to drop it (ResetBufToDecoder).
FbmRequestPicture ==
    /\ RenderReady /\ pValidPictureQueue # << >>
    /\ Resetting => NothingShown /\ ~bHadRequestReleasePicFlag
    /\ LET f == Head(pValidPictureQueue)
           ok == /\ f \in bInValidPictureQueue
                 /\ f \notin bUsedByRender \cup bAlreadyDisplayed
       IN  /\ pValidPictureQueue' = FbmDequeue(pValidPictureQueue)
           /\ nValidPictureNum' = Dec(nValidPictureNum, ok)
           /\ nRenderHoldingNum' = Inc(nRenderHoldingNum, ok)
           /\ bInValidPictureQueue' = Clear(bInValidPictureQueue, f, ok)
           /\ bUsedByRender' = Set(bUsedByRender, f, ok)
           /\ renHeld' = Set(renHeld, f, ok)
    /\ UNCHANGED << bUsedByDecoder, bAlreadyDisplayed, bNeedRelease, nID,
                    pEmptyBufferQueue, pReleaseBufferQueue, nEmptyBufferNum,
                    nReleaseBufferNum, nDecoderHoldingNum, nValidBufNum,
                    mutex, engineVars, relPc, setVars, resetVars, releases,
                    offered >>

\* The lookup by buffer finds the frame itself, but with display buffers not
\* one that is to be released; a frame the display held (FRM_FORBID_USE_TAG)
\* becomes empty.  The callers ignore the error code.  A window change returns
\* the pictures of the render thread and those of the display.
FbmReturnPicture(f) ==
    /\ mutex = "free" /\ f \in renHeld
    /\ \/ /\ relPc = "idle"
          /\ nID[f] = "forbid" => ~Resetting /\ nValidBufNum = nFrameNum
       \/ relPc = "return"
    /\ LET found == ~(bUseGpuBuf /\ f \in bNeedRelease)
           idle == f \notin bInValidPictureQueue \cup bAlreadyDisplayed
           forbidden == found /\ nID[f] = "forbid" /\ idle
                         /\ f \notin bUsedByRender
           ok == found /\ nID[f] = "index" /\ idle /\ f \in bUsedByRender
           unused == ok /\ ~KeptByDecoder(f)
           toEmpty == forbidden \/ (unused /\ f \notin bNeedRelease)
           toRelease == unused /\ f \in bNeedRelease
       IN  /\ nID' = [nID EXCEPT ![f] = IF forbidden THEN "index" ELSE @]
           /\ bUsedByRender' = Clear(bUsedByRender, f, ok)
           /\ nRenderHoldingNum' = Dec(nRenderHoldingNum, ok)
           /\ bAlreadyDisplayed' =
                Set(bAlreadyDisplayed, f, ok /\ KeptByDecoder(f))
           /\ pEmptyBufferQueue' = FbmEnqueue(pEmptyBufferQueue, f, toEmpty)
           /\ nEmptyBufferNum' = Inc(nEmptyBufferNum, toEmpty)
           /\ pReleaseBufferQueue' = FbmEnqueue(pReleaseBufferQueue, f, toRelease)
           /\ nReleaseBufferNum' = Inc(nReleaseBufferNum, toRelease)
    /\ renHeld' = renHeld \ {f}
    /\ UNCHANGED << bUsedByDecoder, bInValidPictureQueue, bNeedRelease,
                    pValidPictureQueue, nValidPictureNum, nDecoderHoldingNum,
                    nValidBufNum, mutex, engineVars, relPc, setVars,
                    resetVars, releases, offered >>

-----------------------------------------------------------------------------
(* Buffers of the display: SetGpuBufferToDecoder fills the pool,           *)
(* handleSetWindow marks every buffer for release and ResetBufToDecoder    *)
(* replaces them one by one.                                               *)

\* The layer is told how many buffers the decoder needs, here or, when the
\* window comes after this, by handleSetWindow (setLayerInfo).
RenderGetVideoFbmBufInfo ==
    /\ bUseGpuBuf /\ RenderReady /\ ~Resetting
    /\ nGpuBufferNum = 0
    /\ nGpuBufferNum' = nFrameNum
    /\ UNCHANGED << flagVars, nID, queueVars, holdVars, nValidBufNum, mutex,
                    engineVars, renHeld, relPc, bHadSetBufferToDecoderFlag,
                    resetVars, releases, offered >>

SetGpuBufferToDecoder ==
    /\ RenderReady /\ ~Resetting
    /\ nGpuBufferNum > 0 /\ ~bHadSetBufferToDecoderFlag
    /\ bHadSetBufferToDecoderFlag' = TRUE
    /\ relPc' = "set"
    /\ UNCHANGED << flagVars, nID, queueVars, holdVars, nValidBufNum, mutex,
                    engineVars, renHeld, nGpuBufferNum, resetVars, releases,
                    offered >>

\* FbmSetFbmBufAddress: the next frame gets a buffer of the display.
GiveBuffer(bForbidUseFlag) ==
    LET f == nValidBufNum
    IN  /\ nID' = [nID EXCEPT ![f] = IF bForbidUseFlag THEN "forbid"
                                                       ELSE "index"]
        /\ pEmptyBufferQueue' = FbmEnqueue(pEmptyBufferQueue, f, ~bForbidUseFlag)
        /\ nEmptyBufferNum' = Inc(nEmptyBufferNum, ~bForbidUseFlag)
        /\ renHeld' = Set(renHeld, f, bForbidUseFlag)
        /\ nValidBufNum' = nValidBufNum + 1
        /\ UNCHANGED << flagVars, pValidPictureQueue, pReleaseBufferQueue,
                        nValidPictureNum, nReleaseBufferNum, holdVars, mutex,
                        engineVars, setVars, resetVars, releases, offered >>

\* The last nHoldByGpu buffers stay with the display.
FbmSetFbmBufAddress ==
    /\ mutex = "free" /\ relPc = "set" /\ nValidBufNum < nFrameNum
    /\ GiveBuffer(nValidBufNum >= nFrameNum - nHoldByGpu)
    /\ relPc' = IF nValidBufNum + 1 = nFrameNum THEN "idle" ELSE "set"

\* "we cannot dequeue the last buffer form native window right now in the case
\* of resolution change" ...
LastDequeueFails ==
    /\ relPc = "set" /\ nValidBufNum = nFrameNum - 1
    /\ relPc' = "idle"
    /\ UNCHANGED << flagVars, nID, queueVars, holdVars, nValidBufNum, mutex,
                    engineVars, renHeld, setVars, resetVars, releases,
                    offered >>

\* ... "so dequeue it after queue the first picture to native window".
SetLastBuffer ==
    /\ RenderReady /\ ~Resetting /\ bHadSetBufferToDecoderFlag
    /\ nValidBufNum < nFrameNum /\ ~NothingShown
    /\ GiveBuffer(FALSE)
    /\ UNCHANGED relPc

\* The window changes, at any time between two rounds of the render thread:
\* before the buffers are set, before the last one is, or during a
\* replacement.  The pictures are returned first (FbmReturnPicture).
HandleSetWindow ==
    /\ bUseGpuBuf /\ RenderReady /\ (Resetting => NothingShown)
    /\ releases < MaxRelease
    /\ relPc' = "return"
    /\ releases' = releases + 1
    /\ UNCHANGED << flagVars, nID, queueVars, holdVars, nValidBufNum, mutex,
                    engineVars, renHeld, setVars, resetVars, offered >>

\* The first locked section of FbmSetNewDispRelease marks the frames that have
\* a buffer; the replacement counts from the buffers the layer was asked for.
\* (handleSetWindow sets its two fields at the end; no one reads them before.)
FbmSetNewDispRelease ==
    /\ mutex = "free" /\ relPc = "return" /\ renHeld = {}
    /\ bNeedRelease' = bNeedRelease \cup { f \in Frames : f < nValidBufNum }
    /\ relPc' = "flush"
    /\ bResetBufToDecoderFlag' = TRUE
    /\ nNeedReleaseBufferNum' = nGpuBufferNum
    /\ UNCHANGED << bUsedByDecoder, bUsedByRender, bInValidPictureQueue,
                    bAlreadyDisplayed, nID, queueVars, holdVars,
                    nValidBufNum, mutex, engineVars, renHeld, setVars,
                    bHadRequestReleasePicFlag, releases, offered >>

NewDispReleaseBegin ==
    /\ mutex = "free" /\ relPc = "release"
    /\ mutex' = "release"
    /\ UNCHANGED << flagVars, nID, queueVars, holdVars, nValidBufNum,
                    engineVars, renderVars, offered >>

\* FbmNewDispRelease: one empty frame moves to the release queue; a frame with
\* a flag set is dropped and ends the loop.
NewDispReleaseFrame ==
    /\ mutex = "release" /\ pEmptyBufferQueue # << >>
    /\ LET f == Head(pEmptyBufferQueue)
           ok == f \notin bUsedByDecoder \cup bInValidPictureQueue
                          \cup bUsedByRender \cup bAlreadyDisplayed
       IN  /\ pEmptyBufferQueue' = FbmDequeue(pEmptyBufferQueue)
           /\ nEmptyBufferNum' = Dec(nEmptyBufferNum, ok)
           /\ pReleaseBufferQueue' = FbmEnqueue(pReleaseBufferQueue, f, ok)
           /\ nReleaseBufferNum' = Inc(nReleaseBufferNum, ok)
           /\ mutex' = IF ok THEN mutex ELSE "free"
           /\ relPc' = IF ok THEN relPc ELSE "idle"
    /\ UNCHANGED << flagVars, nID, pValidPictureQueue, nValidPictureNum,
                    holdVars, nValidBufNum, engineVars, renHeld, setVars,
                    resetVars, releases, offered >>

NewDispReleaseEnd ==
    /\ mutex = "release" /\ pEmptyBufferQueue = << >>
    /\ mutex' = "free"
    /\ relPc' = "idle"
    /\ UNCHANGED << flagVars, nID, queueVars, holdVars, nValidBufNum,
                    engineVars, renHeld, setVars, resetVars,
                    releases, offered >>

\* ResetBufToDecoder takes a frame whose old buffer the display may free ...
FbmRequestReleasePicture ==
    /\ RenderReady /\ Resetting /\ NothingShown
    /\ ~bHadRequestReleasePicFlag /\ pReleaseBufferQueue # << >>
    /\ pReleaseBufferQueue' = FbmDequeue(pReleaseBufferQueue)
    /\ nReleaseBufferNum' = nReleaseBufferNum - 1
    /\ nID' = [nID EXCEPT ![Head(pReleaseBufferQueue)] = "release"]
    /\ bHadRequestReleasePicFlag' = TRUE
    /\ UNCHANGED << flagVars, pEmptyBufferQueue, pValidPictureQueue,
                    nEmptyBufferNum, nValidPictureNum, holdVars,
                    nValidBufNum, mutex, engineVars, renHeld, relPc,
                    setVars, bResetBufToDecoderFlag, nNeedReleaseBufferNum,
                    releases, offered >>

\* ... and once it has a new buffer puts it into the first frame so tagged.
\* Only here, when the count is down, the replacement ends.
FbmReturnReleasePicture ==
    /\ RenderReady /\ Resetting /\ bHadRequestReleasePicFlag
    /\ \E f \in Frames :
         LET tagged(g) == g \in bNeedRelease /\ nID[g] = "release"
             bForbidUseFlag == nNeedReleaseBufferNum <= nHoldByGpu
         IN  /\ tagged(f) /\ \A g \in Frames : tagged(g) => f <= g
             /\ bNeedRelease' = bNeedRelease \ {f}
             /\ nID' = [nID EXCEPT ![f] = IF bForbidUseFlag THEN "forbid"
                                                            ELSE "index"]
             /\ pEmptyBufferQueue' =
                  FbmEnqueue(pEmptyBufferQueue, f, ~bForbidUseFlag)
             /\ nEmptyBufferNum' = Inc(nEmptyBufferNum, ~bForbidUseFlag)
             /\ renHeld' = Set(renHeld, f, bForbidUseFlag)
    /\ bHadRequestReleasePicFlag' = FALSE
    /\ nNeedReleaseBufferNum' = nNeedReleaseBufferNum - 1
    /\ bResetBufToDecoderFlag' =
         IF nNeedReleaseBufferNum - 1 <= 0 THEN FALSE ELSE bResetBufToDecoderFlag
    /\ UNCHANGED << bUsedByDecoder, bUsedByRender, bInValidPictureQueue,
                    bAlreadyDisplayed, pValidPictureQueue,
                    pReleaseBufferQueue, nValidPictureNum, nReleaseBufferNum,
                    holdVars, nValidBufNum, mutex, engineVars, relPc,
                    setVars, releases, offered >>

-----------------------------------------------------------------------------
Next ==
    \/ FbmRequestBuffer
    \/ \E f \in Frames, bValidPicture \in BOOLEAN :
         FbmReturnBuffer(f, bValidPicture)
    \/ \E f \in Frames : FbmShareBufferCheck(f)
    \/ FbmShareBuffer
    \/ FlushBegin
    \/ FlushPicture
    \/ FlushEnd
    \/ FbmRequestPicture
    \/ \E f \in Frames : FbmReturnPicture(f)
    \/ RenderGetVideoFbmBufInfo
    \/ SetGpuBufferToDecoder
    \/ FbmSetFbmBufAddress
    \/ LastDequeueFails
    \/ SetLastBuffer
    \/ HandleSetWindow
    \/ FbmSetNewDispRelease
    \/ NewDispReleaseBegin
    \/ NewDispReleaseFrame
    \/ NewDispReleaseEnd
    \/ FbmRequestReleasePicture
    \/ FbmReturnReleasePicture

Spec == Init /\ [][Next]_vars

(***************************************************************************)
(* Fairness.  A thread inside the mutex goes on (weak fairness).  A thread *)
(* that wants the mutex gets it although others use it in between (strong  *)
(* fairness): the render thread keeps asking for pictures, gives each one  *)
(* back, ends SetGpuBufferToDecoder and handleSetWindow and carries a      *)
(* buffer replacement through; the engine goes on decoding, so it finishes *)
(* a share and gives every buffer back in time.                            *)
(* The engine's part is an assumption about the closed codec library.      *)
(***************************************************************************)
Fairness ==
    /\ WF_vars(FlushPicture \/ FlushEnd \/ NewDispReleaseFrame
                  \/ NewDispReleaseEnd)
    /\ SF_vars(FbmShareBuffer)
    /\ SF_vars(FbmRequestPicture)
    /\ SF_vars(\/ RenderGetVideoFbmBufInfo \/ SetGpuBufferToDecoder
               \/ FbmSetFbmBufAddress \/ FbmSetNewDispRelease
               \/ (FlushBegin /\ mutex' = "flush") \/ NewDispReleaseBegin)
    /\ SF_vars(FbmRequestReleasePicture \/ FbmReturnReleasePicture)
    /\ \A f \in Frames :
         /\ SF_vars(FbmReturnPicture(f))
         /\ SF_vars(\E v \in BOOLEAN : FbmReturnBuffer(f, v))

FairSpec == Spec /\ Fairness

\* The engine also has data all the time and keeps requesting buffers.
BusySpec == FairSpec /\ SF_vars(FbmRequestBuffer)

-----------------------------------------------------------------------------
(* Properties.                                                             *)

Flags == SUBSET Frames

\* Type invariant of the pool and of its callers.
TypeOK ==
    /\ bUsedByDecoder \in Flags /\ bUsedByRender \in Flags
    /\ bInValidPictureQueue \in Flags /\ bAlreadyDisplayed \in Flags
    /\ bNeedRelease \in Flags
    /\ nID \in [Frames -> {"index", "forbid", "release"}]
    /\ pEmptyBufferQueue \in Seq(Frames)
    /\ pValidPictureQueue \in Seq(Frames)
    /\ pReleaseBufferQueue \in Seq(Frames)
    /\ nEmptyBufferNum \in Int /\ nValidPictureNum \in Int
    /\ nReleaseBufferNum \in Int
    /\ nDecoderHoldingNum \in Int /\ nRenderHoldingNum \in Int
    /\ nValidBufNum \in 0 .. nFrameNum
    /\ mutex \in {"free", "reset", "flush", "release"}
    /\ decHeld \in Flags /\ shared \in Flags
    /\ sharing \in Frames \cup {NoFrame}
    /\ renHeld \in Flags
    /\ relPc \in {"idle", "set", "return", "flush", "release"}
    /\ nGpuBufferNum \in {0, nFrameNum}
    /\ bHadSetBufferToDecoderFlag \in BOOLEAN
    /\ bResetBufToDecoderFlag \in BOOLEAN
    /\ nNeedReleaseBufferNum \in Int
    /\ bHadRequestReleasePicFlag \in BOOLEAN
    /\ releases \in Nat
    /\ offered \in [Frames -> Nat]

NoRepeat(queue) ==
    \A i, j \in 1 .. Len(queue) : queue[i] = queue[j] => i = j

Disjoint(q, r) == \A f \in Frames : ~(InQueue(q, f) /\ InQueue(r, f))

\* A frame node has one pNext link: whatever the threads do, it is on at most
\* one of the three lists, and on that one once.  A second FbmEnqueue of a
\* queued node would cut or tie the lists together.
ListIntegrity ==
    /\ NoRepeat(pEmptyBufferQueue) /\ NoRepeat(pValidPictureQueue)
    /\ NoRepeat(pReleaseBufferQueue)
    /\ Disjoint(pEmptyBufferQueue, pValidPictureQueue)
    /\ Disjoint(pEmptyBufferQueue, pReleaseBufferQueue)
    /\ Disjoint(pValidPictureQueue, pReleaseBufferQueue)

\* The engine decodes into a frame it requested and has not shared yet.  No
\* one else can have that frame: it is not with the render thread, not waiting
\* for display and not on its way to be handed out or released again.
DecodeExclusive ==
    \A f \in decHeld \ shared :
        /\ f \notin renHeld \cup bUsedByRender
        /\ ~InQueue(pEmptyBufferQueue, f)
        /\ ~InQueue(pValidPictureQueue, f)
        /\ ~InQueue(pReleaseBufferQueue, f)

\* A decoded picture is offered to the display at most once, even when it is
\* shared, flushed or displayed while the engine keeps it as a reference and
\* then returned by the engine as valid.
OfferedOnce == \A f \in Frames : offered[f] <= 1

\* FbmRequestBuffer and FbmNewDispRelease rely on it: "the picture is in the
\* pEmptyBufferQueue, these four flags shouldn't be set".
EmptyQueueFlagsClear ==
    \A f \in Frames : InQueue(pEmptyBufferQueue, f) =>
        f \notin bUsedByDecoder \cup bInValidPictureQueue
                 \cup bUsedByRender \cup bAlreadyDisplayed

\* No frame leaks out of the pool: each one with a buffer is on a queue, held
\* by the engine, by the render thread or the display, or being replaced.
NoFrameLost ==
    \A f \in 0 .. nValidBufNum - 1 :
        \/ InQueue(pEmptyBufferQueue, f) \/ InQueue(pValidPictureQueue, f)
        \/ InQueue(pReleaseBufferQueue, f)
        \/ f \in decHeld \cup renHeld
        \/ nID[f] = "release"

QueueCounts ==
    /\ nEmptyBufferNum = Len(pEmptyBufferQueue)
    /\ nValidPictureNum = Len(pValidPictureQueue)
    /\ nReleaseBufferNum = Len(pReleaseBufferQueue)

FbmGetDecoderHoldingBufferNum == nDecoderHoldingNum

FbmGetDisplayBufferNum == nRenderHoldingNum + nValidPictureNum

HoldingCounts ==
    /\ FbmGetDecoderHoldingBufferNum = Cardinality(decHeld)
    /\ FbmGetDisplayBufferNum =
         Cardinality(renHeld) + Len(pValidPictureQueue)

\* The counters tell the truth: FbmEmptyBufferNum, FbmValidPictureNum and
\* FbmReleasePictureNum report what is really on the queues, and the holding
\* counters that the codec library reads count the frames that the engine and
\* the display path hold, across shares and flushes.
CountsExact == QueueCounts /\ HoldingCounts

\* The engine is never starved for good: a frame becomes empty again and
\* again, since each frame comes back from whoever holds it.
BuffersComeBack == []<>(pEmptyBufferQueue # << >>)

\* After the window changes the render thread replaces every buffer
\* (ResetBufToDecoder reaches PLAYER_VIDEO_RENDER_RESET_BUFFER_FINISHED), also
\* when the window changes again meanwhile.  This holds only when every buffer
\* of the pool was set before: handleSetWindow does not check it, and a window
\* changed earlier is waited for without end, since the count it starts from
\* is then not the number of the frames it marks.
ResetFinishes == (Resetting /\ nValidBufNum = nFrameNum) ~> ~Resetting
=============================================================================
