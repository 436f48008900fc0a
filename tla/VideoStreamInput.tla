-------------------------- MODULE VideoStreamInput --------------------------
(***************************************************************************)
(* How video data gets into the decoder: the demux thread requests ring    *)
(* space, fills it and submits it in parts (vdecoder.c, called through     *)
(* libcedarx's videoDecComponent.c), while the decode thread takes whole   *)
(* frames off the ring, may crash for good, or is reset for a seek.        *)
(*                                                                         *)
(* ResetVideoDecoder runs on the decode thread only while the demux thread *)
(* is stopped; after a crash the demux thread itself calls it.             *)
(***************************************************************************)
EXTENDS SbmStream

CONSTANTS
    MinRequire,    \* bytes granted for an empty part (4 in the code)
    PartLengths    \* lengths of the parts the parser delivers

ASSUME InputAssumption ==
    /\ MinRequire \in Nat \ {0}
    /\ PartLengths \subseteq 0 .. nStreamBufferSize
    /\ 0 \in PartLengths

VARIABLES
    partialStreamDataInfo,  \* the frame whose parts are being collected
    part,                   \* the part the demux thread is working on
    demux,                  \* where the demux thread is
    bCrashFlag              \* the decode thread has given up

inputVars == << partialStreamDataInfo, part, demux, bCrashFlag >>
vars == << sbmVars, inputVars >>

Part == [pData : Addresses \cup {NULL}, nLength : PartLengths, nPts : Pts,
         bIsFirstPart : BOOLEAN, bIsLastPart : BOOLEAN]

NoPart == [pData |-> NULL, nLength |-> 0, nPts |-> 0,
           bIsFirstPart |-> FALSE, bIsLastPart |-> FALSE]

\* No parts collected.  A reset clears the memory instead (ZeroInfo), so that
\* the time stamp 0 of no part then counts as known.
ClearedInfo == [pData |-> NULL, nLength |-> 0, nPts |-> -1]

(* Definitions whose names end in _No... or _Off... are faulty variants: a *)
(* slip in the code that a property must detect.                           *)

Wrap_OffByOne(addr) ==
    IF addr > nStreamBufferSize THEN addr - nStreamBufferSize ELSE addr

\* An address past the end of the ring continues at its start.
Wrap(addr) == IF addr >= nStreamBufferSize THEN addr - nStreamBufferSize
                                           ELSE addr

\* CreateVideoDecoder marks the time stamp as missing.
Init ==
    /\ SbmInit
    /\ partialStreamDataInfo = ClearedInfo
    /\ part = NoPart
    /\ demux = "idle"
    /\ bCrashFlag = FALSE

-----------------------------------------------------------------------------
(* The demux thread.                                                       *)

\* Bytes asked of the stream buffer manager: the part, at least MinRequire,
\* behind the parts collected so far.
PartRequire(nLength) == IF nLength = 0 THEN MinRequire ELSE nLength

RequireSize_NoPartial(nLength) == PartRequire(nLength)

RequireSize(nLength) == PartRequire(nLength) + partialStreamDataInfo.nLength

\* The parser announces the next part.  A part that can never fit, with the
\* rest of its frame, into the ring is not modelled: its request would be
\* refused for ever.
Prefetch ==
    /\ demux = "idle"
    /\ \E p \in Part :
         /\ p.pData = NULL
         /\ RequireSize(p.nLength) + GuardBytes <= nStreamBufferSize
         /\ part' = p
    /\ demux' = "request"
    /\ UNCHANGED << sbmVars, partialStreamDataInfo, bCrashFlag >>

\* RequestVideoStreamBuffer grants space behind the collected parts.
RequestVideoStreamBuffer ==
    /\ demux = "request"
    /\ SbmRequestBuffer(RequireSize(part.nLength))
    /\ part' = [part EXCEPT !.pData =
                  Wrap(pWriteAddr + partialStreamDataInfo.nLength)]
    /\ demux' = "fill"
    /\ UNCHANGED << sbmVars, partialStreamDataInfo, bCrashFlag >>

RequestAfterCrash_NoReset ==
    /\ demux = "request" /\ bCrashFlag
    /\ ~SbmRequestBuffer(RequireSize(part.nLength))
    /\ UNCHANGED vars

\* VideoDecCompRequestStreamBuffer: no space and the decoder has crashed, so
\* the demux thread throws the streams away itself, and will ask again.
RequestAfterCrash ==
    /\ demux = "request" /\ bCrashFlag
    /\ ~SbmRequestBuffer(RequireSize(part.nLength))
    /\ SbmReset
    /\ partialStreamDataInfo' = ZeroInfo
    /\ UNCHANGED << part, demux, bCrashFlag >>

\* A message ends the wait for space.
AbandonRequest ==
    /\ demux = "request"
    /\ ~SbmRequestBuffer(RequireSize(part.nLength))
    /\ demux' = "idle" /\ part' = NoPart
    /\ UNCHANGED << sbmVars, partialStreamDataInfo, bCrashFlag >>

\* The parser fails to read the part into the space.
ReadFails ==
    /\ demux = "fill"
    /\ demux' = "idle" /\ part' = NoPart
    /\ UNCHANGED << sbmVars, partialStreamDataInfo, bCrashFlag >>

SubmitFirstPart_NoAdd ==
    /\ partialStreamDataInfo' = [pData |-> part.pData,
                                 nLength |-> part.nLength,
                                 nPts |-> part.nPts]
    /\ UNCHANGED sbmVars

\* The part starts a frame: an unfinished one before it is added as it is.
SubmitFirstPart ==
    /\ IF partialStreamDataInfo.nLength # 0
       THEN SbmAddStream(partialStreamDataInfo)
       ELSE UNCHANGED sbmVars
    /\ partialStreamDataInfo' = [pData |-> part.pData,
                                 nLength |-> part.nLength,
                                 nPts |-> part.nPts]

\* The part continues the frame.
SubmitNextPart ==
    /\ partialStreamDataInfo' =
         [pData |-> IF partialStreamDataInfo.pData = NULL
                    THEN part.pData ELSE partialStreamDataInfo.pData,
          nLength |-> partialStreamDataInfo.nLength + part.nLength,
          nPts |-> IF partialStreamDataInfo.nPts = -1
                   THEN part.nPts ELSE partialStreamDataInfo.nPts]
    /\ UNCHANGED sbmVars

\* VideoDecCompSubmitStreamData and SubmitVideoStreamData, up to the test for
\* the last part.  Data for a crashed decoder is dropped.
SubmitVideoStreamData ==
    /\ ~aborted /\ demux = "fill" /\ ~bCrashFlag
    /\ IF part.bIsFirstPart THEN SubmitFirstPart ELSE SubmitNextPart
    /\ demux' = IF part.bIsLastPart THEN "add" ELSE "idle"
    /\ part' = NoPart
    /\ UNCHANGED bCrashFlag

SubmitAfterCrash ==
    /\ demux = "fill" /\ bCrashFlag
    /\ demux' = "idle" /\ part' = NoPart
    /\ UNCHANGED << sbmVars, partialStreamDataInfo, bCrashFlag >>

\* The frame is complete.  The result of SbmAddStream is ignored.
AddFrame ==
    /\ ~aborted /\ demux = "add"
    /\ SbmAddStream(partialStreamDataInfo)
    /\ partialStreamDataInfo' = ClearedInfo
    /\ demux' = "idle"
    /\ UNCHANGED << part, bCrashFlag >>

-----------------------------------------------------------------------------
(* The decode thread.                                                      *)

EngineStep ==
    /\ ~bCrashFlag
    /\ SbmRequestStream \/ SbmReturnStream \/ SbmFlushStream
    /\ UNCHANGED inputVars

\* doDecode: DecodeVideoStream fails and the thread decodes no more.
DecoderCrash ==
    /\ ~bCrashFlag
    /\ bCrashFlag' = TRUE
    /\ UNCHANGED << sbmVars, partialStreamDataInfo, part, demux >>

\* handleReset and handleStop.
ResetVideoDecoder ==
    /\ demux = "idle"
    /\ SbmReset
    /\ partialStreamDataInfo' = ZeroInfo
    /\ UNCHANGED << part, demux, bCrashFlag >>

Next ==
    \/ Prefetch
    \/ RequestVideoStreamBuffer
    \/ RequestAfterCrash
    \/ AbandonRequest
    \/ ReadFails
    \/ SubmitVideoStreamData
    \/ SubmitAfterCrash
    \/ AddFrame
    \/ EngineStep
    \/ DecoderCrash
    \/ ResetVideoDecoder

Spec == Init /\ [][Next]_vars

(***************************************************************************)
(* Fairness.  The demux thread runs its loop, except that no message need  *)
(* come and the parser may be at the end of its file.  The engine takes    *)
(* frames while there are some and eventually consumes what it takes,      *)
(* although it may return a frame any number of times before; it needs     *)
(* picture buffers for that, which the frame buffer manager provides       *)
(* (Fbm!BuffersComeBack).                                                  *)
(***************************************************************************)
Fairness ==
    /\ WF_vars(RequestVideoStreamBuffer)
    /\ WF_vars(RequestAfterCrash)
    /\ WF_vars(SubmitVideoStreamData)
    /\ WF_vars(SubmitAfterCrash)
    /\ WF_vars(AddFrame)
    /\ WF_vars(~bCrashFlag /\ SbmRequestStream /\ UNCHANGED inputVars)
    /\ SF_vars(~bCrashFlag /\ SbmFlushStream /\ UNCHANGED inputVars)

FairSpec == Spec /\ Fairness

-----------------------------------------------------------------------------
(* Properties.                                                             *)

\* Type invariant of the input path.
TypeOK ==
    /\ SbmTypeOK
    /\ partialStreamDataInfo \in DataInfo
    /\ part \in Part
    /\ demux \in {"idle", "request", "fill", "add"}
    /\ bCrashFlag \in BOOLEAN

\* The bytes of a region of the ring.
Region(pData, nLength) == { Wrap(pData + i) : i \in 0 .. nLength - 1 }

FramesOnRing == { pFrames[Ahead(nFlushPos, i)] : i \in 0 .. nValidFrameNum - 1 }

\* The space the demux thread writes to holds no byte of a frame the engine
\* has not flushed and no byte of the parts collected before, through every
\* wrap of the ring, unfinished frames, refused frames and resets.
WritesDisjoint ==
    demux = "fill" =>
        LET granted == Region(part.pData, PartRequire(part.nLength))
        IN  /\ \A frame \in FramesOnRing :
                 granted \cap Region(frame.pData, frame.nLength) = {}
            /\ partialStreamDataInfo.nLength > 0 =>
                 granted \cap Region(partialStreamDataInfo.pData,
                                     partialStreamDataInfo.nLength) = {}

\* The frames lie on the ring one behind the other, and the collected parts
\* begin where the last frame ends: the address SubmitVideoStreamData was
\* given is the one SbmAddStream will move over.
RingLayout ==
    /\ \A i \in 0 .. nValidFrameNum - 1 :
         LET frame == pFrames[Ahead(nFlushPos, i)]
             end == Wrap(frame.pData + frame.nLength)
         IN  end = IF i = nValidFrameNum - 1
                   THEN pWriteAddr
                   ELSE pFrames[Ahead(nFlushPos, i + 1)].pData
    /\ partialStreamDataInfo.pData \in {NULL, pWriteAddr}

\* An unfinished frame, once its successor arrives, is always accepted: its
\* parts are not lost in SbmAddStream, whose result nobody looks at.
PartialAccepted ==
    demux = "fill" /\ partialStreamDataInfo.nLength # 0 =>
        SbmAddStreamAccepts(partialStreamDataInfo)

\* "otherwise the demux thread will blocked when video stream buffer is full":
\* a request for space is eventually granted or abandoned, with a live engine
\* and with a crashed one.
DemuxNotBlocked == demux = "request" ~> demux # "request"
=============================================================================
