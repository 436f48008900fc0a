----------------------------- MODULE SbmStream -----------------------------
(***************************************************************************)
(* The stream buffer manager of the decoder (vdecoder/sbm/sbmStream.c): a  *)
(* byte ring that the demux thread fills and a ring of frame descriptors   *)
(* that the codec engine reads.  Every operation runs under the mutex and  *)
(* is one step.  Addresses are offsets from pStreamBuffer.                 *)
(*                                                                         *)
(* The engine is closed code.  It keeps pointers to the descriptors it has *)
(* requested (held), flushes them oldest first and returns newest first;   *)
(* the manager checks that with abort().                                   *)
(***************************************************************************)
EXTENDS Integers, Sequences

CONSTANTS
    nStreamBufferSize,  \* bytes in the ring
    nMaxFrameNum,       \* descriptors in the ring (SBM_FRAME_FIFO_SIZE)
    GuardBytes,         \* bytes a request must leave free (64 in the code)
    Pts                 \* time stamps: -1 for none, 0 in cleared memory

ASSUME SbmAssumption ==
    /\ nStreamBufferSize \in Nat \ {0}
    /\ nMaxFrameNum \in Nat \ {0}
    /\ GuardBytes \in Nat
    /\ {-1, 0} \subseteq Pts

Addresses == 0 .. nStreamBufferSize - 1
NULL == -1
Slots == 0 .. nMaxFrameNum - 1

\* VideoStreamDataInfo.
DataInfo == [pData : Addresses \cup {NULL},
             nLength : 0 .. nStreamBufferSize,
             nPts : Pts]

ZeroInfo == [pData |-> NULL, nLength |-> 0, nPts |-> 0]

VARIABLES
    pWriteAddr, nValidDataSize,
    pFrames, nReadPos, nWritePos, nFlushPos, nValidFrameNum, nUnReadFrameNum,
    held,     \* slots the engine points to, in the order it requested them
    aborted   \* the manager called abort()

posVars == << nReadPos, nWritePos, nFlushPos >>
numVars == << nValidFrameNum, nUnReadFrameNum >>
sbmVars == << pWriteAddr, nValidDataSize, pFrames, posVars, numVars, held,
              aborted >>

-----------------------------------------------------------------------------
(* Definitions whose names end in _No... are faulty variants: a slip in    *)
(* the code that a property must detect.                                   *)

NextPos_NoWrap(pos) == pos + 1

NextPos(pos) == IF pos + 1 >= nMaxFrameNum THEN 0 ELSE pos + 1

PrevPos_NoWrap(pos) == IF pos - 1 < 0 THEN 0 ELSE pos - 1

PrevPos(pos) == IF pos - 1 < 0 THEN nMaxFrameNum - 1 ELSE pos - 1

\* SbmStreamInit.
SbmInit ==
    /\ pWriteAddr = 0 /\ nValidDataSize = 0
    /\ pFrames = [i \in Slots |-> ZeroInfo]
    /\ nReadPos = 0 /\ nWritePos = 0 /\ nFlushPos = 0
    /\ nValidFrameNum = 0 /\ nUnReadFrameNum = 0
    /\ held = << >> /\ aborted = FALSE

SbmRequestBuffer_NoFrameCheck(nRequireSize) ==
    nRequireSize + GuardBytes <= nStreamBufferSize - nValidDataSize

\* SbmStreamRequestBuffer succeeds and grants nRequireSize bytes at pWriteAddr.
SbmRequestBuffer(nRequireSize) ==
    /\ nValidFrameNum < nMaxFrameNum
    /\ nValidDataSize < nStreamBufferSize
    /\ nRequireSize + GuardBytes <= nStreamBufferSize - nValidDataSize

SbmAddStreamAccepts(info) ==
    /\ info.pData # NULL
    /\ nValidFrameNum < nMaxFrameNum
    /\ info.nLength + nValidDataSize <= nStreamBufferSize

SbmAddStream(info) ==
    IF SbmAddStreamAccepts(info)
    THEN /\ pFrames' = [pFrames EXCEPT ![nWritePos] = info]
         /\ nWritePos' = NextPos(nWritePos)
         /\ nValidFrameNum' = nValidFrameNum + 1
         /\ nUnReadFrameNum' = nUnReadFrameNum + 1
         /\ nValidDataSize' = nValidDataSize + info.nLength
         /\ pWriteAddr' = IF pWriteAddr + info.nLength > nStreamBufferSize - 1
                          THEN pWriteAddr + info.nLength - nStreamBufferSize
                          ELSE pWriteAddr + info.nLength
         /\ UNCHANGED << nReadPos, nFlushPos, held, aborted >>
    ELSE UNCHANGED sbmVars

SbmRequestStream ==
    /\ ~aborted /\ nUnReadFrameNum # 0
    /\ held' = Append(held, nReadPos)
    /\ nReadPos' = NextPos(nReadPos)
    /\ nUnReadFrameNum' = nUnReadFrameNum - 1
    /\ UNCHANGED << pWriteAddr, nValidDataSize, pFrames, nWritePos,
                    nFlushPos, nValidFrameNum, aborted >>

\* The engine returns the frame it requested last.
SbmReturnStream ==
    /\ ~aborted /\ held # << >>
    /\ held' = SubSeq(held, 1, Len(held) - 1)
    /\ IF nValidFrameNum = 0
       THEN UNCHANGED << nReadPos, nUnReadFrameNum, aborted >>
       ELSE /\ nUnReadFrameNum' = nUnReadFrameNum + 1
            /\ IF held[Len(held)] # PrevPos(nReadPos)
               THEN aborted' = TRUE /\ UNCHANGED nReadPos
               ELSE nReadPos' = PrevPos(nReadPos) /\ UNCHANGED aborted
    /\ UNCHANGED << pWriteAddr, nValidDataSize, pFrames, nWritePos,
                    nFlushPos, nValidFrameNum >>

\* The engine has decoded the oldest frame it requested.
SbmFlushStream ==
    /\ ~aborted /\ held # << >>
    /\ held' = Tail(held)
    /\ IF nValidFrameNum = 0
       THEN UNCHANGED << nFlushPos, nValidFrameNum, nValidDataSize, aborted >>
       ELSE IF Head(held) # nFlushPos
       THEN /\ aborted' = TRUE
            /\ UNCHANGED << nFlushPos, nValidFrameNum, nValidDataSize >>
       ELSE /\ nFlushPos' = NextPos(nFlushPos)
            /\ nValidFrameNum' = nValidFrameNum - 1
            /\ nValidDataSize' = nValidDataSize - pFrames[nFlushPos].nLength
            /\ UNCHANGED aborted
    /\ UNCHANGED << pWriteAddr, pFrames, nReadPos, nWritePos,
                    nUnReadFrameNum >>

SbmReset_NoDataSize ==
    /\ ~aborted
    /\ held' = << >>
    /\ nReadPos' = 0 /\ nWritePos' = 0 /\ nFlushPos' = 0
    /\ nValidFrameNum' = 0 /\ nUnReadFrameNum' = 0
    /\ UNCHANGED << pWriteAddr, nValidDataSize, pFrames, aborted >>

SbmReset_NoWritePos ==
    /\ ~aborted
    /\ held' = << >>
    /\ nValidDataSize' = 0
    /\ nReadPos' = 0 /\ nFlushPos' = 0
    /\ nValidFrameNum' = 0 /\ nUnReadFrameNum' = 0
    /\ UNCHANGED << pWriteAddr, pFrames, nWritePos, aborted >>

\* ResetVideoDecoder: VideoEngineReset makes the engine forget its frames and
\* SbmStreamReset empties the rings.  pWriteAddr is never NULL and is kept.
SbmReset ==
    /\ ~aborted
    /\ held' = << >>
    /\ nValidDataSize' = 0
    /\ nReadPos' = 0 /\ nWritePos' = 0 /\ nFlushPos' = 0
    /\ nValidFrameNum' = 0 /\ nUnReadFrameNum' = 0
    /\ UNCHANGED << pWriteAddr, pFrames, aborted >>

\* The manager on its own: any frame may be added at any time.
SbmNext ==
    \/ ~aborted /\ \E info \in DataInfo : SbmAddStream(info)
    \/ SbmRequestStream
    \/ SbmReturnStream
    \/ SbmFlushStream
    \/ SbmReset

SbmSpec == SbmInit /\ [][SbmNext]_sbmVars

-----------------------------------------------------------------------------
(* Properties.                                                             *)

\* Type invariant of the stream buffer manager.
SbmTypeOK ==
    /\ pWriteAddr \in Addresses
    /\ nValidDataSize \in Int
    /\ pFrames \in [Slots -> DataInfo]
    /\ nReadPos \in Slots /\ nWritePos \in Slots /\ nFlushPos \in Slots
    /\ nValidFrameNum \in 0 .. nMaxFrameNum
    /\ nUnReadFrameNum \in 0 .. nMaxFrameNum
    /\ held \in Seq(Slots)
    /\ aborted \in BOOLEAN

\* The slot n places after pos in the ring.
Ahead(pos, n) ==
    IF pos + n >= nMaxFrameNum THEN pos + n - nMaxFrameNum ELSE pos + n

\* The frames between nFlushPos and nReadPos, which the engine holds, and
\* those from nReadPos on, which it has not requested.
Taken == [i \in 1 .. nValidFrameNum - nUnReadFrameNum |->
            pFrames[Ahead(nFlushPos, i - 1)]]

Waiting == [i \in 1 .. nUnReadFrameNum |-> pFrames[Ahead(nReadPos, i - 1)]]

Fifo == INSTANCE SbmFifo WITH Frame <- DataInfo, Capacity <- nMaxFrameNum,
                              taken <- Taken, waiting <- Waiting

\* "The stream data obeys FIFO rule", "After returned, the stream data's
\* sequence is the same as before", "After flushed, the buffer can be used to
\* store new stream": the two rings implement the abstract queue.
ImplementsFifo == Fifo!Spec

\* An engine that flushes in order and returns in reverse order never runs
\* into the abort() calls: positions and counts agree with its pointers through
\* every wrap of the ring.
NeverAborts == ~aborted

\* Bytes that the first n frames on the ring occupy.
FrameSums[n \in 0 .. nMaxFrameNum] ==
    IF n = 0 THEN 0
    ELSE FrameSums[n - 1] + pFrames[Ahead(nFlushPos, n - 1)].nLength

\* nValidDataSize is the sum of the lengths of the frames on the ring and
\* never exceeds the buffer, through flushes and resets.
DataSizeExact ==
    /\ nValidDataSize = FrameSums[nValidFrameNum]
    /\ nValidDataSize <= nStreamBufferSize
=============================================================================
