---------------------------- MODULE VideoEncoder ----------------------------
(***************************************************************************)
(* The buffers of the video encoder (libcedarc vencoder): the nodes that   *)
(* carry pictures to the encoder and back (FrameBufferManager.c), the      *)
(* picture buffers it allocates for the caller, and the ring of encoded    *)
(* frames (BitstreamManager.c).  Each operator is one critical section of  *)
(* the code; Recorder.tla says which thread runs it and when.              *)
(*                                                                         *)
(* added_buff_num is left out: only VideoEncoderGetUnencodedBufferNum      *)
(* reads it and nothing in the repository calls that.                      *)
(***************************************************************************)
EXTENDS Integers, Sequences, FiniteSets

CONSTANTS
    nFrameBufferNum,    \* nodes of the pool (FRAME_BUFFER_NUM)
    nBufferNum,         \* picture buffers, of the encoder or of the caller
    nStreamBufferSize,  \* bytes of the ring of encoded frames
    nMaxFrameNum,       \* encoded frames it can list
    AlignBytes,         \* what a frame's length is rounded up to (64)
    StreamLengths       \* lengths an encoded frame may have

ASSUME RingAssumption ==
    /\ {nFrameBufferNum, nBufferNum, nStreamBufferSize, nMaxFrameNum, AlignBytes}
           \subseteq Nat \ {0}
    /\ StreamLengths \subseteq 1 .. nStreamBufferSize
    /\ nStreamBufferSize % AlignBytes = 0

VARIABLES
    fbm,    \* the queues of nodes, the buffer each carries, the free buffers
    bs      \* the ring of encoded frames

Buffer == 1 .. nBufferNum
NoBuffer == 0
Slot == 0 .. nMaxFrameNum - 1

\* Nodes are alike: the empty ones are counted, a queued one is the buffer it
\* carries.
FrameBufferManagerCreate(ownsBuffers) ==
    [empty |-> nFrameBufferNum, input |-> << >>, used |-> << >>,
     allocated |-> IF ownsBuffers THEN [i \in Buffer |-> i] ELSE << >>]

BitStreamCreate ==
    [nWriteOffset |-> 0, nValidDataSize |-> 0, nValidFrameNum |-> 0,
     nUnReadFrameNum |-> 0, nReadPos |-> 0, nWritePos |-> 0,
     infos |-> [s \in Slot |-> [nStreamOffset |-> 0, nStreamLength |-> 0]]]

-----------------------------------------------------------------------------
(* Nodes and picture buffers.                                               *)

(* Definitions whose names end in _Dropped, _Down and the like are faulty   *)
(* variants: a slip in the code that a property must detect.                *)

HeadOf(queue) == IF queue = << >> THEN NoBuffer ELSE Head(queue)
Rest(queue) == IF queue = << >> THEN << >> ELSE Tail(queue)

\* AddInputBuffer and GetUsedInputBuffer take a node in one critical section
\* and queue it again in another.
TakeEmpty == fbm' = [fbm EXCEPT !.empty = @ - 1]

AddInput(buffer) == fbm' = [fbm EXCEPT !.input = Append(@, buffer)]

TakeUsed == fbm' = [fbm EXCEPT !.used = Rest(@)]

ReturnNode_Dropped == UNCHANGED fbm
ReturnNode == fbm' = [fbm EXCEPT !.empty = @ + 1]

\* AddUsedInputBuffer: the first input node, if it carries the buffer that was
\* encoded; another one would be lost.
AddUsedInputBuffer(buffer) ==
    fbm' = [fbm EXCEPT !.input = Rest(@),
                       !.used = IF HeadOf(fbm.input) = buffer THEN Append(@, buffer) ELSE @]

GetOneAllocateInputBuffer == fbm' = [fbm EXCEPT !.allocated = Rest(@)]

ReturnOneAllocateInputBuffer_Dropped(buffer) == UNCHANGED fbm
ReturnOneAllocateInputBuffer(buffer) ==
    fbm' = [fbm EXCEPT !.allocated = Append(@, buffer)]

-----------------------------------------------------------------------------
(* The ring of encoded frames.                                              *)

\* ALIGN_64B
Aligned_Down(length) == (length \div AlignBytes) * AlignBytes
Aligned(length) == ((length + AlignBytes - 1) \div AlignBytes) * AlignBytes

NextSlot(slot) == (slot + 1) % nMaxFrameNum

\* What BitStreamAddOneBitstream accepts: the length itself is compared, the
\* rounded length is what it takes.
HasRoom(length) ==
    /\ bs.nValidFrameNum < nMaxFrameNum
    /\ length <= nStreamBufferSize - bs.nValidDataSize

BitStreamAddOneBitstream(length) ==
    bs' = [bs EXCEPT
             !.infos[bs.nWritePos] = [nStreamOffset |-> bs.nWriteOffset,
                                      nStreamLength |-> length],
             !.nWritePos = NextSlot(@),
             !.nValidFrameNum = @ + 1,
             !.nUnReadFrameNum = @ + 1,
             !.nValidDataSize = @ + Aligned(length),
             !.nWriteOffset = (@ + Aligned(length)) % nStreamBufferSize]

BitStreamGetOneBitstream_StillUnread == bs' = [bs EXCEPT !.nReadPos = NextSlot(@)]

BitStreamGetOneBitstream ==
    bs' = [bs EXCEPT !.nReadPos = NextSlot(@), !.nUnReadFrameNum = @ - 1]

BitStreamReturnOneBitstream(slot) ==
    bs' = IF bs.nValidFrameNum = 0 THEN bs
          ELSE [bs EXCEPT !.nValidFrameNum = @ - 1,
                          !.nValidDataSize = @ - Aligned(bs.infos[slot].nStreamLength)]

-----------------------------------------------------------------------------
(* Used by the properties.                                                  *)

ValidSlots ==
    { (bs.nWritePos - k) % nMaxFrameNum : k \in 1 .. bs.nValidFrameNum }

BytesOf(slot) ==
    { (bs.infos[slot].nStreamOffset + i) % nStreamBufferSize :
          i \in 0 .. bs.infos[slot].nStreamLength - 1 }

BuffersIn(queue) == { queue[i] : i \in DOMAIN queue }
=============================================================================
