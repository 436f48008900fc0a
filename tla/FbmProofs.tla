----------------------------- MODULE FbmProofs -----------------------------
(***************************************************************************)
(* Proofs about the frame buffer manager, for every number of frames, in   *)
(* both buffer modes and for an engine that shares pictures or not.  One   *)
(* inductive invariant IInv says, for each frame, which combinations of    *)
(* flags, queues, tag and holders can occur.  A second one on top of it,   *)
(* PoolInv, says where every frame of the pool is, and what the counters   *)
(* say about it.                                                           *)
(***************************************************************************)
EXTENDS Fbm, FiniteSetTheorems, TLAPS

-----------------------------------------------------------------------------
(* Queues.                                                                 *)

\* What FbmEnqueue does to a list: it stays a list of frames, gains the frame
\* when the path is taken, and keeps its nodes distinct if it was not there.
LEMMA EnqueueLemma ==
    ASSUME NEW S, NEW q \in Seq(S), NEW f \in S, NEW taken \in BOOLEAN
    PROVE  /\ FbmEnqueue(q, f, taken) \in Seq(S)
           /\ \A g : InQueue(FbmEnqueue(q, f, taken), g)
                       <=> InQueue(q, g) \/ (taken /\ g = f)
           /\ NoRepeat(q) /\ (taken => ~InQueue(q, f))
                => NoRepeat(FbmEnqueue(q, f, taken))
<1>1. CASE ~taken
  BY <1>1 DEF FbmEnqueue
<1>2. CASE taken
  <2> DEFINE r == Append(q, f)
  <2>1. r \in Seq(S) /\ Len(r) = Len(q) + 1 /\ r[Len(q) + 1] = f
        /\ \A i \in 1 .. Len(q) : r[i] = q[i]
    OBVIOUS
  <2>2. Len(q) \in Nat
    OBVIOUS
  <2>3. ASSUME NEW g PROVE InQueue(r, g) <=> InQueue(q, g) \/ g = f
    BY <2>1, <2>2 DEF InQueue
  <2>4. ASSUME NoRepeat(q), ~InQueue(q, f) PROVE NoRepeat(r)
    BY <2>1, <2>2, <2>4 DEF NoRepeat, InQueue
  <2> QED BY <1>2, <2>1, <2>3, <2>4 DEF FbmEnqueue
<1> QED BY <1>1, <1>2

\* What FbmDequeue does to a list of distinct nodes: exactly its head leaves.
LEMMA DequeueLemma ==
    ASSUME NEW S, NEW q \in Seq(S), q # << >>, NoRepeat(q)
    PROVE  /\ FbmDequeue(q) \in Seq(S) /\ Head(q) \in S
           /\ InQueue(q, Head(q))
           /\ NoRepeat(FbmDequeue(q))
           /\ \A g : InQueue(FbmDequeue(q), g) <=> InQueue(q, g) /\ g # Head(q)
<1> DEFINE t == Tail(q)
<1>1. Len(q) \in Nat /\ Len(q) > 0 /\ t \in Seq(S) /\ Len(t) = Len(q) - 1
      /\ Head(q) = q[1] /\ \A i \in 1 .. Len(t) : t[i] = q[i + 1]
  OBVIOUS
<1>2. Head(q) \in S /\ InQueue(q, Head(q))
  BY <1>1 DEF InQueue
<1>3. NoRepeat(t)
  BY <1>1 DEF NoRepeat
<1>4. ASSUME NEW g PROVE InQueue(t, g) <=> InQueue(q, g) /\ g # Head(q)
  <2>1. ASSUME InQueue(t, g) PROVE InQueue(q, g) /\ g # Head(q)
    BY <1>1, <2>1 DEF InQueue, NoRepeat
  <2>2. ASSUME InQueue(q, g), g # Head(q) PROVE InQueue(t, g)
    <3>1. PICK i \in 1 .. Len(q) : q[i] = g
      BY <2>2 DEF InQueue
    <3>2. i - 1 \in 1 .. Len(t) /\ t[i - 1] = g
      BY <1>1, <2>2, <3>1
    <3> QED BY <3>2 DEF InQueue
  <2> QED BY <2>1, <2>2
<1> QED BY <1>1, <1>2, <1>3, <1>4 DEF FbmDequeue

\* The two queues a locked section can start from.
LEMMA InitialQueues ==
    /\ << >> \in Seq(Frames) /\ NoRepeat(<< >>)
    /\ \A f : ~InQueue(<< >>, f)
    /\ [i \in 1 .. nFrameNum |-> i - 1] \in Seq(Frames)
    /\ NoRepeat([i \in 1 .. nFrameNum |-> i - 1])
<1> DEFINE all == [i \in 1 .. nFrameNum |-> i - 1]
<1>1. nFrameNum \in Nat
  BY FbmAssumption
<1>2. all \in Seq(Frames) /\ Len(all) = nFrameNum
  BY <1>1 DEF Frames
<1>3. NoRepeat(all)
  BY <1>1, <1>2 DEF NoRepeat
<1>4. << >> \in Seq(Frames) /\ Len(<< >>) = 0
  OBVIOUS
<1>5. NoRepeat(<< >>) /\ \A f : ~InQueue(<< >>, f)
  BY <1>4 DEF NoRepeat, InQueue
<1> QED BY <1>2, <1>3, <1>4, <1>5

-----------------------------------------------------------------------------
(* The inductive invariant.                                                *)

InAnyQueue(f) ==
    \/ InQueue(pEmptyBufferQueue, f) \/ InQueue(pValidPictureQueue, f)
    \/ InQueue(pReleaseBufferQueue, f)

\* What the flags, the tag, the queues and the holders of one frame say about
\* each other.
FrameInv(f) ==
    /\ f \in bUsedByDecoder <=> f \in decHeld
    /\ InQueue(pValidPictureQueue, f) <=> f \in bInValidPictureQueue
    /\ f \in bInValidPictureQueue =>
         f \notin bUsedByRender /\ f \notin bAlreadyDisplayed
                                /\ f \notin renHeld
    /\ f \in bAlreadyDisplayed => f \in decHeld /\ f \notin bUsedByRender
    /\ InQueue(pEmptyBufferQueue, f) => f \notin decHeld /\ f \notin renHeld
    /\ InQueue(pReleaseBufferQueue, f) =>
         f \notin decHeld /\ f \in bNeedRelease
    /\ f \in decHeld => nID[f] = "index"
    /\ nID[f] # "index" => ~InAnyQueue(f)
    /\ nID[f] = "release" => f \notin renHeld
    /\ f \in renHeld /\ nID[f] = "index" => f \in bUsedByRender
    /\ f \in shared => f \in decHeld
    /\ f = sharing => f \in shared
    /\ (f \in decHeld /\ f \notin shared) \/ f = sharing =>
         /\ f \in decHeld /\ f \notin bUsedByRender
         /\ f \notin bInValidPictureQueue /\ f \notin bAlreadyDisplayed
    /\ f >= nValidBufNum =>
         /\ ~InAnyQueue(f) /\ f \notin decHeld /\ f \notin renHeld
         /\ nID[f] = "index"
    /\ offered[f] <= 1
    /\ f \in decHeld /\ f \notin bInValidPictureQueue /\ f \notin bUsedByRender
         /\ f \notin bAlreadyDisplayed => offered[f] = 0
    /\ ~bUseGpuBuf => f \notin bNeedRelease
    /\ relPc \in {"flush", "release"} =>
         f \notin renHeld /\ (f < nValidBufNum => f \in bNeedRelease)

\* Without display buffers the pool is full and its window machinery rests.
OwnPool ==
    relPc = "idle" /\ nGpuBufferNum = 0 /\ nValidBufNum = nFrameNum

IInv ==
    /\ TypeOK
    /\ ListIntegrity
    /\ \A f \in Frames : FrameInv(f)
    /\ mutex \in {"flush", "release"} => relPc \in {"flush", "release"}
    /\ bUseGpuBuf \/ OwnPool

-----------------------------------------------------------------------------
(* Every step keeps the invariant: one lemma per kind of step.             *)

\* FbmCreateBuffer establishes the invariant, with and without display buffers.
LEMMA InitIInv == Init => IInv
<1> SUFFICES ASSUME Init PROVE IInv
  OBVIOUS
<1> USE FbmAssumption
<1>1. TypeOK
  <2>1. pEmptyBufferQueue \in Seq(Frames) /\ pValidPictureQueue \in Seq(Frames)
        /\ pReleaseBufferQueue \in Seq(Frames)
    BY InitialQueues DEF Init, InitialEmptyQueue
  <2>2. nEmptyBufferNum \in Int /\ nValidBufNum \in 0 .. nFrameNum
    BY DEF Init
  <2>3. nID \in [Frames -> {"index", "forbid", "release"}]
        /\ offered \in [Frames -> Nat]
    BY DEF Init
  <2>4. nNeedReleaseBufferNum \in Int /\ releases \in Nat
    BY DEF Init
  <2>5. bHadRequestReleasePicFlag \in BOOLEAN
        /\ bHadSetBufferToDecoderFlag \in BOOLEAN
        /\ bResetBufToDecoderFlag \in BOOLEAN
    BY DEF Init
  <2> QED BY <2>1, <2>2, <2>3, <2>4, <2>5 DEF Init, TypeOK, Flags
<1>2. ListIntegrity
  BY InitialQueues DEF Init, InitialEmptyQueue, ListIntegrity, Disjoint
<1>3. ASSUME NEW f \in Frames PROVE FrameInv(f)
  <2>1. bUseGpuBuf => ~InAnyQueue(f)
    BY InitialQueues DEF Init, InitialEmptyQueue, InAnyQueue
  <2>2. ~InQueue(pValidPictureQueue, f) /\ ~InQueue(pReleaseBufferQueue, f)
    BY InitialQueues DEF Init
  <2> QED BY <2>1, <2>2 DEF Init, FrameInv, Frames, NoFrame
<1> QED BY <1>1, <1>2, <1>3 DEF IInv, Init, OwnPool

\* FbmRequestBuffer keeps it: a frame handed out leaves every list.
LEMMA RequestBufferIInv == IInv /\ FbmRequestBuffer => IInv'
<1> SUFFICES ASSUME IInv, FbmRequestBuffer PROVE IInv'
  OBVIOUS
<1> USE FbmAssumption
<1> DEFINE h == Head(pEmptyBufferQueue)
<1>1. /\ pEmptyBufferQueue' \in Seq(Frames) /\ h \in Frames
      /\ InQueue(pEmptyBufferQueue, h) /\ NoRepeat(pEmptyBufferQueue')
      /\ \A g : InQueue(pEmptyBufferQueue', g)
                  <=> InQueue(pEmptyBufferQueue, g) /\ g # h
  BY DequeueLemma DEF IInv, TypeOK, ListIntegrity, FbmRequestBuffer
<1>2. TypeOK'
  BY <1>1 DEF IInv, TypeOK, Flags, FbmRequestBuffer, Set, Inc, Dec, renderVars,
     setVars, resetVars
<1>3. ListIntegrity'
  BY <1>1 DEF IInv, ListIntegrity, Disjoint, FbmRequestBuffer
<1>4. ASSUME NEW g \in Frames PROVE FrameInv(g)'
  <2>1. FrameInv(g) /\ FrameInv(h)
    BY <1>1 DEF IInv
  <2> DEFINE ok == h \notin bUsedByDecoder \cup bInValidPictureQueue
                             \cup bUsedByRender \cup bAlreadyDisplayed
  <2>2. CASE ~ok
    BY <1>1, <2>1, <2>2 DEF IInv, TypeOK, FrameInv, InAnyQueue, FbmRequestBuffer, DecoderReady, Set, renderVars
  <2>3. CASE ok /\ g # h
    BY <1>1, <2>1, <2>3 DEF IInv, TypeOK, FrameInv, InAnyQueue, FbmRequestBuffer, DecoderReady, Set, renderVars
  <2>4. CASE ok /\ g = h
    <3>1. ~InQueue(pReleaseBufferQueue, h) /\ ~InQueue(pValidPictureQueue, h)
      BY <1>1 DEF IInv, ListIntegrity, Disjoint
    <3> QED BY <1>1, <2>1, <2>4, <3>1 DEF IInv, TypeOK, FrameInv, InAnyQueue, FbmRequestBuffer, DecoderReady, Set, renderVars
  <2> QED BY <2>2, <2>3, <2>4
<1> QED BY <1>2, <1>3, <1>4 DEF IInv, FbmRequestBuffer, renderVars, OwnPool, setVars

\* FbmReturnBuffer keeps it: the frame goes to one list, or to none.
LEMMA ReturnBufferIInv ==
    ASSUME IInv, NEW f \in Frames, NEW v \in BOOLEAN, FbmReturnBuffer(f, v)
    PROVE  IInv'
<1> USE FbmAssumption
<1> DEFINE queued == f \in bInValidPictureQueue
           displayed == f \in bAlreadyDisplayed
           toRelease == f \in bNeedRelease /\ ~queued
           unused == ~toRelease /\ ~queued /\ f \notin bUsedByRender
           toEmpty == unused /\ (displayed \/ ~v)
           toValid == unused /\ ~displayed /\ v
<1>1. FrameInv(f) /\ f \in decHeld /\ f \in bUsedByDecoder /\ nID[f] = "index"
      /\ ~(queued /\ f \in bUsedByRender \cup bAlreadyDisplayed)
  BY DEF IInv, FrameInv, FbmReturnBuffer
<1>2. /\ bUsedByDecoder' = bUsedByDecoder \ {f}
      /\ bAlreadyDisplayed' =
           Clear(bAlreadyDisplayed, f, toRelease \/ (unused /\ displayed))
      /\ bInValidPictureQueue' = Set(bInValidPictureQueue, f, toValid)
      /\ pReleaseBufferQueue' = FbmEnqueue(pReleaseBufferQueue, f, toRelease)
      /\ pEmptyBufferQueue' = FbmEnqueue(pEmptyBufferQueue, f, toEmpty)
      /\ pValidPictureQueue' = FbmEnqueue(pValidPictureQueue, f, toValid)
      /\ offered' = [offered EXCEPT ![f] = Inc(@, toValid)]
      /\ nReleaseBufferNum' = Inc(nReleaseBufferNum, toRelease)
      /\ nEmptyBufferNum' = Inc(nEmptyBufferNum, toEmpty)
      /\ nValidPictureNum' = Inc(nValidPictureNum, toValid)
      /\ nDecoderHoldingNum' = Dec(nDecoderHoldingNum, ~toRelease)
  BY <1>1 DEF FbmReturnBuffer, Clear
<1>3. /\ decHeld' = decHeld \ {f} /\ shared' = shared \ {f}
      /\ sharing = NoFrame
      /\ UNCHANGED << bUsedByRender, bNeedRelease, nID, nRenderHoldingNum,
                      nValidBufNum, mutex, sharing, renHeld, relPc,
                      setVars, resetVars, releases >>
  BY DEF FbmReturnBuffer, renderVars, DecoderReady
<1> HIDE DEF toRelease, unused, toEmpty, toValid
<1>4. toRelease \in BOOLEAN /\ toEmpty \in BOOLEAN /\ toValid \in BOOLEAN
  BY DEF toRelease, toEmpty, toValid
<1>5. ~InQueue(pEmptyBufferQueue, f) /\ ~InQueue(pReleaseBufferQueue, f)
      /\ (toRelease \/ toEmpty \/ toValid => ~InQueue(pValidPictureQueue, f))
  BY <1>1 DEF FrameInv, toRelease, unused, toEmpty, toValid
<1>6. /\ pEmptyBufferQueue' \in Seq(Frames) /\ NoRepeat(pEmptyBufferQueue')
      /\ \A g : InQueue(pEmptyBufferQueue', g)
                  <=> InQueue(pEmptyBufferQueue, g) \/ (toEmpty /\ g = f)
  BY ZenonT(60), <1>2, <1>4, <1>5, EnqueueLemma DEF IInv, TypeOK, ListIntegrity
<1>7. /\ pValidPictureQueue' \in Seq(Frames) /\ NoRepeat(pValidPictureQueue')
      /\ \A g : InQueue(pValidPictureQueue', g)
                  <=> InQueue(pValidPictureQueue, g) \/ (toValid /\ g = f)
  BY ZenonT(60), <1>2, <1>4, <1>5, EnqueueLemma DEF IInv, TypeOK, ListIntegrity
<1>8. /\ pReleaseBufferQueue' \in Seq(Frames) /\ NoRepeat(pReleaseBufferQueue')
      /\ \A g : InQueue(pReleaseBufferQueue', g)
                  <=> InQueue(pReleaseBufferQueue, g) \/ (toRelease /\ g = f)
  BY ZenonT(60), <1>2, <1>4, <1>5, EnqueueLemma DEF IInv, TypeOK, ListIntegrity
<1>9. TypeOK'
  BY <1>2, <1>3, <1>6, <1>7, <1>8
  DEF IInv, TypeOK, Flags, Set, Clear, Inc, Dec, setVars,
      resetVars
<1>10. ListIntegrity'
  <2>1. ~(toEmpty /\ toValid) /\ ~(toEmpty /\ toRelease) /\ ~(toValid /\ toRelease)
    BY DEF toRelease, unused, toEmpty, toValid
  <2> QED BY <1>5, <1>6, <1>7, <1>8, <2>1 DEF IInv, ListIntegrity, Disjoint
<1>11. ASSUME NEW g \in Frames PROVE FrameInv(g)'
  <2>1. FrameInv(g)
    BY DEF IInv
  <2>2. CASE g # f
    BY SMTT(30), <1>2, <1>3, <1>6, <1>7, <1>8, <2>1, <2>2
    DEF IInv, TypeOK, FrameInv, InAnyQueue, Set, Clear
  <2>3. CASE g = f
    <3>1. g # sharing
      BY <1>3 DEF NoFrame, Frames
    <3>2. offered'[g] <= 1
      BY <1>1, <1>2, <2>3 DEF IInv, TypeOK, FrameInv, Inc, toValid, unused
    <3> QED
      BY <1>1, <1>2, <1>3, <1>5, <1>6, <1>7, <1>8, <2>3, <3>1, <3>2
      DEF FrameInv, InAnyQueue, Set, Clear, toRelease, unused, toEmpty, toValid
  <2> QED BY <2>2, <2>3
<1> QED BY <1>3, <1>9, <1>10, <1>11 DEF IInv, OwnPool, setVars

\* FbmShareBuffer keeps it, although its check runs outside the lock.
LEMMA ShareIInv ==
    ASSUME IInv,
           (\E f \in Frames : FbmShareBufferCheck(f)) \/ FbmShareBuffer
    PROVE  IInv'
<1> USE FbmAssumption
<1>1. ASSUME NEW f \in Frames, FbmShareBufferCheck(f) PROVE IInv'
  <2>1. TypeOK' /\ ListIntegrity'
    BY <1>1 DEF IInv, TypeOK, ListIntegrity, Disjoint, Flags,
       FbmShareBufferCheck, flagVars, queueVars, holdVars, renderVars,
       setVars, resetVars
  <2>2. ASSUME NEW g \in Frames PROVE FrameInv(g)'
    <3>1. FrameInv(g) /\ FrameInv(f) /\ f # NoFrame /\ g # NoFrame
      BY DEF IInv, NoFrame, Frames
    <3> QED BY <1>1, <3>1
        DEF FrameInv, InAnyQueue, FbmShareBufferCheck, flagVars, queueVars,
            holdVars, renderVars
  <2> QED BY <1>1, <2>1, <2>2 DEF IInv, FbmShareBufferCheck, renderVars, OwnPool,
      setVars
<1>2. CASE FbmShareBuffer
  <2> DEFINE f == sharing
  <2>1. /\ FrameInv(f) /\ f \in Frames
        /\ f \in bUsedByDecoder /\ f \in decHeld /\ f \notin bUsedByRender
        /\ f \notin bInValidPictureQueue /\ f \notin bAlreadyDisplayed
        /\ f \notin renHeld
    <3>1. f \in Frames
      BY <1>2 DEF FbmShareBuffer, IInv, TypeOK
    <3> QED BY <3>1 DEF IInv, FrameInv
  <2>2. /\ bInValidPictureQueue' = bInValidPictureQueue \cup {f}
        /\ pValidPictureQueue' = FbmEnqueue(pValidPictureQueue, f, TRUE)
        /\ nValidPictureNum' = nValidPictureNum + 1
        /\ offered' = [offered EXCEPT ![f] = @ + 1]
        /\ sharing' = NoFrame
    BY <1>2, <2>1 DEF FbmShareBuffer, Set, Inc, FbmEnqueue
  <2>3. UNCHANGED << bUsedByDecoder, bUsedByRender, bAlreadyDisplayed,
                     bNeedRelease, nID, pEmptyBufferQueue,
                     pReleaseBufferQueue, nEmptyBufferNum, nReleaseBufferNum,
                     nDecoderHoldingNum, nRenderHoldingNum, nValidBufNum,
                     mutex, decHeld, shared, renHeld, relPc,
                     setVars, resetVars, releases >>
    BY <1>2 DEF FbmShareBuffer, holdVars, renderVars
  <2>4. ~InQueue(pEmptyBufferQueue, f) /\ ~InQueue(pReleaseBufferQueue, f)
        /\ ~InQueue(pValidPictureQueue, f)
    BY <2>1 DEF FrameInv
  <2>5. /\ pValidPictureQueue' \in Seq(Frames) /\ NoRepeat(pValidPictureQueue')
        /\ \A g : InQueue(pValidPictureQueue', g)
                    <=> InQueue(pValidPictureQueue, g) \/ g = f
    <3>1. pValidPictureQueue \in Seq(Frames) /\ NoRepeat(pValidPictureQueue)
      BY DEF IInv, TypeOK, ListIntegrity
    <3>2. TRUE \in BOOLEAN
      OBVIOUS
    <3> QED BY ZenonT(60), <2>1, <2>2, <2>4, <3>1, <3>2, EnqueueLemma
  <2>6. TypeOK'
    <3>0. offered' \in [Frames -> Nat]
      BY <2>1, <2>2 DEF IInv, TypeOK
    <3>1. bInValidPictureQueue' \in Flags
      BY <2>1, <2>2 DEF IInv, TypeOK, Flags
    <3>2. nValidPictureNum' \in Int /\ sharing' \in Frames \cup {NoFrame}
      BY <2>2 DEF IInv, TypeOK
    <3> QED BY <2>3, <2>5, <3>0, <3>1, <3>2
        DEF IInv, TypeOK, setVars, resetVars
  <2>7. ListIntegrity'
    BY <2>3, <2>4, <2>5 DEF IInv, ListIntegrity, Disjoint
  <2>8. ASSUME NEW g \in Frames PROVE FrameInv(g)'
    <3>1. FrameInv(g) /\ g # NoFrame
      BY DEF IInv, NoFrame, Frames
    <3>2. CASE g # f
      BY <2>2, <2>3, <2>5, <3>1, <3>2 DEF IInv, TypeOK, FrameInv, InAnyQueue
    <3>3. CASE g = f
      <4>1. offered'[g] = 1
        BY <2>1, <2>2, <3>3 DEF IInv, TypeOK, FrameInv
      <4>2. g \in shared
        BY <1>2, <2>1, <3>3 DEF FrameInv, FbmShareBuffer, IInv, TypeOK
      <4>3. /\ g \in bInValidPictureQueue' /\ InQueue(pValidPictureQueue', g)
            /\ g \in decHeld' /\ g \in shared' /\ g # sharing'
            /\ ~InQueue(pEmptyBufferQueue', g)
            /\ ~InQueue(pReleaseBufferQueue', g)
            /\ g \notin bAlreadyDisplayed' /\ g \notin bUsedByRender'
            /\ g \notin renHeld' /\ nID'[g] = "index"
            /\ g \in bUsedByDecoder'
            /\ ~(g >= nValidBufNum')
        BY <2>1, <2>2, <2>3, <2>4, <2>5, <3>1, <3>3, <4>2 DEF FrameInv
      <4> QED BY <2>3, <3>1, <4>1, <4>3 DEF FrameInv
    <3> QED BY <3>2, <3>3
  <2> QED BY <2>3, <2>6, <2>7, <2>8 DEF IInv, OwnPool, setVars
<1> QED BY <1>1, <1>2

\* Steps that only lock, unlock or go on to the next section, and those of the
\* render thread around SetGpuBufferToDecoder and handleSetWindow.
LEMMA LockIInv ==
    ASSUME IInv,
           \/ FlushBegin \/ FlushEnd \/ NewDispReleaseBegin
           \/ NewDispReleaseEnd \/ RenderGetVideoFbmBufInfo
           \/ SetGpuBufferToDecoder \/ LastDequeueFails \/ HandleSetWindow
    PROVE  IInv'
<1> USE FbmAssumption
<1>1. /\ UNCHANGED << flagVars, nID, queueVars, holdVars, nValidBufNum,
                      engineVars, renHeld, resetVars, offered >>
      /\ mutex' \in {"free", "reset", "flush", "release"}
      /\ relPc' \in {"idle", "set", "return", "flush", "release"}
      /\ relPc' \in {"flush", "release"} => relPc \in {"flush", "release"}
      /\ mutex' \in {"flush", "release"} => relPc' \in {"flush", "release"}
      /\ nGpuBufferNum' \in {0, nFrameNum} /\ releases' \in Nat
      /\ bHadSetBufferToDecoderFlag' \in BOOLEAN
      /\ bUseGpuBuf \/ OwnPool'
  <2>1. CASE FlushBegin
    BY <2>1 DEF IInv, TypeOK, FlushBegin, renderVars, setVars, OwnPool
  <2>2. CASE FlushEnd
    BY <2>2 DEF IInv, TypeOK, FlushEnd, FlushUnlock, setVars, OwnPool
  <2>3. CASE NewDispReleaseBegin
    BY <2>3 DEF IInv, TypeOK, NewDispReleaseBegin, renderVars, setVars, OwnPool
  <2>4. CASE NewDispReleaseEnd
    BY <2>4 DEF IInv, TypeOK, NewDispReleaseEnd, setVars, OwnPool
  <2>5. CASE RenderGetVideoFbmBufInfo
    BY <2>5 DEF IInv, TypeOK, RenderGetVideoFbmBufInfo, RenderReady, OwnPool
  <2>6. CASE SetGpuBufferToDecoder
    BY <2>6 DEF IInv, TypeOK, SetGpuBufferToDecoder, RenderReady, OwnPool
  <2>7. CASE LastDequeueFails
    BY <2>7 DEF IInv, TypeOK, LastDequeueFails, setVars, OwnPool
  <2>8. CASE HandleSetWindow
    BY <2>8 DEF IInv, TypeOK, HandleSetWindow, RenderReady, setVars, OwnPool
  <2> QED BY <2>1, <2>2, <2>3, <2>4, <2>5, <2>6, <2>7, <2>8
<1>2. TypeOK' /\ ListIntegrity'
  BY <1>1 DEF IInv, TypeOK, ListIntegrity, Disjoint, flagVars, queueVars,
     holdVars, engineVars, resetVars
<1>3. ASSUME NEW g \in Frames PROVE FrameInv(g)'
  <2>1. FrameInv(g)
    BY DEF IInv
  <2> QED BY <1>1, <2>1 DEF FrameInv, InAnyQueue, flagVars, queueVars, engineVars
<1> QED BY <1>1, <1>2, <1>3 DEF IInv

\* A turn of the loop of FbmFlush keeps it.
LEMMA FlushPictureIInv == ASSUME IInv, FlushPicture PROVE IInv'
<1> USE FbmAssumption
<1> DEFINE h == Head(pValidPictureQueue)
           toEmpty == h \notin bUsedByDecoder
<1>1. /\ FbmDequeue(pValidPictureQueue) \in Seq(Frames) /\ h \in Frames
      /\ InQueue(pValidPictureQueue, h)
      /\ NoRepeat(FbmDequeue(pValidPictureQueue))
      /\ \A g : InQueue(FbmDequeue(pValidPictureQueue), g)
                  <=> InQueue(pValidPictureQueue, g) /\ g # h
  BY DequeueLemma DEF IInv, TypeOK, ListIntegrity, FlushPicture
<1>2. /\ FrameInv(h) /\ h \notin bUsedByRender /\ h \notin bAlreadyDisplayed
      /\ h \notin renHeld /\ nID[h] = "index"
      /\ ~InQueue(pEmptyBufferQueue, h) /\ ~InQueue(pReleaseBufferQueue, h)
  <2>1. FrameInv(h)
    BY <1>1 DEF IInv
  <2> QED BY <1>1, <2>1 DEF IInv, FrameInv, InAnyQueue, ListIntegrity, Disjoint
<1>3. /\ pValidPictureQueue' = FbmDequeue(pValidPictureQueue)
      /\ nValidPictureNum' = nValidPictureNum - 1
      /\ bInValidPictureQueue' = bInValidPictureQueue \ {h}
      /\ bAlreadyDisplayed' = Set(bAlreadyDisplayed, h, ~toEmpty)
      /\ pEmptyBufferQueue' = FbmEnqueue(pEmptyBufferQueue, h, toEmpty)
      /\ nEmptyBufferNum' = Inc(nEmptyBufferNum, toEmpty)
      /\ UNCHANGED << mutex, relPc >>
  BY <1>2 DEF FlushPicture, Clear, Set, KeptByDecoder
<1>4. UNCHANGED << bUsedByDecoder, bUsedByRender, bNeedRelease, nID,
                   pReleaseBufferQueue, nReleaseBufferNum,
                   nDecoderHoldingNum, nRenderHoldingNum, nValidBufNum,
                   decHeld, shared, sharing, renHeld, setVars, resetVars,
                   releases, offered >>
  BY DEF FlushPicture, holdVars, engineVars
<1> HIDE DEF toEmpty
<1>5. toEmpty \in BOOLEAN
  BY DEF toEmpty
<1>6. /\ pEmptyBufferQueue' \in Seq(Frames) /\ NoRepeat(pEmptyBufferQueue')
      /\ \A g : InQueue(pEmptyBufferQueue', g)
                  <=> InQueue(pEmptyBufferQueue, g) \/ (toEmpty /\ g = h)
  BY ZenonT(60), <1>1, <1>2, <1>3, <1>5, EnqueueLemma DEF IInv, TypeOK, ListIntegrity
<1>7. TypeOK'
  BY <1>1, <1>3, <1>4, <1>6
  DEF IInv, TypeOK, Flags, Set, Inc, setVars,
      resetVars
<1>8. ListIntegrity'
  BY <1>1, <1>2, <1>3, <1>4, <1>6 DEF IInv, ListIntegrity, Disjoint
<1>9. ASSUME NEW g \in Frames PROVE FrameInv(g)'
  <2>1. FrameInv(g)
    BY DEF IInv
  <2>2. CASE g # h
    BY <1>1, <1>3, <1>4, <1>6, <2>1, <2>2 DEF FrameInv, InAnyQueue, Set
  <2>3. CASE g = h
    BY <1>1, <1>2, <1>3, <1>4, <1>6, <2>1, <2>3
    DEF FrameInv, InAnyQueue, Set, toEmpty
  <2> QED BY <2>2, <2>3
<1> QED BY <1>3, <1>4, <1>7, <1>8, <1>9 DEF IInv, OwnPool, setVars

\* FbmRequestPicture keeps it.
LEMMA RequestPictureIInv == ASSUME IInv, FbmRequestPicture PROVE IInv'
<1> USE FbmAssumption
<1> DEFINE h == Head(pValidPictureQueue)
<1>1. /\ FbmDequeue(pValidPictureQueue) \in Seq(Frames) /\ h \in Frames
      /\ InQueue(pValidPictureQueue, h)
      /\ NoRepeat(FbmDequeue(pValidPictureQueue))
      /\ \A g : InQueue(FbmDequeue(pValidPictureQueue), g)
                  <=> InQueue(pValidPictureQueue, g) /\ g # h
  BY DequeueLemma DEF IInv, TypeOK, ListIntegrity, FbmRequestPicture
<1>2. /\ FrameInv(h) /\ h \in bInValidPictureQueue
      /\ h \notin bUsedByRender /\ h \notin bAlreadyDisplayed
      /\ nID[h] = "index"
      /\ ~InQueue(pEmptyBufferQueue, h) /\ ~InQueue(pReleaseBufferQueue, h)
  <2>1. FrameInv(h)
    BY <1>1 DEF IInv
  <2> QED BY <1>1, <2>1 DEF IInv, FrameInv, InAnyQueue, ListIntegrity, Disjoint
<1>3. /\ pValidPictureQueue' = FbmDequeue(pValidPictureQueue)
      /\ nValidPictureNum' = nValidPictureNum - 1
      /\ nRenderHoldingNum' = nRenderHoldingNum + 1
      /\ bInValidPictureQueue' = bInValidPictureQueue \ {h}
      /\ bUsedByRender' = bUsedByRender \cup {h}
      /\ renHeld' = renHeld \cup {h}
      /\ relPc = "idle"
  BY <1>2 DEF FbmRequestPicture, RenderReady, Clear, Set, Inc, Dec
<1>4. UNCHANGED << bUsedByDecoder, bAlreadyDisplayed, bNeedRelease, nID,
                   pEmptyBufferQueue, pReleaseBufferQueue, nEmptyBufferNum,
                   nReleaseBufferNum, nDecoderHoldingNum, nValidBufNum,
                   mutex, decHeld, shared, sharing, relPc,
                   setVars, resetVars, releases, offered >>
  BY DEF FbmRequestPicture, engineVars
<1>5. TypeOK'
  BY <1>1, <1>3, <1>4 DEF IInv, TypeOK, Flags, setVars, resetVars
<1>6. ListIntegrity'
  BY <1>1, <1>2, <1>3, <1>4 DEF IInv, ListIntegrity, Disjoint
<1>7. ASSUME NEW g \in Frames PROVE FrameInv(g)'
  <2>1. FrameInv(g)
    BY DEF IInv
  <2>2. CASE g # h
    BY <1>1, <1>3, <1>4, <2>1, <2>2 DEF FrameInv, InAnyQueue
  <2>3. CASE g = h
    BY <1>1, <1>2, <1>3, <1>4, <2>1, <2>3 DEF FrameInv, InAnyQueue
  <2> QED BY <2>2, <2>3
<1> QED BY <1>3, <1>4, <1>5, <1>6, <1>7 DEF IInv, OwnPool, setVars

\* FbmReturnPicture keeps it, also when it does not find the frame.
LEMMA ReturnPictureIInv ==
    ASSUME IInv, NEW f \in Frames, FbmReturnPicture(f)
    PROVE  IInv'
<1> USE FbmAssumption
<1> DEFINE found == ~(bUseGpuBuf /\ f \in bNeedRelease)
           forbidden == found /\ nID[f] = "forbid" /\ f \notin bAlreadyDisplayed
                          /\ f \notin bUsedByRender
           ok == found /\ nID[f] = "index" /\ f \in bUsedByRender
           toEmpty == forbidden \/ (ok /\ f \notin bUsedByDecoder)
<1>1. /\ FrameInv(f) /\ f \in renHeld /\ relPc \notin {"flush", "release"}
      /\ f \notin bInValidPictureQueue
      /\ (ok => f \notin bNeedRelease /\ f \notin bAlreadyDisplayed)
  BY DEF IInv, FrameInv, FbmReturnPicture
<1>2. /\ nID' = [nID EXCEPT ![f] = IF forbidden THEN "index" ELSE @]
      /\ bUsedByRender' = Clear(bUsedByRender, f, ok)
      /\ nRenderHoldingNum' = Dec(nRenderHoldingNum, ok)
      /\ bAlreadyDisplayed' =
           Set(bAlreadyDisplayed, f, ok /\ f \in bUsedByDecoder)
      /\ pEmptyBufferQueue' = FbmEnqueue(pEmptyBufferQueue, f, toEmpty)
      /\ nEmptyBufferNum' = Inc(nEmptyBufferNum, toEmpty)
      /\ pReleaseBufferQueue' = pReleaseBufferQueue
      /\ nReleaseBufferNum' = nReleaseBufferNum
  BY <1>1 DEF FbmReturnPicture, FbmEnqueue, Inc, Dec, Clear, Set, KeptByDecoder
<1>3. /\ renHeld' = renHeld \ {f}
      /\ UNCHANGED << bUsedByDecoder, bInValidPictureQueue, bNeedRelease,
                      pValidPictureQueue, nValidPictureNum,
                      nDecoderHoldingNum, nValidBufNum, mutex, decHeld,
                      shared, sharing, relPc, setVars, resetVars, releases,
                      offered >>
  BY DEF FbmReturnPicture, engineVars
<1> HIDE DEF found, forbidden, ok, toEmpty
<1>4. toEmpty \in BOOLEAN
  BY DEF toEmpty, forbidden, ok
<1>5. ~InQueue(pEmptyBufferQueue, f) /\ ~InQueue(pValidPictureQueue, f)
      /\ (toEmpty => ~InQueue(pReleaseBufferQueue, f) /\ f \notin decHeld)
  BY <1>1 DEF FrameInv, InAnyQueue, toEmpty, forbidden, ok
<1>6. /\ pEmptyBufferQueue' \in Seq(Frames) /\ NoRepeat(pEmptyBufferQueue')
      /\ \A g : InQueue(pEmptyBufferQueue', g)
                  <=> InQueue(pEmptyBufferQueue, g) \/ (toEmpty /\ g = f)
  BY ZenonT(60), <1>2, <1>4, <1>5, EnqueueLemma DEF IInv, TypeOK, ListIntegrity
<1>7. TypeOK'
  BY <1>2, <1>3, <1>6
  DEF IInv, TypeOK, Flags, Set, Clear, Inc, Dec, setVars,
      resetVars
<1>8. ListIntegrity'
  BY <1>2, <1>3, <1>5, <1>6 DEF IInv, ListIntegrity, Disjoint
<1>9. ASSUME NEW g \in Frames PROVE FrameInv(g)'
  <2>1. FrameInv(g)
    BY DEF IInv
  <2>2. CASE g # f
    BY <1>2, <1>3, <1>6, <2>1, <2>2
    DEF IInv, TypeOK, FrameInv, InAnyQueue, Set, Clear
  <2>3. CASE g = f
    <3>1. nID'[g] = IF forbidden THEN "index" ELSE nID[f]
      BY <1>2, <2>3 DEF IInv, TypeOK
    <3> QED
      BY <1>1, <1>2, <1>3, <1>5, <1>6, <2>3, <3>1
      DEF FrameInv, InAnyQueue, Set, Clear, found, forbidden, ok, toEmpty
  <2> QED BY <2>2, <2>3
<1> QED BY <1>3, <1>4, <1>7, <1>8, <1>9 DEF IInv, OwnPool, setVars

\* FbmSetFbmBufAddress keeps it: the frame is on no list before.
LEMMA GiveBufferIInv ==
    ASSUME IInv, NEW forbid \in BOOLEAN, nValidBufNum < nFrameNum,
           relPc \in {"idle", "set"}, relPc' \in {"idle", "set"},
           GiveBuffer(forbid)
    PROVE  IInv'
<1> USE FbmAssumption
<1> DEFINE f == nValidBufNum
<1>1. /\ f \in Frames /\ FrameInv(f) /\ ~InAnyQueue(f)
      /\ f \notin decHeld /\ f \notin renHeld
  <2>1. f \in Frames
    BY DEF IInv, TypeOK, Frames
  <2>2. FrameInv(f) /\ f >= nValidBufNum
    BY <2>1 DEF IInv, Frames
  <2> QED BY <2>1, <2>2 DEF FrameInv
<1>2. /\ nID' = [nID EXCEPT ![f] = IF forbid THEN "forbid" ELSE "index"]
      /\ pEmptyBufferQueue' = FbmEnqueue(pEmptyBufferQueue, f, ~forbid)
      /\ nEmptyBufferNum' = Inc(nEmptyBufferNum, ~forbid)
      /\ renHeld' = Set(renHeld, f, forbid)
      /\ nValidBufNum' = nValidBufNum + 1
      /\ UNCHANGED << flagVars, pValidPictureQueue, pReleaseBufferQueue,
                      nValidPictureNum, nReleaseBufferNum, holdVars, mutex,
                      engineVars, setVars, resetVars, releases, offered >>
  BY DEF GiveBuffer
<1>4. /\ pEmptyBufferQueue' \in Seq(Frames) /\ NoRepeat(pEmptyBufferQueue')
      /\ \A g : InQueue(pEmptyBufferQueue', g)
                  <=> InQueue(pEmptyBufferQueue, g) \/ (~forbid /\ g = f)
  <2>1. /\ pEmptyBufferQueue \in Seq(Frames) /\ NoRepeat(pEmptyBufferQueue)
        /\ ~InQueue(pEmptyBufferQueue, f)
    BY <1>1 DEF IInv, TypeOK, ListIntegrity, InAnyQueue
  <2>2. (~forbid) \in BOOLEAN
    OBVIOUS
  <2> QED BY ZenonT(60), <1>1, <1>2, <2>1, <2>2, EnqueueLemma
<1>5. TypeOK'
  <2>1. nValidBufNum' \in 0 .. nFrameNum /\ nEmptyBufferNum' \in Int
    BY <1>1, <1>2 DEF IInv, TypeOK, Frames, Inc
  <2>2. nID' \in [Frames -> {"index", "forbid", "release"}]
    BY <1>2 DEF IInv, TypeOK
  <2>3. renHeld' \in Flags
    BY <1>1, <1>2 DEF IInv, TypeOK, Flags, Set
  <2> QED BY <1>2, <1>4, <2>1, <2>2, <2>3
      DEF IInv, TypeOK, flagVars, holdVars, engineVars, setVars, resetVars
<1>6. ListIntegrity'
  BY <1>1, <1>2, <1>4 DEF IInv, ListIntegrity, Disjoint, InAnyQueue
<1>7. ASSUME NEW g \in Frames PROVE FrameInv(g)'
  <2>1. FrameInv(g)
    BY DEF IInv
  <2>2. CASE g # f
    <3>1. nID'[g] = nID[g] /\ (g >= nValidBufNum' => g >= nValidBufNum)
      BY <1>1, <1>2, <2>2 DEF IInv, TypeOK, Frames
    <3> QED BY <1>2, <1>4, <2>1, <2>2, <3>1
        DEF FrameInv, InAnyQueue, Set, flagVars, engineVars
  <2>3. CASE g = f
    <3>1. /\ nID'[g] = IF forbid THEN "forbid" ELSE "index"
          /\ ~(g >= nValidBufNum')
      BY <1>1, <1>2, <2>3 DEF IInv, TypeOK, Frames
    <3> QED BY <1>1, <1>2, <1>4, <2>1, <2>3, <3>1
        DEF FrameInv, InAnyQueue, Set, flagVars, engineVars
  <2> QED BY <2>2, <2>3
<1>8. /\ mutex' \in {"flush", "release"} => relPc' \in {"flush", "release"}
      /\ bUseGpuBuf
  BY <1>2 DEF IInv, TypeOK, OwnPool
<1> QED BY <1>2, <1>5, <1>6, <1>7, <1>8 DEF IInv, OwnPool, setVars

\* ... in SetGpuBufferToDecoder and after the first picture is shown.
LEMMA SetBufferIInv ==
    ASSUME IInv, FbmSetFbmBufAddress \/ SetLastBuffer
    PROVE  IInv'
<1>1. CASE FbmSetFbmBufAddress
  <2> DEFINE forbid == nValidBufNum >= nFrameNum - nHoldByGpu
  <2>1. /\ GiveBuffer(forbid) /\ nValidBufNum < nFrameNum
        /\ relPc = "set" /\ relPc' \in {"idle", "set"}
    BY <1>1 DEF FbmSetFbmBufAddress
  <2>2. forbid \in BOOLEAN
    OBVIOUS
  <2> HIDE DEF forbid
  <2> QED BY <2>1, <2>2, GiveBufferIInv
<1>2. CASE SetLastBuffer
  <2>1. /\ GiveBuffer(FALSE) /\ nValidBufNum < nFrameNum
        /\ relPc = "idle" /\ relPc' = relPc
    BY <1>2 DEF SetLastBuffer, RenderReady
  <2> QED BY <2>1, GiveBufferIInv
<1> QED BY <1>1, <1>2

\* Marking the frames that have a buffer keeps it.
LEMMA SetNewDispReleaseIInv == ASSUME IInv, FbmSetNewDispRelease PROVE IInv'
<1> USE FbmAssumption
<1>1. /\ renHeld = {} /\ mutex = "free"
      /\ bNeedRelease' = bNeedRelease \cup { f \in Frames : f < nValidBufNum }
      /\ relPc' = "flush" /\ bResetBufToDecoderFlag' = TRUE
      /\ nNeedReleaseBufferNum' = nGpuBufferNum
      /\ UNCHANGED << bUsedByDecoder, bUsedByRender, bInValidPictureQueue,
                      bAlreadyDisplayed, nID, queueVars, holdVars,
                      nValidBufNum, mutex, engineVars, renHeld, setVars,
                      bHadRequestReleasePicFlag, releases, offered >>
  BY DEF FbmSetNewDispRelease
<1>2. TypeOK'
  <2>1. bNeedRelease' \in Flags /\ nNeedReleaseBufferNum' \in Int
        /\ bResetBufToDecoderFlag' \in BOOLEAN
    BY <1>1 DEF IInv, TypeOK, Flags
  <2> QED BY <1>1, <2>1
      DEF IInv, TypeOK, queueVars, holdVars, engineVars, setVars
<1>3. ListIntegrity'
  BY <1>1 DEF IInv, ListIntegrity, Disjoint, queueVars
<1>4. bUseGpuBuf
  BY DEF IInv, OwnPool, FbmSetNewDispRelease
<1>5. ASSUME NEW g \in Frames PROVE FrameInv(g)'
  <2>1. FrameInv(g)
    BY DEF IInv
  <2> QED BY <1>1, <1>4, <2>1 DEF FrameInv, InAnyQueue, queueVars, engineVars
<1> QED BY <1>1, <1>2, <1>3, <1>4, <1>5 DEF IInv

\* A turn of the loop of FbmNewDispRelease keeps it.
LEMMA NewDispReleaseFrameIInv == ASSUME IInv, NewDispReleaseFrame PROVE IInv'
<1> USE FbmAssumption
<1> DEFINE h == Head(pEmptyBufferQueue)
           ok == h \notin bUsedByDecoder \cup bInValidPictureQueue
                          \cup bUsedByRender \cup bAlreadyDisplayed
<1>1. /\ FbmDequeue(pEmptyBufferQueue) \in Seq(Frames) /\ h \in Frames
      /\ InQueue(pEmptyBufferQueue, h)
      /\ NoRepeat(FbmDequeue(pEmptyBufferQueue))
      /\ \A g : InQueue(FbmDequeue(pEmptyBufferQueue), g)
                  <=> InQueue(pEmptyBufferQueue, g) /\ g # h
  BY DequeueLemma DEF IInv, TypeOK, ListIntegrity, NewDispReleaseFrame
<1>2. /\ FrameInv(h) /\ h \in bNeedRelease /\ h \notin decHeld
      /\ relPc \in {"flush", "release"} /\ nID[h] = "index"
      /\ ~InQueue(pValidPictureQueue, h) /\ ~InQueue(pReleaseBufferQueue, h)
  <2>1. FrameInv(h) /\ relPc \in {"flush", "release"}
    BY <1>1 DEF IInv, NewDispReleaseFrame
  <2>2. h < nValidBufNum
    BY <1>1, <2>1 DEF IInv, TypeOK, Frames, FrameInv, InAnyQueue
  <2> QED BY <1>1, <2>1, <2>2 DEF IInv, FrameInv, InAnyQueue, ListIntegrity, Disjoint
<1>3. /\ pEmptyBufferQueue' = FbmDequeue(pEmptyBufferQueue)
      /\ nEmptyBufferNum' = Dec(nEmptyBufferNum, ok)
      /\ pReleaseBufferQueue' = FbmEnqueue(pReleaseBufferQueue, h, ok)
      /\ nReleaseBufferNum' = Inc(nReleaseBufferNum, ok)
      /\ mutex' = IF ok THEN mutex ELSE "free"
      /\ relPc' = IF ok THEN relPc ELSE "idle"
      /\ UNCHANGED << flagVars, nID, pValidPictureQueue, nValidPictureNum,
                      holdVars, nValidBufNum, engineVars, renHeld,
                      setVars, resetVars, releases, offered >>
  BY DEF NewDispReleaseFrame
<1> HIDE DEF ok
<1>4. ok \in BOOLEAN
  BY DEF ok
<1>5. /\ pReleaseBufferQueue' \in Seq(Frames) /\ NoRepeat(pReleaseBufferQueue')
      /\ \A g : InQueue(pReleaseBufferQueue', g)
                  <=> InQueue(pReleaseBufferQueue, g) \/ (ok /\ g = h)
  BY ZenonT(60), <1>1, <1>2, <1>3, <1>4, EnqueueLemma DEF IInv, TypeOK, ListIntegrity
<1>6. TypeOK'
  BY <1>1, <1>3, <1>5 DEF IInv, TypeOK, Inc, Dec, flagVars, holdVars,
     engineVars, setVars, resetVars
<1>7. ListIntegrity'
  BY <1>1, <1>2, <1>3, <1>5 DEF IInv, ListIntegrity, Disjoint
<1>8. ASSUME NEW g \in Frames PROVE FrameInv(g)'
  <2>1. FrameInv(g)
    BY DEF IInv
  <2>2. CASE g # h
    BY <1>1, <1>2, <1>3, <1>5, <2>1, <2>2
    DEF FrameInv, InAnyQueue, flagVars, engineVars
  <2>3. CASE g = h
    BY <1>1, <1>2, <1>3, <1>5, <2>1, <2>3
    DEF FrameInv, InAnyQueue, flagVars, engineVars
  <2> QED BY <2>2, <2>3
<1>9. /\ mutex' \in {"flush", "release"} => relPc' \in {"flush", "release"}
      /\ bUseGpuBuf \/ OwnPool'
  BY <1>2, <1>3 DEF IInv, OwnPool, setVars
<1> QED BY <1>6, <1>7, <1>8, <1>9 DEF IInv

\* FbmRequestReleasePicture keeps it: the tagged frame is on no list.
LEMMA RequestReleaseIInv == ASSUME IInv, FbmRequestReleasePicture PROVE IInv'
<1> USE FbmAssumption
<1> DEFINE h == Head(pReleaseBufferQueue)
<1>1. /\ FbmDequeue(pReleaseBufferQueue) \in Seq(Frames) /\ h \in Frames
      /\ InQueue(pReleaseBufferQueue, h)
      /\ NoRepeat(FbmDequeue(pReleaseBufferQueue))
      /\ \A g : InQueue(FbmDequeue(pReleaseBufferQueue), g)
                  <=> InQueue(pReleaseBufferQueue, g) /\ g # h
  BY DequeueLemma DEF IInv, TypeOK, ListIntegrity, FbmRequestReleasePicture
<1>2. /\ FrameInv(h) /\ nID[h] = "index" /\ h \notin renHeld
      /\ ~InQueue(pValidPictureQueue, h) /\ ~InQueue(pEmptyBufferQueue, h)
  <2>1. FrameInv(h)
    BY <1>1 DEF IInv
  <2>2. nID[h] = "index"
    BY <1>1, <2>1 DEF FrameInv, InAnyQueue
  <2> QED BY <1>1, <2>1, <2>2
      DEF IInv, ListIntegrity, Disjoint, FbmRequestReleasePicture, NothingShown
<1>3. /\ pReleaseBufferQueue' = FbmDequeue(pReleaseBufferQueue)
      /\ nReleaseBufferNum' = nReleaseBufferNum - 1
      /\ nID' = [nID EXCEPT ![h] = "release"]
      /\ bHadRequestReleasePicFlag' = TRUE
  BY DEF FbmRequestReleasePicture
<1>4. UNCHANGED << flagVars, pEmptyBufferQueue, pValidPictureQueue,
                   nEmptyBufferNum, nValidPictureNum, holdVars,
                   nValidBufNum, mutex, engineVars, renHeld, relPc,
                   setVars, bResetBufToDecoderFlag, nNeedReleaseBufferNum,
                   releases, offered >>
  BY DEF FbmRequestReleasePicture
<1>5. TypeOK'
  <2>1. bHadRequestReleasePicFlag' \in BOOLEAN
    BY <1>3
  <2>2. nID' \in [Frames -> {"index", "forbid", "release"}]
        /\ nReleaseBufferNum' \in Int /\ pReleaseBufferQueue' \in Seq(Frames)
    BY <1>1, <1>3 DEF IInv, TypeOK
  <2> QED BY <1>4, <2>1, <2>2
      DEF IInv, TypeOK, flagVars, holdVars, engineVars, setVars
<1>6. ListIntegrity'
  BY <1>1, <1>3, <1>4 DEF IInv, ListIntegrity, Disjoint
<1>7. ASSUME NEW g \in Frames PROVE FrameInv(g)'
  <2>1. FrameInv(g) /\ nID'[g] = IF g = h THEN "release" ELSE nID[g]
    BY <1>3 DEF IInv, TypeOK
  <2>2. CASE g # h
    BY <1>1, <1>3, <1>4, <2>1, <2>2
    DEF FrameInv, InAnyQueue, flagVars, engineVars
  <2>3. CASE g = h
    BY <1>1, <1>2, <1>3, <1>4, <2>1, <2>3
    DEF FrameInv, InAnyQueue, flagVars, engineVars
  <2> QED BY <2>2, <2>3
<1> QED BY <1>4, <1>5, <1>6, <1>7 DEF IInv, OwnPool, setVars

\* FbmReturnReleasePicture keeps it: the tagged frame returns to one list.
LEMMA ReturnReleaseIInv == ASSUME IInv, FbmReturnReleasePicture PROVE IInv'
<1> USE FbmAssumption
<1> DEFINE forbid == nNeedReleaseBufferNum <= nHoldByGpu
<1>1. PICK f \in Frames :
        /\ f \in bNeedRelease /\ nID[f] = "release"
        /\ bNeedRelease' = bNeedRelease \ {f}
        /\ nID' = [nID EXCEPT ![f] = IF forbid THEN "forbid" ELSE "index"]
        /\ pEmptyBufferQueue' = FbmEnqueue(pEmptyBufferQueue, f, ~forbid)
        /\ nEmptyBufferNum' = Inc(nEmptyBufferNum, ~forbid)
        /\ renHeld' = Set(renHeld, f, forbid)
  BY DEF FbmReturnReleasePicture
<1>2. /\ relPc = "idle"
      /\ nNeedReleaseBufferNum' = nNeedReleaseBufferNum - 1
      /\ UNCHANGED << bUsedByDecoder, bUsedByRender, bInValidPictureQueue,
                      bAlreadyDisplayed, pValidPictureQueue,
                      pReleaseBufferQueue, nValidPictureNum,
                      nReleaseBufferNum, holdVars, nValidBufNum, mutex,
                      engineVars, relPc, setVars, releases, offered >>
  BY DEF FbmReturnReleasePicture, RenderReady
<1> HIDE DEF forbid
<1>3. forbid \in BOOLEAN
  BY DEF forbid
<1>4. FrameInv(f) /\ ~InAnyQueue(f) /\ f \notin decHeld /\ f \notin renHeld
  BY <1>1 DEF IInv, FrameInv
<1>5. /\ pEmptyBufferQueue' \in Seq(Frames) /\ NoRepeat(pEmptyBufferQueue')
      /\ \A g : InQueue(pEmptyBufferQueue', g)
                  <=> InQueue(pEmptyBufferQueue, g) \/ (~forbid /\ g = f)
  BY ZenonT(60), <1>1, <1>3, <1>4, EnqueueLemma
  DEF IInv, TypeOK, ListIntegrity, InAnyQueue
<1>6. TypeOK'
  <2>1. bHadRequestReleasePicFlag' \in BOOLEAN
        /\ bResetBufToDecoderFlag' \in BOOLEAN
    BY DEF FbmReturnReleasePicture, IInv, TypeOK
  <2>2. nNeedReleaseBufferNum' \in Int
    BY <1>2 DEF IInv, TypeOK
  <2>3. nID' \in [Frames -> {"index", "forbid", "release"}]
        /\ nEmptyBufferNum' \in Int
    BY <1>1 DEF IInv, TypeOK, Inc
  <2>4. renHeld' \in Flags /\ bNeedRelease' \in Flags
    BY <1>1 DEF IInv, TypeOK, Flags, Set
  <2> QED BY <1>2, <1>5, <2>1, <2>2, <2>3, <2>4
      DEF IInv, TypeOK, holdVars, engineVars, setVars
<1>7. ListIntegrity'
  BY <1>2, <1>4, <1>5 DEF IInv, ListIntegrity, Disjoint, InAnyQueue
<1>8. ASSUME NEW g \in Frames PROVE FrameInv(g)'
  <2>1. /\ FrameInv(g)
        /\ nID'[g] = IF g = f THEN (IF forbid THEN "forbid" ELSE "index")
                     ELSE nID[g]
    BY <1>1 DEF IInv, TypeOK
  <2>2. CASE g # f
    BY <1>1, <1>2, <1>5, <2>1, <2>2 DEF FrameInv, InAnyQueue, Set, engineVars
  <2>3. CASE g = f
    BY <1>1, <1>2, <1>4, <1>5, <2>1, <2>3
    DEF FrameInv, InAnyQueue, Set, engineVars
  <2> QED BY <2>2, <2>3
<1> QED BY <1>2, <1>6, <1>7, <1>8 DEF IInv, FbmReturnReleasePicture, RenderReady,
       OwnPool, setVars

\* Steps that only take or release the mutex keep it, and stuttering does.
LEMMA StutterIInv == ASSUME IInv, UNCHANGED vars PROVE IInv'
<1>1. UNCHANGED << flagVars, nID, queueVars, holdVars, nValidBufNum, mutex,
                   engineVars, renderVars, offered >>
  BY DEF vars
<1>2. TypeOK' /\ ListIntegrity'
  BY <1>1 DEF IInv, TypeOK, ListIntegrity, Disjoint, flagVars, queueVars,
     holdVars, engineVars, renderVars, setVars, resetVars
<1>3. ASSUME NEW g \in Frames PROVE FrameInv(g)'
  <2>1. FrameInv(g)
    BY DEF IInv
  <2> QED BY <1>1, <2>1
      DEF FrameInv, InAnyQueue, flagVars, queueVars, engineVars, renderVars
<1> QED BY <1>1, <1>2, <1>3 DEF IInv, renderVars, OwnPool, setVars

-----------------------------------------------------------------------------
(* The theorems.                                                           *)

\* IInv holds in every reachable state of the buffer manager.
THEOREM InductiveInvariant == Spec => []IInv
<1>1. IInv /\ [Next]_vars => IInv'
  <2> SUFFICES ASSUME IInv, [Next]_vars PROVE IInv'
    OBVIOUS
  <2> QED BY RequestBufferIInv, ReturnBufferIInv, ShareIInv, LockIInv,
             FlushPictureIInv, RequestPictureIInv, ReturnPictureIInv,
             SetBufferIInv, SetNewDispReleaseIInv,
             NewDispReleaseFrameIInv, RequestReleaseIInv, ReturnReleaseIInv,
             StutterIInv DEF Next
<1> QED BY <1>1, InitIInv, PTL DEF Spec

\* The state of the pool stays well typed: queues hold frames of the pool and
\* ids are an index or one of the two tags.
THEOREM TypeCorrect == Spec => []TypeOK
<1>1. IInv => TypeOK
  BY DEF IInv
<1> QED BY <1>1, InductiveInvariant, PTL

\* Whatever the engine, the render thread and a flush or a window change do,
\* no node of fbm.c is ever linked into two lists or twice into one.
THEOREM ListsNeverTangle == Spec => []ListIntegrity
<1>1. IInv => ListIntegrity
  BY DEF IInv
<1> QED BY <1>1, InductiveInvariant, PTL

\* The engine never decodes into a frame that is displayed, queued for display
\* or queued for reuse.
THEOREM DecodeIsExclusive == Spec => []DecodeExclusive
<1>1. IInv => DecodeExclusive
  BY DEF IInv, TypeOK, Flags, FrameInv, DecodeExclusive
<1> QED BY <1>1, InductiveInvariant, PTL

\* A decoded picture reaches the display queue at most once.
THEOREM PictureOfferedOnce == Spec => []OfferedOnce
<1>1. IInv => OfferedOnce
  BY DEF IInv, FrameInv, OfferedOnce
<1> QED BY <1>1, InductiveInvariant, PTL

-----------------------------------------------------------------------------
(* The frames of the pool.  What follows needs that the engine does not    *)
(* share a picture while the buffers come from the display (Reliable): the *)
(* picture could be marked for release between the check and the lock of   *)
(* FbmShareBuffer.                                                         *)

Reliable == ~bUseGpuBuf \/ ~EngineShares

\* Nothing is ever between the check and the lock, nor shared.
Unshared == sharing = NoFrame /\ shared = {}

\* What the release marks and the render thread have to do with each other,
\* and where frame f is.
Kept(f) ==
    /\ f \in bUsedByRender =>
         f \in renHeld /\ nID[f] = "index" /\ f \notin bNeedRelease
    /\ f \in renHeld \/ f >= nValidBufNum => f \notin bNeedRelease
    /\ f \in bInValidPictureQueue /\ f \in bNeedRelease => relPc = "flush"
    /\ f < nValidBufNum =>
         InAnyQueue(f) \/ f \in decHeld \cup renHeld \/ nID[f] = "release"

PoolInv ==
    /\ \A f \in Frames : Kept(f)
    /\ QueueCounts
    /\ mutex = "release" => relPc = "release"

-----------------------------------------------------------------------------
(* Lengths of the queues.                                                  *)

\* A queue is one longer when FbmEnqueue takes the frame, ...
LEMMA EnqueueLength ==
    ASSUME NEW S, NEW q \in Seq(S), NEW f \in S, NEW taken \in BOOLEAN
    PROVE  Len(FbmEnqueue(q, f, taken)) = Inc(Len(q), taken)
  BY DEF FbmEnqueue, Inc

\* ... and one shorter after FbmDequeue.
LEMMA DequeueLength ==
    ASSUME NEW S, NEW q \in Seq(S), q # << >>
    PROVE  Len(FbmDequeue(q)) = Len(q) - 1
  BY DEF FbmDequeue

-----------------------------------------------------------------------------
(* An engine that does not share.                                          *)

\* Without a share no frame is between the check and the lock of one.
LEMMA NothingShared ==
    ASSUME ~EngineShares
    PROVE  Spec => []Unshared
<1>1. Init => Unshared
  BY DEF Init, Unshared
<1>2. Unshared /\ [Next]_vars => Unshared'
  <2> SUFFICES ASSUME Unshared, [Next]_vars PROVE Unshared'
    OBVIOUS
  <2>1. CASE \E f \in Frames, v \in BOOLEAN : FbmReturnBuffer(f, v)
    BY <2>1 DEF FbmReturnBuffer, Unshared
  <2>2. CASE \E f \in Frames : FbmShareBufferCheck(f)
    BY <2>2 DEF FbmShareBufferCheck
  <2>3. CASE FbmShareBuffer
    BY <2>3 DEF FbmShareBuffer, Unshared
  <2>4. CASE FbmRequestBuffer
    BY <2>4 DEF FbmRequestBuffer, Unshared
  <2>5. CASE UNCHANGED << engineVars >>
    BY <2>5 DEF engineVars, Unshared
  <2>6. \/ FbmRequestBuffer \/ FbmShareBuffer
        \/ \E f \in Frames, v \in BOOLEAN : FbmReturnBuffer(f, v)
        \/ \E f \in Frames : FbmShareBufferCheck(f)
        \/ UNCHANGED << engineVars >>
    BY DEF Next, vars, FlushBegin, FlushPicture, FlushEnd, FbmRequestPicture,
       FbmReturnPicture, RenderGetVideoFbmBufInfo, SetGpuBufferToDecoder,
       FbmSetFbmBufAddress, LastDequeueFails, SetLastBuffer, GiveBuffer,
       HandleSetWindow, FbmSetNewDispRelease, NewDispReleaseBegin, NewDispReleaseFrame, NewDispReleaseEnd,
       FbmRequestReleasePicture, FbmReturnReleasePicture
  <2> QED BY <2>1, <2>2, <2>3, <2>4, <2>5, <2>6
<1> QED BY <1>1, <1>2, PTL DEF Spec

-----------------------------------------------------------------------------
(* Every step keeps PoolInv.                                               *)

\* The four flags FbmRequestBuffer and FbmNewDispRelease test are clear.
LEMMA EmptyClear == IInv /\ PoolInv => EmptyQueueFlagsClear
<1> SUFFICES ASSUME IInv, PoolInv, NEW f \in Frames, InQueue(pEmptyBufferQueue, f)
             PROVE  f \notin bUsedByDecoder \cup bInValidPictureQueue
                             \cup bUsedByRender \cup bAlreadyDisplayed
  BY DEF EmptyQueueFlagsClear
<1>1. FrameInv(f) /\ Kept(f) /\ ~InQueue(pValidPictureQueue, f)
  BY DEF IInv, PoolInv, ListIntegrity, Disjoint
<1> QED BY <1>1 DEF FrameInv, Kept

\* FbmCreateBuffer: all frames are on the empty queue, or none has a buffer.
LEMMA InitPool == Init => PoolInv
<1> SUFFICES ASSUME Init PROVE PoolInv
  OBVIOUS
<1> USE FbmAssumption
<1>1. ASSUME NEW f \in Frames PROVE Kept(f)
  <2>1. ~bUseGpuBuf => InQueue(pEmptyBufferQueue, f)
    <3>1. ASSUME ~bUseGpuBuf
          PROVE  /\ pEmptyBufferQueue = [i \in 1 .. nFrameNum |-> i - 1]
                 /\ Len(pEmptyBufferQueue) = nFrameNum
      BY <3>1 DEF Init, InitialEmptyQueue
    <3>2. f + 1 \in 1 .. nFrameNum /\ (f + 1) - 1 = f
      BY DEF Frames
    <3>3. ASSUME ~bUseGpuBuf PROVE pEmptyBufferQueue[f + 1] = f
      BY <3>1, <3>2, <3>3
    <3> QED BY <3>1, <3>2, <3>3 DEF InQueue
  <2> QED BY <2>1 DEF Init, Kept, Frames, InAnyQueue
<1>2. QueueCounts
  <2>1. Len(<< >>) = 0 /\ Len([i \in 1 .. nFrameNum |-> i - 1]) = nFrameNum
    OBVIOUS
  <2> QED BY <2>1 DEF Init, InitialEmptyQueue, QueueCounts
<1> QED BY <1>1, <1>2 DEF PoolInv, Init

\* FbmRequestBuffer: the frame at the head goes to the engine.
LEMMA RequestBufferPool ==
    ASSUME IInv, PoolInv, FbmRequestBuffer
    PROVE  PoolInv'
<1> DEFINE h == Head(pEmptyBufferQueue)
<1>1. /\ h \in Frames /\ InQueue(pEmptyBufferQueue, h)
      /\ \A g : InQueue(pEmptyBufferQueue', g)
                  <=> InQueue(pEmptyBufferQueue, g) /\ g # h
  BY DequeueLemma DEF IInv, TypeOK, ListIntegrity, FbmRequestBuffer
<1>2. h \notin bUsedByDecoder \cup bInValidPictureQueue
               \cup bUsedByRender \cup bAlreadyDisplayed
  BY <1>1, EmptyClear DEF EmptyQueueFlagsClear
<1>3. /\ nEmptyBufferNum' = nEmptyBufferNum - 1
      /\ decHeld' = decHeld \cup {h}
      /\ pEmptyBufferQueue' = FbmDequeue(pEmptyBufferQueue)
      /\ pEmptyBufferQueue # << >>
      /\ UNCHANGED << bUsedByRender, bInValidPictureQueue, bNeedRelease, nID,
                      pValidPictureQueue, pReleaseBufferQueue,
                      nValidPictureNum, nReleaseBufferNum, nValidBufNum,
                      renHeld, relPc >>
  BY <1>2 DEF FbmRequestBuffer, Dec, Set, renderVars
<1>4. ASSUME NEW g \in Frames PROVE Kept(g)'
  <2>1. Kept(g)
    BY DEF PoolInv
  <2> QED BY <1>1, <1>3, <2>1 DEF Kept, InAnyQueue
<1>5. QueueCounts'
  BY <1>3, DequeueLength DEF IInv, TypeOK, PoolInv, QueueCounts
<1> QED BY <1>4, <1>5 DEF PoolInv, FbmRequestBuffer, DecoderReady, renderVars

\* FbmReturnBuffer: the frame goes to a list unless it is queued for display
\* or with the render thread.
LEMMA ReturnBufferPool ==
    ASSUME IInv, PoolInv, NEW f \in Frames, NEW v \in BOOLEAN,
           FbmReturnBuffer(f, v)
    PROVE  PoolInv'
<1> DEFINE queued == f \in bInValidPictureQueue
           displayed == f \in bAlreadyDisplayed
           toRelease == f \in bNeedRelease /\ ~queued
           unused == ~toRelease /\ ~queued /\ f \notin bUsedByRender
           toEmpty == unused /\ (displayed \/ ~v)
           toValid == unused /\ ~displayed /\ v
<1>1. FrameInv(f) /\ Kept(f) /\ f \in bUsedByDecoder /\ nID[f] = "index"
      /\ ~(queued /\ f \in bUsedByRender \cup bAlreadyDisplayed)
  BY DEF IInv, PoolInv, FrameInv, FbmReturnBuffer
<1>2. /\ bInValidPictureQueue' = Set(bInValidPictureQueue, f, toValid)
      /\ pReleaseBufferQueue' = FbmEnqueue(pReleaseBufferQueue, f, toRelease)
      /\ pEmptyBufferQueue' = FbmEnqueue(pEmptyBufferQueue, f, toEmpty)
      /\ pValidPictureQueue' = FbmEnqueue(pValidPictureQueue, f, toValid)
      /\ nReleaseBufferNum' = Inc(nReleaseBufferNum, toRelease)
      /\ nEmptyBufferNum' = Inc(nEmptyBufferNum, toEmpty)
      /\ nValidPictureNum' = Inc(nValidPictureNum, toValid)
      /\ decHeld' = decHeld \ {f}
  BY <1>1 DEF FbmReturnBuffer
<1>3. UNCHANGED << bUsedByRender, bNeedRelease, nID, nValidBufNum, renHeld,
                   relPc >>
  BY DEF FbmReturnBuffer, renderVars
<1> HIDE DEF toRelease, unused, toEmpty, toValid
<1>4. toRelease \in BOOLEAN /\ toEmpty \in BOOLEAN /\ toValid \in BOOLEAN
  BY DEF toRelease, toEmpty, toValid
<1>5. /\ \A g : InQueue(pEmptyBufferQueue', g)
                  <=> InQueue(pEmptyBufferQueue, g) \/ (toEmpty /\ g = f)
      /\ \A g : InQueue(pValidPictureQueue', g)
                  <=> InQueue(pValidPictureQueue, g) \/ (toValid /\ g = f)
      /\ \A g : InQueue(pReleaseBufferQueue', g)
                  <=> InQueue(pReleaseBufferQueue, g) \/ (toRelease /\ g = f)
  BY ZenonT(60), <1>2, <1>4, EnqueueLemma DEF IInv, TypeOK
<1>6. ASSUME NEW g \in Frames PROVE Kept(g)'
  <2>1. Kept(g)
    BY DEF PoolInv
  <2>2. CASE g # f
    BY <1>2, <1>3, <1>5, <2>1, <2>2 DEF Kept, InAnyQueue, Set
  <2>3. CASE g = f
    <3>1. toValid => f \notin bNeedRelease
      BY DEF toValid, unused, toRelease
    <3>2. \/ toRelease \/ toEmpty \/ toValid
          \/ InQueue(pValidPictureQueue, f) \/ f \in renHeld
      BY <1>1 DEF FrameInv, Kept, toRelease, unused, toEmpty, toValid
    <3> QED BY <1>2, <1>3, <1>5, <2>1, <2>3, <3>1, <3>2
        DEF Kept, InAnyQueue, Set
  <2> QED BY <2>2, <2>3
<1>7. QueueCounts'
  BY <1>2, <1>4, EnqueueLength DEF IInv, TypeOK, PoolInv, QueueCounts, Inc
<1> QED BY <1>6, <1>7 DEF PoolInv, FbmReturnBuffer, DecoderReady, renderVars

\* FbmShareBuffer, with buffers of the decoder's own: no frame is marked for
\* release, so the shared picture need not be.
LEMMA SharePool ==
    ASSUME IInv, PoolInv, FbmShareBuffer, ~bUseGpuBuf
    PROVE  PoolInv'
<1> DEFINE f == sharing
<1>1. /\ f \in Frames /\ f \in bUsedByDecoder /\ f \notin bInValidPictureQueue
      /\ f \notin bAlreadyDisplayed
  <2>1. f \in Frames
    BY DEF FbmShareBuffer, IInv, TypeOK
  <2> QED BY <2>1 DEF IInv, FrameInv
<1>2. /\ bInValidPictureQueue' = bInValidPictureQueue \cup {f}
      /\ pValidPictureQueue' = FbmEnqueue(pValidPictureQueue, f, TRUE)
      /\ nValidPictureNum' = nValidPictureNum + 1
      /\ UNCHANGED << bUsedByRender, bNeedRelease, nID, pEmptyBufferQueue,
                      pReleaseBufferQueue, nEmptyBufferNum, nReleaseBufferNum,
                      nValidBufNum, decHeld, renHeld, relPc >>
  BY <1>1 DEF FbmShareBuffer, Set, Inc, FbmEnqueue, renderVars
<1>3. \A g : InQueue(pValidPictureQueue', g)
               <=> InQueue(pValidPictureQueue, g) \/ g = f
  BY ZenonT(60), <1>1, <1>2, EnqueueLemma DEF IInv, TypeOK
<1>4. ASSUME NEW g \in Frames PROVE Kept(g)'
  <2>1. Kept(g) /\ g \notin bNeedRelease
    BY DEF PoolInv, IInv, FrameInv
  <2> QED BY <1>2, <1>3, <2>1 DEF Kept, InAnyQueue
<1>5. QueueCounts'
  BY ZenonT(60), <1>1, <1>2, EnqueueLength DEF IInv, TypeOK, PoolInv, QueueCounts, Inc
<1> QED BY <1>4, <1>5 DEF PoolInv, FbmShareBuffer, renderVars

\* The check of FbmShareBuffer, the steps that only lock, unlock or go on to
\* the next section, those around the window, and stuttering.
LEMMA LockPool ==
    ASSUME IInv, PoolInv,
           \/ FlushBegin \/ FlushEnd \/ NewDispReleaseBegin
           \/ NewDispReleaseEnd \/ RenderGetVideoFbmBufInfo
           \/ SetGpuBufferToDecoder \/ LastDequeueFails \/ HandleSetWindow
           \/ UNCHANGED vars
           \/ \E f \in Frames : FbmShareBufferCheck(f)
    PROVE  PoolInv'
<1>1. /\ UNCHANGED << flagVars, nID, queueVars, nValidBufNum, decHeld,
                      renHeld >>
      /\ relPc = "flush" => relPc' = "flush" \/ pValidPictureQueue = << >>
      /\ mutex' = "release" => relPc' = "release"
  <2>1. CASE FlushBegin
    BY <2>1 DEF FlushBegin, engineVars, renderVars, PoolInv
  <2>2. CASE FlushEnd
    BY <2>2 DEF FlushEnd, FlushUnlock, engineVars
  <2>3. CASE NewDispReleaseBegin
    BY <2>3 DEF NewDispReleaseBegin, engineVars, renderVars
  <2>4. CASE NewDispReleaseEnd
    <3>1. relPc = "release"
      BY <2>4 DEF NewDispReleaseEnd, PoolInv
    <3> QED BY <2>4, <3>1 DEF NewDispReleaseEnd, engineVars
  <2>5. CASE UNCHANGED vars
    BY <2>5 DEF vars, engineVars, renderVars, PoolInv
  <2>6. CASE \E f \in Frames : FbmShareBufferCheck(f)
    BY <2>6 DEF FbmShareBufferCheck, renderVars, PoolInv
  <2>7. CASE RenderGetVideoFbmBufInfo \/ SetGpuBufferToDecoder
             \/ LastDequeueFails \/ HandleSetWindow
    <3>1. relPc # "flush" /\ relPc # "release" /\ mutex' = mutex
      BY <2>7 DEF RenderGetVideoFbmBufInfo, SetGpuBufferToDecoder,
         LastDequeueFails, HandleSetWindow, RenderReady
    <3> QED BY <2>7, <3>1 DEF RenderGetVideoFbmBufInfo, SetGpuBufferToDecoder,
         LastDequeueFails, HandleSetWindow, engineVars, PoolInv
  <2> QED BY <2>1, <2>2, <2>3, <2>4, <2>5, <2>6, <2>7
<1>2. ASSUME NEW g \in Frames PROVE Kept(g)'
  <2>1. Kept(g) /\ FrameInv(g)
    BY DEF PoolInv, IInv
  <2>2. pValidPictureQueue = << >> => g \notin bInValidPictureQueue
    BY <2>1, InitialQueues DEF FrameInv
  <2> QED BY <1>1, <2>1, <2>2 DEF Kept, InAnyQueue, flagVars, queueVars
<1>3. QueueCounts'
  BY <1>1 DEF PoolInv, QueueCounts, queueVars
<1> QED BY <1>1, <1>2, <1>3 DEF PoolInv

\* FbmFlush: the picture becomes empty or stays with the engine.
LEMMA FlushPicturePool ==
    ASSUME IInv, PoolInv, FlushPicture
    PROVE  PoolInv'
<1> DEFINE h == Head(pValidPictureQueue)
           toEmpty == h \notin bUsedByDecoder
<1>1. /\ h \in Frames /\ InQueue(pValidPictureQueue, h)
      /\ \A g : InQueue(FbmDequeue(pValidPictureQueue), g)
                  <=> InQueue(pValidPictureQueue, g) /\ g # h
  BY DequeueLemma DEF IInv, TypeOK, ListIntegrity, FlushPicture
<1>2. FrameInv(h) /\ h \notin bUsedByRender /\ h \notin bAlreadyDisplayed
  <2>1. FrameInv(h)
    BY <1>1 DEF IInv
  <2> QED BY <1>1, <2>1 DEF FrameInv
<1>3. /\ pValidPictureQueue' = FbmDequeue(pValidPictureQueue)
      /\ pValidPictureQueue # << >>
      /\ nValidPictureNum' = nValidPictureNum - 1
      /\ bInValidPictureQueue' = bInValidPictureQueue \ {h}
      /\ pEmptyBufferQueue' = FbmEnqueue(pEmptyBufferQueue, h, toEmpty)
      /\ nEmptyBufferNum' = Inc(nEmptyBufferNum, toEmpty)
      /\ UNCHANGED << mutex, relPc, bUsedByRender, bNeedRelease, nID,
                      pReleaseBufferQueue, nReleaseBufferNum, nValidBufNum,
                      decHeld, renHeld >>
  BY <1>2 DEF FlushPicture, Clear, KeptByDecoder, engineVars
<1> HIDE DEF toEmpty
<1>4. toEmpty \in BOOLEAN
  BY DEF toEmpty
<1>5. \A g : InQueue(pEmptyBufferQueue', g)
               <=> InQueue(pEmptyBufferQueue, g) \/ (toEmpty /\ g = h)
  BY ZenonT(60), <1>1, <1>3, <1>4, EnqueueLemma DEF IInv, TypeOK
<1>6. ASSUME NEW g \in Frames PROVE Kept(g)'
  <2>1. Kept(g)
    BY DEF PoolInv
  <2> QED BY <1>1, <1>2, <1>3, <1>5, <2>1
      DEF FrameInv, Kept, InAnyQueue, toEmpty
<1>7. QueueCounts'
  <2>1. Len(pValidPictureQueue') = Len(pValidPictureQueue) - 1
    BY <1>3, DequeueLength DEF IInv, TypeOK
  <2>2. Len(pEmptyBufferQueue') = Inc(Len(pEmptyBufferQueue), toEmpty)
    BY ZenonT(60), <1>1, <1>3, <1>4, EnqueueLength DEF IInv, TypeOK
  <2> QED BY <1>3, <2>1, <2>2 DEF PoolInv, QueueCounts
<1>8. mutex # "release"
  BY DEF FlushPicture
<1> QED BY <1>3, <1>6, <1>7, <1>8 DEF PoolInv

\* FbmRequestPicture: the picture goes to the render thread.
LEMMA RequestPicturePool ==
    ASSUME IInv, PoolInv, FbmRequestPicture
    PROVE  PoolInv'
<1> DEFINE h == Head(pValidPictureQueue)
<1>1. /\ h \in Frames /\ InQueue(pValidPictureQueue, h)
      /\ \A g : InQueue(FbmDequeue(pValidPictureQueue), g)
                  <=> InQueue(pValidPictureQueue, g) /\ g # h
  BY DequeueLemma DEF IInv, TypeOK, ListIntegrity, FbmRequestPicture
<1>2. /\ h \in bInValidPictureQueue /\ h \notin bUsedByRender
      /\ h \notin bAlreadyDisplayed /\ nID[h] = "index" /\ Kept(h)
  <2>1. FrameInv(h) /\ Kept(h)
    BY <1>1 DEF IInv, PoolInv
  <2> QED BY <1>1, <2>1 DEF FrameInv, InAnyQueue
<1>3. /\ pValidPictureQueue' = FbmDequeue(pValidPictureQueue)
      /\ pValidPictureQueue # << >>
      /\ nValidPictureNum' = nValidPictureNum - 1
      /\ bInValidPictureQueue' = bInValidPictureQueue \ {h}
      /\ bUsedByRender' = bUsedByRender \cup {h}
      /\ renHeld' = renHeld \cup {h}
      /\ relPc = "idle"
      /\ UNCHANGED << bNeedRelease, nID, pEmptyBufferQueue,
                      pReleaseBufferQueue, nEmptyBufferNum, nReleaseBufferNum,
                      nValidBufNum, decHeld, relPc >>
  BY <1>2 DEF FbmRequestPicture, RenderReady, Clear, Set, Dec, engineVars
<1>4. ASSUME NEW g \in Frames PROVE Kept(g)'
  <2>1. Kept(g)
    BY DEF PoolInv
  <2> QED BY <1>1, <1>2, <1>3, <2>1 DEF Kept, InAnyQueue
<1>5. QueueCounts'
  BY <1>3, DequeueLength DEF IInv, TypeOK, PoolInv, QueueCounts
<1> QED BY <1>4, <1>5 DEF PoolInv, FbmRequestPicture, RenderReady

\* FbmReturnPicture: the frame becomes empty or stays with the engine; it is
\* always found, since the render thread holds none that is to be released.
LEMMA ReturnPicturePool ==
    ASSUME IInv, PoolInv, NEW f \in Frames, FbmReturnPicture(f)
    PROVE  PoolInv'
<1> DEFINE forbidden == nID[f] = "forbid"
           toEmpty == forbidden \/ f \notin bUsedByDecoder
<1>1. /\ FrameInv(f) /\ Kept(f) /\ f \in renHeld /\ f \notin bNeedRelease
      /\ f \notin bInValidPictureQueue /\ f \notin bAlreadyDisplayed
      /\ nID[f] \in {"index", "forbid"}
      /\ (nID[f] = "index" <=> f \in bUsedByRender)
  <2>1. FrameInv(f) /\ Kept(f) /\ f \in renHeld
    BY DEF IInv, PoolInv, FbmReturnPicture
  <2> QED BY <2>1 DEF IInv, TypeOK, FrameInv, Kept
<1>2. /\ nID' = [nID EXCEPT ![f] = IF forbidden THEN "index" ELSE @]
      /\ bUsedByRender' = Clear(bUsedByRender, f, ~forbidden)
      /\ pEmptyBufferQueue' = FbmEnqueue(pEmptyBufferQueue, f, toEmpty)
      /\ nEmptyBufferNum' = Inc(nEmptyBufferNum, toEmpty)
      /\ pReleaseBufferQueue' = pReleaseBufferQueue
      /\ nReleaseBufferNum' = nReleaseBufferNum
      /\ renHeld' = renHeld \ {f}
      /\ UNCHANGED << bInValidPictureQueue, bNeedRelease, pValidPictureQueue,
                      nValidPictureNum, nValidBufNum, decHeld, relPc >>
  BY <1>1 DEF FbmReturnPicture, FbmEnqueue, Inc, Clear, KeptByDecoder, engineVars
<1> HIDE DEF toEmpty
<1>3. toEmpty \in BOOLEAN
  BY DEF toEmpty
<1>4. \A g : InQueue(pEmptyBufferQueue', g)
               <=> InQueue(pEmptyBufferQueue, g) \/ (toEmpty /\ g = f)
  BY ZenonT(60), <1>2, <1>3, EnqueueLemma DEF IInv, TypeOK
<1>5. ASSUME NEW g \in Frames PROVE Kept(g)'
  <2>1. Kept(g)
    BY DEF PoolInv
  <2>2. CASE g # f
    BY <1>2, <1>4, <2>1, <2>2 DEF IInv, TypeOK, Kept, InAnyQueue, Clear
  <2>3. CASE g = f
    BY <1>1, <1>2, <1>4, <2>1, <2>3
    DEF FrameInv, Kept, InAnyQueue, Clear, toEmpty
  <2> QED BY <2>2, <2>3
<1>6. QueueCounts'
  BY <1>2, <1>3, EnqueueLength DEF IInv, TypeOK, PoolInv, QueueCounts
<1> QED BY <1>5, <1>6 DEF PoolInv, FbmReturnPicture

\* FbmSetFbmBufAddress: the frame gets a buffer, and is empty or held.
LEMMA GiveBufferPool ==
    ASSUME IInv, PoolInv, NEW forbid \in BOOLEAN, nValidBufNum < nFrameNum,
           relPc \in {"idle", "set"}, relPc' \in {"idle", "set"},
           GiveBuffer(forbid)
    PROVE  PoolInv'
<1> USE FbmAssumption
<1> DEFINE f == nValidBufNum
<1>1. f \in Frames /\ FrameInv(f) /\ Kept(f) /\ f >= nValidBufNum
  <2>1. f \in Frames /\ f >= nValidBufNum
    BY DEF IInv, TypeOK, Frames
  <2> QED BY <2>1 DEF IInv, PoolInv
<1>2. f \notin bNeedRelease /\ f \notin bUsedByRender
  BY <1>1 DEF FrameInv, Kept
<1>3. /\ nID' = [nID EXCEPT ![f] = IF forbid THEN "forbid" ELSE "index"]
      /\ pEmptyBufferQueue' = FbmEnqueue(pEmptyBufferQueue, f, ~forbid)
      /\ nEmptyBufferNum' = Inc(nEmptyBufferNum, ~forbid)
      /\ renHeld' = Set(renHeld, f, forbid)
      /\ nValidBufNum' = nValidBufNum + 1
      /\ UNCHANGED << flagVars, pValidPictureQueue, pReleaseBufferQueue,
                      nValidPictureNum, nReleaseBufferNum, mutex, decHeld >>
      /\ relPc # "flush" /\ relPc # "release"
  BY DEF GiveBuffer, engineVars
<1>4. mutex # "release"
  BY <1>3 DEF PoolInv
<1>5. \A g : InQueue(pEmptyBufferQueue', g)
               <=> InQueue(pEmptyBufferQueue, g) \/ (~forbid /\ g = f)
  BY ZenonT(60), <1>1, <1>3, EnqueueLemma DEF IInv, TypeOK
<1>6. ASSUME NEW g \in Frames PROVE Kept(g)'
  <2>1. Kept(g)
    BY DEF PoolInv
  <2>2. CASE g # f
    <3>1. /\ nID'[g] = nID[g]
          /\ g < nValidBufNum' => g < nValidBufNum
          /\ g >= nValidBufNum' => g >= nValidBufNum
      BY <1>1, <1>3, <2>2 DEF IInv, TypeOK, Frames
    <3> QED BY <1>3, <1>5, <2>1, <2>2, <3>1 DEF Kept, InAnyQueue, Set, flagVars
  <2>3. CASE g = f
    BY <1>2, <1>3, <1>5, <2>1, <2>3 DEF Kept, InAnyQueue, Set, flagVars
  <2> QED BY <2>2, <2>3
<1>7. QueueCounts'
  BY <1>1, <1>3, EnqueueLength DEF IInv, TypeOK, PoolInv, QueueCounts
<1> QED BY <1>3, <1>4, <1>6, <1>7 DEF PoolInv

LEMMA SetBufferPool ==
    ASSUME IInv, PoolInv, FbmSetFbmBufAddress \/ SetLastBuffer
    PROVE  PoolInv'
<1>1. CASE FbmSetFbmBufAddress
  <2> DEFINE forbid == nValidBufNum >= nFrameNum - nHoldByGpu
  <2>1. /\ GiveBuffer(forbid) /\ nValidBufNum < nFrameNum
        /\ relPc = "set" /\ relPc' \in {"idle", "set"}
    BY <1>1 DEF FbmSetFbmBufAddress
  <2>2. forbid \in BOOLEAN
    OBVIOUS
  <2> HIDE DEF forbid
  <2> QED BY <2>1, <2>2, GiveBufferPool
<1>2. CASE SetLastBuffer
  <2>1. /\ GiveBuffer(FALSE) /\ nValidBufNum < nFrameNum
        /\ relPc = "idle" /\ relPc' = relPc
    BY <1>2 DEF SetLastBuffer, RenderReady
  <2> QED BY <2>1, GiveBufferPool
<1> QED BY <1>1, <1>2

\* FbmSetNewDispRelease marks the frames that have a buffer; the render thread
\* and the display hold none.
LEMMA SetNewDispReleasePool ==
    ASSUME IInv, PoolInv, FbmSetNewDispRelease
    PROVE  PoolInv'
<1>1. /\ renHeld = {} /\ mutex = "free" /\ relPc' = "flush"
      /\ bNeedRelease' = bNeedRelease \cup { f \in Frames : f < nValidBufNum }
      /\ UNCHANGED << bUsedByRender, bInValidPictureQueue, nID, queueVars,
                      nValidBufNum, mutex, decHeld, renHeld >>
  BY DEF FbmSetNewDispRelease, engineVars
<1>2. ASSUME NEW g \in Frames PROVE Kept(g)'
  <2>1. Kept(g)
    BY DEF PoolInv
  <2>2. g >= nValidBufNum => ~(g < nValidBufNum)
    BY DEF IInv, TypeOK, Frames
  <2> QED BY <1>1, <2>1, <2>2 DEF Kept, InAnyQueue, queueVars
<1> QED BY <1>1, <1>2 DEF PoolInv, QueueCounts, queueVars

\* FbmNewDispRelease: the empty frame moves to the release queue.
LEMMA NewDispReleaseFramePool ==
    ASSUME IInv, PoolInv, NewDispReleaseFrame
    PROVE  PoolInv'
<1> DEFINE h == Head(pEmptyBufferQueue)
<1>1. /\ FbmDequeue(pEmptyBufferQueue) \in Seq(Frames) /\ h \in Frames
      /\ InQueue(pEmptyBufferQueue, h)
      /\ \A g : InQueue(FbmDequeue(pEmptyBufferQueue), g)
                  <=> InQueue(pEmptyBufferQueue, g) /\ g # h
  BY DequeueLemma DEF IInv, TypeOK, ListIntegrity, NewDispReleaseFrame
<1>2. h \notin bUsedByDecoder \cup bInValidPictureQueue
               \cup bUsedByRender \cup bAlreadyDisplayed
  BY <1>1, EmptyClear DEF EmptyQueueFlagsClear
<1>3. /\ pEmptyBufferQueue' = FbmDequeue(pEmptyBufferQueue)
      /\ pEmptyBufferQueue # << >>
      /\ nEmptyBufferNum' = nEmptyBufferNum - 1
      /\ pReleaseBufferQueue' = FbmEnqueue(pReleaseBufferQueue, h, TRUE)
      /\ nReleaseBufferNum' = nReleaseBufferNum + 1
      /\ UNCHANGED << flagVars, nID, pValidPictureQueue, nValidPictureNum,
                      nValidBufNum, decHeld, renHeld, mutex, relPc >>
  BY <1>2 DEF NewDispReleaseFrame, Dec, Inc, engineVars
<1>4. \A g : InQueue(pReleaseBufferQueue', g)
               <=> InQueue(pReleaseBufferQueue, g) \/ g = h
  BY ZenonT(60), <1>1, <1>3, EnqueueLemma DEF IInv, TypeOK
<1>5. ASSUME NEW g \in Frames PROVE Kept(g)'
  <2>1. Kept(g)
    BY DEF PoolInv
  <2> QED BY <1>1, <1>3, <1>4, <2>1 DEF Kept, InAnyQueue, flagVars
<1>6. QueueCounts'
  <2>1. Len(pEmptyBufferQueue') = Len(pEmptyBufferQueue) - 1
    BY <1>3, DequeueLength DEF IInv, TypeOK
  <2>2. Len(pReleaseBufferQueue') = Inc(Len(pReleaseBufferQueue), TRUE)
    BY ZenonT(60), <1>1, <1>3, EnqueueLength DEF IInv, TypeOK
  <2> QED BY <1>3, <2>1, <2>2 DEF PoolInv, QueueCounts, Inc
<1> QED BY <1>3, <1>5, <1>6 DEF PoolInv

\* FbmRequestReleasePicture: the frame is tagged.
LEMMA RequestReleasePool ==
    ASSUME IInv, PoolInv, FbmRequestReleasePicture
    PROVE  PoolInv'
<1> DEFINE h == Head(pReleaseBufferQueue)
<1>1. /\ h \in Frames /\ InQueue(pReleaseBufferQueue, h)
      /\ \A g : InQueue(FbmDequeue(pReleaseBufferQueue), g)
                  <=> InQueue(pReleaseBufferQueue, g) /\ g # h
  BY DequeueLemma DEF IInv, TypeOK, ListIntegrity, FbmRequestReleasePicture
<1>2. h \in bNeedRelease
  <2>1. FrameInv(h)
    BY <1>1 DEF IInv
  <2> QED BY <1>1, <2>1 DEF FrameInv
<1>3. /\ pReleaseBufferQueue' = FbmDequeue(pReleaseBufferQueue)
      /\ pReleaseBufferQueue # << >>
      /\ nReleaseBufferNum' = nReleaseBufferNum - 1
      /\ nID' = [nID EXCEPT ![h] = "release"]
      /\ UNCHANGED << flagVars, pEmptyBufferQueue, pValidPictureQueue,
                      nEmptyBufferNum, nValidPictureNum, nValidBufNum, mutex,
                      decHeld, renHeld, relPc >>
  BY DEF FbmRequestReleasePicture, engineVars
<1>4. ASSUME NEW g \in Frames PROVE Kept(g)'
  <2>1. Kept(g) /\ nID'[g] = IF g = h THEN "release" ELSE nID[g]
    BY <1>3 DEF IInv, TypeOK, PoolInv
  <2> QED BY <1>1, <1>2, <1>3, <2>1 DEF Kept, InAnyQueue, flagVars
<1>5. QueueCounts'
  BY <1>3, DequeueLength DEF IInv, TypeOK, PoolInv, QueueCounts
<1> QED BY <1>3, <1>4, <1>5 DEF PoolInv

\* FbmReturnReleasePicture: the tagged frame is empty or held again.
LEMMA ReturnReleasePool ==
    ASSUME IInv, PoolInv, FbmReturnReleasePicture
    PROVE  PoolInv'
<1> DEFINE forbid == nNeedReleaseBufferNum <= nHoldByGpu
<1>1. PICK f \in Frames :
        /\ nID[f] = "release"
        /\ bNeedRelease' = bNeedRelease \ {f}
        /\ nID' = [nID EXCEPT ![f] = IF forbid THEN "forbid" ELSE "index"]
        /\ pEmptyBufferQueue' = FbmEnqueue(pEmptyBufferQueue, f, ~forbid)
        /\ nEmptyBufferNum' = Inc(nEmptyBufferNum, ~forbid)
        /\ renHeld' = Set(renHeld, f, forbid)
  BY DEF FbmReturnReleasePicture
<1>2. UNCHANGED << bUsedByRender, bInValidPictureQueue, pValidPictureQueue,
                   pReleaseBufferQueue, nValidPictureNum, nReleaseBufferNum,
                   nValidBufNum, mutex, decHeld, relPc >>
  BY DEF FbmReturnReleasePicture, engineVars
<1> HIDE DEF forbid
<1>3. forbid \in BOOLEAN
  BY DEF forbid
<1>4. \A g : InQueue(pEmptyBufferQueue', g)
               <=> InQueue(pEmptyBufferQueue, g) \/ (~forbid /\ g = f)
  BY ZenonT(60), <1>1, <1>3, EnqueueLemma DEF IInv, TypeOK
<1>5. ASSUME NEW g \in Frames PROVE Kept(g)'
  <2>1. /\ Kept(g)
        /\ nID'[g] = IF g = f THEN (IF forbid THEN "forbid" ELSE "index")
                     ELSE nID[g]
    BY <1>1 DEF IInv, TypeOK, PoolInv
  <2>2. CASE g # f
    BY <1>1, <1>2, <1>4, <2>1, <2>2 DEF Kept, InAnyQueue, Set
  <2>3. CASE g = f
    BY <1>1, <1>2, <1>4, <2>1, <2>3 DEF Kept, InAnyQueue, Set
  <2> QED BY <2>2, <2>3
<1>6. QueueCounts'
  BY <1>1, <1>2, <1>3, EnqueueLength DEF IInv, TypeOK, PoolInv, QueueCounts
<1> QED BY <1>2, <1>5, <1>6 DEF PoolInv

-----------------------------------------------------------------------------
(* The theorems.                                                           *)

\* PoolInv holds in every reachable state.
THEOREM PoolInvariant ==
    ASSUME Reliable
    PROVE  Spec => []PoolInv
<1>1. ASSUME ~bUseGpuBuf \/ Unshared, IInv, PoolInv, [Next]_vars
      PROVE  PoolInv'
  <2>1. CASE FbmShareBuffer
    <3>1. ~bUseGpuBuf
      BY <1>1, <2>1 DEF FbmShareBuffer, Unshared
    <3> QED BY <1>1, <2>1, <3>1, SharePool
  <2> QED BY <1>1, <2>1, RequestBufferPool, ReturnBufferPool, LockPool,
             FlushPicturePool, RequestPicturePool, ReturnPicturePool,
             SetBufferPool, SetNewDispReleasePool,
             NewDispReleaseFramePool, RequestReleasePool, ReturnReleasePool
      DEF Next
<1>2. CASE ~bUseGpuBuf
  <2>1. IInv /\ PoolInv /\ [Next]_vars => PoolInv'
    BY <1>1, <1>2
  <2> QED BY <2>1, InitPool, InductiveInvariant, PTL DEF Spec
<1>3. CASE ~EngineShares
  <2>1. Unshared /\ IInv /\ PoolInv /\ [Next]_vars => PoolInv'
    BY <1>1
  <2>2. Spec => []Unshared
    BY <1>3, NothingShared
  <2> QED BY <2>1, <2>2, InitPool, InductiveInvariant, PTL DEF Spec
<1> QED BY <1>2, <1>3 DEF Reliable

\* The comment of FbmRequestBuffer is right: a picture on the empty queue has
\* none of its four flags set, so no empty frame is ever dropped.
THEOREM EmptyFramesAreClear ==
    ASSUME Reliable
    PROVE  Spec => []EmptyQueueFlagsClear
<1>1. IInv /\ PoolInv => EmptyQueueFlagsClear
  BY EmptyClear
<1> QED BY <1>1, InductiveInvariant, PoolInvariant, PTL

\* No frame leaks out of the pool, whatever is returned unused, flushed,
\* displayed late, or replaced while the window changes.
THEOREM NoFrameIsLost ==
    ASSUME Reliable
    PROVE  Spec => []NoFrameLost
<1>1. IInv /\ PoolInv => NoFrameLost
  <2> SUFFICES ASSUME IInv, PoolInv, NEW f \in 0 .. nValidBufNum - 1
               PROVE  InAnyQueue(f) \/ f \in decHeld \cup renHeld
                      \/ nID[f] = "release"
    BY DEF NoFrameLost, InAnyQueue
  <2>1. f \in Frames /\ f < nValidBufNum
    BY FbmAssumption DEF IInv, TypeOK, Frames
  <2> QED BY <2>1 DEF PoolInv, Kept
<1> QED BY <1>1, InductiveInvariant, PoolInvariant, PTL

\* FbmEmptyBufferNum, FbmValidPictureNum and FbmReleasePictureNum report what
\* is on the queues.
THEOREM QueueCountsExact ==
    ASSUME Reliable
    PROVE  Spec => []QueueCounts
<1>1. PoolInv => QueueCounts
  BY DEF PoolInv
<1> QED BY <1>1, PoolInvariant, PTL

-----------------------------------------------------------------------------
(* The counters, with buffers of the decoder's own.                        *)

\* The display's machinery rests, and the holding counters are exact.
OwnBuffers ==
    /\ ~bResetBufToDecoderFlag /\ OwnPool
    /\ \A f \in Frames : nID[f] = "index"
    /\ nDecoderHoldingNum = Cardinality(decHeld)
    /\ nRenderHoldingNum = Cardinality(renHeld)

\* A set of frames counts one more with a frame that was not in it, and one
\* less without a frame that was.
LEMMA HeldCount ==
    ASSUME NEW held \in SUBSET Frames, NEW f \in Frames
    PROVE  /\ f \notin held => Cardinality(held \cup {f}) = Cardinality(held) + 1
           /\ f \in held => Cardinality(held \ {f}) = Cardinality(held) - 1
           /\ Cardinality(held) \in Nat
<1>1. IsFiniteSet(Frames)
  BY FbmAssumption, FS_Interval DEF Frames
<1>2. IsFiniteSet(held)
  BY <1>1, FS_Subset
<1> QED BY <1>2, FS_AddElement, FS_RemoveElement, FS_CardinalityType

\* Every step keeps OwnBuffers: the counter of a holder moves with the frame.
LEMMA OwnBuffersStep ==
    ASSUME ~bUseGpuBuf
    PROVE  IInv /\ PoolInv /\ OwnBuffers /\ [Next]_vars => OwnBuffers'
<1> SUFFICES ASSUME IInv, PoolInv, OwnBuffers, [Next]_vars PROVE OwnBuffers'
  OBVIOUS
<1> USE FbmAssumption
<1>1. CASE FbmRequestBuffer
  <2> DEFINE h == Head(pEmptyBufferQueue)
  <2>1. h \in Frames /\ InQueue(pEmptyBufferQueue, h)
    BY <1>1, DequeueLemma DEF IInv, TypeOK, ListIntegrity, FbmRequestBuffer
  <2>2. h \notin decHeld
        /\ h \notin bUsedByDecoder \cup bInValidPictureQueue
                    \cup bUsedByRender \cup bAlreadyDisplayed
    BY <2>1, EmptyClear DEF EmptyQueueFlagsClear, IInv, FrameInv
  <2>3. /\ nDecoderHoldingNum' = nDecoderHoldingNum + 1
        /\ decHeld' = decHeld \cup {h}
        /\ UNCHANGED << bResetBufToDecoderFlag, nGpuBufferNum, relPc,
                        nValidBufNum, nID, nRenderHoldingNum, renHeld >>
    BY <1>1, <2>2 DEF FbmRequestBuffer, Inc, Set, renderVars,
       setVars, resetVars
  <2>4. Cardinality(decHeld') = Cardinality(decHeld) + 1
    BY <2>1, <2>2, <2>3, HeldCount DEF IInv, TypeOK, Flags
  <2> QED BY <2>3, <2>4 DEF OwnBuffers, OwnPool
<1>2. ASSUME NEW f \in Frames, NEW v \in BOOLEAN, FbmReturnBuffer(f, v)
      PROVE  OwnBuffers'
  <2>1. /\ f \in decHeld /\ f \in bUsedByDecoder /\ nID[f] = "index"
        /\ f \notin bNeedRelease
        /\ ~(f \in bInValidPictureQueue
               /\ f \in bUsedByRender \cup bAlreadyDisplayed)
    BY <1>2 DEF FbmReturnBuffer, IInv, FrameInv
  <2>2. /\ nDecoderHoldingNum' = nDecoderHoldingNum - 1
        /\ decHeld' = decHeld \ {f}
        /\ UNCHANGED << bResetBufToDecoderFlag, nGpuBufferNum, relPc,
                        nValidBufNum, nID, nRenderHoldingNum, renHeld >>
    BY <1>2, <2>1 DEF FbmReturnBuffer, Dec, renderVars, setVars,
       resetVars
  <2>3. Cardinality(decHeld') = Cardinality(decHeld) - 1
    BY <2>1, <2>2, HeldCount DEF IInv, TypeOK, Flags
  <2> QED BY <2>2, <2>3 DEF OwnBuffers, OwnPool
<1>3. CASE FbmRequestPicture
  <2> DEFINE h == Head(pValidPictureQueue)
  <2>1. h \in Frames /\ InQueue(pValidPictureQueue, h)
    BY <1>3, DequeueLemma DEF IInv, TypeOK, ListIntegrity, FbmRequestPicture
  <2>2. FrameInv(h)
    BY <2>1 DEF IInv
  <2>3. /\ h \notin renHeld /\ h \in bInValidPictureQueue
        /\ h \notin bUsedByRender \cup bAlreadyDisplayed
    BY <2>1, <2>2 DEF FrameInv
  <2>4. /\ nRenderHoldingNum' = nRenderHoldingNum + 1
        /\ renHeld' = renHeld \cup {h}
        /\ UNCHANGED << bResetBufToDecoderFlag, nGpuBufferNum, relPc,
                        nValidBufNum, nID, nDecoderHoldingNum, decHeld >>
    BY <1>3, <2>3 DEF FbmRequestPicture, Inc, Set, engineVars,
       setVars, resetVars
  <2>5. Cardinality(renHeld') = Cardinality(renHeld) + 1
    BY <2>1, <2>3, <2>4, HeldCount DEF IInv, TypeOK, Flags
  <2> QED BY <2>4, <2>5 DEF OwnBuffers, OwnPool
<1>4. ASSUME NEW f \in Frames, FbmReturnPicture(f) PROVE OwnBuffers'
  <2>1. FrameInv(f) /\ f \in renHeld /\ nID[f] = "index"
    BY <1>4 DEF FbmReturnPicture, IInv, OwnBuffers
  <2>2. /\ f \in bUsedByRender /\ f \notin bInValidPictureQueue
        /\ f \notin bAlreadyDisplayed
    BY <2>1 DEF FrameInv
  <2>3. /\ nRenderHoldingNum' = nRenderHoldingNum - 1
        /\ renHeld' = renHeld \ {f}
        /\ nID' = [nID EXCEPT ![f] = @]
        /\ UNCHANGED << bResetBufToDecoderFlag, nGpuBufferNum, relPc,
                        nValidBufNum, nDecoderHoldingNum, decHeld >>
    BY <1>4, <2>1, <2>2 DEF FbmReturnPicture, Dec, engineVars, setVars,
       resetVars
  <2>4. Cardinality(renHeld') = Cardinality(renHeld) - 1
    BY <2>1, <2>3, HeldCount DEF IInv, TypeOK, Flags
  <2>5. nID' = nID
    BY <2>3 DEF IInv, TypeOK
  <2> QED BY <2>3, <2>4, <2>5 DEF OwnBuffers, OwnPool
<1>5. CASE /\ UNCHANGED << nID, holdVars, nValidBufNum, decHeld, renHeld,
                           bResetBufToDecoderFlag, nGpuBufferNum >>
           /\ relPc' \in {relPc, "idle"}
  BY <1>5 DEF OwnBuffers, OwnPool, holdVars
<1>6. \/ FbmRequestBuffer \/ FbmRequestPicture
      \/ \E f \in Frames, v \in BOOLEAN : FbmReturnBuffer(f, v)
      \/ \E f \in Frames : FbmReturnPicture(f)
      \/ /\ UNCHANGED << nID, holdVars, nValidBufNum, decHeld, renHeld,
                         bResetBufToDecoderFlag, nGpuBufferNum >>
         /\ relPc' \in {relPc, "idle"}
  <2>1. relPc = "idle" /\ mutex # "flush" /\ ~Resetting
        /\ nGpuBufferNum = 0 /\ ~(nValidBufNum < nFrameNum)
    BY DEF OwnBuffers, OwnPool, IInv, Resetting
  <2>2. CASE UNCHANGED vars
    BY <2>2 DEF vars, engineVars, renderVars, setVars, resetVars
  <2>3. CASE FbmShareBuffer \/ \E f \in Frames : FbmShareBufferCheck(f)
    BY <2>3 DEF FbmShareBuffer, FbmShareBufferCheck, renderVars, setVars,
       resetVars
  <2>4. CASE FlushBegin \/ FlushEnd \/ FlushPicture
    BY <2>1, <2>4 DEF FlushBegin, FlushEnd, FlushPicture, FlushUnlock,
       engineVars, renderVars, setVars, resetVars
  <2>5. ~ \/ FbmSetNewDispRelease \/ NewDispReleaseBegin
          \/ RenderGetVideoFbmBufInfo \/ SetGpuBufferToDecoder
          \/ FbmSetFbmBufAddress \/ LastDequeueFails \/ SetLastBuffer
          \/ HandleSetWindow \/ FbmRequestReleasePicture
          \/ FbmReturnReleasePicture
    <3>1. ~RenderGetVideoFbmBufInfo /\ ~HandleSetWindow
      BY DEF RenderGetVideoFbmBufInfo, HandleSetWindow
    <3>2. ~SetGpuBufferToDecoder
      BY <2>1 DEF SetGpuBufferToDecoder
    <3>3. ~SetLastBuffer /\ ~FbmSetFbmBufAddress
      BY <2>1 DEF SetLastBuffer, FbmSetFbmBufAddress
    <3>4. ~LastDequeueFails /\ ~FbmSetNewDispRelease /\ ~NewDispReleaseBegin
      BY <2>1
      DEF LastDequeueFails, FbmSetNewDispRelease, NewDispReleaseBegin
    <3>5. ~FbmRequestReleasePicture /\ ~FbmReturnReleasePicture
      BY <2>1 DEF FbmRequestReleasePicture, FbmReturnReleasePicture
    <3> QED BY <3>1, <3>2, <3>3, <3>4, <3>5
  <2>6. CASE NewDispReleaseFrame \/ NewDispReleaseEnd
    BY <2>6 DEF NewDispReleaseFrame, NewDispReleaseEnd, engineVars, setVars,
       resetVars
  <2> QED BY <2>2, <2>3, <2>4, <2>5, <2>6 DEF Next
<1> QED BY <1>1, <1>2, <1>3, <1>4, <1>5, <1>6

\* With buffers of the decoder's own every counter is exact: the lengths of
\* the queues, FbmGetDecoderHoldingBufferNum and FbmGetDisplayBufferNum.
THEOREM CountersExact ==
    ASSUME ~bUseGpuBuf
    PROVE  Spec => []CountsExact
<1>1. Init => OwnBuffers
  <2>1. Cardinality({}) = 0
    BY FS_EmptySet
  <2> QED BY <2>1 DEF Init, OwnBuffers, OwnPool
<1>2. IInv /\ PoolInv /\ OwnBuffers => CountsExact
  <2> SUFFICES ASSUME IInv, PoolInv, OwnBuffers PROVE CountsExact
    OBVIOUS
  <2>1. QueueCounts /\ nValidPictureNum = Len(pValidPictureQueue)
    BY DEF PoolInv, QueueCounts
  <2> QED BY <2>1 DEF CountsExact, HoldingCounts, OwnBuffers,
       FbmGetDecoderHoldingBufferNum, FbmGetDisplayBufferNum
<1>3. Spec => []PoolInv
  BY PoolInvariant DEF Reliable
<1>4. IInv /\ PoolInv /\ OwnBuffers /\ [Next]_vars => OwnBuffers'
  BY OwnBuffersStep
<1> QED BY <1>1, <1>2, <1>3, <1>4, InductiveInvariant, PTL DEF Spec

=============================================================================
