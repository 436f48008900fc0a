-------------------------- MODULE SbmStreamProofs --------------------------
(***************************************************************************)
(* Proofs about the stream buffer manager, for rings of every size.  The   *)
(* invariant RingInv ties the three positions and the two counters of the  *)
(* frame ring to the pointers the engine holds.                            *)
(***************************************************************************)
EXTENDS SbmStream, SequenceTheorems, WellFoundedInduction, TLAPS

Positions ==
    /\ nValidFrameNum = nUnReadFrameNum + Len(held)
    /\ nReadPos = Ahead(nFlushPos, Len(held))
    /\ nWritePos = Ahead(nFlushPos, nValidFrameNum)

HeldInOrder == \A i \in 1 .. Len(held) : held[i] = Ahead(nFlushPos, i - 1)

RingInv ==
    /\ SbmTypeOK
    /\ ~aborted
    /\ Positions
    /\ HeldInOrder

\* Stepping a position forward or back, with the wrap at the end of the ring,
\* moves it one place ahead of or behind where it was.
LEMMA AheadFacts ==
    ASSUME NEW pos \in Slots, NEW n \in 0 .. nMaxFrameNum
    PROVE  /\ Ahead(pos, n) \in Slots
           /\ Ahead(pos, 0) = pos
           /\ n < nMaxFrameNum => NextPos(Ahead(pos, n)) = Ahead(pos, n + 1)
           /\ n > 0 => PrevPos(Ahead(pos, n)) = Ahead(pos, n - 1)
           /\ n > 0 => Ahead(NextPos(pos), n - 1) = Ahead(pos, n)
           /\ NextPos(pos) \in Slots
  BY SbmAssumption DEF Ahead, NextPos, PrevPos, Slots

\* What the arithmetic steps need of the types.
LEMMA NumberTypes ==
    ASSUME RingInv
    PROVE  /\ nMaxFrameNum \in Nat \ {0}
           /\ nReadPos \in Slots /\ nWritePos \in Slots
           /\ nFlushPos \in Slots
           /\ nValidFrameNum \in 0 .. nMaxFrameNum
           /\ nUnReadFrameNum \in 0 .. nMaxFrameNum
           /\ Len(held) \in 0 .. nMaxFrameNum
           /\ Positions
  BY SbmAssumption DEF RingInv, SbmTypeOK, Positions

\* The empty rings satisfy the invariant.
LEMMA InitRing == SbmInit => RingInv
  <1> SUFFICES ASSUME SbmInit PROVE RingInv
    OBVIOUS
  <1>1. ZeroInfo \in DataInfo
    BY SbmAssumption DEF ZeroInfo, DataInfo, NULL, Addresses
  <1>a. pFrames \in [Slots -> DataInfo]
    BY <1>1 DEF SbmInit
  <1>b. held \in Seq(Slots) /\ Len(held) = 0
    BY DEF SbmInit
  <1>c. /\ pWriteAddr \in Addresses /\ nValidDataSize \in Int
        /\ nReadPos \in Slots /\ nWritePos \in Slots /\ nFlushPos \in Slots
        /\ nValidFrameNum \in 0 .. nMaxFrameNum
        /\ nUnReadFrameNum \in 0 .. nMaxFrameNum
    BY SbmAssumption DEF SbmInit, Addresses, Slots
  <1>2. SbmTypeOK
    BY <1>a, <1>b, <1>c DEF SbmInit, SbmTypeOK
  <1> QED
    BY <1>2, <1>b, SbmAssumption DEF SbmInit, RingInv, Positions, HeldInOrder,
                                        Ahead

\* Adding a frame, whether it is accepted or refused, keeps the invariant.
LEMMA AddRing ==
    ASSUME RingInv, NEW info \in DataInfo, SbmAddStream(info)
    PROVE  RingInv'
  <1>1. CASE ~SbmAddStreamAccepts(info)
    BY <1>1 DEF RingInv, SbmTypeOK, SbmAddStream, sbmVars, posVars, numVars,
                Positions, HeldInOrder
  <1>2. CASE SbmAddStreamAccepts(info)
    <2>1. /\ pFrames' = [pFrames EXCEPT ![nWritePos] = info]
          /\ nWritePos' = NextPos(nWritePos)
          /\ nValidFrameNum' = nValidFrameNum + 1
          /\ nUnReadFrameNum' = nUnReadFrameNum + 1
          /\ nValidDataSize' = nValidDataSize + info.nLength
          /\ pWriteAddr' = IF pWriteAddr + info.nLength > nStreamBufferSize - 1
                           THEN pWriteAddr + info.nLength - nStreamBufferSize
                           ELSE pWriteAddr + info.nLength
          /\ nReadPos' = nReadPos /\ nFlushPos' = nFlushPos /\ held' = held
      BY <1>2 DEF SbmAddStream
    <2>2. nValidFrameNum < nMaxFrameNum
      BY <1>2 DEF SbmAddStreamAccepts
    <2>3. /\ info.nLength \in 0 .. nStreamBufferSize
          /\ pWriteAddr \in 0 .. nStreamBufferSize - 1
          /\ nValidDataSize \in Int
          /\ pFrames \in [Slots -> DataInfo]
      BY DEF DataInfo, RingInv, SbmTypeOK, Addresses
    <2>4. /\ pWriteAddr' \in 0 .. nStreamBufferSize - 1
          /\ nValidDataSize' \in Int
      BY <2>1, <2>3, SbmAssumption
    <2>5. /\ nWritePos' \in Slots
          /\ nValidFrameNum' \in 0 .. nMaxFrameNum
          /\ nUnReadFrameNum' \in 0 .. nMaxFrameNum
      BY <2>1, <2>2, NumberTypes, AheadFacts DEF Positions
    <2>6. Positions' /\ HeldInOrder'
      <3>1. NextPos(nWritePos) = Ahead(nFlushPos, nValidFrameNum + 1)
        <4>1. NextPos(Ahead(nFlushPos, nValidFrameNum))
                = Ahead(nFlushPos, nValidFrameNum + 1)
          BY <2>2, NumberTypes, AheadFacts
        <4> QED
          BY <4>1, NumberTypes DEF Positions
      <3>2. Positions'
        BY <3>1, <2>1, NumberTypes DEF Positions
      <3>3. HeldInOrder'
        BY <2>1 DEF RingInv, HeldInOrder
      <3> QED
        BY <3>2, <3>3
    <2>7. pFrames' \in [Slots -> DataInfo]
      BY <2>1, <2>3
    <2>8. aborted' = aborted
      BY <1>2 DEF SbmAddStream
    <2> QED
      BY <2>1, <2>4, <2>5, <2>6, <2>7, <2>8
      DEF RingInv, SbmTypeOK, Addresses
  <1> QED
    BY <1>1, <1>2

\* Requesting a frame moves it from the unread frames to the held ones.
LEMMA RequestRing ==
    ASSUME RingInv, SbmRequestStream
    PROVE  RingInv'
  <1>1. held \in Seq(Slots) /\ nReadPos \in Slots
    BY DEF RingInv, SbmTypeOK
  <1>2. /\ held' \in Seq(Slots)
        /\ Len(held') = Len(held) + 1
        /\ \A i \in 1 .. Len(held) : held'[i] = held[i]
        /\ held'[Len(held) + 1] = nReadPos
    BY <1>1 DEF SbmRequestStream
  <1>3. /\ nUnReadFrameNum # 0
        /\ nReadPos' = NextPos(nReadPos)
        /\ nUnReadFrameNum' = nUnReadFrameNum - 1
        /\ nWritePos' = nWritePos /\ nFlushPos' = nFlushPos
        /\ nValidFrameNum' = nValidFrameNum
    BY DEF SbmRequestStream
  <1>4. NextPos(nReadPos) = Ahead(nFlushPos, Len(held) + 1)
    <2>1. Len(held) < nMaxFrameNum
      BY <1>3, NumberTypes DEF Positions
    <2>2. NextPos(Ahead(nFlushPos, Len(held))) = Ahead(nFlushPos, Len(held) + 1)
      BY <2>1, NumberTypes, AheadFacts
    <2> QED
      BY <2>2, NumberTypes DEF Positions
  <1>5. nReadPos' \in Slots /\ nUnReadFrameNum' \in 0 .. nMaxFrameNum
    BY <1>3, NumberTypes, AheadFacts
  <1>6. Positions'
    BY <1>2, <1>3, <1>4, NumberTypes DEF Positions
  <1>7. HeldInOrder'
    <2> SUFFICES ASSUME NEW i \in 1 .. Len(held')
                 PROVE  held'[i] = Ahead(nFlushPos, i - 1)
      BY <1>3 DEF HeldInOrder
    <2>1. CASE i \in 1 .. Len(held)
      BY <2>1, <1>2 DEF RingInv, HeldInOrder
    <2>2. CASE i = Len(held) + 1
      <3>1. i - 1 = Len(held)
        BY <2>2, NumberTypes
      <3> QED
        BY <3>1, <2>2, <1>2, NumberTypes DEF Positions
    <2> QED
      BY <2>1, <2>2, <1>2, NumberTypes
  <1>8. SbmTypeOK'
    BY <1>2, <1>5 DEF RingInv, SbmTypeOK, SbmRequestStream
  <1> QED
    BY <1>6, <1>7, <1>8 DEF RingInv, SbmRequestStream

\* Returning the newest held frame steps nReadPos back onto it, so that the
\* check before abort() succeeds.
LEMMA ReturnRing ==
    ASSUME RingInv, SbmReturnStream
    PROVE  RingInv'
  <1>1. held \in Seq(Slots) /\ Len(held) \in Nat \ {0}
    BY DEF RingInv, SbmTypeOK, SbmReturnStream
  <1>2. held' = SubSeq(held, 1, Len(held) - 1)
    BY DEF SbmReturnStream
  <1>3. /\ held' \in Seq(Slots)
        /\ Len(held') = Len(held) - 1
        /\ \A i \in 1 .. Len(held') : held'[i] = held[i]
    <2>1. \A i \in 1 .. Len(held) - 1 : held[i] \in Slots
      BY <1>1
    <2>2. Len(held) - 1 \in Int /\ 1 \in Int
      BY <1>1
    <2> DEFINE n == Len(held) - 1
               front == SubSeq(held, 1, n)
    <2>3. /\ front \in Seq(Slots)
          /\ Len(front) = IF 1 <= n THEN n - 1 + 1 ELSE 0
          /\ \A i \in 1 .. n - 1 + 1 : front[i] = held[1 + i - 1]
      BY <2>1, <2>2, SubSeqProperties
    <2>4. held' = front /\ n \in Nat /\ n = Len(held) - 1
      BY <1>1, <1>2
    <2> HIDE DEF n, front
    <2> QED
      BY <2>3, <2>4
  <1>4. held[Len(held)] = Ahead(nFlushPos, Len(held) - 1)
    BY <1>1 DEF RingInv, HeldInOrder
  <1>5. PrevPos(nReadPos) = Ahead(nFlushPos, Len(held) - 1)
    BY <1>1, NumberTypes, AheadFacts DEF Positions
  <1>6. nValidFrameNum # 0
    BY <1>1, NumberTypes DEF Positions
  <1>7. /\ nUnReadFrameNum' = nUnReadFrameNum + 1
        /\ nReadPos' = Ahead(nFlushPos, Len(held) - 1)
        /\ aborted' = aborted
        /\ UNCHANGED << pWriteAddr, nValidDataSize, pFrames, nWritePos,
                        nFlushPos, nValidFrameNum >>
    BY <1>4, <1>5, <1>6 DEF SbmReturnStream
  <1>8. nReadPos' \in Slots /\ nUnReadFrameNum' \in 0 .. nMaxFrameNum
    <2>1. Len(held) - 1 \in 0 .. nMaxFrameNum
      BY <1>1, NumberTypes
    <2> QED
      BY <2>1, <1>1, <1>7, NumberTypes, AheadFacts DEF Positions
  <1>9. Positions'
    BY <1>1, <1>3, <1>7, NumberTypes DEF Positions
  <1>10. HeldInOrder'
    BY SMTT(30), <1>1, <1>3, <1>7 DEF RingInv, HeldInOrder
  <1>11. SbmTypeOK'
    BY <1>3, <1>7, <1>8 DEF RingInv, SbmTypeOK
  <1> QED
    BY <1>7, <1>9, <1>10, <1>11 DEF RingInv

\* Flushing the oldest held frame: it is the one nFlushPos points to.
LEMMA FlushRing ==
    ASSUME RingInv, SbmFlushStream
    PROVE  RingInv'
  <1>1. held \in Seq(Slots) /\ Len(held) \in Nat \ {0}
    BY DEF RingInv, SbmTypeOK, SbmFlushStream
  <1>2. held' = Tail(held)
    BY DEF SbmFlushStream
  <1>3. /\ held' \in Seq(Slots)
        /\ Len(held') = Len(held) - 1
        /\ \A i \in 1 .. Len(held') : held'[i] = held[i + 1]
        /\ Head(held) = held[1]
    BY <1>1, <1>2
  <1>4. held[1] = nFlushPos
    <2>1. held[1] = Ahead(nFlushPos, 0)
      BY <1>1 DEF RingInv, HeldInOrder
    <2> QED
      BY <2>1, <1>1, NumberTypes, AheadFacts
  <1>5. nValidFrameNum # 0
    BY <1>1, NumberTypes DEF Positions
  <1>6. /\ nFlushPos' = NextPos(nFlushPos)
        /\ nValidFrameNum' = nValidFrameNum - 1
        /\ nValidDataSize' = nValidDataSize - pFrames[nFlushPos].nLength
        /\ aborted' = aborted
        /\ UNCHANGED << pWriteAddr, pFrames, nReadPos, nWritePos,
                        nUnReadFrameNum >>
    BY <1>3, <1>4, <1>5 DEF SbmFlushStream
  <1>7. nValidDataSize' \in Int
    <2>1. pFrames[nFlushPos].nLength \in Int /\ nValidDataSize \in Int
      BY SbmAssumption DEF RingInv, SbmTypeOK, DataInfo
    <2> QED
      BY <2>1, <1>6
  <1>8. /\ nFlushPos' \in Slots
        /\ nValidFrameNum' \in 0 .. nMaxFrameNum
    BY <1>5, <1>6, NumberTypes, AheadFacts
  <1>9. Positions'
    <2>1. Ahead(nFlushPos', Len(held')) = Ahead(nFlushPos, Len(held))
      BY <1>1, <1>3, <1>6, NumberTypes, AheadFacts
    <2>2. Ahead(nFlushPos', nValidFrameNum') = Ahead(nFlushPos, nValidFrameNum)
      BY <1>5, <1>6, NumberTypes, AheadFacts
    <2> QED
      BY <2>1, <2>2, <1>1, <1>3, <1>6, NumberTypes DEF Positions
  <1>10. HeldInOrder'
    <2> SUFFICES ASSUME NEW i \in 1 .. Len(held')
                 PROVE  held'[i] = Ahead(nFlushPos', i - 1)
      BY DEF HeldInOrder
    <2>1. i + 1 \in 1 .. Len(held) /\ i \in 1 .. nMaxFrameNum
      BY <1>1, <1>3, NumberTypes
    <2>2. held'[i] = Ahead(nFlushPos, i)
      BY <2>1, <1>1, <1>3 DEF RingInv, HeldInOrder
    <2> QED
      BY <2>1, <2>2, <1>6, NumberTypes, AheadFacts
  <1>11. SbmTypeOK'
    BY <1>3, <1>6, <1>7, <1>8 DEF RingInv, SbmTypeOK
  <1> QED
    BY <1>6, <1>9, <1>10, <1>11 DEF RingInv

\* A reset empties the rings and makes the engine forget its frames.
LEMMA ResetRing ==
    ASSUME RingInv, SbmReset
    PROVE  RingInv'
  BY SbmAssumption DEF RingInv, SbmTypeOK, SbmReset, Slots, Positions,
                       HeldInOrder, Ahead

\* The invariant of the rings holds in every reachable state, for every size
\* of the byte ring and of the frame ring.
THEOREM RingInvariant == SbmSpec => []RingInv
  <1>1. RingInv /\ [SbmNext]_sbmVars => RingInv'
    <2> SUFFICES ASSUME RingInv, [SbmNext]_sbmVars PROVE RingInv'
      OBVIOUS
    <2>1. CASE \E info \in DataInfo : SbmAddStream(info)
      BY <2>1, AddRing
    <2>2. CASE SbmRequestStream
      BY <2>2, RequestRing
    <2>3. CASE SbmReturnStream
      BY <2>3, ReturnRing
    <2>4. CASE SbmFlushStream
      BY <2>4, FlushRing
    <2>5. CASE SbmReset
      BY <2>5, ResetRing
    <2>6. CASE UNCHANGED sbmVars
      BY <2>6 DEF RingInv, SbmTypeOK, sbmVars, posVars, numVars,
                    Positions, HeldInOrder
    <2> QED
      BY <2>1, <2>2, <2>3, <2>4, <2>5, <2>6 DEF SbmNext
  <1> QED
    BY InitRing, <1>1, PTL DEF SbmSpec

\* SbmStream's variables keep their types.
THEOREM SbmTypeCorrect == SbmSpec => []SbmTypeOK
  <1>1. RingInv => SbmTypeOK
    BY DEF RingInv
  <1> QED
    BY <1>1, RingInvariant, PTL

\* SbmStreamReturnStream and SbmStreamFlushStream never call abort() for an
\* engine that flushes in order and returns in reverse order.
THEOREM NeverAbortsAlways == SbmSpec => []NeverAborts
  <1>1. RingInv => NeverAborts
    BY DEF RingInv, NeverAborts
  <1> QED
    BY <1>1, RingInvariant, PTL

-----------------------------------------------------------------------------
(* The two rings implement the abstract queue of SbmFifo.                  *)

\* Offsets from the same position of the frame ring add up.
LEMMA AheadAdds ==
    ASSUME NEW pos \in Slots, NEW m \in Nat, NEW n \in Nat,
           m + n <= nMaxFrameNum
    PROVE  Ahead(Ahead(pos, m), n) = Ahead(pos, m + n)
  BY SbmAssumption DEF Ahead, Slots

\* Different offsets from a position of the frame ring are different slots.
LEMMA AheadInjective ==
    ASSUME NEW pos \in Slots, NEW m \in 0 .. nMaxFrameNum - 1,
           NEW n \in 0 .. nMaxFrameNum - 1, m # n
    PROVE  Ahead(pos, m) # Ahead(pos, n)
  BY SbmAssumption DEF Ahead, Slots

\* Entry k of the frame ring, counted from the flush position.
Entry(k) == pFrames[Ahead(nFlushPos, k)]

\* Taken and Waiting are sequences of ring entries: the held frames and the
\* ones after them.
MappingFacts ==
    /\ Taken \in Seq(DataInfo) /\ Len(Taken) = Len(held)
    /\ \A i \in 1 .. Len(held) : Taken[i] = Entry(i - 1)
    /\ Waiting \in Seq(DataInfo) /\ Len(Waiting) = nUnReadFrameNum
    /\ \A i \in 1 .. nUnReadFrameNum : Waiting[i] = Entry(Len(held) + i - 1)
    /\ \A k \in 0 .. nMaxFrameNum : Entry(k) \in DataInfo

\* The refinement mapping in terms of the entries.
LEMMA Mapping == RingInv => MappingFacts
  <1> SUFFICES ASSUME RingInv PROVE MappingFacts
    OBVIOUS
  <1>1. pFrames \in [Slots -> DataInfo]
    BY DEF RingInv, SbmTypeOK
  <1>2. nValidFrameNum - nUnReadFrameNum = Len(held)
    BY NumberTypes DEF Positions
  <1>3. ASSUME NEW k \in 0 .. nMaxFrameNum PROVE Entry(k) \in DataInfo
    BY <1>1, NumberTypes, AheadFacts DEF Entry
  <1>4. ASSUME NEW i \in 1 .. nUnReadFrameNum
        PROVE  /\ Ahead(nReadPos, i - 1) = Ahead(nFlushPos, Len(held) + i - 1)
               /\ Len(held) + i - 1 \in 0 .. nMaxFrameNum
    <2>1. /\ i - 1 \in Nat /\ Len(held) \in Nat
          /\ Len(held) + (i - 1) <= nMaxFrameNum
          /\ Len(held) + (i - 1) = Len(held) + i - 1
          /\ Len(held) + i - 1 \in 0 .. nMaxFrameNum
      BY NumberTypes DEF Positions
    <2>2. Ahead(Ahead(nFlushPos, Len(held)), i - 1)
            = Ahead(nFlushPos, Len(held) + (i - 1))
      BY <2>1, NumberTypes, AheadAdds
    <2> QED
      BY <2>1, <2>2, NumberTypes DEF Positions
  <1>5. Waiting = [i \in 1 .. nUnReadFrameNum |-> Entry(Len(held) + i - 1)]
    BY <1>4 DEF Waiting, Entry
  <1>6. Taken = [i \in 1 .. Len(held) |-> Entry(i - 1)]
    BY <1>2 DEF Taken, Entry
  <1>7. \A i \in 1 .. Len(held) : i - 1 \in 0 .. nMaxFrameNum
    BY NumberTypes
  <1>8. Taken \in Seq(DataInfo) /\ Len(Taken) = Len(held)
    <2>1. Len(held) \in Nat
      BY NumberTypes
    <2>2. \A i \in 1 .. Len(held) : Entry(i - 1) \in DataInfo
      BY <1>3, <1>7
    <2> QED
      BY <2>1, <2>2, <1>6
  <1>9. Waiting \in Seq(DataInfo) /\ Len(Waiting) = nUnReadFrameNum
    <2>1. nUnReadFrameNum \in Nat
      BY NumberTypes
    <2>2. \A i \in 1 .. nUnReadFrameNum : Entry(Len(held) + i - 1) \in DataInfo
      BY <1>3, <1>4
    <2> QED
      BY <2>1, <2>2, <1>5
  <1> QED
    BY <1>3, <1>5, <1>6, <1>8, <1>9 DEF MappingFacts

\* An accepted frame becomes the last entry and overwrites none in use.
LEMMA AddEntries ==
    ASSUME RingInv, NEW info \in DataInfo, SbmAddStream(info),
           SbmAddStreamAccepts(info)
    PROVE  /\ \A k \in 0 .. nValidFrameNum - 1 :
                pFrames'[Ahead(nFlushPos', k)] = Entry(k)
           /\ pFrames'[Ahead(nFlushPos', nValidFrameNum)] = info
  <1>1. /\ pFrames' = [pFrames EXCEPT ![nWritePos] = info]
        /\ nUnReadFrameNum' = nUnReadFrameNum + 1
        /\ nFlushPos' = nFlushPos /\ held' = held
        /\ nValidFrameNum < nMaxFrameNum
    BY DEF SbmAddStream, SbmAddStreamAccepts
  <1>2. /\ nWritePos = Ahead(nFlushPos, nValidFrameNum)
        /\ nValidFrameNum = Len(held) + nUnReadFrameNum
        /\ Len(held) \in Nat /\ nUnReadFrameNum \in Nat
        /\ nValidFrameNum \in 0 .. nMaxFrameNum - 1
    BY <1>1, NumberTypes DEF Positions
  <1>3. pFrames \in [Slots -> DataInfo] /\ nFlushPos \in Slots
    BY DEF RingInv, SbmTypeOK
  <1>4. ASSUME NEW k \in 0 .. nValidFrameNum - 1
        PROVE  pFrames'[Ahead(nFlushPos', k)] = Entry(k)
    <2>1. k \in 0 .. nMaxFrameNum - 1 /\ k # nValidFrameNum
      BY <1>2, SbmAssumption
    <2>2. Ahead(nFlushPos, k) # nWritePos
      <3>1. Ahead(nFlushPos, k) # Ahead(nFlushPos, nValidFrameNum)
        BY <2>1, <1>2, <1>3, AheadInjective
      <3> QED
        BY <3>1, <1>2
    <2>3. k \in 0 .. nMaxFrameNum
      BY <2>1, SbmAssumption
    <2>4. Ahead(nFlushPos, k) \in Slots
      BY <2>3, <1>3, AheadFacts
    <2> QED
      BY <2>2, <2>4, <1>1, <1>3 DEF Entry
  <1>5. pFrames'[Ahead(nFlushPos', nValidFrameNum)] = info
    BY <1>1, <1>2, <1>3, NumberTypes
  <1> QED
    BY <1>4, <1>5

\* A flushed frame was entry 0; the others are counted from the one after it.
LEMMA FlushEntries ==
    ASSUME RingInv, RingInv', SbmFlushStream
    PROVE  /\ nValidFrameNum # 0
           /\ nValidFrameNum' = nValidFrameNum - 1
           /\ nValidDataSize' = nValidDataSize - Entry(0).nLength
           /\ pWriteAddr' = pWriteAddr
           /\ \A k \in 0 .. nMaxFrameNum - 1 :
                pFrames'[Ahead(nFlushPos', k)] = Entry(k + 1)
  <1>1. held # << >> /\ held \in Seq(Slots)
    BY DEF SbmFlushStream, RingInv, SbmTypeOK
  <1>2. nValidFrameNum # 0 /\ ~aborted'
    BY <1>1, NumberTypes DEF RingInv, Positions
  <1>3. /\ nFlushPos' = NextPos(nFlushPos)
        /\ nValidFrameNum' = nValidFrameNum - 1
        /\ nValidDataSize' = nValidDataSize - pFrames[nFlushPos].nLength
        /\ pWriteAddr' = pWriteAddr /\ pFrames' = pFrames
    BY <1>2 DEF SbmFlushStream
  <1>4. Ahead(nFlushPos, 0) = nFlushPos
    BY NumberTypes, AheadFacts
  <1>5. ASSUME NEW k \in 0 .. nMaxFrameNum - 1
        PROVE  pFrames'[Ahead(nFlushPos', k)] = Entry(k + 1)
    <2>1. k + 1 \in 0 .. nMaxFrameNum /\ k + 1 > 0 /\ (k + 1) - 1 = k
      BY NumberTypes
    <2>2. Ahead(NextPos(nFlushPos), (k + 1) - 1) = Ahead(nFlushPos, k + 1)
      BY <2>1, NumberTypes, AheadFacts
    <2> QED
      BY <2>1, <2>2, <1>3 DEF Entry
  <1> QED
    BY <1>2, <1>3, <1>4, <1>5 DEF Entry

\* An accepted frame is appended to the waiting ones and overwrites none of
\* the entries in use.
LEMMA AddImplements ==
    ASSUME RingInv, RingInv', NEW info \in DataInfo, SbmAddStream(info),
           SbmAddStreamAccepts(info)
    PROVE  Fifo!Add
  <1>1. /\ nUnReadFrameNum' = nUnReadFrameNum + 1
        /\ nFlushPos' = nFlushPos /\ held' = held
        /\ nValidFrameNum < nMaxFrameNum
    BY DEF SbmAddStream, SbmAddStreamAccepts
  <1>2. /\ nValidFrameNum = Len(held) + nUnReadFrameNum
        /\ Len(held) \in Nat /\ nUnReadFrameNum \in Nat
        /\ nValidFrameNum \in 0 .. nMaxFrameNum - 1
    BY <1>1, NumberTypes DEF Positions
  <1>4. \A k \in 0 .. nValidFrameNum - 1 :
          pFrames'[Ahead(nFlushPos', k)] = Entry(k)
    BY AddEntries
  <1>5. pFrames'[Ahead(nFlushPos', nValidFrameNum)] = info
    BY AddEntries
  <1>6. MappingFacts /\ MappingFacts'
    BY Mapping, PTL
  <1>7. Taken' = Taken
    <2>1. \A i \in 1 .. Len(held) : i - 1 \in 0 .. nValidFrameNum - 1
      BY <1>2
    <2>2. \A i \in 1 .. Len(held) : Taken'[i] = Taken[i]
      BY <2>1, <1>1, <1>4, <1>6 DEF MappingFacts, Entry
    <2> QED
      BY <2>2, <1>1, <1>6, SeqEqual DEF MappingFacts
  <1>8. Waiting' = Append(Waiting, info)
    <2>1. /\ Waiting \in Seq(DataInfo) /\ Waiting' \in Seq(DataInfo)
          /\ Len(Waiting) = nUnReadFrameNum
          /\ Len(Waiting') = nUnReadFrameNum + 1
      BY <1>1, <1>6 DEF MappingFacts
    <2>2. ASSUME NEW i \in 1 .. nUnReadFrameNum
          PROVE  Waiting'[i] = Waiting[i]
      <3>1. /\ Len(held) + i - 1 \in 0 .. nValidFrameNum - 1
            /\ i \in 1 .. nUnReadFrameNum + 1
        BY <1>2
      <3>2. Waiting'[i] = pFrames'[Ahead(nFlushPos', Len(held) + i - 1)]
        BY <3>1, <1>1, <1>6 DEF MappingFacts, Entry
      <3> QED
        BY <3>1, <3>2, <1>4, <1>6 DEF MappingFacts
    <2>3. Waiting'[nUnReadFrameNum + 1] = info
      <3>1. /\ nUnReadFrameNum + 1 \in 1 .. nUnReadFrameNum + 1
            /\ Len(held) + (nUnReadFrameNum + 1) - 1 = nValidFrameNum
        BY <1>2
      <3> QED
        BY <3>1, <1>1, <1>5, <1>6 DEF MappingFacts, Entry
    <2> DEFINE w == Append(Waiting, info)
    <2>4. /\ w \in Seq(DataInfo) /\ Len(w) = nUnReadFrameNum + 1
          /\ \A i \in 1 .. nUnReadFrameNum : w[i] = Waiting[i]
          /\ w[nUnReadFrameNum + 1] = info
      BY <2>1, AppendProperties
    <2>5. \A i \in 1 .. nUnReadFrameNum + 1 : Waiting'[i] = w[i]
      BY <2>2, <2>3, <2>4, <1>2
    <2> HIDE DEF w
    <2>6. Waiting' = w
      BY <2>1, <2>4, <2>5, SeqEqual
    <2> QED
      BY <2>6 DEF w
  <1>9. Len(Taken) + Len(Waiting) < nMaxFrameNum
    BY <1>1, <1>2, <1>6 DEF MappingFacts
  <1> QED
    BY <1>7, <1>8, <1>9 DEF Fifo!Add

\* A requested frame moves from the head of the waiting frames to the taken
\* ones.
LEMMA RequestImplements ==
    ASSUME RingInv, RingInv', SbmRequestStream
    PROVE  Fifo!Take
  <1>1. /\ nUnReadFrameNum # 0
        /\ nUnReadFrameNum' = nUnReadFrameNum - 1
        /\ pFrames' = pFrames /\ nFlushPos' = nFlushPos
    BY DEF SbmRequestStream
  <1>2. /\ nUnReadFrameNum \in Nat \ {0} /\ Len(held) \in Nat
        /\ held \in Seq(Slots) /\ nReadPos \in Slots
    BY <1>1, NumberTypes DEF RingInv, SbmTypeOK
  <1>3. Len(held') = Len(held) + 1
    BY <1>2 DEF SbmRequestStream
  <1>4. MappingFacts /\ MappingFacts'
    BY Mapping, PTL
  <1>5. /\ Waiting \in Seq(DataInfo) /\ Waiting' \in Seq(DataInfo)
        /\ Len(Waiting) = nUnReadFrameNum
        /\ Len(Waiting') = nUnReadFrameNum - 1
        /\ Taken \in Seq(DataInfo) /\ Taken' \in Seq(DataInfo)
        /\ Len(Taken) = Len(held) /\ Len(Taken') = Len(held) + 1
    BY <1>1, <1>3, <1>4 DEF MappingFacts
  <1>6. \A i \in 1 .. nUnReadFrameNum - 1 : Waiting'[i] = Waiting[i + 1]
    <2> TAKE i \in 1 .. nUnReadFrameNum - 1
    <2>1. /\ i + 1 \in 1 .. nUnReadFrameNum
          /\ (Len(held) + 1) + i - 1 = Len(held) + (i + 1) - 1
      BY <1>2
    <2> QED
      BY SMTT(30), <2>1, <1>1, <1>3, <1>4 DEF MappingFacts, Entry
  <1>7. Waiting' = Tail(Waiting)
    <2>1. /\ Tail(Waiting) \in Seq(DataInfo)
          /\ Len(Tail(Waiting)) = nUnReadFrameNum - 1
          /\ \A i \in 1 .. nUnReadFrameNum - 1 :
               Tail(Waiting)[i] = Waiting[i + 1]
      BY <1>2, <1>5
    <2> QED
      BY <2>1, <1>5, <1>6, SeqEqual
  <1>8. \A i \in 1 .. Len(held) : Taken'[i] = Taken[i]
    <2>1. \A i \in 1 .. Len(held) : i \in 1 .. Len(held) + 1
      BY <1>2
    <2> QED
      BY <2>1, <1>1, <1>3, <1>4 DEF MappingFacts, Entry
  <1>9. Taken'[Len(held) + 1] = Waiting[1]
    <2>1. /\ Len(held) + 1 \in 1 .. Len(held) + 1
          /\ 1 \in 1 .. nUnReadFrameNum
          /\ (Len(held) + 1) - 1 = Len(held) + 1 - 1
      BY <1>2
    <2> QED
      BY <2>1, <1>1, <1>3, <1>4 DEF MappingFacts, Entry
  <1>10. Taken' = Append(Taken, Head(Waiting))
    <2>1. Head(Waiting) = Waiting[1] /\ Waiting[1] \in DataInfo
      BY <1>2, <1>5
    <2> DEFINE t == Append(Taken, Waiting[1])
    <2>2. /\ t \in Seq(DataInfo) /\ Len(t) = Len(held) + 1
          /\ \A i \in 1 .. Len(held) : t[i] = Taken[i]
          /\ t[Len(held) + 1] = Waiting[1]
      BY <2>1, <1>5, AppendProperties
    <2>3. \A i \in 1 .. Len(held) + 1 : Taken'[i] = t[i]
      BY <2>2, <1>2, <1>8, <1>9
    <2> HIDE DEF t
    <2>4. Taken' = t
      BY <2>2, <2>3, <1>5, SeqEqual
    <2> QED
      BY <2>1, <2>4 DEF t
  <1>11. Waiting # << >>
    BY <1>2, <1>5
  <1> QED
    BY <1>7, <1>10, <1>11 DEF Fifo!Take

\* Prepending an element.
LEMMA PushFront ==
    ASSUME NEW S, NEW x \in S, NEW q \in Seq(S)
    PROVE  /\ << x >> \o q \in Seq(S)
           /\ Len(<< x >> \o q) = Len(q) + 1
           /\ (<< x >> \o q)[1] = x
           /\ \A i \in 1 .. Len(q) : (<< x >> \o q)[i + 1] = q[i]
  <1>1. << x >> \in Seq(S) /\ Len(<< x >>) = 1 /\ << x >>[1] = x
    OBVIOUS
  <1> DEFINE first == << x >>
             w == first \o q
  <1>2. first \in Seq(S)
    BY <1>1
  <1>3. /\ w \in Seq(S)
        /\ Len(w) = Len(first) + Len(q)
        /\ \A i \in 1 .. Len(first) + Len(q) :
             w[i] = IF i <= Len(first) THEN first[i] ELSE q[i - Len(first)]
    <2> HIDE DEF first
    <2> QED
      BY <1>2, ConcatProperties
  <1>4. Len(first) = 1 /\ first[1] = x /\ Len(q) \in Nat
    BY <1>1
  <1> HIDE DEF first, w
  <1>5. \A i \in 1 .. Len(q) : w[i + 1] = q[i]
    <2> TAKE i \in 1 .. Len(q)
    <2>1. i + 1 \in 1 .. 1 + Len(q) /\ ~(i + 1 <= 1) /\ (i + 1) - 1 = i
      BY <1>4
    <2> QED
      BY <2>1, <1>3, <1>4
  <1>6. w \in Seq(S) /\ Len(w) = Len(q) + 1 /\ w[1] = x
    BY <1>3, <1>4
  <1> QED
    BY <1>5, <1>6 DEF w, first

\* A returned frame goes back to the head of the waiting frames.
LEMMA ReturnImplements ==
    ASSUME RingInv, RingInv', SbmReturnStream
    PROVE  Fifo!PutBack
  <1>1. held # << >> /\ held \in Seq(Slots)
    BY DEF SbmReturnStream, RingInv, SbmTypeOK
  <1>2. /\ Len(held) \in Nat \ {0} /\ nUnReadFrameNum \in Nat
        /\ nValidFrameNum = nUnReadFrameNum + Len(held)
    BY <1>1, NumberTypes DEF Positions
  <1>3. nValidFrameNum # 0
    BY <1>2
  <1>4. /\ nUnReadFrameNum' = nUnReadFrameNum + 1
        /\ pFrames' = pFrames /\ nFlushPos' = nFlushPos
        /\ nValidFrameNum' = nValidFrameNum
    BY <1>3 DEF SbmReturnStream
  <1>5. /\ Len(held') \in Nat
        /\ nValidFrameNum' = nUnReadFrameNum' + Len(held')
    <2>1. held' \in Seq(Slots) /\ Positions'
      BY DEF RingInv, SbmTypeOK
    <2> QED
      BY <2>1 DEF Positions
  <1>6. Len(held') = Len(held) - 1
    BY <1>2, <1>4, <1>5
  <1>7. MappingFacts /\ MappingFacts'
    BY Mapping, PTL
  <1>8. /\ Waiting \in Seq(DataInfo) /\ Waiting' \in Seq(DataInfo)
        /\ Len(Waiting) = nUnReadFrameNum
        /\ Len(Waiting') = nUnReadFrameNum + 1
        /\ Taken \in Seq(DataInfo) /\ Taken' \in Seq(DataInfo)
        /\ Len(Taken) = Len(held) /\ Len(Taken') = Len(held) - 1
    BY <1>4, <1>6, <1>7 DEF MappingFacts
  <1>9. \A i \in 1 .. Len(held) - 1 : Taken'[i] = Taken[i]
    <2>1. \A i \in 1 .. Len(held) - 1 : i \in 1 .. Len(held)
      BY <1>2
    <2> QED
      BY <2>1, <1>4, <1>6, <1>7 DEF MappingFacts, Entry
  <1>10. Taken' = SubSeq(Taken, 1, Len(Taken) - 1)
    <2> DEFINE n == Len(held) - 1
               front == SubSeq(Taken, 1, n)
    <2>1. /\ \A i \in 1 .. n : Taken[i] \in DataInfo
          /\ n \in Int /\ 1 \in Int
      BY <1>2, <1>8
    <2>2. /\ front \in Seq(DataInfo)
          /\ Len(front) = IF 1 <= n THEN n - 1 + 1 ELSE 0
          /\ \A i \in 1 .. n - 1 + 1 : front[i] = Taken[1 + i - 1]
      BY <2>1, SubSeqProperties
    <2>3. n \in Nat /\ n = Len(held) - 1
      BY <1>2
    <2> HIDE DEF n, front
    <2>4. Len(front) = n /\ \A i \in 1 .. n : front[i] = Taken[i]
      BY <2>2, <2>3
    <2>5. Taken' = front
      BY <2>2, <2>3, <2>4, <1>8, <1>9, SeqEqual
    <2> QED
      BY <2>3, <2>5, <1>8 DEF front
  <1>11. Waiting'[1] = Taken[Len(held)]
    <2>1. /\ 1 \in 1 .. nUnReadFrameNum + 1
          /\ Len(held) \in 1 .. Len(held)
          /\ (Len(held) - 1) + 1 - 1 = Len(held) - 1
      BY <1>2
    <2>2. Waiting'[1] = pFrames'[Ahead(nFlushPos', (Len(held) - 1) + 1 - 1)]
      BY <2>1, <1>4, <1>6, <1>7 DEF MappingFacts, Entry
    <2>3. Taken[Len(held)] = Entry(Len(held) - 1)
      BY <2>1, <1>7 DEF MappingFacts
    <2> QED
      BY <2>1, <2>2, <2>3, <1>4 DEF Entry
  <1>12. \A i \in 1 .. nUnReadFrameNum : Waiting'[i + 1] = Waiting[i]
    <2> TAKE i \in 1 .. nUnReadFrameNum
    <2>1. /\ i + 1 \in 1 .. nUnReadFrameNum + 1
          /\ (Len(held) - 1) + (i + 1) - 1 = Len(held) + i - 1
      BY <1>2
    <2>2. \A j \in 1 .. nUnReadFrameNum + 1 :
            Waiting'[j] = pFrames'[Ahead(nFlushPos', (Len(held) - 1) + j - 1)]
      BY <1>4, <1>6, <1>7 DEF MappingFacts, Entry
    <2>3. Waiting'[i + 1] =
            pFrames'[Ahead(nFlushPos', (Len(held) - 1) + (i + 1) - 1)]
      BY <2>1, <2>2
    <2>4. Waiting[i] = Entry(Len(held) + i - 1)
      BY <1>7 DEF MappingFacts
    <2> QED
      BY <2>1, <2>3, <2>4, <1>4 DEF Entry
  <1>13. Waiting' = << Taken[Len(Taken)] >> \o Waiting
    <2> DEFINE x == Taken[Len(held)]
               w == << x >> \o Waiting
    <2>1. x \in DataInfo
      BY <1>2, <1>8
    <2>2. /\ w \in Seq(DataInfo)
          /\ Len(w) = nUnReadFrameNum + 1
          /\ w[1] = x
          /\ \A i \in 1 .. nUnReadFrameNum : w[i + 1] = Waiting[i]
      BY <2>1, <1>8, PushFront
    <2> HIDE DEF w
    <2>3. \A i \in 1 .. nUnReadFrameNum + 1 : Waiting'[i] = w[i]
      <3> TAKE i \in 1 .. nUnReadFrameNum + 1
      <3>1. CASE i = 1
        BY <3>1, <2>2, <1>11
      <3>2. CASE i # 1
        <4>1. i - 1 \in 1 .. nUnReadFrameNum /\ (i - 1) + 1 = i
          BY <3>2, <1>2
        <4> QED
          BY <4>1, <2>2, <1>12
      <3> QED
        BY <3>1, <3>2
    <2>4. Waiting' = w
      BY <2>2, <2>3, <1>2, <1>8, SeqEqual
    <2> QED
      BY <2>4, <1>8 DEF w
  <1>14. Taken # << >>
    BY <1>2, <1>8
  <1> QED
    BY <1>10, <1>13, <1>14 DEF Fifo!PutBack

\* A flushed frame leaves the taken ones; the frames behind it keep their
\* entries although they are counted from the next position.
LEMMA FlushImplements ==
    ASSUME RingInv, RingInv', SbmFlushStream
    PROVE  Fifo!Drop
  <1>1. held # << >> /\ held \in Seq(Slots)
    BY DEF SbmFlushStream, RingInv, SbmTypeOK
  <1>2. /\ Len(held) \in Nat \ {0} /\ nUnReadFrameNum \in Nat
        /\ nValidFrameNum = nUnReadFrameNum + Len(held)
        /\ nValidFrameNum <= nMaxFrameNum
        /\ nMaxFrameNum \in Nat
    BY <1>1, NumberTypes DEF Positions
  <1>3. nValidFrameNum # 0 /\ ~aborted'
    BY <1>2 DEF RingInv
  <1>5. /\ pFrames' = pFrames
        /\ nUnReadFrameNum' = nUnReadFrameNum
        /\ held' = Tail(held)
    BY DEF SbmFlushStream
  <1>6. Len(held') = Len(held) - 1
    BY <1>1, <1>2, <1>5
  <1>7. MappingFacts /\ MappingFacts'
    BY Mapping, PTL
  <1>8. \A k \in 0 .. nMaxFrameNum - 1 :
          pFrames'[Ahead(nFlushPos', k)] = Entry(k + 1)
    BY FlushEntries
  <1>9. /\ Waiting \in Seq(DataInfo) /\ Waiting' \in Seq(DataInfo)
        /\ Len(Waiting) = nUnReadFrameNum /\ Len(Waiting') = nUnReadFrameNum
        /\ Taken \in Seq(DataInfo) /\ Taken' \in Seq(DataInfo)
        /\ Len(Taken) = Len(held) /\ Len(Taken') = Len(held) - 1
    BY <1>5, <1>6, <1>7 DEF MappingFacts
  <1>10. \A i \in 1 .. Len(held) - 1 : Taken'[i] = Taken[i + 1]
    <2> TAKE i \in 1 .. Len(held) - 1
    <2>1. /\ i - 1 \in 0 .. nMaxFrameNum - 1
          /\ i + 1 \in 1 .. Len(held) /\ (i - 1) + 1 = (i + 1) - 1
      BY <1>2
    <2>2. Taken'[i] = pFrames'[Ahead(nFlushPos', i - 1)]
      BY <1>6, <1>7 DEF MappingFacts, Entry
    <2>3. Taken[i + 1] = Entry((i + 1) - 1)
      BY <2>1, <1>7 DEF MappingFacts
    <2> QED
      BY <2>1, <2>2, <2>3, <1>8
  <1>11. \A i \in 1 .. nUnReadFrameNum : Waiting'[i] = Waiting[i]
    <2> TAKE i \in 1 .. nUnReadFrameNum
    <2>1. /\ (Len(held) - 1) + i - 1 \in 0 .. nMaxFrameNum - 1
          /\ ((Len(held) - 1) + i - 1) + 1 = Len(held) + i - 1
      BY <1>2
    <2>2. Waiting'[i] = pFrames'[Ahead(nFlushPos', (Len(held) - 1) + i - 1)]
      BY <1>5, <1>6, <1>7 DEF MappingFacts, Entry
    <2>3. Waiting[i] = Entry(Len(held) + i - 1)
      BY <1>7 DEF MappingFacts
    <2> QED
      BY <2>1, <2>2, <2>3, <1>8
  <1>12. Waiting' = Waiting
    BY <1>9, <1>11, SeqEqual
  <1>13. Taken' = Tail(Taken)
    <2>1. /\ Tail(Taken) \in Seq(DataInfo)
          /\ Len(Tail(Taken)) = Len(held) - 1
          /\ \A i \in 1 .. Len(held) - 1 : Tail(Taken)[i] = Taken[i + 1]
      BY <1>2, <1>9
    <2> QED
      BY <2>1, <1>9, <1>10, SeqEqual
  <1>14. Taken # << >>
    BY <1>2, <1>9
  <1> QED
    BY <1>12, <1>13, <1>14 DEF Fifo!Drop

\* Empty rings are the empty queue.
LEMMA EmptyIsEmpty ==
    ASSUME nValidFrameNum = 0, nUnReadFrameNum = 0
    PROVE  Taken = << >> /\ Waiting = << >>
  BY DEF Taken, Waiting

\* The frame ring of sbmStream.c implements the first-in first-out queue with
\* put-back and drop of SbmFifo, for every ring size: what the function
\* summaries promise the engine.
THEOREM RingImplementsFifo == SbmSpec => ImplementsFifo
  <1>1. SbmInit => Fifo!Init
    BY EmptyIsEmpty DEF SbmInit, Fifo!Init
  <1>2. RingInv /\ RingInv' /\ [SbmNext]_sbmVars
          => [Fifo!Next]_<< Taken, Waiting >>
    <2> SUFFICES ASSUME RingInv, RingInv', [SbmNext]_sbmVars
                 PROVE  [Fifo!Next]_<< Taken, Waiting >>
      OBVIOUS
    <2>1. CASE \E info \in DataInfo : SbmAddStream(info)
      <3>1. PICK info \in DataInfo : SbmAddStream(info)
        BY <2>1
      <3>2. CASE SbmAddStreamAccepts(info)
        BY <3>1, <3>2, AddImplements DEF Fifo!Next
      <3>3. CASE ~SbmAddStreamAccepts(info)
        BY <3>1, <3>3 DEF SbmAddStream, sbmVars, posVars, numVars, Taken,
                          Waiting, Ahead
      <3> QED
        BY <3>2, <3>3
    <2>2. CASE SbmRequestStream
      BY <2>2, RequestImplements DEF Fifo!Next
    <2>3. CASE SbmReturnStream
      BY <2>3, ReturnImplements DEF Fifo!Next
    <2>4. CASE SbmFlushStream
      BY <2>4, FlushImplements DEF Fifo!Next
    <2>5. CASE SbmReset
      <3>1. Taken' = << >> /\ Waiting' = << >>
        BY <2>5 DEF SbmReset, Taken, Waiting
      <3> QED
        BY <3>1 DEF Fifo!Next, Fifo!Reset
    <2>6. CASE UNCHANGED sbmVars
      BY <2>6 DEF sbmVars, posVars, numVars, Taken, Waiting, Ahead
    <2> QED
      BY <2>1, <2>2, <2>3, <2>4, <2>5, <2>6 DEF SbmNext
  <1> QED
    BY <1>1, <1>2, RingInvariant, PTL DEF SbmSpec, ImplementsFifo, Fifo!Spec

-----------------------------------------------------------------------------
(* The bytes in use.  The least member of a set of naturals gives induction *)
(* over the recursive definition of FrameSums.                             *)

\* The order of the naturals as a relation.
LEMMA NatLess == \A x, y \in Nat : x < y <=> << x, y >> \in OpToRel(<, Nat)
  BY Zenon DEF OpToRel

\* A set of naturals has a least member.
LEMMA LeastNat ==
    ASSUME NEW T, T \subseteq Nat, T # {}
    PROVE  \E m \in T : \A k \in T : m <= k
  <1>1. \E x \in T : \A y \in T : ~ (<<y, x>> \in OpToRel(<, Nat))
    BY NatLessThanWellFounded, WFMin, Zenon
  <1>2. PICK m \in T : \A y \in T : ~ (<<y, m>> \in OpToRel(<, Nat))
    BY <1>1
  <1>3. \A y \in T : ~(y < m)
    BY <1>2, NatLess
  <1> QED
    BY <1>3

\* Induction over the naturals, for a set in place of a predicate.
LEMMA NatSetInduction ==
    ASSUME NEW T, 0 \in T, \A n \in Nat : n \in T => n + 1 \in T
    PROVE  \A n \in Nat : n \in T
  <1> DEFINE gaps == Nat \ T
  <1>1. SUFFICES ASSUME gaps # {} PROVE FALSE
    OBVIOUS
  <1>2. PICK m \in gaps : \A k \in gaps : m <= k
    <2> HIDE DEF gaps
    <2>1. gaps \subseteq Nat
      BY DEF gaps
    <2> QED
      BY <1>1, <2>1, LeastNat
  <1>3. m \in Nat /\ m \notin T /\ m # 0
    BY <1>2
  <1>4. m - 1 \in Nat /\ ~(m <= m - 1) /\ (m - 1) + 1 = m
    BY <1>3
  <1>5. m - 1 \in T
    BY <1>2, <1>4
  <1> QED
    BY <1>3, <1>4, <1>5

\* f[n] is the sum of the first n lengths.
Sums(len, m, f) ==
    f = [n \in 0 .. m |-> IF n = 0 THEN 0 ELSE f[n - 1] + len[n - 1]]

\* There are such sums of any number of lengths.
LEMMA SumsExist ==
    ASSUME NEW len, NEW m \in Nat
    PROVE  \E f : Sums(len, m, f)
  <1> DEFINE T == { k \in Nat : \E f : Sums(len, k, f) }
  <1>1. 0 \in T
    <2> DEFINE f == [n \in 0 .. 0 |-> 0]
    <2>1. \A n \in 0 .. 0 : n = 0
      OBVIOUS
    <2>2. f = [n \in 0 .. 0 |-> IF n = 0 THEN 0 ELSE f[n - 1] + len[n - 1]]
      BY <2>1
    <2> HIDE DEF f
    <2>3. Sums(len, 0, f)
      BY <2>2 DEF Sums
    <2> QED
      BY <2>3
  <1>2. ASSUME NEW k \in Nat, k \in T PROVE k + 1 \in T
    <2>1. PICK f : Sums(len, k, f)
      BY <1>2
    <2> DEFINE g == [n \in 0 .. k + 1 |->
                       IF n <= k THEN f[n] ELSE f[k] + len[k]]
    <2>2. ASSUME NEW n \in 0 .. k + 1
          PROVE  g[n] = IF n = 0 THEN 0 ELSE g[n - 1] + len[n - 1]
      <3>1. CASE n = 0
        BY <2>1, <3>1 DEF Sums
      <3>2. CASE n # 0 /\ n <= k
        <4>1. /\ n \in 0 .. k /\ n \in 0 .. k + 1
              /\ n - 1 \in 0 .. k + 1 /\ n - 1 <= k
          BY <3>2
        <4>2. f[n] = f[n - 1] + len[n - 1]
          BY <4>1, <3>2, <2>1 DEF Sums
        <4>3. g[n] = f[n] /\ g[n - 1] = f[n - 1]
          BY <4>1, <3>2
        <4> HIDE DEF g
        <4> QED
          BY <4>2, <4>3, <3>2
      <3>3. CASE n = k + 1
        <4>1. /\ n - 1 = k /\ k \in 0 .. k + 1 /\ ~(k + 1 <= k)
              /\ k + 1 # 0 /\ k + 1 \in 0 .. k + 1
          BY <3>3
        <4>2. g[k + 1] = f[k] + len[k] /\ g[k] = f[k]
          BY <4>1
        <4> HIDE DEF g
        <4> QED
          BY <4>1, <4>2, <3>3
      <3> QED
        BY <3>1, <3>2, <3>3
    <2>3. g = [n \in 0 .. k + 1 |-> g[n]]
      OBVIOUS
    <2> HIDE DEF g
    <2>4. Sums(len, k + 1, g)
      BY <2>2, <2>3 DEF Sums
    <2> QED
      BY <2>4
  <1> HIDE DEF T
  <1>3. m \in T
    BY <1>1, <1>2, NatSetInduction
  <1> QED
    BY <1>3 DEF T

\* A step of the sums.
LEMMA SumStep ==
    ASSUME NEW len, NEW m \in Nat, NEW f, Sums(len, m, f)
    PROVE  /\ f[0] = 0
           /\ \A n \in 0 .. m - 1 : f[n + 1] = f[n] + len[n]
  <1>1. f[0] = 0
    BY DEF Sums
  <1>2. ASSUME NEW n \in 0 .. m - 1 PROVE f[n + 1] = f[n] + len[n]
    <2>1. n + 1 \in 0 .. m /\ n + 1 # 0 /\ (n + 1) - 1 = n
      OBVIOUS
    <2> QED
      BY <2>1 DEF Sums
  <1> QED
    BY <1>1, <1>2

\* Sums of natural lengths are natural, and the same lengths have the same
\* sums wherever they stand: s places on in f, at the beginning in g.
LEMMA SumsShift ==
    ASSUME NEW len, NEW m \in Nat, NEW f, Sums(len, m, f),
           NEW len2, NEW m2 \in Nat, NEW g, Sums(len2, m2, g),
           NEW s \in Nat, NEW n \in Nat, n + s <= m, n <= m2, f[s] \in Nat,
           \A k \in 0 .. n - 1 : len2[k] = len[k + s] /\ len2[k] \in Nat
    PROVE  \A k \in 0 .. n : g[k] \in Nat /\ f[k + s] = f[s] + g[k]
  <1> DEFINE Good(k) == k <= n => g[k] \in Nat /\ f[k + s] = f[s] + g[k]
             T == { k \in Nat : Good(k) }
  <1>1. 0 \in T
    <2>1. g[0] = 0 /\ 0 + s = s
      BY SumStep
    <2> QED
      BY <2>1
  <1>2. ASSUME NEW k \in Nat, k \in T PROVE k + 1 \in T
    <2> SUFFICES ASSUME k + 1 <= n
                 PROVE  g[k + 1] \in Nat /\ f[(k + 1) + s] = f[s] + g[k + 1]
      OBVIOUS
    <2>1. g[k] \in Nat /\ f[k + s] = f[s] + g[k]
      BY <1>2
    <2>2. /\ k \in 0 .. m2 - 1 /\ k + s \in 0 .. m - 1 /\ k \in 0 .. n - 1
          /\ (k + 1) + s = (k + s) + 1
      OBVIOUS
    <2>3. g[k + 1] = g[k] + len2[k]
      BY <2>2, SumStep
    <2>4. f[(k + s) + 1] = f[k + s] + len[k + s]
      BY <2>2, SumStep
    <2>5. len2[k] = len[k + s] /\ len2[k] \in Nat
      BY <2>2
    <2> QED
      BY <2>1, <2>2, <2>3, <2>4, <2>5
  <1> HIDE DEF T
  <1>3. \A k \in Nat : k \in T
    BY <1>1, <1>2, NatSetInduction
  <1> QED
    BY <1>3 DEF T

\* The lengths of the entries, from the flush position on.
Lengths ==
    [k \in 0 .. nMaxFrameNum - 1 |-> pFrames[Ahead(nFlushPos, k)].nLength]

\* FrameSums is what its recursive definition says.
LEMMA FrameSumsDef == Sums(Lengths, nMaxFrameNum, FrameSums)
  <1>1. \E f : Sums(Lengths, nMaxFrameNum, f)
    BY SumsExist, SbmAssumption
  <1>2. \A f : Sums(Lengths, nMaxFrameNum, f)
                <=> f = [n \in 0 .. nMaxFrameNum |->
                           IF n = 0 THEN 0
                           ELSE f[n - 1]
                                  + pFrames[Ahead(nFlushPos, n - 1)].nLength]
    <2>1. \A n \in 0 .. nMaxFrameNum : n # 0 => n - 1 \in 0 .. nMaxFrameNum - 1
      BY SbmAssumption
    <2> QED
      BY <2>1 DEF Sums, Lengths
  <1>3. FrameSums = [n \in 0 .. nMaxFrameNum |->
                       IF n = 0 THEN 0
                       ELSE FrameSums[n - 1]
                              + pFrames[Ahead(nFlushPos, n - 1)].nLength]
    BY <1>1, <1>2, Zenon DEF FrameSums
  <1> QED
    BY <1>2, <1>3

\* The entries have natural lengths; no frames, no bytes.
LengthFacts ==
    /\ Sums(Lengths, nMaxFrameNum, FrameSums)
    /\ \A k \in 0 .. nMaxFrameNum - 1 : Lengths[k] \in Nat
    /\ FrameSums[0] = 0

LEMMA LengthTypes == RingInv => LengthFacts
  <1> SUFFICES ASSUME RingInv PROVE LengthFacts
    OBVIOUS
  <1>1. FrameSums[0] = 0
    BY FrameSumsDef, SumStep, SbmAssumption
  <1>2. ASSUME NEW k \in 0 .. nMaxFrameNum - 1 PROVE Lengths[k] \in Nat
    <2>1. k \in 0 .. nMaxFrameNum
      BY SbmAssumption
    <2>2. Entry(k) \in DataInfo
      BY <2>1, Mapping DEF MappingFacts
    <2> QED
      BY <2>2 DEF Lengths, Entry, DataInfo
  <1> QED
    BY <1>1, <1>2, FrameSumsDef DEF LengthFacts

\* A step from one ring to the next, for sums of equal lengths.
LEMMA SumsStep ==
    ASSUME RingInv, RingInv', NEW s \in Nat, NEW n \in Nat,
           n + s <= nMaxFrameNum, FrameSums[s] \in Nat,
           \A k \in 0 .. n - 1 : Lengths'[k] = Lengths[k + s]
    PROVE  \A k \in 0 .. n : /\ FrameSums'[k] \in Nat
                             /\ FrameSums[k + s] = FrameSums[s] + FrameSums'[k]
  <1>1. LengthFacts /\ LengthFacts'
    BY LengthTypes, PTL
  <1>2. /\ Sums(Lengths, nMaxFrameNum, FrameSums)
        /\ Sums(Lengths', nMaxFrameNum, FrameSums')
        /\ \A k \in 0 .. nMaxFrameNum - 1 : Lengths'[k] \in Nat
    BY <1>1 DEF LengthFacts
  <1>3. nMaxFrameNum \in Nat /\ n <= nMaxFrameNum
    BY SbmAssumption
  <1>4. \A k \in 0 .. n - 1 : Lengths'[k] = Lengths[k + s] /\ Lengths'[k] \in Nat
    BY <1>2, <1>3
  <1> DEFINE m == nMaxFrameNum
             f == FrameSums
             g == FrameSums'
             len == Lengths
             len2 == Lengths'
  <1>5. /\ m \in Nat /\ Sums(len, m, f) /\ Sums(len2, m, g)
        /\ n + s <= m /\ n <= m /\ f[s] \in Nat
        /\ \A k \in 0 .. n - 1 : len2[k] = len[k + s] /\ len2[k] \in Nat
    BY <1>2, <1>3, <1>4
  <1> HIDE DEF m, f, g, len, len2
  <1>6. \A k \in 0 .. n : g[k] \in Nat /\ f[k + s] = f[s] + g[k]
    BY <1>5, SumsShift
  <1> QED
    BY <1>6 DEF f, g

\* The number of bytes in use is the sum of the lengths of the frames on the
\* ring, through every addition, flush and reset, and never exceeds the ring.
THEOREM DataSizeExactAlways == SbmSpec => []DataSizeExact
  <1> DEFINE Inv == RingInv /\ DataSizeExact
  <1>1. SbmInit => Inv
    <2> SUFFICES ASSUME SbmInit PROVE RingInv /\ DataSizeExact
      OBVIOUS
    <2>1. RingInv
      BY InitRing
    <2> QED
      BY <2>1, LengthTypes, SbmAssumption
      DEF SbmInit, DataSizeExact, LengthFacts
  <1>2. Inv /\ RingInv' /\ [SbmNext]_sbmVars => Inv'
    <2> SUFFICES ASSUME RingInv, DataSizeExact, RingInv', [SbmNext]_sbmVars
                 PROVE  DataSizeExact'
      OBVIOUS
    <2> DEFINE n == nValidFrameNum
    <2>1. /\ nMaxFrameNum \in Nat \ {0} /\ n \in 0 .. nMaxFrameNum
          /\ nValidDataSize = FrameSums[n]
          /\ nStreamBufferSize \in Nat
          /\ nValidDataSize <= nStreamBufferSize
          /\ FrameSums[0] = 0 /\ nValidDataSize \in Int
      BY NumberTypes, LengthTypes, SbmAssumption
      DEF DataSizeExact, RingInv, SbmTypeOK, LengthFacts
    <2>a. LengthFacts /\ LengthFacts'
      BY LengthTypes, PTL
    <2>2. ASSUME UNCHANGED << pFrames, nFlushPos, nValidFrameNum,
                              nValidDataSize >>
          PROVE  DataSizeExact'
      <3>1. FrameSums' = FrameSums
        BY <2>2 DEF FrameSums, Ahead
      <3> QED
        BY <3>1, <2>1, <2>2 DEF DataSizeExact
    <2>3. CASE \E info \in DataInfo : SbmAddStream(info)
      <3>1. PICK info \in DataInfo : SbmAddStream(info)
        BY <2>3
      <3>2. CASE SbmAddStreamAccepts(info)
        <4>1. /\ n' = n + 1
              /\ nValidDataSize' = nValidDataSize + info.nLength
              /\ info.nLength + nValidDataSize <= nStreamBufferSize
              /\ n < nMaxFrameNum /\ info.nLength \in Nat
          BY <3>1, <3>2 DEF SbmAddStream, SbmAddStreamAccepts, DataInfo
        <4>2. \A k \in 0 .. n - 1 : Lengths'[k] = Lengths[k + 0]
          <5> TAKE k \in 0 .. n - 1
          <5>1. k \in 0 .. nMaxFrameNum - 1 /\ k + 0 = k
            BY <2>1
          <5>2. pFrames'[Ahead(nFlushPos', k)] = Entry(k)
            BY <3>1, <3>2, AddEntries
          <5> QED
            BY <5>1, <5>2 DEF Lengths, Entry
        <4>3. Lengths'[n] = info.nLength
          <5>1. n \in 0 .. nMaxFrameNum - 1
            BY <2>1, <4>1
          <5> QED
            BY <5>1, <3>1, <3>2, AddEntries DEF Lengths
        <4>4. FrameSums'[n] \in Nat /\ FrameSums[n] = FrameSums'[n]
          <5>1. /\ n \in Nat /\ 0 \in Nat /\ n + 0 <= nMaxFrameNum
                /\ FrameSums[0] \in Nat /\ n \in 0 .. n /\ n + 0 = n
            BY <2>1
          <5>2. \A k \in 0 .. n : /\ FrameSums'[k] \in Nat
                                  /\ FrameSums[k + 0]
                                       = FrameSums[0] + FrameSums'[k]
            BY <5>1, <4>2, SumsStep
          <5>3. /\ FrameSums'[n] \in Nat
                /\ FrameSums[n] = FrameSums[0] + FrameSums'[n]
            BY <5>1, <5>2
          <5> QED
            BY <5>3, <2>1
        <4>5. FrameSums'[n + 1] = FrameSums'[n] + Lengths'[n]
          <5>1. Sums(Lengths', nMaxFrameNum, FrameSums')
            BY <2>a DEF LengthFacts
          <5>2. n \in 0 .. nMaxFrameNum - 1 /\ nMaxFrameNum \in Nat
            BY <2>1, <4>1
          <5> QED
            BY <5>1, <5>2, SumStep
        <4> QED
          BY <2>1, <4>1, <4>3, <4>4, <4>5 DEF DataSizeExact
      <3>3. CASE ~SbmAddStreamAccepts(info)
        BY <3>1, <3>3, <2>2 DEF SbmAddStream, sbmVars, posVars, numVars
      <3> QED
        BY <3>2, <3>3
    <2>4. CASE SbmRequestStream \/ SbmReturnStream \/ UNCHANGED sbmVars
      BY <2>2, <2>4 DEF SbmRequestStream, SbmReturnStream, sbmVars, posVars,
                        numVars
    <2>5. CASE SbmFlushStream
      <3>1. /\ n # 0 /\ n' = n - 1
            /\ nValidDataSize' = nValidDataSize - Entry(0).nLength
            /\ \A k \in 0 .. nMaxFrameNum - 1 :
                 pFrames'[Ahead(nFlushPos', k)] = Entry(k + 1)
        BY <2>5, FlushEntries
      <3>2. \A k \in 0 .. (n - 1) - 1 : Lengths'[k] = Lengths[k + 1]
        <4> TAKE k \in 0 .. (n - 1) - 1
        <4>1. k \in 0 .. nMaxFrameNum - 1 /\ k + 1 \in 0 .. nMaxFrameNum - 1
          BY <2>1
        <4> QED
          BY <4>1, <3>1 DEF Lengths, Entry
      <3>3. FrameSums[1] = Entry(0).nLength /\ FrameSums[1] \in Nat
        <4>1. Sums(Lengths, nMaxFrameNum, FrameSums)
          BY FrameSumsDef
        <4>2. 0 \in 0 .. nMaxFrameNum - 1 /\ nMaxFrameNum \in Nat /\ 0 + 1 = 1
          BY <2>1
        <4>3. FrameSums[0 + 1] = FrameSums[0] + Lengths[0]
          BY <4>1, <4>2, SumStep
        <4>4. Lengths[0] \in Nat /\ Lengths[0] = Entry(0).nLength
          BY <4>2, <2>a DEF Lengths, Entry, LengthFacts
        <4> QED
          BY <4>2, <4>3, <4>4, <2>1
      <3>4. FrameSums[n] = FrameSums[1] + FrameSums'[n - 1]
            /\ FrameSums'[n - 1] \in Nat
        <4>1. /\ n - 1 \in Nat /\ 1 \in Nat /\ (n - 1) + 1 <= nMaxFrameNum
              /\ n - 1 \in 0 .. n - 1 /\ (n - 1) + 1 = n
          BY <2>1, <3>1
        <4>2. \A k \in 0 .. n - 1 : /\ FrameSums'[k] \in Nat
                                    /\ FrameSums[k + 1]
                                         = FrameSums[1] + FrameSums'[k]
          BY <4>1, <3>2, <3>3, SumsStep
        <4> QED
          BY <4>1, <4>2
      <3> QED
        BY <2>1, <3>1, <3>3, <3>4 DEF DataSizeExact
    <2>6. CASE SbmReset
      <3>1. FrameSums'[0] = 0
        BY <2>a DEF LengthFacts
      <3> QED
        BY <2>1, <2>6, <3>1 DEF SbmReset, DataSizeExact
    <2> QED
      BY <2>3, <2>4, <2>5, <2>6 DEF SbmNext
  <1>3. Inv => DataSizeExact
    OBVIOUS
  <1> QED
    BY <1>1, <1>2, <1>3, RingInvariant, PTL DEF SbmSpec
=============================================================================
