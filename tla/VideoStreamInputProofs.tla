----------------------- MODULE VideoStreamInputProofs -----------------------
(***************************************************************************)
(* Proofs about the input path, for byte rings and frame rings of every    *)
(* size and parts of every length.  The invariant gives each frame its     *)
(* distance to the write address, so that no sum of lengths is needed: the *)
(* frames follow each other, the collected parts begin at the write        *)
(* address, and the space that is granted ends before the oldest frame.    *)
(***************************************************************************)
EXTENDS VideoStreamInput, SbmStreamProofs

\* The address d bytes before addr.
Back(addr, d) == IF d <= addr THEN addr - d ELSE addr - d + nStreamBufferSize

\* The n frames e[0], e[1], ... of size bytes end at addr: dist[i] is the number
\* of bytes from the start of frame i to addr.
IsChain(dist, n, addr, size, e) ==
    /\ dist \in [0 .. n -> 0 .. nStreamBufferSize]
    /\ dist[0] = size /\ dist[n] = 0
    /\ \A i \in 0 .. n - 1 : /\ dist[i] = e[i].nLength + dist[i + 1]
                             /\ e[i].pData = Back(addr, dist[i])
    /\ \A i, j \in 0 .. n : i <= j => dist[j] <= dist[i]

\* The frame ring from the flush position on.
Entries == [k \in 0 .. nMaxFrameNum - 1 |-> pFrames[Ahead(nFlushPos, k)]]

Layout ==
    \E dist \in [0 .. nValidFrameNum -> 0 .. nStreamBufferSize] :
       IsChain(dist, nValidFrameNum, pWriteAddr, nValidDataSize, Entries)

\* The collected parts begin at the write address and fit behind the frames.
PartialFits ==
    /\ partialStreamDataInfo.pData \in {NULL, pWriteAddr}
    /\ partialStreamDataInfo.pData = NULL => partialStreamDataInfo.nLength = 0
    /\ partialStreamDataInfo.nLength + nValidDataSize <= nStreamBufferSize

\* So does the part that is being written, behind the collected ones; frames
\* only leave the ring while it is written.
PartFits ==
    demux = "fill" =>
        /\ part.pData = Wrap(pWriteAddr + partialStreamDataInfo.nLength)
        /\ RequireSize(part.nLength) + GuardBytes + nValidDataSize
               <= nStreamBufferSize
        /\ nValidFrameNum < nMaxFrameNum

InputInv ==
    /\ TypeOK
    /\ RingInv
    /\ Layout
    /\ PartialFits
    /\ PartFits

\* The types the arithmetic steps need.
LEMMA InputTypes ==
    ASSUME InputInv
    PROVE  /\ nStreamBufferSize \in Nat \ {0} /\ nMaxFrameNum \in Nat \ {0}
           /\ GuardBytes \in Nat /\ MinRequire \in Nat \ {0}
           /\ pWriteAddr \in 0 .. nStreamBufferSize - 1
           /\ nValidDataSize \in Nat
           /\ nValidFrameNum \in 0 .. nMaxFrameNum
           /\ partialStreamDataInfo \in DataInfo
           /\ partialStreamDataInfo.nLength \in 0 .. nStreamBufferSize
           /\ part.nLength \in 0 .. nStreamBufferSize
           /\ PartRequire(part.nLength) \in Nat \ {0}
           /\ part.nLength <= PartRequire(part.nLength)
           /\ \A k \in 0 .. nMaxFrameNum :
                /\ Entry(k) \in DataInfo
                /\ Entry(k).nLength \in 0 .. nStreamBufferSize
  <1>1. /\ pWriteAddr \in 0 .. nStreamBufferSize - 1
        /\ nValidFrameNum \in 0 .. nMaxFrameNum
        /\ partialStreamDataInfo \in DataInfo
        /\ part \in Part
    BY DEF InputInv, TypeOK, SbmTypeOK, Addresses
  <1>2. /\ nStreamBufferSize \in Nat \ {0} /\ nMaxFrameNum \in Nat \ {0}
        /\ GuardBytes \in Nat /\ MinRequire \in Nat \ {0}
        /\ PartLengths \subseteq 0 .. nStreamBufferSize
    BY SbmAssumption, InputAssumption
  <1>3. nValidDataSize \in Nat
    <2>1. PICK dist \in [0 .. nValidFrameNum -> 0 .. nStreamBufferSize] :
            IsChain(dist, nValidFrameNum, pWriteAddr, nValidDataSize, Entries)
      BY DEF InputInv, Layout
    <2>2. 0 \in 0 .. nValidFrameNum
      BY <1>1
    <2> QED
      BY <2>1, <2>2, <1>2 DEF IsChain
  <1>4. partialStreamDataInfo.nLength \in 0 .. nStreamBufferSize
    BY <1>1 DEF DataInfo
  <1>5. part.nLength \in 0 .. nStreamBufferSize
    BY <1>1, <1>2 DEF Part
  <1>6. /\ PartRequire(part.nLength) \in Nat \ {0}
        /\ part.nLength <= PartRequire(part.nLength)
    BY <1>2, <1>5 DEF PartRequire
  <1>7. ASSUME NEW k \in 0 .. nMaxFrameNum
        PROVE  /\ Entry(k) \in DataInfo
               /\ Entry(k).nLength \in 0 .. nStreamBufferSize
    <2>1. Entry(k) \in DataInfo
      BY Mapping DEF InputInv, MappingFacts
    <2> QED
      BY <2>1 DEF DataInfo
  <1> QED
    BY <1>1, <1>2, <1>3, <1>4, <1>5, <1>6, <1>7

\* No frames end anywhere.
LEMMA EmptyLayout ==
    nValidFrameNum = 0 /\ nValidDataSize = 0 => Layout
  <1> SUFFICES ASSUME nValidFrameNum = 0, nValidDataSize = 0 PROVE Layout
    OBVIOUS
  <1> DEFINE dist == [i \in 0 .. 0 |-> 0]
  <1>1. dist \in [0 .. nValidFrameNum -> 0 .. nStreamBufferSize]
    BY SbmAssumption
  <1>2. IsChain(dist, nValidFrameNum, pWriteAddr, nValidDataSize, Entries)
    BY SbmAssumption, <1>1 DEF IsChain
  <1> QED
    BY <1>1, <1>2 DEF Layout

\* A frame that begins where a chain of frames ends joins it at its end; the
\* distances of the others grow by its length.
LEMMA ExtendChain ==
    ASSUME NEW n \in Nat, NEW addr \in Addresses, NEW size \in Nat,
           NEW e, NEW dist, IsChain(dist, n, addr, size, e),
           NEW len \in Nat, size + len <= nStreamBufferSize,
           NEW f, \A k \in 0 .. n - 1 : f[k] = e[k] /\ f[k].nLength \in Nat,
           f[n].nLength = len, f[n].pData = addr
    PROVE  \E d \in [0 .. n + 1 -> 0 .. nStreamBufferSize] :
              IsChain(d, n + 1, Wrap(addr + len), size + len, f)
  <1> DEFINE d == [i \in 0 .. n + 1 |-> IF i <= n THEN dist[i] + len ELSE 0]
             end == Wrap(addr + len)
  <1>1. nStreamBufferSize \in Nat \ {0} /\ addr \in 0 .. nStreamBufferSize - 1
    BY SbmAssumption DEF Addresses
  <1>2. \A i \in 0 .. n : /\ dist[i] \in 0 .. nStreamBufferSize
                          /\ dist[i] <= size
    <2>1. dist \in [0 .. n -> 0 .. nStreamBufferSize] /\ dist[0] = size
      BY DEF IsChain
    <2>2. \A i \in 0 .. n : dist[i] <= dist[0]
      BY DEF IsChain
    <2> QED
      BY <2>1, <2>2
  <1>3. d \in [0 .. n + 1 -> 0 .. nStreamBufferSize]
    BY <1>1, <1>2
  <1>4. /\ \A i \in 0 .. n : d[i] = dist[i] + len
        /\ d[n + 1] = 0
    OBVIOUS
  <1>5. d[0] = size + len /\ d[n] = len
    BY <1>4 DEF IsChain
  <1>6. /\ end \in 0 .. nStreamBufferSize - 1
        /\ end = IF addr + len >= nStreamBufferSize
                 THEN addr + len - nStreamBufferSize ELSE addr + len
    BY <1>1 DEF Wrap
  <1> HIDE DEF d, end
  <1>7. ASSUME NEW i \in 0 .. n
        PROVE  /\ d[i] = f[i].nLength + d[i + 1]
               /\ f[i].pData = Back(end, d[i])
    <2>1. CASE i = n
      <3>1. Back(end, len) = addr
        BY <1>1, <1>6 DEF Back
      <3> QED
        BY <2>1, <3>1, <1>4, <1>5
    <2>2. CASE i # n
      <3>1. i \in 0 .. n - 1 /\ i + 1 \in 0 .. n
        BY <2>2
      <3>2. /\ dist[i] = f[i].nLength + dist[i + 1]
            /\ f[i].pData = Back(addr, dist[i]) /\ f[i].nLength \in Nat
        BY <3>1 DEF IsChain
      <3>3. d[i] = dist[i] + len /\ d[i + 1] = dist[i + 1] + len
        BY <3>1, <1>4
      <3>4. /\ dist[i] \in 0 .. nStreamBufferSize /\ dist[i + 1] \in Nat
            /\ dist[i] + len <= nStreamBufferSize
        BY <3>1, <1>1, <1>2
      <3>5. Back(end, dist[i] + len) = Back(addr, dist[i])
        BY <3>4, <1>1, <1>6 DEF Back
      <3> QED
        BY <3>2, <3>3, <3>4, <3>5
    <2> QED
      BY <2>1, <2>2
  <1>8. ASSUME NEW i \in 0 .. n + 1, NEW j \in 0 .. n + 1, i <= j
        PROVE  d[j] <= d[i]
    <2>1. CASE j <= n
      <3>1. i \in 0 .. n /\ j \in 0 .. n
        BY <2>1, <1>8
      <3>2. dist[j] <= dist[i]
        BY <3>1, <1>8 DEF IsChain
      <3> QED
        BY <3>1, <3>2, <1>2, <1>4
    <2>2. CASE ~(j <= n)
      <3>1. j = n + 1 /\ d[i] \in 0 .. nStreamBufferSize
        BY <2>2, <1>3
      <3> QED
        BY <3>1, <1>4
    <2> QED
      BY <2>1, <2>2
  <1>9. (n + 1) - 1 = n
    OBVIOUS
  <1>10. IsChain(d, n + 1, end, size + len, f)
    BY <1>3, <1>4, <1>5, <1>7, <1>8, <1>9 DEF IsChain
  <1> QED
    BY <1>3, <1>10 DEF end

\* The first frame of a chain may leave it.
LEMMA ShortenChain ==
    ASSUME NEW n \in Nat \ {0}, NEW addr, NEW size \in Nat,
           NEW e, NEW dist, IsChain(dist, n, addr, size, e),
           NEW f, \A k \in 0 .. n - 2 : f[k] = e[k + 1],
           e[0].nLength \in Nat
    PROVE  /\ \E d \in [0 .. n - 1 -> 0 .. nStreamBufferSize] :
                 IsChain(d, n - 1, addr, size - e[0].nLength, f)
           /\ size - e[0].nLength \in Nat
  <1> DEFINE d == [i \in 0 .. n - 1 |-> dist[i + 1]]
  <1>1. \A i \in 0 .. n - 1 : i + 1 \in 0 .. n
    OBVIOUS
  <1>2. dist \in [0 .. n -> 0 .. nStreamBufferSize]
    BY DEF IsChain
  <1>3. d \in [0 .. n - 1 -> 0 .. nStreamBufferSize]
    BY <1>1, <1>2
  <1>4. \A i \in 0 .. n - 1 : d[i] = dist[i + 1]
    OBVIOUS
  <1> HIDE DEF d
  <1>5. /\ dist[0] = size /\ dist[0] = e[0].nLength + dist[1]
        /\ dist[n] = 0 /\ dist[1] \in 0 .. nStreamBufferSize
    <2>1. 0 \in 0 .. n - 1 /\ 0 + 1 = 1 /\ 1 \in 0 .. n
      OBVIOUS
    <2> QED
      BY <2>1, <1>2 DEF IsChain
  <1>6. d[0] = size - e[0].nLength /\ d[n - 1] = 0 /\ d[0] \in Nat
    <2>1. 0 \in 0 .. n - 1 /\ n - 1 \in 0 .. n - 1 /\ (n - 1) + 1 = n
      OBVIOUS
    <2>2. d[0] = dist[1] /\ d[n - 1] = dist[n]
      BY <2>1, <1>4
    <2>3. dist[1] \in Nat
      BY <1>5, SbmAssumption
    <2> QED
      BY <2>2, <2>3, <1>5
  <1>7. ASSUME NEW i \in 0 .. (n - 1) - 1
        PROVE  /\ d[i] = f[i].nLength + d[i + 1]
               /\ f[i].pData = Back(addr, d[i])
    <2>1. /\ i \in 0 .. n - 1 /\ i + 1 \in 0 .. n - 1
          /\ i \in 0 .. n - 2
      OBVIOUS
    <2>2. /\ dist[i + 1] = e[i + 1].nLength + dist[(i + 1) + 1]
          /\ e[i + 1].pData = Back(addr, dist[i + 1])
      BY <2>1 DEF IsChain
    <2>3. d[i] = dist[i + 1] /\ d[i + 1] = dist[(i + 1) + 1]
      BY <2>1, <1>4
    <2>4. f[i] = e[i + 1]
      BY <2>1
    <2> QED
      BY <2>2, <2>3, <2>4
  <1>8. ASSUME NEW i \in 0 .. n - 1, NEW j \in 0 .. n - 1, i <= j
        PROVE  d[j] <= d[i]
    <2>1. i + 1 \in 0 .. n /\ j + 1 \in 0 .. n /\ i + 1 <= j + 1
      BY <1>8
    <2>2. dist[j + 1] <= dist[i + 1]
      BY <2>1 DEF IsChain
    <2> QED
      BY <2>2, <1>4
  <1>9. IsChain(d, n - 1, addr, size - e[0].nLength, f)
    BY <1>3, <1>6, <1>7, <1>8 DEF IsChain
  <1> QED
    BY <1>3, <1>6, <1>9

\* Nothing the layout is made of changes.
LEMMA SameLayout ==
    ASSUME Layout,
           UNCHANGED << pWriteAddr, nValidDataSize, pFrames, nFlushPos,
                        nValidFrameNum >>
    PROVE  Layout'
  <1>1. Entries' = Entries
    BY DEF Entries, Ahead
  <1> QED
    BY <1>1 DEF Layout

\* An accepted frame that begins at the write address extends the layout.
LEMMA AddLayout ==
    ASSUME InputInv, NEW info \in DataInfo, SbmAddStream(info),
           SbmAddStreamAccepts(info), info.pData = pWriteAddr
    PROVE  /\ Layout'
           /\ pWriteAddr' = Wrap(pWriteAddr + info.nLength)
           /\ nValidDataSize' = nValidDataSize + info.nLength
           /\ nValidFrameNum' = nValidFrameNum + 1
  <1> DEFINE n == nValidFrameNum
             len == info.nLength
  <1>1. /\ nValidFrameNum' = n + 1
        /\ nValidDataSize' = nValidDataSize + len
        /\ pWriteAddr' = IF pWriteAddr + len > nStreamBufferSize - 1
                         THEN pWriteAddr + len - nStreamBufferSize
                         ELSE pWriteAddr + len
    BY DEF SbmAddStream
  <1>2. /\ len \in Nat
        /\ n < nMaxFrameNum /\ len + nValidDataSize <= nStreamBufferSize
    BY DEF DataInfo, SbmAddStreamAccepts
  <1>3. pWriteAddr' = Wrap(pWriteAddr + len)
    BY <1>1, <1>2, InputTypes DEF Wrap
  <1>4. PICK dist : IsChain(dist, n, pWriteAddr, nValidDataSize, Entries)
    BY DEF InputInv, Layout
  <1>5. /\ n \in Nat /\ pWriteAddr \in Addresses /\ nValidDataSize \in Nat
        /\ n \in 0 .. nMaxFrameNum - 1
        /\ nValidDataSize + len <= nStreamBufferSize
    BY <1>2, InputTypes DEF Addresses
  <1>6. \A k \in 0 .. n - 1 : /\ Entries'[k] = Entries[k]
                              /\ Entries'[k].nLength \in Nat
    <2> TAKE k \in 0 .. n - 1
    <2>1. k \in 0 .. nMaxFrameNum - 1 /\ k \in 0 .. nMaxFrameNum
      BY <1>5, InputTypes
    <2>2. pFrames'[Ahead(nFlushPos', k)] = Entry(k)
      BY AddEntries DEF InputInv
    <2>3. Entry(k).nLength \in Nat
      BY <2>1, InputTypes
    <2> QED
      BY <2>1, <2>2, <2>3 DEF Entries, Entry
  <1>7. Entries'[n] = info
    BY <1>5, AddEntries DEF Entries, InputInv
  <1>8. \E d \in [0 .. n + 1 -> 0 .. nStreamBufferSize] :
           IsChain(d, n + 1, Wrap(pWriteAddr + len), nValidDataSize + len,
                   Entries')
    BY <1>2, <1>4, <1>5, <1>6, <1>7, ExtendChain
  <1>9. Layout'
    BY <1>1, <1>3, <1>8 DEF Layout
  <1> QED
    BY <1>1, <1>3, <1>9

\* Flushing takes the first frame out of the layout.
LEMMA FlushLayout ==
    ASSUME InputInv, RingInv', SbmFlushStream
    PROVE  /\ Layout'
           /\ pWriteAddr' = pWriteAddr
           /\ nValidDataSize' <= nValidDataSize
           /\ nValidFrameNum' <= nValidFrameNum
  <1> DEFINE n == nValidFrameNum
  <1>1. /\ n # 0 /\ n' = n - 1 /\ pWriteAddr' = pWriteAddr
        /\ nValidDataSize' = nValidDataSize - Entry(0).nLength
        /\ \A k \in 0 .. nMaxFrameNum - 1 :
             pFrames'[Ahead(nFlushPos', k)] = Entry(k + 1)
    BY FlushEntries DEF InputInv
  <1>2. PICK dist : IsChain(dist, n, pWriteAddr, nValidDataSize, Entries)
    BY DEF InputInv, Layout
  <1>3. n \in Nat \ {0} /\ nValidDataSize \in Nat /\ n <= nMaxFrameNum
    BY <1>1, InputTypes
  <1>4. 0 \in 0 .. nMaxFrameNum /\ 0 \in 0 .. nMaxFrameNum - 1
    BY InputTypes
  <1>5. Entries[0] = Entry(0) /\ Entry(0).nLength \in Nat
    BY <1>4, InputTypes DEF Entries, Entry
  <1>6. \A k \in 0 .. n - 2 : Entries'[k] = Entries[k + 1]
    <2> TAKE k \in 0 .. n - 2
    <2>1. k \in 0 .. nMaxFrameNum - 1 /\ k + 1 \in 0 .. nMaxFrameNum - 1
      BY <1>3, InputTypes
    <2> QED
      BY <2>1, <1>1 DEF Entries, Entry
  <1>7. /\ \E d \in [0 .. n - 1 -> 0 .. nStreamBufferSize] :
             IsChain(d, n - 1, pWriteAddr, nValidDataSize - Entry(0).nLength,
                     Entries')
        /\ nValidDataSize - Entry(0).nLength \in Nat
    <2>1. /\ \E d \in [0 .. n - 1 -> 0 .. nStreamBufferSize] :
               IsChain(d, n - 1, pWriteAddr,
                       nValidDataSize - Entries[0].nLength, Entries')
          /\ nValidDataSize - Entries[0].nLength \in Nat
      <3>1. Entries[0].nLength \in Nat
        BY <1>5
      <3> HIDE DEF n
      <3> QED
        BY <3>1, <1>2, <1>3, <1>6, ShortenChain
    <2> QED
      BY <2>1, <1>5
  <1>8. Layout'
    BY <1>1, <1>7 DEF Layout
  <1> QED
    BY <1>1, <1>3, <1>5, <1>8

\* What the layout says of the bytes in use.
LEMMA LayoutSize ==
    Layout /\ nValidFrameNum \in Nat
        => nValidDataSize \in 0 .. nStreamBufferSize
  <1> SUFFICES ASSUME Layout, nValidFrameNum \in Nat
               PROVE  nValidDataSize \in 0 .. nStreamBufferSize
    OBVIOUS
  <1>1. PICK dist : IsChain(dist, nValidFrameNum, pWriteAddr, nValidDataSize,
                            Entries)
    BY DEF Layout
  <1>2. 0 \in 0 .. nValidFrameNum
    OBVIOUS
  <1> QED
    BY <1>1, <1>2 DEF IsChain

\* The other actions of the demux thread leave the rings alone.
LEMMA SameRings ==
    ASSUME InputInv, UNCHANGED sbmVars
    PROVE  RingInv' /\ Layout' /\ SbmTypeOK'
  <1>1. RingInv' /\ SbmTypeOK'
    BY DEF InputInv, RingInv, SbmTypeOK, sbmVars, posVars, numVars,
           Positions, HeldInOrder, Ahead
  <1>2. Layout'
    BY SameLayout DEF InputInv, sbmVars, posVars, numVars
  <1> QED
    BY <1>1, <1>2

\* Wrapped addresses are addresses of the ring.
LEMMA WrapFacts ==
    ASSUME NEW addr \in Addresses, NEW d \in 0 .. nStreamBufferSize
    PROVE  Wrap(addr + d) \in Addresses /\ Wrap(addr + 0) = addr
  BY SbmAssumption DEF Wrap, Addresses

-----------------------------------------------------------------------------
(* The invariant is inductive: one lemma per group of actions.             *)

\* Before the first part, with empty rings.
LEMMA InputInit == Init => InputInv
  <1> SUFFICES ASSUME Init PROVE InputInv
    OBVIOUS
  <1>1. RingInv /\ SbmTypeOK
    BY InitRing DEF Init, RingInv
  <1>2. nValidFrameNum = 0 /\ nValidDataSize = 0
    BY DEF Init, SbmInit
  <1>3. partialStreamDataInfo \in DataInfo
    BY SbmAssumption DEF Init, ClearedInfo, DataInfo, NULL
  <1>4. part \in Part
    BY SbmAssumption, InputAssumption DEF Init, NoPart, Part
  <1>5. PartialFits
    BY <1>2, SbmAssumption DEF Init, ClearedInfo, PartialFits
  <1> QED
    BY <1>1, <1>2, <1>3, <1>4, <1>5, EmptyLayout
    DEF Init, InputInv, TypeOK, PartFits

\* The steps that leave the rings and the collected parts alone: the demux
\* thread asks for space, gives up, or drops the part; the decoder crashes.
LEMMA DemuxInv ==
    ASSUME InputInv,
           \/ Prefetch \/ RequestVideoStreamBuffer \/ AbandonRequest
           \/ ReadFails \/ SubmitAfterCrash \/ DecoderCrash
    PROVE  InputInv'
  <1>1. UNCHANGED << sbmVars, partialStreamDataInfo >>
    BY DEF Prefetch, RequestVideoStreamBuffer, AbandonRequest, ReadFails,
           SubmitAfterCrash, DecoderCrash
  <1>2. RingInv' /\ Layout' /\ SbmTypeOK'
    BY <1>1, SameRings
  <1>3. PartialFits'
    BY <1>1 DEF InputInv, PartialFits, sbmVars
  <1>4. NoPart \in Part
    BY SbmAssumption, InputAssumption DEF NoPart, Part
  <1>5. TypeOK /\ PartFits
    BY DEF InputInv
  <1>6. CASE Prefetch
    BY <1>1, <1>2, <1>3, <1>5, <1>6
    DEF Prefetch, InputInv, TypeOK, PartFits
  <1>7. CASE RequestVideoStreamBuffer
    <2>1. /\ part' = [part EXCEPT !.pData =
                         Wrap(pWriteAddr + partialStreamDataInfo.nLength)]
          /\ demux' = "fill" /\ bCrashFlag' = bCrashFlag
          /\ nValidFrameNum < nMaxFrameNum
          /\ RequireSize(part.nLength) + GuardBytes
                <= nStreamBufferSize - nValidDataSize
      BY <1>7 DEF RequestVideoStreamBuffer, SbmRequestBuffer
    <2>2. /\ part'.pData = Wrap(pWriteAddr + partialStreamDataInfo.nLength)
          /\ part'.nLength = part.nLength
      BY <2>1, <1>5 DEF TypeOK, Part
    <2>3. Wrap(pWriteAddr + partialStreamDataInfo.nLength) \in Addresses
      BY InputTypes, WrapFacts DEF Addresses
    <2>4. part' \in Part
      BY <2>1, <2>3, <1>5 DEF TypeOK, Part
    <2>5. RequireSize(part.nLength) \in Nat
      BY InputTypes DEF RequireSize
    <2>6. /\ RequireSize(part.nLength)' = RequireSize(part.nLength)
          /\ pWriteAddr' = pWriteAddr /\ nValidDataSize' = nValidDataSize
          /\ nValidFrameNum' = nValidFrameNum
          /\ partialStreamDataInfo' = partialStreamDataInfo
      BY <1>1, <2>2 DEF RequireSize, PartRequire, sbmVars, numVars
    <2>7. PartFits'
      BY <2>1, <2>2, <2>5, <2>6, InputTypes
      DEF PartFits, RequireSize, PartRequire
    <2> QED
      BY <1>1, <1>2, <1>3, <1>5, <2>1, <2>4, <2>7 DEF InputInv, TypeOK
  <1>8. CASE AbandonRequest \/ ReadFails \/ SubmitAfterCrash
    <2>1. demux' = "idle" /\ part' = NoPart /\ bCrashFlag' = bCrashFlag
      BY <1>8 DEF AbandonRequest, ReadFails, SubmitAfterCrash
    <2> QED
      BY <1>1, <1>2, <1>3, <1>4, <1>5, <2>1 DEF InputInv, TypeOK, PartFits
  <1>9. CASE DecoderCrash
    <2>1. demux' = demux /\ part' = part /\ bCrashFlag' = TRUE
      BY <1>9 DEF DecoderCrash
    <2>2. PartFits'
      BY <1>1, <1>5, <2>1
      DEF PartFits, RequireSize, PartRequire, sbmVars, numVars
    <2> QED
      BY <1>1, <1>2, <1>3, <1>5, <2>1, <2>2 DEF InputInv, TypeOK
  <1> QED
    BY <1>6, <1>7, <1>8, <1>9

\* Both threads reset the rings only while no part is being written.
LEMMA ResetInv ==
    ASSUME InputInv, RequestAfterCrash \/ ResetVideoDecoder
    PROVE  InputInv'
  <1>1. /\ SbmReset /\ partialStreamDataInfo' = ZeroInfo
        /\ demux # "fill"
        /\ part' = part /\ demux' = demux /\ bCrashFlag' = bCrashFlag
    BY DEF RequestAfterCrash, ResetVideoDecoder
  <1>2. RingInv' /\ SbmTypeOK'
    BY <1>1, ResetRing DEF InputInv, RingInv
  <1>3. (nValidFrameNum = 0 /\ nValidDataSize = 0)'
    BY <1>1 DEF SbmReset
  <1>4. Layout'
    BY <1>3, EmptyLayout, PTL
  <1>5. ZeroInfo \in DataInfo
    BY SbmAssumption DEF ZeroInfo, DataInfo
  <1>6. PartialFits'
    BY <1>1, <1>3, SbmAssumption DEF PartialFits, ZeroInfo
  <1> QED
    BY <1>1, <1>2, <1>4, <1>5, <1>6 DEF InputInv, TypeOK, PartFits

\* The engine makes room or does not: the granted space stays granted.
LEMMA EngineInv ==
    ASSUME InputInv, EngineStep
    PROVE  InputInv'
  <1>1. /\ UNCHANGED inputVars
        /\ SbmRequestStream \/ SbmReturnStream \/ SbmFlushStream
    BY DEF EngineStep
  <1>2. RingInv' /\ SbmTypeOK'
    BY <1>1, RequestRing, ReturnRing, FlushRing DEF InputInv, RingInv
  <1>3. /\ Layout'
        /\ pWriteAddr' = pWriteAddr
        /\ nValidDataSize' <= nValidDataSize
        /\ nValidFrameNum' <= nValidFrameNum
    <2>1. CASE SbmRequestStream \/ SbmReturnStream
      <3>1. UNCHANGED << pWriteAddr, nValidDataSize, pFrames, nFlushPos,
                         nValidFrameNum >>
        BY <2>1 DEF SbmRequestStream, SbmReturnStream
      <3> QED
        BY <3>1, SameLayout, InputTypes DEF InputInv
    <2>2. CASE SbmFlushStream
      BY <2>2, <1>2, FlushLayout
    <2> QED
      BY <1>1, <2>1, <2>2
  <1>4. nValidDataSize' \in Nat /\ nValidFrameNum' \in Nat
    <2>1. (nValidFrameNum \in Nat)'
      BY <1>2, SbmAssumption DEF SbmTypeOK
    <2>2. (nValidDataSize \in 0 .. nStreamBufferSize)'
      BY <2>1, <1>3, LayoutSize, PTL
    <2> QED
      BY <2>1, <2>2, SbmAssumption
  <1>5. TypeOK'
    BY <1>1, <1>2 DEF InputInv, TypeOK, inputVars
  <1>6. PartialFits'
    BY <1>1, <1>3, <1>4, InputTypes DEF InputInv, PartialFits, inputVars
  <1>7. PartFits'
    <2>1. /\ demux' = demux /\ part' = part
          /\ partialStreamDataInfo' = partialStreamDataInfo
          /\ RequireSize(part.nLength)' = RequireSize(part.nLength)
          /\ RequireSize(part.nLength) \in Nat
      BY <1>1, InputTypes DEF inputVars, RequireSize, PartRequire
    <2> QED
      BY <2>1, <1>3, <1>4, InputTypes
      DEF InputInv, PartFits, RequireSize, PartRequire
  <1> QED
    BY <1>2, <1>3, <1>5, <1>6, <1>7 DEF InputInv

\* The collected parts, once there are some, are accepted while the thread
\* has been granted space for the next one.
LEMMA CollectedAccepted ==
    ASSUME InputInv, demux = "fill", partialStreamDataInfo.nLength # 0
    PROVE  /\ SbmAddStreamAccepts(partialStreamDataInfo)
           /\ partialStreamDataInfo.pData = pWriteAddr
  <1>1. partialStreamDataInfo.pData = pWriteAddr
    BY DEF InputInv, PartialFits
  <1>2. pWriteAddr # NULL
    BY InputTypes DEF NULL
  <1>3. nValidFrameNum < nMaxFrameNum
    BY DEF InputInv, PartFits
  <1>4. partialStreamDataInfo.nLength + nValidDataSize <= nStreamBufferSize
    BY DEF InputInv, PartialFits
  <1> QED
    BY <1>1, <1>2, <1>3, <1>4 DEF SbmAddStreamAccepts

\* Submitting a part: it begins where the collected parts end, and an
\* unfinished frame before it moves the write address there.
LEMMA SubmitInv ==
    ASSUME InputInv, SubmitVideoStreamData
    PROVE  InputInv'
  <1>1. /\ demux = "fill" /\ part' = NoPart /\ bCrashFlag' = bCrashFlag
        /\ demux' \in {"add", "idle"}
    BY DEF SubmitVideoStreamData
  <1>2. NoPart \in Part
    BY SbmAssumption, InputAssumption DEF NoPart, Part
  <1>3. /\ part.pData = Wrap(pWriteAddr + partialStreamDataInfo.nLength)
        /\ RequireSize(part.nLength) + GuardBytes + nValidDataSize
               <= nStreamBufferSize
        /\ partialStreamDataInfo \in DataInfo /\ part \in Part
    BY <1>1 DEF InputInv, PartFits, TypeOK
  <1>4. part.nLength + partialStreamDataInfo.nLength + nValidDataSize
            <= nStreamBufferSize
    BY <1>3, InputTypes DEF RequireSize
  <1>5. part.pData \in Addresses
    BY <1>3, InputTypes, WrapFacts DEF Addresses
  <1>6. part.nPts \in Pts /\ partialStreamDataInfo.nPts \in Pts
    BY <1>3 DEF Part, DataInfo
  <1>7. CASE part.bIsFirstPart
    <2>1. /\ SubmitFirstPart
          /\ partialStreamDataInfo' = [pData |-> part.pData,
                                       nLength |-> part.nLength,
                                       nPts |-> part.nPts]
      BY <1>7 DEF SubmitVideoStreamData, SubmitFirstPart
    <2>2. (partialStreamDataInfo \in DataInfo)'
      BY <2>1, <1>5, <1>6, InputTypes DEF DataInfo
    <2>3. /\ RingInv' /\ Layout' /\ SbmTypeOK'
          /\ pWriteAddr' = part.pData
          /\ nValidDataSize' = nValidDataSize + partialStreamDataInfo.nLength
      <3>1. CASE partialStreamDataInfo.nLength # 0
        <4>1. SbmAddStream(partialStreamDataInfo)
          BY <2>1, <3>1 DEF SubmitFirstPart
        <4>2. RingInv' /\ SbmTypeOK'
          BY <4>1, <1>3, AddRing DEF InputInv, RingInv
        <4> QED
          BY <4>1, <4>2, <3>1, <1>1, <1>3, AddLayout, CollectedAccepted
      <3>2. CASE partialStreamDataInfo.nLength = 0
        <4>1. UNCHANGED sbmVars
          BY <2>1, <3>2 DEF SubmitFirstPart
        <4>2. part.pData = pWriteAddr
          BY <3>2, <1>3, InputTypes, WrapFacts, SbmAssumption DEF Addresses
        <4> QED
          BY <4>1, <4>2, <3>2, SameRings, InputTypes DEF sbmVars
      <3> QED
        BY <3>1, <3>2
    <2>4. PartialFits'
      BY <2>1, <2>3, <1>4, <1>5, InputTypes DEF PartialFits, NULL, Addresses
    <2> QED
      BY <1>1, <1>2, <2>2, <2>3, <2>4
      DEF InputInv, TypeOK, PartFits
  <1>8. CASE ~part.bIsFirstPart
    <2>1. /\ partialStreamDataInfo' =
               [pData |-> IF partialStreamDataInfo.pData = NULL
                          THEN part.pData ELSE partialStreamDataInfo.pData,
                nLength |-> partialStreamDataInfo.nLength + part.nLength,
                nPts |-> IF partialStreamDataInfo.nPts = -1
                         THEN part.nPts ELSE partialStreamDataInfo.nPts]
          /\ UNCHANGED sbmVars
      BY <1>8 DEF SubmitVideoStreamData, SubmitNextPart
    <2>2. RingInv' /\ Layout' /\ SbmTypeOK'
      BY <2>1, SameRings
    <2>3. /\ partialStreamDataInfo'.pData = pWriteAddr
          /\ pWriteAddr \in Addresses
      <3>1. CASE partialStreamDataInfo.pData = NULL
        <4>1. partialStreamDataInfo.nLength = 0
          BY <3>1 DEF InputInv, PartialFits
        <4> QED
          BY <4>1, <3>1, <2>1, <1>3, InputTypes, WrapFacts DEF Addresses
      <3>2. CASE partialStreamDataInfo.pData # NULL
        BY <3>2, <2>1, InputTypes DEF InputInv, PartialFits, Addresses
      <3> QED
        BY <3>1, <3>2
    <2>4. /\ partialStreamDataInfo'.nLength
                = partialStreamDataInfo.nLength + part.nLength
          /\ partialStreamDataInfo'.nLength \in 0 .. nStreamBufferSize
          /\ partialStreamDataInfo'.nPts \in Pts
      BY <2>1, <1>4, <1>6, InputTypes
    <2>5. (partialStreamDataInfo \in DataInfo)'
      BY <2>1, <2>3, <2>4 DEF DataInfo
    <2>6. PartialFits'
      <3>1. pWriteAddr' = pWriteAddr /\ nValidDataSize' = nValidDataSize
        BY <2>1 DEF sbmVars
      <3> QED
        BY <3>1, <2>3, <2>4, <1>4, InputTypes DEF PartialFits, NULL, Addresses
    <2> QED
      BY <1>1, <1>2, <2>2, <2>5, <2>6 DEF InputInv, TypeOK, PartFits
  <1> QED
    BY <1>7, <1>8

\* Adding the frame of the last part, whether it is accepted or not.
LEMMA AddFrameInv ==
    ASSUME InputInv, AddFrame
    PROVE  InputInv'
  <1>1. /\ SbmAddStream(partialStreamDataInfo)
        /\ partialStreamDataInfo' = ClearedInfo
        /\ demux' = "idle" /\ part' = part /\ bCrashFlag' = bCrashFlag
        /\ partialStreamDataInfo \in DataInfo
    BY DEF AddFrame, InputInv, TypeOK
  <1>2. RingInv' /\ SbmTypeOK'
    BY <1>1, AddRing DEF InputInv, RingInv
  <1>3. Layout'
    <2>1. CASE SbmAddStreamAccepts(partialStreamDataInfo)
      <3>1. partialStreamDataInfo.pData = pWriteAddr
        BY <2>1 DEF InputInv, PartialFits, SbmAddStreamAccepts
      <3> QED
        BY <3>1, <2>1, <1>1, AddLayout
    <2>2. CASE ~SbmAddStreamAccepts(partialStreamDataInfo)
      BY <2>2, <1>1, SameRings DEF SbmAddStream
    <2> QED
      BY <2>1, <2>2
  <1>4. ClearedInfo \in DataInfo
    BY SbmAssumption DEF ClearedInfo, DataInfo
  <1>5. PartialFits'
    <2>1. (nValidFrameNum \in Nat)'
      BY <1>2, SbmAssumption DEF SbmTypeOK
    <2>2. (nValidDataSize \in 0 .. nStreamBufferSize)'
      BY <2>1, <1>3, LayoutSize, PTL
    <2>3. /\ partialStreamDataInfo'.nLength = 0
          /\ partialStreamDataInfo'.pData = NULL
      BY <1>1 DEF ClearedInfo
    <2>4. /\ nValidDataSize' \in Int /\ nValidDataSize' <= nStreamBufferSize
          /\ \A x \in Int : 0 + x = x
      BY <2>2, SbmAssumption
    <2> QED
      BY <2>3, <2>4 DEF PartialFits
  <1> QED
    BY <1>1, <1>2, <1>3, <1>4, <1>5 DEF InputInv, TypeOK, PartFits

\* Every step of either thread keeps it.
LEMMA InputNext == InputInv /\ [Next]_vars => InputInv'
  <1> SUFFICES ASSUME InputInv, [Next]_vars PROVE InputInv'
    OBVIOUS
  <1>1. CASE \/ Prefetch \/ RequestVideoStreamBuffer \/ AbandonRequest
             \/ ReadFails \/ SubmitAfterCrash \/ DecoderCrash
    BY <1>1, DemuxInv
  <1>2. CASE RequestAfterCrash \/ ResetVideoDecoder
    BY <1>2, ResetInv
  <1>3. CASE SubmitVideoStreamData
    BY <1>3, SubmitInv
  <1>4. CASE AddFrame
    BY <1>4, AddFrameInv
  <1>5. CASE EngineStep
    BY <1>5, EngineInv
  <1>6. CASE UNCHANGED vars
    <2>1. UNCHANGED sbmVars /\ UNCHANGED inputVars
      BY <1>6 DEF vars
    <2>2. RingInv' /\ Layout' /\ SbmTypeOK'
      BY <2>1, SameRings
    <2>3. PartialFits' /\ PartFits'
      BY <2>1 DEF InputInv, PartialFits, PartFits, RequireSize, PartRequire,
                  sbmVars, numVars, inputVars
    <2> QED
      BY <2>1, <2>2, <2>3 DEF InputInv, TypeOK, inputVars
  <1> QED
    BY <1>1, <1>2, <1>3, <1>4, <1>5, <1>6 DEF Next

\* The invariant of the input path holds in every reachable state.
THEOREM InputInvariant == Spec => []InputInv
  BY InputInit, InputNext, PTL DEF Spec

\* The variables of the input path keep their types: among others, no run of
\* parts of one frame grows longer than the ring.
THEOREM InputTypeCorrect == Spec => []TypeOK
  <1>1. InputInv => TypeOK
    BY DEF InputInv
  <1> QED
    BY <1>1, InputInvariant, PTL

\* The engine never runs into the abort() calls of sbmStream.c in the input
\* path either, although both threads reset the rings under it.
THEOREM InputNeverAborts == Spec => []NeverAborts
  <1>1. InputInv => NeverAborts
    BY DEF InputInv, RingInv, NeverAborts
  <1> QED
    BY <1>1, InputInvariant, PTL

\* An unfinished frame is always accepted when its successor arrives: the
\* result of SbmAddStream that SubmitVideoStreamData ignores is a success.
THEOREM PartialAlwaysAccepted == Spec => []PartialAccepted
  <1>1. InputInv => PartialAccepted
    BY CollectedAccepted DEF PartialAccepted
  <1> QED
    BY <1>1, InputInvariant, PTL

\* A byte at or behind the write address is none of the d bytes before it,
\* unless the two are a whole ring apart.
LEMMA ApartOnRing ==
    ASSUME NEW w \in Addresses, NEW m \in Nat, NEW i \in Nat,
           NEW d \in 0 .. nStreamBufferSize, NEW k \in Nat,
           k < d, m + i + d - k < nStreamBufferSize
    PROVE  Wrap(Wrap(w + m) + i) # Wrap(Back(w, d) + k)
  BY SMTT(30), SbmAssumption DEF Wrap, Back, Addresses

\* The same for the bytes that begin at the write address.
LEMMA ApartBehind ==
    ASSUME NEW w \in Addresses, NEW m \in Nat, NEW i \in Nat, NEW k \in Nat,
           k < m, m + i - k < nStreamBufferSize
    PROVE  Wrap(Wrap(w + m) + i) # Wrap(w + k)
  BY SMTT(30), SbmAssumption DEF Wrap, Addresses

\* A frame of len bytes that ends d bytes before addr.
LEMMA BackEnd ==
    ASSUME NEW addr \in Addresses, NEW len \in Nat, NEW d \in Nat,
           len + d <= nStreamBufferSize
    PROVE  /\ Wrap(Back(addr, len + d) + len) = Back(addr, d)
           /\ Back(addr, 0) = addr
  BY SMTT(30), SbmAssumption DEF Wrap, Back, Addresses

\* A frame of the layout, by its distance to the write address.
LEMMA FramePlace ==
    ASSUME InputInv, NEW j \in 0 .. nValidFrameNum - 1
    PROVE  LET frame == pFrames[Ahead(nFlushPos, j)]
           IN  \E d \in 0 .. nStreamBufferSize :
                 /\ frame.nLength \in Nat
                 /\ frame.nLength <= d /\ d <= nValidDataSize
                 /\ frame.pData = Back(pWriteAddr, d)
                 /\ Wrap(frame.pData + frame.nLength)
                      = IF j = nValidFrameNum - 1
                        THEN pWriteAddr
                        ELSE pFrames[Ahead(nFlushPos, j + 1)].pData
  <1> DEFINE n == nValidFrameNum
             frame == pFrames[Ahead(nFlushPos, j)]
             next == pFrames[Ahead(nFlushPos, j + 1)]
  <1>1. PICK dist : IsChain(dist, n, pWriteAddr, nValidDataSize, Entries)
    BY DEF InputInv, Layout
  <1>2. /\ n \in 0 .. nMaxFrameNum /\ pWriteAddr \in Addresses
        /\ nMaxFrameNum \in Nat
    BY InputTypes DEF Addresses
  <1>3. /\ j \in 0 .. nMaxFrameNum - 1 /\ j \in 0 .. nMaxFrameNum
        /\ j \in 0 .. n /\ j + 1 \in 0 .. n /\ 0 \in 0 .. n
    BY <1>2
  <1>4. Entries[j] = frame
    BY <1>3 DEF Entries
  <1>5. /\ dist[j] = frame.nLength + dist[j + 1]
        /\ frame.pData = Back(pWriteAddr, dist[j])
    BY <1>1, <1>4 DEF IsChain
  <1>6. frame.nLength \in Nat
    BY <1>3, InputTypes DEF Entry
  <1>7. /\ dist[j] \in 0 .. nStreamBufferSize
        /\ dist[j + 1] \in 0 .. nStreamBufferSize
        /\ dist[j] <= nValidDataSize
    BY <1>1, <1>3 DEF IsChain
  <1>8. frame.nLength <= dist[j]
    BY <1>5, <1>6, <1>7
  <1>9. Wrap(frame.pData + frame.nLength) = Back(pWriteAddr, dist[j + 1])
    <2>1. frame.nLength + dist[j + 1] <= nStreamBufferSize
      BY <1>5, <1>7
    <2>2. dist[j + 1] \in Nat
      BY <1>7
    <2> QED
      BY <2>1, <2>2, <1>2, <1>5, <1>6, BackEnd
  <1>10. CASE j = n - 1
    <2>1. dist[j + 1] = 0
      BY <1>1, <1>2, <1>10 DEF IsChain
    <2>2. Back(pWriteAddr, 0) = pWriteAddr
      BY <1>2 DEF Back, Addresses
    <2> QED
      BY <2>1, <2>2, <1>5, <1>6, <1>7, <1>8, <1>9, <1>10
  <1>11. CASE j # n - 1
    <2>1. j + 1 \in 0 .. n - 1 /\ j + 1 \in 0 .. nMaxFrameNum - 1
      BY <1>2, <1>11
    <2>2. Entries[j + 1] = next
      BY <2>1 DEF Entries
    <2>3. next.pData = Back(pWriteAddr, dist[j + 1])
      BY <2>1, <2>2, <1>1 DEF IsChain
    <2> QED
      BY <2>3, <1>5, <1>6, <1>7, <1>8, <1>9, <1>11
  <1> QED
    BY <1>10, <1>11

\* The frames lie one behind the other, and the collected parts begin where
\* the last one ends.
THEOREM RingLayoutAlways == Spec => []RingLayout
  <1>1. InputInv => RingLayout
    <2> SUFFICES ASSUME InputInv PROVE RingLayout
      OBVIOUS
    <2>1. partialStreamDataInfo.pData \in {NULL, pWriteAddr}
      BY DEF InputInv, PartialFits
    <2> QED
      BY <2>1, FramePlace DEF RingLayout
  <1> QED
    BY <1>1, InputInvariant, PTL

\* The demux thread never writes over a byte of a frame the engine has not
\* flushed or of a part collected before, whatever the lengths of the parts.
THEOREM WritesDisjointAlways == Spec => []WritesDisjoint
  <1>1. InputInv => WritesDisjoint
    <2> SUFFICES ASSUME InputInv, demux = "fill" PROVE WritesDisjoint
      BY DEF WritesDisjoint
    <2> DEFINE m == partialStreamDataInfo.nLength
               r == PartRequire(part.nLength)
               granted == Region(part.pData, r)
    <2>1. /\ part.pData = Wrap(pWriteAddr + m)
          /\ r + m + GuardBytes + nValidDataSize <= nStreamBufferSize
      BY DEF InputInv, PartFits, RequireSize
    <2>2. /\ m \in Nat /\ r \in Nat /\ GuardBytes \in Nat
          /\ nValidDataSize \in Nat /\ nStreamBufferSize \in Nat
          /\ pWriteAddr \in Addresses
      BY InputTypes DEF Addresses
    <2> HIDE DEF m, r
    <2>3. ASSUME NEW frame \in FramesOnRing
          PROVE  granted \cap Region(frame.pData, frame.nLength) = {}
      <3>1. PICK j \in 0 .. nValidFrameNum - 1 :
              frame = pFrames[Ahead(nFlushPos, j)]
        BY <2>3 DEF FramesOnRing
      <3>2. PICK d \in 0 .. nStreamBufferSize :
              /\ frame.nLength \in Nat
              /\ frame.nLength <= d /\ d <= nValidDataSize
              /\ frame.pData = Back(pWriteAddr, d)
        BY <3>1, FramePlace
      <3>3. ASSUME NEW i \in 0 .. r - 1, NEW k \in 0 .. frame.nLength - 1
            PROVE  Wrap(part.pData + i) # Wrap(frame.pData + k)
        <4>1. /\ i \in Nat /\ k \in Nat /\ k < d
              /\ m + i + d - k < nStreamBufferSize
          BY <2>1, <2>2, <3>2
        <4> QED
          BY <4>1, <2>1, <2>2, <3>2, ApartOnRing
      <3> QED
        BY <3>3 DEF Region
    <2>4. ASSUME m > 0
          PROVE  granted \cap Region(partialStreamDataInfo.pData, m) = {}
      <3>1. partialStreamDataInfo.pData = pWriteAddr
        BY <2>4, <2>2 DEF InputInv, PartialFits, m
      <3>2. ASSUME NEW i \in 0 .. r - 1, NEW k \in 0 .. m - 1
            PROVE  Wrap(part.pData + i) # Wrap(pWriteAddr + k)
        <4>1. /\ i \in Nat /\ k \in Nat /\ k < m
              /\ m + i - k < nStreamBufferSize
          BY <2>1, <2>2
        <4> QED
          BY <4>1, <2>1, <2>2, ApartBehind
      <3> QED
        BY <3>1, <3>2 DEF Region
    <2> QED
      BY <2>3, <2>4 DEF WritesDisjoint, m, r
  <1> QED
    BY <1>1, InputInvariant, PTL

\* The stream buffer manager as the input path uses it is the one specified
\* on its own, so that what holds of every use of it holds here.
THEOREM InputImplementsSbm == Spec => SbmSpec
  <1>1. Init => SbmInit
    BY DEF Init
  <1>2. InputInv /\ [Next]_vars => [SbmNext]_sbmVars
    <2> SUFFICES ASSUME InputInv, [Next]_vars PROVE [SbmNext]_sbmVars
      OBVIOUS
    <2>1. ~aborted /\ partialStreamDataInfo \in DataInfo
      BY DEF InputInv, RingInv, TypeOK
    <2>2. CASE SubmitVideoStreamData
      <3>1. SbmAddStream(partialStreamDataInfo) \/ UNCHANGED sbmVars
        BY <2>2 DEF SubmitVideoStreamData, SubmitFirstPart, SubmitNextPart
      <3> QED
        BY <3>1, <2>1 DEF SbmNext
    <2>3. CASE AddFrame
      BY <2>1, <2>3 DEF AddFrame, SbmNext
    <2>4. CASE RequestAfterCrash \/ ResetVideoDecoder
      BY <2>4 DEF RequestAfterCrash, ResetVideoDecoder, SbmNext
    <2>5. CASE EngineStep
      BY <2>5 DEF EngineStep, SbmNext
    <2>6. CASE \/ Prefetch \/ RequestVideoStreamBuffer \/ AbandonRequest
               \/ ReadFails \/ SubmitAfterCrash \/ DecoderCrash
      BY <2>6 DEF Prefetch, RequestVideoStreamBuffer, AbandonRequest,
                  ReadFails, SubmitAfterCrash, DecoderCrash
    <2>7. CASE UNCHANGED vars
      BY <2>7 DEF vars
    <2> QED
      BY <2>2, <2>3, <2>4, <2>5, <2>6, <2>7 DEF Next
  <1> QED
    BY <1>1, <1>2, InputInvariant, PTL DEF Spec, SbmSpec

\* The engine reads the frames that the demux thread completes in the order it
\* completes them, through the whole input path.
THEOREM InputImplementsFifo == Spec => ImplementsFifo
  BY InputImplementsSbm, RingImplementsFifo, PTL

\* nValidDataSize, by which space is granted, is exact in the input path.
THEOREM InputDataSizeExact == Spec => []DataSizeExact
  BY InputImplementsSbm, DataSizeExactAlways, PTL
=============================================================================
