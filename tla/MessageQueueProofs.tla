------------------------- MODULE MessageQueueProofs -------------------------
(***************************************************************************)
(* Proofs about the message queue, for every capacity and any number of    *)
(* threads.  The invariant counts tokens: those in the semaphore and those *)
(* that threads are about to post or have taken.                           *)
(***************************************************************************)
EXTENDS MessageQueue, SequenceTheorems, FiniteSetTheorems, TLAPS

Tokens == sem + nPosting + nGetting + nPeeking

\* The nodes on the list are the valid ones, each once.
NodeInv ==
    /\ \A i \in 1 .. Len(list) : list[i] \in valid
    /\ \A i, j \in 1 .. Len(list) : list[i] = list[j] => i = j

ValidListed == \A n \in valid : \E i \in 1 .. Len(list) : list[i] = n

QueueInv ==
    /\ TypeOK
    /\ nCount = Len(list)
    /\ Len(list) <= Tokens
    /\ ~UseFlush => ~flushing /\ ~failed /\ Len(list) = Tokens
    /\ NodeInv
    /\ ValidListed

\* The types the arithmetic steps need.
LEMMA NumberTypes ==
    ASSUME QueueInv
    PROVE  /\ sem \in Nat /\ nPosting \in Nat /\ nGetting \in Nat
           /\ nPeeking \in Nat /\ nCount \in 0 .. nMaxMessageNum
           /\ nMaxMessageNum \in Nat /\ Len(list) \in Nat
           /\ nCount = Len(list) /\ Len(list) <= Tokens
           /\ ~UseFlush => Len(list) = Tokens
           /\ list \in Seq(Nodes)
  BY QueueAssumption DEF QueueInv, TypeOK

\* An empty queue satisfies the invariant.
LEMMA InitQueue == Init => QueueInv
  <1> SUFFICES ASSUME Init PROVE QueueInv
    OBVIOUS
  <1>1. list \in Seq(Nodes) /\ Len(list) = 0
    BY DEF Init
  <1>2. msg \in [Nodes -> Message \cup {NoMessage}]
    BY DEF Init
  <1>3. nCount \in 0 .. nMaxMessageNum /\ sem \in Nat /\ nPosting \in Nat
        /\ nGetting \in Nat /\ nPeeking \in Nat /\ Tokens = 0 /\ nCount = 0
    BY QueueAssumption DEF Init, Tokens
  <1>4. TypeOK
    BY <1>1, <1>2, <1>3 DEF Init, TypeOK
  <1> QED
    BY <1>1, <1>3, <1>4 DEF Init, QueueInv, NodeInv, ValidListed

\* Linking a node: it is free, so it is not on the list yet.
LEMMA PostLinkQueue ==
    ASSUME QueueInv, NEW m \in Message, PostLink(m)
    PROVE  QueueInv'
  <1>1. PICK n \in Nodes :
          /\ FreeNode(n)
          /\ msg' = [msg EXCEPT ![n] = m]
          /\ valid' = valid \cup {n}
          /\ list' = Append(list, n)
    BY DEF PostLink
  <1>2. /\ nCount < nMaxMessageNum
        /\ nCount' = nCount + 1 /\ nPosting' = nPosting + 1
        /\ sem' = sem /\ nGetting' = nGetting /\ nPeeking' = nPeeking
    BY DEF PostLink
  <1>3. flushing' = flushing /\ failed' = failed
    BY DEF PostLink
  <1>4. /\ list' \in Seq(Nodes) /\ Len(list') = Len(list) + 1
        /\ \A i \in 1 .. Len(list) : list'[i] = list[i]
        /\ list'[Len(list) + 1] = n
    BY <1>1, NumberTypes
  <1>5. /\ nCount' \in 0 .. nMaxMessageNum /\ nPosting' \in Nat
        /\ nCount' = Len(list') /\ Len(list') <= Tokens'
        /\ ~UseFlush => Len(list') = Tokens'
    BY SMTT(60), SMTT(30), <1>2, <1>4, NumberTypes DEF Tokens
  <1>6. NodeInv'
    <2>1. n \notin valid
      BY <1>1 DEF FreeNode
    <2>2. \A i \in 1 .. Len(list) : list'[i] \in valid /\ list'[i] # n
      BY <2>1, <1>4 DEF QueueInv, NodeInv
    <2>3. \A i \in 1 .. Len(list') : i \in 1 .. Len(list) \/ i = Len(list) + 1
      BY <1>4, NumberTypes
    <2>4. \A i \in 1 .. Len(list') : list'[i] \in valid'
      BY <2>2, <2>3, <1>1, <1>4
    <2>5. ASSUME NEW i \in 1 .. Len(list'), NEW j \in 1 .. Len(list'),
                 list'[i] = list'[j]
          PROVE  i = j
      <3>1. CASE i \in 1 .. Len(list) /\ j \in 1 .. Len(list)
        BY <3>1, <2>5, <1>4 DEF QueueInv, NodeInv
      <3>2. CASE ~(i \in 1 .. Len(list) /\ j \in 1 .. Len(list))
        BY <3>2, <2>2, <2>3, <2>5, <1>4
      <3> QED
        BY <3>1, <3>2
    <2> QED
      BY <2>4, <2>5 DEF NodeInv
  <1>8. ValidListed'
    <2> SUFFICES ASSUME NEW k \in valid'
                 PROVE  \E i \in 1 .. Len(list') : list'[i] = k
      BY DEF ValidListed
    <2>1. CASE k = n
      <3>1. Len(list) + 1 \in 1 .. Len(list')
        BY <1>4, NumberTypes
      <3> QED
        BY <2>1, <3>1, <1>4
    <2>2. CASE k # n
      <3>1. PICK i \in 1 .. Len(list) : list[i] = k
        BY <2>2, <1>1 DEF QueueInv, ValidListed
      <3>2. i \in 1 .. Len(list')
        BY <1>4, NumberTypes
      <3> QED
        BY <3>1, <3>2, <1>4
    <2> QED
      BY <2>1, <2>2
  <1>7. TypeOK'
    <2>1. msg' \in [Nodes -> Message \cup {NoMessage}] /\ valid' \in SUBSET Nodes
      BY <1>1 DEF QueueInv, TypeOK
    <2> QED
      BY <2>1, <1>2, <1>3, <1>4, <1>5 DEF QueueInv, TypeOK
  <1> QED
    BY <1>3, <1>5, <1>6, <1>7, <1>8 DEF QueueInv

\* The steps that only move a token between the semaphore and a thread.
LEMMA TokenQueue ==
    ASSUME QueueInv, PostSignal \/ GetWait \/ PeekWait \/ PeekSignal
    PROVE  QueueInv'
  <1>0. /\ sem \in Nat /\ nPosting \in Nat /\ nGetting \in Nat
        /\ nPeeking \in Nat
    BY NumberTypes
  <1>1. /\ sem' \in Nat /\ nPosting' \in Nat /\ nGetting' \in Nat
        /\ nPeeking' \in Nat /\ Tokens' = Tokens
    <2>1. CASE PostSignal
      <3>1. /\ nPosting > 0 /\ nPosting' = nPosting - 1 /\ sem' = sem + 1
            /\ nGetting' = nGetting /\ nPeeking' = nPeeking
        BY <2>1 DEF PostSignal
      <3> QED
        BY <3>1, <1>0 DEF Tokens
    <2>2. CASE GetWait
      <3>1. /\ sem > 0 /\ sem' = sem - 1 /\ nGetting' = nGetting + 1
            /\ nPosting' = nPosting /\ nPeeking' = nPeeking
        BY <2>2 DEF GetWait
      <3> QED
        BY <3>1, <1>0 DEF Tokens
    <2>3. CASE PeekWait
      <3>1. /\ sem > 0 /\ sem' = sem - 1 /\ nPeeking' = nPeeking + 1
            /\ nPosting' = nPosting /\ nGetting' = nGetting
        BY <2>3 DEF PeekWait
      <3> QED
        BY <3>1, <1>0 DEF Tokens
    <2>4. CASE PeekSignal
      <3>1. /\ nPeeking > 0 /\ nPeeking' = nPeeking - 1 /\ sem' = sem + 1
            /\ nPosting' = nPosting /\ nGetting' = nGetting
        BY <2>4 DEF PeekSignal
      <3> QED
        BY <3>1, <1>0 DEF Tokens
    <2> QED
      BY <2>1, <2>2, <2>3, <2>4
  <1>2. /\ list' = list /\ msg' = msg /\ valid' = valid /\ nCount' = nCount
        /\ flushing' = flushing /\ failed' = failed
    BY DEF PostSignal, GetWait, PeekWait, PeekSignal
  <1> QED
    BY <1>1, <1>2 DEF QueueInv, TypeOK, NodeInv, ValidListed

\* Unlinking the first node.  Without flushes the thread's own token shows
\* that there is one.
LEMMA GetUnlinkQueue ==
    ASSUME QueueInv, GetUnlink
    PROVE  QueueInv'
  <1>1. /\ nGetting > 0 /\ nGetting' = nGetting - 1
        /\ sem' = sem /\ nPosting' = nPosting /\ nPeeking' = nPeeking
        /\ msg' = msg
    BY DEF GetUnlink
  <1>2. flushing' = flushing
    BY DEF GetUnlink
  <1>3. CASE nCount <= 0
    <2>1. list' = list /\ valid' = valid /\ nCount' = nCount
      BY <1>3 DEF GetUnlink
    <2>2. UseFlush
      BY <1>1, <1>3, NumberTypes, QueueAssumption DEF Tokens
    <2>3. /\ nGetting' \in Nat /\ Len(list') <= Tokens'
      BY <1>1, <1>3, <2>1, NumberTypes DEF Tokens
    <2>4. failed' = TRUE
      BY <1>3 DEF GetUnlink
    <2> QED
      BY <1>1, <1>2, <2>1, <2>2, <2>3, <2>4 DEF QueueInv, TypeOK, NodeInv, ValidListed
  <1>4. CASE ~(nCount <= 0)
    <2>1. /\ list' = Tail(list) /\ valid' = valid \ {Head(list)}
          /\ nCount' = nCount - 1 /\ failed' = failed
      BY <1>4 DEF GetUnlink
    <2>2. Len(list) \in Nat \ {0} /\ list \in Seq(Nodes)
      BY <1>4, NumberTypes
    <2>3. /\ list' \in Seq(Nodes) /\ Len(list') = Len(list) - 1
          /\ \A i \in 1 .. Len(list') : list'[i] = list[i + 1]
          /\ Head(list) = list[1]
      BY <2>1, <2>2
    <2>4. /\ nCount' \in 0 .. nMaxMessageNum /\ nGetting' \in Nat
          /\ nCount' = Len(list') /\ Len(list') <= Tokens'
          /\ ~UseFlush => Len(list') = Tokens'
      BY SMTT(30), <1>1, <1>4, <2>1, <2>3, NumberTypes DEF Tokens
    <2>5. NodeInv'
      <3>1. \A i \in 1 .. Len(list') : i + 1 \in 1 .. Len(list) /\ i + 1 # 1
        BY <2>2, <2>3
      <3>2. 1 \in 1 .. Len(list)
        BY <2>2
      <3>3. \A i \in 1 .. Len(list') : list'[i] \in valid'
        BY <3>1, <3>2, <2>1, <2>3 DEF QueueInv, NodeInv
      <3>4. ASSUME NEW i \in 1 .. Len(list'), NEW j \in 1 .. Len(list'),
                   list'[i] = list'[j]
            PROVE  i = j
        <4>1. i + 1 = j + 1
          BY <3>1, <3>4, <2>3 DEF QueueInv, NodeInv
        <4> QED
          BY <4>1
      <3> QED
        BY <3>3, <3>4 DEF NodeInv
    <2>7. ValidListed'
      <3> SUFFICES ASSUME NEW k \in valid'
                   PROVE  \E i \in 1 .. Len(list') : list'[i] = k
        BY DEF ValidListed
      <3>1. PICK i \in 1 .. Len(list) : list[i] = k
        BY <2>1 DEF QueueInv, ValidListed
      <3>2. i # 1
        BY <3>1, <2>1, <2>3
      <3>3. i - 1 \in 1 .. Len(list') /\ (i - 1) + 1 = i
        BY <3>2, <2>2, <2>3
      <3> QED
        BY <3>1, <3>3, <2>3
    <2>6. TypeOK'
      BY <1>1, <1>2, <2>1, <2>3, <2>4 DEF QueueInv, TypeOK
    <2> QED
      BY <1>2, <2>1, <2>4, <2>5, <2>6, <2>7 DEF QueueInv
  <1> QED
    BY <1>3, <1>4

\* A flush empties the list before it takes the first token away.
LEMMA FlushBeginQueue ==
    ASSUME QueueInv, FlushBegin
    PROVE  QueueInv'
  <1>1. /\ UseFlush /\ flushing' = TRUE /\ valid' = {} /\ failed' = failed
        /\ msg' = msg
    BY DEF FlushBegin
  <1>2. list' \in Seq(Nodes) /\ Len(list') = 0 /\ nCount' = 0
    BY DEF FlushBegin
  <1>3. /\ sem' = sem /\ nPosting' = nPosting /\ nGetting' = nGetting
        /\ nPeeking' = nPeeking
    BY DEF FlushBegin
  <1>4. /\ nCount' \in 0 .. nMaxMessageNum
        /\ nCount' = Len(list') /\ Len(list') <= Tokens'
    BY <1>2, <1>3, NumberTypes DEF Tokens
  <1>5. NodeInv'
    BY <1>2 DEF NodeInv
  <1>6. TypeOK'
    BY <1>1, <1>2, <1>3, <1>4 DEF QueueInv, TypeOK
  <1> QED
    BY <1>1, <1>4, <1>5, <1>6 DEF QueueInv, ValidListed

\* The invariant of a flush in progress: nothing is linked meanwhile.
FlushInv == QueueInv /\ (flushing => Len(list) = 0)

\* Draining the semaphore takes tokens only while the list is empty.
LEMMA FlushDrainQueue ==
    ASSUME FlushInv, FlushDrain
    PROVE  QueueInv'
  <1>1. /\ sem > 0 /\ sem' = sem - 1 /\ nPosting' = nPosting
        /\ nGetting' = nGetting /\ nPeeking' = nPeeking /\ list' = list
    BY DEF FlushDrain
  <1>2. /\ flushing /\ flushing' = flushing /\ failed' = failed
        /\ msg' = msg /\ valid' = valid /\ nCount' = nCount
    BY DEF FlushDrain
  <1>3. Len(list) = 0 /\ UseFlush
    BY <1>2 DEF FlushInv, QueueInv
  <1>4. sem' \in Nat /\ Len(list') <= Tokens'
    BY <1>1, <1>3, NumberTypes DEF FlushInv, Tokens
  <1> QED
    BY <1>1, <1>2, <1>3, <1>4 DEF FlushInv, QueueInv, TypeOK, NodeInv, ValidListed

\* Every step keeps the invariant.
LEMMA StepQueue == FlushInv /\ [Next]_vars => FlushInv'
  <1> SUFFICES ASSUME FlushInv, [Next]_vars PROVE FlushInv'
    OBVIOUS
  <1> QueueInv
    BY DEF FlushInv
  <1>1. CASE \E m \in Message : PostLink(m)
    <2>1. QueueInv'
      BY <1>1, PostLinkQueue
    <2>2. ~flushing'
      BY <1>1 DEF PostLink
    <2> QED
      BY <2>1, <2>2 DEF FlushInv
  <1>2. CASE PostSignal \/ GetWait \/ PeekWait \/ PeekSignal
    <2>1. QueueInv'
      BY <1>2, TokenQueue
    <2>2. flushing' = flushing /\ list' = list
      BY <1>2 DEF PostSignal, GetWait, PeekWait, PeekSignal
    <2> QED
      BY <2>1, <2>2 DEF FlushInv
  <1>3. CASE GetUnlink
    <2>1. QueueInv'
      BY <1>3, GetUnlinkQueue
    <2>2. ~flushing'
      BY <1>3 DEF GetUnlink
    <2> QED
      BY <2>1, <2>2 DEF FlushInv
  <1>4. CASE FlushBegin
    <2>1. QueueInv'
      BY <1>4, FlushBeginQueue
    <2>2. Len(list') = 0
      BY <1>4 DEF FlushBegin
    <2> QED
      BY <2>1, <2>2 DEF FlushInv
  <1>5. CASE FlushDrain
    <2>1. QueueInv'
      BY <1>5, FlushDrainQueue
    <2>2. flushing' = flushing /\ list' = list
      BY <1>5 DEF FlushDrain
    <2> QED
      BY <2>1, <2>2 DEF FlushInv
  <1>6. CASE FlushEnd
    <2>1. /\ list' = list /\ msg' = msg /\ valid' = valid /\ nCount' = nCount
          /\ sem' = sem /\ nPosting' = nPosting /\ nGetting' = nGetting
          /\ nPeeking' = nPeeking
      BY <1>6 DEF FlushEnd
    <2>2. flushing' = FALSE /\ failed' = failed
      BY <1>6 DEF FlushEnd
    <2> QED
      BY <2>1, <2>2 DEF FlushInv, QueueInv, TypeOK, NodeInv, ValidListed, Tokens
  <1>7. CASE UNCHANGED vars
    BY <1>7 DEF vars, FlushInv, QueueInv, TypeOK, NodeInv, ValidListed, Tokens
  <1> QED
    BY <1>1, <1>2, <1>3, <1>4, <1>5, <1>6, <1>7 DEF Next

\* The invariant holds in every reachable state, whatever the capacity and
\* however many threads post, get, wait and flush.
THEOREM QueueInvariant == Spec => []FlushInv
  <1>1. Init => FlushInv
    BY InitQueue DEF Init, FlushInv
  <1> QED
    BY <1>1, StepQueue, PTL DEF Spec

\* MessageQueue's variables keep their types.
THEOREM QueueTypeCorrect == Spec => []TypeOK
  <1>1. FlushInv => TypeOK
    BY DEF FlushInv, QueueInv
  <1> QED
    BY <1>1, QueueInvariant, PTL

\* CdcMessageQueuePostMessage's sem_post outside the mutex, and a flush beside
\* it, never leave a message on the list that no token announces.
THEOREM WakeupsNeverLost == Spec => []NoLostWakeup
  <1>1. FlushInv => NoLostWakeup
    BY DEF FlushInv, QueueInv, NoLostWakeup, Tokens
  <1> QED
    BY <1>1, QueueInvariant, PTL

\* Without flushes a get that the semaphore woke always finds a message.
THEOREM GetsNeverFail ==
    ASSUME ~UseFlush
    PROVE  Spec => []GetNeverFails
  <1>1. FlushInv => GetNeverFails
    BY DEF FlushInv, QueueInv, GetNeverFails
  <1> QED
    BY <1>1, QueueInvariant, PTL

\* The numbers up to n are n.
LEMMA IntervalSize ==
    ASSUME NEW n \in Nat
    PROVE  IsFiniteSet(1 .. n) /\ Cardinality(1 .. n) = n
  <1>1. /\ IsFiniteSet(1 .. n)
        /\ Cardinality(1 .. n) = IF 1 > n THEN 0 ELSE n - 1 + 1
    BY FS_Interval
  <1> QED
    BY <1>1

\* Every node in use is on the list, and a list shorter than the node array
\* leaves a node unused.
LEMMA UnusedNode ==
    ASSUME QueueInv, nCount < nMaxMessageNum
    PROVE  valid # Nodes
  <1> DEFINE n == Len(list)
             at == [i \in 1 .. n |-> list[i]]
  <1>1. n \in Nat /\ n < nMaxMessageNum /\ nMaxMessageNum \in Nat
    BY NumberTypes
  <1>2. at \in Surjection(1 .. n, valid)
    <2>1. \A i \in 1 .. n : list[i] \in valid
      BY DEF QueueInv, NodeInv
    <2>2. \A k \in valid : \E i \in 1 .. n : at[i] = k
      BY DEF QueueInv, ValidListed
    <2> QED
      BY <2>1, <2>2 DEF Surjection
  <1>3. IsFiniteSet(1 .. n) /\ Cardinality(1 .. n) = n
    BY <1>1, IntervalSize
  <1>4. Cardinality(valid) <= n
    BY <1>2, <1>3, FS_Surjection
  <1>5. Cardinality(Nodes) = nMaxMessageNum
    BY <1>1, IntervalSize DEF Nodes
  <1> QED
    BY <1>1, <1>4, <1>5

\* CdcMessageQueuePostMessage finds a node whenever the counter allows a post:
\* "node of mq is null, please check" is never reached, whatever the capacity.
THEOREM PostsFindNodes == Spec => []PostFindsNode
  <1>1. FlushInv => PostFindsNode
    BY UnusedNode DEF FlushInv, PostFindsNode
  <1> QED
    BY <1>1, QueueInvariant, PTL

-----------------------------------------------------------------------------
(* The list of nodes implements the channel of MessageFifo.                *)

Contents == [i \in 1 .. Len(list) |-> msg[list[i]]]

ContentsOK ==
    /\ Contents \in Seq(Message \cup {NoMessage})
    /\ Len(Contents) = Len(list)

\* The messages on the list, as a sequence.
LEMMA ContentsFacts == QueueInv => ContentsOK
  <1> SUFFICES ASSUME QueueInv PROVE ContentsOK
    OBVIOUS
  <1>1. Len(list) \in Nat
    BY NumberTypes
  <1>2. \A i \in 1 .. Len(list) : list[i] \in Nodes
    BY NumberTypes
  <1>3. \A i \in 1 .. Len(list) : msg[list[i]] \in Message \cup {NoMessage}
    BY <1>2 DEF QueueInv, TypeOK
  <1> QED
    BY <1>1, <1>3 DEF Contents, ContentsOK

\* A post fills a node that is on the list nowhere, so it appends its message
\* and changes no other.
LEMMA PostImplements ==
    ASSUME QueueInv, QueueInv', NEW m \in Message, PostLink(m)
    PROVE  Channel!Post
  <1>1. PICK n \in Nodes :
          /\ FreeNode(n)
          /\ msg' = [msg EXCEPT ![n] = m]
          /\ list' = Append(list, n)
    BY DEF PostLink
  <1> DEFINE M == Message \cup {NoMessage}
             c == Append(Contents, m)
  <1>2. /\ list \in Seq(Nodes) /\ Len(list) \in Nat
        /\ Len(list') = Len(list) + 1
        /\ \A i \in 1 .. Len(list) : list'[i] = list[i]
        /\ list'[Len(list) + 1] = n
    BY <1>1, NumberTypes
  <1>3. \A i \in 1 .. Len(list) : list[i] # n /\ list[i] \in Nodes
    BY <1>1, <1>2 DEF QueueInv, NodeInv, FreeNode
  <1>4. msg \in [Nodes -> M]
    BY DEF QueueInv, TypeOK
  <1>5. /\ Contents \in Seq(M) /\ Len(Contents) = Len(list)
        /\ Contents' \in Seq(M) /\ Len(Contents') = Len(list) + 1
    <2>1. ContentsOK /\ ContentsOK'
      BY ContentsFacts, PTL
    <2> QED
      BY <2>1, <1>2 DEF ContentsOK
  <1>6. ASSUME NEW i \in 1 .. Len(list)
        PROVE  Contents'[i] = Contents[i]
    <2>1. i \in 1 .. Len(list')
      BY <1>2
    <2> QED
      BY <2>1, <1>1, <1>2, <1>3, <1>4 DEF Contents
  <1>7. Contents'[Len(list) + 1] = m
    <2>1. Len(list) + 1 \in 1 .. Len(list')
      BY <1>2
    <2> QED
      BY <2>1, <1>1, <1>2, <1>4 DEF Contents
  <1>8. /\ c \in Seq(M) /\ Len(c) = Len(list) + 1
        /\ \A i \in 1 .. Len(list) : c[i] = Contents[i]
        /\ c[Len(list) + 1] = m
    BY <1>5, AppendProperties
  <1>9. Contents' = c
    <2> HIDE DEF c
    <2>1. \A i \in 1 .. Len(list) + 1 : Contents'[i] = c[i]
      BY <1>2, <1>6, <1>7, <1>8
    <2> QED
      BY <2>1, <1>5, <1>8, SeqEqual
  <1>10. Len(Contents) < nMaxMessageNum
    BY <1>5, NumberTypes DEF PostLink
  <1> QED
    BY <1>9, <1>10 DEF Channel!Post, Contents

\* A get takes the first message, if there is one, and leaves the others.
LEMMA GetImplements ==
    ASSUME QueueInv, QueueInv', GetUnlink
    PROVE  Channel!Get \/ UNCHANGED Contents
  <1>1. msg' = msg
    BY DEF GetUnlink
  <1>2. CASE nCount <= 0
    BY <1>1, <1>2 DEF GetUnlink, Contents
  <1>3. CASE ~(nCount <= 0)
    <2> DEFINE M == Message \cup {NoMessage}
    <2>1. list' = Tail(list)
      BY <1>3 DEF GetUnlink
    <2>2. Len(list) \in Nat \ {0} /\ list \in Seq(Nodes)
      BY <1>3, NumberTypes
    <2>3. /\ Len(list') = Len(list) - 1
          /\ \A i \in 1 .. Len(list') : list'[i] = list[i + 1]
      BY <2>1, <2>2
    <2>4. /\ Contents \in Seq(M) /\ Len(Contents) = Len(list)
          /\ Contents' \in Seq(M) /\ Len(Contents') = Len(list) - 1
      <3>1. ContentsOK /\ ContentsOK'
        BY ContentsFacts, PTL
      <3> QED
        BY <3>1, <2>3 DEF ContentsOK
    <2>5. Contents # << >>
      BY <2>2, <2>4
    <2>6. /\ Tail(Contents) \in Seq(M)
          /\ Len(Tail(Contents)) = Len(list) - 1
          /\ \A i \in 1 .. Len(list) - 1 : Tail(Contents)[i] = Contents[i + 1]
      BY <2>2, <2>4
    <2>7. \A i \in 1 .. Len(list) - 1 : Contents'[i] = Tail(Contents)[i]
      <3> TAKE i \in 1 .. Len(list) - 1
      <3>1. i \in 1 .. Len(list') /\ i + 1 \in 1 .. Len(list)
        BY <2>2, <2>3
      <3>2. Contents'[i] = msg'[list'[i]]
        BY <3>1 DEF Contents
      <3>3. Contents[i + 1] = msg[list[i + 1]]
        BY <3>1 DEF Contents
      <3> QED
        BY <3>1, <3>2, <3>3, <1>1, <2>3, <2>6
    <2>8. Contents' = Tail(Contents)
      BY <2>4, <2>6, <2>7, SeqEqual
    <2> QED
      BY <2>5, <2>8 DEF Channel!Get, Contents
  <1> QED
    BY <1>2, <1>3

\* The linked list of CdcMessageQueue.c, its node array and its counter
\* implement a bounded first-in first-out channel, for every capacity and any
\* number of threads: reused nodes never reorder or overwrite a message.
THEOREM QueueImplementsFifo == Spec => ImplementsFifo
  <1>1. Init => Channel!Init
    BY DEF Init, Channel!Init
  <1>2. QueueInv /\ QueueInv' /\ [Next]_vars => [Channel!Next]_Contents
    <2> SUFFICES ASSUME QueueInv, QueueInv', [Next]_vars
                 PROVE  [Channel!Next]_Contents
      OBVIOUS
    <2>1. CASE \E m \in Message : PostLink(m)
      BY <2>1, PostImplements DEF Channel!Next
    <2>2. CASE GetUnlink
      BY <2>2, GetImplements DEF Channel!Next
    <2>3. CASE FlushBegin
      <3>1. Contents' = << >>
        BY <2>3 DEF FlushBegin, Contents
      <3> QED
        BY <3>1 DEF Channel!Next, Channel!Flush, Contents
    <2>4. CASE \/ PostSignal \/ GetWait \/ PeekWait \/ PeekSignal
               \/ FlushDrain \/ FlushEnd \/ UNCHANGED vars
      <3>1. list' = list /\ msg' = msg
        BY <2>4 DEF PostSignal, GetWait, PeekWait, PeekSignal, FlushDrain,
                    FlushEnd, vars
      <3> QED
        BY <3>1 DEF Contents
    <2> QED
      BY <2>1, <2>2, <2>3, <2>4 DEF Next
  <1>3. FlushInv => QueueInv
    BY DEF FlushInv
  <1>4. [][Channel!Next]_Contents <=>
          [][Channel!Next]_[i \in 1 .. Len(list) |-> msg[list[i]]]
    BY DEF Contents
  <1> QED
    BY <1>1, <1>2, <1>3, <1>4, QueueInvariant, PTL
    DEF Spec, ImplementsFifo, Channel!Spec
=============================================================================
