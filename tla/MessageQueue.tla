---------------------------- MODULE MessageQueue ----------------------------
(***************************************************************************)
(* The message queue between the threads of the decoder and of the player  *)
(* (base/CdcMessageQueue.c; libcedarx's AwMessageQueue.c is the same       *)
(* code): a linked list of nodes under a mutex and a semaphore beside it   *)
(* that counts the messages.  A post links the node under the mutex and    *)
(* posts the semaphore after it has unlocked; a get waits for the          *)
(* semaphore first and takes the mutex then.                               *)
(*                                                                         *)
(* The threads are counted, not named: nPosting of them are between the    *)
(* unlock and the sem_post of a post, nGetting hold a token of the         *)
(* semaphore they have not used yet, nPeeking hold one they will put back. *)
(***************************************************************************)
EXTENDS Integers, Sequences

CONSTANTS
    nMaxMessageNum,
    Message, NoMessage,  \* NoMessage: a node that was never used
    UseFlush,    \* some thread calls CdcMessageQueueFlush
    MaxThreads   \* bound: threads inside each of the calls

ASSUME QueueAssumption ==
    /\ nMaxMessageNum \in Nat \ {0}
    /\ Message # {} /\ NoMessage \notin Message
    /\ UseFlush \in BOOLEAN
    /\ MaxThreads \in Nat

Nodes == 1 .. nMaxMessageNum

VARIABLES
    list,      \* the nodes from pHead on
    msg,       \* node->msg
    valid,     \* nodes with valid = 1
    nCount, sem,
    flushing,  \* a flush holds the mutex and drains the semaphore
    nPosting, nGetting, nPeeking,
    failed     \* a get has returned -1 although the semaphore woke it

vars == << list, msg, valid, nCount, sem, flushing, nPosting, nGetting,
           nPeeking, failed >>

-----------------------------------------------------------------------------
\* CdcMessageQueueCreate.
Init ==
    /\ list = << >> /\ valid = {} /\ nCount = 0 /\ sem = 0
    /\ msg = [n \in Nodes |-> NoMessage]
    /\ flushing = FALSE /\ failed = FALSE
    /\ nPosting = 0 /\ nGetting = 0 /\ nPeeking = 0

(* Definitions whose names end in _No..., _First... are faulty variants: a *)
(* slip in the code that a property must detect.                           *)

FreeNode_FirstNode(n) == n = 1

\* The first node that is not in use.
FreeNode(n) == n \notin valid /\ \A k \in Nodes \ valid : n <= k

\* CdcMessageQueuePostMessage under the mutex; a full queue returns -1 and
\* changes nothing.
PostLink(m) ==
    /\ ~flushing /\ nPosting < MaxThreads
    /\ nCount < nMaxMessageNum
    /\ \E n \in Nodes :
         /\ FreeNode(n)
         /\ msg' = [msg EXCEPT ![n] = m]
         /\ valid' = valid \cup {n}
         /\ list' = Append(list, n)
    /\ nCount' = nCount + 1
    /\ nPosting' = nPosting + 1
    /\ UNCHANGED << sem, flushing, nGetting, nPeeking, failed >>

\* Its sem_post.
PostSignal ==
    /\ nPosting > 0
    /\ nPosting' = nPosting - 1
    /\ sem' = sem + 1
    /\ UNCHANGED << list, msg, valid, nCount, flushing, nGetting, nPeeking,
                    failed >>

\* CdcMessageQueueTryGetMessage: SemTimedWait succeeds ...
GetWait ==
    /\ sem > 0 /\ nGetting < MaxThreads
    /\ sem' = sem - 1
    /\ nGetting' = nGetting + 1
    /\ UNCHANGED << list, msg, valid, nCount, flushing, nPosting, nPeeking,
                    failed >>

GetUnlink_NoClear ==
    /\ ~flushing /\ nGetting > 0
    /\ nGetting' = nGetting - 1
    /\ IF nCount <= 0
       THEN failed' = TRUE /\ UNCHANGED << list, nCount >>
       ELSE /\ list' = Tail(list)
            /\ nCount' = nCount - 1
            /\ UNCHANGED failed
    /\ UNCHANGED << msg, valid, sem, flushing, nPosting, nPeeking >>

\* ... and then the mutex: the first message, or -1 if there is none.
GetUnlink ==
    /\ ~flushing /\ nGetting > 0
    /\ nGetting' = nGetting - 1
    /\ IF nCount <= 0
       THEN failed' = TRUE /\ UNCHANGED << list, valid, nCount >>
       ELSE /\ list' = Tail(list)
            /\ valid' = valid \ {Head(list)}
            /\ nCount' = nCount - 1
            /\ UNCHANGED failed
    /\ UNCHANGED << msg, sem, flushing, nPosting, nPeeking >>

PeekWait_NoResultCheck ==
    /\ nPeeking < MaxThreads
    /\ nPeeking' = nPeeking + 1
    /\ UNCHANGED << list, msg, valid, nCount, sem, flushing, nPosting,
                    nGetting, failed >>

\* CdcMessageQueueWaitMessage: SemTimedWait succeeds, and sem_post puts the
\* token back.
PeekWait ==
    /\ sem > 0 /\ nPeeking < MaxThreads
    /\ sem' = sem - 1
    /\ nPeeking' = nPeeking + 1
    /\ UNCHANGED << list, msg, valid, nCount, flushing, nPosting, nGetting,
                    failed >>

PeekSignal_NoPost ==
    /\ nPeeking > 0
    /\ nPeeking' = nPeeking - 1
    /\ UNCHANGED << list, msg, valid, nCount, sem, flushing, nPosting,
                    nGetting, failed >>

PeekSignal ==
    /\ nPeeking > 0
    /\ nPeeking' = nPeeking - 1
    /\ sem' = sem + 1
    /\ UNCHANGED << list, msg, valid, nCount, flushing, nPosting, nGetting,
                    failed >>

\* CdcMessageQueueFlush: the mutex, the list and the nodes ...
FlushBegin ==
    /\ UseFlush /\ ~flushing
    /\ flushing' = TRUE
    /\ list' = << >> /\ valid' = {} /\ nCount' = 0
    /\ UNCHANGED << msg, sem, nPosting, nGetting, nPeeking, failed >>

FlushDrain_NoValueCheck ==
    /\ flushing
    /\ sem' = sem - 1
    /\ UNCHANGED << list, msg, valid, nCount, flushing, nPosting, nGetting,
                    nPeeking, failed >>

\* ... then the semaphore, token by token, while other threads post and wait
\* for it ...
FlushDrain ==
    /\ flushing /\ sem > 0
    /\ sem' = sem - 1
    /\ UNCHANGED << list, msg, valid, nCount, flushing, nPosting, nGetting,
                    nPeeking, failed >>

\* ... until it is seen to be zero.
FlushEnd ==
    /\ flushing /\ sem = 0
    /\ flushing' = FALSE
    /\ UNCHANGED << list, msg, valid, nCount, sem, nPosting, nGetting,
                    nPeeking, failed >>

Next ==
    \/ \E m \in Message : PostLink(m)
    \/ PostSignal
    \/ GetWait
    \/ GetUnlink
    \/ PeekWait
    \/ PeekSignal
    \/ FlushBegin
    \/ FlushDrain
    \/ FlushEnd

Spec == Init /\ [][Next]_vars

(***************************************************************************)
(* Fairness.  A thread in the middle of a call goes on (weak fairness) and *)
(* gets the mutex although flushes use it in between (strong fairness);    *)
(* the consumer thread comes back to get a message although waits take the *)
(* token in between (strong fairness).                                     *)
(***************************************************************************)
Fairness ==
    /\ WF_vars(PostSignal) /\ WF_vars(PeekSignal)
    /\ SF_vars(GetWait) /\ SF_vars(GetUnlink)
    /\ WF_vars(FlushDrain) /\ WF_vars(FlushEnd)

FairSpec == Spec /\ Fairness

-----------------------------------------------------------------------------
(* Properties.                                                             *)

\* Type invariant of the queue.
TypeOK ==
    /\ list \in Seq(Nodes)
    /\ msg \in [Nodes -> Message \cup {NoMessage}]
    /\ valid \in SUBSET Nodes
    /\ nCount \in 0 .. nMaxMessageNum
    /\ sem \in Nat
    /\ flushing \in BOOLEAN
    /\ nPosting \in Nat /\ nGetting \in Nat /\ nPeeking \in Nat
    /\ failed \in BOOLEAN

\* Messages come out whole and in the order they were posted: no node is
\* filled again while it is on the list.
Channel == INSTANCE MessageFifo WITH
             Capacity <- nMaxMessageNum,
             channel <- [i \in 1 .. Len(list) |-> msg[list[i]]]

ImplementsFifo == Channel!Spec

\* Below the maximum a post always finds a free node ("node of mq is null,
\* please check" is never reached), so no post is lost for that reason.
PostFindsNode == nCount < nMaxMessageNum => valid # Nodes

\* No wake-up is lost: every message on the list has a token that a thread is
\* about to post, that waits in the semaphore or that a thread has taken, also
\* when a flush drains the semaphore under the feet of a post.
NoLostWakeup == Len(list) <= sem + nPosting + nGetting + nPeeking

\* CdcMessageQueueGetMessage never returns -1 when nobody flushes the queue.
\* The threads of the player rely on it: their loops end at the first -1.
GetNeverFails == ~failed

\* Every message is eventually taken off the list.
AllDelivered == \A n \in Nodes : n \in valid ~> n \notin valid
=============================================================================
