--------------------------- MODULE XPlayerProofs ---------------------------
(***************************************************************************)
(* Proofs about the player front end and the demultiplexer component, for  *)
(* every set of calls, every seek time, every size of the cache and every  *)
(* outcome of a preparation.                                               *)
(*                                                                         *)
(* What is proved is how the threads take turns with the parser.  The      *)
(* xplayer thread sends one request at a time and waits; the request is in *)
(* the queue, or the demux thread is closing the parser for it, or the     *)
(* answer is there (Turns).  From that follow the states in which          *)
(* preparing is possible (Preparation), and what the rest of a command     *)
(* relies on (Commanding).  For files there is a second invariant          *)
(* (FileInv): it relates the player and the demux thread to what the front *)
(* end has been told.                                                      *)
(***************************************************************************)
EXTENDS XPlayer, ListProofs

-----------------------------------------------------------------------------
(* Types.                                                                  *)

Times == SeekTime \union {0}

MessageIds ==
    {"SET_FILE_SOURCE", "SET_NET_SOURCE", "PREPARE", "PREPARE_ASYNC", "START",
     "STOP", "PAUSE", "RESET", "SEEK", "READ", "CANCEL_PREPARE", "CANCEL_SEEK",
     "CLEAR", "FIRST_FRAME", "RESTART", "QUIT"}

Messages ==
    [id : MessageIds, time : Times]
    \union [id : MessageIds, time : Times, app : BOOLEAN]

Statuses == {"IDLE", "INITIALIZED", "PREPARING", "PREPARED", "STARTED", "PAUSED",
             "STOPPED", "COMPLETE", "ERROR"}

PlainOps ==
    {"await", "sourceSet", "start", "playerStart", "demuxStart", "unlock", "pause",
     "demuxCancelPrepare", "demuxCancelSeek", "notSeeking", "demuxStop",
     "demuxClear", "playerStop", "seekPlayer", "seekDemux",
     "prepare", "PREPARED", "PREPARE_FAILED", "awaitCache", "join", "STOP",
     "CLEAR", "seekDone", "startCache", "seekWait", "seekTail", "parserRead",
     "readCache", "buffering", "RESUME_PLAYER", "resumed", "PAUSE_PLAYER",
     "paused", "EOS", "complete", "cacheSeekDone", "cacheSeekFailed"}

Steps ==
    [op : PlainOps]
    \union [op : {"seek", "seekTime", "parserSeek", "seekCache"}, time : Times]
    \union [op : {"SEEK_FINISH"}, result : {"ok", "IO", "USER_CANCEL", "UNKNOWN"},
            time : Times]
    \union [op : {"status"}, status : Statuses]
    \union [op : {"answer"}, ok : BOOLEAN]

DemuxStatuses == {"IDLE", "INITIALIZED", "PREPARING", "PREPARED", "STARTED",
                  "STOPPED", "COMPLETE"}

Demuxes ==
    [eStatus : DemuxStatuses, net : BOOLEAN, bFileStream : BOOLEAN,
     pParser : BOOLEAN, bForceStop : BOOLEAN, position : Times,
     bSeeking : BOOLEAN, bCancelSeek : BOOLEAN, bCancelPrepare : BOOLEAN,
     bStopping : BOOLEAN, bBufferring : BOOLEAN,
     bNeedPausePlayerNotified : BOOLEAN, bEOS : BOOLEAN, bIOError : BOOLEAN,
     sent : BOOLEAN]

Caches == [alive : BOOLEAN, started : BOOLEAN, frames : Seq(Times),
           semCache : Nat, nCacheReply : {0, 1}]

Contexts ==
    [mStatus : Statuses, mSeeking : BOOLEAN, mSeekTime : Times, mLoop : BOOLEAN,
     mPrepareSync : BOOLEAN, bSeekable : BOOLEAN, mSemPrepareFinish : BOOLEAN,
     mMutexMediaInfo : BOOLEAN]

Players == [eStatus : {"STARTED", "PAUSED", "STOPPED"}, bStreamEosSet : BOOLEAN,
            eosReported : BOOLEAN, firstShown : BOOLEAN]

\* What is in a queue, and what a thread has still to do.
Ids(queue) == {m.id : m \in Elements(queue)}
Ops(steps) == {x.op : x \in Elements(steps)}

\* The cache thread reads while there is room.
Types ==
    /\ mq \in [Thread -> Seq(Messages)]
    /\ todo \in [Thread -> Seq(Steps)]
    /\ demux \in Demuxes
    /\ cache \in Caches
    /\ Len(cache.frames) <= CacheSize
    /\ "parserRead" \in Ops(todo["cache"]) =>
         Tail(todo["cache"]) = << >> /\ Len(cache.frames) < CacheSize
    /\ reply \in {"none", "ok", "fail"}
    /\ ctx \in Contexts
    /\ player \in Players
    /\ call \in {"none", "reply", "prepare", "finish"}
    /\ mMutexStatus \in BOOLEAN

-----------------------------------------------------------------------------
(* What is in the queues, and what a thread has still to do.               *)

\* The messages whose sender waits for the answer.
Requests == {"SET_FILE_SOURCE", "SET_NET_SOURCE", "CANCEL_PREPARE", "START",
             "STOP", "CLEAR", "CANCEL_SEEK"}
Asked(ids) == \E id \in ids : id \in Ids(mq["demux"])

Waits == {"await", "sourceSet"}
Waiting == \E op \in Waits : op \in Ops(todo["xplayer"])

Prepares == {"prepare", "PREPARED", "PREPARE_FAILED"}
PreparesNow == \E op \in Prepares : op \in Ops(todo["demux"])
Preparing == "PREPARE" \in Ids(mq["demux"]) \/ PreparesNow

Closes == {"STOP", "CLEAR"}
Closing == \E op \in Closes : op \in Ops(todo["demux"])

\* The parser is closed and will not be opened.
Shut == ~ demux.pParser /\ ~ Preparing

-----------------------------------------------------------------------------
(* The threads of the component.                                           *)

FinishOk(steps) ==
    \E x \in Elements(steps) : x.op = "SEEK_FINISH" /\ x.result = "ok"

\* The demux thread waits for the cache thread to end before it closes.
CloseSteps ==
    \E x \in Closes :
       \/ todo["demux"] = << Step("awaitCache"), Step("join"), Step(x) >>
       \/ todo["demux"] = << Step("join"), Step(x) >>
       \/ todo["demux"] = << Step(x) >> /\ ~ cache.alive

\* What the demux thread may have to do without an open parser.
ClosedOps == {"prepare", "PREPARE_FAILED", "SEEK_FINISH", "STOP", "CLEAR"}

Parser ==
    /\ cache.alive => demux.pParser
    /\ ~ cache.alive => /\ mq["cache"] = << >> /\ todo["cache"] = << >>
                        /\ "seekCache" \notin Ops(todo["demux"])
                        /\ "startCache" \notin Ops(todo["demux"])
    /\ \A i \in 1 .. Len(mq["cache"]) :
         mq["cache"][i].id = "QUIT" =>
            i = Len(mq["cache"]) /\ "join" \in Ops(todo["demux"])
    /\ ~ demux.pParser => /\ demux.eStatus \notin {"PREPARED", "STARTED", "COMPLETE"}
                          /\ Ops(todo["demux"]) \subseteq ClosedOps
                          /\ ~ FinishOk(todo["demux"])
    /\ Closing \/ "join" \in Ops(todo["demux"]) => CloseSteps
    /\ PreparesNow => Len(todo["demux"]) = 1

-----------------------------------------------------------------------------
(* The turns of the xplayer thread and the demux thread.                   *)

\* Behind a request only the render thread posts.
QueueOrder(queue) ==
    \A i, j \in 1 .. Len(queue) :
       /\ i < j /\ queue[i].id \in Requests => queue[j].id = "FIRST_FRAME"
       /\ queue[i].id = "PREPARE" /\ queue[j].id = "PREPARE" => i = j

\* A request waits, or is being served by closing, or is answered.
Turns ==
    /\ QueueOrder(mq["demux"])
    /\ Asked(Requests) \/ Closing \/ reply # "none" => Waiting
    /\ Asked(Requests) => ~ Closing
    /\ Asked(Requests) \/ Closing => reply = "none"

\* The flags are up only while the request that clears them is under way, and
\* while they are the parser is forced to stop.
Flags ==
    /\ demux.bStopping => Asked(Closes) \/ Closing
    /\ demux.bCancelSeek => Asked({"CANCEL_SEEK"})
    /\ demux.pParser /\ (demux.bStopping \/ demux.bCancelSeek) => demux.bForceStop

\* While the parser is being prepared the only request is to cancel that.
Preparation ==
    /\ Preparing =>
         /\ ctx.mStatus = "PREPARING"
         /\ ~ Asked(Requests \ {"CANCEL_PREPARE"}) /\ ~ Closing /\ reply = "none"
         /\ \/ Ops(todo["xplayer"]) \subseteq {"answer"}
            \/ "demuxCancelPrepare" \in Ops(todo["xplayer"])
            \/ Asked({"CANCEL_PREPARE"})
    /\ "PREPARE" \in Ids(mq["demux"]) =>
         ~ demux.pParser /\ ~ PreparesNow
    /\ "prepare" \in Ops(todo["demux"]) => ~ demux.pParser

-----------------------------------------------------------------------------
(* The commands of the xplayer thread.                                     *)

\* The place of a step in its command.
Place(op) ==
    IF op \in Waits THEN 0
    ELSE IF op \in {"demuxCancelPrepare", "start", "pause", "seekTime"} THEN 1
    ELSE IF op \in {"demuxCancelSeek", "playerStart"} THEN 2
    ELSE IF op \in {"notSeeking", "demuxStart"} THEN 3
    ELSE IF op \in {"demuxStop", "seek", "unlock"} THEN 4
    ELSE IF op \in {"demuxClear", "seekPlayer"} THEN 5
    ELSE IF op \in {"playerStop", "seekDemux"} THEN 6
    ELSE IF op = "status" THEN 7
    ELSE IF op = "answer" THEN 8 ELSE 9

InOrder(steps) ==
    \A i, j \in 1 .. Len(steps) : i < j => Place(steps[i].op) < Place(steps[j].op)

\* The rest of a stop or a reset: it ends with a change of the status.
Quits(steps) ==
    \E x \in Elements(steps) : x.op = "status" /\ x.status # "STARTED"

StopOps == {"await", "demuxCancelPrepare", "demuxCancelSeek", "notSeeking",
            "demuxStop", "demuxClear", "playerStop", "status", "answer"}

\* Steps of the commands that only a player with an open parser takes.
PlayOps == {"start", "playerStart", "demuxStart", "pause", "seek", "seekPlayer",
            "seekDemux"}

\* The steps of the commands: none of them calls the parser.
FrontOps == StopOps \union PlayOps \union {"sourceSet", "seekTime", "unlock"}
FrontOnly == Ops(todo["xplayer"]) \subseteq FrontOps

Stopped == {"IDLE", "INITIALIZED", "STOPPED"}

Commanding ==
    LET steps == todo["xplayer"]
        playerStopped == player.eStatus = "STOPPED"
    IN  /\ InOrder(steps)
        /\ ctx.mStatus \in Stopped => Shut
        /\ ctx.mStatus \in Stopped \union {"PREPARING"} => playerStopped
        /\ (\E op \in PlayOps : op \in Ops(steps)) => ctx.mStatus \in Playable
        /\ "sourceSet" \in Ops(steps) =>
             steps = << Step("sourceSet") >> /\ Shut /\ playerStopped
        /\ "start" \in Ops(steps) => Ops(steps) \subseteq {"start", "answer"}
        /\ "demuxClear" \in Ops(steps) => Quits(steps)
        /\ Quits(steps) =>
             /\ Ops(steps) \subseteq StopOps
             /\ "demuxStop" \in Ops(steps) \/ Shut \/ Asked(Closes) \/ Closing
             /\ "playerStop" \in Ops(steps) \/ (Shut /\ playerStopped)

XPlayerInv ==
    /\ Types
    /\ FrontOnly
    /\ Parser
    /\ Turns
    /\ Flags
    /\ Preparation
    /\ Commanding

-----------------------------------------------------------------------------
(* Queues and lists of steps.                                              *)

\* The first message of a queue, and the ids of the queue without it.
LEMMA FirstMessage ==
    ASSUME NEW q \in Seq(Messages), q # << >>
    PROVE  /\ Head(q) \in Messages /\ Tail(q) \in Seq(Messages)
           /\ Ids(q) = {Head(q).id} \union Ids(Tail(q))
<1>1. Head(q) \in Messages /\ Tail(q) \in Seq(Messages)
  BY FirstElement
<1>2. Elements(q) = {Head(q)} \union Elements(Tail(q))
  BY TakenElements
<1> QED BY <1>1, <1>2 DEF Ids

LEMMA PostedIds ==
    ASSUME NEW q \in Seq(Messages), NEW m \in Messages
    PROVE  Append(q, m) \in Seq(Messages) /\ Ids(Append(q, m)) = Ids(q) \union {m.id}
<1>1. Append(q, m) \in Seq(Messages) /\ Elements(Append(q, m)) = Elements(q) \union {m}
  BY PostedElements
<1> QED BY <1>1 DEF Ids

\* What holds of a list of steps holds of its first step and of the rest.
LEMMA FirstStep ==
    ASSUME NEW s \in Seq(Steps), s # << >>
    PROVE  /\ Head(s) \in Steps /\ Tail(s) \in Seq(Steps)
           /\ Ops(s) = {Head(s).op} \union Ops(Tail(s))
           /\ Quits(s) <=> \/ Head(s).op = "status" /\ Head(s).status # "STARTED"
                           \/ Quits(Tail(s))
           /\ FinishOk(s) <=> \/ Head(s).op = "SEEK_FINISH" /\ Head(s).result = "ok"
                              \/ FinishOk(Tail(s))
<1>1. Head(s) \in Steps /\ Tail(s) \in Seq(Steps)
  BY FirstElement
<1>2. Elements(s) = {Head(s)} \union Elements(Tail(s))
  BY TakenElements
<1> QED BY <1>1, <1>2 DEF Ops, Quits, FinishOk

LEMMA JoinedSteps ==
    ASSUME NEW a \in Seq(Steps), NEW b \in Seq(Steps)
    PROVE  /\ a \o b \in Seq(Steps)
           /\ Ops(a \o b) = Ops(a) \union Ops(b)
           /\ Quits(a \o b) <=> Quits(a) \/ Quits(b)
           /\ FinishOk(a \o b) <=> FinishOk(a) \/ FinishOk(b)
<1>1. a \o b \in Seq(Steps) /\ Elements(a \o b) = Elements(a) \union Elements(b)
  BY JoinedElements
<1> QED BY <1>1 DEF Ops, Quits, FinishOk

LEMMA FewOps ==
    /\ Ops(<< >>) = {} /\ << >> \in Seq(Steps)
    /\ \A a \in Steps : << a >> \in Seq(Steps) /\ Ops(<< a >>) = {a.op}
    /\ \A a, b \in Steps :
         << a, b >> \in Seq(Steps) /\ Ops(<< a, b >>) = {a.op, b.op}
    /\ \A a, b, c \in Steps :
         << a, b, c >> \in Seq(Steps) /\ Ops(<< a, b, c >>) = {a.op, b.op, c.op}
    /\ \A a, b, c, d \in Steps :
         /\ << a, b, c, d >> \in Seq(Steps)
         /\ Ops(<< a, b, c, d >>) = {a.op, b.op, c.op, d.op}
<1>1. /\ Elements(<< >>) = {} /\ << >> \in Seq(Steps)
      /\ \A a \in Steps : << a >> \in Seq(Steps) /\ Elements(<< a >>) = {a}
      /\ \A a, b \in Steps :
           << a, b >> \in Seq(Steps) /\ Elements(<< a, b >>) = {a, b}
      /\ \A a, b, c \in Steps :
           << a, b, c >> \in Seq(Steps) /\ Elements(<< a, b, c >>) = {a, b, c}
      /\ \A a, b, c, d \in Steps :
           /\ << a, b, c, d >> \in Seq(Steps)
           /\ Elements(<< a, b, c, d >>) = {a, b, c, d}
  BY SMTT(60), FewElements, Zenon
<1> QED BY <1>1 DEF Ops

\* The kinds of step that count.
LEMMA Kinds ==
    ASSUME NEW s
    PROVE  /\ Quits(s) => "status" \in Ops(s)
           /\ FinishOk(s) => "SEEK_FINISH" \in Ops(s)
  BY DEF Quits, FinishOk, Ops

\* The order of the steps of a command.
LEMMA OpAt ==
    ASSUME NEW s \in Seq(Steps), NEW i \in 1 .. Len(s)
    PROVE  s[i].op \in Ops(s)
<1>1. s[i] \in Elements(s)
  BY DEF Elements
<1> QED BY <1>1 DEF Ops

LEMMA FirstInOrder ==
    ASSUME NEW s \in Seq(Steps), s # << >>, InOrder(s)
    PROVE  /\ InOrder(Tail(s))
           /\ \A op \in Ops(Tail(s)) : Place(Head(s).op) < Place(op)
<1>1. /\ Tail(s) \in Seq(Steps) /\ Len(s) \in Nat \ {0} /\ Head(s) = s[1]
      /\ Len(Tail(s)) = Len(s) - 1
      /\ \A i \in 1 .. Len(s) - 1 : Tail(s)[i] = s[i + 1]
  OBVIOUS
<1>2. ASSUME NEW i \in 1 .. Len(Tail(s)), NEW j \in 1 .. Len(Tail(s)), i < j
      PROVE  Place(Tail(s)[i].op) < Place(Tail(s)[j].op)
  <2>1. i + 1 \in 1 .. Len(s) /\ j + 1 \in 1 .. Len(s) /\ i + 1 < j + 1
    BY <1>1, <1>2
  <2>2. Place(s[i + 1].op) < Place(s[j + 1].op)
    BY <2>1 DEF InOrder
  <2> QED BY <1>1, <1>2, <2>2
<1>3. ASSUME NEW op \in Ops(Tail(s)) PROVE Place(Head(s).op) < Place(op)
  <2>1. PICK i \in 1 .. Len(Tail(s)) : op = Tail(s)[i].op
    BY <1>3 DEF Ops, Elements
  <2>2. 1 \in 1 .. Len(s) /\ i + 1 \in 1 .. Len(s) /\ 1 < i + 1
    BY <1>1, <2>1
  <2>3. Place(s[1].op) < Place(s[i + 1].op)
    BY <2>2 DEF InOrder
  <2> QED BY <1>1, <2>1, <2>3
<1> QED BY <1>2, <1>3 DEF InOrder

LEMMA JoinedInOrder ==
    ASSUME NEW a \in Seq(Steps), NEW b \in Seq(Steps), InOrder(a), InOrder(b),
           \A x \in Ops(a), y \in Ops(b) : Place(x) < Place(y)
    PROVE  InOrder(a \o b)
<1>1. /\ a \o b \in Seq(Steps) /\ Len(a \o b) = Len(a) + Len(b)
      /\ Len(a) \in Nat /\ Len(b) \in Nat
      /\ \A i \in 1 .. Len(a) : (a \o b)[i] = a[i]
      /\ \A i \in 1 .. Len(b) : (a \o b)[Len(a) + i] = b[i]
  OBVIOUS
<1>2. ASSUME NEW i \in 1 .. Len(a \o b), NEW j \in 1 .. Len(a \o b), i < j
      PROVE  Place((a \o b)[i].op) < Place((a \o b)[j].op)
  <2>1. CASE j <= Len(a)
    <3>1. i \in 1 .. Len(a) /\ j \in 1 .. Len(a)
      BY <1>1, <1>2, <2>1
    <3> QED BY <1>1, <1>2, <3>1 DEF InOrder
  <2>2. CASE i <= Len(a) /\ j > Len(a)
    <3>1. i \in 1 .. Len(a) /\ j - Len(a) \in 1 .. Len(b) /\ j = Len(a) + (j - Len(a))
      BY <1>1, <2>2
    <3>2. a[i].op \in Ops(a) /\ b[j - Len(a)].op \in Ops(b)
      BY <3>1, OpAt
    <3>3. (a \o b)[i] = a[i] /\ (a \o b)[j] = b[j - Len(a)]
      BY <1>1, <3>1
    <3> QED BY <3>2, <3>3
  <2>3. CASE i > Len(a)
    <3>1. /\ i - Len(a) \in 1 .. Len(b) /\ i = Len(a) + (i - Len(a))
          /\ j - Len(a) \in 1 .. Len(b) /\ j = Len(a) + (j - Len(a))
          /\ i - Len(a) < j - Len(a)
      BY <1>1, <1>2, <2>3
    <3>2. (a \o b)[i] = b[i - Len(a)] /\ (a \o b)[j] = b[j - Len(a)]
      BY <1>1, <3>1
    <3> QED BY <3>1, <3>2 DEF InOrder
  <2> QED BY <1>1, <2>1, <2>2, <2>3
<1> QED BY <1>2 DEF InOrder

LEMMA FewInOrder ==
    /\ InOrder(<< >>)
    /\ \A a : InOrder(<< a >>)
    /\ \A a, b : Place(a.op) < Place(b.op) => InOrder(<< a, b >>)
    /\ \A a, b, c :
         \/ Place(a.op) = 2 /\ Place(b.op) = 3 /\ Place(c.op) = 7
         \/ Place(a.op) = 4 /\ Place(b.op) = 5 /\ Place(c.op) = 6
         \/ Place(a.op) = 4 /\ Place(b.op) = 6 /\ Place(c.op) = 7
         => InOrder(<< a, b, c >>)
    /\ \A a, b, c, d :
         Place(a.op) = 4 /\ Place(b.op) = 5 /\ Place(c.op) = 6 /\ Place(d.op) = 7
         => InOrder(<< a, b, c, d >>)
  BY DEF InOrder

\* The order of a queue.
LEMMA TakenInOrder ==
    ASSUME NEW q \in Seq(Messages), q # << >>, QueueOrder(q)
    PROVE  /\ QueueOrder(Tail(q))
           /\ Head(q).id \in Requests => \A id \in Ids(Tail(q)) : id = "FIRST_FRAME"
           /\ Head(q).id = "PREPARE" => "PREPARE" \notin Ids(Tail(q))
<1>1. /\ Tail(q) \in Seq(Messages) /\ Len(q) \in Nat \ {0} /\ Head(q) = q[1]
      /\ Len(Tail(q)) = Len(q) - 1
      /\ \A i \in 1 .. Len(q) - 1 : Tail(q)[i] = q[i + 1]
  OBVIOUS
<1>2. ASSUME NEW i \in 1 .. Len(Tail(q)), NEW j \in 1 .. Len(Tail(q))
      PROVE  /\ i < j /\ Tail(q)[i].id \in Requests => Tail(q)[j].id = "FIRST_FRAME"
             /\ Tail(q)[i].id = "PREPARE" /\ Tail(q)[j].id = "PREPARE" => i = j
  <2>1. /\ i + 1 \in 1 .. Len(q) /\ j + 1 \in 1 .. Len(q)
        /\ i < j => i + 1 < j + 1
        /\ i + 1 = j + 1 => i = j
    BY <1>1, <1>2
  <2>2. Tail(q)[i] = q[i + 1] /\ Tail(q)[j] = q[j + 1]
    BY <1>1, <1>2
  <2> QED BY <2>1, <2>2 DEF QueueOrder
<1>3. ASSUME NEW id \in Ids(Tail(q))
      PROVE  /\ Head(q).id \in Requests => id = "FIRST_FRAME"
             /\ Head(q).id = "PREPARE" => id # "PREPARE"
  <2>1. PICK i \in 1 .. Len(Tail(q)) : id = Tail(q)[i].id
    BY <1>3 DEF Ids, Elements
  <2>2. 1 \in 1 .. Len(q) /\ i + 1 \in 1 .. Len(q) /\ 1 < i + 1 /\ id = q[i + 1].id
    BY <1>1, <2>1
  <2> QED BY <1>1, <2>2 DEF QueueOrder
<1>4. QueueOrder(Tail(q))
  BY <1>2 DEF QueueOrder
<1> QED BY <1>3, <1>4

LEMMA PostedInOrder ==
    ASSUME NEW q \in Seq(Messages), NEW m \in Messages, QueueOrder(q),
           m.id = "FIRST_FRAME" \/ \A id \in Requests : id \notin Ids(q),
           m.id = "PREPARE" => "PREPARE" \notin Ids(q)
    PROVE  QueueOrder(Append(q, m))
<1>1. /\ Append(q, m) \in Seq(Messages) /\ Len(Append(q, m)) = Len(q) + 1
      /\ Len(q) \in Nat /\ Append(q, m)[Len(q) + 1] = m
      /\ \A i \in 1 .. Len(q) : Append(q, m)[i] = q[i]
  OBVIOUS
<1>2. \A i \in 1 .. Len(q) : q[i].id \in Ids(q)
  BY DEF Ids, Elements
<1>3. ASSUME NEW i \in 1 .. Len(q) + 1, NEW j \in 1 .. Len(q) + 1
      PROVE  /\ i < j /\ Append(q, m)[i].id \in Requests =>
                   Append(q, m)[j].id = "FIRST_FRAME"
             /\ Append(q, m)[i].id = "PREPARE" /\ Append(q, m)[j].id = "PREPARE" =>
                   i = j
  <2>1. CASE i \in 1 .. Len(q) /\ j \in 1 .. Len(q)
    BY <1>1, <2>1 DEF QueueOrder
  <2>2. CASE i \in 1 .. Len(q) /\ j = Len(q) + 1
    BY <1>1, <1>2, <2>2
  <2>3. CASE i = Len(q) + 1
    BY <1>1, <1>2, <1>3, <2>3
  <2> QED BY <1>1, <2>1, <2>2, <2>3
<1> QED BY <1>1, <1>3 DEF QueueOrder

-----------------------------------------------------------------------------
(* What a step does to the lists and the queues.                           *)

LEMMA ListTypes ==
    Types => \A t \in Thread : todo[t] \in Seq(Steps) /\ mq[t] \in Seq(Messages)
  BY DEF Types

\* The thread t has taken its step and has the given steps to do instead.
LEMMA Proceeded ==
    ASSUME Types, NEW t \in Thread, ~ Idle(t), NEW steps \in Seq(Steps),
           Proceed(t, steps)
    PROVE  /\ todo' \in [Thread -> Seq(Steps)]
           /\ \A u \in Thread \ {t} : todo'[u] = todo[u]
           /\ todo'[t] = steps \o Tail(todo[t])
           /\ Head(todo[t]) \in Steps /\ Tail(todo[t]) \in Seq(Steps)
           /\ Ops(todo[t]) = {Head(todo[t]).op} \union Ops(Tail(todo[t]))
           /\ Ops(todo'[t]) = Ops(steps) \union Ops(Tail(todo[t]))
           /\ FinishOk(todo'[t]) => FinishOk(steps) \/ FinishOk(todo[t])
<1>1. todo \in [Thread -> Seq(Steps)] /\ todo[t] \in Seq(Steps) /\ todo[t] # << >>
  BY DEF Types, Idle
<1> DEFINE r == Tail(todo[t])
<1>2. /\ Head(todo[t]) \in Steps /\ r \in Seq(Steps)
      /\ Ops(todo[t]) = {Head(todo[t]).op} \union Ops(r)
      /\ FinishOk(r) => FinishOk(todo[t])
  BY <1>1, FirstStep
<1>3. /\ steps \o r \in Seq(Steps) /\ Ops(steps \o r) = Ops(steps) \union Ops(r)
      /\ FinishOk(steps \o r) <=> FinishOk(steps) \/ FinishOk(r)
  BY <1>2, JoinedSteps
<1>4. todo' = [todo EXCEPT ![t] = steps \o r]
  BY DEF Proceed
<1> HIDE DEF r
<1>5. /\ todo' \in [Thread -> Seq(Steps)] /\ todo'[t] = steps \o r
      /\ \A u \in Thread \ {t} : todo'[u] = todo[u]
  BY <1>1, <1>3, <1>4
<1> QED BY <1>2, <1>3, <1>5 DEF r

\* The thread t has given steps to do and no others.
LEMMA Begun ==
    ASSUME Types, NEW t \in Thread, NEW steps \in Seq(Steps), Does(t, steps)
    PROVE  /\ todo' \in [Thread -> Seq(Steps)]
           /\ \A u \in Thread \ {t} : todo'[u] = todo[u]
           /\ todo'[t] = steps
  BY DEF Types, Does

\* A message is behind the others.
LEMMA Posted ==
    ASSUME Types, NEW t \in Thread, NEW m \in Messages, Post(t, m)
    PROVE  /\ mq' \in [Thread -> Seq(Messages)]
           /\ \A u \in Thread \ {t} : mq'[u] = mq[u]
           /\ mq'[t] = Append(mq[t], m)
           /\ Ids(mq'[t]) = Ids(mq[t]) \union {m.id}
<1>1. mq \in [Thread -> Seq(Messages)] /\ mq[t] \in Seq(Messages)
  BY DEF Types
<1> DEFINE q == Append(mq[t], m)
<1>2. q \in Seq(Messages) /\ Ids(q) = Ids(mq[t]) \union {m.id}
  BY <1>1, PostedIds
<1>3. mq' = [mq EXCEPT ![t] = q]
  BY DEF Post
<1> HIDE DEF q
<1>4. /\ mq' \in [Thread -> Seq(Messages)] /\ mq'[t] = q
      /\ \A u \in Thread \ {t} : mq'[u] = mq[u]
  BY <1>1, <1>2, <1>3
<1> QED BY <1>2, <1>4 DEF q

\* A message is taken.
LEMMA Taken ==
    ASSUME Types, NEW t \in Thread, mq[t] # << >>,
           mq' = [mq EXCEPT ![t] = Tail(@)]
    PROVE  /\ mq' \in [Thread -> Seq(Messages)]
           /\ \A u \in Thread \ {t} : mq'[u] = mq[u]
           /\ mq'[t] = Tail(mq[t])
           /\ Head(mq[t]) \in Messages
           /\ Ids(mq[t]) = {Head(mq[t]).id} \union Ids(mq'[t])
<1>1. mq \in [Thread -> Seq(Messages)] /\ mq[t] \in Seq(Messages)
  BY DEF Types
<1> DEFINE q == Tail(mq[t])
<1>2. /\ q \in Seq(Messages) /\ Head(mq[t]) \in Messages
      /\ Ids(mq[t]) = {Head(mq[t]).id} \union Ids(q)
  BY <1>1, FirstMessage
<1> HIDE DEF q
<1>3. mq' = [mq EXCEPT ![t] = q]
  BY DEF q
<1>4. /\ mq' \in [Thread -> Seq(Messages)] /\ mq'[t] = q
      /\ \A u \in Thread \ {t} : mq'[u] = mq[u]
  BY <1>1, <1>2, <1>3
<1> QED BY <1>2, <1>4 DEF q

\* PostReadMessage leaves the queue, or posts to an empty one.
LEMMA ReadPosted ==
    ASSUME Types, NEW t \in Thread, NEW when \in BOOLEAN, PostReadMessage(t, when)
    PROVE  /\ mq' \in [Thread -> Seq(Messages)]
           /\ \A u \in Thread \ {t} : mq'[u] = mq[u]
           /\ \/ mq'[t] = mq[t]
              \/ mq[t] = << >> /\ mq'[t] = << Message("READ") >>
<1>1. mq \in [Thread -> Seq(Messages)]
  BY DEF Types
<1>2. Message("READ") \in Messages
  BY DEF Message, Messages, MessageIds, Times
<1> DEFINE q == << Message("READ") >>
<1>3. q \in Seq(Messages)
  BY <1>2
<1>4. mq' = mq \/ (mq[t] = << >> /\ mq' = [mq EXCEPT ![t] = q])
  BY DEF PostReadMessage
<1> HIDE DEF q
<1>5. CASE mq' = mq
  BY <1>1, <1>5
<1>6. CASE mq[t] = << >> /\ mq' = [mq EXCEPT ![t] = q]
  BY <1>1, <1>3, <1>6 DEF q
<1> QED BY <1>4, <1>5, <1>6

\* The steps the threads have to do.
LEMMA PlainSteps ==
    /\ \A op \in PlainOps : Step(op) \in Steps /\ Notify(op) \in Steps
    /\ \A time \in Times :
         /\ \A op \in {"seek", "seekTime", "parserSeek", "seekCache"} :
              Timed(op, time) \in Steps
         /\ \A result \in {"ok", "IO", "USER_CANCEL", "UNKNOWN"} :
              SeekFinish(result, time) \in Steps
  BY DEF Steps, Step, Notify, Timed, SeekFinish

LEMMA StepTimes ==
    \A x \in Steps :
        x.op \in {"seek", "seekTime", "parserSeek", "seekCache", "SEEK_FINISH"} =>
            x.time \in Times
  BY DEF Steps, PlainOps

-----------------------------------------------------------------------------
(* Steps that leave the turns, or the component, as they are.              *)

\* The other thread, the requests and the answer, the closing and preparing of
\* the parser, and the flags stay.
SameTurn ==
    /\ todo'["xplayer"] = todo["xplayer"] /\ reply' = reply
    /\ \A op \in Closes \union Prepares :
         op \in Ops(todo'["demux"]) <=> op \in Ops(todo["demux"])
    /\ QueueOrder(mq'["demux"])
    /\ \A id \in Requests \union {"PREPARE"} :
         id \in Ids(mq'["demux"]) <=> id \in Ids(mq["demux"])
    /\ demux'.pParser = demux.pParser
    /\ demux'.bStopping = demux.bStopping /\ demux'.bCancelSeek = demux.bCancelSeek
    /\ demux.bStopping \/ demux.bCancelSeek => demux'.bForceStop = demux.bForceStop

SameFront == ctx'.mStatus = ctx.mStatus /\ player'.eStatus = player.eStatus

\* What is kept of the parts of the invariant about the turns.
Protocol == Turns /\ Flags /\ Preparation /\ Commanding

LEMMA SameAsked ==
    ASSUME SameTurn
    PROVE  /\ \A ids \in SUBSET Requests : Asked(ids)' <=> Asked(ids)
           /\ Waiting' <=> Waiting
           /\ PreparesNow' <=> PreparesNow
           /\ Preparing' <=> Preparing
           /\ Closing' <=> Closing
           /\ Shut' <=> Shut
  BY DEF SameTurn, Asked, Waiting, PreparesNow, Preparing, Closing, Shut

LEMMA SameProtocol ==
    ASSUME Protocol, SameTurn, SameFront
    PROVE  Protocol'
<1>1. /\ \A ids \in SUBSET Requests : Asked(ids)' <=> Asked(ids)
      /\ Waiting' <=> Waiting
      /\ PreparesNow' <=> PreparesNow
      /\ Preparing' <=> Preparing
      /\ Closing' <=> Closing
      /\ Shut' <=> Shut
  BY SameAsked
<1>2. /\ Requests \in SUBSET Requests /\ Closes \in SUBSET Requests
      /\ {"CANCEL_SEEK"} \in SUBSET Requests /\ {"CANCEL_PREPARE"} \in SUBSET Requests
      /\ Requests \ {"CANCEL_PREPARE"} \in SUBSET Requests
  BY DEF Requests, Closes
<1>3. Turns'
  BY <1>1, <1>2 DEF Protocol, Turns, SameTurn
<1>4. Flags'
  BY <1>1, <1>2 DEF Protocol, Flags, SameTurn
<1>5. Preparation'
  BY <1>1, <1>2 DEF Protocol, Preparation, SameTurn, SameFront, Prepares
<1>6. Commanding'
  BY <1>1, <1>2 DEF Protocol, Commanding, SameTurn, SameFront
<1> QED BY <1>3, <1>4, <1>5, <1>6 DEF Protocol

\* The component's threads rest while another one takes a step.
ComponentRests ==
    /\ todo'["demux"] = todo["demux"] /\ todo'["cache"] = todo["cache"]
    /\ mq'["cache"] = mq["cache"] /\ cache' = cache
    /\ demux'.pParser = demux.pParser
    /\ \/ demux'.eStatus = demux.eStatus
       \/ demux'.eStatus \notin {"PREPARED", "STARTED", "COMPLETE"}

LEMMA SameParser == Parser /\ ComponentRests => Parser'
  BY DEF Parser, ComponentRests, Closing, PreparesNow, CloseSteps

\* What a closing thread has to do, and when it may: head and rest.
LEMMA CloseForms ==
    ASSUME Types, Parser
    PROVE  /\ Closing \/ "join" \in Ops(todo["demux"]) =>
                ~ Idle("demux") /\ Head(todo["demux"]).op \in {"awaitCache", "join"} \union Closes
           /\ PreparesNow => ~ Idle("demux") /\ Head(todo["demux"]).op \in Prepares
<1>1. ASSUME CloseSteps
      PROVE  ~ Idle("demux") /\ Head(todo["demux"]).op \in {"awaitCache", "join"} \union Closes
  BY <1>1 DEF CloseSteps, Idle, Step
<1>2. ASSUME PreparesNow
      PROVE  ~ Idle("demux") /\ Head(todo["demux"]).op \in Prepares
  <2>1. todo["demux"] \in Seq(Steps) /\ Len(todo["demux"]) = 1
    BY <1>2, ListTypes DEF Parser, Thread
  <2>2. todo["demux"] # << >> /\ Elements(todo["demux"]) = {Head(todo["demux"])}
    BY <2>1 DEF Elements
  <2> QED BY <1>2, <2>2 DEF PreparesNow, Ops, Idle
<1> QED BY <1>1, <1>2 DEF Parser

\* The demux thread goes on with steps that neither prepare nor close.
GoesOn(ops) ==
    /\ todo'["cache"] = todo["cache"]
    /\ \A op \in Ops(todo'["demux"]) :
         \/ op \in ops
         \/ todo["demux"] # << >> /\ op \in Ops(Tail(todo["demux"]))
    /\ cache'.alive = cache.alive /\ demux'.pParser = demux.pParser
    /\ \/ mq'["cache"] = mq["cache"]
       \/ cache.alive /\ \E m \in Messages :
            m.id # "QUIT" /\ mq'["cache"] = Append(mq["cache"], m)

LEMMA GoesOnParser ==
    ASSUME Types, Parser, NEW ops, GoesOn(ops),
           ops \cap (Closes \union Prepares \union {"join"}) = {},
           ~ cache.alive => "seekCache" \notin ops /\ "startCache" \notin ops,
           demux.pParser,
           Idle("demux") \/ Head(todo["demux"]).op
                              \notin Closes \union Prepares \union {"awaitCache", "join"}
    PROVE  /\ Parser'
           /\ \A op \in Closes \union Prepares :
                op \notin Ops(todo["demux"]) /\ op \notin Ops(todo'["demux"])
<1>1. /\ ~ Closing /\ "join" \notin Ops(todo["demux"]) /\ ~ PreparesNow
  BY CloseForms DEF Closes, Prepares
<1>2. \A op \in Ops(todo'["demux"]) : op \in ops \/ op \in Ops(todo["demux"])
  <2>1. todo["demux"] # << >> =>
          Ops(todo["demux"]) = {Head(todo["demux"]).op} \union Ops(Tail(todo["demux"]))
    BY ListTypes, FirstStep DEF Thread
  <2> QED BY <2>1 DEF GoesOn
<1>3. /\ \A op \in Closes \union Prepares \union {"join"} :
           op \notin Ops(todo["demux"]) /\ op \notin Ops(todo'["demux"])
  BY <1>1, <1>2 DEF Closing, PreparesNow
<1>4. \A i \in 1 .. Len(mq'["cache"]) : mq'["cache"][i].id # "QUIT"
  <2>1. \A i \in 1 .. Len(mq["cache"]) : mq["cache"][i].id # "QUIT"
    BY <1>1 DEF Parser
  <2>2. CASE mq'["cache"] = mq["cache"]
    BY <2>1, <2>2
  <2>3. ASSUME NEW m \in Messages, m.id # "QUIT", mq'["cache"] = Append(mq["cache"], m)
        PROVE  \A i \in 1 .. Len(mq'["cache"]) : mq'["cache"][i].id # "QUIT"
    <3>1. mq["cache"] \in Seq(Messages)
      BY ListTypes DEF Thread
    <3> QED BY <2>1, <2>3, <3>1
  <2> QED BY <2>2, <2>3 DEF GoesOn
<1>5. ~ cache'.alive => /\ mq'["cache"] = << >> /\ todo'["cache"] = << >>
                        /\ "seekCache" \notin Ops(todo'["demux"])
                        /\ "startCache" \notin Ops(todo'["demux"])
  BY <1>2 DEF Parser, GoesOn
<1>6. Parser'
  <2>1. cache'.alive => demux'.pParser
    BY DEF Parser, GoesOn
  <2>2. demux'.pParser
    BY DEF GoesOn
  <2>3. ~ Closing' /\ "join" \notin Ops(todo'["demux"]) /\ ~ PreparesNow'
    BY <1>3 DEF Closing, PreparesNow
  <2> QED BY <1>4, <1>5, <2>1, <2>2, <2>3 DEF Parser
<1> QED BY <1>3, <1>6

\* The player's status may change while the parser is open and the user plays.
LEMMA PlayerChanges ==
    ASSUME Protocol, SameTurn, ctx'.mStatus = ctx.mStatus, demux.pParser,
           ctx.mStatus \notin Stopped \union {"PREPARING"}
    PROVE  Protocol'
<1>1. /\ \A ids \in SUBSET Requests : Asked(ids)' <=> Asked(ids)
      /\ Waiting' <=> Waiting
      /\ PreparesNow' <=> PreparesNow
      /\ Preparing' <=> Preparing
      /\ Closing' <=> Closing
      /\ Shut' <=> Shut
  BY SameAsked
<1>2. /\ Requests \in SUBSET Requests /\ Closes \in SUBSET Requests
      /\ {"CANCEL_SEEK"} \in SUBSET Requests /\ {"CANCEL_PREPARE"} \in SUBSET Requests
      /\ Requests \ {"CANCEL_PREPARE"} \in SUBSET Requests
  BY DEF Requests, Closes
<1>3. Turns'
  BY <1>1, <1>2 DEF Protocol, Turns, SameTurn
<1>4. Flags'
  BY <1>1, <1>2 DEF Protocol, Flags, SameTurn
<1>5. Preparation'
  BY <1>1, <1>2 DEF Protocol, Preparation, SameTurn, Prepares
<1>6. ~ Shut
  BY DEF Shut
<1>7. Commanding'
  BY <1>1, <1>2, <1>6 DEF Protocol, Commanding, SameTurn
<1> QED BY <1>3, <1>4, <1>5, <1>7 DEF Protocol

-----------------------------------------------------------------------------
(* The demux thread at work with an open parser.                           *)

DemuxWorks ==
    \/ SeekDone \/ SeekHit \/ StartCache \/ SeekMiss \/ SeekWaitEnds \/ SeekTail
    \/ Complete \/ BufferingEnds \/ Resumed \/ BufferingGoesOn
    \/ SendFrame \/ Underflow \/ Paused
    \/ ParserSeekOk \/ ParserSeekFails \/ ParserReadOk \/ ParserReadFails

WorkOps == {"SEEK_FINISH", "seekDone", "startCache", "awaitCache", "seekTail",
            "seekWait", "EOS", "complete", "RESUME_PLAYER", "resumed",
            "PAUSE_PLAYER", "paused"}

WorkHeads == {"seekDone", "seekCache", "startCache", "seekWait", "seekTail",
              "complete", "buffering", "resumed", "readCache", "paused",
              "parserSeek", "parserRead"}

\* What these steps leave alone.
SameState ==
    /\ reply' = reply /\ cache'.alive = cache.alive
    /\ demux'.pParser = demux.pParser
    /\ demux'.bStopping = demux.bStopping /\ demux'.bCancelSeek = demux.bCancelSeek
    /\ demux.bStopping \/ demux.bCancelSeek => demux'.bForceStop = demux.bForceStop

LEMMA WorkState ==
    ASSUME Types, DemuxWorks
    PROVE  /\ SameState
           /\ ~ Idle("demux") /\ Head(todo["demux"]).op \in WorkHeads
<1>1. demux \in Demuxes /\ cache \in Caches /\ SeekFails \in Demuxes
      /\ SeekFails.pParser = demux.pParser /\ SeekFails.bStopping = demux.bStopping
      /\ SeekFails.bCancelSeek = demux.bCancelSeek
      /\ SeekFails.bForceStop = demux.bForceStop
  BY DEF Types, SeekFails, Demuxes, DemuxStatuses
<1>2. CASE SeekDone \/ SeekMiss \/ StartCache \/ SeekWaitEnds \/ SeekTail
  BY <1>1, <1>2 DEF SeekDone, SeekMiss, StartCache, SeekWaitEnds, SeekTail, SameState,
     WorkHeads, At, Demuxes, Caches
<1>3. CASE SeekHit
  BY <1>1, <1>3 DEF SeekHit, ClrForceStop, SameState, WorkHeads, At, Demuxes, Caches
<1>4. CASE Complete \/ BufferingEnds \/ Resumed \/ BufferingGoesOn \/ Paused
  BY <1>1, <1>4 DEF Complete, BufferingEnds, Resumed, BufferingGoesOn, Paused,
     SameState, WorkHeads, At, Demuxes
<1>5. CASE SendFrame \/ Underflow
  BY <1>1, <1>5 DEF SendFrame, Underflow, SameState, WorkHeads, At, Demuxes, Caches
<1>6. CASE ParserSeekOk \/ ParserSeekFails \/ ParserReadOk \/ ParserReadFails
  BY <1>1, <1>6 DEF ParserSeekOk, ParserSeekFails, ParserReadOk, ParserReadFails,
     SameState, WorkHeads, At, Demuxes
<1> QED BY <1>2, <1>3, <1>4, <1>5, <1>6 DEF DemuxWorks

\* What they post: to the cache thread only while it runs.
LEMMA WorkQueues ==
    ASSUME Types, DemuxWorks
    PROVE  /\ mq' \in [Thread -> Seq(Messages)]
           /\ mq'["xplayer"] = mq["xplayer"]
           /\ \/ mq'["demux"] = mq["demux"]
              \/ mq["demux"] = << >> /\ mq'["demux"] = << Message("READ") >>
           /\ \/ mq'["cache"] = mq["cache"]
              \/ /\ Head(todo["demux"]).op \in {"startCache", "seekCache"}
                 /\ \E m \in Messages :
                      m.id # "QUIT" /\ mq'["cache"] = Append(mq["cache"], m)
<1>1. mq \in [Thread -> Seq(Messages)]
  BY DEF Types
<1>2. CASE \E when \in BOOLEAN : PostReadMessage("demux", when)
  BY <1>2, ReadPosted DEF Thread
<1>3. ASSUME NEW m \in Messages, Post("cache", m), m.id # "QUIT",
             Head(todo["demux"]).op \in {"startCache", "seekCache"}
      PROVE  /\ mq' \in [Thread -> Seq(Messages)]
             /\ mq'["xplayer"] = mq["xplayer"] /\ mq'["demux"] = mq["demux"]
             /\ mq'["cache"] = Append(mq["cache"], m)
  BY <1>3, Posted DEF Thread
<1>4. CASE UNCHANGED mq
  BY <1>1, <1>4
<1>5. CASE SeekDone
  <2>1. (demux'.eStatus = "STARTED") \in BOOLEAN
    OBVIOUS
  <2> QED BY <1>2, <1>5, <2>1 DEF SeekDone
<1>6. CASE SeekTail
  <2>1. (demux'.eStatus = "STARTED") \in BOOLEAN
    OBVIOUS
  <2> QED BY <1>2, <1>6, <2>1 DEF SeekTail
<1>7. CASE StartCache
  <2>1. Message("RESTART") \in Messages /\ Message("RESTART").id # "QUIT"
    BY DEF Message, Messages, MessageIds, Times
  <2> QED BY <1>3, <1>7, <2>1 DEF StartCache, At
<1>8. CASE SeekMiss
  <2> DEFINE m == [Message("SEEK") EXCEPT !.time = Head(todo["demux"]).time]
  <2>1. Head(todo["demux"]).time \in Times /\ Head(todo["demux"]).op = "seekCache"
    <3>1. todo["demux"] # << >> /\ Head(todo["demux"]).op = "seekCache"
      BY <1>8 DEF SeekMiss, At, Idle
    <3>2. Head(todo["demux"]) \in Steps
      BY <3>1, ListTypes, FirstStep DEF Thread
    <3> QED BY <3>1, <3>2, StepTimes
  <2>2. m = [id |-> "SEEK", time |-> Head(todo["demux"]).time]
    BY DEF Message
  <2>3. m \in Messages /\ m.id # "QUIT"
    BY <2>1, <2>2 DEF Messages, MessageIds
  <2>4. Post("cache", m)
    BY <1>8 DEF SeekMiss
  <2> HIDE DEF m
  <2> QED BY <1>3, <2>1, <2>3, <2>4
<1>9. CASE Complete \/ BufferingEnds \/ Resumed \/ SeekHit \/ SeekWaitEnds \/ ParserSeekOk
           \/ ParserSeekFails \/ ParserReadFails
  BY <1>4, <1>9 DEF Complete, BufferingEnds, Resumed, SeekHit, SeekWaitEnds, ParserSeekOk,
     ParserSeekFails, ParserReadFails
<1>10. CASE BufferingGoesOn \/ SendFrame \/ Underflow \/ Paused \/ ParserReadOk
  BY <1>2, <1>4, <1>10 DEF BufferingGoesOn, SendFrame, Underflow, Paused, ParserReadOk
<1> QED BY <1>5, <1>6, <1>7, <1>8, <1>9, <1>10 DEF DemuxWorks

\* What they leave to do.
LEMMA WorkSteps ==
    ASSUME Types, DemuxWorks
    PROVE  \E steps \in Seq(Steps) :
              /\ Proceed("demux", steps) \/ (steps = << >> /\ Does("demux", steps))
              /\ Ops(steps) \subseteq WorkOps
              /\ "startCache" \in Ops(steps) => Head(todo["demux"]).op = "seekCache"
<1> DEFINE Leaves(steps) ==
              /\ steps \in Seq(Steps)
              /\ Proceed("demux", steps) \/ (steps = << >> /\ Does("demux", steps))
              /\ Ops(steps) \subseteq WorkOps
              /\ "startCache" \in Ops(steps) => Head(todo["demux"]).op = "seekCache"
<1> SUFFICES \E steps : Leaves(steps)
  OBVIOUS
<1>1. CASE Proceed("demux", << >>) \/ Does("demux", << >>)
  BY <1>1, FewOps
<1>3. ASSUME At("demux", "parserSeek") \/ At("demux", "seekCache")
      PROVE  /\ Head(todo["demux"]).time \in Times
             /\ SeekFinish("ok", Head(todo["demux"]).time) \in Steps
             /\ SeekFinish(SeekError, Head(todo["demux"]).time) \in Steps
  <2>1. Head(todo["demux"]) \in Steps
    BY <1>3, ListTypes, FirstStep DEF Thread, At, Idle
  <2>2. Head(todo["demux"]).time \in Times
    BY <1>3, <2>1, StepTimes DEF At
  <2> QED BY <2>2, PlainSteps DEF SeekError
<1>4. /\ Step("seekDone") \in Steps /\ Step("startCache") \in Steps
      /\ Step("awaitCache") \in Steps /\ Step("seekTail") \in Steps
      /\ Step("seekWait") \in Steps /\ Step("resumed") \in Steps
      /\ Notify("EOS") \in Steps /\ Notify("RESUME_PLAYER") \in Steps
      /\ Notify("PAUSE_PLAYER") \in Steps /\ Step("paused") \in Steps
      /\ Step("complete") \in Steps
  BY PlainSteps DEF PlainOps
<1>5. ASSUME NEW a \in Steps, NEW b \in Steps, Proceed("demux", << a, b >>),
             {a.op, b.op} \subseteq WorkOps \ {"startCache"}
      PROVE  \E steps : Leaves(steps)
  <2> DEFINE l == << a, b >>
  <2>1. l \in Seq(Steps) /\ Ops(l) = {a.op, b.op}
    BY FewOps, Zenon
  <2>2. Proceed("demux", l)
    BY <1>5
  <2> HIDE DEF l
  <2>3. Leaves(l)
    BY <1>5, <2>1, <2>2
  <2> QED BY <2>3
<1>6. CASE SeekDone \/ StartCache \/ SeekTail \/ Complete \/ Resumed \/ BufferingGoesOn
           \/ SendFrame \/ Paused \/ SeekWaitEnds \/ ParserReadOk
  BY <1>1, <1>6 DEF SeekDone, StartCache, SeekTail, Complete, Resumed, BufferingGoesOn,
     SendFrame, Paused, SeekWaitEnds, ParserReadOk
<1>7. CASE SeekHit
  <2> DEFINE a == SeekFinish("ok", Head(todo["demux"]).time)
             l == << a, Step("startCache"), Step("awaitCache"), Step("seekTail") >>
  <2>1. a \in Steps /\ a.op = "SEEK_FINISH"
    BY <1>3, <1>7 DEF SeekHit, SeekFinish
  <2>2. Proceed("demux", l) /\ Head(todo["demux"]).op = "seekCache"
    BY <1>7 DEF SeekHit, At
  <2> HIDE DEF a
  <2> DEFINE b == Step("startCache")
             c == Step("awaitCache")
             d == Step("seekTail")
  <2>5. l = << a, b, c, d >> /\ b \in Steps /\ c \in Steps /\ d \in Steps
        /\ b.op = "startCache" /\ c.op = "awaitCache" /\ d.op = "seekTail"
    BY <1>4 DEF Step
  <2> HIDE DEF b, c, d, l
  <2>6. \A e \in Steps : \A f \in Steps : \A g \in Steps : \A h \in Steps :
          << e, f, g, h >> \in Seq(Steps) /\ Ops(<< e, f, g, h >>) = {e.op, f.op, g.op, h.op}
    BY FewOps, Zenon
  <2>7. << a, b, c, d >> \in Seq(Steps) /\ Ops(<< a, b, c, d >>) = {a.op, b.op, c.op, d.op}
    BY <2>1, <2>5, <2>6
  <2>3. l \in Seq(Steps) /\ Ops(l) = {a.op, "startCache", "awaitCache", "seekTail"}
    BY <2>5, <2>7
  <2>4. Leaves(l)
    BY <2>1, <2>2, <2>3 DEF Step, WorkOps
  <2> QED BY <2>4
<1>8. CASE SeekMiss
  BY <1>4, <1>5, <1>8 DEF SeekMiss, Step, WorkOps
<1>9. CASE BufferingEnds
  BY <1>4, <1>5, <1>9 DEF BufferingEnds, Step, Notify, WorkOps
<1>10. CASE Underflow
  <2>1. CASE Proceed("demux", << Notify("EOS"), Step("complete") >>)
    BY <1>4, <1>5, <2>1 DEF Step, Notify, WorkOps
  <2>2. CASE Proceed("demux", << Notify("PAUSE_PLAYER"), Step("paused") >>)
    BY <1>4, <1>5, <2>2 DEF Step, Notify, WorkOps
  <2> QED BY <1>1, <1>10, <2>1, <2>2 DEF Underflow
<1>11. CASE ParserReadFails
  <2>1. CASE Proceed("demux", << Notify("EOS"), Step("complete") >>)
    BY <1>4, <1>5, <2>1 DEF Step, Notify, WorkOps
  <2> QED BY <1>1, <1>11, <2>1 DEF ParserReadFails
<1>12. CASE ParserSeekOk
  BY <1>3, <1>4, <1>5, <1>12 DEF ParserSeekOk, Step, SeekFinish, WorkOps
<1>13. CASE ParserSeekFails
  <2> DEFINE a == SeekFinish(SeekError, Head(todo["demux"]).time)
             l == << a >>
  <2>1. a \in Steps /\ a.op = "SEEK_FINISH"
    BY <1>3, <1>13 DEF ParserSeekFails, SeekFinish
  <2>2. Proceed("demux", l)
    BY <1>13 DEF ParserSeekFails
  <2> HIDE DEF a
  <2>3. l \in Seq(Steps) /\ Ops(l) = {a.op}
    BY <2>1, FewOps, Zenon
  <2> HIDE DEF l
  <2>4. Leaves(l)
    BY <2>1, <2>2, <2>3 DEF WorkOps
  <2> QED BY <2>4
<1> QED BY <1>6, <1>7, <1>8, <1>9, <1>10, <1>11, <1>12, <1>13 DEF DemuxWorks

\* With a parser that is open at such a step all of this goes on.
LEMMA WorkKeeps ==
    ASSUME Types, Parser, Protocol, DemuxWorks, UNCHANGED xplayerVars
    PROVE  Parser' /\ Protocol'
<1>1. SameState /\ ~ Idle("demux") /\ Head(todo["demux"]).op \in WorkHeads
  BY WorkState
<1>2. todo["demux"] \in Seq(Steps) /\ todo["demux"] # << >> /\ mq["demux"] \in Seq(Messages)
  BY <1>1, ListTypes DEF Idle, Thread
<1>3. Ops(todo["demux"]) = {Head(todo["demux"]).op} \union Ops(Tail(todo["demux"]))
  BY <1>2, FirstStep
<1>4. demux.pParser
  BY <1>1, <1>3 DEF Parser, WorkHeads, ClosedOps
<1>5. Head(todo["demux"]).op \in {"startCache", "seekCache"} => cache.alive
  BY <1>3, <1>4 DEF Parser
<1>6. PICK steps \in Seq(Steps) :
              /\ Proceed("demux", steps) \/ (steps = << >> /\ Does("demux", steps))
              /\ Ops(steps) \subseteq WorkOps
              /\ "startCache" \in Ops(steps) => Head(todo["demux"]).op = "seekCache"
  BY WorkSteps
<1>7. /\ \A u \in Thread \ {"demux"} : todo'[u] = todo[u]
      /\ \A op \in Ops(todo'["demux"]) : op \in Ops(steps) \/ op \in Ops(Tail(todo["demux"]))
  <2>1. CASE Proceed("demux", steps)
    <3>1. /\ \A u \in Thread \ {"demux"} : todo'[u] = todo[u]
          /\ Ops(todo'["demux"]) = Ops(steps) \union Ops(Tail(todo["demux"]))
      BY <1>1, <2>1, Proceeded DEF Thread
    <3> QED BY <3>1
  <2>2. CASE steps = << >> /\ Does("demux", steps)
    BY <2>2, Begun, FewOps DEF Thread
  <2> QED BY <1>6, <2>1, <2>2
<1>8. /\ mq'["xplayer"] = mq["xplayer"]
      /\ \/ mq'["demux"] = mq["demux"]
         \/ mq["demux"] = << >> /\ mq'["demux"] = << Message("READ") >>
      /\ \/ mq'["cache"] = mq["cache"]
         \/ /\ cache.alive
            /\ \E m \in Messages :
                      m.id # "QUIT" /\ mq'["cache"] = Append(mq["cache"], m)
  BY <1>5, WorkQueues
<1>9. GoesOn(Ops(steps))
  BY <1>1, <1>2, <1>7, <1>8 DEF GoesOn, SameState, Thread
<1>10. /\ Ops(steps) \cap (Closes \union Prepares \union {"join"}) = {}
       /\ ~ cache.alive => "seekCache" \notin Ops(steps) /\ "startCache" \notin Ops(steps)
       /\ Head(todo["demux"]).op \notin Closes \union Prepares \union {"awaitCache", "join"}
  BY <1>1, <1>5, <1>6 DEF WorkOps, WorkHeads, Closes, Prepares
<1>11. /\ Parser'
       /\ \A op \in Closes \union Prepares :
            op \notin Ops(todo["demux"]) /\ op \notin Ops(todo'["demux"])
  BY <1>4, <1>9, <1>10, GoesOnParser
<1>12. QueueOrder(mq'["demux"]) /\ Ids(mq'["demux"]) \ {"READ"} = Ids(mq["demux"]) \ {"READ"}
  <2>1. CASE mq'["demux"] = mq["demux"]
    BY <2>1 DEF Protocol, Turns
  <2>2. CASE mq["demux"] = << >> /\ mq'["demux"] = << Message("READ") >>
    BY <2>2 DEF QueueOrder, Ids, Elements, Message, Requests
  <2> QED BY <1>8, <2>1, <2>2
<1>13. SameTurn
  BY <1>1, <1>7, <1>11, <1>12 DEF SameTurn, SameState, Thread, Requests
<1>14. SameFront
  BY DEF SameFront, xplayerVars
<1> QED BY <1>11, <1>13, <1>14, SameProtocol

-----------------------------------------------------------------------------
(* The other steps of the demux thread that keep the turns.                *)

\* Neither a request nor a prepare comes or goes, and the order stays.
SameRequests ==
    /\ QueueOrder(mq'["demux"])
    /\ \A id \in Requests \union {"PREPARE"} :
         id \in Ids(mq'["demux"]) <=> id \in Ids(mq["demux"])

LEMMA QueueSame == Turns /\ mq'["demux"] = mq["demux"] => SameRequests
  BY DEF Turns, SameRequests

\* A message that asks for nothing is taken.
LEMMA QueueTaken ==
    ASSUME Types, Turns, mq["demux"] # << >>,
           Head(mq["demux"]).id \notin Requests \union {"PREPARE"},
           \/ mq'["demux"] = Tail(mq["demux"])
           \/ Tail(mq["demux"]) = << >> /\ mq'["demux"] = << Message("READ") >>
    PROVE  SameRequests
<1> DEFINE q == mq["demux"]
<1>1. q \in Seq(Messages) /\ q # << >> /\ QueueOrder(q)
  BY ListTypes DEF Thread, Turns
<1> HIDE DEF q
<1>2. QueueOrder(Tail(q)) /\ Ids(q) = {Head(q).id} \union Ids(Tail(q))
  BY <1>1, TakenInOrder, FirstMessage
<1>3. CASE mq'["demux"] = Tail(q)
  BY <1>2, <1>3 DEF q, SameRequests
<1>4. CASE Tail(q) = << >> /\ mq'["demux"] = << Message("READ") >>
  <2>1. QueueOrder(mq'["demux"]) /\ Ids(mq'["demux"]) = {"READ"}
    BY <1>4 DEF QueueOrder, Ids, Elements, Message, Requests
  <2>2. Ids(Tail(q)) = {}
    BY <1>4 DEF Ids, Elements
  <2> QED BY <1>2, <2>1, <2>2 DEF q, SameRequests, Requests
<1> QED BY <1>3, <1>4 DEF q

\* The thread has done its first step, and closes and prepares as before.
LEMMA DemuxDone ==
    ASSUME Types, Parser, Proceed("demux", << >>), ~ Idle("demux"),
           Head(todo["demux"]).op \notin Closes \union Prepares
    PROVE  /\ todo' \in [Thread -> Seq(Steps)]
           /\ todo'["xplayer"] = todo["xplayer"] /\ todo'["cache"] = todo["cache"]
           /\ todo'["demux"] = Tail(todo["demux"])
           /\ Ops(todo["demux"]) = {Head(todo["demux"]).op} \union Ops(todo'["demux"])
           /\ FinishOk(todo'["demux"]) => FinishOk(todo["demux"])
           /\ \A op \in Closes \union Prepares :
                op \in Ops(todo'["demux"]) <=> op \in Ops(todo["demux"])
           /\ ~ PreparesNow /\ ~ PreparesNow'
           /\ Closing' <=> Closing
<1>1. << >> \in Seq(Steps) /\ Ops(<< >>) = {} /\ ~ FinishOk(<< >>)
  BY FewOps DEF FinishOk, Elements
<1>2. todo["demux"] \in Seq(Steps) /\ todo["demux"] # << >>
  BY ListTypes DEF Thread, Idle
<1>3. /\ todo' \in [Thread -> Seq(Steps)]
      /\ \A u \in Thread \ {"demux"} : todo'[u] = todo[u]
      /\ todo'["demux"] = << >> \o Tail(todo["demux"])
      /\ Ops(todo["demux"]) = {Head(todo["demux"]).op} \union Ops(Tail(todo["demux"]))
      /\ Tail(todo["demux"]) \in Seq(Steps)
      /\ FinishOk(todo'["demux"]) => FinishOk(<< >>) \/ FinishOk(todo["demux"])
  BY <1>1, Proceeded DEF Thread
<1>4. todo'["demux"] = Tail(todo["demux"])
  BY <1>3
<1>5. \A op \in Closes \union Prepares :
                op \in Ops(todo'["demux"]) <=> op \in Ops(todo["demux"])
  BY <1>3, <1>4
<1>6. ~ PreparesNow
  BY CloseForms
<1> QED BY <1>1, <1>3, <1>4, <1>5, <1>6 DEF Thread, PreparesNow, Closing

\* The cache thread's answer, or its end.
LEMMA AwaitJoinKeeps ==
    ASSUME Types, Parser, Protocol, AwaitCache \/ JoinCache, UNCHANGED xplayerVars
    PROVE  Parser' /\ Protocol'
<1>1. /\ Proceed("demux", << >>) /\ ~ Idle("demux")
      /\ Head(todo["demux"]).op \in {"awaitCache", "join"}
      /\ mq' = mq /\ demux' = demux /\ reply' = reply
  BY DEF AwaitCache, JoinCache, At
<1>2. cache'.alive = cache.alive
  BY DEF AwaitCache, JoinCache, Types, Caches
<1>3. /\ todo' \in [Thread -> Seq(Steps)]
      /\ todo'["xplayer"] = todo["xplayer"] /\ todo'["cache"] = todo["cache"]
      /\ todo'["demux"] = Tail(todo["demux"])
      /\ Ops(todo["demux"]) = {Head(todo["demux"]).op} \union Ops(todo'["demux"])
      /\ FinishOk(todo'["demux"]) => FinishOk(todo["demux"])
      /\ \A op \in Closes \union Prepares :
                op \in Ops(todo'["demux"]) <=> op \in Ops(todo["demux"])
      /\ ~ PreparesNow /\ ~ PreparesNow'
      /\ Closing' <=> Closing
  BY <1>1, DemuxDone DEF Closes, Prepares
<1>4. SameTurn
  BY <1>1, <1>3, QueueSame DEF Protocol, SameTurn, SameRequests
<1>5. SameFront
  BY DEF SameFront, xplayerVars
<1>6. demux.pParser
  BY <1>1, <1>3 DEF Parser, ClosedOps
<1>7. Closing \/ "join" \in Ops(todo["demux"]) => CloseSteps'
  <2> SUFFICES ASSUME Closing \/ "join" \in Ops(todo["demux"]) PROVE CloseSteps'
    OBVIOUS
  <2>1. PICK x \in Closes :
       \/ todo["demux"] = << Step("awaitCache"), Step("join"), Step(x) >>
       \/ todo["demux"] = << Step("join"), Step(x) >>
       \/ todo["demux"] = << Step(x) >> /\ ~ cache.alive
    BY DEF Parser, CloseSteps
  <2>2. CASE todo["demux"] = << Step("awaitCache"), Step("join"), Step(x) >>
    <3>1. todo'["demux"] = << Step("join"), Step(x) >>
      BY <1>3, <2>2
    <3> QED BY <3>1 DEF CloseSteps
  <2>3. CASE todo["demux"] = << Step("join"), Step(x) >>
    <3>1. todo'["demux"] = << Step(x) >>
      BY <1>3, <2>3
    <3>2. ~ cache'.alive
      BY <2>3 DEF AwaitCache, JoinCache, At, Step
    <3> QED BY <3>1, <3>2 DEF CloseSteps
  <2>4. CASE todo["demux"] = << Step(x) >> /\ ~ cache.alive
    BY <1>1, <2>4 DEF Step, Closes
  <2> QED BY <2>1, <2>2, <2>3, <2>4
<1>8. \A i \in 1 .. Len(mq["cache"]) :
         mq["cache"][i].id = "QUIT" =>
            i = Len(mq["cache"]) /\ "join" \in Ops(todo'["demux"])
  <2>1. CASE AwaitCache
    <3>1. Head(todo["demux"]).op # "join"
      BY <2>1 DEF AwaitCache, At
    <3> QED BY <1>3, <3>1 DEF Parser
  <2>2. CASE JoinCache
    <3>1. mq["cache"] = << >>
      BY <2>2 DEF JoinCache, Parser
    <3> QED BY <3>1
  <2> QED BY <2>1, <2>2
<1>9. /\ cache'.alive => demux'.pParser
      /\ ~ cache'.alive => /\ mq'["cache"] = << >> /\ todo'["cache"] = << >>
                           /\ "seekCache" \notin Ops(todo'["demux"])
                           /\ "startCache" \notin Ops(todo'["demux"])
  BY <1>1, <1>2, <1>3 DEF Parser
<1>10. Closing' \/ "join" \in Ops(todo'["demux"]) => CloseSteps'
  BY <1>3, <1>7
<1>11. Parser'
  BY <1>1, <1>3, <1>6, <1>8, <1>9, <1>10 DEF Parser
<1> QED BY <1>4, <1>5, <1>11, SameProtocol

\* A seek message.
LEMMA SeekKeeps ==
    ASSUME Types, Parser, Protocol, Seek, UNCHANGED xplayerVars
    PROVE  Parser' /\ Protocol'
<1>1. /\ todo["demux"] = << >> /\ mq["demux"] # << >> /\ Head(mq["demux"]).id = "SEEK"
      /\ mq["demux"] \in Seq(Messages) /\ reply' = reply /\ cache' = cache
      /\ mq \in [Thread -> Seq(Messages)]
      /\ Message("PAUSE") \in Messages /\ Message("PAUSE").id = "PAUSE"
  BY ListTypes DEF Seek, Idle, Thread, Types, Message, Messages, MessageIds, Times
<1>2. Head(mq["demux"]).time \in Times
  BY <1>1, FirstMessage DEF Messages
<1>3. /\ mq'["demux"] = Tail(mq["demux"])
      /\ \/ mq'["cache"] = mq["cache"]
         \/ cache.alive /\ mq'["cache"] = Append(mq["cache"], Message("PAUSE"))
  BY <1>1 DEF Seek, Thread
<1>4. SameRequests
  BY <1>1, <1>3, QueueTaken DEF Protocol, Requests
<1>5. /\ demux'.pParser = demux.pParser
      /\ demux'.bStopping = demux.bStopping /\ demux'.bCancelSeek = demux.bCancelSeek
      /\ demux.bStopping \/ demux.bCancelSeek => demux'.bForceStop = demux.bForceStop
      /\ ~ demux.pParser => demux'.eStatus = demux.eStatus
  BY DEF Seek, ClrForceStop, Types, Demuxes
<1>6. SameFront
  BY DEF SameFront, xplayerVars
<1>7. Elements(<< >>) = {} /\ Ops(<< >>) = {}
  BY DEF Ops, Elements
<1>8. CASE demux.pParser
  <2>1. PICK steps \in Seq(Steps) :
          /\ Does("demux", steps) /\ Ops(steps) \subseteq {"parserSeek", "awaitCache", "seekCache"}
          /\ ~ cache.alive => "seekCache" \notin Ops(steps)
    <3> DEFINE a == Step("awaitCache")
               b == Timed("seekCache", Head(mq["demux"]).time)
               c == Timed("parserSeek", Head(mq["demux"]).time)
    <3>1. a \in Steps /\ b \in Steps /\ c \in Steps
      BY <1>2, PlainSteps DEF PlainOps
    <3>2. a.op = "awaitCache" /\ b.op = "seekCache" /\ c.op = "parserSeek"
      BY DEF Step, Timed
    <3>3. \/ cache.alive /\ Does("demux", << a, b >>)
          \/ ~ cache.alive /\ Does("demux", << c >>)
      BY <1>8 DEF Seek
    <3> HIDE DEF a, b, c
    <3>4. << a, b >> \in Seq(Steps) /\ Ops(<< a, b >>) = {a.op, b.op}
      BY <3>1, FewOps, Zenon
    <3>5. << c >> \in Seq(Steps) /\ Ops(<< c >>) = {c.op}
      BY <3>1, FewOps, Zenon
    <3>6. CASE cache.alive
      BY <3>2, <3>3, <3>4, <3>6
    <3>7. CASE ~ cache.alive
      BY <3>2, <3>3, <3>5, <3>7
    <3> QED BY <3>6, <3>7
  <2>2. /\ todo'["demux"] = steps
        /\ todo'["xplayer"] = todo["xplayer"] /\ todo'["cache"] = todo["cache"]
    BY <2>1, Begun DEF Thread
  <2>3. GoesOn(Ops(steps))
    BY <1>1, <1>3, <1>5, <2>2 DEF GoesOn
  <2>4. /\ Parser'
        /\ \A op \in Closes \union Prepares :
             op \notin Ops(todo["demux"]) /\ op \notin Ops(todo'["demux"])
    BY <1>1, <1>8, <2>1, <2>3, GoesOnParser DEF Closes, Prepares, Idle
  <2>5. SameTurn
    BY <1>1, <1>4, <1>5, <2>2, <2>4 DEF SameTurn, SameRequests
  <2> QED BY <1>6, <2>4, <2>5, SameProtocol
<1>9. CASE ~ demux.pParser
  <2> DEFINE a == SeekFinish("UNKNOWN", Head(mq["demux"]).time)
  <2>1. a \in Steps /\ a.op = "SEEK_FINISH" /\ a.result = "UNKNOWN" /\ Does("demux", << a >>)
    BY <1>2, <1>9, PlainSteps DEF Seek, SeekFinish
  <2> HIDE DEF a
  <2>2. << a >> \in Seq(Steps) /\ Ops(<< a >>) = {a.op} /\ Elements(<< a >>) = {a}
    BY <2>1, FewOps DEF Elements
  <2>3. /\ todo'["demux"] = << a >>
        /\ todo'["xplayer"] = todo["xplayer"] /\ todo'["cache"] = todo["cache"]
    BY <2>1, <2>2, Begun DEF Thread
  <2>4. Ops(todo'["demux"]) = {"SEEK_FINISH"} /\ ~ FinishOk(todo'["demux"])
    BY <2>1, <2>2, <2>3 DEF FinishOk
  <2>5. ~ cache.alive /\ mq'["cache"] = mq["cache"]
    BY <1>3, <1>9 DEF Parser
  <2>6. \A op \in Closes \union Prepares \union {"join"} :
             op \notin Ops(todo["demux"]) /\ op \notin Ops(todo'["demux"])
    BY <1>1, <1>7, <2>4 DEF Closes, Prepares
  <2>7. ~ Closing' /\ ~ PreparesNow'
    BY <2>6 DEF Closing, PreparesNow
  <2>8. Parser'
    BY <1>1, <1>5, <1>9, <2>3, <2>4, <2>5, <2>6, <2>7 DEF Parser, ClosedOps
  <2>9. SameTurn
    BY <1>1, <1>4, <1>5, <2>3, <2>6 DEF SameTurn, SameRequests
  <2> QED BY <1>6, <2>8, <2>9, SameProtocol
<1> QED BY <1>8, <1>9

\* A read message.
LEMMA ReadKeeps ==
    ASSUME Types, Parser, Protocol, Read, UNCHANGED xplayerVars
    PROVE  Parser' /\ Protocol'
<1>1. /\ todo["demux"] = << >> /\ mq["demux"] # << >> /\ Head(mq["demux"]).id = "READ"
      /\ reply' = reply /\ cache' = cache /\ demux' = demux
      /\ mq \in [Thread -> Seq(Messages)]
  BY DEF Read, Take, Idle, Types
<1>2. mq'["demux"] = Tail(mq["demux"]) /\ mq'["cache"] = mq["cache"]
  BY <1>1 DEF Read, Take, Thread
<1>3. SameRequests
  BY <1>1, <1>2, QueueTaken DEF Protocol, Requests
<1>4. SameFront
  BY DEF SameFront, xplayerVars
<1>5. Ops(<< >>) = {} /\ << >> \in Seq(Steps)
  BY FewOps
<1>6. CASE demux.eStatus = "STARTED"
  <2>1. PICK steps \in Seq(Steps) :
          Does("demux", steps) /\ Ops(steps) \subseteq {"parserRead", "buffering", "readCache"}
    <3> DEFINE a == Step("parserRead")
               b == Step("buffering")
               c == Step("readCache")
    <3>1. a \in Steps /\ b \in Steps /\ c \in Steps
      BY PlainSteps DEF PlainOps
    <3>2. a.op = "parserRead" /\ b.op = "buffering" /\ c.op = "readCache"
      BY DEF Step
    <3>3. \/ Does("demux", << a >>) \/ Does("demux", << b >> \o << c >>)
          \/ Does("demux", << >> \o << c >>)
      BY <1>6 DEF Read, Only
    <3> HIDE DEF a, b, c
    <3> DEFINE k == << a >>
               l == << b >>
               m == << c >>
    <3>4. /\ k \in Seq(Steps) /\ Ops(k) = {a.op}
          /\ l \in Seq(Steps) /\ Ops(l) = {b.op}
          /\ m \in Seq(Steps) /\ Ops(m) = {c.op}
      BY <3>1, FewOps, Zenon
    <3>5. Does("demux", k) \/ Does("demux", l \o m) \/ Does("demux", << >> \o m)
      BY <3>3
    <3> HIDE DEF k, l, m
    <3>6. /\ l \o m \in Seq(Steps) /\ Ops(l \o m) = Ops(l) \union Ops(m)
          /\ << >> \o m \in Seq(Steps) /\ Ops(<< >> \o m) = Ops(<< >>) \union Ops(m)
      BY <1>5, <3>4, JoinedSteps
    <3> QED BY <1>5, <3>2, <3>4, <3>5, <3>6
  <2>2. /\ todo'["demux"] = steps
        /\ todo'["xplayer"] = todo["xplayer"] /\ todo'["cache"] = todo["cache"]
    BY <2>1, Begun DEF Thread
  <2>3. demux.pParser
    BY <1>6 DEF Parser
  <2>4. GoesOn(Ops(steps))
    BY <1>1, <1>2, <2>2 DEF GoesOn
  <2>5. /\ Parser'
        /\ \A op \in Closes \union Prepares :
             op \notin Ops(todo["demux"]) /\ op \notin Ops(todo'["demux"])
    BY <1>1, <2>1, <2>3, <2>4, GoesOnParser DEF Closes, Prepares, Idle
  <2>6. SameTurn
    BY <1>1, <1>3, <2>2, <2>5 DEF SameTurn, SameRequests
  <2> QED BY <1>4, <2>5, <2>6, SameProtocol
<1>7. CASE demux.eStatus # "STARTED"
  <2>1. Does("demux", << >>)
    BY <1>7 DEF Read, Only
  <2>2. /\ todo'["demux"] = todo["demux"]
        /\ todo'["xplayer"] = todo["xplayer"] /\ todo'["cache"] = todo["cache"]
    BY <1>1, <1>5, <2>1, Begun DEF Thread
  <2>3. ComponentRests
    BY <1>1, <1>2, <2>2 DEF ComponentRests
  <2>4. SameTurn
    BY <1>1, <1>3, <2>2 DEF SameTurn, SameRequests
  <2> QED BY <1>4, <2>3, <2>4, SameParser, SameProtocol
<1> QED BY <1>6, <1>7

\* The steps that only put something down.
LEMMA NotedKeeps ==
    ASSUME Types, Parser, Protocol, NotifyFirstFrameShowed \/ SeekWaitIsLong,
           UNCHANGED xplayerVars
    PROVE  Parser' /\ Protocol'
<1>1. /\ todo' = todo /\ cache' = cache /\ reply' = reply
      /\ demux'.pParser = demux.pParser /\ demux'.eStatus = demux.eStatus
      /\ demux'.bStopping = demux.bStopping /\ demux'.bCancelSeek = demux.bCancelSeek
      /\ demux'.bForceStop = demux.bForceStop
  BY DEF NotifyFirstFrameShowed, SeekWaitIsLong, Types, Demuxes
<1>2. mq'["cache"] = mq["cache"] /\ SameRequests
  <2>1. CASE NotifyFirstFrameShowed
    <3>1. /\ mq \in [Thread -> Seq(Messages)] /\ mq["demux"] # << >>
          /\ Head(mq["demux"]).id = "FIRST_FRAME"
          /\ mq' = [mq EXCEPT !["demux"] =
                IF demux.eStatus = "STARTED" /\ Tail(@) = << >>
                  THEN << Message("READ") >> ELSE Tail(@)]
      BY <2>1 DEF Types, NotifyFirstFrameShowed
    <3>2. /\ mq'["cache"] = mq["cache"]
          /\ \/ mq'["demux"] = Tail(mq["demux"])
             \/ Tail(mq["demux"]) = << >> /\ mq'["demux"] = << Message("READ") >>
      BY <3>1 DEF Thread
    <3> QED BY <3>1, <3>2, QueueTaken DEF Protocol, Requests
  <2>2. CASE SeekWaitIsLong
    BY <2>2, QueueSame DEF SeekWaitIsLong, Protocol
  <2> QED BY <2>1, <2>2
<1>3. ComponentRests
  BY <1>1, <1>2 DEF ComponentRests
<1>4. SameTurn
  BY <1>1, <1>2 DEF SameTurn, SameRequests
<1>5. SameFront
  BY DEF SameFront, xplayerVars
<1> QED BY <1>3, <1>4, <1>5, SameParser, SameProtocol

\* The callbacks of a thread that reads.
LEMMA CallbackKeeps ==
    ASSUME Types, Parser, Protocol, NotifyEos \/ PauseOrResume
    PROVE  Parser' /\ Protocol'
<1>1. /\ Proceed("demux", << >>) /\ ~ Idle("demux")
      /\ Head(todo["demux"]).op \in {"EOS", "PAUSE_PLAYER", "RESUME_PLAYER"}
      /\ UNCHANGED << mq, demux, cache, reply, ctx >>
  BY DEF NotifyEos, PauseOrResume, At
<1>2. /\ todo'["xplayer"] = todo["xplayer"] /\ todo'["cache"] = todo["cache"]
      /\ todo'["demux"] = Tail(todo["demux"])
      /\ Ops(todo["demux"]) = {Head(todo["demux"]).op} \union Ops(todo'["demux"])
      /\ \A op \in Closes \union Prepares :
                op \in Ops(todo'["demux"]) <=> op \in Ops(todo["demux"])
  BY <1>1, DemuxDone DEF Closes, Prepares
<1>3. demux.pParser
  BY <1>1, <1>2 DEF Parser, ClosedOps
<1>4. GoesOn({})
  BY <1>1, <1>2 DEF GoesOn, Idle
<1>5. Parser'
  BY <1>1, <1>3, <1>4, GoesOnParser DEF Closes, Prepares
<1>6. SameTurn
  BY <1>1, <1>2, QueueSame DEF Protocol, SameTurn, SameRequests
<1>7. CASE ctx.mStatus = "STARTED"
  <2>1. ctx'.mStatus = ctx.mStatus /\ ctx.mStatus \notin Stopped \union {"PREPARING"}
    BY <1>1, <1>7 DEF Stopped
  <2> QED BY <1>3, <1>5, <1>6, <2>1, PlayerChanges
<1>8. CASE ctx.mStatus # "STARTED"
  <2>1. player'.eStatus = player.eStatus
    BY <1>8 DEF NotifyEos, PauseOrResume, Types, Players
  <2>2. SameFront
    BY <1>1, <2>1 DEF SameFront
  <2> QED BY <1>5, <1>6, <2>2, SameProtocol
<1> QED BY <1>7, <1>8

\* What the end of a seek changes.
LEMMA FinishState ==
    ASSUME Types, NEW t \in Thread, NotifySeekFinish(t)
    PROVE  /\ demux'.pParser = demux.pParser
           /\ demux'.bStopping = demux.bStopping /\ demux'.bCancelSeek = demux.bCancelSeek
           /\ demux'.bForceStop = demux.bForceStop
           /\ ctx'.mStatus = ctx.mStatus
           /\ \/ SameFront
              \/ ctx.mStatus = "STARTED" /\ Head(todo[t]).result = "ok"
           /\ demux'.eStatus = demux.eStatus \/ Head(todo[t]).result = "ok"
<1>1. /\ demux'.pParser = demux.pParser
      /\ demux'.bStopping = demux.bStopping /\ demux'.bCancelSeek = demux.bCancelSeek
      /\ demux'.bForceStop = demux.bForceStop
      /\ demux'.eStatus = demux.eStatus \/ Head(todo[t]).result = "ok"
  BY DEF NotifySeekFinish, Types, Demuxes
<1>2. ctx'.mStatus = ctx.mStatus
  BY DEF NotifySeekFinish, Types, Contexts
<1>3. \/ player'.eStatus = player.eStatus
      \/ ctx.mStatus = "STARTED" /\ Head(todo[t]).result = "ok"
  BY DEF NotifySeekFinish, PlayerStart, PlayerReset, Types, Players
<1> QED BY <1>1, <1>2, <1>3 DEF SameFront

LEMMA SeekFinishKeeps ==
    ASSUME Types, Parser, Protocol, NotifySeekFinish("demux")
    PROVE  Parser' /\ Protocol'
<1>1. /\ Proceed("demux", << >>) /\ ~ Idle("demux")
      /\ Head(todo["demux"]).op = "SEEK_FINISH"
      /\ UNCHANGED << mq, cache, reply >>
  BY DEF NotifySeekFinish, At
<1>2. /\ todo'["xplayer"] = todo["xplayer"] /\ todo'["cache"] = todo["cache"]
      /\ todo'["demux"] = Tail(todo["demux"])
      /\ Ops(todo["demux"]) = {Head(todo["demux"]).op} \union Ops(todo'["demux"])
      /\ FinishOk(todo'["demux"]) => FinishOk(todo["demux"])
      /\ \A op \in Closes \union Prepares :
                op \in Ops(todo'["demux"]) <=> op \in Ops(todo["demux"])
      /\ ~ PreparesNow /\ ~ PreparesNow' /\ (Closing' <=> Closing)
  BY <1>1, DemuxDone DEF Closes, Prepares
<1>3. Head(todo["demux"]).result = "ok" => demux.pParser
  <2>1. todo["demux"] \in Seq(Steps) /\ todo["demux"] # << >>
    BY <1>1, ListTypes DEF Idle, Thread
  <2>2. Head(todo["demux"]).result = "ok" => FinishOk(todo["demux"])
    BY <1>1, <2>1, FirstStep
  <2> QED BY <2>2 DEF Parser
<1>4. /\ demux'.pParser = demux.pParser
      /\ demux'.bStopping = demux.bStopping /\ demux'.bCancelSeek = demux.bCancelSeek
      /\ demux'.bForceStop = demux.bForceStop
      /\ ctx'.mStatus = ctx.mStatus
      /\ \/ SameFront
         \/ ctx.mStatus = "STARTED" /\ Head(todo["demux"]).result = "ok"
      /\ demux'.eStatus = demux.eStatus \/ Head(todo["demux"]).result = "ok"
  BY FinishState DEF Thread
<1>5. SameTurn
  BY <1>1, <1>2, <1>4, QueueSame DEF Protocol, SameTurn, SameRequests
<1>6. Protocol'
  BY <1>3, <1>4, <1>5, SameProtocol, PlayerChanges DEF Stopped
<1>7. CASE demux.pParser
  <2>1. GoesOn({})
    BY <1>1, <1>2, <1>4 DEF GoesOn, Idle
  <2> QED BY <1>1, <1>6, <1>7, <2>1, GoesOnParser DEF Closes, Prepares
<1>8. CASE ~ demux.pParser
  <2>1. ~ Closing /\ "join" \notin Ops(todo["demux"])
    BY <1>1, CloseForms DEF Closes
  <2>2. Parser'
    BY <1>1, <1>2, <1>3, <1>4, <1>8, <2>1 DEF Parser
  <2> QED BY <1>6, <2>2
<1> QED BY <1>7, <1>8

-----------------------------------------------------------------------------
(* The cache thread.                                                       *)

CacheSteps ==
    \/ CacheStart \/ CachePause \/ CacheSeek \/ CacheSeekOk \/ CacheSeekFails
    \/ CacheSeekDone \/ CacheSeekFailed \/ CacheRead \/ CacheReadOk \/ CacheReadFails

\* Neither the thread nor its queue is empty.
LEMMA CacheWorks ==
    ASSUME CacheSteps
    PROVE  \/ todo["cache"] = << >> /\ mq["cache"] # << >>
           \/ todo["cache"] # << >>
  BY DEF CacheSteps, CacheStart, CachePause, CacheSeek, CacheSeekOk, CacheSeekFails,
     CacheSeekDone, CacheSeekFailed, CacheRead, CacheReadOk, CacheReadFails, Take, At, Idle

\* It takes a message, which no quit is, or posts one to itself.
LEMMA CacheQueues ==
    ASSUME Types, CacheSteps
    PROVE  /\ mq' \in [Thread -> Seq(Messages)]
           /\ mq'["demux"] = mq["demux"] /\ mq'["xplayer"] = mq["xplayer"]
           /\ \/ mq'["cache"] = mq["cache"]
              \/ mq["cache"] # << >> /\ mq'["cache"] = Tail(mq["cache"])
              \/ mq'["cache"] = << Message("READ") >>
<1>1. mq \in [Thread -> Seq(Messages)]
  BY DEF Types
<1>2. CASE UNCHANGED mq
  BY <1>1, <1>2
<1>3. CASE mq["cache"] # << >> /\ mq' = [mq EXCEPT !["cache"] = Tail(@)]
  BY <1>1, <1>3, Taken DEF Thread
<1>4. CASE PostReadMessage("cache", TRUE)
  BY <1>4, ReadPosted DEF Thread
<1>5. ASSUME NEW when, mq["cache"] # << >>,
             mq' = [mq EXCEPT !["cache"] = IF when THEN << Message("READ") >> ELSE Tail(@)]
      PROVE  /\ mq' \in [Thread -> Seq(Messages)]
             /\ mq'["demux"] = mq["demux"] /\ mq'["xplayer"] = mq["xplayer"]
             /\ \/ mq'["cache"] = mq["cache"]
                \/ mq["cache"] # << >> /\ mq'["cache"] = Tail(mq["cache"])
                \/ mq'["cache"] = << Message("READ") >>
  <2> DEFINE q == << Message("READ") >>
  <2>1. q \in Seq(Messages)
    BY DEF Message, Messages, MessageIds, Times
  <2>2. CASE when
    <3>1. mq' = [mq EXCEPT !["cache"] = q]
      BY <1>5, <2>2
    <3> HIDE DEF q
    <3>2. /\ mq' \in [Thread -> Seq(Messages)] /\ mq'["cache"] = q
          /\ mq'["demux"] = mq["demux"] /\ mq'["xplayer"] = mq["xplayer"]
      BY <1>1, <2>1, <3>1 DEF Thread
    <3> QED BY <3>2 DEF q
  <2>3. CASE ~ when
    BY <1>3, <1>5, <2>3
  <2> QED BY <2>2, <2>3
<1>6. CASE CacheStart
  <2>1. /\ mq["cache"] # << >>
        /\ mq' = [mq EXCEPT !["cache"] =
                    IF Tail(mq["cache"]) = << >> THEN << Message("READ") >> ELSE Tail(@)]
    BY <1>1, <1>6 DEF CacheStart, Thread
  <2> QED BY <1>5, <2>1
<1>7. CASE CacheRead
  <2>1. /\ mq["cache"] # << >>
        /\ mq' = [mq EXCEPT !["cache"] =
                    IF cache.started /\ Len(cache.frames) = CacheSize /\ Tail(mq["cache"]) = << >>
                      THEN << Message("READ") >> ELSE Tail(@)]
    BY <1>1, <1>7 DEF CacheRead, Thread
  <2> QED BY <1>5, <2>1
<1>8. CASE CachePause \/ CacheSeek
  BY <1>3, <1>8 DEF CachePause, CacheSeek, Take
<1>9. CASE CacheSeekDone \/ CacheReadOk
  BY <1>4, <1>9 DEF CacheSeekDone, CacheReadOk
<1>10. CASE CacheSeekOk \/ CacheSeekFails \/ CacheSeekFailed \/ CacheReadFails
  BY <1>2, <1>10 DEF CacheSeekOk, CacheSeekFails, CacheSeekFailed, CacheReadFails
<1> QED BY <1>6, <1>7, <1>8, <1>9, <1>10 DEF CacheSteps

LEMMA CacheState ==
    ASSUME Types, CacheSteps
    PROVE  /\ SameState
           /\ todo'["demux"] = todo["demux"] /\ todo'["xplayer"] = todo["xplayer"]
<1>1. todo \in [Thread -> Seq(Steps)] /\ cache \in Caches /\ demux \in Demuxes
  BY DEF Types
<1>2. CASE CacheStart \/ CachePause
  BY <1>1, <1>2 DEF CacheStart, CachePause, SameState, Caches
<1>3. CASE CacheSeek \/ CacheRead
  BY <1>1, <1>3 DEF CacheSeek, CacheRead, Does, SameState, ClrForceStop, Demuxes, Thread
<1>4. CASE CacheSeekOk \/ CacheSeekFails \/ CacheReadFails
  BY <1>1, <1>4 DEF CacheSeekOk, CacheSeekFails, CacheReadFails, SeekFails, Proceed,
     SameState, Demuxes, Thread
<1>5. CASE CacheSeekDone \/ CacheSeekFailed \/ CacheReadOk
  BY <1>1, <1>5 DEF CacheSeekDone, CacheSeekFailed, CacheReadOk, Proceed,
     SameState, Demuxes, Caches, Thread
<1> QED BY <1>2, <1>3, <1>4, <1>5 DEF CacheSteps

\* The queue of the cache thread with a message less, or with a READ.
LEMMA QuitLast ==
    ASSUME Types, Parser,
           \/ mq'["cache"] = mq["cache"]
           \/ mq["cache"] # << >> /\ mq'["cache"] = Tail(mq["cache"])
           \/ mq'["cache"] = << Message("READ") >>
    PROVE  \A i \in 1 .. Len(mq'["cache"]) :
              mq'["cache"][i].id = "QUIT" =>
                 i = Len(mq'["cache"]) /\ "join" \in Ops(todo["demux"])
<1> DEFINE q == mq["cache"]
<1>1. q \in Seq(Messages)
  BY ListTypes DEF Thread
<1>2. \A i \in 1 .. Len(q) : q[i].id = "QUIT" => i = Len(q) /\ "join" \in Ops(todo["demux"])
  BY DEF Parser
<1> HIDE DEF q
<1>3. CASE mq'["cache"] = q
  BY <1>2, <1>3
<1>4. CASE q # << >> /\ mq'["cache"] = Tail(q)
  <2>1. /\ Len(q) \in Nat \ {0} /\ Len(Tail(q)) = Len(q) - 1
        /\ \A i \in 1 .. Len(q) - 1 : Tail(q)[i] = q[i + 1]
    BY <1>1, <1>4
  <2>2. ASSUME NEW i \in 1 .. Len(Tail(q)), Tail(q)[i].id = "QUIT"
        PROVE  i = Len(Tail(q)) /\ "join" \in Ops(todo["demux"])
    <3>1. i \in Nat /\ i + 1 \in 1 .. Len(q) /\ q[i + 1].id = "QUIT"
      BY <2>1, <2>2
    <3>2. i + 1 = Len(q)
      BY <1>2, <3>1
    <3>3. "join" \in Ops(todo["demux"])
      BY <1>2, <3>1
    <3>4. i = Len(q) - 1
      BY <3>1, <3>2
    <3> QED BY <2>1, <3>3, <3>4
  <2> QED BY <1>4, <2>2
<1>5. CASE mq'["cache"] = << Message("READ") >>
  BY <1>5 DEF Message
<1> QED BY <1>3, <1>4, <1>5 DEF q

\* A cache thread that takes steps is alive and so the parser is open.
LEMMA CacheParser ==
    ASSUME Types, Parser, cache.alive, cache'.alive, demux.pParser, demux'.pParser,
           todo'["demux"] = todo["demux"],
           \/ mq'["cache"] = mq["cache"]
           \/ mq["cache"] # << >> /\ mq'["cache"] = Tail(mq["cache"])
           \/ mq'["cache"] = << Message("READ") >>
    PROVE  Parser'
<1>1. \A i \in 1 .. Len(mq'["cache"]) :
              mq'["cache"][i].id = "QUIT" =>
                 i = Len(mq'["cache"]) /\ "join" \in Ops(todo'["demux"])
  BY QuitLast
<1>2. (Closing' <=> Closing) /\ (PreparesNow' <=> PreparesNow)
  BY DEF Closing, PreparesNow
<1>3. CloseSteps => CloseSteps'
  BY DEF CloseSteps
<1> QED BY <1>1, <1>2, <1>3 DEF Parser

LEMMA CacheKeeps ==
    ASSUME Types, Parser, Protocol, CacheSteps, UNCHANGED xplayerVars
    PROVE  Parser' /\ Protocol'
<1>1. /\ mq'["demux"] = mq["demux"]
      /\ \/ mq'["cache"] = mq["cache"]
         \/ mq["cache"] # << >> /\ mq'["cache"] = Tail(mq["cache"])
         \/ mq'["cache"] = << Message("READ") >>
  BY CacheQueues
<1>2. SameState /\ todo'["demux"] = todo["demux"] /\ todo'["xplayer"] = todo["xplayer"]
  BY CacheState
<1>3. cache.alive /\ demux.pParser
  BY CacheWorks DEF Parser
<1>4. Parser'
  BY <1>1, <1>2, <1>3, CacheParser DEF SameState
<1>5. SameTurn
  BY <1>1, <1>2, QueueSame DEF Protocol, SameTurn, SameRequests, SameState
<1>6. SameFront
  BY DEF SameFront, xplayerVars
<1> QED BY <1>4, <1>5, <1>6, SameProtocol

LEMMA CacheFinishKeeps ==
    ASSUME Types, Parser, Protocol, NotifySeekFinish("cache")
    PROVE  Parser' /\ Protocol'
<1>1. /\ Proceed("cache", << >>) /\ todo["cache"] # << >>
      /\ UNCHANGED << mq, cache, reply >>
  BY DEF NotifySeekFinish, At, Idle
<1>2. todo'["demux"] = todo["demux"] /\ todo'["xplayer"] = todo["xplayer"]
  BY <1>1 DEF Types, Proceed, Thread
<1>3. cache.alive /\ demux.pParser
  BY <1>1 DEF Parser
<1>4. /\ demux'.pParser = demux.pParser
      /\ demux'.bStopping = demux.bStopping /\ demux'.bCancelSeek = demux.bCancelSeek
      /\ demux'.bForceStop = demux.bForceStop
      /\ ctx'.mStatus = ctx.mStatus
      /\ \/ SameFront
         \/ ctx.mStatus = "STARTED" /\ Head(todo["cache"]).result = "ok"
  BY FinishState DEF Thread
<1>5. SameTurn
  BY <1>1, <1>2, <1>4, QueueSame DEF Protocol, SameTurn, SameRequests
<1>6. Protocol'
  BY <1>3, <1>4, <1>5, SameProtocol, PlayerChanges DEF Stopped
<1>7. Parser'
  BY <1>1, <1>2, <1>3, <1>4, CacheParser
<1> QED BY <1>6, <1>7

\* The cache thread ends while the demux thread waits for that.
LEMMA CacheQuitKeeps ==
    ASSUME Types, Parser, Protocol, CacheQuit, UNCHANGED xplayerVars
    PROVE  Parser' /\ Protocol'
<1>1. /\ todo["cache"] = << >> /\ mq["cache"] # << >> /\ Head(mq["cache"]).id = "QUIT"
      /\ mq' = [mq EXCEPT !["cache"] = Tail(@)]
      /\ todo' = todo /\ demux' = demux /\ reply' = reply
  BY DEF CacheQuit, Take, Idle
<1>2. ~ cache'.alive
  BY DEF CacheQuit, Types, Caches
<1>3. mq["cache"] \in Seq(Messages) /\ mq'["demux"] = mq["demux"] /\ mq'["cache"] = Tail(mq["cache"])
  BY <1>1 DEF Types, Thread
<1>4. mq["cache"][1].id = "QUIT" /\ 1 \in 1 .. Len(mq["cache"])
  BY <1>1, <1>3
<1>5. Len(mq["cache"]) = 1 /\ "join" \in Ops(todo["demux"])
  BY <1>4 DEF Parser
<1>6. mq'["cache"] = << >>
  <2> DEFINE q == mq["cache"]
  <2>1. q \in Seq(Messages) /\ Len(q) = 1 /\ q # << >>
    BY <1>1, <1>3, <1>5
  <2> HIDE DEF q
  <2>2. Tail(q) \in Seq(Messages) /\ Len(Tail(q)) = 0
    BY <2>1
  <2> QED BY <1>3, <2>2, NoElement DEF q
<1>7. cache.alive /\ demux.pParser
  BY <1>1 DEF Parser
<1>8. PICK x \in Closes :
         \/ todo["demux"] = << Step("awaitCache"), Step("join"), Step(x) >>
         \/ todo["demux"] = << Step("join"), Step(x) >>
  BY <1>5, <1>7 DEF Parser, CloseSteps
<1>9. "seekCache" \notin Ops(todo["demux"]) /\ "startCache" \notin Ops(todo["demux"])
  BY <1>8 DEF Closes, Ops, Elements, Step
<1>10. CloseSteps'
  BY <1>1, <1>8 DEF CloseSteps
<1>11. ~ PreparesNow'
  <2>1. ~ PreparesNow
    BY <1>8 DEF Parser
  <2> QED BY <1>1, <2>1 DEF PreparesNow
<1>12. Parser'
  BY <1>1, <1>2, <1>6, <1>7, <1>9, <1>10, <1>11 DEF Parser
<1>13. SameTurn
  BY <1>1, <1>3, QueueSame DEF Protocol, SameTurn, SameRequests
<1>14. SameFront
  BY DEF SameFront, xplayerVars
<1> QED BY <1>12, <1>13, <1>14, SameProtocol

-----------------------------------------------------------------------------
(* The demux thread answers a request.                                     *)

\* The request that is taken was the only one, and nothing was prepared.
LEMMA RequestTaken ==
    ASSUME Types, Turns, Flags, Preparation, Idle("demux"), mq["demux"] # << >>,
           Head(mq["demux"]).id \in Requests,
           \/ mq'["demux"] = Tail(mq["demux"])
           \/ Tail(mq["demux"]) = << >> /\ mq'["demux"] = << Message("READ") >>
    PROVE  /\ Ids(mq["demux"]) \subseteq {Head(mq["demux"]).id, "FIRST_FRAME"}
           /\ Head(mq["demux"]).id \in Ids(mq["demux"])
           /\ Ids(mq'["demux"]) \subseteq {"FIRST_FRAME", "READ"}
           /\ QueueOrder(mq'["demux"])
           /\ Ops(todo["demux"]) = {}
           /\ ~ Closing /\ ~ Preparing
           /\ Waiting /\ reply = "none"
<1> DEFINE q == mq["demux"]
<1>1. q \in Seq(Messages) /\ q # << >> /\ QueueOrder(q) /\ Head(q).id \in Requests
  BY ListTypes DEF Thread, Turns
<1> HIDE DEF q
<1>2. /\ QueueOrder(Tail(q)) /\ Ids(q) = {Head(q).id} \union Ids(Tail(q))
      /\ \A id \in Ids(Tail(q)) : id = "FIRST_FRAME"
  BY <1>1, TakenInOrder, FirstMessage
<1>4. Ids(mq'["demux"]) \subseteq {"FIRST_FRAME", "READ"} /\ QueueOrder(mq'["demux"])
  <2>1. CASE mq'["demux"] = Tail(q)
    BY <1>2, <2>1
  <2>2. CASE mq'["demux"] = << Message("READ") >>
    BY <2>2 DEF QueueOrder, Ids, Elements, Message, Requests
  <2> QED BY <2>1, <2>2 DEF q
<1>5. Ops(todo["demux"]) = {}
  BY FewOps DEF Idle
<1>6. ~ Closing /\ ~ PreparesNow
  BY <1>5 DEF Closing, PreparesNow
<1>7. "PREPARE" \notin Ids(q)
  BY <1>1, <1>2 DEF Requests
<1>8. Head(q).id \in Ids(q)
  BY <1>2
<1>9. Asked(Requests)
  BY <1>1, <1>8 DEF Asked, q
<1> QED BY <1>2, <1>4, <1>5, <1>6, <1>7, <1>8, <1>9 DEF q, Preparing, Turns

Answers ==
    /\ Idle("demux") /\ mq["demux"] # << >>
    /\ Head(mq["demux"]).id \in Requests \ Closes
    /\ \/ mq'["demux"] = Tail(mq["demux"])
       \/ Tail(mq["demux"]) = << >> /\ mq'["demux"] = << Message("READ") >>
    /\ mq'["cache"] = mq["cache"] /\ todo' = todo /\ cache' = cache
    /\ demux'.pParser = demux.pParser
    /\ demux'.bStopping = demux.bStopping
    /\ demux'.bCancelSeek = (demux.bCancelSeek /\ Head(mq["demux"]).id # "CANCEL_SEEK")
    /\ \/ demux'.eStatus = demux.eStatus
       \/ demux'.eStatus \notin {"PREPARED", "STARTED", "COMPLETE"}
       \/ demux.eStatus \in {"PREPARED", "STARTED"}

LEMMA AnswersState ==
    ASSUME Types, SetSource \/ CancelPrepare \/ Start \/ CancelSeek
    PROVE  Answers
<1>1. mq \in [Thread -> Seq(Messages)] /\ demux \in Demuxes
  BY DEF Types
<1>2. CASE SetSource
  BY <1>1, <1>2 DEF SetSource, Take, Answers, Requests, Closes, Thread, Demuxes
<1>3. CASE CancelPrepare
  BY <1>1, <1>3 DEF CancelPrepare, Take, Answers, Requests, Closes, Thread, Demuxes
<1>4. CASE Start
  <2>1. /\ demux'.pParser = demux.pParser
        /\ demux'.bStopping = demux.bStopping
        /\ demux'.bCancelSeek = demux.bCancelSeek
        /\ \/ demux'.eStatus = demux.eStatus
           \/ demux.eStatus \in {"PREPARED", "STARTED"}
    BY <1>1, <1>4 DEF Start, Demuxes
  <2>2. /\ mq'["cache"] = mq["cache"]
        /\ \/ mq'["demux"] = Tail(mq["demux"])
           \/ Tail(mq["demux"]) = << >> /\ mq'["demux"] = << Message("READ") >>
    BY <1>1, <1>4 DEF Start, Thread
  <2>3. demux.bCancelSeek \in BOOLEAN
    BY <1>1 DEF Demuxes
  <2> QED BY <1>4, <2>1, <2>2, <2>3 DEF Start, Answers, Requests, Closes
<1>5. CASE CancelSeek
  BY <1>1, <1>5 DEF CancelSeek, Take, Answers, Requests, Closes, Thread, Demuxes
<1> QED BY <1>2, <1>3, <1>4, <1>5

LEMMA AnswersKeep ==
    ASSUME Types, Parser, Protocol, SetSource \/ CancelPrepare \/ Start \/ CancelSeek,
           UNCHANGED xplayerVars
    PROVE  Parser' /\ Protocol'
<1>1. Answers
  BY AnswersState
<1> DEFINE id == Head(mq["demux"]).id
<1>2. /\ Ids(mq["demux"]) \subseteq {id, "FIRST_FRAME"} /\ id \in Ids(mq["demux"])
      /\ Ids(mq'["demux"]) \subseteq {"FIRST_FRAME", "READ"}
      /\ QueueOrder(mq'["demux"])
      /\ Ops(todo["demux"]) = {}
      /\ ~ Closing /\ ~ Preparing
      /\ Waiting /\ reply = "none"
  BY <1>1, RequestTaken DEF Answers, Protocol
<1>3. id \in Requests \ Closes
  BY <1>1 DEF Answers
<1> HIDE DEF id
<1>4. ~ Asked(Closes) /\ (Asked({"CANCEL_SEEK"}) => id = "CANCEL_SEEK")
  BY <1>2, <1>3 DEF Asked, Closes, Requests
<1>5. ~ demux'.bStopping /\ ~ demux'.bCancelSeek
  BY <1>1, <1>2, <1>4 DEF Protocol, Flags, Answers, id
<1>6. /\ \A ids \in SUBSET Requests : ~ Asked(ids)'
      /\ ~ Closing' /\ ~ PreparesNow' /\ ~ Preparing' /\ Waiting'
  BY <1>1, <1>2 DEF Answers, Asked, Requests, Closing, PreparesNow, Preparing, Waiting
<1>7. /\ Requests \in SUBSET Requests /\ Closes \in SUBSET Requests
      /\ {"CANCEL_SEEK"} \in SUBSET Requests
  BY DEF Requests, Closes
<1>8. Turns'
  BY <1>2, <1>6, <1>7 DEF Turns
<1>9. Flags'
  BY <1>5 DEF Flags
<1>10. Preparation'
  <2>1. "PREPARE" \notin Ids(mq'["demux"]) /\ "prepare" \notin Ops(todo'["demux"])
    BY <1>2, <1>6 DEF Preparing, PreparesNow, Prepares
  <2> QED BY <1>6, <2>1 DEF Preparation
<1>11. Commanding'
  <2>1. Shut => Shut'
    BY <1>1, <1>6 DEF Shut, Answers
  <2>2. todo' = todo /\ ctx' = ctx /\ player' = player
    BY <1>1 DEF Answers, xplayerVars
  <2> QED BY <1>2, <1>4, <2>1, <2>2 DEF Protocol, Commanding
<1>12. Parser'
  <2>1. CASE demux.eStatus \notin {"PREPARED", "STARTED"}
    <3>1. ComponentRests
      BY <1>1, <2>1 DEF Answers, ComponentRests
    <3> QED BY <3>1, SameParser
  <2>2. CASE demux.eStatus \in {"PREPARED", "STARTED"}
    <3>1. demux.pParser /\ demux'.pParser
      BY <1>1, <2>2 DEF Parser, Answers
    <3>2. todo' = todo /\ cache' = cache /\ mq'["cache"] = mq["cache"]
      BY <1>1 DEF Answers
    <3> QED BY <3>1, <3>2 DEF Parser, Closing, PreparesNow, CloseSteps
  <2> QED BY <2>1, <2>2
<1> QED BY <1>8, <1>9, <1>10, <1>11, <1>12 DEF Protocol

-----------------------------------------------------------------------------
(* The demux thread closes the parser.                                     *)

LEMMA CloseKeeps ==
    ASSUME Types, Parser, Protocol, NEW x \in Closes, Close(x), UNCHANGED xplayerVars
    PROVE  Parser' /\ Protocol'
<1>1. /\ Idle("demux") /\ mq["demux"] # << >> /\ Head(mq["demux"]).id = x
      /\ mq \in [Thread -> Seq(Messages)] /\ QuitCache
      /\ demux' = demux /\ cache' = cache /\ reply' = reply
      /\ ctx' = ctx /\ player' = player
  BY DEF Close, Types, xplayerVars
<1>2. /\ mq'["demux"] = Tail(mq["demux"])
      /\ \/ cache.alive /\ mq'["cache"] = Append(mq["cache"], Message("QUIT"))
         \/ ~ cache.alive /\ mq'["cache"] = mq["cache"]
  BY <1>1 DEF QuitCache, Thread
<1>3. x \in Requests
  BY DEF Closes, Requests
<1>4. /\ Ids(mq["demux"]) \subseteq {x, "FIRST_FRAME"} /\ x \in Ids(mq["demux"])
      /\ Ids(mq'["demux"]) \subseteq {"FIRST_FRAME", "READ"}
      /\ QueueOrder(mq'["demux"])
      /\ Ops(todo["demux"]) = {}
      /\ ~ Closing /\ ~ Preparing
      /\ Waiting /\ reply = "none"
  BY <1>1, <1>2, <1>3, RequestTaken DEF Protocol
<1>5. PICK steps \in Seq(Steps) :
         /\ Does("demux", steps) /\ x \in Ops(steps)
         /\ \A op \in Ops(steps) : op \in {x, "awaitCache", "join"}
         /\ "join" \in Ops(steps) <=> cache.alive
         /\ IF cache.alive THEN steps = << Step("awaitCache"), Step("join"), Step(x) >>
                           ELSE steps = << Step(x) >>
  <2> DEFINE a == Step("awaitCache")
             b == Step("join")
             c == Step(x)
  <2>1. a \in Steps /\ b \in Steps /\ c \in Steps
    BY PlainSteps DEF PlainOps, Closes
  <2>2. a.op = "awaitCache" /\ b.op = "join" /\ c.op = x /\ x # "join"
    BY DEF Step, Closes
  <2>3. /\ cache.alive => Does("demux", << a, b >> \o << c >>)
        /\ ~ cache.alive => Does("demux", << >> \o << c >>)
    BY DEF Close, Only
  <2> HIDE DEF a, b, c
  <2>4. << a, b >> \o << c >> = << a, b, c >> /\ << >> \o << c >> = << c >>
    BY <2>1, ShortLists
  <2>9. \A d \in Steps : \A e \in Steps : \A f \in Steps :
           << d, e, f >> \in Seq(Steps) /\ Ops(<< d, e, f >>) = {d.op, e.op, f.op}
    BY FewOps, Zenon
  <2>5. << a, b, c >> \in Seq(Steps) /\ Ops(<< a, b, c >>) = {a.op, b.op, c.op}
    BY <2>1, <2>9
  <2>6. << c >> \in Seq(Steps) /\ Ops(<< c >>) = {c.op}
    BY <2>1, FewOps, Zenon
  <2>7. CASE cache.alive
    BY <2>2, <2>3, <2>4, <2>5, <2>7 DEF a, b, c
  <2>8. CASE ~ cache.alive
    BY <2>2, <2>3, <2>4, <2>6, <2>8 DEF c
  <2> QED BY <2>7, <2>8
<1>6. /\ todo'["demux"] = steps
      /\ todo'["xplayer"] = todo["xplayer"] /\ todo'["cache"] = todo["cache"]
  BY <1>5, Begun DEF Thread
<1>7. /\ \A ids \in SUBSET Requests : ~ Asked(ids)'
      /\ Closing' /\ ~ PreparesNow' /\ ~ Preparing' /\ Waiting'
  BY <1>4, <1>5, <1>6 DEF Asked, Requests, Closing, Closes, PreparesNow, Prepares,
     Preparing, Waiting
<1>8. ~ Asked({"CANCEL_SEEK"})
  BY <1>4 DEF Asked, Closes
<1>9. /\ Requests \in SUBSET Requests /\ Closes \in SUBSET Requests
      /\ {"CANCEL_SEEK"} \in SUBSET Requests
  BY DEF Requests, Closes
<1>10. Turns'
  BY <1>1, <1>4, <1>7, <1>9 DEF Turns
<1>11. Flags'
  BY <1>1, <1>7, <1>8 DEF Protocol, Flags
<1>12. Preparation'
  <2>1. "PREPARE" \notin Ids(mq'["demux"]) /\ "prepare" \notin Ops(todo'["demux"])
    BY <1>7 DEF Preparing, PreparesNow, Prepares
  <2> QED BY <1>7, <2>1 DEF Preparation
<1>13. Commanding'
  <2>1. Shut => Shut'
    BY <1>1, <1>7 DEF Shut
  <2> QED BY <1>1, <1>6, <1>7, <2>1 DEF Protocol, Commanding
<1>14. \A i \in 1 .. Len(mq'["cache"]) :
         mq'["cache"][i].id = "QUIT" =>
            i = Len(mq'["cache"]) /\ "join" \in Ops(todo'["demux"])
  <2>1. \A i \in 1 .. Len(mq["cache"]) : mq["cache"][i].id # "QUIT"
    BY <1>4 DEF Parser
  <2>2. CASE cache.alive /\ mq'["cache"] = Append(mq["cache"], Message("QUIT"))
    <3>1. mq["cache"] \in Seq(Messages)
      BY ListTypes DEF Thread
    <3> QED BY <1>5, <1>6, <2>1, <2>2, <3>1
  <2>3. CASE ~ cache.alive /\ mq'["cache"] = mq["cache"]
    BY <2>1, <2>3
  <2> QED BY <1>2, <2>2, <2>3
<1>15. CloseSteps'
  BY <1>1, <1>5, <1>6 DEF CloseSteps
<1>16. /\ ~ cache.alive => mq'["cache"] = << >> /\ todo'["cache"] = << >>
       /\ "seekCache" \notin Ops(todo'["demux"]) /\ "startCache" \notin Ops(todo'["demux"])
  BY <1>2, <1>5, <1>6 DEF Parser, Closes
<1>17. ~ demux.pParser => Ops(todo'["demux"]) \subseteq ClosedOps /\ ~ FinishOk(todo'["demux"])
  <2>1. SUFFICES ASSUME ~ demux.pParser
                 PROVE  Ops(todo'["demux"]) \subseteq ClosedOps /\ ~ FinishOk(todo'["demux"])
    OBVIOUS
  <2>2. ~ cache.alive
    BY <2>1 DEF Parser
  <2>3. todo'["demux"] = << Step(x) >>
    BY <1>5, <1>6, <2>2
  <2>4. Elements(todo'["demux"]) = {Step(x)}
    BY <2>3 DEF Elements
  <2> QED BY <2>4 DEF Ops, FinishOk, Step, Closes, ClosedOps
<1>18. Parser'
  BY <1>1, <1>6, <1>7, <1>14, <1>15, <1>16, <1>17 DEF Parser
<1> QED BY <1>10, <1>11, <1>12, <1>13, <1>18 DEF Protocol

LEMMA ClosedKeeps ==
    ASSUME Types, Parser, Protocol, Closed, UNCHANGED xplayerVars
    PROVE  Parser' /\ Protocol'
<1>1. /\ Proceed("demux", << >>) /\ ~ Idle("demux") /\ Head(todo["demux"]).op \in Closes
      /\ mq' = mq /\ cache' = cache /\ reply = "none" /\ ctx' = ctx /\ player' = player
  BY DEF Closed, At, Closes, Reply, xplayerVars
<1>2. /\ ~ demux'.pParser /\ ~ demux'.bStopping /\ demux'.bCancelSeek = demux.bCancelSeek
      /\ demux'.eStatus \in {"STOPPED", "IDLE"}
  BY DEF Closed, Types, Demuxes
<1>3. Closing
  <2>1. todo["demux"] \in Seq(Steps) /\ todo["demux"] # << >>
    BY <1>1, ListTypes DEF Thread, Idle
  <2>2. Head(todo["demux"]).op \in Ops(todo["demux"])
    BY <2>1, FirstStep
  <2> QED BY <1>1, <2>2 DEF Closing
<1>4. PICK x \in Closes : todo["demux"] = << Step(x) >> /\ ~ cache.alive
  <2>1. CloseSteps
    BY <1>3 DEF Parser
  <2>2. Head(todo["demux"]).op \notin {"awaitCache", "join"}
    BY <1>1 DEF Closes
  <2> QED BY <2>1, <2>2 DEF CloseSteps, Step
<1>5. /\ todo'["demux"] = << >>
      /\ todo'["xplayer"] = todo["xplayer"] /\ todo'["cache"] = todo["cache"]
  BY <1>1, <1>4 DEF Types, Proceed, Thread
<1>6. Ops(todo'["demux"]) = {} /\ ~ FinishOk(todo'["demux"])
  BY <1>5 DEF Ops, FinishOk, Elements
<1>7. ~ Asked(Requests) /\ ~ Preparing /\ Waiting
  BY <1>3 DEF Protocol, Turns, Preparation
<1>8. ~ Asked({"CANCEL_SEEK"}) /\ ~ Asked(Closes)
  BY <1>7 DEF Asked, Requests, Closes
<1>9. /\ ~ Asked(Requests)' /\ ~ Asked({"CANCEL_SEEK"})' /\ ~ Closing' /\ ~ PreparesNow'
      /\ ~ Preparing' /\ Waiting' /\ Shut'
  BY <1>1, <1>2, <1>5, <1>6, <1>7, <1>8 DEF Asked, Closing, PreparesNow, Preparing, Waiting, Shut
<1>10. Turns'
  BY <1>1, <1>9 DEF Protocol, Turns
<1>11. Flags'
  BY <1>2, <1>8 DEF Protocol, Flags
<1>12. Preparation'
  BY <1>1, <1>2, <1>6, <1>9 DEF Protocol, Preparation, Preparing
<1>13. Commanding'
  BY <1>1, <1>5, <1>9 DEF Protocol, Commanding
<1>14. Parser'
  BY <1>1, <1>2, <1>4, <1>5, <1>6, <1>9 DEF Parser
<1> QED BY <1>10, <1>11, <1>12, <1>13, <1>14 DEF Protocol

-----------------------------------------------------------------------------
(* The demux thread prepares the parser.                                   *)

LEMMA PrepareKeeps ==
    ASSUME Types, Parser, Protocol, Prepare, UNCHANGED xplayerVars
    PROVE  Parser' /\ Protocol'
<1> DEFINE q == mq["demux"]
<1>1. /\ todo["demux"] = << >> /\ q # << >> /\ Head(q).id = "PREPARE"
      /\ mq \in [Thread -> Seq(Messages)] /\ q \in Seq(Messages)
      /\ mq' = [mq EXCEPT !["demux"] = Tail(@)] /\ Does("demux", << Step("prepare") >>)
      /\ cache' = cache /\ reply' = reply /\ ctx' = ctx /\ player' = player
  BY ListTypes DEF Prepare, Take, Idle, Types, Thread, xplayerVars
<1>2. mq'["demux"] = Tail(q) /\ mq'["cache"] = mq["cache"]
  BY <1>1 DEF Thread
<1>3. /\ QueueOrder(Tail(q)) /\ Ids(q) = {"PREPARE"} \union Ids(Tail(q))
      /\ "PREPARE" \notin Ids(Tail(q))
  <2>1. QueueOrder(q)
    BY DEF Protocol, Turns
  <2> HIDE DEF q
  <2> QED BY <1>1, <2>1, TakenInOrder, FirstMessage
<1>4. Step("prepare") \in Steps /\ Step("prepare").op = "prepare"
  BY PlainSteps DEF Step, PlainOps
<1>5. << Step("prepare") >> \in Seq(Steps) /\ Ops(<< Step("prepare") >>) = {"prepare"}
  <2> DEFINE a == Step("prepare")
  <2> HIDE DEF a
  <2>1. a \in Steps /\ a.op = "prepare"
    BY <1>4 DEF a
  <2>2. << a >> \in Seq(Steps) /\ Ops(<< a >>) = {a.op}
    BY <2>1, FewOps, Zenon
  <2> QED BY <2>1, <2>2 DEF a
<1>6. /\ todo'["demux"] = << Step("prepare") >> /\ Ops(todo'["demux"]) = {"prepare"}
      /\ todo'["xplayer"] = todo["xplayer"] /\ todo'["cache"] = todo["cache"]
  BY <1>1, <1>5, Begun DEF Thread
<1>7. /\ Preparing /\ ctx.mStatus = "PREPARING" /\ ~ Closing /\ ~ demux.pParser
  BY <1>3 DEF Preparing, Protocol, Preparation
<1>8. /\ demux'.pParser = demux.pParser /\ demux'.eStatus = demux.eStatus
      /\ demux'.bStopping = demux.bStopping /\ demux'.bCancelSeek = demux.bCancelSeek
  BY <1>7 DEF Prepare, Types, Demuxes
<1>9. /\ \A ids \in SUBSET Requests : Asked(ids)' <=> Asked(ids)
      /\ ~ Closing' /\ Preparing' /\ Preparing /\ PreparesNow' /\ (Waiting' <=> Waiting)
  BY <1>2, <1>3, <1>6, <1>7 DEF Asked, Requests, Closing, Closes, PreparesNow, Prepares,
     Preparing, Waiting
<1>10. /\ Requests \in SUBSET Requests /\ Closes \in SUBSET Requests
       /\ {"CANCEL_SEEK"} \in SUBSET Requests /\ {"CANCEL_PREPARE"} \in SUBSET Requests
       /\ Requests \ {"CANCEL_PREPARE"} \in SUBSET Requests
  BY DEF Requests, Closes
<1>11. Turns'
  BY <1>1, <1>2, <1>3, <1>7, <1>9, <1>10 DEF Protocol, Turns
<1>12. Flags'
  BY <1>7, <1>8, <1>9, <1>10 DEF Protocol, Flags
<1>13. Preparation'
  <2>1. "PREPARE" \notin Ids(mq'["demux"])
    BY <1>2, <1>3
  <2> QED BY <1>1, <1>6, <1>7, <1>8, <1>9, <1>10, <2>1 DEF Protocol, Preparation
<1>14. Commanding'
  <2>1. ~ Shut
    BY <1>9 DEF Shut
  <2> QED BY <1>1, <1>6, <1>7, <1>9, <1>10, <2>1 DEF Protocol, Commanding, Stopped
<1>15. Parser'
  <2>1. ~ cache.alive
    BY <1>7 DEF Parser
  <2>2. Len(todo'["demux"]) = 1 /\ ~ FinishOk(todo'["demux"])
    BY <1>4, <1>6 DEF FinishOk, Elements
  <2> QED BY <1>1, <1>2, <1>6, <1>7, <1>8, <1>9, <2>1, <2>2 DEF Parser, ClosedOps
<1> QED BY <1>11, <1>12, <1>13, <1>14, <1>15 DEF Protocol

\* While the thread prepares nothing else is asked for.
LEMMA WhilePreparing ==
    ASSUME Types, Parser, Protocol, ~ Idle("demux"), Head(todo["demux"]).op \in Prepares
    PROVE  /\ Tail(todo["demux"]) = << >> /\ Ops(todo["demux"]) = {Head(todo["demux"]).op}
           /\ PreparesNow /\ Preparing /\ ~ Closing /\ reply = "none"
           /\ ctx.mStatus = "PREPARING" /\ player.eStatus = "STOPPED"
           /\ ~ Asked(Requests \ {"CANCEL_PREPARE"})
           /\ ~ demux.bStopping /\ ~ demux.bCancelSeek
           /\ "PREPARE" \notin Ids(mq["demux"])
           /\ "sourceSet" \notin Ops(todo["xplayer"])
           /\ \A op \in PlayOps : op \notin Ops(todo["xplayer"])
           /\ Quits(todo["xplayer"]) => /\ "demuxStop" \in Ops(todo["xplayer"])
                                        /\ "playerStop" \in Ops(todo["xplayer"])
           /\ \A i \in 1 .. Len(mq["cache"]) : mq["cache"][i].id # "QUIT"
<1>1. todo["demux"] \in Seq(Steps) /\ todo["demux"] # << >>
  BY ListTypes DEF Thread, Idle
<1>2. Ops(todo["demux"]) = {Head(todo["demux"]).op} \union Ops(Tail(todo["demux"]))
  BY <1>1, FirstStep
<1>3. PreparesNow
  BY <1>2 DEF PreparesNow
<1>4. Len(todo["demux"]) = 1
  BY <1>3 DEF Parser
<1>5. Tail(todo["demux"]) = << >>
  <2> DEFINE s == todo["demux"]
  <2>1. s \in Seq(Steps) /\ Len(s) = 1 /\ s # << >>
    BY <1>1, <1>4
  <2> HIDE DEF s
  <2>2. Tail(s) \in Seq(Steps) /\ Len(Tail(s)) = 0
    BY <2>1
  <2> QED BY <2>2, NoElement DEF s
<1>6. Ops(todo["demux"]) = {Head(todo["demux"]).op}
  BY <1>2, <1>5, FewOps
<1>7. /\ Preparing /\ ~ Closing /\ reply = "none" /\ ctx.mStatus = "PREPARING"
      /\ ~ Asked(Requests \ {"CANCEL_PREPARE"}) /\ "PREPARE" \notin Ids(mq["demux"])
  BY <1>3 DEF Protocol, Preparation, Preparing
<1>8. ~ Asked({"CANCEL_SEEK"}) /\ ~ Asked(Closes)
  BY <1>7 DEF Asked, Requests, Closes
<1>9. ~ demux.bStopping /\ ~ demux.bCancelSeek
  BY <1>7, <1>8 DEF Protocol, Flags
<1>10. ~ Shut
  BY <1>7 DEF Shut
<1>11. /\ player.eStatus = "STOPPED" /\ "sourceSet" \notin Ops(todo["xplayer"])
       /\ \A op \in PlayOps : op \notin Ops(todo["xplayer"])
       /\ Quits(todo["xplayer"]) => /\ "demuxStop" \in Ops(todo["xplayer"])
                                    /\ "playerStop" \in Ops(todo["xplayer"])
  BY <1>7, <1>8, <1>10 DEF Protocol, Commanding, Playable
<1>12. \A i \in 1 .. Len(mq["cache"]) : mq["cache"][i].id # "QUIT"
  BY <1>6 DEF Parser, Prepares
<1> QED BY <1>3, <1>5, <1>6, <1>7, <1>9, <1>11, <1>12

\* The preparing itself, ...
LEMMA PreparedKeeps ==
    ASSUME Types, Parser, Protocol, ParserPrepared \/ ParserNotPrepared, UNCHANGED xplayerVars
    PROVE  Parser' /\ Protocol'
<1> DEFINE op == IF ParserPrepared THEN "PREPARED" ELSE "PREPARE_FAILED"
<1>1. /\ ~ Idle("demux") /\ Head(todo["demux"]).op = "prepare"
      /\ reply' = reply /\ ctx' = ctx /\ player' = player
      /\ Proceed("demux", << Step(op) >>)
  BY DEF ParserPrepared, ParserNotPrepared, At, Step, Notify, xplayerVars
<1>2. /\ Tail(todo["demux"]) = << >> /\ Ops(todo["demux"]) = {Head(todo["demux"]).op}
      /\ PreparesNow /\ Preparing /\ ~ Closing /\ reply = "none"
      /\ ctx.mStatus = "PREPARING" /\ player.eStatus = "STOPPED"
      /\ ~ Asked(Requests \ {"CANCEL_PREPARE"})
      /\ ~ demux.bStopping /\ ~ demux.bCancelSeek
      /\ "PREPARE" \notin Ids(mq["demux"])
      /\ "sourceSet" \notin Ops(todo["xplayer"])
      /\ \A o \in PlayOps : o \notin Ops(todo["xplayer"])
      /\ Quits(todo["xplayer"]) => /\ "demuxStop" \in Ops(todo["xplayer"])
                                   /\ "playerStop" \in Ops(todo["xplayer"])
      /\ \A i \in 1 .. Len(mq["cache"]) : mq["cache"][i].id # "QUIT"
  BY <1>1, WhilePreparing DEF Prepares
<1>3. op \in {"PREPARED", "PREPARE_FAILED"}
  OBVIOUS
<1> HIDE DEF op
<1>4. << Step(op) >> \in Seq(Steps) /\ Elements(<< Step(op) >>) = {Step(op)}
  BY <1>3, PlainSteps DEF PlainOps, Elements
<1>5. /\ todo'["demux"] = << Step(op) >>
      /\ todo'["xplayer"] = todo["xplayer"] /\ todo'["cache"] = todo["cache"]
  <2>1. /\ \A u \in Thread \ {"demux"} : todo'[u] = todo[u]
        /\ todo'["demux"] = << Step(op) >> \o Tail(todo["demux"])
    BY <1>1, <1>4, Proceeded DEF Thread
  <2> DEFINE l == << Step(op) >>
  <2>2. l \in Seq(Steps) /\ todo'["demux"] = l \o << >>
    BY <1>2, <1>4, <2>1
  <2> HIDE DEF l
  <2>3. todo'["demux"] = l
    BY <2>2
  <2> QED BY <2>1, <2>3 DEF l, Thread
<1>6. Ops(todo'["demux"]) = {op} /\ ~ FinishOk(todo'["demux"]) /\ Len(todo'["demux"]) = 1
  BY <1>3, <1>4, <1>5 DEF Ops, FinishOk, Step
<1>7. ~ demux.pParser
  BY <1>1, <1>2 DEF Protocol, Preparation
<1>8. ~ cache.alive /\ mq["cache"] = << >> /\ todo["cache"] = << >>
  BY <1>7 DEF Parser
<1>9. /\ ~ demux'.bStopping /\ ~ demux'.bCancelSeek
      /\ \/ demux'.pParser
         \/ demux'.pParser = demux.pParser /\ demux'.eStatus = "INITIALIZED"
            /\ op = "PREPARE_FAILED" /\ cache' = cache /\ mq' = mq
  BY ZenonT(60), <1>2 DEF ParserPrepared, ParserNotPrepared, Types, Demuxes, op
<1>10. /\ mq'["demux"] = mq["demux"]
       /\ \/ cache' = cache /\ mq'["cache"] = << >>
          \/ demux'.pParser /\ mq'["cache"] = << Message("START") >>
  BY <1>8, <1>9 DEF ParserPrepared, ParserNotPrepared, Types, Post, Thread
<1>11. /\ Asked(Requests)' <=> Asked(Requests)
       /\ Asked(Requests \ {"CANCEL_PREPARE"})' <=> Asked(Requests \ {"CANCEL_PREPARE"})
       /\ Asked({"CANCEL_PREPARE"})' <=> Asked({"CANCEL_PREPARE"})
       /\ ~ Closing' /\ PreparesNow' /\ Preparing' /\ (Waiting' <=> Waiting)
  BY <1>3, <1>5, <1>6, <1>10 DEF Asked, Closing, Closes, PreparesNow, Prepares, Preparing, Waiting
<1>12. Turns'
  BY <1>1, <1>2, <1>10, <1>11 DEF Protocol, Turns
<1>13. Flags'
  BY <1>9 DEF Flags
<1>14. Preparation'
  BY <1>1, <1>2, <1>3, <1>5, <1>6, <1>10, <1>11 DEF Protocol, Preparation
<1>15. Commanding'
  BY <1>1, <1>2, <1>5 DEF Protocol, Commanding, Stopped
<1>16. Parser'
  <2>1. /\ cache'.alive => demux'.pParser
        /\ ~ cache'.alive => /\ mq'["cache"] = << >> /\ todo'["cache"] = << >>
                        /\ "seekCache" \notin Ops(todo'["demux"])
                        /\ "startCache" \notin Ops(todo'["demux"])
    <3>1. mq'["cache"] = << >> \/ cache'.alive
      BY <1>8, <1>10 DEF ParserPrepared, ParserNotPrepared, Types, Caches
    <3>2. cache'.alive => demux'.pParser
      BY <1>8, <1>9
    <3> QED BY <1>3, <1>5, <1>6, <1>8, <3>1, <3>2
  <2>2. \A i \in 1 .. Len(mq'["cache"]) : mq'["cache"][i].id # "QUIT"
    BY <1>10 DEF Message
  <2>3. ~ demux'.pParser => /\ demux'.eStatus = "INITIALIZED"
                            /\ Ops(todo'["demux"]) \subseteq ClosedOps
    BY <1>6, <1>9 DEF ClosedOps
  <2>4. "join" \notin Ops(todo'["demux"])
    BY <1>3, <1>6
  <2> QED BY <1>6, <1>11, <2>1, <2>2, <2>3, <2>4 DEF Parser
<1> QED BY <1>12, <1>13, <1>14, <1>15, <1>16 DEF Protocol

\* ... and the player front end is told.
LEMMA ToldKeeps ==
    ASSUME Types, Parser, Protocol, Prepared \/ PrepareFailed
    PROVE  Parser' /\ Protocol'
<1>1. /\ ~ Idle("demux") /\ Head(todo["demux"]).op \in {"PREPARED", "PREPARE_FAILED"}
      /\ reply' = reply /\ player' = player /\ mq' = mq /\ demux' = demux /\ cache' = cache
      /\ Proceed("demux", << >>)
  BY DEF Prepared, PrepareFailed, At
<1>2. /\ Tail(todo["demux"]) = << >> /\ Ops(todo["demux"]) = {Head(todo["demux"]).op}
      /\ PreparesNow /\ Preparing /\ ~ Closing /\ reply = "none"
      /\ ctx.mStatus = "PREPARING" /\ player.eStatus = "STOPPED"
      /\ ~ Asked(Requests \ {"CANCEL_PREPARE"})
      /\ ~ demux.bStopping /\ ~ demux.bCancelSeek
      /\ "PREPARE" \notin Ids(mq["demux"])
      /\ "sourceSet" \notin Ops(todo["xplayer"])
      /\ \A o \in PlayOps : o \notin Ops(todo["xplayer"])
      /\ Quits(todo["xplayer"]) => /\ "demuxStop" \in Ops(todo["xplayer"])
                                   /\ "playerStop" \in Ops(todo["xplayer"])
      /\ \A i \in 1 .. Len(mq["cache"]) : mq["cache"][i].id # "QUIT"
  BY <1>1, WhilePreparing DEF Prepares
<1>3. ctx'.mStatus \in {"PREPARED", "ERROR"}
  BY DEF Prepared, PrepareFailed, Types, Contexts
<1>4. /\ todo'["demux"] = << >>
      /\ todo'["xplayer"] = todo["xplayer"] /\ todo'["cache"] = todo["cache"]
  BY <1>1, <1>2 DEF Types, Proceed, Thread
<1>5. Ops(todo'["demux"]) = {} /\ ~ FinishOk(todo'["demux"])
  BY <1>4 DEF Ops, FinishOk, Elements
<1>6. /\ Asked(Requests)' <=> Asked(Requests)
      /\ ~ Closing' /\ ~ PreparesNow' /\ ~ Preparing' /\ (Waiting' <=> Waiting)
  BY <1>1, <1>2, <1>4, <1>5 DEF Asked, Closing, PreparesNow, Preparing, Waiting
<1>7. Turns'
  BY <1>1, <1>2, <1>6 DEF Protocol, Turns
<1>8. Flags'
  BY <1>1, <1>2 DEF Flags
<1>9. Preparation'
  BY <1>1, <1>2, <1>5, <1>6 DEF Protocol, Preparation
<1>10. Commanding'
  BY <1>2, <1>3, <1>4 DEF Protocol, Commanding, Stopped
<1>11. Parser'
  BY <1>1, <1>2, <1>4, <1>5, <1>6 DEF Parser
<1> QED BY <1>7, <1>8, <1>9, <1>10, <1>11 DEF Protocol

-----------------------------------------------------------------------------
(* The xplayer thread between two requests.                                *)

\* A thread whose next step is not to wait has nothing to wait for.
LEMMA NotWaiting ==
    ASSUME Types, Protocol, Idle("xplayer") \/ Head(todo["xplayer"]).op \notin Waits
    PROVE  /\ ~ Asked(Requests) /\ ~ Closing /\ reply = "none"
           /\ ~ demux.bStopping /\ ~ demux.bCancelSeek
           /\ \A op \in Waits : op \notin Ops(todo["xplayer"])
<1>1. \A op \in Waits : op \notin Ops(todo["xplayer"])
  <2> DEFINE s == todo["xplayer"]
  <2>1. s \in Seq(Steps) /\ InOrder(s)
    BY ListTypes DEF Thread, Protocol, Commanding
  <2>2. CASE s = << >>
    BY <2>2, FewOps
  <2>3. CASE s # << >> /\ Head(s).op \notin Waits
    <3> HIDE DEF s
    <3>1. /\ Ops(s) = {Head(s).op} \union Ops(Tail(s))
          /\ \A op \in Ops(Tail(s)) : Place(Head(s).op) < Place(op)
      BY <2>1, <2>3, FirstStep, FirstInOrder
    <3>2. Place(Head(s).op) \in Nat
      BY DEF Place
    <3>3. \A op \in Waits : Place(op) = 0
      BY DEF Place
    <3> QED BY <2>3, <3>1, <3>2, <3>3 DEF s
  <2> QED BY <2>2, <2>3 DEF Idle
<1>2. ~ Waiting
  BY <1>1 DEF Waiting
<1>3. ~ Asked(Requests) /\ ~ Closing /\ reply = "none"
  BY <1>2 DEF Protocol, Turns
<1>4. ~ Asked(Closes) /\ ~ Asked({"CANCEL_SEEK"})
  BY <1>3 DEF Asked, Requests, Closes
<1>5. ~ demux.bStopping /\ ~ demux.bCancelSeek
  BY <1>3, <1>4 DEF Protocol, Flags
<1> QED BY <1>1, <1>3, <1>5

\* A step that asks for nothing and finds nothing asked.
QuietFront ==
    /\ ~ Asked(Requests) /\ ~ Closing /\ reply' = "none"
    /\ ~ demux'.bStopping /\ ~ demux'.bCancelSeek
    /\ todo'["demux"] = todo["demux"]
    /\ SameRequests
    /\ demux'.pParser = demux.pParser

LEMMA QuietKeeps ==
    ASSUME Protocol, QuietFront
    PROVE  /\ Turns' /\ Flags'
           /\ Preparing' <=> Preparing
           /\ Shut' <=> Shut
           /\ ~ Asked(Closes)' /\ ~ Closing' /\ ~ Asked(Closes)
           /\ Preparing => ctx.mStatus = "PREPARING"
           /\ /\ Preparing => /\ ctx'.mStatus = "PREPARING"
                              /\ \/ Ops(todo'["xplayer"]) \subseteq {"answer"}
                                 \/ "demuxCancelPrepare" \in Ops(todo'["xplayer"])
              => Preparation'
           /\ Preparing => \/ Ops(todo["xplayer"]) \subseteq {"answer"}
                           \/ "demuxCancelPrepare" \in Ops(todo["xplayer"])
<1>1. /\ ~ Asked(Requests)' /\ ~ Asked(Requests \ {"CANCEL_PREPARE"})'
      /\ ~ Asked(Closes)' /\ ~ Asked(Closes) /\ ~ Asked({"CANCEL_PREPARE"})
      /\ ~ Closing'
  BY DEF QuietFront, SameRequests, Asked, Requests, Closes, Closing
<1>2. /\ Preparing' <=> Preparing
      /\ PreparesNow' <=> PreparesNow
      /\ Shut' <=> Shut
  BY DEF QuietFront, SameRequests, Preparing, PreparesNow, Shut
<1>3. Turns'
  BY <1>1 DEF QuietFront, SameRequests, Turns
<1>4. Flags'
  BY DEF QuietFront, Flags
<1>5. Preparing => /\ ctx.mStatus = "PREPARING"
                   /\ \/ Ops(todo["xplayer"]) \subseteq {"answer"}
                      \/ "demuxCancelPrepare" \in Ops(todo["xplayer"])
  BY <1>1 DEF Protocol, Preparation
<1>6. ASSUME Preparing => /\ ctx'.mStatus = "PREPARING"
                          /\ \/ Ops(todo'["xplayer"]) \subseteq {"answer"}
                             \/ "demuxCancelPrepare" \in Ops(todo'["xplayer"])
      PROVE  Preparation'
  <2>1. "PREPARE" \in Ids(mq'["demux"]) => ~ demux'.pParser /\ ~ PreparesNow'
    BY <1>2 DEF Protocol, Preparation, QuietFront, SameRequests
  <2>2. "prepare" \in Ops(todo'["demux"]) => ~ demux'.pParser
    BY DEF Protocol, Preparation, QuietFront
  <2>3. reply' = "none"
    BY DEF QuietFront
  <2> QED BY <1>1, <1>2, <1>6, <2>1, <2>2, <2>3 DEF Preparation
<1> QED BY <1>1, <1>2, <1>3, <1>4, <1>5, <1>6

\* The thread has done a step of its command that neither stops nor cancels.
LEMMA DoneKeeps ==
    ASSUME Types, Protocol, QuietFront, SameFront, ~ Idle("xplayer"),
           Head(todo["xplayer"]).op \notin {"demuxCancelPrepare", "demuxStop", "playerStop"},
           Head(todo["xplayer"]).op = "await" => ~ Preparing,
           todo'["xplayer"] = Tail(todo["xplayer"])
    PROVE  Protocol'
<1> DEFINE s == todo["xplayer"]
<1>1. s \in Seq(Steps) /\ s # << >> /\ InOrder(s)
  BY ListTypes DEF Thread, Protocol, Commanding, Idle
<1>2. /\ InOrder(Tail(s)) /\ \A op \in Ops(Tail(s)) : Place(Head(s).op) < Place(op)
      /\ Ops(s) = {Head(s).op} \union Ops(Tail(s))
      /\ Tail(s) \in Seq(Steps)
      /\ Quits(s) <=> \/ Head(s).op = "status" /\ Head(s).status # "STARTED"
                      \/ Quits(Tail(s))
  <2> HIDE DEF s
  <2> QED BY <1>1, FirstStep, FirstInOrder
<1>3. /\ Turns' /\ Flags'
      /\ Preparing' <=> Preparing
      /\ Shut' <=> Shut
      /\ ~ Asked(Closes)' /\ ~ Closing' /\ ~ Asked(Closes)
      /\ Preparing => ctx.mStatus = "PREPARING"
      /\ /\ Preparing => /\ ctx'.mStatus = "PREPARING"
                         /\ \/ Ops(todo'["xplayer"]) \subseteq {"answer"}
                            \/ "demuxCancelPrepare" \in Ops(todo'["xplayer"])
         => Preparation'
      /\ Preparing => \/ Ops(todo["xplayer"]) \subseteq {"answer"}
                      \/ "demuxCancelPrepare" \in Ops(todo["xplayer"])
  BY QuietKeeps
<1>4. Preparation'
  BY <1>2, <1>3 DEF SameFront
<1>5. ~ Closing
  BY DEF QuietFront
<1>6. Place("status") = 7 /\ Place("demuxClear") = 5 /\ Place("sourceSet") = 0
      /\ Place(Head(s).op) \in Nat
  BY DEF Place, Waits
<1>7. "demuxClear" \in Ops(Tail(s)) => Quits(Tail(s))
  <2>1. "demuxClear" \in Ops(Tail(s)) => Quits(s) /\ Head(s).op # "status"
    BY <1>2, <1>6 DEF Protocol, Commanding
  <2> QED BY <1>2, <2>1
<1>8. "sourceSet" \notin Ops(Tail(s))
  BY <1>2, <1>6
<1>9. Quits(Tail(s)) => Ops(s) \subseteq StopOps
  BY <1>2 DEF Protocol, Commanding
<1>10. Commanding'
  <2> HIDE DEF s
  <2>1. todo'["xplayer"] = Tail(s)
    BY DEF s
  <2> QED BY <1>2, <1>3, <1>5, <1>7, <1>8, <1>9, <2>1 DEF s, Protocol, Commanding, SameFront
<1> QED BY <1>3, <1>4, <1>10 DEF Protocol

\* A step of a command that only a playing player takes; it may leave steps
\* of that kind, and change the player and the status.
LEMMA PlayKeeps ==
    ASSUME Types, Protocol, QuietFront, ~ Idle("xplayer"),
           Head(todo["xplayer"]).op \in PlayOps,
           ctx'.mStatus \in Playable,
           NEW steps \in Seq(Steps), InOrder(steps), ~ Quits(steps),
           Ops(steps) \subseteq {"playerStart", "demuxStart", "unlock", "status"},
           Ops(steps) # {} => Head(todo["xplayer"]).op = "start",
           todo'["xplayer"] = steps \o Tail(todo["xplayer"])
    PROVE  Protocol'
<1> DEFINE s == todo["xplayer"]
           r == Tail(s)
<1>1. s \in Seq(Steps) /\ s # << >> /\ InOrder(s)
  BY ListTypes DEF Thread, Protocol, Commanding, Idle
<1>2. /\ InOrder(r) /\ \A op \in Ops(r) : Place(Head(s).op) < Place(op)
      /\ Ops(s) = {Head(s).op} \union Ops(r)
      /\ r \in Seq(Steps)
      /\ Quits(s) <=> \/ Head(s).op = "status" /\ Head(s).status # "STARTED"
                      \/ Quits(r)
  <2> HIDE DEF s
  <2> QED BY <1>1, FirstStep, FirstInOrder
<1>3. /\ Turns' /\ Flags'
      /\ Preparing => ctx.mStatus = "PREPARING"
      /\ /\ Preparing => /\ ctx'.mStatus = "PREPARING"
                         /\ \/ Ops(todo'["xplayer"]) \subseteq {"answer"}
                            \/ "demuxCancelPrepare" \in Ops(todo'["xplayer"])
         => Preparation'
  BY QuietKeeps
<1>4. ctx.mStatus \in Playable /\ ~ Quits(s) /\ "sourceSet" \notin Ops(r)
  <2>1. ctx.mStatus \in Playable
    BY <1>2 DEF Protocol, Commanding
  <2>2. ~ Quits(s)
    BY <1>2 DEF Protocol, Commanding, PlayOps, StopOps
  <2>3. Place("sourceSet") = 0 /\ Place(Head(s).op) \in Nat
    BY DEF Place, Waits
  <2> QED BY <1>2, <2>1, <2>2, <2>3
<1>5. ~ Preparing
  BY <1>3, <1>4 DEF Playable
<1>6. /\ steps \o r \in Seq(Steps) /\ Ops(steps \o r) = Ops(steps) \union Ops(r)
      /\ Quits(steps \o r) <=> Quits(steps) \/ Quits(r)
  BY <1>2, JoinedSteps
<1>11. "start" \notin Ops(r)
  <2>1. Place("start") = 1 /\ Place(Head(s).op) \in Nat \ {0}
    BY DEF Place, Waits, PlayOps
  <2> QED BY <1>2, <2>1
<1>7. InOrder(steps \o r)
  <2>1. \A x \in Ops(steps), y \in Ops(r) : Place(x) < Place(y)
    <3>1. \A x \in Ops(steps), y \in Ops(r) :
            x \in {"playerStart", "demuxStart", "unlock", "status"} /\ y = "answer"
      BY <1>2, <1>11 DEF Protocol, Commanding
    <3>2. \A x \in {"playerStart", "demuxStart", "unlock", "status"} : Place(x) < Place("answer")
      BY DEF Place, Waits
    <3> QED BY <3>1, <3>2
  <2> HIDE DEF r
  <2> QED BY <1>2, <2>1, JoinedInOrder
<1>8. ~ Quits(steps \o r) /\ "sourceSet" \notin Ops(steps \o r)
  BY <1>2, <1>4, <1>6
<1>9. "demuxClear" \notin Ops(steps \o r) /\ "start" \notin Ops(steps \o r)
  BY <1>2, <1>4, <1>6, <1>11 DEF Protocol, Commanding
<1>10. Commanding'
  <2>1. ctx'.mStatus \notin Stopped \union {"PREPARING"}
    BY DEF Playable, Stopped
  <2> HIDE DEF r, s
  <2>2. todo'["xplayer"] = steps \o r
    BY DEF r, s
  <2> QED BY <1>7, <1>8, <1>9, <2>1, <2>2 DEF Commanding
<1> QED BY <1>3, <1>5, <1>10 DEF Protocol

\* A request is sent, and the thread waits for the answer to it.
LEMMA AsksKeeps ==
    ASSUME Types, Protocol, ~ Idle("xplayer"), NEW m \in Messages,
           m.id \in {"START", "STOP", "CLEAR", "CANCEL_SEEK", "CANCEL_PREPARE"},
           Head(todo["xplayer"]).op =
              (CASE m.id = "START" -> "demuxStart" [] m.id = "STOP" -> "demuxStop"
                 [] m.id = "CLEAR" -> "demuxClear" [] m.id = "CANCEL_SEEK" -> "demuxCancelSeek"
                 [] OTHER -> "demuxCancelPrepare"),
           Proceed("xplayer", << Step("await") >>), Post("demux", m),
           reply' = reply, ctx' = ctx, player' = player,
           demux'.pParser = demux.pParser,
           demux'.bStopping => m.id \in Closes \/ demux.bStopping,
           demux'.bCancelSeek => m.id = "CANCEL_SEEK" \/ demux.bCancelSeek,
           demux.pParser /\ m.id \in {"STOP", "CANCEL_SEEK"} => demux'.bForceStop
    PROVE  Protocol'
<1> DEFINE s == todo["xplayer"]
           r == Tail(s)
           w == << Step("await") >>
<1>1. s \in Seq(Steps) /\ s # << >> /\ InOrder(s)
  BY ListTypes DEF Thread, Protocol, Commanding, Idle
<1>2. /\ InOrder(r) /\ \A op \in Ops(r) : Place(Head(s).op) < Place(op)
      /\ Ops(s) = {Head(s).op} \union Ops(r)
      /\ r \in Seq(Steps)
      /\ Quits(s) <=> \/ Head(s).op = "status" /\ Head(s).status # "STARTED"
                      \/ Quits(r)
  <2> HIDE DEF s
  <2> QED BY <1>1, FirstStep, FirstInOrder
<1>3. /\ Head(s).op \in {"demuxStart", "demuxStop", "demuxClear", "demuxCancelSeek",
                         "demuxCancelPrepare"}
      /\ Head(s).op = "demuxCancelPrepare" => m.id = "CANCEL_PREPARE"
      /\ Head(s).op = "demuxStop" => m.id = "STOP"
      /\ m.id = "CLEAR" => Head(s).op = "demuxClear"
      /\ m.id = "START" => Head(s).op = "demuxStart"
      /\ m.id = "STOP" => Head(s).op = "demuxStop"
  OBVIOUS
<1>4. /\ ~ Asked(Requests) /\ ~ Closing /\ reply = "none"
      /\ ~ demux.bStopping /\ ~ demux.bCancelSeek
      /\ \A op \in Waits : op \notin Ops(s)
  BY <1>3, NotWaiting DEF Waits
<1>5. w \in Seq(Steps) /\ Ops(w) = {"await"} /\ InOrder(w) /\ ~ Quits(w)
  <2>1. Step("await") \in Steps /\ Step("await").op = "await"
    BY PlainSteps DEF PlainOps, Step
  <2> DEFINE a == Step("await")
  <2> HIDE DEF a
  <2>2. << a >> \in Seq(Steps) /\ Ops(<< a >>) = {a.op} /\ InOrder(<< a >>)
    BY <2>1, FewOps, FewInOrder, Zenon DEF a
  <2>3. Ops(w) = {"await"}
    BY <2>1, <2>2 DEF a
  <2> QED BY <2>2, <2>3, Kinds DEF a
<1>6. /\ todo'["xplayer"] = w \o r
      /\ todo'["demux"] = todo["demux"]
  <2> HIDE DEF w
  <2>1. Proceed("xplayer", w)
    BY DEF w
  <2> QED BY <1>5, <2>1, Proceeded DEF Thread
<1>7. /\ w \o r \in Seq(Steps) /\ Ops(w \o r) = {"await"} \union Ops(r)
      /\ Quits(w \o r) <=> Quits(r)
  <2> HIDE DEF w, r
  <2> QED BY <1>2, <1>5, JoinedSteps
<1>8. InOrder(w \o r)
  <2>1. \A x \in Ops(w), y \in Ops(r) : Place(x) < Place(y)
    <3>1. Place("await") = 0 /\ Place(Head(s).op) \in Nat
      BY DEF Place, Waits
    <3>2. \A y \in Ops(r) : Place(y) \in Nat
      BY DEF Place
    <3>3. \A y \in Ops(r) : Place("await") < Place(y)
      BY <1>2, <3>1, <3>2
    <3> QED BY <1>5, <3>3
  <2> HIDE DEF w, r
  <2> QED BY <1>2, <1>5, <2>1, JoinedInOrder
<1> HIDE DEF w
<1>9. /\ mq'["demux"] = Append(mq["demux"], m)
      /\ Ids(mq'["demux"]) = Ids(mq["demux"]) \union {m.id}
  BY Posted DEF Thread
<1>10. /\ \A id \in Requests : id \notin Ids(mq["demux"])
       /\ m.id \in Requests
  BY <1>4 DEF Asked, Requests
<1>11. QueueOrder(mq'["demux"])
  <2>1. mq["demux"] \in Seq(Messages) /\ QueueOrder(mq["demux"])
    BY ListTypes DEF Thread, Protocol, Turns
  <2> QED BY <1>9, <1>10, <2>1, PostedInOrder DEF Requests
<1>12. /\ Asked(Requests)' /\ ~ Closing' /\ Waiting'
       /\ Asked(Closes)' <=> m.id \in Closes
       /\ Asked({"CANCEL_SEEK"})' <=> m.id = "CANCEL_SEEK"
       /\ Asked({"CANCEL_PREPARE"})' <=> m.id = "CANCEL_PREPARE"
       /\ m.id = "CANCEL_PREPARE" => ~ Asked(Requests \ {"CANCEL_PREPARE"})'
  BY <1>4, <1>6, <1>7, <1>9, <1>10 DEF Asked, Requests, Closes, Closing, Waiting, Waits
<1>13. /\ Preparing' <=> Preparing
       /\ PreparesNow' <=> PreparesNow
       /\ Shut' <=> Shut
  BY <1>6, <1>9, <1>10 DEF Preparing, PreparesNow, Shut, Requests
<1>14. m.id = "CLEAR" => Shut
  <2> SUFFICES ASSUME m.id = "CLEAR" PROVE Shut
    OBVIOUS
  <2>1. Place("demuxClear") = 5 /\ Place("demuxStop") = 4
    BY DEF Place, Waits
  <2>2. "demuxStop" \notin Ops(s)
    BY <1>2, <1>3, <2>1
  <2>3. Quits(s)
    BY <1>2, <1>3 DEF Protocol, Commanding
  <2>4. ~ Asked(Closes)
    BY <1>4 DEF Asked, Requests, Closes
  <2> QED BY <1>4, <2>2, <2>3, <2>4 DEF Protocol, Commanding
<1>15. Preparing => m.id = "CANCEL_PREPARE" /\ ctx.mStatus = "PREPARING"
  <2> SUFFICES ASSUME Preparing, m.id # "CANCEL_PREPARE"
               PROVE  FALSE
    BY DEF Protocol, Preparation
  <2>1. ~ Asked({"CANCEL_PREPARE"}) /\ Head(s).op # "demuxCancelPrepare"
    BY <1>3, <1>4 DEF Asked, Requests
  <2>2. "demuxCancelPrepare" \in Ops(s)
    BY <1>2, <1>3, <2>1 DEF Protocol, Preparation
  <2>3. Place("demuxCancelPrepare") = 1 /\ Place(Head(s).op) \in Nat \ {0, 1}
    BY <1>3, <2>1 DEF Place, Waits
  <2> QED BY <1>2, <2>1, <2>2, <2>3
<1>16. Turns'
  BY <1>4, <1>11, <1>12 DEF Turns
<1>17. Flags'
  <2>1. demux'.bStopping => m.id \in Closes
    BY <1>4
  <2>2. demux'.bCancelSeek => m.id = "CANCEL_SEEK"
    BY <1>4
  <2>3. demux'.pParser /\ (demux'.bStopping \/ demux'.bCancelSeek) => demux'.bForceStop
    BY <1>14, <2>1, <2>2 DEF Shut, Closes
  <2> QED BY <1>12, <2>1, <2>2, <2>3 DEF Flags
<1>18. Preparation'
  <2>1. "PREPARE" \in Ids(mq'["demux"]) => ~ demux'.pParser /\ ~ PreparesNow'
    BY <1>9, <1>10, <1>13 DEF Protocol, Preparation, Requests
  <2>2. "prepare" \in Ops(todo'["demux"]) => ~ demux'.pParser
    BY <1>6 DEF Protocol, Preparation
  <2> QED BY <1>4, <1>12, <1>13, <1>15, <2>1, <2>2 DEF Preparation
<1>19. Commanding'
  <2>1. Place("sourceSet") = 0 /\ Place("status") = 7 /\ Place(Head(s).op) \in Nat
        /\ Place("start") = 1 /\ Place(Head(s).op) # 0
    BY <1>3 DEF Place, Waits
  <2>2. "sourceSet" \notin Ops(r) /\ "start" \notin Ops(r)
    BY <1>2, <2>1
  <2>3. "sourceSet" \notin Ops(w \o r) /\ "start" \notin Ops(w \o r)
    BY <1>7, <2>2
  <2>4. Quits(w \o r) <=> Quits(s)
    BY <1>2, <1>3, <1>7
  <2>5. \A op : op \in Ops(w \o r) <=> op = "await" \/ op \in Ops(r)
    BY <1>7
  <2>6. "demuxClear" \in Ops(w \o r) => Quits(w \o r)
    BY <1>2, <2>4, <2>5 DEF Protocol, Commanding
  <2>7. (\E op \in PlayOps : op \in Ops(w \o r)) => ctx'.mStatus \in Playable
    BY <1>2, <2>5 DEF Protocol, Commanding, PlayOps
  <2>8. Quits(w \o r) => Ops(w \o r) \subseteq StopOps
    BY <1>2, <2>4, <2>5 DEF Protocol, Commanding, StopOps
  <2>9. ~ Asked(Closes)
    BY <1>4 DEF Asked, Requests, Closes
  <2>10. Quits(w \o r) =>
           "demuxStop" \in Ops(w \o r) \/ Shut' \/ Asked(Closes)' \/ Closing'
    BY <1>2, <1>3, <1>4, <1>12, <1>13, <2>4, <2>5, <2>9 DEF Protocol, Commanding, Closes
  <2>11. Quits(w \o r) =>
           "playerStop" \in Ops(w \o r) \/ (Shut' /\ player'.eStatus = "STOPPED")
    BY <1>2, <1>3, <1>13, <2>4, <2>5 DEF Protocol, Commanding
  <2>12. /\ ctx'.mStatus \in Stopped => Shut'
         /\ ctx'.mStatus \in Stopped \union {"PREPARING"} => player'.eStatus = "STOPPED"
    BY <1>13 DEF Protocol, Commanding
  <2> HIDE DEF r
  <2> QED BY <1>6, <1>8, <2>3, <2>6, <2>7, <2>8, <2>10, <2>11, <2>12 DEF Commanding
<1> QED BY <1>16, <1>17, <1>18, <1>19 DEF Protocol

-----------------------------------------------------------------------------
(* The steps of the xplayer thread.                                        *)

LEMMA CallsKeep ==
    ASSUME Types, Protocol, DemuxComponent, UNCHANGED xplayerVars
    PROVE  Protocol'
<1>1. /\ ~ Idle("xplayer") /\ reply' = reply /\ ctx' = ctx /\ player' = player
      /\ cache' = cache
  BY DEF DemuxComponent, DemuxCompStart, DemuxCompStop, DemuxCompClear,
     DemuxCompCancelSeek, DemuxCompCancelPrepare, At, xplayerVars
<1>2. \A id \in MessageIds : Message(id) \in Messages /\ Message(id).id = id
  BY DEF Message, Messages, Times
<1>3. demux \in Demuxes
  BY DEF Types
<1>4. CASE DemuxCompStart
  <2>1. At("xplayer", "demuxStart") /\ demux' = demux
    BY <1>4 DEF DemuxCompStart
  <2>2. CASE Proceed("xplayer", << >>) /\ UNCHANGED mq
    <3>1. todo'["xplayer"] = Tail(todo["xplayer"]) /\ todo'["demux"] = todo["demux"]
      <4>1. << >> \in Seq(Steps)
        OBVIOUS
      <4>2. todo'["xplayer"] = << >> \o Tail(todo["xplayer"]) /\ todo'["demux"] = todo["demux"]
            /\ Tail(todo["xplayer"]) \in Seq(Steps)
        BY <1>1, <2>2, <4>1, Proceeded DEF Thread
      <4> QED BY <4>2
    <3>2. QuietFront
      BY <1>1, <2>1, <2>2, <3>1, NotWaiting, QueueSame
      DEF At, Waits, QuietFront, Protocol
    <3>3. SameFront
      BY <1>1 DEF SameFront
    <3> QED BY <1>1, <2>1, <3>1, <3>2, <3>3, DoneKeeps DEF At
  <2>3. CASE Proceed("xplayer", << Step("await") >>) /\ Post("demux", Message("START"))
    <3>1. Message("START") \in Messages /\ Message("START").id = "START"
      BY <1>2 DEF MessageIds
    <3> QED BY <1>1, <2>1, <2>3, <3>1, AsksKeeps DEF At
  <2> QED BY <1>4, <2>2, <2>3 DEF DemuxCompStart
<1>5. CASE DemuxCompStop
  <2>1. Message("STOP") \in Messages /\ Message("STOP").id = "STOP"
    BY <1>2 DEF MessageIds
  <2>2. /\ At("xplayer", "demuxStop") /\ Post("demux", Message("STOP"))
        /\ Proceed("xplayer", << Step("await") >>)
        /\ demux'.pParser = demux.pParser /\ demux'.bCancelSeek = demux.bCancelSeek
        /\ demux.pParser => demux'.bForceStop
    BY <1>3, <1>5 DEF DemuxCompStop, Demuxes
  <2> QED BY <1>1, <2>1, <2>2, AsksKeeps DEF At, Closes
<1>6. CASE DemuxCompClear
  <2>1. Message("CLEAR") \in Messages /\ Message("CLEAR").id = "CLEAR"
    BY <1>2 DEF MessageIds
  <2>2. /\ At("xplayer", "demuxClear") /\ Post("demux", Message("CLEAR"))
        /\ Proceed("xplayer", << Step("await") >>)
        /\ demux'.pParser = demux.pParser /\ demux'.bCancelSeek = demux.bCancelSeek
    BY <1>3, <1>6 DEF DemuxCompClear, Demuxes
  <2> QED BY <1>1, <2>1, <2>2, AsksKeeps DEF At, Closes
<1>7. CASE DemuxCompCancelSeek
  <2>1. Message("CANCEL_SEEK") \in Messages /\ Message("CANCEL_SEEK").id = "CANCEL_SEEK"
    BY <1>2 DEF MessageIds
  <2>2. /\ At("xplayer", "demuxCancelSeek") /\ Post("demux", Message("CANCEL_SEEK"))
        /\ Proceed("xplayer", << Step("await") >>)
        /\ demux'.pParser = demux.pParser /\ demux'.bStopping = demux.bStopping
        /\ demux.pParser => demux'.bForceStop
    BY <1>3, <1>7 DEF DemuxCompCancelSeek, Demuxes
  <2> QED BY <1>1, <2>1, <2>2, AsksKeeps DEF At
<1>8. CASE DemuxCompCancelPrepare
  <2>1. Message("CANCEL_PREPARE") \in Messages /\ Message("CANCEL_PREPARE").id = "CANCEL_PREPARE"
    BY <1>2 DEF MessageIds
  <2>2. /\ At("xplayer", "demuxCancelPrepare") /\ Post("demux", Message("CANCEL_PREPARE"))
        /\ Proceed("xplayer", << Step("await") >>)
        /\ demux'.pParser = demux.pParser /\ demux'.bStopping = demux.bStopping
        /\ demux'.bCancelSeek = demux.bCancelSeek
    BY <1>3, <1>8 DEF DemuxCompCancelPrepare, Demuxes
  <2> QED BY <1>1, <2>1, <2>2, AsksKeeps DEF At
<1> QED BY <1>4, <1>5, <1>6, <1>7, <1>8 DEF DemuxComponent

\* A step that is done and leaves no others.
LEMMA StepDone ==
    ASSUME Types, ~ Idle("xplayer"), Proceed("xplayer", << >>)
    PROVE  /\ todo' \in [Thread -> Seq(Steps)]
           /\ todo'["xplayer"] = Tail(todo["xplayer"]) /\ todo'["demux"] = todo["demux"]
           /\ todo'["cache"] = todo["cache"]
<1>1. << >> \in Seq(Steps)
  OBVIOUS
<1>2. /\ todo'["xplayer"] = << >> \o Tail(todo["xplayer"]) /\ todo'["demux"] = todo["demux"]
      /\ todo'["cache"] = todo["cache"] /\ todo' \in [Thread -> Seq(Steps)]
      /\ Tail(todo["xplayer"]) \in Seq(Steps)
  BY <1>1, Proceeded DEF Thread
<1> QED BY <1>2

\* The steps that are done without anything that the other thread sees.
LEMMA PlainKeeps ==
    ASSUME Types, Protocol,
           \/ AnswerCall \/ Unlock \/ NotSeeking \/ SeekTimeLocked \/ AwaitDemux
    PROVE  Protocol'
<1>1. /\ ~ Idle("xplayer") /\ Proceed("xplayer", << >>)
      /\ mq' = mq /\ demux' = demux /\ player' = player
      /\ \/ /\ Head(todo["xplayer"]).op \in {"answer", "unlock", "notSeeking", "seekTime"}
            /\ reply' = reply
         \/ /\ Head(todo["xplayer"]).op = "await"
            /\ reply # "none" /\ reply' = "none"
  BY DEF AnswerCall, Unlock, NotSeeking, SeekTimeLocked, AwaitDemux, At, xplayerVars
<1>2. ctx'.mStatus = ctx.mStatus
  BY DEF AnswerCall, Unlock, NotSeeking, SeekTimeLocked, AwaitDemux, Types, Contexts, xplayerVars
<1>3. SameFront
  BY <1>1, <1>2 DEF SameFront
<1>4. todo'["xplayer"] = Tail(todo["xplayer"]) /\ todo'["demux"] = todo["demux"]
  BY <1>1, StepDone
<1>5. SameRequests
  BY <1>1, QueueSame DEF Protocol
<1>6. CASE Head(todo["xplayer"]).op = "await" /\ reply # "none" /\ reply' = "none"
  <2>1. ~ Asked(Requests) /\ ~ Closing /\ ~ Preparing
    BY <1>6 DEF Protocol, Turns, Preparation
  <2>2. ~ Asked(Closes) /\ ~ Asked({"CANCEL_SEEK"})
    BY <2>1 DEF Asked, Requests, Closes
  <2>3. ~ demux.bStopping /\ ~ demux.bCancelSeek
    BY <2>1, <2>2 DEF Protocol, Flags
  <2>4. QuietFront
    BY <1>1, <1>4, <1>5, <1>6, <2>1, <2>3 DEF QuietFront
  <2> QED BY <1>1, <1>3, <1>4, <1>6, <2>1, <2>4, DoneKeeps
<1>7. CASE /\ Head(todo["xplayer"]).op \in {"answer", "unlock", "notSeeking", "seekTime"}
           /\ reply' = reply
  <2>1. QuietFront
    BY <1>1, <1>4, <1>5, <1>7, NotWaiting DEF QuietFront, Waits
  <2> QED BY <1>1, <1>3, <1>4, <1>7, <2>1, DoneKeeps
<1> QED BY <1>1, <1>6, <1>7

\* A seek goes to the demux thread.
LEMMA SeekPosted ==
    ASSUME Types, Protocol, Idle("xplayer") \/ Head(todo["xplayer"]).op \notin Waits,
           NEW m \in Messages, m.id \in MessageIds \ (Requests \union {"PREPARE"}), Post("demux", m)
    PROVE  SameRequests
<1>1. ~ Asked(Requests)
  BY NotWaiting
<1>2. mq["demux"] \in Seq(Messages) /\ QueueOrder(mq["demux"])
  BY ListTypes DEF Thread, Protocol, Turns
<1>3. /\ mq'["demux"] = Append(mq["demux"], m)
      /\ Ids(mq'["demux"]) = Ids(mq["demux"]) \union {m.id}
  BY Posted DEF Thread
<1>4. QueueOrder(mq'["demux"])
  BY <1>1, <1>2, <1>3, PostedInOrder DEF Asked
<1> QED BY <1>3, <1>4 DEF SameRequests

LEMMA SeekMessage ==
    Types => LET m == [Message("SEEK") EXCEPT !.time = ctx.mSeekTime]
             IN  m \in Messages /\ m.id = "SEEK"
<1>1. ctx.mSeekTime \in Times => [id |-> "SEEK", time |-> ctx.mSeekTime] \in Messages
  BY DEF Messages, MessageIds
<1>2. [Message("SEEK") EXCEPT !.time = ctx.mSeekTime] = [id |-> "SEEK", time |-> ctx.mSeekTime]
  BY DEF Message
<1>3. Types => ctx.mSeekTime \in Times
  BY DEF Types, Contexts
<1> QED BY <1>1, <1>2, <1>3

\* The steps of a player that plays.
PlayerWorks ==
    \/ StartLocked \/ PauseLocked \/ SeekLocked \/ SeekPausesPlayer \/ SeekCallsDemux
    \/ CallPlayer /\ At("xplayer", "playerStart")

LEMMA PlayerSteps ==
    ASSUME PlayerWorks
    PROVE  \E steps \in Seq(Steps) :
              /\ Proceed("xplayer", steps) /\ InOrder(steps) /\ ~ Quits(steps)
              /\ Ops(steps) \subseteq {"playerStart", "demuxStart", "unlock", "status"}
              /\ Ops(steps) # {} => At("xplayer", "start")
<1> DEFINE Leaves(steps) ==
              /\ steps \in Seq(Steps)
              /\ Proceed("xplayer", steps) /\ InOrder(steps) /\ ~ Quits(steps)
              /\ Ops(steps) \subseteq {"playerStart", "demuxStart", "unlock", "status"}
              /\ Ops(steps) # {} => At("xplayer", "start")
<1> SUFFICES \E steps : Leaves(steps)
  OBVIOUS
<1>1. CASE Proceed("xplayer", << >>)
  <2>1. ~ Quits(<< >>) /\ InOrder(<< >>) /\ Ops(<< >>) = {} /\ << >> \in Seq(Steps)
    BY FewOps, FewInOrder, Kinds
  <2> QED BY <1>1, <2>1
<1>2. CASE At("xplayer", "start") /\ Proceed("xplayer", << Step("demuxStart"), Step("unlock") >>)
  <2> DEFINE a == Step("demuxStart")
             b == Step("unlock")
             l == << a, b >>
  <2>1. a \in Steps /\ b \in Steps /\ a.op = "demuxStart" /\ b.op = "unlock"
    BY PlainSteps DEF PlainOps, Step
  <2>2. Place(a.op) < Place(b.op)
    BY <2>1 DEF Place, Waits
  <2> HIDE DEF a, b
  <2>3. l \in Seq(Steps) /\ Ops(l) = {a.op, b.op}
    BY <2>1, FewOps, Zenon
  <2>4. InOrder(l)
    BY <2>2, FewInOrder, Zenon
  <2>5. Proceed("xplayer", l)
    BY <1>2 DEF a, b
  <2> HIDE DEF l
  <2>6. Leaves(l)
    BY <1>2, <2>1, <2>3, <2>4, <2>5, Kinds
  <2> QED BY <2>6
<1>3. CASE /\ At("xplayer", "start")
           /\ Proceed("xplayer", << Step("playerStart"), Step("demuxStart"), SetStatus("STARTED") >>)
  <2> DEFINE a == Step("playerStart")
             b == Step("demuxStart")
             c == SetStatus("STARTED")
             l == << a, b, c >>
  <2>1. /\ a \in Steps /\ b \in Steps /\ c \in Steps
        /\ a.op = "playerStart" /\ b.op = "demuxStart" /\ c.op = "status"
        /\ c.status = "STARTED"
    BY PlainSteps DEF PlainOps, Step, SetStatus, Steps, Statuses
  <2>2. Place(a.op) = 2 /\ Place(b.op) = 3 /\ Place(c.op) = 7
    BY <2>1 DEF Place, Waits
  <2> HIDE DEF a, b, c
  <2>3. \A d \in Steps : \A e \in Steps : \A f \in Steps :
           << d, e, f >> \in Seq(Steps) /\ Ops(<< d, e, f >>) = {d.op, e.op, f.op}
    BY FewOps, Zenon
  <2>4. l \in Seq(Steps) /\ Ops(l) = {a.op, b.op, c.op} /\ Elements(l) = {a, b, c}
    BY <2>1, <2>3 DEF Elements
  <2>5. InOrder(l)
    BY <2>2, FewInOrder, Zenon
  <2>6. Proceed("xplayer", l)
    BY <1>3 DEF a, b, c
  <2> HIDE DEF l
  <2>7. ~ Quits(l)
    BY <2>1, <2>4 DEF Quits
  <2>8. Leaves(l)
    BY <1>3, <2>1, <2>4, <2>5, <2>6, <2>7
  <2> QED BY <2>8
<1> QED BY <1>1, <1>2, <1>3 DEF PlayerWorks, StartLocked, StartWhenStarted, StartWhenSeeking,
       StartWhenComplete, StartOtherwise, PauseLocked, SeekLocked, SeekPausesPlayer,
       SeekCallsDemux, CallPlayer

LEMMA PlayerWorksKeeps ==
    ASSUME Types, Protocol, PlayerWorks
    PROVE  Protocol'
<1>1. ~ Idle("xplayer") /\ Head(todo["xplayer"]).op \in PlayOps
  BY DEF PlayerWorks, StartLocked, PauseLocked, SeekLocked, SeekPausesPlayer,
     SeekCallsDemux, CallPlayer, At, PlayOps
<1>2. ctx.mStatus \in Playable
  <2>1. todo["xplayer"] \in Seq(Steps) /\ todo["xplayer"] # << >>
    BY <1>1, ListTypes DEF Thread, Idle
  <2>2. Head(todo["xplayer"]).op \in Ops(todo["xplayer"])
    BY <2>1, FirstStep
  <2> QED BY <1>1, <2>2 DEF Protocol, Commanding
<1>3. Head(todo["xplayer"]).op \notin Waits
  BY <1>1 DEF PlayOps, Waits
<1>4. /\ ~ Asked(Requests) /\ ~ Closing /\ reply = "none"
      /\ ~ demux.bStopping /\ ~ demux.bCancelSeek
  BY <1>3, NotWaiting
<1>5. /\ ctx'.mStatus \in Playable /\ reply' = reply
      /\ demux'.pParser = demux.pParser
      /\ ~ demux'.bStopping /\ ~ demux'.bCancelSeek
  <2>1. ctx \in Contexts /\ demux \in Demuxes
    BY DEF Types
  <2>2. CASE StartLocked
    BY <1>2, <1>4, <2>1, <2>2 DEF StartLocked, StartWhenStarted, StartWhenSeeking,
       StartWhenComplete, StartOtherwise, SeekToSet, Contexts, Demuxes, Playable
  <2>3. CASE PauseLocked \/ SeekLocked
    BY <1>2, <1>4, <2>1, <2>3 DEF PauseLocked, SeekLocked, Contexts, Playable
  <2>4. CASE SeekPausesPlayer \/ SeekCallsDemux \/ CallPlayer
    BY <1>2, <1>4, <2>1, <2>4 DEF SeekPausesPlayer, SeekCallsDemux, CallPlayer, SeekToSet,
       Demuxes, xplayerVars
  <2> QED BY <2>2, <2>3, <2>4 DEF PlayerWorks
<1>6. SameRequests
  <2> DEFINE m == [Message("SEEK") EXCEPT !.time = ctx.mSeekTime]
  <2>1. m \in Messages /\ m.id = "SEEK"
    BY SeekMessage
  <2> HIDE DEF m
  <2>2. CASE Post("demux", m)
    BY <1>3, <2>1, <2>2, SeekPosted DEF Requests, MessageIds
  <2>3. CASE mq'["demux"] = mq["demux"]
    BY <2>3, QueueSame DEF Protocol
  <2>4. Post("demux", m) \/ mq'["demux"] = mq["demux"]
    <3>1. mq \in [Thread -> Seq(Messages)]
      BY DEF Types
    <3> QED BY <3>1 DEF m, PlayerWorks, StartLocked, StartWhenStarted, StartWhenSeeking,
       StartWhenComplete, StartOtherwise, PauseLocked, SeekLocked, SeekPausesPlayer,
       SeekCallsDemux, CallPlayer, Thread
  <2> QED BY <2>2, <2>3, <2>4
<1>7. PICK steps \in Seq(Steps) :
              /\ Proceed("xplayer", steps) /\ InOrder(steps) /\ ~ Quits(steps)
              /\ Ops(steps) \subseteq {"playerStart", "demuxStart", "unlock", "status"}
              /\ Ops(steps) # {} => At("xplayer", "start")
  BY PlayerSteps
<1>8. todo'["xplayer"] = steps \o Tail(todo["xplayer"]) /\ todo'["demux"] = todo["demux"]
  BY <1>1, <1>7, Proceeded DEF Thread
<1>9. QuietFront
  BY <1>4, <1>5, <1>6, <1>8 DEF QuietFront
<1> QED BY <1>1, <1>5, <1>7, <1>8, <1>9, PlayKeeps DEF At

\* The player is stopped, and the status changes.
LEMMA StoppedKeeps ==
    ASSUME Types, Protocol, (CallPlayer /\ At("xplayer", "playerStop")) \/ ChangeStatus
    PROVE  Protocol'
<1> DEFINE s == todo["xplayer"]
           r == Tail(s)
<1>1. /\ ~ Idle("xplayer") /\ Head(s).op \in {"playerStop", "status"}
      /\ Proceed("xplayer", << >>) /\ mq' = mq /\ demux' = demux /\ reply' = reply
  BY DEF CallPlayer, ChangeStatus, At
<1>2. s \in Seq(Steps) /\ s # << >> /\ InOrder(s)
  BY <1>1, ListTypes DEF Thread, Protocol, Commanding, Idle
<1>3. /\ InOrder(r) /\ \A op \in Ops(r) : Place(Head(s).op) < Place(op)
      /\ Ops(s) = {Head(s).op} \union Ops(r)
      /\ r \in Seq(Steps) /\ Head(s) \in Steps
      /\ Quits(s) <=> \/ Head(s).op = "status" /\ Head(s).status # "STARTED"
                      \/ Quits(r)
  <2> HIDE DEF s
  <2> QED BY <1>2, FirstStep, FirstInOrder
<1>4. todo'["xplayer"] = r /\ todo'["demux"] = todo["demux"]
  BY <1>1, StepDone
<1>5. /\ ~ Asked(Requests) /\ ~ Closing /\ reply = "none"
      /\ ~ demux.bStopping /\ ~ demux.bCancelSeek
  BY <1>1, NotWaiting DEF Waits
<1>6. QuietFront
  BY <1>1, <1>4, <1>5, QueueSame DEF QuietFront, Protocol
<1>7. /\ Turns' /\ Flags'
      /\ Shut' <=> Shut
      /\ ~ Asked(Closes)
      /\ ~ Preparing => Preparation'
      /\ Preparing => \/ Ops(s) \subseteq {"answer"} \/ "demuxCancelPrepare" \in Ops(s)
  <2>1. /\ Turns' /\ Flags'
        /\ Preparing' <=> Preparing
        /\ Shut' <=> Shut
        /\ ~ Asked(Closes)' /\ ~ Closing' /\ ~ Asked(Closes)
        /\ Preparing => ctx.mStatus = "PREPARING"
        /\ /\ Preparing => /\ ctx'.mStatus = "PREPARING"
                           /\ \/ Ops(todo'["xplayer"]) \subseteq {"answer"}
                              \/ "demuxCancelPrepare" \in Ops(todo'["xplayer"])
           => Preparation'
        /\ Preparing => \/ Ops(todo["xplayer"]) \subseteq {"answer"}
                        \/ "demuxCancelPrepare" \in Ops(todo["xplayer"])
    BY <1>6, QuietKeeps
  <2> QED BY <2>1
<1>8. \A op \in {"demuxCancelPrepare", "demuxStop", "demuxClear", "sourceSet", "start",
                 "playerStop"} : op \notin Ops(r)
  <2>1. \A op \in {"demuxCancelPrepare", "demuxStop", "demuxClear", "sourceSet", "start",
                   "playerStop"} : Place(op) \in 0 .. 6
    BY DEF Place, Waits
  <2>2. Place(Head(s).op) \in {6, 7}
    BY <1>1 DEF Place, Waits
  <2> QED BY <1>3, <2>1, <2>2
<1>9. ~ Preparing
  BY <1>1, <1>3, <1>7, <1>8
<1>10. Quits(s) => Shut /\ Ops(s) \subseteq StopOps
  BY <1>1, <1>3, <1>5, <1>7, <1>8 DEF Protocol, Commanding
<1> HIDE DEF r
<1>11. CASE CallPlayer /\ At("xplayer", "playerStop")
  <2>1. player'.eStatus = "STOPPED" /\ ctx' = ctx
    <3>1. At("xplayer", "playerStart") => FALSE
      BY <1>11 DEF At
    <3> QED BY <1>11, <3>1 DEF CallPlayer, PlayerStopped
  <2>2. Quits(r) => Quits(s)
    BY <1>3
  <2>3. \A op \in Ops(r) : op \in Ops(s)
    BY <1>3
  <2>4. Commanding'
    BY <1>3, <1>4, <1>7, <1>8, <1>10, <2>1, <2>2, <2>3 DEF Protocol, Commanding
  <2> QED BY <1>7, <1>9, <2>4 DEF Protocol
<1>12. CASE ChangeStatus
  <2>1. ctx'.mStatus = Head(s).status /\ player' = player /\ Head(s).op = "status"
    BY <1>12 DEF ChangeStatus, At, Types, Contexts
  <2>2. ~ Quits(r)
    <3>1. Place("status") = 7
      BY DEF Place, Waits
    <3>2. "status" \notin Ops(r)
      BY <1>3, <2>1, <3>1
    <3> QED BY <3>2, Kinds
  <2>3. CASE Quits(s)
    <3>1. \A op \in Ops(r) : op \in StopOps
      BY <1>3, <1>10, <2>3
    <3>2. \A op \in PlayOps : op \notin Ops(r)
      BY <3>1 DEF StopOps, PlayOps
    <3>3. player.eStatus = "STOPPED"
      BY <1>3, <1>8, <2>1, <2>3 DEF Protocol, Commanding
    <3>4. Commanding'
      BY <1>3, <1>4, <1>7, <1>8, <1>10, <2>1, <2>2, <2>3, <3>2, <3>3 DEF Commanding
    <3> QED BY <1>7, <1>9, <3>4 DEF Protocol
  <2>4. CASE ~ Quits(s)
    <3>1. ctx'.mStatus = "STARTED"
      BY <1>3, <2>1, <2>4
    <3>2. Commanding'
      BY <1>3, <1>4, <1>8, <2>2, <3>1 DEF Commanding, Stopped, Playable
    <3> QED BY <1>7, <1>9, <3>2 DEF Protocol
  <2> QED BY <2>3, <2>4
<1> QED BY <1>11, <1>12

-----------------------------------------------------------------------------
(* The commands that the xplayer thread takes.                             *)

\* A part of a command.
Part(steps, ops) ==
    steps \in Seq(Steps) /\ InOrder(steps) /\ Ops(steps) \subseteq ops

LEMMA JoinedParts ==
    ASSUME NEW a, NEW b, NEW A, NEW B, Part(a, A), Part(b, B),
           \A x \in A, y \in B : Place(x) < Place(y)
    PROVE  /\ Part(a \o b, A \union B)
           /\ Ops(a \o b) = Ops(a) \union Ops(b)
           /\ Quits(a \o b) <=> Quits(a) \/ Quits(b)
<1>1. a \in Seq(Steps) /\ b \in Seq(Steps) /\ InOrder(a) /\ InOrder(b)
      /\ \A x \in Ops(a), y \in Ops(b) : Place(x) < Place(y)
  BY DEF Part
<1>2. InOrder(a \o b)
  BY <1>1, JoinedInOrder
<1>3. /\ a \o b \in Seq(Steps) /\ Ops(a \o b) = Ops(a) \union Ops(b)
      /\ Quits(a \o b) <=> Quits(a) \/ Quits(b)
  BY <1>1, JoinedSteps
<1> QED BY <1>2, <1>3 DEF Part

LEMMA NoPart == Part(<< >>, {}) /\ Ops(<< >>) = {} /\ ~ Quits(<< >>)
  BY FewOps, FewInOrder, Kinds DEF Part

LEMMA OnePart ==
    ASSUME NEW a \in Steps, a.op # "status"
    PROVE  Part(<< a >>, {a.op}) /\ Ops(<< a >>) = {a.op} /\ ~ Quits(<< a >>)
<1>1. << a >> \in Seq(Steps) /\ Ops(<< a >>) = {a.op}
  BY FewOps, Zenon
<1>2. InOrder(<< a >>)
  BY FewInOrder, Zenon
<1>3. ~ Quits(<< a >>)
  BY <1>1, Kinds
<1> QED BY <1>1, <1>2, <1>3 DEF Part

LEMMA AnswerPart ==
    ASSUME NEW m, NEW ok \in BOOLEAN
    PROVE  Part(Answer(m, ok), {"answer"}) /\ ~ Quits(Answer(m, ok))
<1> DEFINE a == [op |-> "answer", ok |-> ok]
<1>1. a \in Steps /\ a.op = "answer"
  BY DEF Steps
<1>2. Answer(m, ok) \in {<< >>, << a >>}
  BY DEF Answer, Only
<1> HIDE DEF a
<1>3. Part(<< a >>, {a.op}) /\ ~ Quits(<< a >>)
  BY <1>1, OnePart
<1>4. Part(<< >>, {"answer"}) /\ ~ Quits(<< >>)
  BY NoPart DEF Part
<1> QED BY <1>1, <1>2, <1>3, <1>4

LEMMA CancelPart ==
    Part(CancelIfSeeking, {"demuxCancelSeek", "notSeeking"}) /\ ~ Quits(CancelIfSeeking)
<1> DEFINE a == Step("demuxCancelSeek")
           b == Step("notSeeking")
<1>1. a \in Steps /\ b \in Steps /\ a.op = "demuxCancelSeek" /\ b.op = "notSeeking"
  BY PlainSteps DEF PlainOps, Step
<1>2. Place(a.op) < Place(b.op)
  BY <1>1 DEF Place, Waits
<1>3. CancelIfSeeking \in {<< >>, << a, b >>}
  BY DEF CancelIfSeeking, Only
<1> HIDE DEF a, b
<1>4. << a, b >> \in Seq(Steps) /\ Ops(<< a, b >>) = {a.op, b.op}
  BY <1>1, FewOps, Zenon
<1>5. InOrder(<< a, b >>)
  BY <1>2, FewInOrder, Zenon
<1>6. Part(<< a, b >>, {"demuxCancelSeek", "notSeeking"}) /\ ~ Quits(<< a, b >>)
  BY <1>1, <1>4, <1>5, Kinds DEF Part
<1>7. Part(<< >>, {"demuxCancelSeek", "notSeeking"}) /\ ~ Quits(<< >>)
  BY NoPart DEF Part
<1> QED BY <1>3, <1>6, <1>7

\* The last steps of a stop and of a reset.
LEMMA StopPart ==
    /\ LET l == << Step("demuxStop"), Step("playerStop"), SetStatus("STOPPED") >>
       IN  /\ Part(l, {"demuxStop", "playerStop", "status"})
           /\ "demuxStop" \in Ops(l) /\ "playerStop" \in Ops(l)
    /\ LET l == << Step("demuxStop"), Step("demuxClear"), Step("playerStop"), SetStatus("IDLE") >>
       IN  /\ Part(l, {"demuxStop", "demuxClear", "playerStop", "status"})
           /\ "demuxStop" \in Ops(l) /\ "playerStop" \in Ops(l) /\ Quits(l)
<1> DEFINE a == Step("demuxStop")
           b == Step("demuxClear")
           c == Step("playerStop")
           d == SetStatus("STOPPED")
           e == SetStatus("IDLE")
<1>1. /\ a \in Steps /\ b \in Steps /\ c \in Steps /\ d \in Steps /\ e \in Steps
      /\ a.op = "demuxStop" /\ b.op = "demuxClear" /\ c.op = "playerStop"
      /\ d.op = "status" /\ e.op = "status" /\ e.status = "IDLE"
  BY PlainSteps DEF PlainOps, Step, SetStatus, Steps, Statuses
<1>2. /\ Place(a.op) = 4 /\ Place(b.op) = 5 /\ Place(c.op) = 6
      /\ Place(d.op) = 7 /\ Place(e.op) = 7
  BY <1>1 DEF Place, Waits
<1>3. /\ \A x \in Steps : \A y \in Steps : \A z \in Steps :
           << x, y, z >> \in Seq(Steps) /\ Ops(<< x, y, z >>) = {x.op, y.op, z.op}
      /\ \A x \in Steps : \A y \in Steps : \A z \in Steps : \A w \in Steps :
           /\ << x, y, z, w >> \in Seq(Steps)
           /\ Ops(<< x, y, z, w >>) = {x.op, y.op, z.op, w.op}
  BY FewOps, Zenon
<1>4. e \in Elements(<< a, b, c, e >>)
  BY DEF Elements
<1> HIDE DEF a, b, c, d, e
<1>5. << a, c, d >> \in Seq(Steps) /\ Ops(<< a, c, d >>) = {a.op, c.op, d.op}
  BY <1>1, <1>3
<1>6. << a, b, c, e >> \in Seq(Steps) /\ Ops(<< a, b, c, e >>) = {a.op, b.op, c.op, e.op}
  BY <1>1, <1>3
<1>7. InOrder(<< a, c, d >>) /\ InOrder(<< a, b, c, e >>)
  BY <1>2, FewInOrder, Zenon
<1>8. Quits(<< a, b, c, e >>)
  BY <1>1, <1>4 DEF Quits
<1>9. /\ Part(<< a, c, d >>, {"demuxStop", "playerStop", "status"})
      /\ "demuxStop" \in Ops(<< a, c, d >>) /\ "playerStop" \in Ops(<< a, c, d >>)
  BY <1>1, <1>5, <1>7 DEF Part
<1>10. /\ Part(<< a, b, c, e >>, {"demuxStop", "demuxClear", "playerStop", "status"})
       /\ "demuxStop" \in Ops(<< a, b, c, e >>) /\ "playerStop" \in Ops(<< a, b, c, e >>)
  BY <1>1, <1>6, <1>7 DEF Part
<1> QED BY <1>8, <1>9, <1>10 DEF a, b, c, d, e

\* The thread begins a command.
LEMMA BeginsKeeps ==
    ASSUME Types, Protocol, QuietFront, Idle("xplayer"),
           NEW steps \in Seq(Steps), todo'["xplayer"] = steps, InOrder(steps),
           player' = player,
           \/ ctx'.mStatus = ctx.mStatus
           \/ ctx'.mStatus \in Stopped /\ ctx.mStatus \in Stopped,
           ctx.mStatus = "PREPARING" => \/ Ops(steps) \subseteq {"answer"}
                                        \/ "demuxCancelPrepare" \in Ops(steps),
           (\E op \in PlayOps : op \in Ops(steps)) => ctx'.mStatus \in Playable,
           "sourceSet" \notin Ops(steps),
           "demuxClear" \in Ops(steps) => Quits(steps),
           "start" \in Ops(steps) => Ops(steps) \subseteq {"start", "answer"},
           Quits(steps) => /\ Ops(steps) \subseteq StopOps
                           /\ "demuxStop" \in Ops(steps) /\ "playerStop" \in Ops(steps)
    PROVE  Protocol'
<1>1. /\ Turns' /\ Flags'
      /\ Preparing' <=> Preparing
      /\ Shut' <=> Shut
      /\ ~ Asked(Closes)' /\ ~ Closing' /\ ~ Asked(Closes)
      /\ Preparing => ctx.mStatus = "PREPARING"
      /\ /\ Preparing => /\ ctx'.mStatus = "PREPARING"
                         /\ \/ Ops(todo'["xplayer"]) \subseteq {"answer"}
                            \/ "demuxCancelPrepare" \in Ops(todo'["xplayer"])
         => Preparation'
      /\ Preparing => \/ Ops(todo["xplayer"]) \subseteq {"answer"}
                      \/ "demuxCancelPrepare" \in Ops(todo["xplayer"])
  BY QuietKeeps
<1>2. Preparation'
  BY <1>1 DEF Stopped
<1>3. Commanding'
  BY <1>1 DEF Protocol, Commanding
<1> QED BY <1>1, <1>2, <1>3 DEF Protocol

LEMMA Handled ==
    ASSUME Types, Protocol, NEW id, NEW steps \in Seq(Steps), Handle(id, steps)
    PROVE  /\ Idle("xplayer") /\ QuietFront /\ player' = player
           /\ todo' \in [Thread -> Seq(Steps)] /\ todo'["xplayer"] = steps
           /\ todo'["demux"] = todo["demux"] /\ todo'["cache"] = todo["cache"]
           /\ mq' \in [Thread -> Seq(Messages)] /\ mq'["cache"] = mq["cache"]
<1>1. /\ Idle("xplayer") /\ mq["xplayer"] # << >> /\ mq' = [mq EXCEPT !["xplayer"] = Tail(@)]
      /\ Does("xplayer", steps)
      /\ demux' = demux /\ reply' = reply /\ player' = player
  BY DEF Handle, Take
<1>2. /\ mq'["demux"] = mq["demux"] /\ mq'["cache"] = mq["cache"]
      /\ mq' \in [Thread -> Seq(Messages)]
  BY <1>1, Taken DEF Thread
<1>3. /\ todo'["xplayer"] = steps /\ todo'["demux"] = todo["demux"]
      /\ todo'["cache"] = todo["cache"] /\ todo' \in [Thread -> Seq(Steps)]
  BY <1>1, Begun DEF Thread
<1>4. /\ ~ Asked(Requests) /\ ~ Closing /\ reply = "none"
      /\ ~ demux.bStopping /\ ~ demux.bCancelSeek
  BY <1>1, NotWaiting
<1>5. SameRequests
  BY <1>2, QueueSame DEF Protocol
<1>6. QuietFront
  BY <1>1, <1>3, <1>4, <1>5 DEF QuietFront
<1> QED BY <1>1, <1>2, <1>3, <1>6

\* What the thread does for a command.
StartSteps ==
    IF ctx.mStatus \in Playable THEN << Step("start") >> \o Answer(Received, TRUE)
                                ELSE Answer(Received, FALSE)

PauseSteps ==
    IF ctx.mStatus \in {"STARTED", "COMPLETE"}
      THEN << Step("pause") >> \o Answer(Received, TRUE)
      ELSE Answer(Received, ctx.mStatus = "PAUSED")

StopSteps ==
    IF ctx.mStatus \in Playable
      THEN CancelIfSeeking \o << Step("demuxStop"), Step("playerStop"),
                                 SetStatus("STOPPED") >> \o Answer(Received, TRUE)
      ELSE Answer(Received, ctx.mStatus = "STOPPED")

ResetSteps ==
    (IF ctx.mStatus = "STOPPED" THEN << >>
     ELSE Only(ctx.mStatus = "PREPARING", << Step("demuxCancelPrepare") >>)
          \o CancelIfSeeking
          \o << Step("demuxStop"), Step("demuxClear"), Step("playerStop"),
                SetStatus("IDLE") >>)
    \o Answer(Received, TRUE)

SeekSteps ==
    IF ctx.mStatus \notin Playable THEN Answer(Received, FALSE)
    ELSE IF ctx.mStatus = "COMPLETE"
      THEN << Timed("seekTime", Received.time) >> \o Answer(Received, TRUE)
    ELSE Only(ctx.bSeekable,
              CancelIfSeeking \o << Timed("seek", Received.time), Step("seekPlayer"),
                                    Step("seekDemux") >>)
         \o Answer(Received, TRUE)

LEMMA Places ==
    /\ \A x \in {"start", "pause", "seekTime"} : Place(x) < Place("answer")
    /\ \A x \in {"demuxCancelSeek", "notSeeking"} : \A y \in {"demuxStop", "demuxClear",
         "playerStop", "status", "seek", "seekPlayer", "seekDemux"} : Place(x) < Place(y)
    /\ \A x \in {"demuxCancelPrepare", "demuxCancelSeek", "notSeeking", "demuxStop", "demuxClear",
         "playerStop", "status", "seek", "seekPlayer", "seekDemux"} : Place(x) < Place("answer")
    /\ \A x \in {"demuxCancelSeek", "notSeeking", "demuxStop", "demuxClear",
         "playerStop", "status"} : Place("demuxCancelPrepare") < Place(x)
  BY DEF Place, Waits

LEMMA StartKeeps ==
    ASSUME Types, Protocol, StartPlayer \/ PausePlayer
    PROVE  /\ Protocol'
           /\ \E steps \in Seq(Steps), id \in MessageIds :
                 Handle(id, steps) /\ Ops(steps) \subseteq FrontOps
<1>1. /\ Part(Answer(Received, TRUE), {"answer"}) /\ ~ Quits(Answer(Received, TRUE))
      /\ \A ok \in BOOLEAN : Part(Answer(Received, ok), {"answer"}) /\ ~ Quits(Answer(Received, ok))
  BY AnswerPart
<1>2. (ctx.mStatus = "PAUSED") \in BOOLEAN
  OBVIOUS
<1>3. ASSUME NEW op \in {"start", "pause"}
      PROVE  LET l == << Step(op) >> \o Answer(Received, TRUE)
             IN  Part(l, {op, "answer"}) /\ ~ Quits(l)
  <2> DEFINE a == << Step(op) >>
             b == Answer(Received, TRUE)
  <2>1. Step(op) \in Steps /\ Step(op).op = op /\ op # "status"
    BY PlainSteps DEF PlainOps, Step
  <2>2. Part(a, {op}) /\ ~ Quits(a)
    <3> DEFINE e == Step(op)
    <3> HIDE DEF e
    <3>1. e \in Steps /\ e.op = op /\ e.op # "status"
      BY <2>1 DEF e
    <3>2. Part(<< e >>, {e.op}) /\ ~ Quits(<< e >>)
      BY <3>1, OnePart
    <3> QED BY <3>1, <3>2 DEF e
  <2>3. Part(b, {"answer"}) /\ ~ Quits(b)
    BY <1>1
  <2> HIDE DEF a, b
  <2>4. \A x \in {op}, y \in {"answer"} : Place(x) < Place(y)
    BY Places
  <2>5. /\ Part(a \o b, {op} \union {"answer"})
        /\ Quits(a \o b) <=> Quits(a) \/ Quits(b)
    BY <2>2, <2>3, <2>4, JoinedParts
  <2>6. {op} \union {"answer"} = {op, "answer"}
    OBVIOUS
  <2> QED BY <2>2, <2>3, <2>5, <2>6 DEF a, b
<1>4. PICK steps : /\ \/ StartPlayer /\ steps = StartSteps
                      \/ PausePlayer /\ steps = PauseSteps
  OBVIOUS
<1>5. /\ steps \in Seq(Steps) /\ InOrder(steps) /\ ~ Quits(steps)
      /\ \/ Ops(steps) \subseteq {"answer"}
         \/ ctx.mStatus \in Playable /\ Ops(steps) \subseteq {"start", "answer"}
         \/ ctx.mStatus \in Playable /\ Ops(steps) \subseteq {"pause", "answer"}
  <2>1. CASE steps = StartSteps
    BY <1>1, <1>3, <2>1 DEF StartSteps, Part
  <2>2. CASE steps = PauseSteps
    BY <1>1, <1>2, <1>3, <2>2 DEF PauseSteps, Part, Playable
  <2> QED BY <1>4, <2>1, <2>2
<1>6. /\ Handle("START", steps) \/ Handle("PAUSE", steps)
      /\ ctx' = ctx
  BY <1>4 DEF StartPlayer, PausePlayer, StartSteps, PauseSteps
<1>7. /\ Idle("xplayer") /\ QuietFront /\ player' = player
      /\ todo'["xplayer"] = steps
  BY <1>5, <1>6, Handled
<1>8. ctx.mStatus = "PREPARING" => Ops(steps) \subseteq {"answer"}
  BY <1>5 DEF Playable
<1>9. (\E op \in PlayOps : op \in Ops(steps)) => ctx'.mStatus \in Playable
  BY <1>5, <1>6 DEF PlayOps
<1>10. /\ "sourceSet" \notin Ops(steps) /\ "demuxClear" \notin Ops(steps)
       /\ "start" \in Ops(steps) => Ops(steps) \subseteq {"start", "answer"}
  BY <1>5
<1>11. Protocol'
  BY <1>5, <1>6, <1>7, <1>8, <1>9, <1>10, BeginsKeeps
<1>12. Ops(steps) \subseteq FrontOps
  BY <1>5 DEF FrontOps, StopOps, PlayOps
<1> QED BY <1>5, <1>6, <1>11, <1>12 DEF MessageIds

\* A stop cancels the seek, stops the demux and the player, and answers.
LEMMA StopForms ==
    LET l == CancelIfSeeking \o << Step("demuxStop"), Step("playerStop"),
                                   SetStatus("STOPPED") >> \o Answer(Received, TRUE)
    IN  /\ Part(l, StopOps \ {"demuxClear", "demuxCancelPrepare"})
        /\ "demuxStop" \in Ops(l) /\ "playerStop" \in Ops(l)
<1> DEFINE c == CancelIfSeeking
           d == << Step("demuxStop"), Step("playerStop"), SetStatus("STOPPED") >>
           a == Answer(Received, TRUE)
           C == {"demuxCancelSeek", "notSeeking"}
           D == {"demuxStop", "playerStop", "status"}
<1>1. /\ Part(c, C) /\ Part(d, D) /\ Part(a, {"answer"})
      /\ "demuxStop" \in Ops(d) /\ "playerStop" \in Ops(d)
  BY CancelPart, StopPart, AnswerPart
<1>2. /\ \A x \in C, y \in D : Place(x) < Place(y)
      /\ \A x \in C \union D, y \in {"answer"} : Place(x) < Place(y)
  BY Places
<1>3. C \union D \union {"answer"} \subseteq StopOps \ {"demuxClear", "demuxCancelPrepare"}
  BY DEF StopOps
<1> HIDE DEF c, d, a, C, D
<1>4. Part(c \o d, C \union D) /\ Ops(c \o d) = Ops(c) \union Ops(d)
  BY <1>1, <1>2, JoinedParts
<1>5. /\ Part(c \o d \o a, C \union D \union {"answer"})
      /\ Ops(c \o d \o a) = Ops(c \o d) \union Ops(a)
  BY <1>1, <1>2, <1>4, JoinedParts
<1>6. /\ Part(c \o d \o a, StopOps \ {"demuxClear", "demuxCancelPrepare"})
      /\ "demuxStop" \in Ops(c \o d \o a) /\ "playerStop" \in Ops(c \o d \o a)
  BY <1>1, <1>3, <1>4, <1>5 DEF Part
<1> QED BY <1>6 DEF c, d, a

LEMMA StopKeeps ==
    ASSUME Types, Protocol, StopPlayer
    PROVE  /\ Protocol'
           /\ \E steps \in Seq(Steps), id \in MessageIds :
                 Handle(id, steps) /\ Ops(steps) \subseteq FrontOps
<1>1. PICK steps : steps = StopSteps
  OBVIOUS
<1>2. Handle("STOP", steps) /\ ctx' = ctx
  BY <1>1 DEF StopPlayer, StopSteps
<1>3. \/ /\ ctx.mStatus \in Playable
         /\ Part(steps, StopOps \ {"demuxClear", "demuxCancelPrepare"})
         /\ "demuxStop" \in Ops(steps) /\ "playerStop" \in Ops(steps)
      \/ Part(steps, {"answer"}) /\ ~ Quits(steps)
  <2>1. CASE ctx.mStatus \in Playable
    BY <1>1, <2>1, StopForms DEF StopSteps
  <2>2. CASE ctx.mStatus \notin Playable
    <3>1. steps = Answer(Received, ctx.mStatus = "STOPPED")
      BY <1>1, <2>2 DEF StopSteps
    <3>2. (ctx.mStatus = "STOPPED") \in BOOLEAN
      OBVIOUS
    <3> QED BY <3>1, <3>2, AnswerPart
  <2> QED BY <2>1, <2>2
<1>4. steps \in Seq(Steps) /\ InOrder(steps)
  BY <1>3 DEF Part
<1>5. /\ Idle("xplayer") /\ QuietFront /\ player' = player
      /\ todo'["xplayer"] = steps
  BY <1>2, <1>4, Handled
<1>6. ctx.mStatus = "PREPARING" => Ops(steps) \subseteq {"answer"}
  BY <1>3 DEF Part, Playable
<1>7. /\ \A op \in PlayOps : op \notin Ops(steps)
      /\ "sourceSet" \notin Ops(steps) /\ "demuxClear" \notin Ops(steps)
      /\ "start" \notin Ops(steps)
  BY <1>3 DEF Part, StopOps, PlayOps
<1>8. Quits(steps) => /\ Ops(steps) \subseteq StopOps
                      /\ "demuxStop" \in Ops(steps) /\ "playerStop" \in Ops(steps)
  BY <1>3 DEF Part
<1>9. Protocol'
  BY <1>2, <1>4, <1>5, <1>6, <1>7, <1>8, BeginsKeeps
<1>10. Ops(steps) \subseteq FrontOps
  BY <1>3 DEF Part, FrontOps, StopOps
<1> QED BY <1>2, <1>4, <1>9, <1>10 DEF MessageIds

\* A reset also cancels a preparation and clears the demux.
LEMMA ResetForms ==
    LET l == Only(ctx.mStatus = "PREPARING", << Step("demuxCancelPrepare") >>)
             \o CancelIfSeeking
             \o << Step("demuxStop"), Step("demuxClear"), Step("playerStop"),
                   SetStatus("IDLE") >>
             \o Answer(Received, TRUE)
    IN  /\ Part(l, StopOps) /\ Quits(l)
        /\ "demuxStop" \in Ops(l) /\ "playerStop" \in Ops(l)
        /\ ctx.mStatus = "PREPARING" => "demuxCancelPrepare" \in Ops(l)
<1> DEFINE p == Only(ctx.mStatus = "PREPARING", << Step("demuxCancelPrepare") >>)
           c == CancelIfSeeking
           d == << Step("demuxStop"), Step("demuxClear"), Step("playerStop"),
                   SetStatus("IDLE") >>
           a == Answer(Received, TRUE)
           P == {"demuxCancelPrepare"}
           C == {"demuxCancelSeek", "notSeeking"}
           D == {"demuxStop", "demuxClear", "playerStop", "status"}
<1>1. /\ Part(c, C) /\ Part(d, D) /\ Part(a, {"answer"})
      /\ "demuxStop" \in Ops(d) /\ "playerStop" \in Ops(d) /\ Quits(d)
  BY CancelPart, StopPart, AnswerPart
<1>2. Part(p, P) /\ (ctx.mStatus = "PREPARING" => "demuxCancelPrepare" \in Ops(p))
  <2> DEFINE e == Step("demuxCancelPrepare")
  <2>1. e \in Steps /\ e.op = "demuxCancelPrepare"
    BY PlainSteps DEF PlainOps, Step
  <2>2. p = IF ctx.mStatus = "PREPARING" THEN << e >> ELSE << >>
    BY DEF Only
  <2> HIDE DEF e, p
  <2>3. Part(<< e >>, {e.op}) /\ Ops(<< e >>) = {e.op}
    BY <2>1, OnePart
  <2>4. Part(<< >>, P)
    BY NoPart DEF Part
  <2> QED BY <2>1, <2>2, <2>3, <2>4
<1>3. /\ \A x \in P, y \in C : Place(x) < Place(y)
      /\ \A x \in P \union C, y \in D : Place(x) < Place(y)
      /\ \A x \in P \union C \union D, y \in {"answer"} : Place(x) < Place(y)
  BY Places
<1>4. P \union C \union D \union {"answer"} \subseteq StopOps
  BY DEF StopOps
<1> HIDE DEF p, c, d, a, P, C, D
<1>5. Part(p \o c, P \union C) /\ Ops(p \o c) = Ops(p) \union Ops(c)
  BY <1>1, <1>2, <1>3, JoinedParts
<1>6. /\ Part(p \o c \o d, P \union C \union D)
      /\ Ops(p \o c \o d) = Ops(p \o c) \union Ops(d)
      /\ Quits(p \o c \o d) <=> Quits(p \o c) \/ Quits(d)
  BY <1>1, <1>3, <1>5, JoinedParts
<1>7. /\ Part(p \o c \o d \o a, P \union C \union D \union {"answer"})
      /\ Ops(p \o c \o d \o a) = Ops(p \o c \o d) \union Ops(a)
      /\ Quits(p \o c \o d \o a) <=> Quits(p \o c \o d) \/ Quits(a)
  <2> DEFINE k == p \o c \o d
             K == P \union C \union D
             L == {"answer"}
  <2>1. Part(k, K) /\ Part(a, L)
    BY <1>1, <1>6 DEF L
  <2>3. \A x \in K, y \in L : Place(x) < Place(y)
    BY <1>3
  <2> HIDE DEF k, K, L
  <2>4. k \in Seq(Steps) /\ a \in Seq(Steps)
    BY <2>1 DEF Part
  <2>5. Quits(k \o a) <=> Quits(k) \/ Quits(a)
    BY <2>4, JoinedSteps
  <2>6. Part(k \o a, K \union L)
    BY <2>1, <2>3, JoinedParts
  <2>7. Ops(k \o a) = Ops(k) \union Ops(a)
    BY <2>4, JoinedSteps
  <2> QED BY <2>5, <2>6, <2>7 DEF k, K, L
<1>8. /\ Part(p \o c \o d \o a, StopOps) /\ Quits(p \o c \o d \o a)
      /\ "demuxStop" \in Ops(p \o c \o d \o a) /\ "playerStop" \in Ops(p \o c \o d \o a)
      /\ ctx.mStatus = "PREPARING" => "demuxCancelPrepare" \in Ops(p \o c \o d \o a)
  BY <1>1, <1>2, <1>4, <1>5, <1>6, <1>7 DEF Part
<1> QED BY <1>8 DEF p, c, d, a

LEMMA ResetKeeps ==
    ASSUME Types, Protocol, ResetPlayer
    PROVE  /\ Protocol'
           /\ \E steps \in Seq(Steps), id \in MessageIds :
                 Handle(id, steps) /\ Ops(steps) \subseteq FrontOps
<1>1. PICK steps : steps = ResetSteps
  OBVIOUS
<1>2. Handle("RESET", steps)
  BY <1>1 DEF ResetPlayer, ResetSteps
<1>3. \/ /\ Part(steps, StopOps) /\ Quits(steps)
         /\ "demuxStop" \in Ops(steps) /\ "playerStop" \in Ops(steps)
         /\ ctx.mStatus = "PREPARING" => "demuxCancelPrepare" \in Ops(steps)
      \/ Part(steps, {"answer"}) /\ ~ Quits(steps)
  <2>1. CASE ctx.mStatus # "STOPPED"
    BY <1>1, <2>1, ResetForms DEF ResetSteps
  <2>2. CASE ctx.mStatus = "STOPPED"
    <3> DEFINE a == Answer(Received, TRUE)
    <3>1. steps = << >> \o a
      BY <1>1, <2>2 DEF ResetSteps
    <3>2. Part(a, {"answer"}) /\ ~ Quits(a)
      BY AnswerPart
    <3> HIDE DEF a
    <3>3. a \in Seq(Steps)
      BY <3>2 DEF Part
    <3>4. << >> \o a = a
      BY <3>3
    <3> QED BY <3>1, <3>2, <3>4
  <2> QED BY <2>1, <2>2
<1>4. steps \in Seq(Steps) /\ InOrder(steps)
  BY <1>3 DEF Part
<1>5. /\ Idle("xplayer") /\ QuietFront /\ player' = player
      /\ todo'["xplayer"] = steps
  BY <1>2, <1>4, Handled
<1>6. \/ ctx'.mStatus = ctx.mStatus
      \/ ctx'.mStatus \in Stopped /\ ctx.mStatus \in Stopped
  BY DEF ResetPlayer, Stopped, Types, Contexts
<1>7. ctx.mStatus = "PREPARING" => \/ Ops(steps) \subseteq {"answer"}
                                   \/ "demuxCancelPrepare" \in Ops(steps)
  BY <1>3 DEF Part
<1>8. /\ \A op \in PlayOps : op \notin Ops(steps)
      /\ "sourceSet" \notin Ops(steps) /\ "start" \notin Ops(steps)
      /\ "demuxClear" \in Ops(steps) => Quits(steps)
  BY <1>3 DEF Part, StopOps, PlayOps
<1>9. Quits(steps) => /\ Ops(steps) \subseteq StopOps
                      /\ "demuxStop" \in Ops(steps) /\ "playerStop" \in Ops(steps)
  BY <1>3 DEF Part
<1>10. Protocol'
  BY <1>4, <1>5, <1>6, <1>7, <1>8, <1>9, BeginsKeeps
<1>11. Ops(steps) \subseteq FrontOps
  BY <1>3 DEF Part, FrontOps, StopOps
<1> QED BY <1>2, <1>4, <1>10, <1>11 DEF MessageIds

\* A seek cancels the one before it and goes to the player and the demux.
SeekNow == << Timed("seek", Received.time), Step("seekPlayer"), Step("seekDemux") >>

LEMMA SeekForms ==
    ASSUME Types, mq["xplayer"] # << >>
    PROVE  /\ LET l == << Timed("seekTime", Received.time) >> \o Answer(Received, TRUE)
              IN  Part(l, {"seekTime", "answer"}) /\ ~ Quits(l)
           /\ LET l == Only(ctx.bSeekable, CancelIfSeeking \o SeekNow) \o Answer(Received, TRUE)
              IN  /\ Part(l, {"demuxCancelSeek", "notSeeking", "seek", "seekPlayer", "seekDemux",
                              "answer"})
                  /\ ~ Quits(l)
<1> DEFINE t == Received.time
           a == Answer(Received, TRUE)
<1>1. t \in Times
  <2>1. mq["xplayer"] \in Seq(Messages)
    BY ListTypes DEF Thread
  <2>2. Received \in Messages
    BY <2>1, FirstElement DEF Received
  <2> QED BY <2>2 DEF Messages
<1>2. Part(a, {"answer"}) /\ ~ Quits(a)
  BY AnswerPart
<1> HIDE DEF a, t
<1>3. LET l == << Timed("seekTime", t) >> \o a
      IN  Part(l, {"seekTime", "answer"}) /\ ~ Quits(l)
  <2> DEFINE e == Timed("seekTime", t)
             b == << e >>
  <2>1. e \in Steps /\ e.op = "seekTime"
    BY <1>1, PlainSteps DEF Timed
  <2> HIDE DEF e
  <2>2. Part(b, {"seekTime"}) /\ ~ Quits(b)
    BY <2>1, OnePart
  <2> HIDE DEF b
  <2>3. \A x \in {"seekTime"}, y \in {"answer"} : Place(x) < Place(y)
    BY Places
  <2>4. Part(b \o a, {"seekTime"} \union {"answer"}) /\ (Quits(b \o a) <=> Quits(b) \/ Quits(a))
    BY <1>2, <2>2, <2>3, JoinedParts
  <2>5. {"seekTime"} \union {"answer"} = {"seekTime", "answer"}
    OBVIOUS
  <2> QED BY <1>2, <2>2, <2>4, <2>5 DEF b, e
<1>4. Part(SeekNow, {"seek", "seekPlayer", "seekDemux"}) /\ ~ Quits(SeekNow)
  <2> DEFINE e == Timed("seek", t)
             f == Step("seekPlayer")
             g == Step("seekDemux")
  <2>1. /\ e \in Steps /\ f \in Steps /\ g \in Steps
        /\ e.op = "seek" /\ f.op = "seekPlayer" /\ g.op = "seekDemux"
    BY <1>1, PlainSteps DEF Timed, Step, PlainOps
  <2>2. Place(e.op) = 4 /\ Place(f.op) = 5 /\ Place(g.op) = 6
    BY <2>1 DEF Place, Waits
  <2>3. SeekNow = << e, f, g >>
    BY DEF SeekNow, t
  <2> HIDE DEF e, f, g
  <2>4. \A x \in Steps : \A y \in Steps : \A z \in Steps :
           << x, y, z >> \in Seq(Steps) /\ Ops(<< x, y, z >>) = {x.op, y.op, z.op}
    BY FewOps, Zenon
  <2>5. << e, f, g >> \in Seq(Steps) /\ Ops(<< e, f, g >>) = {e.op, f.op, g.op}
    BY <2>1, <2>4
  <2>6. InOrder(<< e, f, g >>)
    BY <2>2, FewInOrder, Zenon
  <2>7. ~ Quits(<< e, f, g >>)
    BY <2>1, <2>5, Kinds
  <2> QED BY <2>1, <2>3, <2>5, <2>6, <2>7 DEF Part
<1>5. LET l == Only(ctx.bSeekable, CancelIfSeeking \o SeekNow) \o a
      IN  /\ Part(l, {"demuxCancelSeek", "notSeeking", "seek", "seekPlayer", "seekDemux",
                      "answer"})
          /\ ~ Quits(l)
  <2> DEFINE c == CancelIfSeeking
             s == SeekNow
             o == Only(ctx.bSeekable, CancelIfSeeking \o SeekNow)
             C == {"demuxCancelSeek", "notSeeking"}
             S == {"seek", "seekPlayer", "seekDemux"}
  <2>1. Part(c, C) /\ ~ Quits(c) /\ Part(s, S) /\ ~ Quits(s)
    BY <1>4, CancelPart
  <2>2. /\ \A x \in C, y \in S : Place(x) < Place(y)
        /\ \A x \in C \union S, y \in {"answer"} : Place(x) < Place(y)
    BY Places
  <2>3. C \union S \union {"answer"} =
           {"demuxCancelSeek", "notSeeking", "seek", "seekPlayer", "seekDemux", "answer"}
    OBVIOUS
  <2>4. o = c \o s \/ o = << >>
    BY DEF Only
  <2> HIDE DEF c, s, o, C, S
  <2>5. Part(c \o s, C \union S) /\ ~ Quits(c \o s)
    BY <2>1, <2>2, JoinedParts
  <2>6. Part(<< >>, C \union S) /\ ~ Quits(<< >>)
    BY NoPart DEF Part
  <2>7. Part(o, C \union S) /\ ~ Quits(o)
    BY <2>4, <2>5, <2>6
  <2>8. Part(o \o a, C \union S \union {"answer"}) /\ ~ Quits(o \o a)
    BY <1>2, <2>2, <2>7, JoinedParts
  <2> QED BY <2>3, <2>8 DEF o
<1> QED BY <1>3, <1>5 DEF t, a

LEMMA SeekPlayerKeeps ==
    ASSUME Types, Protocol, SeekPlayer
    PROVE  /\ Protocol'
           /\ \E steps \in Seq(Steps), id \in MessageIds :
                 Handle(id, steps) /\ Ops(steps) \subseteq FrontOps
<1>1. PICK steps : steps = SeekSteps
  OBVIOUS
<1>2. Handle("SEEK", steps) /\ ctx' = ctx
  BY <1>1 DEF SeekPlayer, SeekSteps
<1>3. mq["xplayer"] # << >>
  BY <1>2 DEF Handle, Take
<1>4. ~ Quits(steps) /\ \/ Part(steps, {"answer"})
                        \/ Part(steps, {"seekTime", "answer"}) /\ ctx.mStatus = "COMPLETE"
                        \/ /\ ctx.mStatus \in Playable
                           /\ Part(steps, {"demuxCancelSeek", "notSeeking", "seek", "seekPlayer",
                                           "seekDemux", "answer"})
  <2>1. CASE ctx.mStatus \notin Playable
    BY <1>1, <2>1, AnswerPart DEF SeekSteps
  <2>2. CASE ctx.mStatus = "COMPLETE"
    BY <1>1, <1>3, <2>2, SeekForms DEF SeekSteps, Playable
  <2>3. CASE ctx.mStatus \in Playable /\ ctx.mStatus # "COMPLETE"
    BY <1>1, <1>3, <2>3, SeekForms DEF SeekSteps, SeekNow
  <2> QED BY <2>1, <2>2, <2>3
<1>5. /\ steps \in Seq(Steps) /\ InOrder(steps)
      /\ \/ Ops(steps) \subseteq {"answer"}
         \/ Ops(steps) \subseteq {"seekTime", "answer"} /\ ctx.mStatus = "COMPLETE"
         \/ /\ ctx.mStatus \in Playable
            /\ Ops(steps) \subseteq {"demuxCancelSeek", "notSeeking", "seek", "seekPlayer",
                                     "seekDemux", "answer"}
  BY <1>4 DEF Part
<1>6. /\ Idle("xplayer") /\ QuietFront /\ player' = player
      /\ todo'["xplayer"] = steps
  BY <1>2, <1>5, Handled
<1>7. ctx.mStatus = "PREPARING" => Ops(steps) \subseteq {"answer"}
  BY <1>5 DEF Playable
<1>8. /\ (\E op \in PlayOps : op \in Ops(steps)) => ctx'.mStatus \in Playable
      /\ "sourceSet" \notin Ops(steps) /\ "demuxClear" \notin Ops(steps)
      /\ "start" \notin Ops(steps)
  BY <1>2, <1>5 DEF PlayOps
<1>9. Protocol'
  BY <1>2, <1>4, <1>5, <1>6, <1>7, <1>8, BeginsKeeps
<1>10. Ops(steps) \subseteq FrontOps
  BY <1>5 DEF FrontOps, StopOps, PlayOps
<1> QED BY <1>2, <1>5, <1>9, <1>10 DEF MessageIds

\* A message of the application is taken, and one is posted if it is valid.
LEMMA TakenPosted ==
    ASSUME Types, mq["xplayer"] # << >>, NEW id \in MessageIds, NEW valid \in BOOLEAN,
           mq' = [mq EXCEPT !["xplayer"] = Tail(@),
                            !["demux"] = IF valid THEN Append(@, Message(id)) ELSE @]
    PROVE  /\ mq' \in [Thread -> Seq(Messages)]
           /\ mq'["cache"] = mq["cache"]
           /\ ~ valid => mq'["demux"] = mq["demux"]
           /\ valid => /\ mq'["demux"] = Append(mq["demux"], Message(id))
                       /\ Ids(mq'["demux"]) = Ids(mq["demux"]) \union {id}
           /\ Message(id) \in Messages /\ Message(id).id = id
<1> DEFINE p == Tail(mq["xplayer"])
           q == IF valid THEN Append(mq["demux"], Message(id)) ELSE mq["demux"]
<1>1. /\ mq \in [Thread -> Seq(Messages)]
      /\ mq["xplayer"] \in Seq(Messages) /\ mq["demux"] \in Seq(Messages)
  BY ListTypes DEF Types, Thread
<1>2. Message(id) \in Messages /\ Message(id).id = id
  BY DEF Message, Messages, Times
<1>3. p \in Seq(Messages) /\ q \in Seq(Messages)
  BY <1>1, <1>2, FirstMessage
<1>4. valid => Ids(q) = Ids(mq["demux"]) \union {id}
  BY <1>1, <1>2, PostedIds
<1>5. mq' = [mq EXCEPT !["xplayer"] = p, !["demux"] = q]
  BY <1>1
<1> HIDE DEF p, q
<1>6. /\ mq' \in [Thread -> Seq(Messages)] /\ mq'["demux"] = q /\ mq'["cache"] = mq["cache"]
  BY <1>1, <1>3, <1>5 DEF Thread
<1> QED BY <1>2, <1>4, <1>6 DEF q

\* A command that is refused, or that is carried out already.
LEMMA RefusedKeeps ==
    ASSUME Types, Protocol, Idle("xplayer"), NEW ok \in BOOLEAN,
           Does("xplayer", Answer(Received, ok)),
           mq'["demux"] = mq["demux"], demux' = demux, reply' = reply, player' = player,
           ctx'.mStatus = ctx.mStatus
    PROVE  Protocol'
<1> DEFINE a == Answer(Received, ok)
<1>1. Part(a, {"answer"}) /\ ~ Quits(a)
  BY AnswerPart
<1>2. Does("xplayer", a)
  OBVIOUS
<1> HIDE DEF a
<1>3. a \in Seq(Steps) /\ InOrder(a) /\ Ops(a) \subseteq {"answer"}
  BY <1>1 DEF Part
<1>4. todo'["xplayer"] = a /\ todo'["demux"] = todo["demux"]
  BY <1>2, <1>3, Begun DEF Thread
<1>5. /\ ~ Asked(Requests) /\ ~ Closing /\ reply = "none"
      /\ ~ demux.bStopping /\ ~ demux.bCancelSeek
  BY NotWaiting
<1>6. QuietFront
  BY <1>4, <1>5, QueueSame DEF QuietFront, Protocol
<1>7. /\ \A op \in PlayOps : op \notin Ops(a)
      /\ "sourceSet" \notin Ops(a) /\ "demuxClear" \notin Ops(a) /\ "start" \notin Ops(a)
  BY <1>3 DEF PlayOps
<1> QED BY <1>1, <1>3, <1>4, <1>6, <1>7, BeginsKeeps

\* The request to set the source; the thread waits for the answer.
LEMMA SetDataSourceKeeps ==
    ASSUME Types, Protocol, SetDataSource
    PROVE  Protocol'
<1> DEFINE valid == ctx.mStatus \in {"IDLE", "INITIALIZED"}
<1>1. PICK id \in {"SET_FILE_SOURCE", "SET_NET_SOURCE"} :
        /\ Idle("xplayer") /\ mq["xplayer"] # << >>
        /\ mq' = [mq EXCEPT !["xplayer"] = Tail(@),
                            !["demux"] = IF valid THEN Append(@, Message(id)) ELSE @]
        /\ Does("xplayer", IF valid THEN << Step("sourceSet") >> ELSE Answer(Received, FALSE))
        /\ demux' = demux /\ reply' = reply /\ ctx' = ctx /\ player' = player
  BY DEF SetDataSource, xplayerVars
<1>2. id \in MessageIds /\ valid \in BOOLEAN
  BY DEF MessageIds
<1> HIDE DEF valid
<1>3. /\ ~ valid => mq'["demux"] = mq["demux"]
      /\ valid => /\ mq'["demux"] = Append(mq["demux"], Message(id))
                  /\ Ids(mq'["demux"]) = Ids(mq["demux"]) \union {id}
      /\ Message(id) \in Messages /\ Message(id).id = id
  BY <1>1, <1>2, TakenPosted
<1>4. CASE ~ valid
  BY <1>1, <1>3, <1>4, RefusedKeeps
<1>5. CASE valid
  <2> DEFINE a == Step("sourceSet")
             l == << a >>
  <2>1. a \in Steps /\ a.op = "sourceSet"
    BY PlainSteps DEF PlainOps, Step
  <2>2. Does("xplayer", l)
    BY <1>1, <1>5
  <2> HIDE DEF a
  <2>3. Part(l, {a.op}) /\ Ops(l) = {a.op} /\ ~ Quits(l)
    BY <2>1, OnePart
  <2> HIDE DEF l
  <2>4. l \in Seq(Steps) /\ InOrder(l) /\ Ops(l) = {"sourceSet"} /\ ~ Quits(l)
    BY <2>1, <2>3 DEF Part
  <2>5. todo'["xplayer"] = l /\ todo'["demux"] = todo["demux"]
    BY <2>2, <2>4, Begun DEF Thread
  <2>6. /\ ~ Asked(Requests) /\ ~ Closing /\ reply = "none"
        /\ ~ demux.bStopping /\ ~ demux.bCancelSeek
    BY <1>1, NotWaiting
  <2>7. Shut /\ player.eStatus = "STOPPED"
    BY <1>5 DEF Protocol, Commanding, valid, Stopped
  <2>8. QueueOrder(mq'["demux"])
    <3>1. mq["demux"] \in Seq(Messages) /\ QueueOrder(mq["demux"])
      BY ListTypes DEF Thread, Protocol, Turns
    <3> QED BY <1>3, <1>5, <2>6, <3>1, PostedInOrder DEF Asked
  <2>9. Waiting' /\ ~ Closing' /\ reply' = "none"
    BY <1>1, <2>4, <2>5, <2>6 DEF Waiting, Waits, Closing
  <2>10. ~ Preparing' /\ "PREPARE" \notin Ids(mq'["demux"]) /\ ~ PreparesNow' /\ Shut'
    BY <1>1, <1>3, <1>5, <2>5, <2>7 DEF Shut, Preparing, PreparesNow
  <2>11. Turns'
    BY <2>8, <2>9 DEF Turns
  <2>12. Flags'
    BY <1>1, <2>6 DEF Flags
  <2>13. Preparation'
    BY <2>10 DEF Preparation, PreparesNow, Prepares
  <2>14. Commanding'
    <3>1. todo'["xplayer"] = << Step("sourceSet") >>
      BY <2>5 DEF l, a
    <3>2. \A op \in PlayOps : op \notin Ops(todo'["xplayer"])
      BY <2>4, <2>5 DEF PlayOps
    <3>3. player'.eStatus = "STOPPED"
      BY <1>1, <2>7
    <3> QED BY <2>4, <2>5, <2>10, <3>1, <3>2, <3>3 DEF Commanding
  <2> QED BY <2>11, <2>12, <2>13, <2>14 DEF Protocol
<1> QED BY <1>4, <1>5

LEMMA SourceSetKeeps ==
    ASSUME Types, Protocol, SourceSet
    PROVE  Protocol'
<1> DEFINE a == [op |-> "answer", ok |-> reply = "ok"]
           l == << a >>
<1>1. /\ ~ Idle("xplayer") /\ Head(todo["xplayer"]).op = "sourceSet"
      /\ reply # "none" /\ reply' = "none" /\ Proceed("xplayer", l)
      /\ mq' = mq /\ demux' = demux /\ player' = player
      /\ ctx'.mStatus \in Stopped
  BY DEF SourceSet, At, Types, Contexts, Stopped
<1>2. /\ todo["xplayer"] = << Step("sourceSet") >> /\ Shut /\ player.eStatus = "STOPPED"
  <2>1. "sourceSet" \in Ops(todo["xplayer"])
    <3>1. todo["xplayer"] \in Seq(Steps) /\ todo["xplayer"] # << >>
      BY <1>1, ListTypes DEF Thread, Idle
    <3> QED BY <1>1, <3>1, FirstStep
  <2> QED BY <2>1 DEF Protocol, Commanding
<1>3. a \in Steps /\ a.op = "answer"
  <2>1. (reply = "ok") \in BOOLEAN
    OBVIOUS
  <2> QED BY <2>1 DEF Steps
<1> HIDE DEF a
<1>4. Part(l, {a.op}) /\ Ops(l) = {a.op} /\ ~ Quits(l)
  BY <1>3, OnePart
<1>5. Tail(todo["xplayer"]) = << >>
  BY <1>2
<1> HIDE DEF l
<1>6. l \in Seq(Steps) /\ InOrder(l) /\ Ops(l) = {"answer"}
  BY <1>3, <1>4 DEF Part
<1>7. todo'["xplayer"] = l \o Tail(todo["xplayer"]) /\ todo'["demux"] = todo["demux"]
  BY <1>1, <1>6, Proceeded DEF Thread
<1>8. l \o << >> = l
  BY <1>6
<1>9. todo'["xplayer"] = l
  BY <1>5, <1>7, <1>8
<1>10. ~ Asked(Requests) /\ ~ Closing
  BY <1>1 DEF Protocol, Turns
<1>11. ~ demux.bStopping /\ ~ demux.bCancelSeek
  BY <1>10 DEF Asked, Requests, Closes, Protocol, Flags
<1>12. QuietFront
  BY <1>1, <1>7, <1>10, <1>11, QueueSame DEF QuietFront, Protocol
<1>13. Turns' /\ Flags' /\ Shut' /\ Preparation'
  <2>1. /\ Turns' /\ Flags'
        /\ Preparing' <=> Preparing
        /\ Shut' <=> Shut
        /\ ~ Asked(Closes)' /\ ~ Closing' /\ ~ Asked(Closes)
        /\ Preparing => ctx.mStatus = "PREPARING"
        /\ /\ Preparing => /\ ctx'.mStatus = "PREPARING"
                           /\ \/ Ops(todo'["xplayer"]) \subseteq {"answer"}
                              \/ "demuxCancelPrepare" \in Ops(todo'["xplayer"])
           => Preparation'
        /\ Preparing => \/ Ops(todo["xplayer"]) \subseteq {"answer"}
                        \/ "demuxCancelPrepare" \in Ops(todo["xplayer"])
    BY <1>12, QuietKeeps
  <2>2. ~ Preparing
    BY <1>2 DEF Shut
  <2> QED BY <1>2, <2>1, <2>2
<1>14. Commanding'
  <2>1. \A op \in PlayOps : op \notin Ops(todo'["xplayer"])
    BY <1>6, <1>9 DEF PlayOps
  <2>2. player'.eStatus = "STOPPED"
    BY <1>1, <1>2
  <2> QED BY <1>4, <1>6, <1>9, <1>13, <2>1, <2>2 DEF Commanding
<1> QED BY <1>13, <1>14 DEF Protocol

\* The preparation is posted, and not waited for.
LEMMA PreparePlayerKeeps ==
    ASSUME Types, Protocol, PreparePlayer
    PROVE  Protocol'
<1> DEFINE valid == ctx.mStatus \in {"INITIALIZED", "STOPPED"}
           ok == ctx.mStatus = "PREPARED" \/ valid
<1>1. /\ Idle("xplayer") /\ mq["xplayer"] # << >>
      /\ mq' = [mq EXCEPT !["xplayer"] = Tail(@),
                          !["demux"] = IF valid THEN Append(@, Message("PREPARE")) ELSE @]
      /\ Does("xplayer", Answer(Received, ok))
      /\ demux' = IF valid THEN PrepareAsyncSet ELSE demux
      /\ reply' = reply /\ player' = player
      /\ ctx'.mStatus = IF valid THEN "PREPARING" ELSE ctx.mStatus
  <2>1. ctx \in Contexts
    BY DEF Types
  <2>2. PICK id \in {"PREPARE", "PREPARE_ASYNC"} :
          ctx' = IF valid
                   THEN [ctx EXCEPT !.mStatus = "PREPARING", !.mPrepareSync = id = "PREPARE"]
                   ELSE [ctx EXCEPT !.mSemPrepareFinish =
                           @ \/ (ctx.mStatus = "PREPARED" /\ id = "PREPARE")]
    BY DEF PreparePlayer
  <2>3. ctx'.mStatus = IF valid THEN "PREPARING" ELSE ctx.mStatus
    BY <2>1, <2>2 DEF Contexts
  <2> QED BY <2>3 DEF PreparePlayer
<1>2. "PREPARE" \in MessageIds /\ valid \in BOOLEAN /\ ok \in BOOLEAN
  BY DEF MessageIds
<1>3. valid => Shut /\ player.eStatus = "STOPPED"
  BY DEF Protocol, Commanding, Stopped
<1> HIDE DEF valid, ok
<1>4. /\ ~ valid => mq'["demux"] = mq["demux"]
      /\ valid => /\ mq'["demux"] = Append(mq["demux"], Message("PREPARE"))
                  /\ Ids(mq'["demux"]) = Ids(mq["demux"]) \union {"PREPARE"}
      /\ Message("PREPARE") \in Messages /\ Message("PREPARE").id = "PREPARE"
  BY <1>1, <1>2, TakenPosted
<1>5. CASE ~ valid
  BY <1>1, <1>2, <1>4, <1>5, RefusedKeeps
<1>6. CASE valid
  <2> DEFINE a == Answer(Received, ok)
  <2>1. Part(a, {"answer"}) /\ ~ Quits(a)
    BY <1>2, AnswerPart
  <2>2. Does("xplayer", a)
    BY <1>1
  <2> HIDE DEF a
  <2>3. a \in Seq(Steps) /\ InOrder(a) /\ Ops(a) \subseteq {"answer"}
    BY <2>1 DEF Part
  <2>4. todo'["xplayer"] = a /\ todo'["demux"] = todo["demux"]
    BY <2>2, <2>3, Begun DEF Thread
  <2>5. /\ ~ Asked(Requests) /\ ~ Closing /\ reply = "none"
        /\ ~ demux.bStopping /\ ~ demux.bCancelSeek
    BY <1>1, NotWaiting
  <2>6. /\ demux'.pParser = demux.pParser /\ ~ demux'.bStopping /\ ~ demux'.bCancelSeek
    BY <1>1, <1>6, <2>5 DEF PrepareAsyncSet, Types, Demuxes
  <2>7. Shut /\ ~ PreparesNow /\ "PREPARE" \notin Ids(mq["demux"]) /\ ~ demux.pParser
    BY <1>3, <1>6 DEF Shut, Preparing
  <2>8. QueueOrder(mq'["demux"])
    <3>1. mq["demux"] \in Seq(Messages) /\ QueueOrder(mq["demux"])
      BY ListTypes DEF Thread, Protocol, Turns
    <3> QED BY <1>4, <1>6, <2>5, <2>7, <3>1, PostedInOrder DEF Asked
  <2>9. /\ ~ Asked(Requests)' /\ ~ Asked(Requests \ {"CANCEL_PREPARE"})' /\ ~ Closing'
        /\ ~ PreparesNow' /\ reply' = "none"
    BY <1>1, <1>4, <1>6, <2>4, <2>5, <2>7 DEF Asked, Requests, Closing, PreparesNow
  <2>10. Turns'
    BY <2>8, <2>9 DEF Turns
  <2>11. Flags'
    BY <2>6 DEF Flags
  <2>12. Preparation'
    BY <1>1, <1>6, <2>3, <2>4, <2>6, <2>7, <2>9 DEF Preparation, PreparesNow, Prepares
  <2>13. Commanding'
    <3>1. /\ \A op \in PlayOps : op \notin Ops(a)
          /\ "sourceSet" \notin Ops(a) /\ "demuxClear" \notin Ops(a) /\ "start" \notin Ops(a)
      BY <2>3 DEF PlayOps
    <3>2. player'.eStatus = "STOPPED" /\ ctx'.mStatus = "PREPARING"
      BY <1>1, <1>3, <1>6
    <3> QED BY <2>1, <2>3, <2>4, <3>1, <3>2 DEF Commanding, Stopped
  <2> QED BY <2>10, <2>11, <2>12, <2>13 DEF Protocol
<1> QED BY <1>5, <1>6

-----------------------------------------------------------------------------
(* The application and the render thread.                                  *)

LEMMA AppKeeps ==
    ASSUME Types, Protocol, AppCall \/ AppSetLooping \/ AppPrepared
    PROVE  Protocol'
<1>1. /\ todo' = todo /\ demux' = demux /\ reply' = reply /\ player' = player
  BY DEF AppCall, AppSetLooping, AppPrepared, demuxVars
<1>2. mq'["demux"] = mq["demux"]
  <2>1. mq \in [Thread -> Seq(Messages)]
    BY DEF Types
  <2> QED BY <2>1 DEF AppCall, AppSetLooping, AppPrepared, demuxVars, Post, Thread
<1>3. ctx'.mStatus = ctx.mStatus
  <2>1. ctx \in Contexts
    BY DEF Types
  <2>2. \E b : \/ ctx' = [ctx EXCEPT !.mSemPrepareFinish = b]
               \/ ctx' = [ctx EXCEPT !.mLoop = b]
    BY <2>1 DEF AppCall, AppSetLooping, AppPrepared, Contexts
  <2> QED BY <2>1, <2>2 DEF Contexts
<1>4. SameTurn
  BY <1>1, <1>2 DEF SameTurn, Protocol, Turns
<1>5. SameFront
  BY <1>1, <1>3 DEF SameFront
<1> QED BY <1>4, <1>5, SameProtocol

LEMMA FirstPictureKeeps ==
    ASSUME Types, Protocol, NotifyFirstPicture
    PROVE  Protocol'
<1> DEFINE m == Message("FIRST_FRAME")
<1>1. /\ todo' = todo /\ demux' = demux /\ reply' = reply /\ ctx' = ctx
      /\ player'.eStatus = player.eStatus /\ Post("demux", m)
  BY DEF NotifyFirstPicture, Types, Players
<1>2. m \in Messages /\ m.id = "FIRST_FRAME"
  BY DEF Message, Messages, MessageIds, Times
<1> HIDE DEF m
<1>3. /\ mq'["demux"] = Append(mq["demux"], m)
      /\ Ids(mq'["demux"]) = Ids(mq["demux"]) \union {m.id}
  BY <1>1, <1>2, Posted DEF Thread
<1>4. QueueOrder(mq'["demux"])
  <2>1. mq["demux"] \in Seq(Messages) /\ QueueOrder(mq["demux"])
    BY ListTypes DEF Thread, Protocol, Turns
  <2> QED BY <1>2, <1>3, <2>1, PostedInOrder
<1>5. SameTurn
  BY <1>1, <1>2, <1>3, <1>4 DEF SameTurn, Requests
<1>6. SameFront
  BY <1>1 DEF SameFront
<1> QED BY <1>5, <1>6, SameProtocol

\* A player that plays has not been stopped, so the status may change.
LEMMA PlaybackEosKeeps ==
    ASSUME Types, Protocol, NotifyPlaybackEos
    PROVE  Protocol'
<1>1. /\ todo' = todo /\ demux' = demux /\ reply' = reply
      /\ player.eStatus = "STARTED" /\ player'.eStatus = "STARTED"
      /\ ctx'.mStatus = "COMPLETE"
  BY DEF NotifyPlaybackEos, Types, Players, Contexts
<1>2. mq'["demux"] = mq["demux"]
  <2>1. mq \in [Thread -> Seq(Messages)]
    BY DEF Types
  <2> QED BY <2>1 DEF NotifyPlaybackEos, Thread
<1>3. SameTurn
  BY <1>1, <1>2 DEF SameTurn, Protocol, Turns
<1>4. /\ \A ids \in SUBSET Requests : Asked(ids)' <=> Asked(ids)
      /\ Waiting' <=> Waiting
      /\ PreparesNow' <=> PreparesNow
      /\ Preparing' <=> Preparing
      /\ Closing' <=> Closing
      /\ Shut' <=> Shut
  BY <1>3, SameAsked
<1>5. /\ Requests \in SUBSET Requests /\ Closes \in SUBSET Requests
      /\ {"CANCEL_SEEK"} \in SUBSET Requests /\ {"CANCEL_PREPARE"} \in SUBSET Requests
      /\ Requests \ {"CANCEL_PREPARE"} \in SUBSET Requests
  BY DEF Requests, Closes
<1>6. ctx.mStatus \notin Stopped \union {"PREPARING"} /\ ~ Preparing
  BY <1>1 DEF Protocol, Commanding, Preparation
<1>7. Turns'
  BY <1>3, <1>4, <1>5 DEF Protocol, Turns, SameTurn
<1>8. Flags'
  BY <1>3, <1>4, <1>5 DEF Protocol, Flags, SameTurn
<1>9. Preparation'
  <2>1. "PREPARE" \notin Ids(mq'["demux"]) /\ ~ PreparesNow' /\ ~ Preparing'
    BY <1>4, <1>6 DEF Preparing
  <2> QED BY <2>1 DEF Preparation, PreparesNow, Prepares
<1>10. Commanding'
  <2>1. "sourceSet" \notin Ops(todo["xplayer"])
    BY <1>1 DEF Protocol, Commanding
  <2>2. Quits(todo["xplayer"]) => "playerStop" \in Ops(todo["xplayer"])
    BY <1>1 DEF Protocol, Commanding
  <2>3. todo'["xplayer"] = todo["xplayer"]
    BY <1>1
  <2> QED BY <1>1, <1>4, <1>5, <2>1, <2>2, <2>3 DEF Protocol, Commanding, Stopped, Playable
<1> QED BY <1>7, <1>8, <1>9, <1>10 DEF Protocol

-----------------------------------------------------------------------------
(* The lists and the queues: what the xplayer thread, the application and    *)
(* the render thread leave in them.                                         *)

\* The steps that are part of a command.
FrontSteps ==
    \/ AnswerCall \/ AwaitDemux \/ SourceSet \/ Unlock \/ CallPlayer \/ ChangeStatus
    \/ NotSeeking \/ SeekPausesPlayer \/ SeekCallsDemux
    \/ LockedByXPlayer \/ DemuxComponent

\* The xplayer thread and the callbacks do not touch the component's lists, and
\* the thread begins only steps of commands.
OwnLists ==
    /\ todo' \in [Thread -> Seq(Steps)]
    /\ Ops(todo["xplayer"]) \subseteq FrontOps => Ops(todo'["xplayer"]) \subseteq FrontOps
    /\ todo'["demux"] = todo["demux"] /\ todo'["cache"] = todo["cache"]

OwnQueues ==
    /\ mq' \in [Thread -> Seq(Messages)]
    /\ mq'["cache"] = mq["cache"]

LEMMA FrontLists ==
    ASSUME Types, FrontSteps
    PROVE  OwnLists
<1>1. ASSUME NEW steps \in Seq(Steps), Ops(steps) \subseteq FrontOps, ~ Idle("xplayer"),
             Proceed("xplayer", steps)
      PROVE  OwnLists
  BY <1>1, Proceeded DEF OwnLists, Thread
<1>2. ~ Idle("xplayer")
  BY DEF FrontSteps, AnswerCall, AwaitDemux, SourceSet, Unlock, CallPlayer, ChangeStatus,
     NotSeeking, SeekPausesPlayer, SeekCallsDemux, LockedByXPlayer, StartLocked, PauseLocked,
     SeekTimeLocked, SeekLocked, DemuxComponent, DemuxCompStart, DemuxCompStop,
     DemuxCompClear, DemuxCompCancelSeek, DemuxCompCancelPrepare, At
<1>3. CASE Proceed("xplayer", << >>)
  BY <1>1, <1>2, <1>3, FewOps
<1>4. CASE SourceSet
  <2> DEFINE a == [op |-> "answer", ok |-> reply = "ok"]
  <2>1. a \in Steps
    <3>1. (reply = "ok") \in BOOLEAN
      OBVIOUS
    <3> QED BY <3>1 DEF Steps
  <2>2. Proceed("xplayer", << a >>)
    BY <1>4 DEF SourceSet
  <2> HIDE DEF a
  <2>3. << a >> \in Seq(Steps) /\ Ops(<< a >>) \subseteq FrontOps
    <3>1. << a >> \in Seq(Steps) /\ Ops(<< a >>) = {a.op}
      BY <2>1, FewOps, Zenon
    <3>2. a.op = "answer"
      BY DEF a
    <3> QED BY <3>1, <3>2 DEF FrontOps, StopOps
  <2> QED BY <1>1, <1>2, <2>2, <2>3
<1>5. CASE StartLocked
  <2>1. PICK steps \in Seq(Steps) :
          /\ Proceed("xplayer", steps)
          /\ Ops(steps) \subseteq {"playerStart", "demuxStart", "unlock", "status"}
    BY <1>5, PlayerSteps DEF PlayerWorks
  <2>2. Ops(steps) \subseteq FrontOps
    BY <2>1 DEF FrontOps, StopOps, PlayOps
  <2> QED BY <1>1, <1>2, <2>1, <2>2
<1>6. CASE Proceed("xplayer", << Step("await") >>)
  <2> DEFINE a == Step("await")
  <2>1. a \in Steps /\ a.op = "await"
    BY PlainSteps DEF PlainOps, Step
  <2>2. Proceed("xplayer", << a >>)
    BY <1>6
  <2> HIDE DEF a
  <2>3. << a >> \in Seq(Steps) /\ Ops(<< a >>) = {a.op}
    BY <2>1, FewOps, Zenon
  <2>4. Ops(<< a >>) \subseteq FrontOps
    BY <2>1, <2>3 DEF FrontOps, StopOps
  <2> QED BY <1>1, <1>2, <2>2, <2>3, <2>4
<1> QED
  BY <1>3, <1>4, <1>5, <1>6
  DEF FrontSteps, AnswerCall, AwaitDemux, Unlock, CallPlayer, ChangeStatus,
     NotSeeking, SeekPausesPlayer, SeekCallsDemux, LockedByXPlayer, PauseLocked,
     SeekTimeLocked, SeekLocked, DemuxComponent, DemuxCompStart, DemuxCompStop,
     DemuxCompClear, DemuxCompCancelSeek, DemuxCompCancelPrepare

LEMMA PostedOwn ==
    ASSUME Types, NEW t \in {"xplayer", "demux"}, NEW m \in Messages, Post(t, m)
    PROVE  OwnQueues
  BY Posted DEF OwnQueues, Thread

LEMMA SameQueues == Types /\ mq' = mq => OwnQueues
  BY DEF Types, OwnQueues

LEMMA FrontMessages ==
    /\ \A id \in MessageIds : Message(id) \in Messages /\ Internal(id) \in Messages
    /\ \A c \in Commands : c \in Messages
<1>1. ASSUME NEW c \in Commands PROVE c \in Messages
  <2>1. AppCalls \subseteq MessageIds
    BY AppCallsAssumption DEF MessageIds
  <2>2. PICK id \in AppCalls, time \in Times : c = Command(id, time)
    BY <1>1 DEF Commands, Times
  <2> QED BY <2>1, <2>2 DEF Command, Messages
<1> QED BY <1>1 DEF Message, Internal, Messages, Times

LEMMA FrontQueues ==
    ASSUME Types, FrontSteps
    PROVE  OwnQueues
<1>1. CASE UNCHANGED mq
  BY <1>1, SameQueues
<1>2. ASSUME NEW m \in Messages, Post("demux", m)
      PROVE  OwnQueues
  BY <1>2, PostedOwn
<1>3. [Message("SEEK") EXCEPT !.time = ctx.mSeekTime] \in Messages
  BY SeekMessage
<1>4. CASE StartWhenComplete
  <2>1. CASE ctx.bSeekable
    BY <1>2, <1>3, <1>4, <2>1 DEF StartWhenComplete
  <2>2. CASE ~ ctx.bSeekable
    <3> DEFINE l == << Internal("STOP"), Internal("PREPARE"), Internal("START") >>
               q == mq["xplayer"] \o l
    <3>1. l \in Seq(Messages)
      BY FrontMessages DEF MessageIds
    <3>2. mq \in [Thread -> Seq(Messages)] /\ mq["xplayer"] \in Seq(Messages)
      BY ListTypes DEF Types, Thread
    <3>3. mq' = [mq EXCEPT !["xplayer"] = q]
      BY <1>4, <2>2, <3>2 DEF StartWhenComplete
    <3> HIDE DEF l
    <3>4. q \in Seq(Messages)
      BY <3>1, <3>2
    <3> HIDE DEF q
    <3> QED BY <3>2, <3>3, <3>4 DEF OwnQueues, Thread
  <2> QED BY <2>1, <2>2
<1>5. CASE StartLocked
  BY <1>1, <1>4, <1>5 DEF StartLocked, StartWhenStarted, StartWhenSeeking, StartOtherwise
<1>6. CASE DemuxComponent
  <2>1. \A id \in MessageIds : Message(id) \in Messages
    BY FrontMessages
  <2> QED BY <1>1, <1>2, <1>6, <2>1 DEF DemuxComponent, DemuxCompStart, DemuxCompStop,
     DemuxCompClear, DemuxCompCancelSeek, DemuxCompCancelPrepare, MessageIds
<1>7. CASE SeekCallsDemux
  BY <1>2, <1>3, <1>7 DEF SeekCallsDemux
<1> QED
  BY <1>1, <1>5, <1>6, <1>7
  DEF FrontSteps, AnswerCall, AwaitDemux, SourceSet, Unlock, CallPlayer, ChangeStatus,
     NotSeeking, SeekPausesPlayer, LockedByXPlayer, PauseLocked, SeekTimeLocked, SeekLocked,
     xplayerVars

\* The commands that the thread takes.
FrontCommands ==
    \/ SetDataSource \/ PreparePlayer \/ StartPlayer \/ StopPlayer
    \/ PausePlayer \/ ResetPlayer \/ SeekPlayer

LEMMA CommandLists ==
    ASSUME Types, Protocol, FrontCommands
    PROVE  OwnLists /\ OwnQueues
<1>1. CASE StartPlayer \/ StopPlayer \/ PausePlayer \/ ResetPlayer \/ SeekPlayer
  <2>1. \E steps \in Seq(Steps), id \in MessageIds :
           Handle(id, steps) /\ Ops(steps) \subseteq FrontOps
    BY <1>1, StartKeeps, StopKeeps, ResetKeeps, SeekPlayerKeeps
  <2> QED BY <2>1, Handled DEF OwnLists, OwnQueues
<1>2. ASSUME NEW ok \in BOOLEAN, Does("xplayer", Answer(Received, ok))
      PROVE  OwnLists
  <2> DEFINE a == Answer(Received, ok)
  <2>1. a \in Seq(Steps) /\ Ops(a) \subseteq FrontOps
    BY AnswerPart DEF Part, FrontOps, StopOps
  <2> HIDE DEF a
  <2>2. Does("xplayer", a)
    BY <1>2 DEF a
  <2> QED BY <2>1, <2>2, Begun DEF OwnLists, Thread
<1>3. CASE SetDataSource
  <2> DEFINE valid == ctx.mStatus \in {"IDLE", "INITIALIZED"}
  <2>1. PICK id \in {"SET_FILE_SOURCE", "SET_NET_SOURCE"} :
          /\ mq["xplayer"] # << >>
          /\ mq' = [mq EXCEPT !["xplayer"] = Tail(@),
                              !["demux"] = IF valid THEN Append(@, Message(id)) ELSE @]
          /\ Does("xplayer", IF valid THEN << Step("sourceSet") >> ELSE Answer(Received, FALSE))
    BY <1>3 DEF SetDataSource
  <2>2. id \in MessageIds /\ valid \in BOOLEAN
    BY DEF MessageIds
  <2> HIDE DEF valid
  <2>3. OwnQueues
    BY <2>1, <2>2, TakenPosted DEF OwnQueues
  <2> DEFINE b == Step("sourceSet")
  <2>4. b \in Steps /\ b.op = "sourceSet"
    BY PlainSteps DEF PlainOps, Step
  <2> HIDE DEF b
  <2>5. << b >> \in Seq(Steps) /\ Ops(<< b >>) = {b.op}
    BY <2>4, FewOps, Zenon
  <2>6. << Step("sourceSet") >> \in Seq(Steps) /\ Ops(<< Step("sourceSet") >>) \subseteq FrontOps
    BY <2>4, <2>5 DEF b, FrontOps
  <2>7. Does("xplayer", << Step("sourceSet") >>) => OwnLists
    BY <2>6, Begun DEF OwnLists, Thread
  <2> QED BY <1>2, <2>1, <2>2, <2>3, <2>7
<1>4. CASE PreparePlayer
  <2> DEFINE valid == ctx.mStatus \in {"INITIALIZED", "STOPPED"}
             ok == ctx.mStatus = "PREPARED" \/ valid
  <2>1. /\ mq["xplayer"] # << >>
        /\ mq' = [mq EXCEPT !["xplayer"] = Tail(@),
                            !["demux"] = IF valid THEN Append(@, Message("PREPARE")) ELSE @]
        /\ Does("xplayer", Answer(Received, ok))
    BY <1>4 DEF PreparePlayer
  <2>2. "PREPARE" \in MessageIds /\ valid \in BOOLEAN /\ ok \in BOOLEAN
    BY DEF MessageIds
  <2> HIDE DEF valid, ok
  <2>3. OwnQueues
    BY <2>1, <2>2, TakenPosted DEF OwnQueues
  <2> QED BY <1>2, <2>1, <2>2, <2>3
<1> QED BY <1>1, <1>3, <1>4 DEF FrontCommands

OtherThreads == Application \/ AppPrepared \/ RenderThread

LEMMA OtherLists ==
    ASSUME Types, OtherThreads
    PROVE  OwnLists /\ OwnQueues
<1>1. OwnLists
  BY DEF Types, OwnLists, OtherThreads, Application, RenderThread, AppCall, AppSetLooping,
     AppPrepared, NotifyPlaybackEos, NotifyFirstPicture, demuxVars
<1> SUFFICES OwnQueues
  BY <1>1
<1>2. CASE UNCHANGED mq
  BY <1>2, SameQueues
<1>3. ASSUME NEW t \in {"xplayer", "demux"}, NEW m \in Messages, Post(t, m)
      PROVE  OwnQueues
  BY <1>3, PostedOwn
<1>4. CASE AppCall
  BY <1>3, <1>4, FrontMessages DEF AppCall
<1>5. CASE NotifyPlaybackEos
  <2>1. UNCHANGED mq \/ Post("xplayer", Internal("START"))
    BY <1>5 DEF NotifyPlaybackEos, Post
  <2>2. Internal("START") \in Messages
    BY FrontMessages DEF MessageIds
  <2> QED BY <1>2, <1>3, <2>1, <2>2
<1>6. CASE NotifyFirstPicture
  <2>1. Message("FIRST_FRAME") \in Messages
    BY FrontMessages DEF MessageIds
  <2> QED BY <1>3, <1>6, <2>1 DEF NotifyFirstPicture
<1>7. CASE AppSetLooping \/ AppPrepared
  BY <1>2, <1>7 DEF AppSetLooping, AppPrepared, demuxVars
<1> QED BY <1>4, <1>5, <1>6, <1>7 DEF OtherThreads, Application, RenderThread

-----------------------------------------------------------------------------
(* The turns, and the component's threads, over every step.                *)

LEMMA FrontState ==
    ASSUME Types, FrontSteps \/ FrontCommands \/ OtherThreads
    PROVE  /\ cache' = cache
           /\ demux'.pParser = demux.pParser
           /\ \/ demux'.eStatus = demux.eStatus
              \/ demux'.eStatus \notin {"PREPARED", "STARTED", "COMPLETE"}
<1>1. demux \in Demuxes
  BY DEF Types
<1>2. SeekToSet.pParser = demux.pParser /\ SeekToSet.eStatus = demux.eStatus
  BY <1>1 DEF SeekToSet, Demuxes
<1>3. PrepareAsyncSet.pParser = demux.pParser /\ PrepareAsyncSet.eStatus = "PREPARING"
  BY <1>1 DEF PrepareAsyncSet, Demuxes
<1>4. CASE FrontCommands
  BY <1>3, <1>4 DEF FrontCommands, SetDataSource, PreparePlayer, StartPlayer, StopPlayer,
     PausePlayer, ResetPlayer, SeekPlayer, Handle
<1>5. CASE OtherThreads
  BY <1>5 DEF OtherThreads, Application, RenderThread, AppCall, AppSetLooping, AppPrepared,
     NotifyPlaybackEos, NotifyFirstPicture, demuxVars
<1>6. CASE StartLocked \/ SeekCallsDemux
  BY <1>2, <1>6 DEF StartLocked, StartWhenStarted, StartWhenSeeking, StartWhenComplete,
     StartOtherwise, SeekCallsDemux
<1>7. CASE DemuxComponent
  BY <1>1, <1>7 DEF DemuxComponent, DemuxCompStart, DemuxCompStop, DemuxCompClear,
     DemuxCompCancelSeek, DemuxCompCancelPrepare, Demuxes
<1>8. CASE \/ AnswerCall \/ AwaitDemux \/ SourceSet \/ Unlock \/ CallPlayer \/ ChangeStatus
           \/ NotSeeking \/ SeekPausesPlayer \/ PauseLocked \/ SeekTimeLocked \/ SeekLocked
  BY <1>8 DEF AnswerCall, AwaitDemux, SourceSet, Unlock, CallPlayer, ChangeStatus,
     NotSeeking, SeekPausesPlayer, PauseLocked, SeekTimeLocked, SeekLocked
<1> QED BY <1>4, <1>5, <1>6, <1>7, <1>8 DEF FrontSteps, LockedByXPlayer

LEMMA FrontParser ==
    ASSUME Types, Parser, Protocol, FrontSteps \/ FrontCommands \/ OtherThreads
    PROVE  Parser'
<1>1. OwnLists /\ OwnQueues
  BY FrontLists, FrontQueues, CommandLists, OtherLists
<1>2. ComponentRests
  BY <1>1, FrontState DEF OwnLists, OwnQueues, ComponentRests
<1> QED BY <1>2, SameParser

LEMMA FrontKeeps ==
    ASSUME Types, Parser, Protocol, XPlayerThread
    PROVE  Parser' /\ Protocol'
<1>1. FrontSteps \/ FrontCommands
  BY DEF XPlayerThread, FrontSteps, FrontCommands
<1>2. Parser'
  BY <1>1, FrontParser
<1> SUFFICES Protocol'
  BY <1>2
<1>3. CASE FrontCommands
  BY <1>3, SetDataSourceKeeps, PreparePlayerKeeps, StartKeeps, StopKeeps, ResetKeeps,
     SeekPlayerKeeps DEF FrontCommands
<1>4. CASE StartLocked \/ PauseLocked \/ SeekLocked \/ SeekPausesPlayer \/ SeekCallsDemux
  BY <1>4, PlayerWorksKeeps DEF PlayerWorks
<1>5. CASE CallPlayer
  <2>1. At("xplayer", "playerStart") \/ At("xplayer", "playerStop")
    BY <1>5 DEF CallPlayer
  <2> QED BY <1>5, <2>1, PlayerWorksKeeps, StoppedKeeps DEF PlayerWorks
<1>6. CASE AnswerCall \/ Unlock \/ NotSeeking \/ SeekTimeLocked \/ AwaitDemux
  BY <1>6, PlainKeeps
<1>7. CASE SourceSet \/ ChangeStatus
  BY <1>7, SourceSetKeeps, StoppedKeeps
<1>8. CASE DemuxComponent /\ UNCHANGED xplayerVars
  BY <1>8, CallsKeep
<1> QED
  BY <1>3, <1>4, <1>5, <1>6, <1>7, <1>8 DEF XPlayerThread, FrontCommands, LockedByXPlayer

LEMMA OthersKeep ==
    ASSUME Types, Parser, Protocol, OtherThreads
    PROVE  Parser' /\ Protocol'
<1>1. Parser'
  BY FrontParser
<1>2. Protocol'
  BY AppKeeps, FirstPictureKeeps, PlaybackEosKeeps
  DEF OtherThreads, Application, RenderThread
<1> QED BY <1>1, <1>2

LEMMA DemuxKeeps ==
    ASSUME Types, Parser, Protocol, DemuxThreadSteps
    PROVE  Parser' /\ Protocol'
<1>1. CASE DemuxThread /\ UNCHANGED xplayerVars
  <2>1. CASE DemuxWorks
    BY <1>1, <2>1, WorkKeeps
  <2>2. CASE SetSource \/ CancelPrepare \/ Start \/ CancelSeek
    BY <1>1, <2>2, AnswersKeep
  <2>3. CASE AwaitCache \/ JoinCache
    BY <1>1, <2>3, AwaitJoinKeeps
  <2>4. CASE Close("STOP") \/ Close("CLEAR")
    <3>1. "STOP" \in Closes /\ "CLEAR" \in Closes
      BY DEF Closes
    <3> QED BY <1>1, <2>4, <3>1, CloseKeeps
  <2>5. CASE Closed
    BY <1>1, <2>5, ClosedKeeps
  <2>6. CASE Prepare \/ ParserPrepared \/ ParserNotPrepared
    BY <1>1, <2>6, PrepareKeeps, PreparedKeeps
  <2>7. CASE Seek \/ Read \/ NotifyFirstFrameShowed
    BY <1>1, <2>7, SeekKeeps, ReadKeeps, NotedKeeps
  <2> QED BY <1>1, <2>1, <2>2, <2>3, <2>4, <2>5, <2>6, <2>7 DEF DemuxThread, DemuxWorks
<1>2. CASE Prepared \/ PrepareFailed
  BY <1>2, ToldKeeps
<1>3. CASE NotifyEos \/ LockedByCallback("demux")
  BY <1>3, CallbackKeeps, SeekFinishKeeps DEF LockedByCallback
<1> QED BY <1>1, <1>2, <1>3 DEF DemuxThreadSteps

LEMMA CacheThreadKeeps ==
    ASSUME Types, Parser, Protocol, CacheThreadSteps
    PROVE  Parser' /\ Protocol'
<1>1. CASE CacheThread /\ UNCHANGED xplayerVars
  BY <1>1, CacheKeeps, CacheQuitKeeps DEF CacheThread, CacheSteps
<1>2. CASE LockedByCallback("cache")
  <2>1. NotifySeekFinish("cache")
    BY <1>2 DEF LockedByCallback
  <2> QED BY <2>1, CacheFinishKeeps
<1> QED BY <1>1, <1>2 DEF CacheThreadSteps

LEMMA NextKeeps ==
    ASSUME Types, Parser, Protocol, Next
    PROVE  Parser' /\ Protocol'
<1>1. CASE Application \/ AppPrepared \/ RenderThread
  BY <1>1, OthersKeep DEF OtherThreads
<1>2. CASE SeekWaitIsLong /\ UNCHANGED xplayerVars
  BY <1>2, NotedKeeps
<1>3. CASE ParserReturns /\ UNCHANGED xplayerVars
  BY <1>3, WorkKeeps, CacheKeeps DEF ParserReturns, DemuxWorks, CacheSteps
<1> QED BY <1>1, <1>2, <1>3, FrontKeeps, DemuxKeeps, CacheThreadKeeps DEF Next

-----------------------------------------------------------------------------
(* The types over every step.                                               *)

DemuxSteps ==
    \/ DemuxThreadSteps
    \/ SeekWaitIsLong
    \/ ParserSeekOk \/ ParserSeekFails \/ ParserReadOk \/ ParserReadFails

CacheThreadOwn ==
    \/ CacheThreadSteps
    \/ CacheSeekOk \/ CacheSeekFails \/ CacheReadOk \/ CacheReadFails

\* The thread's own list of steps changes, and no other.
OwnList(t) ==
    /\ todo' \in [Thread -> Seq(Steps)]
    /\ \A u \in Thread \ {t} : todo'[u] = todo[u]

LEMMA ProceededOwn ==
    ASSUME Types, NEW t \in Thread, ~ Idle(t), NEW steps \in Seq(Steps),
           Proceed(t, steps) \/ Does(t, steps)
    PROVE  OwnList(t)
  BY Proceeded, Begun DEF OwnList

LEMMA SameLists ==
    ASSUME Types, NEW t \in Thread, todo' = todo
    PROVE  OwnList(t)
  BY DEF Types, OwnList

LEMMA DemuxLists ==
    ASSUME Types, DemuxSteps
    PROVE  OwnList("demux")
<1>1. "demux" \in Thread
  BY DEF Thread
<1>2. CASE DemuxWorks
  <2>1. ~ Idle("demux")
    BY <1>2, WorkState
  <2>2. \E steps \in Seq(Steps) : Proceed("demux", steps) \/ Does("demux", steps)
    BY <1>2, WorkSteps
  <2> QED BY <1>1, <2>1, <2>2, ProceededOwn
<1>3. CASE ~ Idle("demux") /\ Proceed("demux", << >>)
  BY <1>1, <1>3, FewOps, ProceededOwn
<1>4. ASSUME NEW steps \in Seq(Steps), Does("demux", steps)
      PROVE  OwnList("demux")
  BY <1>1, <1>4, Begun DEF OwnList
<1>5. CASE todo' = todo
  BY <1>1, <1>5, SameLists
<1>6. CASE ParserPrepared \/ ParserNotPrepared
  <2>1. << Notify("PREPARED") >> \in Seq(Steps) /\ << Notify("PREPARE_FAILED") >> \in Seq(Steps)
    BY PlainSteps DEF PlainOps
  <2>2. ~ Idle("demux")
    BY <1>6 DEF ParserPrepared, ParserNotPrepared, At
  <2> QED BY <1>1, <1>6, <2>1, <2>2, ProceededOwn DEF ParserPrepared, ParserNotPrepared
<1>7. CASE Prepare
  <2>1. << Step("prepare") >> \in Seq(Steps)
    BY PlainSteps DEF PlainOps
  <2> QED BY <1>4, <1>7, <2>1 DEF Prepare
<1>8. ASSUME NEW x \in Closes, Close(x)
      PROVE  OwnList("demux")
  <2> DEFINE a == Step("awaitCache")
             b == Step("join")
             c == Step(x)
  <2>1. a \in Steps /\ b \in Steps /\ c \in Steps
    BY PlainSteps DEF PlainOps, Closes
  <2>2. Does("demux", Only(cache.alive, << a, b >>) \o << c >>)
    BY <1>8 DEF Close
  <2> HIDE DEF a, b, c
  <2>3. << a, b >> \in Seq(Steps) /\ << >> \in Seq(Steps) /\ << c >> \in Seq(Steps)
    BY <2>1
  <2>4. Only(cache.alive, << a, b >>) \in Seq(Steps)
    BY <2>3 DEF Only
  <2> DEFINE l == Only(cache.alive, << a, b >>)
             r == << c >>
  <2> HIDE DEF l, r
  <2>5. l \o r \in Seq(Steps)
    BY <2>3, <2>4, JoinedSteps DEF l, r
  <2> QED BY <1>4, <2>2, <2>5 DEF l, r
<1>9. CASE Seek
  <2>1. mq["demux"] # << >> /\ Head(mq["demux"]).time \in Times
    <3>1. mq["demux"] \in Seq(Messages) /\ mq["demux"] # << >>
      BY <1>9, ListTypes DEF Thread, Seek
    <3>2. Head(mq["demux"]) \in Messages
      BY <3>1, FirstMessage
    <3> QED BY <3>1, <3>2 DEF Messages
  <2> DEFINE time == Head(mq["demux"]).time
             a == SeekFinish("UNKNOWN", time)
             b == Step("awaitCache")
             c == Timed("seekCache", time)
             d == Timed("parserSeek", time)
  <2>2. a \in Steps /\ b \in Steps /\ c \in Steps /\ d \in Steps
    BY <2>1, PlainSteps DEF PlainOps
  <2>3. Does("demux", << a >>) \/ Does("demux", << b, c >>) \/ Does("demux", << d >>)
    BY <1>9 DEF Seek
  <2> HIDE DEF a, b, c, d
  <2>4. << a >> \in Seq(Steps) /\ << b, c >> \in Seq(Steps) /\ << d >> \in Seq(Steps)
    BY <2>2
  <2> QED BY <1>4, <2>3, <2>4
<1>10. CASE Read
  <2> DEFINE a == Step("parserRead")
             b == Step("buffering")
             c == Step("readCache")
             l == Only(demux.eStatus = "STARTED",
                       IF ~ cache.alive THEN << a >>
                       ELSE Only(demux.bBufferring, << b >>) \o << c >>)
  <2>1. a \in Steps /\ b \in Steps /\ c \in Steps
    BY PlainSteps DEF PlainOps
  <2>2. Does("demux", l)
    BY <1>10 DEF Read
  <2> HIDE DEF a, b, c
  <2>3. << >> \in Seq(Steps) /\ << a >> \in Seq(Steps) /\ << b >> \in Seq(Steps) /\ << c >> \in Seq(Steps)
    BY <2>1
  <2>4. Only(demux.bBufferring, << b >>) \o << c >> \in Seq(Steps)
    <3> DEFINE k == Only(demux.bBufferring, << b >>)
               r == << c >>
    <3>1. k \in Seq(Steps) /\ r \in Seq(Steps)
      BY <2>3 DEF Only
    <3> HIDE DEF k, r
    <3>2. k \o r \in Seq(Steps)
      BY <3>1, JoinedSteps
    <3> QED BY <3>2 DEF k, r
  <2>5. l \in Seq(Steps)
    BY <2>3, <2>4 DEF Only
  <2> HIDE DEF l
  <2> QED BY <1>4, <2>2, <2>5
<1>11. CASE JoinCache \/ Closed \/ AwaitCache
  BY <1>3, <1>11 DEF JoinCache, Closed, AwaitCache, At
<1>12. CASE Prepared \/ PrepareFailed \/ NotifyEos \/ PauseOrResume \/ NotifySeekFinish("demux")
  BY <1>3, <1>12 DEF Prepared, PrepareFailed, NotifyEos, PauseOrResume, NotifySeekFinish, At
<1>13. CASE SetSource \/ CancelPrepare \/ Start \/ CancelSeek \/ NotifyFirstFrameShowed
            \/ SeekWaitIsLong
  BY <1>5, <1>13 DEF SetSource, CancelPrepare, Start, CancelSeek, NotifyFirstFrameShowed,
     SeekWaitIsLong
<1>14. "STOP" \in Closes /\ "CLEAR" \in Closes
  BY DEF Closes
<1>15. CASE DemuxThread
  BY <1>2, <1>6, <1>7, <1>8, <1>9, <1>10, <1>11, <1>13, <1>14, <1>15 DEF DemuxThread, DemuxWorks
<1>16. CASE DemuxThreadSteps
  BY <1>12, <1>15, <1>16 DEF DemuxThreadSteps, LockedByCallback
<1> QED BY <1>2, <1>13, <1>16 DEF DemuxSteps, DemuxWorks

LEMMA DemuxQueues ==
    ASSUME Types, DemuxSteps
    PROVE  mq' \in [Thread -> Seq(Messages)]
<1>1. mq \in [Thread -> Seq(Messages)]
  BY DEF Types
<1>2. CASE DemuxWorks
  BY <1>2, WorkQueues
<1>3. CASE mq["demux"] # << >> /\ mq' = [mq EXCEPT !["demux"] = Tail(@)]
  BY <1>3, Taken DEF Thread
<1>4. ASSUME NEW q \in Seq(Messages), mq' = [mq EXCEPT !["demux"] = q]
      PROVE  mq' \in [Thread -> Seq(Messages)]
  BY <1>1, <1>4
<1>5. ASSUME NEW when, mq["demux"] # << >>,
             mq' = [mq EXCEPT !["demux"] = IF when THEN << Message("READ") >> ELSE Tail(@)]
      PROVE  mq' \in [Thread -> Seq(Messages)]
  <2>1. << Message("READ") >> \in Seq(Messages)
    BY FrontMessages DEF MessageIds
  <2>2. CASE when
    <3>1. mq' = [mq EXCEPT !["demux"] = << Message("READ") >>]
      BY <1>5, <2>2
    <3> QED BY <1>4, <2>1, <3>1
  <2>3. CASE ~ when
    <3>1. mq' = [mq EXCEPT !["demux"] = Tail(@)]
      BY <1>5, <2>3
    <3> QED BY <1>3, <1>5, <3>1
  <2> QED BY <2>2, <2>3
<1>6. ASSUME NEW m \in Messages, mq["demux"] # << >>,
             mq' = [mq EXCEPT !["demux"] = Tail(@), !["cache"] = Append(@, m)]
      PROVE  mq' \in [Thread -> Seq(Messages)]
  <2> DEFINE p == Tail(mq["demux"])
             q == Append(mq["cache"], m)
  <2>1. mq["demux"] \in Seq(Messages) /\ mq["cache"] \in Seq(Messages)
    BY ListTypes DEF Thread
  <2>2. p \in Seq(Messages) /\ q \in Seq(Messages)
    BY <1>6, <2>1, FirstMessage, PostedIds
  <2>3. mq' = [mq EXCEPT !["demux"] = p, !["cache"] = q]
    BY <1>1, <1>6
  <2> HIDE DEF p, q
  <2> QED BY <1>1, <2>2, <2>3
<1>7. Message("QUIT") \in Messages /\ Message("PAUSE") \in Messages /\ Message("START") \in Messages
  BY FrontMessages DEF MessageIds
<1>8. CASE SetSource \/ Prepare \/ CancelPrepare \/ CancelSeek \/ Read
  BY <1>3, <1>8 DEF SetSource, Prepare, CancelPrepare, CancelSeek, Read, Take
<1>9. CASE Start \/ NotifyFirstFrameShowed
  <2>1. /\ mq["demux"] # << >>
        /\ \E when : mq' = [mq EXCEPT !["demux"] = IF when THEN << Message("READ") >> ELSE Tail(@)]
    <3>1. CASE Start
      <4> DEFINE when == /\ demux.eStatus \in {"PREPARED", "STARTED"}
                         /\ Tail(mq["demux"]) = << >>
      <4>1. mq' = [mq EXCEPT !["demux"] = IF when THEN << Message("READ") >> ELSE Tail(@)]
        BY <1>1, <3>1 DEF Start, Thread
      <4> QED BY <3>1, <4>1 DEF Start
    <3>2. CASE NotifyFirstFrameShowed
      <4> DEFINE when == demux.eStatus = "STARTED" /\ Tail(mq["demux"]) = << >>
      <4>1. mq' = [mq EXCEPT !["demux"] = IF when THEN << Message("READ") >> ELSE Tail(@)]
        BY <1>1, <3>2 DEF NotifyFirstFrameShowed, Thread
      <4> QED BY <3>2, <4>1 DEF NotifyFirstFrameShowed
    <3> QED BY <1>9, <3>1, <3>2
  <2> QED BY <1>5, <2>1
<1>10. CASE ParserPrepared \/ ParserNotPrepared
  <2>1. Post("cache", Message("START")) \/ mq' = mq
    BY <1>10 DEF ParserPrepared, ParserNotPrepared
  <2>2. CASE Post("cache", Message("START"))
    <3> DEFINE m == Message("START")
    <3>1. m \in Messages /\ Post("cache", m)
      BY <1>7, <2>2
    <3> HIDE DEF m
    <3> QED BY <3>1, Posted DEF Thread
  <2> QED BY <1>1, <2>1, <2>2
<1>11. ASSUME NEW x \in Closes, Close(x)
       PROVE  mq' \in [Thread -> Seq(Messages)]
  <2>1. mq["demux"] # << >>
    BY <1>11 DEF Close
  <2> QED BY <1>3, <1>6, <1>7, <1>11, <2>1 DEF Close, QuitCache
<1>12. CASE Seek
  <2>1. mq["demux"] # << >>
    BY <1>12 DEF Seek
  <2> QED BY <1>3, <1>6, <1>7, <1>12, <2>1 DEF Seek
<1>13. CASE UNCHANGED mq
  BY <1>1, <1>13
<1>14. CASE \/ JoinCache \/ Closed \/ AwaitCache \/ SeekWaitIsLong
            \/ Prepared \/ PrepareFailed \/ NotifyEos \/ PauseOrResume
            \/ NotifySeekFinish("demux")
  BY <1>13, <1>14 DEF JoinCache, Closed, AwaitCache, SeekWaitIsLong, Prepared, PrepareFailed,
     NotifyEos, PauseOrResume, NotifySeekFinish
<1>15. "STOP" \in Closes /\ "CLEAR" \in Closes
  BY DEF Closes
<1>16. CASE DemuxThread
  BY <1>2, <1>8, <1>9, <1>10, <1>11, <1>12, <1>14, <1>15, <1>16 DEF DemuxThread, DemuxWorks
<1>17. CASE DemuxThreadSteps
  BY <1>14, <1>16, <1>17 DEF DemuxThreadSteps, LockedByCallback
<1> QED BY <1>2, <1>14, <1>17 DEF DemuxSteps, DemuxWorks

\* The cache thread reads only when there is room, and then it has nothing else
\* to do.
CacheRoom ==
    "parserRead" \in Ops(todo["cache"]) =>
        Tail(todo["cache"]) = << >> /\ Len(cache.frames) < CacheSize

LEMMA FramesTypes ==
    ASSUME NEW s \in Seq(Times), NEW time \in Times
    PROVE  /\ Append(s, time) \in Seq(Times) /\ Len(Append(s, time)) = Len(s) + 1
           /\ \A n \in 1 .. Len(s) :
                /\ [i \in 1 .. n |-> time] \in Seq(Times)
                /\ Len([i \in 1 .. n |-> time]) = n
           /\ s # << >> => Tail(s) \in Seq(Times) /\ Len(Tail(s)) = Len(s) - 1
           /\ << >> \in Seq(Times) /\ Len(s) \in Nat
<1>1. ASSUME NEW n \in 1 .. Len(s)
      PROVE  [i \in 1 .. n |-> time] \in Seq(Times) /\ Len([i \in 1 .. n |-> time]) = n
  OBVIOUS
<1> QED BY <1>1

\* What the demux thread leaves in the cache.
LEMMA DemuxCache ==
    ASSUME Types, DemuxSteps
    PROVE  cache' \in Caches /\ Len(cache'.frames) <= Len(cache.frames)
<1>1. cache \in Caches /\ cache.frames \in Seq(Times) /\ Len(cache.frames) \in Nat
  BY DEF Types, Caches
<1>2. CASE cache' = cache
  BY <1>1, <1>2
<1>3. ASSUME NEW f \in Seq(Times), Len(f) <= Len(cache.frames),
             \/ cache' = [cache EXCEPT !.frames = f]
             \/ cache' = [cache EXCEPT !.frames = f, !.nCacheReply = 1]
      PROVE  cache' \in Caches /\ Len(cache'.frames) <= Len(cache.frames)
  <2>1. cache'.frames = f
    BY <1>1, <1>3 DEF Caches
  <2>2. cache' \in Caches
    BY <1>1, <1>3 DEF Caches
  <2> QED BY <1>3, <2>1, <2>2
<1>4. CASE SeekHit
  <2>1. Head(todo["demux"]).time \in Times
    <3>1. todo["demux"] \in Seq(Steps) /\ todo["demux"] # << >>
      BY <1>4, ListTypes DEF SeekHit, At, Idle, Thread
    <3>2. Head(todo["demux"]) \in Steps
      BY <3>1, FirstStep
    <3> QED BY <1>4, <3>2, StepTimes DEF SeekHit, At
  <2> DEFINE time == Head(todo["demux"]).time
  <2>2. PICK n \in 1 .. Len(cache.frames) :
          cache' = [cache EXCEPT !.frames = [i \in 1 .. n |-> time]]
    BY <1>4 DEF SeekHit
  <2> HIDE DEF time
  <2> DEFINE f == [i \in 1 .. n |-> time]
  <2>3. f \in Seq(Times) /\ Len(f) = n
    BY <1>1, <2>1, FramesTypes DEF time
  <2> HIDE DEF f
  <2>4. cache' = [cache EXCEPT !.frames = f]
    BY <2>2 DEF f
  <2>5. Len(f) <= Len(cache.frames)
    BY <1>1, <2>3
  <2> QED BY <1>3, <2>3, <2>4, <2>5
<1>5. CASE SeekMiss
  <2> DEFINE f == << >>
  <2>1. f \in Seq(Times) /\ Len(f) <= Len(cache.frames)
    BY <1>1
  <2>2. cache' = [cache EXCEPT !.frames = f, !.nCacheReply = 1]
    BY <1>5 DEF SeekMiss
  <2> HIDE DEF f
  <2> QED BY <1>3, <2>1, <2>2
<1>6. CASE SendFrame
  <2>1. cache.frames # << >> /\ (cache' = cache \/ cache' = [cache EXCEPT !.frames = Tail(@)])
    BY <1>6 DEF SendFrame
  <2> DEFINE f == Tail(cache.frames)
  <2>2. f \in Seq(Times) /\ Len(f) = Len(cache.frames) - 1
    BY <1>1, <2>1
  <2>3. cache' = cache \/ cache' = [cache EXCEPT !.frames = f]
    BY <2>1
  <2> HIDE DEF f
  <2>4. Len(f) <= Len(cache.frames)
    BY <1>1, <2>2
  <2> QED BY <1>2, <1>3, <2>2, <2>3, <2>4
<1>7. CASE AwaitCache
  <2>1. cache.semCache \in Nat /\ cache.semCache - 1 \in Nat
    BY <1>1, <1>7 DEF AwaitCache, Caches
  <2> DEFINE k == cache.semCache - 1
  <2>2. cache' = [cache EXCEPT !.semCache = k] /\ k \in Nat
    BY <1>7, <2>1 DEF AwaitCache
  <2> HIDE DEF k
  <2> QED BY <1>1, <2>2 DEF Caches
<1>8. CASE ParserPrepared
  <2>1. cache' = cache \/ cache' = [cache EXCEPT !.alive = TRUE, !.started = FALSE]
    BY <1>8 DEF ParserPrepared
  <2>2. cache' \in Caches
    BY <1>1, <2>1 DEF Caches
  <2>3. cache'.frames = cache.frames
    BY <1>1, <2>1 DEF Caches
  <2> QED BY <1>1, <2>2, <2>3
<1>9. CASE \/ SetSource \/ Prepare \/ ParserNotPrepared \/ CancelPrepare
           \/ Start \/ JoinCache \/ Closed
           \/ Seek \/ SeekDone \/ StartCache \/ SeekWaitEnds
           \/ SeekTail \/ CancelSeek \/ NotifyFirstFrameShowed
           \/ Read \/ Complete \/ BufferingEnds \/ Resumed \/ BufferingGoesOn
           \/ Underflow \/ Paused
  BY <1>2, <1>9
  DEF SetSource, Prepare, ParserNotPrepared, CancelPrepare, Start, JoinCache, Closed, Seek,
      SeekDone, StartCache, SeekWaitEnds, SeekTail, CancelSeek, NotifyFirstFrameShowed, Read,
      Complete, BufferingEnds, Resumed, BufferingGoesOn, Underflow, Paused
<1>10. CASE Close("STOP") \/ Close("CLEAR")
  BY <1>2, <1>10 DEF Close
<1>11. CASE \/ SeekWaitIsLong \/ ParserSeekOk \/ ParserSeekFails \/ ParserReadOk \/ ParserReadFails
            \/ Prepared \/ PrepareFailed \/ NotifyEos \/ PauseOrResume
            \/ NotifySeekFinish("demux")
  BY <1>2, <1>11 DEF SeekWaitIsLong, ParserSeekOk, ParserSeekFails, ParserReadOk,
     ParserReadFails, Prepared, PrepareFailed, NotifyEos, PauseOrResume, NotifySeekFinish
<1>12. CASE DemuxThread
  BY <1>4, <1>5, <1>6, <1>7, <1>8, <1>9, <1>10, <1>12 DEF DemuxThread
<1> QED BY <1>11, <1>12 DEF DemuxSteps, DemuxThreadSteps, LockedByCallback

\* What the cache thread leaves.
LEMMA CacheLists ==
    ASSUME Types, CacheThreadOwn
    PROVE  OwnList("cache") /\ ("parserRead" \in Ops(todo'["cache"]) =>
              /\ Tail(todo'["cache"]) = << >>
              /\ Len(cache.frames) < CacheSize /\ cache'.frames = cache.frames)
<1> DEFINE s == todo["cache"]
           Room == "parserRead" \in Ops(todo'["cache"]) =>
                      /\ Tail(todo'["cache"]) = << >>
                      /\ Len(cache.frames) < CacheSize /\ cache'.frames = cache.frames
<1>1. "cache" \in Thread /\ s \in Seq(Steps)
  BY ListTypes DEF Thread
<1>2. cache \in Caches /\ cache.frames \in Seq(Times) /\ Len(cache.frames) \in Nat
  BY DEF Types, Caches
<1>3. ~ Idle("cache") => "parserRead" \notin Ops(Tail(s))
  <2> SUFFICES ASSUME ~ Idle("cache"), "parserRead" \in Ops(Tail(s)) PROVE FALSE
    OBVIOUS
  <2>1. Ops(s) = {Head(s).op} \union Ops(Tail(s))
    <3>1. s # << >>
      BY DEF Idle
    <3> HIDE DEF s
    <3> QED BY <1>1, <3>1, FirstStep
  <2>2. Tail(s) = << >>
    BY <2>1 DEF Types
  <2> QED BY <2>2, FewOps
<1> HIDE DEF s
<1>4. ASSUME NEW steps \in Seq(Steps), "parserRead" \notin Ops(steps), ~ Idle("cache"),
             Proceed("cache", steps)
      PROVE  OwnList("cache") /\ Room
  <2>1. OwnList("cache")
    BY <1>1, <1>4, ProceededOwn
  <2>2. Ops(todo'["cache"]) = Ops(steps) \union Ops(Tail(s))
    BY <1>1, <1>4, Proceeded DEF s
  <2> QED BY <1>3, <1>4, <2>1, <2>2
<1>5. ASSUME NEW steps \in Seq(Steps), Does("cache", steps)
      PROVE  OwnList("cache") /\ todo'["cache"] = steps
  BY <1>1, <1>5, Begun DEF OwnList
<1>6. CASE CacheStart \/ CachePause \/ CacheQuit
  <2>1. todo' = todo /\ todo["cache"] = << >>
    BY <1>6 DEF CacheStart, CachePause, CacheQuit, Take, Idle
  <2>2. OwnList("cache")
    BY <1>1, <2>1, SameLists
  <2> QED BY <2>1, <2>2, FewOps
<1>7. CASE CacheSeek
  <2>1. Head(mq["cache"]).time \in Times
    <3>1. mq["cache"] \in Seq(Messages) /\ mq["cache"] # << >>
      BY <1>7, ListTypes DEF Thread, CacheSeek
    <3>2. Head(mq["cache"]) \in Messages
      BY <3>1, FirstMessage
    <3> QED BY <3>2 DEF Messages
  <2> DEFINE a == Timed("parserSeek", Head(mq["cache"]).time)
  <2>2. a \in Steps /\ a.op = "parserSeek" /\ Does("cache", << a >>)
    BY <1>7, <2>1, PlainSteps DEF CacheSeek, Timed
  <2> HIDE DEF a
  <2>3. << a >> \in Seq(Steps) /\ Ops(<< a >>) = {a.op}
    BY <2>2, FewOps, Zenon
  <2>4. OwnList("cache") /\ todo'["cache"] = << a >>
    BY <1>5, <2>2, <2>3
  <2>5. "parserRead" \notin Ops(todo'["cache"])
    BY <2>2, <2>3, <2>4
  <2> QED BY <2>4, <2>5
<1>8. ASSUME NEW a \in Steps, NEW b \in Steps, a.op # "parserRead", b.op # "parserRead",
             ~ Idle("cache"), Proceed("cache", << a, b >>)
      PROVE  OwnList("cache") /\ Room
  <2>1. << a, b >> \in Seq(Steps) /\ Ops(<< a, b >>) = {a.op, b.op}
    BY FewOps, Zenon
  <2> QED BY <1>4, <1>8, <2>1
<1>9. CASE CacheSeekOk \/ CacheSeekFails
  <2>1. ~ Idle("cache") /\ Head(s).time \in Times
    <3>1. s # << >> /\ Head(s).op = "parserSeek"
      BY <1>9 DEF CacheSeekOk, CacheSeekFails, At, Idle, s
    <3>2. Head(s) \in Steps
      BY <1>1, <3>1, FirstStep
    <3> QED BY <3>1, <3>2, StepTimes DEF Idle, s
  <2> DEFINE a == SeekFinish("ok", Head(s).time)
             b == Step("cacheSeekDone")
             c == SeekFinish(SeekError, Head(s).time)
             d == Step("cacheSeekFailed")
  <2>2. SeekError \in {"IO", "USER_CANCEL"}
    BY DEF SeekError
  <2>3. /\ a \in Steps /\ b \in Steps /\ c \in Steps /\ d \in Steps
        /\ a.op # "parserRead" /\ b.op # "parserRead"
        /\ c.op # "parserRead" /\ d.op # "parserRead"
    BY <2>1, <2>2, PlainSteps DEF SeekFinish, Step, PlainOps
  <2>4. Proceed("cache", << a, b >>) \/ Proceed("cache", << c, d >>)
    BY <1>9 DEF CacheSeekOk, CacheSeekFails, s
  <2> HIDE DEF a, b, c, d
  <2> QED BY <1>8, <2>1, <2>3, <2>4
<1>10. CASE \/ CacheSeekDone \/ CacheSeekFailed \/ CacheReadOk \/ CacheReadFails
            \/ NotifySeekFinish("cache")
  <2>1. ~ Idle("cache") /\ Proceed("cache", << >>)
    BY <1>10 DEF CacheSeekDone, CacheSeekFailed, CacheReadOk, CacheReadFails,
       NotifySeekFinish, At
  <2> QED BY <1>4, <2>1, FewOps
<1>11. CASE CacheRead
  <2> DEFINE a == Step("parserRead")
             room == cache.started /\ ~ Len(cache.frames) = CacheSize
  <2>1. a \in Steps
    BY PlainSteps DEF PlainOps
  <2>2. Does("cache", IF room THEN << a >> ELSE << >>) /\ cache' = cache
    BY <1>11 DEF CacheRead, Only
  <2>3. room => Len(cache.frames) < CacheSize
    BY <1>2, CacheSizeAssumption DEF Types
  <2> HIDE DEF a, room
  <2>4. << a >> \in Seq(Steps) /\ << >> \in Seq(Steps) /\ Ops(<< >>) = {} /\ Tail(<< a >>) = << >>
    BY <2>1, FewOps
  <2>5. CASE room
    BY <1>5, <2>2, <2>3, <2>4, <2>5
  <2>6. CASE ~ room
    BY <1>5, <2>2, <2>4, <2>6
  <2> QED BY <2>5, <2>6
<1> QED BY <1>6, <1>7, <1>9, <1>10, <1>11
       DEF CacheThreadOwn, CacheThreadSteps, CacheThread, LockedByCallback

LEMMA CacheCaches ==
    ASSUME Types, CacheThreadOwn
    PROVE  cache' \in Caches /\ Len(cache'.frames) <= CacheSize
<1>1. /\ cache \in Caches /\ cache.frames \in Seq(Times) /\ Len(cache.frames) \in Nat
      /\ Len(cache.frames) <= CacheSize
  BY DEF Types, Caches
<1>2. CASE cache' = cache
  BY <1>1, <1>2
<1>3. cache.semCache \in Nat /\ cache.semCache + 1 \in Nat
  BY <1>1 DEF Caches
<1>4. ASSUME NEW k \in Nat, NEW f \in BOOLEAN, NEW n \in {0, 1}, NEW alive \in BOOLEAN,
             cache' = [cache EXCEPT !.started = f, !.semCache = k, !.nCacheReply = n,
                                    !.alive = alive]
      PROVE  cache' \in Caches /\ Len(cache'.frames) <= CacheSize
  <2>1. cache' \in Caches
    BY <1>1, <1>4 DEF Caches
  <2>2. cache'.frames = cache.frames
    BY <1>1, <1>4 DEF Caches
  <2> QED BY <1>1, <2>1, <2>2
<1>5. CASE CacheStart
  BY <1>1, <1>3, <1>4, <1>5 DEF CacheStart, Caches
<1>6. CASE CachePause \/ CacheQuit
  BY <1>1, <1>3, <1>4, <1>6 DEF CachePause, CacheQuit, Caches
<1>7. CASE CacheSeekDone \/ CacheSeekFailed
  BY <1>1, <1>3, <1>4, <1>7 DEF CacheSeekDone, CacheSeekFailed, Caches
<1>8. CASE CacheReadOk
  <2>1. Len(cache.frames) < CacheSize
    <3>1. todo["cache"] \in Seq(Steps) /\ todo["cache"] # << >>
      BY <1>8, ListTypes DEF CacheReadOk, At, Idle, Thread
    <3>2. "parserRead" \in Ops(todo["cache"])
      BY <1>8, <3>1, FirstStep DEF CacheReadOk, At
    <3> QED BY <3>2 DEF Types
  <2>2. demux.position \in Times
    BY DEF Types, Demuxes
  <2> DEFINE f == Append(cache.frames, demux.position)
  <2>3. f \in Seq(Times) /\ Len(f) = Len(cache.frames) + 1
    BY <1>1, <2>2
  <2>4. cache' = [cache EXCEPT !.frames = f]
    BY <1>8 DEF CacheReadOk
  <2> HIDE DEF f
  <2>5. Len(f) <= CacheSize
    BY <1>1, <2>1, <2>3, CacheSizeAssumption
  <2>6. cache' \in Caches
    BY <1>1, <2>3, <2>4 DEF Caches
  <2>7. cache'.frames = f
    BY <1>1, <2>4 DEF Caches
  <2> QED BY <2>5, <2>6, <2>7
<1>9. CASE \/ CacheSeek \/ CacheSeekOk \/ CacheSeekFails \/ CacheRead \/ CacheReadFails
           \/ NotifySeekFinish("cache")
  BY <1>2, <1>9 DEF CacheSeek, CacheSeekOk, CacheSeekFails, CacheRead, CacheReadFails,
     NotifySeekFinish
<1> QED BY <1>5, <1>6, <1>7, <1>8, <1>9
       DEF CacheThreadOwn, CacheThreadSteps, CacheThread, LockedByCallback

LEMMA CacheMessages ==
    ASSUME Types, CacheThreadOwn
    PROVE  mq' \in [Thread -> Seq(Messages)]
<1>1. CASE CacheSteps
  BY <1>1, CacheQueues
<1>2. CASE CacheQuit
  BY <1>2, Taken DEF CacheQuit, Take, Thread
<1>3. CASE NotifySeekFinish("cache")
  BY <1>3 DEF NotifySeekFinish, Types
<1> QED BY <1>1, <1>2, <1>3
       DEF CacheThreadOwn, CacheThreadSteps, CacheThread, CacheSteps, LockedByCallback

\* What every step leaves in the component.
LEMMA DemuxTypes ==
    ASSUME Types, Next
    PROVE  demux' \in Demuxes
<1>0. /\ demux \in Demuxes /\ ClrForceStop \in BOOLEAN
      /\ Restarted(demux.eStatus) \in DemuxStatuses
      /\ StartedByCallback \in DemuxStatuses
  BY DEF Types, Demuxes, Restarted, DemuxStatuses, ClrForceStop, StartedByCallback
<1>1. ASSUME NEW t \in Thread, At(t, "parserSeek") \/ At(t, "seekCache")
      PROVE  Head(todo[t]).time \in Times
  <2>1. todo[t] \in Seq(Steps) /\ todo[t] # << >>
    BY <1>1, ListTypes DEF At, Idle
  <2>2. Head(todo[t]) \in Steps
    BY <2>1
  <2> QED BY <1>1, <2>2, StepTimes DEF At
<1>2. /\ (demux.bFileStream \/ ~ demux.net) \in BOOLEAN
      /\ (demux.bNeedPausePlayerNotified /\ ~ demux.bBufferring) \in BOOLEAN
      /\ 0 \in Times
  BY DEF Times
<1>3. CASE SetSource \/ Prepare \/ ParserNotPrepared \/ CancelPrepare \/ Closed
  BY ZenonT(60), <1>0, <1>3 DEF SetSource, Prepare, ParserNotPrepared, CancelPrepare, Closed,
     Demuxes, DemuxStatuses
<1>4. CASE ParserPrepared
  <2> DEFINE b == demux.bFileStream \/ ~ demux.net
  <2>1. demux' = [demux EXCEPT !.pParser = TRUE, !.bForceStop = demux.bCancelPrepare,
                              !.position = 0, !.bEOS = FALSE, !.bIOError = FALSE,
                              !.eStatus = "PREPARED", !.sent = FALSE,
                              !.bFileStream = b]
    BY <1>0, <1>4 DEF ParserPrepared, Demuxes
  <2>2. b \in BOOLEAN
    BY <1>2
  <2> HIDE DEF b
  <2> QED BY ZenonT(60), <1>0, <1>2, <2>1, <2>2 DEF Demuxes, DemuxStatuses
<1>5. CASE Start
  <2> DEFINE b == demux.bNeedPausePlayerNotified /\ ~ demux.bBufferring
  <2>1. demux' \in {[demux EXCEPT !.eStatus = "STARTED", !.bNeedPausePlayerNotified = b, !.bBufferring = FALSE],
                     [demux EXCEPT !.bNeedPausePlayerNotified = b, !.bBufferring = FALSE]}
    BY <1>5, <1>0 DEF Start, Demuxes
  <2>2. b \in BOOLEAN BY <1>2
  <2> HIDE DEF b
  <2> QED BY ZenonT(60), <2>2, <2>1, <1>0 DEF Demuxes, DemuxStatuses
<1>6. CASE Seek \/ ParserSeekOk \/ ParserSeekFails
  <2>1. SeekFails \in Demuxes
    BY <1>0 DEF SeekFails, Demuxes, DemuxStatuses
  <2> QED BY ZenonT(60), <1>0, <1>1, <1>6, <2>1 DEF Seek, ParserSeekOk, ParserSeekFails, Demuxes, DemuxStatuses, Thread
<1>7. CASE SeekDone
  BY <1>0, <1>1, <1>7 DEF SeekDone, Demuxes, DemuxStatuses, Thread
<1>8. CASE SeekHit
  BY <1>0, <1>1, <1>8 DEF SeekHit, Demuxes, DemuxStatuses, Thread
<1>9. CASE StartCache \/ SeekMiss \/ SeekWaitIsLong \/ SeekTail \/ CancelSeek
  BY ZenonT(60), <1>0, <1>9 DEF StartCache, SeekMiss, SeekWaitIsLong, SeekTail, CancelSeek, Demuxes, DemuxStatuses
<1>10. CASE ParserReadOk \/ ParserReadFails \/ Complete \/ BufferingEnds \/ Resumed \/ SendFrame \/ Underflow \/ Paused
  BY ZenonT(60), <1>0, <1>10 DEF ParserReadOk, ParserReadFails, Complete, BufferingEnds, Resumed, SendFrame, Underflow, Paused, Demuxes, DemuxStatuses
<1>11. CASE CacheSeek \/ CacheSeekOk \/ CacheSeekFails \/ CacheSeekDone \/ CacheReadFails
  BY ZenonT(60), <1>0, <1>1, <1>11 DEF CacheSeek, CacheSeekOk, CacheSeekFails, SeekFails, CacheSeekDone, CacheReadFails, Demuxes, DemuxStatuses, Thread
<1>12. CASE DemuxComponent
  BY <1>0, <1>12 DEF DemuxComponent, DemuxCompStart, DemuxCompStop, DemuxCompClear, DemuxCompCancelSeek, DemuxCompCancelPrepare, Demuxes
<1>13. CASE PreparePlayer \/ SeekCallsDemux \/ StartLocked
  BY ZenonT(60), <1>0, <1>13 DEF PreparePlayer, SeekCallsDemux, PrepareAsyncSet, SeekToSet, StartLocked, StartWhenStarted, StartWhenSeeking, StartWhenComplete, StartOtherwise, Demuxes, DemuxStatuses, demuxVars
<1>14. ASSUME NEW t \in Thread, NotifySeekFinish(t) PROVE demux' \in Demuxes
  BY ZenonT(60), <1>0, <1>14 DEF NotifySeekFinish, Demuxes
<1>15. CASE demux' = demux
  BY <1>0, <1>15
<1>16. CASE \/ AnswerCall \/ AwaitDemux \/ SetDataSource \/ SourceSet \/ StartPlayer \/ StopPlayer
            \/ PausePlayer \/ ResetPlayer \/ SeekPlayer \/ Unlock \/ CallPlayer
            \/ ChangeStatus \/ NotSeeking \/ SeekPausesPlayer
            \/ PauseLocked \/ SeekTimeLocked \/ SeekLocked
  BY <1>15, <1>16 DEF AnswerCall, AwaitDemux, SetDataSource, SourceSet, StartPlayer, StopPlayer,
     PausePlayer, ResetPlayer, SeekPlayer, Handle, Unlock, CallPlayer, ChangeStatus,
     NotSeeking, SeekPausesPlayer, PauseLocked, SeekTimeLocked, SeekLocked
<1>17. CASE XPlayerThread
  BY <1>12, <1>13, <1>16, <1>17 DEF XPlayerThread, LockedByXPlayer
<1>18. CASE \/ Close("STOP") \/ Close("CLEAR") \/ JoinCache \/ AwaitCache \/ SeekWaitEnds
            \/ NotifyFirstFrameShowed \/ Read \/ BufferingGoesOn
            \/ Prepared \/ PrepareFailed \/ NotifyEos \/ PauseOrResume
  BY <1>15, <1>18 DEF Close, JoinCache, AwaitCache, SeekWaitEnds, NotifyFirstFrameShowed, Read,
     BufferingGoesOn, Prepared, PrepareFailed, NotifyEos, PauseOrResume
<1>19. CASE DemuxThreadSteps
  <2>1. NotifySeekFinish("demux") => demux' \in Demuxes
    BY <1>14 DEF Thread
  <2> QED BY <1>3, <1>4, <1>5, <1>6, <1>7, <1>8, <1>9, <1>10, <1>18, <1>19, <2>1
          DEF DemuxThreadSteps, DemuxThread, LockedByCallback
<1>20. CASE \/ CacheStart \/ CachePause \/ CacheQuit \/ CacheSeekFailed \/ CacheRead
            \/ CacheReadOk
  BY <1>15, <1>20 DEF CacheStart, CachePause, CacheQuit, CacheSeekFailed, CacheRead, CacheReadOk
<1>21. CASE CacheThreadSteps
  <2>1. NotifySeekFinish("cache") => demux' \in Demuxes
    BY <1>14 DEF Thread
  <2> QED BY <1>11, <1>20, <1>21, <2>1 DEF CacheThreadSteps, CacheThread, LockedByCallback
<1>22. CASE OtherThreads
  BY <1>15, <1>22 DEF OtherThreads, Application, RenderThread, AppCall, AppSetLooping,
     AppPrepared, NotifyPlaybackEos, NotifyFirstPicture, demuxVars
<1>23. CASE SeekWaitIsLong \/ ParserReturns
  BY <1>6, <1>9, <1>10, <1>11, <1>20, <1>23 DEF ParserReturns
<1> QED BY <1>17, <1>19, <1>21, <1>22, <1>23 DEF Next, OtherThreads

\* What every step leaves in the front end and the player.
LEMMA HeadStatus ==
    ASSUME Types, NEW t \in Thread
    PROVE  /\ At(t, "status") => Head(todo[t]).status \in Statuses
           /\ At(t, "seekTime") \/ At(t, "seek") => Head(todo[t]).time \in Times
<1>1. ~ Idle(t) => Head(todo[t]) \in Steps
  BY ListTypes, FirstStep DEF Idle
<1>2. \A x \in Steps : x.op = "status" => x.status \in Statuses
  BY DEF Steps, PlainOps
<1> QED BY <1>1, <1>2, StepTimes DEF At

LEMMA ContextTypes ==
    ASSUME Types, Next
    PROVE  ctx' \in Contexts
<1>1. ctx \in Contexts /\ 0 \in Times /\ "xplayer" \in Thread
  BY DEF Types, Times, Thread
<1>2. CASE ctx' = ctx
  BY <1>1, <1>2
<1>3. CASE AppCall
  <2>1. PICK f \in BOOLEAN : ctx' = [ctx EXCEPT !.mSemPrepareFinish = f]
    BY <1>3, <1>1 DEF AppCall, Contexts
  <2> QED BY <1>1, <2>1 DEF Contexts
<1>4. CASE AppSetLooping \/ AppPrepared
  BY <1>1, <1>4, SwitchesAssumption DEF AppSetLooping, AppPrepared, Contexts
<1>5. CASE SourceSet
  BY <1>1, <1>5 DEF SourceSet, Contexts, Statuses
<1>6. CASE PreparePlayer
  <2>1. PICK id \in {"PREPARE", "PREPARE_ASYNC"} :
          ctx' = IF ctx.mStatus \in {"INITIALIZED", "STOPPED"}
                   THEN [ctx EXCEPT !.mStatus = "PREPARING", !.mPrepareSync = id = "PREPARE"]
                   ELSE [ctx EXCEPT !.mSemPrepareFinish =
                           @ \/ (ctx.mStatus = "PREPARED" /\ id = "PREPARE")]
    BY <1>6 DEF PreparePlayer
  <2> DEFINE f == id = "PREPARE"
             g == ctx.mSemPrepareFinish \/ (ctx.mStatus = "PREPARED" /\ id = "PREPARE")
  <2>2. f \in BOOLEAN /\ g \in BOOLEAN
    OBVIOUS
  <2>3. \/ ctx' = [ctx EXCEPT !.mStatus = "PREPARING", !.mPrepareSync = f]
        \/ ctx' = [ctx EXCEPT !.mSemPrepareFinish = g]
    BY <1>1, <2>1 DEF Contexts
  <2> HIDE DEF f, g
  <2> QED BY <1>1, <2>2, <2>3 DEF Contexts, Statuses
<1>7. CASE StartLocked
  BY <1>1, <1>7 DEF StartLocked, StartWhenStarted, StartWhenSeeking, StartWhenComplete,
     StartOtherwise, Contexts, Statuses
<1>8. CASE ChangeStatus
  <2> DEFINE status == Head(todo["xplayer"]).status
             loop == ctx.mLoop /\ status # "IDLE"
  <2>1. status \in Statuses /\ loop \in BOOLEAN
    BY <1>1, <1>8, HeadStatus DEF ChangeStatus
  <2>2. ctx' = [ctx EXCEPT !.mStatus = status, !.mLoop = loop]
    BY <1>1, <1>8 DEF ChangeStatus, Contexts
  <2> HIDE DEF status, loop
  <2> QED BY <1>1, <2>1, <2>2 DEF Contexts
<1>9. CASE NotSeeking \/ PauseLocked
  BY <1>1, <1>9 DEF NotSeeking, PauseLocked, Contexts, Statuses
<1>10. CASE ResetPlayer
  BY <1>1, <1>10 DEF ResetPlayer, Contexts, Statuses
<1>11. CASE SeekTimeLocked \/ SeekLocked
  <2> DEFINE time == Head(todo["xplayer"]).time
  <2>1. time \in Times
    BY <1>1, <1>11, HeadStatus DEF SeekTimeLocked, SeekLocked
  <2>2. \/ ctx' = [ctx EXCEPT !.mSeekTime = time]
        \/ ctx' = [ctx EXCEPT !.mSeeking = TRUE, !.mSeekTime = time]
    BY <1>11 DEF SeekTimeLocked, SeekLocked
  <2> HIDE DEF time
  <2> QED BY <1>1, <2>1, <2>2 DEF Contexts
<1>12. CASE Prepared
  <2>1. PICK result \in InitResults, seekable \in Seekable :
         ctx' = [ctx EXCEPT !.mStatus = IF result = "ok" THEN "PREPARED" ELSE "ERROR",
                            !.bSeekable = seekable,
                            !.mMutexMediaInfo = result = "unsupported",
                            !.mSemPrepareFinish = @ \/ ctx.mPrepareSync]
    BY <1>12 DEF Prepared
  <2> DEFINE f == result = "unsupported"
             g == ctx.mSemPrepareFinish \/ ctx.mPrepareSync
             status == IF result = "ok" THEN "PREPARED" ELSE "ERROR"
  <2>2. f \in BOOLEAN /\ g \in BOOLEAN /\ status \in Statuses /\ seekable \in BOOLEAN
    BY SwitchesAssumption DEF Statuses
  <2>3. ctx' = [ctx EXCEPT !.mStatus = status, !.bSeekable = seekable,
                           !.mMutexMediaInfo = f, !.mSemPrepareFinish = g]
    BY <1>1, <2>1 DEF Contexts
  <2> HIDE DEF f, g, status
  <2> QED BY <1>1, <2>2, <2>3 DEF Contexts
<1>13. CASE PrepareFailed
  <2> DEFINE g == ctx.mSemPrepareFinish \/ ctx.mPrepareSync
  <2>1. ctx' = [ctx EXCEPT !.mStatus = "ERROR", !.mSemPrepareFinish = g]
    BY <1>1, <1>13 DEF PrepareFailed, Contexts
  <2>2. g \in BOOLEAN
    OBVIOUS
  <2> HIDE DEF g
  <2> QED BY <1>1, <2>1, <2>2 DEF Contexts, Statuses
<1>14. ASSUME NEW t \in Thread, NotifySeekFinish(t) PROVE ctx' \in Contexts
  <2>1. PICK f \in BOOLEAN : ctx' = [ctx EXCEPT !.mSeeking = f]
    <3> DEFINE latest == Head(todo[t]).result = "ok" /\ Head(todo[t]).time = ctx.mSeekTime
               f == ctx.mSeeking /\ ~ latest
    <3>1. ctx' = [ctx EXCEPT !.mSeeking = f]
      BY <1>1, <1>14 DEF NotifySeekFinish, Contexts
    <3>2. f \in BOOLEAN
      OBVIOUS
    <3> QED BY <3>1, <3>2
  <2> QED BY <1>1, <2>1 DEF Contexts
<1>15. CASE NotifyPlaybackEos
  BY <1>1, <1>15 DEF NotifyPlaybackEos, Contexts, Statuses
<1>16. CASE UNCHANGED xplayerVars
  BY <1>2, <1>16 DEF xplayerVars
<1>17. CASE \/ SetDataSource \/ StartPlayer \/ StopPlayer \/ PausePlayer \/ SeekPlayer
            \/ AnswerCall \/ AwaitDemux \/ Unlock \/ CallPlayer \/ SeekPausesPlayer
            \/ SeekCallsDemux \/ NotifyEos \/ PauseOrResume \/ NotifyFirstPicture
  BY <1>2, <1>17 DEF SetDataSource, StartPlayer, StopPlayer, PausePlayer, SeekPlayer,
     AnswerCall, AwaitDemux, Unlock, CallPlayer, SeekPausesPlayer, SeekCallsDemux,
     NotifyEos, PauseOrResume, NotifyFirstPicture, xplayerVars
<1>18. CASE XPlayerThread
  BY <1>5, <1>6, <1>7, <1>8, <1>9, <1>10, <1>11, <1>16, <1>17, <1>18
     DEF XPlayerThread, LockedByXPlayer
<1>19. CASE DemuxThreadSteps \/ CacheThreadSteps
  BY <1>12, <1>13, <1>14, <1>16, <1>17, <1>19
     DEF DemuxThreadSteps, CacheThreadSteps, LockedByCallback, Thread
<1> QED BY <1>3, <1>4, <1>15, <1>16, <1>17, <1>18, <1>19 DEF Next, Application, RenderThread

LEMMA PlayerTypes ==
    ASSUME Types, Next
    PROVE  player' \in Players
<1>1. player \in Players /\ "xplayer" \in Thread
  BY DEF Types, Thread
<1>2. \A p \in Players : /\ PlayerStart(p) \in Players /\ PlayerPause(p) \in Players
                         /\ PlayerReset(p) \in Players /\ PlayerStopped \in Players
  BY DEF Players, PlayerStart, PlayerPause, PlayerReset, PlayerStopped
<1>3. CASE player' = player
  BY <1>1, <1>3
<1>4. CASE NotifyPlaybackEos \/ NotifyFirstPicture \/ NotifyEos
  BY <1>1, <1>4 DEF NotifyPlaybackEos, NotifyFirstPicture, NotifyEos, Players
<1>5. CASE StartLocked
  BY <1>1, <1>2, <1>5 DEF StartLocked, StartWhenStarted, StartWhenSeeking, StartWhenComplete,
     StartOtherwise
<1>6. CASE CallPlayer \/ PauseLocked \/ SeekPausesPlayer \/ PauseOrResume
  BY <1>1, <1>2, <1>6 DEF CallPlayer, PauseLocked, SeekPausesPlayer, PauseOrResume
<1>7. ASSUME NEW t \in Thread, NotifySeekFinish(t) PROVE player' \in Players
  BY <1>1, <1>2, <1>7 DEF NotifySeekFinish
<1>8. CASE UNCHANGED xplayerVars
  BY <1>3, <1>8 DEF xplayerVars
<1>9. CASE \/ SetDataSource \/ SourceSet \/ PreparePlayer \/ StartPlayer \/ StopPlayer
           \/ PausePlayer \/ ResetPlayer \/ SeekPlayer \/ AnswerCall \/ AwaitDemux \/ Unlock
           \/ ChangeStatus \/ NotSeeking \/ SeekCallsDemux \/ SeekTimeLocked \/ SeekLocked
           \/ Prepared \/ PrepareFailed \/ Application \/ AppPrepared
  BY <1>3, <1>9 DEF SetDataSource, SourceSet, PreparePlayer, StartPlayer, StopPlayer,
     PausePlayer, ResetPlayer, SeekPlayer, Handle, AnswerCall, AwaitDemux, Unlock,
     ChangeStatus, NotSeeking, SeekCallsDemux, SeekTimeLocked, SeekLocked, Prepared,
     PrepareFailed, Application, AppCall, AppSetLooping, AppPrepared, xplayerVars
<1>10. CASE XPlayerThread
  BY <1>5, <1>6, <1>8, <1>9, <1>10 DEF XPlayerThread, LockedByXPlayer
<1>11. CASE DemuxThreadSteps \/ CacheThreadSteps
  BY <1>4, <1>6, <1>7, <1>8, <1>9, <1>11
     DEF DemuxThreadSteps, CacheThreadSteps, LockedByCallback, Thread
<1> QED BY <1>4, <1>8, <1>9, <1>10, <1>11 DEF Next, RenderThread

\* What every step leaves of the waiting for answers and of the mutex.
LEMMA WaitTypes ==
    ASSUME Types, Next
    PROVE  /\ reply' \in {"none", "ok", "fail"}
           /\ call' \in {"none", "reply", "prepare", "finish"}
           /\ mMutexStatus' \in BOOLEAN
<1>1. /\ reply \in {"none", "ok", "fail"}
      /\ call \in {"none", "reply", "prepare", "finish"} /\ mMutexStatus \in BOOLEAN
  BY DEF Types
<1>2. CASE Application \/ AppPrepared \/ RenderThread
  BY <1>1, <1>2 DEF Application, RenderThread, AppCall, AppSetLooping, AppPrepared,
     NotifyPlaybackEos, NotifyFirstPicture, demuxVars
<1>3. CASE FrontCommands
  BY <1>1, <1>3 DEF FrontCommands, SetDataSource, PreparePlayer, StartPlayer, StopPlayer,
     PausePlayer, ResetPlayer, SeekPlayer, Handle, xplayerVars
<1>4. CASE \/ AnswerCall \/ AwaitDemux \/ SourceSet \/ Unlock \/ CallPlayer \/ ChangeStatus
           \/ NotSeeking \/ SeekPausesPlayer \/ SeekCallsDemux \/ LockedByXPlayer
  BY <1>1, <1>4 DEF AnswerCall, AwaitDemux, SourceSet, Unlock, CallPlayer,
     ChangeStatus, NotSeeking, SeekPausesPlayer, SeekCallsDemux, LockedByXPlayer, StartLocked,
     StartWhenStarted, StartWhenSeeking, StartWhenComplete, StartOtherwise, PauseLocked,
     SeekTimeLocked, SeekLocked, xplayerVars
<1>5. CASE DemuxComponent /\ UNCHANGED xplayerVars
  BY <1>1, <1>5 DEF DemuxComponent, DemuxCompStart, DemuxCompStop, DemuxCompClear,
     DemuxCompCancelSeek, DemuxCompCancelPrepare, xplayerVars
<1>6. CASE XPlayerThread
  BY <1>3, <1>4, <1>5, <1>6 DEF XPlayerThread, FrontCommands
<1>7. CASE Prepared \/ PrepareFailed \/ NotifyEos \/ PauseOrResume
  BY <1>1, <1>7 DEF Prepared, PrepareFailed, NotifyEos, PauseOrResume
<1>8. ASSUME NEW t, NotifySeekFinish(t)
      PROVE  UNCHANGED << reply, call, mMutexStatus >>
  BY <1>8 DEF NotifySeekFinish
<1>9. ASSUME DemuxThread PROVE reply' \in {"none", "ok", "fail"}
  <2>1. reply' = reply \/ reply' \in {"ok", "fail"}
    <3>1. CASE SetSource \/ CancelPrepare \/ Start \/ Closed \/ CancelSeek
      BY <3>1 DEF SetSource, CancelPrepare, Start, Closed, CancelSeek, Reply
    <3>2. CASE \/ Prepare \/ ParserPrepared \/ ParserNotPrepared \/ Close("STOP")
               \/ Close("CLEAR") \/ JoinCache \/ AwaitCache \/ Seek \/ SeekDone \/ SeekHit
               \/ StartCache \/ SeekMiss \/ SeekWaitEnds \/ SeekTail
               \/ NotifyFirstFrameShowed \/ Read \/ Complete \/ BufferingEnds \/ Resumed
               \/ BufferingGoesOn \/ SendFrame \/ Underflow \/ Paused
      BY <3>2 DEF Prepare, ParserPrepared, ParserNotPrepared, Close, JoinCache, AwaitCache,
         Seek, SeekDone, SeekHit, StartCache, SeekMiss, SeekWaitEnds, SeekTail,
         NotifyFirstFrameShowed, Read, Complete, BufferingEnds, Resumed, BufferingGoesOn,
         SendFrame, Underflow, Paused
    <3> QED BY <1>9, <3>1, <3>2 DEF DemuxThread
  <2> QED BY <1>1, <2>1
<1>10. ASSUME CacheThread \/ ParserReturns \/ SeekWaitIsLong
       PROVE  reply' \in {"none", "ok", "fail"}
  <2>1. reply' = reply
    BY <1>10 DEF CacheThread, CacheStart, CachePause, CacheQuit, CacheSeek, CacheSeekDone,
       CacheSeekFailed, CacheRead, ParserReturns, ParserSeekOk, ParserSeekFails, ParserReadOk,
       ParserReadFails, CacheSeekOk, CacheSeekFails, CacheReadOk, CacheReadFails,
       SeekWaitIsLong
  <2> QED BY <1>1, <2>1
<1>11. CASE /\ DemuxThread \/ CacheThread \/ ParserReturns \/ SeekWaitIsLong
            /\ UNCHANGED xplayerVars
  <2>1. call' = call /\ mMutexStatus' = mMutexStatus
    BY <1>11 DEF xplayerVars
  <2> QED BY <1>1, <1>9, <1>10, <1>11, <2>1
<1>12. CASE NotifySeekFinish("demux") \/ NotifySeekFinish("cache")
  BY <1>1, <1>8, <1>12
<1> QED BY <1>2, <1>6, <1>7, <1>11, <1>12
        DEF Next, DemuxThreadSteps, CacheThreadSteps, LockedByCallback

LEMMA NextThreads ==
    ASSUME Next
    PROVE  FrontSteps \/ FrontCommands \/ OtherThreads \/ DemuxSteps \/ CacheThreadOwn
  BY DEF Next, XPlayerThread, FrontSteps, FrontCommands, OtherThreads, DemuxSteps,
     CacheThreadOwn, ParserReturns

LEMMA FrontOnlyKept ==
    ASSUME Types, FrontOnly, Protocol, Next
    PROVE  FrontOnly'
<1>1. CASE FrontSteps \/ FrontCommands \/ OtherThreads
  <2>1. OwnLists
    BY <1>1, FrontLists, CommandLists, OtherLists
  <2> QED BY <2>1 DEF OwnLists, FrontOnly, Ops, Elements
<1>2. CASE DemuxSteps \/ CacheThreadOwn
  <2>1. todo'["xplayer"] = todo["xplayer"]
    BY <1>2, DemuxLists, CacheLists DEF OwnList, Thread
  <2> QED BY <2>1 DEF FrontOnly, Ops, Elements
<1> QED BY <1>1, <1>2, NextThreads

LEMMA TypesKept ==
    ASSUME Types, Protocol, Next
    PROVE  Types'
<1>1. cache \in Caches /\ cache.frames \in Seq(Times) /\ Len(cache.frames) \in Nat
  BY DEF Types, Caches
<1>2. /\ mq' \in [Thread -> Seq(Messages)] /\ todo' \in [Thread -> Seq(Steps)]
      /\ cache' \in Caches /\ Len(cache'.frames) <= CacheSize
      /\ "parserRead" \in Ops(todo'["cache"]) =>
            Tail(todo'["cache"]) = << >> /\ Len(cache'.frames) < CacheSize
  <2>1. CASE FrontSteps \/ FrontCommands \/ OtherThreads
    <3>1. OwnLists /\ OwnQueues
      BY <2>1, FrontLists, FrontQueues, CommandLists, OtherLists
    <3>2. cache' = cache
      BY <2>1, FrontState
    <3> QED BY <3>1, <3>2 DEF OwnLists, OwnQueues, Types
  <2>2. CASE DemuxSteps
    <3>1. OwnList("demux") /\ mq' \in [Thread -> Seq(Messages)]
      BY <2>2, DemuxLists, DemuxQueues
    <3>2. cache' \in Caches /\ Len(cache'.frames) <= Len(cache.frames)
      BY <2>2, DemuxCache
    <3>3. cache'.frames \in Seq(Times) /\ Len(cache'.frames) \in Nat
      BY <3>2 DEF Caches
    <3>4. todo' \in [Thread -> Seq(Steps)] /\ todo'["cache"] = todo["cache"]
      BY <3>1 DEF OwnList, Thread
    <3>5. Len(cache.frames) <= CacheSize /\ CacheSize \in Nat
      BY CacheSizeAssumption DEF Types
    <3>6. "parserRead" \in Ops(todo["cache"]) =>
              Tail(todo["cache"]) = << >> /\ Len(cache.frames) < CacheSize
      BY DEF Types
    <3>7. "parserRead" \in Ops(todo["cache"]) => Len(cache'.frames) < CacheSize
      BY <1>1, <3>2, <3>3, <3>5, <3>6
    <3>8. Len(cache'.frames) <= CacheSize
      BY <1>1, <3>2, <3>3, <3>5
    <3> QED BY <3>1, <3>2, <3>4, <3>6, <3>7, <3>8
  <2>3. CASE CacheThreadOwn
    <3>1. todo' \in [Thread -> Seq(Steps)]
      BY <2>3, CacheLists DEF OwnList
    <3> QED BY <2>3, <3>1, CacheLists, CacheCaches, CacheMessages
  <2> QED BY <2>1, <2>2, <2>3, NextThreads
<1>3. /\ reply' \in {"none", "ok", "fail"}
      /\ call' \in {"none", "reply", "prepare", "finish"}
      /\ mMutexStatus' \in BOOLEAN
  BY WaitTypes
<1>4. demux' \in Demuxes /\ ctx' \in Contexts /\ player' \in Players
  BY DemuxTypes, ContextTypes, PlayerTypes
<1> QED BY <1>2, <1>3, <1>4 DEF Types, Ops, Elements

LEMMA InvInit == Init => XPlayerInv
<1> SUFFICES ASSUME Init PROVE XPlayerInv
  OBVIOUS
<1>1. \A t \in Thread : mq[t] = << >> /\ todo[t] = << >>
  BY DEF Init, DemuxInit
<1>2. /\ mq["xplayer"] = << >> /\ mq["demux"] = << >> /\ mq["cache"] = << >>
      /\ todo["xplayer"] = << >> /\ todo["demux"] = << >> /\ todo["cache"] = << >>
  BY <1>1 DEF Thread
<1>3. Elements(<< >>) = {} /\ Ids(<< >>) = {} /\ Ops(<< >>) = {} /\ ~ Quits(<< >>)
  BY DEF Elements, Ids, Ops, Quits
<1>4. Types
  <2>1. mq \in [Thread -> Seq(Messages)] /\ todo \in [Thread -> Seq(Steps)]
    BY DEF Init, DemuxInit
  <2>2. demux \in Demuxes
    BY DEF Init, DemuxInit, Demuxes, DemuxStatuses, Times
  <2>3. cache \in Caches /\ Len(cache.frames) <= CacheSize
    BY CacheSizeAssumption DEF Init, DemuxInit, Caches
  <2>4. ctx \in Contexts
    BY DEF Init, Contexts, Statuses, Times
  <2>5. player \in Players
    BY DEF Init, Players
  <2> QED BY <1>2, <1>3, <2>1, <2>2, <2>3, <2>4, <2>5 DEF Init, DemuxInit, Types
<1>5. demux.pParser = FALSE /\ demux.eStatus = "IDLE" /\ demux.bStopping = FALSE
      /\ demux.bCancelSeek = FALSE /\ cache.alive = FALSE /\ reply = "none"
      /\ ctx.mStatus = "IDLE" /\ player.eStatus = "STOPPED"
  BY DEF Init, DemuxInit
<1>6. ~ Closing /\ ~ Preparing /\ ~ PreparesNow /\ \A ids : ~ Asked(ids)
  BY <1>2, <1>3 DEF Closing, Preparing, PreparesNow, Asked
<1>7. Parser
  <2>1. ~ FinishOk(todo["demux"])
    BY <1>2, <1>3 DEF FinishOk
  <2> QED BY <1>2, <1>3, <1>5, <1>6, <2>1 DEF Parser
<1>8. Turns /\ Flags
  BY <1>2, <1>5, <1>6 DEF Turns, Flags, QueueOrder
<1>9. Preparation
  BY <1>2, <1>3, <1>6 DEF Preparation
<1>10. Commanding
  BY <1>2, <1>3, <1>5, <1>6 DEF Commanding, InOrder, Shut
<1>11. FrontOnly
  BY <1>2, <1>3 DEF FrontOnly
<1> QED BY <1>4, <1>7, <1>8, <1>9, <1>10, <1>11 DEF XPlayerInv

LEMMA InvNext == XPlayerInv /\ Next => XPlayerInv'
<1> SUFFICES ASSUME XPlayerInv, Next PROVE XPlayerInv'
  OBVIOUS
<1>1. Types /\ FrontOnly /\ Parser /\ Protocol
  BY DEF XPlayerInv, Protocol
<1>2. Types' /\ FrontOnly'
  BY <1>1, TypesKept, FrontOnlyKept
<1>3. Parser' /\ Protocol'
  BY <1>1, NextKeeps
<1> QED BY <1>2, <1>3 DEF XPlayerInv, Protocol

LEMMA InvStutters == XPlayerInv /\ UNCHANGED vars => XPlayerInv'
<1> SUFFICES ASSUME XPlayerInv, UNCHANGED vars PROVE XPlayerInv'
  OBVIOUS
<1>1. /\ mq' = mq /\ todo' = todo /\ demux' = demux /\ cache' = cache /\ reply' = reply
      /\ ctx' = ctx /\ player' = player /\ call' = call /\ mMutexStatus' = mMutexStatus
  BY DEF vars, demuxVars, xplayerVars
<1>2. Types' /\ FrontOnly' /\ Parser'
  <2>1. Types /\ FrontOnly /\ Parser
    BY DEF XPlayerInv
  <2>2. /\ Ops(todo["xplayer"])' = Ops(todo["xplayer"])
        /\ Ops(todo["demux"])' = Ops(todo["demux"])
        /\ Ops(todo["cache"])' = Ops(todo["cache"])
        /\ Ids(mq["cache"])' = Ids(mq["cache"])
        /\ FinishOk(todo["demux"])' <=> FinishOk(todo["demux"])
        /\ CloseSteps' <=> CloseSteps
        /\ Closing' <=> Closing
        /\ PreparesNow' <=> PreparesNow
    BY <1>1 DEF Ops, Ids, Elements, FinishOk, CloseSteps, Closing, PreparesNow
  <2>3. Types'
    BY <1>1, <2>1, <2>2 DEF Types
  <2>4. FrontOnly'
    BY <2>1, <2>2 DEF FrontOnly
  <2>5. Parser'
    BY <1>1, <2>1, <2>2 DEF Parser
  <2> QED BY <2>3, <2>4, <2>5
<1>3. Turns' /\ Flags'
  BY <1>1 DEF XPlayerInv, Turns, Flags, Asked, Waiting, Closing, Ops, Ids, Elements
<1>4. /\ (Preparing' <=> Preparing) /\ (PreparesNow' <=> PreparesNow) /\ (Shut' <=> Shut)
      /\ (Asked(Closes)' <=> Asked(Closes)) /\ (Closing' <=> Closing)
      /\ Asked(Requests \ {"CANCEL_PREPARE"})' <=> Asked(Requests \ {"CANCEL_PREPARE"})
      /\ Asked({"CANCEL_PREPARE"})' <=> Asked({"CANCEL_PREPARE"})
      /\ "PREPARE" \in Ids(mq["demux"])' <=> "PREPARE" \in Ids(mq["demux"])
      /\ Ops(todo["xplayer"])' = Ops(todo["xplayer"])
      /\ Ops(todo["demux"])' = Ops(todo["demux"])
  BY <1>1 DEF Shut, Preparing, PreparesNow, Asked, Closing, Ops, Ids, Elements
<1>5. Preparation'
  BY <1>1, <1>4 DEF XPlayerInv, Preparation
<1>6. Commanding'
  BY <1>1, <1>4 DEF XPlayerInv, Commanding
<1> QED BY <1>2, <1>3, <1>5, <1>6 DEF XPlayerInv

\* The invariant that everything below rests on: the types, the turns of the
\* xplayer thread and the demux thread, the ends of the cache thread, and what
\* a command in progress relies on.  It holds after every step of xplayer.c and
\* demuxComponent.c, whatever the application calls.
THEOREM XPlayerInvariant == Spec => []XPlayerInv
<1>1. XPlayerInv /\ [Next]_vars => XPlayerInv'
  BY InvNext, InvStutters
<1> QED BY InvInit, <1>1, PTL DEF Spec

\* The types: every queue and every list of steps belongs to a thread, and the
\* cache never holds more packets than it has room for.
THEOREM TypesAlways == Spec => []TypeOK
<1>1. XPlayerInv => TypeOK
  <2> SUFFICES ASSUME XPlayerInv PROVE TypeOK
    OBVIOUS
  <2>1. Types
    BY DEF XPlayerInv
  <2>2. DOMAIN todo = Thread /\ DOMAIN mq = Thread
    BY <2>1 DEF Types
  <2>3. demux.eStatus \in DemuxStatuses /\ demux.position \in Times
    BY <2>1 DEF Types, Demuxes
  <2>4. cache.semCache \in Nat /\ cache.frames \in Seq(Times) /\ Len(cache.frames) <= CacheSize
    BY <2>1 DEF Types, Caches
  <2>5. ctx.mStatus \in Statuses /\ player.eStatus \in {"STARTED", "PAUSED", "STOPPED"}
    BY <2>1 DEF Types, Contexts, Players
  <2>6. /\ reply \in {"none", "ok", "fail"}
        /\ call \in {"none", "reply", "prepare", "finish"}
        /\ mMutexStatus \in BOOLEAN
    BY <2>1 DEF Types
  <2> QED BY <2>2, <2>3, <2>4, <2>5, <2>6 DEF TypeOK, DemuxStatuses, Statuses, Times
<1> QED BY XPlayerInvariant, <1>1, PTL

\* Which threads can be in the parser, and what they have to do then.
LEMMA InsideParser ==
    ASSUME XPlayerInv, NEW t \in Thread, InParser(t)
    PROVE  demux.pParser
<1>1. Types /\ FrontOnly /\ Parser
  BY DEF XPlayerInv
<1>2. todo[t] # << >> /\ Head(todo[t]).op \in {"parserRead", "parserSeek"}
  BY DEF InParser, At, Idle
<1>3. todo[t] \in Seq(Steps)
  BY <1>1, ListTypes
<1>4. Head(todo[t]).op \in Ops(todo[t])
  BY <1>2, <1>3, FirstStep
<1>5. CASE t = "xplayer"
  BY <1>1, <1>2, <1>4, <1>5 DEF FrontOnly, FrontOps, StopOps, PlayOps
<1>6. CASE t = "demux"
  BY <1>1, <1>2, <1>4, <1>6 DEF Parser, ClosedOps
<1>7. CASE t = "cache"
  BY <1>1, <1>2, <1>7 DEF Parser
<1> QED BY <1>5, <1>6, <1>7 DEF Thread

\* No thread is inside a parser that was closed: a stop and a clear close it
\* only when the cache thread has ended, and no step of a command calls it.
THEOREM ParserIsOpen == Spec => []ParserOpen
<1>1. XPlayerInv => ParserOpen
  BY InsideParser DEF ParserOpen
<1> QED BY XPlayerInvariant, <1>1, PTL

\* While a seek is being cancelled or the component stopped the parser stays
\* forced to stop, so long as a thread is inside it: neither a seek of the demux
\* thread nor one of the cache thread takes the flag back.
THEOREM CancelForces == Spec => []CancelForcesParser
<1>1. XPlayerInv => CancelForcesParser
  BY InsideParser DEF CancelForcesParser, XPlayerInv, Flags
<1> QED BY XPlayerInvariant, <1>1, PTL

\* Whatever commands came before and however they ended, the demux thread finds
\* no open parser when it takes a PREPARE message.
THEOREM PrepareIsClosed == Spec => []PrepareFindsClosed
<1>1. XPlayerInv => PrepareFindsClosed
  <2> SUFFICES ASSUME XPlayerInv, mq["demux"] # << >>, Head(mq["demux"]).id = "PREPARE"
               PROVE  ~ demux.pParser
    BY DEF PrepareFindsClosed
  <2>1. mq["demux"] \in Seq(Messages)
    BY ListTypes DEF XPlayerInv, Thread
  <2>2. "PREPARE" \in Ids(mq["demux"])
    BY <2>1, FirstMessage
  <2> QED BY <2>2 DEF XPlayerInv, Preparation
<1> QED BY XPlayerInvariant, <1>1, PTL

-----------------------------------------------------------------------------
(* Players of files.                                                        *)

\* The application plays no network streams.
FilePlayer == "SET_NET_SOURCE" \notin AppCalls

\* The steps of the demux thread that stand alone: it has no cache to wait for.
Alone == {"prepare", "PREPARED", "PREPARE_FAILED", "STOP", "CLEAR", "parserSeek",
          "SEEK_FINISH", "seekDone", "parserRead", "complete"}

FileForm(steps) ==
    \/ steps = << >>
    \/ \E x \in Steps : steps = << x >> /\ x.op \in Alone /\ ~ FinishOk(steps)
    \/ \E time \in Times : steps = << SeekFinish("ok", time), Step("seekDone") >>
    \/ steps = << Notify("EOS"), Step("complete") >>

OfFile ==
    /\ "SET_NET_SOURCE" \notin Ids(mq["xplayer"])
    /\ "SET_NET_SOURCE" \notin Ids(mq["demux"])
    /\ ~ demux.net /\ ~ cache.alive
    /\ FileForm(todo["demux"])

\* The rest of a start, and a pause by a change of the status, which no command is.
Starts(steps) == \E x \in Elements(steps) : x.op = "status" /\ x.status = "STARTED"
Pauses(steps) == \E x \in Elements(steps) : x.op = "status" /\ x.status = "PAUSED"

StartOps == {"playerStart", "demuxStart", "await", "status", "answer"}

\* What follows in the rest of a command.
Follows(steps) ==
    LET ops == Ops(steps)
    IN  /\ "demuxCancelSeek" \in ops => "notSeeking" \in ops
        /\ "notSeeking" \in ops => \/ "seek" \in ops /\ "seekDemux" \in ops
                                   \/ "demuxStop" \in ops /\ Quits(steps)
        /\ "demuxCancelPrepare" \in ops => "demuxStop" \in ops
        /\ "playerStop" \in ops => Quits(steps)
        /\ "playerStart" \in ops => Starts(steps)
        /\ "seek" \in ops => "seekPlayer" \in ops
        /\ "pause" \in ops => ops \subseteq {"pause", "answer"}
        /\ Starts(steps) => ops \subseteq StartOps
        /\ ~ Pauses(steps)

Front == Ops(todo["xplayer"])

Ends ==
    /\ Follows(todo["xplayer"])
    /\ "CANCEL_SEEK" \in Ids(mq["demux"]) => "notSeeking" \in Front
    /\ "CANCEL_PREPARE" \in Ids(mq["demux"]) => "demuxStop" \in Front
    /\ demux.bCancelPrepare => "CANCEL_PREPARE" \in Ids(mq["demux"])

\* A seek that is under way.
Seeks == "parserSeek" \in Ops(todo["demux"]) \/ "SEEK_FINISH" \in Ops(todo["demux"])
SeekWaits == "SEEK" \in Ids(mq["demux"])

SeekOps == {"seek", "seekPlayer", "seekDemux"}
FrontSeeks == \E op \in SeekOps : op \in Front

SeekOnce(queue) ==
    \A i, j \in 1 .. Len(queue) : queue[i].id = "SEEK" /\ queue[j].id = "SEEK" => i = j

OneSeek ==
    /\ SeekOnce(mq["demux"])
    /\ SeekWaits => ~ Seeks
    /\ SeekWaits \/ Seeks => ctx.mSeeking
    /\ FrontSeeks /\ "notSeeking" \notin Front => ~ SeekWaits /\ ~ Seeks
    /\ /\ "notSeeking" \in Front /\ "demuxCancelSeek" \notin Front
       /\ "CANCEL_SEEK" \notin Ids(mq["demux"])
       => ~ SeekWaits /\ ~ Seeks
    /\ FrontSeeks /\ "seek" \notin Front => ctx.mSeeking

Plays == player.eStatus = "STARTED"

Playing ==
    /\ ctx.mSeeking /\ Plays => "seekPlayer" \in Front
    /\ "playerStart" \in Front => ~ ctx.mSeeking
    /\ ctx.mStatus = "PAUSED" /\ Plays => "status" \in Front
    /\ Starts(todo["xplayer"]) => "playerStart" \in Front \/ Plays
    /\ ctx.mStatus = "STARTED" /\ ~ ctx.mSeeking /\ ~ Plays =>
         "seek" \in Front \/ "status" \in Front

\* A seek or a stop is about to come.
Ending ==
    \/ "seekDemux" \in Front \/ "demuxStop" \in Front
    \/ Asked(Closes) \/ Closing

Continues == \E op \in {"parserRead", "parserSeek", "seekDone", "complete"} :
               op \in Ops(todo["demux"])

Reading ==
    /\ demux.bSeeking => \/ SeekWaits
                         \/ "parserSeek" \in Ops(todo["demux"])
                         \/ "seekDone" \in Ops(todo["demux"])
    /\ demux.pParser /\ demux.bForceStop => SeekWaits \/ Ending
    /\ demux.eStatus = "STARTED" /\ ~ demux.bIOError =>
         mq["demux"] # << >> \/ Continues \/ Ending

FileInv == OfFile /\ Ends /\ OneSeek /\ Playing /\ Reading

-----------------------------------------------------------------------------
(* The demux thread of a file.                                              *)

\* What the forms of the list say about its steps.
LEMMA FormOps ==
    ASSUME NEW s \in Seq(Steps), FileForm(s), s # << >>
    PROVE  \/ /\ Head(s).op \in Alone /\ Tail(s) = << >> /\ Ops(s) = {Head(s).op}
              /\ ~ FinishOk(s)
           \/ /\ Head(s).op = "SEEK_FINISH" /\ Head(s).result = "ok"
              /\ Tail(s) = << Step("seekDone") >> /\ Ops(s) = {"SEEK_FINISH", "seekDone"}
           \/ /\ Head(s).op = "EOS" /\ Tail(s) = << Step("complete") >>
              /\ Ops(s) = {"EOS", "complete"}
<1>1. ASSUME NEW x \in Steps, s = << x >>, x.op \in Alone, ~ FinishOk(s)
      PROVE  Head(s).op \in Alone /\ Tail(s) = << >> /\ Ops(s) = {Head(s).op}
  <2>1. Ops(<< x >>) = {x.op}
    BY FewOps, Zenon
  <2> QED BY <1>1, <2>1
<1>2. ASSUME NEW time \in Times, s = << SeekFinish("ok", time), Step("seekDone") >>
      PROVE  /\ Head(s).op = "SEEK_FINISH" /\ Head(s).result = "ok"
             /\ Tail(s) = << Step("seekDone") >> /\ Ops(s) = {"SEEK_FINISH", "seekDone"}
  <2> DEFINE a == SeekFinish("ok", time)
             b == Step("seekDone")
  <2>1. /\ a \in Steps /\ b \in Steps /\ a.op = "SEEK_FINISH" /\ a.result = "ok"
        /\ b.op = "seekDone"
    BY PlainSteps DEF PlainOps, SeekFinish, Step
  <2> HIDE DEF a, b
  <2>2. Ops(<< a, b >>) = {a.op, b.op}
    BY <2>1, FewOps, Zenon
  <2>3. Head(<< a, b >>) = a /\ Tail(<< a, b >>) = << b >>
    OBVIOUS
  <2>4. s = << a, b >>
    BY <1>2 DEF a, b
  <2> QED BY <2>1, <2>2, <2>3, <2>4 DEF b
<1>3. ASSUME s = << Notify("EOS"), Step("complete") >>
      PROVE  /\ Head(s).op = "EOS" /\ Tail(s) = << Step("complete") >>
             /\ Ops(s) = {"EOS", "complete"}
  <2> DEFINE a == Notify("EOS")
             b == Step("complete")
  <2>1. a \in Steps /\ b \in Steps /\ a.op = "EOS" /\ b.op = "complete"
    BY PlainSteps DEF PlainOps, Notify, Step
  <2> HIDE DEF a, b
  <2>2. Ops(<< a, b >>) = {a.op, b.op}
    BY <2>1, FewOps, Zenon
  <2>3. Head(<< a, b >>) = a /\ Tail(<< a, b >>) = << b >>
    OBVIOUS
  <2>4. s = << a, b >>
    BY <1>3 DEF a, b
  <2> QED BY <2>1, <2>2, <2>3, <2>4 DEF b
<1> QED BY <1>1, <1>2, <1>3 DEF FileForm

\* The lists of a file that the thread is given.
LEMMA FormsOf ==
    /\ FileForm(<< >>) /\ Ops(<< >>) = {} /\ << >> \in Seq(Steps)
    /\ \A op \in Alone \ {"parserSeek", "SEEK_FINISH"} :
         /\ << Step(op) >> \in Seq(Steps) /\ FileForm(<< Step(op) >>)
         /\ Ops(<< Step(op) >>) = {op}
    /\ \A time \in Times :
         /\ << Timed("parserSeek", time) >> \in Seq(Steps)
         /\ FileForm(<< Timed("parserSeek", time) >>)
         /\ Ops(<< Timed("parserSeek", time) >>) = {"parserSeek"}
         /\ << SeekFinish("ok", time), Step("seekDone") >> \in Seq(Steps)
         /\ FileForm(<< SeekFinish("ok", time), Step("seekDone") >>)
         /\ Ops(<< SeekFinish("ok", time), Step("seekDone") >>) = {"SEEK_FINISH", "seekDone"}
         /\ \A result \in {"IO", "USER_CANCEL", "UNKNOWN"} :
              /\ << SeekFinish(result, time) >> \in Seq(Steps)
              /\ FileForm(<< SeekFinish(result, time) >>)
              /\ Ops(<< SeekFinish(result, time) >>) = {"SEEK_FINISH"}
    /\ << Notify("EOS"), Step("complete") >> \in Seq(Steps)
    /\ FileForm(<< Notify("EOS"), Step("complete") >>)
    /\ Ops(<< Notify("EOS"), Step("complete") >>) = {"EOS", "complete"}
<1>1. FileForm(<< >>) /\ Ops(<< >>) = {} /\ << >> \in Seq(Steps)
  BY FewOps DEF FileForm
<1>2. ASSUME NEW x \in Steps, x.op \in Alone, x.op = "SEEK_FINISH" => x.result # "ok"
      PROVE  << x >> \in Seq(Steps) /\ FileForm(<< x >>) /\ Ops(<< x >>) = {x.op}
  <2>1. << x >> \in Seq(Steps) /\ Ops(<< x >>) = {x.op}
    BY FewOps, Zenon
  <2>2. Elements(<< x >>) = {x}
    BY FewElements, Zenon
  <2>3. ~ FinishOk(<< x >>)
    BY <1>2, <2>2 DEF FinishOk
  <2> QED BY <1>2, <2>1, <2>3 DEF FileForm
<1>3. ASSUME NEW op \in Alone \ {"parserSeek", "SEEK_FINISH"}
      PROVE  /\ << Step(op) >> \in Seq(Steps) /\ FileForm(<< Step(op) >>)
             /\ Ops(<< Step(op) >>) = {op}
  <2>1. Step(op) \in Steps /\ Step(op).op = op
    BY PlainSteps DEF PlainOps, Step, Alone
  <2> QED BY <1>2, <2>1
<1>4. ASSUME NEW time \in Times
      PROVE  /\ << Timed("parserSeek", time) >> \in Seq(Steps)
             /\ FileForm(<< Timed("parserSeek", time) >>)
             /\ Ops(<< Timed("parserSeek", time) >>) = {"parserSeek"}
             /\ \A result \in {"IO", "USER_CANCEL", "UNKNOWN"} :
                  /\ << SeekFinish(result, time) >> \in Seq(Steps)
                  /\ FileForm(<< SeekFinish(result, time) >>)
                  /\ Ops(<< SeekFinish(result, time) >>) = {"SEEK_FINISH"}
  <2>1. /\ Timed("parserSeek", time) \in Steps
        /\ Timed("parserSeek", time).op = "parserSeek" /\ "parserSeek" \in Alone
    BY PlainSteps DEF Timed, Alone
  <2>2. ASSUME NEW result \in {"IO", "USER_CANCEL", "UNKNOWN"}
        PROVE  /\ SeekFinish(result, time) \in Steps
               /\ SeekFinish(result, time).op = "SEEK_FINISH"
               /\ SeekFinish(result, time).result # "ok" /\ "SEEK_FINISH" \in Alone
    BY PlainSteps DEF SeekFinish, Alone
  <2> QED BY <1>2, <2>1, <2>2
<1>5. ASSUME NEW time \in Times
      PROVE  /\ << SeekFinish("ok", time), Step("seekDone") >> \in Seq(Steps)
             /\ FileForm(<< SeekFinish("ok", time), Step("seekDone") >>)
             /\ Ops(<< SeekFinish("ok", time), Step("seekDone") >>) = {"SEEK_FINISH", "seekDone"}
  <2> DEFINE a == SeekFinish("ok", time)
             b == Step("seekDone")
  <2>1. a \in Steps /\ b \in Steps /\ a.op = "SEEK_FINISH" /\ b.op = "seekDone"
    BY PlainSteps DEF PlainOps, SeekFinish, Step
  <2>2. FileForm(<< a, b >>)
    BY DEF FileForm
  <2> HIDE DEF a, b
  <2>3. << a, b >> \in Seq(Steps) /\ Ops(<< a, b >>) = {a.op, b.op}
    BY <2>1, FewOps, Zenon
  <2>4. << a, b >> \in Seq(Steps) /\ FileForm(<< a, b >>)
        /\ Ops(<< a, b >>) = {"SEEK_FINISH", "seekDone"}
    BY <2>1, <2>2, <2>3
  <2> QED BY <2>4 DEF a, b
<1>6. /\ << Notify("EOS"), Step("complete") >> \in Seq(Steps)
      /\ FileForm(<< Notify("EOS"), Step("complete") >>)
      /\ Ops(<< Notify("EOS"), Step("complete") >>) = {"EOS", "complete"}
  <2> DEFINE a == Notify("EOS")
             b == Step("complete")
  <2>1. a \in Steps /\ b \in Steps /\ a.op = "EOS" /\ b.op = "complete"
    BY PlainSteps DEF PlainOps, Notify, Step
  <2>2. FileForm(<< a, b >>)
    BY DEF FileForm
  <2> HIDE DEF a, b
  <2>3. << a, b >> \in Seq(Steps) /\ Ops(<< a, b >>) = {a.op, b.op}
    BY <2>1, FewOps, Zenon
  <2>4. << a, b >> \in Seq(Steps) /\ FileForm(<< a, b >>)
        /\ Ops(<< a, b >>) = {"EOS", "complete"}
    BY <2>1, <2>2, <2>3
  <2> QED BY <2>4 DEF a, b
<1> QED BY <1>1, <1>3, <1>4, <1>5, <1>6

\* The thread has taken a step that leaves the rest of its list, or has others
\* to do instead of a step that stood alone.
LEMMA FileGoesOn ==
    ASSUME Types, FileForm(todo["demux"]), ~ Idle("demux"), Proceed("demux", << >>)
    PROVE  /\ todo'["xplayer"] = todo["xplayer"]
           /\ FileForm(todo'["demux"])
           /\ LET x == Head(todo["demux"])
              IN  Ops(todo'["demux"]) = IF x.op = "EOS" THEN {"complete"}
                                        ELSE IF x.op = "SEEK_FINISH" /\ x.result = "ok"
                                          THEN {"seekDone"}
                                        ELSE {}
<1> DEFINE s == todo["demux"]
<1>1. s \in Seq(Steps) /\ s # << >> /\ FileForm(s)
  BY ListTypes DEF Thread, Idle
<1>2. todo'["demux"] = Tail(s) /\ todo'["xplayer"] = todo["xplayer"] /\ Tail(s) \in Seq(Steps)
  <2>1. /\ todo'["demux"] = << >> \o Tail(s) /\ Tail(s) \in Seq(Steps)
        /\ todo'["xplayer"] = todo["xplayer"]
    BY FewOps, Proceeded DEF Thread
  <2> QED BY <2>1
<1> HIDE DEF s
<1>3. CASE /\ Head(s).op \in Alone /\ Tail(s) = << >> /\ Ops(s) = {Head(s).op}
           /\ ~ FinishOk(s)
  <2>1. Head(s).op = "SEEK_FINISH" => Head(s).result # "ok"
    BY <1>1, <1>3, FirstStep
  <2>2. Head(s).op # "EOS"
    BY <1>3 DEF Alone
  <2> QED BY <1>2, <1>3, <2>1, <2>2, FormsOf DEF s
<1>4. CASE /\ Head(s).op = "SEEK_FINISH" /\ Head(s).result = "ok"
           /\ Tail(s) = << Step("seekDone") >>
  <2>1. FileForm(<< Step("seekDone") >>) /\ Ops(<< Step("seekDone") >>) = {"seekDone"}
    BY FormsOf DEF Alone
  <2> QED BY <1>2, <1>4, <2>1 DEF s
<1>5. CASE Head(s).op = "EOS" /\ Tail(s) = << Step("complete") >>
  <2>1. FileForm(<< Step("complete") >>) /\ Ops(<< Step("complete") >>) = {"complete"}
    BY FormsOf DEF Alone
  <2> QED BY <1>2, <1>5, <2>1 DEF s
<1> QED BY <1>1, <1>3, <1>4, <1>5, FormOps

\* A step that stood alone gives way to the ones that it asks for.
LEMMA FileReplaces ==
    ASSUME Types, FileForm(todo["demux"]), ~ Idle("demux"),
           Head(todo["demux"]).op \in {"prepare", "parserSeek", "parserRead"},
           NEW steps \in Seq(Steps), Proceed("demux", steps)
    PROVE  todo'["demux"] = steps /\ todo'["xplayer"] = todo["xplayer"]
<1>1. todo["demux"] \in Seq(Steps) /\ todo["demux"] # << >>
  BY ListTypes DEF Thread, Idle
<1>2. Tail(todo["demux"]) = << >>
  BY <1>1, FormOps
<1>3. /\ todo'["demux"] = steps \o Tail(todo["demux"]) /\ todo'["xplayer"] = todo["xplayer"]
  BY Proceeded DEF Thread
<1>4. steps \o << >> = steps
  OBVIOUS
<1> QED BY <1>2, <1>3, <1>4

-----------------------------------------------------------------------------
(* A message that the demux thread takes, and a step that it takes.         *)

\* Only the demux thread's own list and queue change; it may have posted itself
\* a READ.
Serves(id, ops) ==
    /\ Idle("demux") /\ mq["demux"] # << >> /\ Head(mq["demux"]).id = id
    /\ \/ mq'["demux"] = Tail(mq["demux"])
       \/ Tail(mq["demux"]) = << >> /\ mq'["demux"] = << Message("READ") >>
    /\ mq'["xplayer"] = mq["xplayer"] /\ todo'["xplayer"] = todo["xplayer"]
    /\ FileForm(todo'["demux"]) /\ Ops(todo'["demux"]) = ops

Performs(op, ops) ==
    /\ ~ Idle("demux") /\ Head(todo["demux"]).op = op
    /\ \/ mq'["demux"] = mq["demux"]
       \/ mq["demux"] = << >> /\ mq'["demux"] = << Message("READ") >>
    /\ mq'["xplayer"] = mq["xplayer"] /\ todo'["xplayer"] = todo["xplayer"]
    /\ FileForm(todo'["demux"]) /\ Ops(todo'["demux"]) = ops

\* The message that the demux thread posts to itself.
LEMMA OnlyRead ==
    /\ << Message("READ") >> \in Seq(Messages)
    /\ Ids(<< Message("READ") >>) = {"READ"} /\ Ids(<< >>) = {}
    /\ SeekOnce(<< Message("READ") >>) /\ SeekOnce(<< >>)
<1> DEFINE m == Message("READ")
<1>1. m \in Messages /\ m.id = "READ"
  BY DEF Message, Messages, MessageIds, Times
<1> HIDE DEF m
<1>2. << m >> \in Seq(Messages) /\ Ids(<< m >>) = {m.id} /\ Ids(<< >>) = {}
  BY <1>1 DEF Ids, Elements
<1>3. SeekOnce(<< m >>) /\ SeekOnce(<< >>)
  BY <1>1 DEF SeekOnce
<1> QED BY <1>1, <1>2, <1>3 DEF m

\* One seek at most is in the queue: what taking and posting leave of that.
LEMMA SeekTaken ==
    ASSUME NEW q \in Seq(Messages), q # << >>, SeekOnce(q)
    PROVE  SeekOnce(Tail(q)) /\ (Head(q).id = "SEEK" => "SEEK" \notin Ids(Tail(q)))
<1>1. /\ Tail(q) \in Seq(Messages) /\ Len(q) \in Nat \ {0} /\ Head(q) = q[1]
      /\ Len(Tail(q)) = Len(q) - 1
      /\ \A i \in 1 .. Len(q) - 1 : Tail(q)[i] = q[i + 1]
  OBVIOUS
<1>2. ASSUME NEW i \in 1 .. Len(Tail(q)), NEW j \in 1 .. Len(Tail(q)),
             Tail(q)[i].id = "SEEK", Tail(q)[j].id = "SEEK"
      PROVE  i = j
  <2>1. i + 1 \in 1 .. Len(q) /\ j + 1 \in 1 .. Len(q)
    BY <1>1
  <2>2. q[i + 1].id = "SEEK" /\ q[j + 1].id = "SEEK"
    BY <1>1, <1>2
  <2>3. i + 1 = j + 1
    BY <2>1, <2>2 DEF SeekOnce
  <2> QED BY <1>1, <2>3
<1>3. ASSUME Head(q).id = "SEEK", "SEEK" \in Ids(Tail(q)) PROVE FALSE
  <2>1. PICK i \in 1 .. Len(Tail(q)) : Tail(q)[i].id = "SEEK"
    BY <1>3 DEF Ids, Elements
  <2>2. 1 \in 1 .. Len(q) /\ i + 1 \in 1 .. Len(q) /\ q[i + 1].id = "SEEK" /\ q[1].id = "SEEK"
    BY <1>1, <1>3, <2>1
  <2>3. 1 = i + 1
    BY <2>2 DEF SeekOnce
  <2> QED BY <1>1, <2>3
<1> QED BY <1>2, <1>3 DEF SeekOnce

\* A message behind the others leaves one seek, if it is not another.
LEMMA SeekAppended ==
    ASSUME NEW q \in Seq(Messages), NEW m \in Messages, SeekOnce(q),
           m.id = "SEEK" => "SEEK" \notin Ids(q)
    PROVE  SeekOnce(Append(q, m))
<1>1. /\ Append(q, m) \in Seq(Messages) /\ Len(Append(q, m)) = Len(q) + 1
      /\ Len(q) \in Nat /\ Append(q, m)[Len(q) + 1] = m
      /\ \A i \in 1 .. Len(q) : Append(q, m)[i] = q[i]
  OBVIOUS
<1>2. \A i \in 1 .. Len(q) : q[i].id \in Ids(q)
  BY DEF Ids, Elements
<1>3. ASSUME NEW i \in 1 .. Len(q) + 1, NEW j \in 1 .. Len(q) + 1,
             Append(q, m)[i].id = "SEEK", Append(q, m)[j].id = "SEEK"
      PROVE  i = j
  <2>1. CASE i \in 1 .. Len(q) /\ j \in 1 .. Len(q)
    BY <1>1, <1>3, <2>1 DEF SeekOnce
  <2>2. CASE i \in 1 .. Len(q) /\ j = Len(q) + 1
    BY <1>1, <1>2, <1>3, <2>2
  <2>3. CASE i = Len(q) + 1 /\ j \in 1 .. Len(q)
    BY <1>1, <1>2, <1>3, <2>3
  <2> QED BY <1>1, <2>1, <2>2, <2>3
<1> QED BY <1>1, <1>3 DEF SeekOnce

\* What is in the queue after that.
LEMMA ServesQueue ==
    ASSUME Types, NEW id, NEW ops, Serves(id, ops)
    PROVE  /\ id \in Ids(mq["demux"])
           /\ \A i : i \in Ids(mq'["demux"]) => i \in Ids(mq["demux"]) \/ i = "READ"
           /\ \A i : i \in Ids(mq["demux"]) => i = id \/ i \in Ids(mq'["demux"])
           /\ SeekOnce(mq["demux"]) =>
                SeekOnce(mq'["demux"]) /\ (id = "SEEK" => "SEEK" \notin Ids(mq'["demux"]))
           /\ QueueOrder(mq["demux"]) /\ id \in Requests =>
                \A i \in Ids(mq'["demux"]) : i \in {"FIRST_FRAME", "READ"}
           /\ Ops(todo["demux"]) = {}
<1> DEFINE q == mq["demux"]
<1>1. q \in Seq(Messages) /\ q # << >> /\ Head(q).id = id
  BY ListTypes DEF Thread, Serves
<1>2. Ops(todo["demux"]) = {}
  BY FewOps DEF Serves, Idle
<1>3. \/ mq'["demux"] = Tail(q)
      \/ Tail(q) = << >> /\ mq'["demux"] = << Message("READ") >>
  BY DEF Serves
<1> HIDE DEF q
<1>4. /\ Ids(q) = {id} \union Ids(Tail(q)) /\ Tail(q) \in Seq(Messages)
      /\ SeekOnce(q) => SeekOnce(Tail(q)) /\ (id = "SEEK" => "SEEK" \notin Ids(Tail(q)))
      /\ QueueOrder(q) /\ id \in Requests => \A i \in Ids(Tail(q)) : i = "FIRST_FRAME"
  BY <1>1, FirstMessage, SeekTaken, TakenInOrder
<1>5. CASE mq'["demux"] = Tail(q)
  BY <1>2, <1>4, <1>5 DEF q
<1>6. CASE Tail(q) = << >> /\ mq'["demux"] = << Message("READ") >>
  <2>1. /\ Ids(q) = {id} /\ Ids(mq'["demux"]) = {"READ"}
        /\ SeekOnce(mq'["demux"]) /\ id \in Ids(q)
    BY <1>4, <1>6, OnlyRead
  <2> QED BY <1>2, <2>1 DEF q
<1> QED BY <1>3, <1>5, <1>6

\* A step that the demux thread takes: what it leaves of the queue and the list.
LEMMA PerformsQueue ==
    ASSUME Types, OfFile, NEW op, NEW ops, Performs(op, ops)
    PROVE  /\ \A i : i \in Ids(mq'["demux"]) => i \in Ids(mq["demux"]) \/ i = "READ"
           /\ \A i : i \in Ids(mq["demux"]) => i \in Ids(mq'["demux"])
           /\ SeekOnce(mq["demux"]) => SeekOnce(mq'["demux"])
           /\ mq["demux"] # << >> => mq'["demux"] # << >>
           /\ op \in Ops(todo["demux"])
           /\ op \in Alone \ {"SEEK_FINISH"} => Ops(todo["demux"]) = {op}
           /\ op = "SEEK_FINISH" => Ops(todo["demux"]) \subseteq {"SEEK_FINISH", "seekDone"}
           /\ op = "EOS" => Ops(todo["demux"]) = {"EOS", "complete"}
           /\ op \in Alone \union {"EOS"}
<1>1. \/ mq'["demux"] = mq["demux"]
      \/ mq["demux"] = << >> /\ mq'["demux"] = << Message("READ") >>
  BY DEF Performs
<1>2. todo["demux"] \in Seq(Steps) /\ todo["demux"] # << >> /\ Head(todo["demux"]).op = op
  BY ListTypes DEF Thread, Performs, Idle
<1>3. FileForm(todo["demux"])
  BY DEF OfFile
<1> DEFINE s == todo["demux"]
<1>4. \/ op \in Alone /\ Ops(s) = {op}
      \/ op = "SEEK_FINISH" /\ Ops(s) = {"SEEK_FINISH", "seekDone"}
      \/ op = "EOS" /\ Ops(s) = {"EOS", "complete"}
  <2> HIDE DEF s
  <2>1. s \in Seq(Steps) /\ s # << >> /\ Head(s).op = op /\ FileForm(s)
    BY <1>2, <1>3 DEF s
  <2> QED BY <2>1, FormOps
<1>5. "EOS" \notin Alone /\ "SEEK_FINISH" \in Alone
  BY DEF Alone
<1> QED BY <1>1, <1>4, <1>5, OnlyRead

-----------------------------------------------------------------------------
(* What the demux thread leaves of the parts of the invariant.              *)

\* A file stays a file, whatever the demux thread does.
LEMMA RestOfFile ==
    ASSUME Types, OfFile, (\E id, ops : Serves(id, ops)) \/ (\E op, ops : Performs(op, ops)),
           ~ demux'.net, ~ cache'.alive
    PROVE  OfFile'
<1>1. /\ mq'["xplayer"] = mq["xplayer"] /\ FileForm(todo'["demux"])
      /\ \A i : i \in Ids(mq'["demux"]) => i \in Ids(mq["demux"]) \/ i = "READ"
  BY ServesQueue, PerformsQueue DEF Serves, Performs
<1> QED BY <1>1 DEF OfFile

\* The xplayer thread's list is left alone.
LEMMA SameFollows ==
    ASSUME todo'["xplayer"] = todo["xplayer"]
    PROVE  /\ Front' = Front
           /\ Follows(todo["xplayer"])' <=> Follows(todo["xplayer"])
           /\ Starts(todo["xplayer"])' <=> Starts(todo["xplayer"])
           /\ FrontSeeks' <=> FrontSeeks
  BY DEF Front, Follows, Starts, Pauses, Quits, Ops, Elements, FrontSeeks

\* The demux thread leaves the rest of a command as it is.
LEMMA ServesEnds ==
    ASSUME Types, Ends, NEW id, NEW ops, Serves(id, ops),
           demux'.bCancelPrepare => demux.bCancelPrepare /\ id # "CANCEL_PREPARE"
    PROVE  Ends'
<1>1. Front' = Front /\ (Follows(todo["xplayer"])' <=> Follows(todo["xplayer"]))
  BY SameFollows DEF Serves
<1>2. /\ \A i : i \in Ids(mq'["demux"]) => i \in Ids(mq["demux"]) \/ i = "READ"
      /\ \A i : i \in Ids(mq["demux"]) => i = id \/ i \in Ids(mq'["demux"])
  BY ServesQueue
<1> QED BY <1>1, <1>2 DEF Ends

\* So do its steps.
LEMMA PerformsEnds ==
    ASSUME Types, OfFile, Ends, NEW op, NEW ops, Performs(op, ops),
           demux'.bCancelPrepare => demux.bCancelPrepare
    PROVE  Ends'
<1>1. Front' = Front /\ (Follows(todo["xplayer"])' <=> Follows(todo["xplayer"]))
  BY SameFollows DEF Performs
<1>2. /\ \A i : i \in Ids(mq'["demux"]) => i \in Ids(mq["demux"]) \/ i = "READ"
      /\ \A i : i \in Ids(mq["demux"]) => i \in Ids(mq'["demux"])
  BY PerformsQueue
<1> QED BY <1>1, <1>2 DEF Ends

\* A message that is taken starts no seek but the one that waited.
LEMMA ServesSeek ==
    ASSUME Types, Turns, OneSeek, NEW id, NEW ops, Serves(id, ops),
           ctx'.mSeeking = ctx.mSeeking,
           "parserSeek" \in ops \/ "SEEK_FINISH" \in ops => id = "SEEK"
    PROVE  OneSeek'
<1>1. Front' = Front /\ (FrontSeeks' <=> FrontSeeks)
  BY SameFollows DEF Serves
<1>2. /\ id \in Ids(mq["demux"])
      /\ \A i : i \in Ids(mq'["demux"]) => i \in Ids(mq["demux"]) \/ i = "READ"
      /\ \A i : i \in Ids(mq["demux"]) => i = id \/ i \in Ids(mq'["demux"])
      /\ SeekOnce(mq'["demux"]) /\ (id = "SEEK" => "SEEK" \notin Ids(mq'["demux"]))
      /\ id \in Requests => \A i \in Ids(mq'["demux"]) : i \in {"FIRST_FRAME", "READ"}
  BY ServesQueue DEF OneSeek, Turns
<1>3. Seeks' => id = "SEEK"
  BY DEF Serves, Seeks
<1>4. SeekWaits' => SeekWaits /\ id # "SEEK" /\ id \notin Requests
  BY <1>2 DEF SeekWaits
<1>5. SeekWaits' \/ Seeks' => SeekWaits
  BY <1>2, <1>3, <1>4 DEF SeekWaits
<1>6. "CANCEL_SEEK" \in Ids(mq["demux"]) /\ "CANCEL_SEEK" \notin Ids(mq'["demux"]) =>
        ~ SeekWaits' /\ ~ Seeks'
  BY <1>2, <1>3, <1>4 DEF Requests
<1>7. SeekWaits' => ~ Seeks'
  BY <1>3, <1>4
<1> QED BY <1>1, <1>2, <1>5, <1>6, <1>7 DEF OneSeek

\* A step starts no seek.
LEMMA PerformsSeek ==
    ASSUME Types, OfFile, OneSeek, NEW op, NEW ops, Performs(op, ops),
           ctx'.mSeeking = ctx.mSeeking, Seeks' => Seeks
    PROVE  OneSeek'
<1>1. Front' = Front /\ (FrontSeeks' <=> FrontSeeks)
  BY SameFollows DEF Performs
<1>2. /\ \A i : i \in Ids(mq'["demux"]) => i \in Ids(mq["demux"]) \/ i = "READ"
      /\ \A i : i \in Ids(mq["demux"]) => i \in Ids(mq'["demux"])
      /\ SeekOnce(mq'["demux"])
  BY PerformsQueue DEF OneSeek
<1>3. SeekWaits' <=> SeekWaits
  BY <1>2 DEF SeekWaits
<1> QED BY <1>1, <1>2, <1>3 DEF OneSeek

\* The player is as the front end has it while neither changes.
LEMMA SamePlaying ==
    ASSUME Playing, todo'["xplayer"] = todo["xplayer"], ctx'.mSeeking = ctx.mSeeking,
           player'.eStatus = player.eStatus,
           ctx'.mStatus = ctx.mStatus \/ ctx'.mStatus \notin {"STARTED", "PAUSED"}
    PROVE  Playing'
<1>1. Front' = Front /\ (Starts(todo["xplayer"])' <=> Starts(todo["xplayer"]))
  BY SameFollows
<1> QED BY <1>1 DEF Playing, Plays

\* What is about to come while the user cancels a seek.
LEMMA CancelEnds ==
    ASSUME Ends, "CANCEL_SEEK" \in Ids(mq["demux"]) \/ "CANCEL_PREPARE" \in Ids(mq["demux"])
    PROVE  "seekDemux" \in Front \/ "demuxStop" \in Front
  BY DEF Ends, Follows, Front

\* A message that is taken leaves a reading that goes on, or one that is to end.
LEMMA ServesReading ==
    ASSUME Types, Turns, Flags, Ends, Reading, NEW id, NEW ops, Serves(id, ops),
           demux'.bSeeking => \/ demux.bSeeking /\ id # "SEEK"
                              \/ "parserSeek" \in ops \/ "seekDone" \in ops,
           demux'.pParser /\ demux'.bForceStop =>
             /\ demux.pParser /\ demux.bForceStop
             /\ id = "SEEK" => demux.bCancelSeek \/ demux.bStopping,
           demux'.eStatus = "STARTED" /\ ~ demux'.bIOError =>
             \/ mq'["demux"] # << >> \/ "parserRead" \in ops \/ "parserSeek" \in ops
             \/ id \in Closes \union {"CANCEL_SEEK", "CANCEL_PREPARE"},
           id \in Closes => id \in ops
    PROVE  Reading'
<1>1. Front' = Front
  BY SameFollows DEF Serves
<1>2. /\ id \in Ids(mq["demux"])
      /\ \A i : i \in Ids(mq["demux"]) => i = id \/ i \in Ids(mq'["demux"])
      /\ Ops(todo["demux"]) = {} /\ Ops(todo'["demux"]) = ops
  BY ServesQueue DEF Serves
<1>3. Ending => Ending'
  <2>1. ~ Closing
    BY <1>2 DEF Closing
  <2>2. Asked(Closes) => Asked(Closes)' \/ Closing'
    BY <1>2 DEF Asked, Closing
  <2> QED BY <1>1, <2>1, <2>2 DEF Ending
<1>4. id \in Closes \union {"CANCEL_SEEK", "CANCEL_PREPARE"} => Ending'
  <2>1. id \in Closes => Closing'
    BY <1>2 DEF Closing
  <2> QED BY <1>1, <1>2, <2>1, CancelEnds DEF Ending
<1>5. demux.bCancelSeek \/ demux.bStopping => Ending
  <2>1. demux.bCancelSeek => "CANCEL_SEEK" \in Ids(mq["demux"])
    BY DEF Flags, Asked
  <2> QED BY <2>1, CancelEnds DEF Flags, Ending
<1>6. SeekWaits /\ id # "SEEK" => SeekWaits'
  BY <1>2 DEF SeekWaits
<1>7. demux'.bSeeking => SeekWaits' \/ "parserSeek" \in Ops(todo'["demux"])
                                    \/ "seekDone" \in Ops(todo'["demux"])
  BY <1>2, <1>6 DEF Reading
<1>8. demux'.pParser /\ demux'.bForceStop => SeekWaits' \/ Ending'
  BY <1>3, <1>5, <1>6 DEF Reading
<1>9. demux'.eStatus = "STARTED" /\ ~ demux'.bIOError =>
         mq'["demux"] # << >> \/ Continues' \/ Ending'
  BY <1>2, <1>4 DEF Continues
<1> QED BY <1>7, <1>8, <1>9 DEF Reading

\* So does a step.
LEMMA PerformsReading ==
    ASSUME Types, OfFile, Ends, Reading, NEW op, NEW ops, Performs(op, ops),
           demux'.bSeeking =>
             /\ demux.bSeeking
             /\ "parserSeek" \in Ops(todo["demux"]) \/ "seekDone" \in Ops(todo["demux"]) =>
                  "seekDone" \in ops,
           demux'.pParser /\ demux'.bForceStop =>
             \/ demux.pParser /\ demux.bForceStop /\ op \notin Closes
             \/ demux.bCancelPrepare,
           demux'.eStatus = "STARTED" /\ ~ demux'.bIOError =>
             \/ mq'["demux"] # << >> \/ "seekDone" \in ops \/ "complete" \in ops
             \/ Ending /\ op \notin Closes
    PROVE  Reading'
<1>1. Front' = Front
  BY SameFollows DEF Performs
<1>2. /\ \A i : i \in Ids(mq["demux"]) => i \in Ids(mq'["demux"])
      /\ Ops(todo'["demux"]) = ops
      /\ op \in Alone \ {"SEEK_FINISH"} => Ops(todo["demux"]) = {op}
      /\ op = "SEEK_FINISH" => Ops(todo["demux"]) \subseteq {"SEEK_FINISH", "seekDone"}
      /\ op = "EOS" => Ops(todo["demux"]) = {"EOS", "complete"}
      /\ op \in Alone \union {"EOS"}
  BY PerformsQueue DEF Performs
<1>3. Ending /\ op \notin Closes => Ending'
  <2>1. op \notin Closes => ~ Closing
    BY <1>2 DEF Closing, Closes
  <2>2. Asked(Closes) => Asked(Closes)'
    BY <1>2 DEF Asked
  <2> QED BY <1>1, <2>1, <2>2 DEF Ending
<1>4. demux.bCancelPrepare => Ending'
  <2>1. demux.bCancelPrepare => "CANCEL_PREPARE" \in Ids(mq["demux"])
    BY DEF Ends
  <2> QED BY <1>1, <2>1, CancelEnds DEF Ending
<1>5. SeekWaits => SeekWaits'
  BY <1>2 DEF SeekWaits
<1>6. demux'.bSeeking => SeekWaits' \/ "parserSeek" \in Ops(todo'["demux"])
                                    \/ "seekDone" \in Ops(todo'["demux"])
  BY <1>2, <1>5 DEF Reading
<1>7. demux'.pParser /\ demux'.bForceStop => SeekWaits' \/ Ending'
  BY <1>3, <1>4, <1>5 DEF Reading
<1>8. demux'.eStatus = "STARTED" /\ ~ demux'.bIOError =>
         mq'["demux"] # << >> \/ Continues' \/ Ending'
  BY <1>2, <1>3 DEF Continues
<1> QED BY <1>6, <1>7, <1>8 DEF Reading

\* A message taken: what is left to show of each action.
LEMMA ServesFile ==
    ASSUME XPlayerInv, FileInv, NEW id, NEW ops, Serves(id, ops),
           ~ demux'.net, ~ cache'.alive, ctx' = ctx, player' = player,
           demux'.bCancelPrepare => demux.bCancelPrepare /\ id # "CANCEL_PREPARE",
           "parserSeek" \in ops \/ "SEEK_FINISH" \in ops => id = "SEEK",
           demux'.bSeeking => \/ demux.bSeeking /\ id # "SEEK"
                              \/ "parserSeek" \in ops \/ "seekDone" \in ops,
           demux'.pParser /\ demux'.bForceStop =>
             /\ demux.pParser /\ demux.bForceStop
             /\ id = "SEEK" => demux.bCancelSeek \/ demux.bStopping,
           demux'.eStatus = "STARTED" /\ ~ demux'.bIOError =>
             \/ mq'["demux"] # << >> \/ "parserRead" \in ops \/ "parserSeek" \in ops
             \/ id \in Closes \union {"CANCEL_SEEK", "CANCEL_PREPARE"},
           id \in Closes => id \in ops
    PROVE  FileInv'
<1>1. /\ Types /\ Turns /\ Flags /\ OfFile /\ Ends /\ OneSeek /\ Playing /\ Reading
      /\ todo'["xplayer"] = todo["xplayer"]
  BY DEF XPlayerInv, FileInv, Serves
<1>2. OfFile'
  BY <1>1, RestOfFile
<1>3. Ends'
  BY <1>1, ServesEnds
<1>4. OneSeek'
  BY <1>1, ServesSeek
<1>5. Playing'
  BY <1>1, SamePlaying
<1>6. Reading'
  BY <1>1, ServesReading
<1> QED BY <1>2, <1>3, <1>4, <1>5, <1>6 DEF FileInv

\* The thread takes a message and has nothing else to do for it.
LEMMA AnswersFile ==
    ASSUME XPlayerInv, FileInv, UNCHANGED xplayerVars,
           SetSource \/ CancelPrepare \/ Start \/ CancelSeek \/ NotifyFirstFrameShowed
    PROVE  FileInv'
<1>1. /\ mq \in [Thread -> Seq(Messages)] /\ demux \in Demuxes /\ Types
      /\ ctx' = ctx /\ player' = player
  BY DEF XPlayerInv, Types, xplayerVars
<1>2. /\ ~ demux.net /\ ~ cache.alive /\ FileForm(<< >>) /\ Ops(<< >>) = {}
      /\ "SET_NET_SOURCE" \notin Ids(mq["demux"])
  BY FormsOf DEF FileInv, OfFile
<1>3. ASSUME NEW id, Idle("demux"), mq["demux"] # << >>, Head(mq["demux"]).id = id,
             mq'["xplayer"] = mq["xplayer"], todo' = todo,
             \/ mq'["demux"] = Tail(mq["demux"])
             \/ Tail(mq["demux"]) = << >> /\ mq'["demux"] = << Message("READ") >>
      PROVE  Serves(id, {})
  BY <1>2, <1>3 DEF Serves, Idle
<1>4. CASE SetSource
  <2>1. PICK net \in BOOLEAN, ok \in BOOLEAN :
          /\ Take("demux", IF net THEN "SET_NET_SOURCE" ELSE "SET_FILE_SOURCE")
          /\ demux' = [demux EXCEPT !.eStatus = IF ok THEN "INITIALIZED" ELSE "IDLE",
                                    !.net = net]
          /\ todo' = todo /\ cache' = cache
    BY <1>4 DEF SetSource
  <2>2. Head(mq["demux"]).id \in Ids(mq["demux"])
    BY <1>1, <2>1, FirstMessage DEF Take, Thread
  <2>3. ~ net
    BY <1>2, <2>1, <2>2 DEF Take
  <2>4. Serves("SET_FILE_SOURCE", {})
    <3>1. /\ Idle("demux") /\ mq["demux"] # << >> /\ Head(mq["demux"]).id = "SET_FILE_SOURCE"
          /\ mq'["xplayer"] = mq["xplayer"] /\ mq'["demux"] = Tail(mq["demux"])
      BY <1>1, <2>1, <2>3 DEF Take, Thread
    <3> QED BY <1>3, <2>1, <3>1
  <2>5. /\ ~ demux'.net /\ demux'.bCancelPrepare = demux.bCancelPrepare
        /\ demux'.bSeeking = demux.bSeeking /\ demux'.pParser = demux.pParser
        /\ demux'.bForceStop = demux.bForceStop /\ demux'.eStatus # "STARTED"
    BY <1>1, <2>1, <2>3 DEF Demuxes
  <2> QED BY <1>1, <1>2, <2>1, <2>4, <2>5, ServesFile DEF Closes
<1>5. CASE CancelPrepare
  <2>1. Serves("CANCEL_PREPARE", {})
    <3>1. /\ Idle("demux") /\ mq["demux"] # << >> /\ Head(mq["demux"]).id = "CANCEL_PREPARE"
          /\ mq'["xplayer"] = mq["xplayer"] /\ mq'["demux"] = Tail(mq["demux"])
          /\ todo' = todo
      BY <1>1, <1>5 DEF CancelPrepare, Take, Thread
    <3> QED BY <1>3, <3>1
  <2>2. /\ ~ demux'.net /\ ~ demux'.bCancelPrepare /\ cache' = cache
        /\ demux'.bSeeking = demux.bSeeking /\ demux'.pParser = demux.pParser
        /\ demux'.bForceStop = demux.bForceStop
    BY <1>1, <1>2, <1>5 DEF CancelPrepare, Demuxes
  <2> QED BY <1>1, <1>2, <2>1, <2>2, ServesFile DEF Closes
<1>6. CASE CancelSeek
  <2>1. Serves("CANCEL_SEEK", {})
    <3>1. /\ Idle("demux") /\ mq["demux"] # << >> /\ Head(mq["demux"]).id = "CANCEL_SEEK"
          /\ mq'["xplayer"] = mq["xplayer"] /\ mq'["demux"] = Tail(mq["demux"])
          /\ todo' = todo
      BY <1>1, <1>6 DEF CancelSeek, Take, Thread
    <3> QED BY <1>3, <3>1
  <2>2. /\ ~ demux'.net /\ demux'.bCancelPrepare = demux.bCancelPrepare /\ cache' = cache
        /\ demux'.bSeeking = demux.bSeeking /\ demux'.pParser = demux.pParser
        /\ demux'.bForceStop = demux.bForceStop
    BY <1>1, <1>2, <1>6 DEF CancelSeek, Demuxes
  <2> QED BY <1>1, <1>2, <2>1, <2>2, ServesFile DEF Closes
<1>7. CASE Start
  <2>1. Serves("START", {})
    <3>1. /\ Idle("demux") /\ mq["demux"] # << >> /\ Head(mq["demux"]).id = "START"
          /\ mq'["xplayer"] = mq["xplayer"] /\ todo' = todo
          /\ \/ mq'["demux"] = Tail(mq["demux"])
             \/ Tail(mq["demux"]) = << >> /\ mq'["demux"] = << Message("READ") >>
      BY <1>1, <1>7 DEF Start, Thread
    <3> QED BY <1>3, <3>1
  <2>2. /\ ~ demux'.net /\ demux'.bCancelPrepare = demux.bCancelPrepare /\ cache' = cache
        /\ demux'.bSeeking = demux.bSeeking /\ demux'.pParser = demux.pParser
        /\ demux'.bForceStop = demux.bForceStop
    BY <1>1, <1>2, <1>7 DEF Start, Demuxes
  <2>3. demux'.eStatus = "STARTED" => mq'["demux"] # << >>
    <3>1. demux'.eStatus = "STARTED" => demux.eStatus \in {"PREPARED", "STARTED"}
      BY <1>1, <1>7 DEF Start, Demuxes
    <3> QED BY <1>1, <1>7, <3>1 DEF Start, Thread
  <2> QED BY <1>1, <1>2, <2>1, <2>2, <2>3, ServesFile DEF Closes
<1>8. CASE NotifyFirstFrameShowed
  <2>1. Serves("FIRST_FRAME", {})
    <3>1. /\ Idle("demux") /\ mq["demux"] # << >> /\ Head(mq["demux"]).id = "FIRST_FRAME"
          /\ mq'["xplayer"] = mq["xplayer"] /\ todo' = todo
          /\ \/ mq'["demux"] = Tail(mq["demux"])
             \/ Tail(mq["demux"]) = << >> /\ mq'["demux"] = << Message("READ") >>
      BY <1>1, <1>8 DEF NotifyFirstFrameShowed, Thread
    <3> QED BY <1>3, <3>1
  <2>2. demux' = demux /\ cache' = cache
    BY <1>8 DEF NotifyFirstFrameShowed
  <2>3. demux.eStatus = "STARTED" => mq'["demux"] # << >>
    BY <1>1, <1>8 DEF NotifyFirstFrameShowed, Thread
  <2> QED BY <1>1, <1>2, <2>1, <2>2, <2>3, ServesFile DEF Closes
<1> QED BY <1>4, <1>5, <1>6, <1>7, <1>8

\* The thread takes a message and has steps to do for it.
LEMMA TakesFile ==
    ASSUME XPlayerInv, FileInv, UNCHANGED xplayerVars,
           Prepare \/ Seek \/ Read \/ \E x \in Closes : Close(x)
    PROVE  FileInv'
<1>1. /\ mq \in [Thread -> Seq(Messages)] /\ demux \in Demuxes /\ Types /\ Parser
      /\ ctx' = ctx /\ player' = player
  BY DEF XPlayerInv, Types, xplayerVars
<1>2. ~ demux.net /\ ~ cache.alive
  BY DEF FileInv, OfFile
<1>3. ASSUME NEW id, Idle("demux"), mq["demux"] # << >>, Head(mq["demux"]).id = id,
             mq' = [mq EXCEPT !["demux"] = Tail(@)],
             NEW steps \in Seq(Steps), FileForm(steps), Does("demux", steps)
      PROVE  Serves(id, Ops(steps))
  <2>1. /\ mq'["xplayer"] = mq["xplayer"] /\ mq'["demux"] = Tail(mq["demux"])
    BY <1>1, <1>3 DEF Thread
  <2>2. todo'["xplayer"] = todo["xplayer"] /\ todo'["demux"] = steps
    BY <1>1, <1>3, Begun DEF Thread
  <2> QED BY <1>3, <2>1, <2>2 DEF Serves
<1>4. CASE Prepare
  <2>1. Serves("PREPARE", {"prepare"})
    <3>1. /\ << Step("prepare") >> \in Seq(Steps) /\ FileForm(<< Step("prepare") >>)
          /\ Ops(<< Step("prepare") >>) = {"prepare"}
      BY FormsOf DEF Alone
    <3>2. /\ Idle("demux") /\ mq["demux"] # << >> /\ Head(mq["demux"]).id = "PREPARE"
          /\ mq' = [mq EXCEPT !["demux"] = Tail(@)] /\ Does("demux", << Step("prepare") >>)
      BY <1>4 DEF Prepare, Take
    <3> QED BY <1>3, <3>1, <3>2
  <2>2. /\ ~ demux'.net /\ demux'.bCancelPrepare = demux.bCancelPrepare /\ cache' = cache
        /\ demux'.bSeeking = demux.bSeeking /\ ~ demux'.pParser
        /\ demux'.eStatus = demux.eStatus
    BY <1>1, <1>2, <1>4 DEF Prepare, Demuxes
  <2>3. demux.eStatus # "STARTED"
    <3>1. "PREPARE" \in Ids(mq["demux"])
      BY <1>1, <2>1, ServesQueue
    <3> QED BY <1>1, <3>1 DEF XPlayerInv, Preparation, Parser
  <2> QED BY <1>1, <1>2, <2>1, <2>2, <2>3, ServesFile DEF Closes
<1>5. CASE Seek
  <2> DEFINE time == Head(mq["demux"]).time
  <2>1. /\ Idle("demux") /\ mq["demux"] # << >> /\ Head(mq["demux"]).id = "SEEK"
        /\ cache' = cache /\ time \in Times
    <3>1. Idle("demux") /\ mq["demux"] # << >> /\ Head(mq["demux"]).id = "SEEK" /\ cache' = cache
      BY <1>5 DEF Seek
    <3>2. Head(mq["demux"]) \in Messages
      BY <1>1, <3>1, FirstMessage DEF Thread
    <3> QED BY <3>1, <3>2 DEF Messages
  <2>2. CASE ~ demux.pParser
    <3>1. Serves("SEEK", {"SEEK_FINISH"})
      <4>1. /\ << SeekFinish("UNKNOWN", time) >> \in Seq(Steps)
            /\ FileForm(<< SeekFinish("UNKNOWN", time) >>)
            /\ Ops(<< SeekFinish("UNKNOWN", time) >>) = {"SEEK_FINISH"}
        BY <2>1, FormsOf
      <4>2. /\ mq' = [mq EXCEPT !["demux"] = Tail(@)]
            /\ Does("demux", << SeekFinish("UNKNOWN", time) >>)
        BY <1>5, <2>2 DEF Seek
      <4> QED BY <1>3, <2>1, <4>1, <4>2
    <3>2. /\ ~ demux'.net /\ demux'.bCancelPrepare = demux.bCancelPrepare
          /\ ~ demux'.bSeeking /\ ~ demux'.pParser
          /\ demux'.eStatus = demux.eStatus
      BY <1>1, <1>2, <1>5, <2>2 DEF Seek, Demuxes
    <3>3. demux.eStatus # "STARTED"
      BY <1>1, <2>2 DEF Parser
    <3> QED BY <1>1, <1>2, <2>1, <3>1, <3>2, <3>3, ServesFile DEF Closes
  <2>3. CASE demux.pParser
    <3>1. Serves("SEEK", {"parserSeek"})
      <4>1. /\ << Timed("parserSeek", time) >> \in Seq(Steps)
            /\ FileForm(<< Timed("parserSeek", time) >>)
            /\ Ops(<< Timed("parserSeek", time) >>) = {"parserSeek"}
        BY <2>1, FormsOf
      <4>2. /\ mq' = [mq EXCEPT !["demux"] = Tail(@)]
            /\ Does("demux", << Timed("parserSeek", time) >>)
        BY <1>2, <1>5, <2>3 DEF Seek
      <4> QED BY <1>3, <2>1, <4>1, <4>2
    <3>2. /\ ~ demux'.net /\ demux'.bCancelPrepare = demux.bCancelPrepare
          /\ demux'.bForceStop => demux.bForceStop /\ (demux.bCancelSeek \/ demux.bStopping)
      BY <1>1, <1>2, <1>5, <2>3 DEF Seek, Demuxes, ClrForceStop
    <3> QED BY <1>1, <1>2, <2>1, <2>3, <3>1, <3>2, ServesFile DEF Closes
  <2> QED BY <2>2, <2>3
<1>6. CASE Read
  <2>1. /\ Idle("demux") /\ mq["demux"] # << >> /\ Head(mq["demux"]).id = "READ"
        /\ mq' = [mq EXCEPT !["demux"] = Tail(@)]
        /\ demux' = demux /\ cache' = cache
        /\ Does("demux", IF demux.eStatus = "STARTED" THEN << Step("parserRead") >> ELSE << >>)
    BY <1>2, <1>6 DEF Read, Take, Only
  <2>2. CASE demux.eStatus = "STARTED"
    <3>1. /\ << Step("parserRead") >> \in Seq(Steps) /\ FileForm(<< Step("parserRead") >>)
          /\ Ops(<< Step("parserRead") >>) = {"parserRead"}
      BY FormsOf DEF Alone
    <3>2. Serves("READ", {"parserRead"})
      BY <1>3, <2>1, <2>2, <3>1
    <3> QED BY <1>1, <1>2, <2>1, <3>2, ServesFile DEF Closes
  <2>3. CASE demux.eStatus # "STARTED"
    <3>1. Serves("READ", {})
      <4>1. << >> \in Seq(Steps) /\ FileForm(<< >>) /\ Ops(<< >>) = {}
        BY FormsOf
      <4>2. Does("demux", << >>)
        BY <2>1, <2>3
      <4>3. Serves("READ", Ops(<< >>))
        BY <1>3, <2>1, <4>1, <4>2
      <4> QED BY <4>1, <4>3
    <3> QED BY <1>1, <1>2, <2>1, <2>3, <3>1, ServesFile DEF Closes
  <2> QED BY <2>2, <2>3
<1>7. CASE \E x \in Closes : Close(x)
  <2>1. PICK x \in Closes : Close(x)
    BY <1>7
  <2>2. /\ << Step(x) >> \in Seq(Steps) /\ FileForm(<< Step(x) >>) /\ Ops(<< Step(x) >>) = {x}
    BY FormsOf DEF Alone, Closes
  <2>3. /\ Idle("demux") /\ mq["demux"] # << >> /\ Head(mq["demux"]).id = x
        /\ mq' = [mq EXCEPT !["demux"] = Tail(@)]
        /\ demux' = demux /\ cache' = cache
        /\ Does("demux", << >> \o << Step(x) >>)
    BY <1>2, <2>1 DEF Close, QuitCache, Only
  <2>4. << >> \o << Step(x) >> = << Step(x) >>
    OBVIOUS
  <2>5. Serves(x, {x})
    BY <1>3, <2>2, <2>3, <2>4
  <2>6. x \notin {"SEEK", "parserSeek", "SEEK_FINISH", "CANCEL_PREPARE"}
    BY DEF Closes
  <2> QED BY <1>1, <1>2, <2>3, <2>5, <2>6, ServesFile
<1> QED BY <1>4, <1>5, <1>6, <1>7

\* A step of the thread: what is left to show of each action.
LEMMA PerformsFile ==
    ASSUME XPlayerInv, FileInv, NEW op, NEW ops, Performs(op, ops),
           ~ demux'.net, ~ cache'.alive,
           ctx'.mSeeking = ctx.mSeeking, player'.eStatus = player.eStatus,
           ctx'.mStatus = ctx.mStatus \/ ctx'.mStatus \notin {"STARTED", "PAUSED"},
           demux'.bCancelPrepare => demux.bCancelPrepare,
           "parserSeek" \in ops \/ "SEEK_FINISH" \in ops => Seeks,
           demux'.bSeeking =>
             /\ demux.bSeeking
             /\ "parserSeek" \in Ops(todo["demux"]) \/ "seekDone" \in Ops(todo["demux"]) =>
                  "seekDone" \in ops,
           demux'.pParser /\ demux'.bForceStop =>
             \/ demux.pParser /\ demux.bForceStop /\ op \notin Closes
             \/ demux.bCancelPrepare,
           demux'.eStatus = "STARTED" /\ ~ demux'.bIOError =>
             \/ mq'["demux"] # << >> \/ "seekDone" \in ops \/ "complete" \in ops
             \/ Ending /\ op \notin Closes
    PROVE  FileInv'
<1>1. /\ Types /\ OfFile /\ Ends /\ OneSeek /\ Playing /\ Reading
      /\ todo'["xplayer"] = todo["xplayer"] /\ Ops(todo'["demux"]) = ops
  BY DEF XPlayerInv, FileInv, Performs
<1>2. OfFile'
  BY <1>1, RestOfFile
<1>3. Ends'
  BY <1>1, PerformsEnds
<1>4. OneSeek'
  <2>1. Seeks' => Seeks
    BY <1>1 DEF Seeks
  <2> QED BY <1>1, <2>1, PerformsSeek
<1>5. Playing'
  BY <1>1, SamePlaying
<1>6. Reading'
  BY <1>1, PerformsReading
<1> QED BY <1>2, <1>3, <1>4, <1>5, <1>6 DEF FileInv

\* A step that is done and leaves the queue.
LEMMA DoneFile ==
    ASSUME XPlayerInv, FileInv, ~ Idle("demux"), Proceed("demux", << >>),
           NEW op, Head(todo["demux"]).op = op, mq'["xplayer"] = mq["xplayer"],
           \/ mq'["demux"] = mq["demux"]
           \/ mq["demux"] = << >> /\ mq'["demux"] = << Message("READ") >>
    PROVE  /\ Performs(op, Ops(todo'["demux"]))
           /\ op = "EOS" => Ops(todo'["demux"]) = {"complete"}
           /\ op \notin {"EOS", "SEEK_FINISH"} => Ops(todo'["demux"]) = {}
<1>1. Types /\ FileForm(todo["demux"])
  BY DEF XPlayerInv, FileInv, OfFile
<1>2. /\ todo'["xplayer"] = todo["xplayer"] /\ FileForm(todo'["demux"])
      /\ LET x == Head(todo["demux"])
         IN  Ops(todo'["demux"]) = IF x.op = "EOS" THEN {"complete"}
                                   ELSE IF x.op = "SEEK_FINISH" /\ x.result = "ok"
                                     THEN {"seekDone"}
                                   ELSE {}
  BY <1>1, FileGoesOn
<1> QED BY <1>2 DEF Performs

\* Others to do instead of a step.
LEMMA ReplacedFile ==
    ASSUME XPlayerInv, FileInv, ~ Idle("demux"),
           NEW op \in {"prepare", "parserSeek", "parserRead"}, Head(todo["demux"]).op = op,
           NEW steps \in Seq(Steps), FileForm(steps), Proceed("demux", steps),
           mq'["xplayer"] = mq["xplayer"], mq'["demux"] = mq["demux"]
    PROVE  Performs(op, Ops(steps))
<1>1. Types /\ FileForm(todo["demux"])
  BY DEF XPlayerInv, FileInv, OfFile
<1>2. todo'["demux"] = steps /\ todo'["xplayer"] = todo["xplayer"]
  BY <1>1, FileReplaces
<1> QED BY <1>2 DEF Performs

\* The parser is prepared or not.
LEMMA PreparesFile ==
    ASSUME XPlayerInv, FileInv, UNCHANGED xplayerVars, ParserPrepared \/ ParserNotPrepared
    PROVE  FileInv'
<1>1. /\ demux \in Demuxes /\ Types /\ ctx' = ctx /\ player' = player
      /\ OfFile /\ ~ demux.net /\ ~ cache.alive
  BY DEF XPlayerInv, Types, xplayerVars, FileInv, OfFile
<1>2. /\ ~ Idle("demux") /\ Head(todo["demux"]).op = "prepare" /\ mq' = mq /\ cache' = cache
  <2>1. CASE ParserPrepared
    <3>1. demux'.bFileStream
      BY <1>1, <2>1 DEF ParserPrepared, Demuxes
    <3> QED BY <2>1, <3>1 DEF ParserPrepared, At
  <2>2. CASE ParserNotPrepared
    BY <2>2 DEF ParserNotPrepared, At
  <2> QED BY <2>1, <2>2
<1>3. ASSUME NEW id \in {"PREPARED", "PREPARE_FAILED"}, Proceed("demux", << Notify(id) >>)
      PROVE  Performs("prepare", {id})
  <2>1. /\ << Notify(id) >> \in Seq(Steps) /\ FileForm(<< Notify(id) >>)
        /\ Ops(<< Notify(id) >>) = {id}
    BY FormsOf DEF Alone, Notify, Step
  <2> QED BY <1>2, <1>3, <2>1, ReplacedFile
<1>4. ASSUME NEW ops, Performs("prepare", ops)
      PROVE  Ops(todo["demux"]) = {"prepare"}
  BY <1>1, <1>4, PerformsQueue DEF Alone
<1>5. CASE ParserPrepared
  <2>1. Performs("prepare", {"PREPARED"})
    BY <1>3, <1>5 DEF ParserPrepared
  <2>2. /\ ~ demux'.net /\ demux'.bCancelPrepare = demux.bCancelPrepare
        /\ demux'.bSeeking = demux.bSeeking /\ demux'.bForceStop = demux.bCancelPrepare
        /\ demux'.eStatus = "PREPARED"
    BY <1>1, <1>5 DEF ParserPrepared, Demuxes
  <2>3. Ops(todo["demux"]) = {"prepare"}
    BY <1>4, <2>1
  <2> QED BY <1>1, <1>2, <2>1, <2>2, <2>3, PerformsFile
<1>6. CASE ParserNotPrepared
  <2>1. Performs("prepare", {"PREPARE_FAILED"})
    BY <1>3, <1>6 DEF ParserNotPrepared
  <2>2. /\ ~ demux'.net /\ demux'.bCancelPrepare = demux.bCancelPrepare
        /\ demux'.bSeeking = demux.bSeeking /\ demux'.pParser = demux.pParser
        /\ demux'.bForceStop = demux.bForceStop
        /\ demux'.eStatus = "INITIALIZED"
    BY <1>1, <1>6 DEF ParserNotPrepared, Demuxes
  <2>3. Ops(todo["demux"]) = {"prepare"}
    BY <1>4, <2>1
  <2>4. "prepare" \notin Closes
    BY DEF Closes
  <2> QED BY <1>1, <1>2, <2>1, <2>2, <2>3, <2>4, PerformsFile
<1> QED BY <1>5, <1>6

\* The player front end is told of the preparation, or of the end of the stream.
LEMMA ToldFile ==
    ASSUME XPlayerInv, FileInv, Prepared \/ PrepareFailed \/ NotifyEos
    PROVE  FileInv'
<1>1. /\ demux \in Demuxes /\ Types /\ ctx \in Contexts /\ player \in Players
      /\ OfFile /\ ~ demux.net /\ ~ cache.alive
  BY DEF XPlayerInv, Types, FileInv, OfFile
<1>2. /\ ~ Idle("demux") /\ Proceed("demux", << >>) /\ mq' = mq
      /\ Head(todo["demux"]).op \in {"PREPARED", "PREPARE_FAILED", "EOS"}
      /\ demux' = demux /\ cache' = cache
  BY DEF Prepared, PrepareFailed, NotifyEos, At
<1>3. PICK op \in {"PREPARED", "PREPARE_FAILED", "EOS"} : Head(todo["demux"]).op = op
  BY <1>2
<1>4. /\ Performs(op, Ops(todo'["demux"]))
      /\ op = "EOS" => Ops(todo'["demux"]) = {"complete"}
      /\ op # "EOS" => Ops(todo'["demux"]) = {}
  BY <1>2, <1>3, DoneFile
<1>5. /\ op # "EOS" => Ops(todo["demux"]) = {op}
      /\ op = "EOS" => Ops(todo["demux"]) = {"EOS", "complete"}
  BY <1>1, <1>4, PerformsQueue DEF Alone
<1>6. /\ ctx'.mSeeking = ctx.mSeeking /\ player'.eStatus = player.eStatus
      /\ ctx'.mStatus = ctx.mStatus \/ ctx'.mStatus \notin {"STARTED", "PAUSED"}
  BY <1>1 DEF Prepared, PrepareFailed, NotifyEos, Contexts, Players
<1>7. op \notin Closes
  BY DEF Closes
<1>8. demux'.eStatus = "STARTED" /\ ~ demux'.bIOError =>
        mq'["demux"] # << >> \/ "complete" \in Ops(todo'["demux"]) \/ Ending
  <2>1. demux.eStatus = "STARTED" /\ ~ demux.bIOError =>
          mq["demux"] # << >> \/ Continues \/ Ending
    BY DEF FileInv, Reading
  <2> QED BY <1>2, <1>4, <1>5, <2>1 DEF Continues
<1> QED BY <1>1, <1>2, <1>4, <1>5, <1>6, <1>7, <1>8, PerformsFile

\* The thread is done with a message.
LEMMA FinishesFile ==
    ASSUME XPlayerInv, FileInv, UNCHANGED xplayerVars, Closed \/ SeekDone \/ Complete
    PROVE  FileInv'
<1>1. /\ demux \in Demuxes /\ Types /\ ctx' = ctx /\ player' = player
      /\ mq \in [Thread -> Seq(Messages)]
      /\ OfFile /\ ~ demux.net /\ ~ cache.alive
  BY DEF XPlayerInv, Types, xplayerVars, FileInv, OfFile
<1>2. CASE Closed
  <2>1. PICK op \in Closes : At("demux", op)
    BY <1>2 DEF Closed, Closes
  <2>2. /\ ~ Idle("demux") /\ Proceed("demux", << >>) /\ mq' = mq
        /\ Head(todo["demux"]).op = op /\ cache' = cache /\ op \in {"STOP", "CLEAR"}
    BY <1>2, <2>1 DEF Closed, At, Closes
  <2>3. Performs(op, Ops(todo'["demux"])) /\ Ops(todo'["demux"]) = {}
    BY <2>2, DoneFile
  <2>4. Ops(todo["demux"]) = {op}
    BY <1>1, <2>2, <2>3, PerformsQueue DEF Alone
  <2>5. /\ ~ demux'.net /\ demux'.bCancelPrepare = demux.bCancelPrepare
        /\ demux'.bSeeking = demux.bSeeking /\ ~ demux'.pParser
        /\ demux'.eStatus # "STARTED"
    BY <1>1, <1>2 DEF Closed, Demuxes
  <2> QED BY <1>1, <2>2, <2>3, <2>4, <2>5, PerformsFile
<1>3. CASE SeekDone
  <2>1. /\ ~ Idle("demux") /\ Proceed("demux", << >>) /\ Head(todo["demux"]).op = "seekDone"
        /\ cache' = cache
    BY <1>3 DEF SeekDone, At
  <2>2. /\ ~ demux'.net /\ demux'.bCancelPrepare = demux.bCancelPrepare
        /\ ~ demux'.bSeeking /\ demux'.pParser = demux.pParser
        /\ demux'.bForceStop = demux.bForceStop
    BY <1>1, <1>3 DEF SeekDone, Demuxes
  <2>3. /\ mq'["xplayer"] = mq["xplayer"]
        /\ \/ mq'["demux"] = mq["demux"]
           \/ mq["demux"] = << >> /\ mq'["demux"] = << Message("READ") >>
        /\ demux'.eStatus = "STARTED" => mq'["demux"] # << >>
    BY <1>1, <1>3 DEF SeekDone, PostReadMessage, Thread
  <2>4. Performs("seekDone", {})
    BY <2>1, <2>3, DoneFile
  <2>5. "seekDone" \notin Closes
    BY DEF Closes
  <2> QED BY <1>1, <2>1, <2>2, <2>3, <2>4, <2>5, PerformsFile
<1>4. CASE Complete
  <2>1. /\ ~ Idle("demux") /\ Proceed("demux", << >>) /\ Head(todo["demux"]).op = "complete"
        /\ mq' = mq /\ cache' = cache
    BY <1>4 DEF Complete, At
  <2>2. /\ ~ demux'.net /\ demux'.bCancelPrepare = demux.bCancelPrepare
        /\ demux'.bSeeking = demux.bSeeking /\ demux'.pParser = demux.pParser
        /\ demux'.bForceStop = demux.bForceStop /\ demux'.eStatus = "COMPLETE"
    BY <1>1, <1>4 DEF Complete, Demuxes
  <2>3. Performs("complete", {})
    BY <2>1, DoneFile
  <2>4. Ops(todo["demux"]) = {"complete"} /\ "complete" \notin Closes
    BY <1>1, <2>3, PerformsQueue DEF Alone, Closes
  <2> QED BY <1>1, <2>1, <2>2, <2>3, <2>4, PerformsFile
<1> QED BY <1>2, <1>3, <1>4

\* The parser returns from a seek.
LEMMA SoughtFile ==
    ASSUME XPlayerInv, FileInv, UNCHANGED xplayerVars, ParserSeekOk \/ ParserSeekFails
    PROVE  FileInv'
<1>1. /\ demux \in Demuxes /\ Types /\ ctx' = ctx /\ player' = player
      /\ OfFile /\ ~ demux.net /\ ~ cache.alive
  BY DEF XPlayerInv, Types, xplayerVars, FileInv, OfFile
<1> DEFINE time == Head(todo["demux"]).time
<1>2. /\ ~ Idle("demux") /\ Head(todo["demux"]).op = "parserSeek" /\ mq' = mq /\ cache' = cache
  BY DEF ParserSeekOk, ParserSeekFails, At
<1>3. time \in Times
  <2>1. Head(todo["demux"]) \in Steps
    BY <1>1, <1>2, ListTypes, FirstStep DEF Idle, Thread
  <2> QED BY <1>2, <2>1, StepTimes
<1>4. ASSUME NEW ops, Performs("parserSeek", ops)
      PROVE  Ops(todo["demux"]) = {"parserSeek"} /\ Seeks /\ "parserSeek" \notin Closes
  <2>1. Ops(todo["demux"]) = {"parserSeek"}
    BY <1>1, <1>4, PerformsQueue DEF Alone
  <2> QED BY <2>1 DEF Seeks, Closes
<1>5. CASE ParserSeekOk
  <2>1. Performs("parserSeek", {"SEEK_FINISH", "seekDone"})
    <3> DEFINE l == << SeekFinish("ok", time), Step("seekDone") >>
    <3>1. l \in Seq(Steps) /\ FileForm(l) /\ Ops(l) = {"SEEK_FINISH", "seekDone"}
      BY <1>3, FormsOf
    <3>2. Proceed("demux", l)
      BY <1>5 DEF ParserSeekOk
    <3> HIDE DEF l
    <3>3. Performs("parserSeek", Ops(l))
      BY <1>2, <3>1, <3>2, ReplacedFile
    <3> QED BY <3>1, <3>3
  <2>2. /\ ~ demux'.net /\ demux'.bCancelPrepare = demux.bCancelPrepare
        /\ demux'.bSeeking = demux.bSeeking /\ demux'.pParser = demux.pParser
        /\ demux'.bForceStop = demux.bForceStop
    BY <1>1, <1>5 DEF ParserSeekOk, Demuxes
  <2> QED BY <1>1, <1>2, <1>4, <2>1, <2>2, PerformsFile
<1>6. CASE ParserSeekFails
  <2>1. Performs("parserSeek", {"SEEK_FINISH"})
    <3> DEFINE l == << SeekFinish(SeekError, time) >>
    <3>1. l \in Seq(Steps) /\ FileForm(l) /\ Ops(l) = {"SEEK_FINISH"}
      BY <1>3, FormsOf DEF SeekError
    <3>2. Proceed("demux", l)
      BY <1>6 DEF ParserSeekFails
    <3> HIDE DEF l
    <3>3. Performs("parserSeek", Ops(l))
      BY <1>2, <3>1, <3>2, ReplacedFile
    <3> QED BY <3>1, <3>3
  <2>2. /\ ~ demux'.net /\ demux'.bCancelPrepare = demux.bCancelPrepare
        /\ ~ demux'.bSeeking /\ demux'.pParser = demux.pParser
        /\ demux'.bForceStop = demux.bForceStop /\ demux'.eStatus = "COMPLETE"
    BY <1>1, <1>6 DEF ParserSeekFails, SeekFails, Demuxes
  <2> QED BY <1>1, <1>2, <1>4, <2>1, <2>2, PerformsFile
<1> QED BY <1>5, <1>6

\* The parser returns from a read.  When it was forced to, a seek waits or a
\* seek or a stop is about to come.
LEMMA ReadFile ==
    ASSUME XPlayerInv, FileInv, UNCHANGED xplayerVars, ParserReadOk \/ ParserReadFails
    PROVE  FileInv'
<1>1. /\ demux \in Demuxes /\ Types /\ ctx' = ctx /\ player' = player
      /\ mq \in [Thread -> Seq(Messages)]
      /\ OfFile /\ ~ demux.net /\ ~ cache.alive
  BY DEF XPlayerInv, Types, xplayerVars, FileInv, OfFile
<1>2. ~ Idle("demux") /\ Head(todo["demux"]).op = "parserRead" /\ cache' = cache
  BY DEF ParserReadOk, ParserReadFails, At
<1>3. ASSUME NEW ops, Performs("parserRead", ops)
      PROVE  Ops(todo["demux"]) = {"parserRead"} /\ "parserRead" \notin Closes
  BY <1>1, <1>3, PerformsQueue DEF Alone, Closes
<1>4. CASE ParserReadOk
  <2>1. /\ Proceed("demux", << >>) /\ mq'["xplayer"] = mq["xplayer"]
        /\ \/ mq'["demux"] = mq["demux"]
           \/ mq["demux"] = << >> /\ mq'["demux"] = << Message("READ") >>
        /\ mq'["demux"] # << >>
    BY <1>1, <1>4 DEF ParserReadOk, PostReadMessage, Thread
  <2>2. Performs("parserRead", {})
    BY <1>2, <2>1, DoneFile
  <2>3. /\ ~ demux'.net /\ demux'.bCancelPrepare = demux.bCancelPrepare
        /\ demux'.bSeeking = demux.bSeeking /\ demux'.pParser = demux.pParser
        /\ demux'.bForceStop = demux.bForceStop
    BY <1>1, <1>4 DEF ParserReadOk, Demuxes
  <2> QED BY <1>1, <1>2, <1>3, <2>1, <2>2, <2>3, PerformsFile
<1>5. CASE ParserReadFails
  <2>1. /\ mq' = mq
        /\ ~ demux'.net /\ demux'.bCancelPrepare = demux.bCancelPrepare
        /\ demux'.bSeeking = demux.bSeeking /\ demux'.pParser = demux.pParser
        /\ demux'.bForceStop = demux.bForceStop
    BY <1>1, <1>5 DEF ParserReadFails, Demuxes
  <2>2. ASSUME Proceed("demux", << >>)
        PROVE  Performs("parserRead", {})
    BY <1>2, <2>1, <2>2, DoneFile
  <2>3. CASE ~ Unforced /\ Proceed("demux", << >>) /\ UNCHANGED demux
    <3>1. Performs("parserRead", {}) /\ Ops(todo["demux"]) = {"parserRead"}
      BY <1>3, <2>2, <2>3
    <3>2. demux.pParser
      BY <3>1 DEF XPlayerInv, Parser, ClosedOps
    <3>3. SeekWaits \/ Ending
      <4>1. demux.bForceStop => SeekWaits \/ Ending
        BY <3>2 DEF FileInv, Reading
      <4>2. demux.bStopping => Ending
        BY DEF XPlayerInv, Flags, Ending
      <4>3. demux.bSeeking => SeekWaits
        BY <3>1 DEF FileInv, Reading
      <4> QED BY <2>3, <4>1, <4>2, <4>3 DEF Unforced
    <3>4. SeekWaits => mq["demux"] # << >>
      BY OnlyRead DEF SeekWaits
    <3> QED BY <1>1, <1>2, <1>3, <2>1, <2>3, <3>1, <3>3, <3>4, PerformsFile
  <2>4. CASE /\ demux' = [demux EXCEPT !.bIOError = TRUE] /\ Proceed("demux", << >>)
    <3>1. demux'.bIOError
      BY <1>1, <2>4 DEF Demuxes
    <3> QED BY <1>1, <1>2, <1>3, <2>1, <2>2, <2>4, <3>1, PerformsFile
  <2>5. CASE Proceed("demux", << Notify("EOS"), Step("complete") >>)
    <3> DEFINE l == << Notify("EOS"), Step("complete") >>
    <3>1. l \in Seq(Steps) /\ FileForm(l) /\ Ops(l) = {"EOS", "complete"}
      BY FormsOf
    <3>2. Proceed("demux", l)
      BY <2>5
    <3> HIDE DEF l
    <3>3. Performs("parserRead", Ops(l))
      BY <1>2, <2>1, <3>1, <3>2, ReplacedFile
    <3>4. Performs("parserRead", {"EOS", "complete"})
      BY <3>1, <3>3
    <3> QED BY <1>1, <1>2, <1>3, <2>1, <3>4, PerformsFile
  <2> QED BY <1>5, <2>3, <2>4, <2>5 DEF ParserReadFails
<1> QED BY <1>4, <1>5

\* The end of a seek, which no other waits for then.
LEMMA FinishFile ==
    ASSUME XPlayerInv, FileInv, NotifySeekFinish("demux")
    PROVE  FileInv'
<1>1. /\ demux \in Demuxes /\ Types /\ ctx \in Contexts /\ player \in Players
      /\ OfFile /\ ~ demux.net /\ ~ cache.alive /\ Commanding
      /\ Ends /\ OneSeek /\ Playing /\ Reading
  BY DEF XPlayerInv, Types, FileInv, OfFile
<1> DEFINE ok == Head(todo["demux"]).result = "ok"
           latest == ok /\ Head(todo["demux"]).time = ctx.mSeekTime
           plays == latest /\ ctx.mStatus = "STARTED"
           ops == Ops(todo'["demux"])
<1>2. /\ ~ Idle("demux") /\ Proceed("demux", << >>) /\ mq' = mq /\ cache' = cache
      /\ Head(todo["demux"]).op = "SEEK_FINISH"
      /\ player' = IF plays THEN PlayerStart(PlayerReset(player))
                   ELSE IF ok THEN PlayerReset(player) ELSE player
      /\ ctx' = [ctx EXCEPT !.mSeeking = @ /\ ~ latest]
      /\ demux' = [demux EXCEPT !.eStatus = IF plays THEN StartedByCallback ELSE @,
                                !.sent = @ /\ ~ ok]
  BY DEF NotifySeekFinish, At
<1>3. /\ ~ demux'.net /\ demux'.bCancelPrepare = demux.bCancelPrepare
      /\ demux'.bSeeking = demux.bSeeking /\ demux'.pParser = demux.pParser
      /\ demux'.bForceStop = demux.bForceStop /\ demux'.bIOError = demux.bIOError
      /\ ~ plays => demux'.eStatus = demux.eStatus
  BY <1>1, <1>2 DEF Demuxes
<1>4. /\ ctx'.mStatus = ctx.mStatus /\ (ctx'.mSeeking <=> ctx.mSeeking /\ ~ latest)
  BY <1>1, <1>2 DEF Contexts
<1>5. /\ plays => Plays'
      /\ ~ plays => (Plays' <=> Plays)
  BY <1>1, <1>2 DEF Plays, PlayerStart, PlayerReset, Players
<1>6. /\ Performs("SEEK_FINISH", ops)
  BY <1>2, DoneFile
<1>7. /\ todo'["xplayer"] = todo["xplayer"]
      /\ Ops(todo["demux"]) = {"SEEK_FINISH"} \union ops
  <2>1. /\ todo'["demux"] = << >> \o Tail(todo["demux"]) /\ Tail(todo["demux"]) \in Seq(Steps)
        /\ Ops(todo["demux"]) = {Head(todo["demux"]).op} \union Ops(Tail(todo["demux"]))
        /\ todo'["xplayer"] = todo["xplayer"]
    BY <1>1, <1>2, FewOps, Proceeded DEF Thread
  <2>2. << >> \o Tail(todo["demux"]) = Tail(todo["demux"])
    BY <2>1
  <2> QED BY <1>2, <2>1, <2>2
<1>8. ok => ops = {"seekDone"}
  BY <1>1, <1>2, FileGoesOn DEF OfFile
<1>9. ops \subseteq {"seekDone"}
  BY <1>1, <1>2, FileGoesOn DEF OfFile
<1> HIDE DEF ops, ok, latest, plays
<1>10. plays => ok /\ latest /\ ctx.mStatus = "STARTED"
  BY DEF plays, latest
<1>11. latest /\ ctx.mStatus = "STARTED" => plays
  BY DEF plays
<1>12. Seeks /\ ctx.mSeeking /\ ~ SeekWaits
  BY <1>1, <1>7 DEF Seeks, OneSeek
<1>13. Front' = Front /\ (FrontSeeks' <=> FrontSeeks)
       /\ (Starts(todo["xplayer"])' <=> Starts(todo["xplayer"]))
  BY <1>7, SameFollows
<1>14. OfFile'
  BY <1>1, <1>2, <1>3, <1>6, RestOfFile
<1>15. Ends'
  BY <1>1, <1>3, <1>6, PerformsEnds
<1>16. OneSeek'
  <2>1. ~ SeekWaits' /\ ~ Seeks'
    BY <1>2, <1>9, <1>12 DEF SeekWaits, Seeks, ops
  <2>2. FrontSeeks => "notSeeking" \in Front
    BY <1>1, <1>12 DEF OneSeek
  <2>3. FrontSeeks => "seek" \in Front
    <3>1. FrontSeeks => ~ Quits(todo["xplayer"])
      BY <1>1 DEF FrontSeeks, SeekOps, Front, Commanding, StopOps
    <3> QED BY <1>1, <2>2, <3>1 DEF Ends, Follows, Front
  <2> QED BY <1>1, <1>2, <1>13, <2>1, <2>3 DEF OneSeek, SeekOnce
<1>17. Playing'
  BY <1>1, <1>4, <1>5, <1>10, <1>11, <1>12, <1>13 DEF Playing
<1>18. Reading'
  <2>1. demux'.eStatus = "STARTED" /\ ~ demux'.bIOError =>
          mq'["demux"] # << >> \/ "seekDone" \in ops \/ Ending
    <3>1. CASE plays
      BY <1>8, <1>10, <3>1
    <3>2. CASE ~ plays
      <4>1. demux.eStatus = "STARTED" /\ ~ demux.bIOError =>
              mq["demux"] # << >> \/ Continues \/ Ending
        BY <1>1 DEF Reading
      <4>2. Continues => "seekDone" \in ops
        BY <1>7, <1>9 DEF Continues
      <4> QED BY <1>2, <1>3, <3>2, <4>1, <4>2
    <3> QED BY <3>1, <3>2
  <2>2. "SEEK_FINISH" \notin Closes
    BY DEF Closes
  <2>3. demux.bSeeking /\ ("parserSeek" \in Ops(todo["demux"]) \/ "seekDone" \in Ops(todo["demux"]))
          => "seekDone" \in ops
    BY <1>7, <1>9
  <2> QED BY <1>1, <1>3, <1>6, <2>1, <2>2, <2>3, PerformsReading
<1> QED BY <1>14, <1>15, <1>16, <1>17, <1>18 DEF FileInv

\* What a file never needs: its demux thread has no cache, ...
LEMMA NoCacheSteps ==
    ASSUME XPlayerInv, FileInv, ~ Idle("demux")
    PROVE  Head(todo["demux"]).op \in Alone \union {"EOS"}
<1>1. todo["demux"] \in Seq(Steps) /\ todo["demux"] # << >> /\ FileForm(todo["demux"])
  BY ListTypes DEF XPlayerInv, FileInv, OfFile, Thread, Idle
<1> DEFINE s == todo["demux"]
<1> HIDE DEF s
<1>2. Head(s).op \in Alone \union {"EOS"}
  <2>1. s \in Seq(Steps) /\ s # << >> /\ FileForm(s)
    BY <1>1 DEF s
  <2>2. "SEEK_FINISH" \in Alone
    BY DEF Alone
  <2> QED BY <2>1, <2>2, FormOps
<1> QED BY <1>2 DEF s

CacheReads ==
    \/ JoinCache \/ AwaitCache \/ SeekHit \/ StartCache \/ SeekMiss \/ SeekWaitEnds
    \/ SeekTail \/ BufferingEnds \/ Resumed \/ BufferingGoesOn
    \/ SendFrame \/ Underflow \/ Paused
    \/ PauseOrResume \/ SeekWaitIsLong

\* None of the steps with the cache is taken for a file ...
LEMMA NoCacheReads ==
    ASSUME XPlayerInv, FileInv, CacheReads
    PROVE  FALSE
<1>1. ~ Idle("demux") /\ Head(todo["demux"]).op \in
          {"join", "awaitCache", "seekCache", "startCache", "seekWait", "seekTail", "buffering",
           "resumed", "readCache", "paused", "PAUSE_PLAYER", "RESUME_PLAYER"}
  BY DEF CacheReads, JoinCache, AwaitCache, SeekHit, StartCache, SeekMiss, SeekWaitEnds,
         SeekTail, BufferingEnds, Resumed, BufferingGoesOn, SendFrame, Underflow, Paused,
         PauseOrResume, SeekWaitIsLong, At
<1> QED BY <1>1, NoCacheSteps DEF Alone

\* ... and there is no cache thread.
LEMMA NoCacheThread ==
    ASSUME XPlayerInv, FileInv, CacheThreadOwn
    PROVE  FALSE
<1>1. mq["cache"] = << >> /\ todo["cache"] = << >>
  BY DEF XPlayerInv, Parser, FileInv, OfFile
<1>2. CASE CacheSteps
  BY <1>1, <1>2, CacheWorks
<1>3. CASE CacheQuit
  BY <1>1, <1>3 DEF CacheQuit, Take
<1>4. CASE LockedByCallback("cache")
  BY <1>1, <1>4 DEF LockedByCallback, NotifySeekFinish, At, Idle
<1>5. CacheSteps \/ CacheQuit \/ LockedByCallback("cache")
  BY DEF CacheThreadOwn, CacheThreadSteps, CacheThread, CacheSteps
<1> QED BY <1>2, <1>3, <1>4, <1>5

\* Every step of the component's own threads.
LEMMA DemuxFile ==
    ASSUME XPlayerInv, FileInv,
           \/ DemuxThreadSteps
           \/ SeekWaitIsLong
           \/ ParserReturns /\ UNCHANGED xplayerVars
           \/ CacheThreadSteps
    PROVE  FileInv'
<1>1. CASE DemuxThreadSteps
  <2>1. CASE DemuxThread /\ UNCHANGED xplayerVars
    <3>1. CASE SetSource \/ CancelPrepare \/ Start \/ CancelSeek \/ NotifyFirstFrameShowed
      BY <2>1, <3>1, AnswersFile
    <3>2. CASE Prepare \/ Seek \/ Read \/ Close("STOP") \/ Close("CLEAR")
      BY <2>1, <3>2, TakesFile DEF Closes
    <3>3. CASE ParserPrepared \/ ParserNotPrepared
      BY <2>1, <3>3, PreparesFile
    <3>4. CASE Closed \/ SeekDone \/ Complete
      BY <2>1, <3>4, FinishesFile
    <3>5. CASE CacheReads
      BY <3>5, NoCacheReads
    <3> QED BY <2>1, <3>1, <3>2, <3>3, <3>4, <3>5 DEF DemuxThread, CacheReads
  <2>2. CASE Prepared \/ PrepareFailed \/ NotifyEos
    BY <2>2, ToldFile
  <2>3. CASE LockedByCallback("demux")
    BY <2>3, FinishFile, NoCacheReads DEF LockedByCallback, CacheReads
  <2> QED BY <1>1, <2>1, <2>2, <2>3 DEF DemuxThreadSteps
<1>2. CASE SeekWaitIsLong
  BY <1>2, NoCacheReads DEF CacheReads
<1>3. CASE ParserReturns /\ UNCHANGED xplayerVars
  <2>1. CASE ParserSeekOk \/ ParserSeekFails
    BY <1>3, <2>1, SoughtFile
  <2>2. CASE ParserReadOk \/ ParserReadFails
    BY <1>3, <2>2, ReadFile
  <2>3. CASE CacheSeekOk \/ CacheSeekFails \/ CacheReadOk \/ CacheReadFails
    BY <2>3, NoCacheThread DEF CacheThreadOwn
  <2> QED BY <1>3, <2>1, <2>2, <2>3 DEF ParserReturns
<1>4. CASE CacheThreadSteps
  BY <1>4, NoCacheThread DEF CacheThreadOwn
<1> QED BY <1>1, <1>2, <1>3, <1>4

-----------------------------------------------------------------------------
(* The commands of a player of files.                                        *)

\* How a list starts or pauses, by its first step and the rest.
LEMMA FirstStarts ==
    ASSUME NEW s \in Seq(Steps), s # << >>
    PROVE  /\ Starts(s) <=> \/ Head(s).op = "status" /\ Head(s).status = "STARTED"
                            \/ Starts(Tail(s))
           /\ Pauses(s) <=> \/ Head(s).op = "status" /\ Head(s).status = "PAUSED"
                            \/ Pauses(Tail(s))
<1>1. Elements(s) = {Head(s)} \union Elements(Tail(s))
  BY TakenElements
<1> QED BY <1>1 DEF Starts, Pauses

\* How a list of two parts starts or pauses.
LEMMA JoinedStarts ==
    ASSUME NEW a \in Seq(Steps), NEW b \in Seq(Steps)
    PROVE  /\ Starts(a \o b) <=> Starts(a) \/ Starts(b)
           /\ Pauses(a \o b) <=> Pauses(a) \/ Pauses(b)
<1>1. Elements(a \o b) = Elements(a) \union Elements(b)
  BY JoinedElements
<1> QED BY <1>1 DEF Starts, Pauses

\* A list without a change of the status starts, pauses and quits nothing.
LEMMA NoStatus ==
    ASSUME NEW s, "status" \notin Ops(s)
    PROVE  ~ Starts(s) /\ ~ Pauses(s) /\ ~ Quits(s)
  BY DEF Starts, Pauses, Quits, Ops

\* What follows still follows when the first step is done.
LEMMA RestFollows ==
    ASSUME NEW s \in Seq(Steps), s # << >>, InOrder(s), Follows(s)
    PROVE  Follows(Tail(s))
<1> DEFINE h == Head(s).op
           ops == Ops(Tail(s))
<1>1. /\ Ops(s) = {h} \union ops
      /\ Quits(s) => h = "status" \/ Quits(Tail(s))
      /\ Starts(s) => h = "status" \/ Starts(Tail(s))
      /\ Starts(Tail(s)) => Starts(s)
      /\ Pauses(Tail(s)) => Pauses(s)
  BY FirstStep, FirstStarts
<1>2. \A op \in ops : Place(h) < Place(op)
  BY FirstInOrder
<1> HIDE DEF h, ops
<1>3. ASSUME NEW op \in ops, NEW other, Place(op) < Place(other), other \in Ops(s)
      PROVE  other \in ops /\ h # other
  <2>1. Place(h) < Place(op)
    BY <1>2
  <2>2. Place(h) \in Nat /\ Place(op) \in Nat /\ Place(other) \in Nat
    BY DEF Place
  <2>3. h # other
    BY <1>3, <2>1, <2>2
  <2> QED BY <1>1, <1>3, <2>3
<1>4. Place("demuxCancelPrepare") = 1 /\ Place("demuxCancelSeek") = 2
      /\ Place("playerStart") = 2 /\ Place("notSeeking") = 3
      /\ Place("demuxStop") = 4 /\ Place("seek") = 4 /\ Place("seekPlayer") = 5
      /\ Place("seekDemux") = 6 /\ Place("playerStop") = 6 /\ Place("status") = 7
  BY DEF Place, Waits
<1>5. "demuxCancelSeek" \in ops => "notSeeking" \in ops
  BY <1>1, <1>3, <1>4 DEF Follows
<1>6. (Quits(s) \/ Starts(s)) => "status" \in Ops(s)
  BY NoStatus
<1>7. "notSeeking" \in ops => \/ "seek" \in ops /\ "seekDemux" \in ops
                              \/ "demuxStop" \in ops /\ Quits(Tail(s))
  BY <1>1, <1>3, <1>4, <1>6 DEF Follows
<1>8. "demuxCancelPrepare" \in ops => "demuxStop" \in ops
  BY <1>1, <1>3, <1>4 DEF Follows
<1>9. "playerStop" \in ops => Quits(Tail(s))
  BY <1>1, <1>3, <1>4, <1>6 DEF Follows
<1>10. "playerStart" \in ops => Starts(Tail(s))
  BY <1>1, <1>3, <1>4, <1>6 DEF Follows
<1>11. "seek" \in ops => "seekPlayer" \in ops
  BY <1>1, <1>3, <1>4 DEF Follows
<1>12. /\ "pause" \in ops => ops \subseteq {"pause", "answer"}
       /\ Starts(Tail(s)) => ops \subseteq StartOps
       /\ ~ Pauses(Tail(s))
  BY <1>1 DEF Follows
<1> QED BY <1>5, <1>7, <1>8, <1>9, <1>10, <1>11, <1>12 DEF Follows, ops

\* A list of which nothing follows.
LEMMA PlainFollows ==
    ASSUME NEW s,
           \/ Ops(s) \subseteq {"answer", "sourceSet", "start", "seekTime", "unlock", "demuxStart"}
           \/ Ops(s) \subseteq {"pause", "answer"}
    PROVE  Follows(s) /\ ~ Starts(s) /\ ~ Quits(s)
<1>1. "status" \notin Ops(s)
  OBVIOUS
<1>2. ~ Starts(s) /\ ~ Pauses(s) /\ ~ Quits(s)
  BY <1>1, NoStatus
<1> QED BY <1>2 DEF Follows

\* The thread of the player has done its first step.
Drops(h) ==
    /\ h \in Front /\ h \notin Front' /\ Front' = Front \ {h}
    /\ \A op \in Front' : Place(h) < Place(op)
    /\ Follows(todo["xplayer"])'
    /\ Starts(todo["xplayer"])' => Starts(todo["xplayer"])
    /\ Starts(todo["xplayer"]) => h = "status" \/ Starts(todo["xplayer"])'
    /\ h = "status" => /\ Head(todo["xplayer"]).status # "PAUSED"
                       /\ Head(todo["xplayer"]).status = "STARTED" => Starts(todo["xplayer"])

\* A step that is done is dropped from the list, and the rest still follows.
LEMMA DoneDrops ==
    ASSUME XPlayerInv, FileInv, ~ Idle("xplayer"),
           todo'["xplayer"] = Tail(todo["xplayer"])
    PROVE  Drops(Head(todo["xplayer"]).op)
<1> DEFINE s == todo["xplayer"]
           h == Head(s).op
<1>1. s \in Seq(Steps) /\ s # << >> /\ InOrder(s) /\ Follows(s)
  BY ListTypes DEF XPlayerInv, FileInv, Ends, Commanding, Thread, Idle
<1>2. /\ Front = Ops(s) /\ Front' = Ops(Tail(s))
      /\ (Follows(todo["xplayer"])' <=> Follows(Tail(s)))
      /\ (Starts(todo["xplayer"])' <=> Starts(Tail(s)))
      /\ (Starts(todo["xplayer"]) <=> Starts(s))
  BY DEF Front, Follows, Starts, Pauses, Quits, Ops, Elements
<1> HIDE DEF s
<1>3. /\ Ops(s) = {h} \union Ops(Tail(s))
      /\ \A op \in Ops(Tail(s)) : Place(h) < Place(op)
      /\ Follows(Tail(s))
      /\ Starts(s) <=> (h = "status" /\ Head(s).status = "STARTED") \/ Starts(Tail(s))
      /\ Pauses(s) <=> (h = "status" /\ Head(s).status = "PAUSED") \/ Pauses(Tail(s))
  BY <1>1, FirstStep, FirstStarts, FirstInOrder, RestFollows
<1>4. h \notin Ops(Tail(s))
  <2>1. Place(h) \in Nat
    BY DEF Place
  <2> QED BY <1>3, <2>1
<1>5. ~ Pauses(s)
  BY <1>1 DEF Follows
<1>6. /\ h = "status" => /\ Head(s).status # "PAUSED"
                         /\ Head(s).status = "STARTED" => Starts(s)
  BY <1>3, <1>5
<1> QED BY <1>2, <1>3, <1>4, <1>6 DEF Drops, s

\* Nothing is being cancelled or closed while the thread has another step to do.
Unasked ==
    /\ ~ Asked(Closes) /\ ~ Closing
    /\ "CANCEL_SEEK" \notin Ids(mq["demux"]) /\ "CANCEL_PREPARE" \notin Ids(mq["demux"])
    /\ ~ demux.bCancelPrepare /\ ~ demux.bStopping /\ ~ demux.bCancelSeek

\* A thread that does not wait has asked for nothing.
LEMMA FrontFree ==
    ASSUME XPlayerInv, FileInv,
           Idle("xplayer") \/ Head(todo["xplayer"]).op \notin Waits \/ reply # "none"
    PROVE  Unasked
<1>1. ~ Asked(Requests) /\ ~ Closing
  <2>1. CASE reply # "none"
    BY <2>1 DEF XPlayerInv, Turns
  <2>2. CASE Idle("xplayer") \/ Head(todo["xplayer"]).op \notin Waits
    BY <2>2, NotWaiting DEF XPlayerInv, Protocol
  <2> QED BY <2>1, <2>2
<1>2. \A id \in Requests : id \notin Ids(mq["demux"])
  BY <1>1 DEF Asked
<1>3. ~ Asked(Closes) /\ ~ Asked({"CANCEL_SEEK"})
  BY <1>2 DEF Asked, Closes, Requests
<1>4. ~ demux.bStopping /\ ~ demux.bCancelSeek
  BY <1>1, <1>3 DEF XPlayerInv, Flags
<1>5. ~ demux.bCancelPrepare
  BY <1>2 DEF FileInv, Ends, Requests
<1> QED BY <1>1, <1>2, <1>3, <1>4, <1>5 DEF Unasked, Requests

\* The places of the steps of a seek and a stop.
LEMMA SeekPlaces ==
    /\ Place("demuxCancelSeek") = 2 /\ Place("playerStart") = 2
    /\ Place("notSeeking") = 3 /\ Place("demuxStop") = 4
    /\ Place("seek") = 4 /\ Place("seekPlayer") = 5 /\ Place("seekDemux") = 6
    /\ Place("playerStop") = 6 /\ Place("status") = 7
  BY DEF Place, Waits

\* The steps of a seek and of a stop do not come together.
LEMMA SeeksDoNotQuit ==
    ASSUME XPlayerInv, FrontSeeks
    PROVE  /\ ~ Quits(todo["xplayer"])
           /\ FileInv /\ "notSeeking" \in Front => "seek" \in Front /\ "seekDemux" \in Front
<1>1. ~ Quits(todo["xplayer"])
  BY DEF XPlayerInv, Commanding, FrontSeeks, SeekOps, Front, StopOps
<1> QED BY <1>1 DEF FileInv, Ends, Follows, Front

\* What a step that is done leaves of a seek.
LEMMA DropSeek ==
    ASSUME XPlayerInv, FileInv, NEW h, Drops(h), h # "demuxCancelSeek", Unasked,
           SeekOnce(mq'["demux"]), "CANCEL_SEEK" \notin Ids(mq'["demux"]),
           SeekWaits' <=> SeekWaits, Seeks' <=> Seeks,
           ctx'.mSeeking = (h = "seek" \/ (ctx.mSeeking /\ h # "notSeeking"))
    PROVE  OneSeek'
<1>1. OneSeek /\ ctx.mSeeking \in BOOLEAN
  BY DEF XPlayerInv, FileInv, Types, Contexts
<1>2. "CANCEL_SEEK" \notin Ids(mq["demux"])
  BY DEF Unasked
<1>3. h \in Front /\ Front' = Front \ {h} /\ \A op \in Front' : Place(h) < Place(op)
  BY DEF Drops
<1>4. h = "notSeeking" => ~ SeekWaits /\ ~ Seeks
  <2>1. h = "notSeeking" => "demuxCancelSeek" \notin Front
    BY <1>3, SeekPlaces
  <2> QED BY <1>1, <1>2, <1>3, <2>1 DEF OneSeek
<1>5. SeekWaits' \/ Seeks' => ctx'.mSeeking
  BY <1>1, <1>4 DEF OneSeek
<1>6. FrontSeeks' => FrontSeeks
  BY <1>3 DEF FrontSeeks
<1>7. FrontSeeks' /\ "notSeeking" \notin Front' => ~ SeekWaits' /\ ~ Seeks'
  BY <1>1, <1>3, <1>4, <1>6 DEF OneSeek
<1>8. "notSeeking" \in Front' /\ "demuxCancelSeek" \notin Front' => ~ SeekWaits' /\ ~ Seeks'
  BY <1>1, <1>2, <1>3 DEF OneSeek
<1>9. FrontSeeks' /\ "seek" \notin Front' => ctx'.mSeeking
  <2>1. CASE h = "seek"
    BY <2>1
  <2>2. CASE h = "notSeeking"
    <3>1. FrontSeeks' => "seek" \in Front
      BY <1>3, <1>6, <2>2, SeeksDoNotQuit
    <3> QED BY <1>3, <2>2, <3>1
  <2>3. CASE h \notin {"seek", "notSeeking"}
    BY <1>1, <1>3, <1>6, <2>3 DEF OneSeek
  <2> QED BY <2>1, <2>2, <2>3
<1>10. SeekWaits' => ~ Seeks'
  BY <1>1 DEF OneSeek
<1> QED BY <1>5, <1>7, <1>8, <1>9, <1>10 DEF OneSeek

\* What it leaves of the player.
LEMMA DropPlaying ==
    ASSUME XPlayerInv, FileInv, NEW h, Drops(h),
           ctx'.mSeeking = (h = "seek" \/ (ctx.mSeeking /\ h # "notSeeking")),
           ctx'.mStatus = IF h = "pause" THEN "PAUSED"
                          ELSE IF h = "status" THEN Head(todo["xplayer"]).status
                          ELSE ctx.mStatus,
           h = "playerStart" => Plays',
           h \in {"playerStop", "seekPlayer"} => ~ Plays',
           h = "pause" => (Plays' <=> Plays /\ ctx.mSeeking),
           h \notin {"playerStart", "playerStop", "seekPlayer", "pause"} => (Plays' <=> Plays)
    PROVE  Playing'
<1>1. Playing /\ OneSeek /\ ctx.mSeeking \in BOOLEAN /\ Follows(todo["xplayer"])
  BY DEF XPlayerInv, FileInv, Types, Contexts, Ends
<1>2. /\ h \in Front /\ Front' = Front \ {h} /\ \A op \in Front' : Place(h) < Place(op)
      /\ Starts(todo["xplayer"])' => Starts(todo["xplayer"])
      /\ Starts(todo["xplayer"]) => h = "status" \/ Starts(todo["xplayer"])'
      /\ h = "status" => /\ Head(todo["xplayer"]).status # "PAUSED"
                         /\ Head(todo["xplayer"]).status = "STARTED" => Starts(todo["xplayer"])
  BY DEF Drops
<1> DEFINE starts == Starts(todo["xplayer"])
<1>3. /\ ctx.mSeeking /\ Plays => "seekPlayer" \in Front
      /\ "playerStart" \in Front => ~ ctx.mSeeking
      /\ ctx.mStatus = "PAUSED" /\ Plays => "status" \in Front
      /\ starts => "playerStart" \in Front \/ Plays
      /\ ctx.mStatus = "STARTED" /\ ~ ctx.mSeeking /\ ~ Plays =>
           "seek" \in Front \/ "status" \in Front
  BY <1>1 DEF Playing
<1>4. /\ "notSeeking" \in Front => "seek" \in Front \/ "status" \in Front
      /\ "playerStop" \in Front => "status" \in Front /\ ~ starts
      /\ "playerStart" \in Front => "status" \in Front
      /\ "seek" \in Front => "seekPlayer" \in Front
      /\ "pause" \in Front => Front \subseteq {"pause", "answer"}
      /\ starts => Front \subseteq StartOps /\ "status" \in Front
  <2>1. (Quits(todo["xplayer"]) \/ Starts(todo["xplayer"])) => "status" \in Front
    BY NoStatus DEF Front
  <2>2. "playerStop" \in Front /\ starts => FALSE
    BY <1>1 DEF Follows, Front, StartOps
  <2> QED BY <1>1, <2>1, <2>2 DEF Follows, Front
<1>5. starts' => h # "pause"
  BY <1>2, <1>4
<1> HIDE DEF starts
<1>6. ctx'.mSeeking /\ Plays' => "seekPlayer" \in Front'
  BY <1>1, <1>2, <1>3, <1>4
<1>7. "playerStart" \in Front' => ~ ctx'.mSeeking
  <2>1. h = "seek" => "playerStart" \notin Front'
    BY <1>2, SeekPlaces
  <2> QED BY <1>2, <1>3, <2>1
<1>8. ctx'.mStatus = "PAUSED" /\ Plays' => "status" \in Front'
  BY <1>2, <1>3, <1>4
<1>9. Starts(todo["xplayer"])' => "playerStart" \in Front' \/ Plays'
  BY <1>2, <1>3, <1>4, <1>5 DEF starts, StartOps
<1>10. ctx'.mStatus = "STARTED" /\ ~ ctx'.mSeeking /\ ~ Plays' =>
           "seek" \in Front' \/ "status" \in Front'
  <2>1. CASE h = "status"
    <3>1. ctx'.mStatus = "STARTED" => starts /\ "playerStart" \notin Front
      BY <1>2, <2>1, SeekPlaces DEF starts
    <3> QED BY <1>3, <2>1, <3>1
  <2>2. CASE h = "notSeeking"
    BY <1>2, <1>4, <2>2
  <2>3. CASE h = "playerStop"
    BY <1>2, <1>4, <2>3
  <2>4. CASE h = "seekPlayer"
    <3>1. FrontSeeks /\ "seek" \notin Front
      BY <1>2, <2>4, SeekPlaces DEF FrontSeeks, SeekOps
    <3> QED BY <1>1, <2>4, <3>1 DEF OneSeek
  <2>5. CASE h \notin {"status", "notSeeking", "playerStop", "seekPlayer"}
    BY <1>1, <1>2, <1>3, <2>5
  <2> QED BY <2>1, <2>2, <2>3, <2>4, <2>5
<1> QED BY <1>6, <1>7, <1>8, <1>9, <1>10 DEF Playing

-----------------------------------------------------------------------------
(* The steps of the xplayer thread that leave the component.                 *)

ComponentSame ==
    /\ demux' = demux /\ cache' = cache
    /\ mq'["demux"] = mq["demux"] /\ todo'["demux"] = todo["demux"]

NoNetCommand ==
    \A id \in Ids(mq'["xplayer"]) : id \in Ids(mq["xplayer"]) \/ id # "SET_NET_SOURCE"

\* The component stays a player of files while nothing goes to it.
LEMMA SameFile ==
    ASSUME FileInv, ComponentSame, NoNetCommand
    PROVE  /\ OfFile' /\ (SeekWaits' <=> SeekWaits) /\ (Seeks' <=> Seeks)
           /\ SeekOnce(mq'["demux"]) /\ (Continues' <=> Continues)
  BY DEF FileInv, OfFile, OneSeek, ComponentSame, NoNetCommand, SeekWaits, Seeks, Continues

\* What is being read is read on, while a seek or a stop is about to come.
LEMMA SameReading ==
    ASSUME FileInv, ComponentSame, Unasked,
           \A op \in {"seekDemux", "demuxStop"} : op \in Front => op \in Front'
    PROVE  Reading'
<1>1. Ending => Ending'
  BY DEF Ending, Unasked
<1>2. Reading
  BY DEF FileInv
<1> QED BY <1>1, <1>2 DEF Reading, ComponentSame, SeekWaits, Continues

\* The rest of a command ends what it has begun.
LEMMA SameEnds ==
    ASSUME ComponentSame, Unasked, Follows(todo["xplayer"])'
    PROVE  Ends'
  BY DEF Ends, ComponentSame, Unasked

\* A step that is done, and changes the status and the player at most.
LEMMA DropFile ==
    ASSUME XPlayerInv, FileInv, ~ Idle("xplayer"), NEW h, Head(todo["xplayer"]).op = h,
           h \notin Waits \/ reply # "none",
           h \notin {"demuxCancelSeek", "seekDemux", "demuxStop"},
           todo'["xplayer"] = Tail(todo["xplayer"]), ComponentSame, NoNetCommand,
           ctx'.mSeeking = (h = "seek" \/ (ctx.mSeeking /\ h # "notSeeking")),
           ctx'.mStatus = IF h = "pause" THEN "PAUSED"
                          ELSE IF h = "status" THEN Head(todo["xplayer"]).status
                          ELSE ctx.mStatus,
           h = "playerStart" => Plays',
           h \in {"playerStop", "seekPlayer"} => ~ Plays',
           h = "pause" => (Plays' <=> Plays /\ ctx.mSeeking),
           h \notin {"playerStart", "playerStop", "seekPlayer", "pause"} => (Plays' <=> Plays)
    PROVE  FileInv'
<1>1. Drops(h) /\ Unasked
  BY DoneDrops, FrontFree
<1>2. OfFile' /\ (SeekWaits' <=> SeekWaits) /\ (Seeks' <=> Seeks) /\ SeekOnce(mq'["demux"])
  BY SameFile
<1>3. Ends'
  BY <1>1, SameEnds DEF Drops
<1>4. OneSeek'
  <2>1. "CANCEL_SEEK" \notin Ids(mq'["demux"])
    BY <1>1 DEF Unasked, ComponentSame
  <2> QED BY <1>1, <1>2, <2>1, DropSeek
<1>5. Playing'
  BY <1>1, DropPlaying
<1>6. Reading'
  <2>1. \A op \in {"seekDemux", "demuxStop"} : op \in Front => op \in Front'
    BY <1>1 DEF Drops
  <2> QED BY <1>1, <2>1, SameReading
<1> QED BY <1>2, <1>3, <1>4, <1>5, <1>6 DEF FileInv

\* The steps of a command that leave the component.
OwnSteps ==
    \/ AnswerCall \/ AwaitDemux \/ Unlock \/ CallPlayer \/ ChangeStatus \/ NotSeeking
    \/ SeekPausesPlayer \/ PauseLocked \/ SeekLocked \/ SeekTimeLocked

\* They keep the invariant, one by one.
LEMMA OwnStepsFile ==
    ASSUME XPlayerInv, FileInv, OwnSteps
    PROVE  FileInv'
<1>1. /\ Types /\ ctx \in Contexts /\ player \in Players
  BY DEF XPlayerInv, Types
<1> DEFINE h == Head(todo["xplayer"]).op
<1>2. /\ ~ Idle("xplayer") /\ Proceed("xplayer", << >>) /\ mq' = mq
      /\ demux' = demux /\ cache' = cache
  BY DEF OwnSteps, AnswerCall, AwaitDemux, Unlock, CallPlayer, ChangeStatus, NotSeeking,
         SeekPausesPlayer, PauseLocked, SeekLocked, SeekTimeLocked, At, xplayerVars
<1>3. todo'["xplayer"] = Tail(todo["xplayer"]) /\ ComponentSame /\ NoNetCommand
  BY <1>1, <1>2, StepDone DEF ComponentSame, NoNetCommand
<1>4. CASE AnswerCall
  <2>1. h = "answer" /\ ctx' = ctx /\ player' = player
    BY <1>4 DEF AnswerCall, At
  <2> QED BY <1>1, <1>2, <1>3, <2>1, DropFile DEF Waits, Contexts, Plays
<1>5. CASE AwaitDemux
  <2>1. h = "await" /\ reply # "none" /\ ctx' = ctx /\ player' = player
    BY <1>5 DEF AwaitDemux, At, xplayerVars
  <2> QED BY <1>1, <1>2, <1>3, <2>1, DropFile DEF Contexts, Plays
<1>6. CASE Unlock
  <2>1. h = "unlock" /\ ctx' = ctx /\ player' = player
    BY <1>6 DEF Unlock, At
  <2> QED BY <1>1, <1>2, <1>3, <2>1, DropFile DEF Waits, Contexts, Plays
<1>7. CASE CallPlayer
  <2>1. CASE At("xplayer", "playerStart") /\ player' = PlayerStart(player)
    <3>1. h = "playerStart" /\ ctx' = ctx /\ Plays'
      BY <1>1, <1>7, <2>1 DEF CallPlayer, At, Plays, PlayerStart, Players
    <3> QED BY <1>1, <1>2, <1>3, <3>1, DropFile DEF Waits, Contexts
  <2>2. CASE At("xplayer", "playerStop") /\ player' = PlayerStopped
    <3>1. h = "playerStop" /\ ctx' = ctx /\ ~ Plays'
      BY <1>1, <1>7, <2>2 DEF CallPlayer, At, Plays, PlayerStopped
    <3> QED BY <1>1, <1>2, <1>3, <3>1, DropFile DEF Waits, Contexts
  <2> QED BY <1>7, <2>1, <2>2 DEF CallPlayer
<1>8. CASE ChangeStatus
  <2>1. h = "status" /\ player' = player
    BY <1>8 DEF ChangeStatus, At
  <2>2. ctx'.mStatus = Head(todo["xplayer"]).status /\ ctx'.mSeeking = ctx.mSeeking
    BY <1>1, <1>8 DEF ChangeStatus, Contexts
  <2> QED BY <1>1, <1>2, <1>3, <2>1, <2>2, DropFile DEF Waits, Contexts, Plays
<1>9. CASE NotSeeking
  <2>1. h = "notSeeking" /\ player' = player
    BY <1>9 DEF NotSeeking, At
  <2>2. ctx'.mStatus = ctx.mStatus /\ ctx'.mSeeking = FALSE
    BY <1>1, <1>9 DEF NotSeeking, Contexts
  <2> QED BY <1>1, <1>2, <1>3, <2>1, <2>2, DropFile DEF Waits, Plays
<1>10. CASE SeekPausesPlayer
  <2>1. h = "seekPlayer" /\ ctx' = ctx
    BY <1>10 DEF SeekPausesPlayer, At
  <2>2. ~ Plays'
    BY <1>1, <1>10 DEF SeekPausesPlayer, Plays, PlayerPause, PlayerStart, Players
  <2> QED BY <1>1, <1>2, <1>3, <2>1, <2>2, DropFile DEF Waits, Contexts
<1>11. CASE PauseLocked
  <2>1. h = "pause"
    BY <1>11 DEF PauseLocked, At
  <2>2. ctx'.mStatus = "PAUSED" /\ ctx'.mSeeking = ctx.mSeeking
    BY <1>1, <1>11 DEF PauseLocked, Contexts
  <2>3. Plays' <=> Plays /\ ctx.mSeeking
    BY <1>1, <1>11 DEF PauseLocked, Plays, PlayerPause, Players
  <2> QED BY <1>1, <1>2, <1>3, <2>1, <2>2, <2>3, DropFile DEF Waits, Contexts
<1>12. CASE SeekLocked
  <2>1. h = "seek" /\ player' = player
    BY <1>12 DEF SeekLocked, At
  <2>2. ctx'.mStatus = ctx.mStatus /\ ctx'.mSeeking = TRUE
    BY <1>1, <1>12 DEF SeekLocked, Contexts
  <2> QED BY <1>1, <1>2, <1>3, <2>1, <2>2, DropFile DEF Waits, Plays
<1>13. CASE SeekTimeLocked
  <2>1. h = "seekTime" /\ player' = player
    BY <1>13 DEF SeekTimeLocked, At
  <2>2. ctx'.mStatus = ctx.mStatus /\ ctx'.mSeeking = ctx.mSeeking
    BY <1>1, <1>13 DEF SeekTimeLocked, Contexts
  <2> QED BY <1>1, <1>2, <1>3, <2>1, <2>2, DropFile DEF Waits, Contexts, Plays
<1> QED BY <1>4, <1>5, <1>6, <1>7, <1>8, <1>9, <1>10, <1>11, <1>12, <1>13 DEF OwnSteps

\* A list of the thread that goes to neither the component nor the player.
LEMMA PlainFile ==
    ASSUME XPlayerInv, FileInv, ComponentSame, NoNetCommand, Unasked,
           Follows(todo["xplayer"])', ~ FrontSeeks',
           "notSeeking" \notin Front', "seekDemux" \notin Front, "demuxStop" \notin Front,
           ctx'.mSeeking = ctx.mSeeking, Playing'
    PROVE  FileInv'
<1>1. OfFile' /\ (SeekWaits' <=> SeekWaits) /\ (Seeks' <=> Seeks) /\ SeekOnce(mq'["demux"])
  BY SameFile
<1>2. Ends'
  BY SameEnds
<1>3. OneSeek'
  BY <1>1 DEF FileInv, OneSeek
<1>4. Reading'
  BY SameReading
<1> QED BY <1>1, <1>2, <1>3, <1>4 DEF FileInv

\* The source is set: the answer is the rest of the command.
LEMMA SourceSetFile ==
    ASSUME XPlayerInv, FileInv, SourceSet
    PROVE  FileInv'
<1>1. /\ Types /\ ctx \in Contexts /\ todo["xplayer"] = << Step("sourceSet") >>
  <2>1. ~ Idle("xplayer") /\ Head(todo["xplayer"]).op = "sourceSet"
    BY DEF SourceSet, At
  <2>2. "sourceSet" \in Ops(todo["xplayer"])
    BY <2>1, ListTypes, FirstStep DEF XPlayerInv, Thread, Idle
  <2> QED BY <2>2 DEF XPlayerInv, Types, Commanding
<1> DEFINE a == [op |-> "answer", ok |-> reply = "ok"]
<1>2. a \in Steps /\ a.op = "answer"
  BY DEF Steps
<1>3. /\ ~ Idle("xplayer") /\ Proceed("xplayer", << a >>) /\ reply # "none" /\ mq' = mq
      /\ demux' = demux /\ cache' = cache /\ player' = player
      /\ ctx' = [ctx EXCEPT !.mStatus = IF reply = "ok" THEN "INITIALIZED" ELSE "IDLE"]
  BY DEF SourceSet, At
<1> HIDE DEF a
<1>4. << a >> \in Seq(Steps) /\ Ops(<< a >>) = {"answer"}
  BY <1>2, FewOps, Zenon
<1>5. /\ todo'["xplayer"] = << a >> \o Tail(todo["xplayer"]) /\ todo'["demux"] = todo["demux"]
  BY <1>1, <1>3, <1>4, Proceeded DEF Thread
<1>6. todo'["xplayer"] = << a >>
  BY <1>1, <1>5
<1>7. Follows(<< a >>) /\ ~ Starts(<< a >>)
  BY <1>4, PlainFollows
<1>8. Front' = {"answer"} /\ Follows(todo["xplayer"])' /\ ~ Starts(todo["xplayer"])'
  BY <1>4, <1>6, <1>7 DEF Front, Follows, Starts, Pauses, Quits, Ops, Elements
<1>9. Step("sourceSet") \in Steps /\ Step("sourceSet").op = "sourceSet"
  BY PlainSteps DEF PlainOps, Step
<1>10. Front = {"sourceSet"}
  <2> DEFINE b == Step("sourceSet")
  <2> HIDE DEF b
  <2>1. b \in Steps /\ b.op = "sourceSet" /\ todo["xplayer"] = << b >>
    BY <1>1, <1>9 DEF b
  <2>2. Ops(<< b >>) = {b.op}
    BY <2>1, FewOps, Zenon
  <2> QED BY <2>1, <2>2 DEF Front
<1>11. ctx'.mSeeking = ctx.mSeeking /\ ctx'.mStatus \notin {"STARTED", "PAUSED"}
  BY <1>1, <1>3 DEF Contexts
<1>12. Playing'
  BY <1>3, <1>8, <1>10, <1>11 DEF FileInv, Playing, Plays
<1>13. Unasked
  BY <1>3, FrontFree
<1>14. ComponentSame /\ NoNetCommand
  BY <1>3, <1>5 DEF ComponentSame, NoNetCommand
<1> QED BY <1>8, <1>10, <1>11, <1>12, <1>13, <1>14, PlainFile DEF FrontSeeks, SeekOps

-----------------------------------------------------------------------------
(* The calls of the component.                                               *)

Calls == {"demuxStart", "demuxStop", "demuxClear", "demuxCancelSeek", "demuxCancelPrepare"}

\* The call is made and the thread waits.
LEMMA AwaitFollows ==
    ASSUME NEW s \in Seq(Steps), s # << >>, InOrder(s), Follows(s), Head(s).op \in Calls
    PROVE  LET next == << Step("await") >> \o Tail(s)
           IN  /\ Follows(next) /\ (Starts(next) <=> Starts(s))
               /\ Ops(next) = {"await"} \union (Ops(s) \ {Head(s).op})
<1> DEFINE a == Step("await")
           next == << a >> \o Tail(s)
<1>1. a \in Steps /\ a.op = "await"
  BY PlainSteps DEF PlainOps, Step
<1> HIDE DEF a
<1>2. << a >> \in Seq(Steps) /\ Ops(<< a >>) = {"await"}
  BY <1>1, FewOps, Zenon
<1>3. ~ Starts(<< a >>) /\ ~ Pauses(<< a >>) /\ ~ Quits(<< a >>)
  BY <1>2, NoStatus
<1>4. Tail(s) \in Seq(Steps)
  BY FirstStep
<1>5. /\ Ops(next) = {"await"} \union Ops(Tail(s))
      /\ Quits(next) <=> Quits(Tail(s))
      /\ Starts(next) <=> Starts(Tail(s))
      /\ Pauses(next) <=> Pauses(Tail(s))
  BY <1>2, <1>3, <1>4, JoinedSteps, JoinedStarts
<1>6. /\ Ops(s) = {Head(s).op} \union Ops(Tail(s))
      /\ Starts(s) <=> Starts(Tail(s))
      /\ Head(s).op # "status"
  BY FirstStep, FirstStarts DEF Calls
<1>7. Head(s).op \notin Ops(Tail(s))
  <2>1. \A op \in Ops(Tail(s)) : Place(Head(s).op) < Place(op)
    BY FirstInOrder
  <2>2. Place(Head(s).op) \in Nat
    BY DEF Place
  <2> QED BY <2>1, <2>2
<1>8. Follows(Tail(s))
  BY RestFollows
<1>9. "pause" \notin Ops(Tail(s))
  BY <1>6 DEF Follows, Calls
<1>10. Follows(next)
  BY <1>5, <1>8, <1>9 DEF Follows, StartOps
<1> QED BY <1>5, <1>6, <1>7, <1>10 DEF a

\* A call posts its request and goes on to wait for the answer.
LEMMA AskedFile ==
    ASSUME XPlayerInv, FileInv, ~ Idle("xplayer"), NEW m \in Messages,
           << Head(todo["xplayer"]).op, m.id >> \in
             {<< "demuxStart", "START" >>, << "demuxStop", "STOP" >>,
              << "demuxClear", "CLEAR" >>, << "demuxCancelSeek", "CANCEL_SEEK" >>,
              << "demuxCancelPrepare", "CANCEL_PREPARE" >>},
           Proceed("xplayer", << Step("await") >>), Post("demux", m),
           cache' = cache, ctx' = ctx, player' = player,
           demux'.net = demux.net, demux'.bSeeking = demux.bSeeking,
           demux'.pParser = demux.pParser,
           demux'.bCancelPrepare => demux.bCancelPrepare \/ m.id = "CANCEL_PREPARE",
           demux'.bForceStop => demux.bForceStop \/ m.id \in {"STOP", "CANCEL_SEEK",
                                                              "CANCEL_PREPARE"}
    PROVE  FileInv'
<1> DEFINE h == Head(todo["xplayer"]).op
<1>1. /\ Types /\ todo["xplayer"] \in Seq(Steps) /\ todo["xplayer"] # << >>
      /\ InOrder(todo["xplayer"]) /\ Follows(todo["xplayer"]) /\ OneSeek /\ Playing /\ Reading
      /\ mq["demux"] \in Seq(Messages)
  BY ListTypes DEF XPlayerInv, FileInv, Ends, Commanding, Thread, Idle
<1>2. /\ h \in Calls /\ h \notin Waits /\ (m.id = "CANCEL_SEEK" <=> h = "demuxCancelSeek")
      /\ (m.id = "CANCEL_PREPARE" <=> h = "demuxCancelPrepare")
      /\ (m.id = "STOP" <=> h = "demuxStop")
      /\ m.id \notin {"SEEK", "SET_NET_SOURCE"}
  BY DEF Calls, Waits
<1>3. Unasked
  BY <1>2, FrontFree
<1>4. Step("await") \in Steps /\ << Step("await") >> \in Seq(Steps)
  BY PlainSteps DEF PlainOps
<1>5. /\ todo'["xplayer"] = << Step("await") >> \o Tail(todo["xplayer"])
      /\ todo'["demux"] = todo["demux"]
  BY <1>1, <1>4, Proceeded DEF Thread
<1>6. /\ mq'["demux"] = Append(mq["demux"], m) /\ mq'["xplayer"] = mq["xplayer"]
      /\ Ids(mq'["demux"]) = Ids(mq["demux"]) \union {m.id}
  BY <1>1, Posted DEF Thread
<1>7. /\ Front' = {"await"} \union (Front \ {h})
      /\ Follows(todo["xplayer"])'
      /\ Starts(todo["xplayer"])' <=> Starts(todo["xplayer"])
  <2> DEFINE next == << Step("await") >> \o Tail(todo["xplayer"])
  <2>1. /\ Follows(next) /\ (Starts(next) <=> Starts(todo["xplayer"]))
        /\ Ops(next) = {"await"} \union (Front \ {h})
    BY <1>1, <1>2, AwaitFollows DEF Front
  <2>2. todo'["xplayer"] = next
    BY <1>5
  <2> HIDE DEF next
  <2>3. /\ Front' = Ops(next) /\ (Follows(todo["xplayer"])' <=> Follows(next))
        /\ (Starts(todo["xplayer"])' <=> Starts(next))
    BY <2>2 DEF Front, Follows, Starts, Pauses, Quits, Ops, Elements
  <2> QED BY <2>1, <2>3
<1>8. h \in Front
  BY <1>1, FirstStep DEF Front
<1> HIDE DEF h
<1>9. (SeekWaits' <=> SeekWaits) /\ (Seeks' <=> Seeks) /\ SeekOnce(mq'["demux"])
  <2>1. SeekOnce(Append(mq["demux"], m))
    BY <1>1, <1>2, SeekAppended DEF OneSeek
  <2> QED BY <1>2, <1>5, <1>6, <2>1 DEF SeekWaits, Seeks
<1>10. OfFile'
  BY <1>2, <1>5, <1>6 DEF FileInv, OfFile
<1>11. Ends'
  <2>1. "CANCEL_SEEK" \in Ids(mq'["demux"]) => "notSeeking" \in Front'
    <3>1. h = "demuxCancelSeek" => "notSeeking" \in Front
      BY <1>1, <1>8 DEF Follows, Front
    <3> QED BY <1>2, <1>3, <1>6, <1>7, <3>1 DEF Unasked
  <2>2. "CANCEL_PREPARE" \in Ids(mq'["demux"]) => "demuxStop" \in Front'
    <3>1. h = "demuxCancelPrepare" => "demuxStop" \in Front
      BY <1>1, <1>8 DEF Follows, Front
    <3> QED BY <1>2, <1>3, <1>6, <1>7, <3>1 DEF Unasked
  <2>3. demux'.bCancelPrepare => "CANCEL_PREPARE" \in Ids(mq'["demux"])
    BY <1>3, <1>6 DEF Unasked
  <2> QED BY <1>7, <2>1, <2>2, <2>3 DEF Ends
<1>12. OneSeek'
  <2>1. FrontSeeks' <=> FrontSeeks
    BY <1>2, <1>7 DEF FrontSeeks, SeekOps, Calls
  <2>2. /\ "notSeeking" \in Front' <=> "notSeeking" \in Front
        /\ "seek" \in Front' <=> "seek" \in Front
    BY <1>2, <1>7 DEF Calls
  <2>3. /\ "notSeeking" \in Front' /\ "demuxCancelSeek" \notin Front'
           /\ "CANCEL_SEEK" \notin Ids(mq'["demux"])
        => ~ SeekWaits' /\ ~ Seeks'
    BY <1>1, <1>2, <1>6, <1>7, <1>9, <2>2 DEF OneSeek
  <2> QED BY <1>1, <1>9, <2>1, <2>2, <2>3 DEF OneSeek
<1>13. Playing'
  <2>1. \A op \in {"seekPlayer", "playerStart", "status", "seek"} :
          op \in Front' <=> op \in Front
    BY <1>2, <1>7 DEF Calls
  <2> QED BY <1>1, <1>7, <2>1 DEF Playing, Plays
<1>14. Reading'
  <2>1. mq'["demux"] # << >>
    <3>1. m.id \in Ids(mq'["demux"])
      BY <1>6
    <3> QED BY <3>1, OnlyRead
  <2>2. Ending => Ending'
    <3>1. Ending => "seekDemux" \in Front \/ "demuxStop" \in Front
      BY <1>3 DEF Ending, Unasked
    <3>2. "seekDemux" \in Front => "seekDemux" \in Front'
      BY <1>2, <1>7 DEF Calls
    <3>3. "demuxStop" \in Front /\ h # "demuxStop" => "demuxStop" \in Front'
      BY <1>7
    <3>4. h = "demuxStop" => Asked(Closes)'
      BY <1>2, <1>6 DEF Asked, Closes
    <3> QED BY <3>1, <3>2, <3>3, <3>4 DEF Ending
  <2>3. m.id \in {"STOP", "CANCEL_SEEK", "CANCEL_PREPARE"} => Ending'
    <3>1. m.id = "STOP" => Asked(Closes)'
      BY <1>6 DEF Asked, Closes
    <3>2. m.id \in {"CANCEL_SEEK", "CANCEL_PREPARE"} =>
            "seekDemux" \in Front' \/ "demuxStop" \in Front'
      BY <1>6, <1>11 DEF Ends, Follows, Front
    <3> QED BY <3>1, <3>2 DEF Ending
  <2>4. demux'.bSeeking => SeekWaits' \/ "parserSeek" \in Ops(todo'["demux"])
                                      \/ "seekDone" \in Ops(todo'["demux"])
    BY <1>1, <1>5, <1>9 DEF Reading
  <2>5. demux'.pParser /\ demux'.bForceStop => SeekWaits' \/ Ending'
    BY <1>1, <1>9, <2>2, <2>3 DEF Reading
  <2> QED BY <2>1, <2>4, <2>5 DEF Reading
<1> QED BY <1>10, <1>11, <1>12, <1>13, <1>14 DEF FileInv

\* Each call of the component is such a request.
LEMMA CallsFile ==
    ASSUME XPlayerInv, FileInv, DemuxComponent, UNCHANGED xplayerVars
    PROVE  FileInv'
<1>1. /\ Types /\ demux \in Demuxes /\ ctx' = ctx /\ player' = player /\ ctx \in Contexts
      /\ ~ Idle("xplayer") /\ cache' = cache
  BY DEF XPlayerInv, Types, xplayerVars, DemuxComponent, DemuxCompStart, DemuxCompStop,
         DemuxCompClear, DemuxCompCancelSeek, DemuxCompCancelPrepare, At
<1>2. \A id \in MessageIds : Message(id) \in Messages /\ Message(id).id = id
  BY FrontMessages DEF Message
<1>3. CASE DemuxCompStart
  <2>1. Head(todo["xplayer"]).op = "demuxStart" /\ demux' = demux
    BY <1>3 DEF DemuxCompStart, At
  <2>2. CASE Proceed("xplayer", << >>) /\ UNCHANGED mq
    <3>1. todo'["xplayer"] = Tail(todo["xplayer"]) /\ ComponentSame /\ NoNetCommand
      BY <1>1, <2>1, <2>2, StepDone DEF ComponentSame, NoNetCommand
    <3> QED BY <1>1, <2>1, <3>1, DropFile DEF Waits, Contexts, Plays
  <2>3. CASE Proceed("xplayer", << Step("await") >>) /\ Post("demux", Message("START"))
    <3>1. Message("START") \in Messages /\ Message("START").id = "START"
      BY <1>2 DEF MessageIds
    <3> HIDE DEF Message
    <3> QED BY <1>1, <2>1, <2>3, <3>1, AskedFile
  <2> QED BY <1>3, <2>2, <2>3 DEF DemuxCompStart
<1>4. CASE DemuxCompStop
  <2>1. Message("STOP") \in Messages /\ Message("STOP").id = "STOP"
    BY <1>2 DEF MessageIds
  <2>2. /\ demux'.net = demux.net /\ demux'.bSeeking = demux.bSeeking
        /\ demux'.pParser = demux.pParser /\ demux'.bCancelPrepare = demux.bCancelPrepare
    BY <1>1, <1>4 DEF DemuxCompStop, Demuxes
  <2>3. /\ Head(todo["xplayer"]).op = "demuxStop" /\ Proceed("xplayer", << Step("await") >>)
        /\ Post("demux", Message("STOP"))
    BY <1>4 DEF DemuxCompStop, At
  <2> QED BY <1>1, <2>1, <2>2, <2>3, AskedFile
<1>5. CASE DemuxCompClear
  <2>1. Message("CLEAR") \in Messages /\ Message("CLEAR").id = "CLEAR"
    BY <1>2 DEF MessageIds
  <2>2. /\ demux'.net = demux.net /\ demux'.bSeeking = demux.bSeeking
        /\ demux'.pParser = demux.pParser /\ demux'.bCancelPrepare = demux.bCancelPrepare
        /\ demux'.bForceStop = demux.bForceStop
    BY <1>1, <1>5 DEF DemuxCompClear, Demuxes
  <2>3. /\ Head(todo["xplayer"]).op = "demuxClear" /\ Proceed("xplayer", << Step("await") >>)
        /\ Post("demux", Message("CLEAR"))
    BY <1>5 DEF DemuxCompClear, At
  <2> QED BY <1>1, <2>1, <2>2, <2>3, AskedFile
<1>6. CASE DemuxCompCancelSeek
  <2>1. Message("CANCEL_SEEK") \in Messages /\ Message("CANCEL_SEEK").id = "CANCEL_SEEK"
    BY <1>2 DEF MessageIds
  <2>2. /\ demux'.net = demux.net /\ demux'.bSeeking = demux.bSeeking
        /\ demux'.pParser = demux.pParser /\ demux'.bCancelPrepare = demux.bCancelPrepare
    BY <1>1, <1>6 DEF DemuxCompCancelSeek, Demuxes
  <2>3. /\ Head(todo["xplayer"]).op = "demuxCancelSeek"
        /\ Proceed("xplayer", << Step("await") >>)
        /\ Post("demux", Message("CANCEL_SEEK"))
    BY <1>6 DEF DemuxCompCancelSeek, At
  <2> QED BY <1>1, <2>1, <2>2, <2>3, AskedFile
<1>7. CASE DemuxCompCancelPrepare
  <2>1. /\ Message("CANCEL_PREPARE") \in Messages
        /\ Message("CANCEL_PREPARE").id = "CANCEL_PREPARE"
    BY <1>2 DEF MessageIds
  <2>2. /\ demux'.net = demux.net /\ demux'.bSeeking = demux.bSeeking
        /\ demux'.pParser = demux.pParser
    BY <1>1, <1>7 DEF DemuxCompCancelPrepare, Demuxes
  <2>3. /\ Head(todo["xplayer"]).op = "demuxCancelPrepare"
        /\ Proceed("xplayer", << Step("await") >>)
        /\ Post("demux", Message("CANCEL_PREPARE"))
    BY <1>7 DEF DemuxCompCancelPrepare, At
  <2> QED BY <1>1, <2>1, <2>2, <2>3, AskedFile
<1> QED BY <1>3, <1>4, <1>5, <1>6, <1>7 DEF DemuxComponent

\* The seek goes to the demux thread, where no other waits.
LEMMA SoughtByFront ==
    ASSUME XPlayerInv, FileInv, ~ SeekWaits, ~ Seeks,
           NEW m \in Messages, m.id = "SEEK", Post("demux", m), demux' = SeekToSet,
           cache' = cache, todo'["demux"] = todo["demux"], Unasked,
           Follows(todo["xplayer"])', ctx'.mSeeking, ~ FrontSeeks', "notSeeking" \notin Front',
           Playing'
    PROVE  FileInv'
<1>1. Types /\ mq["demux"] \in Seq(Messages) /\ OneSeek /\ demux \in Demuxes
  BY ListTypes DEF XPlayerInv, FileInv, Thread, Types
<1>2. /\ mq'["demux"] = Append(mq["demux"], m) /\ mq'["xplayer"] = mq["xplayer"]
      /\ Ids(mq'["demux"]) = Ids(mq["demux"]) \union {"SEEK"}
  BY <1>1, Posted DEF Thread
<1>3. demux'.net = demux.net /\ demux'.bCancelPrepare = demux.bCancelPrepare
  BY <1>1 DEF SeekToSet, Demuxes
<1>4. SeekOnce(mq'["demux"]) /\ SeekWaits' /\ ~ Seeks'
  <2>1. SeekOnce(Append(mq["demux"], m))
    BY <1>1, SeekAppended DEF OneSeek, SeekWaits
  <2> QED BY <1>2, <2>1 DEF SeekWaits, Seeks
<1>5. OfFile'
  BY <1>2, <1>3 DEF FileInv, OfFile
<1>6. Ends'
  BY <1>2, <1>3 DEF Ends, Unasked
<1>7. OneSeek'
  BY <1>4 DEF OneSeek
<1>8. Reading'
  <2>1. mq'["demux"] # << >>
    BY <1>2, OnlyRead
  <2> QED BY <1>4, <2>1 DEF Reading
<1> QED BY <1>5, <1>6, <1>7, <1>8 DEF FileInv

\* A seek reaches the demux thread as the last step of its command.
LEMMA SeekCallsFile ==
    ASSUME XPlayerInv, FileInv, SeekCallsDemux
    PROVE  FileInv'
<1>1. /\ Types /\ ~ Idle("xplayer") /\ Head(todo["xplayer"]).op = "seekDemux"
      /\ ctx' = ctx /\ player' = player /\ cache' = cache /\ demux' = SeekToSet
      /\ Proceed("xplayer", << >>) /\ OneSeek /\ ctx \in Contexts
  BY DEF XPlayerInv, FileInv, SeekCallsDemux, At, xplayerVars, Types
<1>2. todo'["xplayer"] = Tail(todo["xplayer"]) /\ todo'["demux"] = todo["demux"]
  BY <1>1, StepDone
<1>3. Drops("seekDemux") /\ Unasked
  BY <1>1, <1>2, DoneDrops, FrontFree DEF Waits
<1>4. Playing'
  BY <1>1, <1>3, DropPlaying DEF Contexts, Plays
<1>5. FrontSeeks /\ \A op \in {"seek", "seekPlayer", "notSeeking"} : op \notin Front
  BY <1>3, SeekPlaces DEF Drops, FrontSeeks, SeekOps
<1>6. ~ SeekWaits /\ ~ Seeks /\ ctx.mSeeking
  BY <1>1, <1>5 DEF OneSeek
<1>7. ~ FrontSeeks' /\ "notSeeking" \notin Front'
  BY <1>3, <1>5 DEF Drops, FrontSeeks, SeekOps
<1> DEFINE m == [Message("SEEK") EXCEPT !.time = ctx.mSeekTime]
<1>8. m \in Messages /\ m.id = "SEEK" /\ Post("demux", m)
  BY <1>1, SeekMessage DEF SeekCallsDemux
<1> HIDE DEF m
<1> QED BY <1>1, <1>2, <1>3, <1>4, <1>6, <1>7, <1>8, SoughtByFront DEF Drops

\* A completed stream is stopped, prepared and started by the thread itself.
LEMMA ReplayIds ==
    ASSUME NEW q \in Seq(Messages)
    PROVE  LET next == q \o << Internal("STOP"), Internal("PREPARE"), Internal("START") >>
           IN  \A id \in Ids(next) : id \in Ids(q) \/ id # "SET_NET_SOURCE"
<1> DEFINE a == Internal("STOP")
           b == Internal("PREPARE")
           c == Internal("START")
<1>1. /\ a \in Messages /\ b \in Messages /\ c \in Messages
      /\ a.id = "STOP" /\ b.id = "PREPARE" /\ c.id = "START"
  BY FrontMessages DEF MessageIds, Internal
<1> HIDE DEF a, b, c
<1>2. << a, b, c >> \in Seq(Messages) /\ Elements(<< a, b, c >>) = {a, b, c}
  BY <1>1 DEF Elements
<1> DEFINE l == << a, b, c >>
<1> HIDE DEF l
<1>3. l \in Seq(Messages) /\ Elements(l) = {a, b, c}
  BY <1>2 DEF l
<1>4. Elements(q \o l) = Elements(q) \union {a, b, c}
  BY <1>3, JoinedElements
<1>5. \A id \in Ids(q \o l) : id \in Ids(q) \/ id # "SET_NET_SOURCE"
  BY <1>1, <1>4 DEF Ids
<1> QED BY <1>5 DEF l, a, b, c

\* What a start goes on with when the mutex has been released.
LEMMA StartFollows ==
    ASSUME NEW s \in Seq(Steps), Ops(s) \subseteq {"answer"}
    PROVE  LET next == << Step("playerStart"), Step("demuxStart"), SetStatus("STARTED") >> \o s
           IN  /\ Follows(next)
               /\ {"playerStart", "status"} \subseteq Ops(next)
               /\ Ops(next) \subseteq {"playerStart", "demuxStart", "status", "answer"}
<1> DEFINE a == Step("playerStart")
           b == Step("demuxStart")
           c == SetStatus("STARTED")
           l == << a, b, c >>
<1>1. /\ a \in Steps /\ b \in Steps /\ c \in Steps
      /\ a.op = "playerStart" /\ b.op = "demuxStart" /\ c.op = "status"
      /\ c.status = "STARTED"
  BY PlainSteps DEF PlainOps, Step, SetStatus, Steps, Statuses
<1> HIDE DEF a, b, c
<1>2. l \in Seq(Steps) /\ Ops(l) = {"playerStart", "demuxStart", "status"}
  <2>1. \A d \in Steps : \A e \in Steps : \A f \in Steps :
           << d, e, f >> \in Seq(Steps) /\ Ops(<< d, e, f >>) = {d.op, e.op, f.op}
    BY FewOps, Zenon
  <2> QED BY <1>1, <2>1
<1>3. Elements(l) = {a, b, c}
  BY DEF Elements
<1>4. Starts(l) /\ ~ Pauses(l)
  BY <1>1, <1>3 DEF Starts, Pauses
<1> HIDE DEF l
<1>5. ~ Starts(s) /\ ~ Pauses(s)
  BY NoStatus
<1>6. /\ Ops(l \o s) = {"playerStart", "demuxStart", "status"} \union Ops(s)
      /\ Starts(l \o s) /\ ~ Pauses(l \o s)
  BY <1>2, <1>4, <1>5, JoinedSteps, JoinedStarts
<1>7. Follows(l \o s)
  BY <1>6 DEF Follows, StartOps
<1> QED BY <1>6, <1>7 DEF l, a, b, c

\* The start command, with mMutexStatus.
LEMMA StartFile ==
    ASSUME XPlayerInv, FileInv, StartLocked
    PROVE  FileInv'
<1>1. /\ Types /\ ctx \in Contexts /\ player \in Players /\ mq \in [Thread -> Seq(Messages)]
      /\ ~ Idle("xplayer") /\ Head(todo["xplayer"]).op = "start" /\ cache' = cache
  BY DEF XPlayerInv, Types, StartLocked, At
<1>2. todo["xplayer"] \in Seq(Steps) /\ todo["xplayer"] # << >>
  BY <1>1, ListTypes DEF Thread, Idle
<1>3. /\ Ops(todo["xplayer"]) = {"start"} \union Ops(Tail(todo["xplayer"]))
      /\ Tail(todo["xplayer"]) \in Seq(Steps)
  BY <1>1, <1>2, FirstStep
<1>4. Front \subseteq {"start", "answer"} /\ Front = Ops(todo["xplayer"])
  BY <1>3 DEF XPlayerInv, Commanding, Front
<1>5. "start" \notin Ops(Tail(todo["xplayer"]))
  <2>1. \A op \in Ops(Tail(todo["xplayer"])) : Place("start") < Place(op)
    BY <1>1, <1>2, FirstInOrder DEF XPlayerInv, Commanding
  <2> QED BY <2>1 DEF Place
<1>6. Ops(Tail(todo["xplayer"])) \subseteq {"answer"}
  BY <1>3, <1>4, <1>5
<1>7. Unasked
  BY <1>1, FrontFree DEF Waits
<1>8. /\ ctx.mSeeking => ~ Plays
      /\ ctx.mStatus = "PAUSED" => ~ Plays
      /\ ctx.mStatus = "STARTED" /\ ~ ctx.mSeeking => Plays
  BY <1>4 DEF FileInv, Playing
<1>9. /\ SeekWaits \/ Seeks => ctx.mSeeking
      /\ "seekDemux" \notin Front /\ "demuxStop" \notin Front
  BY <1>4 DEF FileInv, OneSeek
<1>10. ASSUME todo'["xplayer"] = Tail(todo["xplayer"])
       PROVE  /\ Front' \subseteq {"answer"} /\ Follows(todo["xplayer"])'
              /\ ~ Starts(todo["xplayer"])'
  <2> DEFINE s == Tail(todo["xplayer"])
  <2>1. Follows(s) /\ ~ Starts(s)
    BY <1>6, PlainFollows
  <2>2. todo'["xplayer"] = s
    BY <1>10
  <2> HIDE DEF s
  <2>3. /\ Front' = Ops(s) /\ (Follows(todo["xplayer"])' <=> Follows(s))
        /\ (Starts(todo["xplayer"])' <=> Starts(s))
    BY <2>2 DEF Front, Follows, Starts, Pauses, Quits, Ops, Elements
  <2> QED BY <1>6, <2>1, <2>3 DEF s
<1>11. CASE StartWhenStarted
  <2>1. ctx.mStatus = "STARTED" /\ demux' = demux /\ mq' = mq /\ ctx' = ctx
    BY <1>11 DEF StartWhenStarted
  <2>2. ~ (player.eStatus = "PAUSED" /\ ~ ctx.mSeeking)
    BY <1>8, <2>1 DEF Plays
  <2>3. Proceed("xplayer", << >>) /\ player' = player
    BY <1>11, <2>2 DEF StartWhenStarted
  <2>4. todo'["xplayer"] = Tail(todo["xplayer"]) /\ ComponentSame /\ NoNetCommand
    BY <1>1, <2>1, <2>3, StepDone DEF ComponentSame, NoNetCommand
  <2> QED BY <1>1, <2>1, <2>3, <2>4, DropFile DEF Waits, Contexts, Plays
<1>12. CASE StartWhenSeeking
  <2>1. /\ demux' = demux /\ mq' = mq /\ player' = player /\ ctx.mSeeking
        /\ Proceed("xplayer", << >>)
    BY <1>12 DEF StartWhenSeeking
  <2>2. ctx'.mSeeking = ctx.mSeeking /\ ctx'.mStatus = "STARTED"
    BY <1>1, <1>12 DEF StartWhenSeeking, Contexts
  <2>3. todo'["xplayer"] = Tail(todo["xplayer"]) /\ ComponentSame /\ NoNetCommand
    BY <1>1, <2>1, StepDone DEF ComponentSame, NoNetCommand
  <2>4. /\ Front' \subseteq {"answer"} /\ Follows(todo["xplayer"])'
        /\ ~ Starts(todo["xplayer"])'
    BY <1>10, <2>3
  <2>5. Playing'
    BY <1>8, <2>1, <2>2, <2>4 DEF Playing, Plays
  <2> QED BY <1>7, <1>9, <2>2, <2>3, <2>4, <2>5, PlainFile DEF FrontSeeks, SeekOps
<1>13. CASE StartWhenComplete
  <2>1. /\ ctx.mStatus = "COMPLETE" /\ ~ ctx.mSeeking /\ Proceed("xplayer", << >>)
    BY <1>13 DEF StartWhenComplete
  <2>2. todo'["xplayer"] = Tail(todo["xplayer"]) /\ todo'["demux"] = todo["demux"]
    BY <1>1, <2>1, StepDone
  <2>3. CASE ctx.bSeekable
    <3> DEFINE m == [Message("SEEK") EXCEPT !.time = ctx.mSeekTime]
    <3>1. m \in Messages /\ m.id = "SEEK" /\ Post("demux", m)
      BY <1>1, <1>13, <2>3, SeekMessage DEF StartWhenComplete
    <3>2. demux' = SeekToSet /\ player' = PlayerPause(player)
      BY <1>13, <2>3 DEF StartWhenComplete
    <3>3. ctx'.mSeeking /\ ctx'.mStatus = "STARTED"
      BY <1>1, <1>13, <2>3 DEF StartWhenComplete, Contexts
    <3>4. ~ Plays'
      BY <1>1, <3>2 DEF Plays, PlayerPause, Players
    <3>5. /\ Front' \subseteq {"answer"} /\ Follows(todo["xplayer"])'
          /\ ~ Starts(todo["xplayer"])'
      BY <1>10, <2>2
    <3>6. Playing'
      BY <3>3, <3>4, <3>5 DEF Playing
    <3>7. ~ FrontSeeks' /\ "notSeeking" \notin Front'
      BY <3>5 DEF FrontSeeks, SeekOps
    <3> HIDE DEF m
    <3> QED BY <1>1, <1>7, <1>9, <2>1, <2>2, <3>1, <3>2, <3>3, <3>5, <3>6, <3>7, SoughtByFront
  <2>4. CASE ~ ctx.bSeekable
    <3>1. /\ ctx' = ctx /\ player' = player /\ demux' = demux
          /\ mq' = [mq EXCEPT !["xplayer"] =
                          @ \o << Internal("STOP"), Internal("PREPARE"), Internal("START") >>]
      BY <1>13, <2>4 DEF StartWhenComplete
    <3>2. /\ mq'["demux"] = mq["demux"] /\ mq["xplayer"] \in Seq(Messages)
          /\ mq'["xplayer"] =
               mq["xplayer"] \o << Internal("STOP"), Internal("PREPARE"), Internal("START") >>
      BY <1>1, <3>1 DEF Thread
    <3>3. NoNetCommand
      BY <3>2, ReplayIds DEF NoNetCommand
    <3>4. ComponentSame
      BY <1>1, <2>2, <3>1, <3>2 DEF ComponentSame
    <3> QED BY <1>1, <2>2, <3>1, <3>3, <3>4, DropFile DEF Waits, Contexts, Plays
  <2> QED BY <2>3, <2>4
<1>14. CASE StartOtherwise
  <2> DEFINE l == << Step("playerStart"), Step("demuxStart"), SetStatus("STARTED") >>
             next == l \o Tail(todo["xplayer"])
  <2>1. /\ demux' = demux /\ mq' = mq /\ player' = player /\ ctx' = ctx /\ ~ ctx.mSeeking
        /\ ctx.mStatus # "STARTED" /\ Proceed("xplayer", l)
    BY <1>14 DEF StartOtherwise
  <2>2. l \in Seq(Steps)
    <3>1. Step("playerStart") \in Steps /\ Step("demuxStart") \in Steps /\ SetStatus("STARTED") \in Steps
      BY PlainSteps DEF PlainOps, SetStatus, Steps, Statuses
    <3> QED BY <3>1, FewOps, Zenon
  <2>3. /\ Follows(next) /\ {"playerStart", "status"} \subseteq Ops(next)
        /\ Ops(next) \subseteq {"playerStart", "demuxStart", "status", "answer"}
    BY <1>3, <1>6, StartFollows
  <2> HIDE DEF l
  <2>4. todo'["xplayer"] = next /\ todo'["demux"] = todo["demux"]
    BY <1>1, <2>1, <2>2, Proceeded DEF Thread
  <2> HIDE DEF next
  <2>5. Front' = Ops(next) /\ (Follows(todo["xplayer"])' <=> Follows(next))
    BY <2>4 DEF Front, Follows, Starts, Pauses, Quits, Ops, Elements
  <2>6. ComponentSame /\ NoNetCommand
    BY <1>1, <2>1, <2>4 DEF ComponentSame, NoNetCommand
  <2>7. Playing'
    BY <2>1, <2>3, <2>5 DEF Playing, Plays
  <2>8. ~ FrontSeeks' /\ "notSeeking" \notin Front'
    BY <2>3, <2>5 DEF FrontSeeks, SeekOps
  <2> QED BY <1>7, <1>9, <2>1, <2>3, <2>5, <2>6, <2>7, <2>8, PlainFile
<1> QED BY <1>11, <1>12, <1>13, <1>14 DEF StartLocked

-----------------------------------------------------------------------------
(* The commands that the thread takes.                                       *)

\* The demux thread is asked for nothing, or to set a file or to prepare it.
AsksForFile ==
    \/ mq'["demux"] = mq["demux"] /\ demux' = demux
    \/ /\ \E m \in Messages : /\ m.id \in {"SET_FILE_SOURCE", "PREPARE"}
                              /\ mq'["demux"] = Append(mq["demux"], m)
       /\ demux' \in {demux, PrepareAsyncSet}

\* A list that begins a command.
Begins(steps) ==
    /\ Follows(steps) /\ ~ Starts(steps) /\ "playerStart" \notin Ops(steps)
    /\ "notSeeking" \in Ops(steps) => "demuxCancelSeek" \in Ops(steps)
    /\ (\E op \in SeekOps : op \in Ops(steps)) =>
         "seek" \in Ops(steps) /\ ("notSeeking" \in Ops(steps) \/ ~ ctx.mSeeking)

\* A command that begins finds nothing left of the one before it.
LEMMA BeginFile ==
    ASSUME XPlayerInv, FileInv, Idle("xplayer"), NEW steps \in Seq(Steps), Begins(steps),
           todo'["xplayer"] = steps, todo'["demux"] = todo["demux"], cache' = cache,
           NoNetCommand, AsksForFile, player' = player, ctx'.mSeeking = ctx.mSeeking,
           ctx'.mStatus = ctx.mStatus \/ ctx'.mStatus \notin {"STARTED", "PAUSED"}
    PROVE  FileInv'
<1>1. /\ Types /\ mq["demux"] \in Seq(Messages) /\ demux \in Demuxes
      /\ OneSeek /\ Playing /\ Reading
  BY ListTypes DEF XPlayerInv, FileInv, Thread, Types
<1>2. Front = {} /\ ~ Starts(todo["xplayer"])
  <2>1. Ops(<< >>) = {} /\ ~ Starts(<< >>)
    BY FewOps, NoStatus
  <2>2. todo["xplayer"] = << >>
    BY DEF Idle
  <2> QED BY <2>1, <2>2 DEF Front, Starts
<1>3. Unasked
  BY FrontFree
<1>4. /\ Front' = Ops(steps) /\ (Follows(todo["xplayer"])' <=> Follows(steps))
      /\ (Starts(todo["xplayer"])' <=> Starts(steps))
  BY DEF Front, Follows, Starts, Pauses, Quits, Ops, Elements
<1>5. /\ demux'.net = demux.net /\ demux'.bSeeking = demux.bSeeking
      /\ demux'.pParser = demux.pParser /\ demux'.bForceStop = demux.bForceStop
      /\ demux'.bIOError = demux.bIOError
      /\ demux'.bCancelPrepare => demux.bCancelPrepare
      /\ demux'.eStatus = demux.eStatus \/ demux'.eStatus # "STARTED"
  BY <1>1 DEF AsksForFile, PrepareAsyncSet, Demuxes
<1>6. /\ \A id \in {"SET_NET_SOURCE", "SEEK", "CANCEL_SEEK", "CANCEL_PREPARE"} :
           id \in Ids(mq'["demux"]) <=> id \in Ids(mq["demux"])
      /\ SeekOnce(mq'["demux"])
      /\ mq["demux"] # << >> => mq'["demux"] # << >>
  <2>1. CASE mq'["demux"] = mq["demux"]
    BY <1>1, <2>1 DEF OneSeek
  <2>2. ASSUME NEW m \in Messages, m.id \in {"SET_FILE_SOURCE", "PREPARE"},
               mq'["demux"] = Append(mq["demux"], m)
        PROVE  <1>6
    <3>1. Ids(mq'["demux"]) = Ids(mq["demux"]) \union {m.id}
      BY <1>1, <2>2, PostedIds
    <3>2. SeekOnce(Append(mq["demux"], m))
      BY <1>1, <2>2, SeekAppended DEF OneSeek
    <3>3. mq'["demux"] # << >>
      BY <3>1, OnlyRead
    <3> QED BY <2>2, <3>1, <3>2, <3>3
  <2> QED BY <2>1, <2>2 DEF AsksForFile
<1>7. (SeekWaits' <=> SeekWaits) /\ (Seeks' <=> Seeks) /\ (Continues' <=> Continues)
  BY <1>6 DEF SeekWaits, Seeks, Continues
<1>8. OfFile'
  BY <1>5, <1>6 DEF FileInv, OfFile, NoNetCommand
<1>9. Ends'
  BY <1>3, <1>4, <1>5, <1>6 DEF Ends, Unasked, Begins
<1>10. OneSeek'
  <2>1. FrontSeeks' => "seek" \in Front' /\ ("notSeeking" \in Front' \/ ~ ctx.mSeeking)
    BY <1>4 DEF FrontSeeks, Begins
  <2>2. "notSeeking" \in Front' => "demuxCancelSeek" \in Front'
    BY <1>4 DEF Begins
  <2> QED BY <1>1, <1>6, <1>7, <2>1, <2>2 DEF OneSeek
<1>11. Playing'
  <2>1. "playerStart" \notin Front' /\ ~ Starts(todo["xplayer"])'
    BY <1>4 DEF Begins
  <2> QED BY <1>1, <1>2, <2>1 DEF Playing, Plays
<1>12. Reading'
  <2>1. ~ Ending
    BY <1>2, <1>3 DEF Ending, Unasked
  <2>2. todo'["demux"] = todo["demux"]
    OBVIOUS
  <2> QED BY <1>1, <1>5, <1>6, <1>7, <2>1, <2>2 DEF Reading
<1> QED BY <1>8, <1>9, <1>10, <1>11, <1>12 DEF FileInv

\* A list that goes to neither the component nor the player begins a command.
LEMMA PlainBegins ==
    ASSUME NEW s,
           \/ Ops(s) \subseteq {"answer", "sourceSet", "start", "seekTime"}
           \/ Ops(s) \subseteq {"pause", "answer"}
    PROVE  Begins(s)
<1>1. Follows(s) /\ ~ Starts(s)
  BY PlainFollows
<1> QED BY <1>1 DEF Begins, SeekOps

\* A list that ends with a status other than STARTED and PAUSED, and before it
\* stops the component and the player.
LEMMA StopBegins ==
    ASSUME NEW s, Quits(s), ~ Starts(s), ~ Pauses(s), Ops(s) \subseteq StopOps,
           "demuxStop" \in Ops(s),
           "demuxCancelSeek" \in Ops(s) <=> "notSeeking" \in Ops(s)
    PROVE  Begins(s)
<1>1. Follows(s)
  BY DEF Follows, StopOps
<1> QED BY <1>1 DEF Begins, SeekOps, StopOps

\* The thread takes a message of its queue.
LEMMA TakenFile ==
    ASSUME XPlayerInv, FileInv, NEW id, NEW steps \in Seq(Steps), Handle(id, steps),
           Begins(steps), ctx'.mSeeking = ctx.mSeeking,
           ctx'.mStatus = ctx.mStatus \/ ctx'.mStatus \notin {"STARTED", "PAUSED"}
    PROVE  FileInv'
<1>1. /\ Types /\ Protocol /\ mq["xplayer"] \in Seq(Messages) /\ mq["demux"] \in Seq(Messages)
  BY ListTypes DEF XPlayerInv, Protocol, Thread
<1>2. /\ Idle("xplayer") /\ player' = player
      /\ todo'["xplayer"] = steps /\ todo'["demux"] = todo["demux"]
  BY <1>1, Handled
<1>3. /\ mq["xplayer"] # << >> /\ mq' = [mq EXCEPT !["xplayer"] = Tail(@)]
      /\ demux' = demux /\ cache' = cache
  BY DEF Handle, Take
<1>4. /\ mq'["xplayer"] = Tail(mq["xplayer"]) /\ mq'["demux"] = mq["demux"]
  <2>1. mq \in [Thread -> Seq(Messages)]
    BY <1>1 DEF Types
  <2> QED BY <1>3, <2>1 DEF Thread
<1>5. NoNetCommand
  BY <1>1, <1>3, <1>4, FirstMessage DEF NoNetCommand
<1>6. AsksForFile
  BY <1>3, <1>4 DEF AsksForFile
<1> QED BY <1>2, <1>3, <1>5, <1>6, BeginFile

\* A cancel goes with the end of the seek, and there is one while a seek is
\* under way.
LEMMA CancelOps ==
    /\ CancelIfSeeking \in Seq(Steps)
    /\ Ops(CancelIfSeeking) = IF ctx.mSeeking THEN {"demuxCancelSeek", "notSeeking"} ELSE {}
<1> DEFINE a == Step("demuxCancelSeek")
           b == Step("notSeeking")
<1>1. a \in Steps /\ b \in Steps /\ a.op = "demuxCancelSeek" /\ b.op = "notSeeking"
  BY PlainSteps DEF PlainOps, Step
<1>2. CancelIfSeeking = IF ctx.mSeeking THEN << a, b >> ELSE << >>
  BY DEF CancelIfSeeking, Only
<1> HIDE DEF a, b
<1>3. << a, b >> \in Seq(Steps) /\ Ops(<< a, b >>) = {a.op, b.op}
  BY <1>1, FewOps, Zenon
<1>4. << >> \in Seq(Steps) /\ Ops(<< >>) = {}
  BY FewOps
<1> QED BY <1>1, <1>2, <1>3, <1>4

\* The last steps of a stop and of a reset, and the status that they leave.
LEMMA LastStatus ==
    /\ LET l == << Step("demuxStop"), Step("playerStop"), SetStatus("STOPPED") >>
       IN  Quits(l) /\ ~ Starts(l) /\ ~ Pauses(l)
    /\ LET l == << Step("demuxStop"), Step("demuxClear"), Step("playerStop"), SetStatus("IDLE") >>
       IN  Quits(l) /\ ~ Starts(l) /\ ~ Pauses(l)
<1> DEFINE a == Step("demuxStop")
           b == Step("demuxClear")
           c == Step("playerStop")
           d == SetStatus("STOPPED")
           e == SetStatus("IDLE")
<1>1. /\ a.op = "demuxStop" /\ b.op = "demuxClear" /\ c.op = "playerStop"
      /\ d.op = "status" /\ d.status = "STOPPED" /\ e.op = "status" /\ e.status = "IDLE"
  BY DEF Step, SetStatus
<1> HIDE DEF a, b, c, d, e
<1>2. Elements(<< a, c, d >>) = {a, c, d} /\ Elements(<< a, b, c, e >>) = {a, b, c, e}
  BY DEF Elements
<1>3. /\ Quits(<< a, c, d >>) /\ ~ Starts(<< a, c, d >>) /\ ~ Pauses(<< a, c, d >>)
      /\ Quits(<< a, b, c, e >>) /\ ~ Starts(<< a, b, c, e >>) /\ ~ Pauses(<< a, b, c, e >>)
  BY <1>1, <1>2 DEF Quits, Starts, Pauses
<1> QED BY <1>3 DEF a, b, c, d, e

\* The answer at the end of a list changes nothing in what it starts or quits.
LEMMA AnswerJoined ==
    ASSUME NEW k \in Seq(Steps), NEW a \in Seq(Steps), Ops(a) \subseteq {"answer"}
    PROVE  /\ Ops(k \o a) = Ops(k) \union Ops(a)
           /\ Quits(k \o a) <=> Quits(k)
           /\ Starts(k \o a) <=> Starts(k)
           /\ Pauses(k \o a) <=> Pauses(k)
<1>1. ~ Starts(a) /\ ~ Pauses(a) /\ ~ Quits(a)
  BY NoStatus
<1> QED BY <1>1, JoinedSteps, JoinedStarts

\* The lists of a stop and of a reset.
LEMMA StopList ==
    ASSUME NEW steps,
           steps = CancelIfSeeking \o << Step("demuxStop"), Step("playerStop"),
                                         SetStatus("STOPPED") >> \o Answer(Received, TRUE)
    PROVE  steps \in Seq(Steps) /\ Begins(steps)
<1> DEFINE c == CancelIfSeeking
           d == << Step("demuxStop"), Step("playerStop"), SetStatus("STOPPED") >>
           a == Answer(Received, TRUE)
<1>1. /\ Part(steps, StopOps \ {"demuxClear", "demuxCancelPrepare"})
      /\ "demuxStop" \in Ops(steps)
  BY StopForms
<1>2. /\ c \in Seq(Steps) /\ ("demuxCancelSeek" \in Ops(c) <=> "notSeeking" \in Ops(c))
      /\ "status" \notin Ops(c)
  BY CancelOps
<1>3. /\ d \in Seq(Steps) /\ Quits(d) /\ ~ Starts(d) /\ ~ Pauses(d)
      /\ Ops(d) \subseteq {"demuxStop", "playerStop", "status"}
  BY StopPart, LastStatus DEF Part
<1>4. a \in Seq(Steps) /\ Ops(a) \subseteq {"answer"}
  BY AnswerPart DEF Part
<1>5. steps = c \o d \o a
  OBVIOUS
<1> HIDE DEF c, d, a
<1>6. /\ c \o d \in Seq(Steps) /\ Ops(c \o d) = Ops(c) \union Ops(d) /\ Quits(c \o d)
      /\ ~ Starts(c \o d) /\ ~ Pauses(c \o d)
  BY <1>2, <1>3, JoinedSteps, JoinedStarts, NoStatus
<1>7. /\ Ops(steps) = Ops(c \o d) \union Ops(a) /\ Quits(steps)
      /\ ~ Starts(steps) /\ ~ Pauses(steps)
  <2> DEFINE k == c \o d
  <2>1. k \in Seq(Steps) /\ Quits(k) /\ ~ Starts(k) /\ ~ Pauses(k) /\ steps = k \o a
    BY <1>5, <1>6
  <2> HIDE DEF k
  <2>2. /\ Ops(k \o a) = Ops(k) \union Ops(a) /\ Quits(k \o a)
        /\ ~ Starts(k \o a) /\ ~ Pauses(k \o a)
    BY <1>4, <2>1, AnswerJoined
  <2>3. Ops(steps) = Ops(k) \union Ops(a) /\ Quits(steps) /\ ~ Starts(steps) /\ ~ Pauses(steps)
    <3>1. steps = k \o a
      BY <2>1
    <3> QED BY <2>2, <3>1, Zenon
  <2> QED BY <2>3 DEF k
<1>8. "demuxCancelSeek" \in Ops(steps) <=> "notSeeking" \in Ops(steps)
  BY <1>2, <1>3, <1>4, <1>6, <1>7
<1> QED BY <1>1, <1>7, <1>8, StopBegins DEF Part

\* A reset also takes back a preparation and clears the component.
LEMMA ResetList ==
    ASSUME NEW steps,
           steps = Only(ctx.mStatus = "PREPARING", << Step("demuxCancelPrepare") >>)
                   \o CancelIfSeeking
                   \o << Step("demuxStop"), Step("demuxClear"), Step("playerStop"),
                         SetStatus("IDLE") >>
                   \o Answer(Received, TRUE)
    PROVE  steps \in Seq(Steps) /\ Begins(steps)
<1> DEFINE p == Only(ctx.mStatus = "PREPARING", << Step("demuxCancelPrepare") >>)
           c == CancelIfSeeking
           d == << Step("demuxStop"), Step("demuxClear"), Step("playerStop"),
                   SetStatus("IDLE") >>
           a == Answer(Received, TRUE)
<1>1. Part(steps, StopOps) /\ Quits(steps) /\ "demuxStop" \in Ops(steps)
  BY ResetForms
<1>2. /\ c \in Seq(Steps) /\ ("demuxCancelSeek" \in Ops(c) <=> "notSeeking" \in Ops(c))
      /\ "status" \notin Ops(c)
  BY CancelOps
<1>3. /\ d \in Seq(Steps) /\ ~ Starts(d) /\ ~ Pauses(d)
      /\ Ops(d) \subseteq {"demuxStop", "demuxClear", "playerStop", "status"}
  BY StopPart, LastStatus DEF Part
<1>4. a \in Seq(Steps) /\ Ops(a) \subseteq {"answer"}
  BY AnswerPart DEF Part
<1>5. p \in Seq(Steps) /\ Ops(p) \subseteq {"demuxCancelPrepare"}
  <2> DEFINE e == Step("demuxCancelPrepare")
  <2>1. e \in Steps /\ e.op = "demuxCancelPrepare"
    BY PlainSteps DEF PlainOps, Step
  <2>2. p = << e >> \/ p = << >>
    BY DEF Only
  <2> HIDE DEF e, p
  <2>3. << e >> \in Seq(Steps) /\ Ops(<< e >>) = {e.op}
    BY <2>1, FewOps, Zenon
  <2>4. << >> \in Seq(Steps) /\ Ops(<< >>) = {}
    BY FewOps
  <2> QED BY <2>1, <2>2, <2>3, <2>4
<1>6. steps = p \o c \o d \o a
  OBVIOUS
<1> HIDE DEF p, c, d, a
<1>7. /\ p \o c \in Seq(Steps) /\ Ops(p \o c) = Ops(p) \union Ops(c)
      /\ ~ Starts(p \o c) /\ ~ Pauses(p \o c)
  BY <1>2, <1>5, JoinedSteps, JoinedStarts, NoStatus
<1>8. /\ p \o c \o d \in Seq(Steps) /\ Ops(p \o c \o d) = Ops(p \o c) \union Ops(d)
      /\ ~ Starts(p \o c \o d) /\ ~ Pauses(p \o c \o d)
  BY <1>3, <1>7, JoinedSteps, JoinedStarts
<1>9. /\ Ops(steps) = Ops(p \o c \o d) \union Ops(a) /\ ~ Starts(steps) /\ ~ Pauses(steps)
  <2> DEFINE k == p \o c \o d
  <2>1. k \in Seq(Steps) /\ ~ Starts(k) /\ ~ Pauses(k) /\ steps = k \o a
    BY <1>6, <1>8
  <2> HIDE DEF k
  <2>2. /\ Ops(k \o a) = Ops(k) \union Ops(a)
        /\ ~ Starts(k \o a) /\ ~ Pauses(k \o a)
    BY <1>4, <2>1, AnswerJoined
  <2>3. steps = k \o a
    BY <2>1
  <2>4. Ops(steps) = Ops(k) \union Ops(a) /\ ~ Starts(steps) /\ ~ Pauses(steps)
    BY <2>2, <2>3, Zenon
  <2> QED BY <2>4 DEF k
<1>10. "demuxCancelSeek" \in Ops(steps) <=> "notSeeking" \in Ops(steps)
  BY <1>2, <1>3, <1>4, <1>5, <1>7, <1>8, <1>9
<1> QED BY <1>1, <1>9, <1>10, StopBegins DEF Part

\* A seek that ends the one before it.
LEMMA SeekList ==
    ASSUME Types, mq["xplayer"] # << >>, NEW steps,
           steps = Only(ctx.bSeekable, CancelIfSeeking \o SeekNow) \o Answer(Received, TRUE)
    PROVE  steps \in Seq(Steps) /\ Begins(steps)
<1> DEFINE c == CancelIfSeeking
           o == Only(ctx.bSeekable, CancelIfSeeking \o SeekNow)
           a == Answer(Received, TRUE)
<1>1. /\ a \in Seq(Steps) /\ Ops(a) \subseteq {"answer"}
  BY AnswerPart DEF Part
<1>2. /\ c \in Seq(Steps)
      /\ Ops(c) = IF ctx.mSeeking THEN {"demuxCancelSeek", "notSeeking"} ELSE {}
  BY CancelOps
<1>3. SeekNow \in Seq(Steps) /\ Ops(SeekNow) = {"seek", "seekPlayer", "seekDemux"}
  <2> DEFINE e == Timed("seek", Received.time)
             f == Step("seekPlayer")
             g == Step("seekDemux")
  <2>1. Received.time \in Times
    <3>1. mq["xplayer"] \in Seq(Messages)
      BY ListTypes DEF Thread
    <3>2. Received \in Messages
      BY <3>1, FirstElement DEF Received
    <3> QED BY <3>2 DEF Messages
  <2>2. /\ e \in Steps /\ f \in Steps /\ g \in Steps
        /\ e.op = "seek" /\ f.op = "seekPlayer" /\ g.op = "seekDemux"
    BY <2>1, PlainSteps DEF Timed, Step, PlainOps
  <2>3. SeekNow = << e, f, g >>
    BY DEF SeekNow
  <2> HIDE DEF e, f, g
  <2>4. \A x \in Steps : \A y \in Steps : \A z \in Steps :
           << x, y, z >> \in Seq(Steps) /\ Ops(<< x, y, z >>) = {x.op, y.op, z.op}
    BY FewOps, Zenon
  <2> QED BY <2>2, <2>3, <2>4
<1>4. o = c \o SeekNow \/ o = << >>
  BY DEF Only
<1>5. steps = o \o a
  OBVIOUS
<1> HIDE DEF c, o, a
<1>6. /\ c \o SeekNow \in Seq(Steps) /\ Ops(c \o SeekNow) = Ops(c) \union Ops(SeekNow)
  BY <1>2, <1>3, JoinedSteps
<1>7. << >> \in Seq(Steps) /\ Ops(<< >>) = {}
  BY FewOps
<1>8. /\ o \in Seq(Steps)
      /\ \/ Ops(o) = {}
         \/ Ops(o) = Ops(c) \union {"seek", "seekPlayer", "seekDemux"}
  BY <1>3, <1>4, <1>6, <1>7
<1>9. o \o a \in Seq(Steps) /\ Ops(o \o a) = Ops(o) \union Ops(a)
  BY <1>1, <1>8, JoinedSteps
<1> DEFINE l == o \o a
<1> HIDE DEF l
<1>10. \/ Ops(l) \subseteq {"answer"}
       \/ /\ {"seek", "seekPlayer", "seekDemux"} \subseteq Ops(l)
          /\ Ops(l) \subseteq {"seek", "seekPlayer", "seekDemux", "answer"} /\ ~ ctx.mSeeking
       \/ /\ {"seek", "seekPlayer", "seekDemux", "demuxCancelSeek", "notSeeking"}
               \subseteq Ops(l)
          /\ Ops(l) \subseteq {"seek", "seekPlayer", "seekDemux", "demuxCancelSeek",
                               "notSeeking", "answer"}
  <2>1. Ops(l) = Ops(o) \union Ops(a)
    BY <1>9 DEF l
  <2>2. CASE Ops(o) = {}
    BY <1>1, <2>1, <2>2
  <2>3. CASE Ops(o) = Ops(c) \union {"seek", "seekPlayer", "seekDemux"} /\ ctx.mSeeking
    BY <1>1, <1>2, <2>1, <2>3
  <2>4. CASE Ops(o) = Ops(c) \union {"seek", "seekPlayer", "seekDemux"} /\ ~ ctx.mSeeking
    BY <1>1, <1>2, <2>1, <2>4
  <2> QED BY <1>8, <2>2, <2>3, <2>4
<1>11. "status" \notin Ops(l)
  BY <1>10
<1>12. ~ Starts(l) /\ ~ Pauses(l)
  BY <1>11, NoStatus
<1>13. Follows(l)
  BY <1>10, <1>12 DEF Follows
<1>14. Begins(l)
  BY <1>10, <1>12, <1>13 DEF Begins, SeekOps
<1>15. steps = l
  BY <1>5 DEF l
<1>16. l \in Seq(Steps)
  BY <1>9 DEF l
<1> QED BY <1>14, <1>15, <1>16, Zenon

\* A list of one step and the answer, or of the answer only.
LEMMA OneList ==
    ASSUME NEW e \in Steps, e.op \in {"start", "seekTime", "pause"}
    PROVE  LET l == << e >> \o Answer(Received, TRUE) IN l \in Seq(Steps) /\ Begins(l)
<1> DEFINE a == Answer(Received, TRUE)
<1>1. a \in Seq(Steps) /\ Ops(a) \subseteq {"answer"}
  BY AnswerPart DEF Part
<1>2. << e >> \in Seq(Steps) /\ Ops(<< e >>) = {e.op}
  BY FewOps, Zenon
<1> HIDE DEF a
<1>3. << e >> \o a \in Seq(Steps) /\ Ops(<< e >> \o a) = {e.op} \union Ops(a)
  BY <1>1, <1>2, JoinedSteps
<1>4. Begins(<< e >> \o a)
  BY <1>1, <1>3, PlainBegins
<1> QED BY <1>3, <1>4 DEF a

\* The answer only.
LEMMA AnswerList ==
    ASSUME NEW ok \in BOOLEAN
    PROVE  Answer(Received, ok) \in Seq(Steps) /\ Begins(Answer(Received, ok))
<1>1. Answer(Received, ok) \in Seq(Steps) /\ Ops(Answer(Received, ok)) \subseteq {"answer"}
  BY AnswerPart DEF Part
<1>2. Begins(Answer(Received, ok))
  BY <1>1, PlainBegins
<1> QED BY <1>1, <1>2

\* The commands that go to the component and the player later, if at all.
LEMMA TakesFileCommand ==
    ASSUME XPlayerInv, FileInv,
           StartPlayer \/ StopPlayer \/ PausePlayer \/ ResetPlayer \/ SeekPlayer
    PROVE  FileInv'
<1>1. Types /\ ctx \in Contexts
  BY DEF XPlayerInv, Types
<1>2. CASE StartPlayer
  <2>1. PICK steps : steps = StartSteps
    OBVIOUS
  <2>2. Handle("START", steps) /\ ctx' = ctx
    BY <1>2, <2>1 DEF StartPlayer, StartSteps
  <2>3. steps \in Seq(Steps) /\ Begins(steps)
    <3>1. Step("start") \in Steps /\ Step("start").op = "start"
      BY PlainSteps DEF PlainOps, Step
    <3>2. CASE ctx.mStatus \in Playable
      BY <2>1, <3>1, <3>2, OneList DEF StartSteps
    <3>3. CASE ctx.mStatus \notin Playable
      BY <2>1, <3>3, AnswerList DEF StartSteps
    <3> QED BY <3>2, <3>3
  <2> QED BY <2>2, <2>3, TakenFile
<1>3. CASE PausePlayer
  <2>1. PICK steps : steps = PauseSteps
    OBVIOUS
  <2>2. Handle("PAUSE", steps) /\ ctx' = ctx
    BY <1>3, <2>1 DEF PausePlayer, PauseSteps
  <2>3. steps \in Seq(Steps) /\ Begins(steps)
    <3>1. Step("pause") \in Steps /\ Step("pause").op = "pause"
      BY PlainSteps DEF PlainOps, Step
    <3>2. CASE ctx.mStatus \in {"STARTED", "COMPLETE"}
      BY <2>1, <3>1, <3>2, OneList DEF PauseSteps
    <3>3. CASE ctx.mStatus \notin {"STARTED", "COMPLETE"}
      <4>1. (ctx.mStatus = "PAUSED") \in BOOLEAN
        OBVIOUS
      <4> QED BY <2>1, <3>3, <4>1, AnswerList DEF PauseSteps
    <3> QED BY <3>2, <3>3
  <2> QED BY <2>2, <2>3, TakenFile
<1>4. CASE StopPlayer
  <2>1. PICK steps : steps = StopSteps
    OBVIOUS
  <2>2. Handle("STOP", steps) /\ ctx' = ctx
    BY <1>4, <2>1 DEF StopPlayer, StopSteps
  <2>3. steps \in Seq(Steps) /\ Begins(steps)
    <3>1. CASE ctx.mStatus \in Playable
      BY <2>1, <3>1, StopList DEF StopSteps
    <3>2. CASE ctx.mStatus \notin Playable
      <4>1. (ctx.mStatus = "STOPPED") \in BOOLEAN
        OBVIOUS
      <4> QED BY <2>1, <3>2, <4>1, AnswerList DEF StopSteps
    <3> QED BY <3>1, <3>2
  <2> QED BY <2>2, <2>3, TakenFile
<1>5. CASE ResetPlayer
  <2>1. PICK steps : steps = ResetSteps
    OBVIOUS
  <2>2. Handle("RESET", steps)
    BY <1>5, <2>1 DEF ResetPlayer, ResetSteps
  <2>3. /\ ctx'.mSeeking = ctx.mSeeking
        /\ ctx'.mStatus = ctx.mStatus \/ ctx'.mStatus \notin {"STARTED", "PAUSED"}
    BY <1>1, <1>5 DEF ResetPlayer, Contexts
  <2>4. steps \in Seq(Steps) /\ Begins(steps)
    <3>1. CASE ctx.mStatus # "STOPPED"
      BY <2>1, <3>1, ResetList DEF ResetSteps
    <3>2. CASE ctx.mStatus = "STOPPED"
      <4> DEFINE a == Answer(Received, TRUE)
      <4>1. steps = << >> \o a
        BY <2>1, <3>2 DEF ResetSteps
      <4>2. a \in Seq(Steps) /\ Begins(a)
        BY AnswerList
      <4> HIDE DEF a
      <4>3. << >> \o a = a
        BY <4>2
      <4> QED BY <4>1, <4>2, <4>3
    <3> QED BY <3>1, <3>2
  <2> QED BY <2>2, <2>3, <2>4, TakenFile
<1>6. CASE SeekPlayer
  <2>1. PICK steps : steps = SeekSteps
    OBVIOUS
  <2>2. Handle("SEEK", steps) /\ ctx' = ctx
    BY <1>6, <2>1 DEF SeekPlayer, SeekSteps
  <2>3. mq["xplayer"] # << >>
    BY <2>2 DEF Handle, Take
  <2>4. steps \in Seq(Steps) /\ Begins(steps)
    <3>1. CASE ctx.mStatus \notin Playable
      BY <2>1, <3>1, AnswerList DEF SeekSteps
    <3>2. CASE ctx.mStatus = "COMPLETE"
      <4>1. Received.time \in Times
        <5>1. mq["xplayer"] \in Seq(Messages)
          BY <1>1, ListTypes DEF Thread
        <5>2. Received \in Messages
          BY <2>3, <5>1, FirstElement DEF Received
        <5> QED BY <5>2 DEF Messages
      <4>2. /\ Timed("seekTime", Received.time) \in Steps
            /\ Timed("seekTime", Received.time).op = "seekTime"
        BY <4>1, PlainSteps DEF Timed
      <4> QED BY <2>1, <3>2, <4>2, OneList DEF SeekSteps, Playable
    <3>3. CASE ctx.mStatus \in Playable /\ ctx.mStatus # "COMPLETE"
      BY <1>1, <2>1, <2>3, <3>3, SeekList DEF SeekSteps, SeekNow
    <3> QED BY <3>1, <3>2, <3>3
  <2> QED BY <2>2, <2>4, TakenFile
<1> QED BY <1>2, <1>3, <1>4, <1>5, <1>6

\* The source is set by the component; it is a file.
LEMMA SetDataSourceFile ==
    ASSUME XPlayerInv, FileInv, SetDataSource
    PROVE  FileInv'
<1> DEFINE valid == ctx.mStatus \in {"IDLE", "INITIALIZED"}
           steps == IF valid THEN << Step("sourceSet") >> ELSE Answer(Received, FALSE)
<1>1. PICK id \in {"SET_FILE_SOURCE", "SET_NET_SOURCE"} :
        /\ Idle("xplayer") /\ mq["xplayer"] # << >> /\ Head(mq["xplayer"]).id = id
        /\ mq' = [mq EXCEPT !["xplayer"] = Tail(@),
                            !["demux"] = IF valid THEN Append(@, Message(id)) ELSE @]
        /\ Does("xplayer", steps)
        /\ demux' = demux /\ cache' = cache /\ ctx' = ctx /\ player' = player
  BY DEF SetDataSource, xplayerVars
<1>2. steps \in Seq(Steps) /\ Begins(steps)
  <2> DEFINE a == Step("sourceSet")
  <2>1. a \in Steps /\ a.op = "sourceSet"
    BY PlainSteps DEF PlainOps, Step
  <2>2. Answer(Received, FALSE) \in Seq(Steps) /\ Begins(Answer(Received, FALSE))
    BY AnswerList
  <2>3. << a >> \in Seq(Steps) /\ Begins(<< a >>)
    <3> HIDE DEF a
    <3>1. << a >> \in Seq(Steps) /\ Ops(<< a >>) = {a.op}
      BY <2>1, FewOps, Zenon
    <3> QED BY <2>1, <3>1, PlainBegins
  <2> QED BY <2>2, <2>3
<1>3. valid \in BOOLEAN
  OBVIOUS
<1> HIDE DEF valid, steps
<1>4. /\ Types /\ mq \in [Thread -> Seq(Messages)] /\ mq["xplayer"] \in Seq(Messages)
      /\ mq["demux"] \in Seq(Messages)
  BY ListTypes DEF XPlayerInv, Types, Thread
<1>5. id = "SET_FILE_SOURCE"
  BY <1>1, <1>4, FirstMessage DEF FileInv, OfFile
<1>6. Message(id) \in Messages /\ Message(id).id = "SET_FILE_SOURCE"
  BY <1>5 DEF Message, Messages, MessageIds, Times
<1>7. /\ mq'["xplayer"] = Tail(mq["xplayer"])
      /\ mq'["demux"] = IF valid THEN Append(mq["demux"], Message(id)) ELSE mq["demux"]
  BY <1>1, <1>4 DEF Thread
<1>8. NoNetCommand
  BY <1>1, <1>4, <1>7, FirstMessage DEF NoNetCommand
<1>9. AsksForFile
  BY <1>1, <1>6, <1>7 DEF AsksForFile
<1>10. todo'["xplayer"] = steps /\ todo'["demux"] = todo["demux"]
  BY <1>1, <1>2, <1>4, Begun DEF Thread
<1> QED BY <1>1, <1>2, <1>8, <1>9, <1>10, BeginFile

\* The component prepares the file; the answer comes first.
LEMMA PreparePlayerFile ==
    ASSUME XPlayerInv, FileInv, PreparePlayer
    PROVE  FileInv'
<1> DEFINE valid == ctx.mStatus \in {"INITIALIZED", "STOPPED"}
           ok == ctx.mStatus = "PREPARED" \/ valid
           steps == Answer(Received, ok)
<1>1. /\ Idle("xplayer") /\ mq["xplayer"] # << >>
      /\ mq' = [mq EXCEPT !["xplayer"] = Tail(@),
                          !["demux"] = IF valid THEN Append(@, Message("PREPARE")) ELSE @]
      /\ Does("xplayer", steps)
      /\ demux' = IF valid THEN PrepareAsyncSet ELSE demux
      /\ cache' = cache /\ player' = player
      /\ ctx'.mStatus = IF valid THEN "PREPARING" ELSE ctx.mStatus
      /\ ctx'.mSeeking = ctx.mSeeking
  <2>1. ctx \in Contexts
    BY DEF XPlayerInv, Types
  <2>2. PICK id \in {"PREPARE", "PREPARE_ASYNC"} :
          ctx' = IF valid
                   THEN [ctx EXCEPT !.mStatus = "PREPARING", !.mPrepareSync = id = "PREPARE"]
                   ELSE [ctx EXCEPT !.mSemPrepareFinish =
                           @ \/ (ctx.mStatus = "PREPARED" /\ id = "PREPARE")]
    BY DEF PreparePlayer
  <2>3. /\ ctx'.mStatus = IF valid THEN "PREPARING" ELSE ctx.mStatus
        /\ ctx'.mSeeking = ctx.mSeeking
    BY <2>1, <2>2 DEF Contexts
  <2> QED BY <2>3 DEF PreparePlayer
<1>2. steps \in Seq(Steps) /\ Begins(steps)
  <2>1. ok \in BOOLEAN
    OBVIOUS
  <2> HIDE DEF ok
  <2> QED BY <2>1, AnswerList
<1> HIDE DEF valid, ok, steps
<1>3. /\ Types /\ mq \in [Thread -> Seq(Messages)] /\ mq["xplayer"] \in Seq(Messages)
      /\ mq["demux"] \in Seq(Messages)
  BY ListTypes DEF XPlayerInv, Types, Thread
<1>4. Message("PREPARE") \in Messages /\ Message("PREPARE").id = "PREPARE"
  BY DEF Message, Messages, MessageIds, Times
<1>5. /\ mq'["xplayer"] = Tail(mq["xplayer"])
      /\ mq'["demux"] = IF valid THEN Append(mq["demux"], Message("PREPARE")) ELSE mq["demux"]
  BY <1>1, <1>3 DEF Thread
<1>6. NoNetCommand
  BY <1>1, <1>3, <1>5, FirstMessage DEF NoNetCommand
<1>7. AsksForFile
  BY <1>1, <1>4, <1>5 DEF AsksForFile
<1>8. todo'["xplayer"] = steps /\ todo'["demux"] = todo["demux"]
  BY <1>1, <1>2, <1>3, Begun DEF Thread
<1> QED BY <1>1, <1>2, <1>6, <1>7, <1>8, BeginFile

-----------------------------------------------------------------------------
(* The application and the render thread.                                    *)

\* They change neither a list of steps nor the component.
LEMMA OtherFile ==
    ASSUME XPlayerInv, FileInv, todo' = todo, cache' = cache, demux' = demux, NoNetCommand,
           ctx'.mSeeking = ctx.mSeeking, player'.eStatus = player.eStatus,
           ctx'.mStatus \in {ctx.mStatus, "COMPLETE"},
           \/ mq'["demux"] = mq["demux"]
           \/ \E m \in Messages : /\ m.id = "FIRST_FRAME"
                                  /\ mq'["demux"] = Append(mq["demux"], m)
    PROVE  FileInv'
<1>1. /\ mq["demux"] \in Seq(Messages) /\ OneSeek /\ Playing /\ Reading
  BY ListTypes DEF XPlayerInv, FileInv, Thread
<1>2. /\ Front' = Front /\ (Follows(todo["xplayer"])' <=> Follows(todo["xplayer"]))
      /\ (Starts(todo["xplayer"])' <=> Starts(todo["xplayer"]))
      /\ (Closing' <=> Closing) /\ (Continues' <=> Continues) /\ (Seeks' <=> Seeks)
      /\ FrontSeeks' <=> FrontSeeks
  BY DEF Front, Follows, Starts, Pauses, Quits, Ops, Elements, Closing, Continues, Seeks,
         FrontSeeks
<1>3. /\ \A id : id # "FIRST_FRAME" => (id \in Ids(mq'["demux"]) <=> id \in Ids(mq["demux"]))
      /\ SeekOnce(mq'["demux"])
      /\ mq["demux"] # << >> => mq'["demux"] # << >>
  <2>1. CASE mq'["demux"] = mq["demux"]
    BY <1>1, <2>1 DEF OneSeek
  <2>2. ASSUME NEW m \in Messages, m.id = "FIRST_FRAME", mq'["demux"] = Append(mq["demux"], m)
        PROVE  <1>3
    <3>1. Ids(mq'["demux"]) = Ids(mq["demux"]) \union {m.id}
      BY <1>1, <2>2, PostedIds
    <3>2. SeekOnce(Append(mq["demux"], m))
      BY <1>1, <2>2, SeekAppended DEF OneSeek
    <3>3. mq'["demux"] # << >>
      BY <3>1, OnlyRead
    <3> QED BY <2>2, <3>1, <3>2, <3>3
  <2> QED BY <2>1, <2>2
<1>4. (SeekWaits' <=> SeekWaits) /\ (Asked(Closes)' <=> Asked(Closes))
  BY <1>3 DEF SeekWaits, Asked, Closes
<1>5. OfFile'
  <2>1. FileForm(todo["demux"])'
    BY DEF FileInv, OfFile, FileForm, FinishOk, Elements
  <2> QED BY <1>3, <2>1 DEF FileInv, OfFile, NoNetCommand
<1>6. Ends'
  BY <1>2, <1>3 DEF FileInv, Ends
<1>7. OneSeek'
  BY <1>1, <1>2, <1>3, <1>4 DEF OneSeek
<1>8. Playing'
  BY <1>1, <1>2 DEF Playing, Plays
<1>9. Reading'
  <2>1. Ending' <=> Ending
    BY <1>2, <1>4 DEF Ending
  <2>2. todo'["demux"] = todo["demux"]
    OBVIOUS
  <2> QED BY <1>1, <1>2, <1>3, <1>4, <2>1, <2>2 DEF Reading
<1> QED BY <1>5, <1>6, <1>7, <1>8, <1>9 DEF FileInv

\* The calls of the application, and the callbacks of the player.
LEMMA OthersFile ==
    ASSUME XPlayerInv, FileInv, FilePlayer, OtherThreads
    PROVE  FileInv'
<1>1. /\ Types /\ ctx \in Contexts /\ player \in Players /\ mq \in [Thread -> Seq(Messages)]
      /\ mq["xplayer"] \in Seq(Messages) /\ mq["demux"] \in Seq(Messages)
  BY ListTypes DEF XPlayerInv, Types, Thread
<1>2. ASSUME NEW m \in Messages, Post("xplayer", m), m.id # "SET_NET_SOURCE"
      PROVE  NoNetCommand /\ mq'["demux"] = mq["demux"]
  <2>1. /\ Ids(mq'["xplayer"]) = Ids(mq["xplayer"]) \union {m.id}
        /\ mq'["demux"] = mq["demux"]
    BY <1>1, <1>2, Posted DEF Thread
  <2> QED BY <1>2, <2>1 DEF NoNetCommand
<1>3. UNCHANGED mq => NoNetCommand /\ mq'["demux"] = mq["demux"]
  BY DEF NoNetCommand
<1>4. CASE AppCall
  <2>1. PICK c \in Commands : /\ Post("xplayer", c)
                              /\ ctx' = [ctx EXCEPT !.mSemPrepareFinish = @ /\ c.id # "PREPARE"]
    BY <1>4 DEF AppCall
  <2>2. c \in Messages /\ c.id # "SET_NET_SOURCE"
    <3>1. c \in Messages
      BY FrontMessages
    <3>2. PICK id \in AppCalls, time \in Times : c = Command(id, time)
      BY DEF Commands, Times
    <3> QED BY <3>1, <3>2 DEF Command, FilePlayer
  <2>3. NoNetCommand /\ mq'["demux"] = mq["demux"]
    BY <1>2, <2>1, <2>2
  <2>4. ctx'.mSeeking = ctx.mSeeking /\ ctx'.mStatus = ctx.mStatus
    BY <1>1, <2>1 DEF Contexts
  <2>5. todo' = todo /\ cache' = cache /\ demux' = demux /\ player' = player
    BY <1>4 DEF AppCall
  <2> QED BY <2>3, <2>4, <2>5, OtherFile
<1>5. CASE AppSetLooping \/ AppPrepared
  <2>1. \E b : \/ ctx' = [ctx EXCEPT !.mSemPrepareFinish = b]
               \/ ctx' = [ctx EXCEPT !.mLoop = b]
    BY <1>5 DEF AppSetLooping, AppPrepared
  <2>2. ctx'.mSeeking = ctx.mSeeking /\ ctx'.mStatus = ctx.mStatus
    BY <1>1, <2>1 DEF Contexts
  <2>3. todo' = todo /\ cache' = cache /\ demux' = demux /\ player' = player /\ UNCHANGED mq
    BY <1>5 DEF AppSetLooping, AppPrepared, demuxVars
  <2> QED BY <1>3, <2>2, <2>3, OtherFile
<1>6. CASE NotifyPlaybackEos
  <2>1. /\ ctx'.mSeeking = ctx.mSeeking /\ ctx'.mStatus = "COMPLETE"
        /\ player'.eStatus = player.eStatus
    BY <1>1, <1>6 DEF NotifyPlaybackEos, Contexts, Players
  <2>2. NoNetCommand /\ mq'["demux"] = mq["demux"]
    <3>1. UNCHANGED mq \/ Post("xplayer", Internal("START"))
      BY <1>6 DEF NotifyPlaybackEos, Post
    <3>2. Internal("START") \in Messages /\ Internal("START").id = "START"
      BY FrontMessages DEF MessageIds, Internal
    <3> QED BY <1>2, <1>3, <3>1, <3>2
  <2>3. todo' = todo /\ cache' = cache /\ demux' = demux
    BY <1>6 DEF NotifyPlaybackEos
  <2> QED BY <2>1, <2>2, <2>3, OtherFile
<1>7. CASE NotifyFirstPicture
  <2> DEFINE m == Message("FIRST_FRAME")
  <2>1. /\ player'.eStatus = player.eStatus /\ ctx' = ctx /\ Post("demux", m)
        /\ todo' = todo /\ cache' = cache /\ demux' = demux
    BY <1>1, <1>7 DEF NotifyFirstPicture, Players
  <2>2. m \in Messages /\ m.id = "FIRST_FRAME"
    BY DEF Message, Messages, MessageIds, Times
  <2> HIDE DEF m
  <2>3. mq'["demux"] = Append(mq["demux"], m) /\ mq'["xplayer"] = mq["xplayer"]
    BY <1>1, <2>1, <2>2, Posted DEF Thread
  <2>4. NoNetCommand
    BY <2>3 DEF NoNetCommand
  <2> QED BY <2>1, <2>2, <2>3, <2>4, OtherFile
<1> QED BY <1>4, <1>5, <1>6, <1>7 DEF OtherThreads, Application, RenderThread

-----------------------------------------------------------------------------
(* The invariant of a player of files, and what it says of the player.       *)

\* Nothing is played yet.
LEMMA FileInit == Init => FileInv
<1> SUFFICES ASSUME Init PROVE FileInv
  OBVIOUS
<1>1. \A t \in Thread : mq[t] = << >> /\ todo[t] = << >>
  BY DEF Init, DemuxInit
<1>2. /\ mq["xplayer"] = << >> /\ mq["demux"] = << >>
      /\ todo["xplayer"] = << >> /\ todo["demux"] = << >>
  BY <1>1 DEF Thread
<1>3. /\ Ids(<< >>) = {} /\ Ops(<< >>) = {} /\ SeekOnce(<< >>)
      /\ FileForm(<< >>) /\ Follows(<< >>) /\ ~ Starts(<< >>)
  <2>1. Ops(<< >>) = {} /\ FileForm(<< >>) /\ Ids(<< >>) = {} /\ SeekOnce(<< >>)
    BY FormsOf, OnlyRead
  <2> QED BY <2>1, PlainFollows
<1>4. /\ demux.net = FALSE /\ cache.alive = FALSE /\ demux.bCancelPrepare = FALSE
      /\ demux.bSeeking = FALSE /\ demux.pParser = FALSE /\ demux.eStatus = "IDLE"
      /\ ctx.mSeeking = FALSE /\ ctx.mStatus = "IDLE" /\ player.eStatus = "STOPPED"
  BY DEF Init, DemuxInit
<1>5. Front = {} /\ (Follows(todo["xplayer"])) /\ ~ Starts(todo["xplayer"])
  BY <1>2, <1>3 DEF Front
<1>6. OfFile /\ Ends
  BY <1>2, <1>3, <1>4, <1>5 DEF OfFile, Ends
<1>7. OneSeek
  BY <1>2, <1>3, <1>5 DEF OneSeek, SeekWaits, Seeks, FrontSeeks
<1>8. Playing
  BY <1>4, <1>5 DEF Playing, Plays
<1>9. Reading
  BY <1>4 DEF Reading
<1> QED BY <1>6, <1>7, <1>8, <1>9 DEF FileInv

\* Every step keeps the invariant: the threads of the application and the player,
\* the xplayer thread, and the demux thread.
LEMMA FileNext ==
    ASSUME XPlayerInv, FileInv, FilePlayer, Next
    PROVE  FileInv'
<1>1. CASE OtherThreads
  BY <1>1, OthersFile
<1>2. CASE XPlayerThread
  BY <1>2, SetDataSourceFile, PreparePlayerFile, TakesFileCommand, OwnStepsFile, StartFile,
     SourceSetFile, SeekCallsFile, CallsFile DEF XPlayerThread, OwnSteps, LockedByXPlayer
<1>3. CASE \/ DemuxThreadSteps \/ CacheThreadSteps
           \/ SeekWaitIsLong /\ UNCHANGED xplayerVars
           \/ ParserReturns /\ UNCHANGED xplayerVars
  BY <1>3, DemuxFile
<1> QED BY <1>1, <1>2, <1>3 DEF Next, OtherThreads

\* It also holds when nothing changes.
LEMMA FileStutters == FileInv /\ UNCHANGED vars => FileInv'
<1> SUFFICES ASSUME FileInv, UNCHANGED vars PROVE FileInv'
  OBVIOUS
<1>1. /\ mq' = mq /\ todo' = todo /\ demux' = demux /\ cache' = cache
      /\ ctx' = ctx /\ player' = player
  BY DEF vars, demuxVars, xplayerVars
<1>2. OfFile'
  BY <1>1 DEF FileInv, OfFile, FileForm, FinishOk, Ids, Elements
<1>3. /\ Front' = Front /\ (Starts(todo["xplayer"])' <=> Starts(todo["xplayer"]))
      /\ (Follows(todo["xplayer"])' <=> Follows(todo["xplayer"]))
      /\ \A id : id \in Ids(mq["demux"])' <=> id \in Ids(mq["demux"])
      /\ SeekOnce(mq["demux"])' <=> SeekOnce(mq["demux"])
      /\ (Ops(todo["demux"]))' = Ops(todo["demux"])
  BY <1>1 DEF Front, Starts, Follows, Pauses, Quits, Ops, Ids, Elements, SeekOnce
<1>4. Ends'
  BY <1>1, <1>3 DEF FileInv, Ends
<1>5. /\ (SeekWaits' <=> SeekWaits) /\ (Seeks' <=> Seeks) /\ (FrontSeeks' <=> FrontSeeks)
      /\ (Continues' <=> Continues) /\ (Closing' <=> Closing)
      /\ (Asked(Closes)' <=> Asked(Closes))
  BY <1>3 DEF SeekWaits, Seeks, FrontSeeks, Continues, Closing, Asked
<1>6. OneSeek'
  BY <1>1, <1>3, <1>5 DEF FileInv, OneSeek
<1>7. Playing'
  BY <1>1, <1>3 DEF FileInv, Playing, Plays
<1>8. Reading'
  <2>1. Ending' <=> Ending
    BY <1>3, <1>5 DEF Ending
  <2> QED BY <1>1, <1>3, <1>5, <2>1 DEF FileInv, Reading
<1> QED BY <1>2, <1>4, <1>6, <1>7, <1>8 DEF FileInv

\* What a player of files keeps between the steps of a command: the rest of a
\* command ends what it has begun, one seek at most is on its way, the player
\* plays when the front end says so, and a started demux thread has more to do.
THEOREM FileInvariant == ASSUME FilePlayer PROVE Spec => []FileInv
<1>1. XPlayerInv /\ FileInv /\ [Next]_vars => FileInv'
  BY FileNext, FileStutters
<1> QED BY FileInit, XPlayerInvariant, <1>1, PTL DEF Spec

\* With no command at hand nothing is left of one.
LEMMA AtRest ==
    ASSUME XPlayerInv, FileInv, Quiet
    PROVE  Front = {} /\ ~ Ending
<1>1. todo["xplayer"] = << >>
  BY DEF Quiet, Idle
<1>2. Front = {}
  BY <1>1, FormsOf DEF Front
<1>3. Unasked
  BY FrontFree DEF Quiet
<1> QED BY <1>2, <1>3 DEF Ending, Unasked

\* A started demux thread of a file never falls asleep for good: with its queue
\* empty and its last step done a command is about to come, unless the stream is
\* broken.
THEOREM DemuxStaysAlive == ASSUME FilePlayer PROVE Spec => []DemuxLoopAlive
<1>1. XPlayerInv /\ FileInv => DemuxLoopAlive
  <2> SUFFICES ASSUME XPlayerInv, FileInv, Quiet, Idle("demux"), mq["demux"] = << >>,
                      demux.eStatus = "STARTED", ~ demux.bIOError
               PROVE  FALSE
    BY DEF DemuxLoopAlive
  <2>1. ~ Ending
    BY AtRest
  <2>2. ~ Continues
    BY FormsOf DEF Continues, Idle
  <2> QED BY <2>1, <2>2 DEF FileInv, Reading
<1> QED BY FileInvariant, XPlayerInvariant, <1>1, PTL

\* A paused front end has a player that does not play, wherever the callback of a
\* seek ran between the steps of the pause.
THEOREM PausedIsPaused == ASSUME FilePlayer PROVE Spec => []PausedMeansPaused
<1>1. XPlayerInv /\ FileInv => PausedMeansPaused
  BY AtRest DEF FileInv, Playing, Plays, PausedMeansPaused
<1> QED BY FileInvariant, XPlayerInvariant, <1>1, PTL

\* A started front end with no seek under way has a player that plays.
THEOREM StartedIsPlaying == ASSUME FilePlayer PROVE Spec => []StartedPlays
<1>1. XPlayerInv /\ FileInv => StartedPlays
  BY AtRest DEF FileInv, Playing, Plays, StartedPlays
<1> QED BY FileInvariant, XPlayerInvariant, <1>1, PTL

=============================================================================
