----------------------------- MODULE DemuxComp -----------------------------
(***************************************************************************)
(* The demultiplexer component of libcedarx, demuxComponent.c: a thread    *)
(* that prepares a parser, seeks in it and reads from it, and, for a       *)
(* stream from the network, a second thread that reads the parser into a   *)
(* cache from which the first one feeds the player.                        *)
(*                                                                         *)
(* The xplayer thread calls the component.  Most calls post a message and  *)
(* wait for the answer; some set a flag and the parser's force-stop flag   *)
(* first, so that the thread gets out of the parser, where a read or a     *)
(* seek may block for ever.                                                *)
(*                                                                         *)
(* As in VideoPlayback a thread works off the steps of todo.  A step       *)
(* Notify(id) is the call of the player front end's callback, which        *)
(* XPlayer models; XPlayer also puts together the steps of the xplayer     *)
(* thread from the calls at the end of this module.                        *)
(***************************************************************************)
EXTENDS Naturals, Sequences

CONSTANTS
    SeekTime,      \* the times that a seek goes to
    CacheSize      \* how many packets the cache holds

ASSUME SeekTimeAssumption == SeekTime \subseteq Nat \ {0}
ASSUME CacheSizeAssumption == CacheSize \in Nat \ {0}

Thread == {"xplayer", "demux", "cache"}

VARIABLES
    mq,        \* the message queues, mMessageQueue, mq and mqCache
    todo,      \* what a thread has still to do
    demux,     \* DemuxCompContext
    cache,     \* the cache, its thread's state and the answers to the demux thread
    reply      \* the answer the xplayer thread waits for

demuxVars == << mq, todo, demux, cache, reply >>

DemuxInit ==
    /\ mq = [t \in Thread |-> << >>]
    /\ todo = [t \in Thread |-> << >>]
    /\ demux = [eStatus |-> "IDLE", net |-> FALSE, bFileStream |-> FALSE, pParser |-> FALSE,
                bForceStop |-> FALSE, position |-> 0,
                bSeeking |-> FALSE, bCancelSeek |-> FALSE,
                bCancelPrepare |-> FALSE, bStopping |-> FALSE,
                bBufferring |-> FALSE, bNeedPausePlayerNotified |-> FALSE,
                bEOS |-> FALSE, bIOError |-> FALSE, sent |-> FALSE]
    /\ cache = [alive |-> FALSE, started |-> FALSE, frames |-> << >>,
                semCache |-> 0, nCacheReply |-> 0]
    /\ reply = "none"

-----------------------------------------------------------------------------
(* Steps and messages.                                                      *)

Step(name) == [op |-> name]
Timed(name, time) == [op |-> name, time |-> time]
Notify(id) == [op |-> id]
SeekFinish(result, time) == [op |-> "SEEK_FINISH", result |-> result, time |-> time]
Only(condition, steps) == IF condition THEN steps ELSE << >>

Message(id) == [id |-> id, time |-> 0]

Idle(t) == todo[t] = << >>
At(t, name) == ~ Idle(t) /\ Head(todo[t]).op = name
Proceed(t, steps) == todo' = [todo EXCEPT ![t] = steps \o Tail(@)]
Post(t, m) == mq' = [mq EXCEPT ![t] = Append(@, m)]

\* PostReadMessage posts only to an empty queue: whatever else waits there has
\* to keep the reading going.  A command that slips in between the test and the
\* post makes no difference: the READ behind it is dropped by the status, or is
\* the one that the command's handler then leaves out.
PostReadMessage(t, when) ==
    mq' = IF when /\ mq[t] = << >>
            THEN [mq EXCEPT ![t] = << Message("READ") >>] ELSE mq

\* The thread t takes the message id; the caller says what it has to do then.
Take(t, id) ==
    /\ Idle(t)
    /\ mq[t] # << >>
    /\ Head(mq[t]).id = id
    /\ mq' = [mq EXCEPT ![t] = Tail(@)]
Does(t, steps) == todo' = [todo EXCEPT ![t] = steps]

Reply(value) == reply = "none" /\ reply' = value

(* Definitions whose names end in _Always, _Unchecked and the like are      *)
(* faulty variants: a slip in the code that a property must detect.         *)

-----------------------------------------------------------------------------
(* The demux thread: source, prepare, start, stop.                          *)

SetSource ==
    \E net \in BOOLEAN, ok \in BOOLEAN :
        /\ Take("demux", IF net THEN "SET_NET_SOURCE" ELSE "SET_FILE_SOURCE")
        /\ demux' = [demux EXCEPT !.eStatus = IF ok THEN "INITIALIZED" ELSE "IDLE",
                                  !.net = net]
        /\ Reply(IF ok THEN "ok" ELSE "fail")
        /\ UNCHANGED << todo, cache >>

Prepare ==
    /\ Take("demux", "PREPARE")
    /\ Does("demux", << Step("prepare") >>)
    /\ demux' = [demux EXCEPT !.pParser = FALSE]
    /\ UNCHANGED << cache, reply >>

\* CdxParserPrepare returns; a failure is retried a limited number of times,
\* unless the user cancels.  bFileStream is never cleared: after a file the
\* component reads network streams without a cache.
ParserPrepared ==
    /\ At("demux", "prepare")
    /\ demux' = [demux EXCEPT !.pParser = TRUE, !.bForceStop = demux.bCancelPrepare,
                              !.position = 0, !.bEOS = FALSE, !.bIOError = FALSE,
                              !.eStatus = "PREPARED", !.sent = FALSE,
                              !.bFileStream = @ \/ ~ demux.net]
    /\ Proceed("demux", << Notify("PREPARED") >>)
    /\ IF ~ demux'.bFileStream
         THEN /\ cache' = [cache EXCEPT !.alive = TRUE, !.started = FALSE]
              /\ Post("cache", Message("START"))
         ELSE UNCHANGED << cache, mq >>
    /\ UNCHANGED reply

ParserNotPrepared ==
    /\ At("demux", "prepare")
    /\ demux' = [demux EXCEPT !.eStatus = "INITIALIZED"]
    /\ Proceed("demux", << Notify("PREPARE_FAILED") >>)
    /\ UNCHANGED << mq, cache, reply >>

CancelPrepare ==
    /\ Take("demux", "CANCEL_PREPARE")
    /\ demux' = [demux EXCEPT !.bCancelPrepare = FALSE]
    /\ Reply("ok")
    /\ UNCHANGED << todo, cache >>

\* The user may start while the player is paused for buffering.
Start ==
    LET started == demux.eStatus \in {"PREPARED", "STARTED"}
    IN  /\ Idle("demux") /\ mq["demux"] # << >> /\ Head(mq["demux"]).id = "START"
        /\ demux' = [demux EXCEPT !.eStatus = IF started THEN "STARTED" ELSE @,
                                  !.bNeedPausePlayerNotified = @ /\ ~ demux.bBufferring,
                                  !.bBufferring = FALSE]
        /\ mq' = [mq EXCEPT !["demux"] =
                    IF started /\ Tail(@) = << >> THEN << Message("READ") >> ELSE Tail(@)]
        /\ Reply(IF started THEN "ok" ELSE "fail")
        /\ UNCHANGED << todo, cache >>

\* Stop and clear end the cache thread, wait for it, and close the parser.
QuitCache ==
    IF cache.alive
      THEN mq' = [mq EXCEPT !["demux"] = Tail(@), !["cache"] = Append(@, Message("QUIT"))]
      ELSE mq' = [mq EXCEPT !["demux"] = Tail(@)]

Close(id) ==
    /\ Idle("demux") /\ mq["demux"] # << >> /\ Head(mq["demux"]).id = id
    /\ QuitCache
    /\ Does("demux", Only(cache.alive, << Step("awaitCache"), Step("join") >>)
                     \o << Step(id) >>)
    /\ UNCHANGED << demux, cache, reply >>

JoinCache_Unjoined ==
    /\ At("demux", "join")
    /\ Proceed("demux", << >>)
    /\ UNCHANGED << mq, demux, cache, reply >>

JoinCache ==
    /\ At("demux", "join")
    /\ ~ cache.alive
    /\ Proceed("demux", << >>)
    /\ UNCHANGED << mq, demux, cache, reply >>

Closed_LeavesOpen ==
    /\ At("demux", "STOP") \/ At("demux", "CLEAR")
    /\ demux' = [demux EXCEPT !.bStopping = FALSE,
                   !.eStatus = IF At("demux", "STOP") THEN "STOPPED" ELSE "IDLE"]
    /\ Proceed("demux", << >>)
    /\ Reply("ok")
    /\ UNCHANGED << mq, cache >>

\* An application that was told of a long buffering is told its end.
Closed ==
    /\ At("demux", "STOP") \/ At("demux", "CLEAR")
    /\ \E told \in {FALSE, ~ demux.bFileStream} :
         demux' = [demux EXCEPT !.pParser = FALSE, !.bStopping = FALSE,
                     !.bNeedPausePlayerNotified = @ /\ ~ told,
                     !.eStatus = IF At("demux", "STOP") THEN "STOPPED" ELSE "IDLE"]
    /\ Proceed("demux", << >>)
    /\ Reply("ok")
    /\ UNCHANGED << mq, cache >>

AwaitCache_NoWait ==
    /\ At("demux", "awaitCache")
    /\ cache' = [cache EXCEPT !.semCache = @ - 1]
    /\ Proceed("demux", << >>)
    /\ UNCHANGED << mq, demux, reply >>

AwaitCache ==
    /\ At("demux", "awaitCache")
    /\ cache.semCache > 0
    /\ cache' = [cache EXCEPT !.semCache = @ - 1]
    /\ Proceed("demux", << >>)
    /\ UNCHANGED << mq, demux, reply >>

-----------------------------------------------------------------------------
(* Seeking, without and with a cache.                                       *)

ClrForceStop_Always == FALSE

\* A user who cancels or stops has set the force-stop flag for good.
ClrForceStop == demux.bForceStop /\ (demux.bCancelSeek \/ demux.bStopping)

\* The parser's seek comes to its end.  A parser that is not forced to stop
\* may take for ever.
SeekFails ==
    [demux EXCEPT !.eStatus = "COMPLETE", !.bSeeking = FALSE]

SeekError == IF demux.bCancelSeek \/ demux.bStopping THEN "USER_CANCEL" ELSE "IO"

Seek ==
    /\ Idle("demux") /\ mq["demux"] # << >> /\ Head(mq["demux"]).id = "SEEK"
    /\ LET time == Head(mq["demux"]).time
       IN  IF ~ demux.pParser
             THEN /\ Does("demux", << SeekFinish("UNKNOWN", time) >>)
                  /\ demux' = [demux EXCEPT !.bSeeking = FALSE]
                  /\ mq' = [mq EXCEPT !["demux"] = Tail(@)]
           ELSE IF cache.alive
             THEN /\ Does("demux", << Step("awaitCache"), Timed("seekCache", time) >>)
                  /\ mq' = [mq EXCEPT !["demux"] = Tail(@),
                                      !["cache"] = Append(@, Message("PAUSE"))]
                  /\ UNCHANGED demux
           ELSE /\ Does("demux", << Timed("parserSeek", time) >>)
                /\ demux' = [demux EXCEPT !.bForceStop = ClrForceStop]
                /\ mq' = [mq EXCEPT !["demux"] = Tail(@)]
    /\ UNCHANGED << cache, reply >>

ParserSeekOk ==
    /\ At("demux", "parserSeek")
    /\ LET time == Head(todo["demux"]).time
       IN  /\ demux' = [demux EXCEPT !.position = time]
           /\ Proceed("demux", << SeekFinish("ok", time), Step("seekDone") >>)
    /\ UNCHANGED << mq, cache, reply >>

ParserSeekFails ==
    /\ At("demux", "parserSeek")
    /\ demux' = [SeekFails EXCEPT !.bBufferring = FALSE]
    /\ Proceed("demux", << SeekFinish(SeekError, Head(todo["demux"]).time) >>)
    /\ UNCHANGED << mq, cache, reply >>

Restarted(status) == IF status = "COMPLETE" THEN "STARTED" ELSE status

SeekDone_NoRead ==
    /\ At("demux", "seekDone")
    /\ demux' = [demux EXCEPT !.bSeeking = FALSE, !.bEOS = FALSE, !.bIOError = FALSE,
                              !.bBufferring = FALSE, !.eStatus = Restarted(@)]
    /\ Proceed("demux", << >>)
    /\ UNCHANGED << mq, cache, reply >>

SeekDone ==
    /\ At("demux", "seekDone")
    /\ demux' = [demux EXCEPT !.bSeeking = FALSE, !.bEOS = FALSE, !.bIOError = FALSE,
                              !.bBufferring = FALSE, !.eStatus = Restarted(@)]
    /\ PostReadMessage("demux", demux'.eStatus = "STARTED")
    /\ Proceed("demux", << >>)
    /\ UNCHANGED << cache, reply >>

\* What is sought is in the cache: the packets before it are dropped, and the
\* cache thread goes on reading.
SeekHit ==
    /\ At("demux", "seekCache")
    /\ cache.frames # << >>
    /\ LET time == Head(todo["demux"]).time
       IN  /\ \E n \in 1 .. Len(cache.frames) :
                cache' = [cache EXCEPT !.frames = [i \in 1 .. n |-> time]]
           /\ demux' = [demux EXCEPT !.bEOS = FALSE, !.bIOError = FALSE,
                                     !.position = time, !.bForceStop = ClrForceStop]
           /\ Proceed("demux", << SeekFinish("ok", time), Step("startCache"),
                                  Step("awaitCache"), Step("seekTail") >>)
    /\ UNCHANGED << mq, reply >>

StartCache ==
    /\ At("demux", "startCache")
    /\ demux' = [demux EXCEPT !.bSeeking = FALSE]
    /\ Post("cache", Message("RESTART"))
    /\ Proceed("demux", << >>)
    /\ UNCHANGED << cache, reply >>

\* Otherwise the cache thread seeks, and the demux thread looks for its answer,
\* for a message and for the user who cancels.
SeekMiss ==
    /\ At("demux", "seekCache")
    /\ cache' = [cache EXCEPT !.frames = << >>, !.nCacheReply = 1]
    /\ demux' = [demux EXCEPT !.bEOS = FALSE, !.bIOError = FALSE]
    /\ Post("cache", [Message("SEEK") EXCEPT !.time = Head(todo["demux"]).time])
    /\ Proceed("demux", << Step("seekWait"), Step("seekTail") >>)
    /\ UNCHANGED reply

SeekWaitEnds ==
    /\ At("demux", "seekWait")
    /\ \/ (cache.nCacheReply = 0 \/ demux.bCancelSeek) /\ Proceed("demux", << >>)
       \/ mq["demux"] # << >> /\ Does("demux", << >>)
    /\ UNCHANGED << mq, demux, cache, reply >>

SeekWaitIsLong ==
    /\ At("demux", "seekWait")
    /\ ~ demux.bBufferring
    /\ demux' = [demux EXCEPT !.bBufferring = TRUE]
    /\ UNCHANGED << mq, todo, cache, reply >>

SeekTail ==
    /\ At("demux", "seekTail")
    /\ demux' = [demux EXCEPT !.eStatus = Restarted(@), !.bBufferring = FALSE,
                              !.bNeedPausePlayerNotified = FALSE]
    /\ PostReadMessage("demux", demux'.eStatus = "STARTED")
    /\ Proceed("demux", << >>)
    /\ UNCHANGED << cache, reply >>

\* The thread that cancels a seek waits on the condition variable for the
\* cache thread to leave it.
CancelSeek ==
    /\ Take("demux", "CANCEL_SEEK")
    /\ ~ demux.bSeeking
    /\ demux' = [demux EXCEPT !.bCancelSeek = FALSE]
    /\ Reply("ok")
    /\ UNCHANGED << todo, cache >>

NotifyFirstFrameShowed ==
    /\ Idle("demux") /\ mq["demux"] # << >> /\ Head(mq["demux"]).id = "FIRST_FRAME"
    /\ mq' = [mq EXCEPT !["demux"] =
                IF demux.eStatus = "STARTED" /\ Tail(@) = << >>
                  THEN << Message("READ") >> ELSE Tail(@)]
    /\ UNCHANGED << todo, demux, cache, reply >>

-----------------------------------------------------------------------------
(* Reading.                                                                 *)

Read ==
    /\ Take("demux", "READ")
    /\ Does("demux", Only(demux.eStatus = "STARTED",
                          IF ~ cache.alive THEN << Step("parserRead") >>
                          ELSE Only(demux.bBufferring, << Step("buffering") >>)
                               \o << Step("readCache") >>))
    /\ UNCHANGED << demux, cache, reply >>

\* The player has too much data, or takes a packet: the reading goes on.
ParserReadOk ==
    /\ At("demux", "parserRead")
    /\ \/ demux' = [demux EXCEPT !.sent = TRUE]
       \/ UNCHANGED demux
    /\ PostReadMessage("demux", TRUE)
    /\ Proceed("demux", << >>)
    /\ UNCHANGED << cache, reply >>

\* A parser that was forced to stop says so, and the thread that forced it
\* will go on with a message.  Otherwise the stream has ended or is broken.
Unforced == ~ demux.bForceStop /\ ~ demux.bStopping /\ ~ demux.bSeeking

ParserReadFails ==
    /\ At("demux", "parserRead")
    /\ \/ /\ ~ Unforced
          /\ Proceed("demux", << >>) /\ UNCHANGED demux
       \/ /\ Unforced
          /\ demux' = [demux EXCEPT !.bIOError = TRUE]
          /\ Proceed("demux", << >>)
       \/ /\ Unforced
          /\ demux' = [demux EXCEPT !.bEOS = TRUE]
          /\ Proceed("demux", << Notify("EOS"), Step("complete") >>)
    /\ UNCHANGED << mq, cache, reply >>

Complete ==
    /\ At("demux", "complete")
    /\ demux' = [demux EXCEPT !.eStatus = "COMPLETE"]
    /\ Proceed("demux", << >>)
    /\ UNCHANGED << mq, cache, reply >>

\* The player is paused until the cache holds enough.
BufferingEnds ==
    /\ At("demux", "buffering")
    /\ cache.frames # << >> \/ demux.bEOS \/ demux.bIOError
    /\ demux' = [demux EXCEPT !.bBufferring = FALSE]
    /\ Proceed("demux", << Notify("RESUME_PLAYER"), Step("resumed") >>)
    /\ UNCHANGED << mq, cache, reply >>

Resumed ==
    /\ At("demux", "resumed")
    /\ demux' = [demux EXCEPT !.bNeedPausePlayerNotified = FALSE]
    /\ Proceed("demux", << >>)
    /\ UNCHANGED << mq, cache, reply >>

\* Until the first picture is shown the packets go to the player all the same.
BufferingGoesOn ==
    /\ At("demux", "buffering")
    /\ ~ demux.bEOS /\ ~ demux.bIOError
    /\ \/ PostReadMessage("demux", TRUE) /\ Does("demux", << >>)
       \/ UNCHANGED mq /\ Proceed("demux", << >>)
    /\ UNCHANGED << demux, cache, reply >>

SendFrame ==
    /\ At("demux", "readCache")
    /\ cache.frames # << >>
    /\ \/ /\ cache' = [cache EXCEPT !.frames = Tail(@)]
          /\ demux' = [demux EXCEPT !.sent = TRUE]
       \/ UNCHANGED << demux, cache >>
    /\ PostReadMessage("demux", TRUE)
    /\ Proceed("demux", << >>)
    /\ UNCHANGED reply

\* An empty cache: the end of the stream, an error, or time to wait, with the
\* player paused if it too has run out of data.
Underflow ==
    /\ At("demux", "readCache")
    /\ cache.frames = << >>
    /\ \/ /\ demux.bEOS
          /\ Proceed("demux", << Notify("EOS"), Step("complete") >>)
          /\ UNCHANGED << mq, demux >>
       \/ /\ ~ demux.bEOS /\ demux.bIOError
          /\ Proceed("demux", << >>) /\ UNCHANGED << mq, demux >>
       \/ /\ ~ demux.bEOS /\ ~ demux.bIOError
          /\ PostReadMessage("demux", TRUE)
          /\ Proceed("demux", << >>) /\ UNCHANGED demux
       \/ /\ ~ demux.bEOS /\ ~ demux.bIOError
          /\ ~ demux.bNeedPausePlayerNotified
          /\ demux' = [demux EXCEPT !.bBufferring = TRUE]
          /\ Proceed("demux", << Notify("PAUSE_PLAYER"), Step("paused") >>)
          /\ UNCHANGED mq
    /\ UNCHANGED << cache, reply >>

Paused ==
    /\ At("demux", "paused")
    /\ demux' = [demux EXCEPT !.bNeedPausePlayerNotified = TRUE]
    /\ PostReadMessage("demux", TRUE)
    /\ Proceed("demux", << >>)
    /\ UNCHANGED << cache, reply >>

-----------------------------------------------------------------------------
(* The cache thread.                                                        *)

\* The thread starts its loop; only the demux thread that waits gets an answer.
CacheStart ==
    \E id \in {"START", "RESTART"} :
        /\ Idle("cache") /\ mq["cache"] # << >> /\ Head(mq["cache"]).id = id
        /\ mq' = [mq EXCEPT !["cache"] =
                    IF Tail(@) = << >> THEN << Message("READ") >> ELSE Tail(@)]
        /\ cache' = [cache EXCEPT !.started = TRUE,
                                  !.semCache = IF id = "RESTART" THEN @ + 1 ELSE @]
        /\ UNCHANGED << todo, demux, reply >>

CachePause ==
    /\ Take("cache", "PAUSE")
    /\ cache' = [cache EXCEPT !.started = FALSE, !.semCache = @ + 1]
    /\ UNCHANGED << todo, demux, reply >>

CacheQuit ==
    /\ Take("cache", "QUIT")
    /\ cache' = [cache EXCEPT !.alive = FALSE, !.semCache = @ + 1]
    /\ UNCHANGED << todo, demux, reply >>

CacheSeek ==
    /\ Idle("cache") /\ mq["cache"] # << >> /\ Head(mq["cache"]).id = "SEEK"
    /\ demux' = [demux EXCEPT !.bForceStop = ClrForceStop]
    /\ Does("cache", << Timed("parserSeek", Head(mq["cache"]).time) >>)
    /\ mq' = [mq EXCEPT !["cache"] = Tail(@)]
    /\ UNCHANGED << cache, reply >>

CacheSeekOk ==
    /\ At("cache", "parserSeek")
    /\ LET time == Head(todo["cache"]).time
       IN  /\ demux' = [demux EXCEPT !.position = time]
           /\ Proceed("cache", << SeekFinish("ok", time), Step("cacheSeekDone") >>)
    /\ UNCHANGED << mq, cache, reply >>

CacheSeekFails ==
    /\ At("cache", "parserSeek")
    /\ demux' = SeekFails
    /\ Proceed("cache", << SeekFinish(SeekError, Head(todo["cache"]).time),
                           Step("cacheSeekFailed") >>)
    /\ UNCHANGED << mq, cache, reply >>

CacheSeekDone ==
    /\ At("cache", "cacheSeekDone")
    /\ demux' = [demux EXCEPT !.bSeeking = FALSE, !.bEOS = FALSE, !.bIOError = FALSE]
    /\ PostReadMessage("cache", TRUE)
    /\ cache' = [cache EXCEPT !.started = TRUE, !.nCacheReply = 0, !.semCache = @ + 1]
    /\ Proceed("cache", << >>)
    /\ UNCHANGED reply

CacheSeekFailed ==
    /\ At("cache", "cacheSeekFailed")
    /\ cache' = [cache EXCEPT !.nCacheReply = 1, !.semCache = @ + 1]
    /\ Proceed("cache", << >>)
    /\ UNCHANGED << mq, demux, reply >>

CacheRead ==
    /\ Idle("cache") /\ mq["cache"] # << >> /\ Head(mq["cache"]).id = "READ"
    /\ LET full == Len(cache.frames) = CacheSize
       IN  /\ Does("cache", Only(cache.started /\ ~ full, << Step("parserRead") >>))
           /\ mq' = [mq EXCEPT !["cache"] =
                       IF cache.started /\ full /\ Tail(@) = << >>
                         THEN << Message("READ") >> ELSE Tail(@)]
    /\ UNCHANGED << demux, cache, reply >>

CacheReadOk ==
    /\ At("cache", "parserRead")
    /\ cache' = [cache EXCEPT !.frames = Append(@, demux.position)]
    /\ PostReadMessage("cache", TRUE)
    /\ Proceed("cache", << >>)
    /\ UNCHANGED << demux, reply >>

CacheReadFails ==
    /\ At("cache", "parserRead")
    /\ \/ ~ Unforced /\ UNCHANGED demux
       \/ Unforced /\ demux' = [demux EXCEPT !.bIOError = TRUE]
       \/ Unforced /\ demux' = [demux EXCEPT !.bEOS = TRUE]
    /\ Proceed("cache", << >>)
    /\ UNCHANGED << mq, cache, reply >>

-----------------------------------------------------------------------------
(* The calls of the component, as steps of the thread that calls.           *)

\* DemuxCompStart, which the seek callback calls on the component's own threads.
DemuxCompStart ==
    /\ At("xplayer", "demuxStart")
    /\ IF \/ demux.eStatus = "STARTED" /\ ~ demux.bBufferring
          \/ demux.eStatus = "COMPLETE"
         THEN Proceed("xplayer", << >>) /\ UNCHANGED mq
         ELSE Proceed("xplayer", << Step("await") >>) /\ Post("demux", Message("START"))
    /\ UNCHANGED << demux, cache, reply >>

\* The status after DemuxCompStart on one of the component's own threads.
StartedByCallback ==
    IF demux.bSeeking /\ demux.eStatus # "COMPLETE" THEN "STARTED" ELSE demux.eStatus

DemuxCompStop_Unforced ==
    /\ At("xplayer", "demuxStop")
    /\ demux' = [demux EXCEPT !.bStopping = TRUE]
    /\ Post("demux", Message("STOP"))
    /\ Proceed("xplayer", << Step("await") >>)
    /\ UNCHANGED << cache, reply >>

DemuxCompStop ==
    /\ At("xplayer", "demuxStop")
    /\ demux' = [demux EXCEPT !.bStopping = TRUE, !.bForceStop = @ \/ demux.pParser]
    /\ Post("demux", Message("STOP"))
    /\ Proceed("xplayer", << Step("await") >>)
    /\ UNCHANGED << cache, reply >>

DemuxCompClear ==
    /\ At("xplayer", "demuxClear")
    /\ demux' = [demux EXCEPT !.bStopping = TRUE]
    /\ Post("demux", Message("CLEAR"))
    /\ Proceed("xplayer", << Step("await") >>)
    /\ UNCHANGED << cache, reply >>

DemuxCompCancelSeek ==
    /\ At("xplayer", "demuxCancelSeek")
    /\ demux' = [demux EXCEPT !.bCancelSeek = TRUE, !.bForceStop = @ \/ demux.pParser]
    /\ Post("demux", Message("CANCEL_SEEK"))
    /\ Proceed("xplayer", << Step("await") >>)
    /\ UNCHANGED << cache, reply >>

DemuxCompCancelPrepare ==
    /\ At("xplayer", "demuxCancelPrepare")
    /\ demux' = [demux EXCEPT !.bCancelPrepare = TRUE, !.bForceStop = @ \/ demux.pParser]
    /\ Post("demux", Message("CANCEL_PREPARE"))
    /\ Proceed("xplayer", << Step("await") >>)
    /\ UNCHANGED << cache, reply >>

\* DemuxCompSeekTo and DemuxCompPrepareAsync do not wait: the state they leave.
SeekToSet ==
    [demux EXCEPT !.bCancelSeek = FALSE, !.bSeeking = TRUE,
                  !.bForceStop = @ \/ (demux.pParser
                                       /\ demux.eStatus \in {"STARTED", "PREPARED"})]

PrepareAsyncSet == [demux EXCEPT !.bCancelPrepare = FALSE, !.eStatus = "PREPARING"]

DemuxComponent ==
    \/ DemuxCompStart \/ DemuxCompStop \/ DemuxCompClear
    \/ DemuxCompCancelSeek \/ DemuxCompCancelPrepare

\* The steps of the two threads in which they do not wait for the parser.
DemuxThread ==
    \/ /\ Idle("demux") /\ mq["demux"] # << >>
       /\ \/ SetSource \/ Prepare \/ CancelPrepare
          \/ Start \/ Close("STOP") \/ Close("CLEAR")
          \/ Seek \/ CancelSeek \/ NotifyFirstFrameShowed \/ Read
    \/ /\ ~ Idle("demux")
       /\ \/ ParserPrepared \/ ParserNotPrepared \/ JoinCache \/ Closed \/ AwaitCache
          \/ SeekDone \/ SeekHit \/ StartCache \/ SeekMiss \/ SeekWaitEnds
          \/ SeekTail \/ Complete \/ BufferingEnds \/ Resumed \/ BufferingGoesOn
          \/ SendFrame \/ Underflow \/ Paused

CacheThread ==
    \/ CacheStart \/ CachePause \/ CacheQuit \/ CacheSeek \/ CacheSeekDone
    \/ CacheSeekFailed \/ CacheRead

\* The parser returns to a thread.
ParserReturns ==
    \/ ParserSeekOk \/ ParserSeekFails \/ ParserReadOk \/ ParserReadFails
    \/ CacheSeekOk \/ CacheSeekFails \/ CacheReadOk \/ CacheReadFails

=============================================================================
