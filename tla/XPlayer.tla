------------------------------ MODULE XPlayer ------------------------------
(***************************************************************************)
(* The player front end of libcedarx, xplayer.c, with the demultiplexer    *)
(* component it commands.                                                  *)
(*                                                                         *)
(* An application calls the player; a call posts a message to the xplayer  *)
(* thread and waits for its answer.  The threads of the demultiplexer call *)
(* back when the stream is prepared, has ended, when a seek has finished   *)
(* and when the player has to be paused for buffering; the player's render *)
(* thread calls back when the last picture was shown.  mMutexStatus is     *)
(* held in some of these places and not in others.                         *)
(*                                                                         *)
(* The player (player.c) is reduced to its status, the end of the stream   *)
(* and the first picture; VideoPlayback models what its calls do with the  *)
(* components.  A section under mMutexStatus that waits for nobody is one  *)
(* step.                                                                   *)
(***************************************************************************)
EXTENDS DemuxComp

CONSTANTS
    AppCalls,      \* the calls an application makes
    Seekable,      \* whether a stream is seekable, the possible values
    InitResults,   \* how initializePlayer ends: "ok", "fails", "unsupported"
    Looping,       \* the values an application gives to mLoop
    MaxSeeks,      \* bound: with more seeks under way the application does not
                   \* seek and the stream does not end
    MaxMessages    \* bound: the stream ends, and the application calls, with at
                   \* most so many messages waiting

ASSUME AppCallsAssumption ==
    AppCalls \subseteq {"SET_FILE_SOURCE", "SET_NET_SOURCE", "PREPARE", "PREPARE_ASYNC",
                       "START", "STOP", "PAUSE", "RESET", "SEEK"}
ASSUME InitResultsAssumption == InitResults \subseteq {"ok", "fails", "unsupported"}
ASSUME SwitchesAssumption == Seekable \subseteq BOOLEAN /\ Looping \subseteq BOOLEAN

VARIABLES
    ctx,           \* PlayerContext of xplayer.c
    player,        \* PlayerContext of player.c
    call,          \* what the application waits for
    mMutexStatus   \* whether the xplayer thread holds the mutex over a wait

xplayerVars == << ctx, player, call, mMutexStatus >>
vars == << demuxVars, xplayerVars >>

Init ==
    /\ DemuxInit
    /\ ctx = [mStatus |-> "IDLE", mSeeking |-> FALSE, mSeekTime |-> 0,
              mLoop |-> FALSE, mPrepareSync |-> FALSE, bSeekable |-> FALSE,
              mSemPrepareFinish |-> FALSE, mMutexMediaInfo |-> FALSE]
    /\ player = [eStatus |-> "STOPPED", bStreamEosSet |-> FALSE,
                 eosReported |-> FALSE, firstShown |-> FALSE]
    /\ call = "none"
    /\ mMutexStatus = FALSE

-----------------------------------------------------------------------------
(* The player: what a call leaves.                                          *)

PlayerStart(p) ==
    IF p.eStatus = "STARTED" THEN p
    ELSE [p EXCEPT !.eStatus = "STARTED", !.eosReported = FALSE]

PlayerPause(p) == IF p.eStatus = "STARTED" THEN [p EXCEPT !.eStatus = "PAUSED"] ELSE p

PlayerReset(p) ==
    IF p.eStatus = "STOPPED" THEN p
    ELSE [p EXCEPT !.bStreamEosSet = FALSE, !.eosReported = FALSE, !.firstShown = FALSE]

\* PlayerStop and PlayerClear.
PlayerStopped ==
    [eStatus |-> "STOPPED", bStreamEosSet |-> FALSE,
     eosReported |-> FALSE, firstShown |-> FALSE]

-----------------------------------------------------------------------------
(* The calls of the application.                                            *)

Command(id, time) == [id |-> id, time |-> time, app |-> TRUE]
Internal(id) == [id |-> id, time |-> 0, app |-> FALSE]

Commands ==
    {Command(id, time) : id \in AppCalls \ {"SEEK"}, time \in {0}}
    \union {Command(id, time) : id \in AppCalls \intersect {"SEEK"}, time \in SeekTime}

\* The seeks that wait in a queue, and the answers that nobody waits for.
SeeksPending ==
    cache.semCache + Len(SelectSeq(mq["demux"] \o mq["cache"], LAMBDA m : m.id = "SEEK"))

\* XPlayerPrepare empties mSemPrepareFinish before it posts.
AppCall ==
    /\ call = "none"
    /\ Len(mq["demux"] \o mq["cache"]) <= MaxMessages
    /\ \E c \in Commands :
         /\ c.id = "SEEK" => SeeksPending <= MaxSeeks
         /\ Post("xplayer", c)
         /\ call' = IF c.id = "PREPARE" THEN "prepare" ELSE "reply"
         /\ ctx' = [ctx EXCEPT !.mSemPrepareFinish = @ /\ c.id # "PREPARE"]
    /\ UNCHANGED << todo, demux, cache, reply, player, mMutexStatus >>

AppSetLooping ==
    /\ call = "none"
    /\ ctx.mStatus # "ERROR"
    /\ \E loop \in Looping : ctx' = [ctx EXCEPT !.mLoop = loop]
    /\ UNCHANGED << demuxVars, player, call, mMutexStatus >>

\* XPlayerPrepare has its answer and now waits for the end of the preparation.
AppPrepared ==
    /\ call = "finish"
    /\ ctx.mSemPrepareFinish
    /\ call' = "none"
    /\ ctx' = [ctx EXCEPT !.mSemPrepareFinish = FALSE]
    /\ UNCHANGED << demuxVars, player, mMutexStatus >>

-----------------------------------------------------------------------------
(* The xplayer thread.                                                      *)

Answer(m, ok) == Only(m.app, << [op |-> "answer", ok |-> ok] >>)
SetStatus(status) == [op |-> "status", status |-> status]

\* The thread takes the message and has the steps to do.
Received == Head(mq["xplayer"])

Handle(id, steps) ==
    /\ Take("xplayer", id)
    /\ Does("xplayer", steps)
    /\ UNCHANGED << demux, cache, reply, player, call, mMutexStatus >>

AnswerCall ==
    /\ At("xplayer", "answer")
    /\ call' = IF call = "prepare" /\ Head(todo["xplayer"]).ok THEN "finish" ELSE "none"
    /\ Proceed("xplayer", << >>)
    /\ UNCHANGED << mq, demux, cache, reply, ctx, player, mMutexStatus >>

\* The thread waits for the answer of the demux thread.
AwaitDemux ==
    /\ At("xplayer", "await")
    /\ reply # "none"
    /\ reply' = "none"
    /\ Proceed("xplayer", << >>)
    /\ UNCHANGED << mq, demux, cache, xplayerVars >>

SetDataSource ==
    \E id \in {"SET_FILE_SOURCE", "SET_NET_SOURCE"} :
        /\ Idle("xplayer") /\ mq["xplayer"] # << >>
        /\ LET m == Head(mq["xplayer"])
               valid == ctx.mStatus \in {"IDLE", "INITIALIZED"}
           IN  /\ m.id = id
               /\ mq' = [mq EXCEPT !["xplayer"] = Tail(@),
                                   !["demux"] = IF valid THEN Append(@, Message(id)) ELSE @]
               /\ Does("xplayer", IF valid THEN << Step("sourceSet") >> ELSE Answer(Received, FALSE))
        /\ UNCHANGED << demux, cache, reply, xplayerVars >>

SourceSet ==
    /\ At("xplayer", "sourceSet")
    /\ reply # "none"
    /\ reply' = "none"
    /\ ctx' = [ctx EXCEPT !.mStatus = IF reply = "ok" THEN "INITIALIZED" ELSE "IDLE"]
    /\ Proceed("xplayer", << [op |-> "answer", ok |-> reply = "ok"] >>)
    /\ UNCHANGED << mq, demux, cache, player, call, mMutexStatus >>

PreparePlayer ==
    \E id \in {"PREPARE", "PREPARE_ASYNC"} :
        /\ Idle("xplayer") /\ mq["xplayer"] # << >>
        /\ LET m == Head(mq["xplayer"])
               prepared == ctx.mStatus = "PREPARED"
               valid == ctx.mStatus \in {"INITIALIZED", "STOPPED"}
           IN  /\ m.id = id
               /\ mq' = [mq EXCEPT !["xplayer"] = Tail(@),
                           !["demux"] = IF valid THEN Append(@, Message("PREPARE")) ELSE @]
               /\ Does("xplayer", Answer(Received, prepared \/ valid))
               /\ demux' = IF valid THEN PrepareAsyncSet ELSE demux
               /\ ctx' = IF valid
                           THEN [ctx EXCEPT !.mStatus = "PREPARING",
                                            !.mPrepareSync = id = "PREPARE"]
                           ELSE [ctx EXCEPT !.mSemPrepareFinish =
                                   @ \/ (prepared /\ id = "PREPARE")]
        /\ UNCHANGED << cache, reply, player, call, mMutexStatus >>

Playable == {"PREPARED", "STARTED", "PAUSED", "COMPLETE"}

StartPlayer ==
    /\ Handle("START",
           IF ctx.mStatus \in Playable
             THEN << Step("start") >> \o Answer(Received, TRUE)
             ELSE Answer(Received, FALSE))
    /\ UNCHANGED ctx

\* The rest of the start command, once mMutexStatus is free.
StartWhenStarted ==
    /\ ctx.mStatus = "STARTED"
    /\ IF player.eStatus = "PAUSED" /\ ~ ctx.mSeeking
         THEN /\ mMutexStatus' = TRUE
              /\ player' = PlayerStart(player)
              /\ Proceed("xplayer", << Step("demuxStart"), Step("unlock") >>)
         ELSE Proceed("xplayer", << >>) /\ UNCHANGED << player, mMutexStatus >>
    /\ UNCHANGED << mq, demux, ctx >>

StartWhenSeeking_Forgets ==
    /\ ctx.mStatus # "STARTED"
    /\ ctx.mSeeking
    /\ ctx' = [ctx EXCEPT !.mSeeking = FALSE, !.mStatus = "STARTED"]
    /\ Proceed("xplayer", << >>)
    /\ UNCHANGED << mq, demux, player, mMutexStatus >>

\* Player and demux are left to the seek callback.
StartWhenSeeking ==
    /\ ctx.mStatus # "STARTED"
    /\ ctx.mSeeking
    /\ ctx' = [ctx EXCEPT !.mStatus = "STARTED"]
    /\ Proceed("xplayer", << >>)
    /\ UNCHANGED << mq, demux, player, mMutexStatus >>

\* A completed stream is played from mSeekTime, or stopped and prepared again.
StartWhenComplete ==
    /\ ctx.mStatus = "COMPLETE"
    /\ ~ ctx.mSeeking
    /\ IF ctx.bSeekable
         THEN /\ ctx' = [ctx EXCEPT !.mSeeking = TRUE, !.mStatus = "STARTED"]
              /\ player' = PlayerPause(player)
              /\ demux' = SeekToSet
              /\ Post("demux", [Message("SEEK") EXCEPT !.time = ctx.mSeekTime])
         ELSE /\ mq' = [mq EXCEPT !["xplayer"] =
                          @ \o << Internal("STOP"), Internal("PREPARE"), Internal("START") >>]
              /\ UNCHANGED << ctx, player, demux >>
    /\ Proceed("xplayer", << >>)
    /\ UNCHANGED mMutexStatus

\* Otherwise the mutex is released before player and demux are started.
StartOtherwise ==
    /\ ctx.mStatus \notin {"STARTED", "COMPLETE"}
    /\ ~ ctx.mSeeking
    /\ Proceed("xplayer", << Step("playerStart"), Step("demuxStart"), SetStatus("STARTED") >>)
    /\ UNCHANGED << mq, demux, ctx, player, mMutexStatus >>

StartLocked ==
    /\ At("xplayer", "start")
    /\ StartWhenStarted \/ StartWhenSeeking \/ StartWhenComplete \/ StartOtherwise
    /\ UNCHANGED << cache, reply, call >>

Unlock ==
    /\ At("xplayer", "unlock")
    /\ mMutexStatus' = FALSE
    /\ Proceed("xplayer", << >>)
    /\ UNCHANGED << mq, demux, cache, reply, ctx, player, call >>

\* The calls of the player, and the changes of mStatus, outside the mutex.
CallPlayer ==
    /\ \/ At("xplayer", "playerStart") /\ player' = PlayerStart(player)
       \/ At("xplayer", "playerStop") /\ player' = PlayerStopped
    /\ Proceed("xplayer", << >>)
    /\ UNCHANGED << mq, demux, cache, reply, ctx, call, mMutexStatus >>

ChangeStatus ==
    /\ At("xplayer", "status")
    /\ LET status == Head(todo["xplayer"]).status
       IN  ctx' = [ctx EXCEPT !.mStatus = status, !.mLoop = @ /\ status # "IDLE"]
    /\ Proceed("xplayer", << >>)
    /\ UNCHANGED << mq, demux, cache, reply, player, call, mMutexStatus >>

CancelIfSeeking == Only(ctx.mSeeking, << Step("demuxCancelSeek"), Step("notSeeking") >>)

NotSeeking ==
    /\ At("xplayer", "notSeeking")
    /\ ctx' = [ctx EXCEPT !.mSeeking = FALSE]
    /\ Proceed("xplayer", << >>)
    /\ UNCHANGED << mq, demux, cache, reply, player, call, mMutexStatus >>

StopPlayer ==
    /\ Handle("STOP",
           IF ctx.mStatus \in Playable
             THEN CancelIfSeeking \o << Step("demuxStop"), Step("playerStop"),
                                        SetStatus("STOPPED") >> \o Answer(Received, TRUE)
             ELSE Answer(Received, ctx.mStatus = "STOPPED"))
    /\ UNCHANGED ctx

PausePlayer ==
    /\ Handle("PAUSE",
           IF ctx.mStatus \in {"STARTED", "COMPLETE"}
             THEN << Step("pause") >> \o Answer(Received, TRUE)
             ELSE Answer(Received, ctx.mStatus = "PAUSED"))
    /\ UNCHANGED ctx

PauseLocked ==
    /\ At("xplayer", "pause")
    /\ player' = IF ctx.mSeeking THEN player ELSE PlayerPause(player)
    /\ ctx' = [ctx EXCEPT !.mStatus = "PAUSED"]
    /\ Proceed("xplayer", << >>)
    /\ UNCHANGED << mq, demux, cache, reply, call, mMutexStatus >>

ResetPlayer ==
    /\ Handle("RESET",
           (IF ctx.mStatus = "STOPPED" THEN << >>
            ELSE Only(ctx.mStatus = "PREPARING", << Step("demuxCancelPrepare") >>)
                 \o CancelIfSeeking
                 \o << Step("demuxStop"), Step("demuxClear"), Step("playerStop"),
                       SetStatus("IDLE") >>)
           \o Answer(Received, TRUE))
    /\ ctx' = IF ctx.mStatus = "STOPPED" THEN [ctx EXCEPT !.mStatus = "IDLE"] ELSE ctx

SeekPlayer ==
    /\ Handle("SEEK",
           IF ctx.mStatus \notin Playable THEN Answer(Received, FALSE)
           ELSE IF ctx.mStatus = "COMPLETE"
             THEN << Timed("seekTime", Received.time) >> \o Answer(Received, TRUE)
           ELSE Only(ctx.bSeekable,
                     CancelIfSeeking \o << Timed("seek", Received.time), Step("seekPlayer"),
                                           Step("seekDemux") >>)
                \o Answer(Received, TRUE))
    /\ UNCHANGED ctx

\* A completed stream stays complete; a start will seek.
SeekTimeLocked ==
    /\ At("xplayer", "seekTime")
    /\ ctx' = [ctx EXCEPT !.mSeekTime = Head(todo["xplayer"]).time]
    /\ Proceed("xplayer", << >>)
    /\ UNCHANGED << mq, demux, cache, reply, player, call, mMutexStatus >>

SeekLocked ==
    /\ At("xplayer", "seek")
    /\ ctx' = [ctx EXCEPT !.mSeeking = TRUE, !.mSeekTime = Head(todo["xplayer"]).time]
    /\ Proceed("xplayer", << >>)
    /\ UNCHANGED << mq, demux, cache, reply, player, call, mMutexStatus >>

\* Player and demux are called after the mutex has been released.
SeekPausesPlayer ==
    /\ At("xplayer", "seekPlayer")
    /\ player' = PlayerPause(IF player.eStatus = "STOPPED" THEN PlayerStart(player)
                                                           ELSE player)
    /\ Proceed("xplayer", << >>)
    /\ UNCHANGED << mq, demux, cache, reply, ctx, call, mMutexStatus >>

SeekCallsDemux ==
    /\ At("xplayer", "seekDemux")
    /\ demux' = SeekToSet
    /\ Post("demux", [Message("SEEK") EXCEPT !.time = ctx.mSeekTime])
    /\ Proceed("xplayer", << >>)
    /\ UNCHANGED << cache, reply, xplayerVars >>

-----------------------------------------------------------------------------
(* callbackProcess, on the threads of the demultiplexer.                    *)

\* initializePlayer holds mMutexMediaInfo; it does not release it when the
\* video is not supported.
Prepared ==
    /\ At("demux", "PREPARED")
    /\ ~ ctx.mMutexMediaInfo
    /\ \E result \in InitResults, seekable \in Seekable :
         ctx' = [ctx EXCEPT !.mStatus = IF result = "ok" THEN "PREPARED" ELSE "ERROR",
                            !.bSeekable = seekable,
                            !.mMutexMediaInfo = result = "unsupported",
                            !.mSemPrepareFinish = @ \/ ctx.mPrepareSync]
    /\ Proceed("demux", << >>)
    /\ UNCHANGED << mq, demux, cache, reply, player, call, mMutexStatus >>

PrepareFailed ==
    /\ At("demux", "PREPARE_FAILED")
    /\ ctx' = [ctx EXCEPT !.mStatus = "ERROR",
                          !.mSemPrepareFinish = @ \/ ctx.mPrepareSync]
    /\ Proceed("demux", << >>)
    /\ UNCHANGED << mq, demux, cache, reply, player, call, mMutexStatus >>

NotifyEos ==
    /\ At("demux", "EOS")
    /\ player' = [player EXCEPT !.bStreamEosSet = TRUE]
    /\ Proceed("demux", << >>)
    /\ UNCHANGED << mq, demux, cache, reply, ctx, call, mMutexStatus >>

PauseOrResume ==
    /\ At("demux", "PAUSE_PLAYER") \/ At("demux", "RESUME_PLAYER")
    /\ player' = IF ctx.mStatus # "STARTED" THEN player
                 ELSE IF At("demux", "PAUSE_PLAYER") THEN PlayerPause(player)
                 ELSE PlayerStart(player)
    /\ Proceed("demux", << >>)
    /\ UNCHANGED << mq, demux, cache, reply, ctx, call, mMutexStatus >>

NotifySeekFinish_AlwaysPlays(t) ==
    /\ At(t, "SEEK_FINISH")
    /\ LET ok == Head(todo[t]).result = "ok"
       IN  /\ player' = IF ok THEN PlayerStart(PlayerReset(player)) ELSE player
           /\ ctx' = [ctx EXCEPT !.mSeeking = @ /\ ~ ok]
           /\ demux' = [demux EXCEPT !.eStatus = IF ok THEN StartedByCallback ELSE @,
                                     !.sent = @ /\ ~ ok]
    /\ Proceed(t, << >>)
    /\ UNCHANGED << mq, cache, reply, call, mMutexStatus >>

\* The end of a seek: the player is reset, and started if this was the latest
\* seek and the user wants to play.
NotifySeekFinish(t) ==
    /\ At(t, "SEEK_FINISH")
    /\ LET ok == Head(todo[t]).result = "ok"
           latest == ok /\ Head(todo[t]).time = ctx.mSeekTime
           plays == latest /\ ctx.mStatus = "STARTED"
       IN  /\ player' = IF plays THEN PlayerStart(PlayerReset(player))
                        ELSE IF ok THEN PlayerReset(player) ELSE player
           /\ ctx' = [ctx EXCEPT !.mSeeking = @ /\ ~ latest]
           /\ demux' = [demux EXCEPT !.eStatus = IF plays THEN StartedByCallback ELSE @,
                                     !.sent = @ /\ ~ ok]
    /\ Proceed(t, << >>)
    /\ UNCHANGED << mq, cache, reply, call, mMutexStatus >>

-----------------------------------------------------------------------------
(* callbackProcess, on the render thread.  No lock is taken here.           *)

NotifyPlaybackEos ==
    /\ player.eStatus = "STARTED" /\ player.bStreamEosSet /\ ~ player.eosReported
    /\ Len(mq["xplayer"]) <= MaxMessages /\ SeeksPending <= MaxSeeks
    /\ player' = [player EXCEPT !.eosReported = TRUE]
    /\ ctx' = [ctx EXCEPT !.mStatus = "COMPLETE", !.mSeekTime = 0]
    /\ mq' = IF ctx.mLoop THEN [mq EXCEPT !["xplayer"] = Append(@, Internal("START"))]
                          ELSE mq
    /\ UNCHANGED << todo, demux, cache, reply, call, mMutexStatus >>

NotifyFirstPicture ==
    /\ player.eStatus # "STOPPED" /\ demux.sent /\ ~ player.firstShown
    /\ Len(mq["demux"]) <= MaxMessages
    /\ player' = [player EXCEPT !.firstShown = TRUE]
    /\ Post("demux", Message("FIRST_FRAME"))
    /\ UNCHANGED << todo, demux, cache, reply, ctx, call, mMutexStatus >>

-----------------------------------------------------------------------------
Application == AppCall \/ AppSetLooping

\* The steps that need mMutexStatus.
LockedByXPlayer == StartLocked \/ PauseLocked \/ SeekTimeLocked \/ SeekLocked
LockedByCallback(t) == NotifySeekFinish(t) \/ (t = "demux" /\ PauseOrResume)

XPlayerThread ==
    \/ /\ Idle("xplayer") /\ mq["xplayer"] # << >>
       /\ \/ SetDataSource \/ PreparePlayer \/ StartPlayer \/ StopPlayer
          \/ PausePlayer \/ ResetPlayer \/ SeekPlayer
    \/ /\ ~ Idle("xplayer")
       /\ \/ SourceSet \/ AnswerCall \/ AwaitDemux \/ Unlock \/ CallPlayer
          \/ ChangeStatus \/ NotSeeking \/ SeekPausesPlayer \/ SeekCallsDemux
          \/ DemuxComponent /\ UNCHANGED xplayerVars
          \/ ~ mMutexStatus /\ LockedByXPlayer

DemuxThreadSteps ==
    \/ DemuxThread /\ UNCHANGED xplayerVars
    \/ Prepared \/ PrepareFailed \/ NotifyEos
    \/ ~ mMutexStatus /\ LockedByCallback("demux")

CacheThreadSteps ==
    \/ CacheThread /\ UNCHANGED xplayerVars
    \/ ~ mMutexStatus /\ LockedByCallback("cache")

\* The parser returns at last when it is forced to stop.
ParserForced == demux.bForceStop /\ ParserReturns /\ UNCHANGED xplayerVars

RenderThread == NotifyPlaybackEos \/ NotifyFirstPicture

Next ==
    \/ Application
    \/ AppPrepared
    \/ XPlayerThread
    \/ DemuxThreadSteps
    \/ CacheThreadSteps
    \/ SeekWaitIsLong /\ UNCHANGED xplayerVars
    \/ ParserReturns /\ UNCHANGED xplayerVars
    \/ RenderThread

\* The threads are scheduled.  A parser may block in a read or a seek until it
\* is forced to stop, and the application need not call.
Fairness ==
    /\ WF_vars(AppPrepared)
    /\ WF_vars(XPlayerThread)
    /\ WF_vars(DemuxThreadSteps)
    /\ WF_vars(CacheThreadSteps)
    /\ WF_vars(ParserForced)

Spec == Init /\ [][Next]_vars /\ Fairness

-----------------------------------------------------------------------------
(* Properties.                                                              *)

\* Type invariant of the front end and of the component.
TypeOK ==
    /\ DOMAIN todo = Thread /\ DOMAIN mq = Thread
    /\ demux.eStatus \in {"IDLE", "INITIALIZED", "PREPARING", "PREPARED", "STARTED",
                         "STOPPED", "COMPLETE"}
    /\ demux.position \in SeekTime \union {0}
    /\ cache.semCache \in Nat
    /\ cache.frames \in Seq(SeekTime \union {0}) /\ Len(cache.frames) <= CacheSize
    /\ ctx.mStatus \in {"IDLE", "INITIALIZED", "PREPARING", "PREPARED", "STARTED",
                       "PAUSED", "STOPPED", "COMPLETE", "ERROR"}
    /\ player.eStatus \in {"STARTED", "PAUSED", "STOPPED"}
    /\ reply \in {"none", "ok", "fail"}
    /\ call \in {"none", "reply", "prepare", "finish"}
    /\ mMutexStatus \in BOOLEAN

InParser(t) == At(t, "parserRead") \/ At(t, "parserSeek")

\* A stop or a clear closes the parser only after the cache thread has left it
\* for good (DemuxThread joins it before CdxParserClose): no thread is inside a
\* parser that was closed.
ParserOpen == \A t \in Thread : InParser(t) => demux.pParser

\* "when user are requesting to quit the seek operation, we should not clear the
\* parser's force stop flag, other wise the parser may blocked at a network io
\* operation": no seek, of either thread, takes back the force stop of a cancel
\* or a stop before the thread is out of the parser.
CancelForcesParser ==
    \A t \in Thread :
        InParser(t) /\ (demux.bCancelSeek \/ demux.bStopping) => demux.bForceStop

\* "should not run here, pParser should be NULL under INITIALIZED or STOPPED
\* status": however the commands before it ended, a prepare finds no open parser
\* that it would have to throw away (demuxComponent.c).
PrepareFindsClosed ==
    Idle("demux") /\ mq["demux"] # << >> /\ Head(mq["demux"]).id = "PREPARE"
    => ~ demux.pParser

\* The xplayer thread has nothing to do.
Quiet == Idle("xplayer") /\ mq["xplayer"] = << >>

\* A started demux thread never falls asleep for good: PostReadMessage leaves
\* its message out when another is queued, so every message taken while it
\* reads, seeks or is started by the seek callback has to keep the reading
\* going, unless the stream is broken or a command is about to come.
DemuxLoopAlive ==
    demux.eStatus = "STARTED" /\ Idle("demux") /\ mq["demux"] = << >> /\ ~ demux.bIOError
    => ~ Quiet

\* A user who has paused sees no playing, although the callback of a seek, which
\* starts the player, may run before, in between or after (xplayer.c takes
\* mMutexStatus for that).
PausedMeansPaused == ctx.mStatus = "PAUSED" /\ Quiet => player.eStatus # "STARTED"

\* The reverse: with no seek under way, a started front end has a started player,
\* or one paused for buffering that the demux thread will resume.
StartedPlays ==
    ctx.mStatus = "STARTED" /\ Quiet /\ ~ ctx.mSeeking
    => player.eStatus = "STARTED" \/ demux.bBufferring \/ At("demux", "RESUME_PLAYER")

\* Every call of the application returns, although the parser may block for ever
\* in a read or a seek: each command that waits for the demux thread has forced
\* it out of the parser before.
CallsReturn == call # "none" ~> call = "none"

\* "user press the start button when buffering. start to play even the data is
\* not enough": the start command gets through, and releases mMutexStatus.
StartEndsBuffering == mMutexStatus ~> ~ mMutexStatus

\* "loop is set, send start command", "seek to the file start and replay": a
\* completed stream plays again, unless it cannot be prepared or the application
\* calls.
LoopReplays ==
    ctx.mLoop /\ ctx.mStatus = "COMPLETE"
    ~> ctx.mStatus \in {"STARTED", "ERROR"} \/ call # "none"

=============================================================================
