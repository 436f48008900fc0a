--------------------------- MODULE VideoPlayback ---------------------------
(***************************************************************************)
(* The video path of the player: the video decode component and the video  *)
(* render component of libcedarx, each a thread with a message queue       *)
(* (baseComponent.c), commanded by the player (player.c).                  *)
(*                                                                         *)
(* A command is posted and its caller waits for a reply semaphore.  A      *)
(* thread that has more work posts "continue" to itself, but only when its *)
(* queue is empty: otherwise the next message has to keep it going.  The   *)
(* two threads meet in three places: the render thread reopens the engine  *)
(* when the resolution changed, and then continues the decode thread; the  *)
(* decode thread tells the render thread the end of the stream, and waits. *)
(*                                                                         *)
(* Commands come from the xplayer thread (start, pause, stop) and from the *)
(* demux thread (reset after a seek, end of stream).  Start, pause, stop   *)
(* and reset are issued one after the other (mMutexStatus of xplayer.c);   *)
(* the end of the stream comes at any time the demux thread runs.          *)
(*                                                                         *)
(* A message queue is the FIFO that MessageQueue implements.  The message  *)
(* a thread handles is worked off in steps, todo; the variables that only  *)
(* the thread itself reads change when it takes the message.               *)
(***************************************************************************)
EXTENDS Naturals, Sequences

CONSTANT
    nMaxMessageNum    \* nodes of a component's message queue (4 in the code)

ASSUME QueueSizeAssumption == nMaxMessageNum \in Nat \ {0}

Comp == {"dec", "render"}
Command == {"start", "stop", "pause", "reset", "eos", "quit"}
Caller == {"xplayer", "demux"}

VARIABLES
    mq,                 \* the message queues
    todo,               \* what a component's thread has still to do
    replySem,           \* the reply semaphores, per component and command
    status,             \* eStatus of the components
    firstShown,         \* firstFrameStatus is READY, bFirstPictureShowed
    bEosFlag,           \* bEosFlag of the components
    bCrashFlag,         \* the decoder has given up
    bResolutionChange,  \* the decoder waits for the engine to be reopened
    script,             \* what a caller has still to do
    eStatus,            \* the player's status
    demux               \* whether the demux thread delivers data

compVars == << status, firstShown, bEosFlag, bCrashFlag, bResolutionChange >>
playerVars == << script, eStatus, demux >>
vars == << mq, todo, replySem, compVars, playerVars >>

(* The steps of a thread: commands to a component and replies to them,     *)
(* and steps without parameters.                                           *)
Step(name) == [op |-> name]
Call(c, id) == [op |-> "call", comp |-> c, id |-> id]
ReplyTo(id) == [op |-> "reply", id |-> id]
Only(condition, steps) == IF condition THEN steps ELSE << >>

Init ==
    /\ mq = [c \in Comp |-> << >>]
    /\ todo = [c \in Comp |-> << >>]
    /\ replySem = [c \in Comp |-> [id \in Command |-> 0]]
    /\ status = [c \in Comp |-> "STOPPED"]
    /\ firstShown = [c \in Comp |-> FALSE]
    /\ bEosFlag = [c \in Comp |-> FALSE]
    /\ bCrashFlag = FALSE
    /\ bResolutionChange = FALSE
    /\ script = [t \in Caller |-> << >>]
    /\ eStatus = "STOPPED"
    /\ demux = "stopped"

-----------------------------------------------------------------------------
(* The component base, baseComponent.c.                                     *)

\* The thread of component c is at the step with this name, takes it, and has
\* the given steps to do instead.
At(c, name) == todo[c] # << >> /\ Head(todo[c]).op = name
Proceed(c, steps) == todo' = [todo EXCEPT ![c] = steps \o Tail(@)]
Post(c, id) == mq' = [mq EXCEPT ![c] = Append(@, id)]

\* The thread of component c takes the command id off its queue.
Take(c, id, steps) ==
    /\ todo[c] = << >>
    /\ mq[c] # << >>
    /\ Head(mq[c]) = id
    /\ mq' = [mq EXCEPT ![c] = Tail(@)]
    /\ todo' = [todo EXCEPT ![c] = steps]
    /\ UNCHANGED << replySem, playerVars >>

(* Definitions whose names end in _Un..., _Never or the like are faulty     *)
(* variants: a slip in the code that a property must detect.                *)

QueueFree_Unchecked(c) == TRUE

\* BaseCompContinue looks at the number of messages, and posts afterwards.
QueueFree(c) == mq[c] = << >>

BaseCompContinue(c) ==
    /\ At(c, "continue")
    /\ Proceed(c, Only(QueueFree(c), << Step("post") >>))
    /\ UNCHANGED << mq, replySem, compVars, playerVars >>

PostContinue(c) ==
    /\ At(c, "post")
    /\ Post(c, "continue")
    /\ Proceed(c, << >>)
    /\ UNCHANGED << replySem, compVars, playerVars >>

SendReply(c) ==
    /\ At(c, "reply")
    /\ replySem' = [replySem EXCEPT ![c][Head(todo[c]).id] = @ + 1]
    /\ Proceed(c, << >>)
    /\ UNCHANGED << mq, compVars, playerVars >>

\* A component works while it is started, and while it is paused before its
\* first picture.
Works(c) == \/ status[c] = "STARTED"
            \/ status[c] = "PAUSED" /\ ~ firstShown[c]

Running == << Step("continue") >>

-----------------------------------------------------------------------------
(* The video decode component, videoDecComponent.c.                         *)

DecStart ==
    LET stopped == status["dec"] = "STOPPED"
    IN  /\ Take("dec", "start",
               Only(status["dec"] = "PAUSED" /\ ~ bCrashFlag, Running)
               \o Only(stopped, Running \o << Step("reset") >>)
               \o << ReplyTo("start") >>)
        /\ status' = [status EXCEPT !["dec"] = "STARTED"]
        /\ bEosFlag' = [bEosFlag EXCEPT !["dec"] = @ /\ ~ stopped]
        /\ UNCHANGED << firstShown, bCrashFlag, bResolutionChange >>

\* There is no return after the reply to a component that is stopped.
DecStop ==
    /\ Take("dec", "stop",
           Only(status["dec"] = "STOPPED", << ReplyTo("stop") >>)
           \o << Step("reset"), ReplyTo("stop") >>)
    /\ status' = [status EXCEPT !["dec"] = "STOPPED"]
    /\ firstShown' = [firstShown EXCEPT !["dec"] = FALSE]
    /\ UNCHANGED << bEosFlag, bCrashFlag, bResolutionChange >>

DecPause ==
    /\ Take("dec", "pause",
           Only(Works("dec") /\ ~ firstShown["dec"], Running)
           \o << ReplyTo("pause") >>)
    /\ status' = [status EXCEPT !["dec"] = IF Works("dec") THEN "PAUSED" ELSE @]
    /\ UNCHANGED << firstShown, bEosFlag, bCrashFlag, bResolutionChange >>

DecQuit ==
    /\ Take("dec", "quit",
           << Step("reset"), ReplyTo("quit"), Step("exited") >>)
    /\ status' = [status EXCEPT !["dec"] = "STOPPED"]
    /\ UNCHANGED << firstShown, bEosFlag, bCrashFlag, bResolutionChange >>

ContinueAfterReset == Only(status["dec"] # "STOPPED", Running)

DecReset ==
    /\ Take("dec", "reset",
           << Step("reset"), ReplyTo("reset") >> \o ContinueAfterReset)
    /\ bEosFlag' = [bEosFlag EXCEPT !["dec"] = FALSE]
    /\ firstShown' = [firstShown EXCEPT !["dec"] = FALSE]
    /\ UNCHANGED << status, bCrashFlag, bResolutionChange >>

DecSetEos ==
    /\ Take("dec", "eos",
           << ReplyTo("eos") >>
           \o Only(bCrashFlag, << Step("notifyEos") >>)
           \o Only(~ bCrashFlag /\ Works("dec"), Running))
    /\ bEosFlag' = [bEosFlag EXCEPT !["dec"] = TRUE]
    /\ UNCHANGED << status, firstShown, bCrashFlag, bResolutionChange >>

DecContinue ==
    /\ Take("dec", "continue", << Step("doDecode") >>)
    /\ UNCHANGED compVars

MayDecode_Reopening == Works("dec") /\ ~ bCrashFlag

MayDecode == Works("dec") /\ ~ bCrashFlag /\ ~ bResolutionChange

DoDecode ==
    /\ At("dec", "doDecode")
    /\ Proceed("dec", Only(MayDecode, << Step("decode") >>))
    /\ UNCHANGED << mq, replySem, compVars, playerVars >>

-----------------------------------------------------------------------------
(* What a call of DecodeVideoStream leads to.                               *)

NoBitstream ==
    /\ Proceed("dec", IF bEosFlag["dec"] THEN << Step("notifyEos") >>
                                         ELSE Running)
    /\ UNCHANGED compVars

NoFrameBuffer ==
    /\ Proceed("dec", Running)
    /\ UNCHANGED compVars

ResolutionChange ==
    /\ bResolutionChange' = TRUE
    /\ Proceed("dec", << >>)
    /\ UNCHANGED << status, firstShown, bEosFlag, bCrashFlag >>

Unsupported ==
    /\ bCrashFlag' = TRUE
    /\ Proceed("dec", << >>)
    /\ UNCHANGED << status, firstShown, bEosFlag, bResolutionChange >>

\* Data was consumed, with or without a frame as the result.
Decoded ==
    \E frame \in BOOLEAN :
        /\ firstShown' = [firstShown EXCEPT !["dec"] = @ \/ frame]
        /\ Proceed("dec", Only(status["dec"] = "STARTED" \/ ~ firstShown'["dec"],
                               Running))
        /\ UNCHANGED << status, bEosFlag, bCrashFlag, bResolutionChange >>

DecodeVideoStream ==
    /\ At("dec", "decode")
    /\ NoBitstream \/ NoFrameBuffer \/ ResolutionChange \/ Unsupported \/ Decoded
    /\ UNCHANGED << mq, replySem, playerVars >>

\* ResetVideoDecoder on the decode thread comes to its end.
ResetVideoDecoder ==
    /\ At("dec", "reset")
    /\ Proceed("dec", << >>)
    /\ UNCHANGED << mq, replySem, compVars, playerVars >>

\* The player's callback hands the end of the stream to the render component
\* and waits for its reply; a render component that is gone is not told.
NotifyEos ==
    /\ At("dec", "notifyEos")
    /\ IF At("render", "exited")
         THEN Proceed("dec", << >>) /\ UNCHANGED mq
         ELSE Proceed("dec", << Step("awaitEos") >>) /\ Post("render", "eos")
    /\ UNCHANGED << replySem, compVars, playerVars >>

AwaitEos ==
    /\ At("dec", "awaitEos")
    /\ replySem["render"]["eos"] > 0
    /\ replySem' = [replySem EXCEPT !["render"]["eos"] = @ - 1]
    /\ Proceed("dec", << >>)
    /\ UNCHANGED << mq, compVars, playerVars >>

-----------------------------------------------------------------------------
(* The video render component, videoRenderComponent_newDisplay.c.           *)

RenderStart ==
    LET stopped == status["render"] = "STOPPED"
    IN  /\ Take("render", "start", << ReplyTo("start") >> \o Running)
        /\ status' = [status EXCEPT !["render"] = "STARTED"]
        /\ firstShown' = [firstShown EXCEPT !["render"] = @ /\ ~ stopped]
        /\ bEosFlag' = [bEosFlag EXCEPT !["render"] = @ /\ ~ stopped]
        /\ UNCHANGED << bCrashFlag, bResolutionChange >>

RenderStop ==
    /\ Take("render", "stop", << ReplyTo("stop") >>)
    /\ status' = [status EXCEPT !["render"] = "STOPPED"]
    /\ UNCHANGED << firstShown, bEosFlag, bCrashFlag, bResolutionChange >>

ContinuePaused_Never == << >>

\* A render component that is paused goes on until it has shown a picture.
ContinuePaused == Only(Works("render") /\ ~ firstShown["render"], Running)

RenderPause ==
    /\ Take("render", "pause", << ReplyTo("pause") >> \o ContinuePaused)
    /\ status' = [status EXCEPT !["render"] =
                    IF Works("render") THEN "PAUSED" ELSE @]
    /\ UNCHANGED << firstShown, bEosFlag, bCrashFlag, bResolutionChange >>

RenderQuit ==
    /\ Take("render", "quit", << ReplyTo("quit"), Step("exited") >>)
    /\ status' = [status EXCEPT !["render"] = "STOPPED"]
    /\ UNCHANGED << firstShown, bEosFlag, bCrashFlag, bResolutionChange >>

RenderReset ==
    /\ Take("render", "reset",
           << ReplyTo("reset") >> \o Only(status["render"] # "STOPPED", Running))
    /\ bEosFlag' = [bEosFlag EXCEPT !["render"] = FALSE]
    /\ firstShown' = [firstShown EXCEPT !["render"] = FALSE]
    /\ UNCHANGED << status, bCrashFlag, bResolutionChange >>

RenderSetEos ==
    /\ Take("render", "eos", << ReplyTo("eos") >> \o Only(Works("render"), Running))
    /\ bEosFlag' = [bEosFlag EXCEPT !["render"] = TRUE]
    /\ UNCHANGED << status, firstShown, bCrashFlag, bResolutionChange >>

DoRender ==
    /\ Take("render", "continue", Only(Works("render"), << Step("picture") >>))
    /\ UNCHANGED compVars

LeaveRender_AtEosOnly ==
    /\ bEosFlag["render"]
    /\ Proceed("render", << >>)
    /\ UNCHANGED firstShown

\* What doRender does with the picture it asks for.  It shows the picture, or
\* drops it to catch up with the clock, ...
ShowPicture ==
    /\ firstShown' = [firstShown EXCEPT !["render"] = TRUE]
    /\ Proceed("render", Only(status["render"] = "STARTED", Running))

DropPicture ==
    /\ Proceed("render", Running)
    /\ UNCHANGED firstShown

\* ... and without a picture it leaves when the stream has ended or a message
\* waits, and reopens the engine when the decoder waits for that.
LeaveRender ==
    /\ bEosFlag["render"] \/ mq["render"] # << >>
    /\ Proceed("render", << >>)
    /\ UNCHANGED firstShown

BeginReopen ==
    /\ ~ bEosFlag["render"]
    /\ bResolutionChange
    /\ Proceed("render", << Step("reopen"), Step("decContinue") >> \o Running)
    /\ UNCHANGED firstShown

OtherThanPicture ==
    << mq, replySem, status, bEosFlag, bCrashFlag, bResolutionChange, playerVars >>

PictureComes ==
    /\ At("render", "picture")
    /\ ShowPicture \/ DropPicture
    /\ UNCHANGED OtherThanPicture

NoPictureComes ==
    /\ At("render", "picture")
    /\ LeaveRender \/ BeginReopen
    /\ UNCHANGED OtherThanPicture

\* VideoDecCompReopenVideoEngine on the render thread comes to its end ...
ReopenVideoEngine ==
    /\ At("render", "reopen")
    /\ bResolutionChange' = FALSE
    /\ Proceed("render", << >>)
    /\ UNCHANGED << mq, replySem, status, firstShown, bEosFlag, bCrashFlag,
                    playerVars >>

\* ... and continues the decode component.
ContinueDecoder ==
    /\ At("render", "decContinue")
    /\ Proceed("render", Only(QueueFree("dec"), << Step("decPost") >>))
    /\ UNCHANGED << mq, replySem, compVars, playerVars >>

PostToDecoder ==
    /\ At("render", "decPost")
    /\ Post("dec", "continue")
    /\ Proceed("render", << >>)
    /\ UNCHANGED << replySem, compVars, playerVars >>

-----------------------------------------------------------------------------
(* The player's commands, player.c, as xplayer.c and the demux thread issue *)
(* them: calls of the components, and changes of the player's own status.   *)

Join(c) == [op |-> "join", comp |-> c]
SetStatus(value) == [op |-> "status", value |-> value]
SetDemux(value) == [op |-> "demux", value |-> value]

Idle(t) == script[t] = << >>
Does(t, op) == script[t] # << >> /\ Head(script[t]).op = op

\* Start, pause and reset hold mMutexStatus; the end of the stream is told
\* without it, and a stop waits for the demux thread first.
TellsEos == script["demux"] # << >> /\ Head(script["demux"]).op \in {"call", "wait"}
                                    /\ Head(script["demux"]).id = "eos"
Resetting == ~ Idle("demux") /\ ~ TellsEos

Issue(t, steps) ==
    /\ script' = [script EXCEPT ![t] = steps]
    /\ UNCHANGED << mq, todo, replySem, compVars, eStatus >>

Exists(c) == ~ At(c, "exited")

StartSteps_DemuxFirst ==
    << SetDemux("started"), Call("dec", "start"), Call("render", "start"),
       SetStatus("STARTED") >>

\* The decoder first; the demux thread delivers data once all are started.
StartSteps ==
    << Call("dec", "start"), Call("render", "start"),
       SetStatus("STARTED"), SetDemux("started") >>

PlayerStart ==
    /\ Idle("xplayer") /\ ~ Resetting
    /\ eStatus # "STARTED"
    /\ Exists("dec")
    /\ Issue("xplayer", IF eStatus = "STOPPED" THEN StartSteps
                        ELSE SubSeq(StartSteps, 1, 3))
    /\ UNCHANGED demux

PlayerPause ==
    /\ Idle("xplayer") /\ ~ Resetting
    /\ eStatus = "STARTED"
    /\ Issue("xplayer", << Call("render", "pause"), Call("dec", "pause"),
                           SetStatus("PAUSED") >>)
    /\ UNCHANGED demux

\* The render component first, it uses the decoder.
StopSteps ==
    << Call("render", "stop"), Call("dec", "stop"), SetStatus("STOPPED") >>

\* The stop command of xplayer: the demux thread is stopped, then the player,
\* and the components are destroyed.
PlayerStop ==
    /\ Idle("xplayer")
    /\ eStatus # "STOPPED"
    /\ Issue("xplayer",
             << SetDemux("stopped") >> \o StopSteps
             \o << Call("render", "quit"), Join("render"),
                   Call("dec", "quit"), Join("dec") >>)
    /\ UNCHANGED demux

ResetSteps_RenderFirst == << Call("render", "reset"), Call("dec", "reset") >>

ResetSteps == << Call("dec", "reset"), Call("render", "reset") >>

\* The demux thread resets the player when a seek has ended, and then
\* delivers data again.  The status is read twice, and cannot change between.
PlayerReset ==
    /\ Idle("demux") /\ Idle("xplayer")
    /\ eStatus # "STOPPED"
    /\ LET started == eStatus = "STARTED"
       IN  Issue("demux",
                 Only(started, << Call("render", "pause"), Call("dec", "pause") >>)
                 \o ResetSteps
                 \o Only(started, << Call("render", "start"), Call("dec", "start") >>))
    /\ demux' = "started"

\* The demux thread has read the whole stream.
PlayerSetEos ==
    /\ Idle("demux")
    /\ demux = "started"
    /\ Issue("demux", << Call("dec", "eos") >>)
    /\ demux' = "complete"

\* The next stream is prepared with new components.
PlayerInitialVideo ==
    /\ Idle("xplayer")
    /\ ~ Exists("dec") /\ ~ Exists("render")
    /\ mq' = [c \in Comp |-> << >>]
    /\ todo' = [c \in Comp |-> << >>]
    /\ replySem' = [c \in Comp |-> [id \in Command |-> 0]]
    /\ status' = [c \in Comp |-> "STOPPED"]
    /\ firstShown' = [c \in Comp |-> FALSE]
    /\ bEosFlag' = [c \in Comp |-> FALSE]
    /\ bCrashFlag' = FALSE
    /\ bResolutionChange' = FALSE
    /\ UNCHANGED playerVars

-----------------------------------------------------------------------------
(* The steps of a caller.                                                   *)

Done(t) == script' = [script EXCEPT ![t] = Tail(@)]

\* BaseCompPostAndWait posts the command, and waits for the reply.
PostCommand(t) ==
    /\ Does(t, "call")
    /\ Post(Head(script[t]).comp, Head(script[t]).id)
    /\ script' = [script EXCEPT ![t] = << [@[1] EXCEPT !.op = "wait"] >> \o Tail(@)]
    /\ UNCHANGED << todo, replySem, compVars, eStatus, demux >>

WaitReply(t) ==
    /\ Does(t, "wait")
    /\ replySem[Head(script[t]).comp][Head(script[t]).id] > 0
    /\ replySem' = [replySem EXCEPT ![Head(script[t]).comp][Head(script[t]).id] = @ - 1]
    /\ Done(t)
    /\ UNCHANGED << mq, todo, compVars, eStatus, demux >>

JoinThread(t) ==
    /\ Does(t, "join")
    /\ At(Head(script[t]).comp, "exited")
    /\ Done(t)
    /\ UNCHANGED << mq, todo, replySem, compVars, eStatus, demux >>

ChangeStatus(t) ==
    /\ Does(t, "status")
    /\ eStatus' = Head(script[t]).value
    /\ Done(t)
    /\ UNCHANGED << mq, todo, replySem, compVars, demux >>

DemuxResponds_AtOnce == TRUE

\* DemuxCompStart and DemuxCompStop wait for the demux thread, which answers
\* when it has nothing else to do.
DemuxResponds == Idle("demux")

ChangeDemux ==
    /\ Does("xplayer", "demux")
    /\ DemuxResponds
    /\ demux' = Head(script["xplayer"]).value
    /\ Done("xplayer")
    /\ UNCHANGED << mq, todo, replySem, compVars, eStatus >>

CallerStep(t) ==
    \/ PostCommand(t) \/ WaitReply(t) \/ JoinThread(t)
    \/ ChangeStatus(t)
    \/ t = "xplayer" /\ ChangeDemux

Commands ==
    \/ PlayerStart \/ PlayerPause \/ PlayerStop
    \/ PlayerReset \/ PlayerSetEos \/ PlayerInitialVideo

VideoDecodeThread ==
    \/ BaseCompContinue("dec") \/ PostContinue("dec") \/ SendReply("dec")
    \/ DecStart \/ DecStop \/ DecPause \/ DecQuit \/ DecReset \/ DecSetEos
    \/ DecContinue \/ DoDecode \/ DecodeVideoStream \/ ResetVideoDecoder
    \/ NotifyEos \/ AwaitEos

\* The steps of the render thread that do not depend on a picture to come.
VideoRenderThread ==
    \/ BaseCompContinue("render") \/ PostContinue("render") \/ SendReply("render")
    \/ RenderStart \/ RenderStop \/ RenderPause \/ RenderQuit
    \/ RenderReset \/ RenderSetEos \/ DoRender \/ NoPictureComes
    \/ ReopenVideoEngine \/ ContinueDecoder \/ PostToDecoder

Next ==
    \/ Commands
    \/ \E t \in Caller : CallerStep(t)
    \/ VideoDecodeThread
    \/ VideoRenderThread
    \/ PictureComes

\* The threads are scheduled.  Nothing says that pictures come or that
\* commands are given.
Fairness ==
    /\ \A t \in Caller : WF_vars(CallerStep(t))
    /\ WF_vars(VideoDecodeThread)
    /\ WF_vars(VideoRenderThread)

Spec == Init /\ [][Next]_vars /\ Fairness

-----------------------------------------------------------------------------
(* Properties.                                                              *)

\* A post never finds the queue full: BaseCompPostAndWait and
\* BaseCompContinue abort the process then (baseComponent.c).  The decode
\* queue gets commands of two callers and continue messages of two threads.
PostsFit == \A c \in Comp : Len(mq[c]) <= nMaxMessageNum

DecodeLoopAlive ==
    todo["dec"] = << >> /\ Works("dec")
      /\ ~ bCrashFlag /\ ~ bResolutionChange /\ ~ bEosFlag["render"]
    => mq["dec"] # << >> \/ At("render", "decContinue") \/ At("render", "decPost")

RenderLoopAlive ==
    todo["render"] = << >> /\ Works("render") /\ ~ bEosFlag["render"]
    => mq["render"] # << >>

\* A component with work to do never falls asleep for good: when its thread is
\* idle a message waits for it or is about to be sent by the other thread,
\* until the render component knows the end of the stream.  BaseCompContinue
\* leaves its message out when another is queued, so every handler has to keep
\* the loop going, and an end that got lost would leave both components waiting
\* (videoDecComponent.c, videoRenderComponent_newDisplay.c).
LoopsAlive == DecodeLoopAlive /\ RenderLoopAlive

\* While the render thread reopens the video engine the decode thread does
\* not decode with it (bResolutionChange, videoDecComponent.c).
DecodeStaysOff == At("render", "reopen") => ~ At("dec", "decode")

\* The render component believes in the end of the stream only when the
\* decoder has reached it: no reset and no restart leaves an end behind that
\* belongs to the data before it (PlayerReset, PlayerStart).
EosNotStale ==
    Idle("xplayer") /\ ~ Resetting /\ bEosFlag["render"]
    => bEosFlag["dec"]

\* The thread that ends the stream tells a render component that exists: the
\* callback would otherwise post to freed memory (PlayerClear).
EosFindsRender ==
    At("dec", "notifyEos") \/ At("dec", "awaitEos") => Exists("render")

\* Every call of the player returns: the callers, the decode thread and the
\* render thread never wait for each other in a circle, and a render thread
\* without pictures sees the message that waits.
CallsReturn == \A t \in Caller : ~ Idle(t) ~> Idle(t)

=============================================================================
