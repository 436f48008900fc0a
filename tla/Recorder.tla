------------------------------ MODULE Recorder ------------------------------
(***************************************************************************)
(* The recorder's video path (libcedarx awrecorder) around the buffers of  *)
(* VideoEncoder.tla.  Four threads:                                        *)
(*   enc  the encode thread of VideoEncodeComponent.c,                     *)
(*   mux  the thread of EncDataComponent.c that hands out encoded frames,  *)
(*   app  the application's thread that writes pictures,                   *)
(*   ctl  the application's thread that starts, stops and destroys.        *)
(* enc and mux have a message queue each; a command carries a semaphore    *)
(* that its caller waits for.  Pictures travel in buffers of the encoder   *)
(* (mUseAllocInputBuffer), which the writer itself fetches back, or in     *)
(* buffers of the application, which enc returns through a callback.       *)
(* A write that gets no buffer of the encoder brings the process down.      *)
(***************************************************************************)
EXTENDS VideoEncoder

CONSTANTS
    UseAlloc,       \* the settings of mUseAllocInputBuffer to consider
    EncodeResults   \* what the encoder may answer besides being full

ASSUME SettingsAssumption == UseAlloc \subseteq BOOLEAN

Worker == {"enc", "mux"}

VARIABLES
    mUseAllocInputBuffer,
    mq,         \* mMessageQueue of each worker
    sem,        \* the reply semaphore of the worker's current command
    worker,     \* where each worker is and what it has in hand
    app,        \* where the writer is, what it has in hand, and how many
                \* buffers of the encoder its failed writes have lost
    owned,      \* the buffers the application holds (its own buffers only)
    ctl,        \* the calls ctl still has to make, and whether it waits
    phase,      \* created, running, stopped, destroyed
    encoder     \* live or freed

vars == << fbm, bs, mUseAllocInputBuffer, mq, sem, worker, app, owned, ctl,
           phase, encoder >>

threads == << mq, sem, worker, ctl, phase, encoder >>

TypeOK ==
    /\ mUseAllocInputBuffer \in BOOLEAN
    /\ mq \in [Worker -> Seq({"START", "STOP", "QUIT", "WORK"})]
    /\ sem \in [Worker -> BOOLEAN]
    /\ \A t \in Worker : worker[t].slot \in Slot
    /\ owned \subseteq Buffer
    /\ app.lost \in 0 .. nBufferNum
    /\ phase \in {"created", "running", "stopped", "destroyed"}
    /\ encoder \in {"live", "freed"}
    /\ fbm.empty \in 0 .. nFrameBufferNum
    /\ bs.nValidDataSize \in 0 .. nStreamBufferSize
    /\ bs.nUnReadFrameNum \in 0 .. bs.nValidFrameNum

Ready == [pc |-> "idle", mStatus |-> "IDLE", buffer |-> NoBuffer, slot |-> 0,
          result |-> "ok"]

NewApp == [pc |-> "idle", buffer |-> NoBuffer, lost |-> 0]

Created(useAlloc) ==
    [fbm |-> FrameBufferManagerCreate(useAlloc),
     owned |-> IF useAlloc THEN {} ELSE Buffer]

Init ==
    /\ mUseAllocInputBuffer \in UseAlloc
    /\ fbm = Created(mUseAllocInputBuffer).fbm
    /\ owned = Created(mUseAllocInputBuffer).owned
    /\ bs = BitStreamCreate
    /\ mq = [t \in Worker |-> << >>]
    /\ sem = [t \in Worker |-> FALSE]
    /\ worker = [t \in Worker |-> Ready]
    /\ app = NewApp
    /\ ctl = [todo |-> << >>, waiting |-> FALSE]
    /\ phase = "created"
    /\ encoder = "live"

-----------------------------------------------------------------------------
(* ctl: the calls of awencoder.c.                                           *)

Command(to, id) == [to |-> to, id |-> id]

\* The components are created anew by every start.
AwEncoderStart ==
    /\ phase = "created" /\ ctl.todo = << >>
    /\ ctl' = [ctl EXCEPT !.todo = << Command("enc", "START"), Command("mux", "START") >>]
    /\ phase' = "running"
    /\ UNCHANGED << fbm, bs, mUseAllocInputBuffer, mq, sem, worker, app, owned, encoder >>

\* Its callers have joined the writer before.
AwEncoderStop ==
    /\ phase = "running" /\ ctl.todo = << >> /\ app.pc = "idle"
    /\ ctl' = [ctl EXCEPT !.todo = << Command("mux", "STOP"), Command("enc", "STOP") >>]
    /\ phase' = "stopped"
    /\ UNCHANGED << fbm, bs, mUseAllocInputBuffer, mq, sem, worker, app, owned, encoder >>

\* A faulty variant, then what the code does.
Shutdown_VideoFirst ==
    << Command("enc", "QUIT"), Command("enc", "FREE"), Command("mux", "QUIT") >>

Shutdown == << Command("mux", "QUIT"), Command("enc", "QUIT"), Command("enc", "FREE") >>

AwEncoderDestory ==
    /\ phase = "stopped" /\ ctl.todo = << >>
    /\ ctl' = [ctl EXCEPT !.todo = Shutdown]
    /\ phase' = "destroyed"
    /\ UNCHANGED << fbm, bs, mUseAllocInputBuffer, mq, sem, worker, app, owned, encoder >>

\* A new recorder.
AwEncoderCreate ==
    /\ phase = "destroyed" /\ ctl.todo = << >>
    /\ mUseAllocInputBuffer' \in UseAlloc
    /\ fbm' = Created(mUseAllocInputBuffer').fbm
    /\ owned' = Created(mUseAllocInputBuffer').owned
    /\ bs' = BitStreamCreate
    /\ mq' = [t \in Worker |-> << >>]
    /\ sem' = [t \in Worker |-> FALSE]
    /\ worker' = [t \in Worker |-> Ready]
    /\ app' = NewApp
    /\ ctl' = [todo |-> << >>, waiting |-> FALSE]
    /\ phase' = "created"
    /\ encoder' = "live"

\* The commands are posted and waited for one at a time.
PostCommand ==
    /\ ctl.todo # << >> /\ ~ ctl.waiting /\ Head(ctl.todo).id # "FREE"
    /\ mq' = [mq EXCEPT ![Head(ctl.todo).to] = Append(@, Head(ctl.todo).id)]
    /\ ctl' = [ctl EXCEPT !.waiting = TRUE]
    /\ UNCHANGED << fbm, bs, mUseAllocInputBuffer, sem, worker, app, owned, phase, encoder >>

\* SemTimedWait, and pthread_join after QUIT.
CommandReturns ==
    /\ ctl.waiting
    /\ sem[Head(ctl.todo).to]
    /\ Head(ctl.todo).id = "QUIT" => worker[Head(ctl.todo).to].pc = "ended"
    /\ sem' = [sem EXCEPT ![Head(ctl.todo).to] = FALSE]
    /\ ctl' = [todo |-> Tail(ctl.todo), waiting |-> FALSE]
    /\ UNCHANGED << fbm, bs, mUseAllocInputBuffer, mq, worker, app, owned, phase, encoder >>

\* VideoEncUnInit and VideoEncDestroy
FreeEncoder ==
    /\ ctl.todo # << >> /\ Head(ctl.todo).id = "FREE"
    /\ encoder' = "freed"
    /\ ctl' = [ctl EXCEPT !.todo = Tail(@)]
    /\ UNCHANGED << fbm, bs, mUseAllocInputBuffer, mq, sem, worker, app, owned, phase >>

-----------------------------------------------------------------------------
(* app: VideoEncodeCompInputBuffer.                                         *)

AppAt(pc) == app.pc = pc
AppGoes(pc) == app' = [app EXCEPT !.pc = pc]

\* A picture in a buffer of the application, or in one of the encoder's once a
\* used one has been fetched back.
InputBuffer ==
    /\ AppAt("idle") /\ phase = "running" /\ ctl.todo = << >>
    /\ \/ /\ mUseAllocInputBuffer
          /\ app' = [app EXCEPT !.pc = "returnNode", !.buffer = HeadOf(fbm.used)]
          /\ TakeUsed
          /\ UNCHANGED owned
       \/ /\ ~ mUseAllocInputBuffer
          /\ \E b \in owned :
                /\ app' = [app EXCEPT !.pc = "takeNode", !.buffer = b]
                /\ owned' = owned \ {b}
          /\ UNCHANGED fbm
    /\ UNCHANGED << bs, mUseAllocInputBuffer, threads >>

\* The rest of AlreadyUsedInputBuffer.
AppReturnsNode ==
    /\ AppAt("returnNode")
    /\ \/ /\ app.buffer = NoBuffer
          /\ AppGoes("getBuffer")
          /\ UNCHANGED fbm
       \/ /\ app.buffer # NoBuffer
          /\ AppGoes("returnBuffer")
          /\ ReturnNode
    /\ UNCHANGED << bs, mUseAllocInputBuffer, threads, owned >>

AppReturnsBuffer ==
    /\ AppAt("returnBuffer")
    /\ ReturnOneAllocateInputBuffer(app.buffer)
    /\ app' = [app EXCEPT !.pc = "getBuffer", !.buffer = NoBuffer]
    /\ UNCHANGED << bs, mUseAllocInputBuffer, threads, owned >>

\* GetOneAllocInputBuffer says that there is none with a positive code, and only
\* a negative one makes the write fail: it goes on with the zeroed inputBuffer
\* and copies the picture to address NULL, which ends the process.
AppGetsBuffer ==
    /\ AppAt("getBuffer")
    /\ \/ /\ fbm.allocated = << >>
          /\ AppGoes("crashed")
          /\ UNCHANGED fbm
       \/ /\ fbm.allocated # << >>
          /\ app' = [app EXCEPT !.pc = "takeNode", !.buffer = Head(fbm.allocated)]
          /\ GetOneAllocateInputBuffer
    /\ UNCHANGED << bs, mUseAllocInputBuffer, threads, owned >>

\* AddInputBuffer, first part.  Without a node the call fails: a buffer of the
\* application stays with it, one of the encoder's is not given back.
AppTakesNode ==
    /\ AppAt("takeNode")
    /\ \/ /\ fbm.empty = 0
          /\ app' = [app EXCEPT !.pc = "idle", !.buffer = NoBuffer,
                                !.lost = IF mUseAllocInputBuffer THEN @ + 1 ELSE @]
          /\ owned' = IF mUseAllocInputBuffer THEN owned ELSE owned \cup {app.buffer}
          /\ UNCHANGED fbm
       \/ /\ fbm.empty > 0
          /\ AppGoes("addInput")
          /\ TakeEmpty
          /\ UNCHANGED owned
    /\ UNCHANGED << bs, mUseAllocInputBuffer, threads >>

AppAddsInput ==
    /\ AppAt("addInput")
    /\ AddInput(app.buffer)
    /\ app' = [app EXCEPT !.pc = "added", !.buffer = NoBuffer]
    /\ UNCHANGED << bs, mUseAllocInputBuffer, threads, owned >>

WriteReturns ==
    /\ AppAt("added")
    /\ AppGoes("idle")
    /\ UNCHANGED << fbm, bs, mUseAllocInputBuffer, threads, owned >>

-----------------------------------------------------------------------------
(* What the two workers have in common: their commands, and the message     *)
(* with which a worker makes itself go on.                                  *)

application == << app, owned, mUseAllocInputBuffer, ctl, phase, encoder >>

Goes(t, pc) == worker' = [worker EXCEPT ![t].pc = pc]

Receive(t, id) ==
    /\ worker[t].pc = "idle"
    /\ mq[t] # << >> /\ Head(mq[t]) = id
    /\ mq' = [mq EXCEPT ![t] = Tail(@)]

Start(t) ==
    /\ Receive(t, "START")
    /\ IF worker[t].mStatus = "STARTED"
         THEN sem' = [sem EXCEPT ![t] = TRUE] /\ UNCHANGED worker
         ELSE Goes(t, "countStart") /\ UNCHANGED sem
    /\ UNCHANGED << fbm, bs, application >>

\* PostEncodeMessage and PostMuxerMessage look at the queue in one call and
\* post in another: a command may slip in between.
CountMessages(t) ==
    /\ worker[t].pc \in {"count", "countStart"}
    /\ worker' = [worker EXCEPT ![t].pc =
                     CASE @ = "count" -> IF mq[t] = << >> THEN "post" ELSE "idle"
                       [] OTHER -> IF mq[t] = << >> THEN "postStart" ELSE "started"]
    /\ UNCHANGED << fbm, bs, mq, sem, application >>

PostWork(t) ==
    /\ worker[t].pc \in {"post", "postStart"}
    /\ mq' = [mq EXCEPT ![t] = Append(@, "WORK")]
    /\ Goes(t, IF worker[t].pc = "post" THEN "idle" ELSE "started")
    /\ UNCHANGED << fbm, bs, sem, application >>

StartReply(t) ==
    /\ worker[t].pc = "started"
    /\ worker' = [worker EXCEPT ![t].pc = "idle", ![t].mStatus = "STARTED"]
    /\ sem' = [sem EXCEPT ![t] = TRUE]
    /\ UNCHANGED << fbm, bs, mq, application >>

Stop(t) ==
    /\ Receive(t, "STOP")
    /\ sem' = [sem EXCEPT ![t] = TRUE]
    /\ UNCHANGED << fbm, bs, worker, application >>

Quit(t) ==
    /\ Receive(t, "QUIT")
    /\ sem' = [sem EXCEPT ![t] = TRUE]
    /\ Goes(t, "ended")
    /\ UNCHANGED << fbm, bs, application >>

-----------------------------------------------------------------------------
(* enc: ENC_COMMAND_ENCODE.                                                 *)

enc == worker["enc"]

\* Buffers of the application are returned first, one for each message.
Encode ==
    /\ Receive("enc", "WORK")
    /\ IF mUseAllocInputBuffer
         THEN Goes("enc", "getInput") /\ UNCHANGED fbm
         ELSE /\ TakeUsed
              /\ worker' = [worker EXCEPT !["enc"].pc = "returnNode",
                                          !["enc"].buffer = HeadOf(fbm.used)]
    /\ UNCHANGED << bs, sem, application >>

EncReturnsNode ==
    /\ enc.pc = "returnNode"
    /\ \/ /\ enc.buffer = NoBuffer
          /\ Goes("enc", "getInput")
          /\ UNCHANGED fbm
       \/ /\ enc.buffer # NoBuffer
          /\ Goes("enc", "notify")
          /\ ReturnNode
    /\ UNCHANGED << bs, mq, sem, application >>

\* VIDEO_ENCODE_NOTIFY_RETURN_BUFFER
NotifyReturnBuffer ==
    /\ enc.pc = "notify"
    /\ owned' = owned \cup {enc.buffer}
    /\ worker' = [worker EXCEPT !["enc"].pc = "getInput", !["enc"].buffer = NoBuffer]
    /\ UNCHANGED << fbm, bs, mUseAllocInputBuffer, mq, sem, app, ctl, phase, encoder >>

\* VideoEncodeOneFrame: the first input buffer stays queued while it is encoded.
GetInputBuffer ==
    /\ enc.pc = "getInput"
    /\ \/ /\ fbm.input = << >>
          /\ Goes("enc", "count")
       \/ /\ fbm.input # << >>
          /\ worker' = [worker EXCEPT !["enc"].pc = "encode",
                                      !["enc"].buffer = Head(fbm.input)]
    /\ UNCHANGED << fbm, bs, mq, sem, application >>

\* The encoder library, which is not part of the repository: it stores a frame,
\* finds the ring full, or answers something else.
EncodeOneFrame ==
    /\ enc.pc = "encode"
    /\ \/ \E length \in StreamLengths :
             /\ HasRoom(length)
             /\ BitStreamAddOneBitstream(length)
             /\ worker' = [worker EXCEPT !["enc"].pc = "addUsed", !["enc"].result = "ok"]
       \/ \E length \in StreamLengths :
             /\ ~ HasRoom(length)
             /\ worker' = [worker EXCEPT !["enc"].pc = "addUsed", !["enc"].result = "full"]
             /\ UNCHANGED bs
       \/ \E result \in EncodeResults :
             /\ worker' = [worker EXCEPT !["enc"].pc = "addUsed", !["enc"].result = result]
             /\ UNCHANGED bs
    /\ UNCHANGED << fbm, mq, sem, application >>

\* The buffer counts as used whatever the answer; after an error the worker
\* does not post itself another message.
AddUsed ==
    /\ enc.pc = "addUsed"
    /\ AddUsedInputBuffer(enc.buffer)
    /\ worker' = [worker EXCEPT
                    !["enc"].pc = IF enc.result = "error" THEN "idle" ELSE "count",
                    !["enc"].buffer = NoBuffer, !["enc"].result = "ok"]
    /\ UNCHANGED << bs, mq, sem, application >>

-----------------------------------------------------------------------------
(* mux: MUXER_COMMAND_MUX.                                                  *)

mux == worker["mux"]

\* VideoEncodeCompRequestVideoFrame fails when there is no frame.  That none is
\* left to read it would not notice, the code for that being positive, but mux
\* asks with no frame in hand: all of them are.
RequestVideoFrame ==
    /\ Receive("mux", "WORK")
    /\ \/ /\ bs.nValidFrameNum = 0
          /\ Goes("mux", "count")
          /\ UNCHANGED bs
       \/ /\ bs.nValidFrameNum # 0
          /\ worker' = [worker EXCEPT !["mux"].pc = "deliver", !["mux"].slot = bs.nReadPos]
          /\ BitStreamGetOneBitstream
    /\ UNCHANGED << fbm, sem, application >>

\* The frame has gone to the application's callback.
ReturnVideoFrame ==
    /\ mux.pc = "deliver"
    /\ BitStreamReturnOneBitstream(mux.slot)
    /\ worker' = [worker EXCEPT !["mux"].pc = "count", !["mux"].slot = 0]
    /\ UNCHANGED << fbm, mq, sem, application >>

-----------------------------------------------------------------------------
\* The four threads live in one process.
Alive == ~ AppAt("crashed")

Calls == /\ Alive
         /\ AwEncoderStart \/ AwEncoderStop \/ AwEncoderDestory \/ AwEncoderCreate

Ctl == Alive /\ (PostCommand \/ CommandReturns \/ FreeEncoder)

Write == \/ AppReturnsNode \/ AppReturnsBuffer \/ AppGetsBuffer
         \/ AppTakesNode \/ AppAddsInput \/ WriteReturns

Enc == /\ Alive
       /\ \/ Start("enc") \/ CountMessages("enc") \/ PostWork("enc") \/ StartReply("enc")
          \/ Stop("enc") \/ Quit("enc")
          \/ Encode \/ EncReturnsNode \/ NotifyReturnBuffer
          \/ GetInputBuffer \/ EncodeOneFrame \/ AddUsed

Mux == /\ Alive
       /\ \/ Start("mux") \/ CountMessages("mux") \/ PostWork("mux") \/ StartReply("mux")
          \/ Stop("mux") \/ Quit("mux")
          \/ RequestVideoFrame \/ ReturnVideoFrame

\* Nothing is left to run: not a deadlock of the recorder.
ProcessEnded == ~ Alive /\ UNCHANGED vars

Next == Calls \/ Ctl \/ InputBuffer \/ Write \/ Enc \/ Mux \/ ProcessEnded

\* Threads that can run do; the application need not call anything.
Spec == /\ Init /\ [][Next]_vars
        /\ WF_vars(Ctl) /\ WF_vars(Write) /\ WF_vars(Enc) /\ WF_vars(Mux)

-----------------------------------------------------------------------------
(* No picture and no encoded frame is overwritten while it is in use: the   *)
(* buffer the writer fills is in no queue and not in the other thread's     *)
(* hands, and the encoded frames not yet returned, the one being delivered  *)
(* among them, lie on separate bytes of the ring.                           *)
NothingOverwritten ==
    /\ AppAt("takeNode") \/ AppAt("addInput") =>
          /\ app.buffer \notin BuffersIn(fbm.input) \cup BuffersIn(fbm.used)
          /\ \A i \in DOMAIN fbm.allocated : fbm.allocated[i] # app.buffer
          /\ app.buffer # enc.buffer
          /\ app.buffer \notin owned
    /\ \A s, t \in ValidSlots : s # t => BytesOf(s) \cap BytesOf(t) = {}
    /\ mux.pc = "deliver" => mux.slot \in ValidSlots

(* The encoder is freed only when no thread can touch it again, although a  *)
(* stop leaves a worker running if the command slips in between its look at *)
(* the queue and its post.                                                  *)
NotUsedAfterFree ==
    encoder = "freed" =>
        /\ \A t \in Worker : worker[t].pc = "ended"
        /\ AppAt("idle")

(* As long as an application has not written so far ahead of the encoder that *)
(* writes without a node have lost as many buffers as the encoder has more    *)
(* than nodes, a write finds a buffer of the encoder.                         *)
WriteFindsBuffer ==
    AppAt("getBuffer") /\ app.lost < nBufferNum - nFrameBufferNum =>
        fbm.allocated # << >>

(* An application that keeps writing pictures keeps getting some accepted:  *)
(* nodes and buffers come back however the three threads interleave.  With   *)
(* buffers of the encoder this needs that failed writes have not lost those  *)
(* it has more than nodes; a write may crash after that.                     *)
RecordingGoesOn ==
    ( /\ []<>(~ AppAt("idle"))
      /\ <>[](phase = "running")
      /\ [](mUseAllocInputBuffer => app.lost < nBufferNum - nFrameBufferNum) )
        => []<>AppAt("added")
=============================================================================
