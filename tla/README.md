# TLA+ verification of the Tina multimedia core

The repository holds the Allwinner packages of the Tina platform for the
T113-X. Most of its own logic is in the multimedia stack: `libcedarc` (the
video decoder and encoder framework around a closed codec engine) and
`libcedarx` (the player and the recorder on top of it). This project models the
parts of that stack in which threads share buffers, queues, locks and counters.

## The system

```
 demux thread ---- stream data ----> SbmStream ring ----> codec engine (decode thread)
   (xplayer)   VideoStreamInput                             |        ^
                                                   pictures v        | empty frames
 every thread <-- MessageQueue -->                       Fbm picture pool
                                                            |        ^
                                                            v        |
                                                     render thread / display

 application -- calls --> xplayer thread -- commands --> demux thread <-- DemuxComp --> cache thread
                             ^   XPlayer                   |
                             +------- callbacks -----------+
 xplayer thread, demux thread -- commands --> decode thread <-- VideoPlayback --> render thread

 application (writer) -- pictures --> encode thread -- encoded frames --> data thread --> application
                       VideoEncoder                     Recorder
```

| component | state | operations | modelled in |
|---|---|---|---|
| frame buffer manager, `vdecoder/fbm/fbm.c` | frame nodes with flags and an id, three linked lists, five counters, one mutex | request/return/share buffer (engine), request/return picture (render), flush, display buffers and their release | `Fbm` |
| stream buffer manager, `vdecoder/sbm/sbmStream.c` | byte ring, descriptor ring, mutex | request space, add, request, return, flush, reset | `SbmStream`, promise in `SbmFifo` |
| input path, `vdecoder.c`, `videoDecComponent.c`, loop of `demuxComponent.c` | the partly submitted frame, crash flag | request, fill, submit in parts, crash, reset | `VideoStreamInput` (extends `SbmStream`) |
| message queue, `CdcMessageQueue.c` = `AwMessageQueue.c` | node array, list, counter, mutex, semaphore | post, get, timed get, wait, flush | `MessageQueue`, promise in `MessageFifo` |
| video decode and render components, `baseComponent.c`, `videoDecComponent.c`, `videoRenderComponent_newDisplay.c`, commanded by `player.c` | a message queue, a status and reply semaphores per component; first-picture, end-of-stream, crash and resolution-change flags | start, stop, pause, reset, end of stream, quit, decode, render, reopen the engine | `VideoPlayback` |
| demultiplexer component, `demuxComponent.c` | status, parser, force-stop, cancel and stop flags, buffering state; cache and its thread | source, prepare, start, stop, clear, seek, cancel, read, buffer | `DemuxComp` |
| player front end, `xplayer.c` (with the status of `player.c`) | `mStatus`, `mSeeking`, `mSeekTime`, `mLoop`, `mMutexStatus`, a command queue | the application's calls, the command thread, the callbacks of the demux, cache and render threads | `XPlayer` (extends `DemuxComp`) |
| encoder buffers, `vencoder/base/FrameBufferManager.c`, `BitstreamManager.c` | queues of picture nodes, free picture buffers, a byte ring with its frame table | add, get, return | `VideoEncoder` |
| recorder, video path, `awencoder.c`, `VideoEncodeComponent.c`, `EncDataComponent.c` | a message queue, status and reply per thread | start, stop, destroy, write a picture, encode, deliver | `Recorder` (extends `VideoEncoder`) |
| frame-mode stream buffers, `sbmFrameBase.c` | two queues and a detection thread | as above, plus detection | planned |
| parsers, streams, muxers, sound effects, memory adapters, OpenMAX wrapper, front ends | - | data transformation or wrappers | not modelled |
| the other packages (USB, wireless, power, display tools, ...) | - | separate programs | not modelled |

What is hard here: the engine, the render thread and the demux thread work on
the same pool and rings; a picture may be shown while the engine still refers
to it; a window change replaces all buffers under the engine's feet; data
arrives in parts that wrap around the ring; a crashed decoder must not block
the demux thread; a message is announced by a semaphore that is not protected
by the mutex of the list; a component thread keeps itself running with messages
that it leaves out when another one is queued; a parser may block in the network
until somebody forces it to stop, and the flag that does so is cleared by seeks;
the front end's lock is taken by its own thread, which waits for the demux
thread, and by that thread's callbacks; six picture buffers of the encoder share
four nodes. `PROJECT.json` lists these hazards line by line.

### What makes each component correct

* frame buffer manager: a node is on one list at a time; the engine is alone
  with the frame it decodes into; a picture is shown at most once; no frame is
  lost, so the engine gets frames again and a window change comes to an end if
  the buffers had been set.
* stream buffer manager: frames leave in the order they came, the consistency
  checks (`abort()`) never fire, sizes add up.
* input path: the demux thread never writes over bytes somebody still reads,
  collected parts are not lost, and a full ring does not block it for ever.
* message queue: a bounded FIFO; every message has a wake-up; `get` fails only
  after a flush.
* video components: every command is answered; a component with work to do does
  not fall asleep; the end of the stream is neither lost nor left over from old
  data; a queue of four nodes is enough.
* demultiplexer and front end: every call of the application returns although
  the parser may block; the parser is not closed under a thread that uses it; a
  force stop is not taken back; what the user asked for is what the player does
  once the front end is quiet; the reading never stops by accident.
* encoder and recorder: no picture and no encoded frame in use is overwritten,
  the encoder is not used after it is freed, an application that goes on writing
  gets pictures accepted again and again.

## Modules and code

Every definition that stands for code is listed with its lines under `map` in
`PROJECT.json`. Names are those of the source. An operator with a suffix such
as `_NoLink` or `_Never` is a faulty variant of the operator after it, kept to
show that a property notices the fault; the specifications do not use it.

**Fbm** (`fbm.c`). Each bit of `FrameNode.Flag` is the set of frames that have
it, a linked list is a sequence, `nID` is the index or one of the two tags that
overwrite it. One action per function, one step per locked section. Two places
are split: `FbmShareBufferCheck`/`FbmShareBuffer`, because the code tests
`bNeedRelease` before it takes the lock, and the loops of `FbmFlush` and
`FbmNewDispRelease`, which take a step per node with `mutex` held. The callers
are part of the model: `decHeld`, `shared` and `renHeld` say what the engine and
the render thread have, `Resetting` and `NothingShown` are the loop of
`ResetBufToDecoder`. `relPc` is where the render thread is in
`SetGpuBufferToDecoder` ("set": one buffer after another, the last of which may
fail to come and is then set after the first picture, `SetLastBuffer`) or in
`handleSetWindow` ("return", "flush", "release"). `HandleSetWindow` has no guard
on the buffers, as in the code: the window changes before the render thread has
asked how many there are, before the last one is set, or during another
replacement. `offered` is a history variable.

**SbmStream** (`sbmStream.c`) has the byte ring (`pWriteAddr`,
`nValidDataSize`) and the descriptor ring (`pFrames`, three positions, two
counters). `held` is the list of descriptor pointers the engine keeps, `aborted`
records an `abort()`. **SbmFifo** is the promise: a bounded queue with a
consumer that can put back what it took.

**VideoStreamInput** extends `SbmStream` with `RequestVideoStreamBuffer` and
`SubmitVideoStreamData` (`vdecoder.c`), the crash handling of
`VideoDecCompRequestStreamBuffer`/`SubmitStreamData` and the part of the demux
loop that calls them (`demux` is its program counter).

**MessageQueue** (`CdcMessageQueue.c`; `AwMessageQueue.c` is the same code up to
names). Threads are anonymous: `nPosting`, `nGetting` and `nPeeking` count those
between the list operation and the semaphore operation of a call. `valid` is the
set of used nodes. **MessageFifo** is the promise.

**VideoPlayback**. `mq` are the queues of the two components (the FIFO that
`MessageQueue` implements), `todo` is what a thread has still to do of the
message it handles, `script` what a caller has still to do of its command. A
handler is the action that takes its message, followed by its steps:
`SendReply` is `sem_post(msg->replySem)`, `BaseCompContinue` and `PostContinue`
are the check and the post of `BaseCompContinue`, which other threads can get
between. `DecodeVideoStream` has one disjunct per result of the engine,
`PictureComes` and `NoPictureComes` are the outcomes of `doRender`. Callers are
the xplayer thread (start, pause, stop with destruction, new components) and the
demux thread (reset after a seek, end of stream). Start, pause and reset exclude
each other as under `mMutexStatus`; a stop first waits for the demux thread;
the end of the stream comes at any time.

**DemuxComp** (`demuxComponent.c`). As in `VideoPlayback` a thread takes a
message and works off the steps of `todo`. `demux` is `DemuxCompContext`, `cache`
the cache with its thread, `semCache` and `nCacheReply`; a packet is the position
it was read from. The steps `parserRead` and `parserSeek` are a call of the
parser, which ends with any result at any time, or not at all unless
`bForceStop` is set (`ParserReturns`). `Notify(id)` is a call of the front end's
callback. The operations that `xplayer.c` calls are at the end of the module:
those that set flags and force the parser first, post, and wait for `reply`.

**XPlayer** (`xplayer.c`). `ctx` is `PlayerContext`, `call` what the application
waits for. A command handler is `Handle(id, steps)`, with the early answers of
the code, followed by one step for each locked section or call of another
component; a step that needs `mMutexStatus` waits for it, and only the start
command keeps it over several steps. `NotifySeekFinish`, `PauseOrResume` and the
other callbacks are steps of the thread that calls them. The player is reduced
to what `PlayerStart`, `PlayerPause`, `PlayerReset` and `PlayerStop` leave in
its status; that these calls return is what `VideoPlayback` shows.

**VideoEncoder** (`FrameBufferManager.c`, `BitstreamManager.c`): one operator
per critical section. Nodes are alike, so the empty ones are counted and a
queued node is the buffer it carries. The ring keeps offsets, lengths, positions
and counts as the code does, rounding included.

**Recorder** (`awencoder.c`, `VideoEncodeComponent.c`, `EncDataComponent.c`):
four threads. `enc` and `mux` have the same message loop (`Start(t)` to
`Quit(t)`, with the check and the post of `PostEncodeMessage` as two steps);
`app` writes pictures; `ctl` starts, stops and destroys. `app.lost` counts the
buffers of the encoder that failed writes have not given back, and `app.pc =
"crashed"` is the end of the process in a write that found no buffer. Both
settings of `mUseAllocInputBuffer` are checked. The encoding itself is external
(`EncodeOneFrame`): a frame of some length, a full ring, or another answer.

The `MC...` modules only give the constants their values.

## Runs

| run | instance | states | shows |
|---|---|---|---|
| `fbm_own` | 3 own frames, engine shares | 1904 | the lists, flags and counters stay consistent; no frame is offered twice; under fairness frames come back to the engine |
| `fbm_display` | 2 display buffers, 2 window changes at any time | 3890 | the release protocol replaces buffers while the engine decodes and loses none; every window change that finds all buffers set is completed |
| `fbm_reset_stuck` (violation) | 2 display buffers, engine shares | - | all buffers are set, and yet the race loses a frame and the window change never ends |
| `sbm_ring` | 3 descriptors, 2 bytes | 69889 | the rings implement `SbmFifo`, no abort, sizes exact |
| `input_ring` | 2 descriptors, 4 bytes | 2654116 | no byte in use is overwritten, no part is lost, the demux thread does not wait for ever |
| `queue_flush` | 3 nodes, 2 threads per call, flushes | 51286 | a FIFO; every message has a token and is delivered or flushed |
| `playback_control` | 4 nodes, commands unbounded | 127257 | every call returns, no loop falls asleep, the end of stream is exact, 4 nodes suffice (3 do not) |
| `xplayer_file` | a looping file, all commands, seeks to 2 times | 655692 | status, player and reading agree whenever the front end is quiet; a prepare finds no open parser; every call returns although the parser may block |
| `xplayer_net` | a network stream with cache: start, stop, seek | 4514618 | no thread is in a closed parser; no force stop of a cancel or stop is taken back |
| `xplayer_buffering` (violation) | a network stream, starts only | - | a start during buffering and the end of the buffering wait for each other |
| `xplayer_loop` (violation) | a looping file that is not seekable | - | the stream is not played again |
| `recorder_video` | 4 buffers over 2 nodes, ring of 4 bytes | 2537114 | nothing in use is overwritten, the encoder is not used after it is freed; until failed writes have lost two buffers a write finds one and recording goes on |

For each property of a passing run `PROJECT.json` names a faulty variant of a
mapped definition under which the property fails.

### Bounds

* Frames: three allow one with the engine, one with the display and one queued
  at the same time, which is every pair of holders a frame can move between;
  two are enough for the window changes, where starvation is easier: with one of
  them set a window change marks one frame and counts two. `MaxRelease` = 2 lets
  a second window change meet the remains of the first.
* Rings: with two or three descriptors and two to four bytes every operation
  meets the wrap, the full and the empty ring; parts of length zero up to the
  ring length are used (`GuardBytes` stands for the 64 bytes the code keeps
  free, `MinRequire` for its four).
* Queue: three nodes and two threads in each call make posts, gets, waits and
  flushes overlap pairwise; the capacity does not matter otherwise, see the
  proofs.
* XPlayer: one call of the application at a time, as with the one thread that
  uses a player. `AppCalls` are the calls a run makes, in any order and number.
  `MaxSeeks` and `MaxMessages` bound what is pending in the queues of the
  component's two threads when the application calls or the stream ends (one
  seek under way and one behind it, one message waiting); they are guards of
  the application and the render thread only. Two seek times tell the latest seek from an earlier
  one; a cache of one packet is empty or full. The preparation of a file fails
  or succeeds; the case in which `initializePlayer` keeps a lock is left out of
  the runs (see below).
* Recorder: four buffers over two nodes, as the code's six over four: two
  failed writes lose the surplus, and the next write crashes. Lengths 1 and 3 in a ring of 4 bytes rounded to 2 reach
  the full ring, the wrap, and a length that fits only before it is rounded. The
  error answer, after which the code's encode thread stops on purpose, is left
  out (see the hazards).
* VideoPlayback has no bound of its own: with the four nodes of the code its
  state space is finite.

### Fairness

* `Fbm`: a thread that has begun a locked section or a loop finishes it (weak
  fairness), and a lock that becomes free again and again is eventually obtained
  (strong fairness: a pthread mutex under an ordinary scheduler). The engine
  returns what it holds, the render thread requests and returns pictures, sets
  the buffers it can get and finishes `handleSetWindow`. Window changes, shares,
  resets and the late last buffer are never forced. `BusySpec` adds that the
  engine goes on requesting frames; it is the stronger assumption, under which
  the violation still occurs.
* `VideoStreamInput`: the demux thread polls every few milliseconds; a live
  engine takes and flushes frames. A crash is never forced.
* `MessageQueue`: a thread between the list and the semaphore goes on; the
  component thread calls get in a loop.
* `VideoPlayback`: the two component threads and the callers are scheduled.
  Neither pictures nor commands have to come.
* `XPlayer`: the xplayer, demux and cache threads are scheduled; the parser
  returns once it is forced to stop (its interrupt callback) and otherwise need
  not. The application need not call; streams need not end.
* `Recorder`: the two worker threads, a call of `awencoder.c` and a write that
  have begun go on, until a write has crashed. Nobody has to start, stop or write.

## Findings

* `fbm_reset_stuck`: `FbmShareBuffer` looks at `bNeedRelease` before it locks
  (`fbm.c:849`). A window change in between queues a picture that is to be
  released, `FbmReturnPicture` does not find it, and `ResetBufToDecoder` waits
  for it for ever. The comment in the render component expects that dropping
  the picture unblocks the decoder.
* `xplayer_buffering`: a start command that finds the player started and paused
  for buffering calls `DemuxCompStart` with `mMutexStatus` held and waits
  (`xplayer.c:2348`); the demux thread, which has just got enough data, waits for
  `mMutexStatus` in its resume callback (`xplayer.c:3411`). The comment in the
  demux thread expects the start button to end the buffering.
* `xplayer_loop`: at the end of a looping stream that is not seekable the front
  end posts itself STOP, PREPARE and START (`xplayer.c:2404-2421`). The prepare
  only begins the preparation, and the START is rejected because the status is
  PREPARING. The comment says the file is replayed.

Met while modelling and kept as hazards without a property, because the code and
its comments do not say what should happen: a message that arrives during a
cached seek ends its wait and skips its tail (`demuxComponent.c:2298`);
`initializePlayer` returns with `mMutexMediaInfo` locked when the video is not
supported (`xplayer.c:1520`); the end-of-stream callback takes no lock
(`xplayer.c:3461`); an encode thread that met an error does not go on
(`VideoEncodeComponent.c:370`). They are the reason why
`xplayer_net` checks the parser's safety only, and why the properties of
`xplayer_file` are about a front end that is quiet. Two more are in the models,
and the properties say exactly when they do not happen:

* A window change before the buffers are set never ends. `handleSetWindow`
  (`videoRenderComponent_newDisplay.c:509-542`) does not ask whether they are:
  before the last one is set `fbm.c:2156-2163` marks one frame fewer than
  `nNeedReleaseBufferNum` counts, and before the first one none, while
  `ResetBufToDecoder` only ends after it has replaced a buffer. `ResetFinishes`
  therefore speaks of a window change that finds all buffers set
  (`nValidBufNum = nFrameNum`); while a replacement is under way no further
  buffer is set, so that one that begins earlier is never part of the claim.
* A recorder with buffers of the encoder (the default) crashes when the
  application writes seven pictures ahead of the encoder. Six buffers share four
  nodes, and a write without a node loses its buffer. Once two are lost that way
  and four are queued, `GetOneAllocInputBuffer` answers
  `VENC_RESULT_NO_FRAME_BUFFER`, which is +1, and `VideoEncodeComponent.c:1078`
  tests for less than 0: the write goes on with the zeroed buffer and copies the
  picture to address NULL (line 1096). What would follow, a picture queued with
  `nID` 0, the id of another buffer, is not reached. `WriteFindsBuffer` says that
  there is no other way to this crash, and `RecordingGoesOn` has the same bound.

`bFileStream` of the demux component is never cleared, so that after a file it
reads network streams without a cache; the model does the same.

## Proofs

Proved by TLAPS for every value of the constants that satisfies the named
assumptions, which the runs evaluate (`FbmAssumption`, `SbmAssumption`,
`QueueAssumption`, `InputAssumption`, `RingAssumption`, `SettingsAssumption`,
`SeekTimeAssumption`, `CacheSizeAssumption`, `AppCallsAssumption`,
`InitResultsAssumption`, `SwitchesAssumption`, `QueueSizeAssumption`). They say
that sizes and numbers are positive, that a table has room for what the code
puts in it, that the recorder's sizes are multiples of the alignment, and that
calls, times and switches are of their kind. A theorem that has a hypothesis
besides them is named below with it.

* **FbmProofs**: `TypeOK`, `ListIntegrity`, `DecodeExclusive` and `OfferedOnce`
  are invariants of `Spec`, in both buffer modes, with and without shares, for
  any number of window changes. None of the last three is inductive: whether
  `FbmEnqueue` may take a frame depends on flags, on the tag and on who holds
  it. `IInv` says for each frame which combinations occur (for instance: a frame
  with `bInValidPictureQueue` is on the valid queue and not with the render thread; a frame of
  the engine that is not shared has no display flag; a frame with a
  tag is on no list; a frame without a buffer is nowhere). `OwnPool` says that
  the window machinery rests when the buffers are the decoder's own.
  `EnqueueLemma` and `DequeueLemma` reduce the lists to
  membership; then there is one lemma per action.
  A second inductive invariant, `PoolInv`, on top of `IInv` says
  where each frame is (`Kept`), and the lengths of the queues. From it
  `EmptyQueueFlagsClear` (the comment of `FbmRequestBuffer`), `NoFrameLost` and
  the queue counters. The hypothesis `Reliable` is that the buffers are the
  decoder's own or the engine does not share pictures: with both, a picture may be marked for release between the check
  and the lock of `FbmShareBuffer` and the marks contradict each other. `CountsExact`
  also counts the holders, which is exact for the decoder's own buffers
  (hypothesis `~bUseGpuBuf`); with display buffers it is not claimed.
* **SbmStreamProofs**: `SbmTypeOK`, `NeverAborts`, `DataSizeExact` and `SbmSpec
  => ImplementsFifo`. `RingInv` ties the three positions to the two counters
  (`Positions`) and the engine's pointers to the positions (`HeldInOrder`): only
  both together show that the descriptor a flush or a return names is the
  expected one. The refinement has one lemma per operation that says what it
  does to the mapped sequences `Taken` and `Waiting`. `DataSizeExact` is about a
  sum over the ring: `FrameSums` are its partial sums, which exist by
  an argument with the least number for which they would not
  (`SumsExist`, in place of induction), and shift with the flush position
  (`SumsShift`).
* **VideoStreamInputProofs**: `Spec => SbmSpec`, which carries over everything
  proved of the ring of frames (`NeverAborts`, `DataSizeExact`,
  `ImplementsFifo`) to the component with its real callers; `TypeOK`; and
  `RingLayout`, `WritesDisjoint` and `PartialAccepted`. The byte ring is the
  hard part: `Layout` gives each frame its distance to the write address
  (`IsChain`), so that the frames' places follow without
  adding lengths; `PartialFits` and `PartFits` say that the collected parts and
  the one being written lie between the write address and the oldest frame,
  whatever frames leave in between.
* **MessageQueueProofs**: `TypeOK`, `NoLostWakeup`, the refinement `Spec =>
  ImplementsFifo`, and two that no run checks: `PostFindsNode`, and
  `GetNeverFails` for queues that are not flushed (no component flushes its
  queue). The invariant counts tokens: those in the
  semaphore and those that threads are about to post or have taken. Without
  flushes the number of messages equals the number of tokens; with flushes it is
  at most that, and a flush in progress keeps the list empty. `PostFindsNode`
  is a count of nodes: the queued ones and those of the posters are fewer
  than the table has.
* **RecorderProofs**: `TypeOK`, `NothingOverwritten`, `NotUsedAfterFree` and
  `WriteFindsBuffer`, also for an application that writes until it crashes, by
  five invariants. `Calling` says what the controlling thread may still have to
  do in each phase and which workers have ended by then; the encoder is freed
  after both. `Pool` says that a buffer is in one place (`Places`), what each
  thread has in hand at each step (`Hands`), and that every node is counted once
  (`Count`). `Balance` counts the buffers of the encoder, the lost ones included:
  if a write finds none, all the others are in nodes, of which there are
  `nFrameBufferNum`, so that the rest must be lost. `Ring` is about the encoded frames: there is a function `D` such that the
  k-th youngest frame begins `D[k]` bytes before the write offset
  (`IsStack`), `D` grows by the aligned lengths, and the fill level is its last
  value and a multiple of `AlignBytes`. The rounding in `BitStreamAddOneBitstream`
  is safe because of the last point. Two frames, or a frame and the bytes being
  written, are apart because their distances are (`Separate`).

* **XPlayerProofs**: `TypeOK`, `ParserOpen`, `CancelForcesParser` and
  `PrepareFindsClosed`, whatever the application calls, for files and network
  streams, by one invariant of seven parts. `Turns`: the xplayer thread asks one
  thing at a time, so a request waits in the demux queue, or is served by
  closing, or is answered; behind it only the render thread posts. `Parser`: the
  cache thread lives only with an open parser, and its `QUIT` is the last message
  it gets. `Flags`: `bStopping` and `bCancelSeek` are up only while the request
  that clears them is under way, and then the parser is forced. `Preparation`
  and `Commanding` say which statuses and which rest of a command go with a
  preparation and with a closed parser: `PrepareFindsClosed` needs them because
  the status that allows a prepare is set by another thread than the one that
  closes the parser, and later. `FrontOnly` and `Types` complete it. Lemmas of
  the form `...Keeps` go through the steps, grouped by what they disturb
  (`DemuxWorks`, `CacheSteps`, `PlayerWorks`).

  `DemuxLoopAlive`, `PausedMeansPaused` and `StartedPlays` are proved for players of
  files: the theorems have the hypothesis `FilePlayer`, that `SET_NET_SOURCE` is not
  one of the application's calls, as in the run `xplayer_file`. Any set of the other
  calls, any seek times and any outcome of a preparation are allowed. A second
  invariant, `FileInv`, has five parts, and rests on the first.
  `OfFile`: there is no cache thread, and the demux thread has one of a few
  lists of steps. `Ends`: the rest of a command ends what the command has begun
  (a cancelled seek with `notSeeking`, a stop of the player with a change of the
  status, and so on), and a cancel that is posted has that rest in front of it.
  `OneSeek`: at most one seek is queued or under way, and `mSeeking` is set
  meanwhile; from the answer to `CANCEL_SEEK` on there is none. `Playing`: the player's
  status, the front end's and the rest of a start or a seek go together; this is
  where the callback of a seek between two steps of a pause or a start is dealt with.
  `Reading`: what keeps a started demux thread reading is a message, a step of
  its own, or a seek or stop about to come (`Ending`). Lemmas of the form
  `...File` go through the steps.
* **VideoPlaybackProofs**: `DecodeStaysOff`, `PostsFit`, `LoopsAlive`,
  `EosNotStale` and `EosFindsRender`: all the safety properties of the run.
  * That no decoding is under way when the engine is reopened depends on the two
    threads only: a thread uses the engine in the first of its steps, the decode
    thread with `bResolutionChange` down and the render thread with the flag up,
    and each changes the flag only in the direction that does not disturb the
    other (`EngineInv`).
  * The other four depend on the callers too. `FlowInv` has eight parts, and each
    needs some of the others. `CallerInv`: what is left of a script is in
    order and complete (`ScriptOrder`, `ScriptWith`), only its first step waits, and
    the xplayer thread and the demux thread are in each other's way as little as
    `PlayerReset` and `PlayerStop` allow. `ThreadInv`: a queue holds a command once,
    a list of steps one reply. `Protocol`: a command that is posted, served or
    answered has a caller that waits, and is one of the three only. `StatusInv`:
    the status of a component is what the commands before it expect, for
    instance a pause finds it started even if a reset is under way. `ExitInv`: a
    thread ends while the player is stopped. `EosInv`: the render component has the
    end flag only if the decoder has it or a reset or start is about to take it back.
    `LoopInv`: what replaces a message that `BaseCompContinue` leaves out.
    `QueueInv`: the length of a queue is bounded by the callers that wait
    with their message in it, and the messages the loops have under way.
  * `PostsFit` has the hypothesis `nMaxMessageNum >= 4`. The code has 4: the decode queue
    can hold the commands of two callers and a message from each thread, so no
    node is to spare.
  * There is one lemma per handler and step that says what it does to names
    (`Due`, `Posted`, `Served`, `Answered`, `Calls`, `Waits`) in place of lists
    (`...Is`), and then one lemma per part of the invariant (`...Next`).
* **ListProofs** holds the lemmas about lists that `VideoPlaybackProofs` and
  `XPlayerProofs` share: the elements of a list, and which stands before which.

Only model-checked:

* everything about liveness (fairness and `ENABLED` are beyond the prover), so
  `DemuxNotBlocked` and all temporal properties;
* `EmptyQueueFlagsClear` and `NoFrameLost` for shared pictures in display
  buffers, where the argument fails, and `CountsExact` for display buffers.

`DemuxLoopAlive`, `PausedMeansPaused` and `StartedPlays` are about files only. For
network streams they are neither proved nor checked: TLC finds counterexamples
with seeks in a network stream, for instance when a message interrupts a cached
seek (`demuxComponent.c:2298`).

## Not modelled

* the codec engine itself (a closed library): its calls appear as
  nondeterministic steps;
* allocation failures, a display that fails to give a buffer before the last one
  (the code reports it and stops), picture layout, 3D streams with two streams in
  one pool, thumbnail mode, `FbmDynamicMallocFbmBuf` and `FbmSetReleasePicture`;
* in the video components: configuration messages (window, deinterlacing, hold
  last picture), the clock, the rejection of HDR streams (which ends the render
  loop on purpose), deinterlacing. In `player.c`: audio, subtitles, stream
  switching, fast play;
* in `xplayer.c` and `demuxComponent.c`: surfaces, speed, subtitles, stream
  change, time shift, `RESETURL`, the CMCC build, retries inside a preparation,
  and the policy that decides how much data is enough (both answers are
  possible);
* in the recorder: audio, pause and reset (nothing in the repository calls
  `AwEncoderReset`), the `MPP_ENC_API` build; in the encoder: its configuration,
  `added_buff_num`, and the codec itself;
* the frame-mode stream buffers (`sbmFrameBase.c`);
* parsers, muxers, sound effects, adapters, OpenMAX and the other packages: data
  transformation, wrappers, or separate programs. By lines they are nearly the
  whole repository: `thirdparty/` (lvgl with its generated fonts, Qt), the
  second copy of the codec sources under `libtmedia`, and data tables. The
  modelled files are a small share of the lines and most of the shared state.

## Plan

Done: `MessageQueue`, `Fbm`, `SbmStream`, `VideoStreamInput`, `VideoPlayback`,
`DemuxComp`, `XPlayer`, `VideoEncoder`, `Recorder`. Next, in this order:

1. `sbmFrameBase.c`: the two queues and the detection thread, against `SbmFifo`.
2. First-picture synchronisation of audio and video in `player.c`.
3. The audio half of the recorder.
