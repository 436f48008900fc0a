--------------------------- MODULE RecorderProofs ---------------------------
(***************************************************************************)
(* Proofs about the recorder's video path, for every number of nodes,      *)
(* buffers and frames, every size and alignment of the ring, both kinds of *)
(* buffer and whatever the encoder answers.  Five invariants, one for each *)
(* kind of state: the types (Types), the calls (Calling), the buffers      *)
(* (Pool), their number (Balance) and the ring of encoded frames (Ring).   *)
(***************************************************************************)
EXTENDS Recorder, TLAPS

-----------------------------------------------------------------------------
(* The invariants.                                                         *)

Commands == {"START", "STOP", "QUIT", "WORK"}

BufferOrNone == Buffer \cup {NoBuffer}

WorkerPcs == {"idle", "countStart", "count", "post", "postStart", "started",
              "ended", "returnNode", "notify", "getInput", "encode", "addUsed",
              "deliver"}

WorkerStates ==
    [pc : WorkerPcs, mStatus : {"IDLE", "STARTED"}, buffer : BufferOrNone,
     slot : Slot, result : EncodeResults \cup {"ok", "full"}]

AppStates ==
    [pc : {"idle", "returnNode", "returnBuffer", "getBuffer", "takeNode",
           "addInput", "added", "crashed"},
     buffer : BufferOrNone, lost : Nat]

Fbms == [empty : Int, input : Seq(Buffer), used : Seq(Buffer),
         allocated : Seq(Buffer)]

Types ==
    /\ mUseAllocInputBuffer \in BOOLEAN
    /\ mq \in [Worker -> Seq(Commands)]
    /\ sem \in [Worker -> BOOLEAN]
    /\ worker \in [Worker -> WorkerStates]
    /\ app \in AppStates
    /\ owned \subseteq Buffer
    /\ fbm \in Fbms

\* What ctl may still have to do in a phase.
Todo == [created |-> { << >> },
         running |-> { << Command("enc", "START"), Command("mux", "START") >>,
                       << Command("mux", "START") >>, << >> },
         stopped |-> { << Command("mux", "STOP"), Command("enc", "STOP") >>,
                       << Command("enc", "STOP") >>, << >> },
         destroyed |-> { Shutdown, << Command("enc", "QUIT"), Command("enc", "FREE") >>,
                         << Command("enc", "FREE") >>, << >> }]

\* A worker whose QUIT has been waited for has ended, and the encoder is freed
\* after both.
Calling ==
    /\ phase \in {"created", "running", "stopped", "destroyed"}
    /\ encoder \in {"live", "freed"}
    /\ ctl = [todo |-> ctl.todo, waiting |-> ctl.waiting]
    /\ ctl.waiting \in BOOLEAN
    /\ ctl.waiting => ctl.todo # << >> /\ Head(ctl.todo).id # "FREE"
    /\ ctl.todo \in Todo[phase]
    /\ phase \in {"stopped", "destroyed"} => app.pc = "idle"
    /\ phase = "destroyed" /\ ctl.todo # Shutdown => worker["mux"].pc = "ended"
    /\ phase = "destroyed"
         /\ ctl.todo \in { << Command("enc", "FREE") >>, << >> } =>
         worker["enc"].pc = "ended"
    /\ encoder = "freed" => phase = "destroyed" /\ ctl.todo = << >>

NoRepeat(queue) ==
    \A i, j \in 1 .. Len(queue) : queue[i] = queue[j] => i = j

\* The buffer the encode thread has taken from the queues.
EncOut == IF enc.pc \in {"returnNode", "notify"} THEN enc.buffer ELSE NoBuffer

\* The sets of buffers of three queues and of the application have nothing in
\* common, with each other and with the buffers a and o in the threads' hands.
Apart(input, used, allocated, with, a, o) ==
    /\ input \cap used = {} /\ input \cap allocated = {} /\ used \cap allocated = {}
    /\ with \cap input = {} /\ with \cap used = {} /\ with \cap allocated = {}
    /\ a \notin input \cup used \cup allocated \cup with
    /\ o \notin input \cup used \cup allocated \cup with
    /\ a = o => a = NoBuffer

\* Every buffer is in at most one place.
Places ==
    Apart(BuffersIn(fbm.input), BuffersIn(fbm.used), BuffersIn(fbm.allocated),
          owned, app.buffer, EncOut)

Distinct == NoRepeat(fbm.input) /\ NoRepeat(fbm.used) /\ NoRepeat(fbm.allocated)

\* What a thread has in hand, by where it is.
Hands ==
    /\ app.pc \in {"idle", "getBuffer", "added", "crashed"} => app.buffer = NoBuffer
    /\ app.pc \in {"returnBuffer", "takeNode", "addInput"} => app.buffer # NoBuffer
    /\ enc.pc \in {"encode", "addUsed"} =>
         fbm.input # << >> /\ enc.buffer = Head(fbm.input)
    /\ enc.pc = "notify" => enc.buffer # NoBuffer
    /\ enc.pc \notin {"returnNode", "notify", "encode", "addUsed"} =>
         enc.buffer = NoBuffer

\* A node the writer, and one the encode thread, has taken from one queue and
\* not yet put on another.
AppNode ==
    IF app.pc = "addInput" \/ (app.pc = "returnNode" /\ app.buffer # NoBuffer)
    THEN 1 ELSE 0

EncNode == IF enc.pc = "returnNode" /\ enc.buffer # NoBuffer THEN 1 ELSE 0

\* Every node is counted once.
Count ==
    /\ fbm.empty >= 0
    /\ fbm.empty + Len(fbm.input) + Len(fbm.used) + AppNode + EncNode = nFrameBufferNum

Pool == Distinct /\ Places /\ Hands /\ Count

AppHand == IF app.buffer # NoBuffer THEN 1 ELSE 0

\* Every buffer of the encoder is in a queue, in the writer's hands or lost;
\* buffers of the application are never lost.
Balance ==
    IF mUseAllocInputBuffer
    THEN /\ enc.pc \notin {"returnNode", "notify"}
         /\ Len(fbm.allocated) + Len(fbm.input) + Len(fbm.used) + AppHand + app.lost
                = nBufferNum
    ELSE app.lost = 0 /\ app.pc \in {"idle", "takeNode", "addInput", "added"}

Rings ==
    [nWriteOffset : 0 .. nStreamBufferSize - 1,
     nValidDataSize : 0 .. nStreamBufferSize,
     nValidFrameNum : 0 .. nMaxFrameNum, nUnReadFrameNum : 0 .. nMaxFrameNum,
     nReadPos : Slot, nWritePos : Slot,
     infos : [Slot -> [nStreamOffset : 0 .. nStreamBufferSize - 1,
                       nStreamLength : 0 .. nStreamBufferSize]]]

\* The slot k places before pos.
Before(pos, k) == (pos - k) % nMaxFrameNum

\* D[k] is how many bytes before the write offset the k-th youngest frame
\* begins; it ends where the next younger one begins.
IsStack(D, b) ==
    /\ D[0] = 0 /\ D[b.nValidFrameNum] = b.nValidDataSize
    /\ \A k \in 1 .. b.nValidFrameNum :
         LET info == b.infos[Before(b.nWritePos, k)]
         IN  /\ info.nStreamLength >= 1
             /\ D[k] = D[k - 1] + Aligned(info.nStreamLength)
             /\ info.nStreamOffset = (b.nWriteOffset - D[k]) % nStreamBufferSize
             /\ \A j \in 0 .. k - 1 : D[j] <= D[k - 1]

\* The ring b while a frame is being delivered from slot, or none.
RingOK(b, delivering, slot) ==
    /\ b \in Rings
    /\ \E u \in Nat : b.nValidDataSize = u * AlignBytes
    /\ \E D \in [0 .. nMaxFrameNum -> 0 .. nStreamBufferSize] : IsStack(D, b)
    /\ b.nValidFrameNum = b.nUnReadFrameNum + (IF delivering THEN 1 ELSE 0)
    /\ b.nReadPos = Before(b.nWritePos, b.nUnReadFrameNum)
    /\ delivering => slot = Before(b.nWritePos, b.nValidFrameNum)

Ring == RingOK(bs, mux.pc = "deliver", mux.slot)

-----------------------------------------------------------------------------
(* Queues of buffers.                                                      *)

\* The first buffer and the rest of a queue, which may be empty.
LEMMA QueueTypes ==
    ASSUME NEW q \in Seq(Buffer)
    PROVE  HeadOf(q) \in BufferOrNone /\ Rest(q) \in Seq(Buffer)
  BY DEF HeadOf, Rest, BufferOrNone, NoBuffer

\* A command of a queue that is not empty.
LEMMA CommandTypes ==
    ASSUME NEW q \in Seq(Commands), NEW c \in Commands
    PROVE  Append(q, c) \in Seq(Commands) /\ (q # << >> => Tail(q) \in Seq(Commands))
  OBVIOUS

\* The count and the queues after a section of FrameBufferManager.c.
Nodes(empty, input, used, allocated) ==
    /\ fbm' \in Fbms
    /\ fbm'.empty = empty /\ fbm'.input = input
    /\ fbm'.used = used /\ fbm'.allocated = allocated

\* A node taken from the empty ones.
LEMMA TakeEmptyStep ==
    ASSUME fbm \in Fbms, TakeEmpty
    PROVE  Nodes(fbm.empty - 1, fbm.input, fbm.used, fbm.allocated)
<1>1. /\ fbm.empty \in Int /\ fbm.input \in Seq(Buffer)
      /\ fbm.used \in Seq(Buffer) /\ fbm.allocated \in Seq(Buffer)
  BY DEF Fbms
<1> QED BY <1>1 DEF Nodes, Fbms, TakeEmpty

\* A node put back.
LEMMA ReturnNodeStep ==
    ASSUME fbm \in Fbms, ReturnNode
    PROVE  Nodes(fbm.empty + 1, fbm.input, fbm.used, fbm.allocated)
<1>1. /\ fbm.empty \in Int /\ fbm.input \in Seq(Buffer)
      /\ fbm.used \in Seq(Buffer) /\ fbm.allocated \in Seq(Buffer)
  BY DEF Fbms
<1> QED BY <1>1 DEF Nodes, Fbms, ReturnNode

\* The first used node taken, if there is one.
LEMMA TakeUsedStep ==
    ASSUME fbm \in Fbms, TakeUsed
    PROVE  Nodes(fbm.empty, fbm.input, Rest(fbm.used), fbm.allocated)
<1>1. /\ fbm.empty \in Int /\ fbm.input \in Seq(Buffer)
      /\ fbm.used \in Seq(Buffer) /\ fbm.allocated \in Seq(Buffer)
  BY DEF Fbms
<1>2. Rest(fbm.used) \in Seq(Buffer)
  BY <1>1, QueueTypes
<1> QED BY <1>1, <1>2 DEF Nodes, Fbms, TakeUsed

\* A picture queued for the encoder.
LEMMA AddInputStep ==
    ASSUME fbm \in Fbms, NEW b \in Buffer, AddInput(b)
    PROVE  Nodes(fbm.empty, Append(fbm.input, b), fbm.used, fbm.allocated)
<1>1. /\ fbm.empty \in Int /\ fbm.input \in Seq(Buffer)
      /\ fbm.used \in Seq(Buffer) /\ fbm.allocated \in Seq(Buffer)
  BY DEF Fbms
<1>2. Append(fbm.input, b) \in Seq(Buffer)
  BY <1>1, QueueTypes
<1> QED BY <1>1, <1>2 DEF Nodes, Fbms, AddInput

\* The encoded picture moved to the used ones.
LEMMA AddUsedStep ==
    ASSUME fbm \in Fbms, NEW b \in Buffer, AddUsedInputBuffer(b), HeadOf(fbm.input) = b
    PROVE  Nodes(fbm.empty, Rest(fbm.input), Append(fbm.used, b), fbm.allocated)
<1>1. /\ fbm.empty \in Int /\ fbm.input \in Seq(Buffer)
      /\ fbm.used \in Seq(Buffer) /\ fbm.allocated \in Seq(Buffer)
  BY DEF Fbms
<1>2. Rest(fbm.input) \in Seq(Buffer) /\ Append(fbm.used, b) \in Seq(Buffer)
  BY <1>1, QueueTypes
<1> QED BY <1>1, <1>2 DEF Nodes, Fbms, AddUsedInputBuffer

\* A free buffer taken.
LEMMA GetAllocatedStep ==
    ASSUME fbm \in Fbms, GetOneAllocateInputBuffer
    PROVE  Nodes(fbm.empty, fbm.input, fbm.used, Rest(fbm.allocated))
<1>1. /\ fbm.empty \in Int /\ fbm.input \in Seq(Buffer)
      /\ fbm.used \in Seq(Buffer) /\ fbm.allocated \in Seq(Buffer)
  BY DEF Fbms
<1>2. Rest(fbm.allocated) \in Seq(Buffer)
  BY <1>1, QueueTypes
<1> QED BY <1>1, <1>2 DEF Nodes, Fbms, GetOneAllocateInputBuffer

\* A buffer made free.
LEMMA ReturnAllocatedStep ==
    ASSUME fbm \in Fbms, NEW b \in Buffer, ReturnOneAllocateInputBuffer(b)
    PROVE  Nodes(fbm.empty, fbm.input, fbm.used, Append(fbm.allocated, b))
<1>1. /\ fbm.empty \in Int /\ fbm.input \in Seq(Buffer)
      /\ fbm.used \in Seq(Buffer) /\ fbm.allocated \in Seq(Buffer)
  BY DEF Fbms
<1>2. Append(fbm.allocated, b) \in Seq(Buffer)
  BY <1>1, QueueTypes
<1> QED BY <1>1, <1>2 DEF Nodes, Fbms, ReturnOneAllocateInputBuffer

\* The writer that moves on, and what it then has in hand.
LEMMA AppMoves ==
    ASSUME app \in AppStates,
           NEW pc \in {"idle", "returnNode", "returnBuffer", "getBuffer",
                       "takeNode", "addInput", "added", "crashed"},
           NEW b \in BufferOrNone, NEW n \in Nat
    PROVE  /\ AppGoes(pc) =>
                /\ app' \in AppStates /\ app'.pc = pc /\ app'.buffer = app.buffer
                /\ app'.lost = app.lost
           /\ app' = [app EXCEPT !.pc = pc, !.buffer = b] =>
                /\ app' \in AppStates /\ app'.pc = pc /\ app'.buffer = b
                /\ app'.lost = app.lost
           /\ app' = [app EXCEPT !.pc = pc, !.buffer = b, !.lost = n] =>
                /\ app' \in AppStates /\ app'.pc = pc /\ app'.buffer = b
                /\ app'.lost = n
  BY DEF AppStates, AppGoes

\* Worker t has gone to pc with buffer b and slot s; the other one stays.
Moved(t, pc, b, s) ==
    /\ worker' \in [Worker -> WorkerStates]
    /\ worker'[t].pc = pc /\ worker'[t].buffer = b /\ worker'[t].slot = s
    /\ \A u \in Worker \ {t} : worker'[u] = worker[u]

\* The ways in which the steps of a worker change its state.
LEMMA Moves ==
    ASSUME Types, NEW t \in Worker, NEW pc \in WorkerPcs, NEW b \in BufferOrNone,
           NEW s \in Slot, NEW r \in EncodeResults \cup {"ok", "full"}
    PROVE  /\ worker' = [worker EXCEPT ![t].pc = pc] =>
                Moved(t, pc, worker[t].buffer, worker[t].slot)
           /\ worker' = [worker EXCEPT ![t].pc = pc, ![t].buffer = b] =>
                Moved(t, pc, b, worker[t].slot)
           /\ worker' = [worker EXCEPT ![t].pc = pc, ![t].slot = s] =>
                Moved(t, pc, worker[t].buffer, s)
           /\ worker' = [worker EXCEPT ![t].pc = pc, ![t].result = r] =>
                Moved(t, pc, worker[t].buffer, worker[t].slot)
           /\ worker' = [worker EXCEPT ![t].pc = pc, ![t].mStatus = "STARTED"] =>
                Moved(t, pc, worker[t].buffer, worker[t].slot)
           /\ worker' = [worker EXCEPT ![t].pc = pc, ![t].buffer = b, ![t].result = r] =>
                Moved(t, pc, b, worker[t].slot)
<1>1. worker[t] \in WorkerStates /\ worker \in [Worker -> WorkerStates]
  BY DEF Types
<1>2. ASSUME NEW v \in WorkerStates, worker' = [worker EXCEPT ![t] = v]
      PROVE  Moved(t, v.pc, v.buffer, v.slot)
  BY <1>1, <1>2 DEF Moved
<1>3. ASSUME worker' = [worker EXCEPT ![t].pc = pc]
      PROVE  Moved(t, pc, worker[t].buffer, worker[t].slot)
  <2> DEFINE v == [worker[t] EXCEPT !.pc = pc]
  <2>1. /\ v \in WorkerStates /\ v.pc = pc
        /\ v.buffer = worker[t].buffer
        /\ v.slot = worker[t].slot
    BY <1>1 DEF WorkerStates
  <2>2. worker' = [worker EXCEPT ![t] = v]
    BY <1>1, <1>3
  <2> HIDE DEF v
  <2> QED BY <1>2, <2>1, <2>2
<1>4. ASSUME worker' = [worker EXCEPT ![t].pc = pc, ![t].buffer = b]
      PROVE  Moved(t, pc, b, worker[t].slot)
  <2> DEFINE v == [worker[t] EXCEPT !.pc = pc, !.buffer = b]
  <2>1. /\ v \in WorkerStates /\ v.pc = pc
        /\ v.buffer = b
        /\ v.slot = worker[t].slot
    BY <1>1 DEF WorkerStates
  <2>2. worker' = [worker EXCEPT ![t] = v]
    BY <1>1, <1>4
  <2> HIDE DEF v
  <2> QED BY <1>2, <2>1, <2>2
<1>5. ASSUME worker' = [worker EXCEPT ![t].pc = pc, ![t].slot = s]
      PROVE  Moved(t, pc, worker[t].buffer, s)
  <2> DEFINE v == [worker[t] EXCEPT !.pc = pc, !.slot = s]
  <2>1. /\ v \in WorkerStates /\ v.pc = pc
        /\ v.buffer = worker[t].buffer
        /\ v.slot = s
    BY <1>1 DEF WorkerStates
  <2>2. worker' = [worker EXCEPT ![t] = v]
    BY <1>1, <1>5
  <2> HIDE DEF v
  <2> QED BY <1>2, <2>1, <2>2
<1>6. ASSUME worker' = [worker EXCEPT ![t].pc = pc, ![t].result = r]
      PROVE  Moved(t, pc, worker[t].buffer, worker[t].slot)
  <2> DEFINE v == [worker[t] EXCEPT !.pc = pc, !.result = r]
  <2>1. /\ v \in WorkerStates /\ v.pc = pc
        /\ v.buffer = worker[t].buffer
        /\ v.slot = worker[t].slot
    BY <1>1 DEF WorkerStates
  <2>2. worker' = [worker EXCEPT ![t] = v]
    BY <1>1, <1>6
  <2> HIDE DEF v
  <2> QED BY <1>2, <2>1, <2>2
<1>7. ASSUME worker' = [worker EXCEPT ![t].pc = pc, ![t].mStatus = "STARTED"]
      PROVE  Moved(t, pc, worker[t].buffer, worker[t].slot)
  <2> DEFINE v == [worker[t] EXCEPT !.pc = pc, !.mStatus = "STARTED"]
  <2>1. /\ v \in WorkerStates /\ v.pc = pc
        /\ v.buffer = worker[t].buffer
        /\ v.slot = worker[t].slot
    BY <1>1 DEF WorkerStates
  <2>2. worker' = [worker EXCEPT ![t] = v]
    BY <1>1, <1>7
  <2> HIDE DEF v
  <2> QED BY <1>2, <2>1, <2>2
<1>8. ASSUME worker' = [worker EXCEPT ![t].pc = pc, ![t].buffer = b, ![t].result = r]
      PROVE  Moved(t, pc, b, worker[t].slot)
  <2> DEFINE v == [worker[t] EXCEPT !.pc = pc, !.buffer = b, !.result = r]
  <2>1. /\ v \in WorkerStates /\ v.pc = pc
        /\ v.buffer = b
        /\ v.slot = worker[t].slot
    BY <1>1 DEF WorkerStates
  <2>2. worker' = [worker EXCEPT ![t] = v]
    BY <1>1, <1>8
  <2> HIDE DEF v
  <2> QED BY <1>2, <2>1, <2>2
<1> QED BY <1>3, <1>4, <1>5, <1>6, <1>7, <1>8

\* The state a component is created with has its types.
LEMMA CreatedTypes ==
    ASSUME NEW useAlloc \in BOOLEAN
    PROVE  /\ Created(useAlloc).fbm \in Fbms
           /\ Created(useAlloc).owned \subseteq Buffer
           /\ Ready \in WorkerStates
           /\ NewApp \in AppStates
           /\ [t \in Worker |-> << >>] \in [Worker -> Seq(Commands)]
<1> USE RingAssumption
<1>1. [i \in Buffer |-> i] \in Seq(Buffer) /\ << >> \in Seq(Buffer)
  BY DEF Buffer
<1>2. Created(useAlloc).fbm \in Fbms /\ Created(useAlloc).owned \subseteq Buffer
  BY <1>1 DEF Created, FrameBufferManagerCreate, Fbms
<1>3. 0 \in Slot
  BY DEF Slot
<1>4. Ready \in WorkerStates /\ NewApp \in AppStates
  BY <1>3 DEF Ready, NewApp, WorkerStates, WorkerPcs, AppStates, BufferOrNone
<1>5. [t \in Worker |-> << >>] \in [Worker -> Seq(Commands)]
  OBVIOUS
<1> QED BY <1>2, <1>4, <1>5

-----------------------------------------------------------------------------
(* Types.                                                                  *)

\* The calls, their commands and the steps the workers share.
LEMMA CallTypes == Types /\ (Calls \/ Ctl) /\ Calling => Types'
<1> SUFFICES ASSUME Types, Calls \/ Ctl, Calling PROVE Types'
  OBVIOUS
<1>1. CASE AwEncoderStart \/ AwEncoderStop \/ AwEncoderDestory
  BY <1>1 DEF AwEncoderStart, AwEncoderStop, AwEncoderDestory, Types
<1>2. CASE AwEncoderCreate
  <2>1. mUseAllocInputBuffer' \in BOOLEAN
    BY <1>2, SettingsAssumption DEF AwEncoderCreate
  <2> QED BY <1>2, <2>1, CreatedTypes DEF AwEncoderCreate, Types
<1>3. CASE PostCommand
  <2>1. Head(ctl.todo).to \in Worker /\ Head(ctl.todo).id \in Commands
    BY <1>3 DEF PostCommand, Calling, Todo, Shutdown, Command, Worker, Commands
  <2>2. mq' \in [Worker -> Seq(Commands)]
    BY <1>3, <2>1, CommandTypes DEF PostCommand, Types
  <2> QED BY <1>3, <2>2 DEF PostCommand, Types
<1>4. CASE CommandReturns
  BY <1>4 DEF CommandReturns, Types
<1>5. CASE FreeEncoder
  BY <1>5 DEF FreeEncoder, Types
<1> QED BY <1>1, <1>2, <1>3, <1>4, <1>5 DEF Calls, Ctl

\* The writer.
LEMMA WriteTypes == Types /\ Pool /\ (InputBuffer \/ Write) => Types'
<1> SUFFICES ASSUME Types, Pool, InputBuffer \/ Write PROVE Types'
  OBVIOUS
<1>1. CASE InputBuffer
  <2>1. fbm' \in Fbms /\ app' \in AppStates /\ owned' \subseteq Buffer
    BY ZenonT(60), <1>1, QueueTypes
    DEF InputBuffer, Types, Fbms, AppStates, TakeUsed, BufferOrNone
  <2> QED BY <1>1, <2>1 DEF InputBuffer, Types, threads
<1>2. CASE AppReturnsNode
  <2>1. app' \in AppStates /\ fbm' \in Fbms
    BY <1>2, AppMoves, ReturnNodeStep DEF AppReturnsNode, Types, Nodes, BufferOrNone
  <2> QED BY <1>2, <2>1 DEF AppReturnsNode, Types, threads
<1>3. CASE AppReturnsBuffer
  <2>1. app.buffer \in Buffer /\ NoBuffer \in BufferOrNone
    BY <1>3 DEF AppReturnsBuffer, AppAt, Types, AppStates, Pool, Hands, BufferOrNone
  <2>2. app' \in AppStates /\ fbm' \in Fbms
    BY <1>3, <2>1, AppMoves, ReturnAllocatedStep DEF AppReturnsBuffer, Types, Nodes
  <2> QED BY <1>3, <2>2 DEF AppReturnsBuffer, Types, threads
<1>4. CASE AppGetsBuffer
  <2>1. fbm.allocated \in Seq(Buffer)
    BY DEF Types, Fbms
  <2>2. fbm.allocated # << >> => Head(fbm.allocated) \in BufferOrNone
    BY <2>1 DEF BufferOrNone
  <2>3. fbm' \in Fbms /\ app' \in AppStates
    BY <1>4, <2>2, AppMoves, GetAllocatedStep DEF AppGetsBuffer, Types, Nodes, BufferOrNone
  <2> QED BY <1>4, <2>3 DEF AppGetsBuffer, Types, threads
<1>5. CASE AppTakesNode
  <2>1. app.buffer \in Buffer /\ NoBuffer \in BufferOrNone
    BY <1>5 DEF AppTakesNode, AppAt, Types, AppStates, Pool, Hands, BufferOrNone
  <2>2. fbm' \in Fbms /\ app' \in AppStates
    <3>1. PICK n \in Nat : n = IF mUseAllocInputBuffer THEN app.lost + 1 ELSE app.lost
      BY DEF Types, AppStates
    <3>2. CASE app' = [app EXCEPT !.pc = "idle", !.buffer = NoBuffer, !.lost = n]
               /\ UNCHANGED fbm
      BY <2>1, <3>2, AppMoves DEF Types
    <3>3. CASE AppGoes("addInput") /\ TakeEmpty
      BY <2>1, <3>3, AppMoves, TakeEmptyStep DEF Types, Nodes, AppStates
    <3> QED BY <1>5, <3>1, <3>2, <3>3 DEF AppTakesNode
  <2>3. owned' \subseteq Buffer
    BY <1>5, <2>1 DEF AppTakesNode, Types
  <2> QED BY <1>5, <2>2, <2>3 DEF AppTakesNode, Types, threads
<1>6. CASE AppAddsInput
  <2>1. app.buffer \in Buffer
    BY <1>6 DEF AppAddsInput, AppAt, Types, AppStates, Pool, Hands, BufferOrNone
  <2>2. fbm' \in Fbms
    BY <1>6, <2>1, AddInputStep DEF AppAddsInput, Types, Nodes
  <2>3. app' \in AppStates
    BY <1>6, AppMoves DEF AppAddsInput, Types, BufferOrNone
  <2> QED BY <1>6, <2>2, <2>3 DEF AppAddsInput, Types, threads
<1>7. CASE WriteReturns
  BY <1>7 DEF WriteReturns, AppGoes, Types, AppStates, threads
<1> QED BY <1>1, <1>2, <1>3, <1>4, <1>5, <1>6, <1>7 DEF Write

\* The commands of the workers and their messages to themselves.
LEMMA WorkerTypes ==
    ASSUME Types, NEW t \in Worker,
           \/ Start(t) \/ CountMessages(t) \/ PostWork(t) \/ StartReply(t)
           \/ Stop(t) \/ Quit(t)
    PROVE  Types'
<1>1. UNCHANGED << mUseAllocInputBuffer, app, owned, fbm >>
  BY DEF Start, CountMessages, PostWork, StartReply, Stop, Quit, application
<1>2. mq' \in [Worker -> Seq(Commands)]
  <2>1. mq[t] \in Seq(Commands) /\ "WORK" \in Commands
    BY DEF Types, Commands
  <2>2. Append(mq[t], "WORK") \in Seq(Commands)
        /\ (mq[t] # << >> => Tail(mq[t]) \in Seq(Commands))
    BY <2>1, CommandTypes
  <2> QED BY <2>2
      DEF Start, CountMessages, PostWork, StartReply, Stop, Quit, Receive, Types
<1>3. sem' \in [Worker -> BOOLEAN]
  BY DEF Start, CountMessages, PostWork, StartReply, Stop, Quit, Types
<1>4. worker' \in [Worker -> WorkerStates]
  <2>1. NoBuffer \in BufferOrNone /\ 0 \in Slot
    BY RingAssumption DEF BufferOrNone, Slot
  <2>2. CASE \E pc \in WorkerPcs : worker' = [worker EXCEPT ![t].pc = pc]
    BY <2>1, <2>2, Moves DEF Moved
  <2>3. CASE worker' = [worker EXCEPT ![t].pc = "idle", ![t].mStatus = "STARTED"]
    BY <2>1, <2>3, Moves DEF Moved, WorkerPcs
  <2>4. CASE CountMessages(t)
    <3>1. /\ worker[t].pc \in {"count", "countStart"}
          /\ worker' = [worker EXCEPT ![t].pc =
                          CASE @ = "count" -> IF mq[t] = << >> THEN "post" ELSE "idle"
                            [] OTHER -> IF mq[t] = << >> THEN "postStart" ELSE "started"]
      BY <2>4 DEF CountMessages
    <3> QED BY <2>2, <3>1 DEF WorkerPcs, Types, WorkerStates
  <2>5. CASE Start(t)
    BY <2>2, <2>5 DEF Start, Goes, WorkerPcs, Types
  <2>6. CASE PostWork(t)
    BY <2>2, <2>6 DEF PostWork, Goes, WorkerPcs
  <2>7. CASE StartReply(t)
    BY <2>3, <2>7 DEF StartReply
  <2>8. CASE Stop(t) \/ Quit(t)
    BY <2>2, <2>8 DEF Stop, Quit, Goes, WorkerPcs, Types
  <2> QED BY <2>4, <2>5, <2>6, <2>7, <2>8
<1> QED BY <1>1, <1>2, <1>3, <1>4 DEF Types

\* The encode thread.
LEMMA EncTypes ==
    ASSUME Types, Pool,
           \/ Encode \/ EncReturnsNode \/ NotifyReturnBuffer
           \/ GetInputBuffer \/ EncodeOneFrame \/ AddUsed
    PROVE  Types'
<1>1. /\ "enc" \in Worker /\ NoBuffer \in BufferOrNone /\ 0 \in Slot
      /\ "ok" \in EncodeResults \cup {"ok", "full"}
      /\ enc.buffer \in BufferOrNone
      /\ fbm \in Fbms /\ fbm.input \in Seq(Buffer) /\ fbm.used \in Seq(Buffer)
  BY RingAssumption
  DEF Worker, BufferOrNone, Slot, Types, Fbms, WorkerStates, enc
<1>2. CASE Encode
  <2>1. HeadOf(fbm.used) \in BufferOrNone
    BY <1>1, QueueTypes
  <2>2. worker' \in [Worker -> WorkerStates]
    BY <1>1, <1>2, <2>1, Moves DEF Encode, Goes, Moved, WorkerPcs
  <2>3. fbm' \in Fbms
    BY <1>1, <1>2, TakeUsedStep DEF Encode, Nodes
  <2>4. mq' \in [Worker -> Seq(Commands)]
    BY <1>1, <1>2, CommandTypes DEF Encode, Receive, Types
  <2> QED BY <1>2, <2>2, <2>3, <2>4 DEF Encode, Types, application
<1>3. CASE EncReturnsNode
  <2>1. worker' \in [Worker -> WorkerStates]
    BY <1>1, <1>3, Moves DEF EncReturnsNode, Goes, Moved, WorkerPcs
  <2>2. fbm' \in Fbms
    BY <1>1, <1>3, ReturnNodeStep DEF EncReturnsNode, Nodes
  <2> QED BY <1>3, <2>1, <2>2 DEF EncReturnsNode, Types, application
<1>4. CASE NotifyReturnBuffer
  <2>1. worker' \in [Worker -> WorkerStates]
    BY <1>1, <1>4, Moves DEF NotifyReturnBuffer, Moved, WorkerPcs
  <2>2. owned' \subseteq Buffer
    BY <1>1, <1>4 DEF NotifyReturnBuffer, Types, Pool, Hands, BufferOrNone
  <2> QED BY <1>4, <2>1, <2>2 DEF NotifyReturnBuffer, Types
<1>5. CASE GetInputBuffer
  <2>1. fbm.input # << >> => Head(fbm.input) \in BufferOrNone
    BY <1>1 DEF BufferOrNone
  <2>2. worker' \in [Worker -> WorkerStates]
    BY <1>1, <1>5, <2>1, Moves DEF GetInputBuffer, Goes, Moved, WorkerPcs
  <2> QED BY <1>5, <2>2 DEF GetInputBuffer, Types, application
<1>6. CASE EncodeOneFrame
  <2>1. PICK r \in EncodeResults \cup {"ok", "full"} :
          worker' = [worker EXCEPT !["enc"].pc = "addUsed", !["enc"].result = r]
    BY <1>6 DEF EncodeOneFrame
  <2>2. Moved("enc", "addUsed", worker["enc"].buffer, worker["enc"].slot)
    BY <1>1, <2>1, Moves DEF WorkerPcs
  <2>3. worker' \in [Worker -> WorkerStates]
    BY <2>2 DEF Moved
  <2> QED BY <1>6, <2>3 DEF EncodeOneFrame, Types, application
<1>7. CASE AddUsed
  <2>1. PICK pc \in {"idle", "count"} :
          worker' = [worker EXCEPT !["enc"].pc = pc, !["enc"].buffer = NoBuffer,
                                   !["enc"].result = "ok"]
    BY <1>7 DEF AddUsed
  <2>2. worker' \in [Worker -> WorkerStates]
    <3>1. Moved("enc", pc, NoBuffer, worker["enc"].slot)
      BY <1>1, <2>1, Moves DEF WorkerPcs
    <3> QED BY <3>1 DEF Moved
  <2>3. fbm.input # << >> /\ enc.buffer = Head(fbm.input)
    BY <1>7 DEF AddUsed, Pool, Hands
  <2>4. enc.buffer \in Buffer /\ HeadOf(fbm.input) = enc.buffer
    BY <1>1, <2>3 DEF HeadOf
  <2>5. fbm' \in Fbms
    BY <1>1, <1>7, <2>4, AddUsedStep DEF AddUsed, Nodes
  <2> QED BY <1>7, <2>2, <2>5 DEF AddUsed, Types, application
<1> QED BY <1>2, <1>3, <1>4, <1>5, <1>6, <1>7

\* The thread that hands out encoded frames.
LEMMA MuxTypes ==
    ASSUME Types, Ring, RequestVideoFrame \/ ReturnVideoFrame
    PROVE  Types'
<1>1. /\ "mux" \in Worker /\ NoBuffer \in BufferOrNone /\ 0 \in Slot
      /\ "ok" \in EncodeResults \cup {"ok", "full"} /\ bs.nReadPos \in Slot
  BY SMTT(60), RingAssumption DEF Worker, BufferOrNone, Slot, Ring, RingOK, Rings
<1>2. worker' \in [Worker -> WorkerStates]
  BY <1>1, Moves
  DEF RequestVideoFrame, ReturnVideoFrame, Goes, Moved, WorkerPcs
<1>3. mq' \in [Worker -> Seq(Commands)]
  <2>1. mq["mux"] \in Seq(Commands)
    BY <1>1 DEF Types
  <2>2. mq["mux"] # << >> => Tail(mq["mux"]) \in Seq(Commands)
    BY <2>1
  <2> QED BY <1>1, <2>2 DEF RequestVideoFrame, ReturnVideoFrame, Receive, Types
<1> QED BY <1>2, <1>3 DEF RequestVideoFrame, ReturnVideoFrame, Types, application

-----------------------------------------------------------------------------
(* The calls.                                                              *)

\* A step of a worker never leaves "ended", and the writer starts only while
\* the recorder runs.
LEMMA CallingKept ==
    ASSUME Types, Calling, UNCHANGED << ctl, phase, encoder >>,
           \A t \in Worker : worker[t].pc = "ended" => worker'[t].pc = "ended",
           phase \in {"stopped", "destroyed"} /\ app.pc = "idle" => app'.pc = "idle"
    PROVE  Calling'
  BY DEF Calling, Worker

\* The lists of commands, taken apart.
LEMMA Lists ==
    ASSUME NEW a, NEW b, NEW c
    PROVE  /\ Tail(<< a >>) = << >> /\ Tail(<< a, b >>) = << b >>
           /\ Tail(<< a, b, c >>) = << b, c >>
           /\ Head(<< a >>) = a /\ Head(<< a, b >>) = a /\ Head(<< a, b, c >>) = a
           /\ << a >> # << >> /\ << a, b >> # << >> /\ << a, b, c >> # << >>
           /\ << a, b >> # << c >>
  OBVIOUS

\* ctl: each command is removed when the worker has replied, QUIT when the
\* worker has ended.
LEMMA CallingStep == Types /\ Calling /\ (Calls \/ Ctl) => Calling'
<1> SUFFICES ASSUME Types, Calling, Calls \/ Ctl PROVE Calling'
  OBVIOUS
<1>1. CASE AwEncoderStart
  BY <1>1 DEF AwEncoderStart, Calling, Todo
<1>2. CASE AwEncoderStop
  BY <1>2 DEF AwEncoderStop, Calling, Todo
<1>3. CASE AwEncoderDestory
  <2>1. Shutdown # << Command("enc", "FREE") >> /\ Shutdown # << >>
    BY DEF Shutdown
  <2> QED BY <1>3, <2>1 DEF AwEncoderDestory, Calling, Todo
<1>4. CASE AwEncoderCreate
  BY <1>4 DEF AwEncoderCreate, Calling, Todo
<1>5. CASE PostCommand
  BY <1>5 DEF PostCommand, Calling, Todo
<1>6. CASE CommandReturns \/ FreeEncoder
  <2> DEFINE h == Head(ctl.todo)
  <2>1. /\ ctl.todo # << >>
        /\ h.id = "FREE" \/ (h.id = "QUIT" => worker[h.to].pc = "ended")
        /\ ctl' = [todo |-> Tail(ctl.todo), waiting |-> FALSE]
        /\ UNCHANGED << phase, worker, app >>
        /\ encoder' = encoder \/ (h.id = "FREE" /\ encoder' = "freed")
    <3>1. CASE CommandReturns
      BY <3>1 DEF CommandReturns, Calling
    <3>2. CASE FreeEncoder
      <4>1. ctl.todo # << >> /\ h.id = "FREE" /\ encoder' = "freed"
        BY <3>2 DEF FreeEncoder
      <4>2. UNCHANGED << phase, worker, app >>
        BY <3>2 DEF FreeEncoder
      <4>3. ctl' = [todo |-> Tail(ctl.todo), waiting |-> ctl.waiting]
        BY <3>2 DEF FreeEncoder, Calling
      <4> QED BY <4>1, <4>2, <4>3 DEF Calling
    <3> QED BY <1>6, <3>1, <3>2
  <2>2. ctl'.todo = Tail(ctl.todo) /\ ~ctl'.waiting
        /\ ctl' = [todo |-> ctl'.todo, waiting |-> ctl'.waiting]
    BY <2>1
  <2>3. CASE phase # "destroyed"
    <3>1. ctl'.todo \in Todo[phase] /\ h.id # "FREE"
      <4>1. CASE phase = "created"
        BY <2>1, <4>1 DEF Calling, Todo
      <4>2. CASE phase = "running"
        <5> DEFINE two == << Command("enc", "START"), Command("mux", "START") >>
                   one == << Command("mux", "START") >>
        <5>1. Todo[phase] = {two, one, << >>}
          BY <4>2 DEF Todo
        <5>2. /\ Tail(two) = one /\ Tail(one) = << >>
              /\ Head(two).id # "FREE" /\ Head(one).id # "FREE"
          BY Lists DEF Command
        <5> HIDE DEF two, one
        <5>3. ctl.todo \in {two, one}
          BY <2>1, <5>1 DEF Calling
        <5> QED BY <2>2, <5>1, <5>2, <5>3
      <4>3. CASE phase = "stopped"
        <5> DEFINE two == << Command("mux", "STOP"), Command("enc", "STOP") >>
                   one == << Command("enc", "STOP") >>
        <5>1. Todo[phase] = {two, one, << >>}
          BY <4>3 DEF Todo
        <5>2. /\ Tail(two) = one /\ Tail(one) = << >>
              /\ Head(two).id # "FREE" /\ Head(one).id # "FREE"
          BY Lists DEF Command
        <5> HIDE DEF two, one
        <5>3. ctl.todo \in {two, one}
          BY <2>1, <5>1 DEF Calling
        <5> QED BY <2>2, <5>1, <5>2, <5>3
      <4> QED BY <2>3, <4>1, <4>2, <4>3 DEF Calling
    <3> QED BY <2>1, <2>2, <2>3, <3>1 DEF Calling
  <2>4. CASE phase = "destroyed" /\ ctl.todo = Shutdown
    <3>1. /\ h.id = "QUIT" /\ h.to = "mux"
          /\ ctl'.todo = << Command("enc", "QUIT"), Command("enc", "FREE") >>
          /\ ctl'.todo # Shutdown
          /\ ctl'.todo \notin { << Command("enc", "FREE") >>, << >> }
      BY <2>2, <2>4, Lists DEF Shutdown, Command
    <3> QED BY <2>1, <2>2, <2>4, <3>1 DEF Calling, Todo
  <2>5. CASE /\ phase = "destroyed"
             /\ ctl.todo = << Command("enc", "QUIT"), Command("enc", "FREE") >>
    <3>1. /\ h.id = "QUIT" /\ h.to = "enc"
          /\ ctl'.todo = << Command("enc", "FREE") >>
          /\ ctl.todo # Shutdown
      BY <2>2, <2>5, Lists DEF Shutdown, Command
    <3> QED BY <2>1, <2>2, <2>5, <3>1 DEF Calling, Todo
  <2>6. CASE phase = "destroyed" /\ ctl.todo = << Command("enc", "FREE") >>
    <3>1. ctl'.todo = << >> /\ ctl.todo # Shutdown
      BY <2>2, <2>6, Lists DEF Shutdown, Command
    <3> QED BY <2>1, <2>2, <2>6, <3>1 DEF Calling, Todo
  <2> QED BY <2>1, <2>3, <2>4, <2>5, <2>6 DEF Calling, Todo
<1> QED BY <1>1, <1>2, <1>3, <1>4, <1>5, <1>6 DEF Calls, Ctl

-----------------------------------------------------------------------------
(* The ring of encoded frames.                                             *)

\* The sizes of the ring are positive.
LEMMA Sizes ==
    /\ nStreamBufferSize \in Nat \ {0} /\ nMaxFrameNum \in Nat \ {0}
    /\ AlignBytes \in Nat \ {0} /\ StreamLengths \subseteq 1 .. nStreamBufferSize
  BY RingAssumption

\* A rounded length covers the length and fits wherever the length fits
\* between multiples of the alignment.
LEMMA AlignedLemma ==
    ASSUME NEW length \in Nat
    PROVE  /\ Aligned(length) \in Nat /\ Aligned(length) >= length
           /\ \E p \in Nat : Aligned(length) = p * AlignBytes
           /\ \A u \in Nat : length <= u * AlignBytes => Aligned(length) <= u * AlignBytes
<1> DEFINE A == AlignBytes
           p == (length + A - 1) \div A
<1>1. A \in Nat \ {0} /\ length + A - 1 \in Nat
  BY RingAssumption
<1>2. p \in Int /\ p * A <= length + A - 1 /\ length + A - 1 < p * A + A
  BY <1>1
<1>3. p >= 0
  BY <1>1, <1>2
<1> HIDE DEF p
<1>4. ASSUME NEW u \in Nat, length <= u * A PROVE p * A <= u * A
  <2>1. p * A < u * A + A /\ u * A \in Int /\ p * A \in Int
    BY <1>1, <1>2, <1>4
  <2>2. p <= u
    BY <1>1, <1>2, <2>1
  <2> QED BY <1>1, <1>2, <2>2
<1>5. p * A \in Nat /\ p * A >= length
  BY <1>1, <1>2, <1>3
<1>6. Aligned(length) = p * A
  BY DEF Aligned, p
<1>7. \E q \in Nat : Aligned(length) = q * A
  <2>1. p \in Nat
    BY <1>2, <1>3
  <2> QED BY <1>6, <2>1
<1>8. Aligned(length) \in Nat /\ Aligned(length) >= length
  BY <1>5, <1>6
<1>9. \A u \in Nat : length <= u * A => Aligned(length) <= u * A
  BY <1>4, <1>6
<1> QED BY <1>7, <1>8, <1>9

\* The room left in the ring is a multiple of the alignment too.
LEMMA RoomLemma ==
    ASSUME NEW u \in Nat, u * AlignBytes <= nStreamBufferSize
    PROVE  \E v \in Nat : nStreamBufferSize - u * AlignBytes = v * AlignBytes
<1> USE RingAssumption
<1>1. PICK w \in Nat : nStreamBufferSize = w * AlignBytes
  <2>1. AlignBytes \in Nat \ {0} /\ nStreamBufferSize \in Nat
        /\ nStreamBufferSize % AlignBytes = 0
    OBVIOUS
  <2>2. nStreamBufferSize \div AlignBytes \in Nat
        /\ nStreamBufferSize = (nStreamBufferSize \div AlignBytes) * AlignBytes
    BY <2>1
  <2> QED BY <2>2
<1>2. AlignBytes \in Nat \ {0} /\ u * AlignBytes <= w * AlignBytes
  BY <1>1
<1>3. u <= w
  BY <1>2
<1>4. w - u \in Nat /\ w * AlignBytes - u * AlignBytes = (w - u) * AlignBytes
  BY <1>2, <1>3
<1> QED BY <1>1, <1>4

\* The slots that lie k places before a position.
LEMMA BeforeLemma ==
    ASSUME NEW pos \in Slot
    PROVE  /\ NextSlot(pos) \in Slot /\ Before(NextSlot(pos), 0) = NextSlot(pos)
           /\ Before(pos, 0) = pos
           /\ \A k \in 0 .. nMaxFrameNum :
                /\ Before(pos, k) \in Slot
                /\ k >= 1 => Before(NextSlot(pos), k) = Before(pos, k - 1)
                /\ k >= 1 /\ k < nMaxFrameNum => Before(pos, k) # pos
                /\ k >= 1 => NextSlot(Before(pos, k)) = Before(pos, k - 1)
           /\ \A k, j \in 1 .. nMaxFrameNum :
                Before(pos, k) = Before(pos, j) => k = j
<1> DEFINE M == nMaxFrameNum
<1>1. M \in Nat \ {0} /\ pos \in 0 .. M - 1
  BY RingAssumption DEF Slot
<1>2. NextSlot(pos) = IF pos = M - 1 THEN 0 ELSE pos + 1
  <2>1. pos + 1 \in 0 .. M - 1 \/ pos + 1 \in M .. 2 * M - 1
    BY <1>1
  <2>2. (pos + 1) % M = IF pos + 1 < M THEN pos + 1 ELSE pos + 1 - M
    BY <1>1, <2>1
  <2> QED BY <1>1, <2>2 DEF NextSlot
<1>3. ASSUME NEW q \in 0 .. M - 1, NEW k \in 0 .. M
      PROVE  Before(q, k) = IF k <= q THEN q - k ELSE q - k + M
  <2>1. q - k \in 0 .. M - 1 \/ q - k \in -M .. -1
    BY <1>1
  <2>2. (q - k) % M = IF k <= q THEN q - k ELSE q - k + M
    BY <1>1, <2>1
  <2> QED BY <2>2 DEF Before
<1>4. NextSlot(pos) \in 0 .. M - 1
  BY <1>1, <1>2
<1>5. ASSUME NEW k \in 1 .. M PROVE NextSlot(Before(pos, k)) = Before(pos, k - 1)
  <2>1. Before(pos, k) \in 0 .. M - 1 /\ k - 1 \in 0 .. M
    BY <1>1, <1>3
  <2> DEFINE r == Before(pos, k)
  <2> HIDE DEF r
  <2>a. r \in 0 .. M - 1
    BY <2>1 DEF r
  <2>b. r + 1 \in 0 .. M - 1 \/ r + 1 \in M .. 2 * M - 1
    BY <1>1, <2>a
  <2>c. (r + 1) % M = IF r + 1 < M THEN r + 1 ELSE r + 1 - M
    BY <1>1, <2>a, <2>b
  <2>2. NextSlot(r) = IF r = M - 1 THEN 0 ELSE r + 1
    BY <1>1, <2>a, <2>c DEF NextSlot
  <2> QED BY <1>1, <1>3, <2>1, <2>2 DEF r
<1> HIDE DEF M
<1>6. Before(NextSlot(pos), 0) = NextSlot(pos) /\ Before(pos, 0) = pos
  BY <1>1, <1>3, <1>4
<1>7. ASSUME NEW k \in 0 .. M
      PROVE  /\ Before(pos, k) \in 0 .. M - 1
             /\ k >= 1 => Before(NextSlot(pos), k) = Before(pos, k - 1)
             /\ k >= 1 /\ k < M => Before(pos, k) # pos
  BY <1>1, <1>2, <1>3, <1>4
<1>8. ASSUME NEW k \in 1 .. M, NEW j \in 1 .. M, Before(pos, k) = Before(pos, j)
      PROVE  k = j
  BY <1>1, <1>3, <1>8
<1> QED BY <1>4, <1>5, <1>6, <1>7, <1>8 DEF Slot, M

\* The slot k places before a position is k + 1 places before the next one.
LEMMA BeforeNext ==
    ASSUME NEW pos \in Slot, NEW k \in 0 .. nMaxFrameNum - 1
    PROVE  Before(NextSlot(pos), k + 1) = Before(pos, k)
<1>1. k + 1 \in 0 .. nMaxFrameNum /\ k + 1 >= 1 /\ (k + 1) - 1 = k
  BY Sizes
<1>2. Before(NextSlot(pos), k + 1) = Before(pos, (k + 1) - 1)
  BY <1>1, BeforeLemma
<1> QED BY <1>1, <1>2

\* Fewer places back than there are slots is another slot.
LEMMA BeforeOther ==
    ASSUME NEW pos \in Slot, NEW k \in 1 .. nMaxFrameNum - 1
    PROVE  Before(pos, k) # pos
<1>1. k \in 0 .. nMaxFrameNum /\ k >= 1 /\ k < nMaxFrameNum
  BY Sizes
<1> QED BY <1>1, BeforeLemma

\* Moving the write offset and a distance from it by the same bytes leaves the
\* place the same.
LEMMA ShiftLemma ==
    ASSUME NEW w \in 0 .. nStreamBufferSize - 1, NEW a \in 0 .. nStreamBufferSize,
           NEW x \in 0 .. nStreamBufferSize, x + a <= nStreamBufferSize
    PROVE  (((w + a) % nStreamBufferSize) - (x + a)) % nStreamBufferSize
             = (w - x) % nStreamBufferSize
<1> DEFINE S == nStreamBufferSize
           r == (w + a) % S
<1>1. S \in Nat \ {0}
  BY RingAssumption
<1>2. w + a \in 0 .. S - 1 \/ w + a \in S .. 2 * S - 1
  BY <1>1
<1>3. r = IF w + a < S THEN w + a ELSE w + a - S
  BY <1>1, <1>2
<1> HIDE DEF r
<1>4. w - x \in 0 .. S - 1 \/ w - x \in -S .. -1
  BY <1>1
<1>5. (w - x) % S = IF x <= w THEN w - x ELSE w - x + S
  BY <1>1, <1>4
<1>6. r - (x + a) = w - x \/ r - (x + a) = w - x - S
  BY <1>1, <1>3
<1>7. r - (x + a) \in 0 .. S - 1 \/ r - (x + a) \in -S .. -1
  BY <1>1, <1>3
<1>8. (r - (x + a)) % S = IF r - (x + a) >= 0 THEN r - (x + a) ELSE r - (x + a) + S
  BY <1>1, <1>7
<1> QED BY <1>1, <1>5, <1>6, <1>7, <1>8 DEF r

\* The fields of a ring.
LEMMA RingFields ==
    ASSUME bs \in Rings
    PROVE  /\ bs.nWriteOffset \in 0 .. nStreamBufferSize - 1
           /\ bs.nValidDataSize \in 0 .. nStreamBufferSize
           /\ bs.nValidFrameNum \in 0 .. nMaxFrameNum
           /\ bs.nUnReadFrameNum \in 0 .. nMaxFrameNum
           /\ bs.nReadPos \in Slot /\ bs.nWritePos \in Slot
           /\ \A s \in Slot :
                /\ bs.infos[s].nStreamOffset \in 0 .. nStreamBufferSize - 1
                /\ bs.infos[s].nStreamLength \in 0 .. nStreamBufferSize
  BY DEF Rings

\* An older frame is at most as far back as all the valid data.
LEMMA StackDepth ==
    ASSUME bs \in Rings, NEW D \in [0 .. nMaxFrameNum -> 0 .. nStreamBufferSize],
           IsStack(D, bs)
    PROVE  \A k \in 0 .. bs.nValidFrameNum : D[k] <= bs.nValidDataSize
<1> DEFINE V == bs.nValidFrameNum
<1>1. V \in 0 .. nMaxFrameNum /\ nMaxFrameNum \in Nat
  BY RingFields, Sizes
<1>2. ASSUME NEW k \in 0 .. V, k # V PROVE D[k] <= D[V]
  <2>0. V \in 1 .. V /\ k \in 0 .. V - 1
    BY <1>1, <1>2
  <2>1. Before(bs.nWritePos, V) \in Slot
    BY <1>1, RingFields, BeforeLemma
  <2>2. bs.infos[Before(bs.nWritePos, V)].nStreamLength \in Nat
    BY <2>1, RingFields
  <2>3. Aligned(bs.infos[Before(bs.nWritePos, V)].nStreamLength) \in Nat
    BY <2>2, AlignedLemma
  <2>4. D[k] <= D[V - 1]
        /\ D[V] = D[V - 1] + Aligned(bs.infos[Before(bs.nWritePos, V)].nStreamLength)
    BY <2>0 DEF IsStack
  <2>5. D[k] \in Nat /\ D[V - 1] \in Nat
    BY <1>1, <2>0
  <2> QED BY <2>3, <2>4, <2>5
<1>3. D[V] = bs.nValidDataSize /\ D[V] \in Nat
  BY <1>1 DEF IsStack
<1> QED BY <1>2, <1>3

\* BitStreamAddOneBitstream keeps the frames on top of one another, also when
\* the ring wraps and when rounding takes more than was compared.
LEMMA AddBitstream ==
    ASSUME NEW busy \in BOOLEAN, NEW slot, RingOK(bs, busy, slot),
           NEW length \in StreamLengths, HasRoom(length),
           BitStreamAddOneBitstream(length)
    PROVE  RingOK(bs', busy, slot)
<1> DEFINE S == nStreamBufferSize
           M == nMaxFrameNum
           V == bs.nValidFrameNum
           wp == bs.nWritePos
           wo == bs.nWriteOffset
           a == Aligned(length)
<1>1. /\ bs \in Rings /\ S \in Nat \ {0} /\ M \in Nat \ {0} /\ AlignBytes \in Nat \ {0}
      /\ V \in 0 .. M /\ wp \in Slot /\ wo \in 0 .. S - 1
      /\ bs.nValidDataSize \in 0 .. S /\ bs.nUnReadFrameNum \in 0 .. M
      /\ length \in 1 .. S
  BY RingFields, Sizes DEF RingOK
<1>2. V < M /\ length <= S - bs.nValidDataSize
  BY DEF HasRoom
<1>3. PICK u \in Nat : bs.nValidDataSize = u * AlignBytes
  BY DEF RingOK
<1>4. PICK D \in [0 .. M -> 0 .. S] : IsStack(D, bs)
  BY DEF RingOK
<1>5. PICK p \in Nat : a = p * AlignBytes
  <2>1. length \in Nat
    BY <1>1
  <2> QED BY <2>1, AlignedLemma
<1>6. a \in 1 .. S /\ a <= S - bs.nValidDataSize
  <2>1. u * AlignBytes <= S
    BY <1>1, <1>3
  <2>2. PICK v \in Nat : S - u * AlignBytes = v * AlignBytes
    BY <2>1, RoomLemma
  <2>3. length \in Nat /\ length <= v * AlignBytes
    BY <1>1, <1>2, <1>3, <2>2
  <2>4. a \in Nat /\ a >= length /\ a <= v * AlignBytes
    BY <2>3, AlignedLemma
  <2>5. a <= S - bs.nValidDataSize
    BY <1>3, <2>2, <2>4
  <2> HIDE DEF a
  <2> QED BY <1>1, <2>4, <2>5
<1> HIDE DEF a
<1> DEFINE info == [nStreamOffset |-> wo, nStreamLength |-> length]
<1>7. /\ bs'.nWriteOffset = (wo + a) % S
      /\ bs'.nValidDataSize = bs.nValidDataSize + a
      /\ bs'.nValidFrameNum = V + 1
      /\ bs'.nUnReadFrameNum = bs.nUnReadFrameNum + 1
      /\ bs'.nReadPos = bs.nReadPos
      /\ bs'.nWritePos = NextSlot(wp)
      /\ bs'.infos = [bs.infos EXCEPT ![wp] = info]
  BY <1>1 DEF BitStreamAddOneBitstream, Rings, a
<1>8. bs.nUnReadFrameNum < M
  BY <1>1, <1>2 DEF RingOK
<1>9. bs' \in Rings
  <2>1. NextSlot(wp) \in Slot
    BY <1>1, BeforeLemma
  <2>2. bs.nValidDataSize + a \in 0 .. S
        /\ V + 1 \in 0 .. M /\ bs.nUnReadFrameNum + 1 \in 0 .. M
    <3> DEFINE v == bs.nValidDataSize
               n == bs.nUnReadFrameNum
    <3>1. /\ v \in 0 .. S /\ n \in 0 .. M /\ V \in 0 .. M /\ a \in 1 .. S /\ a <= S - v
          /\ V < M /\ n < M /\ S \in Nat /\ M \in Nat
      BY <1>1, <1>2, <1>6, <1>8
    <3> HIDE DEF v, n, V, S, M
    <3>2. v + a \in 0 .. S
      BY <3>1
    <3>3. V + 1 \in 0 .. M /\ n + 1 \in 0 .. M
      BY <3>1
    <3> QED BY <3>2, <3>3 DEF v, n
  <2>5. (wo + a) % S \in 0 .. S - 1
    BY SMTT(60), <1>1, <1>6
  <2>3. info \in [nStreamOffset : 0 .. S - 1, nStreamLength : 0 .. S]
    BY <1>1
  <2>4. [bs.infos EXCEPT ![wp] = info]
          \in [Slot -> [nStreamOffset : 0 .. S - 1, nStreamLength : 0 .. S]]
    BY <1>1, <2>3 DEF Rings
  <2> HIDE DEF info
  <2> QED BY <1>1, <2>1, <2>2, <2>4, <2>5 DEF BitStreamAddOneBitstream, Rings, a, info
<1>10. \E w \in Nat : bs'.nValidDataSize = w * AlignBytes
  <2>1. bs'.nValidDataSize = (u + p) * AlignBytes
    BY <1>1, <1>3, <1>5, <1>7
  <2> QED BY <2>1
<1>11. /\ bs'.nValidFrameNum = bs'.nUnReadFrameNum + (IF busy THEN 1 ELSE 0)
       /\ bs'.nReadPos = Before(bs'.nWritePos, bs'.nUnReadFrameNum)
       /\ busy => slot = Before(bs'.nWritePos, bs'.nValidFrameNum)
  <2>1. Before(NextSlot(wp), bs.nUnReadFrameNum + 1) = Before(wp, bs.nUnReadFrameNum)
        /\ Before(NextSlot(wp), V + 1) = Before(wp, V)
    <3>1. bs.nUnReadFrameNum \in 0 .. M - 1 /\ V \in 0 .. M - 1
      BY <1>1, <1>2, <1>8
    <3> QED BY <1>1, <3>1, BeforeNext
  <2> QED BY SMTT(60), <1>1, <1>7, <2>1 DEF RingOK
<1> DEFINE E == [k \in 0 .. M |-> IF k \in 1 .. V + 1 THEN D[k - 1] + a ELSE 0]
<1>12. /\ E \in [0 .. M -> 0 .. S] /\ E[0] = 0 /\ D[0] = 0
       /\ \A k \in 1 .. V + 1 : E[k] = D[k - 1] + a
       /\ \A k \in 0 .. V : D[k] \in 0 .. S /\ D[k] + a <= S
  <2>1. ASSUME NEW k \in 0 .. V
        PROVE  D[k] \in 0 .. S /\ D[k] + a \in 0 .. S
    <3>1. D[k] <= bs.nValidDataSize
      BY <1>1, <1>4, StackDepth
    <3>2. k \in 0 .. M
      BY <1>1
    <3>3. D[k] \in 0 .. S
      BY <3>2
    <3> DEFINE d == D[k]
               v == bs.nValidDataSize
    <3>4. /\ v \in 0 .. S /\ a \in 1 .. S /\ a <= S - v /\ S \in Nat
          /\ d \in 0 .. S /\ d <= v
      BY <1>1, <1>6, <3>1, <3>3
    <3> HIDE DEF d, v, S
    <3>5. d + a \in 0 .. S
      BY <3>4
    <3> QED BY <3>4, <3>5 DEF d
  <2>2. D[0] = 0
    BY <1>4 DEF IsStack
  <2>3. ASSUME NEW k \in 1 .. V + 1
        PROVE  k \in 0 .. M /\ k - 1 \in 0 .. V
    BY <1>1, <1>2
  <2>4. \A k \in 1 .. V + 1 : E[k] = D[k - 1] + a /\ E[k] \in 0 .. S
    BY <2>1, <2>3
  <2>5. 0 \in 0 .. M /\ 0 \notin 1 .. V + 1 /\ 0 \in 0 .. S
    BY <1>1
  <2>6. E \in [0 .. M -> 0 .. S]
    BY <2>4, <2>5
  <2>7. E[0] = 0
    BY <2>5
  <2>8. \A k \in 0 .. V : D[k] \in 0 .. S /\ D[k] + a <= S
    BY <2>1
  <2>9. \A k \in 1 .. V + 1 : E[k] = D[k - 1] + a
    BY <2>4
  <2> HIDE DEF E
  <2> QED BY <2>2, <2>6, <2>7, <2>8, <2>9
<1> HIDE DEF E
<1>13. ASSUME NEW k \in 1 .. V + 1
       PROVE  LET i == bs'.infos[Before(bs'.nWritePos, k)]
              IN  /\ i.nStreamLength >= 1
                  /\ E[k] = E[k - 1] + Aligned(i.nStreamLength)
                  /\ i.nStreamOffset = (bs'.nWriteOffset - E[k]) % S
                  /\ \A j \in 0 .. k - 1 : E[j] <= E[k - 1]
  <2> DEFINE x == D[k - 1]
  <2>1. Before(bs'.nWritePos, k) = Before(wp, k - 1) /\ x \in 0 .. S /\ x + a <= S
    <3>1. k - 1 \in 0 .. M - 1 /\ k - 1 \in 0 .. V /\ (k - 1) + 1 = k
      BY <1>1, <1>2
    <3>2. Before(NextSlot(wp), (k - 1) + 1) = Before(wp, k - 1)
      BY <1>1, <3>1, BeforeNext
    <3> QED BY <1>7, <1>12, <3>1, <3>2
  <2>2. (bs'.nWriteOffset - E[k]) % S = (wo - x) % S
    <3>1. (((wo + a) % S) - (x + a)) % S = (wo - x) % S
      <4>1. a \in 0 .. S
        BY <1>6
      <4> HIDE DEF x
      <4> QED BY <1>1, <2>1, <4>1, ShiftLemma
    <3> QED BY <1>7, <1>12, <3>1
  <2>3. CASE k = 1
    <3>1. Before(wp, k - 1) = wp /\ bs'.infos[wp] = info
      BY <1>1, <1>7, <2>3, BeforeLemma DEF Rings
    <3>2. E[k] = a /\ E[k - 1] = 0 /\ x = 0
      BY <1>1, <1>6, <1>12, <2>3
    <3>4. (wo - x) % S = wo
      <4>1. S \in Nat \ {0} /\ wo \in 0 .. S - 1 /\ x = 0
        BY <1>1, <3>2
      <4> HIDE DEF x, wo, S
      <4>2. wo - x = wo /\ wo % S = wo
        BY <4>1
      <4> QED BY <4>2
    <3>3. \A j \in 0 .. k - 1 : E[j] <= E[k - 1]
      BY <1>12, <2>3
    <3>5. info.nStreamLength = length /\ info.nStreamOffset = wo
      OBVIOUS
    <3>6. a = 0 + Aligned(length)
      BY <1>6 DEF a
    <3>7. length >= 1 /\ k - 1 = 0
      BY <1>1, <2>3
    <3> HIDE DEF info, x, wo, S
    <3> QED BY <2>1, <2>2, <3>1, <3>2, <3>3, <3>4, <3>5, <3>6, <3>7
  <2>4. CASE k # 1
    <3>1. k - 1 \in 1 .. V /\ k - 2 \in 0 .. V /\ k - 1 \in 1 .. V + 1 /\ (k - 1) - 1 = k - 2
      BY <1>1, <2>4
    <3> DEFINE i == bs.infos[Before(wp, k - 1)]
    <3>2. Before(wp, k - 1) # wp /\ Before(wp, k - 1) \in Slot
      <4>1. k - 1 \in 1 .. M - 1 /\ k - 1 \in 0 .. M
        BY <1>1, <1>2, <3>1
      <4> QED BY <1>1, <4>1, BeforeOther, BeforeLemma
    <3>3. bs'.infos[Before(bs'.nWritePos, k)] = i
      BY <1>1, <1>7, <2>1, <3>2 DEF Rings
    <3>4. /\ i.nStreamLength >= 1 /\ x = D[k - 2] + Aligned(i.nStreamLength)
          /\ i.nStreamOffset = (wo - x) % S
          /\ \A j \in 0 .. k - 2 : D[j] <= D[k - 2]
      BY <1>4, <3>1 DEF IsStack
    <3>5. E[k] = x + a /\ E[k - 1] = D[k - 2] + a /\ D[k - 2] \in Nat
          /\ Aligned(i.nStreamLength) \in Nat
      <4>1. i.nStreamLength \in Nat
        BY <1>1, <3>2, RingFields
      <4>2. Aligned(i.nStreamLength) \in Nat
        BY <4>1, AlignedLemma
      <4>3. E[k] = x + a /\ E[k - 1] = D[k - 2] + a
        BY <1>12, <3>1
      <4>4. D[k - 2] \in Nat
        BY <1>12, <3>1
      <4> QED BY <4>2, <4>3, <4>4
    <3>6. ASSUME NEW j \in 0 .. k - 1 PROVE E[j] <= E[k - 1]
      <4>1. CASE j = 0
        BY <1>6, <1>12, <3>5, <4>1
      <4>2. CASE j # 0
        <5>1. j - 1 \in 0 .. k - 2 /\ j \in 1 .. V + 1 /\ j - 1 \in 0 .. V
          BY SMTT(60), <1>1, <3>1, <4>2
        <5> QED BY <1>6, <1>12, <3>4, <3>5, <5>1
      <4> QED BY <4>1, <4>2
    <3> QED BY <1>6, <2>1, <2>2, <3>3, <3>4, <3>5, <3>6
  <2> QED BY <2>3, <2>4
<1>14. E[bs'.nValidFrameNum] = bs'.nValidDataSize
  <2>1. V + 1 \in 1 .. V + 1 /\ (V + 1) - 1 = V
    BY SMTT(60), <1>1
  <2> QED BY <1>4, <1>7, <1>12, <2>1 DEF IsStack
<1>15. IsStack(E, bs')
  BY <1>7, <1>12, <1>13, <1>14 DEF IsStack
<1> QED BY <1>9, <1>10, <1>11, <1>12, <1>15 DEF RingOK

\* BitStreamGetOneBitstream: the oldest frame nobody has read is delivered, and
\* the read position moves towards the younger ones.
LEMMA GetBitstream ==
    ASSUME NEW slot, RingOK(bs, FALSE, slot), bs.nUnReadFrameNum # 0,
           BitStreamGetOneBitstream
    PROVE  RingOK(bs', TRUE, bs.nReadPos)
<1> DEFINE M == nMaxFrameNum
           n == bs.nUnReadFrameNum
<1>1. /\ bs \in Rings /\ n \in 1 .. M /\ M \in Nat \ {0}
      /\ bs.nReadPos = Before(bs.nWritePos, n) /\ bs.nWritePos \in Slot
      /\ bs.nReadPos \in Slot /\ bs.nValidFrameNum = n
  BY RingFields, Sizes DEF RingOK
<1>2. NextSlot(bs.nReadPos) = Before(bs.nWritePos, n - 1)
      /\ NextSlot(bs.nReadPos) \in Slot
  <2>1. n \in 0 .. M /\ n >= 1
    BY <1>1
  <2> QED BY ZenonT(60), <1>1, <2>1, BeforeLemma
<1>3. n - 1 \in 0 .. M /\ n = (n - 1) + 1
  BY <1>1
<1>4. /\ bs'.nWriteOffset = bs.nWriteOffset
      /\ bs'.nValidDataSize = bs.nValidDataSize
      /\ bs'.nValidFrameNum = n
      /\ bs'.nUnReadFrameNum = n - 1
      /\ bs'.nReadPos = NextSlot(bs.nReadPos)
      /\ bs'.nWritePos = bs.nWritePos
      /\ bs'.infos = bs.infos
  BY <1>1 DEF BitStreamGetOneBitstream, Rings
<1>5. bs' \in Rings
  BY <1>1, <1>2, <1>3 DEF BitStreamGetOneBitstream, Rings
<1>6. PICK D \in [0 .. M -> 0 .. nStreamBufferSize] : IsStack(D, bs)
  BY DEF RingOK
<1>7. IsStack(D, bs')
  BY <1>1, <1>4, <1>6 DEF IsStack
<1>8. \E u \in Nat : bs'.nValidDataSize = u * AlignBytes
  BY <1>4 DEF RingOK
<1> HIDE DEF n
<1>9. /\ bs'.nValidFrameNum = bs'.nUnReadFrameNum + 1
      /\ bs'.nReadPos = Before(bs'.nWritePos, bs'.nUnReadFrameNum)
      /\ bs.nReadPos = Before(bs'.nWritePos, bs'.nValidFrameNum)
  BY <1>1, <1>2, <1>3, <1>4
<1> QED BY <1>5, <1>6, <1>7, <1>8, <1>9 DEF RingOK

\* BitStreamReturnOneBitstream: the frame being delivered is the oldest one, and
\* what is given back is what it took.
LEMMA ReturnBitstream ==
    ASSUME NEW slot, RingOK(bs, TRUE, slot), BitStreamReturnOneBitstream(slot)
    PROVE  \A none : RingOK(bs', FALSE, none)
<1> DEFINE M == nMaxFrameNum
           V == bs.nValidFrameNum
           a == Aligned(bs.infos[slot].nStreamLength)
<1>1. /\ bs \in Rings /\ V \in 1 .. M /\ M \in Nat \ {0} /\ slot \in Slot
      /\ slot = Before(bs.nWritePos, V) /\ V = bs.nUnReadFrameNum + 1
      /\ bs.nWritePos \in Slot /\ bs.nUnReadFrameNum \in 0 .. M
      /\ AlignBytes \in Nat \ {0} /\ nStreamBufferSize \in Nat
      /\ bs.nValidDataSize \in 0 .. nStreamBufferSize
  <2>1. /\ bs \in Rings /\ V = bs.nUnReadFrameNum + 1 /\ slot = Before(bs.nWritePos, V)
    BY DEF RingOK
  <2>2. V \in 1 .. M /\ bs.nWritePos \in Slot
    BY <2>1, RingFields, Sizes
  <2>3. V \in 0 .. M
    BY <2>2
  <2>4. slot \in Slot
    BY <2>1, <2>2, <2>3, BeforeLemma
  <2> QED BY <2>1, <2>2, <2>4, RingFields, Sizes
<1>2. PICK D \in [0 .. M -> 0 .. nStreamBufferSize] : IsStack(D, bs)
  BY DEF RingOK
<1>3. PICK u \in Nat : bs.nValidDataSize = u * AlignBytes
  BY DEF RingOK
<1>4. a \in Nat /\ \E q \in Nat : a = q * AlignBytes
  <2>1. bs.infos[slot].nStreamLength \in Nat
    BY <1>1, RingFields
  <2> QED BY <2>1, AlignedLemma
<1>5. PICK p \in Nat : a = p * AlignBytes
  BY <1>4
<1>6. D[V - 1] = bs.nValidDataSize - a /\ D[V - 1] \in 0 .. nStreamBufferSize
  <2>1. V \in 1 .. V /\ V - 1 \in 0 .. M
    BY <1>1
  <2>2. D[V] = bs.nValidDataSize /\ D[V] = D[V - 1] + a
    BY <1>1, <1>2, <2>1 DEF IsStack
  <2>3. D[V - 1] \in 0 .. nStreamBufferSize
    BY <2>1
  <2> HIDE DEF a
  <2> QED BY <1>1, <1>4, <2>2, <2>3
<1>7. /\ bs' = [bs EXCEPT !.nValidFrameNum = @ - 1, !.nValidDataSize = @ - a]
      /\ V # 0
  BY <1>1 DEF BitStreamReturnOneBitstream
<1>8. /\ bs'.nWriteOffset = bs.nWriteOffset
      /\ bs'.nValidDataSize = D[V - 1]
      /\ bs'.nValidFrameNum = V - 1
      /\ bs'.nUnReadFrameNum = bs.nUnReadFrameNum
      /\ bs'.nReadPos = bs.nReadPos
      /\ bs'.nWritePos = bs.nWritePos
      /\ bs'.infos = bs.infos
  BY <1>1, <1>6, <1>7 DEF Rings
<1> HIDE DEF a
<1>9. bs' \in Rings
  <2>1. V - 1 \in 0 .. M
    BY <1>1
  <2> QED BY <1>1, <1>6, <1>7, <2>1 DEF Rings
<1>10. \E w \in Nat : bs'.nValidDataSize = w * AlignBytes
  <2> DEFINE A == AlignBytes
             d == D[V - 1]
  <2>1. d = u * A - p * A /\ d >= 0
    BY <1>3, <1>5, <1>6
  <2> HIDE DEF d
  <2>2. p * A <= u * A /\ A \in Nat \ {0}
    BY <1>1, <2>1
  <2>3. p <= u
    BY <2>2
  <2>4. u - p \in Nat /\ d = (u - p) * A
    BY <2>1, <2>2, <2>3
  <2> QED BY <1>8, <2>4 DEF d
<1>11. IsStack(D, bs')
  <2> HIDE DEF V
  <2>1. V - 1 \in Nat /\ \A k \in 1 .. V - 1 : k \in 1 .. V
    BY <1>1
  <2>2. D[0] = 0 /\ \A k \in 1 .. V :
          LET info == bs.infos[Before(bs.nWritePos, k)]
          IN  /\ info.nStreamLength >= 1
              /\ D[k] = D[k - 1] + Aligned(info.nStreamLength)
              /\ info.nStreamOffset = (bs.nWriteOffset - D[k]) % nStreamBufferSize
              /\ \A j \in 0 .. k - 1 : D[j] <= D[k - 1]
    BY <1>2 DEF IsStack, V
  <2> QED BY <1>8, <2>1, <2>2 DEF IsStack
<1>12. /\ bs'.nValidFrameNum = bs'.nUnReadFrameNum + 0
       /\ bs'.nReadPos = Before(bs'.nWritePos, bs'.nUnReadFrameNum)
  BY <1>1, <1>8 DEF RingOK
<1> QED BY <1>2, <1>9, <1>10, <1>11, <1>12 DEF RingOK

\* An empty ring.
LEMMA CreateBitstream == \A slot : RingOK(BitStreamCreate, FALSE, slot)
<1> DEFINE D == [k \in 0 .. nMaxFrameNum |-> 0]
<1>1. 0 \in Slot /\ 0 \in 0 .. nStreamBufferSize - 1 /\ 0 \in 0 .. nStreamBufferSize
      /\ 0 \in 0 .. nMaxFrameNum
  BY Sizes DEF Slot
<1>2. BitStreamCreate \in Rings
  BY <1>1 DEF BitStreamCreate, Rings
<1>3. Before(0, 0) = 0
  BY <1>1, BeforeLemma
<1>4. D \in [0 .. nMaxFrameNum -> 0 .. nStreamBufferSize] /\ D[0] = 0
  BY <1>1
<1>5. IsStack(D, BitStreamCreate)
  <2>1. BitStreamCreate.nValidFrameNum = 0 /\ BitStreamCreate.nValidDataSize = 0
    BY DEF BitStreamCreate
  <2>2. 1 .. 0 = {}
    OBVIOUS
  <2> HIDE DEF D
  <2> QED BY <1>4, <2>1, <2>2 DEF IsStack
<1>6. \E u \in Nat : BitStreamCreate.nValidDataSize = u * AlignBytes
  BY Sizes DEF BitStreamCreate
<1>7. /\ BitStreamCreate.nValidFrameNum = BitStreamCreate.nUnReadFrameNum + 0
      /\ BitStreamCreate.nReadPos
           = Before(BitStreamCreate.nWritePos, BitStreamCreate.nUnReadFrameNum)
  BY <1>3 DEF BitStreamCreate
<1> QED BY <1>2, <1>4, <1>5, <1>6, <1>7 DEF RingOK

\* A step that leaves the ring and the frame being delivered alone.
LEMMA RingKept ==
    ASSUME Ring, UNCHANGED bs,
           \/ mux.pc # "deliver" /\ mux'.pc # "deliver"
           \/ mux.pc = "deliver" /\ mux'.pc = "deliver" /\ mux'.slot = mux.slot
    PROVE  Ring'
  BY DEF Ring, RingOK

\* Every step keeps the ring: the encode thread adds at one end while the other
\* thread reads and returns at the other.
LEMMA RingStep == Types /\ Calling /\ Pool /\ Ring /\ Next => Ring'
<1> SUFFICES ASSUME Types, Calling, Pool, Ring, Next PROVE Ring'
  OBVIOUS
<1>1. "enc" \in Worker /\ "mux" \in Worker
  BY DEF Worker
<1>2. CASE AwEncoderCreate
  <2>1. bs' = BitStreamCreate /\ mux'.pc # "deliver"
    BY <1>1, <1>2 DEF AwEncoderCreate, mux, Ready
  <2> QED BY <2>1, CreateBitstream DEF Ring
<1>3. CASE \/ AwEncoderStart \/ AwEncoderStop \/ AwEncoderDestory \/ Ctl
           \/ InputBuffer \/ Write \/ ProcessEnded
  <2>1. UNCHANGED << bs, worker >>
    BY <1>3 DEF ProcessEnded, vars, AwEncoderStart, AwEncoderStop, AwEncoderDestory, Ctl, PostCommand,
         CommandReturns, FreeEncoder, InputBuffer, Write, AppReturnsNode,
         AppReturnsBuffer, AppGetsBuffer, AppTakesNode, AppAddsInput, WriteReturns,
         threads
  <2> QED BY <2>1, RingKept DEF mux
<1>4. ASSUME NEW t \in Worker,
             \/ Start(t) \/ CountMessages(t) \/ PostWork(t) \/ StartReply(t)
             \/ Stop(t) \/ Quit(t)
      PROVE  Ring'
  <2>1. /\ UNCHANGED bs
        /\ \A u \in Worker \ {t} : worker'[u] = worker[u]
        /\ \/ UNCHANGED worker
           \/ worker[t].pc # "deliver" /\ worker'[t].pc # "deliver"
    BY <1>4 DEF Start, CountMessages, PostWork, StartReply, Stop, Quit, Receive, Goes,
         Types, WorkerStates
  <2> QED BY <1>1, <2>1, RingKept DEF mux
<1>5. CASE Encode \/ EncReturnsNode \/ NotifyReturnBuffer \/ GetInputBuffer \/ AddUsed
  <2>1. UNCHANGED << bs, mux >>
    BY <1>1, <1>5 DEF Encode, EncReturnsNode, NotifyReturnBuffer, GetInputBuffer,
         AddUsed, Goes, Types, mux
  <2> QED BY <2>1, RingKept
<1>6. CASE EncodeOneFrame
  <2>1. UNCHANGED mux
    BY <1>1, <1>6 DEF EncodeOneFrame, Types, mux
  <2>2. CASE UNCHANGED bs
    BY <2>1, <2>2, RingKept
  <2>3. CASE \E length \in StreamLengths :
                HasRoom(length) /\ BitStreamAddOneBitstream(length)
    <3>1. PICK length \in StreamLengths : HasRoom(length) /\ BitStreamAddOneBitstream(length)
      BY <2>3
    <3> DEFINE busy == mux.pc = "deliver"
    <3>2. busy \in BOOLEAN /\ RingOK(bs, busy, mux.slot)
      BY DEF Ring
    <3> HIDE DEF busy
    <3>3. RingOK(bs', busy, mux.slot)
      BY <3>1, <3>2, AddBitstream
    <3> QED BY <2>1, <3>3 DEF Ring, busy
  <2> QED BY <1>6, <2>2, <2>3 DEF EncodeOneFrame
<1>7. CASE RequestVideoFrame
  <2>1. worker["mux"].pc = "idle"
    BY <1>7 DEF RequestVideoFrame, Receive
  <2>2. CASE UNCHANGED bs /\ Goes("mux", "count")
    <3>1. mux.pc # "deliver" /\ mux'.pc # "deliver"
      BY <1>1, <2>1, <2>2 DEF Goes, mux, Types, WorkerStates
    <3> QED BY <2>2, <3>1, RingKept
  <2>3. CASE /\ bs.nValidFrameNum # 0
             /\ worker' = [worker EXCEPT !["mux"].pc = "deliver",
                                         !["mux"].slot = bs.nReadPos]
             /\ BitStreamGetOneBitstream
    <3>1. RingOK(bs, FALSE, mux.slot)
      BY <2>1 DEF Ring, mux
    <3>2. RingOK(bs', TRUE, bs.nReadPos)
      <4>1. bs.nUnReadFrameNum # 0
        BY <2>3, <3>1 DEF RingOK, Rings
      <4> QED BY <2>3, <3>1, <4>1, GetBitstream
    <3>3. bs.nReadPos \in Slot
      BY DEF Ring, RingOK, Rings
    <3>4. mux'.pc = "deliver" /\ mux'.slot = bs.nReadPos
      BY <1>1, <2>3, <3>3 DEF mux, Types, WorkerStates
    <3> QED BY <3>2, <3>4 DEF Ring
  <2> QED BY <1>7, <2>2, <2>3 DEF RequestVideoFrame
<1>8. CASE ReturnVideoFrame
  <2>1. mux.pc = "deliver" /\ BitStreamReturnOneBitstream(mux.slot)
    BY <1>8 DEF ReturnVideoFrame
  <2>2. RingOK(bs, TRUE, mux.slot)
    BY <2>1 DEF Ring
  <2>3. RingOK(bs', FALSE, mux'.slot)
    BY <2>1, <2>2, ReturnBitstream
  <2>4. mux'.pc # "deliver"
    BY <1>1, <1>8 DEF ReturnVideoFrame, mux, Types, WorkerStates
  <2> QED BY <2>3, <2>4 DEF Ring
<1> QED BY <1>1, <1>2, <1>3, <1>4, <1>5, <1>6, <1>7, <1>8 DEF Next, Calls, Enc, Mux

-----------------------------------------------------------------------------
(* Encoded frames lie on separate bytes.                                   *)

\* Forward i bytes from x bytes back is x - i bytes back.
LEMMA ForwardLemma ==
    ASSUME NEW w \in 0 .. nStreamBufferSize - 1, NEW x \in 0 .. nStreamBufferSize,
           NEW i \in 0 .. nStreamBufferSize, i <= x
    PROVE  (((w - x) % nStreamBufferSize) + i) % nStreamBufferSize
             = (w - (x - i)) % nStreamBufferSize
<1> DEFINE S == nStreamBufferSize
           r == (w - x) % S
<1>1. S \in Nat \ {0}
  BY Sizes
<1>2. w - x \in 0 .. S - 1 \/ w - x \in -S .. -1
  BY <1>1
<1>3. r = IF x <= w THEN w - x ELSE w - x + S
  BY <1>1, <1>2
<1> HIDE DEF r
<1>4. r + i \in 0 .. S - 1 \/ r + i \in S .. 2 * S - 1
  BY <1>1, <1>3
<1>5. (r + i) % S = IF r + i < S THEN r + i ELSE r + i - S
  BY <1>1, <1>3, <1>4
<1> DEFINE y == w - (x - i)
<1>6. y \in 0 .. S - 1 \/ y \in -S .. -1
  BY <1>1
<1>7. y % S = IF y >= 0 THEN y ELSE y + S
  BY <1>1, <1>6
<1>8. r + i = y \/ r + i = y + S
  BY <1>1, <1>3
<1> HIDE DEF y
<1>9. r \in Int /\ y \in Int
  BY <1>1, <1>3, <1>6
<1>10. (r + i) % S = y % S
  BY <1>1, <1>4, <1>5, <1>6, <1>7, <1>8, <1>9
<1> QED BY <1>10 DEF r, y

\* Different distances back, at most one turn, are different places.
LEMMA BackLemma ==
    ASSUME NEW w \in 0 .. nStreamBufferSize - 1, NEW c \in 1 .. nStreamBufferSize,
           NEW d \in 1 .. nStreamBufferSize, c < d
    PROVE  (w - c) % nStreamBufferSize # (w - d) % nStreamBufferSize
<1> DEFINE S == nStreamBufferSize
<1>1. S \in Nat \ {0}
  BY Sizes
<1>2. w - c \in 0 .. S - 1 \/ w - c \in -S .. -1
  BY <1>1
<1>3. w - d \in 0 .. S - 1 \/ w - d \in -S .. -1
  BY <1>1
<1>4. (w - c) % S = IF c <= w THEN w - c ELSE w - c + S
  BY <1>1, <1>2
<1>5. (w - d) % S = IF d <= w THEN w - d ELSE w - d + S
  BY <1>1, <1>3
<1> QED BY <1>1, <1>4, <1>5

\* The bytes of the k-th youngest frame lie between where the next younger one
\* begins and where it begins itself, counted back from the write offset.
LEMMA FrameBytes ==
    ASSUME bs \in Rings, NEW D \in [0 .. nMaxFrameNum -> 0 .. nStreamBufferSize],
           IsStack(D, bs), NEW k \in 1 .. bs.nValidFrameNum,
           NEW byte \in BytesOf(Before(bs.nWritePos, k))
    PROVE  \E d \in 1 .. nStreamBufferSize :
             /\ D[k - 1] < d /\ d <= D[k]
             /\ byte = (bs.nWriteOffset - d) % nStreamBufferSize
<1> DEFINE S == nStreamBufferSize
           info == bs.infos[Before(bs.nWritePos, k)]
           length == info.nStreamLength
           wo == bs.nWriteOffset
           x == D[k]
           y == D[k - 1]
<1>1. /\ S \in Nat \ {0} /\ wo \in 0 .. S - 1 /\ bs.nValidFrameNum \in 0 .. nMaxFrameNum
      /\ bs.nWritePos \in Slot /\ nMaxFrameNum \in Nat
  BY RingFields, Sizes
<1>2. k \in 0 .. nMaxFrameNum /\ k - 1 \in 0 .. nMaxFrameNum
  BY <1>1
<1>3. x \in 0 .. S /\ y \in 0 .. S
  BY <1>2
<1>4. length \in Nat
  <2>1. Before(bs.nWritePos, k) \in Slot
    BY <1>1, <1>2, BeforeLemma
  <2> QED BY <2>1, RingFields
<1>5. Aligned(length) \in Nat /\ Aligned(length) >= length
  BY <1>4, AlignedLemma
<1>6. x = y + Aligned(length) /\ info.nStreamOffset = (wo - x) % S
  BY DEF IsStack
<1>7. PICK i \in 0 .. length - 1 : byte = (info.nStreamOffset + i) % S
  BY DEF BytesOf
<1> HIDE DEF S, info, length, wo, x, y
<1>8. i \in 0 .. S /\ i < x /\ i <= x /\ y < x - i /\ x - i <= x /\ x - i \in 1 .. S
  <2> DEFINE a == Aligned(length)
  <2>1. /\ a \in Nat /\ a >= length /\ x = y + a /\ length \in Nat /\ i \in 0 .. length - 1
        /\ x \in 0 .. S /\ y \in 0 .. S /\ S \in Nat
    BY <1>1, <1>3, <1>4, <1>5, <1>6
  <2> HIDE DEF a
  <2>2. i \in Nat /\ i < a
    BY <2>1
  <2>3. i < x /\ y < x - i
    BY <2>1, <2>2
  <2> QED BY <2>1, <2>2, <2>3
<1>9. byte = (wo - (x - i)) % S
  <2>1. (((wo - x) % S) + i) % S = (wo - (x - i)) % S
    BY <1>1, <1>3, <1>8, ForwardLemma DEF S
  <2> QED BY <1>6, <1>7, <2>1
<1> QED BY <1>8, <1>9 DEF S, wo, x, y

\* Two frames that are both valid share no byte.
LEMMA Separate ==
    Ring => \A s, t \in ValidSlots : s # t => BytesOf(s) \cap BytesOf(t) = {}
<1> SUFFICES ASSUME Ring PROVE \A s, t \in ValidSlots : s # t => BytesOf(s) \cap BytesOf(t) = {}
  OBVIOUS
<1> DEFINE V == bs.nValidFrameNum
           S == nStreamBufferSize
           At(k) == Before(bs.nWritePos, k)
<1>1. /\ bs \in Rings /\ V \in 0 .. nMaxFrameNum /\ nMaxFrameNum \in Nat
      /\ bs.nWriteOffset \in 0 .. S - 1 /\ S \in Nat
  BY RingFields, Sizes DEF Ring, RingOK
<1>2. PICK D \in [0 .. nMaxFrameNum -> 0 .. S] : IsStack(D, bs)
  BY DEF Ring, RingOK
<1>3. ASSUME NEW k \in 1 .. V, NEW j \in 1 .. V, k < j
      PROVE  BytesOf(At(k)) \cap BytesOf(At(j)) = {}
  <2>1. SUFFICES ASSUME NEW byte \in BytesOf(At(k)), byte \in BytesOf(At(j)) PROVE FALSE
    OBVIOUS
  <2>2. PICK c \in 1 .. S : c <= D[k] /\ byte = (bs.nWriteOffset - c) % S
    BY <1>1, <1>2, <2>1, FrameBytes
  <2>3. PICK d \in 1 .. S : D[j - 1] < d /\ byte = (bs.nWriteOffset - d) % S
    BY <1>1, <1>2, <2>1, FrameBytes
  <2>4. D[k] <= D[j - 1]
    <3>1. k \in 0 .. j - 1
      BY <1>1, <1>3
    <3> QED BY <1>2, <3>1 DEF IsStack
  <2>5. D[k] \in 0 .. S /\ D[j - 1] \in 0 .. S
    <3>1. k \in 0 .. nMaxFrameNum /\ j - 1 \in 0 .. nMaxFrameNum
      BY <1>1
    <3> QED BY <3>1
  <2>6. c < d
    BY <1>1, <2>2, <2>3, <2>4, <2>5
  <2> QED BY <1>1, <2>2, <2>3, <2>6, BackLemma
<1>4. TAKE s, t \in ValidSlots
<1>5. PICK k \in 1 .. V : s = At(k)
  BY DEF ValidSlots, Before
<1>6. PICK j \in 1 .. V : t = At(j)
  BY DEF ValidSlots, Before
<1> HIDE DEF At
<1>7. CASE k < j
  BY <1>3, <1>5, <1>6, <1>7
<1>8. CASE j < k
  BY <1>3, <1>5, <1>6, <1>8
<1>9. CASE k = j
  BY <1>5, <1>6, <1>9
<1> QED BY <1>1, <1>7, <1>8, <1>9

\* The frame being delivered is one of the valid ones.
LEMMA DeliveredIsValid == Ring /\ mux.pc = "deliver" => mux.slot \in ValidSlots
<1> SUFFICES ASSUME Ring, mux.pc = "deliver" PROVE mux.slot \in ValidSlots
  OBVIOUS
<1>1. /\ bs.nUnReadFrameNum \in Nat /\ bs.nValidFrameNum = bs.nUnReadFrameNum + 1
      /\ mux.slot = Before(bs.nWritePos, bs.nValidFrameNum)
  BY RingFields, Sizes DEF Ring, RingOK
<1>2. bs.nValidFrameNum \in 1 .. bs.nValidFrameNum
  BY <1>1
<1> QED BY <1>1, <1>2 DEF ValidSlots, Before

-----------------------------------------------------------------------------
(* Buffers and nodes.                                                      *)

\* The buffers of a queue are buffers.
LEMMA InQueue ==
    ASSUME NEW q \in Seq(Buffer)
    PROVE  BuffersIn(q) \subseteq Buffer /\ NoBuffer \notin BuffersIn(q)
<1>1. BuffersIn(q) \subseteq Buffer
  BY DEF BuffersIn
<1>2. NoBuffer \notin Buffer
  BY RingAssumption DEF Buffer, NoBuffer
<1> QED BY <1>1, <1>2

\* A buffer added at the end of a queue.
LEMMA AppendLemma ==
    ASSUME NEW q \in Seq(Buffer), NEW b \in Buffer
    PROVE  /\ Append(q, b) \in Seq(Buffer) /\ Append(q, b) # << >>
           /\ BuffersIn(Append(q, b)) = BuffersIn(q) \cup {b}
           /\ Len(Append(q, b)) = Len(q) + 1
           /\ NoRepeat(q) /\ b \notin BuffersIn(q) => NoRepeat(Append(q, b))
           /\ q # << >> => Head(Append(q, b)) = Head(q)
<1> DEFINE r == Append(q, b)
<1>1. /\ Len(q) \in Nat /\ DOMAIN q = 1 .. Len(q) /\ r \in Seq(Buffer)
      /\ Len(r) = Len(q) + 1 /\ DOMAIN r = 1 .. Len(q) + 1 /\ r # << >>
      /\ \A i \in 1 .. Len(q) : r[i] = q[i]
      /\ r[Len(q) + 1] = b
  OBVIOUS
<1>2. q # << >> => Head(r) = Head(q)
  OBVIOUS
<1> HIDE DEF r
<1>3. BuffersIn(r) = BuffersIn(q) \cup {b}
  <2>1. ASSUME NEW x \in BuffersIn(r) PROVE x \in BuffersIn(q) \cup {b}
    <3>1. PICK i \in 1 .. Len(q) + 1 : x = r[i]
      BY <1>1, <2>1 DEF BuffersIn
    <3>2. CASE i \in 1 .. Len(q)
      BY <1>1, <3>1, <3>2 DEF BuffersIn
    <3>3. CASE i = Len(q) + 1
      BY <1>1, <3>1, <3>3
    <3> QED BY <1>1, <3>2, <3>3
  <2>2. ASSUME NEW x \in BuffersIn(q) PROVE x \in BuffersIn(r)
    <3>1. PICK i \in 1 .. Len(q) : x = q[i]
      BY <1>1, <2>2 DEF BuffersIn
    <3>2. i \in DOMAIN r /\ x = r[i]
      BY <1>1, <3>1
    <3> QED BY <3>2 DEF BuffersIn
  <2>3. b \in BuffersIn(r)
    <3>1. Len(q) + 1 \in DOMAIN r
      BY <1>1
    <3> QED BY <1>1, <3>1 DEF BuffersIn
  <2> QED BY <2>1, <2>2, <2>3
<1>4. ASSUME NoRepeat(q), b \notin BuffersIn(q) PROVE NoRepeat(r)
  <2>1. SUFFICES ASSUME NEW i \in 1 .. Len(q) + 1, NEW j \in 1 .. Len(q) + 1,
                        r[i] = r[j]
                 PROVE  i = j
    BY <1>1 DEF NoRepeat
  <2>2. \A k \in 1 .. Len(q) : r[k] # b
    BY <1>1, <1>4 DEF BuffersIn
  <2>3. CASE i \in 1 .. Len(q) /\ j \in 1 .. Len(q)
    BY <1>1, <1>4, <2>1, <2>3 DEF NoRepeat
  <2> QED BY <1>1, <2>1, <2>2, <2>3
<1> QED BY <1>1, <1>2, <1>3, <1>4 DEF r

\* The first buffer taken from a queue.
LEMMA RestLemma ==
    ASSUME NEW q \in Seq(Buffer), NoRepeat(q)
    PROVE  /\ Rest(q) \in Seq(Buffer) /\ NoRepeat(Rest(q))
           /\ q = << >> => HeadOf(q) = NoBuffer /\ Rest(q) = q
           /\ q # << >> => /\ HeadOf(q) = Head(q) /\ Head(q) \in BuffersIn(q)
                           /\ BuffersIn(Rest(q)) = BuffersIn(q) \ {Head(q)}
                           /\ Len(Rest(q)) = Len(q) - 1
<1>1. CASE q = << >>
  BY <1>1 DEF HeadOf, Rest
<1>2. CASE q # << >>
  <2> DEFINE r == Tail(q)
             n == Len(q)
  <2>1. /\ n \in Nat \ {0} /\ DOMAIN q = 1 .. n /\ r \in Seq(Buffer)
        /\ Len(r) = n - 1 /\ DOMAIN r = 1 .. n - 1
        /\ \A i \in 1 .. n - 1 : r[i] = q[i + 1]
        /\ Head(q) = q[1] /\ Rest(q) = r /\ HeadOf(q) = Head(q)
    BY <1>2 DEF HeadOf, Rest
  <2>2. \A i, j \in 1 .. n : q[i] = q[j] => i = j
    BY DEF NoRepeat
  <2> HIDE DEF r, n
  <2>3. NoRepeat(r)
    <3>1. \A i \in 1 .. n - 1 : i \in Int /\ i + 1 \in 1 .. n
      BY <2>1
    <3> QED BY <2>1, <2>2, <3>1 DEF NoRepeat
  <2>4. Head(q) \in BuffersIn(q)
    <3>1. 1 \in DOMAIN q
      BY <2>1
    <3> QED BY <2>1, <3>1 DEF BuffersIn
  <2>5. BuffersIn(r) = BuffersIn(q) \ {Head(q)}
    <3>1. ASSUME NEW x \in BuffersIn(r) PROVE x \in BuffersIn(q) \ {Head(q)}
      <4>1. PICK i \in 1 .. n - 1 : x = r[i]
        BY <2>1, <3>1 DEF BuffersIn
      <4>2. i + 1 \in 1 .. n /\ 1 \in 1 .. n /\ i + 1 # 1 /\ x = q[i + 1]
        BY <2>1, <4>1
      <4>3. x # q[1]
        BY <2>2, <4>2
      <4> QED BY <2>1, <4>2, <4>3 DEF BuffersIn
    <3>2. ASSUME NEW x \in BuffersIn(q) \ {Head(q)} PROVE x \in BuffersIn(r)
      <4>1. PICK i \in 1 .. n : x = q[i]
        BY <2>1, <3>2 DEF BuffersIn
      <4>2. i # 1
        BY <2>1, <3>2, <4>1
      <4>3. i - 1 \in 1 .. n - 1 /\ (i - 1) + 1 = i
        BY <2>1, <4>2
      <4>4. i - 1 \in DOMAIN r /\ x = r[i - 1]
        BY <2>1, <4>1, <4>3
      <4> QED BY <4>4 DEF BuffersIn
    <3> QED BY <3>1, <3>2
  <2> QED BY <1>2, <2>1, <2>3, <2>4, <2>5
<1> QED BY <1>1, <1>2

\* The queues of the frame buffer manager, and what the threads may hold.
LEMMA PoolFields ==
    ASSUME Types
    PROVE  /\ fbm \in Fbms /\ fbm.empty \in Int /\ fbm.input \in Seq(Buffer)
           /\ fbm.used \in Seq(Buffer) /\ fbm.allocated \in Seq(Buffer)
           /\ Len(fbm.input) \in Nat /\ Len(fbm.used) \in Nat
           /\ owned \subseteq Buffer /\ app \in AppStates /\ app.buffer \in BufferOrNone
           /\ "enc" \in Worker /\ "mux" \in Worker
           /\ enc.pc \in WorkerPcs /\ enc.buffer \in BufferOrNone
           /\ NoBuffer \notin Buffer /\ NoBuffer \in BufferOrNone
           /\ nFrameBufferNum \in Nat
<1>1. fbm \in Fbms /\ owned \subseteq Buffer /\ app \in AppStates
      /\ worker \in [Worker -> WorkerStates]
  BY DEF Types
<1>2. /\ fbm.empty \in Int /\ fbm.input \in Seq(Buffer)
      /\ fbm.used \in Seq(Buffer) /\ fbm.allocated \in Seq(Buffer)
  BY <1>1 DEF Fbms
<1>3. Len(fbm.input) \in Nat /\ Len(fbm.used) \in Nat
  BY <1>2
<1>4. app.buffer \in BufferOrNone
  BY <1>1 DEF AppStates
<1>5. "enc" \in Worker /\ "mux" \in Worker
  BY DEF Worker
<1>6. enc.pc \in WorkerPcs /\ enc.buffer \in BufferOrNone
  BY <1>1, <1>5 DEF WorkerStates, enc
<1>7. NoBuffer \notin Buffer /\ NoBuffer \in BufferOrNone /\ nFrameBufferNum \in Nat
  BY RingAssumption DEF NoBuffer, Buffer, BufferOrNone
<1> QED BY <1>1, <1>2, <1>3, <1>4, <1>5, <1>6, <1>7

\* A step that leaves the queues, the writer and what the encode thread has in
\* hand alone.
LEMMA PoolKept ==
    ASSUME Pool, UNCHANGED << fbm, app, owned >>, enc'.buffer = enc.buffer,
           \/ enc'.pc = enc.pc
           \/ {enc.pc, enc'.pc}
                \cap {"returnNode", "notify", "encode", "addUsed"} = {}
    PROVE  Pool'
<1>1. EncOut' = EncOut /\ EncNode' = EncNode
  BY DEF EncOut, EncNode
<1>2. AppNode' = AppNode
  BY DEF AppNode
<1>3. Distinct' /\ Places' /\ Count'
  BY <1>1, <1>2 DEF Pool, Distinct, Places, Count
<1>4. Hands'
  BY DEF Pool, Hands
<1> QED BY <1>3, <1>4 DEF Pool

\* A node that moves from one place to another.
LEMMA CountMoves ==
    ASSUME Types, Count, NEW e \in Int, NEW i \in Int, NEW u \in Int, NEW a \in Int,
           NEW n \in Int, e + i + u + a + n = 0,
           fbm'.empty = fbm.empty + e, fbm.empty + e >= 0,
           Len(fbm'.input) = Len(fbm.input) + i, Len(fbm'.used) = Len(fbm.used) + u,
           AppNode' = AppNode + a, EncNode' = EncNode + n
    PROVE  Count'
<1>1. /\ fbm.empty \in Int /\ Len(fbm.input) \in Int /\ Len(fbm.used) \in Int
      /\ AppNode \in Int /\ EncNode \in Int
  BY PoolFields DEF AppNode, EncNode
<1> DEFINE v == fbm.empty
           x == Len(fbm.input)
           y == Len(fbm.used)
<1>2. v \in Int /\ x \in Int /\ y \in Int /\ v + x + y + AppNode + EncNode = nFrameBufferNum
  BY <1>1 DEF Count
<1> HIDE DEF v, x, y
<1>3. (v + e) + (x + i) + (y + u) + (AppNode + a) + (EncNode + n) = nFrameBufferNum
  BY <1>1, <1>2
<1> QED BY <1>3 DEF Count, v, x, y

\* The writer takes a picture buffer: a used one of the encoder's, or one of its
\* own.
LEMMA PoolInputBuffer == Types /\ Pool /\ InputBuffer => Pool'
<1> SUFFICES ASSUME Types, Pool, InputBuffer PROVE Pool'
  OBVIOUS
<1>1. Distinct /\ Places /\ Hands /\ Count /\ app.pc = "idle" /\ UNCHANGED worker
  BY DEF Pool, InputBuffer, AppAt, threads
<1>2. app.buffer = NoBuffer /\ enc' = enc /\ EncOut' = EncOut /\ EncNode' = EncNode
      /\ AppNode = 0 /\ EncNode \in {0, 1}
  BY <1>1 DEF Hands, enc, EncOut, EncNode, AppNode
<1>3. CASE /\ app' = [app EXCEPT !.pc = "returnNode", !.buffer = HeadOf(fbm.used)]
           /\ TakeUsed
           /\ UNCHANGED owned
  <2>1. Nodes(fbm.empty, fbm.input, Rest(fbm.used), fbm.allocated)
    BY <1>3, PoolFields, TakeUsedStep
  <2>2. app'.pc = "returnNode" /\ app'.buffer = HeadOf(fbm.used)
    BY <1>3, PoolFields DEF AppStates
  <2>3. /\ NoRepeat(Rest(fbm.used))
        /\ fbm.used = << >> => HeadOf(fbm.used) = NoBuffer /\ Rest(fbm.used) = fbm.used
        /\ fbm.used # << >> =>
             /\ HeadOf(fbm.used) = Head(fbm.used) /\ Head(fbm.used) \in BuffersIn(fbm.used)
             /\ BuffersIn(Rest(fbm.used)) = BuffersIn(fbm.used) \ {Head(fbm.used)}
             /\ Len(Rest(fbm.used)) = Len(fbm.used) - 1
    BY <1>1, PoolFields, RestLemma DEF Distinct
  <2>4. Distinct'
    BY <1>1, <2>1, <2>3 DEF Distinct, Nodes
  <2>5. Places'
    BY <1>1, <1>2, <1>3, <2>1, <2>2, <2>3 DEF Places, Apart, Nodes
  <2>6. Hands'
    BY <1>1, <1>2, <2>1, <2>2 DEF Hands, Nodes
  <2>7. Count'
    <3>1. CASE fbm.used = << >>
      <4>1. AppNode' = 0
        BY <2>2, <2>3, <3>1 DEF AppNode
      <4> QED BY <1>1, <1>2, <2>1, <2>3, <3>1, <4>1 DEF Count, Nodes
    <3>2. CASE fbm.used # << >>
      <4>1. Head(fbm.used) # NoBuffer
        BY <2>3, <3>2, PoolFields, InQueue
      <4>2. AppNode' = 1
        BY <2>2, <2>3, <3>2, <4>1 DEF AppNode
      <4>3. /\ fbm'.empty = fbm.empty + 0 /\ fbm.empty + 0 >= 0
            /\ Len(fbm'.input) = Len(fbm.input) + 0 /\ Len(fbm'.used) = Len(fbm.used) + (-1)
            /\ AppNode' = AppNode + 1 /\ EncNode' = EncNode + 0
        BY <1>1, <1>2, <2>1, <2>3, <3>2, <4>2, PoolFields DEF Count, Nodes
      <4>4. 0 + 0 + (-1) + 1 + 0 = 0 /\ 0 \in Int /\ -1 \in Int /\ 1 \in Int
        OBVIOUS
      <4> QED BY <1>1, <4>3, <4>4, CountMoves, Zenon
    <3> QED BY <3>1, <3>2
  <2> QED BY <2>4, <2>5, <2>6, <2>7 DEF Pool
<1>4. ASSUME NEW b \in owned,
             app' = [app EXCEPT !.pc = "takeNode", !.buffer = b],
             owned' = owned \ {b},
             UNCHANGED fbm
      PROVE  Pool'
  <2>1. app'.pc = "takeNode" /\ app'.buffer = b
    BY <1>4, PoolFields DEF AppStates
  <2>2. b # NoBuffer
    BY PoolFields
  <2>3. Places'
    BY <1>1, <1>2, <1>4, <2>1, <2>2 DEF Places, Apart
  <2>4. Hands'
    BY <1>1, <1>2, <1>4, <2>1, <2>2 DEF Hands
  <2>5. AppNode' = 0
    BY <2>1 DEF AppNode
  <2>6. Distinct' /\ Count'
    BY <1>1, <1>2, <1>4, <2>5 DEF Distinct, Count
  <2> QED BY <2>3, <2>4, <2>6 DEF Pool
<1> QED BY <1>3, <1>4 DEF InputBuffer

\* The sums CountMoves is used with.
LEMMA Sums ==
    /\ 0 \in Int /\ 1 \in Int /\ -1 \in Int
    /\ 0 + 0 + (-1) + 1 + 0 = 0 /\ 0 + 0 + (-1) + 0 + 1 = 0
    /\ 1 + 0 + 0 + (-1) + 0 = 0 /\ 1 + 0 + 0 + 0 + (-1) = 0
    /\ (-1) + 0 + 0 + 1 + 0 = 0 /\ 0 + 1 + 0 + (-1) + 0 = 0
    /\ 0 + (-1) + 1 + 0 + 0 = 0
  OBVIOUS

\* The steps of the writer leave the encode thread alone.
LEMMA EncUnmoved ==
    ASSUME Types, UNCHANGED worker
    PROVE  /\ enc' = enc /\ EncOut' = EncOut /\ EncNode' = EncNode
           /\ EncNode' = EncNode + 0
<1>1. enc' = enc
  BY DEF enc
<1>2. EncOut' = EncOut /\ EncNode' = EncNode
  BY <1>1 DEF EncOut, EncNode
<1>3. EncNode \in {0, 1}
  BY DEF EncNode
<1> QED BY <1>1, <1>2, <1>3

\* The rest of AlreadyUsedInputBuffer.
LEMMA PoolAppReturnsNode == Types /\ Pool /\ AppReturnsNode => Pool'
<1> SUFFICES ASSUME Types, Pool, AppReturnsNode PROVE Pool'
  OBVIOUS
<1>1. Distinct /\ Places /\ Hands /\ Count /\ app.pc = "returnNode"
      /\ UNCHANGED << worker, owned >>
  BY DEF Pool, AppReturnsNode, AppAt, threads
<1>2. enc' = enc /\ EncOut' = EncOut /\ EncNode' = EncNode /\ EncNode' = EncNode + 0
  BY <1>1, EncUnmoved
<1>3. CASE app.buffer = NoBuffer /\ AppGoes("getBuffer") /\ UNCHANGED fbm
  <2>1. app'.pc = "getBuffer" /\ app'.buffer = app.buffer
    BY <1>3, PoolFields, AppMoves DEF AppStates
  <2>2. AppNode' = AppNode
    BY <1>1, <1>3, <2>1 DEF AppNode
  <2>3. Distinct' /\ Places' /\ Count'
    BY <1>1, <1>2, <1>3, <2>1, <2>2 DEF Distinct, Places, Count
  <2>4. Hands'
    BY <1>1, <1>2, <1>3, <2>1 DEF Hands
  <2> QED BY <2>3, <2>4 DEF Pool
<1>4. CASE app.buffer # NoBuffer /\ AppGoes("returnBuffer") /\ ReturnNode
  <2>1. app'.pc = "returnBuffer" /\ app'.buffer = app.buffer
    BY <1>4, PoolFields, AppMoves DEF AppStates
  <2>2. Nodes(fbm.empty + 1, fbm.input, fbm.used, fbm.allocated)
    BY <1>4, PoolFields, ReturnNodeStep
  <2>3. Distinct' /\ Places'
    BY <1>1, <1>2, <2>1, <2>2 DEF Distinct, Places, Nodes
  <2>4. Hands'
    BY <1>1, <1>2, <1>4, <2>1, <2>2 DEF Hands, Nodes
  <2>5. AppNode = 1 /\ AppNode' = 0
    BY <1>1, <1>4, <2>1 DEF AppNode
  <2>6. /\ fbm'.empty = fbm.empty + 1 /\ fbm.empty + 1 >= 0
        /\ Len(fbm'.input) = Len(fbm.input) + 0 /\ Len(fbm'.used) = Len(fbm.used) + 0
        /\ AppNode' = AppNode + (-1) /\ EncNode' = EncNode + 0
    BY <1>1, <1>2, <2>2, <2>5, PoolFields DEF Count, Nodes
  <2>7. Count'
    BY <1>1, <2>6, Sums, CountMoves, Zenon
  <2> QED BY <2>3, <2>4, <2>7 DEF Pool
<1> QED BY <1>3, <1>4 DEF AppReturnsNode

\* The buffer fetched back is free again.
LEMMA PoolAppReturnsBuffer == Types /\ Pool /\ AppReturnsBuffer => Pool'
<1> SUFFICES ASSUME Types, Pool, AppReturnsBuffer PROVE Pool'
  OBVIOUS
<1>1. Distinct /\ Places /\ Hands /\ Count /\ app.pc = "returnBuffer"
      /\ UNCHANGED << worker, owned >>
  BY DEF Pool, AppReturnsBuffer, AppAt, threads
<1>2. enc' = enc /\ EncOut' = EncOut /\ EncNode' = EncNode
  BY <1>1, EncUnmoved
<1> DEFINE b == app.buffer
<1>3. b # NoBuffer /\ b \in Buffer
  BY <1>1, PoolFields DEF Hands, BufferOrNone
<1>4. app'.pc = "getBuffer" /\ app'.buffer = NoBuffer
  BY PoolFields, AppMoves DEF AppReturnsBuffer
<1>5. Nodes(fbm.empty, fbm.input, fbm.used, Append(fbm.allocated, b))
  BY <1>3, PoolFields, ReturnAllocatedStep DEF AppReturnsBuffer
<1>6. /\ BuffersIn(Append(fbm.allocated, b)) = BuffersIn(fbm.allocated) \cup {b}
      /\ b \notin BuffersIn(fbm.allocated) => NoRepeat(Append(fbm.allocated, b))
  BY <1>1, <1>3, PoolFields, AppendLemma DEF Distinct
<1>7. Distinct'
  BY <1>1, <1>5, <1>6 DEF Distinct, Places, Apart, Nodes
<1>8. Places'
  <2>1. NoBuffer \notin BuffersIn(fbm.input) \cup BuffersIn(fbm.used)
          \cup BuffersIn(fbm.allocated) \cup owned
    BY PoolFields, InQueue
  <2> QED BY <1>1, <1>2, <1>3, <1>4, <1>5, <1>6, <2>1 DEF Places, Apart, Nodes
<1>9. Hands'
  BY <1>1, <1>2, <1>4, <1>5 DEF Hands, Nodes
<1>10. AppNode' = AppNode
  BY <1>1, <1>4 DEF AppNode
<1>11. Count'
  BY <1>1, <1>2, <1>5, <1>10 DEF Count, Nodes
<1> QED BY <1>7, <1>8, <1>9, <1>11 DEF Pool

\* A free buffer goes to the writer.
LEMMA PoolAppGetsBuffer == Types /\ Pool /\ AppGetsBuffer => Pool'
<1> SUFFICES ASSUME Types, Pool, AppGetsBuffer PROVE Pool'
  OBVIOUS
<1>1. Distinct /\ Places /\ Hands /\ Count /\ app.pc = "getBuffer"
      /\ UNCHANGED << worker, owned >>
  BY DEF Pool, AppGetsBuffer, AppAt, threads
<1>2. enc' = enc /\ EncOut' = EncOut /\ EncNode' = EncNode /\ app.buffer = NoBuffer
  BY <1>1, EncUnmoved DEF Hands
<1>3. CASE AppGoes("crashed") /\ UNCHANGED fbm
  <2>1. app'.pc = "crashed" /\ app'.buffer = app.buffer
    BY <1>3, PoolFields, AppMoves DEF AppStates
  <2>2. AppNode' = AppNode
    BY <1>1, <2>1 DEF AppNode
  <2>3. Distinct' /\ Places' /\ Count'
    BY <1>1, <1>2, <1>3, <2>1, <2>2 DEF Distinct, Places, Count
  <2>4. Hands'
    BY <1>1, <1>2, <1>3, <2>1 DEF Hands
  <2> QED BY <2>3, <2>4 DEF Pool
<1>4. CASE /\ fbm.allocated # << >>
           /\ app' = [app EXCEPT !.pc = "takeNode", !.buffer = Head(fbm.allocated)]
           /\ GetOneAllocateInputBuffer
  <2> DEFINE b == Head(fbm.allocated)
  <2>1. /\ NoRepeat(Rest(fbm.allocated)) /\ b \in BuffersIn(fbm.allocated)
        /\ BuffersIn(Rest(fbm.allocated)) = BuffersIn(fbm.allocated) \ {b}
    BY <1>1, <1>4, PoolFields, RestLemma DEF Distinct
  <2>2. b \in Buffer /\ b # NoBuffer /\ b \in BufferOrNone
    BY <2>1, PoolFields, InQueue DEF BufferOrNone
  <2>3. app'.pc = "takeNode" /\ app'.buffer = b
    BY <1>4, <2>2, PoolFields, AppMoves
  <2>4. Nodes(fbm.empty, fbm.input, fbm.used, Rest(fbm.allocated))
    BY <1>4, PoolFields, GetAllocatedStep
  <2> HIDE DEF b
  <2>5. Distinct'
    BY <1>1, <2>1, <2>4 DEF Distinct, Nodes
  <2>6. Places'
    BY <1>1, <1>2, <2>1, <2>2, <2>3, <2>4 DEF Places, Apart, Nodes
  <2>7. Hands'
    BY <1>1, <1>2, <2>2, <2>3, <2>4 DEF Hands, Nodes
  <2>8. AppNode' = AppNode
    BY <1>1, <2>3 DEF AppNode
  <2>9. Count'
    BY <1>1, <1>2, <2>4, <2>8 DEF Count, Nodes
  <2> QED BY <2>5, <2>6, <2>7, <2>9 DEF Pool
<1> QED BY <1>3, <1>4 DEF AppGetsBuffer

\* A node for the picture; without one an own buffer stays with the application,
\* one of the encoder's is lost.
LEMMA PoolAppTakesNode == Types /\ Pool /\ AppTakesNode => Pool'
<1> SUFFICES ASSUME Types, Pool, AppTakesNode PROVE Pool'
  OBVIOUS
<1>1. Distinct /\ Places /\ Hands /\ Count /\ app.pc = "takeNode" /\ UNCHANGED worker
  BY DEF Pool, AppTakesNode, AppAt, threads
<1>2. enc' = enc /\ EncOut' = EncOut /\ EncNode' = EncNode /\ EncNode' = EncNode + 0
      /\ app.buffer # NoBuffer
  BY <1>1, EncUnmoved DEF Hands
<1>3. CASE /\ \E n \in Nat : app' = [app EXCEPT !.pc = "idle", !.buffer = NoBuffer,
                                               !.lost = n]
           /\ owned' = owned \/ owned' = owned \cup {app.buffer}
           /\ UNCHANGED fbm
  <2>1. app'.pc = "idle" /\ app'.buffer = NoBuffer
    <3>1. PICK n \in Nat : app' = [app EXCEPT !.pc = "idle", !.buffer = NoBuffer,
                                              !.lost = n]
      BY <1>3
    <3> QED BY <3>1, PoolFields, AppMoves
  <2>2. AppNode' = AppNode
    BY <1>1, <2>1 DEF AppNode
  <2>3. Distinct' /\ Count'
    BY <1>1, <1>2, <1>3, <2>2 DEF Distinct, Count
  <2>4. Places'
    <3>1. NoBuffer \notin BuffersIn(fbm.input) \cup BuffersIn(fbm.used)
            \cup BuffersIn(fbm.allocated) \cup owned
      BY PoolFields, InQueue
    <3> QED BY <1>1, <1>2, <1>3, <2>1, <3>1 DEF Places, Apart
  <2>5. Hands'
    BY <1>1, <1>2, <1>3, <2>1 DEF Hands
  <2> QED BY <2>3, <2>4, <2>5 DEF Pool
<1>4. CASE fbm.empty > 0 /\ AppGoes("addInput") /\ TakeEmpty /\ UNCHANGED owned
  <2>1. app'.pc = "addInput" /\ app'.buffer = app.buffer
    BY <1>4, PoolFields, AppMoves DEF AppStates
  <2>2. Nodes(fbm.empty - 1, fbm.input, fbm.used, fbm.allocated)
    BY <1>4, PoolFields, TakeEmptyStep
  <2>3. Distinct' /\ Places'
    BY <1>1, <1>2, <1>4, <2>1, <2>2 DEF Distinct, Places, Nodes
  <2>4. Hands'
    BY <1>1, <1>2, <2>1, <2>2 DEF Hands, Nodes
  <2>5. AppNode = 0 /\ AppNode' = 1
    BY <1>1, <2>1 DEF AppNode
  <2>6. /\ fbm'.empty = fbm.empty + (-1) /\ fbm.empty + (-1) >= 0
        /\ Len(fbm'.input) = Len(fbm.input) + 0 /\ Len(fbm'.used) = Len(fbm.used) + 0
        /\ AppNode' = AppNode + 1 /\ EncNode' = EncNode + 0
    BY <1>1, <1>2, <1>4, <2>2, <2>5, PoolFields DEF Nodes
  <2>7. Count'
    BY <1>1, <2>6, Sums, CountMoves, Zenon
  <2> QED BY <2>3, <2>4, <2>7 DEF Pool
<1>5. (IF mUseAllocInputBuffer THEN app.lost + 1 ELSE app.lost) \in Nat
  BY PoolFields DEF AppStates
<1> QED BY <1>3, <1>4, <1>5 DEF AppTakesNode

\* The picture is queued for the encoder; what is being encoded stays first.
LEMMA PoolAppAddsInput == Types /\ Pool /\ AppAddsInput => Pool'
<1> SUFFICES ASSUME Types, Pool, AppAddsInput PROVE Pool'
  OBVIOUS
<1>1. Distinct /\ Places /\ Hands /\ Count /\ app.pc = "addInput"
      /\ UNCHANGED << worker, owned >>
  BY DEF Pool, AppAddsInput, AppAt, threads
<1>2. enc' = enc /\ EncOut' = EncOut /\ EncNode' = EncNode /\ EncNode' = EncNode + 0
  BY <1>1, EncUnmoved
<1> DEFINE b == app.buffer
           q == Append(fbm.input, b)
<1>3. b # NoBuffer /\ b \in Buffer
  BY <1>1, PoolFields DEF Hands, BufferOrNone
<1>4. app'.pc = "added" /\ app'.buffer = NoBuffer
  BY DEF AppAddsInput
<1>5. Nodes(fbm.empty, q, fbm.used, fbm.allocated)
  BY <1>3, PoolFields, AddInputStep DEF AppAddsInput
<1>6. /\ BuffersIn(q) = BuffersIn(fbm.input) \cup {b}
      /\ b \notin BuffersIn(fbm.input) => NoRepeat(q)
      /\ Len(q) = Len(fbm.input) + 1 /\ q # << >>
      /\ fbm.input # << >> => Head(q) = Head(fbm.input)
  BY <1>1, <1>3, PoolFields, AppendLemma DEF Distinct
<1> HIDE DEF q, b
<1>7. Distinct'
  BY <1>1, <1>5, <1>6 DEF Distinct, Places, Apart, Nodes, b
<1>8. Places'
  <2>1. NoBuffer \notin BuffersIn(fbm.input) \cup BuffersIn(fbm.used)
          \cup BuffersIn(fbm.allocated) \cup owned
    BY PoolFields, InQueue
  <2> QED BY <1>1, <1>2, <1>3, <1>4, <1>5, <1>6, <2>1 DEF Places, Apart, Nodes, b
<1>9. Hands'
  BY <1>1, <1>2, <1>4, <1>5, <1>6 DEF Hands, Nodes
<1>10. AppNode = 1 /\ AppNode' = 0
  BY <1>1, <1>4 DEF AppNode
<1>11. /\ fbm'.empty = fbm.empty + 0 /\ fbm.empty + 0 >= 0
       /\ Len(fbm'.input) = Len(fbm.input) + 1 /\ Len(fbm'.used) = Len(fbm.used) + 0
       /\ AppNode' = AppNode + (-1) /\ EncNode' = EncNode + 0
  BY <1>1, <1>2, <1>5, <1>6, <1>10, PoolFields DEF Count, Nodes
<1>12. Count'
  BY <1>1, <1>11, Sums, CountMoves, Zenon
<1> QED BY <1>7, <1>8, <1>9, <1>12 DEF Pool

\* The write that has been accepted returns.
LEMMA PoolWriteReturns == Types /\ Pool /\ WriteReturns => Pool'
<1> SUFFICES ASSUME Types, Pool, WriteReturns PROVE Pool'
  OBVIOUS
<1>1. Distinct /\ Places /\ Hands /\ Count /\ app.pc = "added"
      /\ UNCHANGED << fbm, worker, owned >>
  BY DEF Pool, WriteReturns, AppAt, threads
<1>2. enc' = enc /\ EncOut' = EncOut /\ EncNode' = EncNode
  BY <1>1, EncUnmoved
<1>3. app'.pc = "idle" /\ app'.buffer = app.buffer
  BY PoolFields, AppMoves DEF WriteReturns, AppStates
<1>4. AppNode' = AppNode
  BY <1>1, <1>3 DEF AppNode
<1>5. Distinct' /\ Places' /\ Count'
  BY <1>1, <1>2, <1>3, <1>4 DEF Distinct, Places, Count
<1>6. Hands'
  BY <1>1, <1>2, <1>3 DEF Hands
<1> QED BY <1>5, <1>6 DEF Pool

\* The encode thread fetches back a buffer of the application, if one is used.
LEMMA PoolEncode == Types /\ Pool /\ Encode => Pool'
<1> SUFFICES ASSUME Types, Pool, Encode PROVE Pool'
  OBVIOUS
<1>1. Distinct /\ Places /\ Hands /\ Count /\ enc.pc = "idle"
      /\ UNCHANGED << app, owned >>
  BY DEF Pool, Encode, Receive, application, enc
<1>2. app' = app /\ AppNode' = AppNode /\ AppNode' = AppNode + 0
      /\ enc.buffer = NoBuffer /\ EncOut = NoBuffer /\ EncNode = 0
  <2>1. AppNode' = AppNode /\ AppNode \in {0, 1}
    BY <1>1 DEF AppNode
  <2> QED BY <1>1, <2>1 DEF Hands, EncOut, EncNode
<1>3. CASE Goes("enc", "getInput") /\ UNCHANGED fbm
  <2>1. enc'.pc = "getInput" /\ enc'.buffer = enc.buffer
    BY <1>3, PoolFields DEF Goes, enc, Types, WorkerStates
  <2> QED BY <1>1, <1>3, <2>1, PoolKept
<1>4. CASE /\ TakeUsed
           /\ worker' = [worker EXCEPT !["enc"].pc = "returnNode",
                                       !["enc"].buffer = HeadOf(fbm.used)]
  <2> DEFINE b == HeadOf(fbm.used)
  <2>0. b \in BufferOrNone
    BY PoolFields, QueueTypes
  <2>1. Nodes(fbm.empty, fbm.input, Rest(fbm.used), fbm.allocated)
    BY <1>4, PoolFields, TakeUsedStep
  <2>2. enc'.pc = "returnNode" /\ enc'.buffer = b
    BY <1>4, <2>0, PoolFields DEF enc, Types, WorkerStates
  <2>3. /\ NoRepeat(Rest(fbm.used))
        /\ fbm.used = << >> => b = NoBuffer /\ Rest(fbm.used) = fbm.used
        /\ fbm.used # << >> =>
             /\ b = Head(fbm.used) /\ b \in BuffersIn(fbm.used)
             /\ BuffersIn(Rest(fbm.used)) = BuffersIn(fbm.used) \ {b}
             /\ Len(Rest(fbm.used)) = Len(fbm.used) - 1
    BY <1>1, PoolFields, RestLemma DEF Distinct
  <2> HIDE DEF b
  <2>4. Distinct'
    BY <1>1, <2>1, <2>3 DEF Distinct, Nodes
  <2>5. EncOut' = b
    BY <2>2 DEF EncOut
  <2>6. Places'
    BY <1>1, <1>2, <2>1, <2>3, <2>5 DEF Places, Apart, Nodes
  <2>7. Hands'
    BY <1>1, <1>2, <2>1, <2>2 DEF Hands, Nodes
  <2>8. Count'
    <3>1. CASE fbm.used = << >>
      <4>1. EncNode' = 0
        BY <2>2, <2>3, <3>1 DEF EncNode
      <4> QED BY <1>1, <1>2, <2>1, <2>3, <3>1, <4>1 DEF Count, Nodes
    <3>2. CASE fbm.used # << >>
      <4>1. b # NoBuffer
        BY <2>3, <3>2, PoolFields, InQueue
      <4>2. EncNode' = 1
        BY <2>2, <4>1 DEF EncNode
      <4>3. /\ fbm'.empty = fbm.empty + 0 /\ fbm.empty + 0 >= 0
            /\ Len(fbm'.input) = Len(fbm.input) + 0 /\ Len(fbm'.used) = Len(fbm.used) + (-1)
            /\ AppNode' = AppNode + 0 /\ EncNode' = EncNode + 1
        BY <1>1, <1>2, <2>1, <2>3, <3>2, <4>2, PoolFields DEF Count, Nodes
      <4> QED BY <1>1, <4>3, Sums, CountMoves, Zenon
    <3> QED BY <3>1, <3>2
  <2> QED BY <2>4, <2>6, <2>7, <2>8 DEF Pool
<1> QED BY <1>3, <1>4 DEF Encode

\* Its node goes back to the empty ones.
LEMMA PoolEncReturnsNode == Types /\ Pool /\ EncReturnsNode => Pool'
<1> SUFFICES ASSUME Types, Pool, EncReturnsNode PROVE Pool'
  OBVIOUS
<1>1. Distinct /\ Places /\ Hands /\ Count /\ enc.pc = "returnNode"
      /\ UNCHANGED << app, owned >>
  BY DEF Pool, EncReturnsNode, application
<1>2. AppNode' = AppNode /\ AppNode' = AppNode + 0
  <2>1. AppNode' = AppNode /\ AppNode \in {0, 1}
    BY <1>1 DEF AppNode
  <2> QED BY <2>1
<1>3. CASE enc.buffer = NoBuffer /\ Goes("enc", "getInput") /\ UNCHANGED fbm
  <2>1. enc'.pc = "getInput" /\ enc'.buffer = NoBuffer
    BY <1>3, PoolFields DEF Goes, enc, Types, WorkerStates
  <2>2. EncOut' = EncOut /\ EncNode' = EncNode
    BY <1>1, <1>3, <2>1 DEF EncOut, EncNode
  <2>3. Distinct' /\ Places' /\ Count'
    BY <1>1, <1>2, <1>3, <2>2 DEF Distinct, Places, Count
  <2>4. Hands'
    BY <1>1, <1>3, <2>1 DEF Hands
  <2> QED BY <2>3, <2>4 DEF Pool
<1>4. CASE enc.buffer # NoBuffer /\ Goes("enc", "notify") /\ ReturnNode
  <2>1. enc'.pc = "notify" /\ enc'.buffer = enc.buffer
    BY <1>4, PoolFields DEF Goes, enc, Types, WorkerStates
  <2>2. Nodes(fbm.empty + 1, fbm.input, fbm.used, fbm.allocated)
    BY <1>4, PoolFields, ReturnNodeStep
  <2>3. EncOut' = EncOut /\ EncNode = 1 /\ EncNode' = 0
    BY <1>1, <1>4, <2>1 DEF EncOut, EncNode
  <2>4. Distinct' /\ Places'
    BY <1>1, <2>2, <2>3 DEF Distinct, Places, Nodes
  <2>5. Hands'
    BY <1>1, <1>4, <2>1, <2>2 DEF Hands, Nodes
  <2>6. /\ fbm'.empty = fbm.empty + 1 /\ fbm.empty + 1 >= 0
        /\ Len(fbm'.input) = Len(fbm.input) + 0 /\ Len(fbm'.used) = Len(fbm.used) + 0
        /\ AppNode' = AppNode + 0 /\ EncNode' = EncNode + (-1)
    BY <1>1, <1>2, <2>2, <2>3, PoolFields DEF Count, Nodes
  <2>7. Count'
    BY <1>1, <2>6, Sums, CountMoves, Zenon
  <2> QED BY <2>4, <2>5, <2>7 DEF Pool
<1> QED BY <1>3, <1>4 DEF EncReturnsNode

\* The application has its buffer back.
LEMMA PoolNotify == Types /\ Pool /\ NotifyReturnBuffer => Pool'
<1> SUFFICES ASSUME Types, Pool, NotifyReturnBuffer PROVE Pool'
  OBVIOUS
<1>1. Distinct /\ Places /\ Hands /\ Count /\ enc.pc = "notify"
      /\ UNCHANGED << app, fbm >> /\ owned' = owned \cup {enc.buffer}
  BY DEF Pool, NotifyReturnBuffer
<1>2. AppNode' = AppNode
  BY <1>1 DEF AppNode
<1>3. enc'.pc = "getInput" /\ enc'.buffer = NoBuffer
  BY PoolFields DEF NotifyReturnBuffer, enc, Types, WorkerStates
<1>4. EncOut = enc.buffer /\ EncOut' = NoBuffer /\ EncNode' = EncNode
      /\ enc.buffer # NoBuffer
  BY <1>1, <1>3 DEF EncOut, EncNode, Hands
<1>5. Distinct' /\ Count'
  BY <1>1, <1>2, <1>4 DEF Distinct, Count
<1>6. Places'
  <2>1. NoBuffer \notin BuffersIn(fbm.input) \cup BuffersIn(fbm.used)
          \cup BuffersIn(fbm.allocated) \cup owned
    BY PoolFields, InQueue
  <2> QED BY <1>1, <1>4, <2>1 DEF Places, Apart
<1>7. Hands'
  BY <1>1, <1>3 DEF Hands
<1> QED BY <1>5, <1>6, <1>7 DEF Pool

\* The first picture is encoded where it is.
LEMMA PoolGetInputBuffer == Types /\ Pool /\ (GetInputBuffer \/ EncodeOneFrame) => Pool'
<1> SUFFICES ASSUME Types, Pool, GetInputBuffer \/ EncodeOneFrame PROVE Pool'
  OBVIOUS
<1>1. Distinct /\ Places /\ Hands /\ Count /\ UNCHANGED << app, owned, fbm >>
      /\ enc.pc \in {"getInput", "encode"}
  BY DEF Pool, GetInputBuffer, EncodeOneFrame, application
<1>2. AppNode' = AppNode
  BY <1>1 DEF AppNode
<1>3. /\ enc'.pc \in {"count", "encode", "addUsed"}
      /\ enc'.pc \in {"encode", "addUsed"} =>
           fbm.input # << >> /\ enc'.buffer = Head(fbm.input)
      /\ enc'.pc = "count" => enc'.buffer = NoBuffer
  <2>1. CASE fbm.input = << >> /\ Goes("enc", "count") /\ enc.pc = "getInput"
    BY <1>1, <2>1, PoolFields DEF Goes, Hands, enc, Types, WorkerStates
  <2>2. CASE /\ fbm.input # << >>
             /\ worker' = [worker EXCEPT !["enc"].pc = "encode",
                                         !["enc"].buffer = Head(fbm.input)]
    <3>1. Head(fbm.input) \in BufferOrNone
      BY <2>2, PoolFields DEF BufferOrNone
    <3>2. enc'.pc = "encode" /\ enc'.buffer = Head(fbm.input)
      BY <2>2, <3>1, PoolFields DEF enc, Types, WorkerStates
    <3> QED BY <2>2, <3>2
  <2>3. CASE EncodeOneFrame
    <3>1. PICK r \in EncodeResults \cup {"ok", "full"} :
            worker' = [worker EXCEPT !["enc"].pc = "addUsed", !["enc"].result = r]
      BY <2>3 DEF EncodeOneFrame
    <3>2. enc'.pc = "addUsed" /\ enc'.buffer = enc.buffer
      BY <3>1, PoolFields DEF enc, Types, WorkerStates
    <3>3. enc.pc = "encode"
      BY <2>3 DEF EncodeOneFrame
    <3> QED BY <1>1, <3>2, <3>3 DEF Hands
  <2> QED BY <2>1, <2>2, <2>3 DEF GetInputBuffer
<1>4. EncOut' = EncOut /\ EncNode' = EncNode
  BY <1>1, <1>3 DEF EncOut, EncNode
<1>5. Distinct' /\ Places' /\ Count'
  BY <1>1, <1>2, <1>4 DEF Distinct, Places, Count
<1>6. Hands'
  BY <1>1, <1>3 DEF Hands
<1> QED BY <1>5, <1>6 DEF Pool

\* The encoded picture moves from the input queue to the used one.
LEMMA PoolAddUsed == Types /\ Pool /\ AddUsed => Pool'
<1> SUFFICES ASSUME Types, Pool, AddUsed PROVE Pool'
  OBVIOUS
<1>1. Distinct /\ Places /\ Hands /\ Count /\ enc.pc = "addUsed"
      /\ UNCHANGED << app, owned >>
  BY DEF Pool, AddUsed, application
<1>2. AppNode' = AppNode /\ AppNode' = AppNode + 0
  <2>1. AppNode' = AppNode /\ AppNode \in {0, 1}
    BY <1>1 DEF AppNode
  <2> QED BY <2>1
<1> DEFINE b == enc.buffer
           i == Rest(fbm.input)
           u == Append(fbm.used, b)
<1>3. /\ fbm.input # << >> /\ HeadOf(fbm.input) = b /\ b \in BuffersIn(fbm.input)
      /\ BuffersIn(i) = BuffersIn(fbm.input) \ {b} /\ NoRepeat(i)
      /\ Len(i) = Len(fbm.input) - 1
  BY <1>1, PoolFields, RestLemma DEF Distinct, Hands
<1>4. b \in Buffer
  BY <1>3, PoolFields, InQueue
<1>5. /\ BuffersIn(u) = BuffersIn(fbm.used) \cup {b} /\ Len(u) = Len(fbm.used) + 1
      /\ b \notin BuffersIn(fbm.used) => NoRepeat(u)
  BY <1>1, <1>4, PoolFields, AppendLemma DEF Distinct
<1>6. Nodes(fbm.empty, i, u, fbm.allocated)
  BY <1>3, <1>4, PoolFields, AddUsedStep DEF AddUsed
<1>7. enc'.pc \in {"idle", "count"} /\ enc'.buffer = NoBuffer
  <2>1. PICK pc \in {"idle", "count"} :
          worker' = [worker EXCEPT !["enc"].pc = pc, !["enc"].buffer = NoBuffer,
                                   !["enc"].result = "ok"]
    BY DEF AddUsed
  <2> QED BY <2>1, PoolFields DEF enc, Types, WorkerStates
<1>8. EncOut' = EncOut /\ EncNode' = EncNode /\ EncNode' = EncNode + 0
  BY <1>1, <1>7 DEF EncOut, EncNode
<1> HIDE DEF b, i, u
<1>9. Distinct'
  BY <1>1, <1>3, <1>5, <1>6 DEF Distinct, Places, Apart, Nodes
<1>10. Places'
  BY <1>1, <1>3, <1>5, <1>6, <1>8 DEF Places, Apart, Nodes
<1>11. Hands'
  BY <1>1, <1>7, <1>6 DEF Hands, Nodes
<1>12. /\ fbm'.empty = fbm.empty + 0 /\ fbm.empty + 0 >= 0
       /\ Len(fbm'.input) = Len(fbm.input) + (-1) /\ Len(fbm'.used) = Len(fbm.used) + 1
       /\ AppNode' = AppNode + 0 /\ EncNode' = EncNode + 0
  BY <1>1, <1>2, <1>3, <1>5, <1>6, <1>8, PoolFields DEF Count, Nodes
<1>13. Count'
  BY <1>1, <1>12, Sums, CountMoves, Zenon
<1> QED BY <1>9, <1>10, <1>11, <1>13 DEF Pool

\* The buffers of a recorder that has just been created.
Fresh ==
    /\ mUseAllocInputBuffer \in BOOLEAN
    /\ fbm = Created(mUseAllocInputBuffer).fbm
    /\ owned = Created(mUseAllocInputBuffer).owned
    /\ worker = [t \in Worker |-> Ready]
    /\ app = NewApp

LEMMA FreshPool == Fresh => Pool
<1> SUFFICES ASSUME Fresh PROVE Pool
  OBVIOUS
<1> DEFINE all == [i \in Buffer |-> i]
<1>1. /\ fbm.empty = nFrameBufferNum /\ fbm.input = << >> /\ fbm.used = << >>
      /\ \/ fbm.allocated = all /\ owned = {}
         \/ fbm.allocated = << >> /\ owned = Buffer
      /\ app.pc = "idle" /\ app.buffer = NoBuffer
      /\ enc.pc = "idle" /\ enc.buffer = NoBuffer
  BY DEF Fresh, Created, FrameBufferManagerCreate, Worker, Ready, NewApp, enc
<1>2. BuffersIn(<< >>) = {} /\ NoRepeat(<< >>) /\ Len(<< >>) = 0
  BY DEF BuffersIn, NoRepeat
<1>3. BuffersIn(all) = Buffer /\ NoRepeat(all)
  <2>1. nBufferNum \in Nat
    BY RingAssumption
  <2>2. DOMAIN all = Buffer /\ \A i \in Buffer : all[i] = i
    OBVIOUS
  <2>3. Len(all) = nBufferNum
    BY <2>1 DEF Buffer
  <2> HIDE DEF all
  <2>4. BuffersIn(all) = Buffer
    BY <2>2 DEF BuffersIn
  <2>5. NoRepeat(all)
    BY <2>2, <2>3 DEF NoRepeat, Buffer
  <2> QED BY <2>4, <2>5
<1> HIDE DEF all
<1>4. NoBuffer \notin Buffer /\ nFrameBufferNum \in Nat
  BY RingAssumption DEF NoBuffer, Buffer
<1>5. EncOut = NoBuffer /\ EncNode = 0 /\ AppNode = 0
  BY <1>1 DEF EncOut, EncNode, AppNode
<1>6. Distinct
  BY <1>1, <1>2, <1>3 DEF Distinct
<1>7. Places
  BY <1>1, <1>2, <1>3, <1>4, <1>5 DEF Places, Apart
<1>8. Hands
  BY <1>1 DEF Hands
<1>9. Count
  BY <1>1, <1>2, <1>4, <1>5 DEF Count
<1> QED BY <1>6, <1>7, <1>8, <1>9 DEF Pool

\* Every step keeps each buffer in one place and every node counted.
LEMMA PoolStep == Types /\ Pool /\ Next => Pool'
<1> SUFFICES ASSUME Types, Pool, Next PROVE Pool'
  OBVIOUS
<1>1. CASE AwEncoderCreate
  <2>1. Fresh'
    BY <1>1, SettingsAssumption DEF AwEncoderCreate, Fresh
  <2>2. (Fresh => Pool)'
    BY FreshPool, PTL
  <2> QED BY <2>1, <2>2
<1>2. CASE \/ AwEncoderStart \/ AwEncoderStop \/ AwEncoderDestory \/ Ctl
           \/ ProcessEnded
  <2>1. UNCHANGED << fbm, app, owned, worker >>
    BY <1>2 DEF ProcessEnded, vars, AwEncoderStart, AwEncoderStop, AwEncoderDestory, Ctl, PostCommand,
         CommandReturns, FreeEncoder
  <2> QED BY <2>1, PoolKept DEF enc
<1>3. ASSUME NEW t \in Worker,
             \/ Start(t) \/ CountMessages(t) \/ PostWork(t) \/ StartReply(t)
             \/ Stop(t) \/ Quit(t)
      PROVE  Pool'
  <2>1. UNCHANGED << fbm, app, owned >>
    BY <1>3 DEF Start, CountMessages, PostWork, StartReply, Stop, Quit, application
  <2>2. CASE UNCHANGED worker
    BY <2>1, <2>2, PoolKept DEF enc
  <2>3. CASE \E pc \in WorkerPcs :
               /\ \/ worker' = [worker EXCEPT ![t].pc = pc]
                  \/ worker' = [worker EXCEPT ![t].pc = pc, ![t].mStatus = "STARTED"]
               /\ {worker[t].pc, pc}
                    \cap {"returnNode", "notify", "encode", "addUsed"} = {}
    <3>1. PICK pc \in WorkerPcs :
               /\ \/ worker' = [worker EXCEPT ![t].pc = pc]
                  \/ worker' = [worker EXCEPT ![t].pc = pc, ![t].mStatus = "STARTED"]
               /\ {worker[t].pc, pc}
                    \cap {"returnNode", "notify", "encode", "addUsed"} = {}
      BY <2>3
    <3>2. /\ enc'.buffer = enc.buffer
          /\ \/ enc'.pc = enc.pc
             \/ t = "enc" /\ enc'.pc = pc
      <4>1. CASE worker' = [worker EXCEPT ![t].pc = pc]
        BY <4>1, PoolFields DEF enc, Types, WorkerStates
      <4>2. CASE worker' = [worker EXCEPT ![t].pc = pc, ![t].mStatus = "STARTED"]
        BY <4>2, PoolFields DEF enc, Types, WorkerStates
      <4> QED BY <3>1, <4>1, <4>2
    <3> QED BY <2>1, <3>1, <3>2, PoolKept DEF enc
  <2>4. CASE Start(t)
    BY <2>2, <2>3, <2>4 DEF Start, Receive, Goes, WorkerPcs
  <2>5. CASE CountMessages(t)
    <3>1. /\ worker[t].pc \in {"count", "countStart"}
          /\ worker' = [worker EXCEPT ![t].pc =
                          CASE @ = "count" -> IF mq[t] = << >> THEN "post" ELSE "idle"
                            [] OTHER -> IF mq[t] = << >> THEN "postStart" ELSE "started"]
      BY <2>5 DEF CountMessages
    <3>2. \E pc \in {"post", "idle", "postStart", "started"} :
             worker' = [worker EXCEPT ![t].pc = pc]
      BY <3>1
    <3> QED BY ZenonT(60), <2>3, <3>1, <3>2 DEF WorkerPcs
  <2>6. CASE PostWork(t)
    BY <2>3, <2>6 DEF PostWork, Goes, WorkerPcs
  <2>7. CASE StartReply(t)
    BY <2>3, <2>7 DEF StartReply, WorkerPcs
  <2>8. CASE Stop(t)
    BY <2>2, <2>8 DEF Stop
  <2>9. CASE Quit(t)
    BY <2>3, <2>9 DEF Quit, Receive, Goes, WorkerPcs
  <2> QED BY <1>3, <2>4, <2>5, <2>6, <2>7, <2>8, <2>9
<1>4. CASE RequestVideoFrame \/ ReturnVideoFrame
  <2>1. UNCHANGED << fbm, app, owned, enc >>
    BY <1>4, PoolFields
    DEF RequestVideoFrame, ReturnVideoFrame, Goes, Types, application, enc
  <2> QED BY <2>1, PoolKept
<1>5. CASE InputBuffer \/ Write
  BY <1>5, PoolInputBuffer, PoolAppReturnsNode, PoolAppReturnsBuffer, PoolAppGetsBuffer,
     PoolAppTakesNode, PoolAppAddsInput, PoolWriteReturns DEF Write
<1>6. CASE Encode \/ EncReturnsNode \/ NotifyReturnBuffer \/ GetInputBuffer
             \/ EncodeOneFrame \/ AddUsed
  BY <1>6, PoolEncode, PoolEncReturnsNode, PoolNotify, PoolGetInputBuffer, PoolAddUsed
<1> QED BY <1>1, <1>2, <1>3, <1>4, <1>5, <1>6, PoolFields DEF Next, Calls, Enc, Mux

-----------------------------------------------------------------------------
(* The number of buffers.                                                  *)

\* What is counted.
LEMMA BalanceFields ==
    ASSUME Types
    PROVE  /\ Len(fbm.allocated) \in Nat /\ Len(fbm.input) \in Nat /\ Len(fbm.used) \in Nat
           /\ AppHand \in {0, 1} /\ app.lost \in Nat /\ nBufferNum \in Nat
<1>1. app \in AppStates /\ fbm.allocated \in Seq(Buffer)
  BY PoolFields
<1> QED BY <1>1, PoolFields, RingAssumption DEF AppHand, AppStates

\* The length of a queue without its first buffer.
LEMMA RestLength ==
    ASSUME NEW q \in Seq(Buffer), q # << >>
    PROVE  /\ Len(Rest(q)) = Len(q) - 1 /\ Head(q) \in Buffer /\ HeadOf(q) = Head(q)
  BY DEF Rest, HeadOf

\* A buffer that moves from one place to another.
LEMMA BalanceMoves ==
    ASSUME Types, Types', Balance, mUseAllocInputBuffer, UNCHANGED mUseAllocInputBuffer,
           enc'.pc \notin {"returnNode", "notify"},
           NEW a \in Int, NEW i \in Int, NEW u \in Int, NEW h \in Int, NEW n \in Int,
           a + i + u + h + n = 0,
           Len(fbm'.allocated) = Len(fbm.allocated) + a,
           Len(fbm'.input) = Len(fbm.input) + i, Len(fbm'.used) = Len(fbm.used) + u,
           AppHand' = AppHand + h, app'.lost = app.lost + n
    PROVE  Balance'
<1> DEFINE v == Len(fbm.allocated)
           x == Len(fbm.input)
           y == Len(fbm.used)
           l == app.lost
<1>1. /\ v \in Int /\ x \in Int /\ y \in Int /\ l \in Int /\ AppHand \in Int
      /\ nBufferNum \in Int
  BY BalanceFields
<1>2. v + x + y + AppHand + l = nBufferNum
  BY DEF Balance
<1> HIDE DEF v, x, y, l
<1>3. (v + a) + (x + i) + (y + u) + (AppHand + h) + (l + n) = nBufferNum
  BY <1>1, <1>2
<1> QED BY <1>3 DEF Balance, v, x, y, l

\* A step that leaves the queues and the writer alone.
LEMMA BalanceKept ==
    ASSUME Balance, UNCHANGED << fbm, app, mUseAllocInputBuffer >>,
           enc'.pc = enc.pc \/ enc'.pc \notin {"returnNode", "notify"}
    PROVE  Balance'
  BY DEF Balance, AppHand

\* A new recorder has all its buffers.
LEMMA FreshBalance == Fresh => Balance
<1> SUFFICES ASSUME Fresh PROVE Balance
  OBVIOUS
<1>1. app.pc = "idle" /\ AppHand = 0 /\ app.lost = 0 /\ enc.pc = "idle"
  BY DEF Fresh, NewApp, AppHand, Ready, Worker, enc
<1>2. fbm = FrameBufferManagerCreate(mUseAllocInputBuffer)
  BY DEF Fresh, Created
<1>3. CASE mUseAllocInputBuffer
  <2>1. nBufferNum \in Nat /\ Len([i \in Buffer |-> i]) = nBufferNum /\ Len(<< >>) = 0
    BY RingAssumption DEF Buffer
  <2> QED BY <1>1, <1>2, <1>3, <2>1 DEF Balance, FrameBufferManagerCreate
<1>4. CASE ~ mUseAllocInputBuffer
  BY <1>1, <1>4 DEF Balance
<1> QED BY <1>3, <1>4

\* The writer: a buffer of the encoder goes from the used ones to the free ones,
\* then one of these to the pictures or, without a node, is lost.
LEMMA BalanceWrite ==
    Types /\ Types' /\ Pool /\ Balance /\ (InputBuffer \/ Write) => Balance'
<1> SUFFICES ASSUME Types, Types', Pool, Balance, InputBuffer \/ Write PROVE Balance'
  OBVIOUS
<1>1. /\ UNCHANGED << worker, mUseAllocInputBuffer >>
      /\ enc' = enc
  BY DEF InputBuffer, Write, AppReturnsNode, AppReturnsBuffer, AppGetsBuffer,
     AppTakesNode, AppAddsInput, WriteReturns, threads, enc
<1>2. /\ 0 \in Int /\ 1 \in Int /\ -1 \in Int
      /\ 0 + 0 + (-1) + 1 + 0 = 0 /\ 1 + 0 + 0 + (-1) + 0 = 0
      /\ (-1) + 0 + 0 + 1 + 0 = 0 /\ 0 + 0 + 0 + (-1) + 1 = 0
      /\ 0 + 1 + 0 + (-1) + 0 = 0 /\ 0 + 0 + 0 + 0 + 0 = 0
  OBVIOUS
<1> DEFINE Moved5(a, i, u, h, n) ==
             /\ Len(fbm'.allocated) = Len(fbm.allocated) + a
             /\ Len(fbm'.input) = Len(fbm.input) + i /\ Len(fbm'.used) = Len(fbm.used) + u
             /\ AppHand' = AppHand + h /\ app'.lost = app.lost + n
<1>3. ASSUME mUseAllocInputBuffer,
             \/ Moved5(0, 0, -1, 1, 0) \/ Moved5(1, 0, 0, -1, 0) \/ Moved5(-1, 0, 0, 1, 0)
             \/ Moved5(0, 0, 0, -1, 1) \/ Moved5(0, 1, 0, -1, 0) \/ Moved5(0, 0, 0, 0, 0)
      PROVE  Balance'
  <2>1. enc'.pc \notin {"returnNode", "notify"}
    BY <1>1, <1>3 DEF Balance
  <2>2. ASSUME NEW a \in Int, NEW i \in Int, NEW u \in Int, NEW h \in Int, NEW n \in Int,
               a + i + u + h + n = 0, Moved5(a, i, u, h, n)
        PROVE  Balance'
    BY <1>1, <1>3, <2>1, <2>2, BalanceMoves, Zenon
  <2> HIDE DEF Moved5
  <2> QED BY <1>2, <1>3, <2>2
<1>4. CASE mUseAllocInputBuffer
  <2>1. CASE InputBuffer
    <3>1. /\ app' = [app EXCEPT !.pc = "returnNode", !.buffer = HeadOf(fbm.used)]
          /\ TakeUsed /\ app.buffer = NoBuffer
      BY <1>4, <2>1 DEF InputBuffer, Pool, Hands, AppAt
    <3>2. app'.buffer = HeadOf(fbm.used) /\ app'.lost = app.lost /\ AppHand = 0
      BY <3>1, PoolFields DEF AppStates, AppHand
    <3>3. Nodes(fbm.empty, fbm.input, Rest(fbm.used), fbm.allocated)
      BY <3>1, PoolFields, TakeUsedStep
    <3>4. CASE fbm.used = << >>
      <4>1. Moved5(0, 0, 0, 0, 0)
        BY <3>2, <3>3, <3>4, BalanceFields DEF Nodes, AppHand, HeadOf, Rest
      <4> HIDE DEF Moved5
      <4> QED BY <1>3, <1>4, <4>1
    <3>5. CASE fbm.used # << >>
      <4>1. /\ Len(Rest(fbm.used)) = Len(fbm.used) - 1
            /\ HeadOf(fbm.used) # NoBuffer
        BY <3>5, PoolFields, RestLength
      <4>2. Moved5(0, 0, -1, 1, 0)
        BY <3>2, <3>3, <4>1, BalanceFields DEF Nodes, AppHand
      <4> HIDE DEF Moved5
      <4> QED BY <1>3, <1>4, <4>2
    <3> QED BY <3>4, <3>5
  <2>2. CASE AppReturnsNode
    <3>1. app'.buffer = app.buffer /\ app'.lost = app.lost
      BY <2>2, PoolFields, AppMoves DEF AppReturnsNode
    <3>2. fbm'.input = fbm.input /\ fbm'.used = fbm.used /\ fbm'.allocated = fbm.allocated
      BY <2>2, PoolFields, ReturnNodeStep DEF AppReturnsNode, Nodes
    <3>3. Moved5(0, 0, 0, 0, 0)
      BY <3>1, <3>2, BalanceFields DEF AppHand
    <3> HIDE DEF Moved5
    <3> QED BY <1>3, <1>4, <3>3
  <2>3. CASE AppReturnsBuffer
    <3>1. app.buffer \in Buffer /\ app.buffer # NoBuffer
      BY <2>3, PoolFields DEF AppReturnsBuffer, AppAt, Pool, Hands, BufferOrNone
    <3>2. app'.buffer = NoBuffer /\ app'.lost = app.lost
      BY <2>3, PoolFields, AppMoves DEF AppReturnsBuffer
    <3>3. Nodes(fbm.empty, fbm.input, fbm.used, Append(fbm.allocated, app.buffer))
      BY <2>3, <3>1, PoolFields, ReturnAllocatedStep DEF AppReturnsBuffer
    <3>4. Len(Append(fbm.allocated, app.buffer)) = Len(fbm.allocated) + 1
      BY <3>1, PoolFields
    <3>5. Moved5(1, 0, 0, -1, 0)
      BY <3>1, <3>2, <3>3, <3>4, BalanceFields DEF Nodes, AppHand
    <3> HIDE DEF Moved5
    <3> QED BY <1>3, <1>4, <3>5
  <2>4. CASE AppGetsBuffer
    <3>1. app.buffer = NoBuffer /\ AppHand = 0
      BY <2>4 DEF AppGetsBuffer, AppAt, Pool, Hands, AppHand
    <3>2. CASE AppGoes("crashed") /\ UNCHANGED fbm
      <4>1. app'.buffer = app.buffer /\ app'.lost = app.lost
        BY <3>2, PoolFields, AppMoves
      <4>2. Moved5(0, 0, 0, 0, 0)
        BY <3>2, <4>1, BalanceFields DEF AppHand
      <4> HIDE DEF Moved5
      <4> QED BY <1>3, <1>4, <4>2
    <3>3. CASE /\ fbm.allocated # << >>
               /\ app' = [app EXCEPT !.pc = "takeNode", !.buffer = Head(fbm.allocated)]
               /\ GetOneAllocateInputBuffer
      <4>1. /\ Len(Rest(fbm.allocated)) = Len(fbm.allocated) - 1
            /\ Head(fbm.allocated) # NoBuffer /\ Head(fbm.allocated) \in BufferOrNone
        BY <3>3, PoolFields, RestLength DEF BufferOrNone
      <4>2. app'.buffer = Head(fbm.allocated) /\ app'.lost = app.lost
        BY <3>3, <4>1, PoolFields, AppMoves
      <4>3. Nodes(fbm.empty, fbm.input, fbm.used, Rest(fbm.allocated))
        BY <3>3, PoolFields, GetAllocatedStep
      <4>4. Moved5(-1, 0, 0, 1, 0)
        BY <3>1, <4>1, <4>2, <4>3, BalanceFields DEF Nodes, AppHand
      <4> HIDE DEF Moved5
      <4> QED BY <1>3, <1>4, <4>4
    <3> QED BY <2>4, <3>2, <3>3 DEF AppGetsBuffer
  <2>5. CASE AppTakesNode
    <3>1. app.buffer # NoBuffer /\ AppHand = 1
      BY <2>5 DEF AppTakesNode, AppAt, Pool, Hands, AppHand
    <3>2. CASE /\ app' = [app EXCEPT !.pc = "idle", !.buffer = NoBuffer,
                                     !.lost = app.lost + 1]
               /\ UNCHANGED fbm
      <4>1. app'.buffer = NoBuffer /\ app'.lost = app.lost + 1
        BY <3>2, PoolFields DEF AppStates
      <4>2. Moved5(0, 0, 0, -1, 1)
        BY <3>1, <3>2, <4>1, BalanceFields DEF AppHand
      <4> HIDE DEF Moved5
      <4> QED BY <1>3, <1>4, <4>2
    <3>3. CASE AppGoes("addInput") /\ TakeEmpty
      <4>1. app'.buffer = app.buffer /\ app'.lost = app.lost
        BY <3>3, PoolFields, AppMoves
      <4>2. fbm'.input = fbm.input /\ fbm'.used = fbm.used /\ fbm'.allocated = fbm.allocated
        BY <3>3, PoolFields, TakeEmptyStep DEF Nodes
      <4>3. Moved5(0, 0, 0, 0, 0)
        BY <4>1, <4>2, BalanceFields DEF AppHand
      <4> HIDE DEF Moved5
      <4> QED BY <1>3, <1>4, <4>3
    <3> QED BY <1>4, <2>5, <3>2, <3>3 DEF AppTakesNode
  <2>6. CASE AppAddsInput
    <3>1. app.buffer \in Buffer /\ app.buffer # NoBuffer
      BY <2>6, PoolFields DEF AppAddsInput, AppAt, Pool, Hands, BufferOrNone
    <3>2. app'.buffer = NoBuffer /\ app'.lost = app.lost
      BY <2>6, PoolFields, AppMoves DEF AppAddsInput
    <3>3. Nodes(fbm.empty, Append(fbm.input, app.buffer), fbm.used, fbm.allocated)
      BY <2>6, <3>1, PoolFields, AddInputStep DEF AppAddsInput
    <3>4. Len(Append(fbm.input, app.buffer)) = Len(fbm.input) + 1
      BY <3>1, PoolFields
    <3>5. Moved5(0, 1, 0, -1, 0)
      BY <3>1, <3>2, <3>3, <3>4, BalanceFields DEF Nodes, AppHand
    <3> HIDE DEF Moved5
    <3> QED BY <1>3, <1>4, <3>5
  <2>7. CASE WriteReturns
    <3>1. app'.buffer = app.buffer /\ app'.lost = app.lost
      BY <2>7, PoolFields, AppMoves DEF WriteReturns
    <3>2. UNCHANGED fbm
      BY <2>7 DEF WriteReturns
    <3>3. Moved5(0, 0, 0, 0, 0)
      BY <3>1, <3>2, BalanceFields DEF AppHand
    <3> HIDE DEF Moved5
    <3> QED BY <1>3, <1>4, <3>3
  <2> QED BY <2>1, <2>2, <2>3, <2>4, <2>5, <2>6, <2>7 DEF Write
<1>5. CASE ~ mUseAllocInputBuffer
  <2>1. app.lost = 0 /\ app.pc \in {"idle", "takeNode", "addInput", "added"}
    BY <1>5 DEF Balance
  <2>2. \E pc \in {"idle", "takeNode", "addInput", "added"} : \E b :
          \/ app' = [app EXCEPT !.pc = pc, !.buffer = b]
          \/ app' = [app EXCEPT !.pc = pc, !.buffer = b, !.lost = app.lost]
          \/ app' = [app EXCEPT !.pc = pc]
    BY <1>5, <2>1 DEF InputBuffer, Write, AppReturnsNode, AppReturnsBuffer, AppGetsBuffer,
       AppTakesNode, AppAddsInput, WriteReturns, AppAt, AppGoes
  <2>3. app'.lost = 0 /\ app'.pc \in {"idle", "takeNode", "addInput", "added"}
    BY <2>1, <2>2, PoolFields DEF AppStates
  <2> QED BY <1>1, <1>5, <2>3 DEF Balance
<1> QED BY <1>4, <1>5

\* The encode thread: with buffers of the encoder it only moves a picture to the
\* used ones.
LEMMA BalanceEnc ==
    ASSUME Types, Types', Pool, Balance,
           \/ Encode \/ EncReturnsNode \/ NotifyReturnBuffer
           \/ GetInputBuffer \/ EncodeOneFrame \/ AddUsed
    PROVE  Balance'
<1>1. /\ UNCHANGED << app, mUseAllocInputBuffer >> /\ AppHand' = AppHand
      /\ app'.lost = app.lost
  BY DEF Encode, EncReturnsNode, NotifyReturnBuffer, GetInputBuffer, EncodeOneFrame,
     AddUsed, application, AppHand
<1>2. CASE ~ mUseAllocInputBuffer
  BY <1>1, <1>2 DEF Balance
<1>3. CASE mUseAllocInputBuffer
  <2>1. enc.pc \notin {"returnNode", "notify"}
    BY <1>3 DEF Balance
  <2>2. enc'.pc \notin {"returnNode", "notify"}
    <3>1. worker \in [Worker -> WorkerStates] /\ "enc" \in Worker
      BY PoolFields DEF Types
    <3>2. CASE Encode
      BY <1>3, <3>1, <3>2 DEF Encode, Goes, WorkerStates, enc
    <3>3. CASE GetInputBuffer
      BY <3>1, <3>3 DEF GetInputBuffer, Goes, WorkerStates, enc
    <3>4. CASE EncodeOneFrame
      BY <3>1, <3>4 DEF EncodeOneFrame, WorkerStates, enc
    <3>5. CASE AddUsed
      BY <3>1, <3>5 DEF AddUsed, WorkerStates, enc
    <3> QED BY <2>1, <3>2, <3>3, <3>4, <3>5 DEF EncReturnsNode, NotifyReturnBuffer
  <2>3. CASE UNCHANGED fbm
    BY <1>1, <2>2, <2>3, BalanceKept
  <2>4. CASE AddUsed
    <3>1. /\ fbm.input # << >> /\ enc.buffer = Head(fbm.input)
          /\ AddUsedInputBuffer(enc.buffer)
      BY <2>4 DEF AddUsed, Pool, Hands
    <3>2. /\ enc.buffer \in Buffer /\ HeadOf(fbm.input) = enc.buffer
          /\ Len(Rest(fbm.input)) = Len(fbm.input) - 1
      BY <3>1, PoolFields, RestLength
    <3>3. Nodes(fbm.empty, Rest(fbm.input), Append(fbm.used, enc.buffer), fbm.allocated)
      BY <3>1, <3>2, PoolFields, AddUsedStep
    <3>4. Len(Append(fbm.used, enc.buffer)) = Len(fbm.used) + 1
      BY <3>2, PoolFields
    <3>5. /\ Len(fbm'.allocated) = Len(fbm.allocated) + 0
          /\ Len(fbm'.input) = Len(fbm.input) + (-1) /\ Len(fbm'.used) = Len(fbm.used) + 1
          /\ AppHand' = AppHand + 0 /\ app'.lost = app.lost + 0
      BY <1>1, <3>2, <3>3, <3>4, BalanceFields DEF Nodes
    <3>6. 0 + (-1) + 1 + 0 + 0 = 0 /\ 0 \in Int /\ 1 \in Int /\ -1 \in Int
      OBVIOUS
    <3> QED BY <1>1, <1>3, <2>2, <3>5, <3>6, BalanceMoves, Zenon
  <2> QED BY <1>3, <2>1, <2>3, <2>4
      DEF Encode, EncReturnsNode, NotifyReturnBuffer, GetInputBuffer, EncodeOneFrame
<1> QED BY <1>2, <1>3

\* Every step keeps every buffer accounted for.
LEMMA BalanceStep == Types /\ Types' /\ Pool /\ Balance /\ Next => Balance'
<1> SUFFICES ASSUME Types, Types', Pool, Balance, Next PROVE Balance'
  OBVIOUS
<1>1. CASE AwEncoderCreate
  <2>1. Fresh'
    BY <1>1, SettingsAssumption DEF AwEncoderCreate, Fresh
  <2>2. (Fresh => Balance)'
    BY FreshBalance, PTL
  <2> QED BY <2>1, <2>2
<1>2. CASE \/ AwEncoderStart \/ AwEncoderStop \/ AwEncoderDestory \/ Ctl
           \/ ProcessEnded
  <2>1. UNCHANGED << fbm, app, worker, mUseAllocInputBuffer >>
    BY <1>2 DEF ProcessEnded, vars, AwEncoderStart, AwEncoderStop, AwEncoderDestory, Ctl,
         PostCommand, CommandReturns, FreeEncoder
  <2> QED BY <2>1, BalanceKept DEF enc
<1>3. ASSUME NEW t \in Worker,
             \/ Start(t) \/ CountMessages(t) \/ PostWork(t) \/ StartReply(t)
             \/ Stop(t) \/ Quit(t)
      PROVE  Balance'
  <2>1. UNCHANGED << fbm, app, mUseAllocInputBuffer >>
    BY <1>3 DEF Start, CountMessages, PostWork, StartReply, Stop, Quit, application
  <2>2. enc'.pc = enc.pc \/ enc'.pc \notin {"returnNode", "notify"}
    BY <1>3, PoolFields
    DEF Start, CountMessages, PostWork, StartReply, Stop, Quit, Goes, Types, WorkerStates,
        enc
  <2> QED BY <2>1, <2>2, BalanceKept
<1>4. CASE RequestVideoFrame \/ ReturnVideoFrame
  <2>1. UNCHANGED << fbm, app, enc, mUseAllocInputBuffer >>
    BY <1>4, PoolFields
    DEF RequestVideoFrame, ReturnVideoFrame, Goes, Types, application, enc
  <2> QED BY <2>1, BalanceKept
<1>5. CASE InputBuffer \/ Write
  BY <1>5, BalanceWrite
<1>6. CASE Encode \/ EncReturnsNode \/ NotifyReturnBuffer \/ GetInputBuffer
             \/ EncodeOneFrame \/ AddUsed
  BY <1>6, BalanceEnc
<1> QED BY <1>1, <1>2, <1>3, <1>4, <1>5, <1>6, PoolFields DEF Next, Calls, Enc, Mux

-----------------------------------------------------------------------------
(* The theorems.                                                           *)

\* The workers and the writer never change the calls that are left, a worker
\* that has ended stays so, and nothing is written once a stop has begun.
LEMMA CallingElse ==
    Types /\ Calling /\ (InputBuffer \/ Write \/ Enc \/ Mux \/ ProcessEnded) => Calling'
<1> SUFFICES ASSUME Types, Calling, InputBuffer \/ Write \/ Enc \/ Mux \/ ProcessEnded
             PROVE  Calling'
  OBVIOUS
<1>1. "enc" \in Worker /\ "mux" \in Worker
  BY DEF Worker
<1>2. CASE InputBuffer \/ Write
  <2>1. UNCHANGED << ctl, phase, encoder, worker >>
    BY <1>2 DEF InputBuffer, Write, AppReturnsNode, AppReturnsBuffer, AppGetsBuffer,
         AppTakesNode, AppAddsInput, WriteReturns, threads
  <2>2. ~(phase \in {"stopped", "destroyed"} /\ app.pc = "idle")
    BY <1>2 DEF InputBuffer, Write, AppReturnsNode, AppReturnsBuffer, AppGetsBuffer,
         AppTakesNode, AppAddsInput, WriteReturns, AppAt
  <2> QED BY <2>1, <2>2, CallingKept
<1>3. CASE Enc \/ Mux
  <2>1. UNCHANGED << ctl, phase, encoder, app >>
    BY <1>3 DEF Enc, Mux, Start, CountMessages, PostWork, StartReply, Stop, Quit, Encode,
         EncReturnsNode, NotifyReturnBuffer, GetInputBuffer, EncodeOneFrame, AddUsed,
         RequestVideoFrame, ReturnVideoFrame, application
  <2>2. PICK t \in Worker :
          /\ worker[t].pc # "ended"
          /\ \A u \in Worker \ {t} : worker'[u] = worker[u]
    <3>1. ASSUME NEW t \in Worker,
                 \/ Start(t) \/ CountMessages(t) \/ PostWork(t) \/ StartReply(t)
                 \/ Stop(t) \/ Quit(t)
          PROVE  /\ worker[t].pc # "ended"
                 /\ \A u \in Worker \ {t} : worker'[u] = worker[u]
      BY <3>1 DEF Start, CountMessages, PostWork, StartReply, Stop, Quit, Receive, Goes,
           Types
    <3>2. CASE Encode \/ EncReturnsNode \/ NotifyReturnBuffer \/ GetInputBuffer
                 \/ EncodeOneFrame \/ AddUsed
      <4>1. /\ worker["enc"].pc # "ended"
            /\ \A u \in Worker \ {"enc"} : worker'[u] = worker[u]
        BY <3>2 DEF Encode, EncReturnsNode, NotifyReturnBuffer, GetInputBuffer,
             EncodeOneFrame, AddUsed, Receive, Goes, Types, enc
      <4> QED BY <1>1, <4>1
    <3>3. CASE RequestVideoFrame \/ ReturnVideoFrame
      <4>1. /\ worker["mux"].pc # "ended"
            /\ \A u \in Worker \ {"mux"} : worker'[u] = worker[u]
        BY <3>3 DEF RequestVideoFrame, ReturnVideoFrame, Receive, Goes, Types, mux
      <4> QED BY <1>1, <4>1
    <3> QED BY <1>1, <1>3, <3>1, <3>2, <3>3 DEF Enc, Mux
  <2>3. \A u \in Worker : worker[u].pc = "ended" => worker'[u].pc = "ended"
    BY <2>2
  <2> QED BY <2>1, <2>3, CallingKept
<1>4. CASE ProcessEnded
  BY <1>4, CallingKept DEF ProcessEnded, vars
<1> QED BY <1>2, <1>3, <1>4

RecorderInv == Types /\ Calling /\ Pool /\ Balance /\ Ring

\* Whatever the interleaving of the four threads, the state is the one the
\* components keep between two critical sections.
THEOREM RecorderInvariant == Spec => []RecorderInv
<1>1. Init => RecorderInv
  <2> SUFFICES ASSUME Init PROVE RecorderInv
    OBVIOUS
  <2>1. mUseAllocInputBuffer \in BOOLEAN
    BY SettingsAssumption DEF Init
  <2>2. Types
    BY <2>1, CreatedTypes DEF Init, Types
  <2>3. Calling
    BY DEF Init, Calling, Todo
  <2>4. Pool /\ Balance
    BY <2>1, FreshPool, FreshBalance DEF Init, Fresh
  <2>5. Ring
    <3>1. bs = BitStreamCreate /\ mux.pc # "deliver"
      BY DEF Init, mux, Worker, Ready
    <3> QED BY <3>1, CreateBitstream DEF Ring
  <2> QED BY <2>2, <2>3, <2>4, <2>5 DEF RecorderInv
<1>2. RecorderInv /\ [Next]_vars => RecorderInv'
  <2> SUFFICES ASSUME RecorderInv, [Next]_vars PROVE RecorderInv'
    OBVIOUS
  <2>1. Types /\ Calling /\ Pool /\ Balance /\ Ring
    BY DEF RecorderInv
  <2>2. CASE Next
    <3>1. Types'
      <4>1. ProcessEnded => Types'
        BY <2>1 DEF ProcessEnded, vars, Types
      <4> QED BY <2>1, <2>2, <4>1, CallTypes, WriteTypes, WorkerTypes, EncTypes, MuxTypes
          DEF Next, Enc, Mux, Worker
    <3>2. Calling'
      BY <2>1, <2>2, CallingStep, CallingElse DEF Next
    <3> QED BY <2>1, <2>2, <3>1, <3>2, PoolStep, BalanceStep, RingStep DEF RecorderInv
  <2>3. CASE UNCHANGED vars
    <3>1. Types' /\ Calling' /\ Ring'
      BY <2>1, <2>3 DEF vars, Types, Calling, Ring, mux
    <3>2. Pool' /\ Balance'
      BY <2>1, <2>3
      DEF vars, Pool, Distinct, Places, Hands, Count, EncOut, EncNode, AppNode, Balance,
          AppHand, enc
    <3> QED BY <3>1, <3>2 DEF RecorderInv
  <2> QED BY <2>2, <2>3
<1> QED BY <1>1, <1>2, PTL DEF Spec

\* The queues, the counters of nodes and of encoded frames, and the threads stay
\* within their types and bounds.
THEOREM RecorderTypeCorrect == Spec => []TypeOK
<1>1. RecorderInv => TypeOK
  <2> SUFFICES ASSUME RecorderInv PROVE TypeOK
    OBVIOUS
  <2>1. Types /\ Calling /\ Pool /\ Balance /\ Ring
    BY DEF RecorderInv
  <2>2. fbm.empty \in 0 .. nFrameBufferNum
    <3>1. AppNode \in {0, 1} /\ EncNode \in {0, 1}
      BY DEF AppNode, EncNode
    <3> QED BY SMTT(60), <2>1, <3>1, PoolFields DEF Pool, Count
  <2>3. /\ bs.nValidDataSize \in 0 .. nStreamBufferSize
        /\ bs.nUnReadFrameNum \in 0 .. bs.nValidFrameNum
    <3>1. bs \in Rings
          /\ bs.nValidFrameNum = bs.nUnReadFrameNum + (IF mux.pc = "deliver" THEN 1 ELSE 0)
      BY <2>1 DEF Ring, RingOK
    <3> QED BY <3>1, RingFields, Sizes
  <2>4. \A t \in Worker : worker[t].slot \in Slot
    BY <2>1 DEF Types, WorkerStates
  <2>5. app.lost \in 0 .. nBufferNum
    <3> DEFINE a == Len(fbm.allocated)
               x == Len(fbm.input)
               y == Len(fbm.used)
               l == app.lost
    <3>1. /\ a \in Nat /\ x \in Nat /\ y \in Nat /\ l \in Nat
          /\ AppHand \in {0, 1} /\ nBufferNum \in Nat
      BY <2>1, BalanceFields, Zenon
    <3>2. l = 0 \/ a + x + y + AppHand + l = nBufferNum
      BY <2>1 DEF Balance
    <3> HIDE DEF a, x, y, l
    <3>3. l \in 0 .. nBufferNum
      BY <3>1, <3>2
    <3> QED BY <3>3 DEF l
  <2> QED BY <2>1, <2>2, <2>3, <2>4, <2>5 DEF TypeOK, Types, Calling, Commands
<1> QED BY <1>1, RecorderInvariant, PTL

\* The picture being written is in no queue, not with the encode thread and not
\* with the application, and the encoded frames that are still needed share no
\* byte of the ring, however it wraps and whatever is rounded up.
THEOREM NothingIsOverwritten == Spec => []NothingOverwritten
<1>1. RecorderInv => NothingOverwritten
  <2> SUFFICES ASSUME RecorderInv PROVE NothingOverwritten
    OBVIOUS
  <2>1. Types /\ Pool /\ Ring
    BY DEF RecorderInv
  <2>2. ASSUME app.pc \in {"takeNode", "addInput"}
        PROVE  /\ app.buffer \notin BuffersIn(fbm.input) \cup BuffersIn(fbm.used)
               /\ \A i \in DOMAIN fbm.allocated : fbm.allocated[i] # app.buffer
               /\ app.buffer # enc.buffer
               /\ app.buffer \notin owned
    <3>1. /\ app.buffer \notin BuffersIn(fbm.input) \cup BuffersIn(fbm.used)
          /\ app.buffer \notin BuffersIn(fbm.allocated) \cup owned
          /\ app.buffer # NoBuffer /\ app.buffer # EncOut
      BY <2>1, <2>2 DEF Pool, Places, Apart, Hands
    <3>2. \A i \in DOMAIN fbm.allocated : fbm.allocated[i] # app.buffer
      BY <3>1 DEF BuffersIn
    <3>3. app.buffer # enc.buffer
      <4>1. CASE enc.pc \in {"returnNode", "notify"}
        BY <3>1, <4>1 DEF EncOut
      <4>2. CASE enc.pc \in {"encode", "addUsed"}
        <5>1. enc.buffer \in BuffersIn(fbm.input)
          BY <2>1, <4>2, PoolFields, RestLemma DEF Pool, Distinct, Hands
        <5> QED BY <3>1, <5>1
      <4>3. CASE enc.pc \notin {"returnNode", "notify", "encode", "addUsed"}
        BY <2>1, <3>1, <4>3 DEF Pool, Hands
      <4> QED BY <4>1, <4>2, <4>3
    <3> QED BY <3>1, <3>2, <3>3
  <2> QED BY <2>1, <2>2, Separate, DeliveredIsValid DEF NothingOverwritten, AppAt
<1> QED BY <1>1, RecorderInvariant, PTL

\* A write looks for a buffer of the encoder in vain only after failed writes
\* have lost as many as there are more buffers than nodes.
THEOREM WriteFindsABuffer == Spec => []WriteFindsBuffer
<1>1. RecorderInv => WriteFindsBuffer
  <2> SUFFICES ASSUME RecorderInv, app.pc = "getBuffer", fbm.allocated = << >>
               PROVE  app.lost >= nBufferNum - nFrameBufferNum
    BY BalanceFields, PoolFields DEF WriteFindsBuffer, AppAt, RecorderInv
  <2>1. Types /\ Hands /\ Count /\ Balance
    BY DEF RecorderInv, Pool
  <2>2. AppHand = 0
    BY <2>1 DEF Hands, AppHand
  <2>3. Len(fbm.allocated) + Len(fbm.input) + Len(fbm.used) + AppHand + app.lost
          = nBufferNum
    BY <2>1 DEF Balance
  <2>4. Len(fbm.allocated) = 0
    OBVIOUS
  <2>5. AppNode \in {0, 1} /\ EncNode \in {0, 1}
    BY DEF AppNode, EncNode
  <2> DEFINE v == fbm.empty
             a == Len(fbm.allocated)
             x == Len(fbm.input)
             y == Len(fbm.used)
             l == app.lost
  <2>6. v >= 0 /\ v + x + y + AppNode + EncNode = nFrameBufferNum
    BY <2>1 DEF Count
  <2>7. a + x + y + AppHand + l = nBufferNum /\ a = 0
    BY <2>3, <2>4
  <2>8. /\ v \in Int /\ x \in Nat /\ y \in Nat /\ l \in Nat
        /\ nBufferNum \in Nat /\ nFrameBufferNum \in Nat
    BY <2>1, BalanceFields, PoolFields, Zenon
  <2> HIDE DEF v, a, x, y, l
  <2>9. l >= nBufferNum - nFrameBufferNum
    BY <2>2, <2>5, <2>6, <2>7, <2>8
  <2> QED BY <2>9 DEF l
<1> QED BY <1>1, RecorderInvariant, PTL

\* No thread can touch the encoder once it is freed, whatever message a stop left
\* behind in a worker's queue.
THEOREM NeverUsedAfterFree == Spec => []NotUsedAfterFree
<1>1. RecorderInv => NotUsedAfterFree
  <2> SUFFICES ASSUME RecorderInv, encoder = "freed" PROVE NotUsedAfterFree
    BY DEF NotUsedAfterFree
  <2>1. phase = "destroyed" /\ ctl.todo = << >> /\ Calling
    BY DEF RecorderInv, Calling
  <2>2. ctl.todo # Shutdown
    BY <2>1 DEF Shutdown
  <2> QED BY <2>1, <2>2 DEF Calling, NotUsedAfterFree, AppAt, Worker
<1> QED BY <1>1, RecorderInvariant, PTL

=============================================================================
