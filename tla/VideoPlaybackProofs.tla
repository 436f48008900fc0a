------------------------ MODULE VideoPlaybackProofs ------------------------
(***************************************************************************)
(* Proofs about the video decode and the video render component, for every *)
(* size of their message queues.                                           *)
(*                                                                         *)
(* The two threads share the engine, and the only thing that keeps them    *)
(* apart is the flag bResolutionChange: it is down while the decode thread *)
(* decodes, and up from the decoder's answer to the end of the reopening.  *)
(*                                                                         *)
(* What keeps their loops going, and what the end of the stream may find,  *)
(* depends on the callers too: on the order of the commands in the scripts *)
(* of the xplayer thread and the demux thread (CallerInv), on who waits    *)
(* for which answer (Protocol), and on the status that the commands before *)
(* a component expect of it (StatusInv).  FlowInv says all of it.          *)
(***************************************************************************)
EXTENDS VideoPlayback, ListProofs

\* The steps that do not use the engine, and those that do.
Plain == [op : {"continue", "post", "reset", "notifyEos", "awaitEos", "doDecode",
                "exited", "picture", "decContinue", "decPost"}]
         \union [op : {"reply"}, id : Command]
Steps == Plain \union [op : {"decode", "reopen"}]

\* A thread uses the engine in the first of its steps only, the decode thread
\* while no resolution change is pending, and the render thread while one is.
EngineInv ==
    /\ todo \in [Comp -> Seq(Steps)]
    /\ \A c \in Comp : todo[c] # << >> => Tail(todo[c]) \in Seq(Plain)
    /\ bResolutionChange \in BOOLEAN
    /\ At("dec", "decode") => ~ bResolutionChange
    /\ At("render", "reopen") => bResolutionChange

-----------------------------------------------------------------------------
(* Lists of steps.                                                          *)

\* What a list of plain steps begins with, and goes on with.
LEMMA PlainList ==
    ASSUME NEW s \in Seq(Plain)
    PROVE  /\ s \in Seq(Steps)
           /\ s # << >> => /\ Head(s) \in Plain /\ Tail(s) \in Seq(Plain)
                           /\ Head(s).op \notin {"decode", "reopen"}
<1>1. Plain \subseteq Steps
  BY DEF Steps
<1>2. s \in Seq(Steps)
  BY <1>1
<1>3. s # << >> => Head(s) \in Plain /\ Tail(s) \in Seq(Plain)
  OBVIOUS
<1>4. \A x \in Plain : x.op \notin {"decode", "reopen"}
  BY DEF Plain
<1> QED BY <1>2, <1>3, <1>4

LEMMA PlainWhenAllAre ==
    ASSUME NEW S, NEW T, NEW s \in Seq(S), \A i \in 1 .. Len(s) : s[i] \in T
    PROVE  s \in Seq(T)
<1>1. s = [i \in 1 .. Len(s) |-> s[i]] /\ Len(s) \in Nat
  OBVIOUS
<1>2. s \in [1 .. Len(s) -> T]
  BY <1>1
<1> QED BY <1>1, <1>2

\* Two elements and one more are three, ...
LEMMA ThreeElements ==
    ASSUME NEW S, NEW x \in S, NEW y \in S, NEW z \in S
    PROVE  /\ << x, y >> \o << z >> = << x, y, z >> /\ << x, y, z >> \in Seq(S)
           /\ << y, z >> \in Seq(S) /\ Head(<< x, y, z >>) = x
           /\ Tail(<< x, y, z >>) = << y, z >>
<1> DEFINE a == << x, y >>
           b == << z >>
           c == << x, y, z >>
           d == << y, z >>
<1>1. /\ a \in Seq(S) /\ b \in Seq(S) /\ c \in Seq(S) /\ d \in Seq(S)
      /\ Len(a) = 2 /\ a[1] = x /\ a[2] = y /\ Len(b) = 1 /\ b[1] = z
      /\ Len(c) = 3 /\ c[1] = x /\ c[2] = y /\ c[3] = z
      /\ Len(d) = 2 /\ d[1] = y /\ d[2] = z /\ Head(c) = x
  OBVIOUS
<1> HIDE DEF a, b, c, d
<1>2. /\ a \o b \in Seq(S) /\ Len(a \o b) = Len(a) + Len(b)
      /\ \A i \in 1 .. Len(a) : (a \o b)[i] = a[i]
      /\ \A i \in 1 .. Len(b) : (a \o b)[Len(a) + i] = b[i]
  <2>1. a \in Seq(S) /\ b \in Seq(S)
    BY <1>1
  <2> QED BY <2>1
<1>3. (a \o b)[1] = x /\ (a \o b)[2] = y
  BY <1>1, <1>2
<1>4. (a \o b)[3] = z
  <2>1. 1 \in 1 .. Len(b) /\ Len(a) + 1 = 3
    BY <1>1
  <2> QED BY <1>1, <1>2, <2>1
<1>5. a \o b = c
  BY <1>1, <1>2, <1>3, <1>4
<1>6. /\ Tail(c) \in Seq(S) /\ Len(Tail(c)) = Len(c) - 1
      /\ \A i \in 1 .. Len(c) - 1 : Tail(c)[i] = c[i + 1]
  <2>1. c \in Seq(S) /\ Len(c) = 3
    BY <1>1
  <2>2. c # << >>
    BY <2>1
  <2> QED BY SMTT(60), <2>1, <2>2
<1> DEFINE t == Tail(c)
<1> HIDE DEF t
<1>7. t \in Seq(S) /\ Len(t) = 2 /\ t[1] = c[2] /\ t[2] = c[3]
  <2>1. t \in Seq(S) /\ Len(t) = 2 /\ \A i \in 1 .. 2 : t[i] = c[i + 1]
    <3>1. Len(c) - 1 = 2
      BY <1>1
    <3> QED BY <1>6, <3>1, Zenon DEF t
  <2>2. t[1] = c[1 + 1] /\ t[2] = c[2 + 1]
    BY <2>1
  <2> QED BY <2>1, <2>2
<1>8. t = d
  BY <1>1, <1>7
<1> QED BY <1>1, <1>5, <1>8 DEF a, b, c, d, t

\* ... and so have three steps of a thread.
LEMMA ThreeSteps ==
    ASSUME NEW x \in Steps, NEW y \in Steps, NEW z \in Steps
    PROVE  /\ << x, y >> \o << z >> = << x, y, z >> /\ << x, y, z >> \in Seq(Steps)
           /\ Head(<< x, y, z >>) = x /\ Tail(<< x, y, z >>) = << y, z >>
  BY ThreeElements, ZenonT(60)

\* Steps of which only the first may use the engine, followed by plain ones.
LEMMA EngineSteps ==
    ASSUME NEW s \in Seq(Steps), s # << >>, Tail(s) \in Seq(Plain), NEW r \in Seq(Plain)
    PROVE  /\ s \o r \in Seq(Steps) /\ s \o r # << >>
           /\ Head(s \o r) = Head(s) /\ Tail(s \o r) \in Seq(Plain)
<1> DEFINE t == s \o r
<1>1. r \in Seq(Steps)
  BY PlainList
<1>2. /\ t \in Seq(Steps) /\ Len(t) = Len(s) + Len(r) /\ Len(s) \in Nat \ {0}
      /\ Len(r) \in Nat
      /\ \A i \in 1 .. Len(s) : t[i] = s[i]
      /\ \A i \in 1 .. Len(r) : t[Len(s) + i] = r[i]
  BY <1>1
<1>3. /\ Len(Tail(s)) = Len(s) - 1
      /\ \A i \in 1 .. Len(s) - 1 : Tail(s)[i] = s[i + 1]
  OBVIOUS
<1> HIDE DEF t
<1>4. t # << >> /\ Head(t) = t[1] /\ Head(s) = s[1] /\ t[1] = s[1]
  BY <1>2
<1>5. /\ Len(Tail(t)) = Len(t) - 1 /\ Tail(t) \in Seq(Steps)
      /\ \A i \in 1 .. Len(t) - 1 : Tail(t)[i] = t[i + 1]
  BY <1>2, <1>4
<1>6. ASSUME NEW i \in 1 .. Len(t) - 1 PROVE t[i + 1] \in Plain
  <2>1. CASE i + 1 <= Len(s)
    <3>1. i \in 1 .. Len(Tail(s)) /\ t[i + 1] = Tail(s)[i]
      BY <1>2, <1>3, <2>1
    <3> QED BY <3>1
  <2>2. CASE i + 1 > Len(s)
    <3>1. i + 1 - Len(s) \in 1 .. Len(r) /\ t[i + 1] = r[i + 1 - Len(s)]
      BY <1>2, <2>2
    <3> QED BY <3>1
  <2> QED BY <1>2, <2>1, <2>2
<1>7. \A i \in 1 .. Len(Tail(t)) : Tail(t)[i] \in Plain
  BY <1>2, <1>5, <1>6
<1>8. Tail(t) \in Seq(Plain)
  BY <1>5, <1>7, PlainWhenAllAre
<1> QED BY <1>2, <1>4, <1>8 DEF t

\* The steps that the handlers put together are plain.
LEMMA PlainSteps ==
    /\ << >> \in Seq(Plain)
    /\ \A name \in {"continue", "post", "reset", "notifyEos", "awaitEos", "doDecode",
                    "exited", "picture", "decContinue", "decPost"} :
         << Step(name) >> \in Seq(Plain)
    /\ \A id \in Command : << ReplyTo(id) >> \in Seq(Plain)
    /\ Running \in Seq(Plain)
    /\ \A condition \in BOOLEAN, s \in Seq(Plain) : Only(condition, s) \in Seq(Plain)
<1>1. ASSUME NEW x \in Plain PROVE << x >> \in Seq(Plain)
  OBVIOUS
<1>2. ASSUME NEW name \in {"continue", "post", "reset", "notifyEos", "awaitEos",
                           "doDecode", "exited", "picture", "decContinue", "decPost"}
      PROVE  << Step(name) >> \in Seq(Plain)
  <2>1. Step(name) \in Plain
    BY DEF Step, Plain
  <2> QED BY <1>1, <2>1
<1>3. ASSUME NEW id \in Command PROVE << ReplyTo(id) >> \in Seq(Plain)
  <2>1. ReplyTo(id) \in Plain
    BY DEF ReplyTo, Plain
  <2> QED BY <1>1, <2>1
<1>4. << >> \in Seq(Plain)
  OBVIOUS
<1>5. Running \in Seq(Plain)
  BY <1>2 DEF Running
<1> QED BY <1>2, <1>3, <1>4, <1>5 DEF Only

LEMMA JoinedPlain ==
    ASSUME NEW a \in Seq(Plain), NEW b \in Seq(Plain)
    PROVE  a \o b \in Seq(Plain)
  OBVIOUS

-----------------------------------------------------------------------------
(* The steps of a thread.                                                   *)

\* Whose turn it is to change the flag: the decode thread puts it up, and the
\* render thread, which reopens the engine, takes it down.
FlagRises == bResolutionChange' \in BOOLEAN /\ (bResolutionChange => bResolutionChange')
FlagFalls == bResolutionChange' \in BOOLEAN /\ (bResolutionChange' => bResolutionChange)

\* The thread c has a plain list of steps to do, and the flag is kept for the
\* other thread.
LEMMA PlainTodo ==
    ASSUME EngineInv, NEW c \in Comp, NEW new \in Seq(Plain),
           todo' = [todo EXCEPT ![c] = new],
           c = "dec" => FlagRises, c = "render" => FlagFalls
    PROVE  EngineInv'
<1>1. new \in Seq(Steps)
      /\ (new # << >> => Tail(new) \in Seq(Plain)
                         /\ Head(new).op \notin {"decode", "reopen"})
  BY PlainList
<1>2. todo' \in [Comp -> Seq(Steps)]
  BY <1>1 DEF EngineInv
<1>3. \A d \in Comp : todo'[d] = IF d = c THEN new ELSE todo[d]
  BY DEF EngineInv
<1>4. \A d \in Comp : todo'[d] # << >> => Tail(todo'[d]) \in Seq(Plain)
  BY <1>1, <1>3 DEF EngineInv
<1>5. CASE c = "dec"
  <2>1. todo'["dec"] = new /\ todo'["render"] = todo["render"]
    BY <1>3, <1>5 DEF Comp
  <2> QED BY <1>1, <1>2, <1>4, <1>5, <2>1 DEF EngineInv, At, FlagRises
<1>6. CASE c = "render"
  <2>1. todo'["render"] = new /\ todo'["dec"] = todo["dec"]
    BY <1>3, <1>6 DEF Comp
  <2> QED BY <1>1, <1>2, <1>4, <1>6, <2>1 DEF EngineInv, At, FlagFalls
<1> QED BY <1>5, <1>6 DEF Comp

\* The thread goes on with plain steps, ...
LEMMA PlainProceeds ==
    ASSUME EngineInv, NEW c \in Comp, NEW steps \in Seq(Plain), NEW name, At(c, name),
           Proceed(c, steps), c = "dec" => FlagRises, c = "render" => FlagFalls
    PROVE  EngineInv'
<1>1. Tail(todo[c]) \in Seq(Plain)
  BY DEF EngineInv, At
<1> DEFINE new == steps \o Tail(todo[c])
<1>2. new \in Seq(Plain)
  BY <1>1, JoinedPlain
<1>3. todo' = [todo EXCEPT ![c] = new]
  BY DEF Proceed
<1> HIDE DEF new
<1> QED BY <1>2, <1>3, PlainTodo

\* ... or takes a message.
LEMMA PlainTakes ==
    ASSUME EngineInv, NEW c \in Comp, NEW id, NEW steps \in Seq(Plain),
           Take(c, id, steps), UNCHANGED bResolutionChange
    PROVE  EngineInv'
<1>1. todo' = [todo EXCEPT ![c] = steps]
  BY DEF Take
<1>2. FlagRises /\ FlagFalls
  BY DEF EngineInv, FlagRises, FlagFalls
<1> QED BY <1>1, <1>2, PlainTodo

LEMMA FlagSame == EngineInv /\ UNCHANGED bResolutionChange => FlagRises /\ FlagFalls
  BY DEF EngineInv, FlagRises, FlagFalls

\* The other steps leave the threads and the flag alone.
LEMMA EngineRests ==
    EngineInv /\ UNCHANGED << todo, bResolutionChange >> => EngineInv'
  BY DEF EngineInv, At

\* The steps of the component base.
LEMMA BaseKeeps ==
    ASSUME EngineInv, NEW c \in Comp,
           BaseCompContinue(c) \/ PostContinue(c) \/ SendReply(c)
    PROVE  EngineInv'
<1>1. CASE BaseCompContinue(c)
  <2> DEFINE steps == Only(QueueFree(c), << Step("post") >>)
  <2>1. steps \in Seq(Plain)
    BY PlainSteps DEF QueueFree
  <2>2. At(c, "continue") /\ Proceed(c, steps) /\ UNCHANGED bResolutionChange
    BY <1>1 DEF BaseCompContinue, compVars
  <2> HIDE DEF steps
  <2> QED BY <2>1, <2>2, FlagSame, PlainProceeds
<1>2. CASE PostContinue(c) \/ SendReply(c)
  <2>1. PICK name \in {"post", "reply"} : At(c, name) /\ Proceed(c, << >>)
                                         /\ UNCHANGED bResolutionChange
    BY <1>2 DEF PostContinue, SendReply, compVars
  <2> QED BY <2>1, PlainSteps, FlagSame, PlainProceeds
<1> QED BY <1>1, <1>2

-----------------------------------------------------------------------------
(* The decode thread.                                                       *)

\* The messages it takes.
DecTakes == DecStart \/ DecStop \/ DecPause \/ DecQuit \/ DecReset \/ DecSetEos
            \/ DecContinue

LEMMA DecTakesKeeps == EngineInv /\ DecTakes => EngineInv'
<1> SUFFICES ASSUME EngineInv, DecTakes PROVE EngineInv'
  OBVIOUS
<1>1. CASE DecStart
  <2> DEFINE a == Only(status["dec"] = "PAUSED" /\ ~ bCrashFlag, Running)
             b == Only(status["dec"] = "STOPPED", Running \o << Step("reset") >>)
             r == << ReplyTo("start") >>
  <2>1. Running \o << Step("reset") >> \in Seq(Plain)
    BY PlainSteps, JoinedPlain
  <2>2. a \in Seq(Plain) /\ b \in Seq(Plain) /\ r \in Seq(Plain)
    BY <2>1, PlainSteps DEF Command
  <2>3. Take("dec", "start", a \o b \o r) /\ UNCHANGED bResolutionChange
    BY <1>1 DEF DecStart
  <2> HIDE DEF a, b, r
  <2>4. a \o b \o r \in Seq(Plain)
    BY <2>2, JoinedPlain
  <2> QED BY <2>3, <2>4, PlainTakes DEF Comp
<1>2. CASE DecStop
  <2> DEFINE a == Only(status["dec"] = "STOPPED", << ReplyTo("stop") >>)
             b == << Step("reset"), ReplyTo("stop") >>
  <2>1. Step("reset") \in Plain /\ ReplyTo("stop") \in Plain
    BY DEF Step, ReplyTo, Plain, Command
  <2>2. a \in Seq(Plain)
    BY PlainSteps DEF Command
  <2>4. b \in Seq(Plain)
    BY <2>1
  <2>3. Take("dec", "stop", a \o b) /\ UNCHANGED bResolutionChange
    BY <1>2 DEF DecStop
  <2> HIDE DEF a, b
  <2> QED BY <2>2, <2>3, <2>4, JoinedPlain, PlainTakes DEF Comp
<1>3. CASE DecPause
  <2> DEFINE a == Only(Works("dec") /\ ~ firstShown["dec"], Running)
             r == << ReplyTo("pause") >>
  <2>1. a \in Seq(Plain) /\ r \in Seq(Plain)
    BY PlainSteps DEF Command
  <2>2. Take("dec", "pause", a \o r) /\ UNCHANGED bResolutionChange
    BY <1>3 DEF DecPause
  <2> HIDE DEF a, r
  <2> QED BY <2>1, <2>2, JoinedPlain, PlainTakes DEF Comp
<1>4. CASE DecQuit
  <2> DEFINE a == << Step("reset"), ReplyTo("quit"), Step("exited") >>
  <2>1. Step("reset") \in Plain /\ ReplyTo("quit") \in Plain /\ Step("exited") \in Plain
    BY DEF Step, ReplyTo, Plain, Command
  <2>2. a \in Seq(Plain)
    BY <2>1
  <2>3. Take("dec", "quit", a) /\ UNCHANGED bResolutionChange
    BY <1>4 DEF DecQuit
  <2> HIDE DEF a
  <2> QED BY <2>2, <2>3, PlainTakes DEF Comp
<1>5. CASE DecReset
  <2> DEFINE a == << Step("reset"), ReplyTo("reset") >>
             b == ContinueAfterReset
  <2>1. Step("reset") \in Plain /\ ReplyTo("reset") \in Plain
    BY DEF Step, ReplyTo, Plain, Command
  <2>2. a \in Seq(Plain)
    BY <2>1
  <2>4. b \in Seq(Plain)
    BY PlainSteps DEF ContinueAfterReset
  <2>3. Take("dec", "reset", a \o b) /\ UNCHANGED bResolutionChange
    BY <1>5 DEF DecReset
  <2> HIDE DEF a, b
  <2> QED BY <2>2, <2>3, <2>4, JoinedPlain, PlainTakes DEF Comp
<1>6. CASE DecSetEos
  <2> DEFINE r == << ReplyTo("eos") >>
             a == Only(bCrashFlag, << Step("notifyEos") >>)
             b == Only(~ bCrashFlag /\ Works("dec"), Running)
  <2>1. r \in Seq(Plain) /\ a \in Seq(Plain) /\ b \in Seq(Plain)
    BY PlainSteps DEF Command, Only
  <2>2. Take("dec", "eos", r \o a \o b) /\ UNCHANGED bResolutionChange
    BY <1>6 DEF DecSetEos
  <2> HIDE DEF a, b, r
  <2>3. r \o a \o b \in Seq(Plain)
    BY <2>1, JoinedPlain
  <2> QED BY <2>2, <2>3, PlainTakes DEF Comp
<1>7. CASE DecContinue
  <2>1. Take("dec", "continue", << Step("doDecode") >>) /\ UNCHANGED bResolutionChange
    BY <1>7 DEF DecContinue, compVars
  <2> QED BY <2>1, PlainSteps, PlainTakes DEF Comp
<1> QED BY <1>1, <1>2, <1>3, <1>4, <1>5, <1>6, <1>7 DEF DecTakes

\* The decode thread begins to decode only while the flag is down.
LEMMA DoDecodeKeeps == EngineInv /\ DoDecode => EngineInv'
<1> SUFFICES ASSUME EngineInv, DoDecode PROVE EngineInv'
  OBVIOUS
<1> DEFINE rest == Tail(todo["dec"])
<1>1. At("dec", "doDecode") /\ UNCHANGED bResolutionChange
  BY DEF DoDecode, compVars
<1>2. rest \in Seq(Plain)
  BY <1>1 DEF EngineInv, At, Comp
<1>3. CASE MayDecode
  <2> DEFINE x == Step("decode")
             first == << x >>
             new == first \o rest
  <2>1. x \in Steps /\ x.op = "decode"
    BY DEF Step, Steps
  <2>10. first \in Seq(Steps) /\ first # << >> /\ Head(first) = x
         /\ Tail(first) \in Seq(Plain)
    BY <2>1
  <2>2. new \in Seq(Steps) /\ new # << >> /\ Head(new) = x /\ Tail(new) \in Seq(Plain)
    BY <1>2, <2>10, EngineSteps
  <2>3. todo' = [todo EXCEPT !["dec"] = new]
    BY <1>3 DEF DoDecode, Proceed, Only
  <2>4. ~ bResolutionChange
    BY <1>3 DEF MayDecode
  <2> HIDE DEF new, first, x, rest
  <2>5. todo' \in [Comp -> Seq(Steps)]
    BY <2>2, <2>3 DEF EngineInv
  <2>6. todo'["dec"] = new /\ todo'["render"] = todo["render"]
    BY <2>3 DEF EngineInv, Comp
  <2>7. \A c \in Comp : todo'[c] # << >> => Tail(todo'[c]) \in Seq(Plain)
    BY <2>2, <2>6 DEF EngineInv, Comp
  <2>8. At("render", "reopen")' => FALSE
    BY <1>1, <2>4, <2>6 DEF EngineInv, At
  <2>9. ~ bResolutionChange' /\ bResolutionChange' \in BOOLEAN
    BY <1>1, <2>4 DEF EngineInv
  <2> QED BY <2>5, <2>7, <2>8, <2>9 DEF EngineInv
<1>4. CASE ~ MayDecode
  <2>1. Proceed("dec", << >>)
    BY <1>4 DEF DoDecode, Only
  <2> QED BY <1>1, <2>1, PlainSteps, FlagSame, PlainProceeds DEF Comp
<1> QED BY <1>3, <1>4

\* Only the decoder puts the flag up.
LEMMA DecodeKeeps == EngineInv /\ DecodeVideoStream => EngineInv'
<1> SUFFICES ASSUME EngineInv, DecodeVideoStream PROVE EngineInv'
  OBVIOUS
<1>1. At("dec", "decode")
  BY DEF DecodeVideoStream
<1>2. PICK steps \in Seq(Plain) : Proceed("dec", steps) /\ FlagRises
  <2>1. CASE NoBitstream
    <3> DEFINE steps == IF bEosFlag["dec"] THEN << Step("notifyEos") >> ELSE Running
    <3>1. steps \in Seq(Plain) /\ Proceed("dec", steps) /\ UNCHANGED bResolutionChange
      BY <2>1, PlainSteps DEF NoBitstream, compVars
    <3> QED BY <3>1, FlagSame
  <2>2. CASE NoFrameBuffer
    BY <2>2, PlainSteps, FlagSame DEF NoFrameBuffer, compVars
  <2>3. CASE ResolutionChange
    <3>1. Proceed("dec", << >>) /\ bResolutionChange' = TRUE
      BY <2>3 DEF ResolutionChange
    <3> QED BY <3>1, PlainSteps DEF FlagRises
  <2>4. CASE Unsupported
    BY <2>4, PlainSteps, FlagSame DEF Unsupported
  <2>5. CASE Decoded
    <3> DEFINE steps == Only(status["dec"] = "STARTED" \/ ~ firstShown'["dec"], Running)
    <3>1. steps \in Seq(Plain)
      BY PlainSteps DEF Only
    <3>2. Proceed("dec", steps) /\ UNCHANGED bResolutionChange
      BY <2>5 DEF Decoded
    <3> QED BY <3>1, <3>2, FlagSame
  <2> QED BY <2>1, <2>2, <2>3, <2>4, <2>5 DEF DecodeVideoStream
<1> QED BY <1>1, <1>2, PlainProceeds DEF Comp

LEMMA DecThreadKeeps == EngineInv /\ VideoDecodeThread => EngineInv'
<1> SUFFICES ASSUME EngineInv, VideoDecodeThread PROVE EngineInv'
  OBVIOUS
<1>1. CASE ResetVideoDecoder \/ NotifyEos \/ AwaitEos
  <2>1. PICK name \in {"reset", "notifyEos", "awaitEos"},
             steps \in {<< >>, << Step("awaitEos") >>} :
          At("dec", name) /\ Proceed("dec", steps) /\ UNCHANGED bResolutionChange
    BY <1>1 DEF ResetVideoDecoder, NotifyEos, AwaitEos, compVars
  <2>2. steps \in Seq(Plain)
    BY PlainSteps
  <2> QED BY <2>1, <2>2, FlagSame, PlainProceeds DEF Comp
<1>2. CASE BaseCompContinue("dec") \/ PostContinue("dec") \/ SendReply("dec")
  BY <1>2, BaseKeeps DEF Comp
<1> QED BY <1>1, <1>2, DecTakesKeeps, DoDecodeKeeps, DecodeKeeps
        DEF VideoDecodeThread, DecTakes

-----------------------------------------------------------------------------
(* The render thread.                                                       *)

RenderTakes == RenderStart \/ RenderStop \/ RenderPause \/ RenderQuit
               \/ RenderReset \/ RenderSetEos \/ DoRender

LEMMA RenderTakesKeeps == EngineInv /\ RenderTakes => EngineInv'
<1> SUFFICES ASSUME EngineInv, RenderTakes PROVE EngineInv'
  OBVIOUS
<1>1. PICK id \in Command \union {"continue"}, steps \in Seq(Plain) :
         Take("render", id, steps) /\ UNCHANGED bResolutionChange
  <2>1. CASE RenderStart
    <3> DEFINE r == << ReplyTo("start") >>
    <3>1. r \in Seq(Plain) /\ Running \in Seq(Plain)
      BY PlainSteps DEF Command
    <3>2. Take("render", "start", r \o Running) /\ UNCHANGED bResolutionChange
      BY <2>1 DEF RenderStart
    <3> HIDE DEF r
    <3> QED BY <3>1, <3>2, JoinedPlain DEF Command
  <2>2. CASE RenderStop
    BY <2>2, PlainSteps DEF RenderStop, Command
  <2>3. CASE RenderPause
    <3> DEFINE r == << ReplyTo("pause") >>
               a == ContinuePaused
    <3>1. r \in Seq(Plain)
      BY PlainSteps DEF Command
    <3>2. a \in Seq(Plain)
      BY PlainSteps DEF ContinuePaused
    <3>3. Take("render", "pause", r \o a) /\ UNCHANGED bResolutionChange
      BY <2>3 DEF RenderPause
    <3> HIDE DEF r, a
    <3> QED BY <3>1, <3>2, <3>3, JoinedPlain DEF Command
  <2>4. CASE RenderQuit
    <3> DEFINE a == << ReplyTo("quit"), Step("exited") >>
    <3>1. ReplyTo("quit") \in Plain /\ Step("exited") \in Plain
      BY DEF Step, ReplyTo, Plain, Command
    <3>2. a \in Seq(Plain)
      BY <3>1
    <3>3. Take("render", "quit", a) /\ UNCHANGED bResolutionChange
      BY <2>4 DEF RenderQuit
    <3> HIDE DEF a
    <3> QED BY <3>2, <3>3 DEF Command
  <2>5. CASE RenderReset
    <3> DEFINE r == << ReplyTo("reset") >>
               a == Only(status["render"] # "STOPPED", Running)
    <3>1. r \in Seq(Plain)
      BY PlainSteps DEF Command
    <3>2. a \in Seq(Plain)
      BY PlainSteps
    <3>3. Take("render", "reset", r \o a) /\ UNCHANGED bResolutionChange
      BY <2>5 DEF RenderReset
    <3> HIDE DEF r, a
    <3> QED BY <3>1, <3>2, <3>3, JoinedPlain DEF Command
  <2>6. CASE RenderSetEos
    <3> DEFINE r == << ReplyTo("eos") >>
               a == Only(Works("render"), Running)
    <3>1. r \in Seq(Plain)
      BY PlainSteps DEF Command
    <3>2. a \in Seq(Plain)
      BY PlainSteps DEF Only
    <3>3. Take("render", "eos", r \o a) /\ UNCHANGED bResolutionChange
      BY <2>6 DEF RenderSetEos
    <3> HIDE DEF r, a
    <3> QED BY <3>1, <3>2, <3>3, JoinedPlain DEF Command
  <2>7. CASE DoRender
    <3> DEFINE a == Only(Works("render"), << Step("picture") >>)
    <3>1. a \in Seq(Plain)
      BY PlainSteps DEF Only
    <3>2. Take("render", "continue", a) /\ UNCHANGED bResolutionChange
      BY <2>7 DEF DoRender, compVars
    <3> HIDE DEF a
    <3> QED BY <3>1, <3>2
  <2> QED BY <2>1, <2>2, <2>3, <2>4, <2>5, <2>6, <2>7 DEF RenderTakes
<1> QED BY <1>1, PlainTakes DEF Comp

\* The render thread begins to reopen the engine only when the flag is up.
LEMMA BeginReopenKeeps == EngineInv /\ At("render", "picture") /\ BeginReopen
                          /\ UNCHANGED bResolutionChange => EngineInv'
<1> SUFFICES ASSUME EngineInv, At("render", "picture"), BeginReopen,
                    UNCHANGED bResolutionChange
             PROVE  EngineInv'
  OBVIOUS
<1> DEFINE x == Step("reopen")
           y == Step("decContinue")
           z == Step("continue")
           rest == Tail(todo["render"])
           first == << x, y >> \o Running
           new == first \o rest
<1>1. rest \in Seq(Plain)
  BY DEF EngineInv, At, Comp
<1>2. x \in Steps /\ x.op = "reopen" /\ y \in Plain /\ z \in Plain
  BY DEF Step, Steps, Plain
<1>3. Running = << z >>
  BY DEF Running
<1>4. todo' = [todo EXCEPT !["render"] = new]
  BY DEF BeginReopen, Proceed
<1>5. bResolutionChange
  BY DEF BeginReopen
<1> HIDE DEF x, y, z, rest
<1>6. first = << x, y >> \o << z >>
  BY <1>3
<1>7. /\ first \in Seq(Steps) /\ first # << >> /\ Head(first) = x
      /\ Tail(first) \in Seq(Plain)
  <2>1. y \in Steps /\ z \in Steps /\ << y, z >> \in Seq(Plain)
    BY <1>2 DEF Steps
  <2> HIDE DEF first
  <2>2. /\ first = << x, y, z >> /\ first \in Seq(Steps) /\ Head(first) = x
        /\ Tail(first) = << y, z >>
    <3>1. /\ << x, y >> \o << z >> = << x, y, z >> /\ << x, y, z >> \in Seq(Steps)
          /\ Head(<< x, y, z >>) = x /\ Tail(<< x, y, z >>) = << y, z >>
      BY <1>2, <2>1, ThreeSteps
    <3> DEFINE list == << x, y, z >>
    <3>2. first = list
      BY <1>6, <3>1, Zenon
    <3> HIDE DEF list
    <3> QED BY <3>1, <3>2, Zenon DEF list
  <2> QED BY <2>1, <2>2
<1> HIDE DEF first
<1>8. new \in Seq(Steps) /\ new # << >> /\ Head(new) = x /\ Tail(new) \in Seq(Plain)
  BY <1>1, <1>2, <1>7, EngineSteps
<1> HIDE DEF new
<1>10. todo' \in [Comp -> Seq(Steps)]
  BY <1>4, <1>8 DEF EngineInv
<1>11. todo'["render"] = new /\ todo'["dec"] = todo["dec"]
  BY <1>4 DEF EngineInv, Comp
<1>12. \A c \in Comp : todo'[c] # << >> => Tail(todo'[c]) \in Seq(Plain)
  BY <1>8, <1>11 DEF EngineInv, Comp
<1>13. At("dec", "decode")' => FALSE
  BY <1>5, <1>11 DEF EngineInv, At
<1> QED BY <1>5, <1>10, <1>12, <1>13 DEF EngineInv

\* What becomes of the picture, and the end of the reopening: only that takes
\* the flag down.
LEMMA PictureKeeps ==
    EngineInv /\ (PictureComes \/ NoPictureComes \/ ReopenVideoEngine) => EngineInv'
<1>1. ASSUME EngineInv, PictureComes \/ (NoPictureComes /\ ~ BeginReopen) PROVE EngineInv'
  <2>1. At("render", "picture") /\ UNCHANGED bResolutionChange
    BY <1>1 DEF PictureComes, NoPictureComes, OtherThanPicture
  <2>2. Only(status["render"] = "STARTED", Running) \in Seq(Plain)
    BY PlainSteps
  <2>3. PICK steps \in Seq(Plain) : Proceed("render", steps)
    BY <1>1, <2>2, PlainSteps
       DEF PictureComes, NoPictureComes, ShowPicture, DropPicture, LeaveRender
  <2> QED BY <1>1, <2>1, <2>3, FlagSame, PlainProceeds DEF Comp
<1>2. ASSUME EngineInv, NoPictureComes, BeginReopen PROVE EngineInv'
  BY <1>2, BeginReopenKeeps DEF NoPictureComes, OtherThanPicture
<1>3. ASSUME EngineInv, ReopenVideoEngine PROVE EngineInv'
  <2>1. At("render", "reopen") /\ Proceed("render", << >>) /\ bResolutionChange' = FALSE
    BY <1>3 DEF ReopenVideoEngine
  <2>2. FlagFalls
    BY <2>1 DEF FlagFalls
  <2> QED BY <1>3, <2>1, <2>2, PlainSteps, PlainProceeds DEF Comp
<1> QED BY <1>1, <1>2, <1>3

LEMMA RenderThreadKeeps == EngineInv /\ VideoRenderThread => EngineInv'
<1> SUFFICES ASSUME EngineInv, VideoRenderThread PROVE EngineInv'
  OBVIOUS
<1>1. CASE ContinueDecoder
  <2> DEFINE steps == Only(QueueFree("dec"), << Step("decPost") >>)
  <2>1. steps \in Seq(Plain)
    BY PlainSteps DEF QueueFree
  <2>2. At("render", "decContinue") /\ Proceed("render", steps)
        /\ UNCHANGED bResolutionChange
    BY <1>1 DEF ContinueDecoder, compVars
  <2> HIDE DEF steps
  <2> QED BY <2>1, <2>2, FlagSame, PlainProceeds DEF Comp
<1>2. CASE PostToDecoder
  <2>1. At("render", "decPost") /\ Proceed("render", << >>) /\ UNCHANGED bResolutionChange
    BY <1>2 DEF PostToDecoder, compVars
  <2> QED BY <2>1, PlainSteps, FlagSame, PlainProceeds DEF Comp
<1>3. CASE BaseCompContinue("render") \/ PostContinue("render") \/ SendReply("render")
  BY <1>3, BaseKeeps DEF Comp
<1> QED BY <1>1, <1>2, <1>3, RenderTakesKeeps, PictureKeeps
        DEF VideoRenderThread, RenderTakes

-----------------------------------------------------------------------------
(* The callers, and the whole.                                              *)

\* New components have nothing to do.
LEMMA NothingToDo ==
    todo' = [c \in Comp |-> << >>] /\ bResolutionChange' = FALSE => EngineInv'
<1>1. << >> \in Seq(Steps)
  OBVIOUS
<1> QED BY <1>1 DEF EngineInv, At, Comp

LEMMA CommandsKeep == EngineInv /\ Commands => EngineInv'
<1>1. ASSUME EngineInv, PlayerInitialVideo PROVE EngineInv'
  <2>1. todo' = [c \in Comp |-> << >>] /\ bResolutionChange' = FALSE
    BY <1>1 DEF PlayerInitialVideo
  <2> QED BY <2>1, NothingToDo
<1>2. PlayerStart \/ PlayerPause \/ PlayerStop \/ PlayerReset \/ PlayerSetEos
      => UNCHANGED << todo, bResolutionChange >>
  BY DEF PlayerStart, PlayerPause, PlayerStop, PlayerReset, PlayerSetEos, Issue, compVars
<1> QED BY <1>1, <1>2, EngineRests DEF Commands

LEMMA CallersKeep == EngineInv /\ (\E t \in Caller : CallerStep(t)) => EngineInv'
<1>1. ASSUME NEW t \in Caller, CallerStep(t)
      PROVE  UNCHANGED << todo, bResolutionChange >>
  BY <1>1 DEF CallerStep, PostCommand, WaitReply, JoinThread, ChangeStatus, ChangeDemux,
              compVars
<1> QED BY <1>1, EngineRests

LEMMA EngineNext == EngineInv /\ [Next]_vars => EngineInv'
<1>1. UNCHANGED vars => UNCHANGED << todo, bResolutionChange >>
  BY DEF vars, compVars
<1>2. PictureComes /\ EngineInv => EngineInv'
  BY PictureKeeps
<1> QED BY <1>1, <1>2, EngineRests, CommandsKeep, CallersKeep, DecThreadKeeps,
           RenderThreadKeeps DEF Next

LEMMA EngineInit == Init => EngineInv
<1> SUFFICES ASSUME Init PROVE EngineInv
  OBVIOUS
<1>1. << >> \in Seq(Steps)
  OBVIOUS
<1>2. todo \in [Comp -> Seq(Steps)] /\ bResolutionChange \in BOOLEAN
  BY <1>1 DEF Init
<1>3. \A c \in Comp : todo[c] = << >>
  BY DEF Init
<1> QED BY <1>2, <1>3 DEF EngineInv, At, Comp

\* While the render thread reopens the video engine the decode thread does not
\* decode with it: VideoDecCompReopenVideoEngine runs on the render thread, and
\* the flag bResolutionChange is the only thing that keeps doDecode away
\* (videoDecComponent.c).
THEOREM DecodeIsOff == Spec => []DecodeStaysOff
<1>1. EngineInv => DecodeStaysOff
  BY DEF EngineInv, DecodeStaysOff
<1> QED BY <1>1, EngineInit, EngineNext, PTL DEF Spec

-----------------------------------------------------------------------------
(* The callers: what they have to do, and what they wait for.               *)

Statuses == {"STARTED", "PAUSED", "STOPPED"}
WaitFor(c, id) == [op |-> "wait", comp |-> c, id |-> id]

\* The steps of the xplayer thread and of the demux thread.
PlayerIds == {"start", "pause", "stop", "quit"}
ResetIds == {"pause", "reset", "start"}
PlayerSteps == [op : {"call", "wait"}, comp : Comp, id : PlayerIds]
               \union [op : {"join"}, comp : Comp]
               \union [op : {"status"}, value : Statuses]
               \union [op : {"demux"}, value : {"started", "stopped"}]
DemuxSteps == [op : {"call", "wait"}, comp : Comp, id : ResetIds]
              \union [op : {"call", "wait"}, comp : {"dec"}, id : {"eos"}]
StepsOf(t) == IF t = "xplayer" THEN PlayerSteps ELSE DemuxSteps

\* The status of the player when the script is done that a step is of.
Goal(x) ==
    IF x.op \in {"call", "wait"}
      THEN (IF x.id = "start" THEN "STARTED" ELSE IF x.id = "pause" THEN "PAUSED"
            ELSE "STOPPED")
    ELSE IF x.op = "join" THEN "STOPPED"
    ELSE IF x.op = "status" THEN x.value
    ELSE IF x.value = "started" THEN "STARTED" ELSE "STOPPED"

\* The place of a step in the script that it is of.
PlayerPlace(c, id) == IF id = "quit" THEN (IF c = "render" THEN 4 ELSE 6)
                      ELSE IF (id = "start") <=> (c = "dec") THEN 1 ELSE 2
DemuxPlace(c, id) == IF id = "pause" THEN (IF c = "render" THEN 1 ELSE 2)
                     ELSE IF id = "reset" THEN (IF c = "dec" THEN 3 ELSE 4)
                     ELSE IF c = "render" THEN 5 ELSE 6
Place(t, x) == IF x.op \in {"call", "wait"}
                 THEN (IF t = "xplayer" THEN PlayerPlace(x.comp, x.id)
                                        ELSE DemuxPlace(x.comp, x.id))
               ELSE IF x.op = "join" THEN (IF x.comp = "render" THEN 5 ELSE 7)
               ELSE IF x.op = "status" THEN 3
               ELSE IF x.value = "stopped" THEN 0 ELSE 4

\* The steps of a script that are still to come as long as one before them is.
ScriptWith(t, x) ==
    IF t = "demux" THEN {Call(c, id) : c \in Comp,
                           id \in IF x.id = "pause" THEN ResetIds
                                  ELSE IF x.id = "reset" THEN {"reset"} ELSE {}}
    ELSE IF Goal(x) = "STARTED"
      THEN {Call("dec", "start"), Call("render", "start"), SetStatus("STARTED")}
    ELSE IF Goal(x) = "PAUSED"
      THEN {Call("render", "pause"), Call("dec", "pause"), SetStatus("PAUSED")}
    ELSE {Call("render", "stop"), Call("dec", "stop"), SetStatus("STOPPED"),
          Call("render", "quit"), Join("render"), Call("dec", "quit"), Join("dec")}

\* A caller waits in the first step of a script only, and the end of the stream
\* is a script of its own.
ScriptOrder(t) ==
    {p \in StepsOf(t) \X StepsOf(t) :
       /\ Place(t, p[1]) < Place(t, p[2])
       /\ p[2].op # "wait"
       /\ t = "demux" => p[1].id # "eos" /\ p[2].id # "eos"}

Has(t, x) == x \in Elements(script[t])
Calls(t, c, id) == Has(t, Call(c, id))
Waits(t, c, id) == Has(t, WaitFor(c, id))
Resets == \E c \in Comp, id \in ResetIds : Calls("demux", c, id) \/ Waits("demux", c, id)

Complete(t) ==
    \A x \in Elements(script[t]) : \A y \in ScriptWith(t, x) :
      Place(t, x) < Place(t, y) => Has(t, y)

CallerInv ==
    /\ script \in [Caller -> Seq(DemuxSteps \union PlayerSteps)]
    /\ \A t \in Caller : /\ script[t] \in Seq(StepsOf(t))
                         /\ Pairs(ScriptOrder(t), script[t])
                         /\ Complete(t)
    /\ eStatus \in Statuses
    /\ demux \in {"started", "stopped", "complete"}
    /\ \A x, y \in Elements(script["xplayer"]) : Goal(x) = Goal(y)
    /\ \A x \in Elements(script["xplayer"]) :
         Has("xplayer", SetStatus(Goal(x))) \/ eStatus = Goal(x)
    /\ \A c \in Comp, id \in {"pause", "start"} :
         Calls("demux", c, id) \/ Waits("demux", c, id) => eStatus = "STARTED"
    /\ Resets => Idle("xplayer") \/ Head(script["xplayer"]) = SetDemux("stopped")
    /\ demux = "stopped" => Idle("demux")
    /\ \/ eStatus = "STOPPED"
       \/ Has("xplayer", SetDemux("started"))
       \/ Has("xplayer", Join("dec")) /\ ~ Has("xplayer", SetDemux("stopped"))
       => demux = "stopped"

-----------------------------------------------------------------------------
(* The threads: a command is posted, then worked on, then answered.         *)

Messages == Command \union {"continue"}

\* These steps are the first of a list, and a list holds one reply.
FirstOnly == {"post", "awaitEos", "doDecode", "decode", "picture", "reopen", "decPost"}
TodoOrder ==
    {p \in Steps \X Steps :
       /\ p[2].op \notin FirstOnly
       /\ p[1].op # "reply" \/ p[2].op # "reply"
       /\ p[2].op = "decContinue" => p[1].op = "reopen"}

\* No command is in a queue twice.
QueueOrder == {p \in Messages \X Messages : p[1] = p[2] => p[1] = "continue"}

TodoInv == /\ todo \in [Comp -> Seq(Steps)]
           /\ \A c \in Comp : Pairs(TodoOrder, todo[c])
QueueTypes == /\ mq \in [Comp -> Seq(Messages)]
              /\ \A c \in Comp : Pairs(QueueOrder, mq[c])
ReplyTypes == replySem \in [Comp -> [Command -> {0, 1}]]
FlagTypes == /\ status \in [Comp -> Statuses]
             /\ firstShown \in [Comp -> BOOLEAN]
             /\ bEosFlag \in [Comp -> BOOLEAN]
             /\ bCrashFlag \in BOOLEAN
             /\ bResolutionChange \in BOOLEAN
ThreadInv == TodoInv /\ QueueTypes /\ ReplyTypes /\ FlagTypes

Due(c, name) == Step(name) \in Elements(todo[c])
Posted(c, id) == id \in Elements(mq[c])
Served(c, id) == ReplyTo(id) \in Elements(todo[c])
Answered(c, id) == replySem[c][id] = 1

Waiter(c, id) == \/ \E t \in Caller : Waits(t, c, id)
                 \/ c = "render" /\ id = "eos" /\ Due("dec", "awaitEos")

Protocol ==
    \A c \in Comp, id \in Command :
      /\ Posted(c, id) \/ Served(c, id) \/ Answered(c, id) => Waiter(c, id)
      /\ Posted(c, id) => ~ Served(c, id) /\ ~ Answered(c, id)
      /\ Served(c, id) => ~ Answered(c, id)

-----------------------------------------------------------------------------
(* What the threads and the callers know of each other.                     *)

\* A component has not yet taken the command of the caller.
Ahead(t, c, id) == Calls(t, c, id) \/ (Waits(t, c, id) /\ Posted(c, id))
AheadOf(c, id) == \E t \in Caller : Ahead(t, c, id)

\* The status of a component is what the commands before it expect, and with
\* none of them left the player's status or the one that it will have.
StatusOf(c) ==
    /\ AheadOf(c, "pause") => status[c] = "STARTED"
    /\ AheadOf(c, "start") /\ ~ AheadOf(c, "pause") =>
         status[c] = IF eStatus = "STOPPED" THEN "STOPPED" ELSE "PAUSED"
    /\ AheadOf(c, "stop") => status[c] # "STOPPED"
    /\ ~ AheadOf(c, "start") /\ ~ AheadOf(c, "pause") /\ ~ AheadOf(c, "stop") =>
         /\ \A value \in Statuses : Has("xplayer", SetStatus(value)) => status[c] = value
         /\ (\A value \in Statuses : ~ Has("xplayer", SetStatus(value)))
              => status[c] = eStatus
StatusInv == \A c \in Comp : StatusOf(c)

\* A thread ends when the player is stopped and joins it, the decode thread last.
ExitInv ==
    Due("dec", "exited") \/ Due("render", "exited") =>
      /\ eStatus = "STOPPED"
      /\ \/ Idle("xplayer") /\ At("dec", "exited")
         \/ Has("xplayer", Join("dec")) /\ ~ Has("xplayer", SetStatus("STOPPED"))

Ends == Due("dec", "notifyEos") \/ Due("dec", "awaitEos")

\* The end of the stream goes from the decoder to the render component, and a
\* reset or a start takes it from the decoder first.
EosInv ==
    /\ Ends => bEosFlag["dec"] /\ status["dec"] # "STOPPED"
    /\ Served("render", "eos") \/ Answered("render", "eos") => bEosFlag["render"]
    /\ Ahead("demux", "render", "reset") /\ ~ Ahead("demux", "dec", "reset")
         => ~ bEosFlag["dec"]
    /\ Ahead("xplayer", "render", "start") /\ ~ Ahead("xplayer", "dec", "start")
         /\ status["render"] = "STOPPED" => ~ bEosFlag["dec"]
    /\ bEosFlag["render"] =>
         \/ bEosFlag["dec"]
         \/ Ahead("demux", "render", "reset")
         \/ Ahead("xplayer", "render", "start") /\ status["render"] = "STOPPED"

\* What keeps the loops of the components going.
DecodeGoesOn ==
    \/ mq["dec"] # << >>
    \/ \E name \in {"continue", "post", "doDecode", "decode"} : Due("dec", name)
    \/ Due("render", "decContinue") \/ Due("render", "decPost")
    \/ Ends
    \/ bEosFlag["dec"] /\ bEosFlag["render"]
RenderGoesOn ==
    \/ mq["render"] # << >>
    \/ \E name \in {"continue", "post", "picture"} : Due("render", name)

DecodeLoop ==
    /\ Due("dec", "decode") => Works("dec")
    /\ Works("dec") /\ ~ bCrashFlag /\ ~ bResolutionChange => DecodeGoesOn
RenderLoop ==
    /\ Due("render", "reopen") => Due("render", "decContinue")
    /\ Due("render", "decContinue") \/ Due("render", "decPost") => Due("render", "continue")
    /\ Works("render") /\ ~ bEosFlag["render"] => RenderGoesOn
LoopInv == DecodeLoop /\ RenderLoop

-----------------------------------------------------------------------------
\* The messages in a queue, and the commands among them.
One(condition) == IF condition THEN 1 ELSE 0
Posting(t, c) == One(\E id \in Command : Waits(t, c, id) /\ Posted(c, id))
Callers(c) == Posting("xplayer", c) + Posting("demux", c)

DecodeQueue ==
    Len(mq["dec"]) + One(Due("dec", "post")) + One(Due("render", "decPost"))
      <= 2 + Callers("dec")
RenderQueue ==
    Len(mq["render"]) + One(Due("render", "post"))
      <= 1 + Callers("render") + One(Posted("render", "eos"))
QueueInv == DecodeQueue /\ RenderQueue

-----------------------------------------------------------------------------
(* The scripts of the callers.                                              *)

\* The steps of the player's scripts are those that the handlers put there, ...
LEMMA PlayerForms ==
    ASSUME NEW x \in PlayerSteps
    PROVE  \/ \E c \in Comp, id \in PlayerIds : x = Call(c, id) \/ x = WaitFor(c, id)
           \/ \E c \in Comp : x = Join(c)
           \/ \E value \in Statuses : x = SetStatus(value)
           \/ x = SetDemux("started") \/ x = SetDemux("stopped")
  BY DEF PlayerSteps, Call, WaitFor, Join, SetStatus, SetDemux

\* ... and so are those of the demux thread.
LEMMA DemuxForms ==
    ASSUME NEW x \in DemuxSteps
    PROVE  \E c \in Comp, id \in Command :
             /\ x = Call(c, id) \/ x = WaitFor(c, id)
             /\ id \in ResetIds \/ (c = "dec" /\ id = "eos")
  BY DEF DemuxSteps, Call, WaitFor, Comp, Command, ResetIds

\* The places of the steps, and the status that they lead to.
LEMMA CallPlaces ==
    \A c \in Comp, id \in Command :
      /\ Place("xplayer", Call(c, id)) = PlayerPlace(c, id)
      /\ Place("xplayer", WaitFor(c, id)) = PlayerPlace(c, id)
      /\ Place("demux", Call(c, id)) = DemuxPlace(c, id)
      /\ Place("demux", WaitFor(c, id)) = DemuxPlace(c, id)
      /\ Goal(Call(c, id)) = IF id = "start" THEN "STARTED"
                             ELSE IF id = "pause" THEN "PAUSED" ELSE "STOPPED"
      /\ Goal(WaitFor(c, id)) = Goal(Call(c, id))
      /\ Call(c, id).op = "call" /\ WaitFor(c, id).op = "wait"
      /\ Call(c, id).comp = c /\ Call(c, id).id = id
      /\ WaitFor(c, id).comp = c /\ WaitFor(c, id).id = id
  BY DEF Place, Goal, Call, WaitFor

\* The places of the steps that are not commands.
LEMMA OtherPlaces ==
    /\ \A c \in Comp : /\ Place("xplayer", Join(c)) = IF c = "render" THEN 5 ELSE 7
                       /\ Goal(Join(c)) = "STOPPED" /\ Join(c).op = "join"
                       /\ Join(c).comp = c
    /\ \A value \in Statuses : /\ Place("xplayer", SetStatus(value)) = 3
                               /\ Goal(SetStatus(value)) = value
                               /\ SetStatus(value).op = "status"
                               /\ SetStatus(value).value = value
    /\ Place("xplayer", SetDemux("started")) = 4 /\ Goal(SetDemux("started")) = "STARTED"
    /\ Place("xplayer", SetDemux("stopped")) = 0 /\ Goal(SetDemux("stopped")) = "STOPPED"
    /\ SetDemux("started").op = "demux" /\ SetDemux("stopped").op = "demux"
    /\ SetDemux("started").value = "started" /\ SetDemux("stopped").value = "stopped"
  BY DEF Place, Goal, Join, SetStatus, SetDemux

\* Every step of a script has a place.
LEMMA PlaceType == \A t \in Caller : \A x \in StepsOf(t) : Place(t, x) \in Nat
<1>1. \A x \in PlayerSteps : Place("xplayer", x) \in Nat
  BY PlayerForms, CallPlaces, OtherPlaces
     DEF PlayerPlace, PlayerIds, Command
<1>2. \A x \in DemuxSteps : Place("demux", x) \in Nat
  BY DemuxForms, CallPlaces DEF DemuxPlace
<1> QED BY <1>1, <1>2 DEF StepsOf, Caller

\* The steps that are still to come are steps of the caller.
LEMMA ScriptSteps ==
    \A t \in Caller : \A x \in StepsOf(t) : ScriptWith(t, x) \subseteq StepsOf(t)
<1>1. \A x : ScriptWith("demux", x) \subseteq DemuxSteps
  BY DEF ScriptWith, DemuxSteps, Call, ResetIds
<1>2. \A x : ScriptWith("xplayer", x) \subseteq PlayerSteps
  BY DEF ScriptWith, PlayerSteps, Call, Join, SetStatus, PlayerIds, Statuses, Comp
<1> QED BY <1>1, <1>2 DEF StepsOf, Caller

\* When a step may stand before another one.
LEMMA OrderOf ==
    ASSUME NEW t \in Caller, NEW x \in StepsOf(t), NEW y \in StepsOf(t)
    PROVE  << x, y >> \in ScriptOrder(t) <=>
             /\ Place(t, x) < Place(t, y)
             /\ y.op # "wait"
             /\ t = "demux" => x.id # "eos" /\ y.id # "eos"
  BY DEF ScriptOrder

-----------------------------------------------------------------------------
(* A caller takes a step.                                                   *)

\* The first step of a script is before the others, and only it may wait.
LEMMA FirstOfScript ==
    ASSUME CallerInv, NEW t \in Caller, script[t] # << >>
    PROVE  /\ Head(script[t]) \in StepsOf(t) /\ Has(t, Head(script[t]))
           /\ Tail(script[t]) \in Seq(StepsOf(t))
           /\ Pairs(ScriptOrder(t), Tail(script[t]))
           /\ Elements(Tail(script[t])) = Elements(script[t]) \ {Head(script[t])}
           /\ Elements(script[t]) \subseteq StepsOf(t)
           /\ \A y \in Elements(script[t]) \ {Head(script[t])} :
                /\ Place(t, Head(script[t])) < Place(t, y)
                /\ y.op # "wait"
                /\ t = "demux" => Head(script[t]).id # "eos" /\ y.id # "eos"
<1> DEFINE s == script[t]
           h == Head(s)
<1>1. s \in Seq(StepsOf(t)) /\ s # << >> /\ Pairs(ScriptOrder(t), s)
  BY DEF CallerInv
<1> HIDE DEF s
<1>2. /\ h \in StepsOf(t) /\ Tail(s) \in Seq(StepsOf(t)) /\ Pairs(ScriptOrder(t), Tail(s))
      /\ Elements(s) = {h} \union Elements(Tail(s))
      /\ \A y \in Elements(Tail(s)) : << h, y >> \in ScriptOrder(t)
  BY <1>1, Rest
<1>3. Elements(Tail(s)) \subseteq StepsOf(t)
  BY <1>2 DEF Elements
<1> HIDE DEF h
<1>4. \A y \in Elements(Tail(s)) :
         /\ Place(t, h) < Place(t, y)
         /\ y.op # "wait"
         /\ t = "demux" => h.id # "eos" /\ y.id # "eos"
  BY <1>2, <1>3, OrderOf
<1>5. Place(t, h) \in Nat
  BY <1>2, PlaceType
<1>6. h \notin Elements(Tail(s))
  BY <1>4, <1>5
<1> QED BY <1>2, <1>3, <1>4, <1>6 DEF s, h, Has

\* A step that is done leaves the rest of the script.
LEMMA DoneStep ==
    ASSUME CallerInv, NEW t \in Caller, script[t] # << >>, Done(t)
    PROVE  /\ Elements(script'[t]) = Elements(script[t]) \ {Head(script[t])}
           /\ script'[t] \in Seq(StepsOf(t)) /\ Pairs(ScriptOrder(t), script'[t])
           /\ Complete(t)'
           /\ script'[t] = Tail(script[t])
           /\ \A u \in Caller : u # t => script'[u] = script[u]
<1> DEFINE h == Head(script[t])
<1>1. script'[t] = Tail(script[t]) /\ \A u \in Caller : u # t => script'[u] = script[u]
  BY DEF Done, CallerInv
<1>2. /\ Elements(script'[t]) = Elements(script[t]) \ {h}
      /\ script'[t] \in Seq(StepsOf(t)) /\ Pairs(ScriptOrder(t), script'[t])
      /\ h \in StepsOf(t) /\ Elements(script[t]) \subseteq StepsOf(t)
      /\ \A y \in Elements(script'[t]) : Place(t, h) < Place(t, y)
  BY <1>1, FirstOfScript
<1> HIDE DEF h
<1>3. ASSUME NEW x \in Elements(script'[t]), NEW y \in ScriptWith(t, x),
             Place(t, x) < Place(t, y)
      PROVE  y \in Elements(script'[t])
  <2>1. y \in Elements(script[t])
    BY <1>2, <1>3 DEF CallerInv, Complete, Has
  <2>2. Place(t, h) \in Nat /\ Place(t, x) \in Nat /\ Place(t, y) \in Nat
    BY <1>2, <2>1, PlaceType
  <2>3. y # h
    BY <1>2, <1>3, <2>2
  <2> QED BY <1>2, <2>1, <2>3
<1> QED BY <1>1, <1>2, <1>3 DEF Complete, Has, h

\* A call becomes a wait.
LEMMA CallStep ==
    ASSUME CallerInv, NEW t \in Caller, PostCommand(t)
    PROVE  \E c \in Comp, id \in Command :
             /\ Head(script[t]) = Call(c, id) /\ Head(script'[t]) = WaitFor(c, id)
             /\ script[t] # << >> /\ script'[t] # << >>
             /\ Call(c, id) \in StepsOf(t) /\ WaitFor(c, id) \in StepsOf(t)
             /\ Elements(script'[t]) = (Elements(script[t]) \ {Call(c, id)})
                                       \union {WaitFor(c, id)}
             /\ mq' = [mq EXCEPT ![c] = Append(@, id)]
             /\ script'[t] \in Seq(StepsOf(t)) /\ Pairs(ScriptOrder(t), script'[t])
             /\ Complete(t)'
             /\ \A u \in Caller : u # t => script'[u] = script[u]
<1> DEFINE h == Head(script[t])
<1>1. script[t] # << >> /\ h.op = "call"
  BY DEF PostCommand, Does
<1>2. h \in StepsOf(t)
  BY <1>1, FirstOfScript
<1>3. PICK c \in Comp, id \in Command :
         h = Call(c, id) /\ WaitFor(c, id) \in StepsOf(t)
  <2>1. CASE t = "xplayer"
    <3>1. h \in PlayerSteps
      BY <1>2, <2>1 DEF StepsOf
    <3>2. PICK c \in Comp, id \in PlayerIds : h = Call(c, id)
      BY <1>1, <3>1, PlayerForms DEF Call, WaitFor, Join, SetStatus, SetDemux
    <3>3. WaitFor(c, id) \in PlayerSteps /\ id \in Command
      BY DEF WaitFor, PlayerSteps, PlayerIds, Command
    <3> QED BY <2>1, <3>2, <3>3 DEF StepsOf
  <2>2. CASE t = "demux"
    <3>1. h \in DemuxSteps
      BY <1>2, <2>2 DEF StepsOf
    <3>2. PICK c \in Comp, id \in Command :
             h = Call(c, id) /\ (id \in ResetIds \/ (c = "dec" /\ id = "eos"))
      BY <1>1, <3>1, DemuxForms DEF Call, WaitFor
    <3>3. WaitFor(c, id) \in DemuxSteps
      BY <3>2 DEF WaitFor, DemuxSteps
    <3> QED BY <2>2, <3>2, <3>3 DEF StepsOf
  <2> QED BY <2>1, <2>2 DEF Caller
<1> DEFINE w == WaitFor(c, id)
           r == Tail(script[t])
<1>4. /\ script' = [script EXCEPT ![t] = << w >> \o r]
      /\ mq' = [mq EXCEPT ![c] = Append(@, id)]
  <2>1. [script[t][1] EXCEPT !.op = "wait"] = w
    <3>1. script[t][1] = h
      BY <1>1, <1>2 DEF CallerInv
    <3> QED BY <1>3, <3>1 DEF Call, WaitFor
  <2>2. h.comp = c /\ h.id = id
    BY <1>3 DEF Call
  <2> QED BY <2>1, <2>2 DEF PostCommand, Post
<1>5. /\ r \in Seq(StepsOf(t)) /\ Pairs(ScriptOrder(t), r)
      /\ Elements(r) = Elements(script[t]) \ {h}
      /\ Elements(script[t]) \subseteq StepsOf(t)
      /\ \A y \in Elements(r) :
           /\ Place(t, h) < Place(t, y)
           /\ y.op # "wait"
           /\ t = "demux" => h.id # "eos" /\ y.id # "eos"
  BY <1>1, FirstOfScript
<1>6. Place(t, w) = Place(t, h) /\ w.id = h.id /\ ScriptWith(t, w) = ScriptWith(t, h)
  <2>1. w.id = h.id /\ Goal(w) = Goal(h) /\ Place(t, w) = Place(t, h)
    BY <1>3, CallPlaces DEF Caller
  <2> QED BY <2>1 DEF ScriptWith
<1>7. w \in StepsOf(t)
  BY <1>3
<1>12. script'[t] = << w >> \o r /\ \A u \in Caller : u # t => script'[u] = script[u]
  BY <1>4 DEF CallerInv
<1> HIDE DEF w, r
<1>8. \A y \in Elements(r) : << w, y >> \in ScriptOrder(t)
  <2>1. Elements(r) \subseteq StepsOf(t)
    BY <1>5
  <2> QED BY <1>5, <1>6, <1>7, <2>1, OrderOf
<1>9. /\ << w >> \o r \in Seq(StepsOf(t)) /\ Pairs(ScriptOrder(t), << w >> \o r)
      /\ Elements(<< w >> \o r) = {w} \union Elements(r)
      /\ << w >> \o r # << >> /\ Head(<< w >> \o r) = w
  BY <1>5, <1>7, <1>8, PairsPrefixed
<1> HIDE DEF h
<1>10. ASSUME NEW x \in Elements(script'[t]), NEW y \in ScriptWith(t, x),
              Place(t, x) < Place(t, y)
       PROVE  y \in Elements(script'[t])
  <2>1. PICK z \in Elements(script[t]) :
           ScriptWith(t, x) = ScriptWith(t, z) /\ Place(t, x) = Place(t, z)
           /\ (z = h \/ Place(t, h) < Place(t, z))
    <3>1. h \in Elements(script[t])
      BY <1>1, FirstOfScript DEF h, Has
    <3> QED BY <1>5, <1>6, <1>9, <1>10, <1>12, <3>1
  <2>2. y \in Elements(script[t])
    BY <1>10, <2>1 DEF CallerInv, Complete, Has
  <2>3. Place(t, h) \in Nat /\ Place(t, z) \in Nat /\ Place(t, y) \in Nat
    BY <1>2, <1>5, <2>2, PlaceType
  <2>4. y # h
    BY <1>10, <2>1, <2>3
  <2> QED BY <1>5, <1>9, <1>12, <2>2, <2>4
<1>11. Complete(t)'
  BY <1>10 DEF Complete, Has
<1> QED BY <1>1, <1>2, <1>3, <1>4, <1>5, <1>7, <1>9, <1>11, <1>12 DEF h, w, r

-----------------------------------------------------------------------------
(* The callers keep their scripts in order.                                 *)

\* A step of another thread leaves the scripts in order.
LEMMA CallerRests == CallerInv /\ UNCHANGED playerVars => CallerInv'
  BY DEF CallerInv, playerVars, Complete, Has, Calls, Waits, Resets, Idle

\* What a caller has left of its script is as it was in order.
LEMMA ScriptsKept ==
    ASSUME CallerInv, NEW t \in Caller,
           script' \in [Caller -> Seq(DemuxSteps \union PlayerSteps)],
           script'[t] \in Seq(StepsOf(t)), Pairs(ScriptOrder(t), script'[t]), Complete(t)',
           \A u \in Caller : u # t => script'[u] = script[u]
    PROVE  \A u \in Caller : /\ script'[u] \in Seq(StepsOf(u))
                             /\ Pairs(ScriptOrder(u), script'[u])
                             /\ Complete(u)'
  BY DEF CallerInv, Complete, Has

\* A script is exchanged for another one.
LEMMA ScriptTypes ==
    ASSUME CallerInv, NEW t \in Caller, NEW new \in Seq(StepsOf(t)),
           script' = [script EXCEPT ![t] = new]
    PROVE  script' \in [Caller -> Seq(DemuxSteps \union PlayerSteps)]
<1>1. new \in Seq(DemuxSteps \union PlayerSteps)
  <2>1. StepsOf(t) \subseteq DemuxSteps \union PlayerSteps
    BY DEF StepsOf
  <2> QED BY <2>1
<1> QED BY <1>1 DEF CallerInv

\* When the xplayer thread is at a step other than stopping the demux thread,
\* the demux thread does not reset the player.
LEMMA NoReset ==
    ASSUME CallerInv, ~ Idle("xplayer"), Head(script["xplayer"]) # SetDemux("stopped")
    PROVE  ~ Resets
  BY DEF CallerInv

\* A command is posted: the caller waits for it now.
LEMMA PostKeepsScripts ==
    ASSUME CallerInv, NEW t \in Caller, PostCommand(t)
    PROVE  CallerInv'
<1>1. PICK c \in Comp, id \in Command :
             /\ Head(script[t]) = Call(c, id)
             /\ script[t] # << >> /\ script'[t] # << >>
             /\ Call(c, id) \in StepsOf(t) /\ WaitFor(c, id) \in StepsOf(t)
             /\ Elements(script'[t]) = (Elements(script[t]) \ {Call(c, id)})
                                       \union {WaitFor(c, id)}
             /\ script'[t] \in Seq(StepsOf(t)) /\ Pairs(ScriptOrder(t), script'[t])
             /\ Complete(t)'
             /\ \A u \in Caller : u # t => script'[u] = script[u]
  BY CallStep
<1>2. UNCHANGED << eStatus, demux >>
  BY DEF PostCommand
<1>3. script' \in [Caller -> Seq(DemuxSteps \union PlayerSteps)]
  <2>1. script' = [script EXCEPT ![t] = script'[t]]
    BY DEF PostCommand, CallerInv
  <2> QED BY <1>1, <2>1, ScriptTypes
<1>4. \A u \in Caller : /\ script'[u] \in Seq(StepsOf(u))
                        /\ Pairs(ScriptOrder(u), script'[u])
                        /\ Complete(u)'
  BY <1>1, <1>3, ScriptsKept
<1>5. Call(c, id) \in Elements(script[t])
  BY <1>1, FirstOfScript DEF Has
<1>6. ASSUME NEW u \in Caller, NEW x, x.op \notin {"call", "wait"}
      PROVE  Has(u, x)' <=> Has(u, x)
  BY <1>1, <1>6, CallPlaces DEF Has
<1>7. ASSUME NEW u \in Caller, NEW d \in Comp, NEW jd \in Command
      PROVE  Calls(u, d, jd)' \/ Waits(u, d, jd)' <=> Calls(u, d, jd) \/ Waits(u, d, jd)
  <2>1. /\ WaitFor(d, jd) = WaitFor(c, id) <=> d = c /\ jd = id
        /\ Call(d, jd) = Call(c, id) <=> d = c /\ jd = id
        /\ Call(d, jd) # WaitFor(c, id) /\ Call(c, id) # WaitFor(d, jd)
    BY CallPlaces
  <2> QED BY <1>1, <1>5, <2>1 DEF Calls, Waits, Has
<1>8. /\ \A x, y \in Elements(script'["xplayer"]) : Goal(x) = Goal(y)
      /\ \A x \in Elements(script'["xplayer"]) :
           Has("xplayer", SetStatus(Goal(x)))' \/ eStatus' = Goal(x)
  <2>1. \A x \in Elements(script'["xplayer"]) : \E y \in Elements(script["xplayer"]) :
           Goal(x) = Goal(y)
    BY <1>1, <1>5, CallPlaces DEF Caller
  <2>2. \A x \in Elements(script["xplayer"]) : SetStatus(Goal(x)).op = "status"
    BY DEF SetStatus
  <2>3. \A x \in Elements(script["xplayer"]) :
          Has("xplayer", SetStatus(Goal(x))) => Has("xplayer", SetStatus(Goal(x)))'
    BY <1>6, <2>2 DEF Caller
  <2> QED BY <1>2, <2>1, <2>3 DEF CallerInv
<1>9. \A d \in Comp, jd \in {"pause", "start"} :
         Calls("demux", d, jd)' \/ Waits("demux", d, jd)' => eStatus' = "STARTED"
  BY <1>2, <1>7 DEF CallerInv, Caller, Command
<1>10. Resets' <=> Resets
  BY <1>7 DEF Resets, Caller, Command, ResetIds
<1>11. Resets' => Idle("xplayer")' \/ Head(script'["xplayer"]) = SetDemux("stopped")
  <2>1. CASE t = "xplayer"
    <3>1. Head(script["xplayer"]) # SetDemux("stopped")
      BY <1>1, <2>1, CallPlaces, OtherPlaces
    <3> QED BY <1>1, <1>10, <2>1, <3>1, NoReset DEF Idle
  <2>2. CASE t = "demux"
    <3>1. script'["xplayer"] = script["xplayer"]
      BY <1>1, <2>2 DEF Caller
    <3> QED BY <1>10, <3>1 DEF CallerInv, Idle
  <2> QED BY <2>1, <2>2 DEF Caller
<1>12. demux' = "stopped" => Idle("demux")'
  BY <1>1, <1>2 DEF CallerInv, Idle, Caller
<1>13. \/ eStatus' = "STOPPED"
       \/ Has("xplayer", SetDemux("started"))'
       \/ Has("xplayer", Join("dec"))' /\ ~ Has("xplayer", SetDemux("stopped"))'
       => demux' = "stopped"
  <2>1. /\ Has("xplayer", SetDemux("started"))' <=> Has("xplayer", SetDemux("started"))
        /\ Has("xplayer", SetDemux("stopped"))' <=> Has("xplayer", SetDemux("stopped"))
        /\ Has("xplayer", Join("dec"))' <=> Has("xplayer", Join("dec"))
    BY <1>6, OtherPlaces DEF Caller, Comp
  <2> QED BY <1>2, <2>1 DEF CallerInv
<1> QED BY <1>2, <1>3, <1>4, <1>8, <1>9, <1>11, <1>12, <1>13 DEF CallerInv

\* A step that is done and changes neither the player's status nor the demux
\* thread's.
LEMMA DoneKeepsScripts ==
    ASSUME CallerInv, NEW t \in Caller, script[t] # << >>, Done(t),
           UNCHANGED << eStatus, demux >>, Head(script[t]).op \notin {"status", "demux"}
    PROVE  CallerInv'
<1> DEFINE h == Head(script[t])
<1>1. /\ Elements(script'[t]) = Elements(script[t]) \ {h}
      /\ script'[t] \in Seq(StepsOf(t)) /\ Pairs(ScriptOrder(t), script'[t])
      /\ Complete(t)'
      /\ \A u \in Caller : u # t => script'[u] = script[u]
  BY DoneStep
<1>3. script' \in [Caller -> Seq(DemuxSteps \union PlayerSteps)]
  <2>1. script' = [script EXCEPT ![t] = script'[t]]
    BY DEF Done, CallerInv
  <2> QED BY <1>1, <2>1, ScriptTypes
<1>4. \A u \in Caller : /\ script'[u] \in Seq(StepsOf(u))
                        /\ Pairs(ScriptOrder(u), script'[u])
                        /\ Complete(u)'
  BY <1>1, <1>3, ScriptsKept
<1>5. ASSUME NEW u \in Caller PROVE Elements(script'[u]) \subseteq Elements(script[u])
  BY <1>1
<1>6. ASSUME NEW u \in Caller, NEW x, x.op \in {"status", "demux"}
      PROVE  Has(u, x)' <=> Has(u, x)
  BY <1>1, <1>6 DEF Has
<1>7. ASSUME NEW u \in Caller, NEW d \in Comp, NEW jd \in Command
      PROVE  Calls(u, d, jd)' \/ Waits(u, d, jd)' => Calls(u, d, jd) \/ Waits(u, d, jd)
  BY <1>5 DEF Calls, Waits, Has
<1>8. /\ \A x, y \in Elements(script'["xplayer"]) : Goal(x) = Goal(y)
      /\ \A x \in Elements(script'["xplayer"]) :
           Has("xplayer", SetStatus(Goal(x)))' \/ eStatus' = Goal(x)
  <2>2. \A x \in Elements(script["xplayer"]) : SetStatus(Goal(x)).op = "status"
    BY DEF SetStatus
  <2>3. \A x \in Elements(script["xplayer"]) :
          Has("xplayer", SetStatus(Goal(x))) => Has("xplayer", SetStatus(Goal(x)))'
    BY <1>6, <2>2 DEF Caller
  <2>4. Elements(script'["xplayer"]) \subseteq Elements(script["xplayer"])
    BY <1>5 DEF Caller
  <2> QED BY <2>4, <2>3 DEF CallerInv
<1>9. \A d \in Comp, jd \in {"pause", "start"} :
         Calls("demux", d, jd)' \/ Waits("demux", d, jd)' => eStatus' = "STARTED"
  BY <1>7 DEF CallerInv, Caller, Command
<1>10. Resets' => Resets
  BY <1>7 DEF Resets, Caller, Command, ResetIds
<1>11. Resets' => Idle("xplayer")' \/ Head(script'["xplayer"]) = SetDemux("stopped")
  <2>1. CASE t = "xplayer"
    <3>1. Head(script["xplayer"]) # SetDemux("stopped")
      BY <2>1, OtherPlaces
    <3> QED BY <1>10, <2>1, <3>1, NoReset DEF Idle
  <2>2. CASE t = "demux"
    <3>1. script'["xplayer"] = script["xplayer"]
      BY <1>1, <2>2 DEF Caller
    <3> QED BY <1>10, <3>1 DEF CallerInv, Idle
  <2> QED BY <2>1, <2>2 DEF Caller
<1>12. demux' = "stopped" => Idle("demux")'
  BY <1>1 DEF CallerInv, Idle, Caller
<1>13. \/ eStatus' = "STOPPED"
       \/ Has("xplayer", SetDemux("started"))'
       \/ Has("xplayer", Join("dec"))' /\ ~ Has("xplayer", SetDemux("stopped"))'
       => demux' = "stopped"
  <2>1. /\ Has("xplayer", SetDemux("started"))' <=> Has("xplayer", SetDemux("started"))
        /\ Has("xplayer", SetDemux("stopped"))' <=> Has("xplayer", SetDemux("stopped"))
        /\ Has("xplayer", Join("dec"))' => Has("xplayer", Join("dec"))
    BY <1>5, <1>6, OtherPlaces DEF Caller, Comp, Has
  <2> QED BY <2>1 DEF CallerInv
<1> QED BY <1>3, <1>4, <1>8, <1>9, <1>11, <1>12, <1>13 DEF CallerInv

\* The player takes the status that its script leads to.
LEMMA StatusKeepsScripts ==
    ASSUME CallerInv, NEW t \in Caller, ChangeStatus(t)
    PROVE  /\ CallerInv'
           /\ t = "xplayer"
           /\ \E value \in Statuses : Head(script["xplayer"]) = SetStatus(value)
                                      /\ eStatus' = value
<1> DEFINE h == Head(script[t])
<1>1. script[t] # << >> /\ h.op = "status" /\ Done(t) /\ eStatus' = h.value
      /\ UNCHANGED demux
  BY DEF ChangeStatus, Does
<1>2. h \in StepsOf(t) /\ Has(t, h)
  BY <1>1, FirstOfScript
<1>3. t = "xplayer" /\ h \in PlayerSteps
  <2>1. \A x \in DemuxSteps : x.op # "status"
    BY DEF DemuxSteps
  <2> QED BY <1>1, <1>2, <2>1 DEF StepsOf, Caller
<1>4. PICK value \in Statuses : h = SetStatus(value)
  BY <1>1, <1>3, PlayerForms, CallPlaces, OtherPlaces DEF PlayerIds, Command
<1>5. eStatus' = value
  BY <1>1, <1>4, OtherPlaces
<1>6. /\ Elements(script'[t]) = Elements(script[t]) \ {h}
      /\ script'[t] \in Seq(StepsOf(t)) /\ Pairs(ScriptOrder(t), script'[t])
      /\ Complete(t)'
      /\ \A u \in Caller : u # t => script'[u] = script[u]
  BY <1>1, DoneStep
<1>7. script' \in [Caller -> Seq(DemuxSteps \union PlayerSteps)]
  <2>1. script' = [script EXCEPT ![t] = script'[t]]
    BY <1>1 DEF Done, CallerInv
  <2> QED BY <1>6, <2>1, ScriptTypes
<1>8. \A u \in Caller : /\ script'[u] \in Seq(StepsOf(u))
                        /\ Pairs(ScriptOrder(u), script'[u])
                        /\ Complete(u)'
  BY <1>6, <1>7, ScriptsKept
<1>9. ~ Resets /\ ~ Idle("xplayer")
  BY <1>1, <1>3, <1>4, OtherPlaces, NoReset DEF Idle
<1>10. \A x \in Elements(script["xplayer"]) : Goal(x) = value
  <2>1. Goal(h) = value
    BY <1>4, OtherPlaces
  <2> QED BY <1>2, <1>3, <2>1 DEF CallerInv, Has
<1>11. script'["demux"] = script["demux"]
  BY <1>3, <1>6 DEF Caller
<1>12. ~ Resets' /\ \A c \in Comp, id \in {"pause", "start"} :
         ~ Calls("demux", c, id)' /\ ~ Waits("demux", c, id)'
  <2>1. ASSUME NEW c \in Comp, NEW id
        PROVE /\ Calls("demux", c, id)' <=> Calls("demux", c, id)
              /\ Waits("demux", c, id)' <=> Waits("demux", c, id)
    BY <1>11 DEF Calls, Waits, Has
  <2> QED BY <1>9, <2>1 DEF Resets, ResetIds
<1>13. value = "STOPPED" => demux = "stopped"
  <2> SUFFICES ASSUME value = "STOPPED" PROVE demux = "stopped"
    OBVIOUS
  <2>1. Has("xplayer", Join("dec"))
    <3>1. Join("dec") \in ScriptWith("xplayer", h)
      BY <1>4, OtherPlaces DEF ScriptWith
    <3>2. Place("xplayer", h) < Place("xplayer", Join("dec"))
      BY <1>4, OtherPlaces DEF Comp
    <3> QED BY <1>2, <1>3, <3>1, <3>2 DEF CallerInv, Complete, Has
  <2>2. ~ Has("xplayer", SetDemux("stopped"))
    <3>1. /\ SetDemux("stopped") # h
          /\ ~ (Place("xplayer", h) < Place("xplayer", SetDemux("stopped")))
      BY <1>4, OtherPlaces
    <3> QED BY <1>1, <1>3, <3>1, FirstOfScript DEF Has
  <2> QED BY <2>1, <2>2 DEF CallerInv
<1>14. \/ eStatus' = "STOPPED"
       \/ Has("xplayer", SetDemux("started"))'
       \/ Has("xplayer", Join("dec"))' /\ ~ Has("xplayer", SetDemux("stopped"))'
       => demux' = "stopped"
  <2>1. /\ Has("xplayer", SetDemux("started"))' => Has("xplayer", SetDemux("started"))
        /\ Has("xplayer", SetDemux("stopped"))' <=> Has("xplayer", SetDemux("stopped"))
        /\ Has("xplayer", Join("dec"))' => Has("xplayer", Join("dec"))
    BY <1>3, <1>4, <1>6, OtherPlaces DEF Has
  <2> QED BY <1>1, <1>5, <1>13, <2>1 DEF CallerInv
<1>15. demux' = "stopped" => Idle("demux")'
  BY <1>1, <1>11 DEF CallerInv, Idle
<1>16. \A x \in Elements(script'["xplayer"]) : Goal(x) = value
  BY <1>3, <1>6, <1>10
<1>17. CallerInv'
  BY <1>1, <1>5, <1>7, <1>8, <1>12, <1>14, <1>15, <1>16 DEF CallerInv
<1> QED BY <1>3, <1>4, <1>5, <1>17

\* The player starts or stops the demux thread.
LEMMA DemuxKeepsScripts ==
    ASSUME CallerInv, ChangeDemux
    PROVE  CallerInv' /\ Idle("demux") /\ \E value \in {"started", "stopped"} :
             Head(script["xplayer"]) = SetDemux(value) /\ demux' = value
<1> DEFINE t == "xplayer"
           h == Head(script[t])
<1>1. script[t] # << >> /\ h.op = "demux" /\ Done(t) /\ demux' = h.value
      /\ UNCHANGED eStatus /\ Idle("demux")
  BY DEF ChangeDemux, Does, DemuxResponds
<1>2. h \in PlayerSteps /\ Has(t, h)
  BY <1>1, FirstOfScript DEF Caller, StepsOf
<1>4. PICK value \in {"started", "stopped"} : h = SetDemux(value)
  BY <1>1, <1>2, PlayerForms, CallPlaces, OtherPlaces DEF PlayerIds, Command
<1>5. demux' = value
  BY <1>1, <1>4, OtherPlaces
<1>6. /\ Elements(script'[t]) = Elements(script[t]) \ {h}
      /\ script'[t] \in Seq(StepsOf(t)) /\ Pairs(ScriptOrder(t), script'[t])
      /\ Complete(t)'
      /\ \A u \in Caller : u # t => script'[u] = script[u]
  BY <1>1, DoneStep DEF Caller
<1>7. script' \in [Caller -> Seq(DemuxSteps \union PlayerSteps)]
  <2>1. script' = [script EXCEPT ![t] = script'[t]]
    BY <1>1 DEF Done, CallerInv
  <2>2. t \in Caller
    BY DEF Caller
  <2> QED BY <1>6, <2>1, <2>2, ScriptTypes
<1>8. \A u \in Caller : /\ script'[u] \in Seq(StepsOf(u))
                        /\ Pairs(ScriptOrder(u), script'[u])
                        /\ Complete(u)'
  BY <1>6, <1>7, ScriptsKept DEF Caller
<1>9. script'["demux"] = script["demux"] /\ script'["demux"] = << >>
  BY <1>1, <1>6 DEF Caller, Idle
<1>10. \A c \in Comp, id \in Command : ~ Calls("demux", c, id)' /\ ~ Waits("demux", c, id)'
  BY <1>9 DEF Calls, Waits, Has, Elements
<1>11. ~ Resets' /\ Idle("demux")'
  BY <1>9, <1>10 DEF Resets, ResetIds, Command, Idle
<1>12. /\ \A x, y \in Elements(script'[t]) : Goal(x) = Goal(y)
       /\ \A x \in Elements(script'[t]) :
           Has(t, SetStatus(Goal(x)))' \/ eStatus' = Goal(x)
  <2>1. \A x \in Elements(script[t]) : SetStatus(Goal(x)) # h
    BY <1>4 DEF SetStatus, SetDemux
  <2> QED BY <1>1, <1>6, <2>1 DEF CallerInv, Has
<1>13. \/ eStatus' = "STOPPED"
       \/ Has("xplayer", SetDemux("started"))'
       \/ Has("xplayer", Join("dec"))' /\ ~ Has("xplayer", SetDemux("stopped"))'
       => demux' = "stopped"
  <2>1. CASE value = "stopped"
    BY <1>5, <2>1
  <2>2. CASE value = "started"
    <3>1. Goal(h) = "STARTED" /\ Place(t, h) = 4
      BY <1>4, <2>2, OtherPlaces
    <3>2. ~ Has(t, SetStatus("STARTED"))
      <4>1. SetStatus("STARTED") # h /\ Place(t, SetStatus("STARTED")) = 3
        BY <1>4, OtherPlaces DEF Statuses
      <4>2. ~ (4 < 3)
        OBVIOUS
      <4> QED BY <1>1, <3>1, <4>1, <4>2, FirstOfScript DEF Has, Caller
    <3>3. eStatus = "STARTED"
      BY <1>2, <3>1, <3>2 DEF CallerInv, Has
    <3>4. ~ Has(t, SetDemux("started"))'
      BY <1>4, <1>6, <2>2 DEF Has
    <3>5. ~ Has(t, Join("dec"))'
      <4>1. Goal(Join("dec")) = "STOPPED"
        BY OtherPlaces DEF Comp
      <4>2. Join("dec") \notin Elements(script[t])
        BY <1>2, <3>1, <4>1 DEF CallerInv, Has
      <4> QED BY <1>6, <4>2 DEF Has
    <3> QED BY <1>1, <3>3, <3>4, <3>5
  <2> QED BY <2>1, <2>2
<1>14. CallerInv'
  <2>1. demux' \in {"started", "stopped", "complete"} /\ eStatus' \in Statuses
    BY <1>1, <1>5 DEF CallerInv
  <2>2. \A c \in Comp, id \in {"pause", "start"} :
         Calls("demux", c, id)' \/ Waits("demux", c, id)' => eStatus' = "STARTED"
    BY <1>10 DEF Command
  <2> QED BY <1>7, <1>8, <1>11, <1>12, <1>13, <2>1, <2>2 DEF CallerInv
<1> QED BY <1>1, <1>4, <1>5, <1>14

-----------------------------------------------------------------------------
(* The player begins a command.                                             *)

\* The demux thread resets the player when it is not idle and does not tell the end.
LEMMA ResetsResetting == CallerInv => (Resets <=> Resetting)
<1> SUFFICES ASSUME CallerInv PROVE Resets <=> Resetting
  OBVIOUS
<1> DEFINE h == Head(script["demux"])
<1>1. CASE script["demux"] = << >>
  <2>1. ~ Resets
    BY <1>1 DEF Resets, Calls, Waits, Has, Elements
  <2> QED BY <1>1, <2>1 DEF Resetting, Idle
<1>2. CASE script["demux"] # << >>
  <2>1. /\ h \in DemuxSteps /\ h \in Elements(script["demux"])
        /\ \A y \in Elements(script["demux"]) \ {h} : h.id # "eos" /\ y.id # "eos"
    BY <1>2, FirstOfScript DEF Caller, StepsOf, Has
  <2>2. h.op \in {"call", "wait"}
    BY <2>1 DEF DemuxSteps
  <2>3. CASE h.id = "eos"
    <3>1. \A y \in Elements(script["demux"]) : y.id = "eos"
      BY <2>1, <2>3
    <3>2. ~ Resets
      BY <3>1, CallPlaces DEF Resets, Calls, Waits, Has, ResetIds, Command
    <3> QED BY <1>2, <2>2, <2>3, <3>2 DEF Resetting, TellsEos
  <2>4. CASE h.id # "eos"
    <3>1. PICK c \in Comp, id \in ResetIds : h = Call(c, id) \/ h = WaitFor(c, id)
      BY <2>1, <2>4, DemuxForms, CallPlaces
    <3>2. Resets
      BY <2>1, <3>1 DEF Resets, Calls, Waits, Has
    <3> QED BY <1>2, <2>4, <3>2 DEF Resetting, TellsEos, Idle
  <2> QED BY <2>3, <2>4
<1> QED BY <1>1, <1>2

\* The steps of PlayerStart, PlayerPause, PlayerStop, PlayerReset and PlayerSetEos
\* are steps of their callers.
LEMMA PlayerStepTypes ==
    /\ \A c \in Comp, id \in PlayerIds : Call(c, id) \in StepsOf("xplayer")
    /\ \A c \in Comp : Join(c) \in StepsOf("xplayer")
    /\ \A value \in Statuses : SetStatus(value) \in StepsOf("xplayer")
    /\ \A value \in {"started", "stopped"} : SetDemux(value) \in StepsOf("xplayer")
    /\ \A c \in Comp, id \in ResetIds : Call(c, id) \in StepsOf("demux")
    /\ Call("dec", "eos") \in StepsOf("demux")
  BY DEF Call, Join, SetStatus, SetDemux, StepsOf, PlayerSteps, DemuxSteps

\* The xplayer thread has a script before it that is complete.
LEMMA NewPlayerScript ==
    ASSUME CallerInv, Idle("xplayer"), NEW new \in Seq(StepsOf("xplayer")), new # << >>,
           Issue("xplayer", new), UNCHANGED demux,
           Pairs(ScriptOrder("xplayer"), new), NEW goal \in Statuses,
           \A x \in Elements(new) : Goal(x) = goal,
           SetStatus(goal) \in Elements(new),
           \A x : Goal(x) = goal => ScriptWith("xplayer", x) \subseteq Elements(new),
           SetDemux("started") \in Elements(new) => demux = "stopped",
           Join("dec") \in Elements(new) => SetDemux("stopped") \in Elements(new),
           ~ Resetting \/ Head(new) = SetDemux("stopped")
    PROVE  CallerInv'
<1>1. /\ script' = [script EXCEPT !["xplayer"] = new] /\ "xplayer" \in Caller
      /\ UNCHANGED << eStatus, demux >>
  BY DEF Issue, Caller
<1>2. script' \in [Caller -> Seq(DemuxSteps \union PlayerSteps)]
  BY <1>1, ScriptTypes
<1>3. script'["xplayer"] = new /\ script'["demux"] = script["demux"]
  BY <1>1 DEF CallerInv, Caller
<1>4. Complete("xplayer")'
  BY <1>3 DEF Complete, Has
<1>5. \A u \in Caller : /\ script'[u] \in Seq(StepsOf(u))
                        /\ Pairs(ScriptOrder(u), script'[u])
                        /\ Complete(u)'
  BY <1>2, <1>3, <1>4, ScriptsKept DEF Caller
<1>6. ASSUME NEW c \in Comp, NEW id
      PROVE /\ Calls("demux", c, id)' <=> Calls("demux", c, id)
            /\ Waits("demux", c, id)' <=> Waits("demux", c, id)
  BY <1>3 DEF Calls, Waits, Has
<1>7. Resets' <=> Resets
  BY <1>6 DEF Resets
<1>8. Idle("demux")' <=> Idle("demux")
  BY <1>3 DEF Idle
<1>9. /\ \A x, y \in Elements(script'["xplayer"]) : Goal(x) = Goal(y)
      /\ \A x \in Elements(script'["xplayer"]) :
           Has("xplayer", SetStatus(Goal(x)))' \/ eStatus' = Goal(x)
  BY <1>3 DEF Has
<1>10. Resets' => Idle("xplayer")' \/ Head(script'["xplayer"]) = SetDemux("stopped")
  BY <1>3, <1>7, ResetsResetting
<1>11. \/ eStatus' = "STOPPED"
       \/ Has("xplayer", SetDemux("started"))'
       \/ Has("xplayer", Join("dec"))' /\ ~ Has("xplayer", SetDemux("stopped"))'
       => demux' = "stopped"
  BY <1>1, <1>3 DEF CallerInv, Has
<1>12. \A d \in Comp, jd \in {"pause", "start"} :
         Calls("demux", d, jd)' \/ Waits("demux", d, jd)' => eStatus' = "STARTED"
  BY <1>1, <1>6 DEF CallerInv
<1> QED BY <1>1, <1>2, <1>5, <1>8, <1>9, <1>10, <1>11, <1>12 DEF CallerInv

\* The scripts of PlayerStart, with the demux thread started in the end or not, ...
LEMMA StartList ==
    LET a == Call("dec", "start")
        b == Call("render", "start")
        c == SetStatus("STARTED")
        d == SetDemux("started")
    IN  /\ StartSteps \in Seq(StepsOf("xplayer")) /\ StartSteps # << >>
        /\ Elements(StartSteps) = {a, b, c, d}
        /\ Pairs(ScriptOrder("xplayer"), StartSteps)
        /\ SubSeq(StartSteps, 1, 3) \in Seq(StepsOf("xplayer"))
        /\ SubSeq(StartSteps, 1, 3) # << >>
        /\ Elements(SubSeq(StartSteps, 1, 3)) = {a, b, c}
        /\ Pairs(ScriptOrder("xplayer"), SubSeq(StartSteps, 1, 3))
<1> DEFINE S == StepsOf("xplayer")
           R == ScriptOrder("xplayer")
           a == Call("dec", "start")
           b == Call("render", "start")
           c == SetStatus("STARTED")
           d == SetDemux("started")
           four == << a, b, c, d >>
           three == << a, b, c >>
<1>1. a \in S /\ b \in S /\ c \in S /\ d \in S
  BY PlayerStepTypes DEF Comp, PlayerIds, Statuses
<1>2. /\ Place("xplayer", a) = 1 /\ Place("xplayer", b) = 2 /\ Place("xplayer", c) = 3
      /\ Place("xplayer", d) = 4 /\ b.op # "wait" /\ c.op # "wait" /\ d.op # "wait"
  BY CallPlaces, OtherPlaces DEF Comp, Command, Statuses, PlayerPlace
<1>3. StartSteps = four
  BY DEF StartSteps
<1> HIDE DEF S, a, b, c, d
<1>4. SubSeq(four, 1, 3) = three
  <2> DEFINE u == SubSeq(four, 1, 3)
  <2>1. four \in Seq(S) /\ Len(four) = 4 /\ four[1] = a /\ four[2] = b /\ four[3] = c
    BY <1>1
  <2>2. three \in Seq(S) /\ Len(three) = 3 /\ three[1] = a /\ three[2] = b /\ three[3] = c
    BY <1>1
  <2> HIDE DEF four, three
  <2>3. u \in Seq(S) /\ Len(u) = 3 /\ u[1] = four[1] /\ u[2] = four[2] /\ u[3] = four[3]
    BY <2>1
  <2> HIDE DEF u
  <2>4. u = three
    BY <2>1, <2>2, <2>3
  <2> QED BY <2>4 DEF u
<1>5. /\ << a, b >> \in R /\ << a, c >> \in R /\ << a, d >> \in R
      /\ << b, c >> \in R /\ << b, d >> \in R /\ << c, d >> \in R
  BY <1>1, <1>2, OrderOf DEF S, Caller
<1> HIDE DEF R
<1>6. four \in Seq(S) /\ four # << >> /\ three \in Seq(S) /\ three # << >>
  BY <1>1
<1>7. Elements(four) = {a, b, c, d}
  BY DEF Elements
<1>8. Elements(three) = {a, b, c}
  BY DEF Elements
<1>9. Pairs(R, four)
  BY <1>5, PairsShort, Zenon
<1>10. Pairs(R, three)
  BY <1>5, PairsShort, Zenon
<1> HIDE DEF four, three
<1> QED BY <1>3, <1>4, <1>6, <1>7, <1>8, <1>9, <1>10 DEF S, R, a, b, c, d

\* ... that of PlayerPause ...
LEMMA PauseList ==
    LET a == Call("render", "pause")
        b == Call("dec", "pause")
        c == SetStatus("PAUSED")
    IN  /\ << a, b, c >> \in Seq(StepsOf("xplayer")) /\ << a, b, c >> # << >>
        /\ Elements(<< a, b, c >>) = {a, b, c}
        /\ Pairs(ScriptOrder("xplayer"), << a, b, c >>)
<1> DEFINE S == StepsOf("xplayer")
           R == ScriptOrder("xplayer")
           a == Call("render", "pause")
           b == Call("dec", "pause")
           c == SetStatus("PAUSED")
           three == << a, b, c >>
<1>1. a \in S /\ b \in S /\ c \in S
  BY PlayerStepTypes DEF Comp, PlayerIds, Statuses
<1>2. /\ Place("xplayer", a) = 1 /\ Place("xplayer", b) = 2 /\ Place("xplayer", c) = 3
      /\ b.op # "wait" /\ c.op # "wait"
  BY CallPlaces, OtherPlaces DEF Comp, Command, Statuses, PlayerPlace
<1> HIDE DEF S, a, b, c
<1>5. << a, b >> \in R /\ << a, c >> \in R /\ << b, c >> \in R
  BY <1>1, <1>2, OrderOf DEF S, Caller
<1> HIDE DEF R
<1>6. three \in Seq(S) /\ three # << >>
  BY <1>1
<1>8. Elements(three) = {a, b, c}
  BY DEF Elements
<1>10. Pairs(R, three)
  BY <1>5, PairsShort, Zenon
<1> HIDE DEF three
<1> QED BY <1>6, <1>8, <1>10 DEF S, R, a, b, c, three

StopList == << SetDemux("stopped") >> \o StopSteps
            \o << Call("render", "quit"), Join("render"), Call("dec", "quit"), Join("dec") >>

\* ... and that of PlayerStop have these elements and are in order.
LEMMA StopListIs ==
    /\ StopList \in Seq(StepsOf("xplayer")) /\ StopList # << >>
    /\ Head(StopList) = SetDemux("stopped")
    /\ Elements(StopList) =
         {SetDemux("stopped"), Call("render", "stop"), Call("dec", "stop"),
          SetStatus("STOPPED"), Call("render", "quit"), Join("render"),
          Call("dec", "quit"), Join("dec")}
    /\ Pairs(ScriptOrder("xplayer"), StopList)
<1> DEFINE S == StepsOf("xplayer")
           R == ScriptOrder("xplayer")
           z == SetDemux("stopped")
           a == Call("render", "stop")
           b == Call("dec", "stop")
           c == SetStatus("STOPPED")
           d == Call("render", "quit")
           e == Join("render")
           f == Call("dec", "quit")
           g == Join("dec")
           three == << a, b, c >>
           four == << d, e, f, g >>
           first == << z >> \o three
<1>1. a \in S /\ b \in S /\ c \in S /\ d \in S /\ e \in S /\ f \in S /\ g \in S /\ z \in S
  BY PlayerStepTypes DEF Comp, PlayerIds, Statuses
<1>2. /\ Place("xplayer", a) = 1 /\ Place("xplayer", b) = 2 /\ Place("xplayer", c) = 3
      /\ Place("xplayer", d) = 4 /\ Place("xplayer", e) = 5 /\ Place("xplayer", f) = 6
      /\ Place("xplayer", g) = 7 /\ Place("xplayer", z) = 0
      /\ a.op # "wait" /\ b.op # "wait" /\ c.op # "wait" /\ d.op # "wait"
      /\ e.op # "wait" /\ f.op # "wait" /\ g.op # "wait"
  BY CallPlaces, OtherPlaces DEF Comp, Command, Statuses, PlayerPlace
<1>3. StopList = first \o four
  BY DEF StopList, StopSteps
<1> HIDE DEF S, z, a, b, c, d, e, f, g
<1>4. \A x \in S, y \in S : Place("xplayer", x) < Place("xplayer", y) /\ y.op # "wait"
                            => << x, y >> \in R
  BY OrderOf DEF S, Caller
<1> HIDE DEF R
<1>5. << a, b >> \in R /\ << a, c >> \in R /\ << b, c >> \in R
  BY <1>1, <1>2, <1>4
<1>6. /\ << d, e >> \in R /\ << d, f >> \in R /\ << d, g >> \in R
      /\ << e, f >> \in R /\ << e, g >> \in R /\ << f, g >> \in R
  BY <1>1, <1>2, <1>4
<1>7. three \in Seq(S) /\ four \in Seq(S)
  BY <1>1
<1>8. Elements(three) = {a, b, c}
  BY DEF Elements
<1>9. Elements(four) = {d, e, f, g}
  BY DEF Elements
<1>10. Pairs(R, three)
  BY <1>5, PairsShort, Zenon
<1>11. Pairs(R, four)
  BY <1>6, PairsShort, Zenon
<1> HIDE DEF three, four
<1>12. \A y \in Elements(three) : << z, y >> \in R
  BY <1>1, <1>2, <1>4, <1>8
<1>13. /\ first \in Seq(S) /\ Pairs(R, first) /\ Elements(first) = {z} \union Elements(three)
       /\ first # << >> /\ Head(first) = z
  BY <1>1, <1>7, <1>10, <1>12, PairsPrefixed
<1> HIDE DEF first
<1>14. \A x \in Elements(first), y \in Elements(four) : << x, y >> \in R
  <2>1. Elements(first) = {z, a, b, c}
    BY <1>8, <1>13
  <2>2. \A x \in Elements(first) : x \in S /\ Place("xplayer", x) \in 0 .. 3
    BY <1>1, <1>2, <2>1
  <2>3. \A y \in Elements(four) :
           y \in S /\ Place("xplayer", y) \in 4 .. 7 /\ y.op # "wait"
    BY <1>1, <1>2, <1>9
  <2>4. ASSUME NEW x \in Elements(first), NEW y \in Elements(four)
        PROVE  << x, y >> \in R
    <3>1. x \in S /\ y \in S /\ y.op # "wait"
      BY <2>2, <2>3
    <3>2. Place("xplayer", x) \in 0 .. 3 /\ Place("xplayer", y) \in 4 .. 7
      BY <2>2, <2>3
    <3>3. Place("xplayer", x) < Place("xplayer", y)
      BY <3>2
    <3> QED BY <1>4, <3>1, <3>3
  <2> QED BY <2>4
<1>15. Pairs(R, first \o four)
  BY <1>7, <1>11, <1>13, <1>14, PairsJoined
<1>16. /\ first \o four \in Seq(S)
       /\ Elements(first \o four) = Elements(first) \union Elements(four)
  BY <1>7, <1>13, JoinedElements
<1>17. first \o four # << >> /\ Head(first \o four) = z
  BY <1>7, <1>13
<1>18. Elements(first \o four) = {z, a, b, c, d, e, f, g}
  BY <1>8, <1>9, <1>13, <1>16
<1> QED BY <1>3, <1>15, <1>16, <1>17, <1>18 DEF S, R, z, a, b, c, d, e, f, g

\* PlayerStart leaves the scripts in order, ...
LEMMA StartKeepsScripts == CallerInv /\ PlayerStart => CallerInv'
<1> SUFFICES ASSUME CallerInv, PlayerStart PROVE CallerInv'
  OBVIOUS
<1>1. /\ Idle("xplayer") /\ ~ Resetting /\ UNCHANGED demux
      /\ Issue("xplayer", IF eStatus = "STOPPED" THEN StartSteps
                          ELSE SubSeq(StartSteps, 1, 3))
  BY DEF PlayerStart
<1>2. /\ Goal(Call("dec", "start")) = "STARTED" /\ Goal(Call("render", "start")) = "STARTED"
      /\ Goal(SetStatus("STARTED")) = "STARTED" /\ Goal(SetDemux("started")) = "STARTED"
      /\ Goal(Join("dec")) = "STOPPED"
      /\ SetDemux("started") \notin {Call("dec", "start"), Call("render", "start"),
                                     SetStatus("STARTED")}
  BY CallPlaces, OtherPlaces DEF Comp, Command, Statuses
<1>3. \A x : Goal(x) = "STARTED" => ScriptWith("xplayer", x) =
         {Call("dec", "start"), Call("render", "start"), SetStatus("STARTED")}
  BY DEF ScriptWith
<1>4. CASE eStatus = "STOPPED"
  <2> DEFINE new == StartSteps
  <2>1. demux = "stopped"
    BY <1>4 DEF CallerInv
  <2>2. Issue("xplayer", new)
    BY <1>1, <1>4
  <2>3. /\ new \in Seq(StepsOf("xplayer")) /\ new # << >>
        /\ Elements(new) = {Call("dec", "start"), Call("render", "start"),
                            SetStatus("STARTED"), SetDemux("started")}
        /\ Pairs(ScriptOrder("xplayer"), new)
    BY StartList
  <2> HIDE DEF new
  <2>4. \A x \in Elements(new) : Goal(x) = "STARTED"
    BY <1>2, <2>3
  <2>5. Join("dec") \notin Elements(new)
    BY <1>2, <2>4
  <2> QED BY <1>1, <1>3, <2>1, <2>2, <2>3, <2>4, <2>5, NewPlayerScript DEF Statuses
<1>5. CASE eStatus # "STOPPED"
  <2> DEFINE new == SubSeq(StartSteps, 1, 3)
  <2>2. Issue("xplayer", new)
    BY <1>1, <1>5
  <2>3. /\ new \in Seq(StepsOf("xplayer")) /\ new # << >>
        /\ Elements(new) = {Call("dec", "start"), Call("render", "start"),
                            SetStatus("STARTED")}
        /\ Pairs(ScriptOrder("xplayer"), new)
    BY StartList
  <2> HIDE DEF new
  <2>4. \A x \in Elements(new) : Goal(x) = "STARTED"
    BY <1>2, <2>3
  <2>5. Join("dec") \notin Elements(new) /\ SetDemux("started") \notin Elements(new)
    BY <1>2, <2>3, <2>4
  <2> QED BY <1>1, <1>3, <2>2, <2>3, <2>4, <2>5, NewPlayerScript DEF Statuses
<1> QED BY <1>4, <1>5

\* ... and so does PlayerPause ...
LEMMA PauseKeepsScripts == CallerInv /\ PlayerPause => CallerInv'
<1> SUFFICES ASSUME CallerInv, PlayerPause PROVE CallerInv'
  OBVIOUS
<1> DEFINE new == << Call("render", "pause"), Call("dec", "pause"), SetStatus("PAUSED") >>
<1>1. Idle("xplayer") /\ ~ Resetting /\ UNCHANGED demux /\ Issue("xplayer", new)
  BY DEF PlayerPause
<1>2. /\ Goal(Call("dec", "pause")) = "PAUSED" /\ Goal(Call("render", "pause")) = "PAUSED"
      /\ Goal(SetStatus("PAUSED")) = "PAUSED" /\ Goal(Join("dec")) = "STOPPED"
      /\ Goal(SetDemux("started")) = "STARTED"
  BY CallPlaces, OtherPlaces DEF Comp, Command, Statuses
<1>3. \A x : Goal(x) = "PAUSED" => ScriptWith("xplayer", x) =
         {Call("render", "pause"), Call("dec", "pause"), SetStatus("PAUSED")}
  BY DEF ScriptWith
<1>4. /\ new \in Seq(StepsOf("xplayer")) /\ new # << >>
      /\ Elements(new) = {Call("render", "pause"), Call("dec", "pause"),
                          SetStatus("PAUSED")}
      /\ Pairs(ScriptOrder("xplayer"), new)
  BY PauseList
<1> HIDE DEF new
<1>5. \A x \in Elements(new) : Goal(x) = "PAUSED"
  BY <1>2, <1>4
<1>6. Join("dec") \notin Elements(new) /\ SetDemux("started") \notin Elements(new)
  BY <1>2, <1>5
<1> QED BY <1>1, <1>3, <1>4, <1>5, <1>6, NewPlayerScript DEF Statuses

\* ... and PlayerStop.
LEMMA StopKeepsScripts == CallerInv /\ PlayerStop => CallerInv'
<1> SUFFICES ASSUME CallerInv, PlayerStop PROVE CallerInv'
  OBVIOUS
<1> DEFINE new == StopList
<1>1. Idle("xplayer") /\ UNCHANGED demux /\ Issue("xplayer", new)
  BY DEF PlayerStop, StopList
<1>3. \A x : Goal(x) = "STOPPED" => ScriptWith("xplayer", x) =
         {Call("render", "stop"), Call("dec", "stop"), SetStatus("STOPPED"),
          Call("render", "quit"), Join("render"), Call("dec", "quit"), Join("dec")}
  BY DEF ScriptWith
<1>4. /\ new \in Seq(StepsOf("xplayer")) /\ new # << >>
      /\ Head(new) = SetDemux("stopped")
      /\ Elements(new) =
         {SetDemux("stopped"), Call("render", "stop"), Call("dec", "stop"),
          SetStatus("STOPPED"), Call("render", "quit"), Join("render"),
          Call("dec", "quit"), Join("dec")}
      /\ Pairs(ScriptOrder("xplayer"), new)
  BY StopListIs
<1> HIDE DEF new
<1>5. \A x \in Elements(new) : Goal(x) = "STOPPED"
  BY <1>4, CallPlaces, OtherPlaces DEF Comp, Command, Statuses
<1>6. SetDemux("started") \notin Elements(new)
  BY <1>5, OtherPlaces
<1> QED BY <1>1, <1>3, <1>4, <1>5, <1>6, NewPlayerScript DEF Statuses

-----------------------------------------------------------------------------
(* The demux thread begins a command.                                       *)

\* The calls that reset a player, with those that pause it before and start it
\* again when it is started.
ResetList == Only(eStatus = "STARTED", << Call("render", "pause"), Call("dec", "pause") >>)
             \o ResetSteps
             \o Only(eStatus = "STARTED", << Call("render", "start"), Call("dec", "start") >>)

\* The script of PlayerReset has these elements and is in order.
LEMMA ResetListIs ==
    /\ ResetList \in Seq(StepsOf("demux"))
    /\ Elements(ResetList) =
         {Call(c, id) : c \in Comp, id \in IF eStatus = "STARTED" THEN ResetIds ELSE {"reset"}}
    /\ Pairs(ScriptOrder("demux"), ResetList)
<1> DEFINE S == StepsOf("demux")
           R == ScriptOrder("demux")
           a == Call("render", "pause")
           b == Call("dec", "pause")
           c == Call("dec", "reset")
           d == Call("render", "reset")
           e == Call("render", "start")
           f == Call("dec", "start")
           p == << a, b >>
           q == << c, d >>
           r == << e, f >>
<1>1. a \in S /\ b \in S /\ c \in S /\ d \in S /\ e \in S /\ f \in S
  BY PlayerStepTypes DEF Comp, ResetIds
<1>2. /\ Place("demux", a) = 1 /\ Place("demux", b) = 2 /\ Place("demux", c) = 3
      /\ Place("demux", d) = 4 /\ Place("demux", e) = 5 /\ Place("demux", f) = 6
      /\ \A x \in {a, b, c, d, e, f} : x.op # "wait" /\ x.id # "eos"
  BY CallPlaces DEF Comp, Command, DemuxPlace
<1> DEFINE calls(ids) == {Call(k, id) : k \in Comp, id \in ids}
<1>3. calls(ResetIds) = {a, b, c, d, e, f}
  BY DEF Comp, ResetIds
<1>4. calls({"reset"}) = {c, d}
  BY DEF Comp
<1> HIDE DEF S, a, b, c, d, e, f, calls
<1>5. \A x \in S, y \in S : /\ Place("demux", x) < Place("demux", y) /\ y.op # "wait"
                            /\ x.id # "eos" /\ y.id # "eos"
                            => << x, y >> \in R
  BY OrderOf DEF S, Caller
<1> HIDE DEF R
<1>6. << a, b >> \in R /\ << c, d >> \in R /\ << e, f >> \in R
  BY <1>1, <1>2, <1>5
<1>7. p \in Seq(S) /\ q \in Seq(S) /\ r \in Seq(S)
  BY <1>1
<1>8. Elements(p) = {a, b} /\ Pairs(R, p)
  <2>1. Elements(p) = {a, b}
    BY DEF Elements
  <2>2. Pairs(R, p)
    BY <1>6, PairsShort, Zenon
  <2> QED BY <2>1, <2>2
<1>9. Elements(q) = {c, d} /\ Pairs(R, q)
  <2>1. Elements(q) = {c, d}
    BY DEF Elements
  <2>2. Pairs(R, q)
    BY <1>6, PairsShort, Zenon
  <2> QED BY <2>1, <2>2
<1>10. Elements(r) = {e, f} /\ Pairs(R, r)
  <2>1. Elements(r) = {e, f}
    BY DEF Elements
  <2>2. Pairs(R, r)
    BY <1>6, PairsShort, Zenon
  <2> QED BY <2>1, <2>2
<1>11. ResetList = Only(eStatus = "STARTED", p) \o q \o Only(eStatus = "STARTED", r)
  BY DEF ResetList, ResetSteps, a, b, c, d, e, f
<1> HIDE DEF p, q, r
<1>12. CASE eStatus = "STARTED"
  <2>1. ResetList = (p \o q) \o r
    BY <1>11, <1>12 DEF Only
  <2>2. \A x \in Elements(p), y \in Elements(q) : << x, y >> \in R
    <3>1. \A x \in Elements(p) : x \in S /\ Place("demux", x) \in 1 .. 2 /\ x.id # "eos"
      BY <1>1, <1>2, <1>8
    <3>2. \A y \in Elements(q) : /\ y \in S /\ Place("demux", y) \in 3 .. 4
                                /\ y.op # "wait" /\ y.id # "eos"
      BY <1>1, <1>2, <1>9
    <3>3. ASSUME NEW x \in Elements(p), NEW y \in Elements(q)
          PROVE  << x, y >> \in R
      <4>1. x \in S /\ y \in S /\ y.op # "wait" /\ x.id # "eos" /\ y.id # "eos"
        BY <3>1, <3>2
      <4>2. Place("demux", x) \in 1 .. 2 /\ Place("demux", y) \in 3 .. 4
        BY <3>1, <3>2
      <4>3. Place("demux", x) < Place("demux", y)
        BY <4>2
      <4> QED BY <1>5, <4>1, <4>3
    <3> QED BY <3>3
  <2>3. Pairs(R, p \o q)
    BY <1>7, <1>8, <1>9, <2>2, PairsJoined
  <2>4. p \o q \in Seq(S) /\ Elements(p \o q) = {a, b, c, d}
    BY <1>7, <1>8, <1>9, JoinedElements
  <2> DEFINE u == p \o q
  <2> HIDE DEF u
  <2>5. \A x \in Elements(u), y \in Elements(r) : << x, y >> \in R
    <3>1. \A x \in Elements(u) : x \in S /\ Place("demux", x) \in 1 .. 4 /\ x.id # "eos"
      BY <1>1, <1>2, <2>4 DEF u
    <3>2. \A y \in Elements(r) : /\ y \in S /\ Place("demux", y) \in 5 .. 6
                                /\ y.op # "wait" /\ y.id # "eos"
      BY <1>1, <1>2, <1>10
    <3>3. ASSUME NEW x \in Elements(u), NEW y \in Elements(r)
          PROVE  << x, y >> \in R
      <4>1. x \in S /\ y \in S /\ y.op # "wait" /\ x.id # "eos" /\ y.id # "eos"
        BY <3>1, <3>2
      <4>2. Place("demux", x) \in 1 .. 4 /\ Place("demux", y) \in 5 .. 6
        BY <3>1, <3>2
      <4>3. Place("demux", x) < Place("demux", y)
        BY <4>2
      <4> QED BY <1>5, <4>1, <4>3
    <3> QED BY <3>3
  <2>6. Pairs(R, u \o r)
    BY <1>7, <1>10, <2>3, <2>4, <2>5, PairsJoined DEF u
  <2>7. u \o r \in Seq(S) /\ Elements(u \o r) = Elements(u) \union Elements(r)
    <3>1. u \in Seq(S) /\ r \in Seq(S)
      BY <1>7, <2>4 DEF u
    <3> QED BY <3>1, JoinedElements
  <2>8. Elements(u \o r) = {a, b, c, d, e, f}
    BY <1>10, <2>4, <2>7 DEF u
  <2>9. (IF eStatus = "STARTED" THEN ResetIds ELSE {"reset"}) = ResetIds
    BY <1>12
  <2>10. ResetList = u \o r
    BY <2>1 DEF u
  <2>11. ResetList \in Seq(S) /\ Pairs(R, ResetList) /\ Elements(ResetList) = calls(ResetIds)
    BY <1>3, <2>6, <2>7, <2>8, <2>10
  <2> QED BY <2>9, <2>11 DEF S, R, calls
<1>13. CASE eStatus # "STARTED"
  <2>1. ResetList = (<< >> \o q) \o << >>
    BY <1>11, <1>13 DEF Only
  <2>2. (<< >> \o q) \o << >> = q
    BY <1>7
  <2>3. ResetList \in Seq(S) /\ Pairs(R, ResetList) /\ Elements(ResetList) = calls({"reset"})
    BY <1>4, <1>7, <1>9, <2>1, <2>2
  <2>4. (IF eStatus = "STARTED" THEN ResetIds ELSE {"reset"}) = {"reset"}
    BY <1>13
  <2> QED BY <2>3, <2>4 DEF S, R, calls
<1> QED BY <1>12, <1>13

\* The demux thread has a script before it that is complete.
LEMMA NewDemuxScript ==
    ASSUME CallerInv, Idle("demux"), NEW new \in Seq(StepsOf("demux")),
           Issue("demux", new), Pairs(ScriptOrder("demux"), new),
           demux' \in {"started", "complete"},
           demux # "stopped" \/ (Idle("xplayer") /\ eStatus # "STOPPED"),
           \A x \in Elements(new) : ScriptWith("demux", x) \subseteq Elements(new),
           \A c \in Comp, id \in ResetIds : Call(c, id) \in Elements(new) =>
              Idle("xplayer") /\ (id # "reset" => eStatus = "STARTED"),
           \A x \in Elements(new) : x.op = "call"
    PROVE  CallerInv'
<1>1. /\ script' = [script EXCEPT !["demux"] = new] /\ "demux" \in Caller
      /\ UNCHANGED eStatus
  BY DEF Issue, Caller
<1>2. script' \in [Caller -> Seq(DemuxSteps \union PlayerSteps)]
  BY <1>1, ScriptTypes
<1>3. script'["demux"] = new /\ script'["xplayer"] = script["xplayer"]
  BY <1>1 DEF CallerInv, Caller
<1>4. Complete("demux")'
  BY <1>3 DEF Complete, Has
<1>5. \A u \in Caller : /\ script'[u] \in Seq(StepsOf(u))
                        /\ Pairs(ScriptOrder(u), script'[u])
                        /\ Complete(u)'
  BY <1>2, <1>3, <1>4, ScriptsKept DEF Caller
<1>6. ASSUME NEW x PROVE Has("xplayer", x)' <=> Has("xplayer", x)
  BY <1>3 DEF Has
<1>7. ASSUME NEW c \in Comp, NEW id \in Command
      PROVE  /\ Calls("demux", c, id)' <=> Call(c, id) \in Elements(new)
             /\ ~ Waits("demux", c, id)'
  BY <1>3, CallPlaces DEF Calls, Waits, Has
<1>8. Idle("xplayer")' <=> Idle("xplayer")
  BY <1>3 DEF Idle
<1>9. /\ \A x, y \in Elements(script'["xplayer"]) : Goal(x) = Goal(y)
      /\ \A x \in Elements(script'["xplayer"]) :
           Has("xplayer", SetStatus(Goal(x)))' \/ eStatus' = Goal(x)
  BY <1>1, <1>3, <1>6 DEF CallerInv
<1>10. Resets' => Idle("xplayer")'
  BY <1>7, <1>8 DEF Resets, ResetIds, Command
<1>11. \/ eStatus' = "STOPPED"
       \/ Has("xplayer", SetDemux("started"))'
       \/ Has("xplayer", Join("dec"))' /\ ~ Has("xplayer", SetDemux("stopped"))'
       => demux' = "stopped"
  <2>1. Idle("xplayer") => \A x : ~ Has("xplayer", x)
    BY DEF Idle, Has, Elements
  <2> QED BY <1>1, <1>6, <2>1 DEF CallerInv
<1>12. \A d \in Comp, jd \in {"pause", "start"} :
         Calls("demux", d, jd)' \/ Waits("demux", d, jd)' => eStatus' = "STARTED"
  BY <1>1, <1>7 DEF ResetIds, Command
<1> QED BY <1>1, <1>2, <1>5, <1>9, <1>10, <1>11, <1>12 DEF CallerInv

\* PlayerReset leaves the scripts in order, ...
LEMMA ResetKeepsScripts == CallerInv /\ PlayerReset => CallerInv'
<1> SUFFICES ASSUME CallerInv, PlayerReset PROVE CallerInv'
  OBVIOUS
<1> DEFINE new == ResetList
           ids == IF eStatus = "STARTED" THEN ResetIds ELSE {"reset"}
<1>1. /\ Idle("demux") /\ Idle("xplayer") /\ eStatus # "STOPPED" /\ Issue("demux", new)
      /\ demux' = "started"
  BY DEF PlayerReset, ResetList
<1>2. /\ new \in Seq(StepsOf("demux")) /\ Pairs(ScriptOrder("demux"), new)
      /\ Elements(new) = {Call(c, id) : c \in Comp, id \in ids}
  BY ResetListIs
<1> HIDE DEF new
<1>3. ids \subseteq Command /\ "reset" \in ids
      /\ \A id \in ids : id # "reset" => eStatus = "STARTED" /\ ids = ResetIds
  BY DEF Command, ResetIds
<1> HIDE DEF ids
<1>4. \A x \in Elements(new) : ScriptWith("demux", x) \subseteq Elements(new)
  <2> SUFFICES ASSUME NEW c \in Comp, NEW id \in ids
               PROVE  ScriptWith("demux", Call(c, id))
                        \subseteq {Call(k, i) : k \in Comp, i \in ids}
    BY <1>2
  <2>1. Call(c, id).id = id
    BY DEF Call
  <2>2. (IF id = "pause" THEN ResetIds ELSE IF id = "reset" THEN {"reset"} ELSE {}) \subseteq ids
    BY <1>3
  <2> QED BY <2>1, <2>2 DEF ScriptWith
<1>5. \A x \in Elements(new) : x.op = "call"
  BY <1>2 DEF Call
<1>6. \A c \in Comp, id \in ResetIds : Call(c, id) \in Elements(new) =>
              Idle("xplayer") /\ (id # "reset" => eStatus = "STARTED")
  <2> SUFFICES ASSUME NEW c \in Comp, NEW id \in ResetIds, Call(c, id) \in Elements(new)
               PROVE  Idle("xplayer") /\ (id # "reset" => eStatus = "STARTED")
    OBVIOUS
  <2>1. PICK k \in Comp, i \in ids : Call(c, id) = Call(k, i)
    BY <1>2
  <2>2. id = i
    BY <2>1 DEF Call
  <2> QED BY <1>1, <1>3, <2>2
<1> QED BY <1>1, <1>2, <1>4, <1>5, <1>6, NewDemuxScript

\* ... and so does PlayerSetEos.
LEMMA EosKeepsScripts == CallerInv /\ PlayerSetEos => CallerInv'
<1> SUFFICES ASSUME CallerInv, PlayerSetEos PROVE CallerInv'
  OBVIOUS
<1> DEFINE x == Call("dec", "eos")
           new == << x >>
<1>1. Idle("demux") /\ demux = "started" /\ Issue("demux", new) /\ demux' = "complete"
  BY DEF PlayerSetEos
<1>2. x \in StepsOf("demux") /\ x.op = "call" /\ x.id = "eos"
      /\ \A c \in Comp, id \in ResetIds : Call(c, id) # x
  BY PlayerStepTypes, CallPlaces DEF Comp, Command, ResetIds
<1>3. ScriptWith("demux", x) = {}
  BY <1>2 DEF ScriptWith
<1> HIDE DEF x
<1>4. new \in Seq(StepsOf("demux"))
  BY <1>2
<1>5. Elements(new) = {x} /\ Pairs(ScriptOrder("demux"), new)
  BY <1>2, FewElements, PairsShort, Zenon
<1> HIDE DEF new
<1> QED BY <1>1, <1>2, <1>3, <1>4, <1>5, NewDemuxScript

\* At first no caller has a script.
LEMMA CallerInit == Init => CallerInv
<1> SUFFICES ASSUME Init PROVE CallerInv
  OBVIOUS
<1>1. /\ script = [t \in Caller |-> << >>] /\ eStatus = "STOPPED" /\ demux = "stopped"
  BY DEF Init
<1>2. \A t \in Caller : script[t] = << >>
  BY <1>1
<1>3. \A t \in Caller : Elements(script[t]) = {} /\ Pairs(ScriptOrder(t), script[t])
  BY <1>2 DEF Elements, Pairs
<1>4. \A S : << >> \in Seq(S)
  OBVIOUS
<1>5. \A t \in Caller : \A x : ~ Has(t, x)
  BY <1>3 DEF Has
<1>6. ~ Resets
  BY <1>5 DEF Resets, Calls, Waits, Caller
<1>7. script \in [Caller -> Seq(DemuxSteps \union PlayerSteps)]
  BY <1>1, <1>4
<1>8. \A t \in Caller : /\ script[t] \in Seq(StepsOf(t))
                        /\ Pairs(ScriptOrder(t), script[t])
                        /\ Complete(t)
  BY <1>2, <1>3, <1>4 DEF Complete
<1> QED BY <1>1, <1>2, <1>3, <1>5, <1>6, <1>7, <1>8
        DEF CallerInv, Idle, Caller, Statuses, Calls, Waits

\* The threads leave the scripts alone.
LEMMA CallerNext == CallerInv /\ [Next]_vars => CallerInv'
<1>1. UNCHANGED vars => UNCHANGED playerVars
  BY DEF vars
<1>2. VideoDecodeThread => UNCHANGED playerVars
  BY DEF VideoDecodeThread, BaseCompContinue, PostContinue, SendReply, DecStart, DecStop,
         DecPause, DecQuit, DecReset, DecSetEos, DecContinue, DoDecode, DecodeVideoStream,
         ResetVideoDecoder, NotifyEos, AwaitEos, Take
<1>3. VideoRenderThread \/ PictureComes => UNCHANGED playerVars
  BY DEF VideoRenderThread, BaseCompContinue, PostContinue, SendReply, RenderStart,
         RenderStop, RenderPause, RenderQuit, RenderReset, RenderSetEos, DoRender,
         NoPictureComes, PictureComes, OtherThanPicture, ReopenVideoEngine,
         ContinueDecoder, PostToDecoder, Take
<1>4. PlayerInitialVideo => UNCHANGED playerVars
  BY DEF PlayerInitialVideo
<1>5. ASSUME CallerInv, NEW t \in Caller, CallerStep(t) PROVE CallerInv'
  <2>1. CASE WaitReply(t) \/ JoinThread(t)
    <3>1. script[t] # << >> /\ Done(t) /\ UNCHANGED << eStatus, demux >>
          /\ Head(script[t]).op \notin {"status", "demux"}
      BY <2>1 DEF WaitReply, JoinThread, Does
    <3> QED BY <1>5, <3>1, DoneKeepsScripts
  <2> QED BY <1>5, <2>1, PostKeepsScripts, StatusKeepsScripts, DemuxKeepsScripts
          DEF CallerStep
<1> QED BY <1>1, <1>2, <1>3, <1>4, <1>5, CallerRests, StartKeepsScripts,
           PauseKeepsScripts, StopKeepsScripts, ResetKeepsScripts, EosKeepsScripts
        DEF Next, Commands

-----------------------------------------------------------------------------
(* What the scripts say of each other.                                      *)

\* A caller has still to give a command, or waits for the answer.
Left(t, c, id) == Calls(t, c, id) \/ Waits(t, c, id)

\* An idle caller has no steps before it.
LEMMA IdleHasNothing == \A t \in Caller : Idle(t) => \A x : ~ Has(t, x)
  BY DEF Idle, Has, Elements

\* A step of a script is the first, or comes after it and does not wait.
LEMMA HasStep ==
    ASSUME CallerInv, NEW t \in Caller, NEW x, Has(t, x)
    PROVE  /\ script[t] # << >> /\ ~ Idle(t) /\ x \in StepsOf(t) /\ Place(t, x) \in Nat
           /\ x = Head(script[t]) \/ (x.op # "wait" /\ Place(t, Head(script[t])) < Place(t, x))
           /\ Place(t, Head(script[t])) \in Nat
<1>1. script[t] # << >> /\ ~ Idle(t)
  BY IdleHasNothing DEF Idle
<1>2. /\ x \in StepsOf(t) /\ Head(script[t]) \in StepsOf(t)
      /\ x = Head(script[t]) \/ (x.op # "wait" /\ Place(t, Head(script[t])) < Place(t, x))
  BY <1>1, FirstOfScript DEF Has
<1> QED BY <1>1, <1>2, PlaceType

\* What comes later in a script is still to come.
LEMMA StillToCome ==
    ASSUME CallerInv, NEW t \in Caller, NEW x, Has(t, x), NEW y \in ScriptWith(t, x),
           Place(t, x) < Place(t, y)
    PROVE  Has(t, y)
  BY DEF CallerInv, Complete, Has

\* A caller waits for one thing, in the first step of what it has to do.
LEMMA OneWait ==
    ASSUME CallerInv, NEW t \in Caller, NEW c \in Comp, NEW id \in Command, Waits(t, c, id)
    PROVE  /\ Head(script[t]) = WaitFor(c, id) /\ script[t] # << >>
           /\ ~ Calls(t, c, id)
           /\ \A d \in Comp, jd \in Command : Waits(t, d, jd) => d = c /\ jd = id
<1>1. \A d \in Comp, jd \in Command : Waits(t, d, jd) => Head(script[t]) = WaitFor(d, jd)
  BY HasStep, CallPlaces DEF Waits
<1>2. Head(script[t]) = WaitFor(c, id) /\ script[t] # << >>
  BY <1>1, HasStep DEF Waits
<1>3. Place(t, WaitFor(c, id)) = Place(t, Call(c, id)) /\ WaitFor(c, id) # Call(c, id)
  BY CallPlaces DEF Caller
<1>4. ~ Calls(t, c, id)
  <2> SUFFICES ASSUME Calls(t, c, id) PROVE FALSE
    OBVIOUS
  <2>1. Place(t, Head(script[t])) < Place(t, Call(c, id)) /\ Place(t, Call(c, id)) \in Nat
    BY <1>2, <1>3, HasStep DEF Calls
  <2> QED BY <1>2, <1>3, <2>1
<1> QED BY <1>1, <1>2, <1>4, CallPlaces

\* Which commands come from whom.
LEMMA WhoseCommand ==
    ASSUME CallerInv, NEW c \in Comp, NEW id \in Command
    PROVE  /\ Left("xplayer", c, id) => id \in PlayerIds
           /\ Left("demux", c, id) => id \in ResetIds \/ (c = "dec" /\ id = "eos")
<1>1. /\ Left("xplayer", c, id) => \E x \in PlayerSteps : x.op \in {"call", "wait"} /\ x.id = id
      /\ Left("demux", c, id) =>
           \E x \in DemuxSteps : x.op \in {"call", "wait"} /\ x.comp = c /\ x.id = id
  BY HasStep, CallPlaces DEF Left, Calls, Waits, StepsOf, Caller
<1>2. \A x \in PlayerSteps : x.op \in {"call", "wait"} => x.id \in PlayerIds
  BY DEF PlayerSteps
<1>3. \A x \in DemuxSteps : x.id \in ResetIds \/ (x.comp = "dec" /\ x.id = "eos")
  BY DEF DemuxSteps
<1> QED BY <1>1, <1>2, <1>3

\* All steps of the player's script lead to one status.
LEMMA OneGoal ==
    ASSUME CallerInv, NEW x, NEW y, Has("xplayer", x), Has("xplayer", y)
    PROVE  Goal(x) = Goal(y)
  BY DEF CallerInv, Has

\* A command of the player, the status it leads to, and the steps that follow.
LEMMA PlayerCommand ==
    ASSUME CallerInv, NEW c \in Comp, NEW id \in Command, Left("xplayer", c, id)
    PROVE  /\ \A d \in Comp, jd \in Command : Left("xplayer", d, jd) =>
                Goal(Call(c, id)) = Goal(Call(d, jd))
           /\ \A value \in Statuses : Has("xplayer", SetStatus(value)) =>
                value = Goal(Call(c, id))
           /\ Has("xplayer", Join("dec")) => Goal(Call(c, id)) = "STOPPED"
           /\ id \in {"stop", "quit"} => Has("xplayer", Join("dec"))
           /\ id # "quit" => Has("xplayer", SetStatus(Goal(Call(c, id))))
           /\ ~ Idle("xplayer") /\ Goal(Call(c, id)) \in Statuses
<1>1. PICK x \in {Call(c, id), WaitFor(c, id)} : Has("xplayer", x)
  BY DEF Left, Calls, Waits
<1>2. /\ Goal(x) = Goal(Call(c, id)) /\ Goal(x) \in Statuses
      /\ Place("xplayer", x) = PlayerPlace(c, id) /\ id \in PlayerIds
  BY <1>1, CallPlaces, WhoseCommand DEF Statuses
<1>3. \A d \in Comp, jd \in Command : Left("xplayer", d, jd) =>
                Goal(Call(c, id)) = Goal(Call(d, jd))
  BY <1>1, <1>2, OneGoal, CallPlaces DEF Left, Calls, Waits
<1>4. \A value \in Statuses : Has("xplayer", SetStatus(value)) => value = Goal(Call(c, id))
  BY <1>1, <1>2, OneGoal, OtherPlaces
<1>5. Has("xplayer", Join("dec")) => Goal(Call(c, id)) = "STOPPED"
  <2>1. Goal(Join("dec")) = "STOPPED"
    BY OtherPlaces DEF Comp
  <2> QED BY <1>1, <1>2, <2>1, OneGoal
<1>6. ASSUME id \in {"stop", "quit"} PROVE Has("xplayer", Join("dec"))
  <2>1. Goal(x) = "STOPPED"
    BY <1>2, <1>6, CallPlaces
  <2>2. Join("dec") \in ScriptWith("xplayer", x)
    BY <2>1 DEF ScriptWith
  <2>3. Place("xplayer", Join("dec")) = 7 /\ Place("xplayer", x) < 7
    BY <1>2, OtherPlaces DEF Comp, PlayerPlace
  <2> QED BY <1>1, <2>2, <2>3, StillToCome DEF Caller
<1>7. ASSUME id # "quit" PROVE Has("xplayer", SetStatus(Goal(Call(c, id))))
  <2>1. SetStatus(Goal(x)) \in ScriptWith("xplayer", x)
    BY <1>2 DEF ScriptWith, Statuses
  <2>2. Place("xplayer", SetStatus(Goal(x))) = 3 /\ Place("xplayer", x) < 3
    BY <1>2, <1>7, OtherPlaces DEF PlayerPlace
  <2> QED BY <1>1, <1>2, <2>1, <2>2, StillToCome DEF Caller
<1>8. ~ Idle("xplayer")
  BY <1>1, HasStep DEF Caller
<1> QED BY <1>2, <1>3, <1>4, <1>5, <1>6, <1>7, <1>8

\* The order of the start, of the threads' end and of a reset.
LEMMA StartOrder ==
    ASSUME CallerInv
    PROVE  /\ Left("xplayer", "dec", "start") => Calls("xplayer", "render", "start")
           /\ Waits("xplayer", "render", "start") => ~ Left("xplayer", "dec", "start")
<1>1. /\ Place("xplayer", Call("dec", "start")) = 1
      /\ Place("xplayer", WaitFor("dec", "start")) = 1
      /\ Place("xplayer", Call("render", "start")) = 2
      /\ Place("xplayer", WaitFor("render", "start")) = 2
      /\ Goal(Call("dec", "start")) = "STARTED" /\ Goal(WaitFor("dec", "start")) = "STARTED"
  BY CallPlaces DEF PlayerPlace, Comp, Command
<1>2. ASSUME Left("xplayer", "dec", "start") PROVE Calls("xplayer", "render", "start")
  <2>1. PICK x \in {Call("dec", "start"), WaitFor("dec", "start")} : Has("xplayer", x)
    BY <1>2 DEF Left, Calls, Waits
  <2>2. Call("render", "start") \in ScriptWith("xplayer", x)
    BY <1>1 DEF ScriptWith
  <2>3. Place("xplayer", x) < Place("xplayer", Call("render", "start"))
    BY <1>1
  <2> QED BY <2>1, <2>2, <2>3, StillToCome DEF Caller, Calls
<1>3. ASSUME Waits("xplayer", "render", "start"), Left("xplayer", "dec", "start") PROVE FALSE
  <2>1. Head(script["xplayer"]) = WaitFor("render", "start")
    BY <1>3, OneWait DEF Caller, Comp, Command
  <2>2. PICK x \in {Call("dec", "start"), WaitFor("dec", "start")} : Has("xplayer", x)
    BY <1>3 DEF Left, Calls, Waits
  <2>3. \/ x = Head(script["xplayer"])
        \/ Place("xplayer", Head(script["xplayer"])) < Place("xplayer", x)
    BY <2>2, HasStep DEF Caller
  <2> QED BY <1>1, <2>1, <2>3
<1> QED BY <1>2, <1>3

\* A reset takes the decoder before the render component, and starts again what it
\* pauses.
LEMMA ResetOrder ==
    ASSUME CallerInv
    PROVE  /\ Left("demux", "dec", "reset") => Calls("demux", "render", "reset")
           /\ Waits("demux", "render", "reset") => ~ Left("demux", "dec", "reset")
           /\ \A c \in Comp : /\ Left("demux", c, "pause") => Calls("demux", c, "start")
                              /\ Waits("demux", c, "start") => ~ Left("demux", c, "pause")
<1>1. \A c \in Comp, id \in Command :
         /\ Place("demux", Call(c, id)) = DemuxPlace(c, id)
         /\ Place("demux", WaitFor(c, id)) = DemuxPlace(c, id)
         /\ Call(c, id).id = id /\ WaitFor(c, id).id = id
  BY CallPlaces
<1>2. ASSUME NEW c \in Comp, NEW id \in Command, NEW d \in Comp, NEW jd \in Command,
             Left("demux", c, id), DemuxPlace(c, id) < DemuxPlace(d, jd),
             (id = "pause" /\ jd \in ResetIds) \/ (id = "reset" /\ jd = "reset")
      PROVE  Calls("demux", d, jd)
  <2>1. PICK x \in {Call(c, id), WaitFor(c, id)} : Has("demux", x)
    BY <1>2 DEF Left, Calls, Waits
  <2>2. x.id = id /\ Place("demux", x) = DemuxPlace(c, id)
    BY <1>1
  <2>3. Call(d, jd) \in ScriptWith("demux", x)
    BY <1>2, <2>2 DEF ScriptWith
  <2>4. Place("demux", x) < Place("demux", Call(d, jd))
    BY <1>1, <1>2, <2>2
  <2> QED BY <2>1, <2>3, <2>4, StillToCome DEF Caller, Calls
<1>3. ASSUME NEW c \in Comp, NEW id \in Command, NEW d \in Comp, NEW jd \in Command,
             Waits("demux", c, id), Left("demux", d, jd), DemuxPlace(d, jd) < DemuxPlace(c, id)
      PROVE  FALSE
  <2>1. Head(script["demux"]) = WaitFor(c, id)
    BY <1>3, OneWait DEF Caller
  <2>2. PICK x \in {Call(d, jd), WaitFor(d, jd)} : Has("demux", x)
    BY <1>3 DEF Left, Calls, Waits
  <2>3. x = Head(script["demux"]) \/ Place("demux", Head(script["demux"])) < Place("demux", x)
    BY <2>2, HasStep DEF Caller
  <2>4. DemuxPlace(c, id) \in Nat /\ DemuxPlace(d, jd) \in Nat
    BY DEF DemuxPlace
  <2> QED BY <1>1, <1>3, <2>1, <2>2, <2>3, <2>4
<1>4. Left("demux", "dec", "reset") => Calls("demux", "render", "reset")
  BY <1>2 DEF DemuxPlace, Comp, Command
<1>5. Waits("demux", "render", "reset") => ~ Left("demux", "dec", "reset")
  BY <1>3 DEF DemuxPlace, Comp, Command
<1>6. \A c \in Comp : Left("demux", c, "pause") => Calls("demux", c, "start")
  <2>1. \A c \in Comp : DemuxPlace(c, "pause") < DemuxPlace(c, "start")
    BY DEF DemuxPlace
  <2>2. "pause" \in Command /\ "start" \in Command /\ "start" \in ResetIds
    BY DEF Command, ResetIds
  <2>3. ASSUME NEW c \in Comp, Left("demux", c, "pause") PROVE Calls("demux", c, "start")
    <3>1. DemuxPlace(c, "pause") < DemuxPlace(c, "start")
      BY <2>1
    <3> QED BY <1>2, <2>2, <2>3, <3>1
  <2> QED BY <2>3
<1>7. \A c \in Comp : Waits("demux", c, "start") => ~ Left("demux", c, "pause")
  BY <1>3 DEF DemuxPlace, Comp, Command
<1> QED BY <1>4, <1>5, <1>6, <1>7

\* While the demux thread resets the player the xplayer thread does nothing, or
\* it is about to stop the demux thread and then the player.
LEMMA WhileResetting ==
    ASSUME CallerInv, Resets
    PROVE  /\ \A c \in Comp, id \in Command : ~ Waits("xplayer", c, id)
           /\ \A c \in Comp, id \in Command :
                Left("xplayer", c, id) => id \in {"stop", "quit"}
           /\ Idle("xplayer") \/ \A c \in Comp : Calls("xplayer", c, "stop")
           /\ \A value \in Statuses : Has("xplayer", SetStatus(value)) => value = "STOPPED"
<1>1. Idle("xplayer") \/ Head(script["xplayer"]) = SetDemux("stopped")
  BY DEF CallerInv
<1>2. CASE Idle("xplayer")
  BY <1>2, IdleHasNothing DEF Left, Calls, Waits, Caller
<1>3. CASE ~ Idle("xplayer")
  <2> DEFINE h == SetDemux("stopped")
  <2>1. Has("xplayer", h) /\ Head(script["xplayer"]) = h
    BY <1>1, <1>3, FirstOfScript DEF Idle, Caller
  <2>2. /\ Goal(h) = "STOPPED" /\ Place("xplayer", h) = 0
        /\ \A c \in Comp, id \in Command : WaitFor(c, id) # h
    BY OtherPlaces, CallPlaces
  <2>3. \A c \in Comp, id \in Command : ~ Waits("xplayer", c, id)
    BY <2>1, <2>2, OneWait DEF Caller
  <2>4. \A c \in Comp, id \in Command : Left("xplayer", c, id) => id \in {"stop", "quit"}
    <3>1. \A x : Has("xplayer", x) => Goal(x) = "STOPPED"
      BY <2>1, <2>2, OneGoal
    <3> QED BY <3>1, CallPlaces, WhoseCommand DEF Left, Calls, Waits, PlayerIds
  <2>5. ASSUME NEW c \in Comp PROVE Calls("xplayer", c, "stop")
    <3>1. Call(c, "stop") \in ScriptWith("xplayer", h)
      BY <2>2 DEF ScriptWith, Comp
    <3>2. Place("xplayer", Call(c, "stop")) = PlayerPlace(c, "stop") /\ 0 < PlayerPlace(c, "stop")
      BY CallPlaces DEF PlayerPlace, Command
    <3> QED BY <2>1, <2>2, <3>1, <3>2, StillToCome DEF Caller, Calls
  <2>6. \A value \in Statuses : Has("xplayer", SetStatus(value)) => value = "STOPPED"
    BY <2>1, <2>2, OneGoal, OtherPlaces
  <2> QED BY <2>3, <2>4, <2>5, <2>6
<1> QED BY <1>2, <1>3

\* A component is told to quit when the player is stopped.
LEMMA WhileQuitting ==
    ASSUME CallerInv, NEW c \in Comp, Waits("xplayer", c, "quit")
    PROVE  /\ eStatus = "STOPPED" /\ demux = "stopped" /\ Idle("demux")
           /\ \A value \in Statuses : ~ Has("xplayer", SetStatus(value))
           /\ \A d \in Comp, id \in {"start", "pause", "stop"} : ~ Left("xplayer", d, id)
<1> DEFINE h == WaitFor(c, "quit")
<1>1. Head(script["xplayer"]) = h /\ Has("xplayer", h)
  BY OneWait DEF Caller, Command, Waits
<1>2. Goal(h) = "STOPPED" /\ Place("xplayer", h) \in {4, 6}
  BY CallPlaces DEF PlayerPlace, Command
<1>3. ASSUME NEW x, Has("xplayer", x), x.op \in {"call", "wait", "status"},
             Place("xplayer", x) \in {1, 2, 3}
      PROVE  FALSE
  BY <1>1, <1>2, <1>3, HasStep DEF Caller
<1>4. \A value \in Statuses : ~ Has("xplayer", SetStatus(value))
  BY <1>3, OtherPlaces
<1>5. \A d \in Comp, id \in {"start", "pause", "stop"} : ~ Left("xplayer", d, id)
  BY <1>3, CallPlaces DEF Left, Calls, Waits, PlayerPlace, Command
<1>6. eStatus = "STOPPED"
  BY <1>1, <1>2, <1>4 DEF CallerInv, Statuses, Has
<1> QED BY <1>4, <1>5, <1>6 DEF CallerInv

\* The end of the stream is told to a player that is not stopped.
LEMMA WhileEnding ==
    ASSUME CallerInv, demux # "stopped"
    PROVE  /\ eStatus # "STOPPED"
           /\ Has("xplayer", SetStatus("STOPPED")) => \A c \in Comp : Calls("xplayer", c, "stop")
<1>1. /\ eStatus # "STOPPED"
      /\ Has("xplayer", Join("dec")) => Has("xplayer", SetDemux("stopped"))
  BY DEF CallerInv
<1>2. ASSUME Has("xplayer", SetStatus("STOPPED")), NEW c \in Comp
      PROVE  Calls("xplayer", c, "stop")
  <2> DEFINE x == SetStatus("STOPPED")
             h == SetDemux("stopped")
  <2>1. Goal(x) = "STOPPED" /\ Place("xplayer", x) = 3
    BY OtherPlaces DEF Statuses
  <2>2. Join("dec") \in ScriptWith("xplayer", x) /\ Place("xplayer", Join("dec")) = 7
    BY <2>1, OtherPlaces DEF ScriptWith, Comp
  <2>3. Has("xplayer", Join("dec"))
    BY <1>2, <2>1, <2>2, StillToCome DEF Caller
  <2>4. Has("xplayer", h) /\ Goal(h) = "STOPPED" /\ Place("xplayer", h) = 0
    BY <1>1, <2>3, OtherPlaces
  <2>5. Call(c, "stop") \in ScriptWith("xplayer", h)
    BY <2>4 DEF ScriptWith, Comp
  <2>6. Place("xplayer", Call(c, "stop")) = PlayerPlace(c, "stop") /\ 0 < PlayerPlace(c, "stop")
    BY CallPlaces DEF PlayerPlace, Command
  <2> QED BY <2>4, <2>5, <2>6, StillToCome DEF Caller, Calls
<1> QED BY <1>1, <1>2

\* The player's status is changed when both components have the command.
LEMMA WhileSetting ==
    ASSUME CallerInv, NEW value \in Statuses, script["xplayer"] # << >>,
           Head(script["xplayer"]) = SetStatus(value)
    PROVE  /\ \A c \in Comp, id \in {"start", "pause", "stop"} :
                ~ Left("xplayer", c, id) /\ ~ Left("demux", c, id)
           /\ \A other \in Statuses : Has("xplayer", SetStatus(other)) => other = value
           /\ Has("xplayer", SetStatus(value)) /\ ~ Resets
<1> DEFINE h == SetStatus(value)
<1>1. Has("xplayer", h) /\ ~ Resets
  BY FirstOfScript, NoReset, OtherPlaces DEF Caller, Idle
<1>2. Goal(h) = value /\ Place("xplayer", h) = 3 /\ h.op = "status"
  BY OtherPlaces
<1>3. \A other \in Statuses : Has("xplayer", SetStatus(other)) => other = value
  BY <1>1, <1>2, OneGoal, OtherPlaces
<1>4. ASSUME NEW x, Has("xplayer", x), x.op \in {"call", "wait"},
             Place("xplayer", x) \in {1, 2}
      PROVE  FALSE
  BY <1>2, <1>4, HasStep DEF Caller
<1>5. \A c \in Comp, id \in {"start", "pause", "stop"} : ~ Left("xplayer", c, id)
  BY <1>4, CallPlaces DEF Left, Calls, Waits, PlayerPlace, Command
<1>6. \A c \in Comp, id \in {"start", "pause", "stop"} : ~ Left("demux", c, id)
  BY <1>1, WhoseCommand DEF Resets, Left, Command, ResetIds
<1> QED BY <1>1, <1>3, <1>5, <1>6

\* Two callers never wait for the same.
LEMMA OneWaiter ==
    ASSUME CallerInv, NEW c \in Comp, NEW id \in Command
    PROVE  ~ (Waits("xplayer", c, id) /\ Left("demux", c, id))
<1> SUFFICES ASSUME Waits("xplayer", c, id), Left("demux", c, id) PROVE FALSE
  OBVIOUS
<1>1. id \in PlayerIds /\ (id \in ResetIds \/ id = "eos")
  BY WhoseCommand DEF Left
<1>2. Resets
  BY <1>1 DEF Resets, Left, PlayerIds
<1> QED BY <1>2, WhileResetting

-----------------------------------------------------------------------------
(* The lists of steps of a thread.                                          *)

StepNames == {"continue", "post", "reset", "notifyEos", "awaitEos", "doDecode",
              "exited", "picture", "decContinue", "decPost", "decode", "reopen"}

\* What the handlers put behind something else.
Later == {"continue", "reset", "notifyEos", "exited"}

\* A step is a reply to a command or has a name only.
LEMMA StepForms ==
    /\ \A x \in Steps : \/ \E name \in StepNames : x = Step(name)
                        \/ \E id \in Command : x = ReplyTo(id)
    /\ \A name : Step(name).op = name
    /\ \A id : ReplyTo(id).op = "reply" /\ ReplyTo(id).id = id
    /\ \A name \in StepNames : Step(name) \in Steps
    /\ \A id \in Command : ReplyTo(id) \in Steps
    /\ \A name : \A id : Step(name) # ReplyTo(id)
    /\ \A a, b : Step(a) = Step(b) => a = b
    /\ \A a, b : ReplyTo(a) = ReplyTo(b) => a = b
<1>1. \A x \in Steps : \/ \E name \in StepNames : x = Step(name)
                       \/ \E id \in Command : x = ReplyTo(id)
  BY DEF Steps, Plain, Step, ReplyTo, StepNames
<1>2. /\ \A name : Step(name).op = name
      /\ \A id : ReplyTo(id).op = "reply" /\ ReplyTo(id).id = id
  BY DEF Step, ReplyTo
<1>3. \A name \in StepNames : Step(name) \in Steps
  BY DEF Steps, Plain, Step, StepNames
<1>4. \A id \in Command : ReplyTo(id) \in Steps
  BY DEF Steps, Plain, ReplyTo
<1>5. \A name : \A id : Step(name) # ReplyTo(id)
  <2> SUFFICES ASSUME NEW name, NEW id, Step(name) = ReplyTo(id) PROVE FALSE
    OBVIOUS
  <2>1. DOMAIN Step(name) = {"op"} /\ DOMAIN ReplyTo(id) = {"op", "id"}
    BY DEF Step, ReplyTo
  <2> QED BY <2>1
<1> QED BY <1>1, <1>2, <1>3, <1>4, <1>5

\* When a step of a thread may stand before another one.
LEMMA TodoOrderOf ==
    ASSUME NEW x \in Steps, NEW y \in Steps
    PROVE  << x, y >> \in TodoOrder <=>
             /\ y.op \notin FirstOnly
             /\ x.op # "reply" \/ y.op # "reply"
             /\ y.op = "decContinue" => x.op = "reopen"
  BY DEF TodoOrder

\* The elements of a list over a set are in the set.
LEMMA ListElements == \A S : \A s \in Seq(S) : Elements(s) \subseteq S
  BY DEF Elements

\* Lists that a handler puts together.
Handled(s) == /\ s \in Seq(Steps) /\ Pairs(TodoOrder, s)
              /\ \A x \in Elements(s) : x.op \in Later \union {"reply"}

\* The short lists that the handlers give a thread are lists of steps in order, ...
LEMMA HandledShort ==
    /\ Handled(<< >>) /\ Elements(<< >>) = {}
    /\ \A name \in Later : Handled(<< Step(name) >>) /\ Elements(<< Step(name) >>) = {Step(name)}
    /\ \A id \in Command : Handled(<< ReplyTo(id) >>)
                           /\ Elements(<< ReplyTo(id) >>) = {ReplyTo(id)}
    /\ Handled(Running) /\ Elements(Running) = {Step("continue")}
<1>1. ASSUME NEW x \in Steps, x.op \in Later \union {"reply"}
      PROVE  Handled(<< x >>) /\ Elements(<< x >>) = {x}
  <2>1. Elements(<< x >>) = {x}
    BY DEF Elements
  <2>2. << x >> \in Seq(Steps)
    OBVIOUS
  <2>3. Pairs(TodoOrder, << x >>)
    BY PairsShort, Zenon
  <2> QED BY <1>1, <2>1, <2>2, <2>3 DEF Handled
<1>2. Handled(<< >>) /\ Elements(<< >>) = {}
  BY DEF Handled, Pairs, Elements
<1>3. ASSUME NEW name \in Later
      PROVE  Handled(<< Step(name) >>) /\ Elements(<< Step(name) >>) = {Step(name)}
  <2>1. Step(name) \in Steps /\ Step(name).op \in Later \union {"reply"}
    BY StepForms DEF Later, StepNames
  <2> QED BY <1>1, <2>1
<1>4. ASSUME NEW id \in Command
      PROVE  Handled(<< ReplyTo(id) >>) /\ Elements(<< ReplyTo(id) >>) = {ReplyTo(id)}
  <2>1. ReplyTo(id) \in Steps /\ ReplyTo(id).op \in Later \union {"reply"}
    BY StepForms
  <2> QED BY <1>1, <2>1
<1>5. Handled(Running) /\ Elements(Running) = {Step("continue")}
  <2>1. Running = << Step("continue") >>
    BY DEF Running
  <2> QED BY <1>3, <2>1 DEF Later
<1> QED BY <1>2, <1>3, <1>4, <1>5

\* ... with a condition before them too, ...
LEMMA HandledOnly ==
    ASSUME NEW condition, NEW s, Handled(s)
    PROVE  /\ Handled(Only(condition, s))
           /\ Elements(Only(condition, s)) = IF condition THEN Elements(s) ELSE {}
  BY HandledShort DEF Only

\* ... and joined, when one of the two has no reply.
LEMMA HandledJoined ==
    ASSUME NEW a, NEW b, Handled(a), Handled(b),
           \/ \A x \in Elements(a) : x.op # "reply"
           \/ \A x \in Elements(b) : x.op # "reply"
    PROVE  Handled(a \o b) /\ Elements(a \o b) = Elements(a) \union Elements(b)
<1>1. a \in Seq(Steps) /\ b \in Seq(Steps) /\ Pairs(TodoOrder, a) /\ Pairs(TodoOrder, b)
  BY DEF Handled
<1>2. a \o b \in Seq(Steps) /\ Elements(a \o b) = Elements(a) \union Elements(b)
  BY <1>1, JoinedElements
<1>3. ASSUME NEW x \in Elements(a), NEW y \in Elements(b) PROVE << x, y >> \in TodoOrder
  <2>1. x \in Steps /\ y \in Steps
    BY <1>1, ListElements
  <2>2. y.op \in Later \union {"reply"} /\ (x.op # "reply" \/ y.op # "reply")
    BY DEF Handled
  <2> QED BY <2>1, <2>2, TodoOrderOf DEF Later, FirstOnly
<1>4. Pairs(TodoOrder, a \o b)
  BY <1>1, <1>3, PairsJoined
<1> QED BY <1>2, <1>4 DEF Handled

-----------------------------------------------------------------------------
(* What a thread has to do after a step.                                    *)

\* The thread of c takes its step of this name, and has new steps to do.
Moves(c, name, new) ==
    /\ At(c, name) /\ (name # "reply" => Due(c, name))
    /\ \A d \in Comp : d # c => todo'[d] = todo[d]
    /\ \A n \in StepNames :
         /\ Due(c, n)' => n \in new \/ (Due(c, n) /\ n \notin FirstOnly)
         /\ n \in new \/ (Due(c, n) /\ n # name) => Due(c, n)'
    /\ name # "reply" => \A id \in Command : Served(c, id)' <=> Served(c, id)
    /\ TodoInv'

\* The thread of c takes a message off its queue, and has new steps to do.
Handles(c, id, new) ==
    /\ \A n \in StepNames : ~ Due(c, n) /\ ~ At(c, n)
    /\ \A jd \in Command : ~ Served(c, jd)
    /\ \A d \in Comp : d # c => todo'[d] = todo[d] /\ mq'[d] = mq[d]
    /\ Posted(c, id)
    /\ \A jd \in Command : Posted(c, jd)' <=> Posted(c, jd) /\ jd # id
    /\ Len(mq'[c]) = Len(mq[c]) - 1 /\ Len(mq[c]) \in Nat \ {0}
    /\ \A n \in StepNames : Due(c, n)' <=> n \in new
    /\ \A jd \in Command : Served(c, jd)' <=> jd = id
    /\ TodoInv' /\ QueueTypes'
    /\ UNCHANGED << replySem, playerVars >>

\* What follows the first step of a thread is in order.
LEMMA FirstStep ==
    ASSUME ThreadInv, NEW c \in Comp, NEW name, At(c, name)
    PROVE  /\ todo[c] \in Seq(Steps) /\ todo[c] # << >> /\ Head(todo[c]) \in Steps
           /\ Tail(todo[c]) \in Seq(Steps)
           /\ Pairs(TodoOrder, Tail(todo[c]))
           /\ Elements(todo[c]) = {Head(todo[c])} \union Elements(Tail(todo[c]))
           /\ \A y \in Elements(Tail(todo[c])) :
                /\ y \in Steps /\ y.op \notin FirstOnly
                /\ name # "reply" \/ y.op # "reply"
                /\ y.op = "decContinue" => name = "reopen"
           /\ name # "reply" => Head(todo[c]) = Step(name)
           /\ name = "reply" => \E id \in Command : Head(todo[c]) = ReplyTo(id)
<1>1. todo[c] \in Seq(Steps) /\ todo[c] # << >> /\ Pairs(TodoOrder, todo[c])
      /\ Head(todo[c]).op = name
  BY DEF ThreadInv, TodoInv, At
<1>2. /\ Head(todo[c]) \in Steps /\ Tail(todo[c]) \in Seq(Steps)
      /\ Pairs(TodoOrder, Tail(todo[c]))
      /\ Elements(todo[c]) = {Head(todo[c])} \union Elements(Tail(todo[c]))
      /\ \A y \in Elements(Tail(todo[c])) : << Head(todo[c]), y >> \in TodoOrder
  BY <1>1, Rest
<1>3. Elements(Tail(todo[c])) \subseteq Steps
  BY <1>2, ListElements
<1> DEFINE h == Head(todo[c])
           rest == Tail(todo[c])
<1>4. h \in Steps /\ h.op = name /\ \A y \in Elements(rest) : << h, y >> \in TodoOrder
  BY <1>1, <1>2
<1> HIDE DEF h, rest
<1>5. ASSUME NEW y \in Elements(rest)
      PROVE  /\ y \in Steps /\ y.op \notin FirstOnly
             /\ name # "reply" \/ y.op # "reply"
             /\ y.op = "decContinue" => name = "reopen"
  <2>1. y \in Steps
    BY <1>3 DEF rest
  <2> QED BY <1>4, <2>1, TodoOrderOf
<1>6. /\ name # "reply" => h = Step(name)
      /\ name = "reply" => \E id \in Command : h = ReplyTo(id)
  BY <1>4, StepForms DEF StepNames
<1> QED BY <1>1, <1>2, <1>3, <1>5, <1>6 DEF h, rest

\* Steps that are first in a list are first in the thread's.
LEMMA FirstIsFirst ==
    ASSUME ThreadInv, NEW c \in Comp, NEW name \in StepNames
    PROVE  /\ At(c, name) => Due(c, name)
           /\ Due(c, name) /\ name \in FirstOnly => At(c, name)
           /\ Due(c, name) => todo[c] # << >>
<1>1. At(c, name) => Due(c, name)
  BY FirstStep DEF Due, StepNames
<1>2. ASSUME Due(c, name) PROVE todo[c] # << >>
  BY <1>2 DEF Due, Elements
<1>3. ASSUME Due(c, name), name \in FirstOnly PROVE At(c, name)
  <2>1. PICK first : At(c, first)
    BY <1>2, <1>3 DEF At
  <2>2. Step(name) = Head(todo[c]) \/ Step(name).op \notin FirstOnly
    BY <1>3, <2>1, FirstStep DEF Due
  <2> QED BY <1>2, <1>3, <2>2, StepForms DEF At
<1> QED BY <1>1, <1>2, <1>3

\* A thread does its first step and puts others in its place, ...
LEMMA Proceeds ==
    ASSUME ThreadInv, NEW c \in Comp, NEW name, At(c, name), NEW steps \in Seq(Steps),
           Proceed(c, steps), Pairs(TodoOrder, steps),
           \A x \in Elements(steps) : x.op # "reply",
           name = "reopen" => steps = << >>,
           NEW new, \A n \in StepNames : n \in new <=> Step(n) \in Elements(steps)
    PROVE  Moves(c, name, new)
<1> DEFINE rest == Tail(todo[c])
           list == steps \o rest
<1>1. /\ rest \in Seq(Steps) /\ Pairs(TodoOrder, rest)
      /\ Elements(todo[c]) = {Head(todo[c])} \union Elements(rest)
      /\ \A y \in Elements(rest) :
                /\ y \in Steps /\ y.op \notin FirstOnly
                /\ name # "reply" \/ y.op # "reply"
                /\ y.op = "decContinue" => name = "reopen"
      /\ name # "reply" => Head(todo[c]) = Step(name)
  BY FirstStep
<1>2. /\ \A d \in Comp : todo'[d] = IF d = c THEN list ELSE todo[d]
      /\ todo' = [todo EXCEPT ![c] = list]
  BY DEF ThreadInv, TodoInv, Proceed
<1> HIDE DEF rest
<1>3. list \in Seq(Steps) /\ Elements(list) = Elements(steps) \union Elements(rest)
  BY <1>1, JoinedElements
<1>4. ASSUME NEW x \in Elements(steps), NEW y \in Elements(rest)
      PROVE  << x, y >> \in TodoOrder
  <2>1. x \in Steps /\ y \in Steps
    BY <1>1, ListElements
  <2>2. name # "reopen"
    BY DEF Elements
  <2> QED BY <1>1, <2>1, <2>2, TodoOrderOf
<1>5. Pairs(TodoOrder, list)
  BY <1>1, <1>4, PairsJoined
<1> HIDE DEF list
<1>6. TodoInv'
  <2>1. todo' \in [Comp -> Seq(Steps)]
    BY <1>2, <1>3 DEF ThreadInv, TodoInv
  <2>2. \A d \in Comp : Pairs(TodoOrder, todo'[d])
    BY <1>2, <1>5 DEF ThreadInv, TodoInv
  <2> QED BY <2>1, <2>2 DEF TodoInv
<1>7. todo'[c] = list
  BY <1>2
<1>8. ASSUME NEW n \in StepNames
      PROVE  /\ Due(c, n)' => n \in new \/ (Due(c, n) /\ n \notin FirstOnly)
             /\ n \in new \/ (Due(c, n) /\ n # name) => Due(c, n)'
  <2>1. Due(c, n)' <=> Step(n) \in Elements(steps) \/ Step(n) \in Elements(rest)
    BY <1>3, <1>7 DEF Due
  <2>2. Due(c, n) <=> Step(n) = Head(todo[c]) \/ Step(n) \in Elements(rest)
    BY <1>1 DEF Due
  <2>3. Step(n) \in Elements(rest) => n \notin FirstOnly
    BY <1>1, StepForms
  <2>4. Step(n) = Head(todo[c]) => n = name
    BY StepForms DEF At
  <2> QED BY <2>1, <2>2, <2>3, <2>4
<1>9. ASSUME name # "reply", NEW id \in Command PROVE Served(c, id)' <=> Served(c, id)
  <2>1. ReplyTo(id) # Step(name) /\ ReplyTo(id) \notin Elements(steps)
    BY StepForms
  <2> QED BY <1>1, <1>3, <1>7, <1>9, <2>1 DEF Served
<1>10. name # "reply" => Due(c, name)
  BY <1>1 DEF Due
<1>11. \A d \in Comp : d # c => todo'[d] = todo[d]
  BY <1>2
<1> QED BY <1>6, <1>8, <1>9, <1>10, <1>11 DEF Moves

\* ... none, ...
LEMMA ProceedsNone ==
    ASSUME ThreadInv, NEW c \in Comp, NEW name, At(c, name), Proceed(c, << >>)
    PROVE  Moves(c, name, {})
<1>1. << >> \in Seq(Steps) /\ Elements(<< >>) = {} /\ Pairs(TodoOrder, << >>)
  BY HandledShort DEF Handled
<1> QED BY <1>1, Proceeds

\* ... one, ...
LEMMA ProceedsOne ==
    ASSUME ThreadInv, NEW c \in Comp, NEW name, At(c, name), NEW n \in StepNames,
           Proceed(c, << Step(n) >>), name # "reopen"
    PROVE  Moves(c, name, {n})
<1> DEFINE x == Step(n)
           s == << x >>
<1>1. x \in Steps /\ x.op = n /\ n # "reply"
  BY StepForms DEF StepNames
<1>2. s \in Seq(Steps)
  BY <1>1
<1>3. Elements(s) = {x}
  BY DEF Elements
<1>4. Pairs(TodoOrder, s)
  BY PairsShort, Zenon
<1>5. Proceed(c, s)
  OBVIOUS
<1>6. \A k \in StepNames : k \in {n} <=> Step(k) \in Elements(s)
  BY <1>3, StepForms
<1> HIDE DEF x, s
<1> QED BY <1>1, <1>2, <1>3, <1>4, <1>5, <1>6, Proceeds

\* ... one under a condition, ...
LEMMA ProceedsOnly ==
    ASSUME ThreadInv, NEW c \in Comp, NEW name, At(c, name), NEW n \in StepNames,
           NEW condition \in BOOLEAN,
           Proceed(c, Only(condition, << Step(n) >>)), name # "reopen"
    PROVE  Moves(c, name, IF condition THEN {n} ELSE {})
<1>1. CASE condition
  BY <1>1, ProceedsOne DEF Only
<1>2. CASE ~ condition
  BY <1>2, ProceedsNone DEF Only
<1> QED BY <1>1, <1>2

\* ... or those that reopen the engine.
LEMMA ProceedsReopen ==
    ASSUME ThreadInv, At("render", "picture"),
           Proceed("render", << Step("reopen"), Step("decContinue") >> \o Running)
    PROVE  Moves("render", "picture", {"reopen", "decContinue", "continue"})
<1> DEFINE x == Step("reopen")
           y == Step("decContinue")
           z == Step("continue")
           a == << x, y >>
           s == a \o Running
<1>1. /\ x \in Steps /\ y \in Steps /\ z \in Steps
      /\ x.op = "reopen" /\ y.op = "decContinue" /\ z.op = "continue"
  BY StepForms DEF StepNames
<1>2. a \in Seq(Steps)
  BY <1>1
<1>3. Elements(a) = {x, y}
  BY DEF Elements
<1>4. << x, y >> \in TodoOrder /\ << x, z >> \in TodoOrder /\ << y, z >> \in TodoOrder
  BY <1>1, TodoOrderOf DEF FirstOnly
<1>5. Running \in Seq(Steps) /\ Elements(Running) = {z} /\ Pairs(TodoOrder, Running)
  BY HandledShort DEF Handled
<1>6. Pairs(TodoOrder, a)
  BY <1>4, PairsShort, Zenon
<1> HIDE DEF x, y, z, a
<1>7. \A u \in Elements(a), v \in Elements(Running) : << u, v >> \in TodoOrder
  BY <1>3, <1>4, <1>5
<1>8. Pairs(TodoOrder, s)
  BY <1>2, <1>5, <1>6, <1>7, PairsJoined
<1>9. s \in Seq(Steps) /\ Elements(s) = {x, y, z}
  BY <1>2, <1>3, <1>5, JoinedElements
<1>10. Proceed("render", s)
  BY DEF a, x, y
<1>11. \A k \in StepNames : k \in {"reopen", "decContinue", "continue"} <=> Step(k) \in Elements(s)
  BY <1>9, StepForms DEF x, y, z
<1> HIDE DEF s
<1>12. \A u \in Elements(s) : u.op # "reply"
  BY <1>1, <1>9
<1> QED BY <1>8, <1>9, <1>10, <1>11, <1>12, Proceeds DEF Comp

\* When a message may stand before another one in a queue.
LEMMA QueueOrderOf ==
    \A x \in Messages, y \in Messages :
       << x, y >> \in QueueOrder <=> (x = y => x = "continue")
  BY DEF QueueOrder

\* A thread takes the first message and gets the steps of its handler.
LEMMA TakesMessage ==
    ASSUME ThreadInv, NEW c \in Comp, NEW id \in Messages, NEW steps, Take(c, id, steps),
           steps \in Seq(Steps), Pairs(TodoOrder, steps),
           \A jd \in Command : ReplyTo(jd) \in Elements(steps) <=> jd = id,
           NEW new, \A n \in StepNames : n \in new <=> Step(n) \in Elements(steps)
    PROVE  Handles(c, id, new)
<1>1. /\ todo[c] = << >> /\ mq[c] # << >> /\ Head(mq[c]) = id
      /\ mq' = [mq EXCEPT ![c] = Tail(@)] /\ todo' = [todo EXCEPT ![c] = steps]
      /\ UNCHANGED << replySem, playerVars >>
  BY DEF Take
<1>2. /\ mq[c] \in Seq(Messages) /\ Pairs(QueueOrder, mq[c])
      /\ mq \in [Comp -> Seq(Messages)] /\ todo \in [Comp -> Seq(Steps)]
  BY DEF ThreadInv, QueueTypes, TodoInv
<1>3. /\ Tail(mq[c]) \in Seq(Messages) /\ Pairs(QueueOrder, Tail(mq[c]))
      /\ Elements(mq[c]) = {id} \union Elements(Tail(mq[c]))
      /\ \A y \in Elements(Tail(mq[c])) : << id, y >> \in QueueOrder
      /\ Len(Tail(mq[c])) = Len(mq[c]) - 1 /\ Len(mq[c]) \in Nat \ {0}
  BY <1>1, <1>2, Rest
<1>4. \A d \in Comp : /\ mq'[d] = IF d = c THEN Tail(mq[c]) ELSE mq[d]
                      /\ todo'[d] = IF d = c THEN steps ELSE todo[d]
  BY <1>1, <1>2
<1>5. \A n \in StepNames : ~ Due(c, n) /\ ~ At(c, n)
  BY <1>1 DEF Due, At, Elements
<1>6. \A jd \in Command : ~ Served(c, jd)
  BY <1>1 DEF Served, Elements
<1>7. QueueTypes'
  <2>1. mq' \in [Comp -> Seq(Messages)]
    BY <1>1, <1>2, <1>3
  <2>2. \A d \in Comp : Pairs(QueueOrder, mq'[d])
    BY <1>3, <1>4 DEF ThreadInv, QueueTypes
  <2> QED BY <2>1, <2>2 DEF QueueTypes
<1>8. TodoInv'
  <2>1. todo' \in [Comp -> Seq(Steps)]
    BY <1>1, <1>2
  <2>2. \A d \in Comp : Pairs(TodoOrder, todo'[d])
    BY <1>4 DEF ThreadInv, TodoInv
  <2> QED BY <2>1, <2>2 DEF TodoInv
<1>9. ASSUME NEW jd \in Command PROVE Posted(c, jd)' <=> Posted(c, jd) /\ jd # id
  <2>1. jd = id => id \notin Elements(Tail(mq[c]))
    <3>1. id = jd => << id, id >> \notin QueueOrder
      BY QueueOrderOf DEF Messages, Command
    <3> QED BY <1>3, <3>1
  <2>2. mq'[c] = Tail(mq[c])
    BY <1>4
  <2> QED BY <1>3, <2>1, <2>2 DEF Posted
<1>10. Posted(c, id)
  BY <1>3 DEF Posted
<1>11. \A n \in StepNames : Due(c, n)' <=> n \in new
  BY <1>4 DEF Due
<1>12. \A jd \in Command : Served(c, jd)' <=> jd = id
  BY <1>4 DEF Served
<1>13. Len(mq'[c]) = Len(mq[c]) - 1
  BY <1>3, <1>4
<1>14. \A d \in Comp : d # c => todo'[d] = todo[d] /\ mq'[d] = mq[d]
  BY <1>4
<1> QED BY <1>1, <1>3, <1>5, <1>6, <1>7, <1>8, <1>9, <1>10, <1>11, <1>12, <1>13, <1>14 DEF Handles

-----------------------------------------------------------------------------
(* What a step leaves as it is.                                             *)

ThreadSame(c) ==
    /\ \A n \in StepNames : (Due(c, n)' <=> Due(c, n)) /\ (At(c, n)' <=> At(c, n))
    /\ \A id \in Command : Served(c, id)' <=> Served(c, id)
QueueSame(c) == /\ mq'[c] = mq[c]
                /\ \A id \in Command : Posted(c, id)' <=> Posted(c, id)
RepliesSame == \A c \in Comp, id \in Command : Answered(c, id)' <=> Answered(c, id)
CallersSame ==
    /\ \A t \in Caller, c \in Comp, id \in Command :
         (Calls(t, c, id)' <=> Calls(t, c, id)) /\ (Waits(t, c, id)' <=> Waits(t, c, id))
    /\ \A value \in Statuses :
         Has("xplayer", SetStatus(value))' <=> Has("xplayer", SetStatus(value))
    /\ Has("xplayer", Join("dec"))' <=> Has("xplayer", Join("dec"))
    /\ Idle("xplayer") => Idle("xplayer")'
    /\ eStatus' = eStatus
FlagsSame(c) ==
    /\ status'[c] = status[c]
    /\ firstShown'[c] = firstShown[c]
    /\ bEosFlag'[c] = bEosFlag[c]

\* Unchanged variables leave the steps, messages, replies, scripts and flags alone.
LEMMA LeftAlone ==
    /\ \A c \in Comp : todo'[c] = todo[c] => ThreadSame(c)
    /\ \A c \in Comp : mq'[c] = mq[c] => QueueSame(c)
    /\ UNCHANGED replySem => RepliesSame
    /\ UNCHANGED playerVars => CallersSame
    /\ UNCHANGED compVars => \A c \in Comp : FlagsSame(c)
<1>1. ASSUME NEW c \in Comp, todo'[c] = todo[c] PROVE ThreadSame(c)
  BY <1>1 DEF ThreadSame, Due, At, Served
<1>2. ASSUME NEW c \in Comp, mq'[c] = mq[c] PROVE QueueSame(c)
  BY <1>2 DEF QueueSame, Posted
<1>3. UNCHANGED replySem => RepliesSame
  BY DEF RepliesSame, Answered
<1>4. UNCHANGED playerVars => CallersSame
  BY DEF CallersSame, playerVars, Calls, Waits, Has, Idle
<1>5. UNCHANGED compVars => \A c \in Comp : FlagsSame(c)
  BY DEF FlagsSame, compVars
<1> QED BY <1>1, <1>2, <1>3, <1>4, <1>5

\* A thread that takes a message leaves the other thread and the callers alone, ...
LEMMA HandlesLeaves ==
    ASSUME NEW c \in Comp, NEW id, NEW new, Handles(c, id, new)
    PROVE  /\ \A d \in Comp : d # c => ThreadSame(d) /\ QueueSame(d)
           /\ RepliesSame /\ CallersSame
  BY LeftAlone DEF Handles

\* ... and one that takes a step leaves the other thread's steps alone.
LEMMA MovesLeaves ==
    ASSUME NEW c \in Comp, NEW name, NEW new, Moves(c, name, new)
    PROVE  \A d \in Comp : d # c => ThreadSame(d)
  BY LeftAlone DEF Moves

\* A message is put into the queue of c.
Posts(c, id) ==
    /\ mq'[c] # << >> /\ Len(mq'[c]) = Len(mq[c]) + 1 /\ Len(mq[c]) \in Nat
    /\ \A jd \in Command : Posted(c, jd)' <=> Posted(c, jd) \/ jd = id
    /\ \A d \in Comp : d # c => QueueSame(d)
    /\ QueueTypes'

\* A message is put behind the others, a command when it is not there yet.
LEMMA PostedMessage ==
    ASSUME ThreadInv, NEW c \in Comp, NEW id \in Messages, Post(c, id),
           id = "continue" \/ ~ Posted(c, id)
    PROVE  Posts(c, id)
<1>1. /\ mq[c] \in Seq(Messages) /\ Pairs(QueueOrder, mq[c])
      /\ mq \in [Comp -> Seq(Messages)]
  BY DEF ThreadInv, QueueTypes
<1>2. ASSUME NEW y \in Elements(mq[c]) PROVE << y, id >> \in QueueOrder
  <2>1. y \in Messages
    BY <1>1, ListElements
  <2>2. y = id => id = "continue"
    BY DEF Posted
  <2> QED BY <2>1, <2>2, QueueOrderOf
<1> DEFINE new == Append(mq[c], id)
<1>3. /\ new \in Seq(Messages) /\ Pairs(QueueOrder, new)
      /\ Elements(new) = Elements(mq[c]) \union {id}
      /\ Len(new) = Len(mq[c]) + 1 /\ new # << >>
  BY <1>1, <1>2, PairsPosted
<1>4. mq' = [mq EXCEPT ![c] = new]
  BY DEF Post
<1> HIDE DEF new
<1>5. \A d \in Comp : mq'[d] = IF d = c THEN new ELSE mq[d]
  BY <1>1, <1>4
<1>6. QueueTypes'
  <2>1. mq' \in [Comp -> Seq(Messages)]
    BY <1>1, <1>3, <1>4
  <2>2. \A d \in Comp : Pairs(QueueOrder, mq'[d])
    BY <1>3, <1>5 DEF ThreadInv, QueueTypes
  <2> QED BY <2>1, <2>2 DEF QueueTypes
<1>7. \A jd \in Command : Posted(c, jd)' <=> Posted(c, jd) \/ jd = id
  BY <1>3, <1>5 DEF Posted
<1>8. \A d \in Comp : d # c => QueueSame(d)
  BY <1>5, LeftAlone
<1>9. Len(mq[c]) \in Nat
  BY <1>1
<1> QED BY <1>3, <1>5, <1>6, <1>7, <1>8, <1>9 DEF Posts

\* The thread of c answers a command, and has no other to answer.
Replies(c, id) ==
    /\ Moves(c, "reply", {})
    /\ \A jd \in Command : (Served(c, jd) <=> jd = id) /\ ~ Served(c, jd)'
    /\ replySem' = [replySem EXCEPT ![c][id] = @ + 1]

\* A reply is for the command that the thread has worked on.
LEMMA SendsReply ==
    ASSUME ThreadInv, NEW c \in Comp, SendReply(c)
    PROVE  \E id \in Command : Replies(c, id)
<1>1. At(c, "reply") /\ Proceed(c, << >>)
  BY DEF SendReply
<1>2. /\ Elements(todo[c]) = {Head(todo[c])} \union Elements(Tail(todo[c]))
      /\ \A y \in Elements(Tail(todo[c])) : y.op # "reply"
      /\ Tail(todo[c]) \in Seq(Steps)
  BY <1>1, FirstStep
<1>3. PICK id \in Command : Head(todo[c]) = ReplyTo(id)
  BY <1>1, FirstStep
<1>4. replySem' = [replySem EXCEPT ![c][id] = @ + 1]
  BY <1>3, StepForms DEF SendReply
<1>5. todo'[c] = << >> \o Tail(todo[c])
  BY <1>1 DEF Proceed, ThreadInv, TodoInv
<1>6. todo'[c] = Tail(todo[c])
  BY <1>2, <1>5
<1>7. ASSUME NEW jd \in Command
      PROVE  (Served(c, jd) <=> jd = id) /\ ~ Served(c, jd)'
  <2>1. ReplyTo(jd) \notin Elements(Tail(todo[c]))
    BY <1>2, StepForms
  <2>2. ReplyTo(jd) = ReplyTo(id) <=> jd = id
    BY StepForms
  <2> QED BY <1>2, <1>3, <1>6, <2>1, <2>2 DEF Served
<1>8. Moves(c, "reply", {})
  BY <1>1, ProceedsNone
<1> QED BY <1>4, <1>7, <1>8 DEF Replies

-----------------------------------------------------------------------------
(* The messages that the threads take.                                      *)

\* A command that is in a queue has a caller that waits for it.
LEMMA TakenFor ==
    ASSUME CallerInv, Protocol, NEW c \in Comp, NEW id \in Command, Posted(c, id),
           c # "render" \/ id # "eos"
    PROVE  \E t \in Caller : Waits(t, c, id) /\ Ahead(t, c, id) /\ Left(t, c, id)
<1>1. Waiter(c, id)
  BY DEF Protocol
<1> QED BY <1>1 DEF Waiter, Ahead, Left

\* A component that is told to stop is not stopped yet.
LEMMA StopFindsStarted ==
    ASSUME CallerInv, Protocol, StatusInv, NEW c \in Comp, Posted(c, "stop")
    PROVE  status[c] # "STOPPED"
<1>1. AheadOf(c, "stop")
  BY TakenFor DEF AheadOf, Command
<1> QED BY <1>1 DEF StatusInv, StatusOf

\* One step to do.
LEMMA SingleStep ==
    ASSUME NEW name \in StepNames
    PROVE  /\ << Step(name) >> \in Seq(Steps) /\ Pairs(TodoOrder, << Step(name) >>)
           /\ Elements(<< Step(name) >>) = {Step(name)}
<1>1. Step(name) \in Steps
  BY StepForms
<1>2. Pairs(TodoOrder, << Step(name) >>)
  BY PairsShort, Zenon
<1>3. Elements(<< Step(name) >>) = {Step(name)}
  BY DEF Elements
<1> QED BY <1>1, <1>2, <1>3

\* A handler that replies, with steps before and after the reply.
LEMMA HandlesCommand ==
    ASSUME ThreadInv, NEW c \in Comp, NEW id \in Command, NEW steps, Take(c, id, steps),
           Handled(steps), NEW new \in SUBSET StepNames,
           Elements(steps) = {ReplyTo(id)} \union {Step(n) : n \in new}
    PROVE  Handles(c, id, new)
<1>1. steps \in Seq(Steps) /\ Pairs(TodoOrder, steps) /\ id \in Messages
  BY DEF Handled, Messages
<1>2. \A jd \in Command : ReplyTo(jd) \in Elements(steps) <=> jd = id
  BY StepForms
<1>3. \A n \in StepNames : n \in new <=> Step(n) \in Elements(steps)
  BY StepForms
<1> QED BY <1>1, <1>2, <1>3, TakesMessage

\* A step that has a name is not a reply.
LEMMA NoReplyIn ==
    \A name : \A x \in {Step(name)} : name \in StepNames => x.op # "reply"
  BY StepForms DEF StepNames

\* The decode thread takes the start, ...
LEMMA DecStartIs ==
    ASSUME ThreadInv, DecStart
    PROVE  /\ Handles("dec", "start",
                {n \in {"continue", "reset"} :
                   \/ status["dec"] = "STOPPED"
                   \/ status["dec"] = "PAUSED" /\ ~ bCrashFlag /\ n = "continue"})
           /\ FlagsSame("render") /\ status'["dec"] = "STARTED"
           /\ firstShown'["dec"] = firstShown["dec"]
           /\ bEosFlag'["dec"] = (bEosFlag["dec"] /\ status["dec"] # "STOPPED")
           /\ UNCHANGED << bCrashFlag, bResolutionChange >>
<1> DEFINE paused == status["dec"] = "PAUSED" /\ ~ bCrashFlag
           stopped == status["dec"] = "STOPPED"
           z == << Step("reset") >>
           a == Only(paused, Running)
           b == Only(stopped, Running \o z)
           r == << ReplyTo("start") >>
           new == {n \in {"continue", "reset"} :
                   \/ status["dec"] = "STOPPED"
                   \/ status["dec"] = "PAUSED" /\ ~ bCrashFlag /\ n = "continue"}
           x == Step("continue")
           y == Step("reset")
           w == ReplyTo("start")
<1>1. Take("dec", "start", (a \o b) \o r)
  BY DEF DecStart
<1>2. /\ Handled(Running) /\ Elements(Running) = {x}
      /\ Handled(z) /\ Elements(z) = {y}
      /\ Handled(r) /\ Elements(r) = {w}
  BY HandledShort DEF Later, Command
<1>3. x.op # "reply" /\ y.op # "reply"
  BY StepForms
<1>10. {w} \union (IF paused THEN {x} ELSE {}) \union (IF stopped THEN {x, y} ELSE {})
         = {w} \union {Step(n) : n \in new}
  OBVIOUS
<1>11. new \in SUBSET StepNames
  BY DEF StepNames
<1> HIDE DEF x, y, z, w, r, paused, stopped, new
<1>4. Handled(Running \o z) /\ Elements(Running \o z) = {x, y}
  BY <1>2, <1>3, HandledJoined
<1>5. Handled(a) /\ Elements(a) = IF paused THEN {x} ELSE {}
  BY <1>2, HandledOnly
<1>6. Handled(b) /\ Elements(b) = IF stopped THEN {x, y} ELSE {}
  BY <1>4, HandledOnly
<1> HIDE DEF a, b
<1>7. Handled(a \o b) /\ Elements(a \o b) = Elements(a) \union Elements(b)
  BY <1>3, <1>5, <1>6, HandledJoined
<1>8. \A v \in Elements(a \o b) : v.op # "reply"
  BY <1>3, <1>5, <1>6, <1>7
<1>9. Handled((a \o b) \o r) /\ Elements((a \o b) \o r) = Elements(a \o b) \union {w}
  BY <1>2, <1>7, <1>8, HandledJoined
<1>12. Elements((a \o b) \o r) = {w} \union {Step(n) : n \in new}
  BY <1>5, <1>6, <1>7, <1>9, <1>10
<1>13. Handles("dec", "start", new)
  BY <1>1, <1>9, <1>11, <1>12, HandlesCommand DEF Comp, Command, w
<1>14. /\ FlagsSame("render") /\ status'["dec"] = "STARTED"
       /\ firstShown'["dec"] = firstShown["dec"]
       /\ bEosFlag'["dec"] = (bEosFlag["dec"] /\ status["dec"] # "STOPPED")
       /\ UNCHANGED << bCrashFlag, bResolutionChange >>
  BY DEF DecStart, FlagsSame, ThreadInv, FlagTypes, Comp
<1> QED BY <1>13, <1>14 DEF new

\* ... the stop, ...
LEMMA DecStopIs ==
    ASSUME ThreadInv, DecStop, status["dec"] # "STOPPED"
    PROVE  /\ Handles("dec", "stop", {"reset"})
           /\ FlagsSame("render") /\ status'["dec"] = "STOPPED"
           /\ firstShown'["dec"] = FALSE /\ bEosFlag'["dec"] = bEosFlag["dec"]
           /\ UNCHANGED << bCrashFlag, bResolutionChange >>
<1> DEFINE x == Step("reset")
           w == ReplyTo("stop")
           b == << x, w >>
           a == << x >>
           r == << w >>
<1>1. Take("dec", "stop", << >> \o b)
  BY DEF DecStop, Only
<1>2. Handled(a) /\ Elements(a) = {x} /\ Handled(r) /\ Elements(r) = {w}
  BY HandledShort DEF Later, Command
<1>3. x \in Steps /\ w \in Steps /\ x.op = "reset" /\ w.op = "reply"
  BY StepForms DEF StepNames, Command
<1>4. << >> \o b = b /\ b = a \o r
  BY <1>3
<1> HIDE DEF x, w, a, r, b
<1>5. Handled(b) /\ Elements(b) = {x, w}
  BY <1>2, <1>3, <1>4, HandledJoined
<1>6. Elements(b) = {w} \union {Step(n) : n \in {"reset"}}
  BY <1>5 DEF x
<1>7. Handles("dec", "stop", {"reset"})
  BY <1>1, <1>4, <1>5, <1>6, HandlesCommand DEF Comp, Command, w, StepNames
<1>8. /\ FlagsSame("render") /\ status'["dec"] = "STOPPED"
      /\ firstShown'["dec"] = FALSE /\ bEosFlag'["dec"] = bEosFlag["dec"]
      /\ UNCHANGED << bCrashFlag, bResolutionChange >>
  BY DEF DecStop, FlagsSame, ThreadInv, FlagTypes, Comp
<1> QED BY <1>7, <1>8

\* ... the pause, ...
LEMMA DecPauseIs ==
    ASSUME ThreadInv, DecPause
    PROVE  /\ Handles("dec", "pause",
                {n \in {"continue"} : Works("dec") /\ ~ firstShown["dec"]})
           /\ FlagsSame("render")
           /\ status'["dec"] = (IF Works("dec") THEN "PAUSED" ELSE status["dec"])
           /\ firstShown'["dec"] = firstShown["dec"] /\ bEosFlag'["dec"] = bEosFlag["dec"]
           /\ UNCHANGED << bCrashFlag, bResolutionChange >>
<1> DEFINE goes == Works("dec") /\ ~ firstShown["dec"]
           a == Only(goes, Running)
           x == Step("continue")
           w == ReplyTo("pause")
           r == << w >>
           new == {n \in {"continue"} : Works("dec") /\ ~ firstShown["dec"]}
<1>1. Take("dec", "pause", a \o r)
  BY DEF DecPause
<1>2. /\ Handled(Running) /\ Elements(Running) = {x} /\ Handled(r) /\ Elements(r) = {w}
  BY HandledShort DEF Command
<1>3. x.op # "reply"
  BY StepForms
<1>4. {w} \union (IF goes THEN {x} ELSE {}) = {w} \union {Step(n) : n \in new}
      /\ new \in SUBSET StepNames
  BY DEF StepNames
<1> HIDE DEF x, w, r, goes, new
<1>5. Handled(a) /\ Elements(a) = IF goes THEN {x} ELSE {}
  BY <1>2, HandledOnly
<1> HIDE DEF a
<1>6. Handled(a \o r) /\ Elements(a \o r) = Elements(a) \union {w}
  BY <1>2, <1>3, <1>5, HandledJoined
<1>7. Handles("dec", "pause", new)
  BY <1>1, <1>4, <1>5, <1>6, HandlesCommand DEF Comp, Command, w
<1>8. /\ FlagsSame("render")
      /\ status'["dec"] = (IF Works("dec") THEN "PAUSED" ELSE status["dec"])
      /\ firstShown'["dec"] = firstShown["dec"] /\ bEosFlag'["dec"] = bEosFlag["dec"]
      /\ UNCHANGED << bCrashFlag, bResolutionChange >>
  BY DEF DecPause, FlagsSame, ThreadInv, FlagTypes, Comp
<1> QED BY <1>7, <1>8 DEF new

\* ... the end of the thread, ...
LEMMA DecQuitIs ==
    ASSUME ThreadInv, DecQuit
    PROVE  /\ Handles("dec", "quit", {"reset", "exited"})
           /\ FlagsSame("render") /\ status'["dec"] = "STOPPED"
           /\ firstShown'["dec"] = firstShown["dec"] /\ bEosFlag'["dec"] = bEosFlag["dec"]
           /\ UNCHANGED << bCrashFlag, bResolutionChange >>
<1> DEFINE x == Step("reset")
           w == ReplyTo("quit")
           y == Step("exited")
           a == << x, w, y >>
<1>1. Take("dec", "quit", a)
  BY DEF DecQuit
<1>2. x \in Steps /\ w \in Steps /\ y \in Steps
      /\ x.op = "reset" /\ w.op = "reply" /\ y.op = "exited"
  BY StepForms DEF StepNames, Command
<1>3. a \in Seq(Steps)
  BY <1>2
<1>4. Elements(a) = {x, w, y}
  BY DEF Elements
<1>5. << x, w >> \in TodoOrder /\ << x, y >> \in TodoOrder /\ << w, y >> \in TodoOrder
  BY <1>2, TodoOrderOf DEF FirstOnly
<1>6. Pairs(TodoOrder, a)
  BY <1>5, PairsShort, Zenon
<1>9. {x, w, y} = {w} \union {Step(n) : n \in {"reset", "exited"}}
  OBVIOUS
<1> HIDE DEF x, w, y, a
<1>7. Handled(a)
  BY <1>2, <1>3, <1>4, <1>6 DEF Handled, Later
<1>8. Handles("dec", "quit", {"reset", "exited"})
  BY <1>1, <1>4, <1>7, <1>9, HandlesCommand DEF Comp, Command, w, StepNames
<1>10. /\ FlagsSame("render") /\ status'["dec"] = "STOPPED"
       /\ firstShown'["dec"] = firstShown["dec"] /\ bEosFlag'["dec"] = bEosFlag["dec"]
       /\ UNCHANGED << bCrashFlag, bResolutionChange >>
  BY DEF DecQuit, FlagsSame, ThreadInv, FlagTypes, Comp
<1> QED BY <1>8, <1>10

\* ... the reset ...
LEMMA DecResetIs ==
    ASSUME ThreadInv, DecReset
    PROVE  /\ Handles("dec", "reset",
                {n \in {"reset", "continue"} : n = "reset" \/ status["dec"] # "STOPPED"})
           /\ FlagsSame("render") /\ status'["dec"] = status["dec"]
           /\ firstShown'["dec"] = FALSE /\ bEosFlag'["dec"] = FALSE
           /\ UNCHANGED << bCrashFlag, bResolutionChange >>
<1> DEFINE goes == status["dec"] # "STOPPED"
           x == Step("reset")
           w == ReplyTo("reset")
           y == Step("continue")
           a == << x >>
           r == << w >>
           b == << x, w >>
           s == Only(goes, Running)
           new == {n \in {"reset", "continue"} : n = "reset" \/ status["dec"] # "STOPPED"}
<1>1. Take("dec", "reset", b \o s)
  BY DEF DecReset, ContinueAfterReset
<1>2. /\ Handled(Running) /\ Elements(Running) = {y}
      /\ Handled(a) /\ Elements(a) = {x} /\ Handled(r) /\ Elements(r) = {w}
  BY HandledShort DEF Later, Command
<1>3. x.op # "reply" /\ y.op # "reply" /\ x \in Steps /\ w \in Steps
  BY StepForms DEF StepNames, Command
<1>4. b = a \o r
  BY <1>3
<1>5. {x, w} \union (IF goes THEN {y} ELSE {}) = {w} \union {Step(n) : n \in new}
      /\ new \in SUBSET StepNames
  BY DEF StepNames
<1> HIDE DEF x, w, y, a, r, b, goes, new
<1>6. Handled(b) /\ Elements(b) = {x, w}
  BY <1>2, <1>3, <1>4, HandledJoined
<1>7. Handled(s) /\ Elements(s) = IF goes THEN {y} ELSE {}
  BY <1>2, HandledOnly
<1> HIDE DEF s
<1>8. Handled(b \o s) /\ Elements(b \o s) = {x, w} \union Elements(s)
  BY <1>3, <1>6, <1>7, HandledJoined
<1>9. Handles("dec", "reset", new)
  BY <1>1, <1>5, <1>7, <1>8, HandlesCommand DEF Comp, Command, w
<1>10. /\ FlagsSame("render") /\ status'["dec"] = status["dec"]
       /\ firstShown'["dec"] = FALSE /\ bEosFlag'["dec"] = FALSE
       /\ UNCHANGED << bCrashFlag, bResolutionChange >>
  BY DEF DecReset, FlagsSame, ThreadInv, FlagTypes, Comp
<1> QED BY <1>9, <1>10 DEF new

\* ... and the end of the stream.
LEMMA DecSetEosIs ==
    ASSUME ThreadInv, DecSetEos
    PROVE  /\ Handles("dec", "eos",
                {n \in {"notifyEos", "continue"} :
                   IF n = "notifyEos" THEN bCrashFlag ELSE ~ bCrashFlag /\ Works("dec")})
           /\ FlagsSame("render") /\ status'["dec"] = status["dec"]
           /\ firstShown'["dec"] = firstShown["dec"] /\ bEosFlag'["dec"] = TRUE
           /\ UNCHANGED << bCrashFlag, bResolutionChange >>
<1> DEFINE goes == ~ bCrashFlag /\ Works("dec")
           crash == bCrashFlag
           x == Step("notifyEos")
           w == ReplyTo("eos")
           y == Step("continue")
           r == << w >>
           n1 == << x >>
           a == Only(crash, n1)
           b == Only(goes, Running)
           new == {n \in {"notifyEos", "continue"} :
                   IF n = "notifyEos" THEN bCrashFlag ELSE ~ bCrashFlag /\ Works("dec")}
<1>1. Take("dec", "eos", (r \o a) \o b)
  BY DEF DecSetEos
<1>2. /\ Handled(Running) /\ Elements(Running) = {y}
      /\ Handled(n1) /\ Elements(n1) = {x} /\ Handled(r) /\ Elements(r) = {w}
  BY HandledShort DEF Later, Command
<1>3. x.op # "reply" /\ y.op # "reply"
  BY StepForms
<1>5. {w} \union (IF crash THEN {x} ELSE {}) \union (IF goes THEN {y} ELSE {})
        = {w} \union {Step(n) : n \in new}
      /\ new \in SUBSET StepNames
  BY DEF StepNames
<1> HIDE DEF x, w, y, r, n1, crash, goes, new
<1>6. Handled(a) /\ Elements(a) = IF crash THEN {x} ELSE {}
  BY <1>2, HandledOnly
<1>7. Handled(b) /\ Elements(b) = IF goes THEN {y} ELSE {}
  BY <1>2, HandledOnly
<1> HIDE DEF a, b
<1>8. Handled(r \o a) /\ Elements(r \o a) = {w} \union Elements(a)
  BY <1>2, <1>3, <1>6, HandledJoined
<1>9. Handled((r \o a) \o b) /\ Elements((r \o a) \o b) = {w} \union Elements(a) \union Elements(b)
  BY <1>3, <1>7, <1>8, HandledJoined
<1>10. Handles("dec", "eos", new)
  BY <1>1, <1>5, <1>6, <1>7, <1>9, HandlesCommand DEF Comp, Command, w
<1>11. /\ FlagsSame("render") /\ status'["dec"] = status["dec"]
       /\ firstShown'["dec"] = firstShown["dec"] /\ bEosFlag'["dec"] = TRUE
       /\ UNCHANGED << bCrashFlag, bResolutionChange >>
  BY DEF DecSetEos, FlagsSame, ThreadInv, FlagTypes, Comp
<1> QED BY <1>10, <1>11 DEF new

\* The commands of the render component: a reply, and then more or nothing.
LEMMA RenderList ==
    ASSUME ThreadInv, NEW id \in Command, NEW condition \in BOOLEAN, NEW name \in Later,
           Take("render", id, << ReplyTo(id) >> \o Only(condition, << Step(name) >>))
    PROVE  Handles("render", id, {n \in {name} : condition})
<1> DEFINE w == ReplyTo(id)
           x == Step(name)
           r == << w >>
           z == << x >>
           s == Only(condition, z)
           new == {n \in {name} : condition}
<1>1. Handled(z) /\ Elements(z) = {x} /\ Handled(r) /\ Elements(r) = {w}
  BY HandledShort
<1>2. x.op # "reply"
  BY StepForms DEF Later
<1>3. {w} \union (IF condition THEN {x} ELSE {}) = {w} \union {Step(n) : n \in new}
      /\ new \in SUBSET StepNames
  BY DEF StepNames, Later
<1>4. Take("render", id, r \o s)
  OBVIOUS
<1> HIDE DEF w, x, r, z, new
<1>5. Handled(s) /\ Elements(s) = IF condition THEN {x} ELSE {}
  BY <1>1, HandledOnly
<1> HIDE DEF s
<1>6. Handled(r \o s) /\ Elements(r \o s) = {w} \union Elements(s)
  BY <1>1, <1>2, <1>5, HandledJoined
<1>7. Handles("render", id, new)
  BY <1>3, <1>4, <1>5, <1>6, HandlesCommand DEF Comp, w
<1> QED BY <1>7 DEF new

\* The render thread takes the start, ...
LEMMA RenderStartIs ==
    ASSUME ThreadInv, RenderStart
    PROVE  /\ Handles("render", "start", {"continue"})
           /\ FlagsSame("dec") /\ status'["render"] = "STARTED"
           /\ firstShown'["render"] = (firstShown["render"] /\ status["render"] # "STOPPED")
           /\ bEosFlag'["render"] = (bEosFlag["render"] /\ status["render"] # "STOPPED")
           /\ UNCHANGED << bCrashFlag, bResolutionChange >>
<1>1. Take("render", "start", << ReplyTo("start") >> \o Only(TRUE, << Step("continue") >>))
  BY DEF RenderStart, Only, Running
<1>2. Handles("render", "start", {n \in {"continue"} : TRUE})
  BY <1>1, RenderList DEF Command, Later
<1>3. {n \in {"continue"} : TRUE} = {"continue"}
  OBVIOUS
<1>4. /\ FlagsSame("dec") /\ status'["render"] = "STARTED"
      /\ firstShown'["render"] = (firstShown["render"] /\ status["render"] # "STOPPED")
      /\ bEosFlag'["render"] = (bEosFlag["render"] /\ status["render"] # "STOPPED")
      /\ UNCHANGED << bCrashFlag, bResolutionChange >>
  BY DEF RenderStart, FlagsSame, ThreadInv, FlagTypes, Comp
<1> QED BY <1>2, <1>3, <1>4

\* A reply without further steps.
LEMMA ReplyOnly ==
    ASSUME NEW id \in Command
    PROVE  << ReplyTo(id) >> = << ReplyTo(id) >> \o Only(FALSE, << Step("continue") >>)
<1> DEFINE w == ReplyTo(id)
<1>1. w \in Steps
  BY StepForms
<1> HIDE DEF w
<1>2. << w >> \o << >> = << w >>
  BY <1>1
<1> QED BY <1>2 DEF Only, w

\* ... the stop, ...
LEMMA RenderStopIs ==
    ASSUME ThreadInv, RenderStop
    PROVE  /\ Handles("render", "stop", {})
           /\ FlagsSame("dec") /\ status'["render"] = "STOPPED"
           /\ firstShown'["render"] = firstShown["render"]
           /\ bEosFlag'["render"] = bEosFlag["render"]
           /\ UNCHANGED << bCrashFlag, bResolutionChange >>
<1>1. Take("render", "stop", << ReplyTo("stop") >> \o Only(FALSE, << Step("continue") >>))
  BY ReplyOnly DEF RenderStop, Command
<1>2. Handles("render", "stop", {n \in {"continue"} : FALSE})
  BY <1>1, RenderList DEF Command, Later
<1>3. {n \in {"continue"} : FALSE} = {}
  OBVIOUS
<1>4. /\ FlagsSame("dec") /\ status'["render"] = "STOPPED"
      /\ firstShown'["render"] = firstShown["render"]
      /\ bEosFlag'["render"] = bEosFlag["render"]
      /\ UNCHANGED << bCrashFlag, bResolutionChange >>
  BY DEF RenderStop, FlagsSame, ThreadInv, FlagTypes, Comp
<1> QED BY <1>2, <1>3, <1>4

\* ... the pause, ...
LEMMA RenderPauseIs ==
    ASSUME ThreadInv, RenderPause
    PROVE  /\ Handles("render", "pause",
                {n \in {"continue"} : Works("render") /\ ~ firstShown["render"]})
           /\ FlagsSame("dec")
           /\ status'["render"] = (IF Works("render") THEN "PAUSED" ELSE status["render"])
           /\ firstShown'["render"] = firstShown["render"]
           /\ bEosFlag'["render"] = bEosFlag["render"]
           /\ UNCHANGED << bCrashFlag, bResolutionChange >>
<1> DEFINE goes == Works("render") /\ ~ firstShown["render"]
<1>1. Take("render", "pause", << ReplyTo("pause") >> \o Only(goes, << Step("continue") >>))
  BY DEF RenderPause, ContinuePaused, Running
<1>2. Handles("render", "pause", {n \in {"continue"} : goes})
  BY <1>1, RenderList DEF Command, Later
<1>4. /\ FlagsSame("dec")
      /\ status'["render"] = (IF Works("render") THEN "PAUSED" ELSE status["render"])
      /\ firstShown'["render"] = firstShown["render"]
      /\ bEosFlag'["render"] = bEosFlag["render"]
      /\ UNCHANGED << bCrashFlag, bResolutionChange >>
  BY DEF RenderPause, FlagsSame, ThreadInv, FlagTypes, Comp
<1> QED BY <1>2, <1>4

\* ... the end of the thread, ...
LEMMA RenderQuitIs ==
    ASSUME ThreadInv, RenderQuit
    PROVE  /\ Handles("render", "quit", {"exited"})
           /\ FlagsSame("dec") /\ status'["render"] = "STOPPED"
           /\ firstShown'["render"] = firstShown["render"]
           /\ bEosFlag'["render"] = bEosFlag["render"]
           /\ UNCHANGED << bCrashFlag, bResolutionChange >>
<1> DEFINE w == ReplyTo("quit")
           x == Step("exited")
<1>1. << w, x >> = << w >> \o << x >>
  <2>1. w \in Steps /\ x \in Steps
    BY StepForms DEF Command, StepNames
  <2> QED BY <2>1
<1>2. Take("render", "quit", << ReplyTo("quit") >> \o Only(TRUE, << Step("exited") >>))
  BY <1>1 DEF RenderQuit, Only
<1>3. Handles("render", "quit", {n \in {"exited"} : TRUE})
  BY <1>2, RenderList DEF Command, Later
<1>4. {n \in {"exited"} : TRUE} = {"exited"}
  OBVIOUS
<1>5. /\ FlagsSame("dec") /\ status'["render"] = "STOPPED"
      /\ firstShown'["render"] = firstShown["render"]
      /\ bEosFlag'["render"] = bEosFlag["render"]
      /\ UNCHANGED << bCrashFlag, bResolutionChange >>
  BY DEF RenderQuit, FlagsSame, ThreadInv, FlagTypes, Comp
<1> QED BY <1>3, <1>4, <1>5

\* ... the reset ...
LEMMA RenderResetIs ==
    ASSUME ThreadInv, RenderReset
    PROVE  /\ Handles("render", "reset", {n \in {"continue"} : status["render"] # "STOPPED"})
           /\ FlagsSame("dec") /\ status'["render"] = status["render"]
           /\ firstShown'["render"] = FALSE /\ bEosFlag'["render"] = FALSE
           /\ UNCHANGED << bCrashFlag, bResolutionChange >>
<1> DEFINE goes == status["render"] # "STOPPED"
<1>1. Take("render", "reset", << ReplyTo("reset") >> \o Only(goes, << Step("continue") >>))
  BY DEF RenderReset, Running
<1>2. Handles("render", "reset", {n \in {"continue"} : goes})
  BY <1>1, RenderList DEF Command, Later
<1>4. /\ FlagsSame("dec") /\ status'["render"] = status["render"]
      /\ firstShown'["render"] = FALSE /\ bEosFlag'["render"] = FALSE
      /\ UNCHANGED << bCrashFlag, bResolutionChange >>
  BY DEF RenderReset, FlagsSame, ThreadInv, FlagTypes, Comp
<1> QED BY <1>2, <1>4

\* ... and the end of the stream.
LEMMA RenderSetEosIs ==
    ASSUME ThreadInv, RenderSetEos
    PROVE  /\ Handles("render", "eos", {n \in {"continue"} : Works("render")})
           /\ FlagsSame("dec") /\ status'["render"] = status["render"]
           /\ firstShown'["render"] = firstShown["render"] /\ bEosFlag'["render"] = TRUE
           /\ UNCHANGED << bCrashFlag, bResolutionChange >>
<1> DEFINE goes == Works("render")
<1>1. Take("render", "eos", << ReplyTo("eos") >> \o Only(goes, << Step("continue") >>))
  BY DEF RenderSetEos, Running
<1>2. goes \in BOOLEAN
  BY DEF Works
<1>3. Handles("render", "eos", {n \in {"continue"} : goes})
  BY <1>1, <1>2, RenderList DEF Command, Later
<1>4. /\ FlagsSame("dec") /\ status'["render"] = status["render"]
      /\ firstShown'["render"] = firstShown["render"] /\ bEosFlag'["render"] = TRUE
      /\ UNCHANGED << bCrashFlag, bResolutionChange >>
  BY DEF RenderSetEos, FlagsSame, ThreadInv, FlagTypes, Comp
<1> QED BY <1>3, <1>4

\* The messages with which the threads go on.
LEMMA HandlesContinue ==
    ASSUME ThreadInv, NEW c \in Comp, NEW condition \in BOOLEAN, NEW name \in StepNames,
           Take(c, "continue", Only(condition, << Step(name) >>))
    PROVE  Handles(c, "continue", {n \in {name} : condition})
<1> DEFINE s == Only(condition, << Step(name) >>)
           new == {n \in {name} : condition}
<1>1. s \in Seq(Steps) /\ Pairs(TodoOrder, s)
      /\ Elements(s) = IF condition THEN {Step(name)} ELSE {}
  BY SingleStep, HandledShort DEF Only, Handled
<1>2. "continue" \in Messages /\ "continue" \notin Command
  BY DEF Messages, Command
<1>3. \A jd \in Command : ReplyTo(jd) \in Elements(s) <=> jd = "continue"
  BY <1>1, <1>2, StepForms
<1>4. \A n \in StepNames : n \in new <=> Step(n) \in Elements(s)
  BY <1>1, StepForms
<1>5. Take(c, "continue", s)
  OBVIOUS
<1> HIDE DEF s, new
<1>6. Handles(c, "continue", new)
  BY <1>1, <1>2, <1>3, <1>4, <1>5, TakesMessage
<1> QED BY <1>6 DEF new

\* The decode thread goes on: it decodes when it has work.
LEMMA DecContinueIs ==
    ASSUME ThreadInv, DecContinue
    PROVE  Handles("dec", "continue", {"doDecode"}) /\ UNCHANGED compVars
<1>1. Take("dec", "continue", Only(TRUE, << Step("doDecode") >>))
  BY DEF DecContinue, Only
<1>2. Handles("dec", "continue", {n \in {"doDecode"} : TRUE})
  BY <1>1, HandlesContinue DEF Comp, StepNames
<1>3. {n \in {"doDecode"} : TRUE} = {"doDecode"}
  OBVIOUS
<1> QED BY <1>2, <1>3 DEF DecContinue

\* The render thread goes on: it asks for a picture when it has work.
LEMMA DoRenderIs ==
    ASSUME ThreadInv, DoRender
    PROVE  /\ Handles("render", "continue", {n \in {"picture"} : Works("render")})
           /\ UNCHANGED compVars
<1>1. Take("render", "continue", Only(Works("render"), << Step("picture") >>))
  BY DEF DoRender
<1>2. Works("render") \in BOOLEAN
  BY DEF Works
<1> QED BY <1>1, <1>2, HandlesContinue DEF DoRender, Comp, StepNames

-----------------------------------------------------------------------------
(* The other steps of the threads.                                          *)

\* A thread goes on with what it has to do, and leaves the queues, the replies
\* and the callers alone.
Goes(c, name, new) ==
    /\ Moves(c, name, new)
    /\ \A d \in Comp : (d # c => ThreadSame(d)) /\ QueueSame(d)
    /\ RepliesSame /\ CallersSame
    /\ UNCHANGED << mq, replySem, playerVars >>

\* A step that only changes the thread's steps and flags.
LEMMA MovesGoes ==
    ASSUME NEW c \in Comp, NEW name, NEW new, Moves(c, name, new),
           UNCHANGED << mq, replySem, playerVars >>
    PROVE  Goes(c, name, new)
  BY MovesLeaves, LeftAlone DEF Goes

\* BaseCompContinue posts a message when the queue is empty.
LEMMA BaseContinueIs ==
    ASSUME ThreadInv, NEW c \in Comp, BaseCompContinue(c)
    PROVE  Goes(c, "continue", IF mq[c] = << >> THEN {"post"} ELSE {}) /\ UNCHANGED compVars
<1>1. Proceed(c, Only(mq[c] = << >>, << Step("post") >>)) /\ At(c, "continue")
      /\ UNCHANGED << mq, replySem, compVars, playerVars >>
  BY DEF BaseCompContinue, QueueFree
<1>2. Moves(c, "continue", IF mq[c] = << >> THEN {"post"} ELSE {})
  BY <1>1, ProceedsOnly DEF StepNames
<1> QED BY <1>1, <1>2, MovesGoes

\* Decoding is begun unless the engine is being reopened.
LEMMA DoDecodeIs ==
    ASSUME ThreadInv, DoDecode
    PROVE  Goes("dec", "doDecode", IF MayDecode THEN {"decode"} ELSE {}) /\ UNCHANGED compVars
<1>1. Proceed("dec", Only(MayDecode, << Step("decode") >>)) /\ At("dec", "doDecode")
      /\ UNCHANGED << mq, replySem, compVars, playerVars >>
  BY DEF DoDecode
<1>2. MayDecode \in BOOLEAN
  BY DEF MayDecode
<1>3. Moves("dec", "doDecode", IF MayDecode THEN {"decode"} ELSE {})
  BY <1>1, <1>2, ProceedsOnly DEF StepNames, Comp
<1> QED BY <1>1, <1>3, MovesGoes DEF Comp

\* What a call of DecodeVideoStream leads to.
LEMMA DecodeIs ==
    ASSUME ThreadInv, DecodeVideoStream
    PROVE  \/ Goes("dec", "decode", {"notifyEos"}) /\ bEosFlag["dec"] /\ UNCHANGED compVars
           \/ Goes("dec", "decode", {"continue"}) /\ UNCHANGED compVars
           \/ /\ Goes("dec", "decode", {}) /\ FlagsSame("dec") /\ FlagsSame("render")
              /\ bCrashFlag' \in BOOLEAN /\ bResolutionChange' \in BOOLEAN
              /\ bCrashFlag \/ bResolutionChange => bCrashFlag' \/ bResolutionChange'
              /\ bCrashFlag' \/ bResolutionChange'
           \/ \E frame \in BOOLEAN :
                /\ firstShown'["dec"] = (firstShown["dec"] \/ frame)
                /\ status'["dec"] = status["dec"] /\ bEosFlag'["dec"] = bEosFlag["dec"]
                /\ FlagsSame("render") /\ UNCHANGED << bCrashFlag, bResolutionChange >>
                /\ Goes("dec", "decode",
                        IF status["dec"] = "STARTED" \/ ~ firstShown'["dec"]
                          THEN {"continue"} ELSE {})
<1>1. At("dec", "decode") /\ UNCHANGED << mq, replySem, playerVars >>
  BY DEF DecodeVideoStream
<1>2. "dec" \in Comp /\ "render" \in Comp /\ "notifyEos" \in StepNames /\ "continue" \in StepNames
  BY DEF Comp, StepNames
<1>3. CASE NoBitstream /\ bEosFlag["dec"]
  <2>1. Proceed("dec", << Step("notifyEos") >>) /\ UNCHANGED compVars
    BY <1>3 DEF NoBitstream
  <2> QED BY <1>1, <1>2, <1>3, <2>1, ProceedsOne, MovesGoes
<1>4. CASE (NoBitstream /\ ~ bEosFlag["dec"]) \/ NoFrameBuffer
  <2>1. Proceed("dec", << Step("continue") >>) /\ UNCHANGED compVars
    BY <1>4 DEF NoBitstream, NoFrameBuffer, Running
  <2> QED BY <1>1, <1>2, <2>1, ProceedsOne, MovesGoes
<1>5. CASE ResolutionChange \/ Unsupported
  <2>1. Proceed("dec", << >>)
    BY <1>5 DEF ResolutionChange, Unsupported
  <2>2. Goes("dec", "decode", {})
    BY <1>1, <1>2, <2>1, ProceedsNone, MovesGoes
  <2>3. /\ FlagsSame("dec") /\ FlagsSame("render")
        /\ bCrashFlag' \in BOOLEAN /\ bResolutionChange' \in BOOLEAN
        /\ bCrashFlag' \/ bResolutionChange'
    BY <1>5 DEF ResolutionChange, Unsupported, FlagsSame, ThreadInv, FlagTypes
  <2> QED BY <2>2, <2>3
<1>6. CASE Decoded
  <2>1. PICK frame \in BOOLEAN :
          /\ firstShown' = [firstShown EXCEPT !["dec"] = @ \/ frame]
          /\ Proceed("dec", Only(status["dec"] = "STARTED" \/ ~ firstShown'["dec"], Running))
          /\ UNCHANGED << status, bEosFlag, bCrashFlag, bResolutionChange >>
    BY <1>6 DEF Decoded
  <2>2. /\ firstShown'["dec"] = (firstShown["dec"] \/ frame)
        /\ status'["dec"] = status["dec"] /\ bEosFlag'["dec"] = bEosFlag["dec"]
        /\ FlagsSame("render") /\ UNCHANGED << bCrashFlag, bResolutionChange >>
    BY <2>1 DEF FlagsSame, ThreadInv, FlagTypes, Comp
  <2> DEFINE on == status["dec"] = "STARTED" \/ ~ firstShown'["dec"]
  <2>3. on \in BOOLEAN /\ Proceed("dec", Only(on, << Step("continue") >>))
    BY <2>1 DEF Running
  <2> HIDE DEF on
  <2>4. Moves("dec", "decode", IF on THEN {"continue"} ELSE {})
    BY <1>1, <1>2, <2>3, ProceedsOnly
  <2>5. Goes("dec", "decode", IF on THEN {"continue"} ELSE {})
    BY <1>1, <1>2, <2>4, MovesGoes
  <2> QED BY <2>2, <2>5 DEF on
<1> QED BY <1>3, <1>4, <1>5, <1>6 DEF DecodeVideoStream

\* The decoder is reset with no further step.
LEMMA ResetDecoderIs ==
    ASSUME ThreadInv, ResetVideoDecoder
    PROVE  Goes("dec", "reset", {}) /\ UNCHANGED compVars
  BY ProceedsNone, MovesGoes DEF ResetVideoDecoder, Comp

\* A picture comes: the thread goes on, unless it is paused and has shown one.
LEMMA PictureIs ==
    ASSUME ThreadInv, PictureComes
    PROVE  /\ FlagsSame("dec") /\ UNCHANGED << bCrashFlag, bResolutionChange >>
           /\ status'["render"] = status["render"] /\ bEosFlag'["render"] = bEosFlag["render"]
           /\ \/ /\ firstShown'["render"] = TRUE
                 /\ Goes("render", "picture",
                         IF status["render"] = "STARTED" THEN {"continue"} ELSE {})
              \/ /\ firstShown'["render"] = firstShown["render"]
                 /\ Goes("render", "picture", {"continue"})
<1>1. At("render", "picture") /\ UNCHANGED OtherThanPicture /\ (ShowPicture \/ DropPicture)
  BY DEF PictureComes
<1>2. /\ UNCHANGED << mq, replySem, playerVars >>
      /\ UNCHANGED << status, bEosFlag, bCrashFlag, bResolutionChange >>
      /\ FlagsSame("dec")
  BY <1>1 DEF OtherThanPicture, ShowPicture, DropPicture, FlagsSame, ThreadInv, FlagTypes, Comp
<1>3. "render" \in Comp /\ "continue" \in StepNames
  BY DEF Comp, StepNames
<1>4. CASE ShowPicture
  <2>1. /\ firstShown'["render"] = TRUE
        /\ Proceed("render", Only(status["render"] = "STARTED", << Step("continue") >>))
    BY <1>4 DEF ShowPicture, ThreadInv, FlagTypes, Comp, Running
  <2>2. Moves("render", "picture", IF status["render"] = "STARTED" THEN {"continue"} ELSE {})
    BY <1>1, <1>3, <2>1, ProceedsOnly
  <2> QED BY <1>2, <1>3, <2>1, <2>2, MovesGoes
<1>5. CASE DropPicture
  <2>1. UNCHANGED firstShown /\ Proceed("render", << Step("continue") >>)
    BY <1>5 DEF DropPicture, Running
  <2>2. Moves("render", "picture", {"continue"})
    BY <1>1, <1>3, <2>1, ProceedsOne
  <2> QED BY <1>2, <1>3, <2>1, <2>2, MovesGoes
<1> QED BY <1>1, <1>4, <1>5

\* No picture comes: the thread leaves for a message or at the end of the stream, or
\* reopens the engine.
LEMMA NoPictureIs ==
    ASSUME ThreadInv, NoPictureComes
    PROVE  /\ UNCHANGED compVars
           /\ \/ Goes("render", "picture", {}) /\ (bEosFlag["render"] \/ mq["render"] # << >>)
              \/ /\ Goes("render", "picture", {"reopen", "decContinue", "continue"})
                 /\ ~ bEosFlag["render"] /\ bResolutionChange
<1>1. At("render", "picture") /\ UNCHANGED OtherThanPicture /\ (LeaveRender \/ BeginReopen)
  BY DEF NoPictureComes
<1>2. UNCHANGED << mq, replySem, playerVars >> /\ UNCHANGED compVars
  BY <1>1 DEF OtherThanPicture, LeaveRender, BeginReopen, compVars
<1>3. CASE LeaveRender
  <2>1. Proceed("render", << >>) /\ (bEosFlag["render"] \/ mq["render"] # << >>)
    BY <1>3 DEF LeaveRender
  <2> QED BY <1>1, <1>2, <2>1, ProceedsNone, MovesGoes DEF Comp
<1>4. CASE BeginReopen
  <2>1. /\ Proceed("render", << Step("reopen"), Step("decContinue") >> \o Running)
        /\ ~ bEosFlag["render"] /\ bResolutionChange
    BY <1>4 DEF BeginReopen
  <2> QED BY <1>1, <1>2, <2>1, ProceedsReopen, MovesGoes DEF Comp
<1> QED BY <1>1, <1>3, <1>4

\* The engine is open again; the flags of the components stay.
LEMMA ReopenIs ==
    ASSUME ThreadInv, ReopenVideoEngine
    PROVE  /\ Goes("render", "reopen", {}) /\ FlagsSame("dec") /\ FlagsSame("render")
           /\ UNCHANGED bCrashFlag
  BY ProceedsNone, MovesGoes DEF ReopenVideoEngine, Comp, FlagsSame

\* The render thread lets the decoder go on when its queue is empty.
LEMMA ContinueDecoderIs ==
    ASSUME ThreadInv, ContinueDecoder
    PROVE  /\ Goes("render", "decContinue", IF mq["dec"] = << >> THEN {"decPost"} ELSE {})
           /\ UNCHANGED compVars
<1>1. Proceed("render", Only(mq["dec"] = << >>, << Step("decPost") >>))
      /\ At("render", "decContinue") /\ UNCHANGED << mq, replySem, compVars, playerVars >>
  BY DEF ContinueDecoder, QueueFree
<1>2. Moves("render", "decContinue", IF mq["dec"] = << >> THEN {"decPost"} ELSE {})
  BY <1>1, ProceedsOnly DEF StepNames, Comp
<1> QED BY <1>1, <1>2, MovesGoes DEF Comp

\* A thread posts a message.
LEMMA PostContinueIs ==
    ASSUME ThreadInv, NEW c \in Comp, PostContinue(c)
    PROVE  /\ Moves(c, "post", {}) /\ Posts(c, "continue")
           /\ UNCHANGED << compVars, replySem, playerVars >>
           /\ (\A d \in Comp : d # c => ThreadSame(d)) /\ RepliesSame /\ CallersSame
<1>1. At(c, "post") /\ Post(c, "continue") /\ Proceed(c, << >>)
      /\ UNCHANGED << replySem, compVars, playerVars >>
  BY DEF PostContinue
<1>2. Moves(c, "post", {}) /\ Posts(c, "continue")
  BY <1>1, ProceedsNone, PostedMessage DEF Messages
<1> QED BY <1>1, <1>2, MovesLeaves, LeftAlone

\* The render thread posts a message for the decode thread.
LEMMA PostToDecoderIs ==
    ASSUME ThreadInv, PostToDecoder
    PROVE  /\ Moves("render", "decPost", {}) /\ Posts("dec", "continue")
           /\ UNCHANGED << compVars, replySem, playerVars >>
           /\ ThreadSame("dec") /\ RepliesSame /\ CallersSame
<1>1. At("render", "decPost") /\ Post("dec", "continue") /\ Proceed("render", << >>)
      /\ UNCHANGED << replySem, compVars, playerVars >>
  BY DEF PostToDecoder
<1>2. Moves("render", "decPost", {}) /\ Posts("dec", "continue")
  BY <1>1, ProceedsNone, PostedMessage DEF Messages, Comp
<1> QED BY <1>1, <1>2, MovesLeaves, LeftAlone DEF Comp

\* A thread answers a command.
LEMMA SendReplyIs ==
    ASSUME ThreadInv, NEW c \in Comp, SendReply(c)
    PROVE  /\ \E id \in Command : Replies(c, id)
           /\ UNCHANGED << mq, compVars, playerVars >>
           /\ (\A d \in Comp : d # c => ThreadSame(d)) /\ CallersSame
           /\ \A d \in Comp : QueueSame(d)
<1>1. UNCHANGED << mq, compVars, playerVars >>
  BY DEF SendReply
<1>2. PICK id \in Command : Replies(c, id)
  BY SendsReply
<1>3. Moves(c, "reply", {})
  BY <1>2 DEF Replies
<1> QED BY <1>1, <1>2, <1>3, MovesLeaves, LeftAlone

\* The end of the stream.
LEMMA NotifyEosIs ==
    ASSUME CallerInv, ThreadInv, Protocol, NotifyEos
    PROVE  /\ UNCHANGED << replySem, compVars, playerVars >>
           /\ \/ At("render", "exited") /\ Goes("dec", "notifyEos", {})
              \/ /\ Moves("dec", "notifyEos", {"awaitEos"}) /\ Posts("render", "eos")
                 /\ ~ At("render", "exited") /\ ~ Waiter("render", "eos")
                 /\ ThreadSame("render") /\ RepliesSame /\ CallersSame
<1>1. At("dec", "notifyEos") /\ UNCHANGED << replySem, compVars, playerVars >>
  BY DEF NotifyEos
<1>2. CASE At("render", "exited")
  <2>1. Proceed("dec", << >>) /\ UNCHANGED mq
    BY <1>2 DEF NotifyEos
  <2> QED BY <1>1, <1>2, <2>1, ProceedsNone, MovesGoes DEF Comp
<1>3. CASE ~ At("render", "exited")
  <2>1. Proceed("dec", << Step("awaitEos") >>) /\ Post("render", "eos")
    BY <1>3 DEF NotifyEos
  <2>2. ~ Due("dec", "awaitEos")
    <3>1. Due("dec", "awaitEos") => At("dec", "awaitEos")
      BY FirstIsFirst DEF Comp, StepNames, FirstOnly
    <3> QED BY <1>1, <3>1 DEF At
  <2>3. \A t \in Caller : ~ Waits(t, "render", "eos")
    BY WhoseCommand DEF Caller, Left, Comp, Command, PlayerIds, ResetIds
  <2>4. ~ Waiter("render", "eos")
    BY <2>2, <2>3 DEF Waiter
  <2>5. ~ Posted("render", "eos")
    BY <2>4 DEF Protocol, Comp, Command
  <2>6. Moves("dec", "notifyEos", {"awaitEos"}) /\ Posts("render", "eos")
    BY <1>1, <2>1, <2>5, ProceedsOne, PostedMessage DEF Comp, StepNames, Messages, Command
  <2> QED BY <1>1, <1>3, <2>4, <2>6, MovesLeaves, LeftAlone DEF Comp
<1> QED BY <1>2, <1>3

\* The decode thread has the render component's answer to the end of the stream.
LEMMA AwaitEosIs ==
    ASSUME ThreadInv, AwaitEos
    PROVE  /\ Moves("dec", "awaitEos", {}) /\ Answered("render", "eos")
           /\ replySem' = [replySem EXCEPT !["render"]["eos"] = @ - 1]
           /\ \A d \in Comp : QueueSame(d)
           /\ ThreadSame("render") /\ CallersSame
           /\ UNCHANGED << mq, compVars, playerVars >>
<1>1. /\ At("dec", "awaitEos") /\ replySem["render"]["eos"] > 0
      /\ replySem' = [replySem EXCEPT !["render"]["eos"] = @ - 1]
      /\ Proceed("dec", << >>) /\ UNCHANGED << mq, compVars, playerVars >>
  BY DEF AwaitEos
<1>2. Moves("dec", "awaitEos", {})
  BY <1>1, ProceedsNone DEF Comp
<1>3. Answered("render", "eos")
  BY <1>1 DEF Answered, ThreadInv, ReplyTypes, Comp, Command
<1> QED BY <1>1, <1>2, <1>3, MovesLeaves, LeftAlone DEF Comp

-----------------------------------------------------------------------------
(* The steps of the callers.                                                *)

\* The components are left as they are.
CompSame == /\ \A c \in Comp : ThreadSame(c) /\ QueueSame(c) /\ FlagsSame(c)
            /\ RepliesSame
            /\ UNCHANGED << mq, todo, replySem, compVars >>

\* The variables of the components are unchanged, and so is all they stand for.
LEMMA CompLeft == UNCHANGED << mq, todo, replySem, compVars >> => CompSame
<1> SUFFICES ASSUME UNCHANGED << mq, todo, replySem, compVars >> PROVE CompSame
  OBVIOUS
<1>1. \A c \in Comp : ThreadSame(c) /\ QueueSame(c) /\ FlagsSame(c)
  BY LeftAlone
<1> QED BY <1>1, LeftAlone DEF CompSame

\* Steps of different kinds differ.
LEMMA StepsDiffer ==
    /\ \A c, d, id, jd : Call(c, id) = Call(d, jd) => c = d /\ id = jd
    /\ \A c, d, id, jd : WaitFor(c, id) = WaitFor(d, jd) => c = d /\ id = jd
    /\ \A c, d, id, jd : Call(c, id) # WaitFor(d, jd)
    /\ \A c, id, d, v : /\ Call(c, id) # SetStatus(v) /\ Call(c, id) # Join(d)
                        /\ WaitFor(c, id) # SetStatus(v) /\ WaitFor(c, id) # Join(d)
                        /\ Join(d) # SetStatus(v)
    /\ \A v, w : SetStatus(v) = SetStatus(w) => v = w
    /\ \A v, w, c, id : /\ SetDemux(v) # SetStatus(w) /\ SetDemux(v) # Join(c)
                        /\ SetDemux(v) # Call(c, id) /\ SetDemux(v) # WaitFor(c, id)
    /\ Join("dec") # Join("render")
  BY DEF Call, WaitFor, SetStatus, Join, SetDemux

\* A caller gives a command to a component, ...
LEMMA PostCommandIs ==
    ASSUME CallerInv, ThreadInv, Protocol, NEW t \in Caller, PostCommand(t)
    PROVE  \E c \in Comp, id \in Command :
             /\ Calls(t, c, id) /\ ~ Waiter(c, id) /\ Posts(c, id)
             /\ UNCHANGED << todo, replySem, compVars >>
             /\ (\A d \in Comp : ThreadSame(d) /\ FlagsSame(d)) /\ RepliesSame
             /\ \A u \in Caller, d \in Comp, jd \in Command :
                  /\ Calls(u, d, jd)' <=> Calls(u, d, jd) /\ ~ (u = t /\ d = c /\ jd = id)
                  /\ Waits(u, d, jd)' <=> Waits(u, d, jd) \/ (u = t /\ d = c /\ jd = id)
                  /\ ~ Waits(t, d, jd)
             /\ \A value \in Statuses :
                  Has("xplayer", SetStatus(value))' <=> Has("xplayer", SetStatus(value))
             /\ Has("xplayer", Join("dec"))' <=> Has("xplayer", Join("dec"))
             /\ Idle("xplayer") => Idle("xplayer")'
             /\ eStatus' = eStatus
<1>1. PICK c \in Comp, id \in Command :
             /\ Head(script[t]) = Call(c, id)
             /\ script[t] # << >>
             /\ Elements(script'[t]) = (Elements(script[t]) \ {Call(c, id)})
                                       \union {WaitFor(c, id)}
             /\ mq' = [mq EXCEPT ![c] = Append(@, id)]
             /\ \A u \in Caller : u # t => script'[u] = script[u]
  BY CallStep
<1>2. Calls(t, c, id)
  BY <1>1, FirstOfScript DEF Calls
<1>3. ASSUME NEW d \in Comp, NEW jd \in Command PROVE ~ Waits(t, d, jd)
  BY <1>1, OneWait, StepsDiffer
<1>4. \A u \in Caller : ~ Waits(u, c, id)
  <2>1. t = "demux" => ~ Waits("xplayer", c, id)
    BY <1>2, OneWaiter DEF Left
  <2>2. ASSUME t = "xplayer", Waits("demux", c, id) PROVE FALSE
    <3>1. id \in PlayerIds /\ (id \in ResetIds \/ id = "eos")
      BY <1>2, <2>2, WhoseCommand DEF Left
    <3>2. Resets
      BY <2>2, <3>1 DEF Resets, PlayerIds
    <3>3. id \in {"stop", "quit"}
      BY <1>2, <2>2, <3>2, WhileResetting DEF Left
    <3> QED BY <3>1, <3>3 DEF ResetIds
  <2> QED BY <1>3, <2>1, <2>2 DEF Caller
<1>5. ~ (c = "render" /\ id = "eos")
  BY <1>2, WhoseCommand DEF Left, Caller, PlayerIds, ResetIds
<1>6. ~ Waiter(c, id)
  BY <1>4, <1>5 DEF Waiter
<1>7. ~ Posted(c, id)
  BY <1>6 DEF Protocol
<1>8. Posts(c, id)
  BY <1>1, <1>7, PostedMessage DEF Messages, Post
<1>9. UNCHANGED << todo, replySem, compVars, eStatus >>
  BY DEF PostCommand
<1>10. (\A d \in Comp : ThreadSame(d) /\ FlagsSame(d)) /\ RepliesSame
  BY <1>9, LeftAlone
<1>11. ASSUME NEW u \in Caller, NEW x PROVE
         Has(u, x)' <=> \/ Has(u, x) /\ ~ (u = t /\ x = Call(c, id))
                        \/ u = t /\ x = WaitFor(c, id)
  BY <1>1 DEF Has
<1>12. ASSUME NEW u \in Caller, NEW d \in Comp, NEW jd \in Command
       PROVE  /\ Calls(u, d, jd)' <=> Calls(u, d, jd) /\ ~ (u = t /\ d = c /\ jd = id)
              /\ Waits(u, d, jd)' <=> Waits(u, d, jd) \/ (u = t /\ d = c /\ jd = id)
  BY <1>11, StepsDiffer DEF Calls, Waits
<1>13. /\ \A value \in Statuses :
            Has("xplayer", SetStatus(value))' <=> Has("xplayer", SetStatus(value))
       /\ Has("xplayer", Join("dec"))' <=> Has("xplayer", Join("dec"))
  BY <1>11, StepsDiffer DEF Caller
<1>14. Idle("xplayer") => Idle("xplayer")'
  BY <1>1 DEF Idle, Caller
<1> QED BY <1>2, <1>3, <1>6, <1>8, <1>9, <1>10, <1>12, <1>13, <1>14

\* ... and has its answer.
LEMMA WaitReplyIs ==
    ASSUME CallerInv, ThreadInv, NEW t \in Caller, WaitReply(t)
    PROVE  \E c \in Comp, id \in Command :
             /\ Waits(t, c, id) /\ ~ Calls(t, c, id) /\ Answered(c, id)
             /\ replySem' = [replySem EXCEPT ![c][id] = @ - 1]
             /\ UNCHANGED << mq, todo, compVars >>
             /\ \A d \in Comp : ThreadSame(d) /\ QueueSame(d) /\ FlagsSame(d)
             /\ \A u \in Caller, d \in Comp, jd \in Command :
                  /\ Calls(u, d, jd)' <=> Calls(u, d, jd)
                  /\ Waits(u, d, jd)' <=> Waits(u, d, jd) /\ u # t
                  /\ Waits(t, d, jd) => d = c /\ jd = id
             /\ \A value \in Statuses :
                  Has("xplayer", SetStatus(value))' <=> Has("xplayer", SetStatus(value))
             /\ Has("xplayer", Join("dec"))' <=> Has("xplayer", Join("dec"))
             /\ Idle("xplayer") => Idle("xplayer")'
             /\ eStatus' = eStatus
<1>1. /\ script[t] # << >> /\ Head(script[t]).op = "wait" /\ Done(t)
      /\ UNCHANGED << mq, todo, compVars, eStatus >>
  BY DEF WaitReply, Does
<1>2. PICK c \in Comp, id \in Command : Head(script[t]) = WaitFor(c, id)
  <2>1. Head(script[t]) \in StepsOf(t)
    BY <1>1, FirstOfScript
  <2>2. CASE t = "xplayer"
    BY <1>1, <2>1, <2>2, PlayerForms, CallPlaces, OtherPlaces DEF StepsOf, PlayerIds, Command
  <2>3. CASE t = "demux"
    BY <1>1, <2>1, <2>3, DemuxForms, CallPlaces DEF StepsOf
  <2> QED BY <2>2, <2>3 DEF Caller
<1>3. Waits(t, c, id)
  BY <1>1, <1>2, FirstOfScript DEF Waits
<1>4. ~ Calls(t, c, id) /\ \A d \in Comp, jd \in Command : Waits(t, d, jd) => d = c /\ jd = id
  BY <1>3, OneWait
<1>5. WaitFor(c, id).comp = c /\ WaitFor(c, id).id = id
  BY DEF WaitFor
<1>6. replySem[c][id] > 0 /\ replySem' = [replySem EXCEPT ![c][id] = @ - 1]
  BY <1>2, <1>5 DEF WaitReply
<1>7. Answered(c, id)
  BY <1>6 DEF Answered, ThreadInv, ReplyTypes
<1>8. /\ Elements(script'[t]) = Elements(script[t]) \ {WaitFor(c, id)}
      /\ \A u \in Caller : u # t => script'[u] = script[u]
  BY <1>1, <1>2, DoneStep
<1>9. ASSUME NEW u \in Caller, NEW x
      PROVE  Has(u, x)' <=> Has(u, x) /\ ~ (u = t /\ x = WaitFor(c, id))
  BY <1>8 DEF Has
<1>10. ASSUME NEW u \in Caller, NEW d \in Comp, NEW jd \in Command
       PROVE  /\ Calls(u, d, jd)' <=> Calls(u, d, jd)
              /\ Waits(u, d, jd)' <=> Waits(u, d, jd) /\ u # t
  <2>1. Calls(u, d, jd)' <=> Calls(u, d, jd)
    BY <1>9, StepsDiffer DEF Calls
  <2>2. Waits(u, d, jd)' <=> Waits(u, d, jd) /\ ~ (u = t /\ d = c /\ jd = id)
    BY <1>9, StepsDiffer DEF Waits
  <2> QED BY <1>4, <2>1, <2>2
<1>11. /\ \A value \in Statuses :
            Has("xplayer", SetStatus(value))' <=> Has("xplayer", SetStatus(value))
       /\ Has("xplayer", Join("dec"))' <=> Has("xplayer", Join("dec"))
  BY <1>9, StepsDiffer DEF Caller
<1>12. Idle("xplayer") => Idle("xplayer")'
  BY <1>1, <1>8 DEF Idle, Caller
<1>13. \A d \in Comp : ThreadSame(d) /\ QueueSame(d) /\ FlagsSame(d)
  BY <1>1, LeftAlone
<1>14. \A u \in Caller, d \in Comp, jd \in Command :
         /\ Calls(u, d, jd)' <=> Calls(u, d, jd)
         /\ Waits(u, d, jd)' <=> Waits(u, d, jd) /\ u # t
         /\ Waits(t, d, jd) => d = c /\ jd = id
  BY <1>4, <1>10
<1>15. UNCHANGED << mq, todo, compVars >> /\ eStatus' = eStatus
  BY <1>1
<1> QED BY ZenonT(60), <1>3, <1>4, <1>6, <1>7, <1>11, <1>12, <1>13, <1>14, <1>15

\* The thread that is joined last is that of the decode component, and nothing
\* comes after.
LEMMA JoinThreadIs ==
    ASSUME CallerInv, NEW t \in Caller, JoinThread(t)
    PROVE  /\ CompSame /\ eStatus' = eStatus
           /\ \A u \in Caller, c \in Comp, id \in Command :
                (Calls(u, c, id)' <=> Calls(u, c, id)) /\ (Waits(u, c, id)' <=> Waits(u, c, id))
           /\ \A value \in Statuses :
                Has("xplayer", SetStatus(value))' <=> Has("xplayer", SetStatus(value))
           /\ Idle("xplayer") => Idle("xplayer")'
           /\ \/ Has("xplayer", Join("dec"))' <=> Has("xplayer", Join("dec"))
              \/ At("dec", "exited") /\ Idle("xplayer")' /\ ~ Has("xplayer", Join("dec"))'
<1>1. /\ script[t] # << >> /\ Head(script[t]).op = "join" /\ Done(t)
      /\ UNCHANGED << mq, todo, replySem, compVars, eStatus >>
      /\ At(Head(script[t]).comp, "exited")
  BY DEF JoinThread, Does
<1>2. Head(script[t]) \in StepsOf(t)
  BY <1>1, FirstOfScript
<1>3. t = "xplayer"
  BY <1>1, <1>2, DemuxForms, CallPlaces DEF StepsOf, Caller
<1>4. PICK c \in Comp : Head(script[t]) = Join(c)
  BY <1>1, <1>2, <1>3, PlayerForms, CallPlaces, OtherPlaces DEF StepsOf, PlayerIds, Command
<1>5. /\ Elements(script'[t]) = Elements(script[t]) \ {Join(c)}
      /\ \A u \in Caller : u # t => script'[u] = script[u]
      /\ script'[t] \in Seq(StepsOf(t))
  BY <1>1, <1>4, DoneStep
<1>6. ASSUME NEW u \in Caller, NEW x
      PROVE  Has(u, x)' <=> Has(u, x) /\ ~ (u = t /\ x = Join(c))
  BY <1>5 DEF Has
<1>7. ASSUME NEW u \in Caller, NEW d \in Comp, NEW jd \in Command
      PROVE  (Calls(u, d, jd)' <=> Calls(u, d, jd)) /\ (Waits(u, d, jd)' <=> Waits(u, d, jd))
  BY <1>6, StepsDiffer DEF Calls, Waits
<1>8. \A value \in Statuses :
         Has("xplayer", SetStatus(value))' <=> Has("xplayer", SetStatus(value))
  BY <1>6, StepsDiffer DEF Caller
<1>9. CASE c = "render"
  <2>1. Has("xplayer", Join("dec"))' <=> Has("xplayer", Join("dec"))
    BY <1>6, <1>9, StepsDiffer DEF Caller
  <2> QED BY <1>1, <1>3, <1>7, <1>8, <2>1, CompLeft DEF Idle
<1>10. CASE c = "dec"
  <2>1. At("dec", "exited")
    BY <1>1, <1>4, <1>10, OtherPlaces DEF Comp
  <2>2. Place(t, Join(c)) = 7
    BY <1>3, <1>10, OtherPlaces DEF Comp
  <2>3. ASSUME NEW y \in Elements(script'[t]) PROVE FALSE
    <3>1. 7 < Place(t, y) /\ y \in PlayerSteps
      BY <1>1, <1>3, <1>4, <1>5, <2>2, <2>3, FirstOfScript DEF StepsOf
    <3>2. Place(t, y) <= 7 /\ Place(t, y) \in Nat
      BY <1>3, <3>1, PlayerForms, CallPlaces, OtherPlaces DEF PlayerIds, Command, PlayerPlace
    <3> QED BY <3>1, <3>2
  <2>4. script'[t] = << >>
    <3>1. Len(script'[t]) = 0
      <4>1. Len(script'[t]) \in Nat
        BY <1>5
      <4>2. Len(script'[t]) # 0 => script'[t][1] \in Elements(script'[t])
        BY <4>1 DEF Elements
      <4> QED BY <2>3, <4>2
    <3> QED BY <1>5, <3>1, NoElement
  <2>5. ~ Has("xplayer", Join("dec"))'
    BY <1>3, <2>3 DEF Has
  <2> QED BY <1>1, <1>3, <1>7, <1>8, <2>1, <2>4, <2>5, CompLeft DEF Idle
<1> QED BY <1>9, <1>10 DEF Comp

\* A change of the demux thread's state leaves scripts and components alone.
LEMMA ChangeDemuxIs ==
    ASSUME CallerInv, ChangeDemux
    PROVE  CompSame /\ CallersSame
<1>1. /\ script["xplayer"] # << >> /\ Done("xplayer")
      /\ UNCHANGED << mq, todo, replySem, compVars, eStatus >>
  BY DEF ChangeDemux, Does
<1>2. PICK value : Head(script["xplayer"]) = SetDemux(value)
  BY DemuxKeepsScripts
<1>3. /\ Elements(script'["xplayer"]) = Elements(script["xplayer"]) \ {SetDemux(value)}
      /\ \A u \in Caller : u # "xplayer" => script'[u] = script[u]
  BY <1>1, <1>2, DoneStep DEF Caller
<1>4. ASSUME NEW u \in Caller, NEW x
      PROVE  Has(u, x)' <=> Has(u, x) /\ ~ (u = "xplayer" /\ x = SetDemux(value))
  BY <1>3 DEF Has
<1>5. ASSUME NEW u \in Caller, NEW d \in Comp, NEW jd \in Command
      PROVE  (Calls(u, d, jd)' <=> Calls(u, d, jd)) /\ (Waits(u, d, jd)' <=> Waits(u, d, jd))
  BY <1>4, StepsDiffer DEF Calls, Waits
<1>6. /\ \A v \in Statuses : Has("xplayer", SetStatus(v))' <=> Has("xplayer", SetStatus(v))
      /\ Has("xplayer", Join("dec"))' <=> Has("xplayer", Join("dec"))
  BY <1>4, StepsDiffer DEF Caller
<1>7. ~ Idle("xplayer")
  BY <1>1 DEF Idle
<1> QED BY <1>1, <1>5, <1>6, <1>7, CompLeft DEF CallersSame

\* The player's own status changes.
LEMMA ChangeStatusIs ==
    ASSUME CallerInv, NEW t \in Caller, ChangeStatus(t)
    PROVE  \E value \in Statuses :
             /\ script["xplayer"] # << >> /\ Head(script["xplayer"]) = SetStatus(value)
             /\ eStatus' = value /\ CompSame
             /\ \A u \in Caller, c \in Comp, id \in Command :
                  /\ Calls(u, c, id)' <=> Calls(u, c, id)
                  /\ Waits(u, c, id)' <=> Waits(u, c, id)
             /\ \A v \in Statuses : ~ Has("xplayer", SetStatus(v))'
             /\ Has("xplayer", Join("dec"))' <=> Has("xplayer", Join("dec"))
<1>1. /\ script[t] # << >> /\ Done(t) /\ UNCHANGED << mq, todo, replySem, compVars >>
  BY DEF ChangeStatus, Does
<1>2. t = "xplayer" /\ \E value \in Statuses :
         Head(script["xplayer"]) = SetStatus(value) /\ eStatus' = value
  BY StatusKeepsScripts
<1>3. PICK value \in Statuses : Head(script["xplayer"]) = SetStatus(value) /\ eStatus' = value
  BY <1>2
<1>4. /\ Elements(script'[t]) = Elements(script[t]) \ {SetStatus(value)}
      /\ \A u \in Caller : u # t => script'[u] = script[u]
  BY <1>1, <1>2, <1>3, DoneStep
<1>5. ASSUME NEW u \in Caller, NEW x
      PROVE  Has(u, x)' <=> Has(u, x) /\ ~ (u = t /\ x = SetStatus(value))
  BY <1>4 DEF Has
<1>6. ASSUME NEW u \in Caller, NEW d \in Comp, NEW jd \in Command
      PROVE  (Calls(u, d, jd)' <=> Calls(u, d, jd)) /\ (Waits(u, d, jd)' <=> Waits(u, d, jd))
  BY <1>5, StepsDiffer DEF Calls, Waits
<1>7. Has("xplayer", Join("dec"))' <=> Has("xplayer", Join("dec"))
  BY <1>5, StepsDiffer DEF Caller
<1>8. \A v \in Statuses : Has("xplayer", SetStatus(v)) => v = value
  BY <1>1, <1>2, <1>3, WhileSetting
<1>9. \A v \in Statuses : ~ Has("xplayer", SetStatus(v))'
  BY <1>2, <1>5, <1>8
<1> QED BY <1>1, <1>2, <1>3, <1>6, <1>7, <1>9, CompLeft

\* A caller begins a script that only calls.
LEMMA IssueIs ==
    ASSUME CallerInv, NEW t \in Caller, Idle(t), NEW new, Issue(t, new),
           \A c \in Comp, id \in Command : WaitFor(c, id) \notin Elements(new)
    PROVE  /\ CompSame /\ eStatus' = eStatus
           /\ \A c \in Comp, id \in Command : ~ Left(t, c, id)
           /\ \A u \in Caller, c \in Comp, id \in Command :
                /\ Calls(u, c, id)' <=> IF u = t THEN Call(c, id) \in Elements(new)
                                                 ELSE Calls(u, c, id)
                /\ Waits(u, c, id)' <=> Waits(u, c, id)
           /\ \A x : Has("xplayer", x)' <=> IF t = "xplayer" THEN x \in Elements(new)
                                                             ELSE Has("xplayer", x)
           /\ t # "xplayer" => (Idle("xplayer")' <=> Idle("xplayer"))
<1>1. UNCHANGED << mq, todo, replySem, compVars, eStatus >>
  BY DEF Issue
<1>2. \A u \in Caller : script'[u] = IF u = t THEN new ELSE script[u]
  BY DEF Issue, CallerInv
<1>3. ASSUME NEW u \in Caller, NEW x
      PROVE  Has(u, x)' <=> IF u = t THEN x \in Elements(new) ELSE Has(u, x)
  BY <1>2 DEF Has
<1>4. \A c \in Comp, id \in Command : ~ Left(t, c, id)
  BY IdleHasNothing DEF Left, Calls, Waits
<1>5. ASSUME NEW u \in Caller, NEW c \in Comp, NEW id \in Command
      PROVE  /\ Calls(u, c, id)' <=> IF u = t THEN Call(c, id) \in Elements(new)
                                              ELSE Calls(u, c, id)
             /\ Waits(u, c, id)' <=> Waits(u, c, id)
  BY <1>3, <1>4 DEF Calls, Waits, Left
<1>6. \A x : Has("xplayer", x)' <=> IF t = "xplayer" THEN x \in Elements(new)
                                                     ELSE Has("xplayer", x)
  BY <1>3 DEF Caller
<1>7. t # "xplayer" => (Idle("xplayer")' <=> Idle("xplayer"))
  BY <1>2 DEF Idle, Caller
<1> QED BY <1>1, <1>4, <1>5, <1>6, <1>7, CompLeft

\* The commands that callers begin.
LEMMA PlayerStartIs ==
    ASSUME CallerInv, PlayerStart
    PROVE  /\ Idle("xplayer") /\ ~ Resets /\ eStatus # "STARTED" /\ ~ At("dec", "exited")
           /\ CompSame /\ eStatus' = eStatus
           /\ \A c \in Comp, id \in Command :
                /\ ~ Left("xplayer", c, id)
                /\ Calls("xplayer", c, id)' <=> id = "start"
                /\ Calls("demux", c, id)' <=> Calls("demux", c, id)
           /\ \A u \in Caller, c \in Comp, id \in Command : Waits(u, c, id)' <=> Waits(u, c, id)
<1>1. /\ Idle("xplayer") /\ ~ Resets /\ eStatus # "STARTED" /\ ~ At("dec", "exited")
  BY ResetsResetting DEF PlayerStart, Exists
<1> DEFINE a == Call("dec", "start")
           b == Call("render", "start")
           d == SetStatus("STARTED")
           e == SetDemux("started")
<1>2. PICK new : /\ Issue("xplayer", new)
                 /\ Elements(new) = {a, b, d, e} \/ Elements(new) = {a, b, d}
  <2>1. CASE eStatus = "STOPPED"
    <3>1. Issue("xplayer", StartSteps)
      BY <2>1 DEF PlayerStart
    <3> QED BY <3>1, StartList
  <2>2. CASE eStatus # "STOPPED"
    <3>1. Issue("xplayer", SubSeq(StartSteps, 1, 3))
      BY <2>2 DEF PlayerStart
    <3> QED BY <3>1, StartList
  <2> QED BY <2>1, <2>2
<1>3. \A c \in Comp, id \in Command : WaitFor(c, id) \notin Elements(new)
  BY <1>2, StepsDiffer
<1>4. \A c \in Comp, id \in Command : Call(c, id) \in Elements(new) <=> id = "start"
  BY <1>2, StepsDiffer DEF Comp
<1>5. /\ CompSame /\ eStatus' = eStatus
      /\ \A c \in Comp, id \in Command : ~ Left("xplayer", c, id)
      /\ \A u \in Caller, c \in Comp, id \in Command :
                /\ Calls(u, c, id)' <=> IF u = "xplayer" THEN Call(c, id) \in Elements(new)
                                                 ELSE Calls(u, c, id)
                /\ Waits(u, c, id)' <=> Waits(u, c, id)
  BY <1>1, <1>2, <1>3, IssueIs DEF Caller
<1>6. \A c \in Comp, id \in Command :
                /\ Calls("xplayer", c, id)' <=> id = "start"
                /\ Calls("demux", c, id)' <=> Calls("demux", c, id)
  BY <1>4, <1>5 DEF Caller
<1> QED BY <1>1, <1>5, <1>6

\* ... PlayerPause, ...
LEMMA PlayerPauseIs ==
    ASSUME CallerInv, PlayerPause
    PROVE  /\ Idle("xplayer") /\ ~ Resets /\ eStatus = "STARTED"
           /\ CompSame /\ eStatus' = eStatus
           /\ \A c \in Comp, id \in Command :
                /\ ~ Left("xplayer", c, id)
                /\ Calls("xplayer", c, id)' <=> id = "pause"
                /\ Calls("demux", c, id)' <=> Calls("demux", c, id)
           /\ \A u \in Caller, c \in Comp, id \in Command : Waits(u, c, id)' <=> Waits(u, c, id)
<1>1. Idle("xplayer") /\ ~ Resets /\ eStatus = "STARTED"
  BY ResetsResetting DEF PlayerPause
<1> DEFINE a == Call("render", "pause")
           b == Call("dec", "pause")
           d == SetStatus("PAUSED")
<1>2. PICK new : Issue("xplayer", new) /\ Elements(new) = {a, b, d}
  BY PauseList DEF PlayerPause
<1>3. \A c \in Comp, id \in Command : WaitFor(c, id) \notin Elements(new)
  BY <1>2, StepsDiffer
<1>4. \A c \in Comp, id \in Command : Call(c, id) \in Elements(new) <=> id = "pause"
  BY <1>2, StepsDiffer DEF Comp
<1>5. /\ CompSame /\ eStatus' = eStatus
      /\ \A c \in Comp, id \in Command : ~ Left("xplayer", c, id)
      /\ \A u \in Caller, c \in Comp, id \in Command :
                /\ Calls(u, c, id)' <=> IF u = "xplayer" THEN Call(c, id) \in Elements(new)
                                                 ELSE Calls(u, c, id)
                /\ Waits(u, c, id)' <=> Waits(u, c, id)
  BY <1>1, <1>2, <1>3, IssueIs DEF Caller
<1>6. \A c \in Comp, id \in Command :
                /\ Calls("xplayer", c, id)' <=> id = "pause"
                /\ Calls("demux", c, id)' <=> Calls("demux", c, id)
  BY <1>4, <1>5 DEF Caller
<1> QED BY <1>1, <1>5, <1>6

\* ... PlayerStop ...
LEMMA PlayerStopIs ==
    ASSUME CallerInv, PlayerStop
    PROVE  /\ Idle("xplayer") /\ eStatus # "STOPPED"
           /\ CompSame /\ eStatus' = eStatus
           /\ \A c \in Comp, id \in Command :
                /\ ~ Left("xplayer", c, id)
                /\ Calls("xplayer", c, id)' <=> id \in {"stop", "quit"}
                /\ Calls("demux", c, id)' <=> Calls("demux", c, id)
           /\ \A u \in Caller, c \in Comp, id \in Command : Waits(u, c, id)' <=> Waits(u, c, id)
<1>1. Idle("xplayer") /\ eStatus # "STOPPED"
  BY DEF PlayerStop
<1>2. Issue("xplayer", StopList)
  BY DEF PlayerStop, StopList
<1>3. \A c \in Comp, id \in Command : WaitFor(c, id) \notin Elements(StopList)
  BY StopListIs, StepsDiffer
<1>4. \A c \in Comp, id \in Command : Call(c, id) \in Elements(StopList) <=> id \in {"stop", "quit"}
  BY StopListIs, StepsDiffer DEF Comp
<1>5. /\ CompSame /\ eStatus' = eStatus
      /\ \A c \in Comp, id \in Command : ~ Left("xplayer", c, id)
      /\ \A u \in Caller, c \in Comp, id \in Command :
                /\ Calls(u, c, id)' <=> IF u = "xplayer" THEN Call(c, id) \in Elements(StopList)
                                                 ELSE Calls(u, c, id)
                /\ Waits(u, c, id)' <=> Waits(u, c, id)
  BY <1>1, <1>2, <1>3, IssueIs DEF Caller
<1>6. \A c \in Comp, id \in Command :
                /\ Calls("xplayer", c, id)' <=> id \in {"stop", "quit"}
                /\ Calls("demux", c, id)' <=> Calls("demux", c, id)
  BY <1>4, <1>5 DEF Caller
<1> QED BY <1>1, <1>5, <1>6

\* PlayerReset is for a player that is not stopped, by an idle demux thread, ...
LEMMA PlayerResetIs ==
    ASSUME CallerInv, PlayerReset
    PROVE  /\ Idle("xplayer") /\ Idle("demux") /\ eStatus # "STOPPED"
           /\ CompSame /\ eStatus' = eStatus
           /\ \A c \in Comp, id \in Command :
                /\ ~ Left("xplayer", c, id) /\ ~ Left("demux", c, id)
                /\ Calls("demux", c, id)' <=>
                     id = "reset" \/ (eStatus = "STARTED" /\ id \in ResetIds)
                /\ Calls("xplayer", c, id)' <=> Calls("xplayer", c, id)
           /\ \A u \in Caller, c \in Comp, id \in Command : Waits(u, c, id)' <=> Waits(u, c, id)
           /\ \A x : Has("xplayer", x)' <=> Has("xplayer", x)
           /\ Idle("xplayer")'
<1>1. /\ Idle("demux") /\ Idle("xplayer") /\ eStatus # "STOPPED"
      /\ Issue("demux", ResetList)
  BY DEF PlayerReset, ResetList
<1>2. Elements(ResetList) =
        {Call(c, id) : c \in Comp, id \in IF eStatus = "STARTED" THEN ResetIds ELSE {"reset"}}
  BY ResetListIs
<1>3. \A c \in Comp, id \in Command : WaitFor(c, id) \notin Elements(ResetList)
  BY <1>2, StepsDiffer
<1>4. \A c \in Comp, id \in Command : Call(c, id) \in Elements(ResetList) <=>
                     id = "reset" \/ (eStatus = "STARTED" /\ id \in ResetIds)
  BY <1>2, StepsDiffer DEF ResetIds
<1>5. /\ CompSame /\ eStatus' = eStatus
      /\ \A c \in Comp, id \in Command : ~ Left("demux", c, id)
      /\ \A u \in Caller, c \in Comp, id \in Command :
                /\ Calls(u, c, id)' <=> IF u = "demux" THEN Call(c, id) \in Elements(ResetList)
                                                 ELSE Calls(u, c, id)
                /\ Waits(u, c, id)' <=> Waits(u, c, id)
      /\ \A x : Has("xplayer", x)' <=> Has("xplayer", x)
      /\ Idle("xplayer")'
  BY <1>1, <1>3, IssueIs DEF Caller
<1>6. \A c \in Comp, id \in Command :
                /\ Calls("demux", c, id)' <=>
                     id = "reset" \/ (eStatus = "STARTED" /\ id \in ResetIds)
                /\ Calls("xplayer", c, id)' <=> Calls("xplayer", c, id)
  BY <1>4, <1>5 DEF Caller
<1>7. \A c \in Comp, id \in Command : ~ Left("xplayer", c, id)
  BY <1>1, IdleHasNothing DEF Left, Calls, Waits, Caller
<1> QED BY <1>1, <1>5, <1>6, <1>7

\* ... and with PlayerSetEos it tells the decoder the end of the stream.
LEMMA PlayerSetEosIs ==
    ASSUME CallerInv, PlayerSetEos
    PROVE  /\ Idle("demux")
           /\ CompSame /\ eStatus' = eStatus
           /\ \A c \in Comp, id \in Command :
                /\ ~ Left("demux", c, id)
                /\ Calls("demux", c, id)' <=> c = "dec" /\ id = "eos"
                /\ Calls("xplayer", c, id)' <=> Calls("xplayer", c, id)
           /\ \A u \in Caller, c \in Comp, id \in Command : Waits(u, c, id)' <=> Waits(u, c, id)
           /\ \A x : Has("xplayer", x)' <=> Has("xplayer", x)
           /\ Idle("xplayer")' <=> Idle("xplayer")
<1> DEFINE a == Call("dec", "eos")
           new == << a >>
<1>1. Idle("demux") /\ Issue("demux", new)
  BY DEF PlayerSetEos
<1>2. Elements(new) = {a}
  BY DEF Elements
<1> HIDE DEF new
<1>3. \A c \in Comp, id \in Command : WaitFor(c, id) \notin Elements(new)
  BY <1>2, StepsDiffer
<1>4. \A c \in Comp, id \in Command : Call(c, id) \in Elements(new) <=> c = "dec" /\ id = "eos"
  BY <1>2, StepsDiffer
<1>5. /\ CompSame /\ eStatus' = eStatus
      /\ \A c \in Comp, id \in Command : ~ Left("demux", c, id)
      /\ \A u \in Caller, c \in Comp, id \in Command :
                /\ Calls(u, c, id)' <=> IF u = "demux" THEN Call(c, id) \in Elements(new)
                                                 ELSE Calls(u, c, id)
                /\ Waits(u, c, id)' <=> Waits(u, c, id)
      /\ \A x : Has("xplayer", x)' <=> Has("xplayer", x)
      /\ Idle("xplayer")' <=> Idle("xplayer")
  BY <1>1, <1>3, IssueIs DEF Caller
<1>6. \A c \in Comp, id \in Command :
                /\ Calls("demux", c, id)' <=> c = "dec" /\ id = "eos"
                /\ Calls("xplayer", c, id)' <=> Calls("xplayer", c, id)
  BY <1>4, <1>5 DEF Caller
<1> QED BY <1>1, <1>5, <1>6

\* New components.
LEMMA InitialVideoIs ==
    ASSUME PlayerInitialVideo
    PROVE  /\ Idle("xplayer") /\ At("dec", "exited") /\ At("render", "exited")
           /\ CallersSame /\ UNCHANGED playerVars
           /\ ThreadInv'
           /\ \A c \in Comp :
                /\ \A n \in StepNames : ~ Due(c, n)' /\ ~ At(c, n)'
                /\ \A id \in Command : ~ Posted(c, id)' /\ ~ Served(c, id)' /\ ~ Answered(c, id)'
                /\ status'[c] = "STOPPED" /\ bEosFlag'[c] = FALSE /\ Len(mq'[c]) = 0
<1>1. /\ Idle("xplayer") /\ At("dec", "exited") /\ At("render", "exited")
      /\ UNCHANGED playerVars
      /\ mq' = [c \in Comp |-> << >>] /\ todo' = [c \in Comp |-> << >>]
      /\ replySem' = [c \in Comp |-> [id \in Command |-> 0]]
      /\ status' = [c \in Comp |-> "STOPPED"]
      /\ firstShown' = [c \in Comp |-> FALSE]
      /\ bEosFlag' = [c \in Comp |-> FALSE]
      /\ bCrashFlag' = FALSE /\ bResolutionChange' = FALSE
  BY DEF PlayerInitialVideo, Exists
<1>2. CallersSame
  BY <1>1, LeftAlone
<1>3. \A S : << >> \in Seq(S)
  OBVIOUS
<1>4. \A c \in Comp : mq'[c] = << >> /\ todo'[c] = << >>
  BY <1>1
<1>5. TodoInv'
  <2>1. todo' \in [Comp -> Seq(Steps)]
    BY <1>1, <1>3
  <2>2. \A c \in Comp : Pairs(TodoOrder, todo'[c])
    BY <1>4 DEF Pairs
  <2> QED BY <2>1, <2>2 DEF TodoInv
<1>6. QueueTypes'
  <2>1. mq' \in [Comp -> Seq(Messages)]
    BY <1>1, <1>3
  <2>2. \A c \in Comp : Pairs(QueueOrder, mq'[c])
    BY <1>4 DEF Pairs
  <2> QED BY <2>1, <2>2 DEF QueueTypes
<1>7. ReplyTypes' /\ FlagTypes'
  BY <1>1 DEF ReplyTypes, FlagTypes, Statuses
<1>8. ASSUME NEW c \in Comp
      PROVE  /\ \A n \in StepNames : ~ Due(c, n)' /\ ~ At(c, n)'
             /\ \A id \in Command : ~ Posted(c, id)' /\ ~ Served(c, id)' /\ ~ Answered(c, id)'
             /\ status'[c] = "STOPPED" /\ bEosFlag'[c] = FALSE /\ Len(mq'[c]) = 0
  <2>1. mq'[c] = << >> /\ todo'[c] = << >>
    BY <1>4
  <2>2. (\A n \in StepNames : ~ Due(c, n)' /\ ~ At(c, n)') /\ \A id \in Command : ~ Served(c, id)'
    BY <2>1 DEF Due, At, Served, Elements
  <2>3. (\A id \in Command : ~ Posted(c, id)') /\ Len(mq'[c]) = 0
    BY <2>1 DEF Posted, Elements
  <2>4. \A id \in Command : ~ Answered(c, id)'
    BY <1>1 DEF Answered
  <2> QED BY <1>1, <2>2, <2>3, <2>4
<1> QED BY <1>1, <1>2, <1>5, <1>6, <1>7, <1>8 DEF ThreadInv

-----------------------------------------------------------------------------
(* Threads, queues and replies.                                             *)

\* The inductive invariant of the two components and their callers.
FlowInv == /\ CallerInv /\ ThreadInv /\ Protocol
           /\ StatusInv /\ ExitInv /\ EosInv /\ LoopInv /\ QueueInv

\* The decode thread takes a message, ...
LEMMA DecHandles ==
    ASSUME FlowInv, DecTakes
    PROVE  \E id \in Messages, new \in SUBSET StepNames :
             /\ Handles("dec", id, new)
             /\ \A n \in {"awaitEos", "post", "decPost"} : n \notin new
             /\ "exited" \in new => id = "quit"
<1>1. CallerInv /\ ThreadInv /\ Protocol /\ StatusInv
  BY DEF FlowInv
<1>2. DecStop => status["dec"] # "STOPPED"
  <2> SUFFICES ASSUME DecStop PROVE status["dec"] # "STOPPED"
    OBVIOUS
  <2>1. mq["dec"] # << >> /\ Head(mq["dec"]) = "stop" /\ mq["dec"] \in Seq(Messages)
    BY <1>1 DEF DecStop, Take, ThreadInv, QueueTypes, Comp
  <2>2. Posted("dec", "stop")
    BY <2>1, TakenElements DEF Posted
  <2> QED BY <1>1, <2>2, StopFindsStarted DEF Comp
<1>3. DecStart => \E new \in SUBSET StepNames :
                    /\ Handles("dec", "start", new)
                    /\ \A n \in {"awaitEos", "post", "decPost", "exited"} : n \notin new
  BY <1>1, DecStartIs DEF StepNames
<1>4. DecStop => Handles("dec", "stop", {"reset"})
  BY <1>1, <1>2, DecStopIs
<1>5. DecPause => \E new \in SUBSET StepNames :
                    /\ Handles("dec", "pause", new)
                    /\ \A n \in {"awaitEos", "post", "decPost", "exited"} : n \notin new
  BY <1>1, DecPauseIs DEF StepNames
<1>6. DecQuit => Handles("dec", "quit", {"reset", "exited"})
  BY <1>1, DecQuitIs
<1>7. DecReset => \E new \in SUBSET StepNames :
                    /\ Handles("dec", "reset", new)
                    /\ \A n \in {"awaitEos", "post", "decPost", "exited"} : n \notin new
  BY <1>1, DecResetIs DEF StepNames
<1>8. DecSetEos => \E new \in SUBSET StepNames :
                    /\ Handles("dec", "eos", new)
                    /\ \A n \in {"awaitEos", "post", "decPost", "exited"} : n \notin new
  BY <1>1, DecSetEosIs DEF StepNames
<1>9. DecContinue => Handles("dec", "continue", {"doDecode"})
  BY <1>1, DecContinueIs
<1>10. /\ {"reset"} \in SUBSET StepNames /\ {"reset", "exited"} \in SUBSET StepNames
       /\ {"doDecode"} \in SUBSET StepNames
       /\ "start" \in Messages /\ "stop" \in Messages /\ "pause" \in Messages
       /\ "quit" \in Messages /\ "reset" \in Messages /\ "eos" \in Messages
       /\ "continue" \in Messages
  BY DEF StepNames, Messages, Command
<1>11. CASE DecStop \/ DecQuit \/ DecContinue
  BY <1>4, <1>6, <1>9, <1>10, <1>11
<1>12. CASE DecStart
  BY <1>3, <1>10, <1>12
<1>13. CASE DecPause
  BY <1>5, <1>10, <1>13
<1>14. CASE DecReset
  BY <1>7, <1>10, <1>14
<1>15. CASE DecSetEos
  BY <1>8, <1>10, <1>15
<1> QED BY <1>11, <1>12, <1>13, <1>14, <1>15 DEF DecTakes

\* ... and so does the render thread.
LEMMA RenderHandles ==
    ASSUME FlowInv, RenderTakes
    PROVE  \E id \in Messages, new \in SUBSET StepNames :
             /\ Handles("render", id, new)
             /\ \A n \in {"awaitEos", "post", "decPost"} : n \notin new
             /\ "exited" \in new => id = "quit"
<1>1. ThreadInv
  BY DEF FlowInv
<1>2. /\ "start" \in Messages /\ "stop" \in Messages /\ "pause" \in Messages
      /\ "quit" \in Messages /\ "reset" \in Messages /\ "eos" \in Messages
      /\ "continue" \in Messages
  BY DEF Messages, Command
<1> DEFINE Fine(id) == \E new \in SUBSET StepNames :
                         /\ Handles("render", id, new)
                         /\ \A n \in {"awaitEos", "post", "decPost"} : n \notin new
                         /\ "exited" \in new => id = "quit"
<1>3. RenderStart => Fine("start")
  BY <1>1, RenderStartIs DEF StepNames
<1>4. RenderStop => Fine("stop")
  BY <1>1, RenderStopIs DEF StepNames
<1>5. RenderPause => Fine("pause")
  BY <1>1, RenderPauseIs DEF StepNames
<1>6. RenderQuit => Fine("quit")
  BY <1>1, RenderQuitIs DEF StepNames
<1>7. RenderReset => Fine("reset")
  BY <1>1, RenderResetIs DEF StepNames
<1>8. RenderSetEos => Fine("eos")
  BY <1>1, RenderSetEosIs DEF StepNames
<1>9. DoRender => Fine("continue")
  BY <1>1, DoRenderIs DEF StepNames
<1>10. \E id \in Messages : Fine(id)
  <2> HIDE DEF Fine
  <2> QED BY <1>2, <1>3, <1>4, <1>5, <1>6, <1>7, <1>8, <1>9 DEF RenderTakes
<1> QED BY <1>10

\* The steps that go on, without a message.
DecWorks == BaseCompContinue("dec") \/ DoDecode \/ DecodeVideoStream \/ ResetVideoDecoder
RenderWorks == BaseCompContinue("render") \/ PictureComes \/ NoPictureComes
               \/ ReopenVideoEngine \/ ContinueDecoder

\* The decode thread does a step that is not a post or a reply, ...
LEMMA DecGoes ==
    ASSUME ThreadInv, DecWorks
    PROVE  \E name \in StepNames \ {"awaitEos", "exited"},
              new \in SUBSET (StepNames \ {"awaitEos", "exited"}) :
             Goes("dec", name, new)
<1> DEFINE S == StepNames \ {"awaitEos", "exited"}
<1>1. /\ "continue" \in S /\ "post" \in S /\ "doDecode" \in S /\ "decode" \in S
      /\ "reset" \in S /\ "notifyEos" \in S
  BY DEF StepNames
<1> HIDE DEF S
<1>2. CASE BaseCompContinue("dec")
  BY <1>1, <1>2, BaseContinueIs DEF Comp, S
<1>3. CASE DoDecode
  BY <1>1, <1>3, DoDecodeIs DEF S
<1>4. CASE DecodeVideoStream
  <2>1. \E new \in {{}, {"continue"}, {"notifyEos"}} : Goes("dec", "decode", new)
    BY <1>4, DecodeIs
  <2> QED BY <1>1, <2>1 DEF S
<1>5. CASE ResetVideoDecoder
  BY <1>1, <1>5, ResetDecoderIs DEF S
<1> QED BY <1>2, <1>3, <1>4, <1>5 DEF DecWorks

\* ... and so does the render thread.
LEMMA RenderGoes ==
    ASSUME ThreadInv, RenderWorks
    PROVE  \E name \in StepNames \ {"awaitEos", "exited"},
              new \in SUBSET (StepNames \ {"awaitEos", "exited"}) :
             Goes("render", name, new)
<1> DEFINE S == StepNames \ {"awaitEos", "exited"}
<1>1. /\ "continue" \in S /\ "post" \in S /\ "picture" \in S /\ "reopen" \in S
      /\ "decContinue" \in S /\ "decPost" \in S
  BY DEF StepNames
<1> HIDE DEF S
<1>2. CASE BaseCompContinue("render")
  BY <1>1, <1>2, BaseContinueIs DEF Comp, S
<1>3. CASE PictureComes
  <2>1. \E new \in {{}, {"continue"}} : Goes("render", "picture", new)
    BY <1>3, PictureIs
  <2> QED BY <1>1, <2>1 DEF S
<1>4. CASE NoPictureComes
  <2>1. \E new \in {{}, {"reopen", "decContinue", "continue"}} : Goes("render", "picture", new)
    BY <1>4, NoPictureIs
  <2> QED BY <1>1, <2>1 DEF S
<1>5. CASE ReopenVideoEngine
  BY <1>1, <1>5, ReopenIs DEF S
<1>6. CASE ContinueDecoder
  BY <1>1, <1>6, ContinueDecoderIs DEF S
<1> QED BY <1>2, <1>3, <1>4, <1>5, <1>6 DEF RenderWorks

\* What there is to do next: the threads take messages, go on, post, answer,
\* and tell the end of the stream, and the callers do their steps.
Begins == PlayerStart \/ PlayerPause \/ PlayerStop \/ PlayerReset \/ PlayerSetEos

\* The kinds of steps that there are.
LEMMA NextIs ==
    Next => \/ DecTakes \/ RenderTakes \/ DecWorks \/ RenderWorks
            \/ \E c \in Comp : PostContinue(c) \/ SendReply(c)
            \/ PostToDecoder \/ NotifyEos \/ AwaitEos
            \/ Begins \/ PlayerInitialVideo
            \/ \E t \in Caller : PostCommand(t) \/ WaitReply(t) \/ JoinThread(t) \/ ChangeStatus(t)
            \/ ChangeDemux
  BY DEF Next, Commands, Begins, CallerStep, VideoDecodeThread, VideoRenderThread,
         DecTakes, RenderTakes, DecWorks, RenderWorks, Comp

\* The flags keep their types.
LEMMA FlagTypesNext == ThreadInv /\ [Next]_vars => FlagTypes'
<1> SUFFICES ASSUME ThreadInv, [Next]_vars PROVE FlagTypes'
  OBVIOUS
<1>1. FlagTypes
  BY DEF ThreadInv
<1>2. CASE UNCHANGED compVars
  BY <1>1, <1>2 DEF FlagTypes, compVars
<1>3. CASE DecTakes
  BY <1>1, <1>3, Zenon
     DEF DecTakes, DecStart, DecStop, DecPause, DecQuit, DecReset, DecSetEos, DecContinue,
         FlagTypes, Statuses, compVars
<1>4. CASE RenderTakes
  BY <1>1, <1>4
     DEF RenderTakes, RenderStart, RenderStop, RenderPause, RenderQuit, RenderReset,
         RenderSetEos, DoRender, FlagTypes, Statuses, compVars
<1>5. CASE DecodeVideoStream
  BY <1>1, <1>5
     DEF DecodeVideoStream, NoBitstream, NoFrameBuffer, ResolutionChange, Unsupported, Decoded,
         FlagTypes, compVars
<1>6. CASE PictureComes \/ NoPictureComes \/ ReopenVideoEngine
  BY <1>1, <1>6
     DEF PictureComes, NoPictureComes, ReopenVideoEngine, ShowPicture, DropPicture, LeaveRender,
         BeginReopen, OtherThanPicture, FlagTypes
<1>7. CASE PlayerInitialVideo
  BY <1>7, InitialVideoIs DEF ThreadInv
<1>8. /\ UNCHANGED vars => UNCHANGED compVars
      /\ \A c \in Comp :
           BaseCompContinue(c) \/ PostContinue(c) \/ SendReply(c) => UNCHANGED compVars
      /\ PostToDecoder \/ NotifyEos \/ AwaitEos \/ DoDecode \/ ResetVideoDecoder
         \/ ContinueDecoder => UNCHANGED compVars
      /\ Begins => UNCHANGED compVars
      /\ \A t \in Caller : PostCommand(t) \/ WaitReply(t) \/ JoinThread(t) \/ ChangeStatus(t)
                           => UNCHANGED compVars
      /\ ChangeDemux => UNCHANGED compVars
  BY DEF vars, BaseCompContinue, PostContinue, SendReply, PostToDecoder, NotifyEos, AwaitEos,
         DoDecode, ResetVideoDecoder, ContinueDecoder, Begins, PlayerStart, PlayerPause,
         PlayerStop, PlayerReset, PlayerSetEos, Issue, PostCommand, WaitReply, JoinThread,
         ChangeStatus, ChangeDemux
<1> QED BY <1>2, <1>3, <1>4, <1>5, <1>6, <1>7, <1>8, NextIs
        DEF DecWorks, RenderWorks, Comp

\* A reply is sent when none is there, ...
LEMMA ReplyTypesSent ==
    ASSUME ThreadInv, Protocol, NEW c \in Comp, NEW id \in Command, Served(c, id),
           replySem' = [replySem EXCEPT ![c][id] = @ + 1]
    PROVE  /\ ReplyTypes'
           /\ \A d \in Comp, jd \in Command :
                Answered(d, jd)' <=> Answered(d, jd) \/ (d = c /\ jd = id)
<1>1. replySem \in [Comp -> [Command -> {0, 1}]]
  BY DEF ThreadInv, ReplyTypes
<1>2. replySem[c][id] = 0
  <2>1. ~ Answered(c, id)
    BY DEF Protocol
  <2> QED BY <1>1, <2>1 DEF Answered
<1>3. \A d \in Comp, jd \in Command :
         replySem'[d][jd] = IF d = c /\ jd = id THEN 1 ELSE replySem[d][jd]
  BY <1>1, <1>2
<1>4. replySem' \in [Comp -> [Command -> {0, 1}]]
  BY <1>1, <1>2
<1> QED BY <1>3, <1>4 DEF ReplyTypes, Answered

\* ... and taken by the caller that waits for it.
LEMMA ReplyTypesTaken ==
    ASSUME ThreadInv, NEW c \in Comp, NEW id \in Command, Answered(c, id),
           replySem' = [replySem EXCEPT ![c][id] = @ - 1]
    PROVE  /\ ReplyTypes'
           /\ \A d \in Comp, jd \in Command :
                Answered(d, jd)' <=> Answered(d, jd) /\ ~ (d = c /\ jd = id)
<1>1. replySem \in [Comp -> [Command -> {0, 1}]]
  BY DEF ThreadInv, ReplyTypes
<1>2. replySem[c][id] = 1
  BY DEF Answered
<1>3. \A d \in Comp, jd \in Command :
         replySem'[d][jd] = IF d = c /\ jd = id THEN 0 ELSE replySem[d][jd]
  BY <1>1, <1>2
<1>4. replySem' \in [Comp -> [Command -> {0, 1}]]
  BY <1>1, <1>2
<1> QED BY <1>3, <1>4 DEF ReplyTypes, Answered

\* Steps, queues and replies that are unchanged keep their types.
LEMMA TypesSame ==
    /\ ThreadInv /\ UNCHANGED todo => TodoInv'
    /\ ThreadInv /\ UNCHANGED mq => QueueTypes'
    /\ ThreadInv /\ UNCHANGED replySem => ReplyTypes'
  BY DEF ThreadInv, TodoInv, QueueTypes, ReplyTypes

\* Steps, queues, replies and flags keep their types and their order.
LEMMA ThreadNext == FlowInv /\ [Next]_vars => ThreadInv'
<1> SUFFICES ASSUME FlowInv, [Next]_vars PROVE ThreadInv'
  OBVIOUS
<1>1. CallerInv /\ ThreadInv /\ Protocol
  BY DEF FlowInv
<1>2. FlagTypes'
  BY <1>1, FlagTypesNext
<1>3. CASE UNCHANGED vars
  <2>1. UNCHANGED << mq, todo, replySem >>
    BY <1>3 DEF vars
  <2> QED BY <1>1, <1>2, <2>1, TypesSame DEF ThreadInv
<1>4. CASE DecTakes \/ RenderTakes
  <2>1. PICK c, id, new : c \in Comp /\ Handles(c, id, new)
    BY <1>4, DecHandles, RenderHandles DEF Comp
  <2>2. TodoInv' /\ QueueTypes' /\ UNCHANGED replySem
    BY <2>1 DEF Handles
  <2> QED BY <1>1, <1>2, <2>2, TypesSame DEF ThreadInv
<1>5. CASE DecWorks \/ RenderWorks
  <2>1. PICK c, name, new : c \in Comp /\ Goes(c, name, new)
    BY <1>1, <1>5, DecGoes, RenderGoes DEF Comp
  <2>2. TodoInv' /\ UNCHANGED << mq, replySem >>
    BY <2>1 DEF Goes, Moves
  <2> QED BY <1>1, <1>2, <2>2, TypesSame DEF ThreadInv
<1>6. ASSUME NEW c \in Comp, PostContinue(c) PROVE ThreadInv'
  <2>1. TodoInv' /\ QueueTypes' /\ UNCHANGED replySem
    BY <1>1, <1>6, PostContinueIs DEF Moves, Posts
  <2> QED BY <1>1, <1>2, <2>1, TypesSame DEF ThreadInv
<1>7. ASSUME NEW c \in Comp, SendReply(c) PROVE ThreadInv'
  <2>1. PICK id \in Command : Replies(c, id)
    BY <1>1, <1>7, SendReplyIs
  <2>2. TodoInv' /\ Served(c, id) /\ replySem' = [replySem EXCEPT ![c][id] = @ + 1]
        /\ UNCHANGED mq
    BY <1>1, <1>7, <2>1, SendReplyIs DEF Replies, Moves
  <2> QED BY <1>1, <1>2, <2>2, TypesSame, ReplyTypesSent DEF ThreadInv
<1>8. CASE PostToDecoder
  <2>1. TodoInv' /\ QueueTypes' /\ UNCHANGED replySem
    BY <1>1, <1>8, PostToDecoderIs DEF Moves, Posts
  <2> QED BY <1>1, <1>2, <2>1, TypesSame DEF ThreadInv
<1>9. CASE NotifyEos
  <2>1. TodoInv' /\ (UNCHANGED mq \/ QueueTypes') /\ UNCHANGED replySem
    BY <1>1, <1>9, NotifyEosIs DEF Moves, Posts, Goes
  <2> QED BY <1>1, <1>2, <2>1, TypesSame DEF ThreadInv
<1>10. CASE AwaitEos
  <2>1. TodoInv' /\ Answered("render", "eos") /\ UNCHANGED mq
        /\ replySem' = [replySem EXCEPT !["render"]["eos"] = @ - 1]
    BY <1>1, <1>10, AwaitEosIs DEF Moves
  <2> QED BY <1>1, <1>2, <2>1, TypesSame, ReplyTypesTaken DEF ThreadInv, Comp, Command
<1>11. CASE Begins \/ ChangeDemux \/ \E t \in Caller : JoinThread(t) \/ ChangeStatus(t)
  <2>1. UNCHANGED << mq, todo, replySem >>
    BY <1>11 DEF Begins, PlayerStart, PlayerPause, PlayerStop, PlayerReset, PlayerSetEos, Issue,
                 ChangeDemux, JoinThread, ChangeStatus
  <2> QED BY <1>1, <1>2, <2>1, TypesSame DEF ThreadInv
<1>12. CASE PlayerInitialVideo
  BY <1>12, InitialVideoIs
<1>13. ASSUME NEW t \in Caller, PostCommand(t) PROVE ThreadInv'
  <2>1. QueueTypes' /\ UNCHANGED << todo, replySem >>
    BY <1>1, <1>13, PostCommandIs DEF Posts
  <2> QED BY <1>1, <1>2, <2>1, TypesSame DEF ThreadInv
<1>14. ASSUME NEW t \in Caller, WaitReply(t) PROVE ThreadInv'
  <2>1. PICK c \in Comp, id \in Command :
          Answered(c, id) /\ replySem' = [replySem EXCEPT ![c][id] = @ - 1]
          /\ UNCHANGED << mq, todo >>
    BY <1>1, <1>14, WaitReplyIs
  <2> QED BY <1>1, <1>2, <2>1, TypesSame, ReplyTypesTaken DEF ThreadInv
<1> QED BY <1>3, <1>4, <1>5, <1>6, <1>7, <1>8, <1>9, <1>10, <1>11, <1>12, <1>13, <1>14, NextIs

-----------------------------------------------------------------------------
(* A command is posted, then worked on, then answered.                      *)

WaitsSame == \A t \in Caller, c \in Comp, id \in Command : Waits(t, c, id)' <=> Waits(t, c, id)

\* The same wait as long as no caller and no end of the stream moves on.
LEMMA WaiterSame ==
    WaitsSame /\ (Due("dec", "awaitEos")' <=> Due("dec", "awaitEos"))
    => \A c \in Comp, id \in Command : Waiter(c, id)' <=> Waiter(c, id)
  BY DEF WaitsSame, Waiter

\* A step that changes no queue, reply or wait keeps the protocol, ...
LEMMA ProtocolSame ==
    ASSUME Protocol, WaitsSame, \A c \in Comp : ThreadSame(c) /\ QueueSame(c), RepliesSame
    PROVE  Protocol'
<1>1. Due("dec", "awaitEos")' <=> Due("dec", "awaitEos")
  BY DEF ThreadSame, Comp, StepNames
<1>2. \A c \in Comp, id \in Command : Waiter(c, id)' <=> Waiter(c, id)
  BY <1>1, WaiterSame
<1>3. \A c \in Comp, id \in Command :
         /\ Posted(c, id)' <=> Posted(c, id)
         /\ Served(c, id)' <=> Served(c, id)
         /\ Answered(c, id)' <=> Answered(c, id)
  BY DEF ThreadSame, QueueSame, RepliesSame
<1> QED BY <1>2, <1>3 DEF Protocol

\* ... so does one that takes a message: a command posted is now worked on ...
LEMMA HandlesProtocol ==
    ASSUME FlowInv, NEW c \in Comp, NEW id \in Messages, NEW new, Handles(c, id, new),
           "awaitEos" \notin new
    PROVE  Protocol'
<1>1. /\ \A d \in Comp : d # c => ThreadSame(d) /\ QueueSame(d)
      /\ RepliesSame /\ CallersSame
  BY HandlesLeaves
<1>2. Due("dec", "awaitEos")' <=> Due("dec", "awaitEos")
  <2>1. CASE c = "dec"
    BY <2>1 DEF Handles, StepNames
  <2>2. CASE c # "dec"
    BY <1>1, <2>2 DEF ThreadSame, Comp, StepNames
  <2> QED BY <2>1, <2>2
<1>3. \A d \in Comp, jd \in Command : Waiter(d, jd)' <=> Waiter(d, jd)
  BY <1>1, <1>2, WaiterSame DEF CallersSame, WaitsSame
<1>4. \A d \in Comp, jd \in Command :
         /\ Posted(d, jd)' <=> Posted(d, jd) /\ ~ (d = c /\ jd = id)
         /\ Served(d, jd)' <=> IF d = c THEN jd = id ELSE Served(d, jd)
         /\ Answered(d, jd)' <=> Answered(d, jd)
         /\ d = c => ~ Served(d, jd)
  BY <1>1 DEF ThreadSame, QueueSame, RepliesSame, Handles
<1>5. Posted(c, id)
  BY DEF Handles
<1> QED BY <1>3, <1>4, <1>5 DEF Protocol, FlowInv

\* ... and one that does another step of a thread.
LEMMA MovesProtocol ==
    ASSUME FlowInv, NEW c \in Comp, NEW name \in StepNames \ {"awaitEos"}, NEW new,
           Moves(c, name, new), "awaitEos" \notin new, WaitsSame, RepliesSame,
           \A d \in Comp, id \in Command : Posted(d, id)' <=> Posted(d, id)
    PROVE  Protocol'
<1>1. \A d \in Comp : d # c => ThreadSame(d)
  BY MovesLeaves
<1>2. \A d \in Comp, jd \in Command : Served(d, jd)' <=> Served(d, jd)
  <2>1. name # "reply"
    BY DEF StepNames
  <2> QED BY <1>1, <2>1 DEF ThreadSame, Moves
<1>3. Due("dec", "awaitEos")' <=> Due("dec", "awaitEos")
  <2>1. CASE c = "dec"
    <3>1. ~ At("dec", "awaitEos")
      BY <2>1 DEF Moves, At
    <3>2. ~ Due("dec", "awaitEos")
      BY <3>1, FirstIsFirst DEF FlowInv, Comp, StepNames, FirstOnly
    <3> QED BY <2>1, <3>2 DEF Moves, StepNames
  <2>2. CASE c # "dec"
    BY <1>1, <2>2 DEF ThreadSame, Comp, StepNames
  <2> QED BY <2>1, <2>2
<1>4. \A d \in Comp, jd \in Command : Waiter(d, jd)' <=> Waiter(d, jd)
  BY <1>3, WaiterSame
<1> QED BY <1>2, <1>4 DEF Protocol, FlowInv, RepliesSame

\* Every command is posted once, worked on once and answered once.
LEMMA ProtocolNext == FlowInv /\ [Next]_vars => Protocol'
<1> SUFFICES ASSUME FlowInv, [Next]_vars PROVE Protocol'
  OBVIOUS
<1>1. CallerInv /\ ThreadInv /\ Protocol
  BY DEF FlowInv
<1>2. CallersSame => WaitsSame
  BY DEF CallersSame, WaitsSame
<1>3. CASE UNCHANGED vars
  <2>1. UNCHANGED << mq, todo, replySem, compVars >> /\ UNCHANGED playerVars
    BY <1>3 DEF vars
  <2> QED BY <1>1, <1>2, <2>1, CompLeft, LeftAlone, ProtocolSame DEF CompSame
<1>4. CASE DecTakes \/ RenderTakes
  <2>1. PICK c, id, new :
          c \in Comp /\ id \in Messages /\ Handles(c, id, new) /\ "awaitEos" \notin new
    BY <1>4, DecHandles, RenderHandles DEF Comp
  <2> QED BY <2>1, HandlesProtocol
<1>5. CASE DecWorks \/ RenderWorks
  <2>1. PICK c, name, new :
          c \in Comp /\ name \in StepNames \ {"awaitEos"} /\ Goes(c, name, new) /\ "awaitEos" \notin new
    BY <1>1, <1>5, DecGoes, RenderGoes DEF Comp
  <2>2. /\ Moves(c, name, new) /\ WaitsSame /\ RepliesSame
        /\ \A d \in Comp, id \in Command : Posted(d, id)' <=> Posted(d, id)
    BY <1>2, <2>1 DEF Goes, QueueSame
  <2> QED BY <2>1, <2>2, MovesProtocol
<1>6. ASSUME NEW c \in Comp, PostContinue(c) PROVE Protocol'
  <2>1. Moves(c, "post", {}) /\ Posts(c, "continue") /\ WaitsSame /\ RepliesSame
    BY <1>1, <1>2, <1>6, PostContinueIs
  <2>2. \A d \in Comp, id \in Command : Posted(d, id)' <=> Posted(d, id)
    BY <2>1 DEF Posts, QueueSame, Command
  <2> QED BY <2>1, <2>2, MovesProtocol DEF StepNames
<1>7. ASSUME NEW c \in Comp, SendReply(c) PROVE Protocol'
  <2>1. PICK id \in Command : Replies(c, id)
    BY <1>1, <1>7, SendReplyIs
  <2>2. /\ \A d \in Comp : d # c => ThreadSame(d)
        /\ \A d \in Comp : QueueSame(d)
        /\ CallersSame
    BY <1>1, <1>7, SendReplyIs
  <2>3. \A d \in Comp, jd \in Command :
          Answered(d, jd)' <=> Answered(d, jd) \/ (d = c /\ jd = id)
    BY <1>1, <2>1, ReplyTypesSent DEF Replies
  <2>4. \A d \in Comp, jd \in Command :
          /\ Served(d, jd)' <=> Served(d, jd) /\ d # c
          /\ d = c => (Served(d, jd) <=> jd = id)
          /\ Posted(d, jd)' <=> Posted(d, jd)
    BY <2>1, <2>2 DEF Replies, ThreadSame, QueueSame
  <2>5. Due("dec", "awaitEos") => Due("dec", "awaitEos")'
    <3>1. CASE c = "dec"
      BY <2>1, <3>1 DEF Replies, Moves, StepNames
    <3>2. CASE c # "dec"
      BY <2>2, <3>2 DEF ThreadSame, StepNames, Comp
    <3> QED BY <3>1, <3>2
  <2>6. \A d \in Comp, jd \in Command : Waiter(d, jd) => Waiter(d, jd)'
    BY <2>2, <2>5 DEF Waiter, CallersSame
  <2>7. Served(c, id)
    BY <2>4
  <2> QED BY <1>1, <2>3, <2>4, <2>6, <2>7 DEF Protocol
<1>8. CASE PostToDecoder
  <2>1. Moves("render", "decPost", {}) /\ Posts("dec", "continue") /\ WaitsSame /\ RepliesSame
    BY <1>1, <1>2, <1>8, PostToDecoderIs
  <2>2. \A d \in Comp, id \in Command : Posted(d, id)' <=> Posted(d, id)
    BY <2>1 DEF Posts, QueueSame, Command
  <2> QED BY <2>1, <2>2, MovesProtocol DEF StepNames, Comp
<1>9. CASE NotifyEos
  <2>1. CASE Goes("dec", "notifyEos", {})
    <3>1. /\ Moves("dec", "notifyEos", {}) /\ WaitsSame /\ RepliesSame
          /\ \A d \in Comp, id \in Command : Posted(d, id)' <=> Posted(d, id)
      BY <1>2, <2>1 DEF Goes, QueueSame
    <3> QED BY <3>1, MovesProtocol DEF StepNames, Comp
  <2>2. CASE /\ Moves("dec", "notifyEos", {"awaitEos"}) /\ Posts("render", "eos")
             /\ ~ Waiter("render", "eos")
             /\ ThreadSame("render") /\ RepliesSame /\ CallersSame
    <3>1. \A d \in Comp, jd \in Command :
            /\ Posted(d, jd)' <=> Posted(d, jd) \/ (d = "render" /\ jd = "eos")
            /\ Served(d, jd)' <=> Served(d, jd)
            /\ Answered(d, jd)' <=> Answered(d, jd)
      BY <2>2 DEF Posts, QueueSame, Moves, ThreadSame, RepliesSame, Comp
    <3>2. Due("dec", "awaitEos")'
      BY <2>2 DEF Moves, StepNames
    <3>3. \A d \in Comp, jd \in Command :
            /\ Waiter(d, jd) => Waiter(d, jd)'
            /\ Waiter("render", "eos")'
      BY <2>2, <3>2 DEF Waiter, CallersSame
    <3> QED BY <1>1, <2>2, <3>1, <3>3 DEF Protocol
  <2> QED BY <1>1, <1>9, <2>1, <2>2, NotifyEosIs
<1>10. CASE AwaitEos
  <2>1. /\ Moves("dec", "awaitEos", {}) /\ Answered("render", "eos")
        /\ replySem' = [replySem EXCEPT !["render"]["eos"] = @ - 1]
        /\ \A d \in Comp : QueueSame(d)
        /\ ThreadSame("render") /\ CallersSame
    BY <1>1, <1>10, AwaitEosIs
  <2>2. \A d \in Comp, jd \in Command :
          Answered(d, jd)' <=> Answered(d, jd) /\ ~ (d = "render" /\ jd = "eos")
    BY <1>1, <2>1, ReplyTypesTaken DEF Comp, Command
  <2>3. \A d \in Comp, jd \in Command :
          (Served(d, jd)' <=> Served(d, jd)) /\ (Posted(d, jd)' <=> Posted(d, jd))
    BY <2>1 DEF Moves, ThreadSame, QueueSame, Comp
  <2>4. \A d \in Comp, jd \in Command :
          Waiter(d, jd) /\ ~ (d = "render" /\ jd = "eos") => Waiter(d, jd)'
    BY <2>1 DEF Waiter, CallersSame
  <2> QED BY <1>1, <2>1, <2>2, <2>3, <2>4 DEF Protocol, Comp, Command
<1>11. CASE Begins
  <2>1. CompSame /\ WaitsSame
    BY <1>1, <1>11, PlayerStartIs, PlayerPauseIs, PlayerStopIs, PlayerResetIs, PlayerSetEosIs
       DEF Begins, WaitsSame
  <2> QED BY <1>1, <2>1, ProtocolSame DEF CompSame
<1>12. CASE ChangeDemux
  BY <1>1, <1>2, <1>12, ChangeDemuxIs, ProtocolSame DEF CompSame
<1>13. ASSUME NEW t \in Caller, JoinThread(t) \/ ChangeStatus(t) PROVE Protocol'
  <2>1. CompSame /\ WaitsSame
    BY <1>1, <1>13, JoinThreadIs, ChangeStatusIs DEF WaitsSame
  <2> QED BY <1>1, <2>1, ProtocolSame DEF CompSame
<1>14. CASE PlayerInitialVideo
  BY <1>14, InitialVideoIs DEF Protocol
<1>15. ASSUME NEW t \in Caller, PostCommand(t) PROVE Protocol'
  <2>1. PICK c \in Comp, id \in Command :
             /\ ~ Waiter(c, id) /\ Posts(c, id)
             /\ (\A d \in Comp : ThreadSame(d)) /\ RepliesSame
             /\ \A u \in Caller, d \in Comp, jd \in Command :
                  Waits(u, d, jd)' <=> Waits(u, d, jd) \/ (u = t /\ d = c /\ jd = id)
    BY <1>1, <1>15, PostCommandIs
  <2>2. \A d \in Comp, jd \in Command :
          /\ Posted(d, jd)' <=> Posted(d, jd) \/ (d = c /\ jd = id)
          /\ Served(d, jd)' <=> Served(d, jd)
          /\ Answered(d, jd)' <=> Answered(d, jd)
    BY <2>1 DEF Posts, QueueSame, ThreadSame, RepliesSame
  <2>3. Due("dec", "awaitEos")' <=> Due("dec", "awaitEos")
    BY <2>1 DEF ThreadSame, Comp, StepNames
  <2>4. /\ \A d \in Comp, jd \in Command : Waiter(d, jd) => Waiter(d, jd)'
        /\ Waiter(c, id)'
    BY <2>1, <2>3 DEF Waiter
  <2> QED BY <1>1, <2>1, <2>2, <2>4 DEF Protocol
<1>16. ASSUME NEW t \in Caller, WaitReply(t) PROVE Protocol'
  <2>1. PICK c \in Comp, id \in Command :
             /\ Waits(t, c, id) /\ Answered(c, id)
             /\ replySem' = [replySem EXCEPT ![c][id] = @ - 1]
             /\ \A d \in Comp : ThreadSame(d) /\ QueueSame(d)
             /\ \A u \in Caller, d \in Comp, jd \in Command :
                  /\ Waits(u, d, jd)' <=> Waits(u, d, jd) /\ u # t
                  /\ Waits(t, d, jd) => d = c /\ jd = id
    BY <1>1, <1>16, WaitReplyIs
  <2>2. \A d \in Comp, jd \in Command :
          Answered(d, jd)' <=> Answered(d, jd) /\ ~ (d = c /\ jd = id)
    BY <1>1, <2>1, ReplyTypesTaken
  <2>3. \A d \in Comp, jd \in Command :
          (Served(d, jd)' <=> Served(d, jd)) /\ (Posted(d, jd)' <=> Posted(d, jd))
    BY <2>1 DEF ThreadSame, QueueSame
  <2>4. Due("dec", "awaitEos")' <=> Due("dec", "awaitEos")
    BY <2>1 DEF ThreadSame, Comp, StepNames
  <2>5. \A d \in Comp, jd \in Command :
          Waiter(d, jd) /\ ~ (d = c /\ jd = id) => Waiter(d, jd)'
    BY <2>1, <2>4 DEF Waiter
  <2> QED BY <1>1, <2>1, <2>2, <2>3, <2>5 DEF Protocol
<1> QED BY <1>3, <1>4, <1>5, <1>6, <1>7, <1>8, <1>9, <1>10, <1>11, <1>12, <1>13, <1>14,
           <1>15, <1>16, NextIs

-----------------------------------------------------------------------------
(* The status of the components.                                            *)

Statusing == {"start", "pause", "stop"}
AheadSame(c, id) == \A t \in Caller : Ahead(t, c, id)' <=> Ahead(t, c, id)
SettingSame == \A value \in Statuses :
                 Has("xplayer", SetStatus(value))' <=> Has("xplayer", SetStatus(value))

\* A component keeps what the commands before it expect of its status.
LEMMA StatusKept ==
    ASSUME NEW c \in Comp, StatusOf(c), status'[c] = status[c], eStatus' = eStatus,
           SettingSame, \A id \in Statusing : AheadSame(c, id)
    PROVE  StatusOf(c)'
<1>1. \A id \in Statusing : AheadOf(c, id)' <=> AheadOf(c, id)
  BY DEF AheadSame, AheadOf
<1>2. /\ AheadOf(c, "start")' <=> AheadOf(c, "start")
      /\ AheadOf(c, "pause")' <=> AheadOf(c, "pause")
      /\ AheadOf(c, "stop")' <=> AheadOf(c, "stop")
  BY <1>1 DEF Statusing
<1> QED BY <1>2, Zenon DEF StatusOf, SettingSame

\* A command before a component stays there while nothing is taken or posted.
LEMMA AheadAlone ==
    ASSUME NEW c \in Comp, NEW id \in Command, CallersSame,
           Posted(c, id)' <=> Posted(c, id)
    PROVE  AheadSame(c, id)
  BY DEF CallersSame, AheadSame, Ahead

\* The commands that are ahead when the thread of c takes one.
LEMMA AheadTaken ==
    ASSUME FlowInv, NEW c \in Comp, NEW id \in Messages, NEW new, Handles(c, id, new)
    PROVE  /\ CallersSame /\ SettingSame /\ eStatus' = eStatus
           /\ \A d \in Comp, jd \in Command : d # c \/ jd # id => AheadSame(d, jd)
           /\ \A t \in Caller : Ahead(t, c, id)' <=> Calls(t, c, id)
<1>1. /\ CallersSame /\ \A d \in Comp : d # c => QueueSame(d)
  BY HandlesLeaves
<1>2. ASSUME NEW d \in Comp, NEW jd \in Command, d # c \/ jd # id PROVE AheadSame(d, jd)
  <2>1. Posted(d, jd)' <=> Posted(d, jd)
    BY <1>1, <1>2 DEF QueueSame, Handles
  <2> QED BY <1>1, <2>1, AheadAlone
<1>3. ASSUME NEW t \in Caller PROVE Ahead(t, c, id)' <=> Calls(t, c, id)
  <2>1. CASE id \in Command
    <3>1. ~ Posted(c, id)'
      BY <2>1 DEF Handles
    <3>2. Calls(t, c, id)' <=> Calls(t, c, id)
      BY <1>1, <2>1 DEF CallersSame
    <3> QED BY <3>1, <3>2 DEF Ahead
  <2>2. CASE id = "continue"
    <3>1. script'[t] = script[t]
      BY DEF Handles, playerVars
    <3>2. \A d \in Comp, jd \in Command : WaitFor(d, jd) # WaitFor(c, "continue")
      BY <2>2, StepsDiffer DEF Command
    <3>3. ~ Waits(t, c, "continue")
      <4> SUFFICES ASSUME Waits(t, c, "continue") PROVE FALSE
        OBVIOUS
      <4>1. WaitFor(c, "continue") \in StepsOf(t)
        BY HasStep DEF Waits, FlowInv
      <4> QED BY <4>1 DEF StepsOf, PlayerSteps, DemuxSteps, WaitFor, PlayerIds, ResetIds
    <3> QED BY <2>2, <3>1, <3>3 DEF Ahead, Calls, Waits, Has
  <2> QED BY <2>1, <2>2 DEF Messages
<1> QED BY <1>1, <1>2, <1>3 DEF CallersSame, SettingSame

\* A command that does not change the status.
LEMMA StatusFrame ==
    ASSUME StatusInv, CallersSame, \A c \in Comp : status'[c] = status[c],
           \A c \in Comp, id \in Statusing : AheadSame(c, id)
    PROVE  StatusInv'
<1>1. SettingSame /\ eStatus' = eStatus
  BY DEF CallersSame, SettingSame
<1> QED BY <1>1, StatusKept DEF StatusInv

\* The status of the other component stays.
LEMMA StatusOther ==
    ASSUME FlowInv, NEW c \in Comp, NEW id \in Messages, NEW new, Handles(c, id, new),
           \A d \in Comp : d # c => FlagsSame(d)
    PROVE  \A d \in Comp : d # c => StatusOf(d)'
<1>1. /\ CallersSame /\ SettingSame /\ eStatus' = eStatus
      /\ \A d \in Comp, jd \in Command : d # c \/ jd # id => AheadSame(d, jd)
  BY AheadTaken
<1>2. ASSUME NEW d \in Comp, d # c PROVE StatusOf(d)'
  <2>1. \A jd \in Statusing : AheadSame(d, jd)
    BY <1>1, <1>2 DEF Statusing, Command
  <2>2. status'[d] = status[d] /\ StatusOf(d)
    BY <1>2 DEF FlagsSame, FlowInv, StatusInv
  <2> QED BY <1>1, <2>1, <2>2, StatusKept
<1> QED BY <1>2

\* A message that is no start, pause or stop keeps every status as expected.
LEMMA StatusPlain ==
    ASSUME FlowInv, NEW c \in Comp, NEW id \in Messages \ Statusing, NEW new,
           Handles(c, id, new), status'[c] = status[c],
           \A d \in Comp : d # c => FlagsSame(d)
    PROVE  StatusInv'
<1>1. /\ SettingSame /\ eStatus' = eStatus
      /\ \A jd \in Statusing : AheadSame(c, jd)
  BY AheadTaken DEF Statusing, Command
<1>2. StatusOf(c)'
  BY <1>1, StatusKept DEF FlowInv, StatusInv
<1> QED BY <1>2, StatusOther DEF StatusInv

\* A component that quits is stopped already.
LEMMA QuitsStopped ==
    ASSUME FlowInv, NEW c \in Comp, Posted(c, "quit")
    PROVE  /\ eStatus = "STOPPED" /\ \A d \in Comp : status[d] = "STOPPED"
           /\ Has("xplayer", Join("dec"))
           /\ ~ Has("xplayer", SetStatus("STOPPED"))
<1>1. CallerInv /\ Protocol /\ StatusInv
  BY DEF FlowInv
<1>2. PICK t \in Caller : Waits(t, c, "quit") /\ Left(t, c, "quit")
  BY <1>1, TakenFor DEF Command
<1>3. t = "xplayer"
  BY <1>1, <1>2, WhoseCommand DEF Command, Caller, ResetIds
<1>4. /\ eStatus = "STOPPED" /\ Idle("demux")
      /\ \A value \in Statuses : ~ Has("xplayer", SetStatus(value))
      /\ \A d \in Comp, id \in Statusing : ~ Left("xplayer", d, id)
  BY <1>1, <1>2, <1>3, WhileQuitting DEF Statusing
<1>5. \A d \in Comp, id \in Statusing : ~ AheadOf(d, id)
  BY <1>4, IdleHasNothing DEF AheadOf, Ahead, Left, Calls, Waits, Caller
<1>6. \A d \in Comp : status[d] = "STOPPED"
  BY <1>1, <1>4, <1>5 DEF StatusInv, StatusOf, Statusing
<1>7. Has("xplayer", Join("dec"))
  BY <1>1, <1>2, <1>3, PlayerCommand DEF Command
<1> QED BY <1>4, <1>6, <1>7 DEF Statuses

\* The status that a command leads to.
LEMMA Goals ==
    /\ \A c \in Comp : /\ Goal(Call(c, "start")) = "STARTED"
                       /\ Goal(Call(c, "pause")) = "PAUSED"
                       /\ Goal(Call(c, "stop")) = "STOPPED"
                       /\ Goal(Call(c, "quit")) = "STOPPED"
    /\ {"start", "stop", "pause", "reset", "eos", "quit"} = Command
  BY CallPlaces DEF Command

\* Which commands are ahead, and which status the player will have, when a
\* component takes a start, a pause or a stop.
LEMMA StatusTaken ==
    ASSUME FlowInv, NEW c \in Comp, NEW id \in Statusing, Posted(c, id)
    PROVE  \/ /\ \A jd \in Statusing : ~ Calls("xplayer", c, jd) /\ ~ Left("demux", c, jd)
              /\ \A jd \in Statusing : Waits("xplayer", c, jd) => jd = id
              /\ \A value \in Statuses :
                   Has("xplayer", SetStatus(value)) <=> value = Goal(Call(c, id))
           \/ /\ id \in {"start", "pause"} /\ eStatus = "STARTED"
              /\ ~ Left("xplayer", c, "start") /\ ~ Left("xplayer", c, "pause")
              /\ ~ Calls("demux", c, "pause") /\ (id = "start" => ~ Waits("demux", c, "pause"))
              /\ Calls("demux", c, "start") <=> id = "pause"
              /\ \A value \in Statuses :
                   Has("xplayer", SetStatus(value)) => Calls("xplayer", c, "stop")
<1>1. CallerInv /\ Protocol /\ id \in Command
  BY DEF FlowInv, Statusing, Command
<1>2. PICK t \in Caller : Waits(t, c, id) /\ Left(t, c, id)
  BY <1>1, TakenFor DEF Statusing
<1>3. CASE t = "xplayer"
  <2>1. ~ Resets
    BY <1>1, <1>2, <1>3, WhileResetting
  <2>2. \A jd \in Statusing : ~ Left("demux", c, jd)
    BY <1>1, <2>1, WhoseCommand DEF Statusing, Resets, Left, ResetIds, Command
  <2>3. \A jd \in Statusing : Left("xplayer", c, jd) => jd = id
    <3> SUFFICES ASSUME NEW jd \in Statusing, Left("xplayer", c, jd) PROVE jd = id
      OBVIOUS
    <3>1. Goal(Call(c, id)) = Goal(Call(c, jd))
      BY <1>1, <1>2, <1>3, PlayerCommand DEF Statusing, Command
    <3> QED BY <3>1, Goals DEF Statusing
  <2>4. ~ Calls("xplayer", c, id)
    BY <1>1, <1>2, <1>3, OneWait
  <2>5. \A value \in Statuses :
          Has("xplayer", SetStatus(value)) <=> value = Goal(Call(c, id))
    BY <1>1, <1>2, <1>3, PlayerCommand DEF Statusing
  <2> QED BY <2>2, <2>3, <2>4, <2>5 DEF Left
<1>4. CASE t = "demux"
  <2>1. id \in {"start", "pause"}
    BY <1>1, <1>2, <1>4, WhoseCommand DEF ResetIds, Statusing
  <2>2. Resets /\ eStatus = "STARTED"
    BY <1>1, <1>2, <1>4, <2>1 DEF Resets, ResetIds, CallerInv
  <2>3. ~ Left("xplayer", c, "start") /\ ~ Left("xplayer", c, "pause")
    BY <1>1, <2>2, WhileResetting DEF Command
  <2>4. ~ Calls("demux", c, id) /\ \A jd \in Command : Waits("demux", c, jd) => jd = id
    BY <1>1, <1>2, <1>4, OneWait
  <2>5. /\ id = "pause" => Calls("demux", c, "start")
        /\ id = "start" => ~ Left("demux", c, "pause")
    BY <1>1, <1>2, <1>4, ResetOrder
  <2>6. \A value \in Statuses :
          Has("xplayer", SetStatus(value)) => Calls("xplayer", c, "stop")
    BY <1>1, <2>2, WhileResetting, IdleHasNothing DEF Caller
  <2> QED BY <2>1, <2>2, <2>3, <2>4, <2>5, <2>6 DEF Left
<1> QED BY <1>2, <1>3, <1>4 DEF Caller

\* A component that takes a start, a pause or a stop has the status that comes next.
LEMMA StatusChanges ==
    ASSUME FlowInv, NEW c \in Comp, NEW id \in Statusing, NEW new, Handles(c, id, new),
           status'[c] = Goal(Call(c, id)), \A d \in Comp : d # c => FlagsSame(d)
    PROVE  StatusInv'
<1>1. id \in Messages /\ id \in Command /\ Posted(c, id)
  BY DEF Statusing, Messages, Command, Handles
<1>2. /\ SettingSame /\ eStatus' = eStatus /\ CallersSame
      /\ \A jd \in Statusing : jd # id => AheadSame(c, jd)
      /\ \A t \in Caller : Ahead(t, c, id)' <=> Calls(t, c, id)
  BY <1>1, AheadTaken DEF Statusing, Command
<1>3. /\ \A jd \in Statusing : AheadOf(c, jd)' => AheadOf(c, jd)
      /\ \A jd \in Statusing : AheadOf(c, jd)' =>
           IF jd = id THEN \E t \in Caller : Calls(t, c, jd) ELSE AheadOf(c, jd)
      /\ \A jd \in Statusing : (\E t \in Caller : Calls(t, c, jd)) => AheadOf(c, jd)'
  BY <1>2 DEF AheadOf, AheadSame, Ahead
<1>4. CASE /\ \A jd \in Statusing : ~ Calls("xplayer", c, jd) /\ ~ Left("demux", c, jd)
           /\ \A jd \in Statusing : Waits("xplayer", c, jd) => jd = id
           /\ \A value \in Statuses :
                Has("xplayer", SetStatus(value)) <=> value = Goal(Call(c, id))
  <2>1. \A jd \in Statusing : ~ AheadOf(c, jd)'
    BY <1>3, <1>4 DEF AheadOf, Ahead, Left, Caller
  <2>2. Goal(Call(c, id)) \in Statuses
    BY Goals DEF Statusing, Statuses
  <2>3. \A value \in Statuses :
          Has("xplayer", SetStatus(value))' <=> value = Goal(Call(c, id))
    BY <1>2, <1>4 DEF SettingSame
  <2>4. StatusOf(c)'
    BY <2>1, <2>2, <2>3 DEF StatusOf, Statusing
  <2> QED BY <1>1, <2>4, StatusOther DEF StatusInv
<1>5. CASE /\ id \in {"start", "pause"} /\ eStatus = "STARTED"
           /\ ~ Left("xplayer", c, "start") /\ ~ Left("xplayer", c, "pause")
           /\ ~ Calls("demux", c, "pause") /\ (id = "start" => ~ Waits("demux", c, "pause"))
           /\ Calls("demux", c, "start") <=> id = "pause"
           /\ \A value \in Statuses :
                Has("xplayer", SetStatus(value)) => Calls("xplayer", c, "stop")
  <2>1. ~ AheadOf(c, "pause")'
    BY <1>3, <1>5 DEF AheadOf, Ahead, Left, Caller, Statusing
  <2>2. AheadOf(c, "start")' <=> id = "pause"
    BY <1>3, <1>5 DEF Left, Caller, Statusing
  <2>3. status'[c] = IF id = "pause" THEN "PAUSED" ELSE "STARTED"
    BY <1>5, Goals
  <2>4. \A value \in Statuses : Has("xplayer", SetStatus(value))' => AheadOf(c, "stop")'
    BY <1>2, <1>3, <1>5 DEF SettingSame, Caller, Statusing
  <2>5. StatusOf(c)'
    BY <1>2, <1>5, <2>1, <2>2, <2>3, <2>4 DEF StatusOf
  <2> QED BY <1>1, <2>5, StatusOther DEF StatusInv
<1> QED BY <1>1, <1>4, <1>5, StatusTaken

\* Every message that is taken keeps the status as expected, ...
LEMMA TakesStatus ==
    ASSUME FlowInv, DecTakes \/ RenderTakes
    PROVE  StatusInv'
<1>1. ThreadInv /\ StatusInv
  BY DEF FlowInv
<1>2. /\ {"start", "pause", "stop"} = Statusing /\ "dec" \in Comp /\ "render" \in Comp
      /\ {"continue", "reset", "eos", "quit"} = Messages \ Statusing
      /\ \A c \in Comp : c = "dec" \/ c = "render"
  BY DEF Statusing, Comp, Messages, Command
<1>3. \A c \in Comp : \A id, new : Handles(c, id, new) => Posted(c, id)
  BY DEF Handles
<1>4. \A c \in Comp : Posted(c, "pause") => Works(c)
  <2> SUFFICES ASSUME NEW c \in Comp, Posted(c, "pause") PROVE Works(c)
    OBVIOUS
  <2>1. PICK t \in Caller : Ahead(t, c, "pause")
    BY TakenFor DEF FlowInv, Command
  <2>2. status[c] = "STARTED"
    BY <1>1, <2>1 DEF AheadOf, StatusInv, StatusOf
  <2> QED BY <2>2 DEF Works
<1>5. CASE DecStart \/ DecStop \/ DecPause
  <2>1. DecStop => status["dec"] # "STOPPED"
    <3> SUFFICES ASSUME DecStop PROVE status["dec"] # "STOPPED"
      OBVIOUS
    <3>1. mq["dec"] # << >> /\ Head(mq["dec"]) = "stop" /\ mq["dec"] \in Seq(Messages)
      BY <1>1 DEF DecStop, Take, ThreadInv, QueueTypes, Comp
    <3>2. Posted("dec", "stop")
      BY <3>1, TakenElements DEF Posted
    <3> QED BY <3>2, <1>2, StopFindsStarted DEF FlowInv
  <2>2. \E id \in Statusing : \E new :
          /\ Handles("dec", id, new) /\ FlagsSame("render")
          /\ status'["dec"] = Goal(Call("dec", id))
    <3>1. CASE DecStart
      BY <1>1, <1>2, <3>1, DecStartIs, Goals
    <3>2. CASE DecStop
      BY <1>1, <1>2, <2>1, <3>2, DecStopIs, Goals
    <3>3. CASE DecPause
      BY <1>1, <1>2, <1>3, <1>4, <3>3, DecPauseIs, Goals
    <3> QED BY <1>5, <3>1, <3>2, <3>3
  <2> QED BY <1>2, <2>2, StatusChanges
<1>6. CASE RenderStart \/ RenderStop \/ RenderPause
  <2>2. \E id \in Statusing : \E new :
          /\ Handles("render", id, new) /\ FlagsSame("dec")
          /\ status'["render"] = Goal(Call("render", id))
    <3>1. CASE RenderStart
      BY <1>1, <1>2, <3>1, RenderStartIs, Goals
    <3>2. CASE RenderStop
      BY <1>1, <1>2, <3>2, RenderStopIs, Goals
    <3>3. CASE RenderPause
      BY <1>1, <1>2, <1>3, <1>4, <3>3, RenderPauseIs, Goals
    <3> QED BY <1>6, <3>1, <3>2, <3>3
  <2> QED BY <1>2, <2>2, StatusChanges
<1>7. CASE DecQuit \/ DecReset \/ DecSetEos \/ DecContinue
  <2>1. \A c \in Comp : Posted(c, "quit") => status[c] = "STOPPED"
    BY QuitsStopped
  <2>2. \E id \in Messages \ Statusing : \E new :
          Handles("dec", id, new) /\ FlagsSame("render") /\ status'["dec"] = status["dec"]
    <3>1. CASE DecQuit
      BY <1>1, <1>2, <1>3, <2>1, <3>1, DecQuitIs
    <3>2. CASE DecReset
      BY <1>1, <1>2, <3>2, DecResetIs
    <3>3. CASE DecSetEos
      BY <1>1, <1>2, <3>3, DecSetEosIs
    <3>4. CASE DecContinue
      <4>1. Handles("dec", "continue", {"doDecode"}) /\ FlagsSame("render") /\ FlagsSame("dec")
        BY <1>1, <1>2, <3>4, DecContinueIs, LeftAlone
      <4> QED BY <1>2, <4>1 DEF FlagsSame
    <3> QED BY <1>7, <3>1, <3>2, <3>3, <3>4
  <2> QED BY <1>2, <2>2, StatusPlain
<1>8. CASE RenderQuit \/ RenderReset \/ RenderSetEos \/ DoRender
  <2>1. \A c \in Comp : Posted(c, "quit") => status[c] = "STOPPED"
    BY QuitsStopped
  <2>2. \E id \in Messages \ Statusing : \E new :
          Handles("render", id, new) /\ FlagsSame("dec")
          /\ status'["render"] = status["render"]
    <3>1. CASE RenderQuit
      BY <1>1, <1>2, <1>3, <2>1, <3>1, RenderQuitIs
    <3>2. CASE RenderReset
      BY <1>1, <1>2, <3>2, RenderResetIs
    <3>3. CASE RenderSetEos
      BY <1>1, <1>2, <3>3, RenderSetEosIs
    <3>4. CASE DoRender
      <4>1. /\ Handles("render", "continue", {n \in {"picture"} : Works("render")})
            /\ FlagsSame("render") /\ FlagsSame("dec")
        BY <1>1, <1>2, <3>4, DoRenderIs, LeftAlone
      <4> QED BY <1>2, <4>1 DEF FlagsSame
    <3> QED BY <1>8, <3>1, <3>2, <3>3, <3>4
  <2> QED BY <1>2, <2>2, StatusPlain
<1> QED BY <1>5, <1>6, <1>7, <1>8 DEF DecTakes, RenderTakes

\* What is ahead of an idle player.
LEMMA StatusIdle ==
    ASSUME FlowInv, Idle("xplayer"), ~ Resets
    PROVE  /\ \A c \in Comp : status[c] = eStatus
           /\ \A c \in Comp, id \in Statusing : ~ AheadOf(c, id) /\ ~ Left("demux", c, id)
<1>1. CallerInv /\ StatusInv
  BY DEF FlowInv
<1>2. \A c \in Comp, id \in Statusing : ~ Left("xplayer", c, id)
  BY IdleHasNothing DEF Left, Calls, Waits, Caller
<1>3. \A c \in Comp, id \in Statusing : ~ Left("demux", c, id)
  BY <1>1, WhoseCommand DEF Statusing, Resets, Left, ResetIds, Command
<1>4. \A c \in Comp, id \in Statusing : ~ AheadOf(c, id)
  BY <1>2, <1>3 DEF AheadOf, Ahead, Left, Caller
<1>5. \A value \in Statuses : ~ Has("xplayer", SetStatus(value))
  BY IdleHasNothing DEF Caller
<1>6. \A c \in Comp : status[c] = eStatus
  BY <1>1, <1>4, <1>5 DEF StatusInv, StatusOf, Statusing
<1> QED BY <1>3, <1>4, <1>6

\* ... and so does a new script, ...
LEMMA BeginsStatus ==
    ASSUME FlowInv, Begins
    PROVE  StatusInv'
<1>1. CallerInv /\ StatusInv /\ \A id \in Statusing : id \in Command
  BY DEF FlowInv, Statusing, Command
<1>2. CompSame /\ eStatus' = eStatus
  BY <1>1, PlayerStartIs, PlayerPauseIs, PlayerStopIs, PlayerResetIs, PlayerSetEosIs
     DEF Begins
<1>3. \A c \in Comp : /\ status'[c] = status[c]
                      /\ \A id \in Command : Posted(c, id)' <=> Posted(c, id)
  BY <1>2 DEF CompSame, FlagsSame, QueueSame
<1>4. CASE PlayerStart
  <2>1. /\ Idle("xplayer") /\ ~ Resets /\ eStatus # "STARTED"
        /\ \A c \in Comp, id \in Command :
                /\ ~ Left("xplayer", c, id)
                /\ Calls("xplayer", c, id)' <=> id = "start"
                /\ Calls("demux", c, id)' <=> Calls("demux", c, id)
        /\ \A u \in Caller, c \in Comp, id \in Command : Waits(u, c, id)' <=> Waits(u, c, id)
    BY <1>1, <1>4, PlayerStartIs
  <2>2. /\ \A c \in Comp : status[c] = eStatus
        /\ \A c \in Comp, id \in Statusing : ~ AheadOf(c, id) /\ ~ Left("demux", c, id)
    BY <2>1, StatusIdle
  <2>3. \A c \in Comp : /\ AheadOf(c, "start")' /\ ~ AheadOf(c, "pause")'
                        /\ ~ AheadOf(c, "stop")'
    BY <1>1, <2>1, <2>2 DEF AheadOf, Ahead, Left, Caller, Statusing
  <2>4. eStatus \in Statuses
    BY <1>1 DEF CallerInv
  <2> QED BY <1>2, <1>3, <2>1, <2>2, <2>3, <2>4 DEF StatusInv, StatusOf, Statuses
<1>5. CASE PlayerPause
  <2>1. /\ Idle("xplayer") /\ ~ Resets /\ eStatus = "STARTED"
        /\ \A c \in Comp, id \in Command :
                /\ ~ Left("xplayer", c, id)
                /\ Calls("xplayer", c, id)' <=> id = "pause"
                /\ Calls("demux", c, id)' <=> Calls("demux", c, id)
        /\ \A u \in Caller, c \in Comp, id \in Command : Waits(u, c, id)' <=> Waits(u, c, id)
    BY <1>1, <1>5, PlayerPauseIs
  <2>2. /\ \A c \in Comp : status[c] = eStatus
        /\ \A c \in Comp, id \in Statusing : ~ AheadOf(c, id) /\ ~ Left("demux", c, id)
    BY <2>1, StatusIdle
  <2>3. \A c \in Comp : AheadOf(c, "pause")'
    BY <1>1, <2>1 DEF AheadOf, Ahead, Caller, Statusing
  <2> QED BY <1>3, <2>1, <2>2, <2>3 DEF StatusInv, StatusOf
<1>6. CASE PlayerStop
  <2>1. /\ Idle("xplayer") /\ eStatus # "STOPPED"
        /\ \A c \in Comp, id \in Command :
                /\ ~ Left("xplayer", c, id)
                /\ Calls("xplayer", c, id)' <=> id \in {"stop", "quit"}
                /\ Calls("demux", c, id)' <=> Calls("demux", c, id)
        /\ \A u \in Caller, c \in Comp, id \in Command : Waits(u, c, id)' <=> Waits(u, c, id)
    BY <1>1, <1>6, PlayerStopIs
  <2>2. \A c \in Comp : /\ AheadOf(c, "start")' <=> AheadOf(c, "start")
                        /\ AheadOf(c, "pause")' <=> AheadOf(c, "pause")
                        /\ AheadOf(c, "stop")'
    BY <1>1, <1>3, <2>1 DEF AheadOf, Ahead, Left, Caller, Statusing
  <2>3. \A c \in Comp : ~ AheadOf(c, "stop")
    BY <1>1, <2>1, WhoseCommand DEF AheadOf, Ahead, Left, Caller, Statusing, ResetIds
  <2>4. \A value \in Statuses : ~ Has("xplayer", SetStatus(value))
    BY <2>1, IdleHasNothing DEF Caller
  <2>5. \A c \in Comp : status[c] # "STOPPED"
    BY <1>1, <2>1, <2>3, <2>4 DEF StatusInv, StatusOf
  <2> QED BY <1>1, <1>2, <1>3, <2>2, <2>5 DEF StatusInv, StatusOf
<1>7. CASE PlayerReset
  <2>1. /\ Idle("xplayer") /\ Idle("demux") /\ eStatus # "STOPPED"
        /\ \A c \in Comp, id \in Command :
                /\ ~ Left("xplayer", c, id) /\ ~ Left("demux", c, id)
                /\ Calls("demux", c, id)' <=>
                     id = "reset" \/ (eStatus = "STARTED" /\ id \in ResetIds)
                /\ Calls("xplayer", c, id)' <=> Calls("xplayer", c, id)
        /\ \A u \in Caller, c \in Comp, id \in Command : Waits(u, c, id)' <=> Waits(u, c, id)
        /\ \A x : Has("xplayer", x)' <=> Has("xplayer", x)
    BY <1>1, <1>7, PlayerResetIs
  <2>2. \A c \in Comp : status[c] = eStatus
    BY <1>1, <2>1, StatusIdle, ResetsResetting DEF Resetting
  <2>3. \A c \in Comp : /\ AheadOf(c, "start")' <=> eStatus = "STARTED"
                        /\ AheadOf(c, "pause")' <=> eStatus = "STARTED"
                        /\ ~ AheadOf(c, "stop")'
    BY <1>1, <2>1 DEF AheadOf, Ahead, Left, Caller, Statusing, ResetIds
  <2>4. \A value \in Statuses : ~ Has("xplayer", SetStatus(value))'
    BY <2>1, IdleHasNothing DEF Caller
  <2> QED BY <1>2, <1>3, <2>2, <2>3, <2>4 DEF StatusInv, StatusOf
<1>8. CASE PlayerSetEos
  <2>1. /\ \A c \in Comp, id \in Command :
                /\ ~ Left("demux", c, id)
                /\ Calls("demux", c, id)' <=> c = "dec" /\ id = "eos"
                /\ Calls("xplayer", c, id)' <=> Calls("xplayer", c, id)
        /\ \A u \in Caller, c \in Comp, id \in Command : Waits(u, c, id)' <=> Waits(u, c, id)
        /\ \A x : Has("xplayer", x)' <=> Has("xplayer", x)
    BY <1>1, <1>8, PlayerSetEosIs
  <2>2. \A c \in Comp, id \in Statusing : AheadSame(c, id)
    BY <1>1, <1>3, <2>1 DEF AheadSame, Ahead, Left, Caller, Statusing
  <2>3. SettingSame
    BY <2>1 DEF SettingSame
  <2> QED BY <1>1, <1>2, <1>3, <2>2, <2>3, StatusKept DEF StatusInv
<1> QED BY <1>4, <1>5, <1>6, <1>7, <1>8 DEF Begins

\* The steps of the callers leave what is ahead.
LEMMA CallersAhead ==
    ASSUME CallerInv, ThreadInv, Protocol, NEW t \in Caller,
           PostCommand(t) \/ WaitReply(t) \/ JoinThread(t) \/ ChangeStatus(t)
    PROVE  /\ \A c \in Comp : ThreadSame(c) /\ FlagsSame(c)
           /\ \A c \in Comp, id \in Command : AheadSame(c, id)
           /\ \A c \in Comp, id \in Command : Answered(c, id)' => Answered(c, id)
<1>1. CASE PostCommand(t)
  <2>1. PICK c \in Comp, id \in Command :
             /\ Calls(t, c, id) /\ ~ Waiter(c, id) /\ Posts(c, id)
             /\ (\A d \in Comp : ThreadSame(d) /\ FlagsSame(d)) /\ RepliesSame
             /\ \A u \in Caller, d \in Comp, jd \in Command :
                  /\ Calls(u, d, jd)' <=> Calls(u, d, jd) /\ ~ (u = t /\ d = c /\ jd = id)
                  /\ Waits(u, d, jd)' <=> Waits(u, d, jd) \/ (u = t /\ d = c /\ jd = id)
    BY <1>1, PostCommandIs
  <2>2. \A d \in Comp, jd \in Command :
          Posted(d, jd)' <=> Posted(d, jd) \/ (d = c /\ jd = id)
    BY <2>1 DEF Posts, QueueSame
  <2>3. \A d \in Comp, jd \in Command : AheadSame(d, jd)
    BY <2>1, <2>2 DEF AheadSame, Ahead, Waiter
  <2> QED BY <2>1, <2>3 DEF RepliesSame
<1>2. CASE WaitReply(t)
  <2>1. PICK c \in Comp, id \in Command :
             /\ Waits(t, c, id) /\ ~ Calls(t, c, id) /\ Answered(c, id)
             /\ replySem' = [replySem EXCEPT ![c][id] = @ - 1]
             /\ \A d \in Comp : ThreadSame(d) /\ QueueSame(d) /\ FlagsSame(d)
             /\ \A u \in Caller, d \in Comp, jd \in Command :
                  /\ Calls(u, d, jd)' <=> Calls(u, d, jd)
                  /\ Waits(u, d, jd)' <=> Waits(u, d, jd) /\ u # t
                  /\ Waits(t, d, jd) => d = c /\ jd = id
    BY <1>2, WaitReplyIs
  <2>2. ~ Posted(c, id) /\ \A d \in Comp, jd \in Command : Posted(d, jd)' <=> Posted(d, jd)
    BY <2>1 DEF QueueSame, Protocol
  <2>3. \A d \in Comp, jd \in Command : AheadSame(d, jd)
    BY <2>1, <2>2 DEF AheadSame, Ahead
  <2>4. \A d \in Comp, jd \in Command : Answered(d, jd)' => Answered(d, jd)
    BY <2>1, ReplyTypesTaken
  <2> QED BY <2>1, <2>3, <2>4
<1>3. CASE JoinThread(t) \/ ChangeStatus(t)
  <2>1. /\ CompSame
        /\ \A u \in Caller, c \in Comp, id \in Command :
             (Calls(u, c, id)' <=> Calls(u, c, id)) /\ (Waits(u, c, id)' <=> Waits(u, c, id))
    BY <1>3, JoinThreadIs, ChangeStatusIs
  <2>2. \A d \in Comp, jd \in Command : AheadSame(d, jd)
    BY <2>1 DEF AheadSame, Ahead, CompSame, QueueSame
  <2>3. UNCHANGED replySem
    BY <1>3 DEF JoinThread, ChangeStatus
  <2> QED BY <2>1, <2>2, <2>3 DEF CompSame, Answered
<1> QED BY <1>1, <1>2, <1>3

\* ... and a step of a caller.
LEMMA CallersStatus ==
    ASSUME FlowInv, NEW t \in Caller,
           PostCommand(t) \/ WaitReply(t) \/ JoinThread(t) \/ ChangeStatus(t)
    PROVE  StatusInv'
<1>1. /\ CallerInv /\ ThreadInv /\ Protocol /\ StatusInv
      /\ \A id \in Statusing : id \in Command
  BY DEF FlowInv, Statusing, Command
<1>2. CASE PostCommand(t) \/ WaitReply(t) \/ JoinThread(t)
  <2>1. /\ \A c \in Comp : FlagsSame(c)
        /\ \A c \in Comp, id \in Command : AheadSame(c, id)
    BY <1>1, <1>2, CallersAhead
  <2>2. SettingSame /\ eStatus' = eStatus
    BY <1>1, <1>2, PostCommandIs, WaitReplyIs, JoinThreadIs DEF SettingSame
  <2>3. \A c \in Comp : status'[c] = status[c] /\ StatusOf(c)
    BY <1>1, <2>1 DEF FlagsSame, StatusInv
  <2>4. \A c \in Comp, id \in Statusing : AheadSame(c, id)
    BY <1>1, <2>1
  <2> QED BY <2>2, <2>3, <2>4, StatusKept DEF StatusInv
<1>3. CASE ChangeStatus(t)
  <2>1. PICK value \in Statuses :
             /\ script["xplayer"] # << >> /\ Head(script["xplayer"]) = SetStatus(value)
             /\ eStatus' = value /\ CompSame
             /\ \A u \in Caller, c \in Comp, id \in Command :
                  /\ Calls(u, c, id)' <=> Calls(u, c, id)
                  /\ Waits(u, c, id)' <=> Waits(u, c, id)
             /\ \A v \in Statuses : ~ Has("xplayer", SetStatus(v))'
    BY <1>1, <1>3, ChangeStatusIs
  <2>2. /\ \A c \in Comp, id \in Statusing : ~ Left("xplayer", c, id) /\ ~ Left("demux", c, id)
        /\ Has("xplayer", SetStatus(value))
    BY <1>1, <2>1, WhileSetting DEF Statusing
  <2>3. \A c \in Comp, id \in Statusing : ~ AheadOf(c, id) /\ ~ AheadOf(c, id)'
    BY <1>1, <2>1, <2>2 DEF AheadOf, Ahead, Left, Caller
  <2>4. \A c \in Comp : status[c] = value
    BY <1>1, <2>2, <2>3 DEF StatusInv, StatusOf, Statusing
  <2>5. \A c \in Comp : status'[c] = eStatus'
    BY <2>1, <2>4 DEF CompSame, FlagsSame
  <2> QED BY <2>1, <2>3, <2>5 DEF StatusInv, StatusOf, Statusing
<1> QED BY <1>2, <1>3

\* The status of a component is always what the commands before it expect.
LEMMA StatusNext == FlowInv /\ [Next]_vars => StatusInv'
<1> SUFFICES ASSUME FlowInv, [Next]_vars PROVE StatusInv'
  OBVIOUS
<1>1. /\ CallerInv /\ ThreadInv /\ Protocol /\ StatusInv
      /\ \A id \in Statusing : id \in Command
  BY DEF FlowInv, Statusing, Command
<1> DEFINE Quiet == /\ CallersSame /\ \A c \in Comp : status'[c] = status[c]
                    /\ \A c \in Comp, id \in Statusing : Posted(c, id)' <=> Posted(c, id)
<1>2. ASSUME Quiet PROVE StatusInv'
  BY <1>1, <1>2, AheadAlone, StatusFrame
<1>3. UNCHANGED status => \A c \in Comp : status'[c] = status[c]
  OBVIOUS
<1>4. CASE UNCHANGED vars \/ ChangeDemux
  <2>1. CompSame /\ CallersSame
    BY <1>1, <1>4, CompLeft, LeftAlone, ChangeDemuxIs DEF vars
  <2> QED BY <1>1, <1>2, <2>1 DEF CompSame, QueueSame, FlagsSame
<1>5. CASE DecWorks \/ RenderWorks
  <2>1. UNCHANGED status
    BY <1>5 DEF DecWorks, RenderWorks, BaseCompContinue, DoDecode, DecodeVideoStream,
                ResetVideoDecoder, PictureComes, NoPictureComes, ReopenVideoEngine,
                ContinueDecoder, NoBitstream, NoFrameBuffer, ResolutionChange, Unsupported,
                Decoded, OtherThanPicture, compVars
  <2>2. PICK c, name, new : c \in Comp /\ Goes(c, name, new)
    BY <1>1, <1>5, DecGoes, RenderGoes DEF Comp
  <2> QED BY <1>1, <1>2, <1>3, <2>1, <2>2 DEF Goes, QueueSame
<1>6. ASSUME NEW c \in Comp, PostContinue(c) PROVE StatusInv'
  <2>1. Posts(c, "continue") /\ CallersSame /\ UNCHANGED status
    BY <1>1, <1>6, PostContinueIs DEF compVars
  <2>2. \A d \in Comp, id \in Statusing : Posted(d, id)' <=> Posted(d, id)
    BY <1>1, <2>1 DEF Posts, QueueSame, Statusing
  <2> QED BY <1>2, <1>3, <2>1, <2>2
<1>7. ASSUME NEW c \in Comp, SendReply(c) PROVE StatusInv'
  <2>1. CallersSame /\ UNCHANGED status /\ \A d \in Comp : QueueSame(d)
    BY <1>1, <1>7, SendReplyIs DEF compVars
  <2> QED BY <1>1, <1>2, <1>3, <2>1 DEF QueueSame
<1>8. CASE PostToDecoder
  <2>1. Posts("dec", "continue") /\ CallersSame /\ UNCHANGED status
    BY <1>1, <1>8, PostToDecoderIs DEF compVars
  <2>2. \A d \in Comp, id \in Statusing : Posted(d, id)' <=> Posted(d, id)
    BY <1>1, <2>1 DEF Posts, QueueSame, Statusing, Comp
  <2> QED BY <1>2, <1>3, <2>1, <2>2
<1>9. CASE NotifyEos
  <2>1. UNCHANGED status
    BY <1>9 DEF NotifyEos, compVars
  <2>2. CASE Goes("dec", "notifyEos", {})
    BY <1>1, <1>2, <1>3, <2>1, <2>2 DEF Goes, QueueSame
  <2>3. CASE Posts("render", "eos") /\ CallersSame
    <3>1. \A d \in Comp, id \in Statusing : Posted(d, id)' <=> Posted(d, id)
      BY <1>1, <2>3 DEF Posts, QueueSame, Statusing, Comp
    <3> QED BY <1>2, <1>3, <2>1, <2>3, <3>1
  <2> QED BY <1>1, <1>9, <2>2, <2>3, NotifyEosIs
<1>10. CASE AwaitEos
  <2>1. CallersSame /\ UNCHANGED status /\ \A d \in Comp : QueueSame(d)
    BY <1>1, <1>10, AwaitEosIs DEF compVars
  <2> QED BY <1>1, <1>2, <1>3, <2>1 DEF QueueSame
<1>11. CASE PlayerInitialVideo
  <2>1. /\ Idle("xplayer") /\ At("dec", "exited") /\ CallersSame
        /\ \A c \in Comp : /\ status'[c] = "STOPPED"
                           /\ \A id \in Command : ~ Posted(c, id)'
    BY <1>11, InitialVideoIs
  <2>2. eStatus = "STOPPED"
    BY <1>1, <2>1, FirstIsFirst DEF FlowInv, ExitInv, Comp, StepNames
  <2>3. Idle("demux")
    BY <1>1, <2>2 DEF CallerInv
  <2>4. \A t \in Caller, c \in Comp, id \in Command :
          ~ Calls(t, c, id) /\ \A value \in Statuses : ~ Has("xplayer", SetStatus(value))
    BY <2>1, <2>3, IdleHasNothing DEF Calls, Caller
  <2>5. \A c \in Comp, id \in Statusing : ~ AheadOf(c, id)'
    BY <1>1, <2>1, <2>4 DEF AheadOf, Ahead, CallersSame
  <2>6. (\A value \in Statuses : ~ Has("xplayer", SetStatus(value))') /\ eStatus' = eStatus
    BY <1>1, <2>1, <2>4 DEF CallersSame, Caller, Comp, Command
  <2> QED BY <2>1, <2>2, <2>5, <2>6 DEF StatusInv, StatusOf, Statusing
<1> QED BY <1>4, <1>5, <1>6, <1>7, <1>8, <1>9, <1>10, <1>11, TakesStatus, BeginsStatus,
           CallersStatus, NextIs

-----------------------------------------------------------------------------
(* The end of the threads.                                                  *)

\* Nothing changes that the end of a thread relies on.
LEMMA ExitKept ==
    ASSUME ExitInv, \A c \in Comp : Due(c, "exited")' => Due(c, "exited"),
           At("dec", "exited") => At("dec", "exited")',
           Has("xplayer", SetStatus("STOPPED"))' <=> Has("xplayer", SetStatus("STOPPED")),
           Has("xplayer", Join("dec"))' <=> Has("xplayer", Join("dec")),
           Idle("xplayer") => Idle("xplayer")', eStatus' = eStatus
    PROVE  ExitInv'
  BY Zenon DEF ExitInv, Comp

\* A step of a thread does not end it, ...
LEMMA MovesExit ==
    ASSUME FlowInv, NEW c \in Comp, NEW name, NEW new, Moves(c, name, new), CallersSame,
           name # "exited", "exited" \notin new
    PROVE  ExitInv'
<1>1. \A d \in Comp : d # c => ThreadSame(d)
  BY MovesLeaves
<1>2. "exited" \in StepNames /\ "STOPPED" \in Statuses
  BY DEF StepNames, Statuses
<1>3. \A d \in Comp : Due(d, "exited")' => Due(d, "exited")
  BY <1>1, <1>2 DEF ThreadSame, Moves
<1>4. At("dec", "exited") => At("dec", "exited")'
  <2>1. CASE c = "dec"
    BY <2>1 DEF Moves, At
  <2>2. CASE c # "dec"
    BY <1>1, <1>2, <2>2 DEF ThreadSame, Comp
  <2> QED BY <2>1, <2>2
<1> QED BY <1>2, <1>3, <1>4, ExitKept DEF FlowInv, CallersSame

\* ... nor does a step of a caller that leaves the status alone.
LEMMA ExitSame ==
    ASSUME FlowInv, \A c \in Comp : ThreadSame(c), SettingSame,
           Has("xplayer", Join("dec"))' <=> Has("xplayer", Join("dec")),
           Idle("xplayer") => Idle("xplayer")', eStatus' = eStatus
    PROVE  ExitInv'
<1>1. "exited" \in StepNames /\ "STOPPED" \in Statuses
  BY DEF StepNames, Statuses
<1>2. /\ \A c \in Comp : Due(c, "exited")' => Due(c, "exited")
      /\ At("dec", "exited") => At("dec", "exited")'
  BY <1>1 DEF ThreadSame, Comp
<1> QED BY <1>1, <1>2, ExitKept DEF FlowInv, SettingSame

\* A caller begins a command.
LEMMA BeginsExit == FlowInv /\ Begins => ExitInv'
<1> SUFFICES ASSUME FlowInv, Begins PROVE ExitInv'
  OBVIOUS
<1>1. CallerInv /\ ExitInv /\ ThreadInv
  BY DEF FlowInv
<1> DEFINE Exited == Due("dec", "exited") \/ Due("render", "exited")
<1>2. CASE PlayerSetEos
  <2>1. /\ CompSame /\ eStatus' = eStatus
        /\ Idle("xplayer")' <=> Idle("xplayer")
        /\ \A x : Has("xplayer", x)' <=> Has("xplayer", x)
    BY <1>1, <1>2, PlayerSetEosIs
  <2> QED BY <2>1, ExitSame DEF CompSame, SettingSame
<1>3. CASE ~ Exited
  <2>1. CompSame
    BY <1>1, PlayerStartIs, PlayerPauseIs, PlayerStopIs, PlayerResetIs, PlayerSetEosIs
       DEF Begins
  <2>2. ~ Due("dec", "exited")' /\ ~ Due("render", "exited")'
    BY <1>3, <2>1 DEF CompSame, ThreadSame, Comp, StepNames
  <2> QED BY <2>2, Zenon DEF ExitInv
<1>4. CASE Exited /\ ~ PlayerSetEos
  <2>1. Idle("xplayer") /\ eStatus = "STOPPED"
    BY <1>1, <1>4, PlayerStartIs, PlayerPauseIs, PlayerStopIs, PlayerResetIs
       DEF Begins, ExitInv
  <2>2. At("dec", "exited")
    BY <1>1, <1>4, <2>1, IdleHasNothing DEF ExitInv, Caller
  <2> QED BY <1>1, <1>4, <2>1, <2>2, PlayerStartIs, PlayerPauseIs, PlayerStopIs, PlayerResetIs
          DEF Begins
<1> QED BY <1>2, <1>3, <1>4

\* A thread ends only while the player is stopped.
LEMMA ExitNext == FlowInv /\ [Next]_vars => ExitInv'
<1> SUFFICES ASSUME FlowInv, [Next]_vars PROVE ExitInv'
  OBVIOUS
<1>1. CallerInv /\ ThreadInv /\ Protocol /\ ExitInv
  BY DEF FlowInv
<1>2. "exited" \in StepNames /\ "dec" \in Comp /\ "render" \in Comp /\ "STOPPED" \in Statuses
  BY DEF StepNames, Comp, Statuses
<1>3. CASE UNCHANGED vars \/ ChangeDemux
  <2>1. CompSame /\ CallersSame
    BY <1>1, <1>3, CompLeft, LeftAlone, ChangeDemuxIs DEF vars
  <2> QED BY <2>1, ExitSame DEF CompSame, CallersSame, SettingSame
<1>4. CASE DecTakes \/ RenderTakes
  <2>1. PICK c, id, new :
          c \in Comp /\ id \in Messages /\ Handles(c, id, new) /\ ("exited" \in new => id = "quit")
    BY <1>2, <1>4, DecHandles, RenderHandles
  <2>2. /\ \A d \in Comp : d # c => ThreadSame(d)
        /\ CallersSame
    BY <2>1, HandlesLeaves
  <2>3. CASE id = "quit"
    <3>1. /\ eStatus = "STOPPED" /\ Has("xplayer", Join("dec"))
          /\ ~ Has("xplayer", SetStatus("STOPPED"))
      BY <2>1, <2>3, QuitsStopped DEF Handles
    <3>2. /\ eStatus' = "STOPPED" /\ Has("xplayer", Join("dec"))'
          /\ ~ Has("xplayer", SetStatus("STOPPED"))'
      BY <1>2, <2>2, <3>1 DEF CallersSame
    <3> QED BY <3>2 DEF ExitInv
  <2>4. CASE id # "quit"
    <3>1. \A d \in Comp : Due(d, "exited")' => Due(d, "exited")
      BY <1>2, <2>1, <2>2, <2>4 DEF ThreadSame, Handles
    <3>2. At("dec", "exited") => At("dec", "exited")'
      <4>1. CASE c = "dec"
        BY <1>2, <2>1, <4>1 DEF Handles
      <4>2. CASE c # "dec"
        BY <1>2, <2>2, <4>2 DEF ThreadSame
      <4> QED BY <4>1, <4>2
    <3> QED BY <1>1, <1>2, <2>2, <3>1, <3>2, ExitKept DEF CallersSame
  <2> QED BY <2>3, <2>4
<1>5. CASE DecWorks \/ RenderWorks
  <2>1. PICK c, name, new :
          c \in Comp /\ Goes(c, name, new) /\ name # "exited" /\ "exited" \notin new
    BY <1>1, <1>2, <1>5, DecGoes, RenderGoes
  <2> QED BY <2>1, MovesExit DEF Goes
<1>6. ASSUME NEW c \in Comp, PostContinue(c) PROVE ExitInv'
  BY <1>1, <1>6, PostContinueIs, MovesExit
<1>7. ASSUME NEW c \in Comp, SendReply(c) PROVE ExitInv'
  <2>1. Moves(c, "reply", {}) /\ CallersSame
    BY <1>1, <1>7, SendReplyIs DEF Replies
  <2> QED BY <2>1, MovesExit
<1>8. CASE PostToDecoder
  BY <1>1, <1>2, <1>8, PostToDecoderIs, MovesExit
<1>9. CASE NotifyEos
  <2>1. \E new \in {{}, {"awaitEos"}} : Moves("dec", "notifyEos", new) /\ CallersSame
    BY <1>1, <1>9, NotifyEosIs DEF Goes
  <2> QED BY <1>2, <2>1, MovesExit
<1>10. CASE AwaitEos
  BY <1>1, <1>2, <1>10, AwaitEosIs, MovesExit
<1>11. CASE PlayerInitialVideo
  <2>1. ~ Due("dec", "exited")' /\ ~ Due("render", "exited")'
    BY <1>2, <1>11, InitialVideoIs
  <2> QED BY <2>1, Zenon DEF ExitInv
<1>12. ASSUME NEW t \in Caller, PostCommand(t) PROVE ExitInv'
  BY <1>1, <1>12, PostCommandIs, ExitSame DEF SettingSame
<1>13. ASSUME NEW t \in Caller, WaitReply(t) PROVE ExitInv'
  BY <1>1, <1>13, WaitReplyIs, ExitSame DEF SettingSame
<1>14. ASSUME NEW t \in Caller, JoinThread(t) PROVE ExitInv'
  <2>1. /\ CompSame /\ eStatus' = eStatus /\ SettingSame
        /\ Idle("xplayer") => Idle("xplayer")'
        /\ \/ Has("xplayer", Join("dec"))' <=> Has("xplayer", Join("dec"))
           \/ At("dec", "exited") /\ Idle("xplayer")'
    BY <1>1, <1>14, JoinThreadIs DEF SettingSame
  <2>2. CASE Has("xplayer", Join("dec"))' <=> Has("xplayer", Join("dec"))
    BY <2>1, <2>2, ExitSame DEF CompSame
  <2>3. CASE At("dec", "exited") /\ Idle("xplayer")'
    <3>1. At("dec", "exited")'
      BY <1>2, <2>1, <2>3 DEF CompSame, ThreadSame
    <3>2. eStatus' = "STOPPED"
      BY <1>1, <1>2, <2>1, <2>3, FirstIsFirst DEF ExitInv
    <3> QED BY <2>3, <3>1, <3>2 DEF ExitInv
  <2> QED BY <2>1, <2>2, <2>3
<1>15. ASSUME NEW t \in Caller, ChangeStatus(t) PROVE ExitInv'
  <2>1. PICK value \in Statuses :
             /\ script["xplayer"] # << >> /\ Head(script["xplayer"]) = SetStatus(value)
             /\ CompSame
    BY <1>1, <1>15, ChangeStatusIs
  <2>2. Has("xplayer", SetStatus(value)) /\ ~ Idle("xplayer")
    BY <1>1, <2>1, WhileSetting DEF Idle
  <2>3. ~ Due("dec", "exited") /\ ~ Due("render", "exited")
    <3> SUFFICES ASSUME Due("dec", "exited") \/ Due("render", "exited") PROVE FALSE
      OBVIOUS
    <3>1. Has("xplayer", Join("dec")) /\ ~ Has("xplayer", SetStatus("STOPPED"))
      BY <1>1, <2>2 DEF ExitInv
    <3>2. Goal(Join("dec")) = Goal(SetStatus(value))
      BY <1>1, <2>2, <3>1, OneGoal
    <3>3. value = "STOPPED"
      BY <1>2, <3>2, OtherPlaces
    <3> QED BY <2>2, <3>1, <3>3
  <2>4. ~ Due("dec", "exited")' /\ ~ Due("render", "exited")'
    BY <1>2, <2>1, <2>3 DEF CompSame, ThreadSame
  <2> QED BY <2>4, Zenon DEF ExitInv
<1> QED BY <1>3, <1>4, <1>5, <1>6, <1>7, <1>8, <1>9, <1>10, <1>11, <1>12, <1>13, <1>14,
           <1>15, BeginsExit, NextIs

-----------------------------------------------------------------------------
(* The end of the stream.                                                   *)

\* The command and its wait are ahead for the render component only.
RenderAhead(t, id) == Ahead(t, "render", id) /\ ~ Ahead(t, "dec", id)

\* No flag of the end changes, and a reset or a start that must take one back still will.
LEMMA EosKept ==
    ASSUME EosInv, bEosFlag' = bEosFlag,
           Ends' => bEosFlag["dec"] /\ status'["dec"] # "STOPPED",
           Served("render", "eos")' \/ Answered("render", "eos")' => bEosFlag["render"],
           RenderAhead("demux", "reset")' => RenderAhead("demux", "reset"),
           Ahead("demux", "render", "reset") => Ahead("demux", "render", "reset")',
           RenderAhead("xplayer", "start")' => RenderAhead("xplayer", "start"),
           Ahead("xplayer", "render", "start") => Ahead("xplayer", "render", "start")',
           \/ ~ Ahead("xplayer", "render", "start")
           \/ status'["render"] = "STOPPED" <=> status["render"] = "STOPPED"
    PROVE  EosInv'
<1>1. Ahead("xplayer", "render", "start")' /\ ~ Ahead("xplayer", "dec", "start")' =>
        Ahead("xplayer", "render", "start") /\ ~ Ahead("xplayer", "dec", "start")
  BY DEF RenderAhead
<1>2. Ahead("demux", "render", "reset")' /\ ~ Ahead("demux", "dec", "reset")' =>
        Ahead("demux", "render", "reset") /\ ~ Ahead("demux", "dec", "reset")
  BY DEF RenderAhead
<1>3. (Ends => bEosFlag["dec"] /\ status["dec"] # "STOPPED")'
  OBVIOUS
<1>4. (Served("render", "eos") \/ Answered("render", "eos") => bEosFlag["render"])'
  OBVIOUS
<1>5. (Ahead("demux", "render", "reset") /\ ~ Ahead("demux", "dec", "reset")
         => ~ bEosFlag["dec"])'
  BY <1>2 DEF EosInv
<1>6. (Ahead("xplayer", "render", "start") /\ ~ Ahead("xplayer", "dec", "start")
         /\ status["render"] = "STOPPED" => ~ bEosFlag["dec"])'
  BY <1>1 DEF EosInv
<1>7. (bEosFlag["render"] =>
         \/ bEosFlag["dec"]
         \/ Ahead("demux", "render", "reset")
         \/ Ahead("xplayer", "render", "start") /\ status["render"] = "STOPPED")'
  BY DEF EosInv
<1> QED BY <1>3, <1>4, <1>5, <1>6, <1>7 DEF EosInv

\* The same with everything ahead as it was.
LEMMA EosSame ==
    ASSUME EosInv, \A c \in Comp : bEosFlag'[c] = bEosFlag[c], FlagTypes, FlagTypes',
           \A c \in Comp : AheadSame(c, "reset") /\ AheadSame(c, "start"),
           Ends' => Ends /\ status'["dec"] # "STOPPED",
           Served("render", "eos")' \/ Answered("render", "eos")' =>
             Served("render", "eos") \/ Answered("render", "eos"),
           \/ ~ Ahead("xplayer", "render", "start")
           \/ status'["render"] = "STOPPED" <=> status["render"] = "STOPPED"
    PROVE  EosInv'
<1>1. bEosFlag' = bEosFlag
  BY DEF FlagTypes
<1>2. \A t \in Caller, c \in Comp, id \in {"reset", "start"} :
        Ahead(t, c, id)' <=> Ahead(t, c, id)
  BY DEF AheadSame
<1>3. /\ RenderAhead("demux", "reset")' => RenderAhead("demux", "reset")
      /\ RenderAhead("xplayer", "start")' => RenderAhead("xplayer", "start")
      /\ Ahead("demux", "render", "reset") => Ahead("demux", "render", "reset")'
      /\ Ahead("xplayer", "render", "start") => Ahead("xplayer", "render", "start")'
  BY <1>2 DEF RenderAhead, Caller, Comp
<1>4. Ends' => bEosFlag["dec"] /\ status'["dec"] # "STOPPED"
  BY DEF EosInv
<1>5. Served("render", "eos")' \/ Answered("render", "eos")' => bEosFlag["render"]
  BY DEF EosInv
<1> QED BY <1>1, <1>3, <1>4, <1>5, EosKept

\* While the demux thread runs no component is stopped.
LEMMA NotStopped ==
    ASSUME CallerInv, StatusInv, demux # "stopped"
    PROVE  \A c \in Comp : status[c] # "STOPPED"
<1>1. /\ eStatus # "STOPPED"
      /\ Has("xplayer", SetStatus("STOPPED")) => \A c \in Comp : Calls("xplayer", c, "stop")
  BY WhileEnding
<1> SUFFICES ASSUME NEW c \in Comp, status[c] = "STOPPED" PROVE FALSE
  OBVIOUS
<1>2. StatusOf(c)
  BY DEF StatusInv
<1>3. ~ AheadOf(c, "pause") /\ ~ AheadOf(c, "start") /\ ~ AheadOf(c, "stop")
  BY <1>1, <1>2 DEF StatusOf
<1>4. ~ Has("xplayer", SetStatus("STOPPED"))
  BY <1>1, <1>3 DEF AheadOf, Ahead, Caller
<1>5. \A value \in Statuses : ~ Has("xplayer", SetStatus(value))
  BY <1>2, <1>3, <1>4 DEF StatusOf
<1> QED BY <1>1, <1>2, <1>3, <1>5 DEF StatusOf

\* Who waits for the end of the stream at the render component.
LEMMA EosWaiter ==
    ASSUME CallerInv, Protocol,
           Posted("render", "eos") \/ Served("render", "eos") \/ Answered("render", "eos")
    PROVE  Due("dec", "awaitEos") /\ Ends
<1>1. Waiter("render", "eos")
  BY DEF Protocol, Comp, Command
<1>2. \A t \in Caller : ~ Left(t, "render", "eos")
  BY WhoseCommand DEF Comp, Command, PlayerIds, ResetIds, Caller
<1> QED BY <1>1, <1>2 DEF Waiter, Left, Ends

\* A start of a component that is stopped is the player's first.
LEMMA FirstStart ==
    ASSUME FlowInv, NEW c \in Comp, status[c] = "STOPPED", AheadOf(c, "start")
    PROVE  /\ eStatus = "STOPPED" /\ Ahead("xplayer", c, "start")
           /\ \A d \in Comp : Ahead("xplayer", d, "start") => status[d] = "STOPPED"
           /\ \A d \in Comp : ~ Left("demux", d, "start") /\ ~ Left("demux", d, "pause")
<1>1. CallerInv /\ StatusInv
  BY DEF FlowInv
<1>2. eStatus = "STOPPED"
  BY <1>1 DEF StatusInv, StatusOf
<1>3. \A d \in Comp : ~ Left("demux", d, "start") /\ ~ Left("demux", d, "pause")
  BY <1>1, <1>2 DEF CallerInv, Left
<1>4. Ahead("xplayer", c, "start")
  BY <1>3 DEF AheadOf, Ahead, Left, Caller
<1>5. ASSUME NEW d \in Comp, Ahead("xplayer", d, "start") PROVE status[d] = "STOPPED"
  <2>1. Left("xplayer", d, "start")
    BY <1>5 DEF Ahead, Left
  <2>2. ~ Left("xplayer", d, "pause")
    <3> SUFFICES ASSUME Left("xplayer", d, "pause") PROVE FALSE
      OBVIOUS
    <3>1. Goal(Call(d, "start")) = Goal(Call(d, "pause"))
      BY <1>1, <2>1, PlayerCommand DEF Command
    <3> QED BY <3>1, Goals
  <2>3. AheadOf(d, "start") /\ ~ AheadOf(d, "pause")
    BY <1>3, <1>5, <2>2 DEF AheadOf, Ahead, Left, Caller
  <2> QED BY <1>1, <1>2, <2>3 DEF StatusInv, StatusOf
<1> QED BY <1>2, <1>3, <1>4, <1>5

\* A caller's own command: start and pause never with stop and quit.
LEMMA StopsOnly ==
    ASSUME FlowInv, NEW c \in Comp, NEW id \in {"stop", "quit"}, Posted(c, id)
    PROVE  \A d \in Comp : ~ Ahead("xplayer", d, "start")
<1>1. CallerInv /\ Protocol /\ id \in Command
  BY DEF FlowInv, Command
<1>2. PICK t \in Caller : Left(t, c, id)
  BY <1>1, TakenFor
<1>3. t = "xplayer"
  BY <1>1, <1>2, WhoseCommand DEF Caller, ResetIds
<1>4. ASSUME NEW d \in Comp, Left("xplayer", d, "start") PROVE FALSE
  <2>1. Goal(Call(c, id)) = Goal(Call(d, "start"))
    BY <1>1, <1>2, <1>3, <1>4, PlayerCommand DEF Command
  <2> QED BY <2>1, Goals
<1> QED BY <1>4 DEF Ahead, Left

\* The end of the stream when the decode component takes a message ...
LEMMA DecTakesEos ==
    ASSUME FlowInv, DecTakes
    PROVE  EosInv'
<1>1. /\ CallerInv /\ ThreadInv /\ Protocol /\ StatusInv /\ EosInv /\ FlagTypes
      /\ {"reset", "start", "eos", "pause", "stop", "quit"} = Command
      /\ "dec" \in Comp /\ "render" \in Comp /\ (\A c \in Comp : c = "dec" \/ c = "render")
      /\ {"notifyEos", "awaitEos"} \subseteq StepNames
  BY DEF FlowInv, ThreadInv, Command, Comp, StepNames
<1>2. FlagTypes'
  <2>1. Next
    BY DEF Next, VideoDecodeThread, DecTakes
  <2> QED BY <1>1, <2>1, FlagTypesNext
<1>3. ASSUME NEW id \in Messages, NEW new, Handles("dec", id, new)
      PROVE  /\ \A c \in Comp, jd \in Command : c # "dec" \/ jd # id => AheadSame(c, jd)
             /\ \A t \in Caller : Ahead(t, "dec", id)' <=> Calls(t, "dec", id)
             /\ Served("render", "eos")' \/ Answered("render", "eos")' =>
                  Served("render", "eos") \/ Answered("render", "eos")
             /\ Posted("dec", id)
             /\ ~ Ends
             /\ Ends' <=> "notifyEos" \in new \/ "awaitEos" \in new
  <2>1. ThreadSame("render") /\ RepliesSame
    BY <1>1, <1>3, HandlesLeaves
  <2> QED BY <1>1, <1>3, <2>1, AheadTaken DEF ThreadSame, RepliesSame, Handles, Ends
<1>4. CASE DecStop \/ DecPause \/ DecQuit \/ DecContinue
  <2>1. \E id \in Messages \ {"start", "reset"} : \E new :
          /\ Handles("dec", id, new) /\ "notifyEos" \notin new /\ "awaitEos" \notin new
          /\ FlagsSame("render") /\ bEosFlag'["dec"] = bEosFlag["dec"]
    <3>1. {"stop", "pause", "quit", "continue"} \subseteq Messages \ {"start", "reset"}
      BY DEF Messages, Command
    <3>2. CASE DecStop
      <4>1. mq["dec"] # << >> /\ Head(mq["dec"]) = "stop" /\ mq["dec"] \in Seq(Messages)
        BY <1>1, <3>2 DEF DecStop, Take, ThreadInv, QueueTypes
      <4>2. Posted("dec", "stop")
        BY <4>1, TakenElements DEF Posted
      <4> QED BY <1>1, <3>1, <3>2, <4>2, DecStopIs, StopFindsStarted
    <3>3. CASE DecPause
      BY <1>1, <3>1, <3>3, DecPauseIs
    <3>4. CASE DecQuit
      BY <1>1, <3>1, <3>4, DecQuitIs
    <3>5. CASE DecContinue
      <4>1. /\ Handles("dec", "continue", {"doDecode"})
            /\ FlagsSame("dec") /\ FlagsSame("render")
        BY <1>1, <3>5, DecContinueIs, LeftAlone
      <4> QED BY <3>1, <4>1 DEF FlagsSame
    <3> QED BY <1>4, <3>2, <3>3, <3>4, <3>5
  <2>2. PICK id, new :
          /\ id \in Messages \ {"start", "reset"}
          /\ Handles("dec", id, new) /\ "notifyEos" \notin new /\ "awaitEos" \notin new
          /\ FlagsSame("render") /\ bEosFlag'["dec"] = bEosFlag["dec"]
    BY <2>1
  <2>3. /\ \A c \in Comp : AheadSame(c, "reset") /\ AheadSame(c, "start")
        /\ Served("render", "eos")' \/ Answered("render", "eos")' =>
             Served("render", "eos") \/ Answered("render", "eos")
        /\ ~ Ends'
    BY <1>1, <1>3, <2>2
  <2>4. /\ \A c \in Comp : bEosFlag'[c] = bEosFlag[c]
        /\ status'["render"] = status["render"]
    BY <1>1, <2>2 DEF FlagsSame
  <2> QED BY <1>1, <1>2, <2>3, <2>4, EosSame
<1>5. CASE DecStart
  <2>1. PICK new : Handles("dec", "start", new) /\ "notifyEos" \notin new /\ "awaitEos" \notin new
    BY <1>1, <1>5, DecStartIs
  <2>2. /\ status'["render"] = status["render"] /\ bEosFlag'["render"] = bEosFlag["render"]
        /\ bEosFlag'["dec"] = (bEosFlag["dec"] /\ status["dec"] # "STOPPED")
    BY <1>1, <1>5, DecStartIs DEF FlagsSame
  <2>3. /\ \A c \in Comp : AheadSame(c, "reset")
        /\ AheadSame("render", "start")
        /\ Ahead("xplayer", "dec", "start")' <=> Calls("xplayer", "dec", "start")
        /\ Served("render", "eos")' \/ Answered("render", "eos")' =>
             Served("render", "eos") \/ Answered("render", "eos")
        /\ Posted("dec", "start") /\ ~ Ends'
    BY <1>1, <1>3, <2>1 DEF Messages, Caller
  <2>4. \A c \in Comp : Ahead("demux", c, "reset")' <=> Ahead("demux", c, "reset")
    BY <2>3 DEF AheadSame, Caller
  <2>5. Ahead("xplayer", "render", "start")' <=> Ahead("xplayer", "render", "start")
    BY <2>3 DEF AheadSame, Caller
  <2>6. PICK t \in Caller : Waits(t, "dec", "start") /\ Ahead(t, "dec", "start")
                            /\ Left(t, "dec", "start")
    BY <1>1, <2>3, TakenFor
  <2>7. AheadOf("dec", "start")
    BY <2>6 DEF AheadOf
  <2>8. bEosFlag["dec"] /\ status["dec"] = "STOPPED" =>
          Ahead("xplayer", "render", "start") /\ status["render"] = "STOPPED"
    <3> SUFFICES ASSUME bEosFlag["dec"], status["dec"] = "STOPPED"
                 PROVE  Ahead("xplayer", "render", "start") /\ status["render"] = "STOPPED"
      OBVIOUS
    <3>1. /\ Ahead("xplayer", "dec", "start")
          /\ Ahead("xplayer", "render", "start") => status["render"] = "STOPPED"
      BY <1>1, <2>7, FirstStart
    <3>2. Ahead("xplayer", "render", "start")
      BY <1>1, <3>1, StartOrder DEF Ahead, Left
    <3> QED BY <3>1, <3>2
  <2>9. Ahead("xplayer", "render", "start") /\ status["render"] = "STOPPED"
          => status["dec"] = "STOPPED"
    <3> SUFFICES ASSUME Ahead("xplayer", "render", "start"), status["render"] = "STOPPED"
                 PROVE  status["dec"] = "STOPPED"
      OBVIOUS
    <3>1. /\ ~ Left("demux", "dec", "start")
          /\ \A d \in Comp : Ahead("xplayer", d, "start") => status[d] = "STOPPED"
      BY <1>1, FirstStart DEF AheadOf, Caller
    <3> QED BY <1>1, <2>6, <3>1 DEF Caller
  <2>10. (Ends => bEosFlag["dec"] /\ status["dec"] # "STOPPED")'
    BY <2>3
  <2>11. (Served("render", "eos") \/ Answered("render", "eos") => bEosFlag["render"])'
    BY <1>1, <2>2, <2>3 DEF EosInv
  <2>12. (Ahead("demux", "render", "reset") /\ ~ Ahead("demux", "dec", "reset")
            => ~ bEosFlag["dec"])'
    BY <1>1, <2>2, <2>4 DEF EosInv
  <2>13. (Ahead("xplayer", "render", "start") /\ ~ Ahead("xplayer", "dec", "start")
            /\ status["render"] = "STOPPED" => ~ bEosFlag["dec"])'
    BY <2>2, <2>5, <2>9
  <2>14. (bEosFlag["render"] =>
            \/ bEosFlag["dec"]
            \/ Ahead("demux", "render", "reset")
            \/ Ahead("xplayer", "render", "start") /\ status["render"] = "STOPPED")'
    BY <1>1, <2>2, <2>4, <2>5, <2>8 DEF EosInv
  <2> QED BY <2>10, <2>11, <2>12, <2>13, <2>14 DEF EosInv
<1>6. CASE DecReset
  <2>1. PICK new : Handles("dec", "reset", new) /\ "notifyEos" \notin new /\ "awaitEos" \notin new
    BY <1>1, <1>6, DecResetIs
  <2>2. /\ bEosFlag'["render"] = bEosFlag["render"] /\ bEosFlag'["dec"] = FALSE
    BY <1>1, <1>6, DecResetIs DEF FlagsSame
  <2>3. /\ AheadSame("render", "reset")
        /\ Served("render", "eos")' \/ Answered("render", "eos")' =>
             Served("render", "eos") \/ Answered("render", "eos")
        /\ Posted("dec", "reset") /\ ~ Ends'
    BY <1>1, <1>3, <2>1 DEF Messages
  <2>4. PICK t \in Caller : Left(t, "dec", "reset")
    BY <1>1, <2>3, TakenFor
  <2>5. t = "demux"
    BY <1>1, <2>4, WhoseCommand DEF Caller, PlayerIds
  <2>6. Ahead("demux", "render", "reset")'
    BY <1>1, <2>3, <2>4, <2>5, ResetOrder DEF Ahead, AheadSame
  <2> QED BY <1>1, <2>2, <2>3, <2>6 DEF EosInv
<1>7. CASE DecSetEos
  <2>1. /\ Handles("dec", "eos",
                {n \in {"notifyEos", "continue"} :
                   IF n = "notifyEos" THEN bCrashFlag ELSE ~ bCrashFlag /\ Works("dec")})
        /\ status'["dec"] = status["dec"] /\ status'["render"] = status["render"]
        /\ bEosFlag'["dec"] = TRUE /\ bEosFlag'["render"] = bEosFlag["render"]
    BY <1>1, <1>7, DecSetEosIs DEF FlagsSame
  <2>2. /\ \A c \in Comp : AheadSame(c, "reset") /\ AheadSame(c, "start")
        /\ Served("render", "eos")' \/ Answered("render", "eos")' =>
             Served("render", "eos") \/ Answered("render", "eos")
        /\ Posted("dec", "eos")
    BY <1>1, <1>3, <2>1 DEF Messages
  <2>3. PICK t \in Caller : Waits(t, "dec", "eos") /\ Left(t, "dec", "eos")
    BY <1>1, <2>2, TakenFor
  <2>4. t = "demux"
    BY <1>1, <2>3, WhoseCommand DEF Caller, PlayerIds
  <2>5. script["demux"] # << >> /\ Head(script["demux"]) = WaitFor("dec", "eos")
    BY <1>1, <2>3, <2>4, OneWait
  <2>6. TellsEos
    BY <1>1, <2>5, CallPlaces DEF TellsEos
  <2>7. ~ Resets /\ demux # "stopped"
    BY <1>1, <2>5, <2>6, ResetsResetting DEF Resetting, Idle, CallerInv
  <2>8. \A c \in Comp : status[c] # "STOPPED"
    BY <1>1, <2>7, NotStopped
  <2>9. ~ Ahead("demux", "render", "reset")
    BY <1>1, <2>7 DEF Resets, Ahead, ResetIds
  <2>10. ~ Ahead("demux", "render", "reset")'
    BY <1>1, <2>2, <2>9 DEF AheadSame, Caller
  <2> QED BY <1>1, <2>1, <2>2, <2>8, <2>10 DEF EosInv
<1> QED BY <1>4, <1>5, <1>6, <1>7 DEF DecTakes

\* ... and when the render component takes one.
LEMMA RenderTakesEos ==
    ASSUME FlowInv, RenderTakes
    PROVE  EosInv'
<1>1. /\ CallerInv /\ ThreadInv /\ Protocol /\ StatusInv /\ EosInv /\ FlagTypes
      /\ {"reset", "start", "eos", "pause", "stop", "quit"} = Command
      /\ "dec" \in Comp /\ "render" \in Comp /\ (\A c \in Comp : c = "dec" \/ c = "render")
      /\ {"notifyEos", "awaitEos"} \subseteq StepNames
  BY DEF FlowInv, ThreadInv, Command, Comp, StepNames
<1>2. FlagTypes'
  <2>1. Next
    BY DEF Next, VideoRenderThread, RenderTakes
  <2> QED BY <1>1, <2>1, FlagTypesNext
<1>3. ASSUME NEW id \in Messages, NEW new, Handles("render", id, new)
      PROVE  /\ \A c \in Comp, jd \in Command : c # "render" \/ jd # id => AheadSame(c, jd)
             /\ \A t \in Caller : Ahead(t, "render", id)' <=> Calls(t, "render", id)
             /\ Answered("render", "eos")' <=> Answered("render", "eos")
             /\ Served("render", "eos")' <=> id = "eos"
             /\ Posted("render", id)
             /\ Ends' <=> Ends
  <2>1. ThreadSame("dec") /\ RepliesSame
    BY <1>1, <1>3, HandlesLeaves
  <2>2. Served("render", "eos")' <=> id = "eos"
    BY <1>1, <1>3 DEF Handles
  <2> QED BY <1>1, <1>3, <2>1, <2>2, AheadTaken DEF ThreadSame, RepliesSame, Handles, Ends
<1>4. CASE RenderStop \/ RenderPause \/ RenderQuit \/ DoRender
  <2>1. \E id \in Messages \ {"start", "reset", "eos"} : \E new :
          /\ Handles("render", id, new)
          /\ FlagsSame("dec") /\ bEosFlag'["render"] = bEosFlag["render"]
          /\ \/ ~ Ahead("xplayer", "render", "start")
             \/ status'["render"] = "STOPPED" <=> status["render"] = "STOPPED"
    <3>1. {"stop", "pause", "quit", "continue"} \subseteq Messages \ {"start", "reset", "eos"}
      BY DEF Messages, Command
    <3>2. CASE RenderStop \/ RenderQuit
      <4>1. \E id \in {"stop", "quit"} : \E new :
              /\ Handles("render", id, new)
              /\ FlagsSame("dec") /\ bEosFlag'["render"] = bEosFlag["render"]
        BY <1>1, <3>2, RenderStopIs, RenderQuitIs
      <4>2. PICK id, new :
              /\ id \in {"stop", "quit"}
              /\ Handles("render", id, new)
              /\ FlagsSame("dec") /\ bEosFlag'["render"] = bEosFlag["render"]
        BY <4>1
      <4>3. ~ Ahead("xplayer", "render", "start")
        BY <1>1, <4>2, StopsOnly DEF Handles
      <4> QED BY <3>1, <4>2, <4>3
    <3>3. CASE RenderPause
      <4>1. PICK new :
              /\ Handles("render", "pause", new)
              /\ FlagsSame("dec") /\ bEosFlag'["render"] = bEosFlag["render"]
              /\ status'["render"] = (IF Works("render") THEN "PAUSED" ELSE status["render"])
        BY <1>1, <3>3, RenderPauseIs
      <4>2. PICK t \in Caller : Ahead(t, "render", "pause")
        BY <1>1, <4>1, TakenFor DEF Handles
      <4>3. status["render"] = "STARTED"
        BY <1>1, <4>2 DEF StatusInv, StatusOf, AheadOf
      <4>4. status'["render"] = "STOPPED" <=> status["render"] = "STOPPED"
        BY <4>1, <4>3 DEF Works
      <4> QED BY <3>1, <4>1, <4>4
    <3>4. CASE DoRender
      <4>1. /\ Handles("render", "continue", {n \in {"picture"} : Works("render")})
            /\ FlagsSame("dec") /\ FlagsSame("render")
        BY <1>1, <3>4, DoRenderIs, LeftAlone
      <4> QED BY <3>1, <4>1 DEF FlagsSame
    <3> QED BY <1>4, <3>2, <3>3, <3>4
  <2>2. PICK id, new :
          /\ id \in Messages \ {"start", "reset", "eos"}
          /\ Handles("render", id, new)
          /\ FlagsSame("dec") /\ bEosFlag'["render"] = bEosFlag["render"]
          /\ \/ ~ Ahead("xplayer", "render", "start")
             \/ status'["render"] = "STOPPED" <=> status["render"] = "STOPPED"
    BY <2>1
  <2>3. /\ \A c \in Comp : AheadSame(c, "reset") /\ AheadSame(c, "start")
        /\ Served("render", "eos")' \/ Answered("render", "eos")' =>
             Served("render", "eos") \/ Answered("render", "eos")
        /\ Ends' => Ends
    BY <1>1, <1>3, <2>2
  <2>4. /\ \A c \in Comp : bEosFlag'[c] = bEosFlag[c]
        /\ status'["dec"] = status["dec"]
    BY <1>1, <2>2 DEF FlagsSame
  <2>5. Ends' => Ends /\ status'["dec"] # "STOPPED"
    BY <1>1, <2>3, <2>4 DEF EosInv
  <2> QED BY <1>1, <1>2, <2>2, <2>3, <2>4, <2>5, EosSame
<1>5. CASE RenderStart
  <2>1. /\ Handles("render", "start", {"continue"})
        /\ status'["render"] = "STARTED" /\ status'["dec"] = status["dec"]
        /\ bEosFlag'["render"] = (bEosFlag["render"] /\ status["render"] # "STOPPED")
        /\ bEosFlag'["dec"] = bEosFlag["dec"]
    BY <1>1, <1>5, RenderStartIs DEF FlagsSame
  <2>2. /\ \A c \in Comp : AheadSame(c, "reset")
        /\ Answered("render", "eos")' <=> Answered("render", "eos")
        /\ ~ Served("render", "eos")'
        /\ Posted("render", "start") /\ (Ends' <=> Ends)
    BY <1>1, <1>3, <2>1 DEF Messages
  <2>3. \A c \in Comp : Ahead("demux", c, "reset")' <=> Ahead("demux", c, "reset")
    BY <2>2 DEF AheadSame, Caller
  <2>4. PICK t \in Caller : Waits(t, "render", "start") /\ Ahead(t, "render", "start")
                            /\ Left(t, "render", "start")
    BY <1>1, <2>2, TakenFor
  <2>5. Answered("render", "eos") => status["render"] # "STOPPED"
    <3> SUFFICES ASSUME Answered("render", "eos"), status["render"] = "STOPPED" PROVE FALSE
      OBVIOUS
    <3>1. bEosFlag["dec"]
      BY <1>1, EosWaiter DEF EosInv
    <3>2. Ahead("xplayer", "render", "start") /\ ~ Left("demux", "render", "start")
      BY <1>1, <2>4, FirstStart DEF AheadOf
    <3>3. Waits("xplayer", "render", "start")
      BY <2>4, <3>2 DEF Caller
    <3>4. ~ Ahead("xplayer", "dec", "start")
      BY <1>1, <3>3, StartOrder DEF Ahead, Left
    <3> QED BY <1>1, <3>1, <3>2, <3>4 DEF EosInv
  <2>6. (Ends => bEosFlag["dec"] /\ status["dec"] # "STOPPED")'
    BY <1>1, <2>1, <2>2 DEF EosInv
  <2>7. (Served("render", "eos") \/ Answered("render", "eos") => bEosFlag["render"])'
    BY <1>1, <2>1, <2>2, <2>5 DEF EosInv
  <2>8. (Ahead("demux", "render", "reset") /\ ~ Ahead("demux", "dec", "reset")
            => ~ bEosFlag["dec"])'
    BY <1>1, <2>1, <2>3 DEF EosInv
  <2>9. (Ahead("xplayer", "render", "start") /\ ~ Ahead("xplayer", "dec", "start")
            /\ status["render"] = "STOPPED" => ~ bEosFlag["dec"])'
    BY <2>1
  <2>10. (bEosFlag["render"] =>
            \/ bEosFlag["dec"]
            \/ Ahead("demux", "render", "reset")
            \/ Ahead("xplayer", "render", "start") /\ status["render"] = "STOPPED")'
    BY <1>1, <2>1, <2>3 DEF EosInv
  <2> QED BY <2>6, <2>7, <2>8, <2>9, <2>10 DEF EosInv
<1>6. CASE RenderReset
  <2>1. /\ Handles("render", "reset", {n \in {"continue"} : status["render"] # "STOPPED"})
        /\ status'["render"] = status["render"] /\ status'["dec"] = status["dec"]
        /\ bEosFlag'["render"] = FALSE /\ bEosFlag'["dec"] = bEosFlag["dec"]
    BY <1>1, <1>6, RenderResetIs DEF FlagsSame
  <2>2. /\ \A c \in Comp : AheadSame(c, "start")
        /\ Answered("render", "eos")' <=> Answered("render", "eos")
        /\ ~ Served("render", "eos")'
        /\ Ahead("demux", "render", "reset")' <=> Calls("demux", "render", "reset")
        /\ Posted("render", "reset") /\ (Ends' <=> Ends)
    BY <1>1, <1>3, <2>1 DEF Messages, Caller
  <2>3. \A c \in Comp : Ahead("xplayer", c, "start")' <=> Ahead("xplayer", c, "start")
    BY <2>2 DEF AheadSame, Caller
  <2>4. PICK t \in Caller : Waits(t, "render", "reset") /\ Ahead(t, "render", "reset")
                            /\ Left(t, "render", "reset")
    BY <1>1, <2>2, TakenFor
  <2>5. t = "demux"
    BY <1>1, <2>4, WhoseCommand DEF Caller, PlayerIds
  <2>6. ~ Ahead("demux", "dec", "reset") /\ ~ Calls("demux", "render", "reset")
    BY <1>1, <2>4, <2>5, ResetOrder, OneWait DEF Ahead, Left
  <2>7. ~ Answered("render", "eos")
    BY <1>1, <2>4, <2>5, <2>6, EosWaiter DEF EosInv
  <2> QED BY <1>1, <2>1, <2>2, <2>3, <2>6, <2>7 DEF EosInv
<1>7. CASE RenderSetEos
  <2>1. /\ Handles("render", "eos", {n \in {"continue"} : Works("render")})
        /\ status'["render"] = status["render"] /\ status'["dec"] = status["dec"]
        /\ bEosFlag'["render"] = TRUE /\ bEosFlag'["dec"] = bEosFlag["dec"]
    BY <1>1, <1>7, RenderSetEosIs DEF FlagsSame
  <2>2. /\ \A c \in Comp : AheadSame(c, "start") /\ AheadSame(c, "reset")
        /\ Posted("render", "eos") /\ (Ends' <=> Ends)
    BY <1>1, <1>3, <2>1 DEF Messages, Caller
  <2>3. \A t \in Caller, c \in Comp, id \in {"start", "reset"} :
          Ahead(t, c, id)' <=> Ahead(t, c, id)
    BY <2>2 DEF AheadSame
  <2>4. bEosFlag["dec"]
    BY <1>1, <2>2, EosWaiter DEF EosInv
  <2> QED BY <1>1, <2>1, <2>2, <2>3, <2>4 DEF EosInv, Caller
<1> QED BY <1>4, <1>5, <1>6, <1>7 DEF RenderTakes

\* A new script leaves the end of the stream where it is.
LEMMA BeginsEos == FlowInv /\ Begins => EosInv'
<1> SUFFICES ASSUME FlowInv, Begins PROVE EosInv'
  OBVIOUS
<1>1. /\ CallerInv /\ EosInv /\ FlagTypes
      /\ {"reset", "start", "eos", "pause", "stop", "quit"} = Command
      /\ {"xplayer", "demux"} = Caller
      /\ "dec" \in Comp /\ "render" \in Comp /\ (\A c \in Comp : c = "dec" \/ c = "render")
  BY DEF FlowInv, ThreadInv, Command, Comp, Caller
<1>2. CompSame
  BY <1>1, PlayerStartIs, PlayerPauseIs, PlayerStopIs, PlayerResetIs, PlayerSetEosIs
     DEF Begins
<1>3. UNCHANGED << todo, replySem, compVars >>
  BY DEF Begins, PlayerStart, PlayerPause, PlayerStop, PlayerReset, PlayerSetEos, Issue
<1>4. /\ UNCHANGED << status, bEosFlag >> /\ (Ends' <=> Ends)
      /\ Served("render", "eos")' <=> Served("render", "eos")
      /\ Answered("render", "eos")' <=> Answered("render", "eos")
  BY <1>3 DEF compVars, Ends, Due, Served, Answered
<1>5. \A c \in Comp, id \in Command : Posted(c, id)' <=> Posted(c, id)
  BY <1>2 DEF CompSame, QueueSame
<1>6. /\ Ahead("xplayer", "render", "start") => Ahead("xplayer", "render", "start")'
      /\ Ahead("demux", "render", "reset") => Ahead("demux", "render", "reset")'
      /\ RenderAhead("demux", "reset")' => RenderAhead("demux", "reset")
      /\ RenderAhead("xplayer", "start")' => RenderAhead("xplayer", "start")
  <2>1. \A t \in Caller, c \in Comp, id \in Command : Waits(t, c, id)' <=> Waits(t, c, id)
    BY <1>1, PlayerStartIs, PlayerPauseIs, PlayerStopIs, PlayerResetIs, PlayerSetEosIs
       DEF Begins
  <2>2. /\ \/ \A c \in Comp : Calls("xplayer", c, "start")' <=> Calls("xplayer", c, "start")
           \/ \A c \in Comp : Calls("xplayer", c, "start")' /\ ~ Left("xplayer", c, "start")
        /\ \/ \A c \in Comp : Calls("demux", c, "reset")' <=> Calls("demux", c, "reset")
           \/ \A c \in Comp : Calls("demux", c, "reset")' /\ ~ Left("demux", c, "reset")
    <3>1. CASE PlayerStart
      BY <1>1, <3>1, PlayerStartIs
    <3>2. CASE PlayerPause
      BY <1>1, <3>2, PlayerPauseIs DEF Left
    <3>3. CASE PlayerStop
      BY <1>1, <3>3, PlayerStopIs DEF Left
    <3>4. CASE PlayerReset
      BY <1>1, <3>4, PlayerResetIs
    <3>5. CASE PlayerSetEos
      BY <1>1, <3>5, PlayerSetEosIs DEF Left
    <3> QED BY <3>1, <3>2, <3>3, <3>4, <3>5 DEF Begins
  <2>3. \A t \in Caller, c \in Comp, id \in Command :
          Ahead(t, c, id)' <=> Calls(t, c, id)' \/ (Waits(t, c, id) /\ Posted(c, id))
    BY <1>5, <2>1 DEF Ahead
  <2> QED BY <1>1, <2>2, <2>3 DEF Ahead, RenderAhead, Left
<1> QED BY <1>1, <1>4, <1>6, EosKept DEF EosInv

\* A step that changes no status and no end flag.
LEMMA EosQuiet ==
    ASSUME FlowInv, UNCHANGED << status, bEosFlag >>,
           \A c \in Comp : AheadSame(c, "reset") /\ AheadSame(c, "start"),
           Ends' => Ends \/ (bEosFlag["dec"] /\ Works("dec")),
           Served("render", "eos")' \/ Answered("render", "eos")' =>
             Served("render", "eos") \/ Answered("render", "eos")
    PROVE  EosInv'
<1>1. EosInv
  BY DEF FlowInv
<1>2. \A t \in Caller, c \in Comp, id \in {"reset", "start"} :
        Ahead(t, c, id)' <=> Ahead(t, c, id)
  BY DEF AheadSame
<1>3. /\ RenderAhead("demux", "reset")' => RenderAhead("demux", "reset")
      /\ RenderAhead("xplayer", "start")' => RenderAhead("xplayer", "start")
      /\ Ahead("demux", "render", "reset") => Ahead("demux", "render", "reset")'
      /\ Ahead("xplayer", "render", "start") => Ahead("xplayer", "render", "start")'
  BY <1>2 DEF RenderAhead, Caller, Comp
<1>4. Ends' => bEosFlag["dec"] /\ status'["dec"] # "STOPPED"
  BY <1>1 DEF EosInv, Works
<1>5. Served("render", "eos")' \/ Answered("render", "eos")' => bEosFlag["render"]
  BY <1>1 DEF EosInv
<1> QED BY <1>1, <1>3, <1>4, <1>5, EosKept

\* The end of the stream goes from the decoder to the render component only.
LEMMA EosNext == FlowInv /\ [Next]_vars => EosInv'
<1> SUFFICES ASSUME FlowInv, [Next]_vars PROVE EosInv'
  OBVIOUS
<1>1. /\ CallerInv /\ ThreadInv /\ Protocol /\ StatusInv /\ EosInv /\ LoopInv
      /\ {"reset", "start", "eos", "pause", "stop", "quit"} = Command
      /\ "dec" \in Comp /\ "render" \in Comp /\ (\A c \in Comp : c = "dec" \/ c = "render")
      /\ {"notifyEos", "awaitEos"} \subseteq StepNames
  BY DEF FlowInv, Command, Comp, StepNames
<1> DEFINE Answering == Served("render", "eos") \/ Answered("render", "eos")
<1>2. ASSUME CallersSame, \A c \in Comp : QueueSame(c)
      PROVE  \A c \in Comp : AheadSame(c, "reset") /\ AheadSame(c, "start")
  BY <1>1, <1>2, AheadAlone DEF QueueSame
<1>3. ASSUME CallersSame, NEW c \in Comp, NEW id \in {"continue", "eos"}, Posts(c, id)
      PROVE  \A d \in Comp : AheadSame(d, "reset") /\ AheadSame(d, "start")
  <2>1. \A d \in Comp, jd \in {"reset", "start"} : Posted(d, jd)' <=> Posted(d, jd)
    BY <1>1, <1>3 DEF Posts, QueueSame
  <2> QED BY <1>1, <1>3, <2>1, AheadAlone
<1>4. ASSUME NEW name, NEW new, Moves("dec", name, new),
             "notifyEos" \notin new, "awaitEos" \in new => name = "notifyEos"
      PROVE  Ends' => Ends
  BY <1>1, <1>4 DEF Moves, Ends
<1>5. ThreadSame("dec") => (Ends' <=> Ends)
  BY <1>1 DEF ThreadSame, Ends
<1>6. RepliesSame => (Answered("render", "eos")' <=> Answered("render", "eos"))
  BY <1>1 DEF RepliesSame
<1>7. ThreadSame("render") => (Served("render", "eos")' <=> Served("render", "eos"))
  BY <1>1 DEF ThreadSame
<1>8. CASE UNCHANGED vars \/ ChangeDemux
  <2>1. CompSame /\ CallersSame
    BY <1>1, <1>8, CompLeft, LeftAlone, ChangeDemuxIs DEF vars
  <2>2. UNCHANGED << replySem, compVars >>
    BY <1>8 DEF vars, ChangeDemux
  <2>3. RepliesSame /\ UNCHANGED << status, bEosFlag >>
    BY <2>2, LeftAlone DEF compVars
  <2> QED BY <1>1, <1>2, <1>5, <1>6, <1>7, <2>1, <2>3, EosQuiet DEF CompSame
<1>9. CASE DecWorks \/ RenderWorks
  <2>1. UNCHANGED << status, bEosFlag >>
    BY <1>9 DEF DecWorks, RenderWorks, BaseCompContinue, DoDecode, DecodeVideoStream,
                ResetVideoDecoder, PictureComes, NoPictureComes, ReopenVideoEngine,
                ContinueDecoder, NoBitstream, NoFrameBuffer, ResolutionChange, Unsupported,
                Decoded, OtherThanPicture, compVars
  <2>2. CASE RenderWorks
    <3>1. PICK name, new : Goes("render", name, new) /\ name # "reply"
      BY <1>1, <2>2, RenderGoes DEF StepNames
    <3>2. /\ ThreadSame("dec") /\ RepliesSame /\ CallersSame
          /\ \A d \in Comp : QueueSame(d)
          /\ Served("render", "eos")' <=> Served("render", "eos")
      BY <1>1, <3>1 DEF Goes, Moves
    <3> QED BY <1>1, <1>2, <1>5, <1>6, <2>1, <3>2, EosQuiet
  <2>3. CASE DecWorks
    <3>1. \E name, new :
            /\ Goes("dec", name, new) /\ "awaitEos" \notin new
            /\ "notifyEos" \in new => bEosFlag["dec"] /\ Works("dec")
      <4>1. CASE BaseCompContinue("dec")
        BY <1>1, <4>1, BaseContinueIs
      <4>2. CASE DoDecode
        BY <1>1, <4>2, DoDecodeIs
      <4>3. CASE DecodeVideoStream
        <5>1. Works("dec")
          BY <1>1, <4>3, FirstIsFirst DEF DecodeVideoStream, LoopInv, DecodeLoop,
                                                 StepNames
        <5>2. \E new \in {{}, {"continue"}, {"notifyEos"}} :
                Goes("dec", "decode", new) /\ ("notifyEos" \in new => bEosFlag["dec"])
          BY <1>1, <4>3, DecodeIs
        <5> QED BY <5>1, <5>2
      <4>4. CASE ResetVideoDecoder
        BY <1>1, <4>4, ResetDecoderIs
      <4> QED BY <2>3, <4>1, <4>2, <4>3, <4>4 DEF DecWorks
    <3>2. PICK name, new :
            /\ Goes("dec", name, new) /\ "awaitEos" \notin new
            /\ "notifyEos" \in new => bEosFlag["dec"] /\ Works("dec")
      BY <3>1
    <3>3. /\ ThreadSame("render") /\ RepliesSame /\ CallersSame /\ Moves("dec", name, new)
          /\ \A d \in Comp : QueueSame(d)
      BY <1>1, <3>2 DEF Goes
    <3>4. Ends' => Ends \/ (bEosFlag["dec"] /\ Works("dec"))
      BY <1>4, <3>2, <3>3
    <3> QED BY <1>1, <1>2, <1>6, <1>7, <2>1, <3>3, <3>4, EosQuiet
  <2> QED BY <1>9, <2>2, <2>3
<1>10. ASSUME NEW c \in Comp, PostContinue(c) PROVE EosInv'
  <2>1. /\ Moves(c, "post", {}) /\ Posts(c, "continue") /\ UNCHANGED << status, bEosFlag >>
        /\ \A d \in Comp : d # c => ThreadSame(d)
        /\ RepliesSame /\ CallersSame
    BY <1>1, <1>10, PostContinueIs DEF compVars
  <2>2. Served("render", "eos")' <=> Served("render", "eos")
    BY <1>1, <2>1 DEF Moves, ThreadSame
  <2>3. Ends' => Ends
    BY <1>1, <1>4, <1>5, <2>1
  <2> QED BY <1>3, <1>6, <2>1, <2>2, <2>3, EosQuiet
<1>11. ASSUME NEW c \in Comp, SendReply(c) PROVE EosInv'
  <2>1. PICK id \in Command : Replies(c, id)
    BY <1>1, <1>11, SendReplyIs
  <2>2. /\ UNCHANGED << status, bEosFlag >>
        /\ \A d \in Comp : d # c => ThreadSame(d)
        /\ CallersSame /\ \A d \in Comp : QueueSame(d)
    BY <1>1, <1>11, SendReplyIs DEF compVars
  <2>3. \A d \in Comp, jd \in Command :
          Answered(d, jd)' <=> Answered(d, jd) \/ (d = c /\ jd = id)
    <3>1. /\ Served(c, id)
          /\ replySem' = [replySem EXCEPT ![c][id] = @ + 1]
      BY <2>1 DEF Replies
    <3>2. ThreadInv /\ Protocol /\ c \in Comp /\ id \in Command
      BY <1>1, <1>11, <2>1
    <3> QED BY <3>1, <3>2, ReplyTypesSent
  <2>4. Answering' => Answering
    BY <1>1, <2>1, <2>2, <2>3 DEF Replies, ThreadSame
  <2>5. Ends' => Ends
    BY <1>1, <1>4, <1>5, <2>1, <2>2 DEF Replies
  <2> QED BY <1>2, <2>2, <2>4, <2>5, EosQuiet
<1>12. CASE PostToDecoder
  <2>1. /\ Moves("render", "decPost", {}) /\ Posts("dec", "continue")
        /\ UNCHANGED << status, bEosFlag >> /\ ThreadSame("dec") /\ RepliesSame /\ CallersSame
    BY <1>1, <1>12, PostToDecoderIs DEF compVars
  <2>2. Served("render", "eos")' <=> Served("render", "eos")
    BY <1>1, <2>1 DEF Moves
  <2> QED BY <1>1, <1>3, <1>5, <1>6, <2>1, <2>2, EosQuiet
<1>13. CASE NotifyEos
  <2>1. UNCHANGED << status, bEosFlag >>
    BY <1>13 DEF NotifyEos, compVars
  <2>2. \E new \in {{}, {"awaitEos"}} :
          /\ Moves("dec", "notifyEos", new)
          /\ ThreadSame("render") /\ RepliesSame /\ CallersSame
          /\ Posts("render", "eos") \/ \A d \in Comp : QueueSame(d)
    BY <1>1, <1>13, NotifyEosIs DEF Goes
  <2>3. PICK new \in {{}, {"awaitEos"}} :
          /\ Moves("dec", "notifyEos", new)
          /\ ThreadSame("render") /\ RepliesSame /\ CallersSame
          /\ Posts("render", "eos") \/ \A d \in Comp : QueueSame(d)
    BY <2>2
  <2>4. \A c \in Comp : AheadSame(c, "reset") /\ AheadSame(c, "start")
    BY <1>1, <1>2, <1>3, <2>3
  <2>5. Ends' => Ends
    BY <1>4, <2>3
  <2> QED BY <1>6, <1>7, <2>1, <2>3, <2>4, <2>5, EosQuiet
<1>14. CASE AwaitEos
  <2>1. /\ Moves("dec", "awaitEos", {}) /\ Answered("render", "eos")
        /\ replySem' = [replySem EXCEPT !["render"]["eos"] = @ - 1]
        /\ \A d \in Comp : QueueSame(d)
        /\ ThreadSame("render") /\ CallersSame /\ UNCHANGED << status, bEosFlag >>
    BY <1>1, <1>14, AwaitEosIs DEF compVars
  <2>2. Ends' => Ends
    BY <1>4, <2>1
  <2> QED BY <1>2, <1>7, <2>1, <2>2, EosQuiet
<1>15. CASE PlayerInitialVideo
  <2>1. \A c \in Comp :
          /\ \A n \in StepNames : ~ Due(c, n)'
          /\ \A id \in Command : ~ Served(c, id)' /\ ~ Answered(c, id)'
          /\ bEosFlag'[c] = FALSE
    BY <1>15, InitialVideoIs
  <2> QED BY <1>1, <2>1 DEF EosInv, Ends
<1>16. ASSUME NEW t \in Caller,
              PostCommand(t) \/ WaitReply(t) \/ JoinThread(t) \/ ChangeStatus(t)
       PROVE  EosInv'
  <2>1. /\ \A c \in Comp : ThreadSame(c)
        /\ \A c \in Comp, id \in Command : AheadSame(c, id)
        /\ \A c \in Comp, id \in Command : Answered(c, id)' => Answered(c, id)
    BY <1>1, <1>16, CallersAhead
  <2>2. UNCHANGED << status, bEosFlag >>
    BY <1>16 DEF PostCommand, WaitReply, JoinThread, ChangeStatus, compVars
  <2>3. /\ \A c \in Comp : AheadSame(c, "reset") /\ AheadSame(c, "start")
        /\ Ends' => Ends
        /\ Answering' => Answering
    BY <1>1, <1>5, <1>7, <2>1
  <2> QED BY <2>2, <2>3, EosQuiet
<1> QED BY <1>8, <1>9, <1>10, <1>11, <1>12, <1>13, <1>14, <1>15, <1>16,
           DecTakesEos, RenderTakesEos, BeginsEos, NextIs

-----------------------------------------------------------------------------
(* What keeps the loops going.                                              *)

\* The decode loop goes on when its thread, flags and messages stay, ...
LEMMA DecodeLoopSame ==
    ASSUME DecodeLoop, ThreadSame("dec"), FlagsSame("dec"),
           mq'["dec"] = mq["dec"] \/ mq'["dec"] # << >>,
           UNCHANGED << bCrashFlag, bResolutionChange >>,
           \A name \in {"decContinue", "decPost"} :
             Due("render", name) => Due("render", name)',
           bEosFlag["dec"] /\ bEosFlag["render"] => bEosFlag'["render"]
    PROVE  DecodeLoop'
<1>1. \A n \in StepNames : Due("dec", n)' <=> Due("dec", n)
  BY DEF ThreadSame
<1>2. /\ Works("dec")' <=> Works("dec")
      /\ bEosFlag'["dec"] = bEosFlag["dec"]
  BY DEF FlagsSame, Works
<1>3. DecodeGoesOn => DecodeGoesOn'
  BY <1>1, <1>2 DEF DecodeGoesOn, Ends, StepNames
<1> QED BY <1>1, <1>2, <1>3 DEF DecodeLoop, StepNames

\* ... and the render loop too.
LEMMA RenderLoopSame ==
    ASSUME RenderLoop, ThreadSame("render"), FlagsSame("render"),
           mq'["render"] = mq["render"] \/ mq'["render"] # << >>
    PROVE  RenderLoop'
<1>1. \A n \in StepNames : Due("render", n)' <=> Due("render", n)
  BY DEF ThreadSame
<1>2. /\ Works("render")' <=> Works("render")
      /\ bEosFlag'["render"] = bEosFlag["render"]
  BY DEF FlagsSame, Works
<1>3. RenderGoesOn => RenderGoesOn'
  BY <1>1 DEF RenderGoesOn, StepNames
<1> QED BY <1>1, <1>2, <1>3 DEF RenderLoop, StepNames

\* A thread takes a command: its loop goes on when the command continues it.
LEMMA DecodeLoopTakes ==
    ASSUME NEW id, NEW new, Handles("dec", id, new), "decode" \notin new,
           Works("dec")' /\ ~ bCrashFlag' /\ ~ bResolutionChange' =>
             \E name \in {"continue", "doDecode", "notifyEos"} : name \in new
    PROVE  DecodeLoop'
<1>1. \A n \in StepNames : Due("dec", n)' <=> n \in new
  BY DEF Handles
<1> QED BY <1>1 DEF DecodeLoop, DecodeGoesOn, Ends, StepNames

\* The render thread takes a message, and goes on if it has work.
LEMMA RenderLoopTakes ==
    ASSUME NEW id, NEW new, Handles("render", id, new),
           new \subseteq {"continue", "picture", "exited"},
           Works("render")' /\ ~ bEosFlag'["render"] =>
             \E name \in {"continue", "picture"} : name \in new
    PROVE  RenderLoop'
<1>1. \A n \in StepNames : Due("render", n)' <=> n \in new
  BY DEF Handles
<1> QED BY <1>1 DEF RenderLoop, RenderGoesOn, StepNames

\* A component that takes a start has not been started.
LEMMA StartsOther ==
    ASSUME FlowInv, NEW c \in Comp, Posted(c, "start")
    PROVE  status[c] # "STARTED"
<1>1. CallerInv /\ Protocol /\ StatusInv
  BY DEF FlowInv
<1>2. PICK t \in Caller : Ahead(t, c, "start")
  BY <1>1, TakenFor DEF Command
<1>3. ~ AheadOf(c, "pause")
  BY <1>1, StatusTaken, Goals DEF AheadOf, Ahead, Left, Caller, Statusing
<1>4. AheadOf(c, "start")
  BY <1>2 DEF AheadOf
<1> QED BY <1>1, <1>3, <1>4 DEF StatusInv, StatusOf

\* A component that is told to pause is started.
LEMMA PausesStarted ==
    ASSUME FlowInv, NEW c \in Comp, Posted(c, "pause")
    PROVE  status[c] = "STARTED"
<1>1. PICK t \in Caller : Ahead(t, c, "pause")
  BY TakenFor DEF FlowInv, Command
<1> QED BY <1>1 DEF AheadOf, StatusInv, StatusOf, FlowInv

\* Every message of the decode thread keeps both loops going, ...
LEMMA DecTakesLoop ==
    ASSUME FlowInv, DecTakes
    PROVE  LoopInv'
<1>1. /\ ThreadInv /\ CallerInv /\ Protocol /\ StatusInv /\ DecodeLoop /\ RenderLoop
      /\ "dec" \in Comp /\ "render" \in Comp /\ FlagTypes
  BY DEF FlowInv, Comp, LoopInv, ThreadInv
<1>2. \A id, new : Handles("dec", id, new) =>
        Posted("dec", id) /\ ThreadSame("render") /\ mq'["render"] = mq["render"]
  BY <1>1, HandlesLeaves DEF Handles
<1>3. CASE DecStart
  <2>1. DecodeLoop'
    <3>1. /\ Handles("dec", "start",
                {n \in {"continue", "reset"} :
                   \/ status["dec"] = "STOPPED"
                   \/ status["dec"] = "PAUSED" /\ ~ bCrashFlag /\ n = "continue"})
          /\ UNCHANGED << bCrashFlag, bResolutionChange >>
      BY <1>1, <1>3, DecStartIs
    <3>2. status["dec"] # "STARTED"
      BY <1>1, <1>2, <3>1, StartsOther
    <3>3. status["dec"] \in Statuses
      BY <1>1 DEF FlagTypes
    <3> QED BY <3>1, <3>2, <3>3, DecodeLoopTakes DEF Statuses
  <2> QED BY <1>1, <1>2, <1>3, <2>1, DecStartIs, RenderLoopSame DEF LoopInv
<1>4. CASE DecStop
  <2>1. status["dec"] # "STOPPED"
    <3>1. mq["dec"] # << >> /\ Head(mq["dec"]) = "stop" /\ mq["dec"] \in Seq(Messages)
      BY <1>1, <1>4 DEF DecStop, Take, ThreadInv, QueueTypes
    <3>2. Posted("dec", "stop")
      BY <3>1, TakenElements DEF Posted
    <3> QED BY <1>1, <3>2, StopFindsStarted
  <2>2. DecodeLoop'
    BY <1>1, <1>4, <2>1, DecStopIs, DecodeLoopTakes DEF Works
  <2> QED BY <1>1, <1>2, <1>4, <2>1, <2>2, DecStopIs, RenderLoopSame DEF LoopInv
<1>5. CASE DecPause
  <2>1. /\ Handles("dec", "pause",
                {n \in {"continue"} : Works("dec") /\ ~ firstShown["dec"]})
        /\ status'["dec"] = (IF Works("dec") THEN "PAUSED" ELSE status["dec"])
        /\ firstShown'["dec"] = firstShown["dec"]
    BY <1>1, <1>5, DecPauseIs
  <2>2. Works("dec")
    BY <1>1, <1>2, <2>1, PausesStarted DEF Works
  <2>3. DecodeLoop'
    BY <2>1, <2>2, DecodeLoopTakes DEF Works
  <2> QED BY <1>1, <1>2, <1>5, <2>3, DecPauseIs, RenderLoopSame DEF LoopInv
<1>6. CASE DecQuit
  <2>1. DecodeLoop'
    BY <1>1, <1>6, DecQuitIs, DecodeLoopTakes DEF Works
  <2> QED BY <1>1, <1>2, <1>6, <2>1, DecQuitIs, RenderLoopSame DEF LoopInv
<1>7. CASE DecReset
  <2>1. DecodeLoop'
    BY <1>1, <1>7, DecResetIs, DecodeLoopTakes DEF Works
  <2> QED BY <1>1, <1>2, <1>7, <2>1, DecResetIs, RenderLoopSame DEF LoopInv
<1>8. CASE DecSetEos
  <2>1. DecodeLoop'
    BY <1>1, <1>8, DecSetEosIs, DecodeLoopTakes DEF Works
  <2> QED BY <1>1, <1>2, <1>8, <2>1, DecSetEosIs, RenderLoopSame DEF LoopInv
<1>9. CASE DecContinue
  <2>1. /\ Handles("dec", "continue", {"doDecode"}) /\ FlagsSame("render")
    BY <1>1, <1>9, DecContinueIs, LeftAlone
  <2>2. DecodeLoop'
    BY <2>1, DecodeLoopTakes
  <2> QED BY <1>1, <1>2, <2>1, <2>2, RenderLoopSame DEF LoopInv
<1> QED BY <1>3, <1>4, <1>5, <1>6, <1>7, <1>8, <1>9 DEF DecTakes

\* ... and every message of the render thread.
LEMMA RenderTakesLoop ==
    ASSUME FlowInv, RenderTakes
    PROVE  LoopInv'
<1>1. /\ ThreadInv /\ CallerInv /\ Protocol /\ StatusInv /\ EosInv
      /\ DecodeLoop /\ RenderLoop
      /\ "dec" \in Comp /\ "render" \in Comp /\ FlagTypes
      /\ {"decContinue", "decPost"} \subseteq StepNames
  BY DEF FlowInv, Comp, LoopInv, ThreadInv, StepNames
<1>2. \A id, new : Handles("render", id, new) =>
        /\ Posted("render", id) /\ ThreadSame("dec") /\ mq'["dec"] = mq["dec"]
        /\ \A name \in {"decContinue", "decPost"} : ~ Due("render", name)
  BY <1>1, HandlesLeaves DEF Handles
<1>3. ASSUME NEW id, NEW new, Handles("render", id, new), FlagsSame("dec"),
             UNCHANGED << bCrashFlag, bResolutionChange >>,
             bEosFlag["dec"] /\ bEosFlag["render"] => bEosFlag'["render"]
      PROVE  DecodeLoop'
  BY <1>1, <1>2, <1>3, DecodeLoopSame
<1>4. CASE RenderStart
  <2>1. /\ Handles("render", "start", {"continue"}) /\ FlagsSame("dec")
        /\ bEosFlag'["render"] = (bEosFlag["render"] /\ status["render"] # "STOPPED")
        /\ UNCHANGED << bCrashFlag, bResolutionChange >>
    BY <1>1, <1>4, RenderStartIs
  <2>2. status["render"] = "STOPPED" => ~ bEosFlag["dec"]
    <3> SUFFICES ASSUME status["render"] = "STOPPED" PROVE ~ bEosFlag["dec"]
      OBVIOUS
    <3>1. PICK t \in Caller : Waits(t, "render", "start") /\ Ahead(t, "render", "start")
                              /\ Left(t, "render", "start")
      BY <1>1, <1>2, <2>1, TakenFor DEF Command
    <3>2. Ahead("xplayer", "render", "start") /\ ~ Left("demux", "render", "start")
      BY <1>1, <3>1, FirstStart DEF AheadOf
    <3>3. Waits("xplayer", "render", "start")
      BY <3>1, <3>2 DEF Caller
    <3>4. ~ Ahead("xplayer", "dec", "start")
      BY <1>1, <3>3, StartOrder DEF Ahead, Left
    <3> QED BY <1>1, <3>2, <3>4 DEF EosInv
  <2>3. DecodeLoop'
    BY <1>3, <2>1, <2>2
  <2>4. RenderLoop'
    BY <2>1, RenderLoopTakes
  <2> QED BY <2>3, <2>4 DEF LoopInv
<1>5. CASE RenderStop
  BY <1>1, <1>3, <1>5, RenderStopIs, RenderLoopTakes DEF Works, LoopInv
<1>6. CASE RenderPause
  <2>1. /\ Handles("render", "pause",
                {n \in {"continue"} : Works("render") /\ ~ firstShown["render"]})
        /\ status'["render"] = (IF Works("render") THEN "PAUSED" ELSE status["render"])
        /\ firstShown'["render"] = firstShown["render"]
    BY <1>1, <1>6, RenderPauseIs
  <2>2. Works("render")
    BY <1>1, <1>2, <2>1, PausesStarted DEF Works
  <2>3. RenderLoop'
    BY <2>1, <2>2, RenderLoopTakes DEF Works
  <2> QED BY <1>1, <1>3, <1>6, <2>3, RenderPauseIs DEF LoopInv
<1>7. CASE RenderQuit
  BY <1>1, <1>3, <1>7, RenderQuitIs, RenderLoopTakes DEF Works, LoopInv
<1>8. CASE RenderReset
  <2>1. /\ Handles("render", "reset", {n \in {"continue"} : status["render"] # "STOPPED"})
        /\ FlagsSame("dec") /\ status'["render"] = status["render"]
        /\ UNCHANGED << bCrashFlag, bResolutionChange >>
    BY <1>1, <1>8, RenderResetIs
  <2>2. PICK t \in Caller : Waits(t, "render", "reset") /\ Ahead(t, "render", "reset")
                            /\ Left(t, "render", "reset")
    BY <1>1, <1>2, <2>1, TakenFor DEF Command
  <2>3. t = "demux"
    BY <1>1, <2>2, WhoseCommand DEF Caller, PlayerIds, Command
  <2>4. ~ Ahead("demux", "dec", "reset")
    BY <1>1, <2>2, <2>3, ResetOrder DEF Ahead, Left
  <2>5. ~ bEosFlag["dec"]
    BY <1>1, <2>2, <2>3, <2>4 DEF EosInv
  <2>6. DecodeLoop'
    BY <1>3, <2>1, <2>5
  <2>7. RenderLoop'
    BY <2>1, RenderLoopTakes DEF Works
  <2> QED BY <2>6, <2>7 DEF LoopInv
<1>9. CASE RenderSetEos
  <2>1. /\ Handles("render", "eos", {n \in {"continue"} : Works("render")})
        /\ FlagsSame("dec") /\ bEosFlag'["render"] = TRUE
        /\ UNCHANGED << bCrashFlag, bResolutionChange >>
    BY <1>1, <1>9, RenderSetEosIs
  <2>2. DecodeLoop'
    BY <1>3, <2>1
  <2>3. RenderLoop'
    BY <2>1, RenderLoopTakes
  <2> QED BY <2>2, <2>3 DEF LoopInv
<1>10. CASE DoRender
  <2>1. /\ Handles("render", "continue", {n \in {"picture"} : Works("render")})
        /\ FlagsSame("dec") /\ FlagsSame("render")
        /\ UNCHANGED << bCrashFlag, bResolutionChange >>
    BY <1>1, <1>10, DoRenderIs, LeftAlone DEF compVars
  <2>2. DecodeLoop'
    BY <1>3, <2>1 DEF FlagsSame
  <2>3. RenderLoop'
    BY <2>1, RenderLoopTakes DEF Works, FlagsSame
  <2> QED BY <2>2, <2>3 DEF LoopInv
<1> QED BY <1>4, <1>5, <1>6, <1>7, <1>8, <1>9, <1>10 DEF RenderTakes

\* What the steps of the render thread say of its list.
LEMMA OnlyReopen ==
    ASSUME ThreadInv, NEW name, At("render", name), name # "decContinue"
    PROVE  /\ name # "reopen" => ~ Due("render", "decContinue") /\ ~ Due("render", "reopen")
           /\ name # "decPost" => ~ Due("render", "decPost")
<1>1. \A n \in FirstOnly : Due("render", n) => At("render", n)
  BY FirstIsFirst DEF Comp, StepNames, FirstOnly
<1>2. /\ name # "reopen" => ~ Due("render", "reopen")
      /\ name # "decPost" => ~ Due("render", "decPost")
  BY <1>1 DEF At, FirstOnly
<1>3. ASSUME name # "reopen", Due("render", "decContinue") PROVE FALSE
  <2>1. /\ Elements(todo["render"]) =
             {Head(todo["render"])} \union Elements(Tail(todo["render"]))
        /\ \A y \in Elements(Tail(todo["render"])) : y.op = "decContinue" => name = "reopen"
    BY FirstStep DEF Comp
  <2>2. Step("decContinue").op = "decContinue"
    BY StepForms
  <2>3. Step("decContinue") = Head(todo["render"])
    BY <1>3, <2>1, <2>2 DEF Due
  <2> QED BY <2>2, <2>3 DEF At
<1> QED BY <1>2, <1>3

\* The steps of the decode thread ...
LEMMA DecMovesLoop ==
    ASSUME FlowInv, NEW name, NEW new, Moves("dec", name, new), ThreadSame("render"),
           FlagsSame("render"), "decode" \in new => Works("dec")',
           mq'["render"] = mq["render"] \/ mq'["render"] # << >>,
           Works("dec")' /\ ~ bCrashFlag' /\ ~ bResolutionChange' => DecodeGoesOn'
    PROVE  LoopInv'
<1>1. RenderLoop'
  BY RenderLoopSame DEF FlowInv, LoopInv
<1>2. Due("dec", "decode")' => "decode" \in new
  BY DEF Moves, StepNames, FirstOnly
<1> QED BY <1>1, <1>2 DEF LoopInv, DecodeLoop

\* ... that leave it with what it has to do.
LEMMA DecMovesOn ==
    ASSUME FlowInv, NEW name, NEW new, Moves("dec", name, new), ThreadSame("render"),
           mq'["render"] = mq["render"], UNCHANGED compVars, "decode" \notin new,
           \/ name \in {"reset", "reply"} /\ mq'["dec"] = mq["dec"]
           \/ mq'["dec"] # << >>
           \/ \E n \in {"continue", "post", "doDecode", "decode", "notifyEos", "awaitEos"} :
                n \in new
           \/ bEosFlag["dec"] /\ bEosFlag["render"]
    PROVE  LoopInv'
<1>1. \A n \in StepNames : n \in new \/ (Due("dec", n) /\ n # name) => Due("dec", n)'
  BY DEF Moves
<1>2. /\ FlagsSame("render") /\ FlagsSame("dec") /\ "dec" \in Comp /\ "render" \in Comp
      /\ UNCHANGED << bCrashFlag, bResolutionChange, status, firstShown, bEosFlag >>
  BY LeftAlone DEF Comp, compVars
<1>3. Works("dec")' <=> Works("dec")
  BY <1>2 DEF Works
<1>4. \A n \in {"decContinue", "decPost"} : Due("render", n) => Due("render", n)'
  BY DEF ThreadSame, StepNames
<1>5. \A n \in StepNames : name = "reply" => n # name
  BY DEF StepNames
<1>6. ASSUME name \in {"reset", "reply"}, mq'["dec"] = mq["dec"], DecodeGoesOn,
             ~ Due("dec", "decode")
      PROVE  DecodeGoesOn'
  BY <1>1, <1>2, <1>4, <1>5, <1>6 DEF DecodeGoesOn, Ends, StepNames
<1>7. ~ Due("dec", "decode") \/ name = "decode"
  <2> SUFFICES ASSUME Due("dec", "decode") PROVE name = "decode"
    OBVIOUS
  <2>1. At("dec", "decode")
    BY FirstIsFirst DEF Comp, StepNames, FirstOnly, FlowInv
  <2> QED BY <2>1 DEF At, Moves
<1>8. Works("dec")' /\ ~ bCrashFlag' /\ ~ bResolutionChange' => DecodeGoesOn'
  <2>1. CASE name \in {"reset", "reply"} /\ mq'["dec"] = mq["dec"]
    BY <1>2, <1>3, <1>6, <1>7, <2>1 DEF FlowInv, LoopInv, DecodeLoop
  <2>2. CASE mq'["dec"] # << >>
    BY <2>2 DEF DecodeGoesOn
  <2>3. CASE \E n \in {"continue", "post", "doDecode", "decode", "notifyEos", "awaitEos"} :
                n \in new
    BY <1>1, <2>3 DEF DecodeGoesOn, Ends, StepNames
  <2>4. CASE bEosFlag["dec"] /\ bEosFlag["render"]
    BY <1>2, <2>4 DEF DecodeGoesOn
  <2> QED BY <2>1, <2>2, <2>3, <2>4
<1> QED BY <1>2, <1>8, DecMovesLoop

\* A call of DecodeVideoStream keeps the decode loop going, ...
LEMMA DecodeVideoLoop == FlowInv /\ DecodeVideoStream => LoopInv'
<1> SUFFICES ASSUME FlowInv, DecodeVideoStream PROVE LoopInv'
  OBVIOUS
<1>1. ThreadInv /\ "dec" \in Comp /\ "render" \in Comp /\ FlagTypes
  BY DEF FlowInv, ThreadInv, Comp
<1>2. \A name, new : Goes("dec", name, new) =>
        /\ Moves("dec", name, new) /\ ThreadSame("render")
        /\ mq'["render"] = mq["render"] /\ mq'["dec"] = mq["dec"]
  BY <1>1 DEF Goes
<1>3. CASE \E new \in {{"notifyEos"}, {"continue"}} :
             Goes("dec", "decode", new) /\ UNCHANGED compVars
  BY <1>2, <1>3, DecMovesOn
<1>4. CASE /\ Goes("dec", "decode", {}) /\ FlagsSame("dec") /\ FlagsSame("render")
           /\ bCrashFlag' \in BOOLEAN /\ bResolutionChange' \in BOOLEAN
           /\ bCrashFlag' \/ bResolutionChange'
  BY <1>2, <1>4, DecMovesLoop
<1>5. ASSUME NEW frame \in BOOLEAN,
             firstShown'["dec"] = (firstShown["dec"] \/ frame),
             status'["dec"] = status["dec"], FlagsSame("render"),
             Goes("dec", "decode", IF status["dec"] = "STARTED" \/ ~ firstShown'["dec"]
                                     THEN {"continue"} ELSE {})
      PROVE  LoopInv'
  <2>1. CASE status["dec"] = "STARTED" \/ ~ firstShown'["dec"]
    <3>1. Goes("dec", "decode", {"continue"})
      BY <1>5, <2>1
    <3>2. Due("dec", "continue")'
      BY <3>1 DEF Goes, Moves, StepNames
    <3>3. DecodeGoesOn'
      BY <3>2 DEF DecodeGoesOn
    <3> QED BY <1>2, <1>5, <3>1, <3>3, DecMovesLoop
  <2>2. CASE ~ (status["dec"] = "STARTED" \/ ~ firstShown'["dec"])
    <3>1. Goes("dec", "decode", {})
      BY <1>5, <2>2
    <3>2. ~ Works("dec")'
      BY <1>5, <2>2 DEF Works
    <3> QED BY <1>2, <1>5, <3>1, <3>2, DecMovesLoop
  <2> QED BY <2>1, <2>2
<1> QED BY <1>1, <1>3, <1>4, <1>5, DecodeIs

\* ... and so does every other step of the decode thread.
LEMMA DecWorksLoop == FlowInv /\ DecWorks => LoopInv'
<1> SUFFICES ASSUME FlowInv, DecWorks PROVE LoopInv'
  OBVIOUS
<1>1. ThreadInv /\ "dec" \in Comp /\ "render" \in Comp /\ FlagTypes
  BY DEF FlowInv, ThreadInv, Comp
<1>2. \A name, new : Goes("dec", name, new) =>
        /\ Moves("dec", name, new) /\ ThreadSame("render")
        /\ mq'["render"] = mq["render"] /\ mq'["dec"] = mq["dec"]
  BY <1>1 DEF Goes
<1>3. CASE BaseCompContinue("dec")
  <2>1. Goes("dec", "continue", IF mq["dec"] = << >> THEN {"post"} ELSE {}) /\ UNCHANGED compVars
    BY <1>1, <1>3, BaseContinueIs
  <2>2. CASE mq["dec"] = << >>
    BY <1>2, <2>1, <2>2, DecMovesOn
  <2>3. CASE mq["dec"] # << >>
    BY <1>2, <2>1, <2>3, DecMovesOn
  <2> QED BY <2>2, <2>3
<1>4. CASE DoDecode
  <2>1. Goes("dec", "doDecode", IF MayDecode THEN {"decode"} ELSE {}) /\ UNCHANGED compVars
    BY <1>1, <1>4, DoDecodeIs
  <2>2. (Works("dec")' <=> Works("dec")) /\ FlagsSame("render")
        /\ UNCHANGED << bCrashFlag, bResolutionChange >>
    BY <1>1, <2>1, LeftAlone DEF compVars, Works
  <2>3. CASE MayDecode
    <3>1. Goes("dec", "doDecode", {"decode"}) /\ Works("dec")
      BY <2>1, <2>3 DEF MayDecode
    <3>2. Due("dec", "decode")'
      BY <3>1 DEF Goes, Moves, StepNames
    <3>3. DecodeGoesOn'
      BY <3>2 DEF DecodeGoesOn
    <3> QED BY <1>2, <2>2, <3>1, <3>3, DecMovesLoop
  <2>4. CASE ~ MayDecode
    <3>1. Goes("dec", "doDecode", {})
      BY <2>1, <2>4
    <3>2. ~ (Works("dec")' /\ ~ bCrashFlag' /\ ~ bResolutionChange')
      BY <2>2, <2>4 DEF MayDecode
    <3> QED BY <1>2, <2>2, <3>1, <3>2, DecMovesLoop
  <2> QED BY <2>3, <2>4
<1>5. CASE ResetVideoDecoder
  BY <1>1, <1>2, <1>5, ResetDecoderIs, DecMovesOn
<1> QED BY <1>3, <1>4, <1>5, DecodeVideoLoop DEF DecWorks

\* The steps of the render thread.
LEMMA RenderMovesLoop ==
    ASSUME FlowInv, NEW name, NEW new, Moves("render", name, new), ThreadSame("dec"),
           FlagsSame("dec"), bEosFlag'["render"] = bEosFlag["render"],
           mq'["dec"] = mq["dec"] \/ mq'["dec"] # << >>,
           UNCHANGED << bCrashFlag, bResolutionChange >>,
           \/ name \notin {"reopen", "decContinue", "decPost"}
           \/ name = "decContinue" /\ mq["dec"] = << >> /\ "decPost" \in new
           \/ mq'["dec"] # << >>
    PROVE  DecodeLoop'
<1>1. DecodeLoop /\ ThreadInv /\ At("render", name)
  BY DEF FlowInv, LoopInv, Moves
<1>2. CASE name \notin {"reopen", "decContinue", "decPost"}
  <2>1. ~ Due("render", "decContinue") /\ ~ Due("render", "decPost")
    BY <1>1, <1>2, OnlyReopen
  <2> QED BY <1>1, <2>1, DecodeLoopSame
<1>3. \A n \in StepNames : Due("dec", n)' <=> Due("dec", n)
  BY DEF ThreadSame
<1>4. CASE (name = "decContinue" /\ mq["dec"] = << >> /\ "decPost" \in new) \/ mq'["dec"] # << >>
  <2>1. DecodeGoesOn'
    BY <1>4 DEF DecodeGoesOn, Moves, StepNames
  <2>2. Works("dec")' <=> Works("dec")
    BY DEF Works, FlagsSame
  <2> QED BY <1>1, <1>3, <2>1, <2>2 DEF DecodeLoop, StepNames
<1> QED BY <1>2, <1>4

\* A step of the render thread that goes on with another one.
LEMMA RenderMovesOn ==
    ASSUME FlowInv, NEW name, NEW new, Moves("render", name, new),
           new \subseteq {"continue", "post"}, name # "reopen",
           name = "decContinue" => Due("render", "continue"),
           Works("render")' /\ ~ bEosFlag'["render"] => RenderGoesOn'
    PROVE  RenderLoop'
<1>1. ThreadInv /\ At("render", name)
  BY DEF FlowInv, Moves
<1>2. \A n \in StepNames :
         /\ Due("render", n)' => n \in new \/ (Due("render", n) /\ n \notin FirstOnly)
         /\ n \in new \/ (Due("render", n) /\ n # name) => Due("render", n)'
  BY DEF Moves
<1>3. ~ Due("render", "reopen")' /\ ~ Due("render", "decPost")'
  BY <1>2 DEF FirstOnly, StepNames
<1>4. Due("render", "decContinue")' => Due("render", "continue")'
  BY <1>1, <1>2, OnlyReopen DEF StepNames
<1> QED BY <1>3, <1>4 DEF RenderLoop

\* Every step of the render thread keeps both loops going.
LEMMA RenderWorksLoop == FlowInv /\ RenderWorks => LoopInv'
<1> SUFFICES ASSUME FlowInv, RenderWorks PROVE LoopInv'
  OBVIOUS
<1>1. /\ ThreadInv /\ RenderLoop /\ "dec" \in Comp /\ "render" \in Comp /\ FlagTypes
      /\ {"continue", "post", "picture", "reopen", "decContinue", "decPost"} \subseteq StepNames
  BY DEF FlowInv, ThreadInv, Comp, LoopInv, StepNames
<1>2. \A name, new : Goes("render", name, new) =>
        /\ Moves("render", name, new) /\ ThreadSame("dec") /\ At("render", name)
        /\ mq'["render"] = mq["render"] /\ mq'["dec"] = mq["dec"]
        /\ \A n \in StepNames :
             /\ Due("render", n)' => n \in new \/ (Due("render", n) /\ n \notin FirstOnly)
             /\ n \in new \/ (Due("render", n) /\ n # name) => Due("render", n)'
  BY <1>1 DEF Goes, Moves
<1>3. UNCHANGED compVars => /\ FlagsSame("dec") /\ FlagsSame("render")
                            /\ UNCHANGED << bCrashFlag, bResolutionChange >>
  BY <1>1, LeftAlone DEF compVars
<1>4. FlagsSame("render") => /\ bEosFlag'["render"] = bEosFlag["render"]
                             /\ Works("render")' <=> Works("render")
  BY DEF FlagsSame, Works
<1>5. CASE BaseCompContinue("render")
  <2>1. /\ Goes("render", "continue", IF mq["render"] = << >> THEN {"post"} ELSE {})
        /\ UNCHANGED compVars
    BY <1>1, <1>5, BaseContinueIs
  <2>2. DecodeLoop'
    BY <1>2, <1>3, <1>4, <2>1, RenderMovesLoop
  <2>3. RenderGoesOn'
    BY <1>1, <1>2, <2>1 DEF RenderGoesOn
  <2>4. (IF mq["render"] = << >> THEN {"post"} ELSE {}) \subseteq {"continue", "post"}
    OBVIOUS
  <2>5. RenderLoop'
    BY <1>2, <2>1, <2>3, <2>4, RenderMovesOn
  <2> QED BY <2>2, <2>5 DEF LoopInv
<1>6. CASE PictureComes
  <2>1. /\ FlagsSame("dec") /\ UNCHANGED << bCrashFlag, bResolutionChange >>
        /\ status'["render"] = status["render"] /\ bEosFlag'["render"] = bEosFlag["render"]
    BY <1>1, <1>6, PictureIs
  <2>2. \/ Goes("render", "picture", {"continue"})
        \/ Goes("render", "picture", {}) /\ ~ Works("render")'
    <3>1. CASE /\ firstShown'["render"] = TRUE
               /\ Goes("render", "picture",
                       IF status["render"] = "STARTED" THEN {"continue"} ELSE {})
      BY <2>1, <3>1 DEF Works
    <3> QED BY <1>1, <1>6, <3>1, PictureIs
  <2>3. PICK new \in {{"continue"}, {}} :
          Goes("render", "picture", new) /\ ("continue" \in new \/ ~ Works("render")')
    BY <2>2
  <2>4. DecodeLoop'
    BY <1>2, <2>1, <2>3, RenderMovesLoop
  <2>5. Works("render")' => RenderGoesOn'
    BY <1>1, <1>2, <2>3 DEF RenderGoesOn
  <2>6. new \subseteq {"continue", "post"}
    BY <2>3
  <2>7. RenderLoop'
    BY <1>2, <2>3, <2>5, <2>6, RenderMovesOn
  <2> QED BY <2>4, <2>7 DEF LoopInv
<1>7. CASE NoPictureComes
  <2>1. UNCHANGED compVars
    BY <1>1, <1>7, NoPictureIs
  <2>2. CASE Goes("render", "picture", {}) /\ (bEosFlag["render"] \/ mq["render"] # << >>)
    <3>1. DecodeLoop'
      BY <1>2, <1>3, <1>4, <2>1, <2>2, RenderMovesLoop
    <3>2. Works("render")' /\ ~ bEosFlag'["render"] => RenderGoesOn'
      BY <1>2, <1>3, <1>4, <2>1, <2>2 DEF RenderGoesOn
    <3>3. RenderLoop'
      BY <1>2, <2>2, <3>2, RenderMovesOn
    <3> QED BY <3>1, <3>3 DEF LoopInv
  <2>3. CASE Goes("render", "picture", {"reopen", "decContinue", "continue"})
    <3>1. DecodeLoop'
      BY <1>2, <1>3, <1>4, <2>1, <2>3, RenderMovesLoop
    <3>2. Due("render", "decContinue")' /\ Due("render", "continue")'
      BY <1>1, <1>2, <2>3
    <3>3. RenderLoop'
      BY <3>2 DEF RenderLoop, RenderGoesOn
    <3> QED BY <3>1, <3>3 DEF LoopInv
  <2> QED BY <1>1, <1>7, <2>2, <2>3, NoPictureIs
<1>8. CASE ReopenVideoEngine
  <2>1. Goes("render", "reopen", {}) /\ FlagsSame("dec") /\ FlagsSame("render")
    BY <1>1, <1>8, ReopenIs
  <2>2. Due("render", "reopen")
    BY <1>1, <1>2, <2>1, FirstIsFirst
  <2>3. Due("render", "decContinue") /\ Due("render", "continue")
    BY <1>1, <2>2 DEF RenderLoop
  <2>4. Due("render", "decContinue")' /\ Due("render", "continue")'
    BY <1>1, <1>2, <2>1, <2>3
  <2>5. RenderLoop'
    BY <2>4 DEF RenderLoop, RenderGoesOn
  <2>6. \A n \in StepNames : Due("dec", n)' <=> Due("dec", n)
    BY <1>2, <2>1 DEF ThreadSame
  <2>7. Works("dec")' <=> Works("dec")
    BY <2>1 DEF FlagsSame, Works
  <2>8. DecodeGoesOn'
    BY <2>4 DEF DecodeGoesOn
  <2>9. DecodeLoop'
    BY <2>6, <2>7, <2>8 DEF DecodeLoop, FlowInv, LoopInv, StepNames
  <2> QED BY <2>5, <2>9 DEF LoopInv
<1>9. CASE ContinueDecoder
  <2>1. /\ Goes("render", "decContinue", IF mq["dec"] = << >> THEN {"decPost"} ELSE {})
        /\ UNCHANGED compVars
    BY <1>1, <1>9, ContinueDecoderIs
  <2>2. DecodeLoop'
    BY <1>2, <1>3, <1>4, <2>1, RenderMovesLoop
  <2>3. Due("render", "decContinue") /\ ~ Due("render", "reopen")
    <3>1. At("render", "decContinue")
      BY <1>2, <2>1
    <3>2. Due("render", "decContinue")
      BY <1>1, <3>1, FirstIsFirst
    <3>3. Due("render", "reopen") => At("render", "reopen")
      BY <1>1, FirstIsFirst DEF FirstOnly
    <3>4. ~ At("render", "reopen")
      BY <3>1 DEF At
    <3> QED BY <3>2, <3>3, <3>4
  <2>4. Due("render", "continue")
    BY <1>1, <2>3 DEF RenderLoop
  <2>5. Due("render", "continue")' /\ ~ Due("render", "reopen")'
    BY <1>1, <1>2, <2>1, <2>3, <2>4
  <2>6. RenderLoop'
    BY <2>5 DEF RenderLoop, RenderGoesOn
  <2> QED BY <2>2, <2>6 DEF LoopInv
<1> QED BY <1>5, <1>6, <1>7, <1>8, <1>9 DEF RenderWorks

\* A component has exited only when all are stopped.
LEMMA ExitedStopped ==
    ASSUME CallerInv, StatusInv, ExitInv, Due("dec", "exited") \/ Due("render", "exited")
    PROVE  \A c \in Comp : status[c] = "STOPPED"
<1>1. eStatus = "STOPPED"
  BY DEF ExitInv
<1>2. Idle("demux")
  BY <1>1 DEF CallerInv
<1>3. /\ \A c \in Comp, id \in Statusing : ~ Left("xplayer", c, id)
      /\ \A value \in Statuses : ~ Has("xplayer", SetStatus(value))
  <2>1. CASE Idle("xplayer")
    BY <2>1, IdleHasNothing DEF Left, Calls, Waits, Caller
  <2>2. CASE Has("xplayer", Join("dec")) /\ ~ Has("xplayer", SetStatus("STOPPED"))
    <3>1. ASSUME NEW c \in Comp, NEW id \in Statusing, Left("xplayer", c, id) PROVE FALSE
      <4>1. id \in Command /\ id # "quit"
        BY DEF Statusing, Command
      <4>2. Goal(Call(c, id)) = "STOPPED" /\ Has("xplayer", SetStatus(Goal(Call(c, id))))
        BY <2>2, <3>1, <4>1, PlayerCommand
      <4> QED BY <2>2, <4>2
    <3>2. ASSUME NEW value \in Statuses, Has("xplayer", SetStatus(value)) PROVE FALSE
      <4>1. Goal(Join("dec")) = Goal(SetStatus(value))
        BY <2>2, <3>2, OneGoal
      <4>2. value = "STOPPED"
        BY <4>1, OtherPlaces DEF Comp
      <4> QED BY <2>2, <3>2, <4>2
    <3> QED BY <3>1, <3>2
  <2> QED BY <2>1, <2>2 DEF ExitInv
<1>4. \A c \in Comp, id \in Statusing : ~ AheadOf(c, id)
  BY <1>2, <1>3, IdleHasNothing DEF AheadOf, Ahead, Left, Calls, Waits, Caller
<1> QED BY <1>1, <1>3, <1>4 DEF StatusInv, StatusOf, Statusing

\* A component with work to do never loses its last message.
LEMMA LoopNext == FlowInv /\ [Next]_vars => LoopInv'
<1> SUFFICES ASSUME FlowInv, [Next]_vars PROVE LoopInv'
  OBVIOUS
<1>1. /\ CallerInv /\ ThreadInv /\ Protocol /\ StatusInv /\ EosInv /\ ExitInv
      /\ DecodeLoop /\ RenderLoop /\ FlagTypes
      /\ "dec" \in Comp /\ "render" \in Comp /\ (\A c \in Comp : c = "dec" \/ c = "render")
  BY DEF FlowInv, Comp, LoopInv, ThreadInv
<1>2. ASSUME \A c \in Comp : ThreadSame(c), UNCHANGED compVars,
             \A c \in Comp : mq'[c] = mq[c] \/ mq'[c] # << >>
      PROVE  LoopInv'
  <2>1. /\ \A c \in Comp : FlagsSame(c)
        /\ UNCHANGED << bCrashFlag, bResolutionChange >>
    BY <1>2, LeftAlone DEF compVars
  <2>2. \A n \in {"decContinue", "decPost"} : Due("render", n) => Due("render", n)'
    BY <1>1, <1>2 DEF ThreadSame, StepNames
  <2>3. DecodeLoop'
    BY <1>1, <1>2, <2>1, <2>2, DecodeLoopSame DEF FlagsSame
  <2> QED BY <1>1, <1>2, <2>1, <2>3, RenderLoopSame DEF LoopInv
<1>3. CASE UNCHANGED vars \/ ChangeDemux \/ Begins
           \/ \E t \in Caller : JoinThread(t) \/ ChangeStatus(t) \/ WaitReply(t)
  <2>1. UNCHANGED << todo, mq, compVars >>
    BY <1>3 DEF vars, ChangeDemux, Begins, JoinThread, ChangeStatus, WaitReply,
                PlayerStart, PlayerPause, PlayerStop, PlayerReset, PlayerSetEos, Issue
  <2> QED BY <1>2, <2>1, LeftAlone
<1>4. ASSUME NEW t \in Caller, PostCommand(t) PROVE LoopInv'
  <2>1. PICK c \in Comp, id \in Command :
          Posts(c, id) /\ UNCHANGED compVars /\ \A d \in Comp : ThreadSame(d)
    BY <1>1, <1>4, PostCommandIs
  <2>2. \A d \in Comp : mq'[d] = mq[d] \/ mq'[d] # << >>
    BY <2>1 DEF Posts, QueueSame
  <2> QED BY <1>2, <2>1, <2>2
<1>5. CASE PostContinue("dec")
  <2>1. /\ Moves("dec", "post", {}) /\ Posts("dec", "continue") /\ UNCHANGED compVars
        /\ ThreadSame("render")
    BY <1>1, <1>5, PostContinueIs
  <2>2. mq'["dec"] # << >> /\ mq'["render"] = mq["render"]
    BY <1>1, <2>1 DEF Posts, QueueSame
  <2> QED BY <2>1, <2>2, DecMovesOn
<1>6. CASE PostContinue("render")
  <2>1. /\ Moves("render", "post", {}) /\ Posts("render", "continue") /\ UNCHANGED compVars
        /\ ThreadSame("dec")
    BY <1>1, <1>6, PostContinueIs
  <2>2. mq'["render"] # << >> /\ mq'["dec"] = mq["dec"]
    BY <1>1, <2>1 DEF Posts, QueueSame
  <2>3. /\ FlagsSame("dec") /\ FlagsSame("render")
        /\ UNCHANGED << bCrashFlag, bResolutionChange >>
    BY <1>1, <2>1, LeftAlone DEF compVars
  <2>4. DecodeLoop'
    BY <2>1, <2>2, <2>3, RenderMovesLoop DEF FlagsSame
  <2>5. RenderGoesOn'
    BY <2>2 DEF RenderGoesOn
  <2>6. RenderLoop'
    BY <2>1, <2>5, RenderMovesOn
  <2> QED BY <2>4, <2>6 DEF LoopInv
<1>7. CASE SendReply("dec")
  <2>1. /\ Moves("dec", "reply", {}) /\ UNCHANGED << mq, compVars >> /\ ThreadSame("render")
    BY <1>1, <1>7, SendReplyIs DEF Replies
  <2> QED BY <2>1, DecMovesOn
<1>8. CASE SendReply("render")
  <2>1. /\ Moves("render", "reply", {}) /\ UNCHANGED << mq, compVars >> /\ ThreadSame("dec")
    BY <1>1, <1>8, SendReplyIs DEF Replies
  <2>2. /\ FlagsSame("dec") /\ FlagsSame("render")
        /\ UNCHANGED << bCrashFlag, bResolutionChange >>
    BY <1>1, <2>1, LeftAlone DEF compVars
  <2>3. DecodeLoop'
    BY <2>1, <2>2, RenderMovesLoop DEF FlagsSame
  <2>4. /\ ~ At("render", "post") /\ ~ At("render", "picture")
        /\ \A n \in StepNames : Due("render", n) => Due("render", n)'
    BY <2>1 DEF Moves, StepNames, At
  <2>5. RenderGoesOn => RenderGoesOn'
    BY <2>1, <2>4 DEF RenderGoesOn, StepNames
  <2>6. Works("render")' /\ ~ bEosFlag'["render"] => Works("render") /\ ~ bEosFlag["render"]
    BY <2>2 DEF FlagsSame, Works
  <2>7. RenderLoop'
    BY <1>1, <2>1, <2>5, <2>6, RenderMovesOn DEF RenderLoop
  <2> QED BY <2>3, <2>7 DEF LoopInv
<1>9. CASE PostToDecoder
  <2>1. /\ Moves("render", "decPost", {}) /\ Posts("dec", "continue")
        /\ UNCHANGED compVars /\ ThreadSame("dec")
    BY <1>1, <1>9, PostToDecoderIs
  <2>2. mq'["dec"] # << >>
    BY <2>1 DEF Posts
  <2>3. /\ FlagsSame("dec") /\ FlagsSame("render")
        /\ UNCHANGED << bCrashFlag, bResolutionChange >>
    BY <1>1, <2>1, LeftAlone DEF compVars
  <2>4. DecodeLoop'
    BY <2>1, <2>2, <2>3, RenderMovesLoop DEF FlagsSame
  <2>5. Due("render", "decPost")
    BY <2>1 DEF Moves
  <2>6. Due("render", "continue")'
    BY <1>1, <2>1, <2>5 DEF RenderLoop, Moves, StepNames
  <2>7. RenderLoop'
    BY <2>1, <2>6, RenderMovesOn DEF RenderGoesOn
  <2> QED BY <2>4, <2>7 DEF LoopInv
<1>10. CASE NotifyEos
  <2>1. ~ At("render", "exited")
    <3> SUFFICES ASSUME At("render", "exited") PROVE FALSE
      OBVIOUS
    <3>1. Due("render", "exited") /\ Due("dec", "notifyEos")
      BY <1>1, <1>10, FirstIsFirst DEF NotifyEos, StepNames
    <3>2. status["dec"] = "STOPPED"
      BY <1>1, <3>1, ExitedStopped
    <3> QED BY <1>1, <3>1, <3>2 DEF EosInv, Ends
  <2>2. /\ Moves("dec", "notifyEos", {"awaitEos"}) /\ Posts("render", "eos")
        /\ ThreadSame("render") /\ UNCHANGED compVars
    BY <1>1, <1>10, <2>1, NotifyEosIs
  <2>3. /\ FlagsSame("render") /\ mq'["render"] # << >>
    BY <1>1, <2>2, LeftAlone DEF Posts
  <2>4. DecodeGoesOn'
    BY <2>2 DEF DecodeGoesOn, Ends, Moves, StepNames
  <2> QED BY <2>2, <2>3, <2>4, DecMovesLoop
<1>11. CASE AwaitEos
  <2>1. /\ Moves("dec", "awaitEos", {}) /\ Answered("render", "eos")
        /\ ThreadSame("render") /\ UNCHANGED << mq, compVars >>
    BY <1>1, <1>11, AwaitEosIs
  <2>2. bEosFlag["render"] /\ bEosFlag["dec"]
    BY <1>1, <2>1, EosWaiter DEF EosInv
  <2> QED BY <2>1, <2>2, DecMovesOn
<1>12. CASE PlayerInitialVideo
  <2>1. \A c \in Comp : /\ \A n \in StepNames : ~ Due(c, n)'
                        /\ status'[c] = "STOPPED"
    BY <1>12, InitialVideoIs
  <2>2. \A n \in {"decode", "reopen", "decContinue", "decPost"} : n \in StepNames
    BY DEF StepNames
  <2> QED BY <1>1, <2>1, <2>2 DEF LoopInv, DecodeLoop, RenderLoop, Works
<1> QED BY <1>1, <1>3, <1>4, <1>5, <1>6, <1>7, <1>8, <1>9, <1>10, <1>11, <1>12,
           DecTakesLoop, RenderTakesLoop, DecWorksLoop, RenderWorksLoop, NextIs

-----------------------------------------------------------------------------
(* The messages in the queues.                                              *)

\* A caller has one message in a queue at most, ...
LEMMA PostingIs ==
    ASSUME NEW t \in Caller, NEW c \in Comp
    PROVE  /\ Posting(t, c) \in {0, 1} /\ Posting(t, c)' \in {0, 1}
           /\ Posting(t, c) = 1 <=> \E id \in Command : Waits(t, c, id) /\ Posted(c, id)
           /\ Posting(t, c)' = 1 <=> \E id \in Command : Waits(t, c, id)' /\ Posted(c, id)'
  BY DEF Posting, One

\* ... and the callers together as many as wait for one that is posted.
LEMMA CallersIs ==
    ASSUME NEW c \in Comp
    PROVE  /\ Callers(c) \in Nat /\ Callers(c)' \in Nat
           /\ Callers(c) = Posting("xplayer", c) + Posting("demux", c)
           /\ Callers(c)' = Posting("xplayer", c)' + Posting("demux", c)'
  BY PostingIs DEF Callers, Caller

\* The waiting commands of a component only become more.
LEMMA CallersKept ==
    ASSUME NEW c \in Comp,
           \A t \in Caller, id \in Command :
             Waits(t, c, id) /\ Posted(c, id) => Waits(t, c, id)' /\ Posted(c, id)'
    PROVE  Callers(c) <= Callers(c)'
<1>1. \A t \in Caller : Posting(t, c) <= Posting(t, c)'
  BY PostingIs
<1>2. \A t \in Caller : Posting(t, c) \in {0, 1} /\ Posting(t, c)' \in {0, 1}
  BY PostingIs
<1> QED BY <1>1, <1>2, CallersIs DEF Caller

\* A queue that is unchanged is as short as before.
LEMMA QueueKept ==
    ASSUME QueueInv, ThreadInv, \A c \in Comp : mq'[c] = mq[c],
           Due("dec", "post")' => Due("dec", "post"),
           Due("render", "decPost")' => Due("render", "decPost"),
           Due("render", "post")' => Due("render", "post"),
           Posted("render", "eos")' <=> Posted("render", "eos"),
           \A c \in Comp : Callers(c) <= Callers(c)'
    PROVE  QueueInv'
<1>1. /\ One(Due("dec", "post"))' <= One(Due("dec", "post"))
      /\ One(Due("render", "decPost"))' <= One(Due("render", "decPost"))
      /\ One(Due("render", "post"))' <= One(Due("render", "post"))
      /\ One(Posted("render", "eos"))' = One(Posted("render", "eos"))
      /\ \A condition : One(condition) \in {0, 1}
  BY DEF One
<1>2. /\ One(Due("dec", "post"))' \in {0, 1} /\ One(Due("render", "decPost"))' \in {0, 1}
      /\ One(Due("render", "post"))' \in {0, 1}
  BY DEF One
<1>3. \A c \in Comp : Len(mq[c]) \in Nat /\ Len(mq'[c]) = Len(mq[c])
                      /\ Callers(c) \in Nat /\ Callers(c)' \in Nat
  BY CallersIs DEF ThreadInv, QueueTypes
<1>4. "dec" \in Comp /\ "render" \in Comp
  BY DEF Comp
<1>5. DecodeQueue'
  BY <1>1, <1>2, <1>3, <1>4 DEF QueueInv, DecodeQueue
<1>6. RenderQueue'
  BY <1>1, <1>2, <1>3, <1>4 DEF QueueInv, RenderQueue
<1> QED BY <1>5, <1>6 DEF QueueInv

\* A queue that is unchanged holds as many messages of the callers.
LEMMA CallersQuiet ==
    ASSUME NEW c \in Comp, WaitsSame, QueueSame(c)
    PROVE  Callers(c) <= Callers(c)'
  BY CallersKept DEF WaitsSame, QueueSame

\* A message that a caller waits for leaves the queue.
LEMMA CallersTaken ==
    ASSUME FlowInv, NEW c \in Comp, NEW id \in Messages, NEW new, Handles(c, id, new)
    PROVE  /\ Callers(c) <= Callers(c)' + 1
           /\ id = "continue" \/ (c = "render" /\ id = "eos") => Callers(c) <= Callers(c)'
           /\ \A d \in Comp : d # c => Callers(d) <= Callers(d)'
<1>1. CallerInv /\ WaitsSame /\ \A d \in Comp : d # c => QueueSame(d)
  BY HandlesLeaves DEF FlowInv, CallersSame, WaitsSame
<1>2. \A d \in Comp : d # c => Callers(d) <= Callers(d)'
  BY <1>1, CallersQuiet
<1>3. \A t \in Caller, jd \in Command :
         /\ Waits(t, c, jd)' <=> Waits(t, c, jd)
         /\ Posted(c, jd)' <=> Posted(c, jd) /\ jd # id
  BY <1>1 DEF Handles, WaitsSame
<1>4. \A t \in Caller : Posting(t, c) \in {0, 1} /\ Posting(t, c)' \in {0, 1}
  BY PostingIs
<1>5. ASSUME NEW t \in Caller, ~ (id \in Command /\ Waits(t, c, id))
      PROVE  Posting(t, c) <= Posting(t, c)'
  <2>1. \A jd \in Command : Waits(t, c, jd) /\ Posted(c, jd) =>
                              Waits(t, c, jd)' /\ Posted(c, jd)'
    BY <1>3, <1>5
  <2> QED BY <1>4, <2>1, PostingIs
<1>6. id \in Command => ~ (Waits("xplayer", c, id) /\ Waits("demux", c, id))
  BY <1>1, OneWaiter DEF Left
<1>7. id = "continue" \/ (c = "render" /\ id = "eos") =>
        \A t \in Caller : ~ (id \in Command /\ Waits(t, c, id))
  <2>1. "continue" \notin Command /\ "eos" \in Command
    BY DEF Command
  <2>2. \A t \in Caller : ~ Waits(t, "render", "eos")
    BY <1>1, <2>1, WhoseCommand DEF Comp, PlayerIds, ResetIds, Caller, Left
  <2> QED BY <2>1, <2>2
<1> HIDE DEF Callers
<1>8. "xplayer" \in Caller /\ "demux" \in Caller
  BY DEF Caller
<1>9. /\ Posting("xplayer", c) <= Posting("xplayer", c)'
         \/ Posting("demux", c) <= Posting("demux", c)'
  BY <1>5, <1>6, <1>8
<1>10. Callers(c) <= Callers(c)' + 1
  BY <1>4, <1>8, <1>9, CallersIs
<1>11. id = "continue" \/ (c = "render" /\ id = "eos") => Callers(c) <= Callers(c)'
  BY <1>4, <1>5, <1>7, <1>8, CallersIs
<1> QED BY <1>2, <1>10, <1>11

\* A message that is taken makes room, ...
LEMMA TakesQueue == FlowInv /\ (DecTakes \/ RenderTakes) => QueueInv'
<1> SUFFICES ASSUME FlowInv, DecTakes \/ RenderTakes PROVE QueueInv'
  OBVIOUS
<1>1. /\ QueueInv /\ ThreadInv /\ "dec" \in Comp /\ "render" \in Comp
      /\ (\A c \in Comp : c = "dec" \/ c = "render")
      /\ {"post", "decPost"} \subseteq StepNames /\ "eos" \in Command
  BY DEF FlowInv, Comp, StepNames, Command
<1>2. PICK c, id, new :
        c \in Comp /\ id \in Messages /\ Handles(c, id, new) /\ "post" \notin new /\ "decPost" \notin new
  BY <1>1, DecHandles, RenderHandles
<1>3. \A d \in Comp : d # c => ThreadSame(d) /\ QueueSame(d)
  BY <1>2, HandlesLeaves
<1>4. /\ Due("dec", "post")' => Due("dec", "post")
      /\ Due("render", "decPost")' => Due("render", "decPost")
      /\ Due("render", "post")' => Due("render", "post")
  BY <1>1, <1>2, <1>3 DEF Handles, ThreadSame
<1>5. /\ One(Due("dec", "post"))' <= One(Due("dec", "post"))
      /\ One(Due("render", "decPost"))' <= One(Due("render", "decPost"))
      /\ One(Due("render", "post"))' <= One(Due("render", "post"))
      /\ One(Due("dec", "post"))' \in {0, 1} /\ One(Due("render", "decPost"))' \in {0, 1}
      /\ One(Due("render", "post"))' \in {0, 1} /\ One(Due("dec", "post")) \in {0, 1}
      /\ One(Due("render", "decPost")) \in {0, 1} /\ One(Due("render", "post")) \in {0, 1}
      /\ One(Posted("render", "eos")) \in {0, 1} /\ One(Posted("render", "eos"))' \in {0, 1}
  BY <1>4 DEF One
<1>6. \A d \in Comp : /\ Len(mq[d]) \in Nat
                      /\ Len(mq'[d]) = IF d = c THEN Len(mq[d]) - 1 ELSE Len(mq[d])
  BY <1>1, <1>2 DEF Handles, ThreadInv, QueueTypes
<1>7. \A d \in Comp : /\ Callers(d) \in Nat /\ Callers(d)' \in Nat
                      /\ Callers(d) <= Callers(d)' + (IF d = c THEN 1 ELSE 0)
  BY <1>2, CallersTaken, CallersIs
<1>8. c = "render" /\ id = "eos" => Callers("render") <= Callers("render")'
  BY <1>1, <1>2, CallersTaken
<1>9. \/ One(Posted("render", "eos"))' = One(Posted("render", "eos"))
      \/ c = "render" /\ id = "eos"
  BY <1>1, <1>2, <1>3 DEF Handles, QueueSame, One
<1>10. DecodeQueue'
  <2>1. /\ Len(mq["dec"]) \in Nat
        /\ Len(mq'["dec"]) = IF c = "dec" THEN Len(mq["dec"]) - 1 ELSE Len(mq["dec"])
        /\ Callers("dec") \in Nat /\ Callers("dec")' \in Nat
        /\ Callers("dec") <= Callers("dec")' + (IF c = "dec" THEN 1 ELSE 0)
    BY <1>1, <1>6, <1>7
  <2>2. DecodeQueue
    BY <1>1 DEF QueueInv
  <2> QED BY <1>5, <2>1, <2>2 DEF DecodeQueue
<1>11. RenderQueue'
  <2>1. /\ Len(mq["render"]) \in Nat
        /\ Len(mq'["render"]) = IF c = "render" THEN Len(mq["render"]) - 1
                                               ELSE Len(mq["render"])
        /\ Callers("render") \in Nat /\ Callers("render")' \in Nat
        /\ Callers("render") <= Callers("render")' + (IF c = "render" THEN 1 ELSE 0)
    BY <1>1, <1>6, <1>7
  <2>2. RenderQueue
    BY <1>1 DEF QueueInv
  <2>3. CASE One(Posted("render", "eos"))' = One(Posted("render", "eos"))
    BY <1>5, <2>1, <2>2, <2>3 DEF RenderQueue
  <2>4. CASE c = "render" /\ id = "eos"
    BY <1>5, <1>8, <2>1, <2>2, <2>4 DEF RenderQueue
  <2> QED BY <1>9, <2>3, <2>4
<1> QED BY <1>10, <1>11 DEF QueueInv

\* A message is put into a queue by the thread of c.
LEMMA PostsOne ==
    ASSUME ThreadInv, ThreadInv', NEW c \in Comp, NEW id, Posts(c, id)
    PROVE  \A d \in Comp : /\ Len(mq[d]) \in Nat
                           /\ Len(mq'[d]) = IF d = c THEN Len(mq[d]) + 1 ELSE Len(mq[d])
  BY DEF Posts, QueueSame, ThreadInv, QueueTypes

\* A thread's message leaves those of the callers in the queues.
LEMMA PostsCallers ==
    ASSUME NEW c \in Comp, NEW id, Posts(c, id), WaitsSame
    PROVE  \A d \in Comp : Callers(d) <= Callers(d)'
<1>1. \A d \in Comp, jd \in Command : Posted(d, jd) => Posted(d, jd)'
  BY DEF Posts, QueueSame
<1> QED BY <1>1, CallersKept DEF WaitsSame

\* A thread that works has a post due only to a queue that it found empty.
LEMMA WorksQueue == FlowInv /\ ThreadInv' /\ (DecWorks \/ RenderWorks) => QueueInv'
<1> SUFFICES ASSUME FlowInv, ThreadInv', DecWorks \/ RenderWorks PROVE QueueInv'
  OBVIOUS
<1>1. /\ QueueInv /\ ThreadInv /\ "dec" \in Comp /\ "render" \in Comp
      /\ (\A c \in Comp : c = "dec" \/ c = "render")
      /\ {"post", "decPost"} \subseteq StepNames /\ "eos" \in Command
      /\ {"post", "decPost"} \subseteq FirstOnly
  BY DEF FlowInv, Comp, StepNames, Command, FirstOnly
<1>2. ASSUME NEW c \in Comp, NEW name, NEW new, Goes(c, name, new)
      PROVE  /\ \A n \in {"post", "decPost"} : Due(c, n)' <=> n \in new
             /\ \A d \in Comp : d # c => ThreadSame(d)
             /\ \A d \in Comp : mq'[d] = mq[d] /\ Callers(d) <= Callers(d)'
             /\ Posted("render", "eos")' <=> Posted("render", "eos")
  <2>1. WaitsSame /\ \A d \in Comp : QueueSame(d)
    BY <1>2 DEF Goes, CallersSame, WaitsSame
  <2> QED BY <1>1, <1>2, <2>1, CallersQuiet DEF Goes, Moves, QueueSame
<1>3. \A d \in Comp : /\ Len(mq[d]) \in Nat
                      /\ Callers(d) \in Nat /\ Callers(d)' \in Nat
  BY <1>1, CallersIs DEF ThreadInv, QueueTypes
<1>4. ASSUME NEW c \in Comp, NEW name, NEW new, Goes(c, name, new),
             "post" \notin new, "decPost" \notin new
      PROVE  QueueInv'
  <2>1. /\ Due("dec", "post")' => Due("dec", "post")
        /\ Due("render", "decPost")' => Due("render", "decPost")
        /\ Due("render", "post")' => Due("render", "post")
    BY <1>1, <1>2, <1>4 DEF ThreadSame
  <2> QED BY <1>1, <1>2, <1>4, <2>1, QueueKept
<1>5. ASSUME NEW c \in Comp, BaseCompContinue(c) PROVE QueueInv'
  <2>1. Goes(c, "continue", IF mq[c] = << >> THEN {"post"} ELSE {})
    BY <1>1, <1>5, BaseContinueIs
  <2>2. CASE mq[c] # << >>
    BY <1>4, <2>1, <2>2
  <2>3. CASE mq[c] = << >>
    <3>1. Goes(c, "continue", {"post"})
      BY <2>1, <2>3
    <3>2. /\ \A d \in Comp : mq'[d] = mq[d] /\ Callers(d) <= Callers(d)'
          /\ Len(mq'[c]) = 0 /\ ThreadSame(IF c = "dec" THEN "render" ELSE "dec")
          /\ Posted("render", "eos")' <=> Posted("render", "eos")
          /\ ~ Due(c, "decPost")'
      BY <1>1, <1>2, <2>3, <3>1
    <3>3. CASE c = "dec"
      <4>1. /\ Due("render", "decPost")' <=> Due("render", "decPost")
            /\ Due("render", "post")' <=> Due("render", "post")
        BY <1>1, <3>2, <3>3 DEF ThreadSame
      <4>2. DecodeQueue'
        <5>1. One(Due("dec", "post"))' \in {0, 1} /\ One(Due("render", "decPost"))' \in {0, 1}
          BY DEF One
        <5> QED BY <1>1, <1>3, <3>2, <3>3, <5>1 DEF DecodeQueue
      <4>3. RenderQueue'
        <5>1. /\ One(Due("render", "post"))' = One(Due("render", "post"))
              /\ One(Posted("render", "eos"))' = One(Posted("render", "eos"))
              /\ One(Due("render", "post")) \in {0, 1} /\ One(Posted("render", "eos")) \in {0, 1}
          BY <3>2, <4>1 DEF One
        <5> QED BY <1>1, <1>3, <3>2, <5>1 DEF RenderQueue, QueueInv
      <4> QED BY <4>2, <4>3 DEF QueueInv
    <3>4. CASE c = "render"
      <4>1. Due("dec", "post")' <=> Due("dec", "post")
        BY <1>1, <3>2, <3>4 DEF ThreadSame
      <4>2. DecodeQueue'
        <5>1. /\ One(Due("dec", "post"))' = One(Due("dec", "post"))
              /\ One(Due("render", "decPost"))' = 0
              /\ One(Due("dec", "post")) \in {0, 1} /\ One(Due("render", "decPost")) \in {0, 1}
          BY <3>2, <3>4, <4>1 DEF One
        <5> QED BY <1>1, <1>3, <3>2, <5>1 DEF DecodeQueue, QueueInv
      <4>3. RenderQueue'
        <5>1. One(Due("render", "post"))' \in {0, 1} /\ One(Posted("render", "eos"))' \in {0, 1}
          BY DEF One
        <5> QED BY <1>1, <1>3, <3>2, <3>4, <5>1 DEF RenderQueue
      <4> QED BY <4>2, <4>3 DEF QueueInv
    <3> QED BY <1>1, <3>3, <3>4
  <2> QED BY <2>2, <2>3
<1>6. CASE ContinueDecoder
  <2>1. Goes("render", "decContinue", IF mq["dec"] = << >> THEN {"decPost"} ELSE {})
    BY <1>1, <1>6, ContinueDecoderIs
  <2>2. CASE mq["dec"] # << >>
    BY <1>1, <1>4, <2>1, <2>2
  <2>3. CASE mq["dec"] = << >>
    <3>1. Goes("render", "decContinue", {"decPost"})
      BY <2>1, <2>3
    <3>2. /\ \A d \in Comp : mq'[d] = mq[d] /\ Callers(d) <= Callers(d)'
          /\ Len(mq'["dec"]) = 0
          /\ Posted("render", "eos")' <=> Posted("render", "eos")
          /\ ~ Due("render", "post")'
      BY <1>1, <1>2, <2>3, <3>1
    <3>3. DecodeQueue'
      <4>1. One(Due("dec", "post"))' \in {0, 1} /\ One(Due("render", "decPost"))' \in {0, 1}
        BY DEF One
      <4> QED BY <1>1, <1>3, <3>2, <4>1 DEF DecodeQueue
    <3>4. RenderQueue'
      <4>1. /\ One(Due("render", "post"))' = 0
            /\ One(Posted("render", "eos"))' = One(Posted("render", "eos"))
            /\ One(Due("render", "post")) \in {0, 1} /\ One(Posted("render", "eos")) \in {0, 1}
        BY <3>2 DEF One
      <4> QED BY <1>1, <1>3, <3>2, <4>1 DEF RenderQueue, QueueInv
    <3> QED BY <3>3, <3>4 DEF QueueInv
  <2> QED BY <2>2, <2>3
<1>7. CASE DoDecode
  <2>1. \E new \in {{"decode"}, {}} : Goes("dec", "doDecode", new)
    BY <1>1, <1>7, DoDecodeIs
  <2> QED BY <1>1, <1>4, <2>1
<1>8. CASE DecodeVideoStream
  <2>1. \E new \in {{}, {"continue"}, {"notifyEos"}} : Goes("dec", "decode", new)
    BY <1>1, <1>8, DecodeIs
  <2> QED BY <1>1, <1>4, <2>1
<1>9. CASE ResetVideoDecoder
  BY <1>1, <1>4, <1>9, ResetDecoderIs
<1>10. CASE PictureComes
  <2>1. \E new \in {{}, {"continue"}} : Goes("render", "picture", new)
    BY <1>1, <1>10, PictureIs
  <2> QED BY <1>1, <1>4, <2>1
<1>11. CASE NoPictureComes
  <2>1. \E new \in {{}, {"reopen", "decContinue", "continue"}} : Goes("render", "picture", new)
    BY <1>1, <1>11, NoPictureIs
  <2> QED BY <1>1, <1>4, <2>1
<1>12. CASE ReopenVideoEngine
  BY <1>1, <1>4, <1>12, ReopenIs
<1> QED BY <1>1, <1>5, <1>6, <1>7, <1>8, <1>9, <1>10, <1>11, <1>12 DEF DecWorks, RenderWorks

\* No queue is longer than what its callers and threads can have posted.
LEMMA QueueNext == FlowInv /\ [Next]_vars => QueueInv'
<1> SUFFICES ASSUME FlowInv, [Next]_vars PROVE QueueInv'
  OBVIOUS
<1>1. /\ CallerInv /\ QueueInv /\ ThreadInv /\ Protocol /\ "dec" \in Comp /\ "render" \in Comp
      /\ (\A c \in Comp : c = "dec" \/ c = "render")
      /\ {"post", "decPost"} \subseteq StepNames /\ "eos" \in Command
      /\ {"post", "decPost"} \subseteq FirstOnly
  BY DEF FlowInv, Comp, StepNames, Command, FirstOnly
<1>2. ThreadInv'
  BY ThreadNext
<1>3. \A d \in Comp : /\ Len(mq[d]) \in Nat
                      /\ Callers(d) \in Nat /\ Callers(d)' \in Nat
  BY <1>1, CallersIs DEF ThreadInv, QueueTypes
<1>4. CallersSame => WaitsSame
  BY DEF CallersSame, WaitsSame
<1>5. /\ One(Due("dec", "post")) \in {0, 1} /\ One(Due("dec", "post"))' \in {0, 1}
      /\ One(Due("render", "decPost")) \in {0, 1} /\ One(Due("render", "decPost"))' \in {0, 1}
      /\ One(Due("render", "post")) \in {0, 1} /\ One(Due("render", "post"))' \in {0, 1}
      /\ One(Posted("render", "eos")) \in {0, 1} /\ One(Posted("render", "eos"))' \in {0, 1}
      /\ Due("dec", "post") => One(Due("dec", "post")) = 1
      /\ Due("render", "decPost") => One(Due("render", "decPost")) = 1
      /\ Due("render", "post") => One(Due("render", "post")) = 1
      /\ ~ Due("dec", "post")' => One(Due("dec", "post"))' = 0
      /\ ~ Due("render", "decPost")' => One(Due("render", "decPost"))' = 0
      /\ ~ Due("render", "post")' => One(Due("render", "post"))' = 0
      /\ (Due("dec", "post")' => Due("dec", "post"))
            => One(Due("dec", "post"))' <= One(Due("dec", "post"))
      /\ (Due("render", "decPost")' => Due("render", "decPost"))
            => One(Due("render", "decPost"))' <= One(Due("render", "decPost"))
      /\ (Due("render", "post")' => Due("render", "post"))
            => One(Due("render", "post"))' <= One(Due("render", "post"))
      /\ (Posted("render", "eos")' <=> Posted("render", "eos"))
            => One(Posted("render", "eos"))' = One(Posted("render", "eos"))
      /\ Posted("render", "eos")' /\ ~ Posted("render", "eos")
            => One(Posted("render", "eos"))' = One(Posted("render", "eos")) + 1
      /\ (Posted("render", "eos") => Posted("render", "eos")')
            => One(Posted("render", "eos")) <= One(Posted("render", "eos"))'
  BY DEF One
<1>6. ASSUME \A c \in Comp : ThreadSame(c) /\ QueueSame(c), WaitsSame PROVE QueueInv'
  <2>1. \A c \in Comp : mq'[c] = mq[c] /\ Callers(c) <= Callers(c)'
    BY <1>6, CallersQuiet DEF QueueSame
  <2>2. /\ Due("dec", "post")' => Due("dec", "post")
        /\ Due("render", "decPost")' => Due("render", "decPost")
        /\ Due("render", "post")' => Due("render", "post")
        /\ Posted("render", "eos")' <=> Posted("render", "eos")
    BY <1>1, <1>6 DEF ThreadSame, QueueSame
  <2> QED BY <1>1, <2>1, <2>2, QueueKept
<1>7. CASE UNCHANGED vars \/ ChangeDemux
  <2>1. CompSame /\ CallersSame
    BY <1>1, <1>7, CompLeft, LeftAlone, ChangeDemuxIs DEF vars
  <2> QED BY <1>4, <1>6, <2>1 DEF CompSame
<1>8. CASE Begins
  <2>1. CompSame /\ WaitsSame
    BY <1>1, <1>8, PlayerStartIs, PlayerPauseIs, PlayerStopIs, PlayerResetIs, PlayerSetEosIs
       DEF Begins, WaitsSame
  <2> QED BY <1>6, <2>1 DEF CompSame
<1>9. ASSUME NEW t \in Caller, JoinThread(t) \/ ChangeStatus(t) PROVE QueueInv'
  <2>1. CompSame /\ WaitsSame
    BY <1>1, <1>9, JoinThreadIs, ChangeStatusIs DEF WaitsSame
  <2> QED BY <1>6, <2>1 DEF CompSame
<1>10. ASSUME NEW c \in Comp, NEW name, NEW new, Moves(c, name, new),
              "post" \notin new, "decPost" \notin new
       PROVE  /\ Due("dec", "post")' => Due("dec", "post") /\ c # "dec"
              /\ Due("render", "decPost")' => Due("render", "decPost") /\ c # "render"
              /\ Due("render", "post")' => Due("render", "post") /\ c # "render"
  <2>1. \A d \in Comp : d # c => ThreadSame(d)
    BY <1>10, MovesLeaves
  <2> QED BY <1>1, <1>10, <2>1 DEF Moves, ThreadSame
<1>11. ASSUME NEW c \in Comp, SendReply(c) PROVE QueueInv'
  <2>1. /\ Moves(c, "reply", {}) /\ WaitsSame
        /\ \A d \in Comp : QueueSame(d)
    BY <1>1, <1>4, <1>11, SendReplyIs DEF Replies
  <2>2. \A d \in Comp : mq'[d] = mq[d] /\ Callers(d) <= Callers(d)'
    BY <2>1, CallersQuiet DEF QueueSame
  <2>3. Posted("render", "eos")' <=> Posted("render", "eos")
    BY <1>1, <2>1 DEF QueueSame
  <2> QED BY <1>1, <1>10, <2>1, <2>2, <2>3, QueueKept
<1>12. CASE AwaitEos
  <2>1. /\ Moves("dec", "awaitEos", {}) /\ WaitsSame
        /\ \A d \in Comp : QueueSame(d)
    BY <1>1, <1>4, <1>12, AwaitEosIs
  <2>2. \A d \in Comp : mq'[d] = mq[d] /\ Callers(d) <= Callers(d)'
    BY <2>1, CallersQuiet DEF QueueSame
  <2>3. Posted("render", "eos")' <=> Posted("render", "eos")
    BY <1>1, <2>1 DEF QueueSame
  <2> QED BY <1>1, <1>10, <2>1, <2>2, <2>3, QueueKept
<1>13. CASE PostContinue("dec")
  <2>1. Moves("dec", "post", {}) /\ Posts("dec", "continue") /\ WaitsSame
    BY <1>1, <1>4, <1>13, PostContinueIs
  <2>2. /\ Due("dec", "post") /\ ~ Due("dec", "post")'
        /\ Due("render", "decPost")' => Due("render", "decPost")
        /\ Due("render", "post")' => Due("render", "post")
    <3>1. Due("dec", "post") /\ ~ Due("dec", "post")'
      BY <1>1, <2>1 DEF Moves
    <3> QED BY <1>1, <1>10, <2>1, <3>1
  <2>3. /\ Len(mq'["dec"]) = Len(mq["dec"]) + 1 /\ Len(mq'["render"]) = Len(mq["render"])
        /\ Callers("dec") <= Callers("dec")' /\ Callers("render") <= Callers("render")'
        /\ Len(mq["dec"]) \in Nat /\ Len(mq["render"]) \in Nat
    BY <1>1, <1>2, <2>1, PostsOne, PostsCallers
  <2>4. Posted("render", "eos")' <=> Posted("render", "eos")
    BY <1>1, <2>1 DEF Posts, QueueSame
  <2>5. DecodeQueue'
    BY <1>1, <1>3, <1>5, <2>2, <2>3 DEF QueueInv, DecodeQueue
  <2>6. RenderQueue'
    BY <1>1, <1>3, <1>5, <2>2, <2>3, <2>4 DEF QueueInv, RenderQueue
  <2> QED BY <2>5, <2>6 DEF QueueInv
<1>14. CASE PostContinue("render")
  <2>1. Moves("render", "post", {}) /\ Posts("render", "continue") /\ WaitsSame
    BY <1>1, <1>4, <1>14, PostContinueIs
  <2>2. /\ Due("render", "post") /\ ~ Due("render", "post")'
        /\ Due("render", "decPost")' => Due("render", "decPost")
        /\ Due("dec", "post")' => Due("dec", "post")
    <3>1. Due("render", "post") /\ ~ Due("render", "post")'
      BY <1>1, <2>1 DEF Moves
    <3> QED BY <1>1, <1>10, <2>1, <3>1
  <2>3. /\ Len(mq'["render"]) = Len(mq["render"]) + 1 /\ Len(mq'["dec"]) = Len(mq["dec"])
        /\ Callers("dec") <= Callers("dec")' /\ Callers("render") <= Callers("render")'
        /\ Len(mq["dec"]) \in Nat /\ Len(mq["render"]) \in Nat
    BY <1>1, <1>2, <2>1, PostsOne, PostsCallers
  <2>4. Posted("render", "eos")' <=> Posted("render", "eos")
    BY <1>1, <2>1 DEF Posts, QueueSame
  <2>5. DecodeQueue'
    BY <1>1, <1>3, <1>5, <2>2, <2>3 DEF QueueInv, DecodeQueue
  <2>6. RenderQueue'
    BY <1>1, <1>3, <1>5, <2>2, <2>3, <2>4 DEF QueueInv, RenderQueue
  <2> QED BY <2>5, <2>6 DEF QueueInv
<1>15. CASE PostToDecoder
  <2>1. Moves("render", "decPost", {}) /\ Posts("dec", "continue") /\ WaitsSame
    BY <1>1, <1>4, <1>15, PostToDecoderIs
  <2>2. /\ Due("render", "decPost") /\ ~ Due("render", "decPost")'
        /\ Due("dec", "post")' => Due("dec", "post")
        /\ Due("render", "post")' => Due("render", "post")
    <3>1. Due("render", "decPost") /\ ~ Due("render", "decPost")'
      BY <1>1, <2>1 DEF Moves
    <3> QED BY <1>1, <1>10, <2>1, <3>1
  <2>3. /\ Len(mq'["dec"]) = Len(mq["dec"]) + 1 /\ Len(mq'["render"]) = Len(mq["render"])
        /\ Callers("dec") <= Callers("dec")' /\ Callers("render") <= Callers("render")'
        /\ Len(mq["dec"]) \in Nat /\ Len(mq["render"]) \in Nat
    BY <1>1, <1>2, <2>1, PostsOne, PostsCallers
  <2>4. Posted("render", "eos")' <=> Posted("render", "eos")
    BY <1>1, <2>1 DEF Posts, QueueSame
  <2>5. DecodeQueue'
    BY <1>1, <1>3, <1>5, <2>2, <2>3 DEF QueueInv, DecodeQueue
  <2>6. RenderQueue'
    BY <1>1, <1>3, <1>5, <2>2, <2>3, <2>4 DEF QueueInv, RenderQueue
  <2> QED BY <2>5, <2>6 DEF QueueInv
<1>16. CASE NotifyEos
  <2>1. CASE Goes("dec", "notifyEos", {})
    <3>1. /\ Moves("dec", "notifyEos", {}) /\ WaitsSame
          /\ \A d \in Comp : QueueSame(d)
      BY <1>4, <2>1 DEF Goes
    <3>2. \A d \in Comp : mq'[d] = mq[d] /\ Callers(d) <= Callers(d)'
      BY <3>1, CallersQuiet DEF QueueSame
    <3>3. Posted("render", "eos")' <=> Posted("render", "eos")
      BY <1>1, <3>1 DEF QueueSame
    <3> QED BY <1>1, <1>10, <3>1, <3>2, <3>3, QueueKept
  <2>2. CASE /\ Moves("dec", "notifyEos", {"awaitEos"}) /\ Posts("render", "eos")
             /\ ~ Waiter("render", "eos") /\ CallersSame
    <3>1. /\ Due("dec", "post")' => Due("dec", "post")
          /\ Due("render", "decPost")' => Due("render", "decPost")
          /\ Due("render", "post")' => Due("render", "post")
      BY <1>1, <1>10, <2>2
    <3>2. /\ Len(mq'["render"]) = Len(mq["render"]) + 1 /\ Len(mq'["dec"]) = Len(mq["dec"])
          /\ Callers("dec") <= Callers("dec")' /\ Callers("render") <= Callers("render")'
          /\ Len(mq["dec"]) \in Nat /\ Len(mq["render"]) \in Nat
      BY <1>1, <1>2, <1>4, <2>2, PostsOne, PostsCallers
    <3>3. Posted("render", "eos")' /\ ~ Posted("render", "eos")
      BY <1>1, <2>2 DEF Posts, Protocol
    <3>4. DecodeQueue'
      BY <1>1, <1>3, <1>5, <3>1, <3>2 DEF QueueInv, DecodeQueue
    <3>5. RenderQueue'
      BY <1>1, <1>3, <1>5, <3>1, <3>2, <3>3 DEF QueueInv, RenderQueue
    <3> QED BY <3>4, <3>5 DEF QueueInv
  <2> QED BY <1>1, <1>16, <2>1, <2>2, NotifyEosIs
<1>17. CASE PlayerInitialVideo
  <2>1. \A c \in Comp : /\ \A n \in StepNames : ~ Due(c, n)'
                        /\ Len(mq'[c]) = 0
    BY <1>17, InitialVideoIs
  <2>2. DecodeQueue'
    BY <1>1, <1>3, <1>5, <2>1 DEF DecodeQueue
  <2>3. RenderQueue'
    BY <1>1, <1>3, <1>5, <2>1 DEF RenderQueue
  <2> QED BY <2>2, <2>3 DEF QueueInv
<1>18. ASSUME NEW t \in Caller, WaitReply(t) PROVE QueueInv'
  <2>1. PICK c \in Comp, id \in Command :
             /\ Waits(t, c, id) /\ Answered(c, id)
             /\ \A d \in Comp : ThreadSame(d) /\ QueueSame(d)
             /\ \A u \in Caller, d \in Comp, jd \in Command :
                  /\ Waits(u, d, jd)' <=> Waits(u, d, jd) /\ u # t
                  /\ Waits(t, d, jd) => d = c /\ jd = id
    BY <1>1, <1>18, WaitReplyIs
  <2>2. ~ Posted(c, id)
    BY <1>1, <2>1 DEF Protocol
  <2>3. \A d \in Comp, u \in Caller, jd \in Command :
          Waits(u, d, jd) /\ Posted(d, jd) => Waits(u, d, jd)' /\ Posted(d, jd)'
    BY <2>1, <2>2 DEF QueueSame
  <2>4. \A d \in Comp : mq'[d] = mq[d] /\ Callers(d) <= Callers(d)'
    BY <2>1, <2>3, CallersKept DEF QueueSame
  <2>5. /\ Due("dec", "post")' => Due("dec", "post")
        /\ Due("render", "decPost")' => Due("render", "decPost")
        /\ Due("render", "post")' => Due("render", "post")
        /\ Posted("render", "eos")' <=> Posted("render", "eos")
    BY <1>1, <2>1 DEF ThreadSame, QueueSame
  <2> QED BY <1>1, <2>4, <2>5, QueueKept
<1>19. ASSUME NEW t \in Caller, PostCommand(t) PROVE QueueInv'
  <2>1. PICK c \in Comp, id \in Command :
             /\ ~ Waiter(c, id) /\ Posts(c, id)
             /\ \A d \in Comp : ThreadSame(d)
             /\ \A u \in Caller, d \in Comp, jd \in Command :
                  /\ Waits(u, d, jd)' <=> Waits(u, d, jd) \/ (u = t /\ d = c /\ jd = id)
                  /\ ~ Waits(t, d, jd)
    BY <1>1, <1>19, PostCommandIs
  <2>2. \A d \in Comp, jd \in Command : Posted(d, jd) => Posted(d, jd)'
    BY <2>1 DEF Posts, QueueSame
  <2>3. \A d \in Comp : Callers(d) <= Callers(d)'
    BY <2>1, <2>2, CallersKept
  <2>4. Callers(c) + 1 <= Callers(c)'
    <3>1. Waits(t, c, id)' /\ Posted(c, id)'
      BY <2>1 DEF Posts
    <3>2. Posting(t, c)' = 1 /\ Posting(t, c) = 0
      BY <2>1, <3>1, PostingIs
    <3>3. \A u \in Caller : Posting(u, c) <= Posting(u, c)'
      BY <2>1, <2>2, PostingIs
    <3>4. \A u \in Caller : Posting(u, c) \in {0, 1} /\ Posting(u, c)' \in {0, 1}
      BY PostingIs
    <3> QED BY <3>2, <3>3, <3>4, CallersIs DEF Caller
  <2>5. \A d \in Comp : /\ Len(mq[d]) \in Nat
                        /\ Len(mq'[d]) = IF d = c THEN Len(mq[d]) + 1 ELSE Len(mq[d])
    BY <1>1, <1>2, <2>1, PostsOne
  <2>6. /\ Due("dec", "post")' => Due("dec", "post")
        /\ Due("render", "decPost")' => Due("render", "decPost")
        /\ Due("render", "post")' => Due("render", "post")
        /\ Posted("render", "eos") => Posted("render", "eos")'
    BY <1>1, <2>1, <2>2 DEF ThreadSame
  <2>7. ASSUME NEW d \in Comp
        PROVE  /\ Len(mq[d]) \in Nat /\ Len(mq'[d]) \in Nat
               /\ Callers(d) \in Nat /\ Callers(d)' \in Nat
               /\ Len(mq'[d]) + Callers(d) <= Len(mq[d]) + Callers(d)'
    <3>1. CASE d = c
      BY <1>3, <2>4, <2>5, <3>1
    <3>2. CASE d # c
      BY <1>3, <2>3, <2>5, <3>2
    <3> QED BY <3>1, <3>2
  <2>8. DecodeQueue'
    <3>1. /\ One(Due("dec", "post"))' <= One(Due("dec", "post"))
          /\ One(Due("render", "decPost"))' <= One(Due("render", "decPost"))
      BY <1>5, <2>6
    <3>2. /\ Len(mq["dec"]) \in Nat /\ Len(mq'["dec"]) \in Nat
          /\ Callers("dec") \in Nat /\ Callers("dec")' \in Nat
          /\ Len(mq'["dec"]) + Callers("dec") <= Len(mq["dec"]) + Callers("dec")'
      BY <1>1, <2>7
    <3>3. DecodeQueue
      BY <1>1 DEF QueueInv
    <3>4. /\ One(Due("dec", "post")) \in {0, 1} /\ One(Due("dec", "post"))' \in {0, 1}
          /\ One(Due("render", "decPost")) \in {0, 1}
          /\ One(Due("render", "decPost"))' \in {0, 1}
      BY <1>5
    <3> QED BY <3>1, <3>2, <3>3, <3>4, SMTT(60) DEF DecodeQueue
  <2>9. RenderQueue'
    <3>1. /\ One(Due("render", "post"))' <= One(Due("render", "post"))
          /\ One(Posted("render", "eos")) <= One(Posted("render", "eos"))'
      BY <1>5, <2>6
    <3>2. /\ Len(mq["render"]) \in Nat /\ Len(mq'["render"]) \in Nat
          /\ Callers("render") \in Nat /\ Callers("render")' \in Nat
          /\ Len(mq'["render"]) + Callers("render") <= Len(mq["render"]) + Callers("render")'
      BY <1>1, <2>7
    <3>3. RenderQueue
      BY <1>1 DEF QueueInv
    <3>4. /\ One(Due("render", "post")) \in {0, 1} /\ One(Due("render", "post"))' \in {0, 1}
          /\ One(Posted("render", "eos")) \in {0, 1}
          /\ One(Posted("render", "eos"))' \in {0, 1}
      BY <1>5
    <3> QED BY SMTT(60), <3>1, <3>2, <3>3, <3>4 DEF RenderQueue
  <2> QED BY <2>8, <2>9 DEF QueueInv
<1> QED BY <1>1, <1>2, <1>7, <1>8, <1>9, <1>11, <1>12, <1>13, <1>14, <1>15, <1>16, <1>17,
           <1>18, <1>19, TakesQueue, WorksQueue, NextIs

-----------------------------------------------------------------------------
(* The theorems.                                                            *)

\* At first nothing is to be done, posted or answered.
LEMMA NothingAtFirst ==
    ASSUME Init
    PROVE  /\ \A t \in Caller, c \in Comp, id \in Command :
                ~ Calls(t, c, id) /\ ~ Waits(t, c, id)
           /\ \A x : ~ Has("xplayer", x)
           /\ \A c \in Comp : /\ \A x : x \notin Elements(todo[c])
                              /\ \A id \in Command : ~ Posted(c, id) /\ ~ Answered(c, id)
                              /\ Len(mq[c]) = 0 /\ status[c] = "STOPPED"
                              /\ bEosFlag[c] = FALSE
           /\ eStatus = "STOPPED" /\ Callers("dec") \in Nat /\ Callers("render") \in Nat
           /\ "dec" \in Comp /\ "render" \in Comp /\ "xplayer" \in Caller /\ "demux" \in Caller
<1>1. /\ "dec" \in Comp /\ "render" \in Comp /\ "xplayer" \in Caller /\ "demux" \in Caller
      /\ eStatus = "STOPPED"
  BY DEF Init, Comp, Caller
<1>2. \A t \in Caller : \A x : ~ Has(t, x)
  BY DEF Init, Has, Elements
<1>3. \A c \in Comp : /\ \A x : x \notin Elements(todo[c])
                      /\ \A id \in Command : ~ Posted(c, id) /\ ~ Answered(c, id)
                      /\ Len(mq[c]) = 0 /\ status[c] = "STOPPED"
                      /\ bEosFlag[c] = FALSE
  BY DEF Init, Posted, Answered, Elements
<1>4. CallerInv
  BY CallerInit
<1> QED BY <1>1, <1>2, <1>3, <1>4, CallersIs DEF Calls, Waits

\* The invariant holds at first, ...
LEMMA FlowInit == Init => FlowInv
<1> SUFFICES ASSUME Init PROVE FlowInv
  OBVIOUS
<1>1. CallerInv
  BY CallerInit
<1>2. ThreadInv
  <2>1. /\ \A c \in Comp : todo[c] = << >> /\ mq[c] = << >>
    BY DEF Init
  <2>2. TodoInv
    <3>1. todo \in [Comp -> Seq(Steps)]
      BY DEF Init
    <3> QED BY <2>1, <3>1 DEF TodoInv, Pairs
  <2>3. QueueTypes
    <3>1. mq \in [Comp -> Seq(Messages)]
      BY DEF Init
    <3> QED BY <2>1, <3>1 DEF QueueTypes, Pairs
  <2>4. ReplyTypes /\ FlagTypes
    BY DEF Init, ReplyTypes, FlagTypes, Statuses
  <2> QED BY <2>2, <2>3, <2>4 DEF ThreadInv
<1>3. Protocol
  BY NothingAtFirst DEF Protocol, Served
<1>4. StatusInv
  BY NothingAtFirst DEF StatusInv, StatusOf, AheadOf, Ahead, Command
<1>5. ExitInv
  BY NothingAtFirst DEF ExitInv, Due
<1>6. EosInv
  <2>1. "eos" \in Command /\ "reset" \in Command /\ "start" \in Command
    BY DEF Command
  <2> QED BY <2>1, NothingAtFirst DEF EosInv, Ends, Due, Served, Ahead
<1>7. LoopInv
  BY NothingAtFirst DEF LoopInv, DecodeLoop, RenderLoop, Due, Works
<1>8. QueueInv
  <2>1. /\ One(Due("dec", "post")) = 0 /\ One(Due("render", "decPost")) = 0
        /\ One(Due("render", "post")) = 0 /\ One(Posted("render", "eos")) \in Nat
    BY NothingAtFirst DEF One, Due
  <2>2. /\ Len(mq["dec"]) = 0 /\ Len(mq["render"]) = 0
        /\ Callers("dec") \in Nat /\ Callers("render") \in Nat
    BY NothingAtFirst
  <2>3. DecodeQueue
    BY <2>1, <2>2 DEF DecodeQueue
  <2>4. RenderQueue
    BY <2>1, <2>2 DEF RenderQueue
  <2> QED BY <2>3, <2>4 DEF QueueInv
<1> QED BY <1>1, <1>2, <1>3, <1>4, <1>5, <1>6, <1>7, <1>8 DEF FlowInv

\* ... and every step keeps it.
LEMMA FlowNext == FlowInv /\ [Next]_vars => FlowInv'
<1>1. FlowInv => CallerInv
  BY DEF FlowInv
<1> QED BY <1>1, CallerNext, ThreadNext, ProtocolNext, StatusNext, ExitNext, EosNext, LoopNext,
           QueueNext DEF FlowInv

\* In every run of the two components and their callers the invariant holds.
THEOREM FlowInvariant == Spec => []FlowInv
<1> QED BY FlowInit, FlowNext, PTL DEF Spec

\* A queue holds its loop's messages, two for the decode thread, those of the
\* two callers, and the end of the stream.
LEMMA FlowFits == FlowInv /\ nMaxMessageNum >= 4 => PostsFit
<1> SUFFICES ASSUME FlowInv, nMaxMessageNum >= 4 PROVE PostsFit
  OBVIOUS
<1>1. /\ CallerInv /\ DecodeQueue /\ RenderQueue /\ nMaxMessageNum \in Nat
      /\ Len(mq["dec"]) \in Nat /\ Len(mq["render"]) \in Nat
  BY QueueSizeAssumption DEF FlowInv, QueueInv, ThreadInv, QueueTypes, Comp
<1>2. \A c \in Comp : Callers(c) \in Nat /\ Callers(c) <= 2
  <2>1. ASSUME NEW c \in Comp PROVE Callers(c) \in Nat /\ Callers(c) <= 2
    <3>1. Posting("xplayer", c) \in {0, 1} /\ Posting("demux", c) \in {0, 1}
      BY DEF Posting, One
    <3> QED BY <3>1 DEF Callers
  <2> QED BY <2>1
<1>3. /\ One(Due("dec", "post")) \in {0, 1} /\ One(Due("render", "decPost")) \in {0, 1}
      /\ One(Due("render", "post")) \in {0, 1} /\ One(Posted("render", "eos")) \in {0, 1}
  BY DEF One
<1>4. "dec" \in Comp /\ "render" \in Comp /\ \A c \in Comp : c = "dec" \/ c = "render"
  BY DEF Comp
<1>5. Len(mq["dec"]) <= 4
  BY <1>1, <1>2, <1>3, <1>4 DEF DecodeQueue
<1>6. Len(mq["render"]) <= 4
  BY <1>1, <1>2, <1>3, <1>4 DEF RenderQueue
<1>7. \A c \in Comp : Len(mq[c]) <= nMaxMessageNum
  BY <1>1, <1>4, <1>5, <1>6
<1> QED BY <1>7 DEF PostsFit

\* A thread without steps to do has none of any name.
LEMMA IdleThread ==
    ASSUME NEW c \in Comp, todo[c] = << >>
    PROVE  \A name : ~ Due(c, name)
  BY DEF Due, Elements

\* The render thread tells the decoder to go on when it has the engine open again.
LEMMA BehindReopen ==
    ASSUME ThreadInv, Due("render", "decContinue")
    PROVE  At("render", "decContinue") \/ At("render", "reopen")
<1>1. /\ todo["render"] \in Seq(Steps) /\ Pairs(TodoOrder, todo["render"])
      /\ todo["render"] # << >>
  BY DEF ThreadInv, TodoInv, Due, Elements, Comp
<1>2. /\ Elements(todo["render"]) =
           {Head(todo["render"])} \union Elements(Tail(todo["render"]))
      /\ \A y \in Elements(Tail(todo["render"])) : << Head(todo["render"]), y >> \in TodoOrder
  BY <1>1, Rest
<1>3. CASE Head(todo["render"]) = Step("decContinue")
  BY <1>1, <1>3 DEF At, Step
<1>4. CASE << Head(todo["render"]), Step("decContinue") >> \in TodoOrder
  BY <1>1, <1>4 DEF At, TodoOrder, Step
<1> QED BY <1>2, <1>3, <1>4 DEF Due

\* The messages that keep the loops going are those that LoopsAlive asks for.
LEMMA FlowLoops == FlowInv /\ EngineInv => LoopsAlive
<1> SUFFICES ASSUME FlowInv, EngineInv PROVE LoopsAlive
  OBVIOUS
<1>1. /\ ThreadInv /\ DecodeLoop /\ RenderLoop /\ "dec" \in Comp /\ "render" \in Comp
  BY DEF FlowInv, LoopInv, Comp
<1>2. ASSUME todo["dec"] = << >>, Works("dec"), ~ bCrashFlag, ~ bResolutionChange,
             ~ bEosFlag["render"]
      PROVE  mq["dec"] # << >> \/ At("render", "decContinue") \/ At("render", "decPost")
  <2>1. mq["dec"] # << >> \/ Due("render", "decContinue") \/ Due("render", "decPost")
    BY <1>1, <1>2, IdleThread DEF DecodeLoop, DecodeGoesOn, Ends
  <2>2. Due("render", "decPost") => At("render", "decPost")
    <3>1. "decPost" \in FirstOnly /\ "decPost" \in StepNames
      BY DEF FirstOnly, StepNames
    <3> QED BY <1>1, <3>1, FirstIsFirst
  <2>3. Due("render", "decContinue") => At("render", "decContinue") \/ At("render", "reopen")
    BY <1>1, BehindReopen
  <2>4. ~ At("render", "reopen")
    BY <1>2 DEF EngineInv
  <2> QED BY <2>1, <2>2, <2>3, <2>4
<1>3. ASSUME todo["render"] = << >>, Works("render"), ~ bEosFlag["render"]
      PROVE  mq["render"] # << >>
  BY <1>1, <1>3, IdleThread DEF RenderLoop, RenderGoesOn
<1> QED BY <1>2, <1>3 DEF LoopsAlive, DecodeLoopAlive, RenderLoopAlive

\* The end of the stream is not stale, and it finds the render component.
LEMMA FlowEos == FlowInv => EosNotStale /\ EosFindsRender
<1> SUFFICES ASSUME FlowInv PROVE EosNotStale /\ EosFindsRender
  OBVIOUS
<1>1. /\ CallerInv /\ EosInv /\ ThreadInv /\ "dec" \in Comp /\ "render" \in Comp
      /\ "reset" \in Command /\ "reset" \in ResetIds /\ "start" \in Command
  BY DEF FlowInv, Comp, Command, ResetIds
<1>2. ASSUME Idle("xplayer"), ~ Resetting, bEosFlag["render"] PROVE bEosFlag["dec"]
  <2>1. ~ Resets
    BY <1>1, <1>2, ResetsResetting
  <2>2. ~ Ahead("demux", "render", "reset")
    BY <1>1, <2>1 DEF Resets, Ahead
  <2>3. ~ Ahead("xplayer", "render", "start")
    BY <1>2 DEF Idle, Ahead, Calls, Waits, Has, Elements
  <2> QED BY <1>1, <1>2, <2>2, <2>3 DEF EosInv
<1>3. ASSUME At("dec", "notifyEos") \/ At("dec", "awaitEos") PROVE Exists("render")
  <2>1. Ends
    <3>1. "notifyEos" \in StepNames /\ "awaitEos" \in StepNames
      BY DEF StepNames
    <3> QED BY <1>1, <1>3, <3>1, FirstIsFirst DEF Ends
  <2>2. status["dec"] # "STOPPED"
    BY <1>1, <2>1 DEF EosInv
  <2>3. ~ Due("render", "exited")
    BY <1>1, <2>2, ExitedStopped DEF FlowInv
  <2>4. "exited" \in StepNames
    BY DEF StepNames
  <2> QED BY <1>1, <2>3, <2>4, FirstIsFirst DEF Exists
<1> QED BY <1>2, <1>3 DEF EosNotStale, EosFindsRender

\* With the four nodes of the code's queues, or more, a post never finds a queue full:
\* neither BaseCompPostAndWait nor BaseCompContinue aborts the process.
THEOREM EveryPostFits == nMaxMessageNum >= 4 => (Spec => []PostsFit)
<1> SUFFICES ASSUME nMaxMessageNum >= 4 PROVE Spec => []PostsFit
  OBVIOUS
<1>1. FlowInv => PostsFit
  BY FlowFits
<1> QED BY <1>1, FlowInvariant, PTL

\* A component with work to do never falls asleep for good, whichever messages
\* BaseCompContinue leaves out.
THEOREM LoopsStayAlive == Spec => []LoopsAlive
<1> QED BY FlowInvariant, FlowLoops, EngineInit, EngineNext, PTL DEF Spec

\* When the player is at rest, the render component believes in the end of the stream
\* only if the decoder has reached it.
THEOREM EosIsNotStale == Spec => []EosNotStale
<1> QED BY FlowInvariant, FlowEos, PTL

\* The decode thread tells the end of the stream to a render component that exists.
THEOREM EosFindsTheRender == Spec => []EosFindsRender
<1> QED BY FlowInvariant, FlowEos, PTL

=============================================================================
