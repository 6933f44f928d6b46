------------------------ MODULE VideoReaderProofs -------------------------
(***************************************************************************)
(* Theorems of VideoReader: the types, with the vector of outputs and the     *)
(* flags of the outputs in agreement, and the stream of each output: what its *)
(* worker sends follows what it sent before, or is a key frame, unless the    *)
(* code overlooked a gap in one of three ways.                                *)
(***************************************************************************)
EXTENDS VideoReader, FiniteSetTheorems, SequenceTheorems, TLAPS

-----------------------------------------------------------------------------
(* The inductive invariant.                                                  *)

\* The reader runs from its first output to its destructor.
LifeInv ==
    /\ reader.life = "new" => reader.thread = "none" /\ \A o \in Outputs : out[o].at = "new"
    /\ reader.life \in {"live", "doomed"} => reader.running
    /\ reader.life \in {"new", "stopping", "gone"} => ~reader.running

\* An output not added yet is as it is made, and is not visited; the outputs
\* added are finitely many.
Added == {o \in Outputs : out[o].at # "new"}
NewInv ==
    /\ IsFiniteSet(Added) /\ ToSet(push.rest) \subseteq Added
    /\ \A o \in Outputs : out[o].at = "new" => out[o] = NoOutput

\* No output is twice in the vector, or is to be visited twice.
Distinct(s) == \A i, j \in DOMAIN s : s[i] = s[j] => i = j
WalkInv ==
    /\ Distinct(outs) /\ Distinct(push.rest)
    /\ push.at = "push" => push.rest # <<>>

\* The frames of sequence s are the last of the first n, in their order.
Numbered(s, n) == \A i \in DOMAIN s : s[i].n + Len(s) = n + i

\* The frames that the encoder holds are the last ones encoded, in their order;
\* one that is to encode an image has its format, and one that gave up nothing
\* to encode.  Packets pass by the encoder.
EncoderInv ==
    /\ Numbered(enc.held, made)
    /\ enc.fresh \/ enc.format \in {"none", "error"} => enc.held = <<>>
    /\ push.then # "none" => enc.format \in {"none", push.then}
    /\ scene.source = "packets" => enc = NoEncoder /\ push.then = "none"

\* The next frame to go out is a key frame, or follows frame m.
NextFollows(m) ==
    IF enc.held # <<>> THEN Head(enc.held).key \/ Head(enc.held).n = m + 1
    ELSE made = m \/ (scene.source = "images" /\ (enc.fresh \/ enc.format \in {"none", "error"}))

\* An output whose worker will send more: in its stream, the frame in hand and
\* the queue, each frame is a key frame, is marked or follows the one before.
Sends(o) == Wanted(o) /\ out[o].track = "ready" /\ out[o].at \notin {"new", "done"}
Fine(frame, n) == frame.key \/ frame.gap \/ frame.n = n + 1
Latest(o) == IF out[o].at = "send" THEN out[o].hand.n ELSE out[o].last
Newest(o) == IF out[o].queue # <<>> THEN Last(out[o].queue).n ELSE Latest(o)
Chain(s) == \A i \in 1..Len(s) - 1 : Fine(s[i + 1], s[i].n)
Excused(o) == ~Pending(o) /\ out[o].threw
Blank(o) == ~Pending(o) /\ out[o].sent = 0

HandInv == \A o \in Outputs :
    out[o].at = "send" /\ out[o].track = "ready" =>
        Fine(out[o].hand, out[o].last) \/ out[o].threw
QueueInv == \A o \in Outputs : Sends(o) /\ out[o].queue # <<>> =>
    /\ \/ Fine(Head(out[o].queue), Latest(o))
       \/ out[o].threw /\ out[o].at # "send"
    /\ Chain(out[o].queue)

\* What is still to be pushed follows what was pushed, unless it will be
\* marked, or comes after a send that threw, or only a key frame will do.
ToVisit(o) == o \in ToSet(push.rest)
ReadyInv == \A o \in Outputs : Sends(o) =>
    \/ o \in lost \/ Excused(o) \/ Blank(o)
    \/ IF ToVisit(o) THEN push.frame.key \/ push.frame.n = Newest(o) + 1
                     ELSE NextFollows(Newest(o))
PushInv ==
    /\ push.at # "idle" /\ reader.running => NextFollows(push.frame.n)
    /\ push.at = "idle" => push.rest = <<>>
    /\ push.at = "push" => LET o == Head(push.rest) IN
         /\ out[o].at = "done" \/ out[o].track # "new"
         /\ Sends(o) => \/ o \in lost \/ Excused(o)
                        \/ push.frame.key \/ push.frame.n = Newest(o) + 1

\* Nothing is pushed before the track is open.
TrackInv == \A o \in Outputs : out[o].track = "new" => ~Pending(o) /\ out[o].sent = 0

GapInv == HandInv /\ QueueInv /\ ReadyInv /\ PushInv /\ TrackInv

-----------------------------------------------------------------------------
(* The types, one per variable.                                              *)

OutputState ==
    [at : {"new", "test", "check", "block", "wait", "send", "done"},
     active : BOOLEAN, queue : Seq(Frames), sent : 0..SentMod - 1,
     hand : Frames, last : Nat, threw : BOOLEAN, track : {"new", "ready", "closed"}]
SceneTypes == scene \in [source : {"packets", "images"}, outputs : SUBSET Outputs,
                         mute : SUBSET Outputs, frames : Nat, faults : Nat, wakes : Nat]
ReaderTypes == reader \in [life : {"new", "live", "doomed", "stopping", "gone"},
                           running : BOOLEAN, node : BOOLEAN,
                           thread : {"none", "test", "wait", "busy", "end"}]
EncTypes ==
    /\ enc \in [format : Formats \cup {"none", "error"}, fresh : BOOLEAN, held : Seq(Frames)]
    /\ Len(enc.held) <= MaxHeld /\ made \in Nat
PushTypes ==
    push \in [at : {"idle", "walk", "push"}, frame : Frames,
              rest : Seq(Outputs), torn : BOOLEAN, then : AnyFormat \cup {"none"}]
OutTypes == out \in [Outputs -> OutputState]
OutsTypes == outs \in Seq(Outputs)
VectorInv == ToSet(outs) = {o \in Outputs : out[o].at # "new" /\ out[o].active}
HistoryTypes == lost \subseteq Outputs /\ missed \subseteq Outputs
BusyInv == push.at # "idle" \/ push.then # "none" => reader.thread = "busy"

Types == /\ SceneTypes /\ ReaderTypes /\ EncTypes /\ PushTypes /\ OutTypes /\ OutsTypes
         /\ VectorInv /\ HistoryTypes /\ BusyInv

LEMMA TypesCover == Types => TypeOK
<1> QED
  BY DEF Types, TypeOK, SceneTypes, ReaderTypes, EncTypes, PushTypes, OutTypes, OutsTypes,
         VectorInv, HistoryTypes, BusyInv, OutputState

LEMMA NoFrameTyped == NoFrame \in Frames
<1> QED
  BY DEF NoFrame, Frames

LEMMA FrameTyped ==
    ASSUME NEW n \in Nat, NEW key \in BOOLEAN
    PROVE  /\ [NoFrame EXCEPT !.n = n, !.key = key] \in Frames
           /\ [NoFrame EXCEPT !.n = n, !.key = key].n = n
           /\ [NoFrame EXCEPT !.n = n, !.key = key].key = key
<1> QED
  BY DEF NoFrame, Frames

LEMMA SceneTyped ==
    ASSUME SceneTypes, [Next]_vars
    PROVE  SceneTypes' /\ UNCHANGED <<scene.source, scene.outputs, scene.mute>>
<1>1. CASE scene' = scene
  BY <1>1 DEF SceneTypes
<1>2. CASE scene.faults > 0 /\ scene' = [scene EXCEPT !.faults = @ - 1]
  BY <1>2 DEF SceneTypes
<1>3. CASE scene.wakes > 0 /\ scene' = [scene EXCEPT !.wakes = @ - 1]
  BY <1>3 DEF SceneTypes
<1>4. CASE Frame \/ Spin \/ Stop \/ UNCHANGED vars
  BY <1>1, <1>4 DEF Frame, OnPacket, OnImage, Spin, SpinTest, SpinEnd, EncodeImage, Visit, Push,
                    Pushed, Stop, StopBegin, StopEnd, vars
<1>5. CASE Wake
  BY <1>3, <1>5 DEF Wake
<1>6. ASSUME NEW o \in Outputs, Peer(o)
      PROVE  scene' = scene \/ (scene.faults > 0 /\ scene' = [scene EXCEPT !.faults = @ - 1])
  BY <1>6 DEF Peer, AddOutput, RemoveOutput, TrackReady, TrackCloses
<1>7. ASSUME NEW o \in Outputs, Worker(o)
      PROVE  scene' = scene \/ (scene.faults > 0 /\ scene' = [scene EXCEPT !.faults = @ - 1])
  BY <1>7 DEF Worker, WorkerSends, WorkerThrows
<1> QED
  BY <1>1, <1>2, <1>4, <1>5, <1>6, <1>7 DEF Next

LEMMA ReaderTyped ==
    ASSUME ReaderTypes, [Next]_vars
    PROVE  ReaderTypes'
<1> USE DEF ReaderTypes
<1>1. CASE reader' = reader
  BY <1>1
<1>2. CASE Frame \/ Wake
  BY <1>1, <1>2 DEF Frame, OnPacket, OnImage, Walk, Wake
<1>3. CASE SpinTest \/ SpinEnd \/ Visit \/ Push \/ Pushed \/ Stop
  BY <1>1, <1>3 DEF SpinTest, SpinEnd, Visit, Push, Pushed, Stop, StopBegin, StopEnd
<1>4. CASE EncodeImage
  BY <1>1, <1>4 DEF EncodeImage, Encode, Refuse, Walk
<1>5. ASSUME NEW o \in Outputs, Peer(o)
      PROVE  ReaderTypes'
  BY <1>1, <1>5 DEF Peer, AddOutput, Start, RemoveOutput, TrackReady, TrackCloses
<1>6. ASSUME NEW o \in Outputs, Worker(o)
      PROVE  ReaderTypes'
  BY <1>1, <1>6 DEF Worker
<1> QED
  BY <1>1, <1>2, <1>3, <1>4, <1>5, <1>6 DEF Next, Spin, vars

\* A walk as a step of push, on its own.
LEMMA WalkSteps ==
    ASSUME NEW frame \in Frames, NEW then \in AnyFormat \cup {"none"}, Walk(frame, then),
           ReaderTypes, PushTypes, OutsTypes
    PROVE  /\ PushTypes'
           /\ reader'.thread \in {"test", "busy"} /\ push'.then = then
           /\ then # "none" => reader'.thread = "busy"
           /\ reader'.life = reader.life /\ reader'.running = reader.running
           /\ reader'.node = reader.node
           /\ \/ /\ reader.running /\ push'.at = "walk" /\ push'.frame = frame
                 /\ push'.rest = outs /\ ~push'.torn /\ reader'.thread = "busy"
              \/ ~reader.running /\ push'.at = "idle" /\ push'.rest = <<>>
<1> USE DEF ReaderTypes, PushTypes, OutsTypes
<1>1. CASE reader.running
  <2>1. /\ push' = [at |-> "walk", frame |-> frame, rest |-> outs, torn |-> FALSE, then |-> then]
        /\ reader' = [reader EXCEPT !.thread = "busy"]
    BY <1>1 DEF Walk
  <2>2. PushTypes'
    BY <2>1
  <2> QED
    BY <1>1, <2>1, <2>2
<1>2. CASE ~reader.running
  <2>1. push' = [at |-> "idle", frame |-> NoFrame, rest |-> <<>>, torn |-> FALSE, then |-> then]
    BY <1>2 DEF Walk, NoPush
  <2>2. reader' = [reader EXCEPT !.thread = IF then = "none" THEN "test" ELSE "busy"]
    BY <1>2 DEF Walk
  <2>3. PushTypes'
    BY <2>1, NoFrameTyped, EmptySeq
  <2> QED
    BY <1>2, <2>1, <2>2, <2>3
<1> QED
  BY <1>1, <1>2

LEMMA NoPushFields ==
    /\ NoPush.at = "idle" /\ NoPush.rest = <<>> /\ NoPush.then = "none" /\ ~NoPush.torn
    /\ \A then : /\ [NoPush EXCEPT !.then = then].at = "idle"
                 /\ [NoPush EXCEPT !.then = then].rest = <<>>
                 /\ [NoPush EXCEPT !.then = then].then = then
                 /\ ~[NoPush EXCEPT !.then = then].torn
    /\ NoPush.frame = NoFrame
    /\ NoPush \in [at : {"idle", "walk", "push"}, frame : Frames,
                   rest : Seq(Outputs), torn : BOOLEAN, then : AnyFormat \cup {"none"}]
    /\ \A then \in AnyFormat \cup {"none"} :
         [NoPush EXCEPT !.then = then] \in
             [at : {"idle", "walk", "push"}, frame : Frames,
              rest : Seq(Outputs), torn : BOOLEAN, then : AnyFormat \cup {"none"}]
<1>1. <<>> \in Seq(Outputs)
  BY EmptySeq
<1> QED
  BY <1>1, NoFrameTyped DEF NoPush

LEMMA EncTyped ==
    ASSUME EncTypes, PushTypes, SceneTypes, [Next]_vars
    PROVE  EncTypes'
<1> USE DEF EncTypes
<1>1. CASE UNCHANGED <<enc, made>>
  BY <1>1
<1>2. NoEncoder \in [format : Formats \cup {"none", "error"}, fresh : BOOLEAN, held : Seq(Frames)]
      /\ Len(NoEncoder.held) <= MaxHeld
  BY VideoAssumption, EmptySeq DEF NoEncoder
<1>3. CASE UNCHANGED made /\ enc' = NoEncoder
  BY <1>2, <1>3
<1>4. CASE OnPacket
  BY <1>4 DEF OnPacket
<1>5. CASE OnImage
  BY <1>1, <1>3, <1>5 DEF OnImage
<1>6. CASE EncodeImage
  <2>1. CASE push.then \in Formats /\ Encode
    <3>1. made' = made + 1
      BY <2>1 DEF Encode
    <3>2. PICK key \in BOOLEAN :
            LET held == Append(enc.held, [NoFrame EXCEPT !.n = made', !.key = key])
                now == [format |-> push.then, fresh |-> FALSE, held |-> held]
            IN  \/ Len(held) <= MaxHeld /\ enc' = now
                \/ enc' = [now EXCEPT !.held = Tail(held)]
      BY <2>1 DEF Encode
    <3> DEFINE new == [NoFrame EXCEPT !.n = made', !.key = key]
               held == Append(enc.held, new)
    <3>3. new \in Frames
      <4>1. made' \in Nat /\ key \in BOOLEAN
        BY <3>1
      <4> QED
        BY <4>1 DEF NoFrame, Frames
    <3> HIDE DEF new
    <3>4. /\ held \in Seq(Frames) /\ Len(held) = Len(enc.held) + 1
          /\ Tail(held) \in Seq(Frames) /\ Len(Tail(held)) = Len(enc.held)
      BY <3>3, AppendProperties, HeadTailProperties
    <3> HIDE DEF held
    <3>5. \/ Len(held) <= MaxHeld /\ enc' = [format |-> push.then, fresh |-> FALSE, held |-> held]
          \/ enc' = [format |-> push.then, fresh |-> FALSE, held |-> Tail(held)]
      BY <3>2 DEF held, new
    <3>6. CASE Len(held) <= MaxHeld
               /\ enc' = [format |-> push.then, fresh |-> FALSE, held |-> held]
      BY <2>1, <3>1, <3>4, <3>6
    <3>7. CASE enc' = [format |-> push.then, fresh |-> FALSE, held |-> Tail(held)]
      BY <2>1, <3>1, <3>4, <3>7
    <3> QED
      BY <3>5, <3>6, <3>7
  <2>2. CASE push.then \in Formats /\ Refuse
    BY <2>2 DEF Refuse
  <2>3. CASE UNCHANGED made /\ enc' = [NoEncoder EXCEPT !.format = "error"]
    BY <1>2, <2>3
  <2> QED
    BY <1>1, <1>6, <2>1, <2>2, <2>3 DEF EncodeImage
<1>7. CASE StopEnd
  BY <1>3, <1>7 DEF StopEnd
<1>8. CASE Wake \/ SpinTest \/ SpinEnd \/ Visit \/ Push \/ Pushed \/ StopBegin
  BY <1>1, <1>8 DEF Wake, SpinTest, SpinEnd, Visit, Push, Pushed, StopBegin
<1>9. ASSUME NEW o \in Outputs, Peer(o) \/ Worker(o)
      PROVE  UNCHANGED <<enc, made>>
  BY <1>9 DEF Peer, AddOutput, RemoveOutput, TrackReady, TrackCloses, Worker
<1> QED
  BY <1>1, <1>4, <1>5, <1>6, <1>7, <1>8, <1>9 DEF Next, Spin, Stop, Frame, vars

-----------------------------------------------------------------------------
(* What is added to, and taken from, the vector and the walk over it.        *)

LEMMA SeqDomain ==
    ASSUME NEW T, NEW s \in Seq(T)
    PROVE  /\ Len(s) \in Nat /\ DOMAIN s = 1..Len(s)
           /\ s # <<>> <=> Len(s) > 0
           /\ s # <<>> => Len(s) \in DOMAIN s /\ Head(s) = s[1]
           /\ \A i \in 1..Len(s) : s[i] \in T
<1> QED
  BY LenProperties, EmptySeq, ElementOfSeq

LEMMA AppendSeq ==
    ASSUME NEW T, NEW s \in Seq(T), NEW e \in T
    PROVE  /\ ToSet(Append(s, e)) = ToSet(s) \cup {e}
           /\ Distinct(s) /\ e \notin ToSet(s) => Distinct(Append(s, e))
<1> DEFINE r == Append(s, e)
<1>1. /\ r \in Seq(T) /\ Len(r) = Len(s) + 1 /\ r[Len(s) + 1] = e
      /\ \A i \in 1..Len(s) : r[i] = s[i]
  BY AppendProperties
<1>2. Len(s) \in Nat /\ DOMAIN s = 1..Len(s) /\ DOMAIN r = 1..Len(s) + 1
  BY <1>1, SeqDomain
<1> HIDE DEF r
<1>3. ToSet(r) = ToSet(s) \cup {e}
  BY <1>1, <1>2 DEF ToSet
<1>4. ASSUME Distinct(s), e \notin ToSet(s)
      PROVE  Distinct(r)
  BY <1>1, <1>2, <1>4 DEF ToSet, Distinct
<1> QED
  BY <1>3, <1>4 DEF r

LEMMA TailSeq ==
    ASSUME NEW T, NEW s \in Seq(T), s # <<>>
    PROVE  /\ Head(s) \in T /\ Tail(s) \in Seq(T)
           /\ ToSet(s) = {Head(s)} \cup ToSet(Tail(s))
           /\ Distinct(s) => Distinct(Tail(s)) /\ Head(s) \notin ToSet(Tail(s))
<1> DEFINE r == Tail(s)
<1>1. /\ r \in Seq(T) /\ Len(r) = Len(s) - 1 /\ Head(s) \in T
      /\ \A i \in 1..Len(r) : r[i] = s[i + 1]
  BY HeadTailProperties
<1>2. /\ Len(s) \in Nat /\ DOMAIN s = 1..Len(s) /\ DOMAIN r = 1..Len(s) - 1
      /\ Head(s) = s[1] /\ Len(s) > 0
  BY <1>1, SeqDomain
<1> HIDE DEF r
<1>3. ToSet(s) = {s[1]} \cup ToSet(r)
  <2>1. \A i \in DOMAIN r : r[i] = s[i + 1] /\ i + 1 \in DOMAIN s
    BY <1>1, <1>2
  <2>2. \A i \in DOMAIN s : i # 1 => i - 1 \in DOMAIN r /\ r[i - 1] = s[i]
    BY <1>1, <1>2
  <2>3. 1 \in DOMAIN s
    BY <1>2
  <2> QED
    BY <2>1, <2>2, <2>3 DEF ToSet
<1>4. ASSUME Distinct(s)
      PROVE  Distinct(r) /\ s[1] \notin ToSet(r)
  <2>1. \A m, n \in 1..Len(s) : s[m] = s[n] => m = n
    BY <1>2, <1>4 DEF Distinct
  <2>2. \A i \in DOMAIN r : i \in Nat /\ r[i] = s[i + 1] /\ i + 1 \in 1..Len(s) /\ i + 1 # 1
    BY <1>1, <1>2
  <2>3. 1 \in 1..Len(s)
    BY <1>2
  <2>4. Distinct(r)
    <3> SUFFICES ASSUME NEW i \in DOMAIN r, NEW j \in DOMAIN r, r[i] = r[j]
                 PROVE  i = j
      BY DEF Distinct
    <3>1. i + 1 = j + 1
      BY <2>1, <2>2
    <3> QED
      BY <2>2, <3>1
  <2>5. s[1] \notin ToSet(r)
    BY <2>1, <2>2, <2>3 DEF ToSet
  <2> QED
    BY <2>4, <2>5
<1> QED
  BY <1>1, <1>2, <1>3, <1>4 DEF r

LEMMA RemoveSeq ==
    ASSUME NEW T, NEW s \in Seq(T), NEW k \in DOMAIN s, Distinct(s)
    PROVE  /\ RemoveAt(s, k) \in Seq(T) /\ Distinct(RemoveAt(s, k))
           /\ ToSet(RemoveAt(s, k)) = ToSet(s) \ {s[k]}
<1> DEFINE a == SubSeq(s, 1, k - 1)
           b == SubSeq(s, k + 1, Len(s))
           r == RemoveAt(s, k)
<1>1. Len(s) \in Nat /\ DOMAIN s = 1..Len(s) /\ k \in 1..Len(s) /\ \A i \in 1..Len(s) : s[i] \in T
  BY SeqDomain
<1>2. a \in Seq(T) /\ Len(a) = k - 1 /\ \A i \in 1..k - 1 : a[i] = s[i]
  BY <1>1, SubSeqProperties
<1>3. b \in Seq(T) /\ Len(b) = Len(s) - k /\ \A i \in 1..Len(s) - k : b[i] = s[k + i]
  BY <1>1, SubSeqProperties
<1>4. r = a \o b
  BY DEF RemoveAt
<1> HIDE DEF a, b, r
<1>5. /\ r \in Seq(T) /\ Len(r) = Len(s) - 1
      /\ \A i \in 1..Len(s) - 1 : r[i] = IF i <= k - 1 THEN a[i] ELSE b[i - (k - 1)]
  <2>1. /\ r \in Seq(T) /\ Len(r) = Len(a) + Len(b)
        /\ \A i \in 1..Len(a) + Len(b) : r[i] = IF i <= Len(a) THEN a[i] ELSE b[i - Len(a)]
    BY <1>2, <1>3, <1>4, ConcatProperties
  <2>2. Len(a) = k - 1 /\ Len(a) + Len(b) = Len(s) - 1
    BY <1>1, <1>2, <1>3
  <2> QED
    BY <2>1, <2>2
<1>6. \A i \in 1..Len(s) - 1 : r[i] = IF i < k THEN s[i] ELSE s[i + 1]
  <2> TAKE i \in 1..Len(s) - 1
  <2>1. CASE i < k
    <3>1. i \in 1..k - 1 /\ i <= k - 1
      BY <1>1, <2>1
    <3>2. r[i] = a[i]
      BY <1>5, <3>1
    <3> QED
      BY <1>2, <2>1, <3>1, <3>2
  <2>2. CASE i >= k
    <3>1. i - (k - 1) \in 1..Len(s) - k /\ k + (i - (k - 1)) = i + 1
      BY <1>1, <2>2
    <3>2. r[i] = b[i - (k - 1)]
      BY <1>1, <1>5, <2>2
    <3> QED
      BY <1>1, <1>3, <2>2, <3>1, <3>2
  <2> QED
    BY <1>1, <2>1, <2>2
<1>7. DOMAIN r = 1..Len(s) - 1
  BY <1>1, <1>5, SeqDomain
<1>8. Distinct(r)
  <2> SUFFICES ASSUME NEW i \in DOMAIN r, NEW j \in DOMAIN r, r[i] = r[j]
               PROVE  i = j
    BY DEF Distinct
  <2>1. \A m, n \in 1..Len(s) : s[m] = s[n] => m = n
    BY <1>1 DEF Distinct
  <2>2. i \in 1..Len(s) /\ i + 1 \in 1..Len(s) /\ j \in 1..Len(s) /\ j + 1 \in 1..Len(s)
    BY <1>1, <1>7
  <2>3. r[i] = (IF i < k THEN s[i] ELSE s[i + 1]) /\ r[j] = (IF j < k THEN s[j] ELSE s[j + 1])
    BY <1>6, <1>7
  <2>4. i \in Nat /\ j \in Nat /\ k \in Nat
    BY <1>1, <1>7
  <2>5. CASE i < k /\ j < k
    BY <2>1, <2>2, <2>3, <2>5
  <2>6. CASE i < k /\ ~(j < k)
    <3>1. i = j + 1
      BY <2>1, <2>2, <2>3, <2>6
    <3> QED
      BY <2>4, <2>6, <3>1
  <2>7. CASE ~(i < k) /\ j < k
    <3>1. i + 1 = j
      BY <2>1, <2>2, <2>3, <2>7
    <3> QED
      BY <2>4, <2>7, <3>1
  <2>8. CASE ~(i < k) /\ ~(j < k)
    <3>1. i + 1 = j + 1
      BY <2>1, <2>2, <2>3, <2>8
    <3> QED
      BY <2>4, <3>1
  <2> QED
    BY <2>5, <2>6, <2>7, <2>8
<1>9. ToSet(r) = ToSet(s) \ {s[k]}
  <2>1. \A m, n \in 1..Len(s) : s[m] = s[n] => m = n
    BY <1>1 DEF Distinct
  <2>2. ASSUME NEW i \in DOMAIN r
        PROVE  r[i] \in ToSet(s) \ {s[k]}
    <3>1. \E j \in 1..Len(s) : j # k /\ r[i] = s[j]
      BY <1>1, <1>6, <1>7
    <3> QED
      BY <1>1, <2>1, <3>1 DEF ToSet
  <2>3. ASSUME NEW j \in 1..Len(s), j # k
        PROVE  \E i \in DOMAIN r : r[i] = s[j]
    <3>1. CASE j < k
      BY <1>1, <1>6, <1>7, <3>1
    <3>2. CASE j > k
      <4>1. j - 1 \in DOMAIN r /\ r[j - 1] = s[j]
        BY <1>1, <1>6, <1>7, <3>2
      <4> QED
        BY <4>1
    <3> QED
      BY <1>1, <2>3, <3>1, <3>2
  <2> QED
    BY <1>1, <2>2, <2>3 DEF ToSet
<1> QED
  BY <1>5, <1>8, <1>9 DEF r

LEMMA SetSeq ==
    ASSUME NEW S, IsFiniteSet(S)
    PROVE  SetToSeq(S) \in Seq(S) /\ Distinct(SetToSeq(S))
<1>1. Cardinality(S) \in Nat /\ \E f \in [1..Cardinality(S) -> S] : IsInjective(f)
  BY FS_CardinalityType DEF ExistsBijection, Bijection, Injection
<1>2. SetToSeq(S) \in [1..Cardinality(S) -> S] /\ IsInjective(SetToSeq(S))
  BY <1>1 DEF SetToSeq
<1> QED
  BY <1>1, <1>2, SeqDef DEF IsInjective, Distinct

LEMMA NoSeq == ToSet(<<>>) = {} /\ Distinct(<<>>)
<1> QED
  BY DEF ToSet, Distinct

-----------------------------------------------------------------------------
(* What the steps with frames do.                                            *)

Still == UNCHANGED <<scene, outs, out, lost, missed>>

LEMMA PacketSteps ==
    ASSUME EncTypes, OnPacket
    PROVE  /\ scene.source = "packets" /\ reader.thread = "wait" /\ Still
           /\ UNCHANGED enc /\ made' = made + 1
           /\ \E frame \in Frames : /\ frame.n = made + 1 /\ (made = 0 => frame.key)
                                    /\ Walk(frame, "none")
<1>1. /\ scene.source = "packets" /\ reader.thread = "wait" /\ Still
      /\ UNCHANGED enc /\ made' = made + 1
  BY DEF OnPacket, Still
<1>2. PICK key \in BOOLEAN : (made = 0 => key)
                             /\ Walk([NoFrame EXCEPT !.n = made', !.key = key], "none")
  BY DEF OnPacket
<1> DEFINE frame == [NoFrame EXCEPT !.n = made', !.key = key]
<1>3. frame \in Frames /\ frame.n = made + 1 /\ (made = 0 => frame.key)
  <2>1. made + 1 \in Nat
    BY DEF EncTypes
  <2> QED
    BY <1>1, <1>2, <2>1 DEF NoFrame, Frames
<1>4. Walk(frame, "none")
  BY <1>2
<1> HIDE DEF frame
<1> QED
  BY <1>1, <1>3, <1>4

LEMMA ImageSteps ==
    ASSUME EncTypes, OnImage
    PROVE  /\ scene.source = "images" /\ reader.thread = "wait" /\ Still /\ UNCHANGED made
           /\ \/ UNCHANGED <<enc, push>> /\ reader' = [reader EXCEPT !.thread = "test"]
              \/ /\ \E f \in AnyFormat :
                      /\ push' = [NoPush EXCEPT !.then = f]
                      /\ \/ enc' = enc /\ enc.format = f
                         \/ enc' = NoEncoder /\ (enc.format = "none" \/ enc.held = <<>>)
                 /\ reader' = [reader EXCEPT !.thread = "busy"]
              \/ /\ enc.held # <<>> /\ enc' = NoEncoder
                 /\ \E f \in AnyFormat : Walk(Head(enc.held), f)
<1>1. scene.source = "images" /\ reader.thread = "wait" /\ Still /\ UNCHANGED made
  BY DEF OnImage, Still
<1>2. CASE ~reader.running \/ enc.format = "error"
  BY <1>1, <1>2 DEF OnImage
<1>3. CASE ~(~reader.running \/ enc.format = "error")
  <2>1. PICK f \in AnyFormat :
              IF enc.format \in {"none", f} \/ enc.held = <<>>
              THEN /\ enc' = IF enc.format = f THEN enc ELSE NoEncoder
                   /\ push' = [NoPush EXCEPT !.then = f]
                   /\ reader' = [reader EXCEPT !.thread = "busy"]
              ELSE enc' = NoEncoder /\ Walk(Head(enc.held), f)
    BY <1>3 DEF OnImage
  <2>2. CASE enc.format \in {"none", f} \/ enc.held = <<>>
    <3>1. \/ enc' = enc /\ enc.format = f
          \/ enc' = NoEncoder /\ (enc.format = "none" \/ enc.held = <<>>)
      BY <2>1, <2>2
    <3> QED
      BY <1>1, <2>1, <2>2, <3>1
  <2>3. CASE ~(enc.format \in {"none", f} \/ enc.held = <<>>)
    BY <1>1, <2>1, <2>3
  <2> QED
    BY <2>2, <2>3
<1> QED
  BY <1>2, <1>3

\* An image is encoded, refused, or ends the encoder.
LEMMA EncodeSteps ==
    ASSUME EncTypes, EncodeImage
    PROVE  /\ push.at = "idle" /\ push.then # "none" /\ Still
           /\ \/ /\ push.then \in Formats /\ made' = made + 1
                 /\ enc'.format = push.then /\ ~enc'.fresh
                 /\ \E new \in Frames :
                      /\ new.n = made + 1
                      /\ enc.fresh \/ enc.format = "none" => new.key
                      /\ \/ enc'.held = Append(enc.held, new) /\ push' = NoPush
                            /\ reader' = [reader EXCEPT !.thread = "test"]
                         \/ enc'.held = Tail(Append(enc.held, new))
                            /\ Walk(Head(Append(enc.held, new)), "none")
              \/ /\ push.then \in Formats /\ UNCHANGED made /\ push' = NoPush
                 /\ enc'.held = enc.held /\ enc'.format = push.then
                 /\ enc'.fresh = (enc.fresh \/ enc.format = "none")
                 /\ reader' = [reader EXCEPT !.thread = "test"]
              \/ /\ UNCHANGED made /\ push' = NoPush /\ enc.format = "none"
                 /\ enc' = enc \/ (enc'.held = <<>> /\ enc'.format = "error" /\ ~enc'.fresh)
                 /\ reader' = [reader EXCEPT !.thread = "test"]
<1>1. push.at = "idle" /\ push.then # "none" /\ Still
  BY DEF EncodeImage, Still
<1>2. CASE push.then \in Formats /\ Encode
  <2>1. made' = made + 1
    BY <1>2 DEF Encode
  <2>2. PICK key \in BOOLEAN :
          LET held == Append(enc.held, [NoFrame EXCEPT !.n = made', !.key = key])
              now == [format |-> push.then, fresh |-> FALSE, held |-> held]
          IN  /\ enc.fresh \/ enc.format = "none" => key
              /\ \/ /\ Len(held) <= MaxHeld
                    /\ enc' = now /\ push' = NoPush
                    /\ reader' = [reader EXCEPT !.thread = "test"]
                 \/ enc' = [now EXCEPT !.held = Tail(held)] /\ Walk(Head(held), "none")
    BY <1>2 DEF Encode
  <2> DEFINE new == [NoFrame EXCEPT !.n = made', !.key = key]
             held == Append(enc.held, new)
  <2>3. new \in Frames /\ new.n = made + 1 /\ (enc.fresh \/ enc.format = "none" => new.key)
    <3>1. made + 1 \in Nat
      BY DEF EncTypes
    <3> QED
      BY <2>1, <2>2, <3>1 DEF NoFrame, Frames
  <2> HIDE DEF new
  <2>4. \/ /\ enc' = [format |-> push.then, fresh |-> FALSE, held |-> held] /\ push' = NoPush
           /\ reader' = [reader EXCEPT !.thread = "test"]
        \/ /\ enc' = [format |-> push.then, fresh |-> FALSE, held |-> Tail(held)]
           /\ Walk(Head(held), "none")
    BY <2>2 DEF new
  <2>5. enc'.format = push.then /\ ~enc'.fresh
    BY <2>4
  <2>6. \/ enc'.held = held /\ push' = NoPush /\ reader' = [reader EXCEPT !.thread = "test"]
        \/ enc'.held = Tail(held) /\ Walk(Head(held), "none")
    BY <2>4
  <2> QED
    BY <1>1, <1>2, <2>1, <2>3, <2>5, <2>6
<1>3. CASE push.then \in Formats /\ Refuse
  <2>1. enc' = [enc EXCEPT !.format = push.then, !.fresh = enc.fresh \/ enc.format = "none"]
    BY <1>3 DEF Refuse
  <2>2. /\ enc'.held = enc.held /\ enc'.format = push.then
        /\ enc'.fresh = (enc.fresh \/ enc.format = "none")
    BY <2>1 DEF EncTypes
  <2> QED
    BY <1>1, <1>3, <2>2 DEF Refuse
<1>4. CASE /\ enc.format = "none"
           /\ enc' = IF push.then = "odd" THEN enc ELSE [NoEncoder EXCEPT !.format = "error"]
           /\ push' = NoPush /\ reader' = [reader EXCEPT !.thread = "test"]
           /\ UNCHANGED made
  <2>1. /\ [NoEncoder EXCEPT !.format = "error"].held = <<>>
        /\ [NoEncoder EXCEPT !.format = "error"].format = "error"
        /\ ~[NoEncoder EXCEPT !.format = "error"].fresh
    BY DEF NoEncoder
  <2>2. enc' = enc \/ enc' = [NoEncoder EXCEPT !.format = "error"]
    BY <1>4
  <2>3. enc' = enc \/ (enc'.held = <<>> /\ enc'.format = "error" /\ ~enc'.fresh)
    BY <2>1, <2>2
  <2> QED
    BY <1>1, <1>4, <2>3
<1> QED
  BY <1>2, <1>3, <1>4 DEF EncodeImage

-----------------------------------------------------------------------------
(* The walk, the vector and the life of the reader.                          *)

\* Who else touches them.
LEMMA Others ==
    ASSUME [Next]_vars
    PROVE  \/ Frame \/ EncodeImage \/ Visit \/ Push \/ Pushed \/ StopEnd
           \/ \E o \in Outputs : AddOutput(o) \/ RemoveOutput(o)
           \/ UNCHANGED <<enc, made, push, outs, lost>>
<1>1. CASE Wake \/ SpinTest \/ SpinEnd \/ StopBegin
  BY <1>1 DEF Wake, SpinTest, SpinEnd, StopBegin
<1>2. ASSUME NEW o \in Outputs, TrackReady(o) \/ TrackCloses(o) \/ Worker(o)
      PROVE  UNCHANGED <<enc, made, push, outs, lost>>
  BY <1>2 DEF TrackReady, TrackCloses, Worker
<1> QED
  BY <1>1, <1>2 DEF Next, Spin, Stop, Peer, vars

LEMMA HeldHead ==
    ASSUME EncTypes, NEW new \in Frames
    PROVE  /\ enc.held # <<>> => Head(enc.held) \in Frames
           /\ Head(Append(enc.held, new)) \in Frames
           /\ Head(Append(enc.held, new)) = IF enc.held = <<>> THEN new ELSE Head(enc.held)
<1>1. enc.held \in Seq(Frames)
  BY DEF EncTypes
<1> QED
  BY <1>1, HeadTailProperties, HeadTailAppend

\* push after the steps with frames: there is nothing to push, or the walk
\* begins, over the vector.
Begun == \/ push'.at = "idle" /\ push'.rest = <<>>
         \/ reader.running /\ push'.at = "walk" /\ push'.rest = outs

LEMMA FrameWalks ==
    ASSUME ReaderTypes, EncTypes, PushTypes, OutsTypes, Frame \/ EncodeImage
    PROVE  /\ PushTypes' /\ (Begun \/ (OnImage /\ push' = push))
           /\ push'.at # "idle" \/ push'.then # "none" =>
                reader'.thread = "busy" \/ (reader.thread = "wait" /\ push' = push)
           /\ reader'.life = reader.life /\ reader'.running = reader.running
           /\ reader.thread = "wait" \/ push.at = "idle"
           /\ reader'.thread \in {"test", "busy"} /\ Still
<1>1. ASSUME NEW frame \in Frames, NEW then \in AnyFormat \cup {"none"}, Walk(frame, then)
      PROVE  /\ PushTypes' /\ Begun
             /\ push'.at # "idle" \/ push'.then # "none" => reader'.thread = "busy"
             /\ reader'.life = reader.life /\ reader'.running = reader.running
             /\ reader'.thread \in {"test", "busy"}
  BY <1>1, WalkSteps DEF Begun
<1>2. ASSUME push' = NoPush \/ \E f \in AnyFormat : push' = [NoPush EXCEPT !.then = f]
      PROVE  PushTypes' /\ Begun /\ push'.at = "idle"
             /\ (push' = NoPush => push'.then = "none")
  <2>1. CASE push' = NoPush
    BY <2>1, NoPushFields DEF Begun, PushTypes
  <2>2. ASSUME NEW f \in AnyFormat, push' = [NoPush EXCEPT !.then = f]
        PROVE  PushTypes' /\ Begun /\ push'.at = "idle"
               /\ (push' = NoPush => push'.then = "none")
    <3>1. PushTypes'
      BY <2>2, NoPushFields DEF PushTypes
    <3>2. push'.at = "idle" /\ push'.rest = <<>>
      BY <2>2, NoPushFields
    <3> QED
      BY <3>1, <3>2, NoPushFields DEF Begun
  <2> QED
    BY <1>2, <2>1, <2>2
<1>3. ASSUME NEW t \in {"test", "busy"}, reader' = [reader EXCEPT !.thread = t]
      PROVE  /\ reader'.life = reader.life /\ reader'.running = reader.running
             /\ reader'.thread = t
  BY <1>3 DEF ReaderTypes
<1>4. CASE OnPacket
  BY <1>1, <1>4, PacketSteps
<1>5. CASE OnImage
  <2>1. reader.thread = "wait" /\ Still
    BY <1>5, ImageSteps
  <2>2. CASE UNCHANGED <<enc, push>> /\ reader' = [reader EXCEPT !.thread = "test"]
    BY <1>3, <1>5, <2>1, <2>2 DEF PushTypes
  <2>3. CASE /\ \E f \in AnyFormat : push' = [NoPush EXCEPT !.then = f]
             /\ reader' = [reader EXCEPT !.thread = "busy"]
    BY <1>2, <1>3, <2>1, <2>3
  <2>4. CASE enc.held # <<>> /\ \E f \in AnyFormat : Walk(Head(enc.held), f)
    BY <1>1, <2>1, <2>4, HeldHead, NoFrameTyped
  <2> QED
    BY <1>5, <2>2, <2>3, <2>4, ImageSteps
<1>6. CASE EncodeImage
  <2>1. push.at = "idle" /\ Still
    BY <1>6, EncodeSteps
  <2>2. CASE push' = NoPush /\ reader' = [reader EXCEPT !.thread = "test"]
    BY <1>2, <1>3, <2>1, <2>2
  <2>3. ASSUME NEW new \in Frames, Walk(Head(Append(enc.held, new)), "none")
        PROVE  /\ PushTypes' /\ Begun
               /\ push'.at # "idle" \/ push'.then # "none" => reader'.thread = "busy"
               /\ reader'.life = reader.life /\ reader'.running = reader.running
               /\ reader'.thread \in {"test", "busy"}
    BY <1>1, <2>3, HeldHead
  <2>4. \/ push' = NoPush /\ reader' = [reader EXCEPT !.thread = "test"]
        \/ \E new \in Frames : Walk(Head(Append(enc.held, new)), "none")
    BY <1>6, EncodeSteps
  <2> QED
    BY <2>1, <2>2, <2>3, <2>4
<1> QED
  BY <1>4, <1>5, <1>6 DEF Frame

LEMMA TearSteps ==
    ASSUME PushTypes, Tear
    PROVE  /\ PushTypes'
           /\ push'.at = push.at /\ push'.frame = push.frame /\ push'.rest = push.rest
           /\ push'.then = push.then
<1> QED
  BY DEF Tear, PushTypes

LEMMA PushKept ==
    ASSUME ReaderTypes, EncTypes, PushTypes, OutsTypes, NewInv, WalkInv, [Next]_vars
    PROVE  /\ PushTypes' /\ Distinct(push.rest)'
           /\ push'.at = "push" => push'.rest # <<>>
<1> USE DEF WalkInv
<1>1. CASE UNCHANGED push
  BY <1>1 DEF PushTypes
<1>2. CASE Frame \/ EncodeImage
  BY <1>1, <1>2, FrameWalks, NoSeq DEF Begun
<1>3. push.rest \in Seq(Outputs)
  BY DEF PushTypes
<1>4. CASE Visit
  <2>1. push.rest # <<>> /\ push.at = "walk"
    BY <1>4 DEF Visit
  <2>2. CASE push' = [push EXCEPT !.rest = Tail(@)]
    BY <1>3, <2>1, <2>2, TailSeq DEF PushTypes
  <2>3. CASE push' = [push EXCEPT !.at = "push"]
    BY <1>3, <2>1, <2>3 DEF PushTypes
  <2> QED
    BY <1>4, <2>2, <2>3 DEF Visit
<1>5. CASE Push
  <2>1. push.rest # <<>> /\ push.at = "push"
    BY <1>5 DEF Push
  <2>2. CASE push' = [push EXCEPT !.at = "walk", !.rest = Tail(@)]
    BY <1>3, <2>1, <2>2, TailSeq DEF PushTypes
  <2>3. ASSUME NEW S \in SUBSET Added,
               push' = [push EXCEPT !.at = "walk", !.rest = SetToSeq(S), !.torn = FALSE]
        PROVE  PushTypes' /\ Distinct(push.rest)' /\ push'.at # "push"
    <3>1. IsFiniteSet(S) /\ S \subseteq Outputs
      BY FS_Subset DEF NewInv, Added
    <3>2. SetToSeq(S) \in Seq(Outputs) /\ Distinct(SetToSeq(S))
      BY <3>1, SetSeq, SeqMonotonic
    <3> QED
      BY <2>3, <3>2 DEF PushTypes
  <2> QED
    BY <1>5, <2>2, <2>3 DEF Push, Added
<1>6. CASE Pushed
  BY <1>6, NoPushFields, NoSeq DEF Pushed, PushTypes
<1>7. ASSUME NEW o \in Outputs, AddOutput(o) \/ RemoveOutput(o)
      PROVE  /\ PushTypes' /\ Distinct(push.rest)'
             /\ push'.at = "push" => push'.rest # <<>>
  BY <1>7, TearSteps DEF AddOutput, RemoveOutput
<1>8. CASE StopEnd
  BY <1>1, <1>8 DEF StopEnd
<1> QED
  BY <1>1, <1>2, <1>4, <1>5, <1>6, <1>7, <1>8, Others

LEMMA BusyKept ==
    ASSUME ReaderTypes, EncTypes, PushTypes, OutsTypes, LifeInv, BusyInv, [Next]_vars
    PROVE  BusyInv'
<1> USE DEF BusyInv
<1>1. CASE Frame \/ EncodeImage
  <2>1. push'.at # "idle" \/ push'.then # "none" =>
          reader'.thread = "busy" \/ (reader.thread = "wait" /\ push' = push)
    BY <1>1, FrameWalks
  <2> QED
    BY <2>1
<1>2. CASE Visit \/ Push
  BY <1>2 DEF Visit, Push, PushTypes
<1>3. CASE Pushed
  BY <1>3, NoPushFields DEF Pushed, ReaderTypes, PushTypes
<1>4. CASE Wake \/ SpinTest \/ SpinEnd
  BY <1>4 DEF Wake, SpinTest, SpinEnd
<1>5. CASE Stop
  BY <1>5 DEF Stop, StopBegin, StopEnd, ReaderTypes
<1>6. ASSUME NEW o \in Outputs, Peer(o)
      PROVE  BusyInv'
  <2>1. push'.at = push.at /\ push'.then = push.then
    BY <1>6, TearSteps DEF Peer, AddOutput, RemoveOutput, TrackReady, TrackCloses
  <2>2. CASE AddOutput(o)
    <3>1. CASE reader.running
      BY <2>1, <2>2, <3>1 DEF AddOutput, Start
    <3>2. CASE ~reader.running
      <4>1. reader.thread = "none"
        BY <2>2, <3>2 DEF AddOutput, LifeInv
      <4> QED
        BY <2>1, <4>1
    <3> QED
      BY <3>1, <3>2
  <2>3. CASE RemoveOutput(o) \/ TrackReady(o) \/ TrackCloses(o)
    <3>1. reader'.thread = reader.thread
      BY <2>3 DEF RemoveOutput, TrackReady, TrackCloses, ReaderTypes
    <3> QED
      BY <2>1, <3>1
  <2> QED
    BY <1>6, <2>2, <2>3 DEF Peer
<1>7. ASSUME NEW o \in Outputs, Worker(o)
      PROVE  BusyInv'
  BY <1>7 DEF Worker
<1> QED
  BY <1>1, <1>2, <1>3, <1>4, <1>5, <1>6, <1>7 DEF Next, Spin, vars

-----------------------------------------------------------------------------
(* The outputs.                                                              *)

LEMMA NoOutputFields ==
    /\ NoOutput \in OutputState /\ NoOutput.at = "new" /\ NoOutput.active
    /\ NoOutput.queue = <<>> /\ NoOutput.sent = 0 /\ ~NoOutput.threw
    /\ NoOutput.track = "new"
<1>1. <<>> \in Seq(Frames) /\ 0 \in 0..SentMod - 1
  BY EmptySeq, VideoAssumption
<1> QED
  BY <1>1, NoFrameTyped DEF NoOutput, OutputState

\* What a worker does to its output, field by field.
Untouched(o) == /\ out'[o].queue = out[o].queue /\ out'[o].sent = out[o].sent
                /\ out'[o].hand = out[o].hand /\ out'[o].last = out[o].last
                /\ out'[o].threw = out[o].threw
Beside(o) == \A p \in Outputs \ {o} : out'[p] = out[p]
Waits(o) == /\ Untouched(o) /\ out'[o].track = out[o].track
            /\ out[o].at \in {"test", "check", "block"}
            /\ out'[o].at \in {"check", "block", "test", "wait"}
Ends(o) == /\ ~Wanted(o) /\ out[o].at = "test" /\ out'[o].at = "done"
           /\ out'[o].track = "new" /\ out'[o].queue = <<>> /\ out'[o].sent = 0
Takes(o) == /\ Wanted(o) /\ out[o].at = "check" /\ out[o].queue # <<>>
            /\ out'[o].at = "send" /\ out'[o].hand = Head(out[o].queue)
            /\ out'[o].queue = Tail(out[o].queue)
            /\ out'[o].sent = out[o].sent /\ out'[o].last = out[o].last
            /\ out'[o].threw = out[o].threw /\ out'[o].track = out[o].track
Discards(o) == /\ ~Wanted(o) /\ out[o].at = "check" /\ out[o].queue # <<>>
               /\ out'[o].at = "test" /\ out'[o].queue = Tail(out[o].queue)
               /\ out'[o].sent = out[o].sent /\ out'[o].track = out[o].track
SendsOne(o) == /\ out[o].at = "send" /\ out[o].track = "ready" /\ out'[o].at = "test"
               /\ ~out'[o].threw /\ out'[o].last = out[o].hand.n
               /\ out'[o].sent = (out[o].sent + 1) % SentMod
               /\ out'[o].queue = out[o].queue /\ out'[o].track = out[o].track
Throws(o) == /\ out[o].at = "send" /\ out'[o].at = "test" /\ out'[o].threw
             /\ out'[o].last = out[o].last /\ out'[o].sent = out[o].sent
             /\ out'[o].queue = out[o].queue /\ out'[o].track = out[o].track

LEMMA WorkerSteps ==
    ASSUME OutTypes, NEW o \in Outputs, Worker(o)
    PROVE  /\ OutTypes' /\ Beside(o) /\ out'[o].active = out[o].active
           /\ Waits(o) \/ Ends(o) \/ Takes(o) \/ Discards(o) \/ SendsOne(o) \/ Throws(o)
<1> DEFINE x == out[o]
<1>0. x \in OutputState
  BY DEF OutTypes
<1>1. ASSUME NEW y \in OutputState, out' = [out EXCEPT ![o] = y]
      PROVE  OutTypes' /\ Beside(o) /\ out'[o] = y
  BY <1>1 DEF OutTypes, Beside
<1>2. CASE WorkerTest(o)
  <2>1. CASE Wanted(o)
    <3> DEFINE y == [x EXCEPT !.at = "check"]
    <3>1. out' = [out EXCEPT ![o] = y] /\ x.at = "test"
      BY <1>2, <2>1 DEF WorkerTest
    <3>2. y \in OutputState /\ y.at = "check" /\ y.active = x.active /\ y.queue = x.queue
          /\ y.sent = x.sent /\ y.hand = x.hand /\ y.last = x.last /\ y.threw = x.threw
          /\ y.track = x.track
      BY <1>0 DEF OutputState
    <3> HIDE DEF y
    <3> QED
      BY <1>1, <3>1, <3>2 DEF Waits, Untouched
  <2>2. CASE ~Wanted(o)
    <3> DEFINE y == [NoOutput EXCEPT !.at = "done", !.active = x.active]
    <3>1. out' = [out EXCEPT ![o] = y] /\ x.at = "test"
      BY <1>2, <2>2 DEF WorkerTest
    <3>2. y \in OutputState /\ y.at = "done" /\ y.active = x.active /\ y.queue = <<>>
          /\ y.sent = 0 /\ y.track = "new"
      BY <1>0, NoOutputFields DEF OutputState
    <3> HIDE DEF y
    <3> QED
      BY <1>1, <2>2, <3>1, <3>2 DEF Ends
  <2> QED
    BY <2>1, <2>2
<1>3. CASE WorkerCheck(o) /\ x.queue = <<>>
  <2> DEFINE at == IF Wanted(o) THEN "block" ELSE "test"
             y == [x EXCEPT !.at = at]
  <2>1. out' = [out EXCEPT ![o] = y] /\ x.at = "check"
    BY <1>3 DEF WorkerCheck, OutTypes
  <2>2. y \in OutputState /\ y.at \in {"block", "test"} /\ y.active = x.active
        /\ y.queue = x.queue
        /\ y.sent = x.sent /\ y.hand = x.hand /\ y.last = x.last /\ y.threw = x.threw
        /\ y.track = x.track
    BY <1>0 DEF OutputState
  <2> HIDE DEF y
  <2> QED
    BY <1>1, <2>1, <2>2 DEF Waits, Untouched
<1>4. CASE WorkerCheck(o) /\ x.queue # <<>>
  <2>1. Head(x.queue) \in Frames /\ Tail(x.queue) \in Seq(Frames)
    BY <1>0, <1>4, HeadTailProperties DEF OutputState
  <2> DEFINE y == [x EXCEPT !.queue = Tail(x.queue), !.at = IF Wanted(o) THEN "send" ELSE "test",
                            !.hand = IF Wanted(o) THEN Head(x.queue) ELSE NoFrame]
  <2>2. out' = [out EXCEPT ![o] = y] /\ x.at = "check"
    BY <1>4 DEF WorkerCheck, OutTypes
  <2>3. y \in OutputState /\ y.active = x.active /\ y.queue = Tail(x.queue)
        /\ y.at = (IF Wanted(o) THEN "send" ELSE "test")
        /\ (Wanted(o) => y.hand = Head(x.queue))
        /\ y.sent = x.sent /\ y.last = x.last /\ y.threw = x.threw /\ y.track = x.track
    BY <1>0, <2>1, NoFrameTyped DEF OutputState
  <2> HIDE DEF y
  <2>4. CASE Wanted(o)
    BY <1>1, <1>4, <2>2, <2>3, <2>4 DEF Takes
  <2>5. CASE ~Wanted(o)
    BY <1>1, <1>4, <2>2, <2>3, <2>5 DEF Discards
  <2> QED
    BY <2>4, <2>5
<1>5. CASE WorkerWait(o)
  <2> DEFINE y == [x EXCEPT !.at = "wait"]
  <2>1. out' = [out EXCEPT ![o] = y] /\ x.at = "block"
    BY <1>5 DEF WorkerWait
  <2>2. y \in OutputState /\ y.at = "wait" /\ y.active = x.active /\ y.queue = x.queue
        /\ y.sent = x.sent /\ y.hand = x.hand /\ y.last = x.last /\ y.threw = x.threw
        /\ y.track = x.track
    BY <1>0 DEF OutputState
  <2> HIDE DEF y
  <2> QED
    BY <1>1, <2>1, <2>2 DEF Waits, Untouched
<1>6. CASE WorkerSends(o)
  <2> DEFINE y == [x EXCEPT !.at = "test", !.hand = NoFrame, !.threw = FALSE,
                            !.last = x.hand.n, !.sent = (x.sent + 1) % SentMod]
  <2>1. out' = [out EXCEPT ![o] = y] /\ x.at = "send" /\ x.track = "ready"
    BY <1>6 DEF WorkerSends, OutTypes
  <2>2. x.hand.n \in Nat /\ (x.sent + 1) % SentMod \in 0..SentMod - 1
    <3>1. x.hand.n \in Nat /\ x.sent \in Nat
      BY <1>0, VideoAssumption DEF OutputState, Frames
    <3> QED
      BY <3>1, VideoAssumption
  <2>3. y \in OutputState /\ y.active = x.active /\ y.queue = x.queue
        /\ y.at = "test" /\ y.last = x.hand.n /\ ~y.threw /\ y.track = x.track
        /\ y.sent = (x.sent + 1) % SentMod
    BY <1>0, <2>2, NoFrameTyped DEF OutputState
  <2> HIDE DEF y
  <2> QED
    BY <1>1, <2>1, <2>3 DEF SendsOne
<1>7. CASE WorkerThrows(o)
  <2> DEFINE y == [x EXCEPT !.at = "test", !.hand = NoFrame, !.threw = TRUE]
  <2>1. out' = [out EXCEPT ![o] = y] /\ x.at = "send"
    BY <1>7 DEF WorkerThrows, OutTypes
  <2>2. y \in OutputState /\ y.active = x.active /\ y.queue = x.queue
        /\ y.at = "test" /\ y.last = x.last /\ y.threw /\ y.track = x.track /\ y.sent = x.sent
    BY <1>0, NoFrameTyped DEF OutputState
  <2> HIDE DEF y
  <2> QED
    BY <1>1, <2>1, <2>2 DEF Throws
<1> QED
  BY <1>2, <1>3, <1>4, <1>5, <1>6, <1>7 DEF Worker

\* What the others do to an output.
Joins(o) == /\ Untouched(o) /\ out[o].at = "new" /\ out'[o].at = "test"
            /\ out'[o].active = out[o].active /\ out'[o].track \in {"new", "ready"}
Quits(o) == /\ Untouched(o) /\ out'[o].track = out[o].track /\ ~out'[o].active
            /\ out'[o].at = out[o].at \/ (out[o].at = "wait" /\ out'[o].at = "check")
Retracks(o) == /\ Untouched(o) /\ out'[o].at = out[o].at /\ out'[o].active = out[o].active
               /\ out[o].at # "new"
               /\ \/ out[o].track = "new" /\ out'[o].track = "ready"
                  \/ out[o].track = "ready" /\ out'[o].track = "closed"
Receives(o, frame) ==
    /\ out'[o].sent = out[o].sent /\ out'[o].hand = out[o].hand /\ out'[o].last = out[o].last
    /\ out'[o].threw = out[o].threw /\ out'[o].track = out[o].track
    /\ out'[o].active = out[o].active /\ out'[o].queue = Append(out[o].queue, frame)
    /\ out'[o].at = out[o].at \/ (out[o].at = "wait" /\ out'[o].at = "check")

LEMMA NotifiedFields ==
    ASSUME NEW w \in OutputState
    PROVE  /\ Notified(w) \in OutputState
           /\ Notified(w).queue = w.queue /\ Notified(w).sent = w.sent
           /\ Notified(w).hand = w.hand /\ Notified(w).last = w.last
           /\ Notified(w).threw = w.threw /\ Notified(w).track = w.track
           /\ Notified(w).active = w.active
           /\ Notified(w).at = w.at \/ (w.at = "wait" /\ Notified(w).at = "check")
<1>1. CASE w.at = "wait"
  BY <1>1 DEF Notified, OutputState
<1>2. CASE w.at # "wait"
  BY <1>2 DEF Notified
<1> QED
  BY <1>1, <1>2

LEMMA EndedFields ==
    ASSUME OutTypes, NEW o \in Outputs
    PROVE  /\ Ended(o) \in OutputState
           /\ out'[o] = Ended(o) => Quits(o)
<1> DEFINE w == [out[o] EXCEPT !.active = FALSE]
<1>1. /\ w \in OutputState /\ w.at = out[o].at /\ ~w.active /\ w.queue = out[o].queue
      /\ w.sent = out[o].sent /\ w.hand = out[o].hand /\ w.last = out[o].last
      /\ w.threw = out[o].threw /\ w.track = out[o].track
  BY DEF OutTypes, OutputState
<1>2. Ended(o) = Notified(w)
  BY DEF Ended
<1> HIDE DEF w
<1> QED
  BY <1>1, <1>2, NotifiedFields DEF Quits, Untouched

LEMMA PeerSteps ==
    ASSUME OutTypes, NEW o \in Outputs, Peer(o)
    PROVE  /\ OutTypes' /\ Beside(o)
           /\ \/ AddOutput(o) /\ Joins(o)
              \/ RemoveOutput(o) /\ Quits(o)
              \/ (TrackReady(o) \/ TrackCloses(o)) /\ Retracks(o)
<1> DEFINE x == out[o]
<1>0. x \in OutputState
  BY DEF OutTypes
<1>1. ASSUME NEW y \in OutputState, out' = [out EXCEPT ![o] = y]
      PROVE  OutTypes' /\ Beside(o) /\ out'[o] = y
  BY <1>1 DEF OutTypes, Beside
<1>2. CASE AddOutput(o)
  <2>1. PICK t \in {"new", "ready"} : out' = [out EXCEPT ![o].at = "test", ![o].track = t]
    BY <1>2 DEF AddOutput
  <2> DEFINE y == [x EXCEPT !.at = "test", !.track = t]
  <2>2. out' = [out EXCEPT ![o] = y]
    BY <2>1 DEF OutTypes
  <2>3. y \in OutputState /\ y.at = "test" /\ y.active = x.active /\ y.queue = x.queue
        /\ y.sent = x.sent /\ y.hand = x.hand /\ y.last = x.last /\ y.threw = x.threw
        /\ y.track = t
    BY <1>0 DEF OutputState
  <2>4. x.at = "new"
    BY <1>2 DEF AddOutput
  <2> HIDE DEF y
  <2> QED
    BY <1>1, <1>2, <2>2, <2>3, <2>4 DEF Joins, Untouched
<1>3. CASE RemoveOutput(o)
  <2>1. out' = [out EXCEPT ![o] = Ended(o)]
    BY <1>3 DEF RemoveOutput
  <2> QED
    BY <1>1, <1>3, <2>1, EndedFields
<1>4. ASSUME NEW t \in {"ready", "closed"}, out' = [out EXCEPT ![o].track = t]
      PROVE  OutTypes' /\ Beside(o) /\ Untouched(o) /\ out'[o].at = out[o].at
             /\ out'[o].active = out[o].active /\ out'[o].track = t
  <2> DEFINE y == [x EXCEPT !.track = t]
  <2>1. out' = [out EXCEPT ![o] = y]
    BY <1>4 DEF OutTypes
  <2>2. y \in OutputState /\ y.at = x.at /\ y.active = x.active /\ y.queue = x.queue
        /\ y.sent = x.sent /\ y.hand = x.hand /\ y.last = x.last /\ y.threw = x.threw
        /\ y.track = t
    BY <1>0 DEF OutputState
  <2> HIDE DEF y
  <2> QED
    BY <1>1, <2>1, <2>2 DEF Untouched
<1>5. CASE TrackReady(o)
  BY <1>4, <1>5 DEF TrackReady, Retracks
<1>6. CASE TrackCloses(o)
  BY <1>4, <1>6 DEF TrackCloses, Retracks
<1> QED
  BY <1>2, <1>3, <1>5, <1>6 DEF Peer

LEMMA PushSteps ==
    ASSUME OutTypes, PushTypes, WalkInv, Push
    PROVE  LET o == Head(push.rest)
               frame == [push.frame EXCEPT !.gap = (o \in lost)]
           IN  /\ OutTypes' /\ o \in Outputs
               /\ frame \in Frames /\ frame.key = push.frame.key /\ frame.n = push.frame.n
               /\ frame.gap = (o \in lost)
               /\ \/ out[o].at = "done" /\ out' = out
                  \/ out[o].at # "done" /\ Receives(o, frame) /\ Beside(o)
<1> DEFINE o == Head(push.rest)
           frame == [push.frame EXCEPT !.gap = (o \in lost)]
           x == out[o]
           w == [x EXCEPT !.queue = Append(x.queue, frame)]
<1>1. o \in Outputs
  BY TailSeq DEF Push, WalkInv, PushTypes
<1>2. x \in OutputState
  BY <1>1 DEF OutTypes
<1>3. frame \in Frames /\ frame.key = push.frame.key /\ frame.n = push.frame.n
      /\ frame.gap = (o \in lost)
  <2> DEFINE gap == o \in lost
  <2>1. gap \in BOOLEAN
    OBVIOUS
  <2>2. frame = [push.frame EXCEPT !.gap = gap]
    OBVIOUS
  <2> HIDE DEF gap, frame
  <2>3. frame \in Frames /\ frame.key = push.frame.key /\ frame.n = push.frame.n
        /\ frame.gap = gap
    BY <2>1, <2>2 DEF PushTypes, Frames
  <2> QED
    BY <2>3 DEF gap
<1>4. \/ x.at = "done" /\ out' = out
      \/ x.at # "done" /\ out' = [out EXCEPT ![o] = Notified(w)]
  BY DEF Push
<1> HIDE DEF o, frame
<1>5. /\ w \in OutputState /\ w.at = x.at /\ w.active = x.active
      /\ w.queue = Append(x.queue, frame)
      /\ w.sent = x.sent /\ w.hand = x.hand /\ w.last = x.last /\ w.threw = x.threw
      /\ w.track = x.track
  <2>1. Append(x.queue, frame) \in Seq(Frames)
    BY <1>2, <1>3, AppendProperties DEF OutputState
  <2> QED
    BY <1>2, <2>1 DEF OutputState
<1> HIDE DEF w
<1>6. CASE x.at = "done" /\ out' = out
  BY <1>1, <1>3, <1>6 DEF OutTypes, o, frame
<1>7. CASE x.at # "done" /\ out' = [out EXCEPT ![o] = Notified(w)]
  <2>1. out'[o] = Notified(w) /\ Beside(o) /\ OutTypes'
    BY <1>1, <1>5, <1>7, NotifiedFields DEF OutTypes, Beside
  <2>2. Receives(o, frame)
    BY <1>5, <2>1, NotifiedFields DEF Receives
  <2> QED
    BY <1>1, <1>3, <1>7, <2>1, <2>2 DEF o, frame
<1> QED
  BY <1>4, <1>6, <1>7

LEMMA StopSteps ==
    ASSUME OutTypes, StopEnd
    PROVE  /\ OutTypes'
           /\ \A o \in Outputs : \/ o \in ToSet(outs) /\ Quits(o)
                                 \/ o \notin ToSet(outs) /\ out'[o] = out[o]
<1>1. out' = [o \in Outputs |-> IF o \in ToSet(outs) THEN Ended(o) ELSE out[o]]
  BY DEF StopEnd
<1>2. \A o \in Outputs : out'[o] = IF o \in ToSet(outs) THEN Ended(o) ELSE out[o]
  BY <1>1
<1>3. OutTypes'
  BY <1>1, EndedFields DEF OutTypes
<1> QED
  BY <1>2, <1>3, EndedFields

-----------------------------------------------------------------------------
(* Outputs, the vector and the reader's life.                                *)

\* An output is added by AddOutput, and untouched before.
LEMMA NewSteps ==
    ASSUME OutTypes, PushTypes, WalkInv, NewInv, VectorInv, [Next]_vars
    PROVE  /\ OutTypes'
           /\ \A o \in Outputs : \/ out[o].at = "new" /\ out'[o] = out[o]
                                 \/ out[o].at # "new" /\ out'[o].at # "new"
                                 \/ AddOutput(o) /\ Joins(o)
<1> DEFINE Good(o) == \/ out[o].at = "new" /\ out'[o] = out[o]
                      \/ out[o].at # "new" /\ out'[o].at # "new"
                      \/ AddOutput(o) /\ Joins(o)
<1>0. ASSUME NEW o \in Outputs, out'[o] = out[o]
      PROVE  Good(o)
  BY <1>0
<1>2. ASSUME NEW o \in Outputs, Worker(o)
      PROVE  OutTypes' /\ \A p \in Outputs : Good(p)
  <2>1. OutTypes' /\ Beside(o) /\ out[o].at # "new" /\ out'[o].at # "new"
    BY <1>2, WorkerSteps DEF Waits, Ends, Takes, Discards, SendsOne, Throws
  <2> QED
    BY <1>0, <2>1 DEF Beside
<1>3. ASSUME NEW o \in Outputs, Peer(o)
      PROVE  OutTypes' /\ \A p \in Outputs : Good(p)
  <2>1. OutTypes' /\ Beside(o)
    BY <1>3, PeerSteps
  <2>2. Good(o)
    <3>1. CASE AddOutput(o) /\ Joins(o)
      BY <3>1
    <3>2. CASE RemoveOutput(o) /\ Quits(o)
      <4>1. out[o].at # "new"
        BY <3>2 DEF RemoveOutput, VectorInv
      <4> QED
        BY <3>2, <4>1 DEF Quits
    <3>3. CASE Retracks(o)
      BY <3>3 DEF Retracks
    <3> QED
      BY <1>3, <3>1, <3>2, <3>3, PeerSteps
  <2> HIDE DEF Good
  <2> QED
    BY <1>0, <2>1, <2>2 DEF Beside
<1>4. CASE Push
  <2> DEFINE o == Head(push.rest)
             frame == [push.frame EXCEPT !.gap = (o \in lost)]
  <2>1. /\ OutTypes' /\ o \in Outputs
        /\ out' = out \/ (Receives(o, frame) /\ Beside(o))
    BY <1>4, PushSteps
  <2>2. out[o].at # "new"
    <3>1. push.rest \in Seq(Outputs) /\ push.rest # <<>>
      BY <1>4 DEF Push, PushTypes, WalkInv
    <3>2. o \in ToSet(push.rest)
      BY <3>1, TailSeq
    <3> QED
      BY <3>2 DEF NewInv, Added
  <2> HIDE DEF o, frame
  <2>3. out' = out \/ (Good(o) /\ Beside(o))
    BY <2>1, <2>2 DEF Receives
  <2> HIDE DEF Good
  <2>4. CASE out' = out
    BY <1>0, <2>1, <2>4
  <2>5. CASE Good(o) /\ Beside(o)
    BY <1>0, <2>1, <2>5 DEF Beside, Good
  <2> QED
    BY <2>1, <2>3, <2>4, <2>5
<1>5. CASE StopEnd
  <2>1. \A o \in Outputs : \/ o \in ToSet(outs) /\ Quits(o)
                           \/ o \notin ToSet(outs) /\ out'[o] = out[o]
    BY <1>5, StopSteps
  <2>2. \A o \in ToSet(outs) : out[o].at # "new"
    BY DEF VectorInv
  <2>3. OutTypes'
    BY <1>5, StopSteps
  <2> QED
    BY <2>1, <2>2, <2>3 DEF Quits
<1>6. ASSUME Frame \/ Wake \/ SpinTest \/ SpinEnd \/ EncodeImage \/ Visit \/ Pushed \/ StopBegin
             \/ UNCHANGED vars
      PROVE  UNCHANGED out
  BY <1>6 DEF Frame, OnPacket, OnImage, Wake, SpinTest, SpinEnd, EncodeImage, Visit, Pushed,
              StopBegin, vars
<1> HIDE DEF Good
<1>7. OutTypes' /\ \A p \in Outputs : Good(p)
  <2>1. CASE UNCHANGED out
    BY <1>0, <2>1 DEF OutTypes
  <2> QED
    BY <1>2, <1>3, <1>4, <1>5, <1>6, <2>1 DEF Next, Spin, Stop, Good
<1> QED
  BY <1>7 DEF Good

LEMMA NewKept ==
    ASSUME ReaderTypes, EncTypes, OutTypes, OutsTypes, PushTypes, WalkInv, NewInv, VectorInv,
           [Next]_vars
    PROVE  NewInv'
<1>1. \A o \in Outputs : \/ out[o].at = "new" /\ out'[o] = out[o]
                         \/ out[o].at # "new" /\ out'[o].at # "new"
                         \/ AddOutput(o) /\ out'[o].at # "new"
  BY NewSteps DEF Joins
<1>2. \A o \in Outputs : out'[o].at = "new" => out'[o] = NoOutput
  BY <1>1 DEF NewInv
<1>3. Added \subseteq Added'
  BY <1>1 DEF Added
<1>4. IsFiniteSet(Added')
  <2>1. CASE Added' \subseteq Added
    BY <2>1, FS_Subset DEF NewInv
  <2>2. CASE \E o \in Outputs : AddOutput(o)
    <3>1. PICK o \in Outputs : AddOutput(o)
      BY <2>2
    <3>2. Beside(o)
      BY <3>1, PeerSteps DEF Peer
    <3>3. Added' \subseteq Added \cup {o}
      BY <3>2 DEF Added, Beside
    <3>4. IsFiniteSet(Added \cup {o})
      BY FS_AddElement DEF NewInv
    <3> QED
      BY <3>3, <3>4, FS_Subset
  <2> QED
    BY <1>1, <2>1, <2>2 DEF Added
<1>5. ToSet(push.rest)' \subseteq Added'
  <2>1. ToSet(outs) \subseteq Added
    BY DEF VectorInv, Added
  <2>2. CASE push'.rest = push.rest \/ push'.rest = outs \/ push'.rest = <<>>
    BY <1>3, <2>1, <2>2, NoSeq DEF NewInv
  <2>3. CASE Frame \/ EncodeImage
    BY <2>2, <2>3, FrameWalks DEF Begun
  <2>4. push.rest \in Seq(Outputs)
    BY DEF PushTypes
  <2>5. CASE push.rest # <<>> /\ push'.rest = Tail(push.rest)
    BY <1>3, <2>4, <2>5, TailSeq DEF NewInv
  <2>6. CASE Visit
    <3>1. push.rest # <<>> /\ (push'.rest = push.rest \/ push'.rest = Tail(push.rest))
      BY <2>6 DEF Visit, PushTypes
    <3> QED
      BY <2>2, <2>5, <3>1
  <2>7. CASE Push
    <3>1. push.rest # <<>>
      BY <2>7 DEF Push, WalkInv
    <3>2. CASE push' = [push EXCEPT !.at = "walk", !.rest = Tail(@)]
      BY <2>5, <3>1, <3>2 DEF PushTypes
    <3>3. ASSUME NEW S \in SUBSET Added,
                 push' = [push EXCEPT !.at = "walk", !.rest = SetToSeq(S), !.torn = FALSE]
          PROVE  ToSet(push.rest)' \subseteq Added'
      <4>1. SetToSeq(S) \in Seq(S)
        BY FS_Subset, SetSeq DEF NewInv
      <4>2. push'.rest = SetToSeq(S)
        BY <3>3 DEF PushTypes
      <4>3. ToSet(SetToSeq(S)) \subseteq S
        BY <4>1, SeqDomain DEF ToSet
      <4> QED
        BY <1>3, <4>2, <4>3
    <3> QED
      BY <2>7, <3>2, <3>3 DEF Push, Added
  <2>8. CASE Pushed
    BY <2>2, <2>8, NoPushFields DEF Pushed
  <2>9. CASE StopEnd
    BY <2>2, <2>9 DEF StopEnd
  <2>10. ASSUME NEW o \in Outputs, AddOutput(o) \/ RemoveOutput(o)
         PROVE  ToSet(push.rest)' \subseteq Added'
    BY <2>2, <2>10, TearSteps DEF AddOutput, RemoveOutput
  <2> QED
    BY <2>2, <2>3, <2>6, <2>7, <2>8, <2>9, <2>10, Others
<1> QED
  BY <1>2, <1>4, <1>5 DEF NewInv

\* Who changes which outputs are active.
LEMMA ActiveSteps ==
    ASSUME OutTypes, PushTypes, WalkInv, [Next]_vars
    PROVE  \/ StopEnd \/ \E o \in Outputs : AddOutput(o) \/ RemoveOutput(o)
           \/ UNCHANGED outs /\ \A o \in Outputs : out'[o].active = out[o].active
<1>1. ASSUME NEW o \in Outputs, Worker(o)
      PROVE  UNCHANGED outs /\ \A p \in Outputs : out'[p].active = out[p].active
  BY <1>1, WorkerSteps DEF Beside, Worker
<1>2. ASSUME NEW o \in Outputs, TrackReady(o) \/ TrackCloses(o)
      PROVE  UNCHANGED outs /\ \A p \in Outputs : out'[p].active = out[p].active
  <2>1. Beside(o) /\ out'[o].active = out[o].active
    <3>1. OutTypes /\ Peer(o)
      BY <1>2 DEF Peer
    <3>2. UNCHANGED outs /\ out[o].at # "new"
      BY <1>2 DEF TrackReady, TrackCloses
    <3>3. ~AddOutput(o)
      BY <3>2 DEF AddOutput
    <3>4. out' = [out EXCEPT ![o].track = "ready"] \/ out' = [out EXCEPT ![o].track = "closed"]
      BY <1>2 DEF TrackReady, TrackCloses
    <3>5. out'[o].active = out[o].active
      BY <3>4 DEF OutTypes, OutputState
    <3> QED
      BY <3>1, <3>5, PeerSteps
  <2> QED
    BY <1>2, <2>1 DEF Beside, TrackReady, TrackCloses
<1>3. CASE Push
  <2>1. \A p \in Outputs : out'[p].active = out[p].active
    BY <1>3, PushSteps DEF Receives, Beside
  <2> QED
    BY <1>3, <2>1 DEF Push
<1>4. ASSUME Frame \/ Wake \/ SpinTest \/ SpinEnd \/ EncodeImage \/ Visit \/ Pushed \/ StopBegin
             \/ UNCHANGED vars
      PROVE  UNCHANGED <<out, outs>>
  BY <1>4 DEF Frame, OnPacket, OnImage, Wake, SpinTest, SpinEnd, EncodeImage, Visit, Pushed,
              StopBegin, vars
<1> QED
  BY <1>1, <1>2, <1>3, <1>4 DEF Next, Spin, Stop, Peer

LEMMA VectorKept ==
    ASSUME OutTypes, OutsTypes, PushTypes, WalkInv, NewInv, VectorInv, [Next]_vars
    PROVE  OutsTypes' /\ Distinct(outs)' /\ VectorInv'
<1> USE DEF OutsTypes
<1>0. Distinct(outs)
  BY DEF WalkInv
<1>1. \A o \in Outputs : \/ out[o].at = "new" /\ out'[o].at = "new"
                         \/ out[o].at # "new" /\ out'[o].at # "new"
                         \/ AddOutput(o) /\ Joins(o)
  BY NewSteps
<1>2. ASSUME NEW o \in Outputs, AddOutput(o)
      PROVE  OutsTypes' /\ Distinct(outs)' /\ VectorInv'
  <2>1. outs' = Append(outs, o) /\ out[o].at = "new"
    BY <1>2 DEF AddOutput
  <2>2. o \notin ToSet(outs)
    BY <2>1 DEF VectorInv
  <2>3. Beside(o)
    BY <1>2, PeerSteps DEF Peer
  <2>4. out'[o].at = "test" /\ out'[o].active
    <3>1. out[o].active
      BY <2>1, NoOutputFields DEF NewInv
    <3>2. Joins(o)
      BY <1>2, <2>1, PeerSteps DEF Peer, RemoveOutput, Retracks, VectorInv
    <3> QED
      BY <3>1, <3>2 DEF Joins
  <2>5. OutsTypes' /\ Distinct(outs)' /\ ToSet(outs)' = ToSet(outs) \cup {o}
    BY <1>0, <2>1, <2>2, AppendSeq, AppendProperties
  <2>6. ToSet(outs)' = {p \in Outputs : out'[p].at # "new" /\ out'[p].active}
    BY <2>3, <2>4, <2>5 DEF VectorInv, Beside
  <2> QED
    BY <2>5, <2>6 DEF VectorInv
<1>3. ASSUME NEW o \in Outputs, RemoveOutput(o)
      PROVE  OutsTypes' /\ Distinct(outs)' /\ VectorInv'
  <2>1. PICK k \in DOMAIN outs : outs[k] = o /\ outs' = RemoveAt(outs, k)
    BY <1>3 DEF RemoveOutput
  <2>2. OutsTypes' /\ Distinct(outs)' /\ ToSet(outs)' = ToSet(outs) \ {o}
    BY <1>0, <2>1, RemoveSeq
  <2>3. Beside(o)
    BY <1>3, PeerSteps DEF Peer
  <2>4. ~out'[o].active
    <3>1. o \in ToSet(outs)
      BY <1>3 DEF RemoveOutput
    <3>2. out' = [out EXCEPT ![o] = Ended(o)]
      BY <1>3 DEF RemoveOutput
    <3> QED
      BY <3>2, EndedFields DEF Quits, OutTypes
  <2>5. out'[o].at # "new" \/ ~out'[o].active
    BY <2>4
  <2>6. ToSet(outs)' = {p \in Outputs : out'[p].at # "new" /\ out'[p].active}
    BY <2>2, <2>3, <2>4 DEF VectorInv, Beside
  <2> QED
    BY <2>2, <2>6 DEF VectorInv
<1>4. CASE StopEnd
  <2>1. outs' = <<>>
    BY <1>4 DEF StopEnd
  <2>2. \A o \in Outputs : ~(out'[o].at # "new" /\ out'[o].active)
    BY <1>4, StopSteps DEF Quits, VectorInv
  <2> QED
    BY <2>1, <2>2, NoSeq, EmptySeq DEF VectorInv
<1>5. CASE /\ UNCHANGED outs /\ \A o \in Outputs : out'[o].active = out[o].active
           /\ ~\E o \in Outputs : AddOutput(o)
  BY <1>0, <1>1, <1>5 DEF VectorInv
<1> QED
  BY <1>2, <1>3, <1>4, <1>5, ActiveSteps

LEMMA LifeKept ==
    ASSUME ReaderTypes, EncTypes, PushTypes, OutTypes, OutsTypes, WalkInv, NewInv, VectorInv,
           BusyInv, LifeInv, [Next]_vars
    PROVE  LifeInv'
<1>0. \A o \in Outputs : \/ out[o].at = "new" /\ out'[o].at = "new"
                         \/ out[o].at # "new" /\ out'[o].at # "new"
                         \/ AddOutput(o)
  BY NewSteps
<1>2. CASE Frame \/ EncodeImage
  <2>1. UNCHANGED <<reader.life, reader.running>>
    BY <1>2, FrameWalks
  <2>2. reader.thread # "none"
    BY <1>2 DEF Frame, OnPacket, OnImage, EncodeImage, BusyInv
  <2>3. UNCHANGED out
    BY <1>2, FrameWalks DEF Still
  <2> QED
    BY <2>1, <2>2, <2>3 DEF LifeInv
<1>3. CASE Wake \/ SpinTest \/ SpinEnd \/ Pushed
  <2>1. UNCHANGED <<reader.life, reader.running, out>> /\ reader.thread # "none"
    <3>1. \E t : reader' = [reader EXCEPT !.thread = t]
                 \/ (\E n : reader' = [reader EXCEPT !.thread = t, !.node = n])
      BY <1>3 DEF Wake, SpinTest, SpinEnd, Pushed
    <3>2. UNCHANGED <<reader.life, reader.running>>
      BY <3>1 DEF ReaderTypes
    <3> QED
      BY <1>3, <3>2 DEF Wake, SpinTest, SpinEnd, Pushed, BusyInv
  <2> QED
    BY <2>1 DEF LifeInv
<1>4. CASE Visit \/ Push \/ UNCHANGED vars
  <2>1. UNCHANGED reader /\ ~\E o \in Outputs : out[o].at = "new" /\ out'[o].at # "new"
    <3>1. CASE Visit \/ UNCHANGED vars
      BY <3>1 DEF Visit, vars
    <3>2. CASE Push
      <4>1. push.rest \in Seq(Outputs) /\ push.rest # <<>>
        BY <3>2 DEF Push, PushTypes, WalkInv
      <4>2. out[Head(push.rest)].at # "new"
        BY <4>1, TailSeq DEF NewInv, Added
      <4> QED
        BY <3>2, <4>2, PushSteps DEF Push, Beside
    <3> QED
      BY <1>4, <3>1, <3>2
  <2> QED
    BY <1>0, <1>4, <2>1 DEF LifeInv
<1>5. CASE Stop
  <2>1. CASE StopBegin
    BY <2>1 DEF StopBegin, LifeInv, ReaderTypes
  <2>2. CASE StopEnd
    BY <2>2 DEF StopEnd, LifeInv, ReaderTypes
  <2> QED
    BY <1>5, <2>1, <2>2 DEF Stop
<1>6. ASSUME NEW o \in Outputs, AddOutput(o)
      PROVE  LifeInv'
  <2>1. reader.life \in {"new", "live", "doomed"}
    BY <1>6 DEF AddOutput
  <2>2. CASE reader.running
    <3>1. reader' = reader /\ reader.life # "new"
      BY <1>6, <2>2 DEF AddOutput, Start, LifeInv
    <3> QED
      BY <2>1, <2>2, <3>1 DEF LifeInv
  <2>3. CASE ~reader.running
    <3>1. reader'.life = "live" /\ reader'.running
      BY <1>6, <2>3 DEF AddOutput, Start, ReaderTypes
    <3> QED
      BY <3>1 DEF LifeInv
  <2> QED
    BY <2>2, <2>3
<1>7. ASSUME NEW o \in Outputs, RemoveOutput(o) \/ TrackReady(o) \/ TrackCloses(o) \/ Worker(o)
      PROVE  LifeInv'
  <2>1. /\ reader'.running = reader.running /\ reader'.thread = reader.thread
        /\ reader'.life = reader.life \/ (reader.life # "new" /\ reader'.life = "doomed")
    BY <1>7 DEF RemoveOutput, TrackReady, TrackCloses, Worker, ReaderTypes
  <2>2. RemoveOutput(o) => reader.life \in {"live", "doomed"}
    BY DEF RemoveOutput
  <2>3. CASE reader.life = "new"
    <3>1. \A p \in Outputs : out[p].at = "new"
      BY <2>3 DEF LifeInv
    <3>2. FALSE
      BY <1>7, <2>2, <2>3, <3>1 DEF TrackReady, TrackCloses, Worker, WorkerTest, WorkerCheck,
                                    WorkerWait, WorkerSends, WorkerThrows
    <3> QED
      BY <3>2
  <2>4. CASE reader.life # "new"
    <3>1. CASE reader'.life = reader.life
      BY <2>1, <2>4, <3>1 DEF LifeInv
    <3>2. CASE RemoveOutput(o)
      <4>1. reader'.life \in {"live", "doomed"}
        BY <2>1, <2>2, <3>2
      <4> QED
        BY <2>1, <2>2, <3>2, <4>1 DEF LifeInv
    <3>3. CASE TrackReady(o) \/ TrackCloses(o) \/ Worker(o)
      BY <3>1, <3>3 DEF TrackReady, TrackCloses, Worker
    <3> QED
      BY <1>7, <3>2, <3>3
  <2> QED
    BY <2>3, <2>4
<1> QED
  BY <1>2, <1>3, <1>4, <1>5, <1>6, <1>7 DEF Next, Spin, Peer

LEMMA HistoryTyped ==
    ASSUME HistoryTypes, PushTypes, WalkInv, VectorInv, [Next]_vars
    PROVE  HistoryTypes'
<1> USE DEF HistoryTypes
<1>1. CASE UNCHANGED <<lost, missed>>
  BY <1>1
<1>2. CASE Visit
  <2>1. Head(push.rest) \in Outputs
    BY <1>2, TailSeq DEF Visit, PushTypes
  <2> QED
    BY <1>2, <2>1 DEF Visit
<1>3. CASE Push
  BY <1>3 DEF Push
<1>4. ASSUME NEW o \in Outputs, RemoveOutput(o)
      PROVE  HistoryTypes'
  BY <1>4 DEF RemoveOutput, Deaf
<1>5. CASE StopEnd
  BY <1>5 DEF StopEnd, Deaf, VectorInv
<1>6. ASSUME NEW o \in Outputs, AddOutput(o) \/ TrackReady(o) \/ TrackCloses(o) \/ Worker(o)
      PROVE  UNCHANGED <<lost, missed>>
  BY <1>6 DEF AddOutput, TrackReady, TrackCloses, Worker
<1>7. CASE Frame \/ Wake \/ SpinTest \/ SpinEnd \/ EncodeImage \/ Pushed \/ StopBegin
           \/ UNCHANGED vars
  BY <1>7 DEF Frame, OnPacket, OnImage, Wake, SpinTest, SpinEnd, EncodeImage, Pushed,
              StopBegin, vars
<1> QED
  BY <1>1, <1>2, <1>3, <1>4, <1>5, <1>6, <1>7 DEF Next, Spin, Stop, Peer

LEMMA NoEncoderFields ==
    /\ NoEncoder.format = "none" /\ ~NoEncoder.fresh /\ NoEncoder.held = <<>>
    /\ \A n : Numbered(NoEncoder.held, n)
<1>1. NoEncoder.format = "none" /\ ~NoEncoder.fresh /\ NoEncoder.held = <<>>
  BY DEF NoEncoder
<1>2. DOMAIN <<>> = {}
  OBVIOUS
<1> QED
  BY <1>1, <1>2 DEF Numbered

LEMMA VideoInitial == Init => Types /\ LifeInv /\ NewInv /\ WalkInv /\ EncoderInv
<1> SUFFICES ASSUME Init PROVE Types /\ LifeInv /\ NewInv /\ WalkInv /\ EncoderInv
  OBVIOUS
<1>1. /\ enc = NoEncoder /\ made = 0 /\ push = NoPush /\ outs = <<>> /\ lost = {} /\ missed = {}
      /\ out = [o \in Outputs |-> NoOutput]
      /\ reader = [life |-> "new", running |-> FALSE, node |-> FALSE, thread |-> "none"]
      /\ scene \in Scenarios
  BY DEF Init
<1>2. /\ NoEncoder \in [format : Formats \cup {"none", "error"}, fresh : BOOLEAN, held : Seq(Frames)]
      /\ NoEncoder.held = <<>> /\ Len(NoEncoder.held) = 0
  BY EmptySeq DEF NoEncoder
<1>3. SceneTypes
  BY <1>1, VideoAssumption DEF SceneTypes
<1>4. ReaderTypes /\ LifeInv
  BY <1>1, NoOutputFields DEF ReaderTypes, LifeInv
<1>5. EncTypes
  BY <1>1, <1>2, VideoAssumption DEF EncTypes
<1>6. PushTypes /\ BusyInv
  BY <1>1, NoPushFields DEF PushTypes, BusyInv
<1>7. OutTypes /\ OutsTypes /\ VectorInv /\ HistoryTypes
  BY <1>1, NoOutputFields, EmptySeq, NoSeq DEF OutTypes, OutsTypes, VectorInv, HistoryTypes
<1>8. NewInv
  <2>1. Added = {}
    BY <1>1, NoOutputFields DEF Added
  <2> QED
    BY <1>1, <2>1, FS_EmptySet, NoPushFields, NoSeq DEF NewInv
<1>9. WalkInv
  BY <1>1, NoPushFields, NoSeq DEF WalkInv
<1>10. EncoderInv
  BY <1>1, <1>2, NoPushFields, NoEncoderFields DEF EncoderInv
<1> QED
  BY <1>3, <1>4, <1>5, <1>6, <1>7, <1>8, <1>9, <1>10 DEF Types

LEMMA TypesKept ==
    ASSUME Types, LifeInv, NewInv, WalkInv, [Next]_vars
    PROVE  Types' /\ LifeInv' /\ NewInv' /\ WalkInv'
<1> USE DEF Types
<1>1. SceneTypes'
  BY SceneTyped
<1>2. ReaderTypes'
  BY ReaderTyped
<1>3. EncTypes'
  BY EncTyped
<1>4. PushTypes' /\ Distinct(push.rest)' /\ (push.at = "push" => push.rest # <<>>)'
  BY PushKept
<1>5. OutTypes'
  BY NewSteps
<1>6. OutsTypes' /\ VectorInv' /\ Distinct(outs)'
  BY VectorKept
<1>7. HistoryTypes'
  BY HistoryTyped
<1>8. BusyInv'
  BY BusyKept
<1>9. LifeInv' /\ NewInv'
  BY LifeKept, NewKept
<1> QED
  BY <1>1, <1>2, <1>3, <1>4, <1>5, <1>6, <1>7, <1>8, <1>9 DEF WalkInv

\* TypeOK for any outputs and formats, and any bound of the encoder: the vector
\* holds the outputs that were added and not ended, and a walk over it is under
\* way only while the spinning thread is in a callback.
THEOREM TypeCorrect == Spec => []TypeOK
<1> DEFINE Inv == Types /\ LifeInv /\ NewInv /\ WalkInv
<1>1. Init => Inv
  BY VideoInitial
<1>2. Inv /\ [Next]_vars => Inv'
  BY TypesKept
<1>3. Inv => TypeOK
  BY TypesCover
<1> QED
  BY <1>1, <1>2, <1>3, PTL DEF Spec

-----------------------------------------------------------------------------
(* The encoder.                                                              *)

LEMMA AppendNumbered ==
    ASSUME NEW s \in Seq(Frames), NEW n \in Nat, Numbered(s, n),
           NEW f \in Frames, f.n = n + 1
    PROVE  /\ Append(s, f) \in Seq(Frames) /\ Append(s, f) # <<>>
           /\ Numbered(Append(s, f), n + 1)
           /\ Head(Append(s, f)) = IF s = <<>> THEN f ELSE Head(s)
<1> DEFINE r == Append(s, f)
<1>1. /\ r \in Seq(Frames) /\ Len(r) = Len(s) + 1 /\ r[Len(s) + 1] = f
      /\ \A i \in 1..Len(s) : r[i] = s[i]
  BY AppendProperties
<1>2. Len(s) \in Nat /\ DOMAIN s = 1..Len(s) /\ DOMAIN r = 1..Len(s) + 1 /\ r # <<>>
  BY <1>1, SeqDomain
<1>3. Head(r) = IF s = <<>> THEN f ELSE Head(s)
  BY HeadTailAppend
<1> HIDE DEF r
<1>4. \A i \in 1..Len(s) : s[i].n \in Nat
  <2>1. \A i \in 1..Len(s) : s[i] \in Frames
    BY SeqDomain
  <2> QED
    BY <2>1 DEF Frames
<1>5. Numbered(r, n + 1)
  <2>1. ASSUME NEW i \in 1..Len(s) + 1
        PROVE  r[i].n + Len(r) = n + 1 + i
    <3>1. CASE i = Len(s) + 1
      BY <1>1, <1>2, <3>1
    <3>2. CASE i \in 1..Len(s)
      <4>1. s[i].n + Len(s) = n + i /\ r[i].n = s[i].n /\ s[i].n \in Nat
        BY <1>1, <1>2, <1>4, <3>2 DEF Numbered
      <4> QED
        BY <1>1, <1>2, <4>1
    <3> QED
      BY <1>2, <3>1, <3>2
  <2> QED
    BY <1>2, <2>1 DEF Numbered
<1> QED
  BY <1>1, <1>2, <1>3, <1>5 DEF r

LEMMA TailNumbered ==
    ASSUME NEW s \in Seq(Frames), NEW n \in Nat, Numbered(s, n), s # <<>>
    PROVE  /\ Numbered(Tail(s), n)
           /\ Tail(s) # <<>> => Head(Tail(s)).n = Head(s).n + 1
           /\ Tail(s) = <<>> => Head(s).n = n
<1> DEFINE r == Tail(s)
<1>1. /\ r \in Seq(Frames) /\ Len(r) = Len(s) - 1
      /\ \A i \in 1..Len(r) : r[i] = s[i + 1]
  BY HeadTailProperties
<1>2. /\ Len(s) \in Nat /\ DOMAIN s = 1..Len(s) /\ DOMAIN r = 1..Len(s) - 1
      /\ Head(s) = s[1] /\ Len(s) > 0
      /\ r # <<>> <=> Len(r) > 0
      /\ r # <<>> => Head(r) = r[1]
  BY <1>1, SeqDomain
<1> HIDE DEF r
<1>3. \A i \in 1..Len(s) : s[i].n \in Nat /\ s[i].n + Len(s) = n + i
  <2>1. \A i \in 1..Len(s) : s[i] \in Frames
    BY SeqDomain
  <2>2. \A i \in 1..Len(s) : s[i].n \in Nat
    BY <2>1 DEF Frames
  <2> QED
    BY <1>2, <2>2 DEF Numbered
<1>4. Numbered(r, n)
  <2>1. ASSUME NEW i \in 1..Len(s) - 1
        PROVE  r[i].n + Len(r) = n + i
    <3>1. /\ i + 1 \in 1..Len(s) /\ r[i] = s[i + 1]
      BY <1>1, <1>2
    <3>2. s[i + 1].n \in Nat /\ s[i + 1].n + Len(s) = n + (i + 1)
      BY <1>3, <3>1
    <3>3. i \in Nat /\ Len(s) \in Nat /\ Len(r) = Len(s) - 1
      BY <1>1, <1>2
    <3> QED
      BY <3>1, <3>2, <3>3
  <2> QED
    BY <1>2, <2>1 DEF Numbered
<1>5. s[1].n \in Nat /\ s[1].n + Len(s) = n + 1
  BY <1>2, <1>3
<1>6. r # <<>> => s[2].n \in Nat /\ s[2].n + Len(s) = n + 2 /\ r[1] = s[2]
  <2>1. ASSUME r # <<>> PROVE 2 \in 1..Len(s) /\ 1 \in 1..Len(r)
    BY <1>1, <1>2, <2>1
  <2> QED
    BY <1>1, <1>3, <2>1
<1>7. r # <<>> => Head(r).n = Head(s).n + 1
  BY <1>2, <1>5, <1>6
<1>8. r = <<>> => Head(s).n = n
  BY <1>1, <1>2, <1>5
<1> QED
  BY <1>4, <1>7, <1>8 DEF r

\* What onEncodedFrame goes on with.
LEMMA WalkThen ==
    ASSUME NEW frame, NEW then, Walk(frame, then)
    PROVE  push'.then = then
<1> QED
  BY NoPushFields DEF Walk

\* Who changes the encoder, or what is next for it.
LEMMA EncoderOthers ==
    ASSUME SceneTypes, PushTypes, [Next]_vars
    PROVE  \/ Frame \/ EncodeImage
           \/ UNCHANGED made /\ push'.then = push.then /\ (StopEnd \/ UNCHANGED enc)
<1>1. CASE Visit \/ Push
  <2>1. push'.then = push.then
    BY <1>1 DEF Visit, Push, PushTypes
  <2> QED
    BY <1>1, <2>1 DEF Visit, Push
<1>2. CASE Pushed
  <2>1. push.then \in AnyFormat \cup {"none"}
    BY DEF PushTypes
  <2> QED
    BY <1>2, <2>1, NoPushFields DEF Pushed
<1>3. CASE StopEnd
  BY <1>3 DEF StopEnd
<1>4. ASSUME NEW o \in Outputs, AddOutput(o) \/ RemoveOutput(o)
      PROVE  UNCHANGED <<enc, made>> /\ push'.then = push.then
  BY <1>4, TearSteps DEF AddOutput, RemoveOutput
<1> QED
  BY <1>1, <1>2, <1>3, <1>4, Others

LEMMA EncoderKept ==
    ASSUME SceneTypes, EncTypes, PushTypes, EncoderInv, [Next]_vars
    PROVE  EncoderInv'
<1>1. scene'.source = scene.source
  BY SceneTyped
<1>2. /\ Numbered(enc.held, made) /\ enc.held \in Seq(Frames) /\ made \in Nat
      /\ enc.fresh \/ enc.format \in {"none", "error"} => enc.held = <<>>
      /\ push.then # "none" => enc.format \in {"none", push.then}
      /\ scene.source = "packets" => enc = NoEncoder /\ push.then = "none"
  BY DEF EncoderInv, Numbered, EncTypes
<1> DEFINE Kept == /\ Numbered(enc'.held, made')
                   /\ enc'.fresh \/ enc'.format \in {"none", "error"} => enc'.held = <<>>
                   /\ push'.then # "none" => enc'.format \in {"none", push'.then}
                   /\ scene.source = "packets" => enc' = NoEncoder /\ push'.then = "none"
<1>3. SUFFICES Kept
  BY <1>1 DEF EncoderInv, Numbered
<1>4. CASE OnPacket
  <2>1. enc' = enc /\ scene.source = "packets" /\ push'.then = "none"
    BY <1>4, PacketSteps, WalkThen
  <2> QED
    BY <1>2, <2>1, NoEncoderFields
<1>5. CASE OnImage
  <2>1. scene.source = "images" /\ made' = made
    BY <1>5, ImageSteps
  <2>2. CASE UNCHANGED <<enc, push>>
    BY <1>2, <2>1, <2>2
  <2>3. ASSUME NEW f \in AnyFormat, push' = [NoPush EXCEPT !.then = f],
               \/ enc' = enc /\ enc.format = f
               \/ enc' = NoEncoder
        PROVE  Kept
    BY <1>2, <2>1, <2>3, NoPushFields, NoEncoderFields
  <2>4. ASSUME NEW f \in AnyFormat, enc' = NoEncoder, Walk(Head(enc.held), f)
        PROVE  Kept
    BY <2>1, <2>4, NoEncoderFields, WalkThen
  <2> QED
    BY <1>5, <2>2, <2>3, <2>4, ImageSteps
<1>6. CASE EncodeImage
  <2>1. push.then # "none" /\ scene.source # "packets"
    BY <1>2, <1>6, EncodeSteps
  <2>2. ASSUME push.then \in Formats, made' = made + 1, enc'.format = push.then, ~enc'.fresh,
               NEW new \in Frames, new.n = made + 1,
               \/ enc'.held = Append(enc.held, new) /\ push' = NoPush
               \/ enc'.held = Tail(Append(enc.held, new))
                  /\ Walk(Head(Append(enc.held, new)), "none")
        PROVE  Kept
    <3>1. push'.then = "none"
      BY <2>2, WalkThen, NoPushFields
    <3>2. /\ Append(enc.held, new) \in Seq(Frames) /\ Append(enc.held, new) # <<>>
          /\ Numbered(Append(enc.held, new), made + 1)
      BY <1>2, <2>2, AppendNumbered
    <3>4. Numbered(Tail(Append(enc.held, new)), made + 1)
      <4>1. made + 1 \in Nat
        BY <1>2
      <4> QED
        BY <3>2, <4>1, TailNumbered
    <3>5. Numbered(enc'.held, made')
      BY <2>2, <3>2, <3>4
    <3>3. enc'.format \notin {"none", "error"}
      BY <2>2, VideoAssumption
    <3> QED
      BY <2>1, <2>2, <3>1, <3>3, <3>5
  <2>3. CASE /\ push.then \in Formats /\ UNCHANGED made /\ push' = NoPush
             /\ enc'.held = enc.held /\ enc'.format = push.then
             /\ enc'.fresh = (enc.fresh \/ enc.format = "none")
    <3>1. enc'.format \notin {"none", "error"}
      BY <2>3, VideoAssumption
    <3> QED
      BY <1>2, <2>1, <2>3, <3>1, NoPushFields
  <2>4. CASE /\ UNCHANGED made /\ push' = NoPush /\ enc.format = "none"
             /\ enc' = enc \/ (enc'.held = <<>> /\ enc'.format = "error" /\ ~enc'.fresh)
    <3>1. Numbered(<<>>, made)
      BY NoEncoderFields
    <3> QED
      BY <1>2, <2>1, <2>4, <3>1, NoPushFields
  <2> QED
    BY <1>6, <2>2, <2>3, <2>4, EncodeSteps
<1>7. CASE UNCHANGED made /\ push'.then = push.then /\ (StopEnd \/ UNCHANGED enc)
  <2>1. CASE UNCHANGED enc
    BY <1>2, <1>7, <2>1
  <2>2. CASE enc' = NoEncoder
    BY <1>2, <1>7, <2>2, NoEncoderFields
  <2> QED
    BY <1>7, <2>1, <2>2 DEF StopEnd
<1> QED
  BY <1>4, <1>5, <1>6, <1>7, EncoderOthers DEF Frame

-----------------------------------------------------------------------------
(* The stream of an output.                                                  *)

\* Only the first output starts the reader.
LEMMA RunningKept ==
    ASSUME ReaderTypes, EncTypes, PushTypes, OutsTypes, LifeInv, [Next]_vars, reader'.running
    PROVE  reader.running \/ reader.life = "new"
<1>1. CASE Frame \/ EncodeImage
  BY <1>1, FrameWalks
<1>2. CASE Wake \/ SpinTest \/ SpinEnd \/ Pushed
  <2>1. \E t : reader' = [reader EXCEPT !.thread = t]
               \/ (\E n : reader' = [reader EXCEPT !.thread = t, !.node = n])
    BY <1>2 DEF Wake, SpinTest, SpinEnd, Pushed
  <2> QED
    BY <2>1 DEF ReaderTypes
<1>3. CASE StopBegin \/ StopEnd
  BY <1>3 DEF StopBegin, StopEnd, ReaderTypes
<1>4. ASSUME NEW o \in Outputs, AddOutput(o)
      PROVE  reader.running \/ reader.life = "new"
  BY <1>4 DEF AddOutput, LifeInv
<1>5. ASSUME NEW o \in Outputs, RemoveOutput(o)
      PROVE  reader.running \/ reader.life = "new"
  BY <1>5 DEF RemoveOutput, ReaderTypes
<1>6. ASSUME NEW o \in Outputs, TrackReady(o) \/ TrackCloses(o) \/ Worker(o)
      PROVE  reader.running
  BY <1>6 DEF TrackReady, TrackCloses, Worker
<1>7. CASE Visit \/ Push \/ UNCHANGED vars
  BY <1>7 DEF Visit, Push, vars
<1> QED
  BY <1>1, <1>2, <1>3, <1>4, <1>5, <1>6, <1>7 DEF Next, Spin, Stop, Peer

\* What a step does to an output.
Steps(o) == /\ out'[o].active = out[o].active
            /\ Waits(o) \/ Ends(o) \/ Takes(o) \/ Discards(o) \/ SendsOne(o) \/ Throws(o)
Pushes(o) == /\ Push /\ o = Head(push.rest) /\ out[o].at # "done"
             /\ \E frame \in Frames :
                  /\ frame.n = push.frame.n /\ frame.key = push.frame.key
                  /\ frame.gap = (o \in lost) /\ Receives(o, frame)
LEMMA OutputSteps ==
    ASSUME OutTypes, PushTypes, WalkInv, [Next]_vars, NEW o \in Outputs
    PROVE  /\ OutTypes'
           /\ \/ out'[o] = out[o] \/ Joins(o) \/ Quits(o) \/ Pushes(o)
              \/ UNCHANGED <<enc, made, push, outs, lost, reader>>
                 /\ (Retracks(o) \/ Steps(o))
<1>1. ASSUME NEW p \in Outputs, Worker(p)
      PROVE  /\ OutTypes'
             /\ \/ out'[o] = out[o]
                \/ UNCHANGED <<enc, made, push, outs, lost, reader>> /\ Steps(o)
  <2>1. UNCHANGED <<enc, made, push, outs, lost, reader>>
    BY <1>1 DEF Worker
  <2> QED
    BY <1>1, <2>1, WorkerSteps DEF Beside, Steps
<1>2. ASSUME NEW p \in Outputs, Peer(p)
      PROVE  /\ OutTypes'
             /\ \/ out'[o] = out[o] \/ Joins(o) \/ Quits(o)
                \/ UNCHANGED <<enc, made, push, outs, lost, reader>> /\ Retracks(o)
  <2>1. ASSUME TrackReady(p) \/ TrackCloses(p)
        PROVE  UNCHANGED <<enc, made, push, outs, lost, reader>>
    BY <2>1 DEF TrackReady, TrackCloses
  <2> QED
    BY <1>2, <2>1, PeerSteps DEF Beside
<1>3. CASE Push
  <2> DEFINE p == Head(push.rest)
             frame == [push.frame EXCEPT !.gap = (p \in lost)]
  <2>1. /\ OutTypes' /\ p \in Outputs
        /\ frame \in Frames /\ frame.key = push.frame.key /\ frame.n = push.frame.n
        /\ frame.gap = (p \in lost)
        /\ \/ out[p].at = "done" /\ out' = out
           \/ out[p].at # "done" /\ Receives(p, frame) /\ Beside(p)
    BY <1>3, PushSteps
  <2> HIDE DEF p, frame
  <2>2. CASE o # p \/ out' = out
    BY <2>1, <2>2 DEF Beside
  <2>3. CASE o = p /\ out[p].at # "done" /\ Receives(p, frame)
    <3>1. Pushes(o)
      BY <1>3, <2>1, <2>3 DEF Pushes, p
    <3> QED
      BY <2>1, <3>1
  <2> QED
    BY <2>1, <2>2, <2>3
<1>4. CASE StopEnd
  BY <1>4, StopSteps
<1>5. CASE Frame \/ Wake \/ SpinTest \/ SpinEnd \/ EncodeImage \/ Visit \/ Pushed \/ StopBegin
           \/ UNCHANGED vars
  <2>1. UNCHANGED out
    BY <1>5 DEF Frame, OnPacket, OnImage, Wake, SpinTest, SpinEnd, EncodeImage, Visit, Pushed,
                StopBegin, vars
  <2> QED
    BY <2>1 DEF OutTypes
<1> QED
  BY <1>1, <1>2, <1>3, <1>4, <1>5 DEF Next, Spin, Stop, Peer

\* An output that sends either sent before, or begins to.
Begins(o) == (out[o].at = "new" \/ out[o].track = "new") /\ Blank(o)'
LEMMA SendsSteps ==
    ASSUME ReaderTypes, EncTypes, OutTypes, OutsTypes, PushTypes, LifeInv, NewInv, WalkInv,
           TrackInv, [Next]_vars, NEW o \in Outputs, Sends(o)'
    PROVE  /\ Sends(o) \/ Begins(o)
           /\ out[o].at = "new" => Joins(o)
<1>0. out'[o].active /\ reader'.running /\ out'[o].track = "ready"
      /\ out'[o].at \notin {"new", "done"}
  BY DEF Sends, Wanted
<1>1. CASE out[o].at = "new"
  <2>1. out[o].queue = <<>> /\ out[o].sent = 0 /\ ~Pending(o)
    BY <1>1, NoOutputFields DEF NewInv, Pending
  <2>2. Joins(o)
    <3>1. ~Pushes(o)
      <4>1. Pushes(o) => push.rest \in Seq(Outputs) /\ push.rest # <<>>
        BY DEF Pushes, Push, PushTypes, WalkInv
      <4>2. Pushes(o) => o \in ToSet(push.rest)
        BY <4>1, TailSeq DEF Pushes
      <4> QED
        BY <1>1, <4>2 DEF NewInv, Added
    <3> QED
      BY <1>0, <1>1, <3>1, OutputSteps DEF Quits, Retracks, Steps, Waits, Ends, Takes, Discards,
                                           SendsOne, Throws
  <2>3. Blank(o)'
    BY <2>1, <2>2 DEF Blank, Pending, Joins, Untouched
  <2> QED
    BY <1>1, <2>2, <2>3 DEF Begins
<1>2. CASE out[o].at # "new"
  <2>1. reader.running
    BY <1>0, <1>2, RunningKept DEF LifeInv
  <2>2. out[o].active /\ out[o].at # "done"
    BY <1>0, <1>2, OutputSteps DEF Joins, Quits, Pushes, Receives, Retracks, Steps, Waits, Ends,
                                   Takes, Discards, SendsOne, Throws
  <2>3. CASE out[o].track = "new"
    <3>1. ~Pending(o) /\ out[o].sent = 0
      BY <2>3 DEF TrackInv
    <3>2. Retracks(o)
      BY <1>0, <1>2, <2>3, OutputSteps DEF Joins, Quits, Pushes, Receives, Steps, Waits, Ends,
                                           Takes, Discards, SendsOne, Throws
    <3>3. Blank(o)'
      BY <3>1, <3>2 DEF Retracks, Untouched, Blank, Pending
    <3> QED
      BY <1>2, <2>3, <3>3 DEF Begins
  <2>4. CASE out[o].track # "new"
    <3>1. out[o].track = "ready"
      BY <1>0, <1>2, <2>4, OutputSteps DEF Joins, Quits, Pushes, Receives, Retracks, Steps, Waits,
                                           Ends, Takes, Discards, SendsOne, Throws
    <3> QED
      BY <1>2, <2>1, <2>2, <3>1 DEF Sends, Wanted
  <2> QED
    BY <1>2, <2>3, <2>4
<1> QED
  BY <1>1, <1>2

LEMMA ChainTail ==
    ASSUME NEW s \in Seq(Frames), s # <<>>, Chain(s)
    PROVE  /\ Tail(s) \in Seq(Frames) /\ Chain(Tail(s)) /\ Head(s) \in Frames
           /\ Tail(s) # <<>> => /\ Fine(Head(Tail(s)), Head(s).n)
                                /\ Last(Tail(s)) = Last(s)
           /\ Tail(s) = <<>> => Last(s) = Head(s)
<1> DEFINE r == Tail(s)
<1>1. /\ r \in Seq(Frames) /\ Len(r) = Len(s) - 1 /\ Head(s) \in Frames
      /\ \A i \in 1..Len(r) : r[i] = s[i + 1]
  BY HeadTailProperties
<1>2. /\ Len(s) \in Nat /\ Head(s) = s[1] /\ Len(s) > 0 /\ Len(r) \in Nat
      /\ r # <<>> <=> Len(r) > 0
      /\ r # <<>> => Head(r) = r[1]
  BY <1>1, SeqDomain
<1> HIDE DEF r
<1>3. Chain(r)
  <2>1. ASSUME NEW i \in 1..Len(r) - 1
        PROVE  Fine(r[i + 1], r[i].n)
    <3>1. r[i] = s[i + 1] /\ r[i + 1] = s[(i + 1) + 1] /\ i + 1 \in 1..Len(s) - 1
      BY <1>1, <1>2
    <3> QED
      BY <3>1 DEF Chain
  <2> QED
    BY <2>1 DEF Chain
<1>4. ASSUME r # <<>>
      PROVE  Fine(Head(r), Head(s).n) /\ Last(r) = Last(s)
  <2>1. 1 \in 1..Len(s) - 1 /\ r[1] = s[1 + 1] /\ Len(r) \in 1..Len(r)
    BY <1>1, <1>2, <1>4
  <2>2. Fine(s[1 + 1], s[1].n)
    BY <2>1 DEF Chain
  <2>3. r[Len(r)] = s[Len(s)]
    BY <1>1, <1>2, <2>1
  <2> QED
    BY <1>2, <1>4, <2>1, <2>2, <2>3 DEF Last
<1>5. r = <<>> => Last(s) = Head(s)
  BY <1>1, <1>2 DEF Last
<1> QED
  BY <1>1, <1>3, <1>4, <1>5 DEF r

LEMMA ChainAppend ==
    ASSUME NEW s \in Seq(Frames), Chain(s), NEW f \in Frames, s # <<>> => Fine(f, Last(s).n)
    PROVE  /\ Append(s, f) # <<>> /\ Chain(Append(s, f)) /\ Last(Append(s, f)) = f
           /\ Head(Append(s, f)) = IF s = <<>> THEN f ELSE Head(s)
<1> DEFINE r == Append(s, f)
<1>1. /\ r \in Seq(Frames) /\ Len(r) = Len(s) + 1 /\ r[Len(s) + 1] = f
      /\ \A i \in 1..Len(s) : r[i] = s[i]
  BY AppendProperties
<1>2. Len(s) \in Nat /\ r # <<>> /\ (s # <<>> <=> Len(s) > 0)
  BY <1>1, SeqDomain
<1>3. Head(r) = IF s = <<>> THEN f ELSE Head(s)
  BY HeadTailAppend
<1> HIDE DEF r
<1>4. ASSUME NEW i \in 1..Len(r) - 1
      PROVE  Fine(r[i + 1], r[i].n)
  <2>1. i \in 1..Len(s) /\ r[i] = s[i]
    BY <1>1, <1>2
  <2>2. CASE i = Len(s)
    <3>1. r[i + 1] = f /\ s # <<>> /\ r[i] = Last(s)
      BY <1>1, <1>2, <2>1, <2>2 DEF Last
    <3> QED
      BY <3>1
  <2>3. CASE i \in 1..Len(s) - 1
    <3>1. i + 1 \in 1..Len(s)
      BY <1>2, <2>3
    <3>2. r[i + 1] = s[i + 1]
      BY <1>1, <3>1
    <3> QED
      BY <2>1, <2>3, <3>2 DEF Chain
  <2> QED
    BY <1>2, <2>1, <2>2, <2>3
<1>5. Chain(r)
  BY <1>4 DEF Chain
<1> QED
  BY <1>1, <1>2, <1>3, <1>5 DEF Last, r

LEMMA AppendLast ==
    ASSUME NEW s \in Seq(Frames), NEW f \in Frames
    PROVE  Append(s, f) # <<>> /\ Last(Append(s, f)) = f
<1>1. Append(s, f) \in Seq(Frames) /\ Len(Append(s, f)) = Len(s) + 1 /\ Append(s, f)[Len(s) + 1] = f
  BY AppendProperties
<1>2. Len(s) \in Nat
  BY SeqDomain
<1> DEFINE r == Append(s, f)
<1> HIDE DEF r
<1>3. r # <<>>
  <2>1. r \in Seq(Frames) /\ Len(r) > 0
    BY <1>1, <1>2 DEF r
  <2> QED
    BY <2>1, SeqDomain
<1> QED
  BY <1>1, <1>3 DEF Last, r

\* What a step does to an output that sends before and after it.
LEMMA SendingSteps ==
    ASSUME OutTypes, PushTypes, WalkInv, [Next]_vars,
           NEW o \in Outputs, Sends(o), Sends(o)'
    PROVE  \/ out'[o] = out[o] \/ Pushes(o)
           \/ UNCHANGED <<enc, made, push, outs, lost, reader>>
              /\ (Waits(o) \/ Takes(o) \/ SendsOne(o) \/ Throws(o))
<1>1. Wanted(o) /\ out[o].track = "ready" /\ out[o].at \notin {"new", "done"}
      /\ out'[o].active /\ out'[o].track = "ready" /\ out'[o].at # "done"
  BY DEF Sends, Wanted
<1> QED
  BY <1>1, OutputSteps DEF Joins, Quits, Retracks, Steps, Ends, Discards

LEMMA HandKept ==
    ASSUME OutTypes, PushTypes, WalkInv, HandInv, QueueInv, TrackInv, [Next]_vars
    PROVE  HandInv'
<1> SUFFICES ASSUME NEW o \in Outputs, out'[o].at = "send", out'[o].track = "ready"
             PROVE  Fine(out'[o].hand, out'[o].last) \/ out'[o].threw
  BY DEF HandInv, Fine
<1>1. CASE Takes(o) /\ UNCHANGED reader
  <2>1. out[o].at # "send" /\ out[o].track = "ready" /\ Sends(o) /\ out[o].queue # <<>>
    BY <1>1 DEF Takes, Sends
  <2>2. Fine(Head(out[o].queue), Latest(o)) \/ out[o].threw
    BY <2>1 DEF QueueInv
  <2> QED
    BY <1>1, <2>1, <2>2 DEF Takes, Latest
<1>2. CASE ~Takes(o)
  <2>1. /\ out[o].at = "send" /\ out[o].track = "ready"
        /\ out'[o].hand = out[o].hand /\ out'[o].last = out[o].last /\ out'[o].threw = out[o].threw
    BY <1>2, OutputSteps DEF Joins, Quits, Pushes, Receives, Retracks, Untouched, Steps, Waits,
                             Ends, Discards, SendsOne, Throws, TrackInv,
                             Pending
  <2> QED
    BY <2>1 DEF HandInv
<1>3. Takes(o) => UNCHANGED reader
  BY OutputSteps DEF Takes, Joins, Quits, Pushes, Receives, Untouched
<1> QED
  BY <1>1, <1>2, <1>3

LEMMA TrackKept ==
    ASSUME OutTypes, PushTypes, WalkInv, NewInv, TrackInv, PushInv, [Next]_vars
    PROVE  TrackInv'
<1> SUFFICES ASSUME NEW o \in Outputs, out'[o].track = "new"
             PROVE  ~Pending(o)' /\ out'[o].sent = 0
  BY DEF TrackInv
<1>1. CASE Joins(o)
  BY <1>1, NoOutputFields DEF Joins, Untouched, Pending, NewInv
<1>2. CASE Ends(o)
  BY <1>2 DEF Ends, Pending
<1>3. CASE ~Joins(o) /\ ~Ends(o)
  <2>1. ~Pushes(o)
    BY DEF PushInv, Pushes, Push, Receives
  <2>2. out[o].track = "new"
    BY <1>3, <2>1, OutputSteps DEF Quits, Retracks, Steps, Waits, Takes, Discards, SendsOne,
                                   Throws
  <2>3. ~Pending(o) /\ out[o].sent = 0
    BY <2>2 DEF TrackInv
  <2> QED
    BY <1>3, <2>1, <2>2, <2>3, OutputSteps DEF Quits, Retracks, Untouched, Steps, Waits, Takes,
                                   Discards, SendsOne, Throws, Pending
<1> QED
  BY <1>1, <1>2, <1>3

\* The queues stay chains.
LEMMA QueueKept ==
    ASSUME ReaderTypes, EncTypes, OutTypes, OutsTypes, PushTypes, LifeInv, NewInv, WalkInv,
           TrackInv, QueueInv, PushInv, [Next]_vars
    PROVE  QueueInv'
<1> SUFFICES ASSUME NEW o \in Outputs, Sends(o)', out'[o].queue # <<>>
             PROVE  /\ \/ Fine(Head(out'[o].queue), Latest(o)')
                       \/ out'[o].threw /\ out'[o].at # "send"
                    /\ Chain(out'[o].queue)
  BY DEF QueueInv, Chain, Fine
<1> DEFINE s == out[o].queue
<1>1. s \in Seq(Frames)
  BY DEF OutTypes, OutputState
<1>2. Sends(o)
  <2>1. Sends(o) \/ Begins(o)
    BY SendsSteps
  <2> QED
    BY <2>1 DEF Begins, Blank, Pending
<1>3. s # <<>> => /\ Fine(Head(s), Latest(o)) \/ (out[o].threw /\ out[o].at # "send")
                  /\ Chain(s)
  BY <1>2 DEF QueueInv, Chain
<1>4. CASE out'[o] = out[o]
  BY <1>3, <1>4 DEF Latest
<1>5. CASE Waits(o)
  BY <1>3, <1>5 DEF Waits, Untouched, Latest
<1>6. CASE Takes(o)
  <2>1. Fine(Head(Tail(s)), Head(s).n) /\ Chain(Tail(s))
    BY <1>1, <1>3, <1>6, ChainTail DEF Takes
  <2> QED
    BY <1>6, <2>1 DEF Takes, Latest
<1>7. CASE SendsOne(o)
  BY <1>3, <1>7 DEF SendsOne, Latest
<1>8. CASE Throws(o)
  BY <1>3, <1>8 DEF Throws
<1>9. CASE Pushes(o)
  <2>1. PICK frame \in Frames :
           /\ frame.n = push.frame.n /\ frame.key = push.frame.key
           /\ frame.gap = (o \in lost) /\ Receives(o, frame)
    BY <1>9 DEF Pushes
  <2>2. \/ o \in lost \/ Excused(o)
        \/ push.frame.key \/ push.frame.n = Newest(o) + 1
    BY <1>2, <1>9 DEF PushInv, Pushes, Push
  <2>3. Excused(o) \/ Fine(frame, Newest(o))
    BY <2>1, <2>2 DEF Fine
  <2>4. Latest(o)' = Latest(o)
    BY <2>1 DEF Latest, Receives
  <2>5. CASE s = <<>>
    <3>1. Chain(s)
      BY <2>5 DEF Chain
    <3>2. Chain(Append(s, frame)) /\ Head(Append(s, frame)) = frame
      BY <1>1, <2>5, <3>1, ChainAppend
    <3>3. Newest(o) = Latest(o)
      BY <2>5 DEF Newest
    <3>4. Excused(o) => out'[o].threw /\ out'[o].at # "send"
      BY <2>1 DEF Excused, Pending, Receives
    <3> QED
      BY <2>1, <2>3, <2>4, <3>2, <3>3, <3>4 DEF Receives
  <2>6. CASE s # <<>>
    <3>1. Fine(frame, Last(s).n)
      BY <2>3, <2>6 DEF Excused, Pending, Newest
    <3>2. Chain(Append(s, frame)) /\ Head(Append(s, frame)) = Head(s)
      BY <1>1, <1>3, <2>6, <3>1, ChainAppend
    <3>3. out[o].threw /\ out[o].at # "send" => out'[o].threw /\ out'[o].at # "send"
      BY <2>1 DEF Receives
    <3> QED
      BY <1>3, <2>1, <2>4, <2>6, <3>2, <3>3 DEF Receives
  <2> QED
    BY <2>5, <2>6
<1> QED
  BY <1>2, <1>4, <1>5, <1>6, <1>7, <1>8, <1>9, SendingSteps

\* What is newest in a stream, until something is pushed.
LEMMA NewestKept ==
    ASSUME OutTypes, PushTypes, WalkInv, QueueInv, [Next]_vars,
           NEW o \in Outputs, Sends(o), Sends(o)', ~Pushes(o)
    PROVE  /\ Newest(o)' = Newest(o) \/ Excused(o)'
           /\ Excused(o) => Excused(o)'
           /\ Blank(o) => Blank(o)'
<1> DEFINE s == out[o].queue
<1>1. s \in Seq(Frames)
  BY DEF OutTypes, OutputState
<1>2. s # <<>> => Chain(s)
  BY DEF QueueInv, Chain
<1>4. CASE out'[o] = out[o]
  BY <1>4 DEF Newest, Latest, Excused, Blank, Pending
<1>5. CASE Waits(o)
  BY <1>5 DEF Waits, Untouched, Newest, Latest, Excused, Blank, Pending
<1>6. CASE Takes(o)
  <2>1. /\ Tail(s) # <<>> => Last(Tail(s)) = Last(s)
        /\ Tail(s) = <<>> => Last(s) = Head(s)
    BY <1>1, <1>2, <1>6, ChainTail DEF Takes
  <2>2. Newest(o) = Last(s).n
    BY <1>6 DEF Takes, Newest
  <2>3. Newest(o)' = Last(s).n
    BY <1>6, <2>1 DEF Takes, Newest, Latest
  <2> QED
    BY <1>6, <2>2, <2>3 DEF Takes, Excused, Blank, Pending
<1>7. CASE SendsOne(o)
  BY <1>7 DEF SendsOne, Newest, Latest, Excused, Blank, Pending
<1>8. CASE Throws(o)
  BY <1>8 DEF Throws, Newest, Latest, Excused, Blank, Pending
<1> QED
  BY <1>4, <1>5, <1>6, <1>7, <1>8, SendingSteps

\* What the steps with frames do to what comes next: nothing goes out, and what
\* may follow does not change, or what may follow goes out.
FrameWaits == /\ push'.at = "idle" /\ push'.rest = <<>>
              /\ \A m \in Nat : NextFollows(m) => NextFollows(m)'
FrameGoes == /\ push'.at = "walk" /\ push'.rest = outs
             /\ \A m \in Nat : NextFollows(m) => push'.frame.key \/ push'.frame.n = m + 1
             /\ NextFollows(push.frame.n)'
LEMMA FrameSteps ==
    ASSUME SceneTypes, ReaderTypes, EncTypes, PushTypes, OutsTypes, EncoderInv, BusyInv, PushInv,
           Frame \/ EncodeImage
    PROVE  /\ reader'.running = reader.running /\ Still
           /\ reader.running => FrameWaits \/ FrameGoes
<1> SUFFICES ASSUME reader.running
             PROVE  FrameWaits \/ FrameGoes
  BY FrameWalks
<1>1. push.at = "idle" /\ push.rest = <<>>
  BY FrameWalks DEF BusyInv, PushInv
<1>2. scene' = scene
  BY FrameWalks DEF Still
<1>3. /\ enc.held \in Seq(Frames) /\ made \in Nat /\ Numbered(enc.held, made)
      /\ push.then # "none" => enc.format \in {"none", push.then}
      /\ scene.source = "packets" => enc = NoEncoder /\ push.then = "none"
  BY DEF EncTypes, EncoderInv, Numbered
<1>4. \A f \in Frames : f.n \in Nat /\ f.n + 1 \in Nat
  BY DEF Frames
<1>5. CASE OnPacket
  <2>1. scene.source = "packets" /\ enc' = enc /\ made' = made + 1 /\ enc.held = <<>>
    BY <1>3, <1>5, PacketSteps, NoEncoderFields
  <2>2. PICK frame \in Frames : frame.n = made + 1 /\ Walk(frame, "none")
    BY <1>5, PacketSteps
  <2>3. push'.at = "walk" /\ push'.frame = frame /\ push'.rest = outs
    BY <2>2, WalkSteps
  <2>4. \A m \in Nat : NextFollows(m) => frame.n = m + 1
    BY <2>1, <2>2 DEF NextFollows
  <2>5. NextFollows(push.frame.n)'
    BY <2>1, <2>2, <2>3 DEF NextFollows
  <2> QED
    BY <2>3, <2>4, <2>5 DEF FrameGoes
<1>6. CASE OnImage
  <2>1. scene.source = "images" /\ made' = made
    BY <1>6, ImageSteps
  <2>2. ASSUME enc' = NoEncoder
        PROVE  \A m : NextFollows(m)'
    BY <1>2, <2>1, <2>2, NoEncoderFields DEF NextFollows
  <2>3. CASE UNCHANGED <<enc, push>>
    BY <1>1, <1>2, <2>1, <2>3 DEF FrameWaits, NextFollows
  <2>4. ASSUME NEW f \in AnyFormat, push' = [NoPush EXCEPT !.then = f],
               enc' = enc \/ enc' = NoEncoder
        PROVE  FrameWaits
    <3>1. push'.at = "idle" /\ push'.rest = <<>>
      BY <2>4, NoPushFields
    <3>2. CASE enc' = enc
      BY <1>2, <2>1, <3>1, <3>2 DEF FrameWaits, NextFollows
    <3>3. CASE enc' = NoEncoder
      BY <2>2, <3>1, <3>3 DEF FrameWaits
    <3> QED
      BY <2>4, <3>2, <3>3
  <2>5. ASSUME enc.held # <<>>, enc' = NoEncoder, NEW f \in AnyFormat, Walk(Head(enc.held), f)
        PROVE  FrameGoes
    <3>1. Head(enc.held) \in Frames
      BY <2>5, HeldHead, NoFrameTyped
    <3>2. push'.at = "walk" /\ push'.frame = Head(enc.held) /\ push'.rest = outs
      BY <2>5, <3>1, WalkSteps
    <3>3. \A m \in Nat : NextFollows(m) => Head(enc.held).key \/ Head(enc.held).n = m + 1
      BY <2>5 DEF NextFollows
    <3> QED
      BY <2>2, <2>5, <3>2, <3>3 DEF FrameGoes
  <2> QED
    BY <1>6, <2>3, <2>4, <2>5, ImageSteps
<1>7. CASE EncodeImage
  <2>1. push.then # "none" /\ scene.source = "images"
    <3>1. push.then # "none"
      BY <1>7, EncodeSteps
    <3> QED
      BY <1>3, <3>1 DEF SceneTypes
  <2>2. ASSUME push' = NoPush, \A m \in Nat : NextFollows(m) => NextFollows(m)'
        PROVE  FrameWaits
    BY <2>2, NoPushFields DEF FrameWaits
  <2>3. ASSUME push.then \in Formats, made' = made + 1, NEW new \in Frames, new.n = made + 1,
               enc.fresh \/ enc.format = "none" => new.key,
               \/ enc'.held = Append(enc.held, new) /\ push' = NoPush
               \/ enc'.held = Tail(Append(enc.held, new))
                  /\ Walk(Head(Append(enc.held, new)), "none")
        PROVE  FrameWaits \/ FrameGoes
    <3> DEFINE held == Append(enc.held, new)
    <3>1. /\ held \in Seq(Frames) /\ held # <<>> /\ Numbered(held, made + 1)
          /\ Head(held) = IF enc.held = <<>> THEN new ELSE Head(enc.held)
      BY <1>3, <2>3, AppendNumbered
    <3>2. Head(held) \in Frames
      BY <2>3, HeldHead
    <3>3. enc.format # "error"
      BY <1>3, <2>1, <2>3, VideoAssumption
    <3> HIDE DEF held
    <3>4. ASSUME NEW m \in Nat, NextFollows(m)
          PROVE  Head(held).key \/ Head(held).n = m + 1
      <4>1. CASE enc.held # <<>>
        BY <3>1, <3>4, <4>1 DEF NextFollows
      <4>2. CASE enc.held = <<>>
        BY <2>3, <3>1, <3>3, <3>4, <4>2 DEF NextFollows
      <4> QED
        BY <4>1, <4>2
    <3>5. CASE enc'.held = held /\ push' = NoPush
      BY <2>2, <3>1, <3>4, <3>5 DEF NextFollows
    <3>6. CASE enc'.held = Tail(held) /\ Walk(Head(held), "none")
      <4>1. push'.at = "walk" /\ push'.frame = Head(held) /\ push'.rest = outs
        BY <3>2, <3>6, WalkSteps
      <4>2. made + 1 \in Nat
        BY <1>3
      <4>3. /\ Tail(held) # <<>> => Head(Tail(held)).n = Head(held).n + 1
            /\ Tail(held) = <<>> => Head(held).n = made + 1
        BY <3>1, <4>2, TailNumbered
      <4>4. NextFollows(push.frame.n)'
        BY <2>3, <3>6, <4>1, <4>3 DEF NextFollows
      <4> QED
        BY <3>4, <4>1, <4>4 DEF FrameGoes
    <3> QED
      BY <2>3, <3>5, <3>6 DEF held
  <2>4. CASE /\ push.then \in Formats /\ UNCHANGED made /\ push' = NoPush
             /\ enc'.held = enc.held /\ enc'.format = push.then
             /\ enc'.fresh = (enc.fresh \/ enc.format = "none")
    <3>1. enc.format # "error"
      BY <1>3, <2>1, <2>4, VideoAssumption
    <3>2. ASSUME NEW m \in Nat, NextFollows(m)
          PROVE  NextFollows(m)'
      BY <1>2, <2>4, <3>1, <3>2 DEF NextFollows
    <3> QED
      BY <2>2, <2>4, <3>2
  <2>5. CASE /\ UNCHANGED made /\ push' = NoPush /\ enc.format = "none"
             /\ enc' = enc \/ (enc'.held = <<>> /\ enc'.format = "error" /\ ~enc'.fresh)
    <3>1. ASSUME NEW m \in Nat, NextFollows(m)
          PROVE  NextFollows(m)'
      BY <1>2, <2>1, <2>5, <3>1 DEF NextFollows
    <3> QED
      BY <2>2, <2>5, <3>1
  <2> QED
    BY <1>7, <2>3, <2>4, <2>5, EncodeSteps
<1> QED
  BY <1>5, <1>6, <1>7 DEF Frame

LEMMA NewestTyped ==
    ASSUME OutTypes, NEW o \in Outputs
    PROVE  Newest(o) \in Nat
<1>1. /\ out[o].queue \in Seq(Frames) /\ out[o].last \in Nat /\ out[o].hand.n \in Nat
  BY DEF OutTypes, OutputState, Frames
<1>2. out[o].queue # <<>> => Last(out[o].queue) \in Frames
  BY <1>1, SeqDomain DEF Last
<1>3. \A f \in Frames : f.n \in Nat
  BY DEF Frames
<1> QED
  BY <1>1, <1>2, <1>3 DEF Newest, Latest

\* Steps that neither visit nor push nor encode.
Calm == /\ UNCHANGED <<enc, made, lost>> /\ ~Push
        /\ push'.rest = push.rest /\ (push.rest # <<>> => push'.frame = push.frame)
        /\ \/ push'.at = push.at /\ push'.frame = push.frame
           \/ push'.at = "idle" /\ push.rest = <<>>
LEMMA CalmSteps ==
    ASSUME PushTypes, [Next]_vars
    PROVE  Frame \/ EncodeImage \/ Visit \/ Push \/ StopEnd \/ Calm
<1>1. CASE Pushed
  BY <1>1, NoPushFields DEF Pushed, Calm, Push, PushTypes
<1>2. ASSUME NEW o \in Outputs, AddOutput(o) \/ RemoveOutput(o), ~Push
      PROVE  Calm
  BY <1>2, TearSteps DEF AddOutput, RemoveOutput, Calm
<1>3. ASSUME UNCHANGED <<enc, made, push, outs, lost>>, ~Push
      PROVE  Calm
  BY <1>3 DEF Calm
<1> QED
  BY <1>1, <1>2, <1>3, Others

\* What is still to go out may follow.
LEMMA ReadyKept ==
    ASSUME Types, LifeInv, NewInv, WalkInv, EncoderInv,
           TrackInv, QueueInv, ReadyInv, PushInv, [Next]_vars
    PROVE  ReadyInv'
<1> USE DEF Types
<1> SUFFICES ASSUME NEW o \in Outputs, Sends(o)'
             PROVE  \/ o \in lost' \/ Excused(o)' \/ Blank(o)'
                    \/ IF ToVisit(o)' THEN push'.frame.key \/ push'.frame.n = Newest(o)' + 1
                                      ELSE NextFollows(Newest(o))'
  BY DEF ReadyInv, Blank
<1>1. CASE ~Sends(o)
  BY <1>1, SendsSteps DEF Begins
<1> SUFFICES ASSUME Sends(o)
             PROVE  \/ o \in lost' \/ Excused(o)' \/ Blank(o)'
                    \/ IF ToVisit(o)' THEN push'.frame.key \/ push'.frame.n = Newest(o)' + 1
                                      ELSE NextFollows(Newest(o))'
  BY <1>1
<1>2. \/ o \in lost \/ Excused(o) \/ Blank(o)
      \/ IF ToVisit(o) THEN push.frame.key \/ push.frame.n = Newest(o) + 1
                       ELSE NextFollows(Newest(o))
  BY DEF ReadyInv, Blank
<1>3. ~Pushes(o) => /\ Newest(o)' = Newest(o) \/ Excused(o)'
                    /\ Excused(o) => Excused(o)'
                    /\ Blank(o) => Blank(o)'
  BY NewestKept
<1>4. Pushes(o) => Push /\ o = Head(push.rest)
  BY DEF Pushes
<1>5. PICK m \in Nat : m = Newest(o)
  BY NewestTyped
<1>6. scene'.source = scene.source
  BY SceneTyped
<1>7. CASE Calm
  <2>1. ~Pushes(o) /\ lost' = lost
    BY <1>4, <1>7 DEF Calm
  <2>2. ToVisit(o)' = ToVisit(o)
    BY <1>7 DEF Calm, ToVisit
  <2>3. ToVisit(o) => push'.frame = push.frame
    BY <1>7, NoSeq DEF Calm, ToVisit
  <2>4. NextFollows(m)' <=> NextFollows(m)
    BY <1>6, <1>7 DEF Calm, NextFollows
  <2>5. Newest(o)' = m => (NextFollows(Newest(o))' <=> NextFollows(m)')
    BY DEF NextFollows
  <2> QED
    BY <1>2, <1>3, <1>5, <2>1, <2>2, <2>3, <2>4, <2>5
<1>8. CASE Frame \/ EncodeImage
  <2>1. lost' = lost /\ out' = out
    BY <1>8, FrameSteps DEF Still
  <2>2. Excused(o)' = Excused(o) /\ Blank(o)' = Blank(o) /\ Newest(o)' = m
    BY <1>5, <2>1 DEF Excused, Blank, Pending, Newest, Latest
  <2>3. push.rest = <<>> /\ ~ToVisit(o)
    BY <1>8, FrameWalks, NoSeq DEF BusyInv, PushInv, ToVisit
  <2>4. CASE NextFollows(m)
    <3>1. reader.running
      BY DEF Sends, Wanted
    <3>2. CASE FrameWaits
      <4>1. NextFollows(m)' /\ ~ToVisit(o)'
        BY <2>4, <3>2, NoSeq DEF FrameWaits, ToVisit
      <4>2. NextFollows(Newest(o))'
        BY <2>2, <4>1 DEF NextFollows
      <4> QED
        BY <4>1, <4>2
    <3>3. CASE FrameGoes
      <4>1. o \in ToSet(outs)
        BY DEF Sends, Wanted, VectorInv
      <4>2. ToVisit(o)'
        BY <3>3, <4>1 DEF FrameGoes, ToVisit
      <4> QED
        BY <2>2, <2>4, <3>3, <4>2 DEF FrameGoes
    <3> QED
      BY <1>8, <3>1, <3>2, <3>3, FrameSteps
  <2> QED
    BY <1>2, <1>5, <2>1, <2>2, <2>3, <2>4
<1>9. CASE Visit
  <2>1. out' = out /\ push.rest # <<>> /\ push.rest \in Seq(Outputs) /\ UNCHANGED <<enc, made>>
    BY <1>9 DEF Visit, PushTypes
  <2>2. Excused(o)' = Excused(o) /\ Blank(o)' = Blank(o) /\ Newest(o)' = m
    BY <1>5, <2>1 DEF Excused, Blank, Pending, Newest, Latest
  <2>3. NextFollows(Newest(o))' <=> NextFollows(Newest(o))
    BY <1>5, <1>6, <2>1, <2>2 DEF NextFollows
  <2>4. push'.frame = push.frame
    BY <1>9 DEF Visit, PushTypes
  <2>5. ToSet(push.rest) = {Head(push.rest)} \cup ToSet(Tail(push.rest))
    BY <2>1, TailSeq
  <2>6. CASE Skips(Head(push.rest))
    <3>1. /\ push'.rest = Tail(push.rest)
          /\ lost' = IF Pending(Head(push.rest)) THEN lost \cup {Head(push.rest)} ELSE lost
      BY <1>9, <2>6 DEF Visit, PushTypes
    <3>2. CASE o = Head(push.rest)
      <4>1. out[o].track = "ready"
        BY DEF Sends
      <4>2. out[o].sent = 0
        BY <2>6, <3>2, <4>1 DEF Skips
      <4> QED
        BY <2>2, <3>1, <3>2, <4>2 DEF Blank
    <3>3. CASE o # Head(push.rest)
      <4>1. ToVisit(o)' = ToVisit(o) /\ (o \in lost => o \in lost')
        BY <2>5, <3>1, <3>3 DEF ToVisit
      <4> QED
        BY <1>2, <1>5, <2>2, <2>3, <2>4, <4>1
    <3> QED
      BY <3>2, <3>3
  <2>7. CASE ~Skips(Head(push.rest))
    <3>1. push'.rest = push.rest /\ lost' = lost
      BY <1>9, <2>7 DEF Visit, PushTypes
    <3>2. ToVisit(o)' = ToVisit(o)
      BY <3>1 DEF ToVisit
    <3> QED
      BY <1>2, <1>5, <2>2, <2>3, <2>4, <3>1, <3>2
  <2> QED
    BY <2>6, <2>7
<1>10. CASE Push
  <2> DEFINE added == {p \in Outputs : out[p].at # "new"}
  <2>1. push.rest # <<>> /\ push.rest \in Seq(Outputs) /\ UNCHANGED <<enc, made>> /\ push.at = "push"
    BY <1>10 DEF Push, PushTypes, WalkInv
  <2>2. /\ ToSet(push.rest) = {Head(push.rest)} \cup ToSet(Tail(push.rest))
        /\ Head(push.rest) \notin ToSet(Tail(push.rest))
    BY <2>1, TailSeq DEF WalkInv
  <2>3. push'.frame = push.frame
    BY <1>10 DEF Push, PushTypes
  <2>4. CASE push.torn
    <3>1. lost' = added
      BY <1>10, <2>4 DEF Push
    <3> QED
      BY <3>1 DEF Sends
  <2>5. CASE ~push.torn
    <3>1. push'.rest = Tail(push.rest) /\ lost' = lost \ {Head(push.rest)}
      BY <1>10, <2>5 DEF Push, PushTypes
    <3>2. CASE o # Head(push.rest)
      <4>1. ToVisit(o)' = ToVisit(o) /\ (o \in lost => o \in lost')
        BY <2>2, <3>1, <3>2 DEF ToVisit
      <4>2. NextFollows(m)' <=> NextFollows(m)
        BY <1>6, <2>1 DEF NextFollows
      <4>3. Newest(o)' = m => (NextFollows(Newest(o))' <=> NextFollows(m)')
        BY DEF NextFollows
      <4> QED
        BY <1>2, <1>3, <1>4, <1>5, <2>3, <3>2, <4>1, <4>2, <4>3
    <3>3. CASE o = Head(push.rest)
      <4>1. ~ToVisit(o)'
        BY <2>2, <3>1, <3>3 DEF ToVisit
      <4>2. reader.running
        BY DEF Sends, Wanted
      <4>3. NextFollows(push.frame.n)
        BY <2>1, <4>2 DEF PushInv
      <4>4. Newest(o)' = push.frame.n
        <5> DEFINE f == [push.frame EXCEPT !.gap = (o \in lost)]
        <5>1. f \in Frames /\ f.n = push.frame.n /\ Receives(o, f)
          BY <1>10, <3>3, PushSteps DEF Sends
        <5>2. out[o].queue \in Seq(Frames)
          BY DEF OutTypes, OutputState
        <5> HIDE DEF f
        <5>3. /\ Append(out[o].queue, f) # <<>>
              /\ Last(Append(out[o].queue, f)) = f
          BY <5>1, <5>2, AppendLast
        <5> QED
          BY <5>1, <5>3 DEF Receives, Newest
      <4>5. NextFollows(Newest(o))'
        BY <1>6, <2>1, <4>3, <4>4 DEF NextFollows
      <4> QED
        BY <4>1, <4>5
    <3> QED
      BY <3>2, <3>3
  <2> QED
    BY <2>4, <2>5
<1>11. CASE StopEnd
  <2>1. ~reader'.running
    BY <1>11 DEF StopEnd, LifeInv, ReaderTypes
  <2> QED
    BY <2>1 DEF Sends, Wanted
<1> QED
  BY <1>7, <1>8, <1>9, <1>10, <1>11, CalmSteps

LEMMA PushWalks ==
    ASSUME PushTypes, Push
    PROVE  push'.at = "walk"
<1>1. CASE push.torn
  <2>1. PICK s : push' = [push EXCEPT !.at = "walk", !.rest = s, !.torn = FALSE]
    BY <1>1 DEF Push
  <2> QED
    BY <2>1 DEF PushTypes
<1>2. CASE ~push.torn
  <2>1. push' = [push EXCEPT !.at = "walk", !.rest = Tail(@)]
    BY <1>2 DEF Push
  <2> QED
    BY <2>1 DEF PushTypes
<1> QED
  BY <1>1, <1>2

LEMMA PushInvKept ==
    ASSUME Types, LifeInv, NewInv, WalkInv, EncoderInv,
           TrackInv, QueueInv, ReadyInv, PushInv, [Next]_vars
    PROVE  PushInv'
<1> USE DEF Types
<1>1. scene'.source = scene.source
  BY SceneTyped
<1>2. ASSUME push'.at # "idle", reader'.running
      PROVE  NextFollows(push.frame.n)'
  <2>1. CASE Frame \/ EncodeImage
    BY <1>2, <2>1, FrameSteps DEF FrameWaits, FrameGoes
  <2>2. CASE Visit \/ Push \/ Calm
    <3>1. push.at # "idle" /\ push'.frame = push.frame /\ UNCHANGED <<enc, made>>
      BY <1>2, <2>2 DEF Visit, Push, Calm, PushTypes
    <3>2. reader.running
      BY <1>2, <3>1, RunningKept DEF LifeInv, BusyInv
    <3>3. NextFollows(push.frame.n)
      BY <3>1, <3>2 DEF PushInv
    <3> QED
      BY <1>1, <3>1, <3>3 DEF NextFollows
  <2>3. CASE StopEnd
    BY <1>2, <2>3 DEF StopEnd, LifeInv, ReaderTypes
  <2> QED
    BY <2>1, <2>2, <2>3, CalmSteps
<1>3. ASSUME push'.at = "idle"
      PROVE  push'.rest = <<>>
  <2>1. CASE Frame \/ EncodeImage
    BY <1>3, <2>1, FrameWalks DEF Begun, BusyInv, PushInv
  <2>2. CASE Visit \/ Push
    BY <1>3, <2>2 DEF Visit, Push, PushTypes
  <2>3. CASE StopEnd \/ Calm
    BY <1>3, <2>3 DEF StopEnd, Calm, PushInv
  <2> QED
    BY <2>1, <2>2, <2>3, CalmSteps
<1>4. ASSUME push'.at = "push", NEW o \in Outputs, o = Head(push'.rest)
      PROVE  /\ out'[o].at = "done" \/ out'[o].track # "new"
             /\ Sends(o)' => \/ o \in lost' \/ Excused(o)'
                             \/ push'.frame.key \/ push'.frame.n = Newest(o)' + 1
  <2>1. PICK m \in Nat : m = Newest(o)
    BY NewestTyped
  <2>2. CASE Visit
    <3>1. /\ out' = out /\ reader' = reader /\ push.rest # <<>> /\ push.rest \in Seq(Outputs)
      BY <2>2 DEF Visit, PushTypes
    <3>2. ~Skips(Head(push.rest))
      BY <1>4, <2>2 DEF Visit, PushTypes
    <3>3. push'.rest = push.rest /\ push'.frame = push.frame /\ lost' = lost
      BY <2>2, <3>2 DEF Visit, PushTypes
    <3>4. out[o].track = "ready" /\ (out[o].sent = 0 => push.frame.key)
      BY <1>4, <3>2, <3>3 DEF Skips
    <3>5. ToVisit(o)
      BY <1>4, <3>1, <3>3, TailSeq DEF ToVisit
    <3>6. Sends(o) => \/ o \in lost \/ Excused(o) \/ push.frame.key
                      \/ push.frame.n = m + 1
      BY <2>1, <3>4, <3>5 DEF ReadyInv, Blank
    <3>7. Sends(o)' = Sends(o) /\ Excused(o)' = Excused(o) /\ Newest(o)' = m
      BY <2>1, <3>1 DEF Sends, Wanted, Excused, Pending, Newest, Latest
    <3> QED
      BY <3>1, <3>3, <3>4, <3>6, <3>7
  <2>3. CASE StopEnd \/ Calm
    <3>1. push.at = "push" /\ push'.rest = push.rest /\ push'.frame = push.frame /\ lost' = lost
          /\ ~Pushes(o)
      <4>1. CASE StopEnd
        BY <1>4, <4>1, PushWalks DEF StopEnd, Pushes
      <4>2. CASE Calm
        BY <1>4, <4>2 DEF Calm, Pushes
      <4> QED
        BY <2>3, <4>1, <4>2
    <3>2. out[o].at # "new"
      <4>1. push.rest # <<>> /\ push.rest \in Seq(Outputs)
        BY <3>1 DEF WalkInv, PushTypes
      <4>2. o \in ToSet(push.rest)
        BY <1>4, <3>1, <4>1, TailSeq
      <4> QED
        BY <4>2 DEF NewInv, Added
    <3>3. out[o].at = "done" \/ out[o].track # "new"
      BY <1>4, <3>1 DEF PushInv
    <3>4. out'[o].at = "done" \/ out'[o].track # "new"
      BY <3>1, <3>2, <3>3, OutputSteps DEF Joins, Quits, Retracks, Steps, Waits, Ends, Takes,
                                           Discards, SendsOne, Throws
    <3>5. ASSUME Sends(o)'
          PROVE  \/ o \in lost' \/ Excused(o)'
                 \/ push'.frame.key \/ push'.frame.n = Newest(o)' + 1
      <4>1. out'[o].at # "done"
        BY <3>5 DEF Sends
      <4>2. out[o].at # "done"
        BY <3>1, <4>1, OutputSteps DEF Joins, Quits, Retracks, Steps, Waits, Ends, Takes,
                                       Discards, SendsOne, Throws
      <4>3. Sends(o)
        BY <3>2, <3>3, <3>5, <4>2, SendsSteps DEF Begins
      <4>4. \/ o \in lost \/ Excused(o) \/ push.frame.key \/ push.frame.n = m + 1
        BY <1>4, <2>1, <3>1, <4>3 DEF PushInv
      <4>5. (Newest(o)' = m \/ Excused(o)') /\ (Excused(o) => Excused(o)')
        BY <2>1, <3>1, <3>5, <4>3, NewestKept
      <4> QED
        BY <3>1, <4>4, <4>5
    <3> QED
      BY <3>4, <3>5
  <2>4. CASE Frame \/ EncodeImage
    BY <1>4, <2>4, FrameWalks DEF Begun, BusyInv
  <2>5. CASE Push
    BY <1>4, <2>5, PushWalks
  <2> QED
    BY <2>2, <2>3, <2>4, <2>5, CalmSteps
<1>5. push'.at = "push" => Head(push'.rest) \in Outputs
  <2>1. PushTypes' /\ (push'.at = "push" => push'.rest # <<>>)
    BY PushKept
  <2> QED
    BY <2>1, TailSeq DEF PushTypes
<1> QED
  BY <1>2, <1>3, <1>4, <1>5 DEF PushInv

\* GapOnlyIfRaced for any outputs and formats, any bound of the encoder and any
\* modulus of num_sent: in the stream of an output - the frame sent last, the one
\* in the worker's hand, the queue, the walk and the frames of the encoder - each
\* is a key frame or follows the one before it, but for the three exceptions.
THEOREM GapCorrect == Spec => GapOnlyIfRaced
<1> DEFINE Sent(o) ==
               LET frame == out[o].hand
               IN  out[o].at = "send" /\ out'[o].at = "test" /\ ~out'[o].threw =>
                      frame.key \/ frame.gap \/ out[o].threw \/ frame.n = out[o].last + 1
           Inv == Types /\ LifeInv /\ NewInv /\ WalkInv /\ EncoderInv /\ GapInv
<1>1. Init => Inv
  <2> SUFFICES ASSUME Init
               PROVE  Inv
    OBVIOUS
  <2>1. Types /\ LifeInv /\ NewInv /\ WalkInv /\ EncoderInv
    BY VideoInitial
  <2>2. \A o \in Outputs : out[o] = NoOutput
    BY DEF Init
  <2>3. push.at = "idle" /\ push.rest = <<>>
    BY NoPushFields DEF Init
  <2>4. HandInv /\ QueueInv /\ ReadyInv /\ TrackInv
    BY <2>2, NoOutputFields DEF HandInv, QueueInv, ReadyInv, TrackInv, Sends, Pending, Blank
  <2>5. PushInv
    BY <2>3 DEF PushInv
  <2> QED
    BY <2>1, <2>4, <2>5 DEF GapInv
<1>2. Inv /\ [Next]_vars => Inv'
  <2> SUFFICES ASSUME Inv, [Next]_vars
               PROVE  Inv'
    OBVIOUS
  <2>1. Types' /\ LifeInv' /\ NewInv' /\ WalkInv'
    BY TypesKept
  <2>2. EncoderInv'
    BY EncoderKept DEF Types
  <2>3. HandInv' /\ TrackInv' /\ QueueInv'
    BY HandKept, TrackKept, QueueKept DEF Types, GapInv
  <2>4. ReadyInv' /\ PushInv'
    BY ReadyKept, PushInvKept DEF GapInv
  <2> QED
    BY <2>1, <2>2, <2>3, <2>4 DEF GapInv
<1>3. Inv /\ [Next]_vars => [\A o \in Outputs : Sent(o)]_vars
  <2> SUFFICES ASSUME Inv, [Next]_vars, NEW o \in Outputs
               PROVE  Sent(o)
    OBVIOUS
  <2> SUFFICES ASSUME out[o].at = "send", out'[o].at = "test", ~out'[o].threw
               PROVE  Fine(out[o].hand, out[o].last) \/ out[o].threw
    BY DEF Fine
  <2>1. SendsOne(o)
    BY OutputSteps DEF Types, Joins, Quits, Pushes, Receives, Retracks, Untouched, Steps, Waits,
                       Ends, Takes, Discards, Throws
  <2> QED
    BY <2>1 DEF SendsOne, GapInv, HandInv
<1> QED
  BY <1>1, <1>2, <1>3, PTL DEF Spec, GapOnlyIfRaced
=============================================================================
