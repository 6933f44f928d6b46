---------------------------- MODULE VideoReader ----------------------------
(***************************************************************************)
(* One video reader (src/topic_reader_h264.cpp, with the encoder of          *)
(* src/ffmpeg_encoder.cpp that it owns): a ROS subscription spun by a thread *)
(* of its own, which pushes every frame to the queue of each output, and a   *)
(* worker thread per output that sends the frames into its peer's track.     *)
(*                                                                           *)
(* A frame is the number the encoder gave it and whether it is a key frame:  *)
(* a decoder can show a frame only after the one before it, or a key frame.  *)
(* The queues are deques pushed at one end and popped at the other: each     *)
(* push and pop is one step.                                                 *)
(***************************************************************************)
EXTENDS Naturals, Sequences, SequencesExt

CONSTANTS Outputs,     \* the outputs ever added (a track added again is another)
          Formats,     \* the formats of images that can be encoded
          SentMod,     \* num_sent counts modulo this (65536 in the code)
          MaxHeld,     \* bound: frames the encoder keeps before it gives one
          Scenarios    \* the topic sends "packets" (encoded video) or "images"; the
                       \* outputs it is read by, and those of them whose negotiation
                       \* never ends; bounds: frames encoded, tracks that
                       \* close or refuse a frame, other work for the executor

ASSUME VideoAssumption ==
    /\ SentMod \in Nat \ {0, 1} /\ MaxHeld \in Nat
    /\ {"none", "odd", "error"} \cap Formats = {}
    /\ Scenarios \subseteq [source : {"packets", "images"}, outputs : SUBSET Outputs,
                            mute : SUBSET Outputs, frames : Nat, faults : Nat, wakes : Nat]

VARIABLES
    scene,    \* the scenario, with what is left of its bounds
    reader,   \* life of the object, subscriber_running, node, its thread
    enc,      \* the encoder: format ("none" none, "error" given up), whether nothing was
              \* encoded with it yet, the frames it holds
    made,     \* how many frames were encoded
    push,     \* onEncodedFrame: where it is, its frame, the outputs to visit
    outs,     \* the outputs vector
    out,      \* what the reader and the worker keep of each output
    lost,     \* history: outputs that missed a frame in a way the code overlooks
    missed    \* history: outputs whose end was notified before they waited
vars == <<scene, reader, enc, made, push, outs, out, lost, missed>>

NoFrame == [n |-> 0, key |-> FALSE, gap |-> FALSE]
AnyFormat == Formats \cup {"odd"}
NoPush == [at |-> "idle", frame |-> NoFrame, rest |-> <<>>, torn |-> FALSE, then |-> "none"]
NoOutput == [at |-> "new", active |-> TRUE, queue |-> <<>>, sent |-> 0, hand |-> NoFrame,
             last |-> 0, threw |-> FALSE, track |-> "new"]
NoEncoder == [format |-> "none", fresh |-> FALSE, held |-> <<>>]

\* The number, the key flag, and (history) that one before it was overlooked.
Frames == [n : Nat, key : BOOLEAN, gap : BOOLEAN]

TypeOK ==
    /\ scene \in [source : {"packets", "images"}, outputs : SUBSET Outputs,
                  mute : SUBSET Outputs, frames : Nat, faults : Nat, wakes : Nat]
    /\ reader \in [life : {"new", "live", "doomed", "stopping", "gone"},
                   running : BOOLEAN, node : BOOLEAN,
                   thread : {"none", "test", "wait", "busy", "end"}]
    /\ enc \in [format : Formats \cup {"none", "error"}, fresh : BOOLEAN, held : Seq(Frames)]
    /\ Len(enc.held) <= MaxHeld /\ made \in Nat
    /\ push \in [at : {"idle", "walk", "push"}, frame : Frames,
                 rest : Seq(Outputs), torn : BOOLEAN, then : AnyFormat \cup {"none"}]
    /\ outs \in Seq(Outputs)
    /\ out \in [Outputs -> [at : {"new", "test", "check", "block", "wait", "send",
                                  "done"},
                            active : BOOLEAN, queue : Seq(Frames), sent : 0..SentMod - 1,
                            hand : Frames, last : Nat, threw : BOOLEAN,
                            track : {"new", "ready", "closed"}]]
    /\ lost \subseteq Outputs /\ missed \subseteq Outputs
    /\ ToSet(outs) = {o \in Outputs : out[o].at # "new" /\ out[o].active}
    /\ push.at # "idle" => reader.thread = "busy"

Init ==
    /\ scene \in Scenarios
    /\ reader = [life |-> "new", running |-> FALSE, node |-> FALSE, thread |-> "none"]
    /\ enc = NoEncoder /\ made = 0 /\ push = NoPush
    /\ outs = <<>> /\ out = [o \in Outputs |-> NoOutput]
    /\ lost = {} /\ missed = {}

----------------------------------------------------------------------------
\* Outputs, added and removed by the rounds of peers.  outputs_mutex is free
\* unless the walk over the outputs holds it.
Unlocked == push.at # "walk"
Tear == push' = IF push.at = "idle" THEN push ELSE [push EXCEPT !.torn = TRUE]

\* start(): a subscription that cannot be made leaves subscriber_running set,
\* the node made or not, and no thread to spin it.
Start ==
    IF reader.running THEN UNCHANGED reader ELSE
    \/ reader' = [reader EXCEPT !.life = "live", !.running = TRUE, !.node = TRUE,
                                !.thread = "test"]
    \/ \E node \in BOOLEAN :
         reader' = [reader EXCEPT !.life = "live", !.running = TRUE, !.node = node]

\* The track is a new one, or one kept open and used again.
AddOutput(o) ==
    /\ reader.life \in {"new", "live", "doomed"} /\ Unlocked
    /\ o \in scene.outputs /\ out[o].at = "new"
    /\ Start /\ Tear
    /\ outs' = Append(outs, o)
    /\ \E t \in {"new"} \cup (IF o \in scene.mute THEN {} ELSE {"ready"}) :
         out' = [out EXCEPT ![o].at = "test", ![o].track = t]
    /\ UNCHANGED <<scene, enc, made, lost, missed>>

\* in_queue_cv.notify_one, by a thread that does not hold in_queue_mutex: a
\* worker between its predicate and its wait does not hear it.
Notified(w) == IF w.at = "wait" THEN [w EXCEPT !.at = "check"] ELSE w
\* Mutant: the flag falls and nobody is told.
EndedSilently(o) == [out[o] EXCEPT !.active = FALSE]
Ended(o) == Notified([out[o] EXCEPT !.active = FALSE])

Deaf(S) == {o \in S : out[o].at = "block"}

\* Mutant: told to end, and still in the vector.
RemoveKeeps(o) ==
    /\ o \in ToSet(outs) /\ Unlocked /\ reader.life \in {"live", "doomed"}
    /\ out' = [out EXCEPT ![o] = Ended(o)]
    /\ UNCHANGED <<scene, reader, enc, made, push, outs, lost, missed>>

\* The last output removed: the caller goes on to destroy the reader.
RemoveOutput(o) ==
    /\ o \in ToSet(outs) /\ Unlocked /\ reader.life \in {"live", "doomed"}
    /\ out' = [out EXCEPT ![o] = Ended(o)]
    /\ missed' = missed \cup Deaf({o})
    /\ \E i \in DOMAIN outs : outs[i] = o /\ outs' = RemoveAt(outs, i)
    /\ reader' = IF outs' = <<>> THEN [reader EXCEPT !.life = "doomed"] ELSE reader
    /\ Tear
    /\ UNCHANGED <<scene, enc, made, lost>>

\* The destructor, with readers_mutex held: stop().
StopBegin ==
    /\ reader.life = "doomed"
    /\ reader' = [reader EXCEPT !.life = "stopping", !.running = FALSE]
    /\ UNCHANGED <<scene, enc, made, push, outs, out, lost, missed>>

StopEnd ==
    /\ reader.life = "stopping" /\ ~reader.node /\ Unlocked
    /\ reader' = [reader EXCEPT !.life = "gone"]
    /\ out' = [o \in Outputs |-> IF o \in ToSet(outs) THEN Ended(o) ELSE out[o]]
    /\ missed' = missed \cup Deaf(ToSet(outs))
    /\ outs' = <<>> /\ enc' = NoEncoder
    /\ UNCHANGED <<scene, made, push, lost>>

----------------------------------------------------------------------------
\* The peer's connection: its track is open, and onPCSignalingStateChange has
\* found the signaling state stable (init_complete).
TrackReady(o) ==
    /\ o \notin scene.mute /\ out[o].at \notin {"new", "done"} /\ out[o].track = "new"
    /\ out' = [out EXCEPT ![o].track = "ready"]
    /\ UNCHANGED <<scene, reader, enc, made, push, outs, lost, missed>>

\* closeMediaTrackForTopic, or the connection breaks.
TrackCloses(o) ==
    /\ out[o].at \notin {"new", "done"} /\ out[o].track = "ready"
    /\ scene.faults > 0 /\ scene' = [scene EXCEPT !.faults = @ - 1]
    /\ out' = [out EXCEPT ![o].track = "closed"]
    /\ UNCHANGED <<reader, enc, made, push, outs, lost, missed>>

----------------------------------------------------------------------------
\* The thread that spins the reader's executor.
SpinTest ==
    /\ reader.thread = "test"
    /\ reader' = [reader EXCEPT !.thread = IF reader.running THEN "wait" ELSE "end"]
    /\ UNCHANGED <<scene, enc, made, push, outs, out, lost, missed>>

\* Mutant: the thread ends and its node stays.
SpinEndKeepsNode ==
    /\ reader.thread = "end"
    /\ reader' = [reader EXCEPT !.thread = "none"]
    /\ UNCHANGED <<scene, enc, made, push, outs, out, lost, missed>>

\* Out of the loop: the subscription, the node and the executor are dropped.
SpinEnd ==
    /\ reader.thread = "end"
    /\ reader' = [reader EXCEPT !.thread = "none", !.node = FALSE]
    /\ UNCHANGED <<scene, enc, made, push, outs, out, lost, missed>>

\* spin_once has no timeout: it returns when something else needs the node.
Wake ==
    /\ reader.thread = "wait" /\ scene.wakes > 0
    /\ scene' = [scene EXCEPT !.wakes = @ - 1]
    /\ reader' = [reader EXCEPT !.thread = "test"]
    /\ UNCHANGED <<enc, made, push, outs, out, lost, missed>>

\* onEncodedFrame(frame), and afterwards on with the image (or not).
Walk(frame, then) ==
    IF reader.running
    THEN /\ push' = [at |-> "walk", frame |-> frame, rest |-> outs, torn |-> FALSE,
                     then |-> then]
         /\ reader' = [reader EXCEPT !.thread = "busy"]
    ELSE /\ push' = [NoPush EXCEPT !.then = then]
         /\ reader' = [reader EXCEPT !.thread = IF then = "none" THEN "test" ELSE "busy"]

\* A packet from the topic.  A stream begins with a key frame.
OnPacket ==
    /\ scene.source = "packets" /\ reader.thread = "wait" /\ made < scene.frames
    /\ made' = made + 1
    /\ \E key \in BOOLEAN : (made = 0 => key)
                              /\ Walk([NoFrame EXCEPT !.n = made', !.key = key], "none")
    /\ UNCHANGED <<scene, enc, outs, out, lost, missed>>

\* encodeFrame: the encoder may refuse the image, keep it, or give the oldest
\* packet it holds.  The first of an encoder is a key frame, and so is any
\* that begins a group of pictures.
Refuse == enc' = [enc EXCEPT !.format = push.then, !.fresh = enc.fresh \/ enc.format = "none"]
          /\ push' = NoPush /\ reader' = [reader EXCEPT !.thread = "test"]
          /\ UNCHANGED made

Encode ==
    /\ made < scene.frames /\ made' = made + 1
    /\ \E key \in BOOLEAN :
         LET held == Append(enc.held, [NoFrame EXCEPT !.n = made', !.key = key])
             now == [format |-> push.then, fresh |-> FALSE, held |-> held]
         IN  /\ enc.fresh \/ enc.format = "none" => key
             /\ \/ /\ Len(held) <= MaxHeld
                   /\ enc' = now /\ push' = NoPush
                   /\ reader' = [reader EXCEPT !.thread = "test"]
                \/ enc' = [now EXCEPT !.held = Tail(held)] /\ Walk(Head(held), "none")

\* An image from the topic.  An encoder of another format is destroyed, which
\* flushes it: of the frames it holds, one still goes out.
OnImage ==
    /\ scene.source = "images" /\ reader.thread = "wait"
    /\ IF ~reader.running \/ enc.format = "error"
       THEN /\ reader' = [reader EXCEPT !.thread = "test"]
            /\ UNCHANGED <<scene, enc, push>>
       ELSE \E f \in AnyFormat :
              IF enc.format \in {"none", f} \/ enc.held = <<>>
              THEN /\ enc' = IF enc.format = f THEN enc ELSE NoEncoder
                   /\ push' = [NoPush EXCEPT !.then = f]
                   /\ reader' = [reader EXCEPT !.thread = "busy"]
              ELSE enc' = NoEncoder /\ Walk(Head(enc.held), f)
    /\ UNCHANGED <<scene, made, outs, out, lost, missed>>

\* On with the image: an encoder is made if there is none.  A format it cannot
\* take drops this image only; an encoder that cannot be made ends them all.
EncodeImage ==
    /\ push.at = "idle" /\ push.then # "none"
    /\ \/ push.then \in Formats /\ Encode
       \/ push.then \in Formats /\ Refuse
       \/ /\ enc.format = "none"
          /\ enc' = IF push.then = "odd" THEN enc ELSE [NoEncoder EXCEPT !.format = "error"]
          /\ push' = NoPush /\ reader' = [reader EXCEPT !.thread = "test"]
          /\ UNCHANGED made
    /\ UNCHANGED <<scene, outs, out, lost, missed>>

----------------------------------------------------------------------------
\* onEncodedFrame, on the spinning thread.
Pending(o) == out[o].queue # <<>> \/ out[o].at = "send"

\* Mutant: an output may begin with any frame.
SkipsUntilOpen(o) == out[o].track # "ready"

\* num_sent is counted by the worker: it is 0 too while the first frame is on
\* its way, and again each time the counter comes round.
Skips(o) == (out[o].sent = 0 /\ ~push.frame.key) \/ out[o].track # "ready"
Visit ==
    /\ push.at = "walk" /\ push.rest # <<>>
    /\ LET o == Head(push.rest)
       IN  IF Skips(o)
           THEN /\ push' = [push EXCEPT !.rest = Tail(@)]
                /\ lost' = IF Pending(o) THEN lost \cup {o} ELSE lost
           ELSE push' = [push EXCEPT !.at = "push"] /\ UNCHANGED lost
    /\ UNCHANGED <<scene, reader, enc, made, outs, out, missed>>

\* Push and notify with outputs_mutex released, then lock again.  When the
\* vector was changed meanwhile, the loop's iterators are not valid any more:
\* what it visits from here on is anything.
Push ==
    /\ push.at = "push"
    /\ LET o == Head(push.rest)
           frame == [push.frame EXCEPT !.gap = (o \in lost)]
           added == {p \in Outputs : out[p].at # "new"}
       IN  /\ out' = IF out[o].at = "done" THEN out
                     ELSE [out EXCEPT ![o] = Notified([out[o] EXCEPT !.queue = Append(@, frame)])]
           /\ IF push.torn
              THEN /\ \E S \in SUBSET added :
                        push' = [push EXCEPT !.at = "walk", !.rest = SetToSeq(S), !.torn = FALSE]
                   /\ lost' = added
              ELSE /\ push' = [push EXCEPT !.at = "walk", !.rest = Tail(@)]
                   /\ lost' = lost \ {o}
    /\ UNCHANGED <<scene, reader, enc, made, outs, missed>>

Pushed ==
    /\ push.at = "walk" /\ push.rest = <<>>
    /\ push' = [NoPush EXCEPT !.then = push.then]
    /\ reader' = [reader EXCEPT !.thread = IF push.then = "none" THEN "test" ELSE "busy"]
    /\ UNCHANGED <<scene, enc, made, outs, out, lost, missed>>

----------------------------------------------------------------------------
\* outputFramesWorker, one thread per output.
Wanted(o) == reader.running /\ out[o].active

\* Out of the loop, the output is let go of.
WorkerTest(o) ==
    /\ out[o].at = "test"
    /\ out' = [out EXCEPT ![o] =
                 IF Wanted(o) THEN [@ EXCEPT !.at = "check"]
                 ELSE [NoOutput EXCEPT !.at = "done", !.active = out[o].active]]

\* The predicate of the wait; with a frame, the frame is taken, and dropped
\* when the output has ended meanwhile.
WorkerCheck(o) ==
    /\ out[o].at = "check"
    /\ out' = IF out[o].queue = <<>>
              THEN [out EXCEPT ![o].at = IF Wanted(o) THEN "block" ELSE "test"]
              ELSE [out EXCEPT ![o].queue = Tail(@),
                               ![o].at = IF Wanted(o) THEN "send" ELSE "test",
                               ![o].hand = IF Wanted(o) THEN Head(out[o].queue) ELSE NoFrame]

WorkerWait(o) == out[o].at = "block" /\ out' = [out EXCEPT ![o].at = "wait"]

\* sendFrame, which throws when the track is not open, and may throw anyway.
WorkerSends(o) ==
    /\ out[o].at = "send" /\ out[o].track = "ready" /\ UNCHANGED scene
    /\ out' = [out EXCEPT ![o].at = "test", ![o].hand = NoFrame, ![o].threw = FALSE,
                          ![o].last = out[o].hand.n, ![o].sent = (@ + 1) % SentMod]

WorkerThrows(o) ==
    /\ out[o].at = "send"
    /\ IF out[o].track = "closed" THEN UNCHANGED scene
       ELSE scene.faults > 0 /\ scene' = [scene EXCEPT !.faults = @ - 1]
    /\ out' = [out EXCEPT ![o].at = "test", ![o].hand = NoFrame, ![o].threw = TRUE]

Worker(o) ==
    /\ \/ (WorkerTest(o) \/ WorkerCheck(o) \/ WorkerWait(o)) /\ UNCHANGED scene
       \/ WorkerSends(o) \/ WorkerThrows(o)
    /\ UNCHANGED <<reader, enc, made, push, outs, lost, missed>>

----------------------------------------------------------------------------
Frame == OnPacket \/ OnImage
Spin == SpinTest \/ SpinEnd \/ EncodeImage \/ Visit \/ Push \/ Pushed
Stop == StopBegin \/ StopEnd
Peer(o) == AddOutput(o) \/ RemoveOutput(o) \/ TrackReady(o) \/ TrackCloses(o)

Next == Frame \/ Wake \/ Spin \/ Stop \/ \E o \in Outputs : Peer(o) \/ Worker(o)

\* Threads run; frames, other work for the executor and peers may stay away.
Fairness == WF_vars(Spin) /\ WF_vars(Stop) /\ \A o \in Outputs : WF_vars(Worker(o))

Spec == Init /\ [][Next]_vars
FairSpec == Spec /\ Fairness

----------------------------------------------------------------------------
\* A frame sent that is no key frame follows the one sent before it, unless
\* that one's send threw, or the frame between was skipped with num_sent 0
\* while frames were already on their way, or the outputs were changed under
\* the walk.  (A decoder shows nothing sensible until the next key frame.)
GapOnlyIfRaced ==
    [][\A o \in Outputs :
         LET frame == out[o].hand
         IN  out[o].at = "send" /\ out'[o].at = "test" /\ ~out'[o].threw =>
                frame.key \/ frame.gap \/ out[o].threw \/ frame.n = out[o].last + 1]_vars

\* The worker of an output that was removed, or whose reader was stopped, ends,
\* unless it was told between its look at the flags and its wait.
WorkerEndsUnlessMissed ==
    \A o \in Outputs :
        ~out[o].active ~> (out[o].at = "done" \/ o \in missed)

\* The destructor, which holds the lock of all video readers, ends, unless
\* the subscription could not be made or the executor never has work again.
StopEndsUnlessIdle ==
    <>[](reader.life = "stopping") =>
        <>[](reader.thread = "wait") \/ [](reader.thread = "none")
============================================================================
