---------------------------- MODULE TopicFanout ----------------------------
(***************************************************************************)
(* The channels of every peer and the readers and writers they share        *)
(* (src/topic_reader_data.cpp, src/topic_writer_data.cpp and the registry   *)
(* of src/topic_reader_h264.cpp, driven by the rounds of wrtc_peer.cpp).    *)
(*                                                                          *)
(* One ROS subscription (or publisher) per topic is shared by all peers.  A *)
(* peer's round, alone under that peer's mutex, opens and closes its        *)
(* channels and moves them in and out of the shared objects; rounds of      *)
(* different peers interleave between any two uses of a shared object.      *)
(* The waits of a round are the subject of PeerRounds: here a negotiation   *)
(* is answered, or its peer has left.                                       *)
(***************************************************************************)
EXTENDS Naturals, FiniteSets

CONSTANTS Peers,
          Data,        \* topics read through data channels
          Media,       \* topics read through media tracks
          Write,       \* topics written through data channels
          May,         \* the topics each peer ever asks for
          MaxInputs    \* how many inputs the environment may give

Topics == Data \cup Media \cup Write

ASSUME TopicsAssumption ==
    /\ Data \cap Media = {} /\ Data \cap Write = {} /\ Media \cap Write = {}
    /\ May \in [Peers -> SUBSET Topics]
    /\ MaxInputs \in Nat

VARIABLES
    want,      \* requested topics (req_read_subs and req_write_subs)
    known,     \* read topics that introspection has discovered
    up,        \* is_connected, per peer
    restart,   \* peer_needs_restart
    pend,      \* rounds asked for and not begun
    chan,      \* the peer's channel for each topic (0: none)
    paused,    \* media tracks kept open and not in use
    nextId,    \* next_channel_id; tracks are numbered along
    base,      \* channels with lower numbers belong to a removed pc
    reg,       \* the registered shared object of each topic (0: none)
    made,      \* objects made so far for each topic
    outs,      \* outputs (inputs, for Write) of the shared objects
    ready,     \* outputs and tracks marked init_complete
    subs,      \* shared objects with a live ROS subscription or publisher
    round,     \* per peer: where its round is
    stable,    \* a callback for signaling state stable is on its way
    erased,    \* history: channels whose reader was unregistered by another
               \* round, under them or before they became its outputs
    inputs

peerVars == <<want, known, up, restart>>
chanVars == <<chan, paused, nextId, base>>
objVars  == <<reg, made, outs, ready, subs>>
vars == <<peerVars, chanVars, objVars, pend, round, stable, erased, inputs>>

\* A round: its stage, the topics visited or still to close, the one in hand,
\* the shared object it holds for that topic, negotiation_needed, is_reconnect,
\* close_channel of the unsubscribe in hand, and whether the request lists
\* changed while it reads them.
NoRound == [at |-> "idle", topics |-> {}, cur |-> "", ref |-> 0, neg |-> FALSE,
            reconn |-> FALSE, shut |-> FALSE, dirty |-> FALSE]
Stages == {"idle", "open", "add", "close", "remove", "destroy", "negotiate"}

Output(p, t, g) == [peer |-> p, id |-> chan[p][t], topic |-> t, gen |-> g]
Track(p, t) == Output(p, t, 0)

TypeOK ==
    /\ want \in [Peers -> SUBSET Topics]
    /\ known \subseteq Topics
    /\ up \in [Peers -> BOOLEAN] /\ restart \in [Peers -> BOOLEAN]
    /\ pend \in [Peers -> Nat]
    /\ chan \in [Peers -> [Topics -> Nat]]
    /\ paused \in [Peers -> SUBSET Media]
    /\ nextId \in [Peers -> Nat] /\ base \in [Peers -> Nat]
    /\ reg \in [Topics -> Nat] /\ made \in [Topics -> Nat]
    /\ \A o \in outs \cup ready \cup erased :
         o.peer \in Peers /\ o.topic \in Topics /\ o.id > 0 /\ o.gen \in Nat
    /\ \A s \in subs : s[1] \in Topics /\ s[2] \in 1..made[s[1]]
    /\ \A p \in Peers : round[p].at \in Stages /\ round[p].topics \subseteq Topics
    /\ stable \in [Peers -> BOOLEAN]
    /\ inputs \in 0..MaxInputs

Init ==
    /\ want = [p \in Peers |-> {}]
    /\ known = {}
    /\ up = [p \in Peers |-> TRUE]
    /\ restart = [p \in Peers |-> FALSE]
    /\ pend = [p \in Peers |-> 0]
    /\ chan = [p \in Peers |-> [t \in Topics |-> 0]]
    /\ paused = [p \in Peers |-> {}]
    /\ nextId = [p \in Peers |-> 1]
    /\ base = [p \in Peers |-> 1]
    /\ reg = [t \in Topics |-> 0]
    /\ made = [t \in Topics |-> 0]
    /\ outs = {} /\ ready = {} /\ subs = {}
    /\ round = [p \in Peers |-> NoRound]
    /\ stable = [p \in Peers |-> FALSE]
    /\ erased = {}
    /\ inputs = 0

-----------------------------------------------------------------------------
(* Inputs: the SIO thread's messages and the main thread's introspection    *)

Input == inputs < MaxInputs /\ inputs' = inputs + 1

\* processSubscriptions for the peers of S; a running round of a peer in D
\* sees its request lists change under it.
Ask(S, D) ==
    /\ pend' = [p \in Peers |-> IF p \in S THEN pend[p] + 1 ELSE pend[p]]
    /\ round' = [p \in Peers |->
                   IF p \in D /\ round[p].at # "idle"
                   THEN [round[p] EXCEPT !.dirty = TRUE] ELSE round[p]]

\* A subscribe message, for any kind of topic.
Subscribe(p, t) ==
    /\ Input
    /\ up[p] /\ t \in May[p] \ want[p]
    /\ want' = [want EXCEPT ![p] = @ \cup {t}]
    /\ Ask({p}, {p})
    /\ UNCHANGED <<known, up, restart, chanVars, objVars, stable, erased>>

Unsubscribe(p, t) ==
    /\ Input
    /\ up[p] /\ t \in want[p]
    /\ want' = [want EXCEPT ![p] = @ \ {t}]
    /\ Ask({p}, {p})
    /\ UNCHANGED <<known, up, restart, chanVars, objVars, stable, erased>>

\* The client reports that its connection failed.
PeerFailed(p) ==
    /\ Input
    /\ up[p] /\ ~restart[p]
    /\ restart' = [restart EXCEPT ![p] = TRUE]
    /\ Ask({p}, {})
    /\ UNCHANGED <<want, known, up, chanVars, objVars, stable, erased>>

\* onDisconnected: the lists are emptied and a last round cleans up.
Leave(p) ==
    /\ Input
    /\ up[p]
    /\ up' = [up EXCEPT ![p] = FALSE]
    /\ want' = [want EXCEPT ![p] = {}]
    /\ Ask({p}, {p})
    /\ UNCHANGED <<known, restart, chanVars, objVars, stable, erased>>

\* Mutant: no round is asked for.
DiscoverQuietly(t) ==
    /\ Input
    /\ t \in (Data \cup Media) \ known
    /\ known' = known \cup {t}
    /\ UNCHANGED <<want, up, restart, pend, round, chanVars, objVars, stable,
                   erased>>

\* Introspection finds a topic and asks every connected peer for a round.
Discover(t) ==
    /\ Input
    /\ t \in (Data \cup Media) \ known
    /\ known' = known \cup {t}
    /\ Ask({p \in Peers : up[p]}, {})
    /\ UNCHANGED <<want, up, restart, chanVars, objVars, stable, erased>>

-----------------------------------------------------------------------------
(* The shared objects                                                       *)

OutputsOf(O, t, g) == {o \in O : o.topic = t /\ o.gen = g}

\* An object lives while it is registered or a round holds it.
Held(rg, rd, t, g) ==
    rg[t] = g \/ \E p \in Peers : rd[p].cur = t /\ rd[p].ref = g

\* The new outputs O and subscriptions S, less those of the readers nobody
\* holds any more: the destructor stops them.  Writers stay registered.  An
\* output takes its init_complete with it, a track keeps its own.
Keep(O, S) ==
    /\ outs' = {o \in O : Held(reg', round', o.topic, o.gen)}
    /\ subs' = {s \in S : Held(reg', round', s[1], s[2])}
    /\ ready' = {o \in ready : o.gen = 0 \/ o \in outs'}

\* addOutput (addInput): at most once per channel; the first one starts the
\* subscription, a new output is not ready.
AddTo(t, g, o) == Keep(outs \cup {o}, subs \cup {<<t, g>>})

\* Mutants: the output stays in the list; the object is never stopped; the
\* outputs of other channels go as well.
RemoveFromKeeping(t, g, o) == Keep(outs, subs)

RemoveFromUnstopped(t, g, o) == Keep(outs \ {o}, subs)

RemoveFromAll(t, g, o) == Keep(outs \ OutputsOf(outs, t, g), subs)

\* removeOutput (removeInput) leaves these, and stops the object when empty;
\* a media reader is only stopped by its destructor.
RemoveFrom(t, g, o) ==
    LET rest == outs \ {o}
    IN  Keep(rest, IF OutputsOf(rest, t, g) = {} /\ t \notin Media
                   THEN subs \ {<<t, g>>} ELSE subs)

-----------------------------------------------------------------------------
(* A round of peer p                                                        *)

Visible(p) == {t \in want[p] : t \in known \cup Write}

\* Mutant: a round starts that nobody asked for.
BeginRoundUnasked(p) ==
    /\ round[p].at = "idle"
    /\ pend' = [pend EXCEPT ![p] = @ - 1]
    /\ round' = [round EXCEPT ![p] = [NoRound EXCEPT !.at = "open"]]
    /\ UNCHANGED <<peerVars, chanVars, objVars, stable, erased, inputs>>

\* A round that reconnects forgets the data channels of the old pc, and only
\* them: the shared objects and the media tracks stay as they are.
BeginRound(p) ==
    /\ round[p].at = "idle" /\ pend[p] > 0
    /\ pend' = [pend EXCEPT ![p] = @ - 1]
    /\ LET reconn == up[p] /\ restart[p]
       IN  /\ round' = [round EXCEPT ![p] =
                          [NoRound EXCEPT !.at = "open", !.neg = reconn,
                                          !.reconn = reconn]]
           /\ restart' = [restart EXCEPT ![p] = @ /\ ~reconn]
           /\ chan' = [chan EXCEPT ![p] =
                         [t \in Topics |-> IF reconn /\ t \notin Media
                                           THEN 0 ELSE @[t]]]
           /\ base' = [base EXCEPT ![p] = IF reconn THEN nextId[p] ELSE @]
           /\ stable' = [stable EXCEPT ![p] = @ /\ ~reconn]
    /\ UNCHANGED <<want, known, up, paused, nextId, objVars, erased, inputs>>

\* subscribe...Topic up to getForTopic: the channel is found or opened, the
\* shared object found or made.
Open(p, t) ==
    /\ round[p].at = "open"
    /\ t \in Visible(p) \ round[p].topics
    /\ made' = [made EXCEPT ![t] = IF reg[t] = 0 THEN @ + 1 ELSE @]
    /\ reg' = [reg EXCEPT ![t] = IF @ = 0 THEN made'[t] ELSE @]
    /\ LET fresh == chan[p][t] = 0
       IN  /\ chan' = [chan EXCEPT ![p][t] = IF fresh THEN nextId[p] ELSE @]
           /\ nextId' = [nextId EXCEPT ![p] = IF fresh THEN @ + 1 ELSE @]
           /\ round' = [round EXCEPT ![p] =
                          [@ EXCEPT !.at = "add", !.cur = t,
                                    !.neg = round[p].neg \/ fresh,
                                    !.ref = reg'[t]]]
    /\ paused' = [paused EXCEPT ![p] = @ \ {t}]
    /\ UNCHANGED <<peerVars, base, outs, ready, subs, pend, stable, erased,
                   inputs>>

Add(p) ==
    /\ round[p].at = "add"
    /\ UNCHANGED <<reg, made>>
    /\ LET t == round[p].cur
           g == round[p].ref
       IN  /\ round' = [round EXCEPT ![p] =
                          [@ EXCEPT !.at = "open", !.cur = "", !.ref = 0,
                                    !.topics = round[p].topics \cup {t}]]
           /\ AddTo(t, g, Output(p, t, g))
           /\ erased' = IF reg[t] = g THEN erased ELSE erased \cup {Track(p, t)}
    /\ UNCHANGED <<peerVars, chanVars, pend, stable, inputs>>

\* The open loops end, early if the lists changed under them, and the
\* channels nobody requests any more are gathered.
Scan(p) ==
    /\ round[p].at = "open"
    /\ Visible(p) \subseteq round[p].topics \/ round[p].dirty
    /\ round' = [round EXCEPT ![p] =
                   [@ EXCEPT !.at = "close",
                             !.topics = {t \in Topics : chan[p][t] # 0} \
                                          (want[p] \cup paused[p])]]
    /\ UNCHANGED <<peerVars, chanVars, objVars, pend, stable, erased, inputs>>

\* unsubscribe...Topic up to getForTopic.
Close(p, t) ==
    /\ round[p].at = "close" /\ t \in round[p].topics
    /\ round' = [round EXCEPT ![p] =
                   [@ EXCEPT !.at = "remove", !.cur = t, !.ref = reg[t],
                             !.shut = \/ t \notin Media
                                      \/ ~up[p] \/ round[p].reconn]]
    /\ UNCHANGED <<peerVars, chanVars, objVars, pend, stable, erased, inputs>>

\* The rest of unsubscribe...Topic: the channel is closed, or the media track
\* of a peer that stays kept for later.
Forget(p, t) ==
    /\ round' = [round EXCEPT ![p] =
                   [@ EXCEPT !.at = "close", !.cur = "", !.ref = 0,
                             !.topics = round[p].topics \ {t}]]
    /\ IF round[p].shut
       THEN chan' = [chan EXCEPT ![p][t] = 0] /\ UNCHANGED paused
       ELSE paused' = [paused EXCEPT ![p] = @ \cup {t}] /\ UNCHANGED chan

\* No reader: nothing to remove.  The last output of a reader is removed: the
\* reader is to be destroyed, which is another critical section.
Remove(p) ==
    /\ round[p].at = "remove"
    /\ UNCHANGED <<reg, made>>
    /\ LET t == round[p].cur
           g == round[p].ref
           o == Output(p, t, g)
       IN  IF g # 0 /\ t \notin Write /\ OutputsOf(outs \ {o}, t, g) = {}
           THEN /\ round' = [round EXCEPT ![p].at = "destroy"]
                /\ RemoveFrom(t, g, o)
                /\ UNCHANGED <<chan, paused>>
           ELSE Forget(p, t) /\ RemoveFrom(t, g, o)
    /\ UNCHANGED <<peerVars, nextId, base, pend, stable, erased, inputs>>

\* destroy(topic) unregisters whatever reader the topic has by now.
Destroy(p) ==
    /\ round[p].at = "destroy"
    /\ LET t == round[p].cur
       IN  /\ reg' = [reg EXCEPT ![t] = 0]
           /\ erased' = erased \cup {[o EXCEPT !.gen = 0] :
                                       o \in OutputsOf(outs, t, reg[t])}
           /\ Forget(p, t)
    /\ Keep(outs, subs)
    /\ UNCHANGED <<peerVars, nextId, base, made, pend, stable, inputs>>

\* All closed: a round that opened something negotiates with its peer.
EndClose(p) ==
    /\ round[p].at = "close" /\ round[p].topics = {}
    /\ round' = [round EXCEPT ![p] =
                   IF round[p].neg /\ up[p]
                   THEN [@ EXCEPT !.at = "negotiate"] ELSE NoRound]
    /\ UNCHANGED <<peerVars, chanVars, objVars, pend, stable, erased, inputs>>

\* The answer is set and the pc's signaling state is stable again, which the
\* library reports from a thread of its own; a peer that left gives none.
Negotiated(p) ==
    /\ round[p].at = "negotiate"
    /\ stable' = [stable EXCEPT ![p] = up[p]]
    /\ round' = [round EXCEPT ![p] = NoRound]
    /\ UNCHANGED <<peerVars, chanVars, objVars, pend, erased, inputs>>

\* onPCSignalingStateChange: the outputs of the peer's pc in every registered
\* reader, and all the peer's tracks, may send from now on, unless the pc's
\* state has changed again.
StableCallback(p) ==
    /\ stable[p]
    /\ stable' = [stable EXCEPT ![p] = FALSE]
    /\ ready' = IF round[p].at = "negotiate" THEN ready ELSE ready
         \cup {o \in outs : /\ o.peer = p /\ o.id >= base[p]
                            /\ o.topic \in Data /\ reg[o.topic] = o.gen}
         \cup {Track(p, t) : t \in {v \in Media : chan[p][v] # 0}}
    /\ UNCHANGED <<peerVars, chanVars, reg, made, outs, subs, pend, round,
                   erased, inputs>>

-----------------------------------------------------------------------------
Step(p) ==
    \/ BeginRound(p) \/ \E t \in Topics : Open(p, t) \/ Close(p, t)
    \/ Add(p) \/ Scan(p) \/ Remove(p) \/ Destroy(p) \/ EndClose(p)
    \/ Negotiated(p) \/ StableCallback(p)

\* Nothing is asked for and nothing is on its way.
Quiescent ==
    /\ inputs = MaxInputs \/ \A p \in Peers : ~up[p]
    /\ \A p \in Peers : pend[p] = 0 /\ round[p].at = "idle" /\ ~stable[p]
    /\ UNCHANGED vars

Next ==
    \/ \E p \in Peers :
         \/ \E t \in Topics : Subscribe(p, t) \/ Unsubscribe(p, t)
         \/ PeerFailed(p) \/ Leave(p) \/ Step(p)
    \/ \E t \in Topics : Discover(t)
    \/ Quiescent

Spec == Init /\ [][Next]_vars

-----------------------------------------------------------------------------
(* Properties                                                               *)

Settled(p) == pend[p] = 0 /\ round[p].at = "idle" /\ ~stable[p]

\* Messages of topic t reach peer p: through a channel of the current pc that
\* is an enabled output of the registered object, which is subscribed.
Served(p, t) ==
    /\ chan[p][t] >= base[p]
    /\ reg[t] # 0 /\ <<t, reg[t]>> \in subs
    /\ Output(p, t, reg[t]) \in outs
    /\ t \in Data => Output(p, t, reg[t]) \in ready
    /\ t \in Media => Track(p, t) \in ready /\ t \notin paused[p]

\* When a peer's rounds are done, everything it asked for is served.
RequestsServed ==
    \A p \in Peers : Settled(p) => \A t \in Visible(p) : Served(p, t)

\* ... unless another peer's destroy() unregistered the reader meanwhile, or
\* the topic's track is one of a pc that was replaced.
RequestsServedUnlessErased ==
    \A p \in Peers : Settled(p) =>
      \A t \in Visible(p) :
        \/ Served(p, t)
        \/ Track(p, t) \in erased
        \/ t \in Media /\ chan[p][t] < base[p]

\* A closed channel is no output of any object, nor is a channel that was not
\* yet opened: no message goes to a peer that unsubscribed.  Only channels
\* that a replaced pc left behind are still there, and those of a reader that
\* destroy() unregistered under them while a third peer's round holds it.
NoOutputAfterClose ==
    \A o \in outs :
      \/ chan[o.peer][o.topic] = o.id /\ o.topic \notin paused[o.peer]
      \/ o.id < base[o.peer]
      \/ reg[o.topic] # o.gen

\* "stops if no other peer subs left": when all is settled, an object without
\* a peer that wants its topic has neither subscription nor publisher, unless a
\* replaced pc left one of its channels in it.
StopsWhenUnusedUnlessRestarted ==
    (\A p \in Peers : Settled(p)) =>
      \A s \in subs :
        \/ \E p \in Peers : s[1] \in want[p]
        \/ \E o \in OutputsOf(outs, s[1], s[2]) : o.id < base[o.peer]

\* A peer that is served stays so whatever the other peers open, close, or
\* leave behind, unless destroy() hits it.
OthersDoNotInterrupt ==
    [][\A p \in Peers, t \in Topics :
         Served(p, t) /\ round'[p] = round[p]
           => Served(p, t)' \/ Track(p, t) \in erased']_vars
=============================================================================
