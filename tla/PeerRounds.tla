----------------------------- MODULE PeerRounds -----------------------------
(***************************************************************************)
(* The control of one bridge's WRTCPeer objects (src/wrtc_peer.cpp): the    *)
(* Socket.IO thread that runs every handler, the detached threads that      *)
(* process a peer's subscriptions one round at a time under its             *)
(* processing_subscriptions_mutex, and the offer/answer exchange that a     *)
(* round blocks on.  A peer is a WRTCPeer OBJECT: a client that comes back  *)
(* after it was erased from connected_peers is another element of Peers.    *)
(*                                                                          *)
(* Which channels a round opens and closes is the subject of                *)
(* TopicFanout; here a round opens something or does not.                  *)
(***************************************************************************)
EXTENDS Naturals, FiniteSets

CONSTANTS Peers,         \* WRTCPeer objects
          None,          \* no object: not a member of Peers
          MaxInputs,     \* how many inputs the environment may give
          PlainReplies,  \* may a client answer an update without an offer?
          Reoffer        \* what setLocalDescription(Offer) does while an
                         \* earlier offer is still open (libdatachannel)

ASSUME NoneAssumption == None \notin Peers
ASSUME InputsAssumption == MaxInputs \in Nat
ASSUME LibraryAssumption ==
    /\ PlainReplies \in BOOLEAN
    /\ Reoffer \subseteq {"regenerate", "throw", "ignore"}

VARIABLES
    conn,     \* new -> up (in connected_peers) -> down (leaving) -> gone
    sig,      \* no pc, or its signaling state: none, stable, offered
    offerNo,  \* version of the local description (a new one per offer)
    failed,   \* the pc is Failed, or its ICE transport Closed
    restart,  \* peer_needs_restart
    pend,     \* spawned processing threads that wait for the mutex, by kind
    stage,    \* where the thread that holds the mutex is; idle: mutex free
    kind,     \* what that round answers: an ack, an update, a clean-up
    reconn,   \* is_reconnect, a local of the round
    neg,      \* negotiation_needed
    await,    \* awaiting_peer_reply
    owed,     \* offers the client received and has not answered
    plain,    \* updates without an offer whose callback has not been called
    sioUp,    \* BridgeSocket::connected
    leaving,  \* peers whose onDisconnected the SIO thread still has to run
    sio,      \* the peer whose onDisconnected is running, or None
    inputs    \* inputs given so far

peerVars  == <<conn, sioUp, leaving, sio>>
pcVars    == <<sig, offerNo, failed>>
roundVars == <<stage, kind, reconn, neg>>
wireVars  == <<owed, plain>>
vars == <<peerVars, pcVars, roundVars, wireVars, restart, pend, await, inputs>>

Kinds  == {"ack", "upd"}
Stages == {"idle", "restart", "channels", "offer", "nosdp", "gather",
           "finish", "wait"}
Offers == [no : Nat, via : Kinds]

TypeOK ==
    /\ conn \in [Peers -> {"new", "up", "down", "gone"}]
    /\ sig \in [Peers -> {"none", "stable", "offered"}]
    /\ offerNo \in [Peers -> Nat]
    /\ failed \in [Peers -> BOOLEAN]
    /\ restart \in [Peers -> BOOLEAN]
    /\ pend \in [Peers -> [Kinds -> Nat]]
    /\ stage \in [Peers -> Stages]
    /\ kind \in [Peers -> Kinds \cup {"none", "sync"}]
    /\ reconn \in [Peers -> BOOLEAN]
    /\ neg \in [Peers -> BOOLEAN]
    /\ await \in [Peers -> BOOLEAN]
    /\ owed \in [Peers -> SUBSET Offers]
    /\ plain \in [Peers -> Nat]
    /\ sioUp \in BOOLEAN
    /\ leaving \in SUBSET Peers
    /\ sio \in Peers \cup {None}
    /\ inputs \in 0..MaxInputs

Init ==
    /\ conn = [p \in Peers |-> "new"]
    /\ sig = [p \in Peers |-> "none"]
    /\ offerNo = [p \in Peers |-> 0]
    /\ failed = [p \in Peers |-> FALSE]
    /\ restart = [p \in Peers |-> FALSE]
    /\ pend = [p \in Peers |-> [k \in Kinds |-> 0]]
    /\ stage = [p \in Peers |-> "idle"]
    /\ kind = [p \in Peers |-> "none"]
    /\ reconn = [p \in Peers |-> FALSE]
    /\ neg = [p \in Peers |-> FALSE]
    /\ await = [p \in Peers |-> FALSE]
    /\ owed = [p \in Peers |-> {}]
    /\ plain = [p \in Peers |-> 0]
    /\ sioUp = TRUE
    /\ leaving = {}
    /\ sio = None
    /\ inputs = 0

-----------------------------------------------------------------------------
(* The environment and the SIO thread's handlers                            *)

\* The environment's budget: the one bound of the model.
Input == inputs < MaxInputs /\ inputs' = inputs + 1

\* The SIO thread runs one handler at a time: it is free to start another.
SioFree == sio = None /\ leaving = {}

\* processSubscriptions: a detached thread that will wait for the mutex.
Spawn(p, k) == pend' = [pend EXCEPT ![p][k] = @ + 1]

\* 'peer': the object is built with its pc and enters connected_peers.
PeerConnected(p) ==
    /\ Input /\ SioFree /\ sioUp
    /\ conn[p] = "new"
    /\ conn' = [conn EXCEPT ![p] = "up"]
    /\ sig' = [sig EXCEPT ![p] = "stable"]
    /\ Spawn(p, "ack")
    /\ UNCHANGED <<offerNo, failed, restart, roundVars, await, wireVars,
                   sioUp, leaving, sio>>

\* A (un)subscribe message: the request lists change and the message is
\* answered by the ack of the round it spawns.
Subscribe(p) ==
    /\ Input /\ SioFree /\ sioUp
    /\ conn[p] = "up"
    /\ Spawn(p, "ack")
    /\ UNCHANGED <<peerVars, pcVars, restart, roundVars, await, wireVars>>

\* Mutant: the flag is raised but no round is asked for.
PeerFailedQuietly(p) ==
    /\ Input /\ SioFree /\ sioUp
    /\ conn[p] = "up"
    /\ restart' = [restart EXCEPT ![p] = TRUE]
    /\ UNCHANGED <<peerVars, pcVars, roundVars, pend, await, wireVars>>

\* 'peer:wrtc-info' with state n/a or failed.
PeerFailed(p) ==
    /\ Input /\ SioFree /\ sioUp
    /\ conn[p] = "up"
    /\ restart' = [restart EXCEPT ![p] = TRUE]
    /\ Spawn(p, "upd")
    /\ UNCHANGED <<peerVars, pcVars, roundVars, await, wireVars>>

\* The main thread: introspection discovered topics, every peer in the map
\* gets a round, the one being removed included.
AllPeersProcess ==
    /\ Input
    /\ \E p \in Peers : conn[p] \in {"up", "down"}
    /\ pend' = [p \in Peers |->
                  IF conn[p] \in {"up", "down"}
                  THEN [pend[p] EXCEPT !["upd"] = @ + 1] ELSE pend[p]]
    /\ UNCHANGED <<peerVars, pcVars, restart, roundVars, await, wireVars>>

\* The library reports the pc's failure: its ICE callback asks for a round
\* unless the peer is leaving; another failure only changes the pc's state.
PcFails(p) ==
    /\ Input
    /\ sig[p] # "none" /\ ~failed[p]
    /\ failed' = [failed EXCEPT ![p] = TRUE]
    /\ \/ conn[p] = "up" /\ Spawn(p, "upd")
       \/ UNCHANGED pend
    /\ UNCHANGED <<peerVars, sig, offerNo, restart, roundVars, await,
                   wireVars>>

\* 'peer:disconnected': the handler starts onDisconnected.
PeerDisconnected(p) ==
    /\ Input /\ SioFree /\ sioUp
    /\ conn[p] = "up"
    /\ leaving' = {p}
    /\ UNCHANGED <<conn, sioUp, sio, pcVars, restart, pend, roundVars, await,
                   wireVars>>

\* The socket is lost: emits are dropped from now on and all peers leave.
SocketLost ==
    /\ Input /\ SioFree /\ sioUp
    /\ sioUp' = FALSE
    /\ leaving' = {p \in Peers : conn[p] = "up"}
    /\ UNCHANGED <<conn, sio, pcVars, restart, pend, roundVars, await,
                   wireVars>>

SocketOpen ==
    /\ Input /\ SioFree /\ ~sioUp
    /\ sioUp' = TRUE
    /\ UNCHANGED <<conn, leaving, sio, pcVars, restart, pend, roundVars,
                   await, wireVars>>

\* onDisconnected up to the round it runs itself: the offers the client got
\* are not answered any more.
BeginLeave(p) ==
    /\ sio = None /\ p \in leaving
    /\ sio' = p
    /\ conn' = [conn EXCEPT ![p] = "down"]
    /\ owed' = [owed EXCEPT ![p] = {}]
    /\ plain' = [plain EXCEPT ![p] = 0]
    /\ UNCHANGED <<sioUp, leaving, pcVars, restart, pend, roundVars, await,
                   inputs>>

\* The client answers an offer (ack rounds: 'peer:sdp:answer', update rounds:
\* the update's callback): applied only to a pc with an open offer.
SDPAnswer(p, o) ==
    /\ SioFree /\ sioUp /\ conn[p] = "up"
    /\ o \in owed[p]
    /\ owed' = [owed EXCEPT ![p] = @ \ {o}]
    /\ sig' = [sig EXCEPT ![p] = IF @ = "offered" THEN "stable" ELSE @]
    /\ await' = [await EXCEPT ![p] = FALSE]
    /\ UNCHANGED <<peerVars, offerNo, failed, restart, pend, roundVars,
                   plain, inputs>>

\* Mutant: the error branch returns without lowering the flag.
OfferErrorKeepsFlag(p, o) ==
    /\ SioFree /\ sioUp /\ conn[p] = "up"
    /\ o \in owed[p] /\ o.via = "upd"
    /\ owed' = [owed EXCEPT ![p] = @ \ {o}]
    /\ UNCHANGED <<peerVars, pcVars, restart, pend, roundVars, await, plain,
                   inputs>>

\* The client answers an update's offer with an error.
OfferError(p, o) ==
    /\ SioFree /\ sioUp /\ conn[p] = "up"
    /\ o \in owed[p] /\ o.via = "upd"
    /\ owed' = [owed EXCEPT ![p] = @ \ {o}]
    /\ await' = [await EXCEPT ![p] = FALSE]
    /\ UNCHANGED <<peerVars, pcVars, restart, pend, roundVars, plain, inputs>>

\* The client calls the callback of an update that carried no offer: with an
\* error at any time, or, while no offer is open, with nothing to apply.  Both
\* branches of onSIOOfferReply lower the flag.
PlainReply(p) ==
    /\ PlainReplies
    /\ SioFree /\ sioUp /\ conn[p] = "up"
    /\ plain[p] > 0
    /\ plain' = [plain EXCEPT ![p] = @ - 1]
    /\ await' = [await EXCEPT ![p] = FALSE]
    /\ UNCHANGED <<peerVars, pcVars, restart, pend, roundVars, owed, inputs>>

-----------------------------------------------------------------------------
(* processSubscriptionsSync, one action per stretch between two reads of    *)
(* state that other threads write                                           *)

Goto(p, s) == stage' = [stage EXCEPT ![p] = s]

\* The end of a round releases the mutex.
Release(p) ==
    /\ Goto(p, "idle")
    /\ kind' = [kind EXCEPT ![p] = "none"]

\* Mutants: a round of a leaving peer reconnects; the client's request for a
\* restart is not looked at.
IsReconnectEvenLeaving(p) ==
    sioUp /\ (restart[p] \/ sig[p] = "none" \/ failed[p])

IsReconnectOnFailure(p) ==
    conn[p] = "up" /\ sioUp /\ (sig[p] = "none" \/ failed[p])

IsReconnect(p) ==
    /\ conn[p] = "up" /\ sioUp
    /\ restart[p] \/ sig[p] = "none" \/ failed[p]

\* The mutex is taken, the round's locals are computed.
Enter(p, k) ==
    /\ stage[p] = "idle"
    /\ kind' = [kind EXCEPT ![p] = k]
    /\ reconn' = [reconn EXCEPT ![p] = IsReconnect(p)]
    /\ neg' = [neg EXCEPT ![p] = IsReconnect(p)]
    /\ Goto(p, IF IsReconnect(p) THEN "restart" ELSE "channels")

\* Mutant: a round starts that no thread was spawned for.
BeginRoundUnasked(p, k) ==
    /\ Enter(p, k)
    /\ pend' = [pend EXCEPT ![p][k] = @ - 1]
    /\ UNCHANGED <<peerVars, pcVars, restart, await, wireVars, inputs>>

BeginRound(p, k) ==
    /\ pend[p][k] > 0
    /\ Enter(p, k)
    /\ pend' = [pend EXCEPT ![p][k] = @ - 1]
    /\ UNCHANGED <<peerVars, pcVars, restart, await, wireVars, inputs>>

\* onDisconnected's own round, in the SIO thread.
BeginCleanup(p) ==
    /\ sio = p
    /\ Enter(p, "sync")
    /\ UNCHANGED <<peerVars, pcVars, restart, pend, await, wireVars, inputs>>

\* removePeerConnection and createPeerConnection.
Restart(p) ==
    /\ stage[p] = "restart"
    /\ restart' = [restart EXCEPT ![p] = FALSE]
    /\ sig' = [sig EXCEPT ![p] = "stable"]
    /\ failed' = [failed EXCEPT ![p] = FALSE]
    /\ Goto(p, "channels")
    /\ UNCHANGED <<peerVars, offerNo, kind, reconn, neg, pend, await,
                   wireVars, inputs>>

\* Channels are opened and closed; only an opened one needs negotiation, and
\* a leaving peer requests none.  Then the wait flag is reset.
Channels(p) ==
    /\ stage[p] = "channels"
    /\ \E opened \in {FALSE} \cup {conn[p] = "up"} :
         /\ neg' = [neg EXCEPT ![p] = @ \/ opened]
         /\ Goto(p, IF conn[p] = "up" /\ (neg[p] \/ opened)
                    THEN "offer" ELSE "finish")
    /\ await' = [await EXCEPT ![p] = FALSE]
    /\ UNCHANGED <<peerVars, pcVars, restart, kind, reconn, pend, wireVars,
                   inputs>>

\* setLocalDescription(Offer).
MakeOffer(p) ==
    /\ stage[p] = "offer" /\ sig[p] = "stable"
    /\ sig' = [sig EXCEPT ![p] = "offered"]
    /\ offerNo' = [offerNo EXCEPT ![p] = @ + 1]
    /\ Goto(p, "gather")
    /\ UNCHANGED <<peerVars, failed, restart, kind, reconn, neg, pend, await,
                   wireVars, inputs>>

\* ... while an offer answered with an error is still open: the library makes
\* a new description, throws (processSubscriptions catches) or does nothing.
MakeOfferAgain(p) ==
    /\ stage[p] = "offer" /\ sig[p] = "offered"
    /\ \E r \in Reoffer :
         /\ offerNo' = [offerNo EXCEPT ![p] =
                          IF r = "regenerate" THEN @ + 1 ELSE @]
         /\ IF r = "throw" THEN Release(p)
            ELSE /\ Goto(p, IF r = "ignore" THEN "nosdp" ELSE "gather")
                 /\ UNCHANGED kind
    /\ UNCHANGED <<peerVars, sig, failed, restart, reconn, neg, pend, await,
                   wireVars, inputs>>

\* No description will come: the first polling loop ends with the connection.
StopGenerating(p) ==
    /\ stage[p] = "nosdp" /\ conn[p] # "up"
    /\ Goto(p, "gather")
    /\ UNCHANGED <<peerVars, pcVars, restart, kind, reconn, neg, pend, await,
                   wireVars, inputs>>

\* Gathering is complete, or the peer left: the offer joins the reply.
Gathered(p) ==
    /\ stage[p] = "gather"
    /\ await' = [await EXCEPT ![p] = TRUE]
    /\ Goto(p, "finish")
    /\ UNCHANGED <<peerVars, pcVars, restart, kind, reconn, neg, pend,
                   wireVars, inputs>>

\* The reply goes out as the ack or as a new update (both are dropped when
\* the socket is down), and the round starts to wait.  A connected peer's
\* round that needed negotiation has put its offer in the reply.
Send(p) ==
    /\ stage[p] = "finish" /\ conn[p] = "up"
    /\ Goto(p, "wait")
    /\ owed' = [owed EXCEPT ![p] =
                  IF sioUp /\ neg[p]
                  THEN @ \cup {[no |-> offerNo[p], via |-> kind[p]]} ELSE @]
    /\ plain' = [plain EXCEPT ![p] =
                  IF sioUp /\ ~neg[p] /\ kind[p] = "upd"
                  THEN @ + 1 ELSE @]
    /\ UNCHANGED <<peerVars, pcVars, restart, kind, reconn, neg, pend, await,
                   inputs>>

\* A round that ends for a leaving peer drops the pc, unless it began as a
\* reconnect; the clean-up round also erases the object from the map.
Close(p) ==
    /\ stage[p] = "finish" /\ conn[p] # "up"
    /\ sig' = [sig EXCEPT ![p] = IF reconn[p] THEN @ ELSE "none"]
    /\ failed' = [failed EXCEPT ![p] = reconn[p] /\ @]
    /\ Release(p)
    /\ IF kind[p] = "sync"
       THEN /\ conn' = [conn EXCEPT ![p] = "gone"]
            /\ sio' = None
            /\ leaving' = leaving \ {p}
       ELSE UNCHANGED <<conn, sio, leaving>>
    /\ UNCHANGED <<sioUp, offerNo, restart, reconn, neg, pend, await,
                   wireVars, inputs>>

\* Mutants: the round does not wait; it waits for the reply only.
EndWaitAtOnce(p) ==
    /\ stage[p] = "wait"
    /\ Release(p)
    /\ UNCHANGED <<peerVars, pcVars, restart, reconn, neg, pend, await,
                   wireVars, inputs>>

EndWaitOnReply(p) ==
    /\ stage[p] = "wait"
    /\ ~await[p]
    /\ Release(p)
    /\ UNCHANGED <<peerVars, pcVars, restart, reconn, neg, pend, await,
                   wireVars, inputs>>

\* The polling loop ends.
EndWait(p) ==
    /\ stage[p] = "wait"
    /\ ~await[p] \/ conn[p] # "up"
    /\ Release(p)
    /\ UNCHANGED <<peerVars, pcVars, restart, reconn, neg, pend, await,
                   wireVars, inputs>>

-----------------------------------------------------------------------------
RoundStep(p) ==
    \/ Restart(p) \/ Channels(p)
    \/ MakeOffer(p) \/ MakeOfferAgain(p) \/ StopGenerating(p) \/ Gathered(p)
    \/ Send(p) \/ Close(p) \/ EndWait(p)

Reply(p) ==
    \/ \E o \in owed[p] : SDPAnswer(p, o) \/ OfferError(p, o)
    \/ PlainReply(p)

Environment(p) ==
    \/ PeerConnected(p) \/ Subscribe(p) \/ PeerFailed(p) \/ PcFails(p)
    \/ PeerDisconnected(p)

\* Nothing is left to do: what still waits, waits for a client that stays.
Quiescent ==
    /\ inputs = MaxInputs /\ SioFree
    /\ \A p \in Peers :
         \/ stage[p] = "idle" /\ \A k \in Kinds : pend[p][k] = 0
         \/ stage[p] = "wait" /\ await[p] /\ conn[p] = "up"
         \/ stage[p] = "nosdp" /\ conn[p] = "up"
    /\ UNCHANGED vars

Next ==
    \/ \E p \in Peers :
         \/ Environment(p) \/ Reply(p) \/ BeginLeave(p)
         \/ \E k \in Kinds : BeginRound(p, k)
         \/ BeginCleanup(p) \/ RoundStep(p)
    \/ AllPeersProcess \/ SocketLost \/ SocketOpen
    \/ Quiescent

Spec == Init /\ [][Next]_vars

\* Threads that can run do run.  Nothing is assumed of the environment, so a
\* client may leave an offer unanswered for ever.
ThreadFairness ==
    \A p \in Peers :
      /\ WF_vars(RoundStep(p))
      /\ WF_vars(\E k \in Kinds : BeginRound(p, k))
      /\ WF_vars(BeginCleanup(p))
      /\ WF_vars(BeginLeave(p))

FairSpec == Spec /\ ThreadFairness

\* ... and a client that stays answers the offers it gets.
AnswerFairness ==
    \A p \in Peers : WF_vars(\E o \in owed[p] : SDPAnswer(p, o))

AnsweredSpec == FairSpec /\ AnswerFairness

-----------------------------------------------------------------------------
(* Properties                                                               *)

\* "block the mutex until reply is received and processed": while a client
\* has an offer to answer, the round that made it still holds the mutex with
\* its flag raised, the pc it was made on is in place, and the offer is the
\* pc's current one.  So an answer never meets another pc or description.
StopAndWait ==
    \A p \in Peers : owed[p] # {} =>
      /\ stage[p] = "wait" /\ await[p]
      /\ sig[p] = "offered"
      /\ owed[p] = {[no |-> offerNo[p], via |-> kind[p]]}

\* onDisconnected: once the object is out of the map its pc is closed, and no
\* thread that still holds the object makes another one.
PcReleased == \A p \in Peers : conn[p] = "gone" => sig[p] = "none"

\* onWRTCInfo: a client's request for a new pc survives every interleaving
\* with running rounds: while both ends are up some round is still bound to
\* serve it.
RestartOwed ==
    \A p \in Peers :
      restart[p] /\ conn[p] = "up" /\ sioUp =>
        pend[p]["upd"] > 0 \/ stage[p] = "restart"

\* The rounds implement the question-and-answer protocol of Negotiation.
Protocol ==
    INSTANCE Negotiation WITH
      version <- offerNo,
      open <- [p \in Peers |-> sig[p] = "offered"],
      asked <- [p \in Peers |-> {o.no : o \in owed[p]}],
      left <- [p \in Peers |-> conn[p] \in {"down", "gone"}]

ImplementsNegotiation == Protocol!Spec

\* "clean up in this thread": the SIO thread's wait for the mutex always ends,
\* even if the holder waits for a reply that thread would have to deliver.
LeaveCompletes == \A p \in Peers : conn[p] = "down" ~> conn[p] = "gone"

\* If clients answer, no queued round waits for ever.
RoundsDrain ==
    \A p \in Peers :
      (\E k \in Kinds : pend[p][k] > 0)
        ~> stage[p] = "idle" /\ \A k \in Kinds : pend[p][k] = 0

\* If clients answer, a requested restart happens or the client leaves.
RestartHappens ==
    \A p \in Peers : restart[p] ~> ~restart[p] \/ conn[p] # "up"
=============================================================================
