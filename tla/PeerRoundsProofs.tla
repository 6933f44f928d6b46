-------------------------- MODULE PeerRoundsProofs --------------------------
(***************************************************************************)
(* Theorems of PeerRounds for any set of peers and any number of inputs.    *)
(* Core is what the rounds keep whatever the clients reply; Pairing is what *)
(* they keep besides if clients reply to offers only.                       *)
(***************************************************************************)
EXTENDS PeerRounds, TLAPS

\* The SIO thread cleans up a leaving peer; only peers of the map leave, and
\* without a connection all of them do.
SioInv ==
    /\ sio # None => conn[sio] = "down" /\ sio \in leaving
    /\ \A p \in Peers :
         /\ p \in leaving => conn[p] \in {"up", "down"}
         /\ conn[p] = "down" => sio = p
         /\ ~sioUp /\ conn[p] = "up" => p \in leaving

\* The round that holds a mutex: which thread it belongs to, and where it may
\* still be when its peer is removed.
RoundInv ==
    \A p \in Peers :
      /\ stage[p] # "idle" /\ conn[p] = "up" => kind[p] \in Kinds
      /\ stage[p] = "wait" => kind[p] \in Kinds
      /\ kind[p] = "sync" => sio = p /\ ~reconn[p]
                             /\ stage[p] \in {"channels", "finish"}
      /\ stage[p] = "idle" => kind[p] = "none"
      /\ conn[p] = "gone" =>
           /\ stage[p] \in {"idle", "channels", "finish"}
           /\ stage[p] # "idle" => ~reconn[p]

\* Nothing has happened to a peer that is not connected yet.
NewInv ==
    \A p \in Peers : conn[p] = "new" =>
      /\ stage[p] = "idle" /\ ~restart[p] /\ sig[p] = "none"
      /\ \A k \in Kinds : pend[p][k] = 0

Core == TypeOK /\ SioInv /\ RoundInv /\ NewInv /\ PcReleased /\ RestartOwed

\* Offers in flight belong to peers that are there, and an offer that is made
\* stays open until it is sent.
OfferInv ==
    \A p \in Peers :
      /\ owed[p] # {} => conn[p] = "up"
      /\ stage[p] \in {"nosdp", "gather"} => sig[p] = "offered"
      /\ stage[p] = "finish" /\ neg[p] /\ conn[p] = "up" =>
           sig[p] = "offered" /\ await[p]

Pairing == OfferInv /\ StopAndWait

Inv == Core /\ Pairing
-----------------------------------------------------------------------------
LEMMA CoreInductive == ASSUME Core, [Next]_vars PROVE Core'
<1> USE NoneAssumption, InputsAssumption
    DEF Core, TypeOK, SioInv, RoundInv, NewInv, PcReleased, RestartOwed,
        peerVars, pcVars, roundVars, wireVars, Kinds, Stages
<1>1. ASSUME NEW p \in Peers, PeerConnected(p)
     PROVE  Core'
  BY <1>1, SMTT(30) DEF PeerConnected, Input, SioFree, Spawn
<1>2. ASSUME NEW p \in Peers, Subscribe(p)
     PROVE  Core'
  BY <1>2, SMTT(30) DEF Subscribe, Input, SioFree, Spawn
<1>3. ASSUME NEW p \in Peers, PeerFailed(p)
     PROVE  Core'
  BY <1>3, SMTT(30) DEF PeerFailed, Input, SioFree, Spawn
<1>4. ASSUME NEW p \in Peers, PcFails(p)
     PROVE  Core'
  <2>1. CASE conn[p] = "up" /\ Spawn(p, "upd")
    BY <1>4, <2>1, SMTT(30) DEF PcFails, Input, Spawn
  <2>2. CASE UNCHANGED pend
    BY <1>4, <2>2, SMTT(30) DEF PcFails, Input
  <2> QED
    BY <1>4, <2>1, <2>2 DEF PcFails
<1>5. ASSUME NEW p \in Peers, PeerDisconnected(p)
     PROVE  Core'
  BY <1>5, SMTT(30) DEF PeerDisconnected, Input, SioFree
<1>6. ASSUME NEW p \in Peers, BeginLeave(p)
     PROVE  Core'
  BY <1>6, SMTT(30) DEF BeginLeave
<1>7. ASSUME NEW p \in Peers, BeginCleanup(p)
     PROVE  Core'
  BY <1>7, SMTT(30) DEF BeginCleanup, Enter, IsReconnect, Goto
<1>8. ASSUME NEW p \in Peers, Restart(p)
     PROVE  Core'
  BY <1>8, SMTT(30) DEF Restart, Goto
<1>9. ASSUME NEW p \in Peers, Channels(p)
     PROVE  Core'
  BY <1>9, SMTT(30) DEF Channels, Goto
<1>10. ASSUME NEW p \in Peers, MakeOffer(p)
     PROVE  Core'
  BY <1>10, SMTT(30) DEF MakeOffer, Goto
<1>11. ASSUME NEW p \in Peers, MakeOfferAgain(p)
     PROVE  Core'
  <2> PICK r \in Reoffer :
         /\ offerNo' = [offerNo EXCEPT ![p] =
                          IF r = "regenerate" THEN @ + 1 ELSE @]
         /\ IF r = "throw" THEN Release(p)
            ELSE /\ Goto(p, IF r = "ignore" THEN "nosdp" ELSE "gather")
                 /\ UNCHANGED kind
    BY <1>11 DEF MakeOfferAgain
  <2>1. /\ stage[p] = "offer" /\ kind[p] # "sync"
        /\ conn[p] \notin {"new", "gone"}
        /\ offerNo' \in [Peers -> Nat]
        /\ UNCHANGED <<peerVars, sig, failed, restart, reconn, neg, pend,
                       await, wireVars, inputs>>
    BY <1>11 DEF MakeOfferAgain
  <2>2. CASE r = "throw"
    <3>1. /\ stage' = [stage EXCEPT ![p] = "idle"]
          /\ kind' = [kind EXCEPT ![p] = "none"]
      BY <2>2 DEF Goto, Release
    <3> QED
      BY <2>1, <3>1, SMTT(30)
  <2>3. CASE r # "throw"
    <3>1. PICK s \in {"nosdp", "gather"} : stage' = [stage EXCEPT ![p] = s]
      BY <2>3 DEF Goto
    <3>2. UNCHANGED kind
      BY <2>3
    <3> QED
      BY <2>1, <3>1, <3>2, SMTT(30)
  <2> QED
    BY <2>2, <2>3
<1>12. ASSUME NEW p \in Peers, StopGenerating(p)
     PROVE  Core'
  BY <1>12, SMTT(30) DEF StopGenerating, Goto
<1>13. ASSUME NEW p \in Peers, Gathered(p)
     PROVE  Core'
  BY <1>13, SMTT(30) DEF Gathered, Goto
<1>14. ASSUME NEW p \in Peers, Send(p)
     PROVE  Core'
  BY <1>14, SMTT(30) DEF Send, Goto, Offers
<1>15. ASSUME NEW p \in Peers, Close(p)
     PROVE  Core'
  <2>1. CASE kind[p] = "sync"
    <3>1. sio = p /\ conn[p] = "down" /\ p \in leaving /\ ~reconn[p]
      BY <1>15, <2>1 DEF Close
    <3>2. /\ conn' = [conn EXCEPT ![p] = "gone"]
          /\ sio' = None
          /\ leaving' = leaving \ {p}
      BY <1>15, <2>1 DEF Close
    <3> QED
      BY <1>15, <3>1, <3>2, SMTT(30) DEF Close, Goto, Release
  <2>2. CASE kind[p] # "sync"
    <3>1. UNCHANGED <<conn, sio, leaving>>
      BY <1>15, <2>2 DEF Close
    <3> QED
      BY <1>15, <2>2, <3>1, SMTT(30) DEF Close, Goto, Release
  <2> QED
    BY <2>1, <2>2
<1>16. ASSUME NEW p \in Peers, EndWait(p)
     PROVE  Core'
  BY <1>16, SMTT(30) DEF EndWait, Goto, Release
<1>17. ASSUME NEW p \in Peers, NEW k \in Kinds, BeginRound(p, k)
     PROVE  Core'
  BY <1>17, SMTT(30) DEF BeginRound, Enter, IsReconnect, Goto
<1>18. ASSUME NEW p \in Peers, NEW o \in owed[p], SDPAnswer(p, o)
     PROVE  Core'
  BY <1>18, SMTT(30) DEF SDPAnswer, SioFree
<1>19. ASSUME NEW p \in Peers, NEW o \in owed[p], OfferError(p, o)
     PROVE  Core'
  BY <1>19, SMTT(30) DEF OfferError, SioFree
<1>20. ASSUME NEW p \in Peers, PlainReply(p)
     PROVE  Core'
  BY <1>20, SMTT(30) DEF PlainReply, SioFree
<1>21. ASSUME AllPeersProcess
     PROVE  Core'
  BY <1>21, SMTT(30) DEF AllPeersProcess, Input
<1>22. ASSUME SocketLost
     PROVE  Core'
  <2>1. leaving' \subseteq Peers
    BY <1>22 DEF SocketLost
  <2>2. \A p \in Peers : p \in leaving' <=> conn[p] = "up"
    BY <1>22 DEF SocketLost
  <2>3. /\ sio = None /\ leaving = {} /\ sioUp /\ sioUp' = FALSE
        /\ inputs' \in 0..MaxInputs
        /\ UNCHANGED <<conn, sio, pcVars, restart, pend, roundVars, await,
                       wireVars>>
    BY <1>22 DEF SocketLost, Input, SioFree
  <2>4. TypeOK'
    <3>1. leaving' \in SUBSET Peers
      BY <2>1
    <3> QED
      BY <2>3, <3>1
  <2>5. SioInv'
    BY <2>2, <2>3
  <2>6. RoundInv' /\ NewInv' /\ PcReleased'
    BY <2>3
  <2>7. RestartOwed'
    BY <2>3
  <2> QED
    BY <2>4, <2>5, <2>6, <2>7
<1>23. ASSUME SocketOpen
     PROVE  Core'
  BY <1>23, SMTT(30) DEF SocketOpen, Input, SioFree
<1>24. CASE UNCHANGED vars
  BY <1>24 DEF vars
<1> QED
  BY <1>1, <1>2, <1>3, <1>4, <1>5, <1>6, <1>7, <1>8, <1>9, <1>10, <1>11, <1>12, <1>13, <1>14, <1>15, <1>16, <1>17, <1>18, <1>19, <1>21, <1>22, <1>23, <1>24,
     <1>20 DEF Next, Environment, Reply, RoundStep, Quiescent

LEMMA CoreInitial == Init => Core
  BY NoneAssumption, InputsAssumption
     DEF Init, Core, TypeOK, SioInv, RoundInv, NewInv, PcReleased,
         RestartOwed, Kinds, Stages

\* Whatever the clients reply, the rounds keep Core.
LEMMA CoreCorrect == Spec => []Core
<1>1. Core /\ [Next]_vars => Core'
  BY CoreInductive
<1> QED
  BY <1>1, CoreInitial, PTL DEF Spec

\* The ranges of the variables of every peer, whatever the interleaving: no
\* round starts that was not asked for.
THEOREM TypeCorrect == Spec => []TypeOK
<1>1. Core => TypeOK
  BY DEF Core
<1> QED
  BY <1>1, CoreCorrect, PTL

\* A removed peer's pc is closed for good (onDisconnected,
\* removePeerConnection).
THEOREM PcReleasedCorrect == Spec => []PcReleased
<1>1. Core => PcReleased
  BY DEF Core
<1> QED
  BY <1>1, CoreCorrect, PTL

\* A requested restart is always owed a round (onWRTCInfo).
THEOREM RestartOwedCorrect == Spec => []RestartOwed
<1>1. Core => RestartOwed
  BY DEF Core
<1> QED
  BY <1>1, CoreCorrect, PTL

-----------------------------------------------------------------------------
(* Offers and answers are paired if clients reply to offers only            *)

LEMMA PairingKept ==
  ASSUME ~PlainReplies, Inv, [Next]_vars
  PROVE  Pairing'
<1> USE DEF Inv, Core, Pairing, OfferInv, StopAndWait, TypeOK, RoundInv, Kinds,
            Stages, peerVars, pcVars, roundVars, wireVars
<1>1. ASSUME NEW p \in Peers, PeerConnected(p)
      PROVE  Pairing'
  BY <1>1, SMTT(30) DEF PeerConnected, Spawn, NewInv
<1>2. ASSUME NEW p \in Peers,
             \/ Subscribe(p) \/ PeerFailed(p) \/ PcFails(p)
             \/ PeerDisconnected(p)
      PROVE  Pairing'
  BY <1>2, SMTT(30) DEF Subscribe, PeerFailed, PcFails, PeerDisconnected
<1>3. ASSUME NEW p \in Peers, BeginLeave(p)
      PROVE  Pairing'
  BY <1>3, SMTT(30) DEF BeginLeave
<1>4. ASSUME NEW p \in Peers,
             BeginCleanup(p) \/ \E k \in Kinds : BeginRound(p, k)
      PROVE  Pairing'
  BY <1>4, SMTT(30) DEF BeginCleanup, BeginRound, Enter, IsReconnect, Goto
<1>5. ASSUME NEW p \in Peers,
             \/ Restart(p) \/ Channels(p) \/ MakeOffer(p)
             \/ StopGenerating(p) \/ Gathered(p)
      PROVE  Pairing'
  BY <1>5, SMTT(30)
     DEF Restart, Channels, MakeOffer, StopGenerating, Gathered, Goto
<1>6. ASSUME NEW p \in Peers, MakeOfferAgain(p)
      PROVE  Pairing'
  BY <1>6, SMTT(30) DEF MakeOfferAgain, Goto, Release
<1>7. ASSUME NEW p \in Peers, Send(p)
      PROVE  Pairing'
  BY <1>7, SMTT(30) DEF Send, Goto
<1>8. ASSUME NEW p \in Peers, Close(p)
      PROVE  Pairing'
  BY <1>8, SMTT(30), NoneAssumption DEF Close, Goto, Release, SioInv
<1>9. ASSUME NEW p \in Peers, EndWait(p)
      PROVE  Pairing'
  BY <1>9, SMTT(30) DEF EndWait, Goto, Release
<1>10. ASSUME NEW p \in Peers, NEW o \in owed[p],
              SDPAnswer(p, o) \/ OfferError(p, o)
       PROVE  Pairing'
  <2>1. stage[p] = "wait" /\ owed[p] = {o}
    OBVIOUS
  <2>2. /\ owed' = [owed EXCEPT ![p] = {}]
        /\ UNCHANGED <<conn, offerNo, roundVars>>
    BY <1>10, <2>1 DEF SDPAnswer, OfferError
  <2>3. \A q \in Peers \ {p} :
          sig'[q] = sig[q] /\ await'[q] = await[q] /\ owed'[q] = owed[q]
    BY <1>10, <2>2 DEF SDPAnswer, OfferError
  <2>4. owed'[p] = {}
    BY <2>2
  <2> QED
    BY <2>1, <2>2, <2>3, <2>4
<1>11. ASSUME AllPeersProcess \/ SocketLost \/ SocketOpen
       PROVE  Pairing'
  <2>1. UNCHANGED <<conn, pcVars, roundVars, wireVars, await>>
    <3>1. AllPeersProcess => UNCHANGED <<conn, pcVars, roundVars, wireVars, await>>
      BY DEF AllPeersProcess
    <3>2. SocketLost => UNCHANGED <<conn, pcVars, roundVars, wireVars, await>>
      BY DEF SocketLost
    <3>3. SocketOpen => UNCHANGED <<conn, pcVars, roundVars, wireVars, await>>
      BY DEF SocketOpen
    <3> QED
      BY <1>11, <3>1, <3>2, <3>3
  <2> QED
    BY <2>1
<1>12. CASE UNCHANGED vars
  BY <1>12 DEF vars
<1> QED
  BY <1>1, <1>2, <1>3, <1>4, <1>5, <1>6, <1>7, <1>8, <1>9, <1>10, <1>11,
     <1>12 DEF Next, Environment, Reply, RoundStep, Quiescent, PlainReply

LEMMA InvCorrect == ASSUME ~PlainReplies PROVE Spec => []Inv
<1>1. Inv /\ [Next]_vars => Inv'
  BY CoreInductive, PairingKept DEF Inv
<1>2. Init => Inv
  BY CoreInitial DEF Init, Inv, Pairing, OfferInv, StopAndWait
<1> QED
  BY <1>1, <1>2, PTL DEF Spec

\* A round holds its mutex, its flag, its pc and its description until the
\* client answered: the answer is for what the pc has set (the wait that ends
\* processSubscriptionsSync).
THEOREM StopAndWaitCorrect == ASSUME ~PlainReplies PROVE Spec => []StopAndWait
<1>1. Inv => StopAndWait
  BY DEF Inv, Pairing
<1> QED
  BY <1>1, InvCorrect, PTL

-----------------------------------------------------------------------------
(* The rounds implement Negotiation                                         *)

Asked == [p \in Peers |-> {o.no : o \in owed[p]}]
Open == [p \in Peers |-> sig[p] = "offered"]
Left == [p \in Peers |-> conn[p] \in {"down", "gone"}]

\* What a step that changes one peer's offers in flight does to the questions.
LEMMA AskedUpdate ==
  ASSUME NEW p \in Peers, NEW S, NEW N, TypeOK,
         owed' = [owed EXCEPT ![p] = S], N = {o.no : o \in S}
  PROVE  Asked' = [Asked EXCEPT ![p] = N]
<1>1. \A q \in Peers : owed'[q] = IF q = p THEN S ELSE owed[q]
  BY DEF TypeOK
<1> QED
  BY <1>1 DEF Asked

\* At most one offer is in flight, and it is the pc's description.
LEMMA AskedOnce ==
  ASSUME StopAndWait, NEW p \in Peers, NEW o \in owed[p]
  PROVE  /\ owed[p] = {o} /\ o.no = offerNo[p]
         /\ sig[p] = "offered"
         /\ stage[p] = "wait"
  BY DEF StopAndWait

LEMMA StepImplements ==
  ASSUME ~PlainReplies, Inv, [Next]_vars
  PROVE  [Protocol!Next]_(Protocol!vars)
<1> USE DEF Inv, Core, Pairing, peerVars, pcVars, roundVars, wireVars
<1>1. ASSUME NEW p \in Peers, MakeOffer(p)
      PROVE  Protocol!Prepare(p)
  BY <1>1 DEF MakeOffer, Protocol!Prepare, StopAndWait, TypeOK
<1>2. ASSUME NEW p \in Peers, Send(p), sioUp, neg[p]
      PROVE  Protocol!Ask(p)
  <2>1. owed[p] = {} /\ sig[p] = "offered" /\ conn[p] = "up"
    BY <1>2 DEF Send, StopAndWait, OfferInv
  <2>2. owed' = [owed EXCEPT ![p] = {[no |-> offerNo[p], via |-> kind[p]]}]
    BY <1>2, <2>1 DEF Send
  <2>3. Asked' = [Asked EXCEPT ![p] = {offerNo[p]}]
    <3>1. {offerNo[p]} = {o.no : o \in {[no |-> offerNo[p], via |-> kind[p]]}}
      OBVIOUS
    <3> QED
      BY <2>2, <3>1, AskedUpdate
  <2>4. UNCHANGED <<conn, sig, offerNo>>
    BY <1>2 DEF Send
  <2> QED
    BY <2>1, <2>3, <2>4 DEF Protocol!Ask, Asked
<1>3. ASSUME NEW p \in Peers, NEW o \in owed[p], SDPAnswer(p, o)
      PROVE  Protocol!Answer(p)
  <2>1. owed[p] = {o} /\ sig[p] = "offered"
    BY AskedOnce
  <2>2. owed' = [owed EXCEPT ![p] = {}]
    BY <1>3, <2>1 DEF SDPAnswer
  <2>3. Asked' = [Asked EXCEPT ![p] = {}]
    <3>1. {} = {x.no : x \in {}}
      OBVIOUS
    <3> QED
      BY <2>2, <3>1, AskedUpdate
  <2>4. sig' = [sig EXCEPT ![p] = "stable"] /\ UNCHANGED <<conn, offerNo>>
    BY <1>3, <2>1 DEF SDPAnswer
  <2>5. Open' = [Open EXCEPT ![p] = FALSE]
    BY <2>4 DEF Open, TypeOK
  <2>6. Asked[p] # {}
    BY <2>1 DEF Asked
  <2> QED
    BY <2>3, <2>4, <2>5, <2>6 DEF Protocol!Answer, Asked, Open
<1>4. ASSUME NEW p \in Peers, NEW o \in owed[p], OfferError(p, o)
      PROVE  Protocol!Refuse(p)
  <2>1. owed[p] = {o}
    BY AskedOnce
  <2>2. owed' = [owed EXCEPT ![p] = {}]
    BY <1>4, <2>1 DEF OfferError
  <2>3. Asked' = [Asked EXCEPT ![p] = {}]
    <3>1. {} = {x.no : x \in {}}
      OBVIOUS
    <3> QED
      BY <2>2, <3>1, AskedUpdate
  <2>4. UNCHANGED <<conn, sig, offerNo>>
    BY <1>4 DEF OfferError
  <2> QED
    BY <2>1, <2>3, <2>4 DEF Protocol!Refuse, Asked
<1>5. ASSUME NEW p \in Peers, Restart(p)
      PROVE  Protocol!Reset(p)
  <2>1. owed[p] = {}
    BY <1>5 DEF Restart, StopAndWait
  <2> QED
    BY <1>5, <2>1 DEF Restart, Protocol!Reset, TypeOK
<1>6. ASSUME NEW p \in Peers, Close(p)
      PROVE  Protocol!Reset(p) \/ UNCHANGED Protocol!vars
  <2>1. owed[p] = {}
    BY <1>6 DEF Close, StopAndWait
  <2>2. Left' = Left
    <3>1. CASE kind[p] = "sync"
      <4>1. conn[p] = "down" /\ conn' = [conn EXCEPT ![p] = "gone"]
        BY <1>6, <3>1, NoneAssumption DEF Close, RoundInv, SioInv
      <4>2. \A q \in Peers : conn'[q] \in {"down", "gone"}
                              <=> conn[q] \in {"down", "gone"}
        BY <4>1 DEF TypeOK
      <4> QED
        BY <4>2 DEF Left
    <3>2. CASE kind[p] # "sync"
      BY <1>6, <3>2 DEF Close, Left
    <3> QED
      BY <3>1, <3>2
  <2>3. CASE reconn[p]
    BY <1>6, <2>2, <2>3 DEF Close, Protocol!vars, Left, TypeOK
  <2>4. CASE ~reconn[p]
    <3>1. sig' = [sig EXCEPT ![p] = "none"] /\ UNCHANGED <<offerNo, owed>>
      BY <1>6, <2>4 DEF Close
    <3> QED
      BY <2>1, <2>2, <3>1 DEF Protocol!Reset, Left, TypeOK
  <2> QED
    BY <2>3, <2>4 DEF TypeOK
<1>7. ASSUME NEW p \in Peers, BeginLeave(p)
      PROVE  Protocol!Leave(p)
  BY <1>7 DEF BeginLeave, Protocol!Leave, TypeOK
<1>8. ASSUME NEW p \in Peers, MakeOfferAgain(p)
      PROVE  Protocol!Prepare(p) \/ UNCHANGED Protocol!vars
  <2>1. owed[p] = {} /\ sig[p] = "offered" /\ UNCHANGED <<conn, sig, owed>>
    BY <1>8 DEF MakeOfferAgain, StopAndWait
  <2>2. \/ offerNo' = [offerNo EXCEPT ![p] = @ + 1]
        \/ offerNo' = offerNo
    BY <1>8 DEF MakeOfferAgain, TypeOK
  <2> QED
    BY <2>1, <2>2 DEF Protocol!Prepare, Protocol!vars, TypeOK
<1>9. ASSUME NEW p \in Peers, Send(p), ~(sioUp /\ neg[p])
      PROVE  UNCHANGED Protocol!vars
  <2>1. UNCHANGED <<conn, sig, offerNo, owed>>
    BY <1>9 DEF Send, TypeOK
  <2> QED
    BY <2>1 DEF Protocol!vars
<1>10. ASSUME NEW p \in Peers, PeerConnected(p)
       PROVE  UNCHANGED Protocol!vars
  <2>1. conn[p] = "new" /\ sig[p] # "offered"
    BY <1>10 DEF PeerConnected, NewInv
  <2>2. Left' = Left
    BY <1>10, <2>1 DEF PeerConnected, Left, TypeOK
  <2>3. Open' = Open
    BY <1>10, <2>1 DEF PeerConnected, Open, TypeOK
  <2> QED
    BY <1>10, <2>2, <2>3 DEF PeerConnected, Protocol!vars, Left, Open
<1>11. ASSUME NEW p \in Peers,
              \/ Subscribe(p) \/ PeerFailed(p) \/ PcFails(p)
              \/ PeerDisconnected(p) \/ BeginCleanup(p)
              \/ \E k \in Kinds : BeginRound(p, k)
              \/ Channels(p) \/ StopGenerating(p) \/ Gathered(p) \/ EndWait(p)
       PROVE  UNCHANGED Protocol!vars
  BY <1>11 DEF Subscribe, PeerFailed, PcFails, PeerDisconnected, BeginCleanup,
       BeginRound, Enter, Channels, StopGenerating, Gathered, EndWait,
       Protocol!vars
<1>12. ASSUME AllPeersProcess \/ SocketLost \/ SocketOpen \/ UNCHANGED vars
       PROVE  UNCHANGED Protocol!vars
  BY <1>12 DEF AllPeersProcess, SocketLost, SocketOpen, vars, Protocol!vars
<1> QED
  BY <1>1, <1>2, <1>3, <1>4, <1>5, <1>6, <1>7, <1>8, <1>9, <1>10, <1>11,
     <1>12
     DEF Next, Environment, Reply, RoundStep, Quiescent, PlainReply,
         Protocol!Next

\* The rounds put their offers one at a time, to a client that is there, and
\* never change or drop an offer that is out: every step of the detailed rounds
\* is a step of the abstract exchange or none.
THEOREM RoundsImplementNegotiation ==
  ASSUME ~PlainReplies PROVE Spec => ImplementsNegotiation
<1>1. Init => Protocol!Init
  <2> SUFFICES ASSUME Init PROVE Protocol!Init
    OBVIOUS
  <2>1. Asked = [p \in Peers |-> {}]
    BY DEF Init, Asked
  <2>2. Open = [p \in Peers |-> FALSE]
    BY DEF Init, Open
  <2>3. Left = [p \in Peers |-> FALSE]
    <3>1. \A p \in Peers : (conn[p] \in {"down", "gone"}) = FALSE
      BY DEF Init
    <3> QED
      BY <3>1 DEF Left
  <2> QED
    BY <2>1, <2>2, <2>3 DEF Init, Protocol!Init, Asked, Open, Left
<1>2. Inv /\ [Next]_vars => [Protocol!Next]_(Protocol!vars)
  BY StepImplements
<1> QED
  BY <1>1, <1>2, InvCorrect, PTL
     DEF Spec, ImplementsNegotiation, Protocol!Spec
=============================================================================
