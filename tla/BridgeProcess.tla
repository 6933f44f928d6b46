---------------------------- MODULE BridgeProcess --------------------------
(***************************************************************************)
(* main() of the bridge (src/src/phntm_bridge.cpp) and what it starts and  *)
(* stops: the extra packages, the status LEDs and the connection to the    *)
(* cloud.  Peers are one flag here; PeerRounds has them in full.            *)
(***************************************************************************)
EXTENDS SocketClient, ExtraPackages

\* LED configurations, each with the number of faults of the network and of
\* emits that it is run with.
CONSTANT Scenarios

ASSUME ScenariosAssumption ==
    Scenarios \subseteq [have: SUBSET Leds, gpio: BOOLEAN, faults: Nat, emits: Nat]

vars == <<main, crash, ledVars, sioVars, pkgVars>>
upVars == <<main, crash, ledVars, sioVars>>

TypeOK == PkgTypeOK /\ LedTypeOK /\ SioTypeOK

Init ==
    /\ main = "packages" /\ crash = ""
    /\ led = NoLeds /\ loop = NoLoop
    /\ SioInit
    /\ PkgInit

\* installExtraPackages, over and over until it lets the bridge start.
CheckPackages ==
    /\ main = "packages"
    /\ PkgNext
    /\ UNCHANGED upVars

\* StatusLEDs::init, with any configuration.  What is left of the packages
\* plays no part from here on and is forgotten.
Setup ==
    /\ main = "packages" /\ boot.at = "run"
    /\ \E s \in Scenarios :
         /\ LedsInit(s.have, s.gpio)
         /\ past' = [past EXCEPT !.faults = s.faults, !.emits = s.emits]
    /\ main' = "connect"
    /\ boot' = NoBoot /\ tale' = NoTale
    /\ disk' = [list |-> CHOOSE list \in Lists : TRUE, lock |-> FALSE, record |-> {}]
    /\ UNCHANGED <<crash, cl, sk, br, net, redo, peerUp, emitter>>

\* SIGINT; FileExtractor::stop and Introspection::stop touch nothing here.
Interrupt ==
    /\ main = "spin"
    /\ main' = "ledstop"
    /\ UNCHANGED <<crash, ledVars, sioVars>>

\* DataLED::once, for data sent to or received from a peer.
DataFlash ==
    /\ peerUp
    /\ led' = Show("data", "once")
    /\ UNCHANGED <<main, crash, loop, sioVars>>

ClearLeds == (ClearStop \/ ClearConn \/ ClearData) /\ UNCHANGED sioVars
Status == ClearLeds \/ (LedLoop /\ UNCHANGED sioVars)
Redo == RedoWake \/ RedoJoin
Sio == Connect \/ Handlers \/ Environment \/ Accepted \/ SocketTimeout \/ Redo
       \/ Emits \/ Shutdown

\* main() has returned, or an exception or a null pointer has ended the process.
Over == main = "done" \/ crash # ""

Next ==
    \/ /\ ~Over
       /\ \/ CheckPackages \/ Setup
          \/ (Interrupt \/ DataFlash \/ Status \/ Sio) /\ UNCHANGED pkgVars
    \/ (Over \/ main \in {"join", "peers"}) /\ UNCHANGED vars    \* main() may wait

Spec == Init /\ [][Next]_vars

-----------------------------------------------------------------------------
(* Fairness: a step of a thread that can go on is taken.  The supervisor    *)
(* restarts the process; the server answers what it is asked, unless the    *)
(* step is one of the bounded faults.  Nothing makes the operator interrupt. *)

FairSpec ==
    /\ Spec
    /\ WF_vars(~Over /\ ((CheckPackages /\ PkgStep) \/ Setup \/ (Connect /\ UNCHANGED pkgVars)))
    /\ WF_vars(~Over /\ Handlers /\ UNCHANGED pkgVars)
    /\ WF_vars(~Over /\ Accepted /\ UNCHANGED pkgVars)
    /\ WF_vars(~Over /\ SocketTimeout /\ sk.timer = "close" /\ UNCHANGED pkgVars)
    /\ WF_vars(~Over /\ SocketTimeout /\ cl.con # "opened" /\ UNCHANGED pkgVars)
    /\ WF_vars(~Over /\ Redo /\ UNCHANGED pkgVars)
    /\ WF_vars(~Over /\ (ClearLeds \/ Shutdown) /\ UNCHANGED pkgVars)
    /\ WF_vars(~Over /\ LedLoop /\ UNCHANGED <<sioVars, pkgVars>>)

-----------------------------------------------------------------------------
(* Properties of the connection                                             *)

\* While the bridge takes itself for connected (and shows it), the namespace's
\* socket is connected with the bridge's handlers on it, or the namespace was
\* closed under it: nobody asks again then, and a socket that a later emit
\* makes has no handlers.
RegisteredUnlessGone ==
    br.connected /\ br.listen /\ net = "idle" => (sk.conn /\ sk.bound) \/ past.gone

\* A packet goes out in the session that its emit looked at, unless the
\* session ended between two steps of the emit, or the packet was queued on
\* a socket that was made after the namespace was closed.
LateOnlyIfRaced == \A x \in past.late : x.made # x.put \/ x.gone

-----------------------------------------------------------------------------
(* What must happen                                                         *)

\* Processes that die in the check of the packages are bounded; then the check
\* comes to an end, whatever is forced or fails, and the bridge starts.
StartsEventually == <>(main # "packages")

\* A silent server is noticed by the ping timer only, which the server's own
\* first packet starts.
Unwatched == cl.ws = "mute" /\ ~cl.watch

\* The bridge registers at the cloud, again after every drop, refusal and
\* silence, unless the namespace was closed under it or the server fell silent
\* before its first packet.
ReconnectsUnlessStuck ==
    main = "spin" ~> Registered \/ past.gone \/ Unwatched \/ main # "spin" \/ Over

\* A shutdown that waits for ever: the websocket was not known to the client
\* when main() closed it, and nobody closes it now ...
Orphaned == main = "join" /\ cl.thread = "running" /\ ~cl.held /\ cl.ws \in {"open", "mute"}
\* ... or a peer came after main() had dismissed all, and no listener is left.
LatePeer == main = "peers" /\ peerUp
\* ... or a reconnect attempt overtook main() and goes on for ever.
Overtaken == main = "join" /\ past.overtaken

\* main() gets from SIGINT to its end, unless it waits in one of the named ways
\* (or an exception or the pointer to an LED that was not made ends it).
ShutdownEndsUnless ==
    main = "ledstop" ~> Over \/ Orphaned \/ LatePeer \/ Overtaken

\* The connection LED comes on, and stays on, while the bridge is connected.
LedShowsConnection ==
    <>[](main = "spin" /\ br.connected /\ "conn" \in led.have) => <>[](led.lit["conn"] \/ Over)

=============================================================================
