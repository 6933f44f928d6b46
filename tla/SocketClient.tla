---------------------------- MODULE SocketClient ---------------------------
(***************************************************************************)
(* The bridge's connection to the cloud: the Socket.IO client              *)
(* (src/sioclient) and the BridgeSocket that drives it (src/src/sio.cpp).  *)
(*                                                                          *)
(* The network thread runs the websocket's callbacks, the timers and the   *)
(* packets one at a time.  Beside it run main(), whose shutdown closes the *)
(* client and joins that thread, a detached thread that connects again a   *)
(* second after a close, and any thread that emits.                         *)
(***************************************************************************)
EXTENDS StatusLEDs

VARIABLES
    cl,        \* client_impl, see NoClient
    sk,        \* the socket of namespace "/", see NoSocket
    br,        \* BridgeSocket, see NoBridge
    net,       \* what the network thread is in the middle of
    redo,      \* the detached thread of onClosed
    peerUp,    \* connected_peers is not empty (one peer stands for all)
    emitter,   \* an emit on its way, see NoEmit
    past       \* history and counters, see SioInit

sioVars == <<cl, sk, br, net, redo, peerUp, emitter, past>>

\* con: m_con_state; thread: m_network_thread and whether its loop has ended;
\* ws: the websocket ("mute": the other end is silent); held: m_con is that
\* websocket; normal: its local close code; retry: the reconnect timer;
\* watch: the ping timer; abort: m_abort_retries; attempts: m_reconn_attempts
\* is not 0 (the 10^7 attempts that are set at first are not used up).
NoClient == [con |-> "closed", thread |-> "none", ws |-> "none", held |-> FALSE,
             normal |-> TRUE, retry |-> FALSE, watch |-> FALSE, abort |-> FALSE,
             attempts |-> TRUE]
\* live: in m_sockets; conn: m_connected; timer: m_connection_timer; bound:
\* the bridge's handlers are registered; queue: m_packet_queue; born: which
\* socket object this is.
NoSocket == [live |-> FALSE, conn |-> FALSE, timer |-> "none", bound |-> FALSE,
             queue |-> {}, born |-> 0]
NoBridge == [connected |-> FALSE, shut |-> FALSE, listen |-> TRUE]
\* made: the session whose `connected' was seen; gone: the namespace was closed
\* when the socket was looked up; up, born: m_connected as read then, of which
\* socket.
NoEmit == [at |-> "none", made |-> 0, gone |-> FALSE, up |-> FALSE, born |-> 0]

SioTypeOK ==
    /\ cl \in [con: {"opening", "opened", "closing", "closed"},
               thread: {"none", "running", "ended"},
               ws: {"none", "opening", "open", "mute", "ending"}, held: BOOLEAN,
               normal: BOOLEAN, retry: BOOLEAN, watch: BOOLEAN, abort: BOOLEAN,
               attempts: BOOLEAN]
    /\ cl.held => cl.ws \in {"open", "mute", "ending"}
    /\ cl.retry => cl.thread = "running"
    /\ sk.live \in BOOLEAN /\ sk.conn \in BOOLEAN /\ sk.bound \in BOOLEAN
    /\ sk.timer \in {"none", "connect", "close"} /\ sk.born \in 0..past.session
    /\ \A x \in sk.queue : x.made <= x.put /\ x.put <= past.session
    /\ br \in [connected: BOOLEAN, shut: BOOLEAN, listen: BOOLEAN]
    /\ net \in {"idle", "retry", "find", "erase", "closed"}
    /\ redo \in {"none", "sleep", "join"}

\* session: changes when the socket opens or is closed; late: packets sent in
\* another session than their emit looked at; gone: the server closed the
\* namespace, or did not answer the connect packet; overtaken: a timer's
\* attempt went on after main had closed the client; faults and emits: how many
\* drops, failures and silences of the network or server, and how many emits
\* followed step by step, are still to come (chosen by Setup).
SioInit ==
    /\ cl = NoClient /\ sk = NoSocket /\ br = NoBridge
    /\ net = "idle" /\ redo = "none" /\ peerUp = FALSE /\ emitter = NoEmit
    /\ past = [session |-> 0, late |-> {}, gone |-> FALSE, overtaken |-> FALSE,
               faults |-> 0, emits |-> 0]

Running == cl.thread = "running" /\ net = "idle"
Fault == past.faults > 0
Registered == br.connected /\ sk.conn /\ sk.bound

-----------------------------------------------------------------------------
(* Pieces that several handlers call                                        *)

\* client_impl::socket: a socket made while the client is open asks at once.
SocketOf(s) ==
    IF s.live THEN s
    ELSE [NoSocket EXCEPT !.live = TRUE, !.born = past.session,
                          !.timer = IF cl.con = "opened" THEN "connect" ELSE "none"]

\* socket::on_disconnect: only a connected socket loses its queue.
OnDisconnect(s) == IF s.conn THEN [s EXCEPT !.conn = FALSE, !.queue = {}] ELSE s

\* socket::close: its disconnect packet is not sent, as m_con_state is closing.
CloseSocket(s) == IF s.conn THEN [s EXCEPT !.timer = "close"] ELSE s

\* client_impl::close and the first half of sync_close, close_impl included.
CloseClient(c) ==
    [c EXCEPT !.con = "closing", !.abort = TRUE, !.retry = FALSE,
              !.ws = IF c.held THEN "ending" ELSE c.ws,
              !.normal = c.held \/ @]

\* Mutant: a connection that was never open is not tried again.
RetriesWhileHeld(c) == c.attempts /\ ~c.abort /\ c.held

\* on_fail and on_close: another attempt is made as long as some are left.
Retries(c) == c.attempts /\ ~c.abort

Late(packets) == {x \in packets : x.made # past.session}

Connecting(c) == [c EXCEPT !.con = "opening", !.ws = "opening", !.normal = FALSE]

\* client_impl::connect once no old thread is left: the attempt is made by the
\* caller, a new network thread takes over.
Connected(c) == [Connecting(c) EXCEPT !.abort = FALSE, !.retry = FALSE, !.thread = "running"]

-----------------------------------------------------------------------------
(* main() before its loop, and the websocket                                *)

\* BridgeSocket::init, whose constructor pulses, and BridgeSocket::connect.
Connect ==
    /\ main = "connect"
    /\ led' = Show("conn", "blink")
    /\ cl' = Connected(cl)
    /\ main' = "spin"
    /\ UNCHANGED <<sk, br, net, redo, peerUp, emitter, past, crash, loop>>

\* on_open.  While the client is closing m_con does not refer to the new
\* websocket yet, and close_impl finds "No active session".  Otherwise an old
\* socket asks again, or one is made; the listener registers the handlers.
OnOpen ==
    /\ Running /\ cl.ws = "opening"
    /\ IF cl.con = "closing"
       THEN /\ cl' = [CloseClient(cl) EXCEPT !.ws = "open"]
            /\ sk' = CloseSocket(sk)
            /\ UNCHANGED past
       ELSE /\ cl' = [cl EXCEPT !.con = "opened", !.ws = "open", !.held = TRUE]
            /\ sk' = [SocketOf(sk) EXCEPT !.timer = "connect", !.bound = @ \/ br.listen]
            /\ past' = [past EXCEPT !.session = @ + 1, !.gone = FALSE]
    /\ UNCHANGED <<br, net, redo, peerUp, emitter, main, crash, ledVars>>

OnFail ==
    /\ Running /\ cl.ws = "opening" /\ Fault
    /\ past' = [past EXCEPT !.faults = @ - 1]
    /\ IF cl.con = "closing"
       THEN cl' = [CloseClient(cl) EXCEPT !.ws = "none"] /\ sk' = CloseSocket(sk)
       ELSE /\ cl' = [cl EXCEPT !.con = "closed", !.ws = "none", !.held = FALSE,
                                !.retry = Retries(cl)]
            /\ sk' = OnDisconnect(sk)
    /\ UNCHANGED <<br, net, redo, peerUp, emitter, main, crash, ledVars>>

\* The server or the network ends the websocket, with a code of its choice.
Drop(normal) ==
    /\ cl.ws = "open" /\ Fault
    /\ cl' = [cl EXCEPT !.ws = "ending", !.normal = normal]
    /\ past' = [past EXCEPT !.faults = @ - 1]
    /\ UNCHANGED <<sk, br, net, redo, peerUp, emitter, main, crash, ledVars>>

\* The other end is gone without a word.
FallSilent ==
    /\ cl.ws = "open" /\ Fault
    /\ cl' = [cl EXCEPT !.ws = "mute"]
    /\ past' = [past EXCEPT !.faults = @ - 1]
    /\ UNCHANGED <<sk, br, net, redo, peerUp, emitter, main, crash, ledVars>>

\* on_handshake: the server's open packet starts the ping timer.
OnHandshake ==
    /\ Running /\ cl.ws = "open" /\ cl.held /\ ~cl.watch
    /\ cl' = [cl EXCEPT !.watch = TRUE]
    /\ UNCHANGED <<sk, br, net, redo, peerUp, emitter, past, main, crash, ledVars>>

\* timeout_ping: a server that talks resets the timer in time.
TimeoutPing ==
    /\ Running /\ cl.ws = "mute" /\ cl.watch
    /\ cl' = [cl EXCEPT !.watch = FALSE, !.retry = FALSE, !.ws = "ending", !.normal = FALSE]
    /\ UNCHANGED <<sk, br, net, redo, peerUp, emitter, past, main, crash, ledVars>>

-----------------------------------------------------------------------------
(* on_close: the listener tears all peers down before the client goes on    *)

\* Mutant: the bridge still believes to be connected.
OnCloseBelieving ==
    /\ Running /\ cl.ws = "ending"
    /\ cl' = [cl EXCEPT !.con = "closed", !.ws = "none", !.held = FALSE, !.watch = FALSE,
                        !.normal = @ \/ cl.con = "closing"]
    /\ net' = IF br.listen /\ peerUp THEN "find" ELSE "closed"
    /\ led' = IF br.listen THEN Show("conn", "blink") ELSE led
    /\ past' = [past EXCEPT !.session = @ + 1]
    /\ UNCHANGED <<br, sk, redo, peerUp, emitter, main, crash, loop>>

\* Mutant: m_con is kept.
OnCloseHolding ==
    /\ Running /\ cl.ws = "ending"
    /\ cl' = [cl EXCEPT !.con = "closed", !.ws = "none", !.watch = FALSE,
                        !.normal = @ \/ cl.con = "closing"]
    /\ net' = IF br.listen /\ peerUp THEN "find" ELSE "closed"
    /\ led' = IF br.listen THEN Show("conn", "blink") ELSE led
    /\ br' = IF br.listen THEN [br EXCEPT !.connected = FALSE] ELSE br
    /\ past' = [past EXCEPT !.session = @ + 1]
    /\ UNCHANGED <<sk, redo, peerUp, emitter, main, crash, loop>>

OnClose ==
    /\ Running /\ cl.ws = "ending"
    /\ cl' = [cl EXCEPT !.con = "closed", !.ws = "none", !.held = FALSE, !.watch = FALSE,
                        !.normal = @ \/ cl.con = "closing"]
    /\ net' = IF br.listen /\ peerUp THEN "find" ELSE "closed"
    /\ led' = IF br.listen THEN Show("conn", "blink") ELSE led
    /\ br' = IF br.listen THEN [br EXCEPT !.connected = FALSE] ELSE br
    /\ past' = [past EXCEPT !.session = @ + 1, !.gone = IF br.listen THEN FALSE ELSE @]
    /\ UNCHANGED <<sk, redo, peerUp, emitter, main, crash, loop>>

\* onAllPeersDisconnected walks ids it has copied; at() throws for an id that
\* is no longer there, and nobody catches it.
LookUp(next) == IF peerUp THEN next /\ UNCHANGED crash
                          ELSE crash' = "out of range" /\ UNCHANGED <<net, main>>

NetFind ==
    /\ net = "find"
    /\ LookUp(net' = "erase" /\ UNCHANGED main)
    /\ UNCHANGED <<cl, sk, br, redo, peerUp, emitter, past, ledVars>>

NetErase ==
    /\ net = "erase"
    /\ peerUp' = FALSE
    /\ net' = "closed"
    /\ UNCHANGED <<cl, sk, br, redo, emitter, past, main, crash, ledVars>>

\* The rest of on_close, and onClosed: its off_all reaches a socket in any case.
AfterClose ==
    /\ net = "closed"
    /\ net' = "idle"
    /\ LET again == ~cl.normal /\ Retries(cl)
           s == OnDisconnect(sk)
       IN /\ cl' = [cl EXCEPT !.retry = again]
          /\ sk' = IF ~again /\ br.listen THEN [SocketOf(s) EXCEPT !.bound = FALSE] ELSE s
          /\ redo' = IF ~again /\ br.listen /\ ~br.shut THEN "sleep" ELSE redo
    /\ UNCHANGED <<br, peerUp, emitter, past, main, crash, ledVars>>

\* timeout_reconnect tests the state ...
RetryTest ==
    /\ Running /\ cl.retry
    /\ cl' = [cl EXCEPT !.retry = FALSE]
    /\ net' = IF cl.con = "closed" THEN "retry" ELSE "idle"
    /\ UNCHANGED <<sk, br, redo, peerUp, emitter, past, main, crash, ledVars>>

\* ... and overwrites it, whatever main() has made of it meanwhile.
RetryConnect ==
    /\ net = "retry"
    /\ net' = "idle"
    /\ cl' = Connecting(cl)
    /\ past' = [past EXCEPT !.overtaken = cl.con # "closed"]
    /\ UNCHANGED <<sk, br, redo, peerUp, emitter, main, crash, ledVars>>

\* run_loop returns when nothing is pending.
RunEnds ==
    /\ Running /\ cl.ws = "none" /\ ~cl.retry /\ sk.timer = "none"
    /\ cl' = [cl EXCEPT !.thread = "ended"]
    /\ UNCHANGED <<sk, br, net, redo, peerUp, emitter, past, main, crash, ledVars>>

-----------------------------------------------------------------------------
(* The detached thread                                                      *)

\* client_impl::connect: a client that is opening or opened is left alone.
RedoWake ==
    /\ redo = "sleep"
    /\ CASE cl.thread = "none" -> cl' = Connected(cl) /\ redo' = "none"
         [] cl.thread # "none" /\ cl.con \in {"closing", "closed"} ->
              cl' = [cl EXCEPT !.retry = FALSE] /\ redo' = "join"
         [] OTHER -> cl' = [cl EXCEPT !.retry = FALSE] /\ redo' = "none"
    /\ UNCHANGED <<sk, br, net, peerUp, emitter, past, main, crash, ledVars>>

\* join() and reset().  main() may be joining the same thread, or have joined
\* and freed it: two joins of one thread end the process at best.
RedoJoin ==
    /\ redo = "join" /\ cl.thread # "running"
    /\ redo' = "none"
    /\ IF cl.thread = "ended" /\ main # "join"
       THEN cl' = Connected(cl) /\ UNCHANGED crash
       ELSE crash' = "joined twice" /\ UNCHANGED cl
    /\ UNCHANGED <<sk, br, net, peerUp, emitter, past, main, ledVars>>

-----------------------------------------------------------------------------
(* Packets and the namespace's socket                                       *)

\* Mutant: the LED is not told.
AcceptedDark ==
    /\ Running /\ cl.ws = "open" /\ cl.con = "opened"
    /\ sk.live /\ sk.timer = "connect" /\ ~sk.conn
    /\ sk' = [sk EXCEPT !.conn = TRUE, !.timer = "none", !.queue = {}]
    /\ br' = [br EXCEPT !.connected = TRUE]
    /\ past' = [past EXCEPT !.late = @ \cup Late(sk.queue)]
    /\ UNCHANGED <<cl, net, redo, peerUp, emitter, main, crash, ledVars>>

\* on_connected: the listener comes before the flush of the queue.
Accepted ==
    /\ Running /\ cl.ws = "open" /\ cl.con = "opened"
    /\ sk.live /\ sk.timer = "connect" /\ ~sk.conn
    /\ sk' = [sk EXCEPT !.conn = TRUE, !.timer = "none", !.queue = {}]
    /\ br' = [br EXCEPT !.connected = TRUE]
    /\ led' = Show("conn", "on")
    /\ past' = [past EXCEPT !.late = @ \cup Late(sk.queue)]
    /\ UNCHANGED <<cl, net, redo, peerUp, emitter, main, crash, loop>>

\* socket::on_close, for a disconnect packet of the server, the 20 s without
\* an answer to connect, and the 3 s after close().  The bridge only logs it.
SocketGone(faults) ==
    /\ sk' = NoSocket
    /\ past' = [past EXCEPT !.session = @ + 1, !.gone = @ \/ cl.con = "opened",
                            !.faults = @ - faults]

ServerDisconnects ==
    /\ Running /\ cl.ws = "open" /\ sk.conn /\ Fault
    /\ SocketGone(1)
    /\ UNCHANGED <<cl, br, net, redo, peerUp, emitter, main, crash, ledVars>>

\* It takes a fault for a server that is there not to answer in time.
SocketTimeout ==
    /\ Running /\ sk.timer # "none"
    /\ LET asked == sk.timer = "connect" /\ cl.con = "opened" /\ cl.ws = "open"
       IN /\ asked => Fault
          /\ SocketGone(IF asked THEN 1 ELSE 0)
    /\ UNCHANGED <<cl, br, net, redo, peerUp, emitter, main, crash, ledVars>>

\* The events "peer" and "peer:disconnected".
PeerComes ==
    /\ Running /\ cl.ws = "open" /\ sk.conn /\ sk.bound /\ ~peerUp
    /\ peerUp' = TRUE
    /\ UNCHANGED <<cl, sk, br, net, redo, emitter, past, main, crash, ledVars>>

PeerGoes ==
    /\ Running /\ cl.ws = "open" /\ sk.conn /\ sk.bound /\ peerUp
    /\ peerUp' = FALSE
    /\ UNCHANGED <<cl, sk, br, net, redo, emitter, past, main, crash, ledVars>>

\* BridgeSocket::emit and ack of any thread: `connected' is read ...
EmitCheck ==
    /\ emitter.at = "none" /\ past.emits > 0
    /\ br.connected
    /\ emitter' = [NoEmit EXCEPT !.at = "got", !.made = past.session]
    /\ past' = [past EXCEPT !.emits = @ - 1]
    /\ UNCHANGED <<cl, sk, br, net, redo, peerUp, main, crash, ledVars>>

\* ... then the socket is looked up, or made, and m_connected is read ...
EmitTest ==
    /\ emitter.at = "got"
    /\ sk' = SocketOf(sk)
    /\ emitter' = [emitter EXCEPT !.at = "go", !.up = sk.conn,
                                  !.gone = past.gone, !.born = SocketOf(sk).born]
    /\ UNCHANGED <<cl, br, net, redo, peerUp, past, main, crash, ledVars>>

Packet == [made |-> emitter.made, put |-> past.session, gone |-> emitter.gone]

\* ... and the packet is sent behind what is queued, or queued.  send_impl
\* drops it unless the client is open; a removed socket does nothing.
EmitDo ==
    /\ emitter.at = "go"
    /\ emitter' = NoEmit
    /\ LET p == Packet
           same == sk.live /\ sk.born = emitter.born
       IN /\ sk' = IF ~same THEN sk
                   ELSE [sk EXCEPT !.queue = IF emitter.up THEN {} ELSE @ \cup {p}]
          /\ past' = IF same /\ emitter.up /\ cl.con = "opened"
                     THEN [past EXCEPT !.late = @ \cup Late(sk.queue \cup {p})]
                     ELSE past
    /\ UNCHANGED <<cl, br, net, redo, peerUp, main, crash, ledVars>>

-----------------------------------------------------------------------------
(* BridgeSocket::shutdown, in main()                                        *)

ShutMark ==
    /\ main = "mark"
    /\ br' = [br EXCEPT !.shut = TRUE]
    /\ main' = IF peerUp THEN "find" ELSE "close"
    /\ UNCHANGED <<cl, sk, net, redo, peerUp, emitter, past, crash, ledVars>>

ShutFind ==
    /\ main = "find"
    /\ LookUp(main' = "erase" /\ UNCHANGED net)
    /\ UNCHANGED <<cl, sk, br, redo, peerUp, emitter, past, ledVars>>

ShutErase ==
    /\ main = "erase"
    /\ peerUp' = FALSE
    /\ main' = "close"
    /\ UNCHANGED <<cl, sk, br, net, redo, emitter, past, crash, ledVars>>

\* Mutant: the websocket is left open.
ShutCloseState ==
    /\ main = "close"
    /\ br' = [br EXCEPT !.listen = FALSE]
    /\ cl' = [cl EXCEPT !.con = "closing", !.abort = TRUE, !.attempts = FALSE]
    /\ sk' = CloseSocket(sk)
    /\ main' = "join"
    /\ UNCHANGED <<net, redo, peerUp, emitter, past, crash, ledVars>>

\* No attempts, no listeners, and sync_close up to its join.
ShutClose ==
    /\ main = "close"
    /\ br' = [br EXCEPT !.listen = FALSE]
    /\ cl' = [CloseClient(cl) EXCEPT !.attempts = FALSE]
    /\ sk' = CloseSocket(sk)
    /\ main' = "join"
    /\ UNCHANGED <<net, redo, peerUp, emitter, past, crash, ledVars>>

ShutJoin ==
    /\ main = "join" /\ cl.thread # "running"
    /\ cl' = [cl EXCEPT !.thread = "none"]
    /\ main' = "peers"
    /\ UNCHANGED <<sk, br, net, redo, peerUp, emitter, past, crash, ledVars>>

\* main() spins what is left and waits until no peer is connected.
PeersCleaned ==
    /\ main = "peers" /\ ~peerUp
    /\ main' = "done"
    /\ UNCHANGED <<cl, sk, br, net, redo, peerUp, emitter, past, crash, ledVars>>

Handlers == OnOpen \/ OnHandshake \/ TimeoutPing \/ OnClose \/ NetFind \/ NetErase
            \/ AfterClose \/ RetryTest \/ RetryConnect \/ RunEnds
Environment == OnFail \/ (\E n \in BOOLEAN : Drop(n)) \/ FallSilent \/ ServerDisconnects
               \/ PeerComes \/ PeerGoes \/ EmitCheck
Emits == EmitTest \/ EmitDo
Shutdown == ShutMark \/ ShutFind \/ ShutErase \/ ShutClose \/ ShutJoin \/ PeersCleaned

=============================================================================
