------------------------ MODULE BridgeProcessProofs ------------------------
(***************************************************************************)
(* Theorems of BridgeProcess.  What the files of installExtraPackages       *)
(* (src/extra_packages.cpp) say is true for any list of packages, however   *)
(* often the process dies, returns, or finds its list edited.  A bridge     *)
(* that takes itself for connected is registered, after any number of       *)
(* faults and reconnects, unless its namespace was closed under it, and no  *)
(* packet goes out in a later session than its emit looked at without a     *)
(* race that is named.                                                       *)
(***************************************************************************)
EXTENDS BridgeProcess, TLAPS

\* A strict form of PkgTypeOK.
BootType == [at: {"down", "start", "check", "record", "lock", "run"}, i: Nat \ {0},
             changed: BOOLEAN, record: SUBSET Packages, skipped: BOOLEAN]
DiskType == [list: Lists, lock: BOOLEAN, record: SUBSET Packages]
TaleType == [tried: SUBSET Packages, fresh: SUBSET Packages, deaths: Nat, edits: Nat]
PkgTypes == boot \in BootType /\ disk \in DiskType /\ tale \in TaleType

\* A process that installed something knows it, and one that begins has not.
InstallInv ==
    /\ tale.fresh # {} => boot.changed
    /\ boot.at \in {"down", "start"} =>
         tale.fresh = {} /\ ~boot.changed /\ ~boot.skipped /\ boot.i = 1 /\ boot.record = {}
    /\ boot.at = "run" => tale.fresh = {}

\* How far the record in memory, and the one on disk, have come.
RecordInv ==
    /\ disk.record \subseteq tale.tried /\ boot.record \subseteq tale.tried
    /\ boot.at = "check" => \A k \in 1..Len(disk.list) :
                              k < boot.i => disk.list[k] \in boot.record
    /\ boot.at = "record" => Listed \subseteq boot.record
    /\ boot.at = "lock" => Listed \subseteq disk.record
    /\ boot.at = "run" /\ ~boot.skipped => Listed \subseteq disk.record

PkgInv == PkgTypes /\ InstallInv /\ RecordInv

-----------------------------------------------------------------------------
LEMMA PkgInitial == Init => PkgInv
<1> SUFFICES ASSUME Init PROVE PkgInv
  OBVIOUS
<1>1. PkgTypes
  <2>1. boot \in BootType
    <3>1. 1 \in Nat \ {0} /\ {} \in SUBSET Packages
      OBVIOUS
    <3>2. NoBoot \in BootType
      BY <3>1 DEF BootType, NoBoot
    <3> QED
      BY <3>2 DEF Init, PkgInit, BootType
  <2>2. disk \in DiskType
    BY DEF Init, PkgInit, DiskType
  <2>3. tale \in TaleType
    BY DEF Init, PkgInit, TaleType, NoTale
  <2> QED
    BY <2>1, <2>2, <2>3 DEF PkgTypes
<1>2. InstallInv /\ RecordInv
  BY DEF Init, PkgInit, InstallInv, RecordInv, NoBoot, NoTale
<1> QED
  BY <1>1, <1>2 DEF PkgInv

LEMMA PkgInductive == ASSUME PkgInv, PkgNext PROVE PkgInv'
<1> USE PackagesAssumption DEF PkgInv, PkgTypes, BootType, DiskType,
               TaleType, InstallInv, RecordInv, NoBoot, Listed
<1>0. /\ boot.i + 1 \in Nat \ {0}
      /\ tale.deaths + 1 \in Nat /\ tale.edits + 1 \in Nat
  OBVIOUS
<1>1. disk.list \in Seq(Packages) /\ Len(disk.list) \in Nat
  OBVIOUS
<1>2. CASE SkipCheck
  BY <1>2 DEF SkipCheck
<1>3. CASE LoadRecord
  <2>1. disk.list = <<>> => Listed = {}
    OBVIOUS
  <2>2. PkgTypes' /\ InstallInv'
    BY <1>3 DEF LoadRecord
  <2>3. CASE disk.list = <<>>
    BY <1>3, <2>1, <2>2, <2>3 DEF LoadRecord
  <2>4. CASE disk.list # <<>>
    BY <1>3, <1>1, <2>2, <2>4 DEF LoadRecord
  <2> QED
    BY <2>3, <2>4
<1>4. CASE Pass
  BY <1>4, <1>1 DEF Pass, Due
<1>5. ASSUME NEW ok \in BOOLEAN, Check(ok)
      PROVE  PkgInv'
  <2>1. disk.list[boot.i] \in Packages
    BY <1>5, <1>1 DEF Check
  <2>2. PkgTypes'
    <3>1. boot' \in BootType
      BY <1>0, <1>5, <1>1, <2>1 DEF Check
    <3>2. disk' \in DiskType
      BY <1>0, <1>5, <1>1, <2>1 DEF Check
    <3>3. tale' \in TaleType
      BY <1>0, <1>5, <1>1, <2>1 DEF Check
    <3> QED
      BY <3>1, <3>2, <3>3
  <2>3. InstallInv'
    BY <1>5, <2>1 DEF Check
  <2>4. RecordInv'
    BY <1>0, <1>5, <1>1, <2>1 DEF Check
  <2> QED
    BY <2>2, <2>3, <2>4
<1>6. CASE OpenRecord
  BY <1>6, <1>1 DEF OpenRecord
<1>7. CASE WriteRecord
  BY <1>7 DEF WriteRecord
<1>8. CASE Return
  <2>1. PkgTypes'
    BY <1>8 DEF Return
  <2>2. InstallInv'
    BY <1>8 DEF Return
  <2>3. RecordInv'
    BY <1>8 DEF Return
  <2> QED
    BY <2>1, <2>2, <2>3
<1>9. CASE Boot
  BY <1>9 DEF Boot
<1>10. CASE Die
  <2>1. PkgTypes'
    <3>1. boot' \in BootType
      BY <1>0, <1>10 DEF Die
    <3>2. disk' \in DiskType
      BY <1>0, <1>10 DEF Die
    <3>3. tale' \in TaleType
      BY <1>0, <1>10 DEF Die
    <3> QED
      BY <3>1, <3>2, <3>3
  <2>2. InstallInv' /\ RecordInv'
    BY <1>0, <1>10 DEF Die
  <2> QED
    BY <2>1, <2>2
<1>11. CASE Edit
  <2>1. PkgTypes'
    <3>1. boot' \in BootType
      BY <1>0, <1>11 DEF Edit
    <3>2. disk' \in DiskType
      BY <1>0, <1>11 DEF Edit
    <3>3. tale' \in TaleType
      BY <1>0, <1>11 DEF Edit
    <3> QED
      BY <3>1, <3>2, <3>3
  <2>2. InstallInv' /\ RecordInv'
    BY <1>0, <1>11 DEF Edit
  <2> QED
    BY <2>1, <2>2
<1> QED
  BY <1>2, <1>3, <1>4, <1>5, <1>6, <1>7, <1>8, <1>9, <1>10, <1>11
  DEF PkgNext, PkgStep

\* Setup forgets the packages; nothing else of the process touches them.
LEMMA PkgKept == ASSUME PkgInv, [Next]_vars PROVE PkgInv'
<1>1. CASE UNCHANGED pkgVars
  BY <1>1 DEF pkgVars, PkgInv, PkgTypes, InstallInv, RecordInv, Listed
<1>2. CASE CheckPackages
  BY <1>2, PkgInductive DEF CheckPackages
<1>3. CASE Setup
  <2>1. (CHOOSE list \in Lists : TRUE) \in Lists
    BY DEF PkgInv, PkgTypes, DiskType
  <2> QED
    BY <1>3, <2>1, PackagesAssumption
    DEF Setup, NoBoot, NoTale, PkgInv, PkgTypes, BootType,
        DiskType, TaleType, InstallInv, RecordInv, Listed
<1> QED
  BY <1>1, <1>2, <1>3 DEF Next, vars

LEMMA PkgCorrect == Spec => []PkgInv
<1> QED
  BY PkgInitial, PkgKept, PTL DEF Spec

-----------------------------------------------------------------------------
\* The bridge never runs in a process that has itself installed a package:
\* installExtraPackages returns packages_changed, and main() returns on it.
THEOREM RunsWithPackagesCorrect == Spec => []RunsWithPackages
<1>1. PkgInv => RunsWithPackages
  BY DEF PkgInv, InstallInv, RunsWithPackages
<1> QED
  BY <1>1, PkgCorrect, PTL

\* The record of checked packages names only packages whose check ended, and
\* all that are listed when the bridge runs, unless the lock skipped the check.
THEOREM RecordTellsCorrect == Spec => []RecordTells
<1>1. PkgInv => RecordTells
  BY DEF PkgInv, RecordInv, RecordTells
<1> QED
  BY <1>1, PkgCorrect, PTL

-----------------------------------------------------------------------------
(* The connection to the cloud                                              *)

Records ==
    /\ DOMAIN cl = {"con", "thread", "ws", "held", "normal", "retry", "watch", "abort",
                    "attempts"}
    /\ DOMAIN sk = {"live", "conn", "timer", "bound", "queue", "born"}
    /\ DOMAIN br = {"connected", "shut", "listen"}
    /\ DOMAIN past = {"session", "late", "gone", "overtaken", "faults", "emits"}

\* A websocket and a handler have their thread, an open client has a websocket,
\* and nothing is there before main() connects.
ThreadInv ==
    /\ cl.ws # "none" => cl.thread = "running"
    /\ net # "idle" => cl.thread = "running"
    /\ cl.con = "opened" \/ cl.held => cl.ws \in {"open", "mute", "ending"}
    /\ cl.con = "closed" \/ net = "retry" => cl.ws = "none"
    /\ main \in {"packages", "connect"} =>
         cl.con = "closed" /\ cl.thread = "none" /\ cl.ws = "none" /\ redo = "none"

\* A bridge that believes to be connected is so until on_close begins, and its
\* namespace was asked for with its handlers in place.
SessionInv ==
    /\ sk.conn => sk.live
    /\ net # "idle" => cl.con # "opened"
    /\ br.connected /\ br.listen => cl.con = "opened"
    /\ cl.con = "opened" /\ br.listen => (sk.live /\ sk.bound) \/ past.gone
    /\ br.connected /\ br.listen => (sk.conn /\ sk.bound) \/ past.gone

RegInv == Records /\ ThreadInv /\ SessionInv

LEMMA RegInitial == Init => RegInv
<1> SUFFICES ASSUME Init PROVE RegInv
  OBVIOUS
<1>1. Records
  BY DEF Init, SioInit, NoClient, NoSocket, NoBridge, Records
<1>2. ThreadInv
  BY DEF Init, SioInit, NoClient, ThreadInv
<1>3. SessionInv
  BY DEF Init, SioInit, NoClient, NoSocket, NoBridge, SessionInv
<1> QED
  BY <1>1, <1>2, <1>3 DEF RegInv

LEMMA ConnectedFields ==
    ASSUME Records
    PROVE  /\ DOMAIN Connected(cl) = DOMAIN cl
           /\ Connected(cl).con = "opening" /\ Connected(cl).ws = "opening"
           /\ Connected(cl).thread = "running" /\ Connected(cl).held = cl.held
<1> QED
  BY DEF Records, Connected, Connecting

LEMMA CloseFields ==
    ASSUME Records
    PROVE  /\ DOMAIN CloseClient(cl) = DOMAIN cl
           /\ CloseClient(cl).con = "closing" /\ CloseClient(cl).thread = cl.thread
           /\ CloseClient(cl).held = cl.held
           /\ CloseClient(cl).ws = IF cl.held THEN "ending" ELSE cl.ws
           /\ DOMAIN CloseSocket(sk) = DOMAIN sk
           /\ CloseSocket(sk).live = sk.live /\ CloseSocket(sk).conn = sk.conn
           /\ CloseSocket(sk).bound = sk.bound
<1> QED
  BY DEF Records, CloseClient, CloseSocket

LEMMA SocketFields ==
    ASSUME Records
    PROVE  /\ DOMAIN SocketOf(sk) = DOMAIN sk
           /\ SocketOf(sk).live
           /\ SocketOf(sk).conn => sk.conn
<1>1. CASE sk.live
  <2>1. SocketOf(sk) = sk
    BY <1>1 DEF SocketOf
  <2> QED
    BY <1>1, <2>1
<1>2. CASE ~sk.live
  BY <1>2 DEF Records, SocketOf, NoSocket
<1> QED
  BY <1>1, <1>2

LEMMA RegSio == ASSUME RegInv, Sio PROVE RegInv'
<1> USE DEF RegInv, Records, ThreadInv, SessionInv
<1>1. CASE Connect
  BY <1>1, ConnectedFields DEF Connect
<1>2. CASE OnOpen
  <2>1. net = "idle" /\ cl.thread = "running" /\ cl.ws = "opening" /\ ~cl.held
        /\ UNCHANGED <<br, net, redo, main>>
    BY <1>2 DEF OnOpen, Running
  <2>2. CASE cl.con = "closing"
    <3>1. cl' = [CloseClient(cl) EXCEPT !.ws = "open"] /\ sk' = CloseSocket(sk) /\ past' = past
      BY <1>2, <2>2 DEF OnOpen
    <3> QED
      BY <2>1, <2>2, <3>1, CloseFields
  <2>3. CASE cl.con # "closing"
    <3> DEFINE s == SocketOf(sk)
    <3>1. /\ cl' = [cl EXCEPT !.con = "opened", !.ws = "open", !.held = TRUE]
          /\ sk' = [s EXCEPT !.timer = "connect", !.bound = @ \/ br.listen]
          /\ past' = [past EXCEPT !.session = @ + 1, !.gone = FALSE]
      BY <1>2, <2>3 DEF OnOpen
    <3>2. DOMAIN s = DOMAIN sk /\ s.live
      BY SocketFields
    <3> HIDE DEF s
    <3>3. DOMAIN sk' = DOMAIN sk /\ sk'.live /\ (br.listen => sk'.bound)
      BY <3>1, <3>2
    <3>4. ~(br.connected /\ br.listen)
      BY <2>1
    <3>5. Records'
      BY <2>1, <3>1, <3>3
    <3>6. ThreadInv'
      BY <2>1, <3>1
    <3>7. SessionInv'
      BY <2>1, <3>1, <3>3, <3>4
    <3> QED
      BY <3>5, <3>6, <3>7
  <2> QED
    BY <2>2, <2>3
<1>3. CASE OnFail
  <2>1. net = "idle" /\ cl.thread = "running" /\ cl.ws = "opening" /\ ~cl.held
        /\ UNCHANGED <<br, net, redo, main>> /\ past' = [past EXCEPT !.faults = @ - 1]
    BY <1>3 DEF OnFail, Running
  <2>2. CASE cl.con = "closing"
    <3>1. cl' = [CloseClient(cl) EXCEPT !.ws = "none"] /\ sk' = CloseSocket(sk)
      BY <1>3, <2>2 DEF OnFail
    <3> QED
      BY <2>1, <2>2, <3>1, CloseFields
  <2>3. CASE cl.con # "closing"
    BY <1>3, <2>1, <2>3 DEF OnFail, OnDisconnect
  <2> QED
    BY <2>2, <2>3
<1>4. CASE FallSilent
  BY <1>4 DEF FallSilent
<1>5. CASE OnHandshake
  BY <1>5 DEF OnHandshake, Running
<1>6. CASE TimeoutPing
  BY <1>6 DEF TimeoutPing, Running
<1>7. CASE OnClose
  BY <1>7 DEF OnClose, Running
<1>8. CASE NetFind
  BY <1>8 DEF NetFind, LookUp
<1>9. CASE NetErase
  BY <1>9 DEF NetErase
<1>10. CASE AfterClose
  BY <1>10 DEF AfterClose, OnDisconnect, SocketOf, NoSocket
<1>11. CASE RetryTest
  BY <1>11 DEF RetryTest, Running
<1>12. CASE RetryConnect
  BY <1>12 DEF RetryConnect, Connecting
<1>13. CASE RunEnds
  BY <1>13 DEF RunEnds, Running
<1>14. CASE RedoWake
  BY <1>14, ConnectedFields DEF RedoWake
<1>15. CASE RedoJoin
  <2>1. UNCHANGED <<br, net, sk, past, main>> /\ redo' = "none"
    BY <1>15 DEF RedoJoin
  <2>2. CASE cl.thread = "ended" /\ main # "join"
    <3>1. cl' = Connected(cl) /\ cl.ws = "none" /\ net = "idle" /\ cl.con # "opened"
      BY <1>15, <2>2 DEF RedoJoin
    <3>2. main \notin {"packages", "connect"} /\ ~cl.held
      BY <2>2, <3>1
    <3> QED
      BY <2>1, <3>1, <3>2, ConnectedFields
  <2>3. CASE ~(cl.thread = "ended" /\ main # "join")
    <3>1. cl' = cl
      BY <1>15, <2>3 DEF RedoJoin
    <3> QED
      BY <2>1, <3>1
  <2> QED
    BY <2>2, <2>3
<1>16. CASE Accepted
  BY <1>16 DEF Accepted, Running
<1>17. CASE ServerDisconnects
  BY <1>17 DEF ServerDisconnects, Running, SocketGone, NoSocket
<1>18. CASE SocketTimeout
  BY <1>18 DEF SocketTimeout, Running, SocketGone, NoSocket
<1>19. CASE PeerComes
  BY <1>19 DEF PeerComes
<1>20. CASE PeerGoes
  BY <1>20 DEF PeerGoes
<1>21. CASE EmitCheck
  BY <1>21 DEF EmitCheck
<1>22. CASE EmitTest
  BY <1>22 DEF EmitTest, SocketOf, NoSocket
<1>23. CASE EmitDo
  BY <1>23 DEF EmitDo
<1>24. CASE ShutMark
  BY <1>24 DEF ShutMark
<1>25. CASE ShutFind
  BY <1>25 DEF ShutFind, LookUp
<1>26. CASE ShutErase
  BY <1>26 DEF ShutErase
<1>27. CASE ShutClose
  <2> DEFINE c == [CloseClient(cl) EXCEPT !.attempts = FALSE]
  <2>1. /\ DOMAIN c = DOMAIN cl /\ c.con = "closing" /\ c.thread = cl.thread
        /\ c.held = cl.held /\ c.ws = IF cl.held THEN "ending" ELSE cl.ws
    BY DEF CloseClient
  <2>2. cl' = c /\ br' = [br EXCEPT !.listen = FALSE] /\ sk' = CloseSocket(sk)
        /\ main' = "join" /\ UNCHANGED <<net, redo, past>>
    BY <1>27 DEF ShutClose
  <2> HIDE DEF c
  <2>3. Records'
    BY <2>1, <2>2 DEF CloseSocket
  <2>4. ThreadInv'
    BY <2>1, <2>2
  <2>5. SessionInv'
    BY <2>1, <2>2 DEF CloseSocket
  <2> QED
    BY <2>3, <2>4, <2>5
<1>28. CASE ShutJoin
  BY <1>28 DEF ShutJoin
<1>29. CASE PeersCleaned
  BY <1>29 DEF PeersCleaned
<1>30. ASSUME NEW normal \in BOOLEAN, Drop(normal)
      PROVE  RegInv'
  BY <1>30 DEF Drop
<1> QED
  BY <1>1, <1>2, <1>3, <1>4, <1>5, <1>6, <1>7, <1>8, <1>9, <1>10, <1>11, <1>12, <1>13, <1>14, <1>15, <1>16, <1>17, <1>18, <1>19, <1>20, <1>21, <1>22, <1>23, <1>24, <1>25, <1>26, <1>27, <1>28, <1>29, <1>30
  DEF Sio, Handlers, Environment, Redo, Emits, Shutdown

LEMMA RegKept == ASSUME RegInv, [Next]_vars PROVE RegInv'
<1>1. CASE Sio
  BY <1>1, RegSio
<1>2. ASSUME UNCHANGED sioVars,
             main' \in {"packages", "connect"} => main \in {"packages", "connect"}
      PROVE  RegInv'
  BY <1>2 DEF sioVars, RegInv, Records, ThreadInv, SessionInv
<1>3. CASE Setup
  BY <1>3 DEF Setup, RegInv, Records, ThreadInv, SessionInv
<1>4. CASE CheckPackages \/ Interrupt \/ DataFlash
  BY <1>2, <1>4 DEF CheckPackages, upVars, Interrupt, DataFlash
<1>5. CASE Status
  <2>1. UNCHANGED sioVars
    BY <1>5 DEF Status, ClearLeds
  <2>2. UNCHANGED main \/ main' \in {"ledconn", "leddata", "mark"}
    BY <1>5 DEF Status, ClearLeds, ClearStop, ClearConn, ClearData, Clear, LedLoop,
                LoopTest, LoopRead, LoopSkip, LoopWrite
  <2> QED
    BY <1>2, <2>1, <2>2
<1>6. CASE UNCHANGED vars
  BY <1>2, <1>6 DEF vars
<1> QED
  BY <1>1, <1>3, <1>4, <1>5, <1>6 DEF Next

\* While the bridge takes itself for connected, the namespace's socket is
\* connected with its handlers on it, unless the server closed the namespace
\* under it (BridgeSocket::onConnected, onClosed and onSocketClose).
THEOREM RegisteredCorrect == Spec => []RegisteredUnlessGone
<1>1. RegInv => RegisteredUnlessGone
  BY DEF RegInv, SessionInv, RegisteredUnlessGone
<1> QED
  BY <1>1, RegInitial, RegKept, PTL DEF Spec

-----------------------------------------------------------------------------
(* Packets and sessions                                                     *)

Packets == [made: Nat, put: Nat, gone: BOOLEAN]
ClientType == [con: {"opening", "opened", "closing", "closed"},
               thread: {"none", "running", "ended"},
               ws: {"none", "opening", "open", "mute", "ending"}, held: BOOLEAN,
               normal: BOOLEAN, retry: BOOLEAN, watch: BOOLEAN, abort: BOOLEAN,
               attempts: BOOLEAN]
SocketType == [live: BOOLEAN, conn: BOOLEAN, timer: {"none", "connect", "close"},
               bound: BOOLEAN, queue: SUBSET Packets, born: Nat]
BridgeType == [connected: BOOLEAN, shut: BOOLEAN, listen: BOOLEAN]
EmitType == [at: {"none", "got", "go"}, made: Nat, gone: BOOLEAN, up: BOOLEAN, born: Nat]
PastType == [session: Nat, late: SUBSET Packets, gone: BOOLEAN, overtaken: BOOLEAN,
             faults: Nat, emits: Nat]

\* A strict form of SioTypeOK.
SioTypes ==
    /\ cl \in ClientType /\ sk \in SocketType /\ br \in BridgeType
    /\ emitter \in EmitType /\ past \in PastType
    /\ net \in {"idle", "retry", "find", "erase", "closed"}
    /\ redo \in {"none", "sleep", "join"}
    /\ peerUp \in BOOLEAN
    /\ sk.born <= past.session
    /\ emitter.made <= past.session
    /\ \A x \in sk.queue : x.made <= x.put /\ x.put <= past.session

\* At most one of the reconnect timer, an attempt and the detached thread is
\* about to open the client, and none once the listeners are gone and the
\* client was open.
OpenInv ==
    /\ ~br.listen => main \in {"join", "peers", "done"} /\ ~cl.attempts
    /\ redo # "none" => cl.ws = "none" /\ ~cl.retry /\ net = "idle"
    /\ cl.retry => cl.ws = "none" /\ net = "idle" /\ cl.thread = "running"
    /\ net # "idle" => cl.ws = "none"
    /\ br.connected => net # "retry" /\ cl.ws # "opening" /\ redo = "none" /\ ~cl.retry
    /\ br.connected /\ cl.con = "opened" => sk.conn \/ past.gone

\* The client was shut down while it was open, and is never opened again.
Finished == /\ ~br.listen /\ net # "retry" /\ cl.ws # "opening" /\ redo = "none"
            /\ ~cl.retry /\ cl.con # "opened"

\* An emit that is still in the session it looked at finds the socket connected,
\* unless the namespace is closed or the client is being shut down.
EmitInv ==
    /\ emitter.at = "got" /\ emitter.made = past.session => br.connected
    /\ emitter.at = "go" /\ emitter.made = past.session =>
         emitter.up \/ emitter.gone \/ (br.connected /\ cl.con # "opened")
    /\ \A x \in sk.queue : x.made # x.put \/ x.gone \/ Finished
    /\ \A x \in past.late : x.made # x.put \/ x.gone

ConnInv == SioTypes /\ OpenInv /\ EmitInv

LEMMA ConnectedType ==
    ASSUME cl \in ClientType
    PROVE  /\ Connected(cl) \in ClientType
           /\ Connected(cl).con = "opening" /\ Connected(cl).ws = "opening"
           /\ Connected(cl).thread = "running" /\ Connected(cl).held = cl.held
           /\ ~Connected(cl).retry /\ Connected(cl).attempts = cl.attempts
<1> QED
  BY DEF ClientType, Connected, Connecting

LEMMA CloseType ==
    ASSUME cl \in ClientType, sk \in SocketType
    PROVE  /\ CloseClient(cl) \in ClientType
           /\ CloseClient(cl).con = "closing" /\ CloseClient(cl).thread = cl.thread
           /\ CloseClient(cl).held = cl.held /\ CloseClient(cl).attempts = cl.attempts
           /\ ~CloseClient(cl).retry
           /\ CloseClient(cl).ws = IF cl.held THEN "ending" ELSE cl.ws
           /\ CloseSocket(sk) \in SocketType
           /\ CloseSocket(sk).conn = sk.conn /\ CloseSocket(sk).queue = sk.queue
           /\ CloseSocket(sk).born = sk.born
<1>1. CloseClient(cl) \in ClientType
  BY DEF ClientType, CloseClient
<1>2. CloseSocket(sk) \in SocketType
  BY DEF SocketType, CloseSocket
<1> QED
  BY <1>1, <1>2 DEF ClientType, SocketType, CloseClient, CloseSocket

LEMMA SocketOfType ==
    ASSUME NEW s \in SocketType, past \in PastType, s.born <= past.session
    PROVE  /\ SocketOf(s) \in SocketType
           /\ SocketOf(s).queue \subseteq s.queue /\ SocketOf(s).born <= past.session
           /\ s.live => SocketOf(s) = s
<1>1. CASE s.live
  <2>1. SocketOf(s) = s
    BY <1>1 DEF SocketOf
  <2> QED
    BY <2>1
<1>2. CASE ~s.live
  <2>1. past.session \in Nat
    BY DEF PastType
  <2>2. SocketOf(s) = [NoSocket EXCEPT !.live = TRUE, !.born = past.session,
                          !.timer = IF cl.con = "opened" THEN "connect" ELSE "none"]
    BY <1>2 DEF SocketOf
  <2>3. SocketOf(s) \in SocketType
    BY <2>1, <2>2 DEF SocketType, NoSocket
  <2> QED
    BY <1>2, <2>1, <2>2, <2>3 DEF NoSocket
<1> QED
  BY <1>1, <1>2

LEMMA OnDisconnectType ==
    ASSUME sk \in SocketType
    PROVE  /\ OnDisconnect(sk) \in SocketType
           /\ OnDisconnect(sk).queue \subseteq sk.queue /\ OnDisconnect(sk).born = sk.born
           /\ OnDisconnect(sk).live = sk.live
<1> QED
  BY DEF SocketType, OnDisconnect

LEMMA NoSocketType ==
    NoSocket \in SocketType /\ NoSocket.queue = {} /\ NoSocket.born = 0 /\ ~NoSocket.conn
<1> QED
  BY DEF NoSocket, SocketType


LEMMA Counted ==
    ASSUME SioTypes
    PROVE  /\ past.session \in Nat /\ sk.born \in Nat /\ emitter.made \in Nat
           /\ past.session <= past.session + 1
           /\ \A x \in sk.queue : x \in Packets /\ x.made \in Nat /\ x.put \in Nat
<1> QED
  BY DEF SioTypes, PastType, SocketType, EmitType, Packets

\* Every step of the connection keeps the types and the order of the sessions.
LEMMA SioTyped == ASSUME RegInv, ConnInv, Sio PROVE SioTypes'
<1> USE DEF ConnInv, Running, Fault
<1>0. /\ past.session \in Nat /\ past.session + 1 \in Nat
      /\ past.session <= past.session + 1
      /\ sk.born \in Nat /\ emitter.made \in Nat
      /\ \A x \in sk.queue : x \in Packets /\ x.made \in Nat /\ x.put \in Nat
  BY Counted
<1>1. CASE Connect
  <2>1. cl' \in ClientType
    BY <1>0, <1>1, ConnectedType DEF Connect, SioTypes, ClientType
  <2> QED
    BY <1>0, <1>1, ConnectedType, <2>1 DEF Connect, SioTypes
<1>2. CASE OnOpen
  <2>1. cl' \in ClientType
    BY <1>0, <1>2, CloseType DEF OnOpen, SioTypes, ClientType
  <2>2. CASE cl.con = "closing"
    <3>1. sk' = CloseSocket(sk)
      BY <1>0, <1>2, <2>2 DEF OnOpen
    <3>2. UNCHANGED <<past, br, net, redo, peerUp, emitter>>
      BY <1>0, <1>2, <2>2 DEF OnOpen
    <3> QED
      BY <1>0, <2>1, <3>1, <3>2, CloseType DEF SioTypes
  <2>3. CASE cl.con # "closing"
    <3> DEFINE s == SocketOf(sk)
    <3>1. /\ sk' = [s EXCEPT !.timer = "connect", !.bound = @ \/ br.listen]
          /\ past' = [past EXCEPT !.session = @ + 1, !.gone = FALSE]
          /\ UNCHANGED <<br, net, redo, peerUp, emitter>>
      BY <1>0, <1>2, <2>3 DEF OnOpen
    <3>2. s \in SocketType /\ s.queue \subseteq sk.queue /\ s.born <= past.session /\ s.born \in Nat
      BY SocketOfType DEF SioTypes, SocketType
    <3> HIDE DEF s
    <3>3. sk' \in SocketType /\ sk'.queue = s.queue /\ sk'.born = s.born
      BY <3>1, <3>2 DEF SocketType
    <3>4. past' \in PastType /\ past'.session = past.session + 1
      BY <1>0, <3>1 DEF SioTypes, PastType
    <3> QED
      BY <1>0, <2>1, <3>1, <3>2, <3>3, <3>4 DEF SioTypes
  <2> QED
    BY <2>2, <2>3
<1>3. CASE OnFail
  <2>1. cl' \in ClientType
    BY <1>0, <1>3, CloseType, OnDisconnectType DEF OnFail, Retries, SioTypes, ClientType
  <2>2. sk' \in SocketType
    BY <1>0, <1>3, CloseType, OnDisconnectType DEF OnFail, Retries, SioTypes, SocketType, PastType
  <2>3. past' \in PastType /\ past.session <= past'.session
    BY <1>0, <1>3 DEF OnFail, Retries, SioTypes, PastType, SocketType
  <2> QED
    BY <1>0, <1>3, CloseType, OnDisconnectType, <2>1, <2>2, <2>3 DEF OnFail, Retries, SioTypes
<1>4. CASE FallSilent
  <2>1. cl' \in ClientType
    BY <1>0, <1>4 DEF FallSilent, SioTypes, ClientType
  <2>2. past' \in PastType /\ past.session <= past'.session
    BY <1>0, <1>4 DEF FallSilent, SioTypes, PastType
  <2> QED
    BY <1>0, <1>4, <2>1, <2>2 DEF FallSilent, SioTypes
<1>5. CASE OnHandshake
  <2>1. cl' \in ClientType
    BY <1>0, <1>5 DEF OnHandshake, SioTypes, ClientType
  <2> QED
    BY <1>0, <1>5, <2>1 DEF OnHandshake, SioTypes
<1>6. CASE TimeoutPing
  <2>1. cl' \in ClientType
    BY <1>0, <1>6 DEF TimeoutPing, SioTypes, ClientType
  <2> QED
    BY <1>0, <1>6, <2>1 DEF TimeoutPing, SioTypes
<1>7. CASE OnClose
  <2>1. cl' \in ClientType
    BY <1>0, <1>7 DEF OnClose, SioTypes, ClientType
  <2>2. past' \in PastType /\ past'.session = past.session + 1
    <3>1. CASE br.listen
      <4>1. past' = [past EXCEPT !.session = @ + 1, !.gone = FALSE]
        BY <1>0, <1>7, <3>1 DEF OnClose
      <4> QED
        BY <1>0, <4>1 DEF SioTypes, PastType
    <3>2. CASE ~br.listen
      <4>1. past' = [past EXCEPT !.session = @ + 1, !.gone = past.gone]
        BY <1>0, <1>7, <3>2 DEF OnClose
      <4> QED
        BY <1>0, <4>1 DEF SioTypes, PastType
    <3> QED
      BY <3>1, <3>2
  <2>3. br' \in BridgeType /\ net' \in {"find", "closed"}
    BY <1>0, <1>7 DEF OnClose, SioTypes, BridgeType
  <2>4. UNCHANGED <<sk, redo, peerUp, emitter>>
    BY <1>0, <1>7 DEF OnClose
  <2> QED
    BY <1>0, <2>1, <2>2, <2>3, <2>4 DEF SioTypes
<1>8. CASE NetFind
  BY <1>0, <1>8 DEF NetFind, LookUp, SioTypes, BridgeType
<1>9. CASE NetErase
  BY <1>0, <1>9 DEF NetErase, SioTypes, BridgeType
<1>10. CASE AfterClose
  <2>1. cl' \in ClientType
    BY <1>0, <1>10 DEF AfterClose, Retries, SioTypes, ClientType
  <2> DEFINE s == OnDisconnect(sk)
  <2>2. s \in SocketType /\ s.queue \subseteq sk.queue /\ s.born = sk.born
    BY OnDisconnectType DEF SioTypes
  <2> HIDE DEF s
  <2>3. /\ UNCHANGED <<br, peerUp, emitter, past>>
        /\ net' = "idle" /\ redo' \in {"sleep", redo}
        /\ sk' \in {s, [SocketOf(s) EXCEPT !.bound = FALSE]}
    BY <1>0, <1>10 DEF AfterClose, s
  <2>4. CASE sk' = s
    BY <2>1, <2>2, <2>3, <2>4 DEF SioTypes
  <2>5. CASE sk' = [SocketOf(s) EXCEPT !.bound = FALSE]
    <3>1. SocketOf(s) \in SocketType /\ SocketOf(s).queue \subseteq s.queue
          /\ SocketOf(s).born <= past.session
      BY <2>2, SocketOfType DEF SioTypes
    <3>2. sk' \in SocketType /\ sk'.queue \subseteq s.queue /\ sk'.born <= past.session
      BY <2>5, <3>1 DEF SocketType
    <3> QED
      BY <1>0, <2>1, <2>2, <2>3, <3>2 DEF SioTypes
  <2> QED
    BY <2>3, <2>4, <2>5
<1>11. CASE RetryTest
  <2>1. cl' \in ClientType
    BY <1>0, <1>11 DEF RetryTest, SioTypes, ClientType
  <2> QED
    BY <1>0, <1>11, <2>1 DEF RetryTest, SioTypes
<1>12. CASE RetryConnect
  <2>1. cl' \in ClientType
    BY <1>0, <1>12 DEF RetryConnect, Connecting, SioTypes, ClientType
  <2>2. past' \in PastType /\ past'.session = past.session
    <3>1. CASE cl.con = "closed"
      <4>1. past' = [past EXCEPT !.overtaken = FALSE]
        BY <1>0, <1>12, <3>1 DEF RetryConnect
      <4> QED
        BY <1>0, <4>1 DEF SioTypes, PastType
    <3>2. CASE cl.con # "closed"
      <4>1. past' = [past EXCEPT !.overtaken = TRUE]
        BY <1>0, <1>12, <3>2 DEF RetryConnect
      <4> QED
        BY <1>0, <4>1 DEF SioTypes, PastType
    <3> QED
      BY <3>1, <3>2
  <2>3. net' = "idle" /\ UNCHANGED <<sk, br, redo, peerUp, emitter>>
    BY <1>0, <1>12 DEF RetryConnect
  <2> QED
    BY <1>0, <2>1, <2>2, <2>3 DEF SioTypes
<1>13. CASE RunEnds
  <2>1. cl' \in ClientType
    BY <1>0, <1>13 DEF RunEnds, SioTypes, ClientType
  <2> QED
    BY <1>0, <1>13, <2>1 DEF RunEnds, SioTypes
<1>14. CASE RedoWake
  <2>1. cl' \in ClientType
    BY <1>0, <1>14, ConnectedType DEF RedoWake, SioTypes, ClientType
  <2> QED
    BY <1>0, <1>14, ConnectedType, <2>1 DEF RedoWake, SioTypes
<1>15. CASE RedoJoin
  <2>1. cl' \in ClientType
    BY <1>0, <1>15, ConnectedType DEF RedoJoin, SioTypes, ClientType
  <2> QED
    BY <1>0, <1>15, ConnectedType, <2>1 DEF RedoJoin, SioTypes
<1>16. CASE Accepted
  <2>1. sk' \in SocketType /\ sk'.queue = {} /\ sk'.born = sk.born
    BY <1>0, <1>16 DEF Accepted, SioTypes, SocketType
  <2>2. past' \in PastType /\ past'.session = past.session
    BY <1>0, <1>16 DEF Accepted, Late, SioTypes, PastType, SocketType
  <2>3. br' \in BridgeType /\ UNCHANGED <<cl, net, redo, peerUp, emitter>>
    BY <1>0, <1>16 DEF Accepted, SioTypes, BridgeType
  <2> QED
    BY <1>0, <2>1, <2>2, <2>3 DEF SioTypes
<1>17. CASE ServerDisconnects
  <2>1. PICK f \in {0, 1} : f <= past.faults /\ SocketGone(f)
    BY <1>0, <1>17 DEF ServerDisconnects, SioTypes, PastType
  <2>2. sk' = NoSocket /\ NoSocket \in SocketType /\ NoSocket.queue = {} /\ NoSocket.born = 0
    BY <2>1, NoSocketType DEF SocketGone
  <2>3. past' \in PastType /\ past'.session = past.session + 1
    <3>1. past.faults - f \in Nat
      BY <2>1 DEF SioTypes, PastType
    <3>2. CASE past.gone \/ cl.con = "opened"
      <4>1. past' = [past EXCEPT !.session = past.session + 1, !.gone = TRUE,
                                 !.faults = past.faults - f]
        BY <2>1, <3>2 DEF SocketGone
      <4> QED
        BY <1>0, <3>1, <4>1 DEF SioTypes, PastType
    <3>3. CASE ~(past.gone \/ cl.con = "opened")
      <4>1. past' = [past EXCEPT !.session = past.session + 1, !.gone = FALSE,
                                 !.faults = past.faults - f]
        BY <2>1, <3>3 DEF SocketGone
      <4> QED
        BY <1>0, <3>1, <4>1 DEF SioTypes, PastType
    <3> QED
      BY <3>2, <3>3
  <2>4. UNCHANGED <<cl, br, net, redo, peerUp, emitter>>
    BY <1>0, <1>17 DEF ServerDisconnects
  <2> QED
    BY <1>0, <2>2, <2>3, <2>4 DEF SioTypes
<1>18. CASE SocketTimeout
  <2>1. PICK f \in {0, 1} : f <= past.faults /\ SocketGone(f)
    BY <1>0, <1>18 DEF SocketTimeout, SioTypes, PastType
  <2>2. sk' = NoSocket /\ NoSocket \in SocketType /\ NoSocket.queue = {} /\ NoSocket.born = 0
    BY <2>1, NoSocketType DEF SocketGone
  <2>3. past' \in PastType /\ past'.session = past.session + 1
    <3>1. past.faults - f \in Nat
      BY <2>1 DEF SioTypes, PastType
    <3>2. CASE past.gone \/ cl.con = "opened"
      <4>1. past' = [past EXCEPT !.session = past.session + 1, !.gone = TRUE,
                                 !.faults = past.faults - f]
        BY <2>1, <3>2 DEF SocketGone
      <4> QED
        BY <1>0, <3>1, <4>1 DEF SioTypes, PastType
    <3>3. CASE ~(past.gone \/ cl.con = "opened")
      <4>1. past' = [past EXCEPT !.session = past.session + 1, !.gone = FALSE,
                                 !.faults = past.faults - f]
        BY <2>1, <3>3 DEF SocketGone
      <4> QED
        BY <1>0, <3>1, <4>1 DEF SioTypes, PastType
    <3> QED
      BY <3>2, <3>3
  <2>4. UNCHANGED <<cl, br, net, redo, peerUp, emitter>>
    BY <1>0, <1>18 DEF SocketTimeout
  <2> QED
    BY <1>0, <2>2, <2>3, <2>4 DEF SioTypes
<1>19. CASE PeerComes
  BY <1>0, <1>19 DEF PeerComes, SioTypes, BridgeType
<1>20. CASE PeerGoes
  BY <1>0, <1>20 DEF PeerGoes, SioTypes, BridgeType
<1>21. CASE EmitCheck
  <2>1. past' \in PastType /\ past.session <= past'.session
    BY <1>0, <1>21 DEF EmitCheck, NoEmit, SioTypes, PastType, EmitType
  <2>2. emitter' \in EmitType
    BY <1>0, <1>21 DEF EmitCheck, NoEmit, SioTypes, EmitType, PastType
  <2> QED
    BY <1>0, <1>21, <2>1, <2>2 DEF EmitCheck, NoEmit, SioTypes
<1>22. CASE EmitTest
  <2>1. sk' \in SocketType
    BY <1>0, <1>22, SocketOfType DEF EmitTest, SioTypes, SocketType, EmitType
  <2>2. emitter' \in EmitType
    BY <1>0, <1>22, SocketOfType DEF EmitTest, SioTypes, EmitType, SocketType, PastType
  <2> QED
    BY <1>0, <1>22, SocketOfType, <2>1, <2>2 DEF EmitTest, SioTypes
<1>23. CASE EmitDo
  <2>1. sk' \in SocketType
    BY <1>0, <1>23
    DEF EmitDo, Packet, Late, NoEmit, SioTypes, SocketType, EmitType, PastType, Packets
  <2>2. past' \in PastType /\ past.session <= past'.session
    BY <1>0, <1>23
    DEF EmitDo, Packet, Late, NoEmit, SioTypes, PastType, EmitType, SocketType, Packets
  <2>3. emitter' \in EmitType
    BY <1>0, <1>23 DEF EmitDo, Packet, Late, NoEmit, SioTypes, EmitType, PastType, SocketType
  <2> QED
    BY <1>0, <1>23, <2>1, <2>2, <2>3 DEF EmitDo, Packet, Late, NoEmit, SioTypes
<1>24. CASE ShutMark
  BY <1>0, <1>24 DEF ShutMark, SioTypes, BridgeType
<1>25. CASE ShutFind
  BY <1>0, <1>25 DEF ShutFind, LookUp, SioTypes, BridgeType
<1>26. CASE ShutErase
  BY <1>0, <1>26 DEF ShutErase, SioTypes, BridgeType
<1>27. CASE ShutClose
  <2>1. cl' \in ClientType
    BY <1>0, <1>27, CloseType DEF ShutClose, SioTypes, ClientType
  <2>2. sk' \in SocketType
    BY <1>0, <1>27, CloseType DEF ShutClose, SioTypes, SocketType
  <2> QED
    BY <1>0, <1>27, CloseType, <2>1, <2>2 DEF ShutClose, SioTypes, BridgeType
<1>28. CASE ShutJoin
  <2>1. cl' \in ClientType
    BY <1>0, <1>28 DEF ShutJoin, SioTypes, ClientType
  <2> QED
    BY <1>0, <1>28, <2>1 DEF ShutJoin, SioTypes
<1>29. CASE PeersCleaned
  BY <1>0, <1>29 DEF PeersCleaned, SioTypes, BridgeType
<1>30. ASSUME NEW normal \in BOOLEAN, Drop(normal)
      PROVE  SioTypes'
  <2>1. cl' \in ClientType
    BY <1>0, <1>30 DEF Drop, SioTypes, ClientType
  <2>2. past' \in PastType /\ past'.session = past.session
    BY <1>0, <1>30 DEF Drop, SioTypes, PastType
  <2> QED
    BY <1>0, <1>30, <2>1, <2>2 DEF Drop, SioTypes
<1> QED
  BY <1>0, <1>1, <1>2, <1>3, <1>4, <1>5, <1>6, <1>7, <1>8, <1>9, <1>10, <1>11, <1>12, <1>13, <1>14, <1>15, <1>16, <1>17, <1>18, <1>19, <1>20, <1>21, <1>22, <1>23, <1>24, <1>25, <1>26, <1>27, <1>28, <1>29, <1>30
  DEF Sio, Handlers, Environment, Redo, Emits, Shutdown

\* on_close, the reconnect timer and the detached thread hand the client to one
\* another: none of them is about to open it while another one may.
LEMMA OpenKept == ASSUME RegInv, ConnInv, Sio PROVE OpenInv'
<1> USE DEF ConnInv, RegInv, ThreadInv, SessionInv, Running, Fault
<1>1. CASE Connect
  BY <1>1, ConnectedType DEF Connect, SioTypes, OpenInv, ClientType
<1>2. CASE OnOpen
  <2>1. net = "idle" /\ cl.thread = "running" /\ cl.ws = "opening" /\ redo = "none"
        /\ ~cl.retry /\ ~br.connected /\ UNCHANGED <<br, net, redo, main>>
    BY <1>2 DEF OnOpen, OpenInv
  <2>2. /\ cl' \in ClientType /\ cl'.ws = "open" /\ ~cl'.retry
        /\ cl'.attempts = cl.attempts
    BY <1>2, <2>1, CloseType DEF OnOpen, SioTypes, ClientType
  <2> QED
    BY <2>1, <2>2 DEF OpenInv
<1>3. CASE OnFail
  <2>1. net = "idle" /\ cl.thread = "running" /\ cl.ws = "opening" /\ redo = "none"
        /\ ~br.connected /\ UNCHANGED <<br, net, redo, main>>
    BY <1>3 DEF OnFail, OpenInv
  <2>2. cl'.ws = "none" /\ cl'.thread = "running" /\ cl'.attempts = cl.attempts
    BY <1>3, <2>1, CloseType DEF OnFail, SioTypes, ClientType
  <2> QED
    BY <2>1, <2>2 DEF OpenInv
<1>4. CASE FallSilent
  BY <1>4 DEF FallSilent, SioTypes, OpenInv, ClientType, PastType
<1>5. CASE OnHandshake
  BY <1>5 DEF OnHandshake, SioTypes, OpenInv, ClientType
<1>6. CASE TimeoutPing
  BY <1>6 DEF TimeoutPing, SioTypes, OpenInv, ClientType
<1>7. CASE OnClose
  BY <1>7 DEF OnClose, SioTypes, OpenInv, ClientType, BridgeType, PastType
<1>8. CASE NetFind
  BY <1>8 DEF NetFind, LookUp, SioTypes, OpenInv
<1>9. CASE NetErase
  BY <1>9 DEF NetErase, SioTypes, OpenInv
<1>10. CASE AfterClose
  <2>1. net = "closed" /\ net' = "idle" /\ cl.con # "opened" /\ redo = "none"
        /\ cl.ws = "none" /\ cl.thread = "running" /\ UNCHANGED <<br, main>>
    BY <1>10 DEF AfterClose, OpenInv
  <2>2. CASE ~cl.normal /\ Retries(cl)
    <3>1. cl' = [cl EXCEPT !.retry = TRUE] /\ redo' = "none" /\ cl.attempts
      BY <1>10, <2>1, <2>2 DEF AfterClose, Retries
    <3>2. /\ cl'.ws = "none" /\ cl'.thread = "running" /\ cl'.con # "opened"
          /\ cl'.attempts = cl.attempts
      BY <2>1, <3>1 DEF SioTypes, ClientType
    <3>3. br.listen /\ ~br.connected
      BY <2>1, <3>1 DEF OpenInv
    <3> QED
      BY <2>1, <3>1, <3>2, <3>3 DEF OpenInv
  <2>3. CASE ~(~cl.normal /\ Retries(cl))
    <3>1. cl' = [cl EXCEPT !.retry = FALSE] /\ redo' \in {redo, "sleep"}
          /\ (redo' # "none" => br.listen)
      BY <1>10, <2>1, <2>3 DEF AfterClose
    <3>2. /\ cl'.ws = "none" /\ cl'.thread = "running" /\ cl'.con # "opened"
          /\ cl'.attempts = cl.attempts /\ ~cl'.retry
      BY <2>1, <3>1 DEF SioTypes, ClientType
    <3> QED
      BY <2>1, <3>1, <3>2 DEF OpenInv
  <2> QED
    BY <2>2, <2>3
<1>11. CASE RetryTest
  BY <1>11 DEF RetryTest, SioTypes, OpenInv, ClientType
<1>12. CASE RetryConnect
  BY <1>12 DEF RetryConnect, Connecting, SioTypes, OpenInv, ClientType, PastType
<1>13. CASE RunEnds
  BY <1>13 DEF RunEnds, SioTypes, OpenInv, ClientType
<1>14. CASE RedoWake
  BY <1>14, ConnectedType DEF RedoWake, SioTypes, OpenInv, ClientType
<1>15. CASE RedoJoin
  BY <1>15, ConnectedType DEF RedoJoin, SioTypes, OpenInv, ClientType
<1>16. CASE Accepted
  BY <1>16 DEF Accepted, Late, SioTypes, OpenInv, SocketType, BridgeType, PastType
<1>17. CASE ServerDisconnects
  BY <1>17 DEF ServerDisconnects, SocketGone, NoSocket, SioTypes, OpenInv, SocketType, PastType
<1>18. CASE SocketTimeout
  BY <1>18 DEF SocketTimeout, SocketGone, NoSocket, SioTypes, OpenInv, SocketType, PastType
<1>19. CASE PeerComes
  BY <1>19 DEF PeerComes, SioTypes, OpenInv
<1>20. CASE PeerGoes
  BY <1>20 DEF PeerGoes, SioTypes, OpenInv
<1>21. CASE EmitCheck
  BY <1>21 DEF EmitCheck, NoEmit, SioTypes, OpenInv, EmitType, PastType
<1>22. CASE EmitTest
  BY <1>22, SocketOfType DEF EmitTest, SioTypes, OpenInv, SocketType, EmitType
<1>23. CASE EmitDo
  BY <1>23 DEF EmitDo, Packet, Late, NoEmit, SioTypes, OpenInv, SocketType, EmitType, PastType
<1>24. CASE ShutMark
  BY <1>24 DEF ShutMark, SioTypes, OpenInv, BridgeType
<1>25. CASE ShutFind
  BY <1>25 DEF ShutFind, LookUp, SioTypes, OpenInv
<1>26. CASE ShutErase
  BY <1>26 DEF ShutErase, SioTypes, OpenInv
<1>27. CASE ShutClose
  BY <1>27, CloseType DEF ShutClose, SioTypes, OpenInv, ClientType, SocketType, BridgeType
<1>28. CASE ShutJoin
  BY <1>28 DEF ShutJoin, SioTypes, OpenInv, ClientType
<1>29. CASE PeersCleaned
  BY <1>29 DEF PeersCleaned, SioTypes, OpenInv
<1>30. ASSUME NEW normal \in BOOLEAN, Drop(normal)
      PROVE  OpenInv'
  BY <1>30 DEF Drop, SioTypes, OpenInv, ClientType, SocketType, BridgeType, EmitType, PastType
<1> QED
  BY <1>1, <1>2, <1>3, <1>4, <1>5, <1>6, <1>7, <1>8, <1>9, <1>10, <1>11, <1>12, <1>13, <1>14, <1>15, <1>16, <1>17, <1>18, <1>19, <1>20, <1>21, <1>22, <1>23, <1>24, <1>25, <1>26, <1>27, <1>28, <1>29, <1>30
  DEF Sio, Handlers, Environment, Redo, Emits, Shutdown

\* A packet grows stale in the queue only after the client was shut down, and
\* the queue of such a client is never flushed.
LEMMA EmitKept == ASSUME RegInv, ConnInv, Sio PROVE EmitInv'
<1> USE DEF ConnInv, RegInv, ThreadInv, SessionInv, Running, Fault
<1>1. CASE Connect
  BY <1>1, ConnectedType DEF Connect, SioTypes, OpenInv, EmitInv, Finished, ClientType
<1>2. CASE OnOpen
  <2>1. /\ cl.ws = "opening" /\ ~br.connected
        /\ UNCHANGED <<br, net, redo, emitter>>
    BY <1>2 DEF OnOpen, OpenInv
  <2>2. CASE cl.con = "closing"
    <3>1. past' = past /\ sk'.queue = sk.queue
      BY <1>2, <2>2, CloseType DEF OnOpen, SioTypes
    <3> QED
      BY <2>1, <3>1 DEF EmitInv, Finished
  <2>3. CASE cl.con # "closing"
    <3> DEFINE s == SocketOf(sk)
    <3>1. /\ sk' = [s EXCEPT !.timer = "connect", !.bound = @ \/ br.listen]
          /\ past' = [past EXCEPT !.session = @ + 1, !.gone = FALSE]
      BY <1>2, <2>3 DEF OnOpen
    <3>2. s \in SocketType /\ s.queue \subseteq sk.queue
      BY SocketOfType DEF SioTypes
    <3> HIDE DEF s
    <3>3. sk'.queue \subseteq sk.queue
      BY <3>1, <3>2 DEF SocketType
    <3>4. past'.late = past.late /\ emitter.made # past'.session
      BY <3>1 DEF SioTypes, PastType
    <3> QED
      BY <2>1, <3>3, <3>4 DEF EmitInv, Finished
  <2> QED
    BY <2>2, <2>3
<1>3. CASE OnFail
  BY <1>3, CloseType, OnDisconnectType
  DEF OnFail, Retries, SioTypes, OpenInv, EmitInv, Finished, ClientType, SocketType, PastType
<1>4. CASE FallSilent
  BY <1>4 DEF FallSilent, SioTypes, OpenInv, EmitInv, Finished, ClientType, PastType
<1>5. CASE OnHandshake
  BY <1>5 DEF OnHandshake, SioTypes, OpenInv, EmitInv, Finished, ClientType
<1>6. CASE TimeoutPing
  BY <1>6 DEF TimeoutPing, SioTypes, OpenInv, EmitInv, Finished, ClientType
<1>7. CASE OnClose
  BY <1>7 DEF OnClose, SioTypes, OpenInv, EmitInv, Finished, ClientType, BridgeType, PastType
<1>8. CASE NetFind
  <2>1. UNCHANGED <<cl, sk, br, redo, emitter, past>> /\ (net' = net \/ net' = "erase")
    BY <1>8 DEF NetFind, LookUp
  <2> QED
    BY <1>8, <2>1 DEF NetFind, OpenInv, EmitInv, Finished
<1>9. CASE NetErase
  BY <1>9 DEF NetErase, SioTypes, OpenInv, EmitInv, Finished
<1>10. CASE AfterClose
  BY <1>10, SocketOfType, OnDisconnectType
  DEF AfterClose, Retries, SioTypes, OpenInv, EmitInv, Finished, ClientType, SocketType
<1>11. CASE RetryTest
  BY <1>11 DEF RetryTest, SioTypes, OpenInv, EmitInv, Finished, ClientType
<1>12. CASE RetryConnect
  BY <1>12 DEF RetryConnect, Connecting, SioTypes, OpenInv, EmitInv, Finished, ClientType, PastType
<1>13. CASE RunEnds
  BY <1>13 DEF RunEnds, SioTypes, OpenInv, EmitInv, Finished, ClientType
<1>14. CASE RedoWake
  BY <1>14, ConnectedType DEF RedoWake, SioTypes, OpenInv, EmitInv, Finished, ClientType
<1>15. CASE RedoJoin
  BY <1>15, ConnectedType DEF RedoJoin, SioTypes, OpenInv, EmitInv, Finished, ClientType
<1>16. CASE Accepted
  BY <1>16
  DEF Accepted, Late, SioTypes, OpenInv, EmitInv, Finished, SocketType, BridgeType, PastType
<1>17. CASE ServerDisconnects
  BY <1>17
  DEF ServerDisconnects, SocketGone, NoSocket, SioTypes, OpenInv, EmitInv, Finished, SocketType,
      PastType
<1>18. CASE SocketTimeout
  BY <1>18
  DEF SocketTimeout, SocketGone, NoSocket, SioTypes, OpenInv, EmitInv, Finished, SocketType,
      PastType
<1>19. CASE PeerComes
  BY <1>19 DEF PeerComes, SioTypes, OpenInv, EmitInv, Finished
<1>20. CASE PeerGoes
  BY <1>20 DEF PeerGoes, SioTypes, OpenInv, EmitInv, Finished
<1>21. CASE EmitCheck
  BY <1>21 DEF EmitCheck, NoEmit, SioTypes, OpenInv, EmitInv, Finished, EmitType, PastType
<1>22. CASE EmitTest
  BY <1>22, SocketOfType DEF EmitTest, SioTypes, OpenInv, EmitInv, Finished, SocketType, EmitType
<1>23. CASE EmitDo
  BY <1>23
  DEF EmitDo, Packet, Late, NoEmit, SioTypes, OpenInv, EmitInv, Finished, Packets, SocketType,
      EmitType, PastType
<1>24. CASE ShutMark
  BY <1>24 DEF ShutMark, SioTypes, OpenInv, EmitInv, Finished, BridgeType
<1>25. CASE ShutFind
  BY <1>25 DEF ShutFind, LookUp, SioTypes, OpenInv, EmitInv, Finished
<1>26. CASE ShutErase
  BY <1>26 DEF ShutErase, SioTypes, OpenInv, EmitInv, Finished
<1>27. CASE ShutClose
  BY <1>27, CloseType
  DEF ShutClose, SioTypes, OpenInv, EmitInv, Finished, ClientType, SocketType, BridgeType
<1>28. CASE ShutJoin
  BY <1>28 DEF ShutJoin, SioTypes, OpenInv, EmitInv, Finished, ClientType
<1>29. CASE PeersCleaned
  BY <1>29 DEF PeersCleaned, SioTypes, OpenInv, EmitInv, Finished
<1>30. ASSUME NEW normal \in BOOLEAN, Drop(normal)
      PROVE  EmitInv'
  BY <1>30
  DEF Drop, SioTypes, OpenInv, EmitInv, Finished, Packets, ClientType, SocketType, BridgeType,
      EmitType, PastType
<1> QED
  BY <1>1, <1>2, <1>3, <1>4, <1>5, <1>6, <1>7, <1>8, <1>9, <1>10, <1>11, <1>12, <1>13, <1>14, <1>15, <1>16, <1>17, <1>18, <1>19, <1>20, <1>21, <1>22, <1>23, <1>24, <1>25, <1>26, <1>27, <1>28, <1>29, <1>30
  DEF Sio, Handlers, Environment, Redo, Emits, Shutdown

LEMMA ConnInitial == Init => ConnInv
<1> SUFFICES ASSUME Init PROVE ConnInv
  OBVIOUS
<1> USE DEF Init, SioInit, NoClient, NoSocket, NoBridge, NoEmit
<1>1. SioTypes
  <2>1. cl \in ClientType /\ br \in BridgeType
    BY DEF ClientType, BridgeType
  <2>2. sk \in SocketType
    BY DEF SocketType
  <2>3. emitter \in EmitType
    BY DEF EmitType
  <2>4. past \in PastType
    BY DEF PastType
  <2>5. /\ net = "idle" /\ redo = "none" /\ peerUp \in BOOLEAN
        /\ sk.born = 0 /\ sk.queue = {} /\ emitter.made = 0 /\ past.session = 0
    OBVIOUS
  <2> HIDE DEF Init, SioInit, NoClient, NoSocket, NoBridge, NoEmit
  <2>6. /\ sk.born <= past.session /\ emitter.made <= past.session
        /\ \A x \in sk.queue : x.made <= x.put /\ x.put <= past.session
    BY <2>5
  <2> QED
    BY <2>1, <2>2, <2>3, <2>4, <2>5, <2>6 DEF SioTypes
<1>2. OpenInv
  BY DEF OpenInv
<1>3. EmitInv
  BY DEF EmitInv
<1> QED
  BY <1>1, <1>2, <1>3 DEF ConnInv

\* Beside the connection's own steps, only Setup touches its state.
LEMMA ConnKept == ASSUME RegInv, ConnInv, [Next]_vars PROVE ConnInv'
<1>1. CASE Sio
  BY <1>1, SioTyped, OpenKept, EmitKept DEF ConnInv
<1>2. ASSUME UNCHANGED sioVars, main' = main \/ main \notin {"join", "peers", "done"}
      PROVE  ConnInv'
  BY <1>2 DEF sioVars, ConnInv, SioTypes, OpenInv, EmitInv, Finished
<1>3. CASE Setup
  <2>1. PICK s \in Scenarios : past' = [past EXCEPT !.faults = s.faults, !.emits = s.emits]
    BY <1>3 DEF Setup
  <2>2. s.faults \in Nat /\ s.emits \in Nat
    BY <2>1, ScenariosAssumption
  <2>3. past' \in PastType /\ past'.session = past.session
        /\ past'.late = past.late /\ past'.gone = past.gone
    BY <2>1, <2>2 DEF ConnInv, SioTypes, PastType
  <2>4. main = "packages" /\ UNCHANGED <<cl, sk, br, net, redo, peerUp, emitter>>
    BY <1>3 DEF Setup
  <2> QED
    BY <2>3, <2>4 DEF ConnInv, SioTypes, OpenInv, EmitInv, Finished
<1>4. CASE CheckPackages \/ Interrupt \/ DataFlash
  BY <1>2, <1>4 DEF CheckPackages, upVars, Interrupt, DataFlash
<1>5. CASE Status
  <2>1. UNCHANGED sioVars
    BY <1>5 DEF Status, ClearLeds
  <2>2. UNCHANGED main \/ main \in {"ledstop", "ledconn", "leddata"}
    BY <1>5 DEF Status, ClearLeds, ClearStop, ClearConn, ClearData, Clear, LedLoop,
                LoopTest, LoopRead, LoopSkip, LoopWrite
  <2> QED
    BY <1>2, <2>1, <2>2
<1>6. CASE UNCHANGED vars
  BY <1>2, <1>6 DEF vars
<1> QED
  BY <1>1, <1>3, <1>4, <1>5, <1>6 DEF Next

LEMMA ConnCorrect == Spec => [](RegInv /\ ConnInv)
<1> QED
  BY RegInitial, RegKept, ConnInitial, ConnKept, PTL DEF Spec

\* A packet goes out in the session its emit looked at, unless the session
\* ended between two steps of the emit, or the packet waited on a socket made
\* after the namespace was closed (BridgeSocket::emit, socket::emit and
\* socket::on_connected).
THEOREM LateCorrect == Spec => []LateOnlyIfRaced
<1>1. ConnInv => LateOnlyIfRaced
  BY DEF ConnInv, EmitInv, LateOnlyIfRaced
<1> QED
  BY <1>1, ConnCorrect, PTL

-----------------------------------------------------------------------------
(* The status LEDs, and the types of the whole process                      *)

LedType == [have: SUBSET Leds, gpio: BOOLEAN, inst: BOOLEAN, mode: [Leds -> Modes],
            lit: [Leds -> BOOLEAN], released: SUBSET Leds]
LoopType == [running: BOOLEAN, at: {"none", "test", "read", "write", "ended"},
             l: Leds, v: BOOLEAN, off: BOOLEAN]

LEMMA NoneTyped == NoLeds \in LedType /\ NoLoop \in LoopType
<1>1. [l \in Leds |-> "off"] \in [Leds -> Modes]
  BY DEF Modes
<1>2. [l \in Leds |-> FALSE] \in [Leds -> BOOLEAN]
  OBVIOUS
<1>3. NoLeds \in LedType
  BY <1>1, <1>2 DEF NoLeds, LedType
<1>4. NoLoop \in LoopType
  BY DEF NoLoop, LoopType, Leds
<1> QED
  BY <1>3, <1>4

LEMMA ShowTyped ==
    ASSUME LedTypeOK, NEW l \in Leds, NEW m \in Modes, led' = Show(l, m), loop' = loop
    PROVE  LedTypeOK'
<1> QED
  BY DEF LedTypeOK, Show

LEMMA LedsTyped == ASSUME LedTypeOK, [Next]_vars PROVE LedTypeOK'
<1>1. CASE UNCHANGED ledVars
  BY <1>1 DEF ledVars, LedTypeOK
<1>2. CASE Connect \/ Accepted \/ OnClose \/ DataFlash
  <2>1. /\ loop' = loop
        /\ led' = led \/ \E l \in Leds, m \in Modes : led' = Show(l, m)
    BY <1>2 DEF Connect, Accepted, OnClose, DataFlash, Leds, Modes
  <2> QED
    BY <1>1, <2>1, ShowTyped DEF ledVars
<1>3. CASE Setup
  <2>1. PICK s \in Scenarios : LedsInit(s.have, s.gpio)
    BY <1>3 DEF Setup
  <2>2. s.have \in SUBSET Leds /\ s.gpio \in BOOLEAN
    BY ScenariosAssumption
  <2>3. led' = [NoLeds EXCEPT !.have = s.have, !.gpio = s.gpio, !.inst = TRUE]
        /\ loop' \in {NoLoop, [NoLoop EXCEPT !.running = TRUE, !.at = "test"]}
    BY <2>1 DEF LedsInit
  <2>4. led' \in LedType
    BY <2>2, <2>3, NoneTyped DEF LedType
  <2>5. loop' \in LoopType
    BY <2>3, NoneTyped DEF LoopType
  <2> QED
    BY <2>4, <2>5 DEF LedTypeOK, LedType, LoopType
<1>4. CASE LedLoop
  <2> USE DEF Advance, Leds
  <2>1. CASE LoopTest
    BY <2>1 DEF LoopTest, LedTypeOK, FirstLed
  <2>2. CASE LoopRead
    BY <2>2 DEF LoopRead, LedTypeOK, MayWrite, Modes
  <2>3. CASE LoopSkip
    BY <2>3 DEF LoopSkip, LedTypeOK
  <2>4. CASE LoopWrite
    <3>1. CASE led.gpio /\ loop.l \in led.released
      BY <1>1, <2>4, <3>1 DEF LoopWrite
    <3>2. CASE ~(led.gpio /\ loop.l \in led.released)
      <4> DEFINE mode == IF loop.off THEN "off" ELSE led.mode[loop.l]
      <4>1. mode \in Modes
        BY DEF LedTypeOK, Modes
      <4>2. led' = [led EXCEPT !.lit[loop.l] = loop.v, !.mode[loop.l] = mode]
            /\ loop' = Advance(loop)
        BY <2>4, <3>2 DEF LoopWrite
      <4> HIDE DEF mode
      <4> QED
        BY <4>1, <4>2 DEF LedTypeOK
    <3> QED
      BY <3>1, <3>2
  <2> QED
    BY <1>4, <2>1, <2>2, <2>3, <2>4 DEF LedLoop
<1>5. CASE ClearLeds
  <2>1. CASE ClearStop
    BY <2>1 DEF ClearStop, LedTypeOK
  <2>2. ASSUME NEW l \in Leds, NEW next, Clear(l, next)
        PROVE  LedTypeOK'
    <3>1. CASE l \notin led.have
      BY <1>1, <2>2, <3>1 DEF Clear, ledVars
    <3>2. CASE l \in led.have
      <4> DEFINE inst == l = "conn"
      <4>1. inst \in BOOLEAN
        OBVIOUS
      <4>2. loop' = loop
            /\ led' = [led EXCEPT !.lit[l] = FALSE, !.released = @ \cup {l}, !.inst = inst]
        BY <2>2, <3>2 DEF Clear
      <4> HIDE DEF inst
      <4> QED
        BY <4>1, <4>2 DEF LedTypeOK
    <3> QED
      BY <3>1, <3>2
  <2> QED
    BY <1>5, <2>1, <2>2 DEF ClearLeds, ClearConn, ClearData, Leds
<1>6. ASSUME Sio, ~Connect, ~Accepted, ~OnClose
      PROVE  UNCHANGED ledVars
  BY <1>6 DEF Sio, Handlers, Environment, Redo, Emits, Shutdown,
     OnOpen, OnFail, Drop, FallSilent, OnHandshake, TimeoutPing, NetFind, NetErase,
     AfterClose, RetryTest, RetryConnect, RunEnds, RedoWake, RedoJoin,
     ServerDisconnects, SocketTimeout, PeerComes, PeerGoes, EmitCheck, EmitTest,
     EmitDo, ShutMark, ShutFind, ShutErase, ShutClose, ShutJoin, PeersCleaned
<1>7. CASE CheckPackages \/ Interrupt \/ UNCHANGED vars
  BY <1>1, <1>7 DEF CheckPackages, Interrupt, upVars, vars, ledVars
<1> QED
  BY <1>1, <1>2, <1>3, <1>4, <1>5, <1>6, <1>7 DEF Next, Status

\* The state of main(), the LEDs, the connection and the packages keeps its
\* types: among them that a websocket the client holds exists, that a reconnect
\* timer has its network thread, and that a queued packet was put no earlier
\* than its emit looked at the connection, and in no session yet to come.
THEOREM ProcessTypeCorrect == Spec => []TypeOK
<1>1. PkgInv => PkgTypeOK
  BY DEF PkgInv, PkgTypes, BootType, DiskType, PkgTypeOK
<1>2. RegInv /\ ConnInv => SioTypeOK
  BY Counted DEF RegInv, ThreadInv, ConnInv, SioTypes, OpenInv, ClientType, SocketType,
                 BridgeType, SioTypeOK
<1>3. Init => LedTypeOK
  BY NoneTyped DEF Init, LedTypeOK, LedType, LoopType
<1> QED
  BY <1>1, <1>2, <1>3, LedsTyped, PkgCorrect, ConnCorrect, PTL DEF Spec, TypeOK
=============================================================================
