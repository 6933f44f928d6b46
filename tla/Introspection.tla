--------------------------- MODULE Introspection ---------------------------
(***************************************************************************)
(* Discovery of the ROS graph (src/introspection.cpp): the main thread looks *)
(* at the graph when a timer fires, piece by piece, while the graph changes; *)
(* it keeps what it found in maps and tells the cloud of changes.  The       *)
(* Socket.IO thread starts and stops discovery and, when the connection is   *)
(* ready, reports everything again, from the same maps and with no lock.     *)
(*                                                                           *)
(* The main thread spins one callback at a time (phntm_bridge.cpp calls      *)
(* spin_once), so two runs never overlap.  Several endpoints of a node with  *)
(* the same topic and QoS are one; names of nodes are distinct.              *)
(***************************************************************************)
EXTENDS Naturals, FiniteSets, Functions

CONSTANTS Nodes, Topics, Services, Types, Qos, Hosts, Containers,
          Shapes,      \* what a node may offer: its pubs, subs and services
          Clash,       \* pairs of publisher's and subscriber's QoS that do not match
          Hidden,      \* blacklisted topics, services and their types
          NoIdl,       \* types blacklisted or without an IDL file
          Includes,    \* the types that the IDL of each type includes, with theirs
          FileRequest, \* the type of the agents' file extraction service
          Byte,        \* the type whose IDL is always loaded
          Scenarios    \* graphs to begin with, and bounds: changes of the graph, failed queries, requests and
                       \* drops from the cloud, messages of the Docker monitor;
                       \* whether discovery ends by itself

Endpoints == [topic : Topics, type : Types, qos : Qos]
NodeInfo == [pubs : SUBSET Endpoints, subs : SUBSET Endpoints,
             services : SUBSET (Services \X Types)]

ASSUME GraphAssumption ==
    /\ Shapes \subseteq NodeInfo
    /\ \A s \in Shapes :         \* a node's services are a map, with the first type of each
         IsFiniteSet(s.services) /\ \A a, b \in s.services : a[1] = b[1] => a = b
    /\ Clash \subseteq Qos \X Qos /\ NoIdl \subseteq Types
    /\ Includes \in [Types -> SUBSET Types]
    /\ {FileRequest, Byte} \subseteq Types
    /\ \A s \in Scenarios : s.start \in [DOMAIN s.start -> Shapes] /\ DOMAIN s.start \subseteq Nodes
    /\ \A s \in Scenarios : [s EXCEPT !.start = <<>>] \in
                           [start : {<<>>}, changes : Nat, faults : Nat, requests : Nat, docker : Nat,
                            ends : BOOLEAN]

VARIABLES
    graph,    \* the ROS graph: what each node that is up offers
    scene,    \* the scenario, with what is left of its bounds
    on,       \* running
    busy,     \* introspection_in_progress
    timer,    \* the timer exists and is not cancelled
    run,      \* where runIntrospection is, what it has still to look at, what it
              \* found, and its four flags
    view,     \* discovered_nodes
    known,    \* discovered_topics, with their types
    idls,     \* discovered_idls
    agents,   \* nodes with a client in discovered_file_extractors
    docker,   \* discovered_docker_containers: the containers of each host
    call,     \* per thread: start(), stop() or report() under way
    up,       \* connected
    cloud,    \* what the cloud was last told, and the topics peers were told of
    lost,     \* history: a change of the nodes was found and forgotten
    late,     \* history: a report of the nodes was sent after a newer one
    crossed   \* history: a start fell into a stop of the other thread
maps == <<view, known, idls, agents>>
flow == <<on, busy, timer, call, crossed>>
out == <<cloud, lost, late>>
vars == <<graph, scene, flow, run, maps, docker, up, out>>

NoInfo == [pubs |-> {}, subs |-> {}, services |-> {}]
NoRun == [at |-> "idle", types |-> <<>>, left |-> {}, nodes |-> {}, pubs |-> {},
          subs |-> {}, flags |-> {}, msg |-> <<>>]
NoCall == [op |-> "", at |-> 0, msg |-> <<>>, newer |-> FALSE]

\* A node's endpoint, found by a run; a subscription with the result of its
\* QoS check.
Found == [node : Nodes, topic : Topics, type : Types, qos : Qos]
Of(n, found) == {[topic |-> e.topic, type |-> e.type, qos |-> e.qos] :
                     e \in {f \in found : f.node = n}}
Plain(subs) == {[topic |-> s.topic, type |-> s.type, qos |-> s.qos] : s \in subs}
WithoutChecks(v) == [n \in DOMAIN v |-> [v[n] EXCEPT !.subs = Plain(@)]]

TypeOK ==
    /\ DOMAIN graph \subseteq Nodes /\ \A n \in DOMAIN graph : graph[n] \in Shapes
    /\ {on, busy, timer, up, lost, late, crossed} \subseteq BOOLEAN
    /\ run.at \in {"idle", "topics", "pubs", "subs", "services",
                   "build", "emit", "peers"}
    /\ run.pubs \cup run.subs \subseteq Found
    /\ run.flags \subseteq {"nodes", "topics", "idls", "services"}
    /\ DOMAIN view \subseteq Nodes /\ agents \subseteq DOMAIN view
    /\ \A n \in DOMAIN view :
         /\ view[n].pubs \subseteq Endpoints /\ Plain(view[n].subs) \subseteq Endpoints
         /\ IsFiniteSet(view[n].services)
         /\ \A a, b \in view[n].services : a[1] = b[1] => a = b
    /\ known \in [DOMAIN known -> Types] /\ DOMAIN known \subseteq Topics \ Hidden
    /\ idls \subseteq Types \ NoIdl
    /\ docker \in [DOMAIN docker -> SUBSET Containers] /\ DOMAIN docker \subseteq Hosts
    /\ \A th \in {"main", "sio"} : call[th].op \in {"", "start", "stop", "report"}

Init ==
    /\ scene \in Scenarios
    /\ graph = scene.start /\ run = NoRun
    /\ view = <<>> /\ known = <<>> /\ idls = {} /\ agents = {} /\ docker = <<>>
    /\ on = FALSE /\ busy = FALSE /\ timer = FALSE /\ up = FALSE
    /\ call = [th \in {"main", "sio"} |->
                 IF th = "main" THEN [NoCall EXCEPT !.op = "start", !.at = 1] ELSE NoCall]
    /\ cloud = [nodes |-> <<>>, idls |-> {}, docker |-> <<>>, on |-> FALSE, peers |-> {}]
    /\ lost = FALSE /\ late = FALSE /\ crossed = FALSE

\* BridgeSocket::emit: nothing, while the socket is not connected.
Told(what, value) == IF up THEN [cloud EXCEPT ![what] = value] ELSE cloud

Spend(what) == scene[what] > 0 /\ scene' = [scene EXCEPT ![what] = @ - 1]
Fails == Spend("faults")
MainFree == call["main"].op = "" /\ run.at = "idle"

----------------------------------------------------------------------------
\* The ROS graph.
NodeUp(n, shape) ==
    /\ Spend("changes") /\ n \notin DOMAIN graph
    /\ graph' = [m \in DOMAIN graph \cup {n} |-> IF m = n THEN shape ELSE graph[m]]
    /\ UNCHANGED <<flow, run, maps, docker, up, out>>

NodeChanges(n, shape) ==
    /\ Spend("changes") /\ n \in DOMAIN graph /\ graph[n] # shape
    /\ graph' = [graph EXCEPT ![n] = shape]
    /\ UNCHANGED <<flow, run, maps, docker, up, out>>

NodeDown(n) ==
    /\ Spend("changes") /\ n \in DOMAIN graph
    /\ graph' = Restrict(graph, DOMAIN graph \ {n})
    /\ UNCHANGED <<flow, run, maps, docker, up, out>>

Ends(t) == UNION {{e \in graph[n].pubs \cup graph[n].subs : e.topic = t} : n \in DOMAIN graph}
Alive == {t \in Topics : Ends(t) # {}}

----------------------------------------------------------------------------
\* Mutant: the clients of lost nodes stay.
RunBeginKeepsClients ==
    /\ MainFree /\ timer /\ on /\ ~busy
    /\ LET seen == DOMAIN graph
           was == DOMAIN view
       IN  /\ view' = [n \in seen |-> IF n \in was THEN view[n] ELSE NoInfo]
           /\ UNCHANGED agents
           /\ run' = [NoRun EXCEPT !.at = "topics", !.nodes = seen,
                                   !.flags = IF seen # was THEN {"nodes"} ELSE {}]
    /\ busy' = TRUE
    /\ UNCHANGED <<graph, scene, on, timer, call, crossed, known, idls, docker, up, out>>

\* runIntrospection.  Nodes no longer seen are dropped, with their clients.
RunBegin ==
    /\ MainFree /\ timer /\ on /\ ~busy
    /\ LET seen == DOMAIN graph
           was == DOMAIN view
       IN  /\ view' = [n \in seen |-> IF n \in was THEN view[n] ELSE NoInfo]
           /\ agents' = agents \cap seen
           /\ run' = [NoRun EXCEPT !.at = "topics", !.nodes = seen,
                                   !.flags = IF seen # was THEN {"nodes"} ELSE {}]
    /\ busy' = TRUE
    /\ UNCHANGED <<graph, scene, on, timer, call, crossed, known, idls, docker, up, out>>

\* The nodes cannot be had: nothing was changed yet.
RunBeginFails ==
    /\ MainFree /\ timer /\ on /\ ~busy /\ Fails
    /\ busy' = FALSE
    /\ UNCHANGED <<graph, on, timer, call, crossed, run, maps, docker, up, out>>

\* Mutant: the early return leaves the flag set.
RunTopicsFailBusy ==
    /\ run.at = "topics" /\ Fails
    /\ UNCHANGED busy /\ run' = NoRun
    /\ lost' = (lost \/ "nodes" \in run.flags)
    /\ UNCHANGED <<graph, on, timer, call, crossed, maps, docker, up, cloud, late>>

\* The topics cannot be had: what was found of the nodes is kept, and that it
\* changed is forgotten.
RunTopicsFail ==
    /\ run.at = "topics" /\ Fails
    /\ busy' = FALSE /\ run' = NoRun
    /\ lost' = (lost \/ "nodes" \in run.flags)
    /\ UNCHANGED <<graph, on, timer, call, crossed, maps, docker, up, cloud, late>>

\* collectIDLs: an IDL and all it includes, as far as they are not loaded,
\* blacklisted or missing.
Loads(types) ==
    LET top == types \ (NoIdl \cup idls)
    IN  (top \cup UNION {Includes[t] : t \in top}) \ NoIdl

\* A new topic is kept with the first type it is seen with.
RunTopics ==
    /\ run.at = "topics"
    /\ \E types \in {f \in [Alive -> Types] : \A t \in Alive : \E e \in Ends(t) : e.type = f[t]} :
         LET looked == {t \in Alive : t \notin Hidden /\ types[t] \notin Hidden}
             kept == DOMAIN known \cap Alive
             new == looked \ kept
             loads == Loads({types[t] : t \in new}) \ idls
         IN  /\ known' = [t \in kept \cup new |-> IF t \in kept THEN known[t] ELSE types[t]]
             /\ idls' = idls \cup loads
             /\ run' = [run EXCEPT !.at = "pubs", !.types = types, !.left = looked, !.flags =
                          @ \cup (IF DOMAIN known' # DOMAIN known THEN {"topics"} ELSE {})
                            \cup (IF loads # {} THEN {"idls"} ELSE {})]
    /\ UNCHANGED <<graph, scene, flow, view, agents, docker, up, out>>

\* The endpoints of one topic, on nodes that this run has seen; all are given
\* the topic's type.  If the query fails, the topic is passed over.
Seen(t, which) ==
    UNION {{[node |-> n, topic |-> t, type |-> run.types[t], qos |-> e.qos] :
               e \in {f \in graph[n][which] : f.topic = t}} :
           n \in run.nodes \cap DOMAIN graph}

RunPubs(t) ==
    /\ run.at = "pubs" /\ t \in run.left
    /\ run' = [run EXCEPT !.at = "subs", !.pubs = @ \cup Seen(t, "pubs"), !.msg = <<t>>]
    /\ UNCHANGED <<graph, scene, flow, maps, docker, up, out>>

RunSubs ==
    /\ run.at = "subs"
    /\ LET t == run.msg[1]
       IN  run' = [run EXCEPT !.at = "pubs", !.left = @ \ {t}, !.msg = <<>>,
                              !.subs = @ \cup Seen(t, "subs")]
    /\ UNCHANGED <<graph, scene, flow, maps, docker, up, out>>

RunEndsFail ==
    /\ Fails
    /\ \/ \E t \in run.left : run.at = "pubs" /\ run' = [run EXCEPT !.left = @ \ {t}]
       \/ run.at = "subs" /\ run' = [run EXCEPT !.at = "pubs", !.msg = <<>>,
                                                !.left = @ \ {run.msg[1]}]
    /\ UNCHANGED <<graph, flow, maps, docker, up, out>>

\* Mutant: checked against the publishers known so far.
BadBefore(s) ==
    \E n \in DOMAIN view : \E p \in view[n].pubs : p.topic = s.topic /\ <<p.qos, s.qos>> \in Clash

\* Each node's endpoints are replaced by those found.  The subscriptions of a
\* node where one changed are checked, against all publishers found, and those
\* of the other nodes are left with no error.
Bad(s) == \E p \in run.pubs : p.topic = s.topic /\ <<p.qos, s.qos>> \in Clash
Compared(v) ==
    [n \in DOMAIN v |->
        LET subs == Of(n, run.subs)
            checks == subs # Plain(v[n].subs)
        IN  [v[n] EXCEPT !.pubs = Of(n, run.pubs),
                         !.subs = {[topic |-> s.topic, type |-> s.type, qos |-> s.qos,
                                    bad |-> checks /\ Bad(s)] : s \in subs}]]

RunCompare ==
    /\ run.at = "pubs" /\ run.left = {}
    /\ view' = Compared(view)
    /\ idls' = idls \cup Loads({Byte})
    /\ run' = [run EXCEPT !.at = "services", !.left = run.nodes, !.flags =
                 @ \cup (IF WithoutChecks(view') # WithoutChecks(view) THEN {"nodes"} ELSE {})
                   \cup (IF idls' # idls THEN {"idls"} ELSE {})]
    /\ UNCHANGED <<graph, scene, flow, known, agents, docker, up, out>>

\* The services of one node: new ones and new types are kept, and no service
\* is dropped while its node is seen.
RunServices(n) ==
    /\ run.at = "services" /\ n \in run.left /\ n \in DOMAIN graph
    /\ LET shown == {s \in graph[n].services : s[1] \notin Hidden /\ s[2] \notin Hidden}
           new == shown \ view[n].services
           old == {s \in view[n].services : \A m \in new : m[1] # s[1]}
           loads == Loads({s[2] : s \in new}) \ idls
       IN  /\ view' = [view EXCEPT ![n].services = old \cup new]
           /\ agents' = agents \cup {m \in {n} : \E s \in graph[n].services : s[2] = FileRequest}
           /\ idls' = idls \cup loads
           /\ run' = [run EXCEPT !.left = @ \ {n}, !.flags =
                        @ \cup (IF new # {} THEN {"services"} ELSE {})
                          \cup (IF loads # {} THEN {"idls"} ELSE {})]
    /\ UNCHANGED <<graph, scene, flow, known, docker, up, out>>

RunServicesFail(n) ==
    /\ run.at = "services" /\ n \in run.left
    /\ IF n \in DOMAIN graph THEN Fails ELSE UNCHANGED scene
    /\ run' = [run EXCEPT !.left = @ \ {n}]
    /\ UNCHANGED <<graph, flow, maps, docker, up, out>>

\* Mutant: new services alone are not told.
RunIdlsNodesOnly ==
    /\ run.at = "services" /\ run.left = {}
    /\ cloud' = IF "idls" \in run.flags THEN Told("idls", idls) ELSE cloud
    /\ run' = [run EXCEPT !.at = IF run.flags \cap {"nodes", "topics"} = {}
                                 THEN "peers" ELSE "build"]
    /\ UNCHANGED <<graph, scene, flow, maps, docker, up, lost, late>>

\* What changed is told: the IDLs first.
RunIdls ==
    /\ run.at = "services" /\ run.left = {}
    /\ cloud' = IF "idls" \in run.flags THEN Told("idls", idls) ELSE cloud
    /\ run' = [run EXCEPT !.at = IF run.flags \cap {"nodes", "topics", "services"} = {}
                                 THEN "peers" ELSE "build"]
    /\ UNCHANGED <<graph, scene, flow, maps, docker, up, lost, late>>

\* reportNodes: the message is built, and sent.
RunBuild ==
    /\ run.at = "build"
    /\ run' = [run EXCEPT !.at = "emit", !.msg = WithoutChecks(view)]
    /\ UNCHANGED <<graph, scene, flow, maps, docker, up, out>>

RunEmit ==
    /\ run.at = "emit"
    /\ cloud' = Told("nodes", run.msg)
    /\ run' = [run EXCEPT !.at = "peers", !.msg = <<>>]
    /\ lost' = FALSE /\ late' = FALSE
    /\ call' = [call EXCEPT !["sio"].newer = (call["sio"].op = "report")]
    /\ UNCHANGED <<graph, scene, on, busy, timer, crossed, maps, docker, up>>

\* Rounds for all peers when the topics changed; discovery may end by itself.
RunEnd ==
    /\ run.at = "peers"
    /\ cloud' = [cloud EXCEPT !.peers = IF "topics" \in run.flags THEN DOMAIN known ELSE @]
    /\ run' = NoRun /\ busy' = FALSE
    /\ \/ UNCHANGED call
       \/ scene.ends /\ call' = [call EXCEPT !["main"] = [NoCall EXCEPT !.op = "stop", !.at = 1]]
    /\ UNCHANGED <<graph, scene, on, timer, crossed, maps, docker, up, lost, late>>

----------------------------------------------------------------------------
\* start(), stop() and report(), on either thread.
Other(th) == IF th = "main" THEN "sio" ELSE "main"
Moves(th, k) == call' = [call EXCEPT ![th].at = k]
Returns(th) == call' = [call EXCEPT ![th] = NoCall]
At(th, op, k) == call[th].op = op /\ call[th].at = k

Start1(th) ==
    /\ At(th, "start", 1)
    /\ IF on THEN Returns(th) /\ UNCHANGED <<on, crossed>>
       ELSE /\ on' = TRUE /\ Moves(th, 2)
            /\ crossed' = (crossed \/ call[Other(th)].op = "stop")
    /\ UNCHANGED <<graph, scene, busy, timer, run, maps, docker, up, out>>

Start2(th) ==
    /\ At(th, "start", 2) /\ Moves(th, 3)
    /\ cloud' = Told("on", on)
    /\ UNCHANGED <<graph, scene, on, busy, timer, crossed, run, maps, docker, up, lost, late>>

Start3(th) ==
    /\ At(th, "start", 3) /\ Returns(th)
    /\ busy' = FALSE /\ timer' = TRUE
    /\ UNCHANGED <<graph, scene, on, crossed, run, maps, docker, up, out>>

\* Mutant: the timer is cancelled and running stays set.
Stop1StillOn(th) ==
    /\ At(th, "stop", 1)
    /\ IF ~on THEN Returns(th) /\ UNCHANGED on
       ELSE UNCHANGED on /\ Moves(th, 2)
    /\ UNCHANGED <<graph, scene, busy, timer, crossed, run, maps, docker, up, out>>

Stop1(th) ==
    /\ At(th, "stop", 1)
    /\ IF ~on THEN Returns(th) /\ UNCHANGED on
       ELSE on' = FALSE /\ Moves(th, 2)
    /\ UNCHANGED <<graph, scene, busy, timer, crossed, run, maps, docker, up, out>>

Stop2(th) ==
    /\ At(th, "stop", 2) /\ Moves(th, 3)
    /\ timer' = FALSE
    /\ UNCHANGED <<graph, scene, on, busy, crossed, run, maps, docker, up, out>>

Stop3(th) ==
    /\ At(th, "stop", 3) /\ Returns(th)
    /\ cloud' = Told("on", on)
    /\ UNCHANGED <<graph, scene, on, busy, timer, crossed, run, maps, docker, up, lost, late>>

\* report(), as soon as the socket is open: IDLs, nodes, Docker, state.
Report ==
    /\ call["sio"].op = "report"
    /\ \/ /\ At("sio", "report", 1) /\ Moves("sio", 2)
          /\ cloud' = Told("idls", idls) /\ UNCHANGED <<lost, late>>
       \/ /\ At("sio", "report", 2)
          /\ call' = [call EXCEPT !["sio"].at = 3, !["sio"].msg = WithoutChecks(view),
                                  !["sio"].newer = FALSE]
          /\ UNCHANGED out
       \/ /\ At("sio", "report", 3)
          /\ call' = [call EXCEPT !["sio"].at = 4, !["sio"].msg = <<>>]
          /\ cloud' = Told("nodes", call["sio"].msg)
          /\ late' = call["sio"].newer
          /\ lost' = (lost /\ call["sio"].msg # WithoutChecks(view))
       \/ /\ At("sio", "report", 4) /\ Moves("sio", 5)
          /\ cloud' = Told("docker", docker) /\ UNCHANGED <<lost, late>>
       \/ /\ At("sio", "report", 5) /\ Returns("sio")
          /\ cloud' = Told("on", on) /\ UNCHANGED <<lost, late>>
    /\ UNCHANGED <<graph, scene, on, busy, timer, crossed, run, maps, docker, up>>

\* The Socket.IO thread: onSocketOpen, onDisconnected, onIntrospection.
Begins(th, op) == call' = [call EXCEPT ![th] = [NoCall EXCEPT !.op = op, !.at = 1]]

Opens ==
    /\ ~up /\ call["sio"].op = "" /\ up' = TRUE /\ Begins("sio", "report")
    /\ UNCHANGED <<graph, scene, on, busy, timer, crossed, run, maps, docker, out>>

Drops ==
    /\ up /\ call["sio"].op = "" /\ Spend("requests") /\ up' = FALSE
    /\ UNCHANGED <<graph, flow, run, maps, docker, out>>

Request ==
    /\ up /\ call["sio"].op = "" /\ Spend("requests")
    /\ \E op \in {"start", "stop"} : Begins("sio", op)
    /\ UNCHANGED <<graph, on, busy, timer, crossed, run, maps, docker, up, out>>

----------------------------------------------------------------------------
\* onDockerMonitorMessage, on the main thread.  When a new host reports a
\* container that others had, they are erased from the map under the loop that
\* goes through it, and which of them it still meets is anything.
DockerMessage(h, content) ==
    /\ MainFree /\ Spend("docker")
    /\ LET same == {g \in DOMAIN docker : docker[g] \cap content # {}}
           new == h \notin DOMAIN docker
           changed == IF new THEN TRUE ELSE docker[h] # content
       IN  \E gone \in SUBSET same :
             /\ (gone # {}) = (new /\ same # {})
             /\ docker' = [g \in (DOMAIN docker \ gone) \cup {h} |->
                             IF g = h THEN content ELSE docker[g]]
             /\ cloud' = IF changed THEN Told("docker", docker') ELSE cloud
             /\ IF changed /\ ~on THEN Begins("main", "start") ELSE UNCHANGED call
    /\ UNCHANGED <<graph, on, busy, timer, crossed, run, maps, up, lost, late>>

Run ==
    \/ RunBegin \/ RunBeginFails \/ RunTopics \/ RunTopicsFail
    \/ (\E t \in Topics : RunPubs(t)) \/ RunSubs \/ RunEndsFail
    \/ RunCompare \/ (\E n \in Nodes : RunServices(n) \/ RunServicesFail(n))
    \/ RunIdls \/ RunBuild \/ RunEmit \/ RunEnd
Calls(th) ==
    \/ Start1(th) \/ Start2(th) \/ Start3(th) \/ Stop1(th) \/ Stop2(th) \/ Stop3(th)
    \/ (th = "sio" /\ Report)
Environment ==
    \/ \E n \in Nodes : NodeDown(n) \/ \E shape \in Shapes : NodeUp(n, shape) \/ NodeChanges(n, shape)
    \/ Opens \/ Drops \/ Request
    \/ \E h \in Hosts, content \in SUBSET Containers : DockerMessage(h, content)

Next == Run \/ Calls("main") \/ Calls("sio") \/ Environment

\* The main thread spins its executor for ever, with a timer that fires again
\* and again, and the threads run.  Queries of the graph may fail only now and
\* then (the bound of Scenarios).
Spec == Init /\ [][Next]_vars
FairSpec == Spec /\ WF_vars(Run) /\ WF_vars(Calls("main")) /\ WF_vars(Calls("sio"))

----------------------------------------------------------------------------
Quiet == run.at = "idle" /\ \A th \in {"main", "sio"} : call[th].op = ""

\* When nothing is under way, everybody was told all that the maps hold: the
\* peers, whose rounds open what they wait for, and the cloud, unless a failed
\* query made a run forget what it had changed, or the socket's report was sent
\* after a run's that it was older than.
ChangesAreTold ==
    Quiet =>
        /\ cloud.peers = DOMAIN known
        /\ up => /\ cloud.nodes = WithoutChecks(view) \/ lost \/ late
                 /\ cloud.idls = idls /\ cloud.docker = docker /\ cloud.on = on

\* An error that a run reports against a subscription is due to a publisher
\* that this run found.
NoFalseAlarm ==
    run.at \in {"services", "build", "emit", "peers"} =>
        \A n \in DOMAIN view : \A s \in view[n].subs :
            s.bad => \E m \in DOMAIN view : \E p \in view[m].pubs :
                        p.topic = s.topic /\ <<p.qos, s.qos>> \in Clash

\* When discovery is on its timer runs, unless a start fell into a stop of the
\* other thread, which then cancels the new timer.
TimerWhenOn == Quiet /\ on => timer \/ crossed

\* While discovery stays on, with its timer, the maps come to hold the graph:
\* its nodes, their endpoints with the topics that are not blacklisted, and at
\* least their services.
Shown(n, which) ==
    {[topic |-> e.topic, qos |-> e.qos] :
        e \in {f \in graph[n][which] : f.topic \notin Hidden /\ f.type \notin Hidden}}
Topical(ends) == {[topic |-> e.topic, qos |-> e.qos] : e \in ends}
Matches ==
    /\ DOMAIN view = DOMAIN graph
    /\ \A n \in DOMAIN graph :
         /\ Topical(view[n].pubs) = Shown(n, "pubs") /\ Topical(view[n].subs) = Shown(n, "subs")
         /\ \A s \in graph[n].services :
              s[1] \notin Hidden /\ s[2] \notin Hidden => s \in view[n].services
GraphIsFound == <>[](on /\ timer) => <>[]Matches

\* An error stays with a subscription as long as a run finds nothing changed
\* (introspection.cpp:318, "copy on no change").
ErrorsKept == [][WithoutChecks(view') = WithoutChecks(view) => view' = view]_vars
============================================================================
