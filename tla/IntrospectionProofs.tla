------------------------ MODULE IntrospectionProofs ------------------------
(***************************************************************************)
(* Theorems of Introspection for any graph, any names and any order of the  *)
(* two threads: the timer, the alarms, the types of the maps, and what the   *)
(* cloud and the peers were told of them.                                    *)
(***************************************************************************)
EXTENDS Introspection, FiniteSetTheorems, TLAPS

Threads == {"main", "sio"}

-----------------------------------------------------------------------------
(* The timer                                                                *)

CallRecords ==
    /\ DOMAIN call = Threads
    /\ \A th \in Threads : DOMAIN call[th] = {"op", "at", "msg", "newer"}

\* Past the first step of a call.
Late(th, op) == call[th].op = op /\ call[th].at \in {2, 3}

\* A start that has set running makes the timer before it returns; a stop that
\* has begun finds running set again only by a start that fell into it.  The
\* main thread is in a run or in a call.
TimerInv ==
    /\ CallRecords
    /\ on /\ ~timer /\ ~crossed => Late("main", "start") \/ Late("sio", "start")
    /\ \A th \in Threads : Late(th, "stop") => ~on \/ crossed
    /\ run.at # "idle" => call["main"].op = ""

\* What the steps of a run share: they leave the timer alone, and only their
\* last one goes on to a call.
QuietRun ==
    /\ UNCHANGED <<on, timer, crossed, call>>
    /\ run'.at # "idle" => run.at # "idle" \/ call["main"].op = ""

LEMMA TimerInitial == Init => TimerInv
<1> SUFFICES ASSUME Init PROVE TimerInv
  OBVIOUS
<1>1. CallRecords
  BY DEF Init, CallRecords, Threads, NoCall
<1>2. ~on /\ ~timer /\ ~crossed /\ run.at = "idle"
  BY DEF Init, NoRun
<1>3. \A th \in Threads : call[th].op # "stop"
  BY DEF Init, Threads, NoCall
<1> QED
  BY <1>1, <1>2, <1>3 DEF TimerInv, Late

LEMMA TimerQuiet == ASSUME TimerInv, QuietRun PROVE TimerInv'
<1> QED
  BY DEF TimerInv, QuietRun, CallRecords, Threads, Late

LEMMA RunIsQuiet ==
    ASSUME TimerInv,
           \/ RunBegin \/ RunBeginFails \/ RunTopics \/ RunTopicsFail
           \/ (\E t \in Topics : RunPubs(t)) \/ RunSubs \/ RunEndsFail
           \/ RunCompare \/ (\E n \in Nodes : RunServices(n) \/ RunServicesFail(n))
           \/ RunIdls \/ RunBuild
    PROVE  QuietRun
<1> USE DEF QuietRun, flow, MainFree, NoRun
<1>1. CASE RunBegin
  BY <1>1 DEF RunBegin
<1>2. CASE RunBeginFails
  BY <1>2 DEF RunBeginFails
<1>3. CASE RunTopics
  BY <1>3 DEF RunTopics
<1>4. CASE RunTopicsFail
  BY <1>4 DEF RunTopicsFail
<1>5. ASSUME NEW t \in Topics, RunPubs(t)
      PROVE  QuietRun
  BY <1>5 DEF RunPubs
<1>6. CASE RunSubs
  BY <1>6 DEF RunSubs
<1>7. CASE RunEndsFail
  BY <1>7 DEF RunEndsFail
<1>8. CASE RunCompare
  BY <1>8 DEF RunCompare
<1>9. ASSUME NEW n \in Nodes, RunServices(n) \/ RunServicesFail(n)
      PROVE  QuietRun
  BY <1>9 DEF RunServices, RunServicesFail
<1>10. CASE RunIdls
  BY <1>10 DEF RunIdls
<1>11. CASE RunBuild
  BY <1>11 DEF RunBuild
<1> QED
  BY <1>1, <1>2, <1>3, <1>4, <1>5, <1>6, <1>7, <1>8, <1>9, <1>10, <1>11

LEMMA NotLate == 1 \notin {2, 3}
OBVIOUS

LEMMA NotSame == 2 # 3
OBVIOUS

LEMMA TimerInductive == ASSUME TimerInv, [Next]_vars PROVE TimerInv'
<1> USE DEF TimerInv, Threads, Late
<1>0. 1 \notin {2, 3}
  BY NotLate
<1>1. CASE Run
  <2>1. CASE RunEmit
    BY <1>1, <2>1 DEF RunEmit, CallRecords
  <2>2. CASE RunEnd
    <3>1. CallRecords'
      BY <1>1, <2>2 DEF RunEnd, NoRun, NoCall, CallRecords
    <3>2. run'.at = "idle" /\ UNCHANGED <<on, timer, crossed>> /\ call["main"].op = ""
      BY <2>2 DEF RunEnd, NoRun
    <3>3. [NoCall EXCEPT !.op = "stop", !.at = 1].at \notin {2, 3}
      BY <1>0 DEF NoCall
    <3>4. /\ call'["sio"] = call["sio"]
          /\ call'["main"] = call["main"] \/ call'["main"].at \notin {2, 3}
      BY <2>2, <3>3 DEF RunEnd, CallRecords
    <3> QED
      BY <3>1, <3>2, <3>4
  <2> QED
    BY <1>1, <2>1, <2>2, RunIsQuiet, TimerQuiet DEF Run
<1>2. ASSUME NEW th \in Threads, Calls(th)
      PROVE  TimerInv'
  <2> USE DEF At, Moves, Returns, NoCall, Other
  <2>1. CASE Start1(th)
    <3>1. CallRecords'
      BY <2>1 DEF Start1, CallRecords
    <3>2. /\ \A o \in Threads \ {th} : call'[o] = call[o]
          /\ call[th].op = "start" /\ run' = run
      BY <2>1 DEF Start1, CallRecords
    <3>3. CASE on
      <4>1. Returns(th) /\ on' = on /\ timer' = timer /\ crossed' = crossed
        BY <2>1, <3>3 DEF Start1
      <4>2. call'[th].op = ""
        BY <4>1 DEF CallRecords
      <4>3. call[th].at \notin {2, 3}
        BY <1>0, <2>1 DEF Start1
      <4> QED
        BY <3>1, <3>2, <4>1, <4>2, <4>3
    <3>4. CASE ~on
      <4>1. call'[th].op = "start" /\ call'[th].at = 2
        BY <2>1, <3>4 DEF Start1, CallRecords
      <4>2. \A o \in Threads \ {th} : call[o].op = "stop" => crossed'
        BY <2>1, <3>4 DEF Start1, CallRecords
      <4> QED
        BY <3>1, <3>2, <4>1, <4>2
    <3> QED
      BY <3>3, <3>4
  <2>2. CASE Start2(th)
    <3>1. CallRecords'
      BY <2>2 DEF Start2, CallRecords
    <3>2. /\ \A o \in Threads \ {th} : call'[o] = call[o]
          /\ call'[th].op = "start" /\ call'[th].at = 3
          /\ call[th].op = "start"
          /\ UNCHANGED <<on, timer, crossed, run>>
      BY <2>2 DEF Start2, CallRecords
    <3> QED
      BY <3>1, <3>2
  <2>3. CASE Start3(th)
    BY <2>3 DEF Start3, CallRecords
  <2>4. CASE Stop1(th)
    BY <2>4 DEF Stop1, CallRecords
  <2>5. CASE Stop2(th)
    BY <2>5 DEF Stop2, CallRecords
  <2>6. CASE Stop3(th)
    BY <2>6 DEF Stop3, CallRecords
  <2>7. CASE Report
    <3>1. CallRecords'
      BY <2>7 DEF Report, CallRecords
    <3>2. /\ call'["main"] = call["main"]
          /\ UNCHANGED <<on, timer, crossed, run>>
      BY <2>7 DEF Report, CallRecords
    <3>3. call["sio"].op = "report"
      BY <2>7 DEF Report
    <3>4. call'["sio"].op = "report" \/ call'["sio"].op = ""
      <4>1. \/ Returns("sio")
            \/ \E k \in Nat : Moves("sio", k)
            \/ call' = [call EXCEPT !["sio"].at = 3, !["sio"].msg = WithoutChecks(view),
                                    !["sio"].newer = FALSE]
            \/ call' = [call EXCEPT !["sio"].at = 4, !["sio"].msg = <<>>]
        BY <2>7 DEF Report
      <4>2. CASE Returns("sio")
        BY <4>2 DEF CallRecords
      <4>3. ASSUME NEW k \in Nat, Moves("sio", k)
            PROVE  call'["sio"].op = "report"
        BY <3>3, <4>3 DEF CallRecords
      <4>4. CASE call' = [call EXCEPT !["sio"].at = 3, !["sio"].msg = WithoutChecks(view),
                                      !["sio"].newer = FALSE]
        BY <3>3, <4>4 DEF CallRecords
      <4>5. CASE call' = [call EXCEPT !["sio"].at = 4, !["sio"].msg = <<>>]
        BY <3>3, <4>5 DEF CallRecords
      <4> QED
        BY <4>1, <4>2, <4>3, <4>4, <4>5
    <3> QED
      BY <3>1, <3>2, <3>3, <3>4
  <2> QED
    BY <1>2, <2>1, <2>2, <2>3, <2>4, <2>5, <2>6, <2>7 DEF Calls
<1>3. CASE Environment
  <2>1. ASSUME NEW n \in Nodes, NEW shape \in Shapes,
               NodeUp(n, shape) \/ NodeChanges(n, shape)
        PROVE  TimerInv'
    <3>1. UNCHANGED <<flow, run>>
      BY <2>1 DEF NodeUp, NodeChanges
    <3> QED
      BY <3>1 DEF flow, CallRecords
  <2>2. CASE Opens
    BY <2>2 DEF Opens, Begins, NoCall, CallRecords
  <2>3. CASE Drops
    BY <2>3 DEF Drops, flow, CallRecords
  <2>4. CASE Request
    <3>1. CallRecords'
      BY <2>4 DEF Request, Begins, NoCall, CallRecords
    <3>2. /\ call'["main"] = call["main"] /\ call["sio"].op = ""
          /\ call'["sio"].at \notin {2, 3}
          /\ UNCHANGED <<on, timer, crossed, run>>
      BY <1>0, <2>4 DEF Request, Begins, NoCall, CallRecords
    <3> QED
      BY <3>1, <3>2
  <2>5. ASSUME NEW h \in Hosts, NEW content \in SUBSET Containers, DockerMessage(h, content)
        PROVE  TimerInv'
    BY <2>5 DEF DockerMessage, MainFree, Begins, NoCall, CallRecords
  <2>6. ASSUME NEW n \in Nodes, NodeDown(n)
        PROVE  TimerInv'
    BY <2>6 DEF NodeDown, flow, CallRecords
  <2> QED
    BY <1>3, <2>1, <2>2, <2>3, <2>4, <2>5, <2>6 DEF Environment
<1>4. CASE UNCHANGED vars
  BY <1>4 DEF vars, flow, CallRecords
<1> QED
  BY <1>1, <1>2, <1>3, <1>4 DEF Next

\* While discovery is on and no call is under way its timer runs, unless a
\* start fell into a stop of the other thread (Introspection::start and stop).
THEOREM TimerCorrect == Spec => []TimerWhenOn
<1>1. TimerInv => TimerWhenOn
  BY DEF TimerInv, TimerWhenOn, Quiet, Threads, Late
<1> QED
  BY <1>1, TimerInitial, TimerInductive, PTL DEF Spec

-----------------------------------------------------------------------------
(* QoS errors                                                                *)

RunFields == {"at", "types", "left", "nodes", "pubs", "subs", "flags", "msg"}

\* The publishers that a run has found are on nodes that it has seen, and
\* those are the nodes it keeps.
FoundInv ==
    /\ DOMAIN run = RunFields
    /\ \A n \in DOMAIN view : DOMAIN view[n] = {"pubs", "subs", "services"}
    /\ run.at # "idle" => run.nodes = DOMAIN view
    /\ \A p \in run.pubs : p.node \in run.nodes

AlarmInv == FoundInv /\ NoFalseAlarm

\* Steps of a run that leave the nodes' endpoints and the publishers alone.
SameFindings ==
    /\ DOMAIN run' = RunFields
    /\ run'.nodes = run.nodes /\ run'.pubs = run.pubs
    /\ run'.at # "idle" => run.at # "idle"
    /\ run'.at \in {"services", "build", "emit", "peers"} =>
         run.at \in {"services", "build", "emit", "peers"}
    /\ DOMAIN view' = DOMAIN view
    /\ \A n \in DOMAIN view :
         /\ DOMAIN view'[n] = {"pubs", "subs", "services"}
         /\ view'[n].pubs = view[n].pubs /\ view'[n].subs = view[n].subs

LEMMA AlarmInitial == Init => AlarmInv
<1> QED
  BY DEF Init, AlarmInv, FoundInv, NoFalseAlarm, NoRun, RunFields

LEMMA AlarmSame == ASSUME AlarmInv, SameFindings PROVE AlarmInv'
<1>1. FoundInv'
  BY DEF AlarmInv, FoundInv, SameFindings
<1>2. NoFalseAlarm'
  BY DEF AlarmInv, NoFalseAlarm, SameFindings
<1> QED
  BY <1>1, <1>2 DEF AlarmInv

LEMMA AlarmEnds ==
    ASSUME AlarmInv, run' = NoRun, view' = view PROVE AlarmInv'
<1> QED
  BY DEF AlarmInv, FoundInv, NoFalseAlarm, NoRun, RunFields

LEMMA AlarmRun == ASSUME AlarmInv, Run PROVE AlarmInv'
<1> USE DEF maps
<1>1. CASE RunBegin
  <2>1. run' = [NoRun EXCEPT !.at = "topics", !.nodes = DOMAIN graph,
                             !.flags = IF DOMAIN graph # DOMAIN view THEN {"nodes"} ELSE {}]
    BY <1>1 DEF RunBegin
  <2>2. /\ run'.at = "topics" /\ run'.nodes = DOMAIN graph /\ run'.pubs = {}
        /\ DOMAIN run' = RunFields
    BY <2>1 DEF NoRun, RunFields
  <2>3. view' = [n \in DOMAIN graph |-> IF n \in DOMAIN view THEN view[n] ELSE NoInfo]
    BY <1>1 DEF RunBegin
  <2>4. FoundInv'
    BY <2>2, <2>3 DEF AlarmInv, FoundInv, NoInfo
  <2> QED
    BY <2>2, <2>4 DEF AlarmInv, NoFalseAlarm
<1>2. CASE RunBeginFails
  BY <1>2 DEF RunBeginFails, AlarmInv, FoundInv, NoFalseAlarm
<1>3. CASE RunTopicsFail \/ RunEnd
  BY <1>3, AlarmEnds DEF RunTopicsFail, RunEnd
<1>4. CASE RunTopics
  <2>1. SameFindings
    BY <1>4 DEF RunTopics, SameFindings, AlarmInv, FoundInv, RunFields
  <2> QED
    BY <2>1, AlarmSame
<1>5. ASSUME NEW t \in Topics, RunPubs(t)
      PROVE  AlarmInv'
  <2>1. /\ DOMAIN run' = RunFields /\ run'.nodes = run.nodes /\ run'.at = "subs"
        /\ run.at = "pubs" /\ run'.pubs = run.pubs \cup Seen(t, "pubs") /\ view' = view
    BY <1>5 DEF RunPubs, AlarmInv, FoundInv, RunFields
  <2>2. \A p \in Seen(t, "pubs") : p.node \in run.nodes
    BY DEF Seen
  <2>3. FoundInv'
    BY <2>1, <2>2 DEF AlarmInv, FoundInv
  <2> QED
    BY <2>1, <2>3 DEF AlarmInv, NoFalseAlarm
<1>6. CASE RunSubs \/ RunEndsFail
  <2>1. SameFindings
    BY <1>6 DEF RunSubs, RunEndsFail, SameFindings, AlarmInv, FoundInv, RunFields
  <2> QED
    BY <2>1, AlarmSame
<1>7. CASE RunCompare
  <2>1. /\ DOMAIN run' = RunFields /\ run'.nodes = run.nodes /\ run'.pubs = run.pubs
        /\ run.at = "pubs" /\ run'.at = "services" /\ view' = Compared(view)
    BY <1>7 DEF RunCompare, AlarmInv, FoundInv, RunFields
  <2>2. /\ DOMAIN view' = DOMAIN view
        /\ \A n \in DOMAIN view :
             /\ DOMAIN view'[n] = {"pubs", "subs", "services"}
             /\ view'[n].pubs = Of(n, run.pubs)
             /\ \A s \in view'[n].subs : s.bad => Bad(s)
    <3>1. DOMAIN view' = DOMAIN view
      BY <2>1 DEF Compared
    <3> SUFFICES ASSUME NEW n \in DOMAIN view
                 PROVE  /\ DOMAIN view'[n] = {"pubs", "subs", "services"}
                        /\ view'[n].pubs = Of(n, run.pubs)
                        /\ \A s \in view'[n].subs : s.bad => Bad(s)
      BY <3>1
    <3> DEFINE subs == Of(n, run.subs)
               checks == subs # Plain(view[n].subs)
               checked == {[topic |-> s.topic, type |-> s.type, qos |-> s.qos,
                            bad |-> checks /\ Bad(s)] : s \in subs}
    <3>2. view'[n] = [view[n] EXCEPT !.pubs = Of(n, run.pubs), !.subs = checked]
      BY <2>1 DEF Compared
    <3>3. ASSUME NEW s \in checked, s.bad
          PROVE  Bad(s)
      <4>1. PICK e \in subs : s = [topic |-> e.topic, type |-> e.type, qos |-> e.qos,
                                   bad |-> checks /\ Bad(e)]
        OBVIOUS
      <4>2. s.topic = e.topic /\ s.qos = e.qos
        BY <4>1
      <4>3. s.bad = (checks /\ Bad(e))
        BY <4>1
      <4>4. Bad(e)
        BY <3>3, <4>3
      <4> QED
        BY <4>2, <4>4 DEF Bad
    <3> HIDE DEF checked
    <3> QED
      BY <3>2, <3>3 DEF AlarmInv, FoundInv
  <2>3. FoundInv'
    BY <2>1, <2>2 DEF AlarmInv, FoundInv
  <2>4. ASSUME NEW n \in DOMAIN view', NEW s \in view'[n].subs, s.bad
        PROVE  \E m \in DOMAIN view' : \E p \in view'[m].pubs :
                  p.topic = s.topic /\ <<p.qos, s.qos>> \in Clash
    <3>1. PICK p \in run.pubs : p.topic = s.topic /\ <<p.qos, s.qos>> \in Clash
      BY <2>2, <2>4 DEF Bad
    <3>2. p.node \in DOMAIN view
      BY <2>1 DEF AlarmInv, FoundInv
    <3>3. [topic |-> p.topic, type |-> p.type, qos |-> p.qos] \in view'[p.node].pubs
      BY <2>2, <3>2 DEF Of
    <3> QED
      BY <2>2, <3>1, <3>2, <3>3
  <2> QED
    BY <2>3, <2>4 DEF AlarmInv, NoFalseAlarm
<1>8. ASSUME NEW n \in Nodes, RunServices(n)
      PROVE  AlarmInv'
  <2>1. /\ DOMAIN run' = RunFields /\ run'.nodes = run.nodes /\ run'.pubs = run.pubs
        /\ run.at = "services"
    BY <1>8 DEF RunServices, AlarmInv, FoundInv, RunFields
  <2>2. PICK found : view' = [view EXCEPT ![n].services = found]
    BY <1>8 DEF RunServices
  <2>3. SameFindings
    BY <2>1, <2>2 DEF SameFindings, AlarmInv, FoundInv
  <2> QED
    BY <2>3, AlarmSame
<1>9. ASSUME NEW n \in Nodes, RunServicesFail(n)
      PROVE  AlarmInv'
  <2>1. SameFindings
    BY <1>9 DEF RunServicesFail, SameFindings, AlarmInv, FoundInv, RunFields
  <2> QED
    BY <2>1, AlarmSame
<1>10. CASE RunIdls \/ RunBuild \/ RunEmit
  <2>1. SameFindings
    BY <1>10 DEF RunIdls, RunBuild, RunEmit, SameFindings, AlarmInv, FoundInv, RunFields
  <2> QED
    BY <2>1, AlarmSame
<1> QED
  BY <1>1, <1>2, <1>3, <1>4, <1>5, <1>6, <1>7, <1>8, <1>9, <1>10 DEF Run

LEMMA AlarmKept == ASSUME AlarmInv, [Next]_vars PROVE AlarmInv'
<1>1. CASE Run
  BY <1>1, AlarmRun
<1>2. CASE UNCHANGED <<run, view>>
  BY <1>2 DEF AlarmInv, FoundInv, NoFalseAlarm
<1>3. ASSUME NEW th \in Threads, Calls(th)
      PROVE  UNCHANGED <<run, view>>
  BY <1>3 DEF Calls, Start1, Start2, Start3, Stop1, Stop2, Stop3, Report, maps
<1>4. CASE Environment
  <2>1. UNCHANGED <<run, view>>
    BY <1>4 DEF Environment, NodeUp, NodeChanges, NodeDown, Opens, Drops, Request,
                DockerMessage, maps
  <2> QED
    BY <2>1, <1>2
<1> QED
  BY <1>1, <1>2, <1>3, <1>4 DEF Next, Threads, vars, maps

\* An error that a run reports against a subscription is due to a publisher
\* that this run found (Introspection::checkSubscriberQos).
THEOREM AlarmCorrect == Spec => []NoFalseAlarm
<1>1. AlarmInv => NoFalseAlarm
  BY DEF AlarmInv
<1> QED
  BY <1>1, AlarmInitial, AlarmKept, PTL DEF Spec

-----------------------------------------------------------------------------
(* Types                                                                     *)

GraphInv == DOMAIN graph \subseteq Nodes /\ \A n \in DOMAIN graph : graph[n] \in Shapes

FlagInv ==
    /\ on \in BOOLEAN /\ busy \in BOOLEAN /\ timer \in BOOLEAN /\ up \in BOOLEAN
    /\ lost \in BOOLEAN /\ late \in BOOLEAN /\ crossed \in BOOLEAN

\* The steps of start(), stop() and report(); only the Socket.IO thread reports.
CallInv ==
    /\ CallRecords
    /\ \A th \in Threads : /\ call[th].newer \in BOOLEAN
                           /\ call[th].op \in {"", "start", "stop", "report"}
                           /\ call[th].op \in {"start", "stop"} => call[th].at \in {1, 2, 3}
    /\ call["sio"].op = "report" => call["sio"].at \in {1, 2, 3, 4, 5}
    /\ call["main"].op # "report"

\* What a run has still to look at is something it has found before.
RunInv ==
    /\ run.at \in {"idle", "topics", "pubs", "subs", "services", "build", "emit", "peers"}
    /\ run.pubs \subseteq Found /\ run.subs \subseteq Found
    /\ run.flags \subseteq {"nodes", "topics", "idls", "services"}
    /\ run.at = "topics" => run.flags \subseteq {"nodes"}
    /\ run.at \in {"pubs", "subs"} =>
         run.left \subseteq Topics /\ \A t \in run.left : run.types[t] \in Types
    /\ run.at = "subs" => run.msg[1] \in run.left
    /\ run.at = "services" => run.left \subseteq run.nodes

Checked == [topic : Topics, type : Types, qos : Qos, bad : BOOLEAN]
ViewInfo == [pubs : SUBSET Endpoints, subs : SUBSET Checked,
             services : SUBSET (Services \X Types)]
OneType(services) ==
    IsFiniteSet(services) /\ \A a, b \in services : a[1] = b[1] => a = b

ViewInv ==
    /\ DOMAIN view \subseteq Nodes /\ agents \subseteq DOMAIN view
    /\ view \in [DOMAIN view -> ViewInfo]
    /\ \A n \in DOMAIN view : OneType(view[n].services)

KnownInv == known \in [DOMAIN known -> Types] /\ DOMAIN known \subseteq Topics \ Hidden
IdlInv == idls \subseteq Types \ NoIdl
DockerInv == docker \in [DOMAIN docker -> SUBSET Containers] /\ DOMAIN docker \subseteq Hosts

InfoInv == GraphInv /\ FlagInv /\ CallInv /\ RunInv /\ ViewInv /\ KnownInv /\ IdlInv /\ DockerInv

-----------------------------------------------------------------------------
\* Who writes what.
LEMMA Writers ==
    ASSUME [Next]_vars
    PROVE  /\ graph' = graph \/ \E n \in Nodes : NodeDown(n) \/ \E s \in Shapes :
                                  NodeUp(n, s) \/ NodeChanges(n, s)
           /\ UNCHANGED <<view, agents>> \/ RunBegin \/ RunCompare
                \/ \E n \in Nodes : RunServices(n)
           /\ known' = known \/ RunTopics
           /\ idls' = idls \/ RunTopics \/ RunCompare \/ \E n \in Nodes : RunServices(n)
           /\ docker' = docker
                \/ \E h \in Hosts, content \in SUBSET Containers : DockerMessage(h, content)
           /\ run' = run \/ Run
<1> USE DEF maps
<1>1. CASE Run
  <2>1. UNCHANGED <<graph, docker>>
    BY <1>1 DEF Run, RunBegin, RunBeginFails, RunTopics, RunTopicsFail, RunPubs, RunSubs,
           RunEndsFail, RunCompare, RunServices, RunServicesFail, RunIdls, RunBuild,
           RunEmit, RunEnd
  <2>2. ASSUME ~RunTopics, ~RunCompare, ~\E n \in Nodes : RunServices(n)
        PROVE  UNCHANGED <<known, idls>> /\ (UNCHANGED <<view, agents>> \/ RunBegin)
    BY <1>1, <2>2 DEF Run, RunBegin, RunBeginFails, RunTopicsFail, RunPubs, RunSubs,
           RunEndsFail, RunServicesFail, RunIdls, RunBuild, RunEmit, RunEnd
  <2>3. RunTopics => UNCHANGED <<view, agents>>
    BY DEF RunTopics
  <2>4. RunCompare \/ (\E n \in Nodes : RunServices(n)) => known' = known
    BY DEF RunCompare, RunServices
  <2> QED
    BY <1>1, <2>1, <2>2, <2>3, <2>4
<1>2. ASSUME NEW th \in Threads, Calls(th)
      PROVE  UNCHANGED <<graph, run, view, agents, known, idls, docker>>
  BY <1>2 DEF Calls, Start1, Start2, Start3, Stop1, Stop2, Stop3, Report
<1>3. CASE Environment
  <2>1. UNCHANGED <<run, view, agents, known, idls>>
    BY <1>3 DEF Environment, NodeUp, NodeChanges, NodeDown, Opens, Drops, Request,
                DockerMessage
  <2>2. CASE Opens \/ Drops \/ Request
    BY <2>1, <2>2 DEF Opens, Drops, Request
  <2>3. CASE \E n \in Nodes : NodeDown(n) \/ \E s \in Shapes : NodeUp(n, s) \/ NodeChanges(n, s)
    BY <2>1, <2>3 DEF NodeUp, NodeChanges, NodeDown
  <2>4. CASE \E h \in Hosts, content \in SUBSET Containers : DockerMessage(h, content)
    BY <2>1, <2>4 DEF DockerMessage
  <2> QED
    BY <1>3, <2>2, <2>3, <2>4 DEF Environment
<1>4. CASE UNCHANGED vars
  BY <1>4 DEF vars
<1> QED
  BY <1>1, <1>2, <1>3, <1>4 DEF Next, Threads

LEMMA GraphKept == ASSUME GraphInv, [Next]_vars PROVE GraphInv'
<1>1. CASE graph' = graph
  BY <1>1 DEF GraphInv
<1>2. ASSUME NEW n \in Nodes, NEW s \in Shapes,
             NodeDown(n) \/ NodeUp(n, s) \/ NodeChanges(n, s)
      PROVE  GraphInv'
  BY <1>2 DEF GraphInv, NodeDown, NodeUp, NodeChanges, Restrict
<1>3. ASSUME NEW n \in Nodes, NodeDown(n)
      PROVE  GraphInv'
  BY <1>3 DEF GraphInv, NodeDown, Restrict
<1> QED
  BY <1>1, <1>2, <1>3, Writers

LEMMA Loaded ==
    ASSUME IdlInv, NEW types \in SUBSET Types
    PROVE  Loads(types) \subseteq Types \ NoIdl
<1>1. \A t \in Types : Includes[t] \subseteq Types
  BY GraphAssumption
<1> QED
  BY <1>1 DEF Loads

LEMMA Seeing ==
    ASSUME GraphInv, FoundInv, ViewInv, run.at # "idle", NEW t \in Topics,
           run.types[t] \in Types, NEW which \in {"pubs", "subs"}
    PROVE  Seen(t, which) \subseteq Found
<1> SUFFICES ASSUME NEW n \in run.nodes \cap DOMAIN graph, NEW f \in graph[n][which]
             PROVE  [node |-> n, topic |-> t, type |-> run.types[t], qos |-> f.qos] \in Found
  BY DEF Seen
<1>1. n \in Nodes
  BY DEF FoundInv, ViewInv
<1>2. graph[n] \in NodeInfo
  BY GraphAssumption DEF GraphInv
<1>3. f \in Endpoints
  BY <1>2 DEF NodeInfo
<1>4. f.qos \in Qos
  BY <1>3 DEF Endpoints
<1> QED
  BY <1>1, <1>4 DEF Found

\* The types chosen for the topics of a run.
TypesOf == {f \in [Alive -> Types] : \A t \in Alive : \E e \in Ends(t) : e.type = f[t]}

LEMMA KnownKept == ASSUME KnownInv, [Next]_vars PROVE KnownInv'
<1>1. CASE known' = known
  BY <1>1 DEF KnownInv
<1>2. CASE RunTopics
  <2>1. PICK types \in TypesOf :
          LET looked == {t \in Alive : t \notin Hidden /\ types[t] \notin Hidden}
              kept == DOMAIN known \cap Alive
          IN  known' = [t \in kept \cup (looked \ kept) |->
                          IF t \in kept THEN known[t] ELSE types[t]]
    BY <1>2 DEF RunTopics, TypesOf
  <2>2. types \in [Alive -> Types] /\ Alive \subseteq Topics
    BY DEF TypesOf, Alive
  <2> QED
    BY <2>1, <2>2 DEF KnownInv
<1> QED
  BY <1>1, <1>2, Writers

LEMMA IdlKept == ASSUME IdlInv, GraphInv, [Next]_vars PROVE IdlInv'
<1>1. CASE idls' = idls
  BY <1>1 DEF IdlInv
<1>2. CASE RunTopics
  <2>1. PICK types \in TypesOf :
          LET looked == {t \in Alive : t \notin Hidden /\ types[t] \notin Hidden}
              new == looked \ (DOMAIN known \cap Alive)
          IN  idls' = idls \cup (Loads({types[t] : t \in new}) \ idls)
    BY <1>2 DEF RunTopics, TypesOf
  <2> DEFINE new == {t \in Alive : t \notin Hidden /\ types[t] \notin Hidden}
                      \ (DOMAIN known \cap Alive)
  <2>2. {types[t] : t \in new} \in SUBSET Types
    BY DEF TypesOf
  <2> QED
    BY <2>1, <2>2, Loaded DEF IdlInv
<1>3. CASE RunCompare
  <2>1. idls' = idls \cup Loads({Byte}) /\ {Byte} \in SUBSET Types
    BY <1>3, GraphAssumption DEF RunCompare
  <2> QED
    BY <2>1, Loaded DEF IdlInv
<1>4. ASSUME NEW n \in Nodes, RunServices(n)
      PROVE  IdlInv'
  <2> DEFINE new == {s \in graph[n].services : s[1] \notin Hidden /\ s[2] \notin Hidden}
                      \ view[n].services
  <2>1. idls' = idls \cup (Loads({s[2] : s \in new}) \ idls) /\ n \in DOMAIN graph
    BY <1>4 DEF RunServices
  <2>2. graph[n] \in NodeInfo
    BY <2>1, GraphAssumption DEF GraphInv
  <2>3. \A s \in new : s[2] \in Types
    BY <2>2 DEF NodeInfo
  <2>4. {s[2] : s \in new} \in SUBSET Types
    BY <2>3
  <2> QED
    BY <2>1, <2>4, Loaded DEF IdlInv
<1> QED
  BY <1>1, <1>2, <1>3, <1>4, Writers

LEMMA DockerKept == ASSUME DockerInv, [Next]_vars PROVE DockerInv'
<1>1. CASE docker' = docker
  BY <1>1 DEF DockerInv
<1>2. ASSUME NEW h \in Hosts, NEW content \in SUBSET Containers, DockerMessage(h, content)
      PROVE  DockerInv'
  <2>1. PICK gone \in SUBSET DOMAIN docker :
          docker' = [g \in (DOMAIN docker \ gone) \cup {h} |->
                       IF g = h THEN content ELSE docker[g]]
    BY <1>2 DEF DockerMessage
  <2> QED
    BY <2>1 DEF DockerInv
<1> QED
  BY <1>1, <1>2, Writers

-----------------------------------------------------------------------------
\* What of a run its type depends on, as its steps write it.
LEMMA RunTyped ==
    ASSUME RunInv, FoundInv, GraphInv, ViewInv, Run
    PROVE  RunInv'
<1> USE DEF RunInv, FoundInv, RunFields
<1>0. CASE RunBegin
  <2>1. run' = [NoRun EXCEPT !.at = "topics", !.nodes = DOMAIN graph,
                             !.flags = IF DOMAIN graph # DOMAIN view THEN {"nodes"} ELSE {}]
    BY <1>0 DEF RunBegin
  <2>2. /\ run'.at = "topics" /\ run'.pubs = {} /\ run'.subs = {}
        /\ run'.flags \subseteq {"nodes"}
    BY <2>1 DEF NoRun
  <2> QED
    BY <2>2
<1>1. CASE RunBeginFails
  BY <1>1 DEF RunBeginFails
<1>2. CASE RunTopicsFail \/ RunEnd
  BY <1>2 DEF RunTopicsFail, RunEnd, NoRun
<1>3. CASE RunTopics
  <2>1. PICK types \in TypesOf :
          /\ run.at = "topics" /\ run'.at = "pubs" /\ run'.types = types
          /\ run'.left = {t \in Alive : t \notin Hidden /\ types[t] \notin Hidden}
          /\ run'.flags \subseteq run.flags \cup {"topics", "idls"}
          /\ run'.pubs = run.pubs /\ run'.subs = run.subs
    BY <1>3 DEF RunTopics, TypesOf
  <2>2. types \in [Alive -> Types] /\ Alive \subseteq Topics
    BY DEF TypesOf, Alive
  <2> QED
    BY <2>1, <2>2
<1>4. ASSUME NEW t \in Topics, RunPubs(t)
      PROVE  RunInv'
  <2>1. run.types[t] \in Types
    BY <1>4 DEF RunPubs
  <2>2. Seen(t, "pubs") \subseteq Found
    BY <1>4, <2>1, Seeing DEF RunPubs
  <2> QED
    BY <1>4, <2>2 DEF RunPubs
<1>5. CASE RunSubs
  <2> DEFINE t == run.msg[1]
  <2>1. t \in run.left /\ t \in Topics /\ run.types[t] \in Types
    BY <1>5 DEF RunSubs
  <2>2. Seen(t, "subs") \subseteq Found
    BY <1>5, <2>1, Seeing DEF RunSubs
  <2> QED
    BY <1>5, <2>2 DEF RunSubs
<1>6. CASE RunEndsFail
  <2>1. ASSUME NEW t, run.at = "pubs", run' = [run EXCEPT !.left = @ \ {t}]
        PROVE  RunInv'
    BY <2>1
  <2>2. ASSUME run.at = "subs",
               run' = [run EXCEPT !.at = "pubs", !.msg = <<>>, !.left = @ \ {run.msg[1]}]
        PROVE  RunInv'
    BY <2>2
  <2> QED
    BY <1>6, <2>1, <2>2 DEF RunEndsFail
<1>7. CASE RunCompare
  BY <1>7 DEF RunCompare
<1>8. ASSUME NEW n \in Nodes, RunServices(n) \/ RunServicesFail(n)
      PROVE  RunInv'
  <2>1. /\ run.at = "services" /\ run'.at = "services" /\ run'.left = run.left \ {n}
        /\ run'.nodes = run.nodes /\ run'.pubs = run.pubs /\ run'.subs = run.subs
    BY <1>8 DEF RunServices, RunServicesFail
  <2>2. run'.flags \subseteq run.flags \cup {"services", "idls"}
    <3>1. CASE RunServices(n)
      <4> DEFINE new == {s \in graph[n].services : s[1] \notin Hidden /\ s[2] \notin Hidden}
                          \ view[n].services
                 s == IF new # {} THEN {"services"} ELSE {}
                 i == IF Loads({m[2] : m \in new}) \ idls # {} THEN {"idls"} ELSE {}
      <4>1. run' = [run EXCEPT !.left = run.left \ {n}, !.flags = (run.flags \cup s) \cup i]
        BY <3>1 DEF RunServices
      <4>2. s \subseteq {"services"} /\ i \subseteq {"idls"}
        OBVIOUS
      <4> HIDE DEF s, i
      <4>3. run'.flags = (run.flags \cup s) \cup i
        BY <4>1
      <4> QED
        BY <4>2, <4>3
    <3>2. CASE RunServicesFail(n)
      BY <3>2 DEF RunServicesFail
    <3> QED
      BY <1>8, <3>1, <3>2
  <2> QED
    BY <2>1, <2>2
<1>9. CASE RunIdls
  BY <1>9 DEF RunIdls
<1>10. CASE RunBuild \/ RunEmit
  BY <1>10 DEF RunBuild, RunEmit
<1> QED
  BY <1>0, <1>1, <1>2, <1>3, <1>4, <1>5, <1>6, <1>7, <1>8, <1>9, <1>10 DEF Run

LEMMA RunKept ==
    ASSUME RunInv, FoundInv, GraphInv, ViewInv, [Next]_vars
    PROVE  RunInv'
<1>1. CASE run' = run
  BY <1>1 DEF RunInv
<1> QED
  BY <1>1, RunTyped, Writers

-----------------------------------------------------------------------------
LEMMA ViewKept ==
    ASSUME ViewInv, FoundInv, RunInv, GraphInv, [Next]_vars
    PROVE  ViewInv'
<1>1. CASE UNCHANGED <<view, agents>>
  BY <1>1 DEF ViewInv
<1>2. CASE RunBegin
  <2>1. /\ view' = [n \in DOMAIN graph |-> IF n \in DOMAIN view THEN view[n] ELSE NoInfo]
        /\ agents' = agents \cap DOMAIN graph
    BY <1>2 DEF RunBegin
  <2>2. NoInfo \in ViewInfo /\ OneType(NoInfo.services)
    BY FS_EmptySet DEF NoInfo, ViewInfo, OneType
  <2> QED
    BY <2>1, <2>2 DEF ViewInv, GraphInv
<1>3. CASE RunCompare
  <2>1. view' = Compared(view) /\ agents' = agents
    BY <1>3 DEF RunCompare
  <2>2. ASSUME NEW n \in DOMAIN view
        PROVE  /\ Of(n, run.pubs) \subseteq Endpoints /\ Of(n, run.subs) \subseteq Endpoints
    BY DEF RunInv, Of, Found, Endpoints
  <2>3. ASSUME NEW s \in Endpoints, NEW b \in BOOLEAN
        PROVE  [topic |-> s.topic, type |-> s.type, qos |-> s.qos, bad |-> b] \in Checked
    BY DEF Endpoints, Checked
  <2>4. ASSUME NEW n \in DOMAIN view
        PROVE  /\ Compared(view)[n] \in ViewInfo
               /\ Compared(view)[n].services = view[n].services
    <3> DEFINE checks == Of(n, run.subs) # Plain(view[n].subs)
               subs == {[topic |-> s.topic, type |-> s.type, qos |-> s.qos,
                         bad |-> checks /\ Bad(s)] : s \in Of(n, run.subs)}
    <3>1. Compared(view)[n] = [view[n] EXCEPT !.pubs = Of(n, run.pubs), !.subs = subs]
      BY DEF Compared
    <3>2. subs \subseteq Checked
      <4> HIDE DEF checks
      <4>1. \A s \in Of(n, run.subs) : (checks /\ Bad(s)) \in BOOLEAN
        OBVIOUS
      <4> QED
        BY <2>2, <2>3, <4>1
    <3> HIDE DEF subs
    <3> QED
      BY <2>2, <3>1, <3>2 DEF ViewInv, ViewInfo
  <2>5. DOMAIN Compared(view) = DOMAIN view /\ Compared(view) \in [DOMAIN view -> ViewInfo]
    <3>1. Compared(view) = [n \in DOMAIN view |-> Compared(view)[n]]
          /\ DOMAIN Compared(view) = DOMAIN view
      BY DEF Compared
    <3> QED
      BY <2>4, <3>1
  <2> QED
    BY <2>1, <2>4, <2>5 DEF ViewInv
<1>4. ASSUME NEW n \in Nodes, RunServices(n)
      PROVE  ViewInv'
  <2> DEFINE new == {s \in graph[n].services : s[1] \notin Hidden /\ s[2] \notin Hidden}
                      \ view[n].services
             old == {s \in view[n].services : \A m \in new : m[1] # s[1]}
  <2>1. /\ view' = [view EXCEPT ![n].services = old \cup new]
        /\ agents' \subseteq agents \cup {n}
        /\ n \in DOMAIN graph /\ n \in DOMAIN view
    BY <1>4 DEF RunServices, RunInv, FoundInv
  <2>2. graph[n].services \subseteq Services \X Types /\ OneType(graph[n].services)
    BY <2>1, GraphAssumption DEF GraphInv, NodeInfo, OneType
  <2>3. view[n].services \subseteq Services \X Types /\ OneType(view[n].services)
    BY <2>1 DEF ViewInv, ViewInfo
  <2>4. old \cup new \subseteq Services \X Types
    BY <2>2, <2>3
  <2>5. OneType(old \cup new)
    <3>1. IsFiniteSet(old) /\ IsFiniteSet(new)
      BY <2>2, <2>3, FS_Subset DEF OneType
    <3>2. IsFiniteSet(old \cup new)
      BY <3>1, FS_Union
    <3>3. ASSUME NEW a \in old \cup new, NEW b \in old \cup new, a[1] = b[1]
          PROVE  a = b
      BY <2>2, <2>3, <3>3 DEF OneType
    <3> QED
      BY <3>2, <3>3 DEF OneType
  <2> HIDE DEF old, new
  <2>6. view' \in [DOMAIN view -> ViewInfo]
    BY <2>1, <2>4 DEF ViewInv, ViewInfo
  <2>7. \A m \in DOMAIN view : OneType(view'[m].services)
    BY <2>1, <2>5 DEF ViewInv, ViewInfo
  <2> QED
    BY <2>1, <2>6, <2>7 DEF ViewInv
<1> QED
  BY <1>1, <1>2, <1>3, <1>4, Writers

LEMMA CallKept == ASSUME CallInv, [Next]_vars PROVE CallInv'
<1> USE DEF CallInv, CallRecords, Threads
<1>1. CASE UNCHANGED call
  BY <1>1
<1>2. CASE RunEmit
  BY <1>2 DEF RunEmit
<1>3. ASSUME NEW th \in Threads, NEW op \in {"start", "stop", "report"},
             op = "report" => th = "sio", Begins(th, op)
      PROVE  CallInv'
  <2> DEFINE c == [NoCall EXCEPT !.op = op, !.at = 1]
  <2>1. /\ c.op = op /\ c.at = 1 /\ c.newer = FALSE
        /\ DOMAIN c = {"op", "at", "msg", "newer"}
    BY DEF NoCall
  <2>2. call' = [call EXCEPT ![th] = c]
    BY <1>3 DEF Begins
  <2> HIDE DEF c
  <2>3. /\ DOMAIN call' = {"main", "sio"} /\ call'[th] = c
        /\ \A o \in Threads \ {th} : call'[o] = call[o]
    BY <2>2
  <2>4. 1 \in {1, 2, 3} /\ 1 \in {1, 2, 3, 4, 5}
    OBVIOUS
  <2>5. CASE th = "main"
    <3>1. op # "report" /\ call'["main"] = c /\ call'["sio"] = call["sio"]
      BY <1>3, <2>3, <2>5
    <3> QED
      BY <2>1, <2>3, <2>4, <3>1
  <2>6. CASE th = "sio"
    <3>1. call'["sio"] = c /\ call'["main"] = call["main"]
      BY <2>3, <2>6
    <3> QED
      BY <2>1, <2>3, <2>4, <3>1
  <2> QED
    BY <2>5, <2>6
<1>4. ASSUME NEW th \in Threads, Returns(th)
      PROVE  CallInv'
  <2>1. NoCall.op = "" /\ NoCall.newer = FALSE /\ DOMAIN NoCall = {"op", "at", "msg", "newer"}
    BY DEF NoCall
  <2> QED
    BY <1>4, <2>1 DEF Returns
<1>5. CASE RunEnd
  <2>1. call' = call \/ Begins("main", "stop")
    BY <1>5 DEF RunEnd, Begins
  <2> QED
    BY <1>1, <1>3, <2>1
<1>6. ASSUME NEW th \in Threads, NEW k \in {1, 2, 3}, call[th].op \in {"start", "stop"}, Moves(th, k)
      PROVE  CallInv'
  BY <1>6 DEF Moves
<1>7. ASSUME NEW th \in Threads, Calls(th), ~(th = "sio" /\ Report)
      PROVE  CallInv'
  <2>1. 2 \in {1, 2, 3} /\ 3 \in {1, 2, 3}
    OBVIOUS
  <2>2. CASE Start1(th) \/ Stop1(th)
    BY <1>4, <1>6, <2>1, <2>2 DEF Start1, Stop1, At
  <2>3. CASE Start2(th) \/ Stop2(th)
    BY <1>6, <2>1, <2>3 DEF Start2, Stop2, At
  <2>4. CASE Start3(th) \/ Stop3(th)
    BY <1>4, <2>4 DEF Start3, Stop3
  <2> QED
    BY <1>7, <2>2, <2>3, <2>4 DEF Calls
<1>8. CASE Report
  <2>1. CASE At("sio", "report", 1) /\ Moves("sio", 2)
    BY <2>1 DEF At, Moves
  <2>2. CASE /\ At("sio", "report", 2)
             /\ call' = [call EXCEPT !["sio"].at = 3, !["sio"].msg = WithoutChecks(view),
                                     !["sio"].newer = FALSE]
    BY <2>2 DEF At
  <2>3. CASE /\ At("sio", "report", 3)
             /\ call' = [call EXCEPT !["sio"].at = 4, !["sio"].msg = <<>>]
    BY <2>3 DEF At
  <2>4. CASE At("sio", "report", 4) /\ Moves("sio", 5)
    BY <2>4 DEF At, Moves
  <2> QED
    BY <1>4, <1>8, <2>1, <2>2, <2>3, <2>4 DEF Report
<1>9. CASE Environment
  <2>1. call' = call \/ Begins("sio", "report") \/ Begins("main", "start")
        \/ \E op \in {"start", "stop"} : Begins("sio", op)
    BY <1>9 DEF Environment, NodeUp, NodeChanges, NodeDown, Opens, Drops, Request,
                DockerMessage, flow
  <2> QED
    BY <1>1, <1>3, <2>1
<1>10. ASSUME Run, ~RunEmit, ~RunEnd
       PROVE  UNCHANGED call
  BY <1>10 DEF Run, RunBegin, RunBeginFails, RunTopics, RunTopicsFail, RunPubs, RunSubs,
               RunEndsFail, RunCompare, RunServices, RunServicesFail, RunIdls, RunBuild, flow
<1> QED
  BY <1>1, <1>2, <1>5, <1>7, <1>8, <1>9, <1>10 DEF Next, vars, flow

LEMMA FlagKept == ASSUME FlagInv, CallInv, [Next]_vars PROVE FlagInv'
<1> USE DEF FlagInv
<1>1. CASE Run
  <2>1. CASE RunTopicsFail
    <3>1. (lost \/ "nodes" \in run.flags) \in BOOLEAN
      OBVIOUS
    <3> QED
      BY <2>1, <3>1 DEF RunTopicsFail
  <2>2. CASE RunBegin \/ RunBeginFails \/ RunEnd
    BY <2>2 DEF RunBegin, RunBeginFails, RunEnd, out
  <2>3. CASE RunEmit
    BY <2>3 DEF RunEmit
  <2>4. CASE RunTopics \/ RunCompare \/ \E n \in Nodes : RunServices(n)
    BY <2>4 DEF RunTopics, RunCompare, RunServices, flow, out
  <2>5. CASE \/ (\E t \in Topics : RunPubs(t)) \/ RunSubs \/ RunEndsFail \/ RunIdls
             \/ RunBuild \/ \E n \in Nodes : RunServicesFail(n)
    BY <2>5 DEF RunPubs, RunSubs, RunEndsFail, RunServicesFail, RunIdls, RunBuild, flow, out
  <2> QED
    BY <1>1, <2>1, <2>2, <2>3, <2>4, <2>5 DEF Run
<1>2. ASSUME NEW th \in Threads, Calls(th)
      PROVE  FlagInv'
  <2>1. CASE Start1(th)
    <3>1. (crossed \/ call[Other(th)].op = "stop") \in BOOLEAN
      OBVIOUS
    <3> QED
      BY <2>1, <3>1 DEF Start1, out
  <2>2. CASE Start2(th) \/ Start3(th)
    BY <2>2 DEF Start2, Start3, out
  <2>3. CASE Stop1(th) \/ Stop2(th) \/ Stop3(th)
    BY <2>3 DEF Stop1, Stop2, Stop3, out
  <2>4. CASE Report
    <3>1. (lost /\ call["sio"].msg # WithoutChecks(view)) \in BOOLEAN
          /\ call["sio"].newer \in BOOLEAN
      BY DEF CallInv, Threads
    <3>2. lost' \in {lost, lost /\ call["sio"].msg # WithoutChecks(view)}
          /\ late' \in {late, call["sio"].newer}
      BY <2>4 DEF Report, out
    <3>3. UNCHANGED <<on, busy, timer, crossed, up>>
      BY <2>4 DEF Report
    <3> QED
      BY <3>1, <3>2, <3>3
  <2> QED
    BY <1>2, <2>1, <2>2, <2>3, <2>4 DEF Calls
<1>3. CASE Environment
  BY <1>3 DEF Environment, NodeUp, NodeChanges, NodeDown, Opens, Drops, Request,
              DockerMessage, flow, out
<1>4. CASE UNCHANGED vars
  BY <1>4 DEF vars, flow, out
<1> QED
  BY <1>1, <1>2, <1>3, <1>4 DEF Next, Threads

LEMMA InfoInitial == Init => InfoInv
<1> SUFFICES ASSUME Init PROVE InfoInv
  OBVIOUS
<1>1. GraphInv
  <2>1. PICK s \in Scenarios : graph = s.start
    BY DEF Init
  <2> QED
    BY <2>1, GraphAssumption DEF GraphInv
<1>2. FlagInv /\ IdlInv
  BY DEF Init, FlagInv, IdlInv
<1>6. KnownInv
  BY DEF Init, KnownInv
<1>7. DockerInv
  BY DEF Init, DockerInv
<1>3. CallInv
  BY DEF Init, CallInv, CallRecords, Threads, NoCall
<1>4. RunInv
  BY DEF Init, RunInv, NoRun
<1>5. ViewInv
  BY DEF Init, ViewInv
<1> QED
  BY <1>1, <1>2, <1>3, <1>4, <1>5, <1>6, <1>7 DEF InfoInv

LEMMA InfoCorrect == Spec => [](AlarmInv /\ InfoInv)
<1>1. AlarmInv /\ InfoInv /\ [Next]_vars => InfoInv'
  BY GraphKept, FlagKept, CallKept, RunKept, ViewKept, KnownKept, IdlKept, DockerKept
  DEF InfoInv, AlarmInv
<1> QED
  BY <1>1, AlarmInitial, AlarmKept, InfoInitial, PTL DEF Spec

\* The graph found keeps its types, whatever the graph becomes under a run and
\* whichever queries fail: among them that every node with a client for files
\* is still known, and that a node has each service once
\* (Introspection::runIntrospection).
THEOREM TypeCorrect == Spec => []TypeOK
<1>1. InfoInv => TypeOK
  <2> SUFFICES ASSUME InfoInv PROVE TypeOK
    OBVIOUS
  <2>1. /\ DOMAIN graph \subseteq Nodes /\ \A n \in DOMAIN graph : graph[n] \in Shapes
        /\ {on, busy, timer, up, lost, late, crossed} \subseteq BOOLEAN
    BY DEF InfoInv, GraphInv, FlagInv
  <2>2. /\ run.at \in {"idle", "topics", "pubs", "subs", "services", "build", "emit", "peers"}
        /\ run.pubs \cup run.subs \subseteq Found
        /\ run.flags \subseteq {"nodes", "topics", "idls", "services"}
    BY DEF InfoInv, RunInv
  <2>3. ASSUME NEW n \in DOMAIN view
        PROVE  /\ view[n].pubs \subseteq Endpoints /\ Plain(view[n].subs) \subseteq Endpoints
               /\ IsFiniteSet(view[n].services)
               /\ \A a, b \in view[n].services : a[1] = b[1] => a = b
    <3>1. view[n].pubs \subseteq Endpoints /\ view[n].subs \subseteq Checked
      BY DEF InfoInv, ViewInv, ViewInfo
    <3>2. Plain(view[n].subs) \subseteq Endpoints
      BY <3>1 DEF Plain, Checked, Endpoints
    <3> QED
      BY <3>1, <3>2 DEF InfoInv, ViewInv, OneType
  <2>4. DOMAIN view \subseteq Nodes /\ agents \subseteq DOMAIN view
    BY DEF InfoInv, ViewInv
  <2>5. /\ known \in [DOMAIN known -> Types] /\ DOMAIN known \subseteq Topics \ Hidden
        /\ idls \subseteq Types \ NoIdl
        /\ docker \in [DOMAIN docker -> SUBSET Containers] /\ DOMAIN docker \subseteq Hosts
    BY DEF InfoInv, KnownInv, IdlInv, DockerInv
  <2>6. \A th \in {"main", "sio"} : call[th].op \in {"", "start", "stop", "report"}
    BY DEF InfoInv, CallInv, Threads
  <2> QED
    BY <2>1, <2>2, <2>3, <2>4, <2>5, <2>6 DEF TypeOK
<1> QED
  BY <1>1, InfoCorrect, PTL

-----------------------------------------------------------------------------
(* What the cloud and the peers were told                                    *)

Told5 == {"nodes", "idls", "docker", "on", "peers"}
CloudInv == DOMAIN cloud = Told5

\* report() has not passed its step k yet.
Reporting(k) == call["sio"].op = "report" /\ call["sio"].at \in 1..k

\* The thread will tell whether discovery is on.
Telling(th) == \/ call[th].op = "start" /\ call[th].at = 2
               \/ call[th].op = "stop" /\ call[th].at \in {2, 3}

\* The run will send the nodes, as they are by then.
Pending == \/ run.at \in {"topics", "pubs", "subs", "services"}
                /\ run.flags \cap {"nodes", "services"} # {}
           \/ run.at \in {"build", "emit"}

\* What was not told yet will be, by the run or the report that is under way.
PeersInv == \/ cloud.peers = DOMAIN known
            \/ run.at \notin {"idle", "topics"} /\ "topics" \in run.flags
IdlsInv == up => \/ cloud.idls = idls
                 \/ Reporting(1)
                 \/ run.at \in {"pubs", "subs", "services"} /\ "idls" \in run.flags
HostsInv == up => cloud.docker = docker \/ Reporting(4)
OnInv == up => cloud.on = on \/ Reporting(5) \/ \E th \in Threads : Telling(th)

\* A message of nodes that is on its way is the newest, or its being older was
\* noted.
NodesInv ==
    /\ run.at = "emit" => run.msg = WithoutChecks(view)
    /\ call["sio"].op = "report" /\ call["sio"].at = 3 =>
         call["sio"].msg = WithoutChecks(view) \/ lost \/ call["sio"].newer \/ Pending
    /\ up => cloud.nodes = WithoutChecks(view) \/ lost \/ late \/ Pending \/ Reporting(3)

ToldInv == CloudInv /\ PeersInv /\ IdlsInv /\ HostsInv /\ OnInv /\ NodesInv

LEMMA ToldFields ==
    ASSUME CloudInv, NEW w \in Told5, NEW v
    PROVE  /\ DOMAIN Told(w, v) = Told5
           /\ \A x \in Told5 \ {w} : Told(w, v)[x] = cloud[x]
           /\ up => Told(w, v)[w] = v
<1> QED
  BY DEF CloudInv, Told

\* Who tells.
LEMMA Tellers ==
    ASSUME [Next]_vars
    PROVE  cloud' = cloud \/ RunIdls \/ RunEmit \/ RunEnd
           \/ (\E th \in Threads : Start2(th) \/ Stop3(th)) \/ Report
           \/ \E h \in Hosts, content \in SUBSET Containers : DockerMessage(h, content)
<1> USE DEF out
<1>1. CASE Run
  BY <1>1 DEF Run, RunBegin, RunBeginFails, RunTopics, RunTopicsFail, RunPubs, RunSubs,
     RunEndsFail, RunCompare, RunServices, RunServicesFail, RunBuild
<1>2. ASSUME NEW th \in Threads, Calls(th)
      PROVE  cloud' = cloud \/ Start2(th) \/ Stop3(th) \/ Report
  BY <1>2 DEF Calls, Start1, Start3, Stop1, Stop2
<1>3. CASE Environment
  BY <1>3 DEF Environment, NodeUp, NodeChanges, NodeDown, Opens, Drops, Request
<1> QED
  BY <1>1, <1>2, <1>3 DEF Next, Threads, vars

\* The report goes on as it was, or there is none.
StillReporting ==
    \/ /\ call'["sio"].op = call["sio"].op /\ call'["sio"].at = call["sio"].at
       /\ call'["sio"].msg = call["sio"].msg
       /\ RunEmit \/ call'["sio"].newer = call["sio"].newer
    \/ call["sio"].op # "report" /\ call'["sio"].op # "report"

LEMMA Reports ==
    ASSUME CallInv, [Next]_vars
    PROVE  StillReporting \/ Report \/ Opens
<1> USE DEF StillReporting, CallInv, CallRecords, Threads
<1>1. CASE UNCHANGED call
  BY <1>1
<1>2. CASE RunEmit
  BY <1>2 DEF RunEmit
<1>3. CASE RunEnd
  BY <1>3 DEF RunEnd
<1>4. CASE Calls("main")
  BY <1>4 DEF Calls, Start1, Start2, Start3, Stop1, Stop2, Stop3, Moves, Returns
<1>a. ASSUME NEW k, call["sio"].op # "report", Moves("sio", k)
      PROVE  StillReporting
  BY <1>a DEF Moves
<1>b. ASSUME Returns("sio"), call["sio"].op # "report"
      PROVE  StillReporting
  BY <1>b DEF Returns, NoCall
<1>5. CASE Calls("sio") /\ ~Report
  BY <1>5, <1>a, <1>b DEF Calls, Start1, Start2, Start3, Stop1, Stop2, Stop3, At
<1>6. CASE Request
  <2>1. PICK op \in {"start", "stop"} : Begins("sio", op)
    BY <1>6 DEF Request
  <2>2. call["sio"].op = "" /\ call'["sio"] = [NoCall EXCEPT !.op = op, !.at = 1]
    BY <1>6, <2>1 DEF Request, Begins
  <2> QED
    BY <2>1, <2>2 DEF NoCall
<1>7. ASSUME NEW h \in Hosts, NEW content \in SUBSET Containers, DockerMessage(h, content)
      PROVE  StillReporting
  <2>1. call' = call \/ Begins("main", "start")
    BY <1>7 DEF DockerMessage
  <2> QED
    BY <2>1 DEF Begins
<1>8. CASE Environment
  BY <1>1, <1>6, <1>7, <1>8 DEF Environment, NodeUp, NodeChanges, NodeDown, Drops, flow
<1>9. ASSUME Run, ~RunEmit, ~RunEnd
      PROVE  UNCHANGED call
  BY <1>9 DEF Run, RunBegin, RunBeginFails, RunTopics, RunTopicsFail, RunPubs, RunSubs,
              RunEndsFail, RunCompare, RunServices, RunServicesFail, RunIdls, RunBuild, flow
<1> QED
  BY <1>1, <1>2, <1>3, <1>4, <1>5, <1>8, <1>9 DEF Next, vars, flow

\* The steps of a run between the topics and the report that find nothing new.
Searching == (\E t \in Topics : RunPubs(t)) \/ RunSubs \/ RunEndsFail
             \/ \E n \in Nodes : RunServicesFail(n)

LEMMA Searched ==
    ASSUME FoundInv, Searching
    PROVE  /\ run.at \in {"pubs", "subs", "services"}
           /\ run'.at \in {"pubs", "subs", "services"}
           /\ run'.flags = run.flags
           /\ UNCHANGED <<flow, maps, docker, up, out>>
<1> USE DEF FoundInv, RunFields
<1>1. CASE \E t \in Topics : RunPubs(t)
  BY <1>1 DEF RunPubs
<1>2. CASE RunSubs
  BY <1>2 DEF RunSubs
<1>3. CASE RunEndsFail
  <2>1. UNCHANGED <<flow, maps, docker, up, out>>
    BY <1>3 DEF RunEndsFail
  <2>2. ASSUME NEW t, run.at = "pubs", run' = [run EXCEPT !.left = @ \ {t}]
        PROVE  run'.at = "pubs" /\ run'.flags = run.flags
    BY <2>2
  <2>3. ASSUME run' = [run EXCEPT !.at = "pubs", !.msg = <<>>, !.left = @ \ {run.msg[1]}]
        PROVE  run'.at = "pubs" /\ run'.flags = run.flags
    BY <2>3
  <2> QED
    BY <1>3, <2>1, <2>2, <2>3 DEF RunEndsFail
<1>4. CASE \E n \in Nodes : RunServicesFail(n)
  BY <1>4 DEF RunServicesFail
<1> QED
  BY <1>1, <1>2, <1>3, <1>4 DEF Searching

LEMMA CloudKept == ASSUME CloudInv, [Next]_vars PROVE CloudInv'
<1> USE DEF CloudInv
<1>1. CASE cloud' = cloud
  BY <1>1
<1>2. ASSUME NEW w \in Told5, NEW v, cloud' = Told(w, v)
      PROVE  CloudInv'
  BY <1>2, ToldFields
<1>3. CASE RunIdls \/ RunEmit
  BY <1>1, <1>2, <1>3 DEF RunIdls, RunEmit, Told5
<1>4. CASE RunEnd
  BY <1>4 DEF RunEnd
<1>5. CASE (\E th \in Threads : Start2(th) \/ Stop3(th)) \/ Report
  BY <1>1, <1>2, <1>5 DEF Start2, Stop3, Report, out, Told5
<1>6. CASE \E h \in Hosts, content \in SUBSET Containers : DockerMessage(h, content)
  BY <1>1, <1>2, <1>6 DEF DockerMessage, Told5
<1> QED
  BY <1>1, <1>3, <1>4, <1>5, <1>6, Tellers

LEMMA PeersKept ==
    ASSUME CloudInv, FoundInv, RunInv, PeersInv, [Next]_vars
    PROVE  PeersInv'
<1> USE DEF PeersInv
<1>1. CASE cloud'.peers = cloud.peers /\ UNCHANGED <<known, run>>
  BY <1>1
<1>2. ASSUME NEW w \in Told5 \ {"peers"}, NEW v, cloud' = Told(w, v)
      PROVE  cloud'.peers = cloud.peers
  BY <1>2, ToldFields DEF Told5
<1>3. ASSUME run.at \notin {"idle", "topics"}, run'.at \notin {"idle", "topics"},
             run.flags \subseteq run'.flags, known' = known, cloud'.peers = cloud.peers
      PROVE  PeersInv'
  BY <1>3
<1>4. CASE Run
  <2> USE DEF maps, out, FoundInv, RunFields
  <2>1. CASE RunBegin
    <3>1. run.at = "idle" /\ known' = known /\ cloud' = cloud
      BY <2>1 DEF RunBegin, MainFree
    <3> QED
      BY <3>1
  <2>2. CASE RunBeginFails
    BY <1>1, <2>2 DEF RunBeginFails
  <2>3. CASE RunTopicsFail
    BY <2>3 DEF RunTopicsFail
  <2>4. CASE RunTopics
    <3>1. /\ run.at = "topics" /\ run'.at = "pubs" /\ cloud' = cloud
          /\ DOMAIN known' # DOMAIN known => "topics" \in run'.flags
      BY <2>4 DEF RunTopics
    <3> QED
      BY <3>1
  <2>5. CASE Searching
    BY <1>3, <2>5, Searched
  <2>6. CASE RunCompare
    BY <1>3, <2>6 DEF RunCompare
  <2>7. ASSUME NEW n \in Nodes, RunServices(n)
        PROVE  PeersInv'
    <3>1. /\ run.at = "services" /\ run'.at = "services" /\ run.flags \subseteq run'.flags
          /\ known' = known /\ cloud' = cloud
      BY <2>7 DEF RunServices
    <3> QED
      BY <1>3, <3>1
  <2>8. CASE RunIdls
    <3>1. cloud'.peers = cloud.peers
      BY <1>2, <2>8 DEF RunIdls, Told5
    <3> QED
      BY <1>3, <2>8, <3>1 DEF RunIdls
  <2>9. CASE RunBuild
    BY <1>3, <2>9 DEF RunBuild
  <2>10. CASE RunEmit
    <3>1. cloud'.peers = cloud.peers
      BY <1>2, <2>10 DEF RunEmit, Told5
    <3> QED
      BY <1>3, <2>10, <3>1 DEF RunEmit
  <2>11. CASE RunEnd
    BY <2>11 DEF RunEnd, CloudInv, Told5
  <2> QED
    BY <1>4, <2>1, <2>2, <2>3, <2>4, <2>5, <2>6, <2>7, <2>8, <2>9, <2>10, <2>11 DEF Run, Searching
<1>5. CASE ~Run
  <2>1. UNCHANGED <<run, known>>
    BY <1>5, Writers DEF Run
  <2>2. cloud'.peers = cloud.peers
    <3>1. CASE (\E th \in Threads : Start2(th) \/ Stop3(th)) \/ Report
      BY <1>2, <3>1 DEF Start2, Stop3, Report, out, Told5
    <3>2. CASE \E h \in Hosts, content \in SUBSET Containers : DockerMessage(h, content)
      BY <1>2, <3>2 DEF DockerMessage, Told5
    <3> QED
      BY <1>5, <3>1, <3>2, Tellers DEF Run
  <2> QED
    BY <1>1, <2>1, <2>2
<1> QED
  BY <1>4, <1>5

\* The connection, and what report() has still to tell.
LEMMA Opened ==
    ASSUME CallInv, [Next]_vars
    PROVE  up' = up \/ Drops \/ (Opens /\ call'["sio"].op = "report" /\ call'["sio"].at = 1)
<1>1. CASE Run
  BY <1>1 DEF Run, RunBegin, RunBeginFails, RunTopics, RunTopicsFail, RunPubs, RunSubs,
     RunEndsFail, RunCompare, RunServices, RunServicesFail, RunIdls, RunBuild, RunEmit, RunEnd
<1>2. ASSUME NEW th \in Threads, Calls(th)
      PROVE  up' = up
  BY <1>2 DEF Calls, Start1, Start2, Start3, Stop1, Stop2, Stop3, Report
<1>3. CASE Opens
  <2>1. call' = [call EXCEPT !["sio"] = [NoCall EXCEPT !.op = "report", !.at = 1]]
    BY <1>3 DEF Opens, Begins
  <2> QED
    BY <1>3, <2>1 DEF CallInv, CallRecords, Threads, NoCall
<1>4. CASE Environment
  BY <1>3, <1>4 DEF Environment, NodeUp, NodeChanges, NodeDown, Request, DockerMessage
<1>5. CASE UNCHANGED vars
  BY <1>5 DEF vars
<1> QED
  BY <1>1, <1>2, <1>4, <1>5 DEF Next, Threads

LEMMA ReportSteps ==
    ASSUME CallInv, Report
    PROVE  /\ call["sio"].op = "report" /\ UNCHANGED <<run, up, maps, docker, on>>
           /\ \/ /\ call["sio"].at = 1 /\ cloud' = Told("idls", idls)
                 /\ call'["sio"].op = "report" /\ call'["sio"].at = 2
                 /\ UNCHANGED <<lost, late>>
              \/ /\ call["sio"].at = 2 /\ cloud' = cloud
                 /\ call'["sio"].op = "report" /\ call'["sio"].at = 3
                 /\ call'["sio"].msg = WithoutChecks(view)
                 /\ UNCHANGED <<lost, late>>
              \/ /\ call["sio"].at = 3 /\ cloud' = Told("nodes", call["sio"].msg)
                 /\ call'["sio"].op = "report" /\ call'["sio"].at = 4
                 /\ late' = call["sio"].newer
                 /\ lost' = (lost /\ call["sio"].msg # WithoutChecks(view))
              \/ /\ call["sio"].at = 4 /\ cloud' = Told("docker", docker)
                 /\ call'["sio"].op = "report" /\ call'["sio"].at = 5
                 /\ UNCHANGED <<lost, late>>
              \/ /\ call["sio"].at = 5 /\ cloud' = Told("on", on)
                 /\ call'["sio"].op = ""
                 /\ UNCHANGED <<lost, late>>
<1> USE DEF CallInv, CallRecords, Threads, At, out
<1>1. call["sio"].op = "report" /\ UNCHANGED <<run, up, maps, docker, on>>
  BY DEF Report
<1>2. CASE /\ At("sio", "report", 1) /\ Moves("sio", 2)
           /\ cloud' = Told("idls", idls) /\ UNCHANGED <<lost, late>>
  BY <1>1, <1>2 DEF Moves
<1>3. CASE /\ At("sio", "report", 2) /\ UNCHANGED out
           /\ call' = [call EXCEPT !["sio"].at = 3, !["sio"].msg = WithoutChecks(view),
                                   !["sio"].newer = FALSE]
  BY <1>1, <1>3
<1>4. CASE /\ At("sio", "report", 3)
           /\ call' = [call EXCEPT !["sio"].at = 4, !["sio"].msg = <<>>]
           /\ cloud' = Told("nodes", call["sio"].msg)
           /\ late' = call["sio"].newer
           /\ lost' = (lost /\ call["sio"].msg # WithoutChecks(view))
  BY <1>1, <1>4
<1>5. CASE /\ At("sio", "report", 4) /\ Moves("sio", 5)
           /\ cloud' = Told("docker", docker) /\ UNCHANGED <<lost, late>>
  BY <1>1, <1>5 DEF Moves
<1>6. CASE /\ At("sio", "report", 5) /\ Returns("sio")
           /\ cloud' = Told("on", on) /\ UNCHANGED <<lost, late>>
  BY <1>1, <1>6 DEF Returns, NoCall
<1> QED
  BY <1>2, <1>3, <1>4, <1>5, <1>6 DEF Report

\* How far a report is does not matter to what it has told already.
LEMMA OtherSteps ==
    ASSUME CallInv, [Next]_vars, up', ~Report, ~Opens
    PROVE  up /\ StillReporting
<1> QED
  BY Opened, Reports DEF Drops

LEMMA IdlsKept ==
    ASSUME CloudInv, FoundInv, RunInv, CallInv, IdlsInv, [Next]_vars
    PROVE  IdlsInv'
<1> SUFFICES ASSUME up' PROVE IdlsInv'
  BY DEF IdlsInv
<1> USE DEF Reporting
<1>1. CASE Opens
  <2>1. call'["sio"].op = "report" /\ call'["sio"].at = 1
    BY <1>1, Opened DEF Opens, Drops
  <2>2. 1 \in 1..1
    OBVIOUS
  <2> QED
    BY <2>1, <2>2 DEF IdlsInv
<1>2. CASE Report
  <2>1. UNCHANGED <<run, up, idls>> /\ call["sio"].op = "report"
    BY <1>2, ReportSteps DEF maps
  <2>2. CASE cloud' = Told("idls", idls)
    BY <2>1, <2>2, ToldFields DEF IdlsInv, Told5
  <2>3. CASE call["sio"].at \in {2, 3, 4, 5} /\ cloud'.idls = cloud.idls
    <3>1. ~Reporting(1)
      BY <2>3
    <3> QED
      BY <2>1, <2>3, <3>1 DEF IdlsInv
  <2>4. ASSUME NEW w \in Told5 \ {"idls"}, NEW v, cloud' = Told(w, v)
        PROVE  cloud'.idls = cloud.idls
    BY <2>4, ToldFields DEF Told5
  <2> HIDE DEF Reporting
  <2> QED
    BY <1>2, <2>2, <2>3, <2>4, ReportSteps DEF Told5
<1>3. ASSUME ~Opens, ~Report
      PROVE  up /\ StillReporting /\ (Reporting(1) => Reporting(1)')
  BY <1>3, OtherSteps DEF StillReporting
<1>4. CASE UNCHANGED <<run, idls>> /\ cloud'.idls = cloud.idls /\ ~Opens /\ ~Report
  BY <1>3, <1>4 DEF IdlsInv
<1>5. ASSUME NEW w \in Told5 \ {"idls"}, NEW v, cloud' = Told(w, v)
      PROVE  cloud'.idls = cloud.idls
  BY <1>5, ToldFields DEF Told5
<1>6. CASE Run /\ ~Report /\ ~Opens
  <2> USE DEF maps, out, FoundInv, RunFields
  <2>0. up /\ StillReporting /\ (Reporting(1) => Reporting(1)')
    BY <1>3, <1>6
  <2>1. CASE RunBegin \/ RunBeginFails \/ RunTopicsFail
    <3>1. run.at \in {"idle", "topics"} /\ UNCHANGED <<cloud, idls>>
      BY <2>1 DEF RunBegin, RunBeginFails, RunTopicsFail, MainFree
    <3> QED
      BY <2>0, <3>1 DEF IdlsInv
  <2>2. ASSUME idls' # idls => "idls" \in run'.flags, cloud' = cloud, run'.at \in {"pubs", "subs", "services"},
               run.flags \subseteq run'.flags
        PROVE  IdlsInv'
    BY <2>0, <2>2 DEF IdlsInv
  <2>3. CASE RunTopics
    BY <2>2, <2>3 DEF RunTopics
  <2>4. CASE Searching
    BY <2>0, <2>4, Searched DEF IdlsInv
  <2>5. CASE RunCompare
    BY <2>2, <2>5 DEF RunCompare
  <2>6. ASSUME NEW n \in Nodes, RunServices(n)
        PROVE  IdlsInv'
    BY <2>2, <2>6 DEF RunServices
  <2>7. CASE RunIdls
    <3>1. CASE "idls" \in run.flags
      <4>1. cloud' = Told("idls", idls) /\ idls' = idls
        BY <2>7, <3>1 DEF RunIdls
      <4> QED
        BY <2>0, <4>1, ToldFields DEF IdlsInv, Told5
    <3>2. CASE "idls" \notin run.flags
      BY <2>0, <2>7, <3>2 DEF RunIdls, IdlsInv
    <3> QED
      BY <3>1, <3>2
  <2>8. CASE RunBuild
    BY <2>0, <2>8 DEF RunBuild, IdlsInv
  <2>9. CASE RunEmit
    <3>1. cloud'.idls = cloud.idls
      BY <1>5, <2>9 DEF RunEmit, Told5
    <3> QED
      BY <2>0, <2>9, <3>1 DEF RunEmit, IdlsInv
  <2>10. CASE RunEnd
    BY <2>0, <2>10 DEF RunEnd, IdlsInv, CloudInv, Told5
  <2> QED
    BY <1>6, <2>1, <2>3, <2>4, <2>5, <2>6, <2>7, <2>8, <2>9, <2>10 DEF Run, Searching
<1>7. CASE ~Run /\ ~Report /\ ~Opens
  <2>1. UNCHANGED <<run, idls>>
    BY <1>7, Writers DEF Run
  <2>2. cloud'.idls = cloud.idls
    <3>1. CASE \E th \in Threads : Start2(th) \/ Stop3(th)
      BY <1>5, <3>1 DEF Start2, Stop3, Told5
    <3>2. CASE \E h \in Hosts, content \in SUBSET Containers : DockerMessage(h, content)
      BY <1>5, <3>2 DEF DockerMessage, Told5
    <3> QED
      BY <1>7, <3>1, <3>2, Tellers DEF Run
  <2> QED
    BY <1>4, <1>7, <2>1, <2>2
<1> QED
  BY <1>1, <1>2, <1>6, <1>7

LEMMA HostsKept ==
    ASSUME CloudInv, CallInv, DockerInv, HostsInv, [Next]_vars
    PROVE  HostsInv'
<1> SUFFICES ASSUME up' PROVE HostsInv'
  BY DEF HostsInv
<1>1. CASE Opens
  <2>1. call'["sio"].op = "report" /\ call'["sio"].at = 1
    BY <1>1, Opened DEF Opens, Drops
  <2> QED
    BY <2>1 DEF HostsInv, Reporting
<1>2. CASE Report
  <2>1. UNCHANGED <<up, docker>> /\ call["sio"].op = "report"
    BY <1>2, ReportSteps
  <2>2. CASE cloud' = Told("docker", docker)
    BY <2>1, <2>2, ToldFields DEF HostsInv, Told5
  <2>3. CASE call'["sio"].op = "report" /\ call'["sio"].at \in {2, 3, 4}
    BY <2>3 DEF HostsInv, Reporting
  <2>4. CASE call["sio"].at = 5 /\ cloud' = Told("on", on)
    <3>1. ~Reporting(4) /\ cloud'.docker = cloud.docker
      BY <2>4, ToldFields DEF Reporting, Told5
    <3> QED
      BY <2>1, <3>1 DEF HostsInv
  <2> QED
    BY <1>2, <2>2, <2>3, <2>4, ReportSteps
<1>3. ASSUME ~Opens, ~Report
      PROVE  up /\ (Reporting(4) => Reporting(4)')
  BY <1>3, OtherSteps DEF StillReporting, Reporting
<1>4. ASSUME ~Opens, ~Report,
             NEW h \in Hosts, NEW content \in SUBSET Containers, DockerMessage(h, content)
      PROVE  HostsInv'
  <2> DEFINE same == {g \in DOMAIN docker : docker[g] \cap content # {}}
             new == h \notin DOMAIN docker
             changed == IF new THEN TRUE ELSE docker[h] # content
  <2>1. PICK gone \in SUBSET same :
          /\ (gone # {}) = (new /\ same # {})
          /\ docker' = [g \in (DOMAIN docker \ gone) \cup {h} |->
                          IF g = h THEN content ELSE docker[g]]
          /\ cloud' = IF changed THEN Told("docker", docker') ELSE cloud
    BY <1>4 DEF DockerMessage
  <2>2. CASE changed
    <3>1. cloud'.docker = docker'
      BY <1>3, <1>4, <2>1, <2>2, ToldFields DEF Told5
    <3> QED
      BY <3>1 DEF HostsInv
  <2>3. CASE ~changed
    <3>1. h \in DOMAIN docker /\ docker[h] = content /\ gone = {} /\ cloud' = cloud
      BY <2>1, <2>3
    <3>2. docker' = [g \in DOMAIN docker |-> docker[g]]
      BY <2>1, <3>1
    <3>3. docker' = docker
      BY <3>2 DEF DockerInv
    <3> QED
      BY <1>3, <1>4, <3>1, <3>3 DEF HostsInv
  <2> QED
    BY <2>2, <2>3
<1>5. CASE /\ ~Opens /\ ~Report
           /\ ~\E h \in Hosts, content \in SUBSET Containers : DockerMessage(h, content)
  <2>1. docker' = docker
    BY <1>5, Writers
  <2>2. ASSUME NEW w \in Told5 \ {"docker"}, NEW v, cloud' = Told(w, v)
        PROVE  cloud'.docker = cloud.docker
    BY <2>2, ToldFields DEF Told5
  <2>6. cloud'.docker = cloud.docker
    <3>1. CASE RunIdls \/ RunEmit
      BY <2>2, <3>1 DEF RunIdls, RunEmit, Told5
    <3>2. CASE RunEnd
      BY <3>2 DEF RunEnd, CloudInv, Told5
    <3>3. CASE \E th \in Threads : Start2(th) \/ Stop3(th)
      BY <2>2, <3>3 DEF Start2, Stop3, Told5
    <3> QED
      BY <1>5, <3>1, <3>2, <3>3, Tellers
  <2> QED
    BY <1>3, <1>5, <2>1, <2>6 DEF HostsInv
<1> QED
  BY <1>1, <1>2, <1>4, <1>5

\* Nobody leaves a call before having told, except by telling.
LEMMA TellingKept ==
    ASSUME CallInv, TimerInv, [Next]_vars, ~Report,
           NEW th \in Threads, ~Start2(th), ~Stop3(th), Telling(th)
    PROVE  Telling(th)'
<1> USE DEF CallInv, CallRecords, Threads, Telling
<1>0. 1 # 2 /\ 1 # 3 /\ 2 # 3
  BY NotLate, NotSame
<1>1. CASE call'[th] = call[th]
  BY <1>1
<1>2. CASE RunEmit
  BY <1>2 DEF RunEmit
<1>3. CASE RunEnd
  <2>1. call["main"].op = ""
    BY <1>3 DEF RunEnd, TimerInv
  <2>2. call' = call \/ \E c : call' = [call EXCEPT !["main"] = c]
    BY <1>3 DEF RunEnd
  <2> QED
    BY <2>1, <2>2
<1>4. ASSUME NEW o \in Threads, Calls(o)
      PROVE  Telling(th)'
  <2>1. CASE o # th
    BY <1>4, <2>1 DEF Calls, Start1, Start2, Start3, Stop1, Stop2, Stop3, Moves, Returns
  <2>2. CASE Stop2(th)
    BY <2>2 DEF Stop2, Moves, At
  <2>3. CASE o = th
    <3>1. ~Start1(th) /\ ~Stop1(th) /\ ~Start3(th)
      BY <1>0 DEF Start1, Stop1, Start3, At
    <3> QED
      BY <1>4, <2>2, <2>3, <3>1 DEF Calls
  <2> QED
    BY <2>1, <2>3
<1>5. CASE Environment
  <2>1. CASE Opens \/ Request
    <3>1. call["sio"].op = "" /\ \E c : call' = [call EXCEPT !["sio"] = c]
      BY <2>1 DEF Opens, Request, Begins
    <3> QED
      BY <3>1
  <2>2. CASE \E h \in Hosts, content \in SUBSET Containers : DockerMessage(h, content)
    <3>1. call["main"].op = "" /\ (call' = call \/ \E c : call' = [call EXCEPT !["main"] = c])
      BY <2>2 DEF DockerMessage, MainFree, Begins
    <3> QED
      BY <3>1
  <2> QED
    BY <1>1, <1>5, <2>1, <2>2 DEF Environment, NodeUp, NodeChanges, NodeDown, Drops, flow
<1>6. ASSUME Run, ~RunEmit, ~RunEnd
      PROVE  UNCHANGED call
  BY <1>6 DEF Run, RunBegin, RunBeginFails, RunTopics, RunTopicsFail, RunPubs, RunSubs,
              RunEndsFail, RunCompare, RunServices, RunServicesFail, RunIdls, RunBuild, flow
<1> QED
  BY <1>1, <1>2, <1>3, <1>4, <1>5, <1>6 DEF Next, vars, flow

LEMMA OnKept ==
    ASSUME CloudInv, CallInv, TimerInv, OnInv, [Next]_vars
    PROVE  OnInv'
<1> SUFFICES ASSUME up' PROVE OnInv'
  BY DEF OnInv
<1>1. CASE Opens
  <2>1. call'["sio"].op = "report" /\ call'["sio"].at = 1
    BY <1>1, Opened DEF Opens, Drops
  <2> QED
    BY <2>1 DEF OnInv, Reporting
<1>2. CASE Report
  <2>1. CASE cloud' = Told("on", on) /\ UNCHANGED <<up, on>>
    BY <2>1, ToldFields DEF OnInv, Told5
  <2>2. CASE call'["sio"].op = "report" /\ call'["sio"].at \in {2, 3, 4, 5}
    BY <2>2 DEF OnInv, Reporting
  <2> QED
    BY <1>2, <2>1, <2>2, ReportSteps
<1>3. ASSUME NEW th \in Threads, Start2(th) \/ Stop3(th)
      PROVE  OnInv'
  <2>1. cloud' = Told("on", on) /\ UNCHANGED <<up, on>>
    BY <1>3 DEF Start2, Stop3
  <2> QED
    BY <2>1, ToldFields DEF OnInv, Told5
<1>4. ASSUME NEW th \in Threads, Start1(th) \/ Stop1(th), on' # on
      PROVE  OnInv'
  <2>1. Telling(th)'
    BY <1>4 DEF Start1, Stop1, Moves, At, Telling, CallInv, CallRecords, Threads
  <2> QED
    BY <2>1 DEF OnInv
<1>5. CASE /\ ~Opens /\ ~Report /\ ~\E th \in Threads : Start2(th) \/ Stop3(th)
           /\ ~\E th \in Threads : (Start1(th) \/ Stop1(th)) /\ on' # on
  <2>1. up /\ (Reporting(5) => Reporting(5)')
    BY <1>5, OtherSteps DEF StillReporting, Reporting
  <2>2. (\E th \in Threads : Telling(th)) => \E th \in Threads : Telling(th)'
    BY <1>5, TellingKept
  <2>3. cloud'.on = cloud.on
    <3>1. ASSUME NEW w \in Told5 \ {"on"}, NEW v, cloud' = Told(w, v)
          PROVE  cloud'.on = cloud.on
      BY <3>1, ToldFields DEF Told5
    <3>2. CASE RunIdls \/ RunEmit
      BY <3>1, <3>2 DEF RunIdls, RunEmit, Told5
    <3>3. CASE RunEnd
      BY <3>3 DEF RunEnd, CloudInv, Told5
    <3>4. CASE \E h \in Hosts, content \in SUBSET Containers : DockerMessage(h, content)
      BY <3>1, <3>4 DEF DockerMessage, Told5
    <3> QED
      BY <1>5, <3>2, <3>3, <3>4, Tellers
  <2>4. on' = on
    <3>1. CASE Run
      BY <3>1 DEF Run, RunBegin, RunBeginFails, RunTopics, RunTopicsFail, RunPubs, RunSubs,
         RunEndsFail, RunCompare, RunServices, RunServicesFail, RunIdls, RunBuild, RunEmit,
         RunEnd, flow
    <3>2. CASE \E th \in Threads : Calls(th)
      BY <1>5, <3>2 DEF Calls, Start3, Stop2
    <3>3. CASE Environment \/ UNCHANGED vars
      BY <3>3 DEF Environment, NodeUp, NodeChanges, NodeDown, Opens, Drops, Request,
                  DockerMessage, flow, vars
    <3> QED
      BY <3>1, <3>2, <3>3 DEF Next, Threads
  <2> QED
    BY <2>1, <2>2, <2>3, <2>4 DEF OnInv
<1> QED
  BY <1>1, <1>2, <1>3, <1>4, <1>5

-----------------------------------------------------------------------------
\* A run that changes what it shows of the nodes will send it, or it is noted
\* that the change was forgotten.
LEMMA ShownOrPending ==
    ASSUME CloudInv, FoundInv, RunInv, ViewInv, Run, ~RunEmit
    PROVE  /\ WithoutChecks(view') = WithoutChecks(view) \/ Pending'
           /\ Pending => Pending' \/ lost'
           /\ lost => lost'
           /\ UNCHANGED <<up, late>> /\ cloud'.nodes = cloud.nodes
           /\ run'.at = "emit" => view' = view /\ run'.msg = WithoutChecks(view)
<1> USE DEF FoundInv, RunFields, Pending, maps, flow, out
<1>1. CASE RunBegin
  <2>1. /\ run' = [NoRun EXCEPT !.at = "topics", !.nodes = DOMAIN graph,
                                !.flags = IF DOMAIN graph # DOMAIN view THEN {"nodes"} ELSE {}]
        /\ view' = [n \in DOMAIN graph |-> IF n \in DOMAIN view THEN view[n] ELSE NoInfo]
        /\ run.at = "idle" /\ UNCHANGED <<up, out>>
    BY <1>1 DEF RunBegin, MainFree
  <2>2. run'.at = "topics"
        /\ run'.flags = IF DOMAIN graph # DOMAIN view THEN {"nodes"} ELSE {}
    BY <2>1 DEF NoRun
  <2>3. CASE DOMAIN graph # DOMAIN view
    BY <2>1, <2>2, <2>3
  <2>4. CASE DOMAIN graph = DOMAIN view
    <3>1. view' = [n \in DOMAIN view |-> view[n]]
      BY <2>1, <2>4
    <3>2. view' = view
      BY <3>1 DEF ViewInv
    <3> QED
      BY <2>1, <2>2, <3>2
  <2> QED
    BY <2>3, <2>4
<1>2. CASE RunBeginFails
  <2>1. UNCHANGED <<run, view, up, out>> /\ run.at = "idle"
    BY <1>2 DEF RunBeginFails, MainFree
  <2> QED
    BY <2>1
<1>3. CASE RunTopicsFail
  <2>1. /\ run.at = "topics" /\ run' = NoRun /\ lost' = (lost \/ "nodes" \in run.flags)
        /\ UNCHANGED <<view, up, late, cloud>>
    BY <1>3 DEF RunTopicsFail
  <2>2. run'.at = "idle"
    BY <2>1 DEF NoRun
  <2>3. Pending => "nodes" \in run.flags
    BY <2>1 DEF RunInv
  <2> QED
    BY <2>1, <2>2, <2>3
<1>4. CASE RunTopics
  <2>1. /\ run.at = "topics" /\ run'.at = "pubs" /\ run.flags \subseteq run'.flags
        /\ UNCHANGED <<view, up, out>>
    BY <1>4 DEF RunTopics
  <2> QED
    BY <2>1
<1>5. CASE Searching
  BY <1>5, Searched
<1>6. CASE RunCompare
  <2>1. /\ run.at = "pubs" /\ run'.at = "services" /\ run.flags \subseteq run'.flags
        /\ UNCHANGED <<up, out>>
        /\ WithoutChecks(view') # WithoutChecks(view) => "nodes" \in run'.flags
    BY <1>6 DEF RunCompare
  <2> QED
    BY <2>1
<1>7. ASSUME NEW n \in Nodes, RunServices(n)
      PROVE  /\ view' = view \/ Pending'
             /\ Pending => Pending'
             /\ UNCHANGED <<up, out>> /\ run'.at = "services"
  <2> DEFINE new == {s \in graph[n].services : s[1] \notin Hidden /\ s[2] \notin Hidden}
                      \ view[n].services
             old == {s \in view[n].services : \A m \in new : m[1] # s[1]}
  <2>1. /\ run.at = "services" /\ run'.at = "services" /\ run.flags \subseteq run'.flags
        /\ new # {} => "services" \in run'.flags
        /\ view' = [view EXCEPT ![n].services = old \cup new]
        /\ n \in DOMAIN view
        /\ UNCHANGED <<up, out>>
    BY <1>7 DEF RunServices, RunInv
  <2>2. CASE new = {}
    <3>1. old \cup new = view[n].services
      BY <2>2
    <3> HIDE DEF old, new
    <3>2. view' = view
      BY <2>1, <3>1 DEF ViewInv, ViewInfo
    <3> QED
      BY <2>1, <3>2
  <2>3. CASE new # {}
    BY <2>1, <2>3
  <2> QED
    BY <2>2, <2>3
<1>8. CASE RunIdls
  <2>1. cloud'.nodes = cloud.nodes
    BY <1>8, ToldFields DEF RunIdls, Told5
  <2> QED
    BY <1>8, <2>1 DEF RunIdls
<1>9. CASE RunBuild
  BY <1>9 DEF RunBuild
<1>10. CASE RunEnd
  <2>1. /\ run.at = "peers" /\ run' = NoRun /\ UNCHANGED <<view, up, lost, late>>
        /\ cloud'.nodes = cloud.nodes
    BY <1>10 DEF RunEnd, CloudInv, Told5
  <2> QED
    BY <2>1 DEF NoRun
<1> QED
  BY <1>1, <1>2, <1>3, <1>4, <1>5, <1>6, <1>7, <1>8, <1>9, <1>10 DEF Run, Searching

\* No other step touches what a run has found of the nodes.
LEMMA NodesStill ==
    ASSUME CloudInv, CallInv, [Next]_vars, ~Run, ~Report
    PROVE  /\ UNCHANGED <<run, view, lost, late>> /\ cloud'.nodes = cloud.nodes
<1>1. UNCHANGED <<run, view>>
  BY Writers DEF Run
<1>2. UNCHANGED <<lost, late>>
  <2>1. CASE \E th \in Threads : Calls(th)
    BY <2>1 DEF Calls, Start1, Start2, Start3, Stop1, Stop2, Stop3, out
  <2>2. CASE Environment \/ UNCHANGED vars
    BY <2>2 DEF Environment, NodeUp, NodeChanges, NodeDown, Opens, Drops, Request,
                DockerMessage, out, vars
  <2> QED
    BY <2>1, <2>2 DEF Next, Threads
<1>3. cloud'.nodes = cloud.nodes
  <2>1. ASSUME NEW w \in Told5 \ {"nodes"}, NEW v, cloud' = Told(w, v)
        PROVE  cloud'.nodes = cloud.nodes
    BY <2>1, ToldFields DEF Told5
  <2>2. CASE \E th \in Threads : Start2(th) \/ Stop3(th)
    BY <2>1, <2>2 DEF Start2, Stop3, Told5
  <2>3. CASE \E h \in Hosts, content \in SUBSET Containers : DockerMessage(h, content)
    BY <2>1, <2>3 DEF DockerMessage, Told5
  <2> QED
    BY <2>2, <2>3, Tellers DEF Run
<1> QED
  BY <1>1, <1>2, <1>3

LEMMA NodesUntold ==
    ASSUME CloudInv, NEW w \in Told5 \ {"nodes"}, NEW v, cloud' = Told(w, v)
    PROVE  cloud'.nodes = cloud.nodes
<1> QED
  BY ToldFields DEF Told5

LEMMA AfterNodes == 4 \notin 1..3 /\ 5 \notin 1..3
<1> QED
  OBVIOUS

LEMMA NodesKept ==
    ASSUME CloudInv, FoundInv, RunInv, ViewInv, CallInv, NodesInv, [Next]_vars
    PROVE  NodesInv'
<1> DEFINE V == WithoutChecks(view)
           Sent(k) == call["sio"].op = "report" /\ call["sio"].at = k
<1>1. CASE Report
  <2>1. /\ UNCHANGED <<run, view, up>> /\ call["sio"].op = "report"
        /\ V' = V /\ (Pending' <=> Pending)
    BY <1>1, ReportSteps DEF maps, Pending
  <2>2. run'.at = "emit" => run'.msg = V'
    BY <2>1 DEF NodesInv
  <2>3. CASE /\ call["sio"].at = 3 /\ cloud' = Told("nodes", call["sio"].msg)
             /\ call'["sio"].at = 4
             /\ late' = call["sio"].newer /\ lost' = (lost /\ call["sio"].msg # V)
    <3>1. up => cloud'.nodes = call["sio"].msg
      BY <2>3, ToldFields DEF Told5
    <3>2. call["sio"].msg = V \/ lost \/ call["sio"].newer \/ Pending
      BY <2>1, <2>3 DEF NodesInv
    <3>3. ~Sent(3)'
      BY <2>3
    <3> QED
      BY <2>1, <2>2, <2>3, <3>1, <3>2, <3>3 DEF NodesInv
  <2>4. CASE /\ call["sio"].at = 2 /\ UNCHANGED <<cloud, lost, late>>
             /\ call'["sio"].op = "report" /\ call'["sio"].at = 3 /\ call'["sio"].msg = V
    BY <2>1, <2>2, <2>4 DEF NodesInv, Reporting
  <2>5. CASE call'["sio"].op = "report" /\ call'["sio"].at = 2
    BY <2>1, <2>2, <2>5 DEF NodesInv, Reporting
  <2>6. ASSUME call["sio"].at \in {4, 5}, UNCHANGED <<lost, late>>,
               NEW w \in Told5 \ {"nodes"}, NEW v, cloud' = Told(w, v),
               call'["sio"].op = "" \/ call'["sio"].at = 5
        PROVE  NodesInv'
    <3>1. cloud'.nodes = cloud.nodes
      BY <2>6, NodesUntold
    <3>2. ~Reporting(3)
      BY <2>6, AfterNodes DEF Reporting
    <3>3. ~Sent(3)'
      <4>1. CASE call'["sio"].op = ""
        BY <4>1
      <4>2. CASE call'["sio"].at = 5
        BY <4>2
      <4> QED
        BY <2>6, <4>1, <4>2
    <3> QED
      BY <2>1, <2>2, <2>6, <3>1, <3>2, <3>3 DEF NodesInv
  <2> HIDE DEF Sent
  <2> QED
    BY <1>1, <2>3, <2>4, <2>5, <2>6, ReportSteps DEF Told5
<1>2. CASE Opens /\ ~Report
  <2>1. call'["sio"].op = "report" /\ call'["sio"].at = 1
    BY <1>2, Opened DEF Opens, Drops
  <2>2. ~Sent(3)' /\ Reporting(3)'
    BY <2>1 DEF Reporting
  <2>3. UNCHANGED <<run, view>>
    BY <1>2 DEF Opens, maps
  <2> QED
    BY <2>2, <2>3 DEF NodesInv
<1>3. ASSUME ~Opens, ~Report
      PROVE  /\ up' => up
             /\ Reporting(3) => Reporting(3)'
             /\ Sent(3)' => Sent(3) /\ call'["sio"].msg = call["sio"].msg
                            /\ (RunEmit \/ call'["sio"].newer = call["sio"].newer)
  <2>1. up' => up
    BY <1>3, Opened DEF Drops
  <2>2. StillReporting
    BY <1>3, Reports
  <2>3. Reporting(3) => Reporting(3)'
    BY <2>2 DEF StillReporting, Reporting
  <2>4. Sent(3)' => Sent(3) /\ call'["sio"].msg = call["sio"].msg
                    /\ (RunEmit \/ call'["sio"].newer = call["sio"].newer)
    BY <2>2 DEF StillReporting
  <2> QED
    BY <2>1, <2>3, <2>4
<1>4. CASE ~Run /\ ~Report /\ ~Opens
  <2>1. /\ UNCHANGED <<run, view, lost, late>> /\ cloud'.nodes = cloud.nodes
        /\ ~RunEmit
    BY <1>4, NodesStill DEF Run
  <2> QED
    BY <1>3, <1>4, <2>1 DEF NodesInv, Pending
<1>5. CASE RunEmit /\ ~Report /\ ~Opens
  <2>1. /\ run.at = "emit" /\ run'.at = "peers" /\ cloud' = Told("nodes", run.msg)
        /\ UNCHANGED <<view, up>>
        /\ call' = [call EXCEPT !["sio"].newer = (call["sio"].op = "report")]
    BY <1>5 DEF RunEmit, maps, FoundInv, RunFields
  <2>2. Sent(3)' => call'["sio"].newer
    BY <2>1 DEF CallInv, CallRecords, Threads
  <2>3. up => cloud'.nodes = V'
    BY <2>1, ToldFields DEF NodesInv, Told5
  <2> QED
    BY <2>1, <2>2, <2>3 DEF NodesInv
<1>6. CASE Run /\ ~RunEmit /\ ~Report /\ ~Opens
  <2>1. /\ V' = V \/ Pending'
        /\ Pending => Pending' \/ lost'
        /\ lost => lost'
        /\ UNCHANGED <<up, late>> /\ cloud'.nodes = cloud.nodes
        /\ run'.at = "emit" => run'.msg = V'
    BY <1>6, ShownOrPending
  <2> HIDE DEF V, Sent
  <2>2. Sent(3)' => call'["sio"].msg = V' \/ lost' \/ call'["sio"].newer \/ Pending'
    <3>1. SUFFICES ASSUME Sent(3)'
                   PROVE  call'["sio"].msg = V' \/ lost' \/ call'["sio"].newer \/ Pending'
      OBVIOUS
    <3>2. /\ Sent(3) /\ call'["sio"].msg = call["sio"].msg
          /\ call'["sio"].newer = call["sio"].newer
      BY <1>3, <1>6, <3>1
    <3>3. call["sio"].msg = V \/ lost \/ call["sio"].newer \/ Pending
      BY <3>2 DEF NodesInv, Sent, V
    <3> QED
      BY <2>1, <3>2, <3>3
  <2>3. up' => cloud'.nodes = V' \/ lost' \/ late' \/ Pending' \/ Reporting(3)'
    BY <1>3, <1>6, <2>1 DEF NodesInv, V
  <2> QED
    BY <2>1, <2>2, <2>3 DEF NodesInv, Sent, V
<1>7. RunEmit => Run
  BY DEF Run
<1> HIDE DEF V, Sent
<1> QED
  BY <1>1, <1>2, <1>4, <1>5, <1>6, <1>7

LEMMA ToldInitial == Init => ToldInv
<1> SUFFICES ASSUME Init PROVE ToldInv
  OBVIOUS
<1>1. DOMAIN cloud = Told5 /\ cloud.peers = {} /\ ~up /\ DOMAIN known = {}
  BY DEF Init, Told5
<1>2. run.at = "idle"
  BY DEF Init, NoRun
<1>3. call["sio"].op = ""
  <2>1. call["sio"] = NoCall
    BY DEF Init
  <2>2. NoCall.op = ""
    BY DEF NoCall
  <2> QED
    BY <2>1, <2>2
<1> QED
  BY <1>1, <1>2, <1>3 DEF ToldInv, CloudInv, PeersInv, IdlsInv, HostsInv, OnInv, NodesInv

LEMMA ToldKept ==
    ASSUME AlarmInv, InfoInv, TimerInv, ToldInv, [Next]_vars
    PROVE  ToldInv'
<1>1. CloudInv'
  BY CloudKept DEF ToldInv
<1>2. PeersInv'
  BY PeersKept DEF AlarmInv, InfoInv, ToldInv
<1>3. IdlsInv'
  BY IdlsKept DEF AlarmInv, InfoInv, ToldInv
<1>4. HostsInv'
  BY HostsKept DEF InfoInv, ToldInv
<1>5. OnInv'
  BY OnKept DEF InfoInv, ToldInv
<1>6. NodesInv'
  BY NodesKept DEF AlarmInv, InfoInv, ToldInv
<1> QED
  BY <1>1, <1>2, <1>3, <1>4, <1>5, <1>6 DEF ToldInv

\* reportNodes, reportIdls and the others tell what the maps hold: when neither
\* runIntrospection nor a start(), stop() or report() is under way, the peers
\* know all topics and, while the socket is open, the cloud has the nodes, the
\* IDLs, the Docker containers and the state of discovery as they are; the
\* nodes with the two exceptions of ChangesAreTold.
THEOREM ChangesCorrect == Spec => []ChangesAreTold
<1>1. AlarmInv /\ InfoInv /\ TimerInv /\ ToldInv => ChangesAreTold
  <2> SUFFICES ASSUME ToldInv, Quiet PROVE ChangesAreTold
    BY DEF ChangesAreTold
  <2>1. run.at = "idle" /\ ~Pending
    BY DEF Quiet, Pending
  <2>2. \A k : ~Reporting(k)
    BY DEF Quiet, Reporting
  <2>3. \A th \in Threads : ~Telling(th)
    BY DEF Quiet, Telling, Threads
  <2>4. cloud.peers = DOMAIN known
    BY <2>1 DEF ToldInv, PeersInv
  <2>5. ASSUME up
        PROVE  /\ cloud.nodes = WithoutChecks(view) \/ lost \/ late
               /\ cloud.idls = idls /\ cloud.docker = docker /\ cloud.on = on
    BY <2>1, <2>2, <2>3, <2>5 DEF ToldInv, IdlsInv, HostsInv, OnInv, NodesInv
  <2> QED
    BY <2>4, <2>5 DEF ChangesAreTold
<1>2. Spec => [](AlarmInv /\ InfoInv)
  BY InfoCorrect
<1>3. Spec => []TimerInv
  BY TimerInitial, TimerInductive, PTL DEF Spec
<1>4. AlarmInv /\ InfoInv /\ TimerInv /\ ToldInv /\ [Next]_vars => ToldInv'
  BY ToldKept
<1> QED
  BY <1>1, <1>2, <1>3, <1>4, ToldInitial, PTL DEF Spec
=============================================================================
