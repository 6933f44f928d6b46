------------------------- MODULE TopicFanoutProofs -------------------------
(***************************************************************************)
(* Theorems of TopicFanout for any peers, topics and number of inputs.      *)
(***************************************************************************)
EXTENDS TopicFanout, TLAPS

-----------------------------------------------------------------------------
(* The inductive invariant                                                  *)

Busy == {"add", "remove", "destroy"}
Closing == {"close", "remove", "destroy"}

\* A strict form of TypeOK.
Rounds == [at: Stages, topics: SUBSET Topics, cur: Topics \cup {""}, ref: Nat,
           neg: BOOLEAN, reconn: BOOLEAN, shut: BOOLEAN, dirty: BOOLEAN]
Outputs == [peer: Peers, id: Nat \ {0}, topic: Topics, gen: Nat]

PeerTypes ==
    /\ want \in [Peers -> SUBSET Topics]
    /\ known \subseteq Topics
    /\ up \in [Peers -> BOOLEAN] /\ restart \in [Peers -> BOOLEAN]
    /\ pend \in [Peers -> Nat] /\ stable \in [Peers -> BOOLEAN]
    /\ inputs \in 0..MaxInputs
ChanTypes ==
    /\ chan \in [Peers -> [Topics -> Nat]]
    /\ paused \in [Peers -> SUBSET Media]
    /\ nextId \in [Peers -> Nat \ {0}] /\ base \in [Peers -> Nat \ {0}]
ObjTypes ==
    /\ reg \in [Topics -> Nat] /\ made \in [Topics -> Nat]
    /\ outs \subseteq Outputs /\ ready \subseteq Outputs /\ erased \subseteq Outputs
    /\ subs \subseteq Topics \X Nat
RoundTypes == round \in [Peers -> Rounds]

Types == PeerTypes /\ ChanTypes /\ ObjTypes /\ RoundTypes

\* Objects are numbered as they are made; what has an output is held and
\* subscribed; what is subscribed has an output, or a round holds it.
ObjInv ==
    /\ \A t \in Topics : reg[t] <= made[t]
    /\ \A p \in Peers : round[p].at \in Busy => round[p].ref <= made[round[p].cur]
    /\ \A o \in outs :
         o.gen # 0 /\ Held(reg, round, o.topic, o.gen) /\ <<o.topic, o.gen>> \in subs
    /\ \A s \in subs :
         /\ s[2] # 0 /\ s[2] <= made[s[1]]
         /\ \/ \E o \in outs : o.topic = s[1] /\ o.gen = s[2]
            \/ \E p \in Peers : round[p].cur = s[1] /\ round[p].ref = s[2]

\* What a round has in hand at each of its stages, and what asks for another.
RoundInv(p) ==
    /\ round[p].at \in Busy => round[p].cur \in Topics
    /\ round[p].at \in {"add", "destroy"} => round[p].ref # 0
    /\ round[p].at \notin Busy => round[p].ref = 0
    /\ round[p].at = "idle" => ~round[p].neg
    /\ round[p].at = "negotiate" => round[p].neg
    /\ round[p].at \in {"remove", "destroy"} => round[p].shut \/ round[p].cur \in Media
    /\ round[p].dirty => pend[p] > 0
    /\ ~up[p] => want[p] = {}

\* Channel numbers grow, and a replaced pc leaves only lower ones.
IdInv(p) ==
    /\ \A o \in outs \cup ready \cup erased : o.peer = p => o.id < nextId[p]
    /\ base[p] <= nextId[p]
    /\ \A t \in Topics :
         /\ chan[p][t] < nextId[p]
         /\ chan[p][t] = 0 \/ t \in Media \/ chan[p][t] >= base[p]

InUse(p, t) == chan[p][t] # 0 /\ t \notin paused[p]

\* What a round adds is open, what it is still to close is open and in use.
CloseInv(p) ==
    /\ round[p].at = "add" => InUse(p, round[p].cur)
    /\ round[p].at \in {"remove", "destroy"} => round[p].cur \in round[p].topics
    /\ round[p].at \in Closing =>
         \A t \in round[p].topics : InUse(p, t) /\ (t \in want[p] => pend[p] > 0)

\* What the peer asked for is open once its rounds have seen it, and what it
\* did not ask for is closed, paused, or about to be closed.
Seen(p) == pend[p] = 0 /\ round[p].at \notin {"open", "add"}
WantInv(p) ==
    /\ round[p].at \in {"open", "add"} => \A t \in round[p].topics : InUse(p, t)
    /\ Seen(p) => \A t \in Visible(p) : InUse(p, t)
    /\ Seen(p) => \A t \in Topics :
         InUse(p, t) => t \in want[p] \/ (round[p].at \in Closing /\ t \in round[p].topics)

\* A channel in use is an output of the registered object, but while its round
\* has just opened it or just removed it.
In(p, t) == \E o \in outs : o.peer = p /\ o.topic = t /\ o.id = chan[p][t] /\ o.gen = reg[t]
Erased(p, t) == \E o \in erased : o.peer = p /\ o.topic = t /\ o.id = chan[p][t] /\ o.gen = 0
OutInv(p) ==
    \A t \in Topics :
      InUse(p, t) => \/ In(p, t) \/ Erased(p, t)
                     \/ round[p].at \in {"add", "destroy"} /\ round[p].cur = t

\* A round about to remove an output holds the registered object that has it.
RemoveInv(p) ==
    \A o \in outs :
      /\ o.peer = p /\ o.topic = round[p].cur /\ o.id = chan[p][o.topic]
      /\ o.gen = reg[o.topic]
      => /\ round[p].at = "remove" => o.gen = round[p].ref
         /\ round[p].at # "destroy"

\* NoOutputAfterClose, of one peer.
ClosedInv(p) ==
    \A o \in outs : o.peer = p =>
      \/ chan[p][o.topic] = o.id /\ o.topic \notin paused[p]
      \/ o.id < base[p]
      \/ reg[o.topic] # o.gen

\* New outputs and tracks are marked ready, or a callback is on its way or
\* will be.  A round that adds a channel it did not open finds it added.
Awaits(p) == stable[p] \/ round[p].neg
Ready(p, t, g) == \E o \in ready : o.peer = p /\ o.topic = t /\ o.id = chan[p][t] /\ o.gen = g
ReadyInv(p) ==
    up[p] =>
      /\ \A t \in Data : chan[p][t] # 0 /\ In(p, t) =>
           Ready(p, t, reg[t]) \/ Erased(p, t) \/ Awaits(p)
      /\ \A t \in Media : chan[p][t] >= base[p] => Ready(p, t, 0) \/ Awaits(p)
      /\ round[p].at = "add" /\ round[p].cur \in Data =>
           round[p].neg \/ In(p, round[p].cur) \/ Erased(p, round[p].cur)

PeerInv(p) == /\ RoundInv(p) /\ IdInv(p) /\ CloseInv(p) /\ WantInv(p) /\ OutInv(p)
              /\ RemoveInv(p) /\ ClosedInv(p) /\ ReadyInv(p)

IInv == Types /\ ObjInv /\ \A p \in Peers : PeerInv(p)

-----------------------------------------------------------------------------
(* What a step of one peer's round leaves to the others                     *)

LEMMA SameOutput ==
    ASSUME NEW o \in Outputs, NEW e \in Outputs,
           o.peer = e.peer, o.id = e.id, o.topic = e.topic, o.gen = e.gen
    PROVE  o = e
<1> QED
  BY DEF Outputs

Local(p) ==
    /\ \A q \in Peers \ {p} :
         /\ chan'[q] = chan[q] /\ paused'[q] = paused[q] /\ nextId'[q] = nextId[q]
         /\ base'[q] = base[q] /\ pend'[q] = pend[q] /\ round'[q] = round[q]
         /\ stable'[q] = stable[q]
    /\ UNCHANGED <<want, known, up>>

\* Objects are registered or unregistered; another peer's outputs of an object
\* that stays registered stay, those of one that does not are recorded.
Objects(p) ==
    /\ \A t \in Topics : \/ reg'[t] = reg[t] \/ reg'[t] = 0
                         \/ reg[t] = 0 /\ reg'[t] > made[t]
    /\ \A o \in outs' : o.peer # p => o \in outs
    /\ \A o \in ready' : o.peer # p => o \in ready
    /\ \A o \in erased' : o.peer # p => \E e \in outs \cup erased : e.peer = o.peer /\ e.id = o.id
    /\ erased \subseteq erased'
    /\ \A o \in outs : o.peer # p /\ o.gen = reg[o.topic] =>
         \/ o \in outs' /\ reg'[o.topic] = reg[o.topic]
         \/ \E e \in erased' : e.peer = o.peer /\ e.topic = o.topic /\ e.id = o.id /\ e.gen = 0
    /\ \A o \in ready : o.peer # p /\ (o.gen = 0 \/ o \in outs') => o \in ready'

LEMMA OthersKept ==
    ASSUME IInv, NEW p \in Peers, Local(p), Objects(p), NEW q \in Peers \ {p},
           round' \in [Peers -> Rounds]
    PROVE  PeerInv(q)'
<1>1. PeerInv(q)
  BY DEF IInv
<1>2. /\ chan'[q] = chan[q] /\ paused'[q] = paused[q] /\ nextId'[q] = nextId[q]
      /\ base'[q] = base[q] /\ pend'[q] = pend[q] /\ round'[q] = round[q]
      /\ stable'[q] = stable[q] /\ UNCHANGED <<want, known, up>>
  BY DEF Local
<1>3. /\ \A o \in outs : o \in Outputs /\ o.gen # 0 /\ o.gen <= made[o.topic]
      /\ ready \subseteq Outputs
  BY DEF IInv, Types, ObjTypes, ObjInv
<1>4. \A o \in outs' : o.peer = q /\ o.gen = reg'[o.topic] =>
        o \in outs /\ o.gen = reg[o.topic]
  <2> TAKE o \in outs'
  <2> HAVE o.peer = q /\ o.gen = reg'[o.topic]
  <2>1. o \in outs
    BY DEF Objects
  <2>2. o.gen # 0 /\ o.gen \in Nat /\ o.topic \in Topics /\ o.gen <= made[o.topic]
    BY <1>3, <2>1 DEF Outputs
  <2> QED
    BY <2>1, <2>2 DEF Objects, IInv, Types, ObjTypes
<1>5. \A t \in Topics : In(q, t)' => In(q, t)
  BY <1>2, <1>4 DEF In
<1>6. \A t \in Topics : Erased(q, t) => Erased(q, t)'
  BY <1>2 DEF Erased, Objects
<1>7. \A t \in Topics : In(q, t) => In(q, t)' \/ Erased(q, t)'
  BY <1>2 DEF In, Erased, Objects
<1>8. RoundInv(q)' /\ CloseInv(q)' /\ WantInv(q)'
  BY <1>1, <1>2 DEF PeerInv, RoundInv, CloseInv, WantInv, InUse, Seen, Visible
<1>9. IdInv(q)'
  BY <1>1, <1>2 DEF PeerInv, IdInv, Objects
<1>10. OutInv(q)'
  BY <1>1, <1>2, <1>6, <1>7 DEF PeerInv, OutInv, InUse
<1>11. RemoveInv(q)'
  BY <1>1, <1>2, <1>4 DEF PeerInv, RemoveInv
<1>12. ClosedInv(q)'
  BY <1>1, <1>2, <1>4 DEF PeerInv, ClosedInv
<1>13. ReadyInv(q)'
  <2> SUFFICES ASSUME up[q] PROVE ReadyInv(q)'
    BY <1>2 DEF ReadyInv
  <2>1. ReadyInv(q) /\ (Awaits(q)' <=> Awaits(q))
    BY <1>1, <1>2 DEF PeerInv, Awaits
  <2>2. ASSUME NEW t \in Data, chan'[q][t] # 0, In(q, t)'
        PROVE  Ready(q, t, reg[t])' \/ Erased(q, t)' \/ Awaits(q)'
    <3>1. In(q, t) /\ t \in Topics
      BY <1>5, <2>2 DEF Topics
    <3>2. PICK o \in outs' : o.peer = q /\ o.topic = t /\ o.id = chan[q][t] /\ o.gen = reg'[t]
      BY <1>2, <2>2 DEF In
    <3>3. o \in outs /\ o.gen = reg[t]
      BY <1>4, <3>2
    <3>4. CASE Ready(q, t, reg[t])
      <4>1. PICK r \in ready : r.peer = q /\ r.topic = t /\ r.id = chan[q][t] /\ r.gen = reg[t]
        BY <3>4 DEF Ready
      <4>2. r = o
        BY <1>3, <3>2, <3>3, <4>1, SameOutput
      <4>3. r \in ready'
        BY <3>2, <4>1, <4>2 DEF Objects
      <4> QED
        BY <1>2, <3>2, <4>2, <4>3 DEF Ready
    <3> QED
      BY <1>2, <1>6, <2>1, <2>2, <3>1, <3>4 DEF ReadyInv
  <2>3. ASSUME NEW t \in Media, chan'[q][t] >= base'[q]
        PROVE  Ready(q, t, 0)' \/ Awaits(q)'
    BY <1>2, <2>1, <2>3 DEF ReadyInv, Ready, Objects
  <2>4. ASSUME round'[q].at = "add", round'[q].cur \in Data
        PROVE  (round[q].neg \/ In(q, round[q].cur) \/ Erased(q, round[q].cur))'
    <3> DEFINE t == round[q].cur
    <3>1. round'[q] = round[q] /\ t \in Topics /\ t' = t
      BY <1>2, <2>4 DEF Topics
    <3>2. round[q].neg \/ In(q, t) \/ Erased(q, t)
      BY <2>1, <2>4, <3>1 DEF ReadyInv
    <3> HIDE DEF t
    <3>3. In(q, t) => In(q, t)' \/ Erased(q, t)'
      BY <1>2, <1>6, <1>7, <3>1 DEF In, Erased, Objects
    <3> QED
      BY <1>6, <1>7, <3>1, <3>2, <3>3 DEF t
  <2> QED
    BY <2>2, <2>3, <2>4 DEF ReadyInv
<1> QED
  BY <1>8, <1>9, <1>10, <1>11, <1>12, <1>13 DEF PeerInv

-----------------------------------------------------------------------------
(* The steps of a round                                                     *)

LEMMA OpenKeeps ==
    ASSUME IInv, NEW p \in Peers, NEW t \in Topics, Open(p, t)
    PROVE  IInv' /\ Local(p) /\ Objects(p)
<1> DEFINE fresh == chan[p][t] = 0
<1>0. /\ round[p].at = "open" /\ t \in Visible(p) /\ t \notin round[p].topics
      /\ Types /\ ObjInv /\ PeerInv(p)
  BY DEF Open, IInv
<1>1. /\ made' \in [Topics -> Nat] /\ reg' \in [Topics -> Nat]
      /\ reg[t] = 0 => made'[t] = made[t] + 1 /\ reg'[t] = made'[t]
      /\ reg[t] # 0 => made'[t] = made[t] /\ reg'[t] = reg[t]
      /\ \A v \in Topics \ {t} : made'[v] = made[v] /\ reg'[v] = reg[v]
      /\ UNCHANGED <<outs, ready, subs, erased>>
  BY <1>0 DEF Open, Types, ObjTypes
<1>2. /\ chan' \in [Peers -> [Topics -> Nat]] /\ nextId' \in [Peers -> Nat \ {0}]
      /\ fresh => chan'[p][t] = nextId[p] /\ nextId'[p] = nextId[p] + 1
      /\ ~fresh => chan'[p][t] = chan[p][t] /\ nextId'[p] = nextId[p]
      /\ \A v \in Topics \ {t} : chan'[p][v] = chan[p][v]
      /\ \A q \in Peers \ {p} : chan'[q] = chan[q] /\ nextId'[q] = nextId[q]
      /\ base' = base
  BY <1>0 DEF Open, Types, ChanTypes
<1>3. /\ round' \in [Peers -> Rounds]
      /\ round'[p].at = "add" /\ round'[p].cur = t /\ round'[p].ref = reg'[t]
      /\ round'[p].neg = (round[p].neg \/ fresh)
      /\ round'[p].topics = round[p].topics /\ round'[p].dirty = round[p].dirty
      /\ \A q \in Peers \ {p} : round'[q] = round[q]
  <2> DEFINE new == [round[p] EXCEPT !.at = "add", !.cur = t,
                                     !.neg = round[p].neg \/ fresh, !.ref = reg'[t]]
  <2>1. round[p] \in Rounds /\ reg'[t] \in Nat
    BY <1>0, <1>1 DEF Types, RoundTypes
  <2>2. /\ new \in Rounds
        /\ new.at = "add" /\ new.cur = t /\ new.ref = reg'[t]
        /\ new.neg = (round[p].neg \/ fresh)
        /\ new.topics = round[p].topics /\ new.dirty = round[p].dirty
    BY <2>1 DEF Rounds, Stages
  <2>3. round' = [round EXCEPT ![p] = new]
    BY DEF Open
  <2> HIDE DEF new
  <2> QED
    BY <1>0, <2>2, <2>3 DEF Types, RoundTypes
<1>4. /\ paused' \in [Peers -> SUBSET Media]
      /\ paused'[p] = paused[p] \ {t}
      /\ \A q \in Peers \ {p} : paused'[q] = paused[q]
  BY <1>0 DEF Open, Types, ChanTypes
<1>5. UNCHANGED <<want, known, up, restart, pend, stable, inputs>>
  BY DEF Open, peerVars
<1>6. Types'
  BY <1>0, <1>1, <1>2, <1>3, <1>4, <1>5
  DEF Types, PeerTypes, ChanTypes, ObjTypes, RoundTypes
<1>7. ObjInv'
  <2>1. \A v \in Topics : reg'[v] <= made'[v] /\ made[v] <= made'[v]
    BY <1>0, <1>1 DEF Types, ObjTypes, ObjInv
  <2>2. ASSUME NEW q \in Peers, round'[q].at \in Busy
        PROVE  round'[q].ref <= made'[round'[q].cur]
    <3>1. CASE q = p
      BY <1>1, <1>3, <2>1, <3>1
    <3>2. CASE q # p
      <4>1. round'[q] = round[q] /\ round[q].cur \in Topics
            /\ round[q].ref <= made[round[q].cur] /\ round[q].ref \in Nat
        BY <1>0, <1>3, <2>2, <3>2
        DEF IInv, PeerInv, RoundInv, ObjInv, Types, RoundTypes, Rounds
      <4> QED
        BY <1>0, <1>1, <2>1, <4>1 DEF Types, ObjTypes
    <3> QED
      BY <3>1, <3>2
  <2>3. \A v \in Topics, g \in Nat \ {0} : Held(reg, round, v, g) => Held(reg', round', v, g)
    BY <1>0, <1>1, <1>3 DEF PeerInv, RoundInv, Busy, Held
  <2>4. \A q \in Peers : round[q].ref # 0 => round'[q] = round[q]
    BY <1>0, <1>3 DEF PeerInv, RoundInv, Busy
  <2>5. \A o \in outs' :
          o.gen # 0 /\ Held(reg', round', o.topic, o.gen) /\ <<o.topic, o.gen>> \in subs'
    BY <1>0, <1>1, <2>3 DEF Types, ObjTypes, Outputs, ObjInv
  <2>6. ASSUME NEW s \in subs'
        PROVE  /\ s[2] # 0 /\ s[2] <= made'[s[1]]
               /\ \/ \E o \in outs' : o.topic = s[1] /\ o.gen = s[2]
                  \/ \E q \in Peers : round'[q].cur = s[1] /\ round'[q].ref = s[2]
    <3>1. s \in subs /\ s[1] \in Topics /\ s[2] \in Nat /\ s[2] # 0 /\ s[2] <= made[s[1]]
      BY <1>0, <1>1, <2>6 DEF Types, ObjTypes, ObjInv
    <3>2. s[2] <= made'[s[1]]
      BY <1>0, <1>1, <2>1, <3>1 DEF Types, ObjTypes
    <3> QED
      BY <1>0, <1>1, <2>4, <3>1, <3>2 DEF ObjInv
  <2> QED
    BY <2>1, <2>2, <2>5, <2>6 DEF ObjInv
<1>8. PeerInv(p)'
  <2>1. RoundInv(p)'
    BY <1>0, <1>1, <1>3, <1>5 DEF PeerInv, RoundInv, Types, ObjTypes, Busy
  <2>2. IdInv(p)'
    BY <1>0, <1>1, <1>2 DEF PeerInv, IdInv, Types, ChanTypes, ObjTypes, Outputs
  <2>3. InUse(p, t)' /\ \A v \in Topics \ {t} : InUse(p, v)' <=> InUse(p, v)
    BY <1>0, <1>2, <1>4 DEF Types, ChanTypes, InUse
  <2>4. CloseInv(p)' /\ WantInv(p)'
    BY <1>0, <1>3, <1>5, <2>3
    DEF Types, RoundTypes, Rounds, PeerInv, CloseInv, WantInv, Seen, Visible, Closing
  <2>5. \A v \in Topics \ {t} : (In(p, v)' <=> In(p, v)) /\ (Erased(p, v)' <=> Erased(p, v))
    BY <1>1, <1>2 DEF In, Erased
  <2>6. OutInv(p)'
    BY <1>0, <1>3, <2>3, <2>5 DEF PeerInv, OutInv
  <2>7. RemoveInv(p)'
    BY <1>3 DEF RemoveInv
  <2>8. ClosedInv(p)'
    <3> SUFFICES ASSUME NEW o \in outs, o.peer = p
                 PROVE  \/ chan'[p][o.topic] = o.id /\ o.topic \notin paused'[p]
                        \/ o.id < base[p]
                        \/ reg'[o.topic] # o.gen
      BY <1>1, <1>2 DEF ClosedInv
    <3>1. /\ o.topic \in Topics /\ o.id # 0 /\ <<o.topic, o.gen>> \in subs
          /\ \/ chan[p][o.topic] = o.id /\ o.topic \notin paused[p]
             \/ o.id < base[p]
             \/ reg[o.topic] # o.gen
      BY <1>0 DEF PeerInv, ClosedInv, ObjInv, Types, ObjTypes, Outputs
    <3>2. o.gen \in Nat /\ o.gen # 0 /\ o.gen <= made[o.topic]
      BY <1>0, <3>1 DEF ObjInv, Types, ObjTypes
    <3>3. reg[o.topic] # o.gen => reg'[o.topic] # o.gen
      BY <1>0, <1>1, <3>1, <3>2 DEF Types, ObjTypes
    <3> QED
      BY <1>2, <1>4, <3>1, <3>3
  <2>9. ReadyInv(p)'
    <3> SUFFICES ASSUME up[p] PROVE ReadyInv(p)'
      BY <1>5 DEF ReadyInv
    <3>1. ReadyInv(p) /\ (Awaits(p) => Awaits(p)') /\ (fresh => Awaits(p)')
      BY <1>0, <1>3, <1>5 DEF PeerInv, Awaits
    <3>2. ASSUME ~fresh PROVE chan' = chan
      BY <1>0, <1>2, <3>2 DEF Types, ChanTypes
    <3>3. ~fresh => \A v \in Topics : Erased(p, v)' <=> Erased(p, v)
      BY <1>1, <3>2 DEF Erased
    <3>4. ~fresh => \A v \in Topics : In(p, v)' <=> In(p, v)
      <4> SUFFICES ASSUME ~fresh, NEW v \in Topics PROVE In(p, v)' <=> In(p, v)
        OBVIOUS
      <4>1. \A o \in outs : o.gen # 0 /\ o.gen \in Nat /\ o.gen <= made[o.topic]
        BY <1>0 DEF ObjInv, Types, ObjTypes, Outputs
      <4>2. \A o \in outs : o.topic = v => (o.gen = reg'[v] <=> o.gen = reg[v])
        BY <1>0, <1>1, <4>1 DEF Types, ObjTypes
      <4> QED
        BY <1>1, <3>2, <4>2 DEF In
    <3>5. \A v \in Topics : In(p, v) => reg'[v] = reg[v]
      BY <1>0, <1>1 DEF In, ObjInv
    <3>6. ASSUME ~fresh, t \in Data PROVE In(p, t)' \/ Erased(p, t)'
      <4>1. InUse(p, t)
        BY <1>0, <3>6, TopicsAssumption DEF InUse, Types, ChanTypes
      <4> QED
        BY <1>0, <3>3, <3>4, <3>6, <4>1 DEF PeerInv, OutInv
    <3>7. CASE fresh
      BY <1>3, <3>1, <3>7 DEF ReadyInv
    <3>8. CASE ~fresh
      <4>1. \A v \in Data : chan'[p][v] # 0 /\ In(p, v)' =>
              Ready(p, v, reg[v])' \/ Erased(p, v)' \/ Awaits(p)'
        BY <1>1, <3>1, <3>2, <3>3, <3>4, <3>5, <3>8 DEF ReadyInv, Ready, Topics
      <4>2. \A v \in Media : chan'[p][v] >= base'[p] => Ready(p, v, 0)' \/ Awaits(p)'
        BY <1>1, <1>2, <3>1, <3>2, <3>8 DEF ReadyInv, Ready
      <4>3. (round[p].at = "add" /\ round[p].cur \in Data =>
               round[p].neg \/ In(p, round[p].cur) \/ Erased(p, round[p].cur))'
        BY <1>3, <3>6, <3>8 DEF In, Erased
      <4> QED
        BY <4>1, <4>2, <4>3 DEF ReadyInv
    <3> QED
      BY <3>7, <3>8
  <2> QED
    BY <2>1, <2>2, <2>4, <2>6, <2>7, <2>8, <2>9 DEF PeerInv
<1>9. Local(p)
  BY <1>2, <1>3, <1>4, <1>5 DEF Local
<1>10. Objects(p)
  <2>1. \A v \in Topics : reg'[v] = reg[v] \/ (reg[v] = 0 /\ reg'[v] > made[v])
    BY <1>0, <1>1 DEF Types, ObjTypes
  <2>2. \A o \in outs : o.gen = reg[o.topic] => reg'[o.topic] = reg[o.topic]
    BY <1>0, <1>1 DEF ObjInv, Types, ObjTypes, Outputs
  <2> QED
    BY <1>1, <2>1, <2>2 DEF Objects
<1> QED
  BY <1>3, <1>6, <1>7, <1>8, <1>9, <1>10, OthersKept DEF IInv

\* Steps that only move a round on, from a stage at which it holds nothing.
LEMMA MoveOn ==
    ASSUME IInv, NEW p \in Peers, UNCHANGED <<peerVars, chanVars, objVars, pend, erased, inputs>>,
           round' \in [Peers -> Rounds], \A q \in Peers \ {p} : round'[q] = round[q],
           round[p].ref = 0,
           round'[p].at \in Busy => round'[p].ref <= made[round'[p].cur],
           stable' \in [Peers -> BOOLEAN], \A q \in Peers \ {p} : stable'[q] = stable[q],
           RoundInv(p)', CloseInv(p)', WantInv(p)', OutInv(p)', RemoveInv(p)', ReadyInv(p)'
    PROVE  IInv' /\ Local(p) /\ Objects(p)
<1> USE DEF peerVars, chanVars, objVars
<1>1. Types'
  BY DEF IInv, Types, PeerTypes, ChanTypes, ObjTypes, RoundTypes
<1>2. ObjInv'
  <2>1. \A q \in Peers : round[q].ref # 0 => round'[q] = round[q]
    OBVIOUS
  <2>2. \A q \in Peers : round'[q].at \in Busy => round'[q].ref <= made[round'[q].cur]
    BY DEF IInv, ObjInv
  <2>3. \A v \in Topics, g \in Nat \ {0} : Held(reg, round, v, g) => Held(reg', round', v, g)
    BY <2>1 DEF Held
  <2>4. \A o \in outs :
          o.gen # 0 /\ Held(reg', round', o.topic, o.gen) /\ <<o.topic, o.gen>> \in subs
    BY <2>3 DEF IInv, Types, ObjTypes, Outputs, ObjInv
  <2>5. \A s \in subs :
          /\ s[2] # 0 /\ s[2] <= made[s[1]]
          /\ \/ \E o \in outs : o.topic = s[1] /\ o.gen = s[2]
             \/ \E q \in Peers : round'[q].cur = s[1] /\ round'[q].ref = s[2]
    BY <2>1 DEF IInv, ObjInv
  <2> QED
    BY <2>2, <2>4, <2>5 DEF IInv, ObjInv
<1>3. PeerInv(p)'
  BY DEF IInv, PeerInv, IdInv, ClosedInv
<1>4. Local(p) /\ Objects(p)
  BY DEF Local, Objects, IInv, Types, ObjTypes, Outputs
<1> QED
  BY <1>1, <1>2, <1>3, <1>4, OthersKept DEF IInv

LEMMA CloseKeeps ==
    ASSUME IInv, NEW p \in Peers, NEW t \in Topics, Close(p, t)
    PROVE  IInv' /\ Local(p) /\ Objects(p)
<1>0. round[p].at = "close" /\ t \in round[p].topics /\ Types /\ ObjInv /\ PeerInv(p)
  BY DEF Close, IInv
<1>1. /\ round' \in [Peers -> Rounds]
      /\ round'[p].at = "remove" /\ round'[p].cur = t /\ round'[p].ref = reg[t]
      /\ round'[p].neg = round[p].neg /\ round'[p].dirty = round[p].dirty
      /\ round'[p].topics = round[p].topics /\ (round'[p].shut \/ t \in Media)
      /\ \A q \in Peers \ {p} : round'[q] = round[q]
  <2> DEFINE new == [round[p] EXCEPT !.at = "remove", !.cur = t, !.ref = reg[t],
                       !.shut = t \notin Media \/ ~up[p] \/ round[p].reconn]
  <2>1. round[p] \in Rounds /\ reg[t] \in Nat
    BY <1>0 DEF Types, ObjTypes, RoundTypes
  <2>2. /\ new \in Rounds
        /\ new.at = "remove" /\ new.cur = t /\ new.ref = reg[t]
        /\ new.neg = round[p].neg /\ new.dirty = round[p].dirty
        /\ new.topics = round[p].topics /\ (new.shut \/ t \in Media)
    BY <1>0, <2>1 DEF Rounds, Stages
  <2>3. round' = [round EXCEPT ![p] = new]
    BY DEF Close
  <2> HIDE DEF new
  <2> QED
    BY <1>0, <2>2, <2>3 DEF Types, RoundTypes
<1>2. UNCHANGED <<peerVars, chanVars, objVars, pend, stable, erased, inputs>>
  BY DEF Close
<1> USE DEF peerVars, chanVars, objVars
<1>3. RoundInv(p)' /\ CloseInv(p)' /\ WantInv(p)'
  BY <1>0, <1>1, <1>2
  DEF PeerInv, RoundInv, CloseInv, WantInv, InUse, Seen, Visible, Busy, Closing
<1>4. OutInv(p)' /\ RemoveInv(p)'
  BY <1>0, <1>1, <1>2 DEF PeerInv, OutInv, RemoveInv, InUse, In, Erased
<1>5. ReadyInv(p)'
  BY <1>0, <1>1, <1>2 DEF PeerInv, ReadyInv, Awaits, Ready, In, Erased
<1>6. round[p].ref = 0 /\ reg[t] <= made[t] /\ stable \in [Peers -> BOOLEAN]
  BY <1>0 DEF PeerInv, RoundInv, Busy, ObjInv, Types, PeerTypes
<1> QED
  BY <1>1, <1>2, <1>3, <1>4, <1>5, <1>6, MoveOn

LEMMA ScanKeeps ==
    ASSUME IInv, NEW p \in Peers, Scan(p)
    PROVE  IInv' /\ Local(p) /\ Objects(p)
<1> DEFINE left == {t \in Topics : chan[p][t] # 0} \ (want[p] \cup paused[p])
<1>0. /\ round[p].at = "open" /\ (Visible(p) \subseteq round[p].topics \/ round[p].dirty)
      /\ Types /\ PeerInv(p)
  BY DEF Scan, IInv
<1>1. /\ round' \in [Peers -> Rounds]
      /\ round'[p].at = "close" /\ round'[p].ref = round[p].ref
      /\ round'[p].neg = round[p].neg /\ round'[p].dirty = round[p].dirty
      /\ round'[p].topics = left
      /\ \A q \in Peers \ {p} : round'[q] = round[q]
  <2> DEFINE new == [round[p] EXCEPT !.at = "close", !.topics = left]
  <2>1. round[p] \in Rounds
    BY <1>0 DEF Types, RoundTypes
  <2>2. /\ new \in Rounds
        /\ new.at = "close" /\ new.ref = round[p].ref
        /\ new.neg = round[p].neg /\ new.dirty = round[p].dirty /\ new.topics = left
    BY <2>1 DEF Rounds, Stages
  <2>3. round' = [round EXCEPT ![p] = new]
    BY DEF Scan
  <2> HIDE DEF new
  <2> QED
    BY <1>0, <2>2, <2>3 DEF Types, RoundTypes
<1>2. UNCHANGED <<peerVars, chanVars, objVars, pend, stable, erased, inputs>>
  BY DEF Scan
<1> USE DEF peerVars, chanVars, objVars
<1>3. RoundInv(p)'
  BY <1>0, <1>1, <1>2 DEF PeerInv, RoundInv, Busy
<1>4. CloseInv(p)' /\ WantInv(p)'
  <2>1. \A t \in left : InUse(p, t) /\ t \notin want[p]
    BY DEF InUse
  <2>2. \A t \in Topics : InUse(p, t) => t \in want[p] \/ t \in left
    BY DEF InUse
  <2>3. pend[p] = 0 => \A t \in Visible(p) : InUse(p, t)
    BY <1>0 DEF PeerInv, RoundInv, WantInv, Types, PeerTypes
  <2> HIDE DEF left
  <2> QED
    BY <1>1, <1>2, <2>1, <2>2, <2>3 DEF CloseInv, WantInv, InUse, Seen, Visible, Closing
<1>5. OutInv(p)' /\ RemoveInv(p)' /\ ReadyInv(p)'
  BY <1>0, <1>1, <1>2
  DEF PeerInv, OutInv, RemoveInv, ReadyInv, InUse, In, Erased, Awaits, Ready
<1>6. round[p].ref = 0 /\ stable \in [Peers -> BOOLEAN]
  BY <1>0 DEF PeerInv, RoundInv, Busy, Types, PeerTypes
<1> QED
  BY <1>1, <1>2, <1>3, <1>4, <1>5, <1>6, MoveOn DEF Busy

LEMMA IdleRound ==
    /\ NoRound \in Rounds
    /\ NoRound.at = "idle" /\ NoRound.ref = 0 /\ NoRound.neg = FALSE
    /\ NoRound.dirty = FALSE /\ NoRound.topics = {}
<1> QED
  BY DEF NoRound, Rounds, Stages

LEMMA EndCloseKeeps ==
    ASSUME IInv, NEW p \in Peers, EndClose(p)
    PROVE  IInv' /\ Local(p) /\ Objects(p)
<1>0. round[p].at = "close" /\ round[p].topics = {} /\ Types /\ PeerInv(p)
  BY DEF EndClose, IInv
<1>1. /\ round' \in [Peers -> Rounds]
      /\ round'[p].ref = 0 /\ round'[p].topics = {}
      /\ round'[p].dirty => round[p].dirty
      /\ \/ round'[p].at = "negotiate" /\ round'[p].neg
         \/ round'[p].at = "idle" /\ ~round'[p].neg /\ (up[p] => ~round[p].neg)
      /\ \A q \in Peers \ {p} : round'[q] = round[q]
  <2> DEFINE new == [round[p] EXCEPT !.at = "negotiate"]
  <2>1. round[p] \in Rounds /\ round[p].ref = 0
    BY <1>0 DEF Types, RoundTypes, PeerInv, RoundInv, Busy
  <2>2. /\ new \in Rounds
        /\ new.at = "negotiate" /\ new.ref = 0 /\ new.topics = {}
        /\ new.neg = round[p].neg /\ new.dirty = round[p].dirty
    BY <1>0, <2>1 DEF Rounds, Stages
  <2>3. round' = [round EXCEPT ![p] = IF round[p].neg /\ up[p] THEN new ELSE NoRound]
    BY DEF EndClose
  <2> HIDE DEF new
  <2> QED
    BY <1>0, <2>2, <2>3, IdleRound DEF Types, RoundTypes
<1>2. UNCHANGED <<peerVars, chanVars, objVars, pend, stable, erased, inputs>>
  BY DEF EndClose
<1> USE DEF peerVars, chanVars, objVars
<1>3. RoundInv(p)' /\ CloseInv(p)' /\ WantInv(p)'
  BY <1>0, <1>1, <1>2
  DEF PeerInv, RoundInv, CloseInv, WantInv, InUse, Seen, Visible, Busy, Closing
<1>4. OutInv(p)' /\ RemoveInv(p)' /\ ReadyInv(p)'
  BY <1>0, <1>1, <1>2
  DEF PeerInv, OutInv, RemoveInv, ReadyInv, InUse, In, Erased, Awaits, Ready
<1>5. round[p].ref = 0 /\ stable \in [Peers -> BOOLEAN]
  BY <1>0 DEF PeerInv, RoundInv, Busy, Types, PeerTypes
<1> QED
  BY <1>1, <1>2, <1>3, <1>4, <1>5, MoveOn DEF Busy

LEMMA NegotiatedKeeps ==
    ASSUME IInv, NEW p \in Peers, Negotiated(p)
    PROVE  IInv' /\ Local(p) /\ Objects(p)
<1>0. round[p].at = "negotiate" /\ Types /\ PeerInv(p)
  BY DEF Negotiated, IInv
<1>1. /\ round' = [round EXCEPT ![p] = NoRound]
      /\ UNCHANGED <<peerVars, chanVars, objVars, pend, erased, inputs>>
  BY DEF Negotiated
<1>2. /\ round' \in [Peers -> Rounds]
      /\ round'[p].at = "idle" /\ round'[p].ref = 0 /\ ~round'[p].neg /\ ~round'[p].dirty
      /\ \A q \in Peers \ {p} : round'[q] = round[q]
  BY <1>0, <1>1, IdleRound DEF Types, RoundTypes
<1>3. /\ stable' \in [Peers -> BOOLEAN] /\ stable'[p] = up[p]
      /\ \A q \in Peers \ {p} : stable'[q] = stable[q]
  BY <1>0 DEF Negotiated, Types, PeerTypes
<1> USE DEF peerVars, chanVars, objVars
<1>4. RoundInv(p)' /\ CloseInv(p)' /\ WantInv(p)'
  BY <1>0, <1>1, <1>2
  DEF PeerInv, RoundInv, CloseInv, WantInv, InUse, Seen, Visible, Busy, Closing
<1>5. OutInv(p)' /\ RemoveInv(p)' /\ ReadyInv(p)'
  BY <1>0, <1>1, <1>2, <1>3
  DEF PeerInv, OutInv, RemoveInv, ReadyInv, InUse, In, Erased, Awaits
<1>6. round[p].ref = 0
  BY <1>0 DEF PeerInv, RoundInv, Busy
<1> QED
  BY <1>1, <1>2, <1>3, <1>4, <1>5, <1>6, MoveOn DEF Busy

\* The callback marks every output of its pc that it can find.
LEMMA StableCallbackKeeps ==
    ASSUME IInv, NEW p \in Peers, StableCallback(p)
    PROVE  IInv' /\ Local(p) /\ Objects(p)
<1>0. Types /\ ObjInv /\ PeerInv(p)
  BY DEF IInv
<1>1. /\ UNCHANGED <<peerVars, chanVars, reg, made, outs, subs, pend, round, erased, inputs>>
      /\ stable' = [stable EXCEPT ![p] = FALSE]
  BY DEF StableCallback
<1>2. round[p].at = "negotiate" => ready' = ready
  BY DEF StableCallback
<1>3. round[p].at # "negotiate" =>
        ready' = ready \cup {o \in outs : /\ o.peer = p /\ o.id >= base[p]
                                          /\ o.topic \in Data /\ reg[o.topic] = o.gen}
                   \cup {Track(p, t) : t \in {v \in Media : chan[p][v] # 0}}
  BY DEF StableCallback
<1> USE DEF peerVars, chanVars
<1>4. ASSUME NEW t \in Media, chan[p][t] # 0
      PROVE  /\ Track(p, t) \in Outputs /\ Track(p, t).peer = p /\ Track(p, t).topic = t
             /\ Track(p, t).id = chan[p][t] /\ Track(p, t).gen = 0
  BY <1>0, <1>4 DEF Track, Output, Outputs, Types, ChanTypes, Topics
<1>5. \A o \in ready' : \/ o \in ready
                        \/ o \in outs /\ o.peer = p
                        \/ \E t \in Media : chan[p][t] # 0 /\ o = Track(p, t)
  <2>1. CASE round[p].at = "negotiate"
    BY <1>2, <2>1
  <2>2. CASE round[p].at # "negotiate"
    <3> TAKE o \in ready'
    <3>1. \/ o \in ready
          \/ o \in {e \in outs : /\ e.peer = p /\ e.id >= base[p]
                                 /\ e.topic \in Data /\ reg[e.topic] = e.gen}
          \/ o \in {Track(p, t) : t \in {v \in Media : chan[p][v] # 0}}
      BY <1>3, <2>2
    <3> QED
      BY <3>1
  <2> QED
    BY <2>1, <2>2
<1>6. ready \subseteq ready' /\ ready' \subseteq Outputs
  BY <1>0, <1>2, <1>3, <1>4, <1>5 DEF Types, ObjTypes
<1>7. \A o \in ready' : o.peer = p => o.id < nextId[p]
  BY <1>0, <1>4, <1>5 DEF PeerInv, IdInv, Topics
<1>8. Types' /\ ObjInv'
  BY <1>0, <1>1, <1>6
  DEF Types, PeerTypes, ChanTypes, ObjTypes, RoundTypes, ObjInv, Held
<1>9. RoundInv(p)' /\ CloseInv(p)' /\ WantInv(p)' /\ IdInv(p)' /\ ClosedInv(p)'
  BY <1>0, <1>1, <1>7
  DEF PeerInv, RoundInv, CloseInv, WantInv, IdInv, ClosedInv, InUse, Seen, Visible
<1>10. OutInv(p)' /\ RemoveInv(p)'
  BY <1>0, <1>1 DEF PeerInv, OutInv, RemoveInv, InUse, In, Erased
<1>11. ReadyInv(p)'
  <2>1. CASE round[p].at = "negotiate"
    BY <1>0, <1>1, <2>1 DEF PeerInv, RoundInv, ReadyInv, Awaits
  <2>2. CASE round[p].at # "negotiate"
    <3>1. ASSUME NEW t \in Data, chan[p][t] # 0, In(p, t)
          PROVE  Ready(p, t, reg[t])'
      <4>1. PICK o \in outs : o.peer = p /\ o.topic = t /\ o.id = chan[p][t] /\ o.gen = reg[t]
        BY <3>1 DEF In
      <4>2. chan[p][t] >= base[p]
        BY <1>0, <3>1, TopicsAssumption DEF PeerInv, IdInv, Topics
      <4>3. o \in ready'
        BY <1>3, <2>2, <4>1, <4>2
      <4> QED
        BY <1>1, <4>1, <4>3 DEF Ready
    <3>2. ASSUME NEW t \in Media, chan[p][t] >= base[p]
          PROVE  Ready(p, t, 0)'
      <4>1. chan[p][t] # 0
        BY <1>0, <3>2 DEF Types, ChanTypes, Topics
      <4>2. Track(p, t) \in ready'
        BY <1>3, <2>2, <4>1
      <4> QED
        BY <1>1, <1>4, <4>1, <4>2 DEF Ready
    <3>3. (round[p].at = "add" /\ round[p].cur \in Data =>
             round[p].neg \/ In(p, round[p].cur) \/ Erased(p, round[p].cur))'
      \/ ~up[p]
      BY <1>0, <1>1 DEF PeerInv, ReadyInv, In, Erased
    <3> QED
      BY <1>1, <3>1, <3>2, <3>3 DEF ReadyInv, In
  <2> QED
    BY <2>1, <2>2
<1>12. Local(p)
  BY <1>1 DEF Local
<1>13. Objects(p)
  <2>1. \A o \in ready' : o.peer # p => o \in ready
    BY <1>4, <1>5
  <2> QED
    BY <1>1, <1>6, <2>1 DEF Objects
<1> QED
  BY <1>0, <1>1, <1>8, <1>9, <1>10, <1>11, <1>12, <1>13, OthersKept
  DEF IInv, PeerInv, Types, RoundTypes

LEMMA BeginRoundKeeps ==
    ASSUME IInv, NEW p \in Peers, BeginRound(p)
    PROVE  IInv' /\ Local(p) /\ Objects(p)
<1> DEFINE reconn == up[p] /\ restart[p]
<1>0. round[p].at = "idle" /\ pend[p] > 0 /\ reconn \in BOOLEAN /\ Types /\ ObjInv /\ PeerInv(p)
  BY DEF BeginRound, IInv
<1>1. UNCHANGED <<want, known, up, paused, nextId, reg, made, outs, ready, subs, erased, inputs>>
  BY DEF BeginRound, objVars
<1>2. /\ round' \in [Peers -> Rounds]
      /\ round'[p].at = "open" /\ round'[p].ref = 0 /\ round'[p].topics = {}
      /\ round'[p].neg = reconn /\ ~round'[p].dirty
      /\ \A q \in Peers \ {p} : round'[q] = round[q]
  <2> DEFINE new == [NoRound EXCEPT !.at = "open", !.neg = reconn, !.reconn = reconn]
  <2>1. /\ new \in Rounds
        /\ new.at = "open" /\ new.ref = 0 /\ new.topics = {} /\ new.neg = reconn /\ ~new.dirty
    BY <1>0 DEF NoRound, Rounds, Stages
  <2>2. round' = [round EXCEPT ![p] = new]
    BY DEF BeginRound
  <2> HIDE DEF new
  <2> QED
    BY <1>0, <2>1, <2>2 DEF Types, RoundTypes
<1>3. /\ chan' \in [Peers -> [Topics -> Nat]]
      /\ \A t \in Topics : chan'[p][t] = IF reconn /\ t \notin Media THEN 0 ELSE chan[p][t]
      /\ \A q \in Peers \ {p} : chan'[q] = chan[q]
  BY <1>0 DEF BeginRound, Types, ChanTypes
<1>4. /\ base' \in [Peers -> Nat \ {0}]
      /\ base'[p] = IF reconn THEN nextId[p] ELSE base[p]
      /\ \A q \in Peers \ {p} : base'[q] = base[q]
  BY <1>0 DEF BeginRound, Types, ChanTypes
<1>5. /\ pend' \in [Peers -> Nat] /\ stable' \in [Peers -> BOOLEAN]
      /\ restart' \in [Peers -> BOOLEAN]
      /\ stable'[p] = (stable[p] /\ ~reconn)
      /\ \A q \in Peers \ {p} : pend'[q] = pend[q] /\ stable'[q] = stable[q]
  BY <1>0 DEF BeginRound, Types, PeerTypes
<1> HIDE DEF reconn
<1>6. Types'
  BY <1>0, <1>1, <1>2, <1>3, <1>4, <1>5
  DEF Types, PeerTypes, ChanTypes, ObjTypes, RoundTypes
<1>7. ObjInv'
  <2>1. \A q \in Peers : round[q].ref # 0 => round'[q] = round[q]
    BY <1>0, <1>2 DEF PeerInv, RoundInv, Busy
  <2>2. \A v \in Topics, g \in Nat \ {0} : Held(reg, round, v, g) => Held(reg', round', v, g)
    BY <1>1, <2>1 DEF Held
  <2>3. \A o \in outs :
          o.gen # 0 /\ Held(reg', round', o.topic, o.gen) /\ <<o.topic, o.gen>> \in subs
    BY <1>0, <2>2 DEF Types, ObjTypes, Outputs, ObjInv
  <2>4. \A q \in Peers : round'[q].at \in Busy => round'[q].ref <= made[round'[q].cur]
    BY <1>0, <1>2 DEF ObjInv, Busy
  <2>5. \A s \in subs :
          /\ s[2] # 0 /\ s[2] <= made[s[1]]
          /\ \/ \E o \in outs : o.topic = s[1] /\ o.gen = s[2]
             \/ \E q \in Peers : round'[q].cur = s[1] /\ round'[q].ref = s[2]
    BY <1>0, <2>1 DEF ObjInv
  <2> QED
    BY <1>0, <1>1, <2>3, <2>4, <2>5 DEF ObjInv
<1>8. PeerInv(p)'
  <2>1. RoundInv(p)' /\ CloseInv(p)' /\ WantInv(p)' /\ RemoveInv(p)'
    BY <1>0, <1>1, <1>2
    DEF PeerInv, RoundInv, CloseInv, WantInv, RemoveInv, Seen, Busy, Closing, Types, RoundTypes,
        Rounds, ObjInv, ObjTypes
  <2>2. IdInv(p)'
    BY <1>0, <1>1, <1>3, <1>4 DEF PeerInv, IdInv, Types, ChanTypes, ObjTypes, Outputs
  <2>3. \A t \in Topics : InUse(p, t)' => chan'[p][t] = chan[p][t] /\ InUse(p, t)
    BY <1>1, <1>3 DEF InUse
  <2>4. OutInv(p)'
    BY <1>0, <1>1, <2>3 DEF PeerInv, OutInv, In, Erased
  <2>5. ClosedInv(p)'
    <3>1. CASE reconn
      BY <1>0, <1>1, <1>4, <3>1 DEF PeerInv, IdInv, ClosedInv
    <3>2. CASE ~reconn
      BY <1>0, <1>1, <1>3, <1>4, <3>2 DEF PeerInv, ClosedInv, Types, ObjTypes, Outputs
    <3> QED
      BY <3>1, <3>2
  <2>6. ReadyInv(p)'
    <3>1. CASE reconn
      BY <1>2, <3>1 DEF ReadyInv, Awaits
    <3>2. CASE ~reconn
      <4>1. \A t \in Topics : chan'[p][t] = chan[p][t]
        BY <1>3, <3>2
      <4>2. Awaits(p) => Awaits(p)'
        BY <1>0, <1>5, <3>2 DEF PeerInv, RoundInv, Awaits
      <4> QED
        BY <1>0, <1>1, <1>2, <1>4, <3>2, <4>1, <4>2
        DEF PeerInv, ReadyInv, In, Erased, Ready, Topics
    <3> QED
      BY <3>1, <3>2
  <2> QED
    BY <2>1, <2>2, <2>4, <2>5, <2>6 DEF PeerInv
<1>9. Local(p)
  BY <1>1, <1>2, <1>3, <1>4, <1>5 DEF Local
<1>10. Objects(p)
  BY <1>0, <1>1 DEF Objects, Types, ObjTypes, Outputs
<1> QED
  BY <1>2, <1>6, <1>7, <1>8, <1>9, <1>10, OthersKept DEF IInv

\* Steps that take an output in or out of the object that a round holds, keep
\* what is still held, and let go of the object or are about to.
Handles(p, O, S) ==
    LET t == round[p].cur
        g == round[p].ref
    IN  /\ made' = made /\ reg' \in [Topics -> Nat]
        /\ \A v \in Topics : reg'[v] = reg[v] \/ (v = t /\ reg'[v] = 0)
        /\ round' \in [Peers -> Rounds]
        /\ round'[p].ref = 0 \/ (round'[p].cur = t /\ round'[p].ref = g)
        /\ round'[p].at \in Busy => round'[p].cur = t /\ round'[p].ref = g
        /\ \A q \in Peers \ {p} : round'[q] = round[q]
        /\ O \subseteq Outputs
        /\ \A o \in O : o \in outs \/ (o.peer = p /\ o.topic = t /\ o.gen = g /\ g # 0)
        /\ \A o \in outs : o \in O \/ (o.peer = p /\ o.topic = t /\ o.gen = g)
        /\ \A s \in S : s \in subs \/ (s = <<t, g>> /\ g # 0)
        /\ \A s \in subs : s \in S \/ s = <<t, g>>
        /\ (\E o \in O : o.topic = t /\ o.gen = g) => <<t, g>> \in S
        /\ Keep(O, S)

LEMMA HandlesKeepsObjects ==
    ASSUME IInv, NEW p \in Peers, round[p].at \in Busy, NEW O, NEW S, Handles(p, O, S),
           LET t == round[p].cur
               g == round[p].ref
           IN  <<t, g>> \in subs' => \/ \E o \in O : o.topic = t /\ o.gen = g
                                     \/ \E q \in Peers : round'[q].cur = t /\ round'[q].ref = g
    PROVE  /\ reg' \in [Topics -> Nat] /\ made' \in [Topics -> Nat]
           /\ outs' \subseteq Outputs /\ ready' \subseteq Outputs
           /\ subs' \subseteq Topics \X Nat
           /\ ObjInv'
<1> DEFINE t == round[p].cur
           g == round[p].ref
<1>0. Types /\ ObjInv /\ t \in Topics /\ g \in Nat /\ g <= made[t]
  BY DEF IInv, PeerInv, RoundInv, ObjInv, Types, RoundTypes, Rounds
<1>1. /\ made' = made /\ reg' \in [Topics -> Nat]
      /\ \A v \in Topics : reg'[v] = reg[v] \/ (v = t /\ reg'[v] = 0)
      /\ round'[p].ref = 0 \/ (round'[p].cur = t /\ round'[p].ref = g)
      /\ round'[p].at \in Busy => round'[p].cur = t /\ round'[p].ref = g
      /\ \A q \in Peers \ {p} : round'[q] = round[q]
      /\ O \subseteq Outputs
      /\ \A o \in O : o \in outs \/ (o.peer = p /\ o.topic = t /\ o.gen = g /\ g # 0)
      /\ \A o \in outs : o \in O \/ (o.peer = p /\ o.topic = t /\ o.gen = g)
      /\ \A s \in S : s \in subs \/ (s = <<t, g>> /\ g # 0)
      /\ \A s \in subs : s \in S \/ s = <<t, g>>
      /\ (\E o \in O : o.topic = t /\ o.gen = g) => <<t, g>> \in S
  BY DEF Handles
<1>2. /\ outs' = {o \in O : Held(reg', round', o.topic, o.gen)}
      /\ subs' = {s \in S : Held(reg', round', s[1], s[2])}
      /\ ready' = {o \in ready : o.gen = 0 \/ o \in outs'}
  BY DEF Handles, Keep
<1>3. <<t, g>> \in subs' => \/ \E o \in O : o.topic = t /\ o.gen = g
                            \/ \E q \in Peers : round'[q].cur = t /\ round'[q].ref = g
  OBVIOUS
<1> HIDE DEF t, g
<1>4. /\ made' \in [Topics -> Nat] /\ outs' \subseteq Outputs /\ ready' \subseteq Outputs
      /\ subs' \subseteq Topics \X Nat
  BY <1>0, <1>1, <1>2 DEF Types, ObjTypes
<1>5. \A v \in Topics : reg'[v] <= made'[v]
  BY <1>0, <1>1 DEF ObjInv, Types, ObjTypes
<1>6. \A q \in Peers : round'[q].at \in Busy => round'[q].ref <= made'[round'[q].cur]
  BY <1>0, <1>1 DEF ObjInv
<1>7. ASSUME NEW o \in outs'
      PROVE  o.gen # 0 /\ Held(reg', round', o.topic, o.gen) /\ <<o.topic, o.gen>> \in subs'
  <2>1. o \in O /\ Held(reg', round', o.topic, o.gen) /\ o \in Outputs
    BY <1>1, <1>2
  <2>2. o.gen # 0 /\ <<o.topic, o.gen>> \in S
    <3>1. CASE o.topic = t /\ o.gen = g
      BY <1>0, <1>1, <2>1, <3>1 DEF ObjInv
    <3>2. CASE ~(o.topic = t /\ o.gen = g)
      BY <1>0, <1>1, <2>1, <3>2 DEF ObjInv
    <3> QED
      BY <3>1, <3>2
  <2> QED
    BY <1>2, <2>1, <2>2
<1>8. ASSUME NEW s \in subs'
      PROVE  /\ s[2] # 0 /\ s[2] <= made'[s[1]]
             /\ \/ \E o \in outs' : o.topic = s[1] /\ o.gen = s[2]
                \/ \E q \in Peers : round'[q].cur = s[1] /\ round'[q].ref = s[2]
  <2>1. s \in S /\ Held(reg', round', s[1], s[2]) /\ s \in Topics \X Nat
    BY <1>2, <1>4
  <2>2. CASE s = <<t, g>>
    <3>1. s[1] = t /\ s[2] = g /\ g # 0
      BY <1>0, <1>1, <2>1, <2>2 DEF ObjInv
    <3>2. \A o \in O : o.topic = t /\ o.gen = g => o \in outs'
      BY <1>2, <2>1, <3>1
    <3> QED
      BY <1>0, <1>1, <1>3, <2>2, <3>1, <3>2
  <2>3. CASE s # <<t, g>>
    <3>1. s \in subs /\ ~(s[1] = t /\ s[2] = g)
      BY <1>1, <2>1, <2>3
    <3>2. /\ s[2] # 0 /\ s[2] <= made[s[1]]
          /\ \/ \E o \in outs : o.topic = s[1] /\ o.gen = s[2]
             \/ \E q \in Peers : round[q].cur = s[1] /\ round[q].ref = s[2]
      BY <1>0, <3>1 DEF ObjInv
    <3>3. \A o \in outs : o.topic = s[1] /\ o.gen = s[2] => o \in outs'
      BY <1>1, <1>2, <2>1, <3>1
    <3>4. \A q \in Peers : round[q].cur = s[1] /\ round[q].ref = s[2] => round'[q] = round[q]
      BY <1>1, <3>1 DEF t, g
    <3> QED
      BY <1>1, <3>2, <3>3, <3>4
  <2> QED
    BY <2>2, <2>3
<1>9. ObjInv'
  BY <1>5, <1>6, <1>7, <1>8 DEF ObjInv
<1> QED
  BY <1>1, <1>4, <1>9

\* Outputs of others are only lost with an object that destroy() unregisters,
\* which records them.
LEMMA HandlesKeepsOthers ==
    ASSUME IInv, NEW p \in Peers, round[p].at \in Busy, NEW O, NEW S, Handles(p, O, S),
           erased \subseteq erased',
           \A o \in erased' : o.peer # p =>
             \E e \in outs \cup erased : e.peer = o.peer /\ e.id = o.id,
           \A o \in outs : o.gen = reg[o.topic] /\ reg'[o.topic] # reg[o.topic] =>
             \E e \in erased' : e.peer = o.peer /\ e.topic = o.topic /\ e.id = o.id /\ e.gen = 0
    PROVE  Objects(p)
<1>1. /\ \A v \in Topics : reg'[v] = reg[v] \/ reg'[v] = 0
      /\ \A o \in O : o.peer # p => o \in outs
      /\ \A o \in outs : o.peer # p => o \in O
      /\ outs' = {o \in O : Held(reg', round', o.topic, o.gen)}
      /\ ready' = {o \in ready : o.gen = 0 \/ o \in outs'}
  BY DEF Handles, Keep
<1>2. ASSUME NEW o \in outs, o.peer # p, o.gen = reg[o.topic]
      PROVE  \/ o \in outs' /\ reg'[o.topic] = reg[o.topic]
             \/ \E e \in erased' : e.peer = o.peer /\ e.topic = o.topic /\ e.id = o.id /\ e.gen = 0
  <2>1. CASE reg'[o.topic] = reg[o.topic]
    BY <1>1, <1>2, <2>1 DEF Held
  <2> QED
    BY <1>2, <2>1
<1> QED
  BY <1>1, <1>2 DEF Objects

\* What is still an output and was ready is ready.
LEMMA ReadyStays ==
    ASSUME IInv, NEW p \in Peers, NEW v \in Topics, NEW g,
           chan'[p][v] = chan[p][v], ready' = {o \in ready : o.gen = 0 \/ o \in outs'},
           Ready(p, v, g),
           \/ g = 0
           \/ \E o \in outs \cap outs' : o.peer = p /\ o.topic = v /\ o.id = chan[p][v] /\ o.gen = g
    PROVE  \E o \in ready' : o.peer = p /\ o.topic = v /\ o.id = chan'[p][v] /\ o.gen = g
<1>1. PICK r \in ready : r.peer = p /\ r.topic = v /\ r.id = chan[p][v] /\ r.gen = g
  BY DEF Ready
<1>2. CASE g = 0
  BY <1>1, <1>2
<1>3. CASE g # 0
  <2>1. PICK o \in outs \cap outs' : o.peer = p /\ o.topic = v /\ o.id = chan[p][v] /\ o.gen = g
    BY <1>3
  <2>2. r = o
    BY <1>1, <2>1, SameOutput DEF IInv, Types, ObjTypes
  <2> QED
    BY <1>1, <2>1, <2>2
<1> QED
  BY <1>2, <1>3

LEMMA AddKeeps ==
    ASSUME IInv, NEW p \in Peers, Add(p)
    PROVE  IInv' /\ Local(p) /\ Objects(p)
<1> DEFINE t == round[p].cur
           g == round[p].ref
           o == Output(p, t, g)
           O == outs \cup {o}
           S == subs \cup {<<t, g>>}
<1>0. /\ round[p].at = "add" /\ Types /\ ObjInv /\ PeerInv(p)
      /\ t \in Topics /\ g \in Nat /\ g # 0 /\ InUse(p, t)
  BY DEF Add, IInv, PeerInv, RoundInv, CloseInv, Busy, Types, RoundTypes, Rounds
<1>1. /\ o \in Outputs /\ o.peer = p /\ o.topic = t /\ o.id = chan[p][t] /\ o.gen = g
      /\ Track(p, t) \in Outputs /\ Track(p, t).peer = p /\ Track(p, t).topic = t
      /\ Track(p, t).id = chan[p][t] /\ Track(p, t).gen = 0
  BY <1>0 DEF InUse, Types, ChanTypes, Track, Output, Outputs
<1>2. /\ round' \in [Peers -> Rounds]
      /\ round'[p].at = "open" /\ round'[p].ref = 0
      /\ round'[p].topics = round[p].topics \cup {t}
      /\ round'[p].neg = round[p].neg /\ round'[p].dirty = round[p].dirty
      /\ \A q \in Peers \ {p} : round'[q] = round[q]
  <2> DEFINE new == [round[p] EXCEPT !.at = "open", !.cur = "", !.ref = 0,
                                     !.topics = round[p].topics \cup {t}]
  <2>1. round[p] \in Rounds
    BY <1>0 DEF Types, RoundTypes
  <2>2. /\ new \in Rounds
        /\ new.at = "open" /\ new.ref = 0 /\ new.topics = round[p].topics \cup {t}
        /\ new.neg = round[p].neg /\ new.dirty = round[p].dirty
    BY <1>0, <2>1 DEF Rounds, Stages
  <2>3. round' = [round EXCEPT ![p] = new]
    BY DEF Add
  <2> HIDE DEF new
  <2> QED
    BY <1>0, <2>2, <2>3 DEF Types, RoundTypes
<1>3. /\ reg' = reg /\ made' = made /\ Keep(O, S)
      /\ erased' = IF reg[t] = g THEN erased ELSE erased \cup {Track(p, t)}
      /\ UNCHANGED <<peerVars, chanVars, pend, stable, inputs>>
  BY DEF Add, AddTo
<1> HIDE DEF o
<1>4. Handles(p, O, S)
  BY <1>0, <1>1, <1>2, <1>3 DEF Handles, Types, ObjTypes, Busy
<1>5. /\ outs' = {e \in O : Held(reg', round', e.topic, e.gen)}
      /\ ready' = {e \in ready : e.gen = 0 \/ e \in outs'}
  BY <1>3 DEF Keep
<1> HIDE DEF O, S
<1>6. /\ \A e \in outs' : e \in outs \/ e = o
      /\ \A e \in outs \cup {o} : e.gen = reg[e.topic] => e \in outs'
  BY <1>3, <1>5 DEF Held, O
<1>7. /\ reg' \in [Topics -> Nat] /\ made' \in [Topics -> Nat]
      /\ outs' \subseteq Outputs /\ ready' \subseteq Outputs
      /\ subs' \subseteq Topics \X Nat /\ ObjInv'
  <2>1. \E e \in O : e.topic = t /\ e.gen = g
    BY <1>1 DEF O
  <2> QED
    BY <1>0, <1>4, <2>1, HandlesKeepsObjects DEF Busy
<1> HIDE DEF t, g
<1>8. erased' \subseteq Outputs /\ erased \subseteq erased'
      /\ \A e \in erased' : e \in erased \/ e = Track(p, t)
  BY <1>0, <1>1, <1>3 DEF Types, ObjTypes
<1>9. Types'
  BY <1>0, <1>2, <1>3, <1>7, <1>8
  DEF Types, PeerTypes, ChanTypes, ObjTypes, RoundTypes, peerVars, chanVars
<1>10. Local(p) /\ Objects(p)
  <2>1. Local(p)
    BY <1>2, <1>3 DEF Local, peerVars, chanVars
  <2>2. Objects(p)
    BY <1>0, <1>1, <1>3, <1>4, <1>8, HandlesKeepsOthers DEF Busy, Types, ObjTypes, Outputs
  <2> QED
    BY <2>1, <2>2
<1>11. PeerInv(p)'
  <2> USE DEF peerVars, chanVars
  <2>1. RoundInv(p)' /\ CloseInv(p)' /\ WantInv(p)' /\ RemoveInv(p)'
    BY <1>0, <1>2, <1>3
    DEF PeerInv, RoundInv, CloseInv, WantInv, RemoveInv, InUse, Seen, Visible, Busy, Closing
  <2>2. IdInv(p)'
    BY <1>0, <1>1, <1>3, <1>5, <1>6, <1>8 DEF PeerInv, IdInv
  <2>3. ClosedInv(p)'
    BY <1>0, <1>1, <1>3, <1>6 DEF PeerInv, ClosedInv, InUse
  <2>4. \A v \in Topics : Erased(p, v) => Erased(p, v)'
    BY <1>3, <1>8 DEF Erased
  <2>5. \A v \in Topics : In(p, v) => In(p, v)'
    BY <1>3, <1>6 DEF In
  <2>6. ASSUME NEW v \in Topics, v = t
        PROVE  In(p, v)' \/ Erased(p, v)'
    <3>1. CASE reg[t] = g
      BY <1>0, <1>1, <1>3, <1>6, <2>6, <3>1 DEF In
    <3>2. CASE reg[t] # g
      BY <1>0, <1>1, <1>3, <2>6, <3>2 DEF Erased
    <3> QED
      BY <3>1, <3>2
  <2>7. OutInv(p)'
    <3> SUFFICES ASSUME NEW v \in Topics, InUse(p, v), v # t
                 PROVE  In(p, v)' \/ Erased(p, v)'
      BY <1>3, <2>6 DEF OutInv, InUse
    <3> QED
      BY <1>0, <2>4, <2>5 DEF PeerInv, OutInv, t
  <2>8. ReadyInv(p)'
    <3> SUFFICES ASSUME up[p] PROVE ReadyInv(p)'
      BY <1>3 DEF ReadyInv
    <3>1. ReadyInv(p) /\ (Awaits(p)' <=> Awaits(p))
      BY <1>0, <1>2, <1>3 DEF PeerInv, Awaits
    <3>2. ASSUME NEW v \in Data, chan[p][v] # 0, In(p, v)'
          PROVE  Ready(p, v, reg[v])' \/ Erased(p, v)' \/ Awaits(p)'
      <4>1. v \in Topics
        BY DEF Topics
      <4>2. CASE In(p, v)
        <5>1. \E e \in outs \cap outs' : /\ e.peer = p /\ e.topic = v /\ e.id = chan[p][v]
                                         /\ e.gen = reg[v]
          BY <1>6, <4>2 DEF In
        <5>2. Ready(p, v, reg[v]) => Ready(p, v, reg[v])'
          BY <1>3, <1>5, <4>1, <5>1, ReadyStays DEF Ready
        <5> QED
          BY <2>4, <3>1, <3>2, <4>1, <4>2, <5>2 DEF ReadyInv
      <4>3. CASE ~In(p, v)
        <5>1. v = t
          BY <1>1, <1>3, <1>6, <3>2, <4>3 DEF In
        <5> QED
          BY <1>0, <2>4, <3>1, <4>3, <5>1 DEF ReadyInv, Awaits, t
      <4> QED
        BY <4>2, <4>3
    <3>3. ASSUME NEW v \in Media, chan[p][v] >= base[p]
          PROVE  Ready(p, v, 0)' \/ Awaits(p)'
      BY <1>3, <1>5, <3>1, <3>3 DEF ReadyInv, Ready
    <3> QED
      BY <1>2, <1>3, <3>2, <3>3 DEF ReadyInv
  <2> QED
    BY <2>1, <2>2, <2>3, <2>7, <2>8 DEF PeerInv
<1> QED
  BY <1>2, <1>7, <1>9, <1>10, <1>11, OthersKept DEF IInv

\* What the end of an unsubscribe changes in the round and its channels.
LEMMA ForgetChanges ==
    ASSUME IInv, NEW p \in Peers, round[p].at \in {"remove", "destroy"},
           NEW t, t = round[p].cur, Forget(p, t)
    PROVE  /\ t \in Topics /\ t \in round[p].topics /\ InUse(p, t)
           /\ round' \in [Peers -> Rounds]
           /\ round'[p].at = "close" /\ round'[p].ref = 0
           /\ round'[p].topics = round[p].topics \ {t}
           /\ round'[p].neg = round[p].neg /\ round'[p].dirty = round[p].dirty
           /\ \A q \in Peers \ {p} : round'[q] = round[q]
           /\ chan' \in [Peers -> [Topics -> Nat]] /\ paused' \in [Peers -> SUBSET Media]
           /\ \A q \in Peers \ {p} : chan'[q] = chan[q] /\ paused'[q] = paused[q]
           /\ \A v \in Topics \ {t} : chan'[p][v] = chan[p][v]
           /\ \A v \in Topics \ {t} : v \in paused'[p] <=> v \in paused[p]
           /\ \/ chan'[p][t] = 0
              \/ t \in Media /\ t \in paused'[p] /\ chan'[p][t] = chan[p][t]
<1>1. /\ Types /\ t \in Topics /\ t \in round[p].topics /\ InUse(p, t)
      /\ round[p].shut \/ t \in Media
  BY DEF IInv, PeerInv, RoundInv, CloseInv, Busy, Closing
<1>2. /\ round' \in [Peers -> Rounds]
      /\ round'[p].at = "close" /\ round'[p].ref = 0
      /\ round'[p].topics = round[p].topics \ {t}
      /\ round'[p].neg = round[p].neg /\ round'[p].dirty = round[p].dirty
      /\ \A q \in Peers \ {p} : round'[q] = round[q]
  <2> DEFINE new == [round[p] EXCEPT !.at = "close", !.cur = "", !.ref = 0,
                                     !.topics = round[p].topics \ {t}]
  <2>1. round[p] \in Rounds
    BY <1>1 DEF Types, RoundTypes
  <2>2. /\ new \in Rounds
        /\ new.at = "close" /\ new.ref = 0 /\ new.topics = round[p].topics \ {t}
        /\ new.neg = round[p].neg /\ new.dirty = round[p].dirty
    BY <2>1 DEF Rounds, Stages
  <2>3. round' = [round EXCEPT ![p] = new]
    BY DEF Forget
  <2> HIDE DEF new
  <2> QED
    BY <1>1, <2>2, <2>3 DEF Types, RoundTypes
<1>3. CASE round[p].shut
  <2>1. chan' = [chan EXCEPT ![p][t] = 0] /\ paused' = paused
    BY <1>3 DEF Forget
  <2>2. /\ chan' \in [Peers -> [Topics -> Nat]] /\ paused' \in [Peers -> SUBSET Media]
        /\ \A q \in Peers \ {p} : chan'[q] = chan[q]
        /\ \A v \in Topics \ {t} : chan'[p][v] = chan[p][v]
        /\ chan'[p][t] = 0
    BY <1>1, <2>1 DEF Types, ChanTypes
  <2> QED
    BY <1>1, <1>2, <2>1, <2>2
<1>4. CASE ~round[p].shut
  BY <1>1, <1>2, <1>4 DEF Forget, Types, ChanTypes
<1> QED
  BY <1>3, <1>4

\* The peer's own part of the invariant, when the channel that the round was to
\* close is no output of the registered object any more.
LEMMA ForgetKeepsOwn ==
    ASSUME IInv, NEW p \in Peers, round[p].at \in {"remove", "destroy"},
           NEW t, t = round[p].cur, Forget(p, t),
           UNCHANGED <<peerVars, nextId, base, pend, stable>>,
           outs' \subseteq outs, ready' = {o \in ready : o.gen = 0 \/ o \in outs'},
           \A v \in Topics \ {t} : reg'[v] = reg[v],
           reg'[t] = reg[t] \/ reg'[t] = 0,
           \A o \in outs : o.topic # t /\ o.gen = reg[o.topic] => o \in outs',
           \A o \in outs' : o.peer = p /\ o.topic = t /\ o.id = chan[p][t] => o.gen # reg'[t],
           erased \subseteq erased', \A e \in erased' : e.peer = p => e.id < nextId[p]
    PROVE  PeerInv(p)'
<1>0. Types /\ ObjInv /\ PeerInv(p)
  BY DEF IInv
<1>1. /\ t \in Topics /\ t \in round[p].topics
      /\ round' \in [Peers -> Rounds]
      /\ round'[p].at = "close" /\ round'[p].ref = 0
      /\ round'[p].topics = round[p].topics \ {t}
      /\ round'[p].neg = round[p].neg /\ round'[p].dirty = round[p].dirty
      /\ \A v \in Topics \ {t} : chan'[p][v] = chan[p][v]
      /\ \A v \in Topics \ {t} : v \in paused'[p] <=> v \in paused[p]
      /\ \/ chan'[p][t] = 0
         \/ t \in Media /\ t \in paused'[p] /\ chan'[p][t] = chan[p][t]
  BY ForgetChanges
<1> USE DEF peerVars
<1>2. /\ ~InUse(p, t)'
      /\ \A v \in Topics \ {t} : InUse(p, v)' <=> InUse(p, v)
  <2>1. ASSUME NEW v \in Topics, v = t PROVE ~InUse(p, v)'
    BY <1>1, <2>1 DEF InUse
  <2>2. ASSUME NEW v \in Topics \ {t} PROVE InUse(p, v)' <=> InUse(p, v)
    BY <1>1, <2>2 DEF InUse
  <2> QED
    BY <1>1, <2>1, <2>2
<1>3. \A v \in Topics \ {t} : (In(p, v)' <=> In(p, v)) /\ (Erased(p, v) => Erased(p, v)')
  BY <1>1 DEF In, Erased
<1>4. RoundInv(p)'
  BY <1>0, <1>1 DEF PeerInv, RoundInv, Busy
<1>5. CloseInv(p)' /\ WantInv(p)' /\ RemoveInv(p)'
  <2>1. pend[p] = 0 => t \notin want[p]
    BY <1>0, <1>1 DEF PeerInv, CloseInv, Closing, Types, PeerTypes
  <2>2. CloseInv(p)'
    BY <1>0, <1>1, <1>2 DEF PeerInv, CloseInv, Closing, Types, RoundTypes, Rounds
  <2>3. WantInv(p)'
    <3>1. Seen(p)' <=> pend[p] = 0
      BY <1>1 DEF Seen
    <3>2. Seen(p) <=> pend[p] = 0
      BY DEF Seen
    <3>3. WantInv(p) /\ Visible(p)' = Visible(p) /\ Visible(p) \subseteq want[p] \cap Topics
      BY <1>0 DEF PeerInv, Visible, Types, PeerTypes
    <3>4. pend[p] = 0 => \A v \in Visible(p) : InUse(p, v)'
      BY <1>2, <2>1, <3>2, <3>3 DEF WantInv
    <3>5. pend[p] = 0 => \A v \in Topics : InUse(p, v)' => v \in want[p] \/ v \in round'[p].topics
      BY <1>1, <1>2, <3>2, <3>3 DEF WantInv
    <3> QED
      BY <1>1, <3>1, <3>3, <3>4, <3>5 DEF WantInv, Closing
  <2>4. RemoveInv(p)'
    BY <1>1 DEF RemoveInv
  <2> QED
    BY <2>2, <2>3, <2>4
<1>6. IdInv(p)'
  <2>1. \A v \in Topics : chan'[p][v] = 0 \/ chan'[p][v] = chan[p][v]
    BY <1>1
  <2> QED
    BY <1>0, <2>1 DEF PeerInv, IdInv, Types, ChanTypes
<1>7. OutInv(p)'
  BY <1>0, <1>1, <1>2, <1>3 DEF PeerInv, OutInv
<1>8. ClosedInv(p)'
  <2> SUFFICES ASSUME NEW o \in outs', o.peer = p
               PROVE  \/ chan'[p][o.topic] = o.id /\ o.topic \notin paused'[p]
                      \/ o.id < base[p]
                      \/ reg'[o.topic] # o.gen
    BY DEF ClosedInv
  <2>1. /\ o \in outs /\ o.topic \in Topics /\ o.gen # 0
        /\ \/ chan[p][o.topic] = o.id /\ o.topic \notin paused[p]
           \/ o.id < base[p]
           \/ reg[o.topic] # o.gen
    BY <1>0 DEF PeerInv, ClosedInv, ObjInv, Types, ObjTypes, Outputs
  <2>2. CASE o.topic = t
    BY <2>1, <2>2
  <2>3. CASE o.topic # t
    BY <1>1, <2>1, <2>3
  <2> QED
    BY <2>2, <2>3
<1>9. ReadyInv(p)'
  <2> SUFFICES ASSUME up[p] PROVE ReadyInv(p)'
    BY DEF ReadyInv
  <2>1. ReadyInv(p) /\ (Awaits(p)' <=> Awaits(p))
    BY <1>0, <1>1 DEF PeerInv, Awaits
  <2>2. ASSUME NEW v \in Data, chan'[p][v] # 0, In(p, v)'
        PROVE  Ready(p, v, reg[v])' \/ Erased(p, v)' \/ Awaits(p)'
    <3>1. v \in Topics /\ v # t
      BY <1>1, <2>2, TopicsAssumption DEF Topics
    <3>2. In(p, v) /\ chan'[p][v] = chan[p][v] /\ reg'[v] = reg[v]
      BY <1>1, <1>3, <2>2, <3>1
    <3>3. \E o \in outs \cap outs' : /\ o.peer = p /\ o.topic = v /\ o.id = chan[p][v]
                                     /\ o.gen = reg[v]
      BY <2>2, <3>2 DEF In
    <3>4. Ready(p, v, reg[v]) => Ready(p, v, reg[v])'
      BY <3>1, <3>2, <3>3, ReadyStays DEF Ready
    <3> QED
      BY <1>3, <2>1, <2>2, <3>1, <3>2, <3>4 DEF ReadyInv
  <2>3. ASSUME NEW v \in Media, chan'[p][v] >= base'[p]
        PROVE  Ready(p, v, 0)' \/ Awaits(p)'
    <3>1. v \in Topics /\ chan'[p][v] = chan[p][v]
      BY <1>0, <1>1, <2>3 DEF Topics, Types, ChanTypes
    <3> QED
      BY <2>1, <2>3, <3>1 DEF ReadyInv, Ready
  <2> QED
    BY <1>1, <2>2, <2>3 DEF ReadyInv
<1> QED
  BY <1>4, <1>5, <1>6, <1>7, <1>8, <1>9 DEF PeerInv

LEMMA DestroyKeeps ==
    ASSUME IInv, NEW p \in Peers, Destroy(p)
    PROVE  IInv' /\ Local(p) /\ Objects(p)
<1> DEFINE t == round[p].cur
           g == round[p].ref
<1>0. /\ round[p].at = "destroy" /\ Types /\ ObjInv /\ PeerInv(p)
      /\ t \in Topics /\ g \in Nat /\ g # 0
  BY DEF Destroy, IInv, PeerInv, RoundInv, Busy, Types, RoundTypes, Rounds
<1>1. /\ reg' = [reg EXCEPT ![t] = 0] /\ made' = made
      /\ erased' = erased \cup {[o EXCEPT !.gen = 0] : o \in OutputsOf(outs, t, reg[t])}
      /\ Forget(p, t) /\ Keep(outs, subs)
      /\ UNCHANGED <<peerVars, nextId, base, pend, stable, inputs>>
  BY DEF Destroy
<1> HIDE DEF t, g
<1>2. /\ reg' \in [Topics -> Nat] /\ reg'[t] = 0
      /\ \A v \in Topics \ {t} : reg'[v] = reg[v]
  BY <1>0, <1>1 DEF Types, ObjTypes
<1>3. /\ round' \in [Peers -> Rounds]
      /\ round'[p].at = "close" /\ round'[p].ref = 0
      /\ \A q \in Peers \ {p} : round'[q] = round[q]
      /\ chan' \in [Peers -> [Topics -> Nat]] /\ paused' \in [Peers -> SUBSET Media]
      /\ \A q \in Peers \ {p} : chan'[q] = chan[q] /\ paused'[q] = paused[q]
  BY <1>0, <1>1, ForgetChanges DEF t
<1>4. Handles(p, outs, subs)
  <2>1. \A o \in outs : <<o.topic, o.gen>> \in subs
    BY <1>0 DEF ObjInv
  <2> QED
    BY <1>0, <1>1, <1>2, <1>3, <2>1 DEF Handles, Busy, Types, ObjTypes, t, g
<1>5. /\ outs' = {e \in outs : Held(reg', round', e.topic, e.gen)}
      /\ subs' = {e \in subs : Held(reg', round', e[1], e[2])}
      /\ ready' = {e \in ready : e.gen = 0 \/ e \in outs'}
  BY <1>1 DEF Keep
<1>6. /\ outs' \subseteq Outputs /\ ready' \subseteq Outputs
      /\ subs' \subseteq Topics \X Nat /\ ObjInv'
  <2>1. <<t, g>> \in subs' => \E q \in Peers : round'[q].cur = t /\ round'[q].ref = g
    BY <1>0, <1>2, <1>5 DEF Held
  <2> QED
    BY <1>0, <1>4, <2>1, HandlesKeepsObjects DEF Busy, t, g
<1>7. /\ erased' \subseteq Outputs /\ erased \subseteq erased'
      /\ \A e \in erased' \ erased :
           \E o \in outs : e.peer = o.peer /\ e.topic = o.topic /\ e.id = o.id /\ e.gen = 0
      /\ \A o \in outs : o.topic = t /\ o.gen = reg[t] =>
           \E e \in erased' : e.peer = o.peer /\ e.topic = o.topic /\ e.id = o.id /\ e.gen = 0
  <2>1. ASSUME NEW o \in outs
        PROVE  LET e == [o EXCEPT !.gen = 0]
               IN  /\ e \in Outputs /\ e.gen = 0
                   /\ e.peer = o.peer /\ e.topic = o.topic /\ e.id = o.id
    BY <1>0, <2>1 DEF Types, ObjTypes, Outputs
  <2>2. ASSUME NEW e \in erased', e \notin erased
        PROVE  \E o \in outs : e = [o EXCEPT !.gen = 0]
    BY <1>1, <2>2 DEF OutputsOf
  <2>3. ASSUME NEW o \in outs, o.topic = t, o.gen = reg[t]
        PROVE  [o EXCEPT !.gen = 0] \in erased'
    BY <1>1, <2>3 DEF OutputsOf
  <2>4. erased \subseteq erased' /\ erased \subseteq Outputs
    BY <1>0, <1>1 DEF Types, ObjTypes
  <2>5. \A e \in erased' \ erased : /\ e \in Outputs
          /\ \E o \in outs : e.peer = o.peer /\ e.topic = o.topic /\ e.id = o.id /\ e.gen = 0
    BY <2>1, <2>2
  <2>6. \A o \in outs : o.topic = t /\ o.gen = reg[t] =>
           \E e \in erased' : e.peer = o.peer /\ e.topic = o.topic /\ e.id = o.id /\ e.gen = 0
    BY <2>1, <2>3
  <2> QED
    BY <2>4, <2>5, <2>6
<1>8. Types'
  BY <1>0, <1>1, <1>2, <1>3, <1>6, <1>7
  DEF Types, PeerTypes, ChanTypes, ObjTypes, RoundTypes, peerVars
<1>9. Local(p)
  BY <1>1, <1>3 DEF Local, peerVars, Types, ChanTypes
<1>10. Objects(p)
  <2>1. \A e \in erased' : e.peer # p => \E o \in outs \cup erased : o.peer = e.peer /\ o.id = e.id
    BY <1>7
  <2>2. \A o \in outs : o.gen = reg[o.topic] /\ reg'[o.topic] # reg[o.topic] =>
          \E e \in erased' : e.peer = o.peer /\ e.topic = o.topic /\ e.id = o.id /\ e.gen = 0
    BY <1>0, <1>2, <1>7 DEF Types, ObjTypes, Outputs
  <2> QED
    BY <1>0, <1>4, <1>7, <2>1, <2>2, HandlesKeepsOthers DEF Busy
<1>11. PeerInv(p)'
  <2>1. outs' \subseteq outs /\ \A o \in outs : o.topic # t /\ o.gen = reg[o.topic] => o \in outs'
    BY <1>0, <1>2, <1>5 DEF Held, Types, ObjTypes, Outputs
  <2>2. \A o \in outs' : o.peer = p /\ o.topic = t /\ o.id = chan[p][t] => o.gen # reg'[t]
    BY <1>0, <1>2, <2>1 DEF ObjInv
  <2>3. \A e \in erased' : e.peer = p => e.id < nextId[p]
    BY <1>0, <1>7 DEF PeerInv, IdInv
  <2> QED
    BY <1>0, <1>1, <1>2, <1>5, <1>7, <2>1, <2>2, <2>3, ForgetKeepsOwn DEF t
<1> QED
  BY <1>3, <1>6, <1>8, <1>9, <1>10, <1>11, OthersKept DEF IInv

LEMMA RemoveKeeps ==
    ASSUME IInv, NEW p \in Peers, Remove(p)
    PROVE  IInv' /\ Local(p) /\ Objects(p)
<1> DEFINE t == round[p].cur
           g == round[p].ref
           o == Output(p, t, g)
           O == outs \ {o}
           S == IF OutputsOf(O, t, g) = {} /\ t \notin Media THEN subs \ {<<t, g>>} ELSE subs
           last == g # 0 /\ t \notin Write /\ OutputsOf(O, t, g) = {}
<1>0. /\ round[p].at = "remove" /\ Types /\ ObjInv /\ PeerInv(p)
      /\ t \in Topics /\ g \in Nat /\ InUse(p, t)
      /\ t \in round[p].topics
  BY DEF Remove, IInv, PeerInv, RoundInv, CloseInv, Busy, Closing, Types, RoundTypes, Rounds
<1>1. o \in Outputs /\ o.peer = p /\ o.topic = t /\ o.id = chan[p][t] /\ o.gen = g
  BY <1>0 DEF InUse, Types, ChanTypes, Output, Outputs
<1>2. /\ reg' = reg /\ made' = made /\ Keep(O, S)
      /\ last => round' = [round EXCEPT ![p].at = "destroy"] /\ UNCHANGED <<chan, paused>>
      /\ ~last => Forget(p, t)
      /\ UNCHANGED <<peerVars, nextId, base, pend, stable, erased, inputs>>
  BY DEF Remove, RemoveFrom
<1> HIDE DEF o
<1>3. ASSUME last
      PROVE  /\ round' \in [Peers -> Rounds]
             /\ round'[p].at = "destroy" /\ round'[p].cur = t /\ round'[p].ref = g
             /\ round'[p].topics = round[p].topics /\ round'[p].shut = round[p].shut
             /\ round'[p].neg = round[p].neg /\ round'[p].dirty = round[p].dirty
             /\ \A q \in Peers \ {p} : round'[q] = round[q]
  <2> DEFINE new == [round[p] EXCEPT !.at = "destroy"]
  <2>1. round[p] \in Rounds
    BY <1>0 DEF Types, RoundTypes
  <2>2. /\ new \in Rounds
        /\ new.at = "destroy" /\ new.cur = t /\ new.ref = g
        /\ new.topics = round[p].topics /\ new.shut = round[p].shut
        /\ new.neg = round[p].neg /\ new.dirty = round[p].dirty
    BY <2>1 DEF Rounds, Stages
  <2>3. round' = [round EXCEPT ![p] = new]
    BY <1>2, <1>3
  <2> HIDE DEF new, t, g
  <2> QED
    BY <1>0, <2>2, <2>3 DEF Types, RoundTypes
<1>4. ASSUME ~last
      PROVE  /\ round' \in [Peers -> Rounds]
             /\ round'[p].at = "close" /\ round'[p].ref = 0
             /\ \A q \in Peers \ {p} : round'[q] = round[q]
             /\ chan' \in [Peers -> [Topics -> Nat]] /\ paused' \in [Peers -> SUBSET Media]
             /\ \A q \in Peers \ {p} : chan'[q] = chan[q] /\ paused'[q] = paused[q]
  <2>1. Forget(p, t)
    BY <1>2, <1>4
  <2> HIDE DEF last
  <2> QED
    BY <1>0, <2>1, ForgetChanges
<1>5. \A e \in outs : e.topic = t /\ e.gen = g => <<t, g>> \in subs
  BY <1>0 DEF ObjInv
<1>6. Handles(p, O, S)
  <2>1. /\ round' \in [Peers -> Rounds]
        /\ round'[p].ref = 0 \/ (round'[p].cur = t /\ round'[p].ref = g)
        /\ round'[p].at \in Busy => round'[p].cur = t /\ round'[p].ref = g
        /\ \A q \in Peers \ {p} : round'[q] = round[q]
    <3> HIDE DEF last, t, g
    <3>1. CASE last
      BY <1>3, <3>1
    <3>2. CASE ~last
      BY <1>4, <3>2 DEF Busy
    <3> QED
      BY <3>1, <3>2
  <2>2. /\ O \subseteq Outputs /\ O \subseteq outs
        /\ \A e \in outs : e \in O \/ (e.peer = p /\ e.topic = t /\ e.gen = g)
    BY <1>0, <1>1 DEF Types, ObjTypes
  <2>3. /\ \A s \in S : s \in subs
        /\ \A s \in subs : s \in S \/ s = <<t, g>>
    OBVIOUS
  <2>4. (\E e \in O : e.topic = t /\ e.gen = g) => <<t, g>> \in S
    BY <1>5 DEF OutputsOf
  <2> HIDE DEF last, O, S
  <2> QED
    BY <1>0, <1>2, <2>1, <2>2, <2>3, <2>4 DEF Handles, Types, ObjTypes
<1>7. /\ outs' = {e \in O : Held(reg', round', e.topic, e.gen)}
      /\ subs' = {e \in S : Held(reg', round', e[1], e[2])}
      /\ ready' = {e \in ready : e.gen = 0 \/ e \in outs'}
  BY <1>2 DEF Keep
<1>8. /\ outs' \subseteq Outputs /\ ready' \subseteq Outputs
      /\ subs' \subseteq Topics \X Nat /\ ObjInv'
  <2>1. <<t, g>> \in subs' => \/ \E e \in O : e.topic = t /\ e.gen = g
                              \/ \E q \in Peers : round'[q].cur = t /\ round'[q].ref = g
    <3>1. CASE last
      BY <1>3, <3>1
    <3>2. CASE g = 0
      BY <1>0, <1>7, <3>2 DEF ObjInv
    <3>3. CASE t \in Write /\ OutputsOf(O, t, g) = {}
      BY <1>7, <3>3, TopicsAssumption
    <3>4. CASE OutputsOf(O, t, g) # {}
      BY <3>4 DEF OutputsOf
    <3> QED
      BY <3>1, <3>2, <3>3, <3>4
  <2> HIDE DEF O, S, last
  <2> QED
    BY <1>0, <1>6, <2>1, HandlesKeepsObjects DEF Busy
<1> HIDE DEF t, g, S, last
<1>9. outs' \subseteq outs /\ o \notin outs'
      /\ \A e \in outs : e # o /\ e.gen = reg[e.topic] => e \in outs'
  BY <1>2, <1>7 DEF O, Held
<1> HIDE DEF O
<1>10. Types'
  BY <1>0, <1>2, <1>3, <1>4, <1>8
  DEF Types, PeerTypes, ChanTypes, ObjTypes, RoundTypes, peerVars
<1>11. Local(p)
  BY <1>2, <1>3, <1>4 DEF Local, peerVars
<1>12. Objects(p)
  BY <1>0, <1>2, <1>6, HandlesKeepsOthers DEF Busy
<1>13. \A e \in outs' : e.peer = p /\ e.topic = t /\ e.id = chan[p][t] => e.gen # reg'[t]
  <2> SUFFICES ASSUME NEW e \in outs', e.peer = p, e.topic = t, e.id = chan[p][t], e.gen = reg[t]
               PROVE  FALSE
    BY <1>2
  <2>1. e.gen = g
    BY <1>0, <1>9 DEF PeerInv, RemoveInv, t, g
  <2>2. e = o
    BY <1>1, <1>8, <2>1, SameOutput
  <2> QED
    BY <1>9, <2>2
<1>14. \A e \in outs : e.topic # t /\ e.gen = reg[e.topic] => e \in outs'
  BY <1>1, <1>9
<1>15. CASE ~last
  <2>1. Forget(p, t)
    BY <1>2, <1>15
  <2>2. \A e \in erased' : e.peer = p => e.id < nextId[p]
    BY <1>0, <1>2 DEF PeerInv, IdInv
  <2>3. PeerInv(p)'
    BY <1>0, <1>2, <1>7, <1>9, <1>13, <1>14, <2>1, <2>2, ForgetKeepsOwn DEF t
  <2> QED
    BY <1>4, <1>8, <1>10, <1>11, <1>12, <1>15, <2>3, OthersKept DEF IInv
<1>16. CASE last
  <2> USE DEF peerVars
  <2>0. UNCHANGED <<want, known, up, pend, stable, reg, chan, paused, nextId, base, erased>>
    BY <1>2, <1>16
  <2>1. RoundInv(p)'
    BY <1>0, <1>3, <1>16, <2>0 DEF PeerInv, RoundInv, Busy, last, t
  <2>2. CloseInv(p)' /\ WantInv(p)'
    BY <1>0, <1>3, <1>16, <2>0 DEF PeerInv, CloseInv, WantInv, InUse, Seen, Visible, Closing
  <2>3. IdInv(p)'
    BY <1>0, <1>7, <1>9, <2>0 DEF PeerInv, IdInv
  <2>4. \A v \in Topics \ {t} : (In(p, v)' <=> In(p, v)) /\ (Erased(p, v)' <=> Erased(p, v))
    BY <1>9, <1>14, <2>0 DEF In, Erased
  <2>5. OutInv(p)'
    BY <1>0, <1>3, <1>16, <2>0, <2>4 DEF PeerInv, OutInv, InUse
  <2>6. RemoveInv(p)'
    BY <1>3, <1>13, <1>16, <2>0 DEF RemoveInv
  <2>7. ClosedInv(p)'
    BY <1>0, <1>9, <2>0 DEF PeerInv, ClosedInv
  <2>8. ReadyInv(p)'
    <3> SUFFICES ASSUME up[p] PROVE ReadyInv(p)'
      BY <2>0 DEF ReadyInv
    <3>1. ReadyInv(p) /\ (Awaits(p)' <=> Awaits(p))
      BY <1>0, <1>3, <1>16, <2>0 DEF PeerInv, Awaits
    <3>2. ASSUME NEW v \in Data, chan[p][v] # 0, In(p, v)'
          PROVE  Ready(p, v, reg[v])' \/ Erased(p, v)' \/ Awaits(p)'
      <4>1. \E e \in outs \cap outs' : /\ e.peer = p /\ e.topic = v /\ e.id = chan[p][v]
                                       /\ e.gen = reg[v]
        BY <1>9, <2>0, <3>2 DEF In
      <4>2. In(p, v) /\ v \in Topics
        BY <4>1 DEF In, Topics
      <4>3. Ready(p, v, reg[v]) => Ready(p, v, reg[v])'
        BY <1>7, <2>0, <4>1, <4>2, ReadyStays DEF Ready
      <4>4. Erased(p, v) => Erased(p, v)'
        BY <2>0 DEF Erased
      <4> QED
        BY <3>1, <3>2, <4>2, <4>3, <4>4 DEF ReadyInv
    <3>3. ASSUME NEW v \in Media, chan[p][v] >= base[p]
          PROVE  Ready(p, v, 0)' \/ Awaits(p)'
      BY <1>7, <2>0, <3>1, <3>3 DEF ReadyInv, Ready
    <3> QED
      BY <1>3, <1>16, <2>0, <3>2, <3>3 DEF ReadyInv
  <2>9. PeerInv(p)'
    BY <2>1, <2>2, <2>3, <2>5, <2>6, <2>7, <2>8 DEF PeerInv
  <2> QED
    BY <1>3, <1>8, <1>10, <1>11, <1>12, <1>16, <2>9, OthersKept DEF IInv
<1> QED
  BY <1>15, <1>16

-----------------------------------------------------------------------------
(* Inputs: whoever's requests change is asked for a round                   *)

LEMMA AskRounds ==
    ASSUME IInv, NEW A, NEW D, Ask(A, D)
    PROVE  /\ pend' \in [Peers -> Nat] /\ round' \in [Peers -> Rounds]
           /\ \A p \in Peers :
                /\ pend'[p] = IF p \in A THEN pend[p] + 1 ELSE pend[p]
                /\ round'[p] = IF p \in D /\ round[p].at # "idle"
                               THEN [round[p] EXCEPT !.dirty = TRUE] ELSE round[p]
<1>1. \A p \in Peers : round[p] \in Rounds /\ [round[p] EXCEPT !.dirty = TRUE] \in Rounds
  BY DEF IInv, Types, RoundTypes, Rounds
<1> QED
  BY <1>1 DEF Ask, IInv, Types, PeerTypes

LEMMA InputKeeps ==
    ASSUME IInv, PeerTypes', round' \in [Peers -> Rounds],
           UNCHANGED <<chanVars, objVars, stable, erased>>,
           \A p \in Peers :
             /\ round'[p] = round[p] \/ round'[p] = [round[p] EXCEPT !.dirty = TRUE]
             /\ pend'[p] = pend[p] \/ pend'[p] > 0
             /\ pend'[p] = 0 => /\ want'[p] = want[p] /\ round'[p] = round[p]
                                /\ known' = known \/ want[p] = {}
             /\ up'[p] => up[p]
             /\ ~up'[p] => want'[p] = {}
    PROVE  IInv'
<1> USE DEF chanVars, objVars
<1>1. Types /\ ObjInv
  BY DEF IInv
<1>2. ASSUME NEW p \in Peers
      PROVE  /\ round'[p].at = round[p].at /\ round'[p].topics = round[p].topics
             /\ round'[p].cur = round[p].cur /\ round'[p].ref = round[p].ref
             /\ round'[p].neg = round[p].neg /\ round'[p].shut = round[p].shut
  <2>1. round[p] \in Rounds
    BY <1>1 DEF Types, RoundTypes
  <2>2. CASE round'[p] = round[p]
    BY <2>2
  <2>3. CASE round'[p] = [round[p] EXCEPT !.dirty = TRUE]
    BY <2>1, <2>3 DEF Rounds
  <2> QED
    BY <2>2, <2>3
<1>3. Types'
  BY <1>1 DEF Types, ChanTypes, ObjTypes, RoundTypes
<1>4. ObjInv'
  BY <1>1, <1>2 DEF ObjInv, Held
<1>5. ASSUME NEW p \in Peers PROVE PeerInv(p)'
  <2>0. /\ PeerInv(p) /\ pend[p] \in Nat /\ pend'[p] \in Nat
    BY <1>1 DEF IInv, Types, PeerTypes
  <2>1. RoundInv(p)'
    BY <1>2, <2>0 DEF PeerInv, RoundInv
  <2>2. CloseInv(p)'
    BY <1>2, <2>0 DEF PeerInv, CloseInv, InUse
  <2>3. WantInv(p)'
    <3>1. Seen(p)' => Seen(p)
      BY <1>2, <2>0 DEF Seen
    <3>2. pend'[p] = 0 => want'[p] = want[p] /\ Visible(p)' = Visible(p)
      BY DEF Visible
    <3> QED
      BY <1>2, <2>0, <3>1, <3>2 DEF PeerInv, WantInv, InUse, Seen
  <2>4. IdInv(p)' /\ ClosedInv(p)'
    BY <2>0 DEF PeerInv, IdInv, ClosedInv
  <2>5. OutInv(p)' /\ RemoveInv(p)'
    BY <1>2, <2>0 DEF PeerInv, OutInv, RemoveInv, InUse, In, Erased
  <2>6. ReadyInv(p)'
    BY <1>2, <2>0 DEF PeerInv, ReadyInv, In, Erased, Awaits, Ready
  <2> QED
    BY <2>1, <2>2, <2>3, <2>4, <2>5, <2>6 DEF PeerInv
<1> QED
  BY <1>3, <1>4, <1>5 DEF IInv

LEMMA AskKeeps ==
    ASSUME IInv, NEW A, NEW D \in SUBSET A, Ask(A, D),
           UNCHANGED <<chanVars, objVars, stable, erased>>,
           inputs' \in 0..MaxInputs, known' \subseteq Topics,
           want' \in [Peers -> SUBSET Topics], up' \in [Peers -> BOOLEAN],
           restart' \in [Peers -> BOOLEAN],
           \A q \in Peers \ A : want'[q] = want[q] /\ (known' = known \/ ~up[q]),
           \A q \in Peers : (up'[q] => up[q]) /\ (~up'[q] => want'[q] = {})
    PROVE  IInv'
<1>1. PeerTypes /\ \A q \in Peers : ~up[q] => want[q] = {}
  BY DEF IInv, Types, PeerInv, RoundInv
<1>2. /\ pend' \in [Peers -> Nat] /\ round' \in [Peers -> Rounds]
      /\ \A q \in Peers :
           /\ pend'[q] = IF q \in A THEN pend[q] + 1 ELSE pend[q]
           /\ round'[q] = IF q \in D /\ round[q].at # "idle"
                          THEN [round[q] EXCEPT !.dirty = TRUE] ELSE round[q]
  BY AskRounds
<1>3. PeerTypes'
  BY <1>1, <1>2 DEF PeerTypes
<1>4. ASSUME NEW q \in Peers
      PROVE  /\ round'[q] = round[q] \/ round'[q] = [round[q] EXCEPT !.dirty = TRUE]
             /\ pend'[q] = pend[q] \/ pend'[q] > 0
             /\ pend'[q] = 0 => /\ want'[q] = want[q] /\ round'[q] = round[q]
                                /\ known' = known \/ want[q] = {}
  BY <1>1, <1>2 DEF PeerTypes
<1> QED
  BY <1>2, <1>3, <1>4, InputKeeps

LEMMA RequestKeeps ==
    ASSUME IInv, NEW p \in Peers, NEW t \in Topics, Subscribe(p, t) \/ Unsubscribe(p, t)
    PROVE  IInv'
<1>1. PeerTypes /\ \A q \in Peers : ~up[q] => want[q] = {}
  BY DEF IInv, Types, PeerInv, RoundInv
<1>2. /\ Ask({p}, {p}) /\ up[p] /\ UNCHANGED <<chanVars, objVars, stable, erased>>
      /\ known' = known /\ up' = up /\ restart' = restart /\ inputs' \in 0..MaxInputs
      /\ want' \in [Peers -> SUBSET Topics] /\ \A q \in Peers \ {p} : want'[q] = want[q]
  BY <1>1, TopicsAssumption DEF Subscribe, Unsubscribe, Input, PeerTypes
<1> QED
  BY <1>1, <1>2, AskKeeps DEF PeerTypes

LEMMA PeerFailedKeeps ==
    ASSUME IInv, NEW p \in Peers, PeerFailed(p)
    PROVE  IInv'
<1>1. PeerTypes /\ \A q \in Peers : ~up[q] => want[q] = {}
  BY DEF IInv, Types, PeerInv, RoundInv
<1>2. /\ Ask({p}, {}) /\ UNCHANGED <<want, known, up, chanVars, objVars, stable, erased>>
      /\ restart' \in [Peers -> BOOLEAN] /\ inputs' \in 0..MaxInputs
  BY <1>1, TopicsAssumption DEF PeerFailed, Input, PeerTypes
<1> QED
  BY <1>1, <1>2, AskKeeps DEF PeerTypes

LEMMA LeaveKeeps ==
    ASSUME IInv, NEW p \in Peers, Leave(p)
    PROVE  IInv'
<1>1. PeerTypes /\ \A q \in Peers : ~up[q] => want[q] = {}
  BY DEF IInv, Types, PeerInv, RoundInv
<1>2. /\ Ask({p}, {p}) /\ UNCHANGED <<known, restart, chanVars, objVars, stable, erased>>
      /\ up' = [up EXCEPT ![p] = FALSE] /\ want' = [want EXCEPT ![p] = {}]
      /\ inputs' \in 0..MaxInputs
  BY <1>1, TopicsAssumption DEF Leave, Input, PeerTypes
<1>3. /\ want' \in [Peers -> SUBSET Topics] /\ up' \in [Peers -> BOOLEAN]
      /\ \A q \in Peers \ {p} : want'[q] = want[q] /\ up'[q] = up[q]
      /\ ~up'[p] /\ want'[p] = {}
  BY <1>1, <1>2 DEF PeerTypes
<1> QED
  BY <1>1, <1>2, <1>3, AskKeeps DEF PeerTypes

LEMMA DiscoverKeeps ==
    ASSUME IInv, NEW t \in Topics, Discover(t)
    PROVE  IInv'
<1>1. PeerTypes /\ \A q \in Peers : ~up[q] => want[q] = {}
  BY DEF IInv, Types, PeerInv, RoundInv
<1> DEFINE A == {q \in Peers : up[q]}
<1>2. /\ Ask(A, {}) /\ UNCHANGED <<want, up, restart, chanVars, objVars, stable, erased>>
      /\ known' \subseteq Topics /\ inputs' \in 0..MaxInputs
  BY <1>1, TopicsAssumption DEF Discover, Input, PeerTypes
<1>3. \A q \in Peers \ A : ~up[q]
  OBVIOUS
<1> HIDE DEF A
<1> QED
  BY <1>1, <1>2, <1>3, AskKeeps DEF PeerTypes

-----------------------------------------------------------------------------
(* The invariant and what follows from it                                   *)

LEMMA InitInv == Init => IInv
<1> SUFFICES ASSUME Init PROVE IInv
  OBVIOUS
<1>1. Types
  BY IdleRound, TopicsAssumption
  DEF Init, Types, PeerTypes, ChanTypes, ObjTypes, RoundTypes
<1>2. ObjInv
  BY IdleRound DEF Init, ObjInv, Busy
<1>3. ASSUME NEW p \in Peers PROVE PeerInv(p)
  <2>1. round[p] = NoRound /\ want[p] = {} /\ pend[p] = 0 /\ up[p] /\ outs = {} /\ ready = {}
        /\ erased = {} /\ base[p] = 1 /\ nextId[p] = 1 /\ \A t \in Topics : chan[p][t] = 0
    BY DEF Init
  <2>2. RoundInv(p) /\ CloseInv(p) /\ WantInv(p)
    BY <2>1, IdleRound DEF RoundInv, CloseInv, WantInv, InUse, Visible, Busy, Closing
  <2>3. IdInv(p) /\ OutInv(p) /\ RemoveInv(p) /\ ClosedInv(p)
    BY <2>1 DEF IdInv, OutInv, InUse, RemoveInv, ClosedInv
  <2>4. ReadyInv(p)
    BY <2>1, IdleRound DEF ReadyInv, Topics
  <2> QED
    BY <2>2, <2>3, <2>4 DEF PeerInv
<1> QED
  BY <1>1, <1>2, <1>3 DEF IInv

LEMMA StepKeeps ==
    ASSUME IInv, NEW p \in Peers, Step(p)
    PROVE  IInv' /\ Local(p) /\ Objects(p)
<1>1. CASE \E t \in Topics : Open(p, t) \/ Close(p, t)
  BY <1>1, OpenKeeps, CloseKeeps
<1>2. CASE BeginRound(p) \/ Add(p) \/ Scan(p) \/ EndClose(p)
  BY <1>2, BeginRoundKeeps, AddKeeps, ScanKeeps, EndCloseKeeps
<1>3. CASE Remove(p) \/ Destroy(p) \/ Negotiated(p) \/ StableCallback(p)
  BY <1>3, RemoveKeeps, DestroyKeeps, NegotiatedKeeps, StableCallbackKeeps
<1> QED
  BY <1>1, <1>2, <1>3 DEF Step

LEMMA NextInv == IInv /\ [Next]_vars => IInv'
<1> SUFFICES ASSUME IInv, [Next]_vars PROVE IInv'
  OBVIOUS
<1>1. ASSUME NEW p \in Peers,
             \/ \E t \in Topics : Subscribe(p, t) \/ Unsubscribe(p, t)
             \/ PeerFailed(p) \/ Leave(p) \/ Step(p)
      PROVE  IInv'
  BY <1>1, RequestKeeps, PeerFailedKeeps, LeaveKeeps, StepKeeps
<1>2. ASSUME NEW t \in Topics, Discover(t) PROVE IInv'
  BY <1>2, DiscoverKeeps
<1>3. CASE UNCHANGED vars
  <2> USE DEF vars, peerVars, chanVars, objVars
  <2>1. UNCHANGED <<want, known, up, restart, chan, paused, nextId, base, reg, made, outs, ready,
                    subs, pend, round, stable, erased, inputs>>
    BY <1>3
  <2>2. Types' /\ ObjInv'
    BY <2>1 DEF IInv, Types, PeerTypes, ChanTypes, ObjTypes, RoundTypes, ObjInv, Held
  <2>3. ASSUME NEW p \in Peers PROVE PeerInv(p)'
    BY <2>1 DEF IInv, PeerInv, RoundInv, IdInv, CloseInv, WantInv, OutInv, RemoveInv, ClosedInv,
                ReadyInv, InUse, Seen, Visible, In, Erased, Awaits, Ready
  <2> QED
    BY <2>2, <2>3 DEF IInv
<1> QED
  BY <1>1, <1>2, <1>3 DEF Next, Quiescent

THEOREM Invariant == Spec => []IInv
<1> QED
  BY InitInv, NextInv, PTL DEF Spec

\* TypeOK: every variable has its type in every reachable state, and only
\* objects that were made are subscribed.
THEOREM TypeCorrect == Spec => []TypeOK
<1>1. IInv => TypeOK
  <2> SUFFICES ASSUME IInv PROVE TypeOK
    OBVIOUS
  <2>1. Types /\ ObjInv
    BY DEF IInv
  <2>2. \A o \in outs \cup ready \cup erased :
          o.peer \in Peers /\ o.topic \in Topics /\ o.id > 0 /\ o.gen \in Nat
    BY <2>1 DEF Types, ObjTypes, Outputs
  <2>3. \A s \in subs : s[1] \in Topics /\ s[2] \in 1..made[s[1]]
    BY <2>1 DEF ObjInv, Types, ObjTypes
  <2>4. \A p \in Peers : round[p].at \in Stages /\ round[p].topics \subseteq Topics
    BY <2>1 DEF Types, RoundTypes, Rounds
  <2> QED
    BY <2>1, <2>2, <2>3, <2>4 DEF TypeOK, Types, PeerTypes, ChanTypes, ObjTypes
<1> QED
  BY <1>1, Invariant, PTL

\* No channel that its peer closed stays an output of the registered reader:
\* removeOutput and destroy() reach the object that has it.
THEOREM ClosedOutputsGone == Spec => []NoOutputAfterClose
<1>1. IInv => NoOutputAfterClose
  <2> SUFFICES ASSUME IInv, NEW o \in outs
               PROVE  \/ chan[o.peer][o.topic] = o.id /\ o.topic \notin paused[o.peer]
                      \/ o.id < base[o.peer]
                      \/ reg[o.topic] # o.gen
    BY DEF NoOutputAfterClose
  <2>1. o.peer \in Peers /\ ClosedInv(o.peer)
    BY DEF IInv, PeerInv, Types, ObjTypes, Outputs
  <2> QED
    BY <2>1 DEF ClosedInv
<1> QED
  BY <1>1, Invariant, PTL

\* A subscription or publisher that nobody asked for does not outlive the
\* rounds that close its channels.
THEOREM UnusedStopped == Spec => []StopsWhenUnusedUnlessRestarted
<1>1. IInv => StopsWhenUnusedUnlessRestarted
  <2> SUFFICES ASSUME IInv, \A p \in Peers : Settled(p), NEW s \in subs
               PROVE  \/ \E p \in Peers : s[1] \in want[p]
                      \/ \E o \in OutputsOf(outs, s[1], s[2]) : o.id < base[o.peer]
    BY DEF StopsWhenUnusedUnlessRestarted
  <2>1. \A p \in Peers : round[p].ref = 0 /\ PeerInv(p) /\ Seen(p) /\ round[p].at = "idle"
    BY DEF Settled, Seen, IInv, PeerInv, RoundInv, Busy
  <2>2. PICK o \in outs : o.topic = s[1] /\ o.gen = s[2]
    BY <2>1 DEF IInv, ObjInv
  <2>3. o \in Outputs /\ o.peer \in Peers /\ o.topic \in Topics /\ o.id # 0
        /\ o.gen # 0 /\ Held(reg, round, o.topic, o.gen)
    BY DEF IInv, Types, ObjTypes, ObjInv, Outputs
  <2>4. reg[o.topic] = o.gen
    BY <2>1, <2>3 DEF Held
  <2>5. CASE o.id < base[o.peer]
    BY <2>2, <2>5 DEF OutputsOf
  <2>6. CASE ~(o.id < base[o.peer])
    <3>1. InUse(o.peer, o.topic)
      BY <2>1, <2>3, <2>4, <2>6 DEF PeerInv, ClosedInv, InUse
    <3>2. o.topic \in want[o.peer]
      BY <2>1, <2>3, <3>1 DEF PeerInv, WantInv, Closing
    <3> QED
      BY <2>2, <2>3, <3>2
  <2> QED
    BY <2>5, <2>6
<1> QED
  BY <1>1, Invariant, PTL

\* The records that the properties name, and what In, Erased and Ready say.
LEMMA NamedOutput ==
    ASSUME IInv, NEW p \in Peers, NEW t \in Topics, chan[p][t] # 0
    PROVE  /\ In(p, t) => Output(p, t, reg[t]) \in outs
           /\ Erased(p, t) => Track(p, t) \in erased
           /\ Ready(p, t, 0) => Track(p, t) \in ready
           /\ Ready(p, t, reg[t]) => Output(p, t, reg[t]) \in ready
<1>1. /\ chan[p][t] \in Nat \ {0} /\ reg[t] \in Nat
      /\ outs \subseteq Outputs /\ ready \subseteq Outputs /\ erased \subseteq Outputs
  BY DEF IInv, Types, ChanTypes, ObjTypes
<1>2. ASSUME NEW g \in Nat, NEW o \in Outputs,
             o.peer = p, o.topic = t, o.id = chan[p][t], o.gen = g
      PROVE  o = Output(p, t, g)
  BY <1>1, <1>2, SameOutput DEF Output, Outputs
<1>3. Track(p, t) = Output(p, t, 0)
  BY DEF Track
<1> QED
  BY <1>1, <1>2, <1>3 DEF In, Erased, Ready

\* Once a peer's rounds are done, everything it asked for and that exists
\* reaches it, but what destroy() took from it or a replaced pc kept.
THEOREM RequestsAreServed == Spec => []RequestsServedUnlessErased
<1>1. IInv => RequestsServedUnlessErased
  <2> SUFFICES ASSUME IInv, NEW p \in Peers, Settled(p), NEW t \in Visible(p),
                      Track(p, t) \notin erased,
                      ~(t \in Media /\ chan[p][t] < base[p])
               PROVE  Served(p, t)
    BY DEF RequestsServedUnlessErased
  <2>1. /\ Types /\ ObjInv /\ PeerInv(p) /\ Seen(p) /\ round[p].at = "idle"
        /\ ~stable[p] /\ ~round[p].neg
    BY DEF IInv, Settled, Seen, PeerInv, RoundInv
  <2>2. t \in want[p] /\ t \in Topics /\ up[p]
    BY <2>1 DEF Visible, Types, PeerTypes, PeerInv, RoundInv
  <2>3. InUse(p, t) /\ chan[p][t] # 0 /\ ~Awaits(p)
    BY <2>1 DEF PeerInv, WantInv, InUse, Awaits
  <2>4. chan[p][t] >= base[p]
    BY <2>1, <2>2, <2>3 DEF PeerInv, IdInv, Types, ChanTypes
  <2>5. ~Erased(p, t)
    BY <2>2, <2>3, NamedOutput
  <2>6. In(p, t)
    BY <2>1, <2>2, <2>3, <2>5 DEF PeerInv, OutInv
  <2>7. reg[t] # 0 /\ <<t, reg[t]>> \in subs
    BY <2>1, <2>6 DEF In, ObjInv
  <2>8. /\ t \in Data => Ready(p, t, reg[t])
        /\ t \in Media => Ready(p, t, 0)
    BY <2>1, <2>2, <2>3, <2>4, <2>5, <2>6 DEF PeerInv, ReadyInv
  <2> QED
    BY <2>2, <2>3, <2>4, <2>6, <2>7, <2>8, NamedOutput DEF Served, InUse
<1> QED
  BY <1>1, Invariant, PTL

\* A round that takes a step is at another stage after it; only the callback
\* leaves it where it was.
LEMMA StepMoves ==
    ASSUME IInv, NEW p \in Peers, Step(p), round'[p] = round[p]
    PROVE  StableCallback(p)
<1>1. round \in [Peers -> Rounds]
  BY DEF IInv, Types, RoundTypes
<1>2. ASSUME NEW r, round' = [round EXCEPT ![p] = r] PROVE r = round[p]
  BY <1>1, <1>2
<1>3. round[p] \in Rounds
  BY <1>1
<1>4. ~BeginRound(p)
  <2> SUFFICES ASSUME BeginRound(p) PROVE FALSE
    OBVIOUS
  <2> DEFINE reconn == up[p] /\ restart[p]
             new == [NoRound EXCEPT !.at = "open", !.neg = reconn, !.reconn = reconn]
  <2>1. new.at = "open" /\ round[p].at = "idle"
    BY DEF BeginRound, NoRound
  <2>2. round' = [round EXCEPT ![p] = new]
    BY DEF BeginRound
  <2> HIDE DEF new
  <2> QED
    BY <1>2, <2>1, <2>2
<1>5. ASSUME NEW t \in Topics, Open(p, t) PROVE FALSE
  <2> DEFINE new == [round[p] EXCEPT !.at = "add", !.cur = t,
                       !.neg = round[p].neg \/ chan[p][t] = 0, !.ref = reg'[t]]
  <2>1. new.at = "add" /\ round[p].at = "open"
    BY <1>3, <1>5 DEF Open, Rounds
  <2>2. round' = [round EXCEPT ![p] = new]
    BY <1>5 DEF Open
  <2> HIDE DEF new
  <2> QED
    BY <1>2, <2>1, <2>2
<1>6. \A t \in Topics : ~Close(p, t)
  BY <1>2, <1>3 DEF Close, Rounds
<1>7. ~Add(p) /\ ~Scan(p)
  BY <1>2, <1>3 DEF Add, Scan, Rounds
<1>8. ~EndClose(p) /\ ~Negotiated(p)
  BY <1>2, <1>3, IdleRound DEF EndClose, Negotiated, Rounds
<1>9. \A t : Forget(p, t) => round[p].at = "close"
  BY <1>2, <1>3 DEF Forget, Rounds
<1>10. ~Remove(p) /\ ~Destroy(p)
  BY <1>1, <1>2, <1>3, <1>9 DEF Remove, Destroy, Rounds
<1> QED
  BY <1>4, <1>5, <1>6, <1>7, <1>8, <1>10 DEF Step

\* A served peer stays served whatever the others do, and whatever it is asked
\* for meanwhile, unless destroy() unregisters its reader, which is recorded.
THEOREM OthersLeaveServed == Spec => OthersDoNotInterrupt
<1>1. IInv /\ IInv' /\ [Next]_vars =>
        [\A p \in Peers, t \in Topics :
           Served(p, t) /\ round'[p] = round[p]
             => Served(p, t)' \/ Track(p, t) \in erased']_vars
  <2> SUFFICES ASSUME IInv, IInv', Next, NEW p \in Peers, NEW t \in Topics,
                      Served(p, t), round'[p] = round[p]
               PROVE  Served(p, t)' \/ Track(p, t) \in erased'
    BY DEF Quiescent
  <2>1. CASE UNCHANGED <<chanVars, reg, outs, subs>> /\ ready \subseteq ready'
    BY <2>1 DEF Served, Output, Track, chanVars
  <2>2. ASSUME NEW q \in Peers \ {p}, Step(q)
        PROVE  Served(p, t)' \/ Track(p, t) \in erased'
    <3>1. Local(q) /\ Objects(q)
      BY <2>2, StepKeeps
    <3> DEFINE o == Output(p, t, reg[t])
    <3>2. /\ chan'[p] = chan[p] /\ paused'[p] = paused[p] /\ base'[p] = base[p]
          /\ o \in outs /\ o.peer = p /\ o.topic = t /\ o.id = chan[p][t] /\ o.gen = reg[t]
      BY <3>1 DEF Local, Served, Output
    <3> HIDE DEF o
    <3>3. CASE o \in outs' /\ reg'[t] = reg[t]
      <4>1. <<t, reg[t]>> \in subs'
        BY <3>2, <3>3 DEF IInv, ObjInv
      <4>2. t \in Data => o \in ready'
        BY <3>1, <3>2, <3>3 DEF Served, Objects, o
      <4>3. t \in Media => Track(p, t) \in ready'
        BY <3>1 DEF Served, Objects, Track, Output
      <4>4. Output(p, t, reg[t])' = o /\ Track(p, t)' = Track(p, t)
        BY <3>2, <3>3 DEF Output, Track, o
      <4> QED
        BY <3>2, <3>3, <4>1, <4>2, <4>3, <4>4 DEF Served
    <3>4. CASE ~(o \in outs' /\ reg'[t] = reg[t])
      <4>1. PICK e \in erased' : e.peer = p /\ e.topic = t /\ e.id = chan[p][t] /\ e.gen = 0
        BY <3>1, <3>2, <3>4 DEF Objects
      <4>2. chan'[p][t] # 0
        BY <3>2 DEF IInv, Types, ObjTypes, Outputs
      <4>3. Erased(p, t)'
        BY <3>2, <4>1 DEF Erased
      <4> QED
        BY <3>2, <4>1, <4>2 DEF IInv, Types, ObjTypes, Outputs, Track, Output
    <3> QED
      BY <3>3, <3>4
  <2>3. CASE Step(p)
    BY <2>1, <2>3, StepMoves DEF StableCallback
  <2>4. CASE \E q \in Peers :
               \/ \E v \in Topics : Subscribe(q, v) \/ Unsubscribe(q, v)
               \/ PeerFailed(q) \/ Leave(q)
    BY <2>1, <2>4 DEF Subscribe, Unsubscribe, PeerFailed, Leave, objVars
  <2>5. CASE (\E v \in Topics : Discover(v)) \/ Quiescent
    BY <2>1, <2>5 DEF Discover, Quiescent, objVars, vars
  <2> QED
    BY <2>2, <2>3, <2>4, <2>5 DEF Next
<1> QED
  BY <1>1, Invariant, PTL DEF Spec, OthersDoNotInterrupt
=============================================================================
