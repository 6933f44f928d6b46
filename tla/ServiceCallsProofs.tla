------------------------- MODULE ServiceCallsProofs -------------------------
(***************************************************************************)
(* Theorems of ServiceCalls for any calls and services.                     *)
(***************************************************************************)
EXTENDS ServiceCalls, FiniteSetTheorems, SequenceTheorems, TLAPS

Initialised == {"request", "lock", "wait"}

\* srv_init_mutex is held by the one call that looks at the caches, and what
\* a call found there is what is there.
CacheInv ==
    \A c \in Calls :
      /\ at[c] \in {"client", "types"} => initBy = c
      /\ at[c] = "types" => using[c] = client[svc[c]]
      /\ at[c] \in Initialised => using[c] # None /\ using[c] = client[svc[c]]

\* A client's mutex is held by the one call that waits for it to respond.
HolderInv ==
    /\ \A c \in Calls : at[c] = "wait" => holder[using[c]] = c
    /\ \A k \in Clients :
         holder[k] # None => at[holder[k]] = "wait" /\ using[holder[k]] = k

IInv == TypeOK /\ CacheInv /\ HolderInv
-----------------------------------------------------------------------------
LEMMA IInvInductive == ASSUME IInv, [Next]_vars PROVE IInv'
<1> USE NoneAssumption
    DEF IInv, TypeOK, CacheInv, HolderInv, Initialised, Clients, callVars,
        cacheVars, clientVars
<1>1. ASSUME NEW c \in Calls, NEW s \in Services, Accept(c, s)
      PROVE  IInv'
  BY <1>1, SMTT(30) DEF Accept, Goto
<1>2. ASSUME NEW c \in Calls, LockInit(c)
      PROVE  IInv'
  BY <1>2, SMTT(30) DEF LockInit, Goto
<1>3. ASSUME NEW c \in Calls, FindClient(c)
      PROVE  IInv'
  BY <1>3, SMTT(30) DEF FindClient, Goto
<1>4. ASSUME NEW c \in Calls, MakeClient(c)
      PROVE  IInv'
  <2> DEFINE mine == IF using[c] = None THEN c ELSE using[c]
  <2>1. /\ at[c] = "types" /\ svc[c] \in Services /\ mine \in Clients
        /\ using' = [using EXCEPT ![c] = mine]
        /\ client' = [client EXCEPT ![svc[c]] = mine]
        /\ made' \subseteq Clients
        /\ initBy' = None
        /\ UNCHANGED <<svc, taken, clientVars>>
    <3>1. at[c] = "types" /\ svc[c] \in Services /\ using[c] = client[svc[c]]
      BY <1>4 DEF MakeClient
    <3>2. mine \in Clients
      BY <3>1
    <3>3. client' = [client EXCEPT ![svc[c]] =
                       IF client[svc[c]] = None THEN mine ELSE client[svc[c]]]
      BY <1>4 DEF MakeClient
    <3>4. (IF client[svc[c]] = None THEN mine ELSE client[svc[c]]) = mine
      BY <3>1
    <3>5. made' \subseteq Clients
      BY <1>4 DEF MakeClient
    <3>6. /\ using' = [using EXCEPT ![c] = mine]
          /\ initBy' = None
          /\ UNCHANGED <<svc, taken, clientVars>>
      BY <1>4 DEF MakeClient
    <3> QED
      BY <3>1, <3>2, <3>3, <3>4, <3>5, <3>6
  <2>2. \A d \in Calls \ {c} : at[d] \notin {"client", "types"}
    BY <2>1
  <2>3. \A d \in Calls \ {c} :
          at[d] \in Initialised => using[d] = client'[svc[d]]
    BY <2>1
  <2>4. CASE Goto(c, "request") /\ types' = types \cup {svc[c]} /\ UNCHANGED acked
    <3> HIDE DEF mine
    <3>1. at' = [at EXCEPT ![c] = "request"]
      BY <2>4 DEF Goto
    <3>2. mine # None
      BY <2>1 DEF mine
    <3>3. TypeOK'
      BY <2>1, <2>4, <3>1
    <3>4. CacheInv'
      BY <2>1, <2>2, <2>3, <3>1, <3>2
    <3>5. HolderInv'
      BY <2>1, <3>1
    <3> QED
      BY <3>3, <3>4, <3>5
  <2>5. CASE Answer(c, "error") /\ UNCHANGED types
    <3> HIDE DEF mine
    <3>1. /\ at' = [at EXCEPT ![c] = "done"]
          /\ acked' = [acked EXCEPT ![c] = "error"]
      BY <2>5 DEF Answer, Goto
    <3>2. TypeOK'
      BY <2>1, <2>5, <3>1
    <3>3. CacheInv'
      BY <2>1, <2>2, <2>3, <3>1
    <3>4. HolderInv'
      BY <2>1, <3>1
    <3> QED
      BY <3>2, <3>3, <3>4
  <2> QED
    BY <1>4, <2>4, <2>5 DEF MakeClient
<1>5. ASSUME NEW c \in Calls, ClientFails(c)
      PROVE  IInv'
  BY <1>5, SMTT(30) DEF ClientFails, Goto, Answer
<1>6. ASSUME NEW c \in Calls, MapRequest(c)
      PROVE  IInv'
  <2>1. CASE Goto(c, "lock") /\ UNCHANGED acked
    BY <1>6, <2>1, SMTT(30) DEF MapRequest, Goto
  <2>2. CASE Answer(c, "error")
    BY <1>6, <2>2, SMTT(30) DEF MapRequest, Goto, Answer
  <2> QED
    BY <1>6, <2>1, <2>2 DEF MapRequest
<1>7. ASSUME NEW c \in Calls, Send(c)
      PROVE  IInv'
  BY <1>7, SMTT(30) DEF Send, Goto
<1>8. ASSUME NEW c \in Calls, SendFails(c)
      PROVE  IInv'
  BY <1>8, SMTT(30) DEF SendFails, Goto, Answer
<1>9. ASSUME NEW c \in Calls, GiveUp(c)
      PROVE  IInv'
  BY <1>9, SMTT(30) DEF GiveUp, Goto
<1>10. ASSUME NEW c \in Calls, Take(c)
       PROVE  IInv'
  BY <1>10, SMTT(30) DEF Take, Goto
<1>11. ASSUME NEW c \in Calls, Reply(c)
       PROVE  IInv'
  BY <1>11, SMTT(30) DEF Reply, Goto, Answer
<1>12. ASSUME NEW k \in Clients, NEW c \in Calls, Respond(k, c)
       PROVE  IInv'
  BY <1>12, SMTT(30) DEF Respond
<1>13. CASE UNCHANGED vars
  BY <1>13 DEF vars
<1> QED
  BY <1>1, <1>2, <1>3, <1>4, <1>5, <1>6, <1>7, <1>8, <1>9, <1>10, <1>11,
     <1>12, <1>13 DEF Next, Step, Quiescent

LEMMA IInvCorrect == Spec => []IInv
<1>1. Init => IInv
  BY NoneAssumption
     DEF Init, IInv, TypeOK, CacheInv, HolderInv, Initialised, Clients
<1>2. IInv /\ [Next]_vars => IInv'
  BY IInvInductive
<1> QED
  BY <1>1, <1>2, PTL DEF Spec

\* The ranges of the variables; every call past onServiceCall has a
\* discovered service.
THEOREM ServiceTypeCorrect == Spec => []TypeOK
<1>1. IInv => TypeOK
  BY DEF IInv
<1> QED
  BY <1>1, IInvCorrect, PTL

\* However many calls of a service start at once, they end up with one
\* client, and so with one mutex and one inbox.
THEOREM OneClientCorrect == Spec => []OneClientPerService
<1>1. IInv => OneClientPerService
  BY DEF IInv, CacheInv, OneClientPerService, Initialised
<1> QED
  BY <1>1, IInvCorrect, PTL

\* At most one call of a service waits for a response: "prevent another call
\* to the service until previous call finishes".
OneWaiter ==
    \A c, d \in Calls :
      svc[c] = svc[d] /\ at[c] = "wait" /\ at[d] = "wait" => c = d

THEOREM OneWaiterCorrect == Spec => []OneWaiter
<1>1. IInv => OneWaiter
  BY DEF IInv, CacheInv, HolderInv, OneWaiter, Initialised
<1> QED
  BY <1>1, IInvCorrect, PTL

-----------------------------------------------------------------------------
(* Requests and responses                                                   *)

Sent == {"wait", "reply", "done", "gaveup"}
InBox(k, c) == \E i \in DOMAIN inbox[k] : inbox[k][i] = c
Pending(k, c) == <<k, c>> \in open \/ InBox(k, c)

\* A client belongs to one service, that of the call that made it.
UseInv ==
    /\ \A s \in Services : client[s] # None =>
         svc[client[s]] = s /\ at[client[s]] \notin {"new", "init", "client", "types"}
    /\ \A c \in Calls : using[c] # None =>
         at[c] \notin {"new", "init", "client"} /\ using[c] = client[svc[c]]

\* A request is with the service or its response in the inbox, once, until it
\* is taken; a call that ended before its response came took another's.
PendingInv ==
    /\ \A k \in Clients, c \in Calls : Pending(k, c) =>
         /\ using[c] = k /\ at[c] \in Sent
         /\ at[c] \in {"reply", "done"} => taken[c] # None
         /\ \A d \in Calls : taken[d] # c
    /\ \A k \in Clients, c \in Calls : <<k, c>> \in open => ~InBox(k, c)
    /\ \A k \in Clients : \A i, j \in DOMAIN inbox[k] : inbox[k][i] = inbox[k][j] => i = j

TakenInv ==
    \A c \in Calls : taken[c] # None => at[c] \in {"reply", "done"} /\ at[taken[c]] \in Sent

ResponseInv == UseInv /\ PendingInv /\ TakenInv /\ OwnOrLateResponse

\* Calls that use one client call one service.
LEMMA SameClient ==
    ASSUME IInv, UseInv, NEW c \in Calls, NEW d \in Calls,
           using[c] = using[d], using[c] # None
    PROVE  svc[c] = svc[d]
<1> QED
  BY DEF IInv, TypeOK, UseInv

\* A call moves on before it has sent anything, or after it took its response.
LEMMA QuietStep ==
    ASSUME IInv, ResponseInv, UseInv', NEW c \in Calls, NEW a,
           at' = [at EXCEPT ![c] = a],
           UNCHANGED <<open, inbox, taken>>,
           at[c] = "new" \/ svc' = svc, \A d \in Calls \ {c} : svc'[d] = svc[d],
           \A d \in Calls \ {c} : using'[d] = using[d],
           \/ at[c] \notin Sent /\ a \notin {"reply", "wait", "gaveup"}
           \/ at[c] = "reply" /\ a = "done" /\ using' = using
    PROVE  ResponseInv'
<1>1. at \in [Calls -> {"new", "init", "client", "types", "request", "lock",
                         "wait", "reply", "done", "gaveup"}]
      /\ taken \in [Calls -> Calls \cup {None}]
  BY DEF IInv, TypeOK
<1>2. \A k \in Clients, d \in Calls : Pending(k, d)' <=> Pending(k, d)
  BY DEF Pending, InBox
<1>3. at'[c] = a /\ \A d \in Calls \ {c} : at'[d] = at[d]
  BY <1>1
<1>4. PendingInv'
  <2>1. ASSUME NEW k \in Clients, NEW d \in Calls, Pending(k, d)
        PROVE  /\ using'[d] = k /\ at'[d] \in Sent
               /\ at'[d] \in {"reply", "done"} => taken[d] # None
               /\ \A e \in Calls : taken[e] # d
    <3>1. /\ using[d] = k /\ at[d] \in Sent
          /\ at[d] \in {"reply", "done"} => taken[d] # None
          /\ \A e \in Calls : taken[e] # d
      BY <2>1 DEF ResponseInv, PendingInv
    <3> QED
      BY <1>3, <3>1 DEF Sent
  <2> QED
    BY <1>2, <2>1 DEF ResponseInv, PendingInv, InBox
<1>5. TakenInv'
  BY <1>1, <1>3 DEF ResponseInv, TakenInv, Sent
<1>6. OwnOrLateResponse'
  <2> SUFFICES ASSUME NEW d \in Calls, taken[d] # None
               PROVE  /\ taken[d] = d \/ \E e \in Calls : svc'[e] = svc'[d] /\ at'[e] = "gaveup"
                      /\ \A e \in Calls \ {d} : taken[e] # taken[d]
    BY DEF OwnOrLateResponse
  <2>1. /\ taken[d] = d \/ \E e \in Calls : svc[e] = svc[d] /\ at[e] = "gaveup"
        /\ \A e \in Calls \ {d} : taken[e] # taken[d]
        /\ at[d] # "new"
    BY DEF ResponseInv, OwnOrLateResponse, TakenInv
  <2>2. \A e \in Calls : at[e] = "gaveup" => svc'[e] = svc[e] /\ at'[e] = "gaveup"
    BY <1>3 DEF Sent
  <2>3. svc'[d] = svc[d]
    BY <2>1
  <2> QED
    BY <2>1, <2>2, <2>3
<1> QED
  BY <1>4, <1>5, <1>6 DEF ResponseInv

LEMMA UseInductive == ASSUME IInv, UseInv, [Next]_vars PROVE UseInv'
<1> USE NoneAssumption DEF IInv, TypeOK, UseInv, Clients, callVars, cacheVars, clientVars
<1>1. ASSUME NEW c \in Calls, NEW s \in Services, Accept(c, s) PROVE UseInv'
  BY <1>1 DEF Accept, Goto
<1>2. ASSUME NEW c \in Calls, LockInit(c) PROVE UseInv'
  BY <1>2 DEF LockInit, Goto
<1>3. ASSUME NEW c \in Calls, FindClient(c) PROVE UseInv'
  BY <1>3 DEF FindClient, Goto
<1>4. ASSUME NEW c \in Calls, MakeClient(c) PROVE UseInv'
  <2> DEFINE mine == IF using[c] = None THEN c ELSE using[c]
  <2>1. /\ at[c] = "types" /\ svc[c] \in Services /\ using[c] = client[svc[c]]
        /\ using' = [using EXCEPT ![c] = mine] /\ svc' = svc
    BY <1>4 DEF MakeClient, CacheInv
  <2>2. /\ client[svc[c]] = None => client' = [client EXCEPT ![svc[c]] = mine]
        /\ client[svc[c]] # None => client' = client
    BY <1>4, <2>1 DEF MakeClient
  <2>3. \E a \in {"request", "done"} : at' = [at EXCEPT ![c] = a]
    BY <1>4 DEF MakeClient, Goto, Answer
  <2>4. mine # None
    BY <2>1
  <2>5. CASE client[svc[c]] = None
    <3>1. mine = c
      BY <2>1, <2>5
    <3> HIDE DEF mine
    <3>2. \A d \in Calls : using[d] # None /\ d # c => svc[d] # svc[c]
      BY <2>5
    <3>3. client' = [client EXCEPT ![svc[c]] = c] /\ using' = [using EXCEPT ![c] = c]
      BY <2>1, <2>2, <2>5, <3>1
    <3>4. PICK a \in {"request", "done"} : at' = [at EXCEPT ![c] = a]
      BY <2>3
    <3>5. ASSUME NEW s \in Services, client'[s] # None
          PROVE  svc'[client'[s]] = s /\ at'[client'[s]] \notin {"new", "init", "client", "types"}
      BY <2>1, <3>3, <3>4, <3>5
    <3>6. ASSUME NEW d \in Calls, using'[d] # None
          PROVE  at'[d] \notin {"new", "init", "client"} /\ using'[d] = client'[svc'[d]]
      <4>1. CASE d = c
        BY <2>1, <3>3, <3>4, <4>1
      <4>2. CASE d # c
        <5>1. using'[d] = using[d] /\ at'[d] = at[d] /\ svc'[d] = svc[d]
          BY <2>1, <3>3, <3>4, <4>2
        <5>2. svc[d] \in Services /\ using[d] = client[svc[d]] /\ svc[d] # svc[c]
          BY <3>2, <3>6, <4>2, <5>1
        <5> QED
          BY <3>3, <3>6, <5>1, <5>2
      <4> QED
        BY <4>1, <4>2
    <3> QED
      BY <3>5, <3>6
  <2>6. CASE client[svc[c]] # None
    <3>1. mine = client[svc[c]]
      BY <2>1, <2>6
    <3> HIDE DEF mine
    <3> QED
      BY <2>1, <2>2, <2>3, <2>6, <3>1
  <2> QED
    BY <2>5, <2>6
<1>5. ASSUME NEW c \in Calls, ClientFails(c) PROVE UseInv'
  BY <1>5 DEF ClientFails, Goto, Answer
<1>6. ASSUME NEW c \in Calls, MapRequest(c) PROVE UseInv'
  BY <1>6 DEF MapRequest, Goto, Answer
<1>7. ASSUME NEW c \in Calls, Send(c) PROVE UseInv'
  BY <1>7 DEF Send, Goto
<1>8. ASSUME NEW c \in Calls, SendFails(c) PROVE UseInv'
  BY <1>8 DEF SendFails, Goto, Answer
<1>9. ASSUME NEW c \in Calls, GiveUp(c) PROVE UseInv'
  BY <1>9 DEF GiveUp, Goto
<1>10. ASSUME NEW c \in Calls, Take(c) PROVE UseInv'
  BY <1>10 DEF Take, Goto
<1>11. ASSUME NEW c \in Calls, Reply(c) PROVE UseInv'
  BY <1>11 DEF Reply, Goto, Answer
<1>12. ASSUME NEW k \in Clients, NEW c \in Calls, Respond(k, c) PROVE UseInv'
  BY <1>12 DEF Respond
<1>13. CASE UNCHANGED vars
  BY <1>13 DEF vars
<1> QED
  BY <1>1, <1>2, <1>3, <1>4, <1>5, <1>6, <1>7, <1>8, <1>9, <1>10, <1>11,
     <1>12, <1>13 DEF Next, Step, Quiescent

LEMMA SendResponses ==
    ASSUME IInv, ResponseInv, UseInv', NEW c \in Calls, Send(c)
    PROVE  ResponseInv'
<1>1. /\ at[c] = "lock" /\ at' = [at EXCEPT ![c] = "wait"]
      /\ open' = open \cup {<<using[c], c>>}
      /\ UNCHANGED <<svc, using, taken, inbox>>
  BY DEF Send, Goto
<1>2. /\ at'[c] = "wait" /\ \A d \in Calls \ {c} : at'[d] = at[d]
      /\ taken \in [Calls -> Calls \cup {None}]
  BY <1>1 DEF IInv, TypeOK
<1>3. ~(\E k \in Clients : Pending(k, c)) /\ taken[c] = None /\ \A d \in Calls : taken[d] # c
  BY <1>1, NoneAssumption DEF ResponseInv, PendingInv, TakenInv, Sent
<1>4. \A k \in Clients, d \in Calls : InBox(k, d)' <=> InBox(k, d)
  BY <1>1 DEF InBox
<1>5. \A k \in Clients, d \in Calls :
        Pending(k, d)' => Pending(k, d) \/ (k = using[c] /\ d = c)
  BY <1>1, <1>4 DEF Pending
<1>6. PendingInv'
  <2>1. ASSUME NEW k \in Clients, NEW d \in Calls, Pending(k, d)'
        PROVE  /\ using[d] = k /\ at'[d] \in Sent
               /\ at'[d] \in {"reply", "done"} => taken[d] # None
               /\ \A e \in Calls : taken[e] # d
    <3>1. CASE d = c
      BY <1>2, <1>3, <1>5, <2>1, <3>1 DEF Sent
    <3>2. CASE d # c
      BY <1>2, <1>5, <2>1, <3>2 DEF ResponseInv, PendingInv
    <3> QED
      BY <3>1, <3>2
  <2>2. ASSUME NEW k \in Clients, NEW d \in Calls, <<k, d>> \in open' PROVE ~InBox(k, d)
    BY <1>1, <1>3, <2>2 DEF ResponseInv, PendingInv, Pending
  <2> QED
    BY <1>1, <1>4, <2>1, <2>2 DEF ResponseInv, PendingInv
<1>7. TakenInv'
  BY <1>1, <1>2, <1>3 DEF ResponseInv, TakenInv
<1>8. OwnOrLateResponse'
  BY <1>1, <1>2 DEF ResponseInv, OwnOrLateResponse
<1> QED
  BY <1>6, <1>7, <1>8 DEF ResponseInv

LEMMA GiveUpResponses ==
    ASSUME IInv, ResponseInv, UseInv', NEW c \in Calls, GiveUp(c)
    PROVE  ResponseInv'
<1>1. /\ at[c] = "wait" /\ at' = [at EXCEPT ![c] = "gaveup"]
      /\ UNCHANGED <<svc, using, taken, open, inbox>>
  BY DEF GiveUp, Goto
<1>2. at'[c] = "gaveup" /\ \A d \in Calls \ {c} : at'[d] = at[d]
  BY <1>1 DEF IInv, TypeOK
<1>3. \A k \in Clients, d \in Calls : Pending(k, d)' <=> Pending(k, d)
  BY <1>1 DEF Pending, InBox
<1>4. PendingInv'
  <2>1. ASSUME NEW k \in Clients, NEW d \in Calls, Pending(k, d)
        PROVE  /\ using[d] = k /\ at'[d] \in Sent
               /\ at'[d] \in {"reply", "done"} => taken[d] # None
               /\ \A e \in Calls : taken[e] # d
    <3>1. CASE d = c
      BY <1>2, <2>1, <3>1 DEF ResponseInv, PendingInv, Sent
    <3>2. CASE d # c
      BY <1>2, <2>1, <3>2 DEF ResponseInv, PendingInv
    <3> QED
      BY <3>1, <3>2
  <2> QED
    BY <1>1, <1>3, <2>1 DEF ResponseInv, PendingInv, InBox
<1>5. TakenInv'
  BY <1>1, <1>2 DEF ResponseInv, TakenInv, Sent, IInv, TypeOK
<1>6. OwnOrLateResponse'
  BY <1>1, <1>2 DEF ResponseInv, OwnOrLateResponse
<1> QED
  BY <1>4, <1>5, <1>6 DEF ResponseInv

\* The response that a call takes is its own, or the one that came late for a
\* call given up, or for one that took such a response itself.
LEMMA TakeResponses ==
    ASSUME IInv, ResponseInv, UseInv', NEW c \in Calls, Take(c)
    PROVE  ResponseInv'
<1>0. PICK k, r : k = using[c] /\ r = Head(inbox[k])
  OBVIOUS
<1>1. /\ at[c] = "wait" /\ inbox[k] # <<>> /\ at' = [at EXCEPT ![c] = "reply"]
      /\ taken' = [taken EXCEPT ![c] = r]
      /\ inbox' = [inbox EXCEPT ![k] = Tail(inbox[k])]
      /\ UNCHANGED <<svc, using, open>>
  BY <1>0 DEF Take, Goto
<1>2. /\ k \in Clients /\ k # None /\ holder[k] = c /\ inbox[k] \in Seq(Calls)
      /\ inbox \in [Clients -> Seq(Calls)] /\ taken \in [Calls -> Calls \cup {None}]
      /\ at \in [Calls -> {"new", "init", "client", "types", "request", "lock",
                           "wait", "reply", "done", "gaveup"}]
      /\ \A d \in Calls : at[d] = "wait" /\ using[d] = k => d = c
  BY <1>0, <1>1 DEF IInv, TypeOK, CacheInv, HolderInv, Initialised
<1>3. /\ DOMAIN inbox[k] = 1..Len(inbox[k]) /\ Len(inbox[k]) \in Nat /\ 1 \in DOMAIN inbox[k]
      /\ r \in Calls /\ r = inbox[k][1]
      /\ Tail(inbox[k]) \in Seq(Calls)
      /\ DOMAIN Tail(inbox[k]) = 1..(Len(inbox[k]) - 1)
      /\ \A i \in DOMAIN Tail(inbox[k]) : Tail(inbox[k])[i] = inbox[k][i + 1]
  BY <1>0, <1>1, <1>2, HeadTailProperties
<1>4. inbox'[k] = Tail(inbox[k]) /\ \A l \in Clients \ {k} : inbox'[l] = inbox[l]
  BY <1>1, <1>2
<1>5. /\ at'[c] = "reply" /\ taken'[c] = r
      /\ \A d \in Calls \ {c} : at'[d] = at[d] /\ taken'[d] = taken[d]
  BY <1>1, <1>2
<1>6. \A l \in Clients : \A i, j \in DOMAIN inbox[l] : inbox[l][i] = inbox[l][j] => i = j
  BY DEF ResponseInv, PendingInv
<1>7. /\ \A l \in Clients, d \in Calls : InBox(l, d)' => InBox(l, d)
      /\ ~InBox(k, r)'
  <2>1. ASSUME NEW d \in Calls, InBox(k, d)' PROVE InBox(k, d) /\ d # r
    <3>1. PICK i \in DOMAIN Tail(inbox[k]) : Tail(inbox[k])[i] = d
      BY <1>4, <2>1 DEF InBox
    <3>2. i + 1 \in DOMAIN inbox[k] /\ inbox[k][i + 1] = d /\ i + 1 # 1
      BY <1>3, <3>1
    <3> QED
      BY <1>2, <1>3, <1>6, <3>2 DEF InBox
  <2>2. ASSUME NEW l \in Clients \ {k}, NEW d \in Calls, InBox(l, d)' PROVE InBox(l, d)
    BY <1>4, <2>2 DEF InBox
  <2> QED
    BY <1>2, <1>3, <2>1, <2>2
<1>8. /\ InBox(k, r) /\ Pending(k, r) /\ using[r] = k /\ at[r] \in Sent
      /\ at[r] \in {"reply", "done"} => taken[r] # None
      /\ \A d \in Calls : taken[d] # r
      /\ <<k, r>> \notin open
  <2>1. InBox(k, r)
    BY <1>3 DEF InBox
  <2>2. Pending(k, r) /\ <<k, r>> \notin open
    BY <1>2, <1>3, <2>1 DEF Pending, ResponseInv, PendingInv
  <2> QED
    BY <1>2, <1>3, <2>1, <2>2 DEF ResponseInv, PendingInv
<1>9. \A l \in Clients, d \in Calls : Pending(l, d)' => Pending(l, d) /\ d # r
  <2>1. \A l \in Clients, d \in Calls : Pending(l, d)' => Pending(l, d)
    BY <1>1, <1>7 DEF Pending
  <2>2. ~Pending(k, r)'
    BY <1>1, <1>7, <1>8 DEF Pending
  <2>3. \A l \in Clients : Pending(l, r) => l = k
    BY <1>3, <1>8 DEF ResponseInv, PendingInv
  <2> QED
    BY <1>3, <2>1, <2>2, <2>3
<1>10. PendingInv'
  <2>1. ASSUME NEW l \in Clients, NEW d \in Calls, Pending(l, d)'
        PROVE  /\ using[d] = l /\ at'[d] \in Sent
               /\ at'[d] \in {"reply", "done"} => taken'[d] # None
               /\ \A e \in Calls : taken'[e] # d
    <3>1. /\ d # r /\ using[d] = l /\ at[d] \in Sent
          /\ at[d] \in {"reply", "done"} => taken[d] # None
          /\ \A e \in Calls : taken[e] # d
      BY <1>9, <2>1 DEF ResponseInv, PendingInv
    <3>2. CASE d = c
      BY <1>3, <1>5, <3>1, <3>2, NoneAssumption DEF Sent
    <3>3. CASE d # c
      BY <1>5, <3>1, <3>3
    <3> QED
      BY <3>2, <3>3
  <2>2. \A l \in Clients, d \in Calls : <<l, d>> \in open => ~InBox(l, d)'
    BY <1>7 DEF ResponseInv, PendingInv
  <2>3. ASSUME NEW l \in Clients, NEW i \in DOMAIN inbox'[l], NEW j \in DOMAIN inbox'[l],
               inbox'[l][i] = inbox'[l][j]
        PROVE  i = j
    <3>1. CASE l = k
      <4>0. i \in DOMAIN Tail(inbox[k]) /\ j \in DOMAIN Tail(inbox[k])
            /\ Tail(inbox[k])[i] = Tail(inbox[k])[j]
        BY <1>4, <2>3, <3>1
      <4>1. /\ i \in Nat /\ j \in Nat /\ i + 1 \in DOMAIN inbox[k] /\ j + 1 \in DOMAIN inbox[k]
            /\ inbox[k][i + 1] = inbox[k][j + 1]
        BY <1>3, <4>0
      <4>2. i + 1 = j + 1
        BY <1>2, <1>6, <4>1
      <4> QED
        BY <4>1, <4>2
    <3>2. CASE l # k
      BY <1>4, <1>6, <2>3, <3>2
    <3> QED
      BY <3>1, <3>2
  <2> QED
    BY <1>1, <2>1, <2>2, <2>3 DEF PendingInv
<1>11. TakenInv'
  <2> SUFFICES ASSUME NEW d \in Calls, taken'[d] # None
               PROVE  at'[d] \in {"reply", "done"} /\ at'[taken'[d]] \in Sent
    BY DEF TakenInv
  <2>1. \A e \in Calls : at[e] \in Sent => at'[e] \in Sent
    BY <1>5 DEF Sent
  <2>2. CASE d = c
    BY <1>3, <1>5, <1>8, <2>1, <2>2
  <2>3. CASE d # c
    <3>1. taken[d] \in Calls /\ at[d] \in {"reply", "done"} /\ at[taken[d]] \in Sent
      BY <1>2, <1>5, <2>3 DEF ResponseInv, TakenInv
    <3> QED
      BY <1>5, <2>1, <2>3, <3>1
  <2> QED
    BY <2>2, <2>3
<1>12. OwnOrLateResponse'
  <2>1. \A d \in Calls : at[d] = "gaveup" => at'[d] = "gaveup"
    BY <1>1, <1>5
  <2>2. taken'[c] = c \/ \E e \in Calls : svc[e] = svc[c] /\ at'[e] = "gaveup"
    <3>1. CASE r = c
      BY <1>5, <3>1
    <3>2. CASE at[r] = "gaveup" /\ r # c
      BY <1>0, <1>2, <1>3, <1>8, <2>1, <3>2, SameClient DEF ResponseInv
    <3>3. CASE at[r] \in {"reply", "done"} /\ r # c
      <4>1. taken[r] # None /\ taken[r] # r
        BY <1>3, <1>8, <3>3
      <4>2. PICK e \in Calls : svc[e] = svc[r] /\ at[e] = "gaveup"
        BY <1>3, <4>1 DEF ResponseInv, OwnOrLateResponse
      <4>3. svc[r] = svc[c]
        BY <1>0, <1>2, <1>3, <1>8, SameClient DEF ResponseInv
      <4> QED
        BY <2>1, <4>2, <4>3
    <3>4. at[r] = "wait" => r = c
      BY <1>2, <1>3, <1>8
    <3> QED
      BY <1>8, <3>1, <3>2, <3>3, <3>4 DEF Sent
  <2>3. ASSUME NEW d \in Calls, taken'[d] # None, d # c
        PROVE  /\ taken'[d] = d \/ \E e \in Calls : svc[e] = svc[d] /\ at'[e] = "gaveup"
               /\ \A e \in Calls \ {d} : taken'[e] # taken'[d]
    BY <1>5, <1>8, <2>1, <2>3 DEF ResponseInv, OwnOrLateResponse
  <2>4. \A e \in Calls \ {c} : taken'[e] # taken'[c]
    BY <1>5, <1>8
  <2> QED
    BY <1>1, <2>2, <2>3, <2>4 DEF OwnOrLateResponse
<1> QED
  BY <1>10, <1>11, <1>12 DEF ResponseInv

LEMMA RespondResponses ==
    ASSUME IInv, ResponseInv, UseInv', NEW k \in Clients, NEW c \in Calls, Respond(k, c)
    PROVE  ResponseInv'
<1>1. /\ <<k, c>> \in open /\ open' = open \ {<<k, c>>}
      /\ inbox' = [inbox EXCEPT ![k] = Append(inbox[k], c)]
      /\ UNCHANGED <<at, svc, using, taken>>
  BY DEF Respond, callVars
<1>2. /\ inbox \in [Clients -> Seq(Calls)] /\ inbox[k] \in Seq(Calls)
      /\ ~InBox(k, c) /\ Pending(k, c)
  BY <1>1 DEF IInv, TypeOK, ResponseInv, PendingInv, Pending
<1>3. /\ inbox'[k] = Append(inbox[k], c) /\ \A l \in Clients \ {k} : inbox'[l] = inbox[l]
      /\ DOMAIN inbox[k] = 1..Len(inbox[k]) /\ Len(inbox[k]) \in Nat
      /\ DOMAIN inbox'[k] = 1..(Len(inbox[k]) + 1)
      /\ \A i \in DOMAIN inbox[k] : inbox'[k][i] = inbox[k][i]
      /\ inbox'[k][Len(inbox[k]) + 1] = c
  BY <1>1, <1>2, AppendProperties
<1>4. \A l \in Clients, d \in Calls : InBox(l, d)' => InBox(l, d) \/ (l = k /\ d = c)
  <2> SUFFICES ASSUME NEW l \in Clients, NEW d \in Calls,
                      NEW i \in DOMAIN inbox'[l], inbox'[l][i] = d
               PROVE  InBox(l, d) \/ (l = k /\ d = c)
    BY DEF InBox
  <2>1. CASE l = k /\ i \in DOMAIN inbox[k]
    BY <1>3, <2>1 DEF InBox
  <2>2. CASE l = k /\ i \notin DOMAIN inbox[k]
    <3>1. i = Len(inbox[k]) + 1
      BY <1>3, <2>2
    <3> QED
      BY <1>3, <2>2, <3>1
  <2>3. CASE l # k
    BY <1>3, <2>3 DEF InBox
  <2> QED
    BY <2>1, <2>2, <2>3
<1>5. \A l \in Clients, d \in Calls : Pending(l, d)' => Pending(l, d)
  BY <1>1, <1>2, <1>4 DEF Pending
<1>6. PendingInv'
  <2>1. \A l \in Clients, d \in Calls : <<l, d>> \in open' => ~InBox(l, d)'
    BY <1>1, <1>4 DEF ResponseInv, PendingInv
  <2>2. ASSUME NEW l \in Clients, NEW i \in DOMAIN inbox'[l], NEW j \in DOMAIN inbox'[l],
               inbox'[l][i] = inbox'[l][j]
        PROVE  i = j
    <3>1. CASE l = k
      <4>1. \A n \in DOMAIN inbox'[k] : n \notin DOMAIN inbox[k] => n = Len(inbox[k]) + 1
        BY <1>3
      <4>2. \A n \in DOMAIN inbox[k] : inbox'[k][n] # c
        BY <1>2, <1>3 DEF InBox
      <4>3. CASE i \in DOMAIN inbox[k] /\ j \in DOMAIN inbox[k]
        BY <1>3, <2>2, <3>1, <4>3 DEF ResponseInv, PendingInv
      <4> QED
        BY <1>3, <2>2, <3>1, <4>1, <4>2, <4>3
    <3>2. CASE l # k
      BY <1>3, <2>2, <3>2 DEF ResponseInv, PendingInv
    <3> QED
      BY <3>1, <3>2
  <2> QED
    BY <1>1, <1>5, <2>1, <2>2 DEF ResponseInv, PendingInv
<1>7. TakenInv' /\ OwnOrLateResponse'
  BY <1>1 DEF ResponseInv, TakenInv, OwnOrLateResponse
<1> QED
  BY <1>6, <1>7 DEF ResponseInv

LEMMA ResponseInductive == ASSUME IInv, ResponseInv, [Next]_vars PROVE ResponseInv'
<1>0. UseInv'
  BY UseInductive DEF ResponseInv
<1> USE <1>0 DEF cacheVars, clientVars, callVars
<1>1. ASSUME NEW c \in Calls, NEW s \in Services, Accept(c, s) PROVE ResponseInv'
  <2>1. /\ at[c] = "new" /\ at' = [at EXCEPT ![c] = "init"]
        /\ \A d \in Calls \ {c} : svc'[d] = svc[d]
        /\ UNCHANGED <<open, inbox, taken, using>>
    BY <1>1 DEF Accept, Goto, IInv, TypeOK
  <2> QED
    BY <2>1, QuietStep DEF Sent
<1>2. ASSUME NEW c \in Calls, LockInit(c) \/ FindClient(c) PROVE ResponseInv'
  <2>1. /\ at[c] \in {"init", "client"}
        /\ \E a \in {"client", "types"} : at' = [at EXCEPT ![c] = a]
        /\ \A d \in Calls \ {c} : using'[d] = using[d]
        /\ UNCHANGED <<open, inbox, taken, svc>>
    BY <1>2 DEF LockInit, FindClient, Goto, IInv, TypeOK
  <2> QED
    BY <2>1, QuietStep DEF Sent
<1>3. ASSUME NEW c \in Calls, MakeClient(c) \/ ClientFails(c) PROVE ResponseInv'
  <2>1. /\ at[c] = "types"
        /\ \E a \in {"request", "done"} : at' = [at EXCEPT ![c] = a]
        /\ \A d \in Calls \ {c} : using'[d] = using[d]
        /\ UNCHANGED <<open, inbox, taken, svc>>
    BY <1>3 DEF MakeClient, ClientFails, Answer, Goto, IInv, TypeOK
  <2> QED
    BY <2>1, QuietStep DEF Sent
<1>4. ASSUME NEW c \in Calls, MapRequest(c) \/ SendFails(c) PROVE ResponseInv'
  <2>1. /\ at[c] \in {"request", "lock"}
        /\ \E a \in {"lock", "done"} : at' = [at EXCEPT ![c] = a]
        /\ UNCHANGED <<open, inbox, taken, svc, using>>
    BY <1>4 DEF MapRequest, SendFails, Answer, Goto
  <2> QED
    BY <2>1, QuietStep DEF Sent
<1>5. ASSUME NEW c \in Calls, Reply(c) PROVE ResponseInv'
  <2>1. /\ at[c] = "reply" /\ at' = [at EXCEPT ![c] = "done"]
        /\ UNCHANGED <<open, inbox, taken, svc, using>>
    BY <1>5 DEF Reply, Answer, Goto
  <2> QED
    BY <2>1, QuietStep
<1>6. ASSUME NEW c \in Calls, Send(c) \/ GiveUp(c) \/ Take(c) PROVE ResponseInv'
  BY <1>6, SendResponses, GiveUpResponses, TakeResponses
<1>7. ASSUME NEW k \in Clients, NEW c \in Calls, Respond(k, c) PROVE ResponseInv'
  BY <1>7, RespondResponses
<1>8. CASE UNCHANGED vars
  BY <1>8 DEF vars, ResponseInv, PendingInv, TakenInv, OwnOrLateResponse, Pending, InBox
<1> QED
  BY <1>1, <1>2, <1>3, <1>4, <1>5, <1>6, <1>7, <1>8 DEF Next, Step, Quiescent

LEMMA ResponseCorrect == Spec => []ResponseInv
<1>1. Init => ResponseInv
  BY NoneAssumption
     DEF Init, ResponseInv, UseInv, PendingInv, TakenInv, OwnOrLateResponse, Pending, InBox, Clients
<1>2. IInv /\ ResponseInv /\ [Next]_vars => ResponseInv'
  BY ResponseInductive
<1> QED
  BY <1>1, <1>2, IInvCorrect, PTL DEF Spec

\* A call gets its own response, or one that came late after another call of
\* its service was given up; no response is handed out twice.
THEOREM OwnOrLateCorrect == Spec => []OwnOrLateResponse
<1>1. ResponseInv => OwnOrLateResponse
  BY DEF ResponseInv
<1> QED
  BY <1>1, ResponseCorrect, PTL

-----------------------------------------------------------------------------
(* How many responses are to come                                           *)

OpenOf(k) == {o \in open : o[1] = k}
GivenUp(k) == {c \in Calls : using[c] = k /\ at[c] = "gaveup"}
Waiting(k) == IF holder[k] = None THEN 0 ELSE 1

\* The requests of a client that are open and its calls that were given up are
\* finite, however many calls there may be.
Lag(k) ==
    /\ IsFiniteSet(OpenOf(k)) /\ IsFiniteSet(GivenUp(k))
    /\ Cardinality(OpenOf(k)) + Len(inbox[k]) = Cardinality(GivenUp(k)) + Waiting(k)

LagInv == \A k \in Clients : Lag(k)

LEMMA LagSame ==
    ASSUME NEW k \in Clients, Lag(k),
           OpenOf(k)' = OpenOf(k), GivenUp(k)' = GivenUp(k),
           inbox'[k] = inbox[k], holder'[k] = holder[k]
    PROVE  Lag(k)'
<1> QED
  BY DEF Lag, Waiting

LEMMA LagTypes ==
    ASSUME IInv, NEW k \in Clients, Lag(k)
    PROVE  /\ Cardinality(OpenOf(k)) \in Nat /\ Cardinality(GivenUp(k)) \in Nat
           /\ inbox[k] \in Seq(Calls) /\ Len(inbox[k]) \in Nat
<1>1. inbox[k] \in Seq(Calls)
  BY DEF IInv, TypeOK
<1> QED
  BY <1>1, FS_CardinalityType DEF Lag

\* A step of a call that neither waits nor is given up changes no count.
LEMMA QuietLag ==
    ASSUME IInv, LagInv, NEW c \in Calls, NEW a,
           at' = [at EXCEPT ![c] = a], a # "gaveup", at[c] # "gaveup",
           UNCHANGED <<open, inbox, holder>>,
           \A d \in Calls \ {c} : using'[d] = using[d]
    PROVE  LagInv'
<1> SUFFICES ASSUME NEW k \in Clients PROVE Lag(k)'
  BY DEF LagInv
<1>1. at'[c] = a /\ \A d \in Calls \ {c} : at'[d] = at[d]
  BY DEF IInv, TypeOK
<1>2. GivenUp(k)' = GivenUp(k)
  BY <1>1 DEF GivenUp
<1>3. OpenOf(k)' = OpenOf(k)
  BY DEF OpenOf
<1> QED
  BY <1>2, <1>3, LagSame DEF LagInv

LEMMA SendLag ==
    ASSUME IInv, ResponseInv, LagInv, NEW c \in Calls, Send(c)
    PROVE  LagInv'
<1> SUFFICES ASSUME NEW k \in Clients PROVE Lag(k)'
  BY DEF LagInv
<1>1. /\ at[c] = "lock" /\ at' = [at EXCEPT ![c] = "wait"] /\ holder[using[c]] = None
      /\ holder' = [holder EXCEPT ![using[c]] = c] /\ open' = open \cup {<<using[c], c>>}
      /\ UNCHANGED <<using, inbox>>
  BY DEF Send, Goto
<1>2. /\ at'[c] = "wait" /\ \A d \in Calls \ {c} : at'[d] = at[d]
      /\ using[c] \in Clients /\ holder \in [Clients -> Calls \cup {None}]
  BY <1>1 DEF IInv, TypeOK, CacheInv, Initialised
<1>3. GivenUp(k)' = GivenUp(k)
  BY <1>1, <1>2 DEF GivenUp
<1>4. CASE k = using[c]
  <2>1. OpenOf(k)' = OpenOf(k) \cup {<<k, c>>}
    BY <1>1, <1>4 DEF OpenOf
  <2>2. <<k, c>> \notin OpenOf(k)
    BY <1>1 DEF OpenOf, ResponseInv, PendingInv, Pending, Sent
  <2>3. /\ IsFiniteSet(OpenOf(k)')
        /\ Cardinality(OpenOf(k)') = Cardinality(OpenOf(k)) + 1
    BY <2>1, <2>2, FS_AddElement DEF LagInv, Lag
  <2>4. Waiting(k) = 0 /\ Waiting(k)' = 1
    BY <1>1, <1>2, <1>4, NoneAssumption DEF Waiting
  <2>5. /\ Cardinality(OpenOf(k)) \in Nat /\ Cardinality(GivenUp(k)) \in Nat
        /\ Len(inbox[k]) \in Nat
    BY LagTypes DEF LagInv
  <2> QED
    BY <1>1, <1>3, <2>3, <2>4, <2>5 DEF LagInv, Lag
<1>5. CASE k # using[c]
  <2>1. OpenOf(k)' = OpenOf(k)
    BY <1>1, <1>5 DEF OpenOf
  <2>2. holder'[k] = holder[k] /\ inbox'[k] = inbox[k]
    BY <1>1, <1>2, <1>5
  <2> QED
    BY <1>3, <2>1, <2>2, LagSame DEF LagInv
<1> QED
  BY <1>4, <1>5

LEMMA GiveUpLag ==
    ASSUME IInv, LagInv, NEW c \in Calls, GiveUp(c)
    PROVE  LagInv'
<1> SUFFICES ASSUME NEW k \in Clients PROVE Lag(k)'
  BY DEF LagInv
<1>1. /\ at[c] = "wait" /\ at' = [at EXCEPT ![c] = "gaveup"]
      /\ holder' = [holder EXCEPT ![using[c]] = None]
      /\ UNCHANGED <<using, open, inbox>>
  BY DEF GiveUp, Goto
<1>2. /\ at'[c] = "gaveup" /\ \A d \in Calls \ {c} : at'[d] = at[d]
      /\ using[c] \in Clients /\ holder[using[c]] = c
      /\ holder \in [Clients -> Calls \cup {None}]
  BY <1>1 DEF IInv, TypeOK, CacheInv, HolderInv, Initialised
<1>3. OpenOf(k)' = OpenOf(k)
  BY <1>1 DEF OpenOf
<1>4. CASE k = using[c]
  <2>1. GivenUp(k)' = GivenUp(k) \cup {c} /\ c \notin GivenUp(k)
    BY <1>1, <1>2, <1>4 DEF GivenUp
  <2>2. /\ IsFiniteSet(GivenUp(k)')
        /\ Cardinality(GivenUp(k)') = Cardinality(GivenUp(k)) + 1
    BY <2>1, FS_AddElement DEF LagInv, Lag
  <2>3. Waiting(k) = 1 /\ Waiting(k)' = 0
    BY <1>1, <1>2, <1>4, NoneAssumption DEF Waiting
  <2>4. /\ Cardinality(OpenOf(k)) \in Nat /\ Cardinality(GivenUp(k)) \in Nat
        /\ Len(inbox[k]) \in Nat
    BY LagTypes DEF LagInv
  <2> QED
    BY <1>1, <1>3, <2>2, <2>3, <2>4 DEF LagInv, Lag
<1>5. CASE k # using[c]
  <2>1. GivenUp(k)' = GivenUp(k)
    BY <1>1, <1>2, <1>5 DEF GivenUp
  <2>2. holder'[k] = holder[k] /\ inbox'[k] = inbox[k]
    BY <1>1, <1>2, <1>5
  <2> QED
    BY <1>3, <2>1, <2>2, LagSame DEF LagInv
<1> QED
  BY <1>4, <1>5

LEMMA TakeLag ==
    ASSUME IInv, LagInv, NEW c \in Calls, Take(c)
    PROVE  LagInv'
<1> SUFFICES ASSUME NEW k \in Clients PROVE Lag(k)'
  BY DEF LagInv
<1>1. /\ at[c] = "wait" /\ at' = [at EXCEPT ![c] = "reply"] /\ inbox[using[c]] # <<>>
      /\ inbox' = [inbox EXCEPT ![using[c]] = Tail(inbox[using[c]])]
      /\ holder' = [holder EXCEPT ![using[c]] = None]
      /\ UNCHANGED <<using, open>>
  BY DEF Take, Goto
<1>2. /\ at'[c] = "reply" /\ \A d \in Calls \ {c} : at'[d] = at[d]
      /\ using[c] \in Clients /\ holder[using[c]] = c
      /\ holder \in [Clients -> Calls \cup {None}] /\ inbox \in [Clients -> Seq(Calls)]
  BY <1>1 DEF IInv, TypeOK, CacheInv, HolderInv, Initialised
<1>3. OpenOf(k)' = OpenOf(k) /\ GivenUp(k)' = GivenUp(k)
  BY <1>1, <1>2 DEF OpenOf, GivenUp
<1>4. CASE k = using[c]
  <2>1. Len(inbox'[k]) = Len(inbox[k]) - 1
    BY <1>1, <1>2, <1>4, HeadTailProperties
  <2>2. Waiting(k) = 1 /\ Waiting(k)' = 0
    BY <1>1, <1>2, <1>4, NoneAssumption DEF Waiting
  <2>3. /\ Cardinality(OpenOf(k)) \in Nat /\ Cardinality(GivenUp(k)) \in Nat
        /\ Len(inbox[k]) \in Nat
    BY LagTypes DEF LagInv
  <2> QED
    BY <1>3, <2>1, <2>2, <2>3 DEF LagInv, Lag
<1>5. CASE k # using[c]
  <2>1. holder'[k] = holder[k] /\ inbox'[k] = inbox[k]
    BY <1>1, <1>2, <1>5
  <2> QED
    BY <1>3, <2>1, LagSame DEF LagInv
<1> QED
  BY <1>4, <1>5

LEMMA RespondLag ==
    ASSUME IInv, LagInv, NEW l \in Clients, NEW c \in Calls, Respond(l, c)
    PROVE  LagInv'
<1> SUFFICES ASSUME NEW k \in Clients PROVE Lag(k)'
  BY DEF LagInv
<1>1. /\ <<l, c>> \in open /\ open' = open \ {<<l, c>>}
      /\ inbox' = [inbox EXCEPT ![l] = Append(inbox[l], c)]
      /\ UNCHANGED <<at, using, holder>> /\ inbox \in [Clients -> Seq(Calls)]
  BY DEF Respond, callVars, IInv, TypeOK
<1>2. GivenUp(k)' = GivenUp(k) /\ Waiting(k)' = Waiting(k)
  BY <1>1 DEF GivenUp, Waiting
<1>3. CASE k = l
  <2>1. OpenOf(k)' = OpenOf(k) \ {<<k, c>>} /\ <<k, c>> \in OpenOf(k)
    BY <1>1, <1>3 DEF OpenOf
  <2>2. /\ IsFiniteSet(OpenOf(k)')
        /\ Cardinality(OpenOf(k)') = Cardinality(OpenOf(k)) - 1
    BY <2>1, FS_RemoveElement DEF LagInv, Lag
  <2>3. Len(inbox'[k]) = Len(inbox[k]) + 1
    BY <1>1, <1>3, AppendProperties
  <2>4. /\ Cardinality(OpenOf(k)) \in Nat /\ Cardinality(GivenUp(k)) \in Nat
        /\ Len(inbox[k]) \in Nat /\ Waiting(k) \in Nat
    BY LagTypes DEF LagInv, Waiting
  <2> QED
    BY <1>2, <2>2, <2>3, <2>4 DEF LagInv, Lag
<1>4. CASE k # l
  <2>1. OpenOf(k)' = OpenOf(k) /\ inbox'[k] = inbox[k] /\ holder' = holder
    BY <1>1, <1>4 DEF OpenOf
  <2> QED
    BY <1>2, <2>1, LagSame DEF LagInv
<1> QED
  BY <1>3, <1>4

LEMMA LagInductive == ASSUME IInv, ResponseInv, LagInv, [Next]_vars PROVE LagInv'
<1> USE DEF cacheVars, clientVars, callVars
<1>1. ASSUME NEW c \in Calls, NEW s \in Services, Accept(c, s) PROVE LagInv'
  BY <1>1, QuietLag DEF Accept, Goto
<1>2. ASSUME NEW c \in Calls, LockInit(c) \/ FindClient(c) PROVE LagInv'
  <2>1. /\ at[c] \in {"init", "client"}
        /\ \E a \in {"client", "types"} : at' = [at EXCEPT ![c] = a]
        /\ \A d \in Calls \ {c} : using'[d] = using[d]
        /\ UNCHANGED <<open, inbox, holder>>
    BY <1>2 DEF LockInit, FindClient, Goto, IInv, TypeOK
  <2> QED
    BY <2>1, QuietLag
<1>3. ASSUME NEW c \in Calls, MakeClient(c) \/ ClientFails(c) PROVE LagInv'
  <2>1. /\ at[c] = "types"
        /\ \E a \in {"request", "done"} : at' = [at EXCEPT ![c] = a]
        /\ \A d \in Calls \ {c} : using'[d] = using[d]
        /\ UNCHANGED <<open, inbox, holder>>
    BY <1>3 DEF MakeClient, ClientFails, Answer, Goto, IInv, TypeOK
  <2> QED
    BY <2>1, QuietLag
<1>4. ASSUME NEW c \in Calls, MapRequest(c) \/ SendFails(c) \/ Reply(c) PROVE LagInv'
  <2>1. /\ at[c] \in {"request", "lock", "reply"}
        /\ \E a \in {"lock", "done"} : at' = [at EXCEPT ![c] = a]
        /\ UNCHANGED <<open, inbox, holder, using>>
    BY <1>4 DEF MapRequest, SendFails, Reply, Answer, Goto
  <2> QED
    BY <2>1, QuietLag
<1>5. ASSUME NEW c \in Calls, Send(c) \/ GiveUp(c) \/ Take(c) PROVE LagInv'
  BY <1>5, SendLag, GiveUpLag, TakeLag
<1>6. ASSUME NEW k \in Clients, NEW c \in Calls, Respond(k, c) PROVE LagInv'
  BY <1>6, RespondLag
<1>7. CASE UNCHANGED vars
  <2> SUFFICES ASSUME NEW k \in Clients PROVE Lag(k)'
    BY DEF LagInv
  <2>1. OpenOf(k)' = OpenOf(k) /\ GivenUp(k)' = GivenUp(k)
    BY <1>7 DEF vars, OpenOf, GivenUp
  <2> QED
    BY <1>7, <2>1, LagSame DEF vars, LagInv
<1> QED
  BY <1>1, <1>2, <1>3, <1>4, <1>5, <1>6, <1>7 DEF Next, Step, Quiescent

LEMMA LagInit == Init => LagInv
<1> SUFFICES ASSUME Init, NEW k \in Clients PROVE Lag(k)
  BY DEF LagInv
<1>1. OpenOf(k) = {} /\ GivenUp(k) = {}
  BY DEF Init, OpenOf, GivenUp
<1>2. Waiting(k) = 0 /\ inbox[k] = <<>>
  BY DEF Init, Waiting
<1> QED
  BY <1>1, <1>2, FS_EmptySet DEF Lag

\* However many calls time out, the responses of a client that are still to
\* come outnumber the call that waits by exactly the calls given up.
THEOREM LagCorrect == Spec => []AnswersLagByTimeouts
<1>1. IInv /\ ResponseInv /\ LagInv /\ [Next]_vars => LagInv'
  BY LagInductive
<1>2. LagInv => AnswersLagByTimeouts
  BY DEF LagInv, Lag, OpenOf, GivenUp, Waiting, AnswersLagByTimeouts
<1> QED
  BY <1>1, <1>2, LagInit, ResponseCorrect, IInvCorrect, PTL DEF Spec
=============================================================================
