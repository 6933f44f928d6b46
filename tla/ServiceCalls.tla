---------------------------- MODULE ServiceCalls ----------------------------
(***************************************************************************)
(* Calls of ROS services for the peers (src/generic_services.cpp,           *)
(* callGenericService, started by BridgeSocket::onServiceCall).             *)
(*                                                                          *)
(* Every call has a detached thread of its own.  The threads share one rcl  *)
(* client per service, made by the first call under srv_init_mutex, and use *)
(* it one at a time under that client's mutex.  What the service does with  *)
(* a request (answer soon, late, in another order, never) is the            *)
(* environment's choice.  Conversions between socket messages and ROS       *)
(* messages fail or do not.                                                 *)
(***************************************************************************)
EXTENDS Naturals, Sequences, FiniteSets

CONSTANTS Calls,      \* service calls, each with its socket message to ack
          Services,   \* discovered services
          None        \* nothing: no call, no client

ASSUME NoneAssumption == None \notin Calls

VARIABLES
    at,       \* where a call's thread is
    svc,      \* the service it calls
    using,    \* the rcl client it uses, or None
    initBy,   \* the holder of srv_init_mutex, or None
    client,   \* srv_client_cache: the client of a service, or None
    types,    \* srv_types_cache: services whose type support is loaded
    made,     \* clients made so far; they are numbered
    holder,   \* the holder of a client's mutex, or None
    open,     \* requests the service has and may answer: <<client, call>>
    inbox,    \* responses a client received and has not handed out
    taken,    \* the response a call took: the call it answers, or None
    acked     \* the answer a call's peer got: none, error, response

callVars   == <<at, svc, using, taken, acked>>
cacheVars  == <<initBy, client, types, made>>
clientVars == <<holder, open, inbox>>
vars == <<callVars, cacheVars, clientVars>>

\* There is a client per initialised call at most.
Clients == Calls

TypeOK ==
    /\ at \in [Calls -> {"new", "init", "client", "types", "request", "lock",
                         "wait", "reply", "done", "gaveup"}]
    /\ svc \in [Calls -> Services \cup {None}]
    /\ \A c \in Calls : at[c] # "new" => svc[c] \in Services
    /\ using \in [Calls -> Clients \cup {None}]
    /\ initBy \in Calls \cup {None}
    /\ client \in [Services -> Clients \cup {None}]
    /\ types \subseteq Services
    /\ made \subseteq Clients
    /\ holder \in [Clients -> Calls \cup {None}]
    /\ open \subseteq Clients \X Calls
    /\ inbox \in [Clients -> Seq(Calls)]
    /\ taken \in [Calls -> Calls \cup {None}]
    /\ acked \in [Calls -> {"none", "error", "response"}]

Init ==
    /\ at = [c \in Calls |-> "new"]
    /\ svc = [c \in Calls |-> None]
    /\ using = [c \in Calls |-> None]
    /\ initBy = None
    /\ client = [s \in Services |-> None]
    /\ types = {}
    /\ made = {}
    /\ holder = [k \in Clients |-> None]
    /\ open = {}
    /\ inbox = [k \in Clients |-> <<>>]
    /\ taken = [c \in Calls |-> None]
    /\ acked = [c \in Calls |-> "none"]

-----------------------------------------------------------------------------
Goto(c, a) == at' = [at EXCEPT ![c] = a]

\* The thread ends with an ack of this kind.
Answer(c, kind) ==
    /\ Goto(c, "done")
    /\ acked' = [acked EXCEPT ![c] = kind]

\* Mutant: a service nobody discovered is called.
AcceptUnknown(c, s) ==
    /\ at[c] = "new"
    /\ Goto(c, "init")
    /\ UNCHANGED <<svc, using, taken, acked, cacheVars, clientVars>>

\* onServiceCall: the service is discovered, a thread is started.  (A call of
\* an unknown service is refused at once and never gets here.)
Accept(c, s) ==
    /\ at[c] = "new"
    /\ Goto(c, "init")
    /\ svc' = [svc EXCEPT ![c] = s]
    /\ UNCHANGED <<using, taken, acked, cacheVars, clientVars>>

\* Mutant: the mutex is not waited for.
LockInitAlways(c) ==
    /\ at[c] = "init"
    /\ initBy' = c
    /\ Goto(c, "client")
    /\ UNCHANGED <<svc, using, taken, acked, client, types, made, clientVars>>

\* srv_init_mutex is taken and the service's client looked up ...
LockInit(c) ==
    /\ at[c] = "init" /\ initBy = None
    /\ initBy' = c
    /\ Goto(c, "client")
    /\ UNCHANGED <<svc, using, taken, acked, client, types, made, clientVars>>

FindClient(c) ==
    /\ at[c] = "client"
    /\ using' = [using EXCEPT ![c] = client[svc[c]]]
    /\ Goto(c, "types")
    /\ UNCHANGED <<svc, taken, acked, cacheVars, clientVars>>

\* ... made and cached if there is none; then its type supports.  Either
\* fails for the want of a library or a symbol; a client that was made stays
\* cached when the types cannot be loaded.
MakeClient(c) ==
    LET s == svc[c]
        fresh == using[c] = None
        mine == IF fresh THEN c ELSE using[c]
    IN  /\ at[c] = "types"
        /\ using' = [using EXCEPT ![c] = mine]
        /\ made' = IF fresh THEN made \cup {c} ELSE made
        /\ client' = [client EXCEPT ![s] = IF @ = None THEN mine ELSE @]
        /\ initBy' = None
        /\ \/ Goto(c, "request") /\ types' = types \cup {s} /\ UNCHANGED acked
           \/ s \notin types /\ Answer(c, "error") /\ UNCHANGED types
        /\ UNCHANGED <<svc, taken, clientVars>>

\* No client can be made.
ClientFails(c) ==
    /\ at[c] = "types" /\ using[c] = None
    /\ initBy' = None
    /\ Answer(c, "error")
    /\ UNCHANGED <<svc, using, taken, client, types, made, clientVars>>

\* The request is converted before the client's mutex is asked for.
MapRequest(c) ==
    /\ at[c] = "request"
    /\ \/ Goto(c, "lock") /\ UNCHANGED acked
       \/ Answer(c, "error")
    /\ UNCHANGED <<svc, using, taken, cacheVars, clientVars>>

\* Mutant: the mutex is not waited for.
SendUnlocked(c) ==
    /\ at[c] = "lock"
    /\ holder' = [holder EXCEPT ![using[c]] = c]
    /\ open' = open \cup {<<using[c], c>>}
    /\ Goto(c, "wait")
    /\ UNCHANGED <<svc, using, taken, acked, cacheVars, inbox>>

\* The client's mutex is taken and the request sent.
Send(c) ==
    /\ at[c] = "lock" /\ holder[using[c]] = None
    /\ holder' = [holder EXCEPT ![using[c]] = c]
    /\ open' = open \cup {<<using[c], c>>}
    /\ Goto(c, "wait")
    /\ UNCHANGED <<svc, using, taken, acked, cacheVars, inbox>>

\* The request cannot be sent: the mutex is free again.
SendFails(c) ==
    /\ at[c] = "lock" /\ holder[using[c]] = None
    /\ Answer(c, "error")
    /\ UNCHANGED <<svc, using, taken, cacheVars, clientVars>>

\* Mutant: an error leaves the client locked.
GiveUpLocked(c) ==
    /\ at[c] = "wait"
    /\ Goto(c, "gaveup")
    /\ acked' = [acked EXCEPT ![c] = "error"]
    /\ UNCHANGED <<svc, using, taken, cacheVars, clientVars>>

\* The wait times out, or fails, or the response cannot be taken: the call is
\* answered with an error.  Its request stays with the service.
GiveUp(c) ==
    /\ at[c] = "wait"
    /\ holder' = [holder EXCEPT ![using[c]] = None]
    /\ Goto(c, "gaveup")
    /\ acked' = [acked EXCEPT ![c] = "error"]
    /\ UNCHANGED <<svc, using, taken, cacheVars, open, inbox>>

\* Mutant: the response is read and left in the client.
TakeCopy(c) ==
    /\ at[c] = "wait" /\ inbox[using[c]] # <<>>
    /\ taken' = [taken EXCEPT ![c] = Head(inbox[using[c]])]
    /\ holder' = [holder EXCEPT ![using[c]] = None]
    /\ Goto(c, "reply")
    /\ UNCHANGED <<svc, using, acked, cacheVars, open, inbox>>

\* The client has a response: the oldest is this call's.
Take(c) ==
    /\ at[c] = "wait" /\ inbox[using[c]] # <<>>
    /\ taken' = [taken EXCEPT ![c] = Head(inbox[using[c]])]
    /\ inbox' = [inbox EXCEPT ![using[c]] = Tail(@)]
    /\ holder' = [holder EXCEPT ![using[c]] = None]
    /\ Goto(c, "reply")
    /\ UNCHANGED <<svc, using, acked, cacheVars, open>>

\* The response is converted and sent.
Reply(c) ==
    /\ at[c] = "reply"
    /\ \E kind \in {"error", "response"} : Answer(c, kind)
    /\ UNCHANGED <<svc, using, taken, cacheVars, clientVars>>

\* The service answers a request, whenever it likes.
Respond(k, c) ==
    /\ <<k, c>> \in open
    /\ open' = open \ {<<k, c>>}
    /\ inbox' = [inbox EXCEPT ![k] = Append(@, c)]
    /\ UNCHANGED <<callVars, cacheVars, holder>>

-----------------------------------------------------------------------------
Step(c) ==
    \/ LockInit(c) \/ FindClient(c) \/ MakeClient(c) \/ ClientFails(c)
    \/ MapRequest(c) \/ Send(c) \/ SendFails(c) \/ GiveUp(c) \/ Take(c)
    \/ Reply(c)

Quiescent == (\A c \in Calls : at[c] \in {"done", "gaveup"}) /\ open = {} /\ UNCHANGED vars

Next ==
    \/ \E c \in Calls : Step(c) \/ \E s \in Services : Accept(c, s)
    \/ \E k \in Clients, c \in Calls : Respond(k, c)
    \/ Quiescent

Spec == Init /\ [][Next]_vars

\* Threads that can run do run, and a wait ends at its timeout.  Services
\* need not answer.
FairSpec == Spec /\ \A c \in Calls : WF_vars(Step(c))

-----------------------------------------------------------------------------
(* Properties                                                               *)

\* "make sure we don't init the same service types & client in paralel": all
\* calls of a service use one client, so they share its mutex and inbox.
OneClientPerService ==
    \A c, d \in Calls :
      /\ svc[c] = svc[d] /\ {at[c], at[d]} \subseteq {"request", "lock", "wait"}
      => using[c] = using[d]

\* A client has one response to come for the call that holds it and one for
\* every call given up: each timeout puts the service's later answers one
\* step behind for good, and nothing else does.
AnswersLagByTimeouts ==
    \A k \in Clients :
      Cardinality({o \in open : o[1] = k}) + Len(inbox[k])
        = Cardinality({c \in Calls : using[c] = k /\ at[c] = "gaveup"})
            + (IF holder[k] = None THEN 0 ELSE 1)

\* A peer is answered with the response to its own call.
OwnResponse ==
    \A c \in Calls : acked[c] = "response" => taken[c] = c

\* ... unless a call of the same service was given up; and no response
\* answers two calls.
OwnOrLateResponse ==
    \A c \in Calls : taken[c] # None =>
      /\ taken[c] = c \/ \E d \in Calls : svc[d] = svc[c] /\ at[d] = "gaveup"
      /\ \A d \in Calls \ {c} : taken[d] # taken[c]

\* Every call is answered: no lock is left behind by the many early returns.
CallsAnswered ==
    \A c \in Calls : at[c] # "new" ~> acked[c] # "none"
=============================================================================
