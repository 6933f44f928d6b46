---------------------------- MODULE Negotiation ----------------------------
(***************************************************************************)
(* What a peer's subscription rounds promise its client: questions (offers) *)
(* are put one at a time.  While the client has one to answer the bridge    *)
(* neither puts another, nor changes what it asked, nor replaces the        *)
(* connection the question is about; a client that left is asked nothing.   *)
(***************************************************************************)
EXTENDS Naturals

CONSTANT Peers

VARIABLES
    version,   \* version of the bridge's question
    open,      \* is that question waiting to be settled on the connection?
    asked,     \* versions the client was asked and has not answered
    left       \* has the client left?

vars == <<version, open, asked, left>>

Init ==
    /\ version = [p \in Peers |-> 0]
    /\ open = [p \in Peers |-> FALSE]
    /\ asked = [p \in Peers |-> {}]
    /\ left = [p \in Peers |-> FALSE]

\* A new question may replace one that was refused, never one in flight.
Prepare(p) ==
    /\ asked[p] = {}
    /\ version' = [version EXCEPT ![p] = @ + 1]
    /\ open' = [open EXCEPT ![p] = TRUE]
    /\ UNCHANGED <<asked, left>>

Ask(p) ==
    /\ ~left[p] /\ open[p] /\ asked[p] = {}
    /\ asked' = [asked EXCEPT ![p] = {version[p]}]
    /\ UNCHANGED <<version, open, left>>

Answer(p) ==
    /\ asked[p] # {}
    /\ asked' = [asked EXCEPT ![p] = {}]
    /\ open' = [open EXCEPT ![p] = FALSE]
    /\ UNCHANGED <<version, left>>

Refuse(p) ==
    /\ asked[p] # {}
    /\ asked' = [asked EXCEPT ![p] = {}]
    /\ UNCHANGED <<version, open, left>>

\* The connection is dropped or replaced: the question goes with it.
Reset(p) ==
    /\ asked[p] = {}
    /\ open' = [open EXCEPT ![p] = FALSE]
    /\ UNCHANGED <<version, asked, left>>

Leave(p) ==
    /\ left' = [left EXCEPT ![p] = TRUE]
    /\ asked' = [asked EXCEPT ![p] = {}]
    /\ UNCHANGED <<version, open>>

Next ==
    \E p \in Peers :
      Prepare(p) \/ Ask(p) \/ Answer(p) \/ Refuse(p) \/ Reset(p) \/ Leave(p)

Spec == Init /\ [][Next]_vars
=============================================================================
