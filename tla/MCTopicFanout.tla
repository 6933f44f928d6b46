--------------------------- MODULE MCTopicFanout ---------------------------
(* Instances of TopicFanout for TLC.                                        *)
EXTENDS TopicFanout, TLC

CONSTANTS p1, p2, d, m, w

\* Both peers read the data topic, one also a video and writes.
SharedAndOwn == (p1 :> {d, m, w}) @@ (p2 :> {d})

\* Both peers read the data topic and nothing else.
SharedOnly == [p \in Peers |-> {d}]
=============================================================================
