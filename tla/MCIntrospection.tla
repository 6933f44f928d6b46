-------------------------- MODULE MCIntrospection --------------------------
EXTENDS Introspection, TLC

End(qos) == [topic |-> "odom", type |-> "Odometry", qos |-> qos]
Shape(pubs, subs, services) == [pubs |-> pubs, subs |-> subs, services |-> services]

MCClash == {<<"best_effort", "reliable">>}
MCIncludes ==
    [t \in Types |-> IF t = "Odometry" THEN {"Pose", "Cloud"} ELSE {}]

Camera == Shape({End("best_effort")}, {}, {})
Agent == Shape({}, {End("reliable")}, {<<"get", "FileRequest">>})
Both == [n \in Nodes |-> IF n = "camera" THEN Camera ELSE Agent]

MCShapes ==
    {Camera, Agent, Shape({[End("reliable") EXCEPT !.type = "Pose"]}, {}, {}),
     Shape({}, {}, {<<"set", "SetBool">>, <<"get", "Odometry">>})}

\* Changes and failed queries; requests and drops; the end and the monitor.
S(start, changes, faults, requests, messages, ends) ==
    [start |-> start, changes |-> changes, faults |-> faults, requests |-> requests,
     docker |-> messages, ends |-> ends]
MCScenarios ==
    {S(<<>>, 2, 0, 0, 0, FALSE), S(Both, 1, 1, 0, 0, FALSE), S(Both, 1, 0, 1, 0, FALSE),
     S(Both, 0, 0, 2, 0, FALSE), S("camera" :> Camera, 0, 0, 1, 1, TRUE),
     S(<<>>, 0, 0, 0, 3, FALSE)}
============================================================================
