------------------------- MODULE MCBridgeProcess --------------------------
(* One listed package that is forced and one that is not.                   *)
EXTENDS BridgeProcess

MCPackages == {"a", "b"}
MCForced == {"b"}
MCLists == {<<>>, <<"a", "b">>, <<"b", "a">>}
\* Without LEDs, where shutdown ends at a null pointer, an emit; with both,
\* where it goes on, two faults or one and an emit.
MCScenarios ==
    {[have |-> {}, gpio |-> FALSE, faults |-> 2, emits |-> 1],
     [have |-> {"conn"}, gpio |-> FALSE, faults |-> 1, emits |-> 0],
     [have |-> Leds, gpio |-> TRUE, faults |-> 1, emits |-> 0],
     [have |-> Leds, gpio |-> FALSE, faults |-> 2, emits |-> 0]}
=============================================================================
