--------------------------- MODULE MCVideoReader ---------------------------
EXTENDS VideoReader
CONSTANTS o1, o2

\* One output and frames enough for its counter to come round; an output whose
\* walk is disturbed by another's coming and going; and an encoder.
MCScenarios ==
    {[source |-> "packets", outputs |-> {o1}, mute |-> {}, frames |-> 4, faults |-> 1, wakes |-> 1],
     [source |-> "packets", outputs |-> {o1, o2}, mute |-> {o2}, frames |-> 2, faults |-> 0, wakes |-> 0],
     [source |-> "images", outputs |-> {o1}, mute |-> {}, frames |-> 3, faults |-> 0, wakes |-> 1]}
============================================================================
