SPECIFICATION FairSpec
CONSTANTS
    o1 = o1
    o2 = o2
    Outputs = {o1, o2}
    Formats = {"rgb8", "mono8"}
    SentMod = 2
    MaxHeld = 1
    Scenarios <- MCScenarios
CHECK_DEADLOCK FALSE
INVARIANTS TypeOK
PROPERTIES GapOnlyIfRaced WorkerEndsUnlessMissed StopEndsUnlessIdle
