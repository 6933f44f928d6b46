SPECIFICATION FairSpec
CONSTANTS
    Nodes = {"camera", "agent"}
    Topics = {"odom"}
    Services = {"get", "set"}
    Types = {"Odometry", "Pose", "Cloud", "SetBool", "FileRequest", "Byte"}
    Qos = {"reliable", "best_effort"}
    Hosts = {"robot", "base"}
    Containers = {"c1", "c2"}
    Hidden = {"FileRequest"}
    NoIdl = {"Cloud", "FileRequest"}
    FileRequest = "FileRequest"
    Byte = "Byte"
    Shapes <- MCShapes
    Clash <- MCClash
    Includes <- MCIncludes
    Scenarios <- MCScenarios
CHECK_DEADLOCK FALSE
INVARIANTS TypeOK  NoFalseAlarm TimerWhenOn
PROPERTIES GraphIsFound
