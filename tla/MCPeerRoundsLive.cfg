\* Liveness: threads that can run do run, a client that stays answers its
\* offers, and may reply to updates without one as well.
SPECIFICATION AnsweredSpec
CONSTANTS
    Peers = {p1, p2}
    None = None
    MaxInputs = 4
    PlainReplies = TRUE
    Reoffer = {"regenerate", "throw"}
PROPERTIES
    LeaveCompletes
    RoundsDrain
    RestartHappens
