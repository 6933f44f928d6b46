\* Safety and the implementation of Negotiation: two peer objects that share
\* the SIO thread, clients that answer offers only, every library behaviour.
SPECIFICATION Spec
CONSTANTS
    Peers = {p1, p2}
    None = None
    MaxInputs = 5
    PlainReplies = FALSE
    Reoffer = {"regenerate", "throw", "ignore"}
SYMMETRY PeerSymmetry
INVARIANTS
    TypeOK
    
    PcReleased
    RestartOwed
 
