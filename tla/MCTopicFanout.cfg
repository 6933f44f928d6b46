SPECIFICATION Spec
CONSTANTS
    p1 = p1
    p2 = p2
    d = d
    m = m
    w = w
    Peers = {p1, p2}
    Data = {d}
    Media = {m}
    Write = {w}
    May <- SharedAndOwn
    MaxInputs = 5
INVARIANTS
    TypeOK
    RequestsServedUnlessErased
    NoOutputAfterClose
    StopsWhenUnusedUnlessRestarted
PROPERTY
    OthersDoNotInterrupt
