SPECIFICATION Spec
CONSTANTS
    p1 = p1
    p2 = p2
    d = d
    m = m
    w = w
    Peers = {p1, p2}
    Data = {d}
    Media = {}
    Write = {}
    May <- SharedOnly
    MaxInputs = 4
INVARIANT
    RequestsServed
