\* One request, one extractor: its first chunk is early.
SPECIFICATION FairSpec
CONSTANTS
    r1 = r1
    r2 = r2
    e1 = e1
    e2 = e2
    path = path
    Requests = {r1}
    Extractors = {e2}
    Paths = {path}
    PathOf <- OnePath
    Parts <- TwoParts
    Discovered <- AllKnown
PROPERTY
    SearchesFinish
