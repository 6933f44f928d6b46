SPECIFICATION FairSpec
CONSTANTS
    r1 = r1
    r2 = r2
    e1 = e1
    e2 = e2
    path = path
    Requests = {r1, r2}
    Extractors = {e1, e2}
    Paths = {path}
    PathOf <- OnePath
    Parts <- TwoSizes
    Discovered <- OneKnowsBoth
INVARIANTS
    TypeOK
    CompleteMeansUploaded
    AnsweredOnce
PROPERTY
    SearchesFinishUnlessLost
