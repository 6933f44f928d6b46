SPECIFICATION FairSpec
CONSTANTS
    Calls = {c1, c2, c3}
    Services = {s1, s2}
    None = None
INVARIANTS
    TypeOK
    OneClientPerService
    AnswersLagByTimeouts
    OwnOrLateResponse
PROPERTY
    CallsAnswered
