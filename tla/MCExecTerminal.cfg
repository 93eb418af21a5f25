CONSTANTS
    p1 = p1
    x1 = x1
    c1 = c1
    NoSession = 0
    Project = {p1}
    Call = {1, 2}
    Closer = {x1}
    Conn = {c1}
    SubscriberBufSize = 1
    Active = {1}
    MaxOutput = 2
    MayStall = TRUE
SPECIFICATION FairSpec
INVARIANTS
    NoPanic
    RegisteredIsServed
    NoGap
PROPERTIES
    TornDown
    HandlerEnds
CHECK_DEADLOCK FALSE
