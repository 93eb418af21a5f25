CONSTANTS
    c1 = c1
    c2 = c2
    Conn = {c1}
    Size = 2
    SubscriberBufSize = 1
    MaxOutput = 4
    CloseCalled = TRUE
SPECIFICATION FairSpec
INVARIANTS
    NoPanic
    LiveConsecutive
PROPERTIES
    ExitCleansUp
    CloseKills
CHECK_DEADLOCK FALSE
