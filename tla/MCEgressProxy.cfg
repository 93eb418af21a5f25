CONSTANTS
    r1 = r1
    Req = {r1}
    Dest <- MCDest
    Entry <- MCEntry
    MaxData = 2
SPECIFICATION FairSpec
INVARIANTS
    TunnelsOnlyMeant
    EndedStreamDelivered
    WildcardAgrees
PROPERTIES
    EverythingCloses
CHECK_DEADLOCK FALSE
