CONSTANTS
    Token = {"t1", "t2"}
    Pair = {"k1", "k2", "k3"}
    Config <- MCConfig
    Absent = Absent
    MaxFaults = 3
SPECIFICATION FairSpec
INVARIANTS
    TokenAgrees
    ContainerFits
    ServesStoredPair
    MigrationKeepsData
PROPERTIES
    OnlyAskedRemoval
    Recovers
CHECK_DEADLOCK FALSE
