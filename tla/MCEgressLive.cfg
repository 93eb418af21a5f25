CONSTANTS
    t1 = t1
    t2 = t2
    r1 = r1
    r2 = r2
    d = d
    a = a
    i = i
    NoRequest = NoRequest
    DefaultAllowlist = {d}
    Timeout = 1
    Thread = {t1}
    Request = {r1}
    Entry = {d, a, i}
    Internal = {i}
    DbMayFail = TRUE
    ReadMayFail = FALSE
SPECIFICATION FairSpec
INVARIANTS
    ApprovedConnectable
    RestartNeverWidens
PROPERTIES
    RequestAnswered
    ResolveReturns
