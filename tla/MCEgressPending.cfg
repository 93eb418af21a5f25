CONSTANTS
    t1 = t1
    t2 = t2
    r1 = r1
    r2 = r2
    d = d
    a = a
    i = i
    NoRequest = NoRequest
    DefaultAllowlist = {d}
    Timeout = 1
    Thread = {t1, t2}
    Request = {r1, r2}
    Entry = {d, i}
    Internal = {i}
    DbMayFail = TRUE
    ReadMayFail = TRUE
SPECIFICATION Spec
INVARIANTS
    NoPanic
    OnlyGranted
    AnswerMatchesDecision
    NoGhostRequest
SYMMETRY Symmetry
