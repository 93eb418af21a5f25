CONSTANTS
    t1 = t1
    t2 = t2
    k1 = k1
    k2 = k2
    k3 = k3
    p = p
    q = q
    s = s
    NoToken = NoToken
    Thread = {t1, t2}
    Token = {k1, k2, k3}
    Password = {p, q}
    ShortPassword = {}
    SessionDuration = 2
    MaxTime = 2
    DbMayFail = FALSE
    Crashes = FALSE
SPECIFICATION AuthSpec
INVARIANT OldSessionsGone
SYMMETRY Symmetry
