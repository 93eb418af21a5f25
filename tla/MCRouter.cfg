CONSTANTS
    x = x
    y = y
    Ip = {x, y}
    Window = 2
    Max = 1
    MaxTime = 2
    MaxAttempts = 2
    Request <- MCRequest
    Alias <- MCAlias
    Name <- MCName
    Slug <- MCSlug
    Ids <- MCIds
    Legacy = 1
    Port = {1, 2, 3}
SPECIFICATION Spec
INVARIANTS
    ProtectedNeedsSession
    ForwardsInside
    ReachesOwnApp
    UrlsUnambiguous
    AtMostMax
    RefusedOnlyWhenFull
SYMMETRY Symmetry
