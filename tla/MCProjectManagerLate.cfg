CONSTANTS
    i1 = i1
    i2 = i2
    i3 = i3
    a = a
    b = b
    d1 = d1
    d2 = d2
    NoName = NoName
    Id = {i1, i2}
    Name = {a, b}
    InvalidName = {}
    PortRangeStart = 1
    PublishedPortRangeEnd = 4
    PortRangeEnd = 5
    DbMayFail = FALSE
    Deleter = {d1, d2}
    LateDelivery = TRUE
    Overlap = TRUE
SPECIFICATION Spec
INVARIANTS
    FailedCreateLeavesNoRow
    OnlyAskedNames
SYMMETRY Symmetry
