CONSTANTS
    i1 = i1
    i2 = i2
    i3 = i3
    a = a
    b = b
    d1 = d1
    d2 = d2
    NoName = NoName
    Id = {i1, i2, i3}
    Name = {a, b}
    InvalidName = {}
    PortRangeStart = 1
    PublishedPortRangeEnd = 4
    PortRangeEnd = 5
    DbMayFail = TRUE
    Deleter = {d1}
    LateDelivery = FALSE
    Overlap = FALSE
SPECIFICATION Spec
INVARIANTS
    PortsDisjoint
    RegisteredInSync
    DeletedIsGone
SYMMETRY Symmetry
