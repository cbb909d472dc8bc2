SPECIFICATION Spec
CONSTANTS
    p1 = p1  p2 = p2  p3 = p3  i1 = i1  i2 = i2  i3 = i3  i4 = i4
    Peers = {p1, p2, p3}
    Ids = {i1, i2, i3, i4}
    DefaultSessions = 2
    ConfSessions = 2
    SessionIdle = 1
    MaxNow = 2
    MaxFrames = 1
    NoId = NoId
    NoPeer = NoPeer
SYMMETRY Symmetry
INVARIANTS TableConsistent OrderIsLRU ReplyToAsker
CHECK_DEADLOCK FALSE
