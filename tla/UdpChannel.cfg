SPECIFICATION FairSpec
CONSTANTS
    t1 = t1
    t2 = t2
    i1 = i1
    i2 = i2
    i3 = i3
    i4 = i4
    Tunnels = {t1, t2}
    Ids = {i1, i2, i3, i4}
    NoId = NoId
    NoTunnel = NoTunnel
INVARIANTS OneChannel NeverReplaces
PROPERTIES DroppedComesBack
CHECK_DEADLOCK FALSE
