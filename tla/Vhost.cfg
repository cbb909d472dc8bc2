SPECIFICATION Spec
CONSTANTS
    a = a
    b = b
    r1 = r1
    Clients = {a, b}
    Hosts <- MCHosts
    Requests = {r1}
    MaxTunnels = 2
    MaxSeq = 2
    NoEntry = NoEntry
SYMMETRY Symmetry
INVARIANTS NeverMisrouted LookupMostSpecific ListenerIsCounted
CHECK_DEADLOCK FALSE
