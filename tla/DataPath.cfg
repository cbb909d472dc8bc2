SPECIFICATION Spec
CONSTANTS
    a = a  b = b  x1 = x1  x2 = x2  x3 = x3  d1 = d1  d2 = d2  d3 = d3
    Clients = {a, b}
    Pubs = {x1, x2}
    Datas = {d1, d2}
    MaxConns = 1
    ConfConnsPerTunnel = 1
    MaxPerIP = 2
    MaxActive = 1
    MaxSeq <- MCMaxSeq
    VhostIds = {2}
    MaxSessions <- MCMaxSessions
    NoClient = NoClient
    NoTunnel = NoTunnel
    NoPub = NoPub
SYMMETRY Symmetry
INVARIANTS OpenIsTracked SemCovered GateExact
PROPERTY ImplementsPairing
CHECK_DEADLOCK FALSE
