\* Two clients compete for a port over two connections, so that a connection
\* may also replace the other of the same client.
CONSTANTS
    a = a  b = b  h1 = h1  h2 = h2  h3 = h3  p1 = p1  p2 = p2
    Clients = {a, b}
    Conns = {h1, h2}
    Ports = {p1}
    MaxHalfOpen = 2
    MaxTunnels = 2
    MaxSeq = 1
    NoConn = NoConn
    NoClient = NoClient
    NoPort = NoPort
    Free = Free
SPECIFICATION FairSpec
INVARIANTS
    TypeOK RegisteredIsLive NoOrphanTunnel Reclaimed TunnelHoldsPort HalfOpenExact IInv
PROPERTY HandlersFinish
