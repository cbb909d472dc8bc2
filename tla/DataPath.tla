------------------------------ MODULE DataPath ------------------------------
(***************************************************************************)
(* The TCP and HTTP data path of the server: a public connection goes      *)
(* through the onOpen callback of its tunnel (per-IP gate, quota, conn id) *)
(* or through handleVhostConn (quota, conn id), waits in Manager.pending,  *)
(* is claimed by a data connection of the client and is spliced; meanwhile *)
(* tunnels are unregistered and the client disconnects, shuts down and     *)
(* reconnects (internal/tunnel/server.go, internal/control/server.go,      *)
(* vhost.go, security.go and shutdown.go).                                 *)
(*                                                                         *)
(* Public connections all come from one IP.  The sessions of a client do   *)
(* not overlap here; ControlSession has those that do.                     *)
(***************************************************************************)
EXTENDS Integers, FiniteSets

CONSTANTS
    Clients,
    Pubs,               \* public connections; their conn ids
    Datas,              \* data connections
    MaxConns,           \* policy.MaxConns, 0 for no limit
    ConfConnsPerTunnel, \* max_conns_per_tunnel of the configuration
    MaxPerIP,           \* IPGate.maxPerIP, 0 for no limit
    MaxActive,          \* bound: ActiveConns that a UDP channel still raises
    MaxSeq,             \* bound: tunnels each client registers
    VhostIds,           \* ids of those that share the HTTP port
    MaxSessions,        \* bound: control sessions of each client
    NoClient, NoTunnel, NoPub

ASSUME DataPathAssumption ==
    /\ MaxConns \in Nat /\ ConfConnsPerTunnel \in Nat
    /\ MaxPerIP \in Nat /\ MaxSeq \in [Clients -> Nat] /\ MaxSessions \in [Clients -> Nat]
    /\ MaxActive \in Nat
    /\ NoClient \notin Clients
    /\ NoTunnel \notin Clients \X Nat /\ NoPub \notin Pubs
    /\ VhostIds \subseteq Nat /\ IsFiniteSet(Pubs)

VARIABLES
    at,         \* where onOpen is with a public connection
    tun,        \* the tunnel it arrived on
    up,         \* public connections the server has not closed
    pending,    \* Manager.pending, of all managers
    late,       \* pending connections whose claim deadline has passed
    sem,        \* active of the client semaphore in Server.clientSem
    slot,       \* connections that took a slot of it and gave none back
    active,     \* ActiveConns of a client, in metrics.Registry
    gate,       \* IPGate.conns of the one IP
    data,       \* data connections
    inflight,   \* dataConnTracker.conns
    chan,       \* UDP channels of a client that hold a slot
    tunnels,    \* Manager.tunnels: pairs of client and id
    seq,        \* Manager.seq
    control,    \* the control handler of a client
    sessions    \* control connections a client has had

connVars == <<at, tun, up, pending, late>>
countVars == <<sem, slot, active, gate>>
dataVars == <<data, inflight, chan>>
controlVars == <<tunnels, seq, control, sessions>>
vars == <<connVars, countVars, dataVars, controlVars>>

Tunnel == Clients \X Nat
InGate == {"quota", "open", "tell"}
InVhost == {"vquota", "vopen", "vtell"}
At == {"free", "gate", "told", "out"} \cup InGate \cup InVhost
Claimed == {"track", "splice"}
DataAt == {"free", "claim", "refused", "release", "untrack", "end"} \cup Claimed
Control == {"up", "unreg", "drain", "cleanup", "unregAll", "down"}
DataConn == [st : DataAt, peer : Clients \cup {NoClient}, pub : Pubs \cup {NoPub}]

Init ==
    /\ at = [x \in Pubs |-> "free"]
    /\ tun = [x \in Pubs |-> NoTunnel]
    /\ up = {} /\ pending = {} /\ late = {} /\ slot = {} /\ inflight = {}
    /\ sem = [c \in Clients |-> 0]
    /\ chan = [c \in Clients |-> 0]
    /\ active = [c \in Clients |-> 0]
    /\ gate = 0
    /\ data = [d \in Datas |-> [st |-> "free", peer |-> NoClient, pub |-> NoPub]]
    /\ tunnels = {}
    /\ seq = [c \in Clients |-> 0]
    /\ control = [c \in Clients |-> "down"]
    /\ sessions = [c \in Clients |-> 0]

Move(x, l) == at' = [at EXCEPT ![x] = l]
Step(d, l) == data' = [data EXCEPT ![d].st = l]

\* Semaphore.TryAcquire and Release.  The semaphore is looked up and used in
\* two steps; one that cleanupSecurity has dropped in between behaves as if
\* the call had come before.
MayAcquire(limit, n) == limit = 0 \/ n < limit
Acquired(limit, n) == IF limit = 0 THEN n ELSE n + 1
Released(n) == IF n > 0 THEN n - 1 ELSE 0

\* policyFromConfig does not copy max_conns_per_tunnel, and a limit of zero
\* makes every tunnel semaphore unlimited.
PolicyMaxConnsTunnel == 0

-----------------------------------------------------------------------------
\* acceptLoop and onOpen.  The accept loop of a tunnel calls onOpen itself,
\* so a tunnel has one connection there at a time.

AcceptPublic(x, t) ==
    /\ at[x] = "free"
    /\ t \in tunnels /\ t[2] \notin VhostIds
    /\ \A y \in Pubs : tun[y] = t => at[y] \notin InGate \cup {"gate"}
    /\ tun' = [tun EXCEPT ![x] = t]
    /\ up' = up \cup {x}
    /\ Move(x, "gate")
    /\ UNCHANGED <<pending, late, countVars, dataVars, controlVars>>

\* ipGate.Allow: the connection rate or the concurrency of the IP refuses it.
Gate(x) ==
    /\ at[x] = "gate"
    /\ \/ /\ MaxPerIP = 0 \/ gate < MaxPerIP
          /\ gate' = gate + 1
          /\ Move(x, "quota")
          /\ UNCHANGED up
       \/ /\ up' = up \ {x}
          /\ Move(x, "out")
          /\ UNCHANGED gate
    /\ UNCHANGED <<tun, pending, late, sem, slot, active, dataVars, controlVars>>

\* acquireDataQuota, for either way in
TakeSlot(x, l) ==
    LET c == tun[x][1] IN
    /\ MayAcquire(MaxConns, sem[c]) /\ MayAcquire(PolicyMaxConnsTunnel, 0)
    /\ sem' = [sem EXCEPT ![c] = Acquired(MaxConns, @)]
    /\ slot' = slot \cup {x}
    /\ Move(x, l)
    /\ UNCHANGED <<up, gate>>

NoSlot(x) ==
    /\ ~ MayAcquire(MaxConns, sem[tun[x][1]])
    /\ up' = up \ {x}
    /\ Move(x, "out")
    /\ UNCHANGED <<sem, slot, active>>

\* Mutant: the refused connection keeps its place in the gate.
QuotaKeepsGate(x) ==
    /\ at[x] = "quota"
    /\ \/ TakeSlot(x, "open") /\ active' = [active EXCEPT ![tun[x][1]] = @ + 1]
       \/ NoSlot(x) /\ UNCHANGED gate
    /\ UNCHANGED <<tun, pending, late, dataVars, controlVars>>

\* acquireDataQuota and ConnOpened; the deferred ipGate.Release when refused
Quota(x) ==
    /\ at[x] = "quota"
    /\ \/ TakeSlot(x, "open") /\ active' = [active EXCEPT ![tun[x][1]] = @ + 1]
       \/ NoSlot(x) /\ gate' = gate - 1
    /\ UNCHANGED <<tun, pending, late, dataVars, controlVars>>

\* OpenConnection: into pending, whether or not the tunnel is still there
OpenConnection(x) ==
    /\ \/ at[x] = "open" /\ Move(x, "tell")
       \/ at[x] = "vopen" /\ Move(x, "vtell")
    /\ pending' = pending \cup {x}
    /\ UNCHANGED <<tun, up, late, countVars, dataVars, controlVars>>

\* No conn id: the quota is given back; ConnOpened has counted it already.
OpenConnectionFails(x) ==
    /\ at[x] \in {"open", "vopen"}
    /\ sem' = [sem EXCEPT ![tun[x][1]] = Released(@)]
    /\ slot' = slot \ {x}
    /\ up' = up \ {x}
    /\ gate' = IF at[x] = "open" THEN gate - 1 ELSE gate
    /\ Move(x, "out")
    /\ UNCHANGED <<tun, pending, late, active, dataVars, controlVars>>

\* The open_connection frame; a write error is ignored.  ipGate.Release.
Tell(x) ==
    /\ at[x] = "tell"
    /\ gate' = gate - 1
    /\ Move(x, "told")
    /\ UNCHANGED <<tun, up, pending, late, sem, slot, active, dataVars, controlVars>>

\* The 10s of the claim are over.  No timer runs: ClaimData looks at the clock.
Expire(x) ==
    /\ x \in pending \ late
    /\ late' = late \cup {x}
    /\ UNCHANGED <<at, tun, up, pending, countVars, dataVars, controlVars>>

-----------------------------------------------------------------------------
\* handleVhostConn, after it has found the tunnel (Vhost has that part): each
\* connection has a goroutine of its own and none passes the per-IP gate.

RouteVhost(x, t) ==
    /\ at[x] = "free"
    /\ t \in tunnels /\ t[2] \in VhostIds
    /\ tun' = [tun EXCEPT ![x] = t]
    /\ up' = up \cup {x}
    /\ Move(x, "vquota")
    /\ UNCHANGED <<pending, late, countVars, dataVars, controlVars>>

\* acquireDataQuota; ConnOpened is not called
VhostQuota(x) ==
    /\ at[x] = "vquota"
    /\ \/ TakeSlot(x, "vopen") /\ UNCHANGED active
       \/ NoSlot(x) /\ UNCHANGED gate
    /\ UNCHANGED <<tun, pending, late, dataVars, controlVars>>

\* The open_connection frame goes to the registered session.  Without one the
\* connection is closed and stays in pending, its slot with it.
VhostTell(x) ==
    /\ at[x] = "vtell"
    /\ IF control[tun[x][1]] # "down"
       THEN Move(x, "told") /\ UNCHANGED up
       ELSE Move(x, "out") /\ up' = up \ {x}
    /\ UNCHANGED <<tun, pending, late, countVars, dataVars, controlVars>>

-----------------------------------------------------------------------------
\* Data connections.

\* handleConn reads an open_data frame for conn id x on a connection that
\* authenticated as c, and handleDataConn decodes it.  The server cannot rely
\* on the client to be the right one, or to send it once or at all.
OpenData(d, c, x) ==
    /\ data[d].st = "free"
    /\ at[x] = "told"
    /\ data' = [data EXCEPT ![d] = [st |-> "claim", peer |-> c, pub |-> x]]
    /\ UNCHANGED <<connVars, countVars, inflight, chan, controlVars>>

\* Mutant: a claimed conn id stays in pending.
ClaimDataKeepsPending(d) ==
    LET x == data[d].pub
        good == x \in pending \ late /\ tun[x][1] = data[d].peer /\ tun[x] \in tunnels IN
    /\ data[d].st = "claim"
    /\ Step(d, IF good THEN "track" ELSE "refused")
    /\ UNCHANGED <<connVars, countVars, inflight, chan, controlVars>>

\* Mutant: an expired conn id is deleted and its connection not closed.
ClaimDataNoClose(d) ==
    LET x == data[d].pub  mine == x \in pending /\ tun[x][1] = data[d].peer IN
    /\ data[d].st = "claim"
    /\ pending' = IF mine THEN pending \ {x} ELSE pending
    /\ Step(d, IF mine /\ x \notin late /\ tun[x] \in tunnels
               THEN "track" ELSE "refused")
    /\ UNCHANGED <<at, tun, up, late, countVars, inflight, chan, controlVars>>

\* ClaimData in the manager of the peer.  A conn id that is late or whose
\* tunnel is gone is deleted and its connection closed.
ClaimData(d) ==
    LET x == data[d].pub  mine == x \in pending /\ tun[x][1] = data[d].peer
        good == mine /\ x \notin late /\ tun[x] \in tunnels IN
    /\ data[d].st = "claim"
    /\ pending' = IF mine THEN pending \ {x} ELSE pending
    /\ up' = IF mine /\ ~good THEN up \ {x} ELSE up
    /\ Step(d, IF good THEN "track" ELSE "refused")
    /\ UNCHANGED <<at, tun, late, countVars, inflight, chan, controlVars>>

\* dataConns.add; the splice starts
Track(d) ==
    /\ data[d].st = "track"
    /\ inflight' = inflight \cup {data[d].pub}
    /\ Step(d, "splice")
    /\ UNCHANGED <<connVars, countVars, chan, controlVars>>

\* Both directions of the splice are done and both connections closed.
SpliceEnds(d) ==
    /\ data[d].st = "splice"
    /\ up' = up \ {data[d].pub}
    /\ Step(d, "release")
    /\ UNCHANGED <<at, tun, pending, late, countVars, inflight, chan, controlVars>>

Finish(d) ==
    LET c == data[d].peer IN
    /\ data[d].st = "release"
    /\ slot' = slot \ {data[d].pub}
    /\ active' = [active EXCEPT ![c] = @ - 1]
    /\ Step(d, "untrack")
    /\ UNCHANGED <<connVars, gate, inflight, chan, controlVars>>

\* Mutant: the release is forgotten.
ReleaseQuotaForgotten(d) == Finish(d) /\ UNCHANGED sem

\* RecordConn and the deferred releaseDataQuota
ReleaseQuota(d) ==
    Finish(d) /\ sem' = [sem EXCEPT ![data[d].peer] = Released(@)]

\* dataConns.done
Untrack(d) ==
    /\ data[d].st = "untrack"
    /\ inflight' = inflight \ {data[d].pub}
    /\ Step(d, "end")
    /\ UNCHANGED <<connVars, countVars, chan, controlVars>>

\* A data connection claimed for a UDP tunnel becomes its channel and takes a
\* slot of the same semaphore (UdpChannel has the channels themselves: here the
\* tunnel may have gone since); refused, it is closed and nothing changes.
UdpChannel(c) ==
    /\ sessions[c] > 0 /\ active[c] < MaxActive
    /\ MayAcquire(MaxConns, sem[c])
    /\ sem' = [sem EXCEPT ![c] = Acquired(MaxConns, @)]
    /\ active' = [active EXCEPT ![c] = @ + 1]
    /\ chan' = [chan EXCEPT ![c] = @ + 1]
    /\ UNCHANGED <<connVars, slot, gate, data, inflight, controlVars>>

\* OnUDPChannelClosed: the slot is given back, ActiveConns is not lowered
UdpChannelClosed(c) ==
    /\ chan[c] > 0
    /\ sem' = [sem EXCEPT ![c] = Released(@)]
    /\ chan' = [chan EXCEPT ![c] = @ - 1]
    /\ UNCHANGED <<connVars, slot, active, gate, data, inflight, controlVars>>

-----------------------------------------------------------------------------
\* The control session of a client.

RegisterTunnel(c) ==
    /\ control[c] = "up"
    /\ seq[c] < MaxSeq[c]
    /\ seq' = [seq EXCEPT ![c] = @ + 1]
    /\ tunnels' = tunnels \cup {<<c, seq[c] + 1>>}
    /\ UNCHANGED <<connVars, countVars, dataVars, control, sessions>>

\* Manager.Unregister: the pending connections of the tunnel are closed and
\* dropped.  Their quota is not released.
Unregister(t) ==
    LET mine == {x \in pending : tun[x] = t} IN
    /\ t \in tunnels
    /\ control[t[1]] \in {"up", "unreg", "unregAll"}
    /\ tunnels' = tunnels \ {t}
    /\ pending' = pending \ mine
    /\ up' = up \ mine
    /\ UNCHANGED <<at, tun, late, countVars, dataVars, seq, control, sessions>>

ControlStep(c, from, to) ==
    /\ control[c] = from
    /\ control' = [control EXCEPT ![c] = to]
    /\ UNCHANGED <<connVars, slot, active, gate, dataVars, tunnels, seq>>

Gone(c) == \A t \in tunnels : t[1] # c

\* shutdown: UnregisterAll, then drainDataConns until nothing is in flight or
\* the time is up; then readLoop returns.
Shutdown(c) == ControlStep(c, "up", "unreg") /\ UNCHANGED <<sem, sessions>>
StartDrain(c) == Gone(c) /\ ControlStep(c, "unreg", "drain") /\ UNCHANGED <<sem, sessions>>
Drained(c) == inflight = {} /\ ControlStep(c, "drain", "cleanup") /\ UNCHANGED <<sem, sessions>>
DrainTimeout(c) ==
    inflight # {} /\ ControlStep(c, "drain", "cleanup") /\ UNCHANGED <<sem, sessions>>

Disconnect(c) == ControlStep(c, "up", "cleanup") /\ UNCHANGED <<sem, sessions>>

\* cleanupSecurity drops the semaphore; the next look-up makes a new one.
CleanupSecurity(c) ==
    /\ ControlStep(c, "cleanup", "unregAll")
    /\ sem' = [sem EXCEPT ![c] = 0]
    /\ UNCHANGED sessions

HandlerEnds(c) == Gone(c) /\ ControlStep(c, "unregAll", "down") /\ UNCHANGED <<sem, sessions>>

Reconnect(c) ==
    /\ sessions[c] < MaxSessions[c]
    /\ ControlStep(c, "down", "up")
    /\ sessions' = [sessions EXCEPT ![c] = @ + 1]
    /\ UNCHANGED sem

-----------------------------------------------------------------------------
\* Goroutines of the server that have something to do ...
ServerStep ==
    \/ \E x \in Pubs : Gate(x) \/ Quota(x) \/ OpenConnection(x) \/ Tell(x)
                       \/ VhostQuota(x) \/ VhostTell(x)
    \/ \E d \in Datas : ClaimData(d) \/ Track(d) \/ ReleaseQuota(d) \/ Untrack(d)
    \/ \E c \in Clients : StartDrain(c) \/ Drained(c) \/ DrainTimeout(c)
                          \/ CleanupSecurity(c) \/ HandlerEnds(c)
    \/ \E t \in tunnels : control[t[1]] # "up" /\ Unregister(t)

\* ... and what comes from outside.
Outside ==
    \/ \E x \in Pubs, t \in tunnels : AcceptPublic(x, t) \/ RouteVhost(x, t)
    \/ \E x \in Pubs : Expire(x) \/ OpenConnectionFails(x)
    \/ \E d \in Datas, c \in Clients, x \in Pubs : OpenData(d, c, x)
    \/ \E d \in Datas : SpliceEnds(d)
    \/ \E c \in Clients : UdpChannel(c) \/ UdpChannelClosed(c)
    \/ \E c \in Clients : RegisterTunnel(c) \/ Shutdown(c) \/ Disconnect(c) \/ Reconnect(c)
    \/ \E t \in tunnels : control[t[1]] = "up" /\ Unregister(t)

Next == ServerStep \/ Outside

Spec == Init /\ [][Next]_vars

\* Runnable goroutines run and clocks advance; clients, public peers and the
\* network owe nothing.
FairSpec == Spec /\ WF_vars(ServerStep) /\ \A x \in Pubs : WF_vars(Expire(x))

-----------------------------------------------------------------------------
\* Properties.

\* Types: the tunnels, the pending connections and the counters, which stay
\* within what security.Semaphore and IPGate allow.
TypeOK ==
    /\ at \in [Pubs -> At]
    /\ tun \in [Pubs -> Tunnel \cup {NoTunnel}]
    /\ up \subseteq Pubs /\ pending \subseteq Pubs /\ late \subseteq Pubs
    /\ slot \subseteq Pubs /\ inflight \subseteq Pubs
    /\ sem \in [Clients -> Nat]
    /\ chan \in [Clients -> Nat]
    /\ active \in [Clients -> Int]
    /\ gate \in Nat
    /\ data \in [Datas -> DataConn]
    /\ tunnels \subseteq Tunnel
    /\ seq \in [Clients -> Nat]
    /\ control \in [Clients -> Control]
    /\ sessions \in [Clients -> Nat]

Entering == {"gate", "quota", "open", "vquota", "vopen"}
Holds(d, x) == data[d].st \in Claimed /\ data[d].pub = x

\* A public connection the server has not closed is always in somebody's
\* hands: in onOpen, in pending, or with the one data connection that claimed
\* it.  Nothing is open and forgotten, whatever claims, deadlines and
\* unregistrations coincide.
OpenIsTracked ==
    \A x \in up :
        \/ at[x] \in Entering
        \/ x \in pending
        \/ \E d \in Datas : Holds(d, x)

\* The client semaphore never counts a connection that holds no slot: no
\* interleaving of refusals, failed claims, UDP channels and disconnects makes it
\* deny a connection while fewer than MaxConns slots are taken or lost.
SemCovered ==
    \A c \in Clients : sem[c] <= Cardinality({x \in slot : tun[x][1] = c}) + chan[c]

\* Each Allow of the per-IP gate has its Release (ipgate.go: "exactly once").
GateExact == gate = Cardinality({x \in Pubs : at[x] \in InGate})

\* The data connections that have claimed one, as Pairing sees them.
HasClaimed(d) == data[d].st \notin {"free", "claim", "refused"}
MatesOf(x) == {d \in Datas : data[d].pub = x /\ HasClaimed(d)}

PhaseOf(x) ==
    CASE at[x] = "free" -> "new"
      [] x \notin up /\ at[x] # "free" -> "closed"
      [] x \in up /\ at[x] # "free" /\ MatesOf(x) # {} -> "paired"
      [] OTHER -> "waiting"

phaseBar == [x \in Pubs |-> PhaseOf(x)]
ownerBar == [x \in Pubs |-> IF tun[x] = NoTunnel THEN NoClient ELSE tun[x][1]]
matesBar == [x \in Pubs |-> MatesOf(x)]
whoBar == [d \in Datas |-> data[d].peer]

P == INSTANCE Pairing WITH
        phase <- phaseBar, owner <- ownerBar, mates <- matesBar, who <- whoBar

\* The data path implements Pairing: a public connection is claimed at most
\* once, by a data connection that authenticated as the owner of its tunnel
\* and serves no other, and a closed one stays closed.
ImplementsPairing == P!PairingSpec

\* The inductive invariant.  Where a public connection is in onOpen or
\* handleVhostConn says whether it has a tunnel, is open, may be pending and
\* may hold a slot ...
PubsOK ==
    \A x \in Pubs :
        /\ tun[x] = NoTunnel <=> at[x] = "free"
        /\ at[x] \in Entering => x \in up
        /\ at[x] \in {"free", "out"} => x \notin up
        /\ x \in pending => at[x] \in {"tell", "vtell", "told", "out"}
        /\ x \in pending /\ at[x] # "out" => x \in up
        /\ x \in slot => at[x] \notin {"free", "gate", "quota", "vquota"}

\* ... and a conn id that was claimed is out of pending for good, claimed by
\* one data connection, which belongs to the client of its tunnel.
DatasOK ==
    \A d \in Datas :
        /\ data[d].st = "free" => data[d].peer = NoClient
        /\ data[d].st # "free" =>
              data[d].peer \in Clients /\ data[d].pub \in Pubs /\ at[data[d].pub] = "told"
        /\ HasClaimed(d) =>
              data[d].pub \notin pending /\ tun[data[d].pub][1] = data[d].peer
        /\ data[d].st \in Claimed => data[d].pub \in up
        /\ \A e \in Datas :
              HasClaimed(d) /\ HasClaimed(e) /\ data[d].pub = data[e].pub => d = e

PathInv == TypeOK /\ PubsOK /\ DatasOK /\ OpenIsTracked /\ SemCovered /\ GateExact

\* docs/plan/04-protocol-v1.md:62: a conn id nobody claims within 10s closes
\* the public connection.
UnclaimedIsClosed ==
    \A x \in Pubs : (x \in pending /\ x \in late) ~> (x \notin up)

\* docs/operations/policy.md:11: a client has at most max_conns_per_client
\* data connections at a time.
ClientWithinCap ==
    MaxConns > 0 => \A c \in Clients :
        Cardinality({d \in Datas : data[d].st = "splice" /\ data[d].peer = c}) <= MaxConns

\* docs/operations/policy.md:12: a tunnel at most max_conns_per_tunnel.
TunnelWithinCap ==
    \A t \in tunnels :
        Cardinality({d \in Datas : data[d].st = "splice" /\ tun[data[d].pub] = t})
            <= ConfConnsPerTunnel

\* docs/operations/policy.md:26: an IP has at most MaxPerIP connections.
IPWithinCap == Cardinality(up) <= MaxPerIP + Cardinality({x \in Pubs : at[x] = "gate"})

\* internal/security/quota.go:34: "Releasing beyond acquires is a programming
\* error".
NoOverRelease ==
    [][\A d \in Datas : data[d].st = "release" /\ data'[d].st = "untrack"
          => sem[data[d].peer] > 0]_vars

\* docs/metrics.md:43: ActiveConns counts the data connections that are open:
\* one that was announced and then closed is counted out ...
ActiveIsOpen ==
    \A c \in Clients :
        active[c] <= Cardinality({x \in Pubs : (x \in up \/ at[x] = "out") /\ tun[x][1] = c})
                     + Cardinality({d \in Datas : data[d].st = "release"}) + chan[c]

\* ... and one that is counted out was counted in (metrics.go:24).
ActiveNotNegative == \A c \in Clients : active[c] >= 0

\* internal/control/shutdown.go:46: the drain lets the data connections in
\* flight finish.
DrainWaits ==
    [][\A c \in Clients : control[c] = "drain" /\ control'[c] = "cleanup" /\ inflight = {}
          => \A d \in Datas : data[d].st \in Claimed => data[d].peer # c]_vars
=============================================================================
