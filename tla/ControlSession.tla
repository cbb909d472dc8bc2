--------------------------- MODULE ControlSession ---------------------------
(***************************************************************************)
(* The control plane of the server: the handler goroutines of control      *)
(* connections, the session registry, the per-client tunnel manager, the   *)
(* public listeners and the port reservations                              *)
(* (internal/control/server.go, internal/session/session.go,               *)
(* internal/tunnel/server.go).                                             *)
(*                                                                         *)
(* Every critical section and every system call of a handler is a step of  *)
(* its own, so that the handlers of a client that reconnects, of the one   *)
(* it replaces and of other clients interleave as goroutines do.  The      *)
(* tunnels here own a TCP port of their own; tunnels that share the HTTP   *)
(* port and UDP channels have modules of their own.                        *)
(***************************************************************************)
EXTENDS Naturals, FiniteSets

CONSTANTS
    Clients,        \* certificate identities
    Conns,          \* slots for control connections (handler goroutines)
    Ports,          \* public ports the policy allows
    MaxHalfOpen,    \* MaxHalfOpen: cap per source IP; all peers share one IP
    MaxTunnels,     \* policy.MaxTunnels, 0 for no limit
    MaxSeq,         \* bound: tunnel ids a manager hands out
    NoConn, NoClient, NoPort, Free

ASSUME ControlSessionAssumption ==
    /\ NoConn \notin Conns
    /\ NoClient \notin Clients
    /\ NoPort \notin Ports
    /\ Free \notin Clients \X Nat
    /\ MaxHalfOpen \in Nat \ {0}
    /\ MaxTunnels \in Nat
    /\ MaxSeq \in Nat
    /\ IsFiniteSet(Conns)

VARIABLES
    pc,         \* where the handler of a connection is
    client,     \* peerID of a connection, NoClient while the slot is unused
    open,       \* the connection has not been closed or lost
    old,        \* the session a handler found registered and is replacing
    registry,   \* session.Registry: client -> its registered session
    tunnels,    \* Manager.tunnels: client -> set of registered tunnels
    seq,        \* Manager.seq
    listener,   \* the tunnel that has a public port bound, or Free
    reserved,   \* Server.reservations that have not expired
    halfOpen,   \* halfOpenTracker.perIP of the one IP
    job,        \* port and id of the tunnel a handler is registering or closing
    todo,       \* tunnel ids a handler still has to unregister
    ret,        \* where it continues after that
    due         \* ports a handler still has to reserve

vars == <<pc, client, open, old, registry, tunnels, seq, listener, reserved,
          halfOpen, job, todo, ret, due>>

-----------------------------------------------------------------------------
\* Handler positions.  A handler "holds" its session from the moment
\* Sessions.Register accepted it until its deferred Sessions.Unregister.

Handshake == {"hello", "get", "evict", "replace", "reregister"}
Removing == {"remove", "closeLn"}
Holding == {"greet", "serving", "check", "lookup", "listen", "insert", "drain",
            "cleanup", "reserve", "unregAll", "leave"} \cup Removing
PC == {"idle", "release"} \cup Handshake \cup Holding

Returns == {"serving", "drain", "leave"}

Tunnel == [id : Nat, port : Ports, by : Conns]
Job == [port : Ports \cup {NoPort}, id : Nat]
Holder == (Clients \X Nat) \cup {Free}

Ids(c) == {t.id : t \in tunnels[c]}

\* Manager.Ports: the map ports is written in the critical sections that
\* write tunnels, and is its index by port.
PortsOf(c) == {t.port : t \in tunnels[c]}

NoJob == [port |-> NoPort, id |-> 0]

Init ==
    /\ pc = [h \in Conns |-> "idle"]
    /\ client = [h \in Conns |-> NoClient]
    /\ open = [h \in Conns |-> FALSE]
    /\ old = [h \in Conns |-> NoConn]
    /\ registry = [c \in Clients |-> NoConn]
    /\ tunnels = [c \in Clients |-> {}]
    /\ seq = [c \in Clients |-> 0]
    /\ listener = [p \in Ports |-> Free]
    /\ reserved = [p \in Ports |-> NoClient]
    /\ halfOpen = 0
    /\ job = [h \in Conns |-> NoJob]
    /\ todo = [h \in Conns |-> {}]
    /\ ret = [h \in Conns |-> "serving"]
    /\ due = [h \in Conns |-> {}]

Goto(h, l) == pc' = [pc EXCEPT ![h] = l]

-----------------------------------------------------------------------------
\* Handshake: handleConn and the first half of handleControlConn.

\* A client_hello arrived on an authenticated connection.  A slot some handler
\* still points to is not reused: in the program it is a different object.
Accept(h, c) ==
    /\ pc[h] = "idle"
    /\ \A g \in Conns : old[g] # h
    /\ halfOpen < MaxHalfOpen
    /\ halfOpen' = halfOpen + 1
    /\ client' = [client EXCEPT ![h] = c]
    /\ open' = [open EXCEPT ![h] = TRUE]
    /\ Goto(h, "hello")
    /\ UNCHANGED <<old, registry, tunnels, seq, listener, reserved, job, todo,
                   ret, due>>

\* Mutant: the refused handshake ends without giving its slot back.
RejectHelloKeepsSlot(h) ==
    /\ pc[h] = "hello"
    /\ open' = [open EXCEPT ![h] = FALSE]
    /\ client' = [client EXCEPT ![h] = NoClient]
    /\ Goto(h, "idle")
    /\ UNCHANGED <<old, registry, tunnels, seq, listener, reserved, halfOpen,
                   job, todo, ret, due>>

\* The hello does not decode, validate, match the certificate or the version.
RejectHello(h) ==
    /\ pc[h] = "hello"
    /\ Goto(h, "release")
    /\ UNCHANGED <<client, open, old, registry, tunnels, seq, listener,
                   reserved, halfOpen, job, todo, ret, due>>

\* Sessions.Register
RegisterSession(h) ==
    LET c == client[h] IN
    /\ pc[h] = "hello"
    /\ IF registry[c] = NoConn
       THEN /\ registry' = [registry EXCEPT ![c] = h]
            /\ Goto(h, "greet")
       ELSE /\ Goto(h, "get")
            /\ UNCHANGED registry
    /\ UNCHANGED <<client, open, old, tunnels, seq, listener, reserved,
                   halfOpen, job, todo, ret, due>>

\* Sessions.Get, after Register failed
GetOld(h) ==
    LET c == client[h] IN
    /\ pc[h] = "get"
    /\ IF registry[c] = NoConn
       THEN Goto(h, "release") /\ UNCHANGED old
       ELSE Goto(h, "evict") /\ old' = [old EXCEPT ![h] = registry[c]]
    /\ UNCHANGED <<client, open, registry, tunnels, seq, listener, reserved,
                   halfOpen, job, todo, ret, due>>

\* Mutant: the newcomer also gives back the slot of the session it evicts.
EvictOldAndRelease(h) ==
    /\ pc[h] = "evict"
    /\ open' = [open EXCEPT ![old[h]] = FALSE]
    /\ old' = [old EXCEPT ![h] = NoConn]
    /\ halfOpen' = halfOpen - 1
    /\ Goto(h, "replace")
    /\ UNCHANGED <<client, registry, tunnels, seq, listener, reserved, job,
                   todo, ret, due>>

\* The fatal error is written to the old connection, which is then closed.
EvictOld(h) ==
    /\ pc[h] = "evict"
    /\ open' = [open EXCEPT ![old[h]] = FALSE]
    /\ old' = [old EXCEPT ![h] = NoConn]
    /\ Goto(h, "replace")
    /\ UNCHANGED <<client, registry, tunnels, seq, listener, reserved,
                   halfOpen, job, todo, ret, due>>

\* Sessions.Unregister(peerID)
UnregisterOld(h) ==
    /\ pc[h] = "replace"
    /\ registry' = [registry EXCEPT ![client[h]] = NoConn]
    /\ Goto(h, "reregister")
    /\ UNCHANGED <<client, open, old, tunnels, seq, listener, reserved,
                   halfOpen, job, todo, ret, due>>

\* The second Sessions.Register; a loser of the race is turned away.
Reregister(h) ==
    LET c == client[h] IN
    /\ pc[h] = "reregister"
    /\ IF registry[c] = NoConn
       THEN /\ registry' = [registry EXCEPT ![c] = h]
            /\ Goto(h, "greet")
       ELSE /\ Goto(h, "release")
            /\ UNCHANGED registry
    /\ UNCHANGED <<client, open, old, tunnels, seq, listener, reserved,
                   halfOpen, job, todo, ret, due>>

\* server_hello; a failed write returns into the deferred cleanup.
ServerHello(h) ==
    /\ pc[h] = "greet"
    /\ Goto(h, IF open[h] THEN "serving" ELSE "cleanup")
    /\ UNCHANGED <<client, open, old, registry, tunnels, seq, listener,
                   reserved, halfOpen, job, todo, ret, due>>

-----------------------------------------------------------------------------
\* readLoop and the message handlers.

\* ReadFrame fails on a closed connection, or the message limiter trips.
ReadLoopEnds(h) ==
    /\ pc[h] = "serving"
    /\ Goto(h, "cleanup")
    /\ UNCHANGED <<client, open, old, registry, tunnels, seq, listener,
                   reserved, halfOpen, job, todo, ret, due>>

\* register_tunnel up to checkPortArbitration.  A port reserved by another
\* client is refused, which changes nothing.
RegisterTunnel(h, p) ==
    LET c == client[h] IN
    /\ pc[h] = "serving" /\ open[h]
    /\ seq[c] < MaxSeq
    /\ reserved[p] \in {NoClient, c}
    /\ reserved' = [reserved EXCEPT ![p] = NoClient]
    /\ job' = [job EXCEPT ![h] = [port |-> p, id |-> 0]]
    /\ Goto(h, "check")
    /\ UNCHANGED <<client, open, old, registry, tunnels, seq, listener,
                   halfOpen, todo, ret, due>>

\* Manager.Register: TunnelCount against the limit ...
CheckRegister(h) ==
    /\ pc[h] = "check"
    /\ IF MaxTunnels = 0 \/ Cardinality(tunnels[client[h]]) < MaxTunnels
       THEN Goto(h, "lookup") /\ UNCHANGED job
       ELSE Goto(h, "serving") /\ job' = [job EXCEPT ![h] = NoJob]
    /\ UNCHANGED <<client, open, old, registry, tunnels, seq, listener,
                   reserved, halfOpen, todo, ret, due>>

\* ... and, under the lock anew, the look-up of the port
LookUpPort(h) ==
    /\ pc[h] = "lookup"
    /\ IF job[h].port \notin PortsOf(client[h])
       THEN Goto(h, "listen") /\ UNCHANGED job
       ELSE Goto(h, "serving") /\ job' = [job EXCEPT ![h] = NoJob]
    /\ UNCHANGED <<client, open, old, registry, tunnels, seq, listener,
                   reserved, halfOpen, todo, ret, due>>

\* Mutant: the bind succeeds on a port that is bound already.
ListenShared(h) ==
    LET c == client[h]  p == job[h].port IN
    /\ pc[h] = "listen"
    /\ seq' = [seq EXCEPT ![c] = @ + 1]
    /\ listener' = [listener EXCEPT ![p] = <<c, seq[c] + 1>>]
    /\ job' = [job EXCEPT ![h] = [port |-> p, id |-> seq[c] + 1]]
    /\ Goto(h, "insert")
    /\ UNCHANGED <<client, open, old, registry, tunnels, reserved, halfOpen,
                   todo, ret, due>>

\* Manager.Register: nextSeq and net.Listen, which fails on a bound port
Listen(h) ==
    LET c == client[h]  p == job[h].port IN
    /\ pc[h] = "listen"
    /\ seq' = [seq EXCEPT ![c] = @ + 1]
    /\ IF listener[p] = Free
       THEN /\ listener' = [listener EXCEPT ![p] = <<c, seq[c] + 1>>]
            /\ job' = [job EXCEPT ![h] = [port |-> p, id |-> seq[c] + 1]]
            /\ Goto(h, "insert")
       ELSE /\ Goto(h, "serving")
            /\ job' = [job EXCEPT ![h] = NoJob]
            /\ UNCHANGED listener
    /\ UNCHANGED <<client, open, old, registry, tunnels, reserved, halfOpen,
                   todo, ret, due>>

\* Manager.Register: the tunnel enters the maps.  Its onOpen callback writes
\* to the connection it was registered on, recorded in "by".
Insert(h) ==
    LET c == client[h] IN
    /\ pc[h] = "insert"
    /\ tunnels' = [tunnels EXCEPT ![c] = @ \cup
                      {[id |-> job[h].id, port |-> job[h].port, by |-> h]}]
    /\ job' = [job EXCEPT ![h] = NoJob]
    /\ Goto(h, "serving")
    /\ UNCHANGED <<client, open, old, registry, seq, listener, reserved,
                   halfOpen, todo, ret, due>>

\* unregister_tunnel
UnregisterTunnel(h, id) ==
    /\ pc[h] = "serving" /\ open[h]
    /\ todo' = [todo EXCEPT ![h] = {id}]
    /\ ret' = [ret EXCEPT ![h] = "serving"]
    /\ Goto(h, "remove")
    /\ UNCHANGED <<client, open, old, registry, tunnels, seq, listener,
                   reserved, halfOpen, job, due>>

\* shutdown: handleShutdownFromClient calls UnregisterAll, then drains
Shutdown(h) ==
    /\ pc[h] = "serving" /\ open[h]
    /\ todo' = [todo EXCEPT ![h] = Ids(client[h])]
    /\ ret' = [ret EXCEPT ![h] = "drain"]
    /\ Goto(h, "remove")
    /\ UNCHANGED <<client, open, old, registry, tunnels, seq, listener,
                   reserved, halfOpen, job, due>>

\* drainDataConns returns once nothing is in flight or its timeout is over.
DrainEnds(h) ==
    /\ pc[h] = "drain"
    /\ Goto(h, "cleanup")
    /\ UNCHANGED <<client, open, old, registry, tunnels, seq, listener,
                   reserved, halfOpen, job, todo, ret, due>>

\* Mutant: an id that is gone already is not taken off the list.
RemoveRetriesGone(h, id) ==
    LET c == client[h] IN
    /\ pc[h] = "remove"
    /\ id \in todo[h]
    /\ \E t \in tunnels[c] :
          /\ t.id = id
          /\ tunnels' = [tunnels EXCEPT ![c] = @ \ {t}]
          /\ job' = [job EXCEPT ![h] = [port |-> t.port, id |-> id]]
          /\ todo' = [todo EXCEPT ![h] = @ \ {id}]
          /\ Goto(h, "closeLn")
    /\ UNCHANGED <<client, open, old, registry, seq, listener, reserved,
                   halfOpen, ret, due>>

\* Manager.Unregister of one id: the maps under the lock ...
Remove(h, id) ==
    LET c == client[h] IN
    /\ pc[h] = "remove"
    /\ id \in todo[h]
    /\ todo' = [todo EXCEPT ![h] = @ \ {id}]
    /\ \/ /\ id \notin Ids(c)
          /\ UNCHANGED <<pc, tunnels, job>>
       \/ \E t \in tunnels[c] :
             /\ t.id = id
             /\ tunnels' = [tunnels EXCEPT ![c] = @ \ {t}]
             /\ job' = [job EXCEPT ![h] = [port |-> t.port, id |-> id]]
             /\ Goto(h, "closeLn")
    /\ UNCHANGED <<client, open, old, registry, seq, listener, reserved,
                   halfOpen, ret, due>>

\* Mutant: the listener is left open.
CloseListenerForgotten(h) ==
    /\ pc[h] = "closeLn"
    /\ job' = [job EXCEPT ![h] = NoJob]
    /\ Goto(h, "remove")
    /\ UNCHANGED <<client, open, old, registry, tunnels, seq, listener,
                   reserved, halfOpen, todo, ret, due>>

\* ... and the listener after it
CloseListener(h) ==
    /\ pc[h] = "closeLn"
    /\ listener' = [listener EXCEPT ![job[h].port] = Free]
    /\ job' = [job EXCEPT ![h] = NoJob]
    /\ Goto(h, "remove")
    /\ UNCHANGED <<client, open, old, registry, tunnels, seq, reserved,
                   halfOpen, todo, ret, due>>

RemoveEnds(h) ==
    /\ pc[h] = "remove"
    /\ todo[h] = {}
    /\ Goto(h, ret[h])
    /\ ret' = [ret EXCEPT ![h] = "serving"]
    /\ UNCHANGED <<client, open, old, registry, tunnels, seq, listener,
                   reserved, halfOpen, job, todo, due>>

-----------------------------------------------------------------------------
\* Deferred calls of handleControlConn and handleConn, last one first.

\* m.Ports: the ports are collected under the manager's lock ...
CollectPorts(h) ==
    /\ pc[h] = "cleanup"
    /\ due' = [due EXCEPT ![h] = PortsOf(client[h])]
    /\ Goto(h, "reserve")
    /\ UNCHANGED <<client, open, old, registry, tunnels, seq, listener,
                   reserved, halfOpen, job, todo, ret>>

\* ... and reserved one after the other, in any order, under the server's
Reserve(h, p) ==
    /\ pc[h] = "reserve"
    /\ p \in due[h]
    /\ reserved' = [reserved EXCEPT ![p] = client[h]]
    /\ due' = [due EXCEPT ![h] = @ \ {p}]
    /\ UNCHANGED <<pc, client, open, old, registry, tunnels, seq, listener,
                   halfOpen, job, todo, ret>>

ReserveEnds(h) ==
    /\ pc[h] = "reserve"
    /\ due[h] = {}
    /\ Goto(h, "unregAll")
    /\ UNCHANGED <<client, open, old, registry, tunnels, seq, listener,
                   reserved, halfOpen, job, todo, ret, due>>

\* Mutant: a handler that is no longer registered leaves the tunnels alone.
UnregisterAllIfRegistered(h) ==
    LET c == client[h] IN
    /\ pc[h] = "unregAll"
    /\ todo' = [todo EXCEPT ![h] = IF registry[c] = h THEN Ids(c) ELSE {}]
    /\ ret' = [ret EXCEPT ![h] = "leave"]
    /\ Goto(h, "remove")
    /\ UNCHANGED <<client, open, old, registry, tunnels, seq, listener,
                   reserved, halfOpen, job, due>>

\* m.UnregisterAll: the ids are collected under the lock
UnregisterAll(h) ==
    /\ pc[h] = "unregAll"
    /\ todo' = [todo EXCEPT ![h] = Ids(client[h])]
    /\ ret' = [ret EXCEPT ![h] = "leave"]
    /\ Goto(h, "remove")
    /\ UNCHANGED <<client, open, old, registry, tunnels, seq, listener,
                   reserved, halfOpen, job, due>>

\* Mutant: the deferred Sessions.Unregister is missing.
UnregisterSessionForgotten(h) ==
    /\ pc[h] = "leave"
    /\ Goto(h, "release")
    /\ UNCHANGED <<client, open, old, registry, tunnels, seq, listener,
                   reserved, halfOpen, job, todo, ret, due>>

\* Sessions.Unregister(peerID): whatever session is registered for the id
UnregisterSession(h) ==
    /\ pc[h] = "leave"
    /\ registry' = [registry EXCEPT ![client[h]] = NoConn]
    /\ Goto(h, "release")
    /\ UNCHANGED <<client, open, old, tunnels, seq, listener, reserved,
                   halfOpen, job, todo, ret, due>>

\* conn.Close and halfOpen.release; the goroutine ends
Release(h) ==
    /\ pc[h] = "release"
    /\ open' = [open EXCEPT ![h] = FALSE]
    /\ halfOpen' = halfOpen - 1
    /\ client' = [client EXCEPT ![h] = NoClient]
    /\ Goto(h, "idle")
    /\ UNCHANGED <<old, registry, tunnels, seq, listener, reserved, job, todo,
                   ret, due>>

-----------------------------------------------------------------------------
\* The environment.

\* The peer goes away, superviseHeartbeat closes a silent connection, or
\* BroadcastShutdown force-closes it.
ConnLost(h) ==
    /\ open[h]
    /\ open' = [open EXCEPT ![h] = FALSE]
    /\ UNCHANGED <<pc, client, old, registry, tunnels, seq, listener,
                   reserved, halfOpen, job, todo, ret, due>>

\* The 60s of a reservation are over.
ReservationExpires(p) ==
    /\ reserved[p] # NoClient
    /\ reserved' = [reserved EXCEPT ![p] = NoClient]
    /\ UNCHANGED <<pc, client, open, old, registry, tunnels, seq, listener,
                   halfOpen, job, todo, ret, due>>

-----------------------------------------------------------------------------
\* What a handler does of its own accord, once started; the messages a client
\* sends are the environment's.
HandlerStep(h) ==
    \/ RegisterSession(h) \/ GetOld(h) \/ EvictOld(h) \/ UnregisterOld(h)
    \/ Reregister(h) \/ ServerHello(h)
    \/ CheckRegister(h) \/ LookUpPort(h) \/ Listen(h) \/ Insert(h)
    \/ DrainEnds(h) \/ (\E id \in todo[h] : Remove(h, id))
    \/ CloseListener(h) \/ RemoveEnds(h)
    \/ CollectPorts(h) \/ (\E p \in due[h] : Reserve(h, p)) \/ ReserveEnds(h)
    \/ UnregisterAll(h) \/ UnregisterSession(h) \/ Release(h)
    \/ (ReadLoopEnds(h) /\ ~open[h])

MessageStep(h) ==
    \/ RejectHello(h)
    \/ (ReadLoopEnds(h) /\ open[h])
    \/ \E p \in Ports : RegisterTunnel(h, p)
    \/ \E id \in 1..seq[client[h]] : UnregisterTunnel(h, id)
    \/ Shutdown(h)

Next ==
    \/ \E h \in Conns : HandlerStep(h)
    \/ \E h \in Conns : pc[h] # "idle" /\ MessageStep(h)
    \/ \E h \in Conns, c \in Clients : Accept(h, c)
    \/ \E h \in Conns : ConnLost(h)
    \/ \E p \in Ports : ReservationExpires(p)

Spec == Init /\ [][Next]_vars

\* The Go scheduler runs every runnable goroutine; the drain is bounded by a
\* timer.  Nothing is assumed of clients, of the network or of the clock.
FairSpec == Spec /\ \A h \in Conns : WF_vars(HandlerStep(h))
-----------------------------------------------------------------------------
\* Properties.

\* Types: where each handler is, the registries of Server (sessions, managers,
\* reservations) and the half-open counter, which never leaves its bounds.
TypeOK ==
    /\ pc \in [Conns -> PC]
    /\ client \in [Conns -> Clients \cup {NoClient}]
    /\ open \in [Conns -> BOOLEAN]
    /\ old \in [Conns -> Conns \cup {NoConn}]
    /\ registry \in [Clients -> Conns \cup {NoConn}]
    /\ tunnels \in [Clients -> SUBSET Tunnel]
    /\ seq \in [Clients -> Nat]
    /\ listener \in [Ports -> Holder]
    /\ reserved \in [Ports -> Clients \cup {NoClient}]
    /\ halfOpen \in Nat
    /\ job \in [Conns -> Job]
    /\ todo \in [Conns -> SUBSET Nat]
    /\ ret \in [Conns -> Returns]
    /\ due \in [Conns -> SUBSET Ports]

\* A session in the registry belongs to a handler of that client that has not
\* yet run its deferred Sessions.Unregister: BroadcastShutdown, the vhost path
\* and the UDP channel rebuild never write to the connection of a handler that
\* is gone, whatever kicks and disconnects overlap.
RegisteredIsLive ==
    \A c \in Clients : registry[c] # NoConn =>
        /\ client[registry[c]] = c
        /\ pc[registry[c]] \in Holding

\* The handler that registered a tunnel is still there to unregister it.
Attended(c, t) ==
    /\ client[t.by] = c
    /\ pc[t.by] \in Holding \ {"leave"}
    /\ pc[t.by] \in Removing /\ ret[t.by] = "leave" => t.id \in todo[t.by]

\* Disconnect cleanup never leaves a tunnel behind: each one in a manager has
\* a live handler whose UnregisterAll is still to come or includes it.
NoOrphanTunnel ==
    \A c \in Clients : \A t \in tunnels[c] : Attended(c, t)

\* Once every handler of a client is gone nothing of the client is left: no
\* session, no tunnel, no bound port (docs/protocol-state.md, the closed state).
Reclaimed ==
    \A c \in Clients : (\A h \in Conns : client[h] # c) =>
        /\ registry[c] = NoConn
        /\ tunnels[c] = {}
        /\ \A p \in Ports : listener[p] # Free => listener[p][1] # c

\* A tunnel in a manager holds the listener of its port, so no two tunnels,
\* of one client or of two, ever have the same port, although the port is
\* looked up, bound and entered in three separate steps.
TunnelHoldsPort ==
    \A c \in Clients : \A t \in tunnels[c] : listener[t.port] = <<c, t.id>>

\* The per-IP counter is the number of running control handlers: every path
\* out of handleConn gives its slot back exactly once.
HalfOpenExact == halfOpen = Cardinality({h \in Conns : pc[h] # "idle"})

\* The strengthening that makes the invariants above inductive: who holds a
\* listener, and that ids and ports in flight are not shared.
Working == {"insert", "closeLn"}

SlotOK ==
    \A h \in Conns : (client[h] = NoClient) <=> (pc[h] = "idle")

JobOK ==
    \A h \in Conns :
        /\ pc[h] \in {"check", "lookup", "listen"} \cup Working => job[h].port \in Ports
        /\ pc[h] \in Working =>
              /\ listener[job[h].port] = <<client[h], job[h].id>>
              /\ \A t \in tunnels[client[h]] : t.id # job[h].id

JobsApart ==
    \A g, h \in Conns :
        pc[g] \in Working /\ pc[h] \in Working /\ g # h
            => job[g].port # job[h].port

ListenerOwned ==
    \A p \in Ports : listener[p] # Free =>
        \/ \E t \in tunnels[listener[p][1]] : t.port = p
        \/ \E h \in Conns : pc[h] \in Working /\ job[h].port = p

ListenerFresh ==
    /\ \A p \in Ports : listener[p] # Free => listener[p][2] <= seq[listener[p][1]]
    /\ \A p, q \in Ports : listener[p] # Free /\ listener[p] = listener[q] => p = q

IdsUnique ==
    \A c \in Clients : \A t, u \in tunnels[c] : t.id = u.id => t = u

\* The inductive invariant of the control plane.
IInv ==
    /\ TypeOK /\ SlotOK /\ RegisteredIsLive /\ NoOrphanTunnel
    /\ TunnelHoldsPort /\ JobOK /\ JobsApart /\ ListenerOwned
    /\ ListenerFresh /\ IdsUnique

\* A handler whose connection is closed runs its cleanup to the end, even
\* when other handlers of the client unregister the same tunnels.
HandlersFinish ==
    \A h \in Conns : (pc[h] # "idle" /\ ~open[h]) ~> (pc[h] = "idle")

\* internal/control/server.go:354: "single control connection per client: a
\* duplicate client_id kicks the old session".
OneControlConn ==
    \A g, h \in Conns :
        /\ pc[g] = "serving" /\ open[g] /\ pc[h] = "serving" /\ open[h]
        /\ client[g] = client[h]
        => g = h

\* internal/control/shutdown.go:77: "BroadcastShutdown asks every connected
\* client to shut down": it asks the sessions in the registry.
OnlineIsRegistered ==
    \A h \in Conns : pc[h] = "serving" /\ open[h] => registry[client[h]] = h

\* internal/control/server.go:355: "new session wins": a tunnel registered on
\* a connection that is open and serving is not taken away by another handler.
NewSessionKeepsTunnels ==
    [][\A c \in Clients : \A t \in tunnels[c] :
          pc[t.by] = "serving" /\ open[t.by] => t \in tunnels'[c]]_vars

\* docs/conn-manager-state.md: a reserved port cannot be taken by others.
ReservedForOwner ==
    [][\A p \in Ports :
          listener[p] = Free /\ listener'[p] # Free
             => reserved[p] \in {NoClient, listener'[p][1]}]_vars

\* docs/operations/policy.md: the half-open cap counts connections that have
\* not finished their hello.
HalfOpenCountsHello ==
    halfOpen = Cardinality({h \in Conns : pc[h] \in Handshake \cup {"release"}})
=============================================================================
