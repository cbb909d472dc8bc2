------------------------------- MODULE Vhost -------------------------------
(***************************************************************************)
(* HTTP tunnels that share one public port: the host table, the            *)
(* reference-counted listener, the handlers that register, unregister,     *)
(* shut down and disconnect, and the requests that are routed meanwhile    *)
(* (internal/control/vhost.go, internal/control/server.go,                 *)
(* internal/tunnel/vhost.go, internal/tunnel/server.go).                   *)
(*                                                                         *)
(* A host name is the sequence of its labels, the top-level one first, so  *)
(* that a rule covers its sub-domains by being a prefix of them.           *)
(***************************************************************************)
EXTENDS Naturals, Sequences, FiniteSets

CONSTANTS
    Clients,
    Hosts,          \* normalized host names, sequences of labels
    Requests,       \* requests on the shared port
    MaxTunnels,     \* policy.MaxTunnels
    MaxSeq,         \* bound: tunnel ids a manager hands out
    NoEntry

ASSUME VhostAssumption ==
    /\ \A h \in Hosts : h \in Seq(Nat) /\ Len(h) > 0
    /\ MaxTunnels \in Nat /\ MaxSeq \in Nat
    /\ NoEntry \notin [id : Nat, client : Clients]

VARIABLES
    table,      \* VhostTable.hosts: host -> id and client of its tunnel
    refs,       \* Server.vhostRefs
    ln,         \* Server.vhostLn is open
    tunnels,    \* vhost tunnels in the manager of a client
    seq,        \* Manager.seq
    pc,         \* the control handler of a client
    job,        \* the tunnel a handler works on
    req         \* what handleVhostConn knows of a request

vars == <<table, refs, ln, tunnels, seq, pc, job, req>>

Entry == [id : Nat, client : Clients]
VTunnel == [id : Nat, host : Hosts]
Idle == {"off", "serving"}
PC == {"table", "start", "undo", "stop", "drop", "dropAll",
       "cleanTable", "cleanStop", "cleanAll"} \cup Idle
NoHost == <<>>
NoJob == [id |-> 0, host |-> NoHost]
NoReq == [st |-> "free", host |-> NoHost, entry |-> NoEntry, got |-> NoJob]

Init ==
    /\ table = [h \in Hosts |-> NoEntry]
    /\ refs = 0
    /\ ln = FALSE
    /\ tunnels = [c \in Clients |-> {}]
    /\ seq = [c \in Clients |-> 0]
    /\ pc = [c \in Clients |-> "off"]
    /\ job = [c \in Clients |-> NoJob]
    /\ req = [r \in Requests |-> NoReq]

Goto(c, l) == pc' = [pc EXCEPT ![c] = l]

\* VhostTable.UnregisterTunnel: every host bound to the id.  Each manager
\* counts its ids from 1, so another client may have a tunnel of that id.
Unbind(ids) ==
    [h \in Hosts |-> IF table[h] # NoEntry /\ table[h].id \in ids
                     THEN NoEntry ELSE table[h]]

-----------------------------------------------------------------------------
\* Host look-up.

Rules == {h \in Hosts : table[h] # NoEntry}

Covers(rule, host) ==
    Len(rule) < Len(host) /\ SubSeq(host, 1, Len(rule)) = rule

\* The orders in which a Go map may be iterated.
Orders == {o \in [1..Cardinality(Rules) -> Rules] : {o[i] : i \in DOMAIN o} = Rules}

\* Mutant: the last rule that covers the host wins.
LookupLastWins(o, host) ==
    LET best[i \in 0..Len(o)] ==
            IF i = 0 THEN NoHost
            ELSE IF Covers(o[i], host) THEN o[i] ELSE best[i - 1]
    IN IF host \in Rules THEN host ELSE best[Len(o)]

\* VhostTable.Lookup: the rule it finds, NoHost for none
Lookup(o, host) ==
    LET best[i \in 0..Len(o)] ==
            IF i = 0 THEN NoHost
            ELSE IF Len(o[i]) > Len(best[i - 1]) /\ Covers(o[i], host)
                 THEN o[i] ELSE best[i - 1]
    IN IF host \in Rules THEN host ELSE best[Len(o)]

-----------------------------------------------------------------------------
\* The control handler.

Connect(c) ==
    /\ pc[c] = "off"
    /\ Goto(c, "serving")
    /\ UNCHANGED <<table, refs, ln, tunnels, seq, job, req>>

\* Mutant: the ids of a manager start again when it has no tunnels.
AddVhostTunnelReusesIds(c, h) ==
    LET id == IF tunnels[c] = {} THEN 1 ELSE seq[c] + 1 IN
    /\ pc[c] = "serving"
    /\ Cardinality(tunnels[c]) < MaxTunnels
    /\ id <= MaxSeq
    /\ seq' = [seq EXCEPT ![c] = id]
    /\ tunnels' = [tunnels EXCEPT ![c] = @ \cup {[id |-> id, host |-> h]}]
    /\ job' = [job EXCEPT ![c] = [id |-> id, host |-> h]]
    /\ Goto(c, "table")
    /\ UNCHANGED <<table, refs, ln, req>>

\* handleRegisterVhost: AddVhostTunnel; at the limit nothing happens
AddVhostTunnel(c, h) ==
    LET t == [id |-> seq[c] + 1, host |-> h] IN
    /\ pc[c] = "serving"
    /\ Cardinality(tunnels[c]) < MaxTunnels
    /\ seq[c] < MaxSeq
    /\ seq' = [seq EXCEPT ![c] = @ + 1]
    /\ tunnels' = [tunnels EXCEPT ![c] = @ \cup {t}]
    /\ job' = [job EXCEPT ![c] = t]
    /\ Goto(c, "table")
    /\ UNCHANGED <<table, refs, ln, req>>

\* vhost.Register; a host that is taken loses, and the tunnel is dropped next
BindHost(c) ==
    /\ pc[c] = "table"
    /\ IF table[job[c].host] = NoEntry
       THEN /\ table' = [table EXCEPT ![job[c].host] =
                            [id |-> job[c].id, client |-> c]]
            /\ Goto(c, "start")
       ELSE /\ Goto(c, "drop")
            /\ UNCHANGED table
    /\ UNCHANGED <<refs, ln, tunnels, seq, job, req>>

\* Mutant: a failed listen keeps the reference it took.
StartVhostKeepsRef(c) ==
    /\ pc[c] = "start"
    /\ refs' = refs + 1
    /\ \/ /\ ln' = TRUE
          /\ job' = [job EXCEPT ![c] = NoJob]
          /\ Goto(c, "serving")
       \/ /\ ~ln
          /\ Goto(c, "undo")
          /\ UNCHANGED <<ln, job>>
    /\ UNCHANGED <<table, tunnels, seq, req>>

\* startVhost; no configured port, or a listen error, gives the reference back
StartVhost(c) ==
    /\ pc[c] = "start"
    /\ \/ /\ refs' = refs + 1
          /\ ln' = TRUE
          /\ job' = [job EXCEPT ![c] = NoJob]
          /\ Goto(c, "serving")
       \/ /\ ~ln
          /\ Goto(c, "undo")
          /\ UNCHANGED <<refs, ln, job>>
    /\ UNCHANGED <<table, tunnels, seq, req>>

\* ... and handleRegisterVhost takes the host out of the table again.
UndoBind(c) ==
    /\ pc[c] = "undo"
    /\ table' = Unbind({job[c].id})
    /\ Goto(c, "drop")
    /\ UNCHANGED <<refs, ln, tunnels, seq, job, req>>

\* handleUnregisterTunnel of a vhost tunnel: the table first ...
UnregisterTunnel(c, t) ==
    /\ pc[c] = "serving"
    /\ t \in tunnels[c]
    /\ table' = Unbind({t.id})
    /\ job' = [job EXCEPT ![c] = t]
    /\ Goto(c, "stop")
    /\ UNCHANGED <<refs, ln, tunnels, seq, req>>

\* stopVhost: the last reference closes the listener
StopListener ==
    /\ refs' = IF refs > 0 THEN refs - 1 ELSE 0
    /\ ln' = (ln /\ refs > 1)

\* ... then stopVhost ...
StopVhost(c) ==
    /\ pc[c] = "stop"
    /\ StopListener
    /\ Goto(c, "drop")
    /\ UNCHANGED <<table, tunnels, seq, job, req>>

\* ... and m.Unregister last.
DropTunnel(c) ==
    /\ pc[c] = "drop"
    /\ tunnels' = [tunnels EXCEPT ![c] = @ \ {job[c]}]
    /\ job' = [job EXCEPT ![c] = NoJob]
    /\ Goto(c, "serving")
    /\ UNCHANGED <<table, refs, ln, seq, req>>

\* handleShutdownFromClient starts with m.UnregisterAll.
Shutdown(c) ==
    /\ pc[c] = "serving"
    /\ Goto(c, "dropAll")
    /\ UNCHANGED <<table, refs, ln, tunnels, seq, job, req>>

Disconnect(c) ==
    /\ pc[c] = "serving"
    /\ Goto(c, "cleanTable")
    /\ UNCHANGED <<table, refs, ln, tunnels, seq, job, req>>

\* One Unregister of m.UnregisterAll
DropOne(c, t) ==
    /\ pc[c] \in {"dropAll", "cleanAll"}
    /\ t \in tunnels[c]
    /\ tunnels' = [tunnels EXCEPT ![c] = @ \ {t}]
    /\ UNCHANGED <<table, refs, ln, seq, pc, job, req>>

DropEnds(c) ==
    /\ pc[c] \in {"dropAll", "cleanAll"}
    /\ tunnels[c] = {}
    /\ Goto(c, IF pc[c] = "dropAll" THEN "cleanTable" ELSE "off")
    /\ UNCHANGED <<table, refs, ln, tunnels, seq, job, req>>

\* The deferred cleanup: the hosts of the tunnels that are still in the
\* manager ...
CleanTable(c) ==
    /\ pc[c] = "cleanTable"
    /\ table' = Unbind({t.id : t \in tunnels[c]})
    /\ Goto(c, "cleanStop")
    /\ UNCHANGED <<refs, ln, tunnels, seq, job, req>>

\* ... stopVhost, once, whatever the client had registered ...
CleanStop(c) ==
    /\ pc[c] = "cleanStop"
    /\ StopListener
    /\ Goto(c, "cleanAll")
    /\ UNCHANGED <<table, tunnels, seq, job, req>>

-----------------------------------------------------------------------------
\* handleVhostConn.

\* A request whose host was sniffed is looked up in the table; 421 for none.
Request(r, host) ==
    /\ req[r].st = "free"
    /\ ln
    /\ \E o \in Orders :
         LET rule == Lookup(o, host) IN
         /\ rule # NoHost
         /\ req' = [req EXCEPT ![r] = [st |-> "found", host |-> host,
                                       entry |-> table[rule], got |-> NoJob]]
    /\ UNCHANGED <<table, refs, ln, tunnels, seq, pc, job>>

\* TunnelByID in the manager of the client found; 503 when it is gone
Route(r) ==
    LET e == req[r].entry IN
    /\ req[r].st = "found"
    /\ \/ \E t \in tunnels[e.client] :
            /\ t.id = e.id
            /\ req' = [req EXCEPT ![r] = [@ EXCEPT !.st = "routed", !.got = t]]
       \/ /\ \A t \in tunnels[e.client] : t.id # e.id
          /\ req' = [req EXCEPT ![r] = NoReq]
    /\ UNCHANGED <<table, refs, ln, tunnels, seq, pc, job>>

\* The connection goes on to the quota and to the pending table (DataPath).
HandOver(r) ==
    /\ req[r].st = "routed"
    /\ req' = [req EXCEPT ![r] = NoReq]
    /\ UNCHANGED <<table, refs, ln, tunnels, seq, pc, job>>

-----------------------------------------------------------------------------
HandlerStep(c) ==
    \/ BindHost(c) \/ StartVhost(c) \/ UndoBind(c) \/ StopVhost(c)
    \/ DropTunnel(c) \/ (\E t \in tunnels[c] : DropOne(c, t)) \/ DropEnds(c)
    \/ CleanTable(c) \/ CleanStop(c)

Next ==
    \/ \E c \in Clients : HandlerStep(c)
    \/ \E c \in Clients : Connect(c) \/ Shutdown(c) \/ Disconnect(c)
    \/ \E c \in Clients, h \in Hosts : AddVhostTunnel(c, h)
    \/ \E c \in Clients : \E t \in tunnels[c] : UnregisterTunnel(c, t)
    \/ \E r \in Requests, h \in Hosts : Request(r, h)
    \/ \E r \in Requests : Route(r) \/ HandOver(r)

Spec == Init /\ [][Next]_vars

-----------------------------------------------------------------------------
\* Properties.

\* Types: the vhost table, the listener and its reference count, which never
\* goes below zero.
TypeOK ==
    /\ table \in [Hosts -> Entry \cup {NoEntry}]
    /\ refs \in Nat
    /\ ln \in BOOLEAN
    /\ tunnels \in [Clients -> SUBSET VTunnel]
    /\ seq \in [Clients -> Nat]
    /\ pc \in [Clients -> PC]
    /\ job \in [Clients -> VTunnel \cup {NoJob}]
    /\ req \in [Requests -> [st : {"free", "found", "routed"}, host : Hosts \cup {NoHost},
                             entry : Entry \cup {NoEntry}, got : VTunnel \cup {NoJob}]]

\* A request is handed to a tunnel whose own host it asked for, or a sub-domain
\* of it, although the table, the manager and the ids change between the
\* look-up and the routing and entries outlive their tunnels.
NeverMisrouted ==
    \A r \in Requests : req[r].st = "routed" =>
        req[r].got.host = req[r].host \/ Covers(req[r].got.host, req[r].host)

\* Whatever the order of the map, the look-up finds the host itself or the
\* longest rule that covers it (docs/http-https.md:16).
LookupMostSpecific ==
    \A h \in Hosts, o \in Orders :
        LET best == Lookup(o, h)
            fits == {q \in Rules : q = h \/ Covers(q, h)} IN
        /\ best = NoHost <=> fits = {}
        /\ best # NoHost => best \in fits /\ \A q \in fits : Len(q) <= Len(best)

\* The shared port is bound exactly while the counter says it is in use, over
\* failed listens and surplus stops.
ListenerIsCounted == ln <=> refs > 0

\* The inductive invariant behind them.  Ids of a manager are used once.
IdsOK ==
    \A c \in Clients :
        /\ \A t \in tunnels[c] : t.id <= seq[c]
        /\ \A t, u \in tunnels[c] : t.id = u.id => t = u
        /\ pc[c] = "table" => job[c] \in tunnels[c]

\* The tunnel an entry names, if there is still one, is fit to serve a host.
NamesOnly(e, fit) ==
    /\ e.id <= seq[e.client]
    /\ \A t \in tunnels[e.client] : t.id = e.id => t.host \in fit

FitFor(host) == {h \in Hosts : h = host \/ Covers(h, host)}

\* An entry of the table names a tunnel of its own host, or none; one that a
\* request holds, a tunnel that fits what it asked for.
EntriesOK ==
    /\ IsFiniteSet(Rules)
    /\ \A h \in Rules : NamesOnly(table[h], {h})
    /\ \A r \in Requests : req[r].st = "found" =>
          req[r].entry \in Entry /\ NamesOnly(req[r].entry, FitFor(req[r].host))

VhostInv ==
    TypeOK /\ ListenerIsCounted /\ IdsOK /\ EntriesOK /\ NeverMisrouted

\* docs/http-https.md:14: the listener runs from the first vhost tunnel ...
ListenerWhileTunnels ==
    \A c \in Clients : pc[c] = "serving" /\ tunnels[c] # {} => ln

\* docs/http-https.md:14: ... until the last is unregistered or disconnected.
ListenerStops ==
    (\A c \in Clients : pc[c] = "off") => ~ln

\* internal/control/server.go:392: the cleanup of a client releases "every
\* vhost host this client held".
HostsReleased ==
    \A c \in Clients, h \in Hosts :
        pc[c] = "off" => table[h] = NoEntry \/ table[h].client # c

\* internal/tunnel/vhost.go:39: UnregisterTunnel removes the hosts of the
\* tunnel that is torn down: those of the others keep their entry.
HostsKept ==
    \A c \in Clients : pc[c] = "serving" =>
        \A t \in tunnels[c] : table[t.host] = [id |-> t.id, client |-> c]
=============================================================================
