# qoqtun in TLA+

qoqtun is a reverse tunnel: a client behind a NAT keeps one mTLS control
connection to a public server, asks it to open public ports or host names, and
carries each public connection over a data connection of its own. This
directory models the parts of it that have state and run concurrently, checks
them with TLC on small instances and proves the central invariants with TLAPS
for every instance. Paths below are relative to the repository root.

1. Inventory
2. Modules and how they correspond to the code
3. Runs, bounds and fairness
4. Proofs
5. What is not modelled
6. Where the code and its documents disagree
7. Plan

## 1. Inventory

| Part | State it keeps | Operations | Talks to |
|---|---|---|---|
| Control server (`internal/control/server.go`, `shutdown.go`) | a handler goroutine per connection, `managers`, `reservations`, half-open counters, drain tracker | accept, hello, kick of a duplicate, register / unregister tunnel, shutdown, heartbeat supervision, deferred cleanup | session registry, tunnel managers, quota, vhost table, metrics |
| Session registry (`internal/session`) | client id -> session | Register, Get, Unregister, Touch | control server |
| Tunnel manager (`internal/tunnel/server.go`) | tunnels, ports, pending connections, sequence number; one per client, shared by its successive sessions | Register, Unregister(All), accept loop, OpenConnection, ClaimData, CleanupExpired | control server through `onOpen`, data connections |
| Quotas and gates (`internal/control/security.go`, `internal/security`) | semaphores per client and tunnel, per-IP gate, token buckets | acquire / release, drop on disconnect | accept loops, data connections |
| Vhost routing (`internal/control/vhost.go`, `internal/tunnel/vhost.go`) | one host table for all clients, a listener with a reference count | register / release hosts, start / stop, look-up | control server, managers |
| UDP tunnels (`internal/tunnel/udp_*.go`) | one channel per tunnel; table of sessions with LRU order; local sockets of the client | install / lose / rebuild channel, route datagram, evict, sweep, answer | manager, control server |
| Client core (`internal/clientcore`, `internal/tunnel/client.go`) | manager state, the one `Client.conn`, pending calls, tunnels of the session, heartbeat count, data connections | dial loop with backoff, hello, register, heartbeat, read loop, local commands | server, local control endpoint |
| Enrollment server (`internal/enroll`, `internal/auth`, `internal/pki`, `cmd/server/enroll.go`) | `tokens.json`, `clients.json`, `revoked.json` and the copies processes hold of them | enroll, renew, create / revoke token, revoke certificate | other processes, only through the files |
| Enrollment rate limit (`internal/enroll/ratelimit.go`) | bucket, failures and ban per address | Allow, Report | enrollment server |
| Desktop facade (`internal/coreapi`, `cmd/desktop`) | the client it runs, the live configuration, `client.toml`, key, certificates, `state.json` | Start, Stop, UpdateConfig, Upsert / DeleteTunnel, Enroll | client core |
| Identity of a device (`cmd/client/enroll.go`, `cmd/client/main.go`, `internal/enroll/client.go`, keystore) | the key in one of two backends, CSR, certificate, CA, `state.json` | cert init, enroll, renew, the loading at a start | enrollment server, client core |
| Configuration (`internal/config`, `internal/protocol/validate.go`, `internal/tunnel/acl.go`) | `server.toml`, `client.toml`, environment, effective configurations | load, merge, fill, validate; hello and registration checks; read and save of the desktop | control server, client core, desktop facade |
| Stateless or I/O parts | codec, HTTP head sniffing, splice, PKI, logging, metrics | | |

What is hard in it: handlers of one client overlap when it reconnects, and the
new one kicks the old one while the deferred functions of the old one still run
on state they share; a port is looked up, bound and entered in three steps; a
public connection is in the hands of an accept loop, a table and a claiming
connection in turn, with a deadline and an unregistration in the way; quota is
taken in one goroutine and returned in another, possibly after the table it came
from was dropped; the read loop of the client, its heartbeat and its callers
share one connection variable; the enrollment process and the command line share
files without a lock between processes; the desktop facade starts a client while
the last one is still stopping; an identity is five files that several commands
write in place and any of them can be cut off; one setting passes through three
layers, two sets of ranges and three parsers before it takes effect. `PROJECT.json` lists these as hazards, each at
its line.

What makes each part correct: *control server*: the registry names live
handlers, no tunnel outlives the handlers of its client, a tunnel holds its
port, slots are balanced, cleanup ends. *Data path*: one claim per public
connection, by the owner, nothing open and forgotten, counters balanced.
*Vhost*: a request reaches a tunnel of its host, the most specific one; listener
and counter agree. *UDP*: one channel per tunnel and none that replaces another;
table, index and order agree; an answer reaches who asked. *Client*: what it
believes registered was granted, what is served for it is known to it or on the
way, nobody waits for a reply that cannot find them, it stops when told and
notices silence. *Enrollment*: a token buys one certificate. *Desktop*: no dead
client is held, parts of two enrollments are not taken for one, a stop takes
effect. *Identity*: a success
leaves parts that fit, a refusal leaves what was there. *Configuration*:
no tunnel gets a port of the server, what is granted is what is written, what one
program saves the other reads.

## 2. Modules and how they correspond to the code

Every module has the program's state as variables and one action per critical
section, system call or message of the code, so that goroutines interleave where
the Go code lets them. `map` in `PROJECT.json` gives the lines of each
definition. Definitions under a comment "Mutant:" are deliberately wrong
variants of the one below them; no specification uses them.

- **ControlSession.** `Conns` are slots for connection handlers. `pc[h]` walks
  `handleConn` / `handleControlConn`: `hello` (before the first
  `Sessions.Register`), `get`, `evict`, `replace`, `reregister` (the kick, which
  is four separate calls in the code), `greet`, `serving`, then the sub-steps of
  a message (`check`, `listen`, `insert` for register; `remove`, `closeLn` for
  each id of unregister, shutdown and `UnregisterAll`; `drain`), then the
  deferred functions in their reverse order: `cleanup` (port reservations),
  `unregAll`, `leave` (`Sessions.Unregister` by client id), `release`.
  `registry`, `tunnels`, `seq`, `listener`, `reserved`, `halfOpen` are the shared
  tables. All peers share one source address. A slot is reused only when no
  handler points to it: in the program a session is an object of its own.
- **Pairing** is the abstract promise of the data path: a public connection is
  new, waiting, paired or closed; it is paired at most once, with a data
  connection that authenticated as the owner of its tunnel and serves no other;
  a closed one stays closed.
- **DataPath** implements it. `at[x]` is where `onOpen` (or `handleVhostConn`)
  is with the public connection `x`: gate, quota, open, tell. `pending` and
  `late` are the table of a manager and what its clock has passed; `data[d]`
  walks `handleDataConn`: claim, track, splice, release, untrack. `sem`, `slot`,
  `active` and `gate` are the counters, `control[c]` the control session of a
  client as far as it matters here, with the semaphore that `cleanupSecurity`
  drops; UDP channels of the client take their slots from the same semaphore. A
  data connection may name any announced conn id, with any client's certificate,
  any number of times. A gate without a limit (`MaxPerIP = 0`) lets all pass and
  counts none. The per-tunnel limit is the one
  `policyFromConfig` produces, 0.
- **Vhost.** The host table, the reference-counted listener, the handlers that
  bind and release, and requests between look-up and routing. A host is the
  sequence of its labels, top level first. Handlers of one client do not overlap
  here; the table and the listener are shared by all.
- **UdpChannel.** A conn id stands for its pending entry and for the connection
  that claims it; the module follows it from announcement over claim, quota,
  `SetUDPChannel` and read loop to the callback that asks for the next one.
  Packets are not in it: `HandleUDPPacket` copies the channel and writes after the
  unlock, so that one may go to a channel whose loop has ended, as UDP allows.
- **UdpSessions.** One tunnel: `byPeer`, `byID`, `order` and `last` are the
  fields of `udpServerState`; datagrams and answers travel as frames on the
  channel, each carrying for the properties only the peer it belongs to; `socks`
  are the client's local sockets.
- **ClientConn.** `Manager.Run` and `runSession` (`pc`), the read loop, calls
  from the session itself and from the local control endpoint (`call`,
  `pending`), the heartbeat, the tunnel client of each session (`gen`, `local`),
  and the data connections opened for the server. A dial is a connect, which has
  a timeout, and a handshake, which has none. Of the server there is what this
  connection sees of it, from `internal/control/server.go`: frames wait in `up`
  for its read loop; a tunnel is granted, and its public port open
  (`tunnel/server.go:130`), before the reply is written, so that an
  `open_connection` may be in front of the reply, or behind that of an
  unregistration; what the server writes waits in `down`. Errors are the class
  `Classify` gives them.
- **Enroll.** The `enroll serve` process, its handlers, the `create-token`,
  `revoke-token` and `cert revoke` commands as processes of their own, the three
  files, and the control plane as a reader of the revocation list. The process
  can crash between any two steps and any save or reload can fail. Nothing keeps a
  command from running while a token is consumed: it may save the table it read
  before, and `undone` has the tokens whose consumption was lost that way.
- **Limiter.** Bucket, failures and ban of one address; the ban is computed with
  the 64-bit wrap-around of `time.Duration`.
- **Identity.** `cmd` is the command that runs, with what it has loaded and
  where it is; the files are absent, torn (truncated by `os.WriteFile` and not
  written yet) or whole. A key and the client id made with it are one number.
  `keyring` says whether the system keyring answers, so that the backend "auto"
  chooses may change between commands. `rd` is a client that starts and reads
  state, CA, certificate and key one after the other; it is followed while only
  renewals touch the files. The server is reduced to what it checks and
  registers; Enroll has the rest of it.
- **Config.** The layers as written (`file`, `env`, `cfile`, `cenv`), the
  effective configurations (`srv`, `cl`, `desk`) and the operators of the code
  between them, under their names: `fileOverlays`, `envOverlaysFor`,
  `ApplyOverlays`, the refusal of `setField`, the defaulting and the checks of `ValidateServer` and
  `ValidateClient`; then the hello with the client's own `ValidatePolicy`,
  `ValidateHeartbeat` and `ParseTargets`, and a registration with
  `ValidateRegisterTunnel`, `checkTargetAllowed` and `portAllowed`. An address is
  its port and a network the set of its addresses; a stray space in an entry is
  kept, since it is where the three parsers differ. The list of tunnels is absent,
  empty or not: the two readers of `client.toml` differ on `tunnels = []`, which
  is what the desktop writes when it has none. That `toml.Marshal` writes every
  field, an empty list as `[]`, is taken from the library.
- **DesktopApi.** The facade with the goroutines of the clients it has started
  (`run[k]`, with the TLS handshake as a place of its own), the live configuration
  and `client.toml`, and the files of an identity, each known by the enrollment it
  is of. An enrollment waits for its server with the lock held, then writes the
  parts one after the other: the key and `state.json` at once, certificate and CA
  by truncating and writing (`Cut` between the two). It may be refused, fail or be
  cut off at any point, and be repeated.

The MC modules give names to model values, symmetry sets and constants that are
functions or sequences. UdpChannel, UdpSessions and Vhost take from DataPath that
a conn id is claimed once; DataPath and UdpChannel take from ControlSession how
sessions of one client overlap. Identity takes from Enroll that a server signs
for an id it has not registered; Config and DesktopApi look at `client.toml` from
two sides, its fields and the order of the calls that rewrite it.

## 3. Runs, bounds and fairness

| Run | Checks | States |
|---|---|---|
| `control` | `TypeOK`, `RegisteredIsLive`, `NoOrphanTunnel`, `Reclaimed`, `TunnelHoldsPort`, `HalfOpenExact`, `IInv`, `HandlersFinish` | 424,000 |
| `data_path` | `OpenIsTracked`, `SemCovered`, `GateExact`, `ImplementsPairing` (refinement of Pairing) | 378,000 |
| `vhost` | `NeverMisrouted`, `LookupMostSpecific`, `ListenerIsCounted` | 2,010,000 |
| `udp_channel` | `OneChannel`, `NeverReplaces`, `DroppedComesBack` | 199,000 |
| `udp_sessions` | `TableConsistent`, `OrderIsLRU`, `ReplyToAsker` | 360,000 |
| `client_conn` | `NeverUndercounts`, `EntryIsGranted`, `ServedIsKnown`, `WaiterIsPending` | 10,075,000 |
| `client_liveness` | `StopsOnCancel`, `SilenceIsNoticed` | 38,000 |
| `enroll` | `OneCertPerToken` | 4,661,000 |
| `identity` | `SuccessIsPaired`, `RefusalIsHarmless`, `RunReadsOneIdentity` | 2,810,000 |
| `config` | `ListenersPrivate`, `RefusedOnlyForMismatch`, `GrantedAsWritten`, `SavedReadsTheSame` | 3,438,000 |
| `desktop` | `ClientIsLive`, `IdentityMatches`, `StopTakesEffect` | 83,000 |
| `banEscalates` | one statement of a comment, which TLC refutes (section 6) | |

What they show. `control`: whatever kicks, registrations, shutdowns and
disconnects overlap, the registry never names a handler that has left, a tunnel
always has a handler that will remove it, it holds its port alone, every path
gives its half-open slot back once, and when the last handler of a client is gone
nothing of the client is left; a handler whose connection is closed finishes even
when another removes the same tunnels. `data_path`: claims, deadlines,
unregistration, refusals and reconnects never lose an open connection, never pair
one twice or with another client's data connection, and never make a counter deny
more than what is held or leaked. `vhost`: entries can outlive their tunnels and
ids repeat over clients, yet a request never reaches a tunnel of another host,
because ids are never reused within a manager. `udp_channel`: a rebuild starts
only when the old channel is gone, so that none ever closes another and is closed
in turn, and the chain of rebuilds breaks at a conn id
that is not claimed or gets no slot, and nowhere else. `udp_sessions`: late answers are dropped, not
misdelivered. `client_conn`: an `open_connection` may come before the
reply that makes its tunnel known (section 6), but what the server serves is
known, on the way or given up and nothing else; a name is never bound to an id
granted for another, and the
heartbeat, which is counted after it is sent and reset by another goroutine,
never misses a silence (that it can end a session too early is in section 6).
`client_liveness`: a client that is told to stop does, wherever it is, unless it
hangs in a handshake. `enroll`:
a token that was consumed stays consumed over crashes, failed saves and reloads
and token commands at any time, with one exception, named in the property: a
command that writes over the consumption with what it had read before.
`desktop`: parts of two enrollments, or a truncated one, never have a key that is
of the enrollment `state.json` names; a client that was stopped ends unless its
handshake, or an enrollment that holds the lock, hangs. `identity`:
however many commands were cut off before, one that reports success leaves a
certificate of the stored key, its CA and a pin of its server; refused, late and
wrong answers change nothing; a client that starts during a renewal gets a set of
files that fits or an error. `config`: no combination of
layers lets a tunnel have the control or the enroll port; a server with a valid
file is refused by its clients for four kinds of value and no other; a tunnel of
a valid `client.toml` is granted exactly when a rule of the server names its
origin and its port; what the desktop saves the command line reads as it was, and
refuses in one case, an empty list of tunnels.

Bounds. Sequence numbers, sessions, conn ids, certificates and clock values are
unbounded in the code and capped in the guards by the constants marked "bound".
Two handlers suffice for a kick and for a port conflict; what more handlers,
ports, peers, hosts, calls or tokens add to the safety properties of the modules
of section 4 is covered by the proofs. `data_path` has two public and two data connections, a quota of one so
that refusals happen, one tunnel of each kind and two sessions of the client, so
that a splice outlives the semaphore it took; a second client only claims.
`vhost` has a host, its sub-domain and a sub-sub-domain, so that rules of
different length compete. `udp_sessions` has three peers for a table of two and
a fourth id, so that an evicted peer returns. `client_conn` has one configured
and one other tunnel name, two sessions and two calls: one call can be late while
the other is answered. `enroll` has two tokens, two simultaneous requests and three token commands.
`desktop` has three runs, so that one is started while the last is stopping and
another has ended, and two enrollments, whose parts can mix; one tunnel name. `udp_channel` has four
conn ids for two tunnels, so that a tunnel loses its channel twice. `identity`
has two servers and two keys, so that the parts of two identities can mix, and
two certificates per server, so that a pin can be out of date. `config` writes at
most three settings at a time, in any layers, with values at and just beyond the
ends of each range: one rule compares two settings, in two layers each.
Symmetry sets are used for safety only, and only for sets whose elements no
definition tells apart.

Fairness. `ControlSession!FairSpec`: weak fairness of each handler goroutine in
what it does by itself. The Go scheduler runs runnable goroutines, closed
connections make reads and writes return, and the drain has a timer; nothing is
assumed of clients, the network or reservations, but that the notice to a kicked
client, which is written without a deadline (`control/server.go:363`), fits the
send buffer. `DataPath!FairSpec`: the
server's goroutines and the clock. `ClientConn!FairSpec`: each goroutine of the
client and its timers (backoff, call timeout, heartbeat), and strong fairness of
the two `select` cases of the session loop that compete with its ticker (Go
chooses among ready cases at random, so one that is ready each time the loop comes
by is taken in the end); nothing is assumed of the server: a connect times out, but
a handshake has neither deadline nor context (`transport.go:138`) and gets no
fairness. Frames are written without a deadline too (`transport.go:173`); they are
small and taken to fit the send buffer, which the bound on `up` stands for. `UdpChannel!FairSpec`:
the server's steps, and for each announced conn id that it is claimed, fails or
passes its deadline. `DesktopFairSpec`: a cancelled client that is
not in a handshake returns; its goroutine gets the lock when that is given back
time and again (strong fairness: a `sync.Mutex` starves nobody); an enrollment
finishes its writes, but nothing makes its server answer (`enroll/client.go:99`).
The other calls hold the lock for a bounded time: `StartTunnel` and `StopTunnel`
have a timeout of their own. Deadlock is checked in `control`; in
the other models the bounds, or the end of the process, stop the system.

Every property of a passing run has a mutant in `PROJECT.json`: a plausible slip
in one mapped definition under which TLC finds the property violated.

## 4. Proofs

Each `<module>_proofs` extends its module and proves, for every value of the
constants that satisfies the assumption named in the module, the theorems below.
`LocalState_proofs` does so for the three parts that keep their state in files: it
extends Identity, DesktopApi and Config, the last two of which name specification
and types after themselves (`DesktopSpec`, `ConfigSpec`).

| Module | Inductive invariant | Theorems |
|---|---|---|
| ControlSession | `SessionInvariant`: `IInv /\ HalfOpenExact` | `SessionTypes`, `SessionRegistered`, `SessionNoOrphan`, `SessionReclaimed`, `SessionPorts`, `SessionHalfOpen` |
| DataPath | `PathInvariant`: `PathInv` | `PathOpenIsTracked`, `PathSemCovered`, `PathGateExact`, `PathImplementsPairing` (`Spec => P!PairingSpec`) |
| Vhost | `VhostInvariant`: `VhostInv` | `VhostNeverMisrouted`, `VhostListenerIsCounted`, `VhostLookupMostSpecific` |
| UdpChannel | `UdpInvariant`: `UInv` | `UdpOneChannel`, `UdpNeverReplaces` |
| UdpSessions | `SessionsInvariant`: `SessionsInv` | `SessionsTableConsistent`, `SessionsOrderIsLRU`, `SessionsReplyToAsker` |
| ClientConn | `ClientInvariant`: `ClientInv` | `ClientNeverUndercounts`, `ClientEntryIsGranted`, `ClientServedIsKnown`, `ClientWaiterIsPending` |
| Enroll | `EnrollInvariant`: `EnrollInv` | `EnrollOneCertPerToken` |
| Identity | `IdentityInvariant`: `IdentityInv` | `IdentitySuccessIsPaired`, `IdentityRefusalIsHarmless`, `IdentityRunReadsOneIdentity` |
| DesktopApi | `DesktopInvariant`: `DesktopInv` | `DesktopClientIsLive`, `DesktopIdentityMatches` |
| Config | lemma `ConfigInvariant`: `ConfigInv` | `ConfigListenersPrivate`, `ConfigRefusedOnlyForMismatch`, `ConfigGrantedAsWritten`, `ConfigSavedReadsTheSame` |

Assumptions are that the "no value" constants lie outside the sets they extend,
that numbers are naturals, that host names are non-empty sequences of labels, and
that the slots of connection handlers (`Conns`) and the public connections
(`Pubs`) are finite, since they are counted. `ConfigTypes` assumes of Config that what an operator
writes in a field is of the type of that field or is the value `Bad`, which the
loader refuses, and that "not set" is none of these. TLC evaluates all of them on
the runs.
Each inductive invariant holds
in TLC on the instance of its run: `IInv` as a property of the run, the
others when they are added to its cfg.

Why each strengthening is needed:

- *ControlSession.* That a tunnel holds the listener of its port is not
  inductive: `CloseListener` frees the port of the tunnel its handler has removed,
  and one must know that no other tunnel has entered it meanwhile. `IInv` adds
  that a handler about to insert or close holds the listener of its job under an
  id that is in no table (`JobOK`), that two such handlers work on different ports
  (`JobsApart`), that every bound listener belongs to a tunnel or to such a handler
  (`ListenerOwned`), that holders are distinct and below the sequence number
  (`ListenerFresh`), that ids are unique in a manager, and that a slot is idle
  exactly when it has no client (`SlotOK`). `NoOrphanTunnel` is inductive because
  each tunnel records the handler that registered it: that handler's own
  `UnregisterAll` takes its ids after the last tunnel it can insert. One lemma per
  part and action group: `TypeStep`, `RegisteredStep`, `PortsStep` (from
  `ListenStep`, `InsertStep`, `RemoveStep`, `CloseStep` and `AsideStep` for all
  other actions), `OrphanStep`, `HalfOpenStep`.
- *DataPath.* `PubsOK` ties where `onOpen` is with a connection to whether it has
  a tunnel, is open, pending or holds a slot; `DatasOK` says that a claimed conn id
  is out of the pending table for good and has one claimant, of the client that
  owns its tunnel. The counters need both: a slot is returned by whoever holds the
  connection, and only one holds it. The refinement maps the phase of a connection
  to where it is, who has claimed it and whether it is open, its owner to its
  tunnel and its mates to the data connections that have claimed it. Its proof
  shows that a step that changes none of these stutters, and that the others are
  an `Arrive`, a `Dial`, a `Pair` or a `Close` of Pairing.
- *Vhost.* Requests hold a copy of a table entry while the table and the managers
  change. `IdsOK`: a manager's ids are used once and lie below its counter.
  `EntriesOK`: an entry names a tunnel of its own host or none, one that a request
  holds a tunnel that fits the host it asked for; an id that is gone never comes
  back, so this survives every removal (`NamesKept`). What the look-up returns is
  proved for any number of rules (`LookupFinds`), by induction over the loop.
- *UdpChannel.* `UInv` adds that `Tunnel.ch` names exactly the channel that was
  bound and that its loop has not cleared (`ChannelBound`), that a conn id has a
  tunnel exactly when it is in use, and that a tunnel not yet announced has none.
- *UdpSessions.* `ReplyToAsker` looks at the last step of a long way. `OneOwner`
  says that whatever holds a session id (the table, the packet in hand, a frame in
  either direction, a local socket) takes it for the same peer, and that no id
  still to be made is among them. `OrderOK` has each session once in the order and
  no activity after `now`; the sweep removes any number of sessions at once, and
  what it leaves is proved by induction over the order (`Swept`).
- *ClientConn.* `BeatOK`: the count lags by at most the ping that is written and
  not counted yet. `CallsOK`, `RequestsOK` and `RepliesOK`: a sequence number is one
  call's, which is on its way or has its reply on the way, at most once, and a reply
  that grants names what was granted. `AssignedOK`: a grant is for a call that was
  sent, under its name. `RetiredOK`: a tunnel whose unregistration is answered is
  served no more, so that forgetting it breaks nothing.
- *Enroll.* `SpentOK`: a token that has bought something, or is past `Consume`, is
  spent in the file and in the table of the process, that is, in what the process
  may load or save next, unless a command has undone it; `HandOK`: handlers live in
  a process that is up, and the one in the lock is the one that consumes.
- *Identity.* `SuccessIsPaired` is about the end of a command and needs every point
  of it. `ExchangeOK`: the command works with the stored key; before Save the
  identity is the one it began with; from then on the files already written fit the
  answer; and a renewal past the server's checks has loaded a record of that server
  and a certificate of the key in its request, which follows from the pin and from
  what the server compares. For the client that starts, `RunOK` says that the files,
  the stored key, what it has read and what a renewal will write belong to one key
  and one issuer, or are torn.
- *DesktopApi.* `StoreOK`: an enrollment that is at one part has stored the ones
  before it, and `state.json` is never of a later enrollment than the key: while
  certificate and CA are of neither, key and state differ. That a client in place has not ended
  is inductive with the types alone, since the goroutine that ends also takes the
  client away.
- *Config.* `ResolvedOK`: what runs was resolved from the layers as they are, since
  nothing is written once something runs; `SessionOK`: the session and the
  registration are what the hello and the checks make of that. The properties then
  are facts about the operators, each a lemma: the merge gives each field what its
  highest layer has, filled in when that is zero (`MergedFields`), resolved values are of the types of their
  fields (`ServerTyped`), filling in is idempotent, so that a complete
  configuration is read back as it is or refused for its tunnels
  (`CompleteReadBack`).

Only model-checked: liveness (`HandlersFinish`, `StopsOnCancel`,
`SilenceIsNoticed`, `StopTakesEffect`, `DroppedComesBack`), since the prover has no
ENABLED and so no fairness. Every invariant of a passing run is also a theorem. The induction theorems of the library take an operator, which the
provers cannot instantiate; where an induction over naturals is needed it goes
over a set of naturals instead (`SetInduction` in Vhost_proofs and
UdpSessions_proofs, from the well-foundedness of the order), and the two loops of
the code it is needed for, the look-up and the sweep, are recursive functions.
RECURSIVE operators disable the SMT backend; the modules use none.

## 5. What is not modelled

TLS, signatures and encryption (library calls and platform services); the bytes
of the protocol, of HTTP heads and of splices (only their outcome appears);
durations (a timer fires or not, so backoff lengths are left out); message and
packet rate limits; logging, metrics other than `ActiveConns`, formatting, flags.
Of the configuration: fields no other part depends on (durations, log file, PKI
validity), the syntax of names and hosts, and the start-up guards of
`internal/security/guard.go`, which look at the operating system; the flag
overlays are empty in every command. The data race on `Client.conn` between the
read loop of an ended session and the next session is part of a listed hazard and
not modelled: the old loop is taken to return on its own connection. The type
invariants (`TypeOK`) of the modules of section 4 are part of their inductive
invariants.

## 6. Where the code and its documents disagree

One statement is refuted by a run of its own. `banEscalates`: bans are
"exponential ... capped at 24h" (`internal/enroll/ratelimit.go:66`). The 32nd
failure in a row overflows before the cap and lifts the ban.

The modules state more such sentences, at the end of their properties, each with
the line it quotes. They are in no run; TLC refutes each within a minute or two
when it is put in place of the properties of the cfg named here (temporal ones
under `FairSpec`, all without symmetry).

- **`OneControlConn`** (ControlSession, `internal/control/server.go:367`; `ControlSession.cfg`). internal/control/server.go:354 says "single control connection per client: a duplicate client_id kicks the old session". The handler that finds a session takes it with Get (358), closes it, and unregisters by client id (367). When a third connection arrives while the second is between its Unregister and Register, the Unregister of one drops the registration of the other without closing its connection, so both serve.
- **`OnlineIsRegistered`** (ControlSession, `internal/control/server.go:379`; `ControlSession.cfg`). internal/control/shutdown.go:77 says "BroadcastShutdown asks every connected client to shut down gracefully"; it iterates the registry. The deferred Sessions.Unregister(peerID) of a kicked handler (server.go:379) is keyed by client id only and removes the session of the connection that replaced it, which then is connected and never asked.
- **`NewSessionKeepsTunnels`** (ControlSession, `internal/control/server.go:402`; `ControlSession.cfg`). internal/control/server.go:355 says of a duplicate client_id "new session wins". The manager is shared by the sessions of a client (managerFor, 655), and the deferred m.UnregisterAll of the kicked handler (402) runs after the new session has registered its tunnels and removes them while their connection is open.
- **`ReservedForOwner`** (ControlSession, `internal/control/server.go:523`; `ControlSession.cfg`). docs/conn-manager-state.md:36 says "Server 侧端口预留（60s TTL）保证同一 client 拿回原端口，其他 client 无法抢占". The arbitration check (server.go:523, 700) and the listen (tunnel/server.go:118) are separate steps: the owner may close the listener, and reserve the port, between the two.
- **`HalfOpenCountsHello`** (ControlSession, `internal/control/server.go:257`; `ControlSession.cfg`). docs/operations/policy.md:27 says "控制面半开：每 IP 未完成 hello 的 mTLS 连接 ≤ 8", a cap on connections that have not finished their hello. The slot is released by a defer of handleConn (server.go:257), when the handler ends, so finished control sessions count too: the ninth client behind one address is refused.
- **`UnclaimedIsClosed`** (DataPath, `internal/tunnel/server.go:411`; `DataPath.cfg`). docs/plan/04-protocol-v1.md:62 says "10s 未认领即关闭公网连接" and internal/control/vhost.go:119-120 relies on it. CleanupExpired (tunnel/server.go:411), the only code that closes an expired pending connection without a claim, has no caller outside the tests.
- **`ClientWithinCap`** (DataPath, `internal/control/security.go:131`; `DataPath.cfg`). docs/operations/policy.md:11 gives max_conns_per_client as the concurrent data connections of a client ("每客户端并发数据连接"). cleanupSecurity (security.go:131) deletes the semaphore on disconnect although splices of the client may be running; after a reconnect the new semaphore starts at zero and admits MaxConns more.
- **`TunnelWithinCap`** (DataPath, `internal/control/server.go:801`; `DataPath.cfg`). docs/operations/policy.md:12 documents `max_conns_per_tunnel` (128). policyFromConfig (server.go:801-817) does not copy it into the policy, so acquireDataQuota finds MaxConnsTunnel = 0, which means no limit.
- **`IPWithinCap`** (DataPath, `internal/control/server.go:538`; `DataPath.cfg` with `MaxPerIP = 1`). docs/operations/policy.md:26 says of one address "并发连接 ≤ 16". The slot of IPGate is given back when onOpen returns (server.go:538), before the data connection is even claimed, so the gate bounds the set-ups in progress and not the connections.
- **`NoOverRelease`** (DataPath, `internal/control/security.go:95`; `DataPath.cfg`). internal/security/quota.go:34 says "Releasing beyond acquires is a programming error". After cleanupSecurity has dropped the semaphore of a client, releaseDataQuota of a splice that acquired from the old one (security.go:94-98) releases into the new one, whose count is zero or stands for other connections.
- **`ActiveIsOpen`** (DataPath, `internal/control/server.go:546`; `DataPath.cfg`). docs/metrics.md:43 says `ActiveConns` is "当前打开的数据连接（quota acquire/release 同步）". ConnOpened is called when the connection is announced (server.go:546) and the decrement is in RecordConn (metrics.go:125), which runs only after a claimed connection has been spliced: a pending connection closed by Unregister is counted for ever.
- **`ActiveNotNegative`** (DataPath, `internal/metrics/metrics.go:125`; `DataPath.cfg`). internal/metrics/metrics.go:24 describes the counter as the "currently open data connections". The vhost path announces connections without ConnOpened (control/vhost.go:92-121), yet RecordConn (metrics.go:125) decrements when they end.
- **`DrainWaits`** (DataPath, `internal/control/server.go:307`; `DataPath.cfg`). internal/control/shutdown.go:46-47 says the shutdown "lets the in-flight data connections drain (bounded)". handleDataConn adds the connection to the tracker (server.go:307) only after ClaimData and the quota: a drain in between finds the tracker empty and goes on.
- **`ListenerWhileTunnels`** (Vhost, `internal/control/server.go:400`; `Vhost.cfg`). docs/http-https.md:14 says the listener is "首个 vhost tunnel 注册时启动，最后一个注销/断连时关闭（引用计数）". The deferred cleanup of every control session calls stopVhost once (server.go:400), also for a client that had no vhost tunnel, and takes away the reference of another client.
- **`ListenerStops`** (Vhost, `internal/control/server.go:400`; `Vhost.cfg`). docs/http-https.md:14 says the listener closes with the last vhost tunnel unregistered or disconnected, "最后一个注销/断连时关闭（引用计数）". A disconnect calls stopVhost once (server.go:400) however many references the client's tunnels took.
- **`HostsReleased`** (Vhost, `internal/control/server.go:392`; `Vhost.cfg`). internal/control/server.go:392-393 says the cleanup will "release every vhost host this client held". It walks the tunnels of the manager, but a client shutdown has already emptied the manager with UnregisterAll (shutdown.go:54), so the walk finds nothing and the entries stay.
- **`HostsKept`** (Vhost, `internal/tunnel/vhost.go:39`; `Vhost.cfg`). internal/tunnel/vhost.go:39 says UnregisterTunnel "removes every host bound to tunnelID (tunnel teardown)". Tunnel ids are t_<n> per manager (tunnel/server.go:429), so the tunnels of two clients share ids and the removal takes the hosts of both.
- **`ChannelRebuilt`** (UdpChannel, `internal/tunnel/server.go:214`; `UdpChannel.cfg`). docs/udp-semantics.md:9 says "通道断开后自动重建（`OnUDPChannelClosed` → 重新预建…）". OnUDPChannelClosed announces one connection id when a channel's read loop ends (tunnel/server.go:214-219); when the dial of the client fails, the claim is late or the quota refuses it, no read loop ever starts and nothing announces another.
- **`SessionsWithinPolicy`** (UdpSessions, `internal/control/server.go:663`; `UdpSessions.cfg` with `ConfSessions = 1`). docs/operations/policy.md:16 gives `udp_max_sessions_per_tunnel` as the number of UDP sessions ("UDP session 数（LRU 淘汰）"). Server.UDPMaxSessions (server.go:45) is never assigned from the configuration; managerFor copies its zero (663) and newUDPServerState replaces it by 256 (udp_server.go:69-71).
- **`SocketsReclaimed`** (UdpSessions, `internal/tunnel/udp_client.go:107`; `UdpSessions.cfg`). docs/udp-semantics.md:16-17 gives the client's map "session_id → 本地 UDP 套接字" and says an idle session is reclaimed ("空闲超时回收"). The client loop adds a socket per session id (udp_client.go:107-115) and removes it only when the socket fails or the channel closes; the server never tells it that a session has expired, and a returning peer gets a new id and a further socket.
- **`HeartbeatFresh`** (ClientConn, `internal/clientcore/client.go:237`; `ClientConn.cfg`). docs/plan/04-protocol-v1.md:71 says "连续 `miss_threshold`（默认 2）次未收 `pong` → 判定断线". Client.missed lives as long as the Client and is only reset by a pong (client.go:384): after a session that was lost by its heartbeat, the next one counts on from there and is given up at its first ping, whose pong has had no time to arrive, and so is every later one.
- **`DataConnsClosed`** (ClientConn, `internal/clientcore/client.go:151`; `ClientConn.cfg`). docs/conn-manager-state.md:48 says "控制连接断开 → 主动关闭全部数据连接". runSession does it within closeOnce (client.go:151), a sync.Once of the Client: the first session that ends uses it up, and the data connections of every later session stay open when its control connection ends.
- **`ReRegistered`** (ClientConn, `internal/clientcore/client.go:254`; `ClientLiveness.cfg`). docs/conn-manager-state.md:36 says "重连成功后**自动重注册全部 enabled tunnels**". registerConfiguredTunnels tries each tunnel once and only logs a failure (client.go:254-256): one that is refused, say because its port is still held by the old session, or that times out is not tried again while the session lasts.
- **`KickedStops`** (ClientConn, `internal/clientcore/client.go:234`; `ClientConn.cfg`). docs/conn-manager-state.md:37 says the replaced session gets a fatal error "→ 永久停止，**避免双活进程踢来踢去的乒乓**". The error is only seen when the read loop gets to it; a ping that fails on the connection the server has closed (client.go:234) ends the session first, with an error Classify takes for temporary, and the client dials again and kicks the other.
- **`TunnelKnown`** (ClientConn, `internal/clientcore/client.go:406`; `ClientConn.cfg`). internal/clientcore/client.go:404-405 says "by the time the read loop processes them the tunnel must already be known", and control/server.go:578-579 opens the UDP channel after the response because "an early open_connection would be misread". Manager.Register starts the accept loop (tunnel/server.go:130) before the response is written (control/server.go:576): a public connection in between is announced first and dropped. A register call that times out takes its entry out of the pending table (client.go:489); the late reply finds no entry (406) and is dropped, while the server has the tunnel and announces its connections. An open_connection may also follow the response that ends its tunnel.
- **`CancelStops`** (ClientConn, `internal/transport/transport.go:138`; `ClientLiveness.cfg`). docs/conn-manager-state.md:15 has a manager that connects stop on "ctx cancel" and line 49 says "所有 IO 有 deadline". transport.Dial bounds the TCP connection only: conn.Handshake (transport.go:138) has neither a deadline nor the context, so against a server that accepts and stays silent Manager.Run does not return, whatever happens to the context.
- **`HelloFirst`** (ClientConn, `internal/clientcore/client.go:146`; `ClientConn.cfg`). docs/protocol-state.md:21 has a control connection wait for a valid `client_hello`, refusing anything else with a fatal error. runSession publishes the connection (client.go:146) before it has written the hello (159): a tunnel start from the local endpoint in between is the first frame, the server refuses it, and the client stops for good on "server rejected".
- **`OnlineWhenServing`** (ClientConn, `internal/clientcore/manager.go:102`; `ClientConn.cfg`). docs/conn-manager-state.md:23 says the manager is Online once "server_hello 已收、策略/隧道已注册". Run sets StateConnecting (manager.go:102), StateDisconnected and StateStopped; nothing sets StateOnline or StateDraining, so a client that serves is shown as connecting.
- **`RegistryDurable`** (Enroll, `internal/pki/registry.go:97`; `Enroll.cfg` with `Ids = {i1, i2}`). internal/pki/registry.go:54 says Add "inserts or updates a record and persists atomically". save (registry.go:97) copies the table under the lock and writes the file after it is released: of two concurrent Adds the one with the older copy may write last, and the file lacks a client that has its certificate. After a restart its id is free again.
- **`OneEnrollmentPerId`** (Enroll, `internal/enroll/server.go:194`; `Enroll.cfg`). docs/plan/03-pki-enrollment.md:49 says "③ client_id 冲突检查（已存在则拒绝）". Registry.Exists (enroll/server.go:194) and Registry.Add (206) lock separately: two requests with two tokens and one client id both find it free, and both get a certificate.
- **`NoDoubleSpend`** (Enroll, `internal/auth/store.go:187`; `Enroll.cfg`). internal/auth/store.go:128-129 says "concurrent requests can never double-spend a token" and docs/operations/enrollment.md:19 "一次性：核销后立即失效"; the caveat of enrollment.md:21 is about create-token only. revoke-token and create-token, processes of their own, load the whole file, change one token and write the whole file (store.go:187): what the enroll process has consumed in between is written back as unused, the process reloads the file on the next request, and the token buys a second certificate. That this is the only way is what `OneCertPerToken` says.
- **`RevokedNotSpent`** (Enroll, `internal/auth/store.go:56`; `Enroll.cfg`). docs/operations/enrollment.md:21 says "serve 会在每次请求时感知 token 文件变化并自动加载". LoadTokenStore reads the file and then notes its mtime and size (store.go:56): a change in between is noted as seen and never loaded, until the file changes again.
- **`RevocationImmediate`** (Enroll, `cmd/server/main.go:310`; `Enroll.cfg`). docs/operations/enrollment.md:63 says a revocation is "**对下一个 TLS 握手立即生效**". `cert revoke` is a process of its own that writes revoked.json; the control plane loads the file once when it starts (cmd/server/main.go:310) and asks only its own copy.
- **`FirstBan`** (Limiter, `internal/enroll/ratelimit.go:67`; `BanEscalates.cfg`). docs/operations/enrollment.md:31 says "连续失败指数封禁（5s→10s→…，上限 24h）" and ratelimit.go:66 "5s, 10s, 20s". The first failure returns before the ban (ratelimit.go:62-65), so the shift is never by zero: the first ban is 10 s. A request of an unknown type is reported twice (enroll/server.go:153, 158) and bans at once.
- **`NilWhileStopped`** (DesktopApi, `internal/coreapi/coreapi.go:172`; `DesktopApi.cfg`). internal/coreapi/coreapi.go:42 says "runtime client (nil while stopped)". Stop clears the field at once (194) while the goroutine of the stopped client is still in client.Run; after a new Start it clears the field again when it returns (172), now that of the new client. Stop then does nothing, Status says stopped, and the next Start runs a second client beside it.
- **`StopEnds`** (DesktopApi, `internal/coreapi/coreapi.go:183`; `DesktopApi.cfg`). internal/coreapi/coreapi.go:183 says "Stop gracefully stops the tunnel client". Stop cancels the context, but transport.Dial bounds the TCP connect only and conn.Handshake (internal/transport/transport.go:138) has neither deadline nor context: a server that accepts and stays silent keeps the goroutine for ever. So does a server that accepts an enrollment and does not answer: Enroll waits in readFrame without a deadline (internal/enroll/client.go:99) with API.mu held, and the goroutine, like every other call of the user interface, waits for the lock.
- **`FileIsValid`** (DesktopApi, `internal/coreapi/coreapi.go:327`; `DesktopApi.cfg`). internal/coreapi/coreapi.go:29 says "All methods validate their inputs (same source as config validation)". UpdateConfig applies the settings to the live configuration before it validates them (272-275) and leaves them there when they are refused; DeleteTunnel persists the live configuration without validating it (327). New refuses such a file at the next start.
- **`Opens`** (DesktopApi, `cmd/desktop/main.go:44`; `DesktopApi.cfg`). docs/desktop/user-guide.md:5 says "首次启动自动创建默认配置" and has the user set the server address in the application. main writes DefaultClientConfig, whose server_addr is empty, and coreapi.New validates it with ValidateClient, which requires server_addr (internal/config/validate.go:367): the process exits with an error, on the first start and on every later one.
- **`VerifiedId`** (Identity, `internal/enroll/client.go:121`; `Identity.cfg`). internal/enroll/client.go:55-57 says Enroll verifies "CN == our client id". It only checks that the CN is not empty (121). When the enrollment of a second identity is cut off after its certificate, a renewal gets a certificate of the second id and keeps the state of the first, and the server refuses every hello after it (control/server.go:344).
- **`ReEnrolls`** (Identity, `internal/enroll/server.go:194`; `Identity.cfg`). cmd/client/main.go:227 says "client certificate expired (re-enroll with `client enroll`)", as does cmd/client/enroll.go:153. The CSR holds the client id, and the server refuses an id it has registered (enroll/server.go:194), after it has consumed the token; only a new `cert init` helps.
- **`StateWhole`** (Identity, `internal/enroll/client.go:222`; `Identity.cfg`). internal/platform/atomicfile/atomicfile.go:1-2 says of its atomic writes "used by every sensitive state file in qoqtun". Result.Save writes certificate, CA and state.json with os.WriteFile (client.go:222): an enrollment that is killed leaves a truncated file, and neither run nor renew can load the identity.
- **`HelloAccepted`** (Config, `internal/protocol/validate.go:161`; `Config.cfg`). internal/protocol/validate.go:10 calls its checks "Field validators per 05-config-schema.md and 04-protocol-v1.md". They differ from those of internal/config: timeout_s 61..300, miss_threshold 11..100 and udp_max_sessions above 65536 pass `check-config` and are refused in the hello (protocol/validate.go:72, 161, 164); a target with a space before its port passes the client's check and then fails in ParseTargets, in every session.
- **`TargetsExplicit`** (Config, `internal/config/validate.go:191`; `Config.cfg`). internal/config/validate.go:283 has allowed_targets "must not be empty (deployment must configure explicitly)". The list is filled with 10.0.0.0/8:* before (191), so the check is never reached with an empty one.
- **`VhostPrivate`** (Config, `internal/config/validate.go:258`; `Config.cfg`). docs/plan/05-config-schema.md:53 says "`allowed_ports` 区间合法且与监听端口不重叠". The ranges are compared with the control and the enroll port only (validate.go:258-263): the vhost port can be inside, and a TCP tunnel that takes it first keeps the vhost listener from starting.
- **`OneMerge`** (Config, `internal/coreapi/coreapi.go:104`; `Config.cfg`). docs/plan/05-config-schema.md:105 says "合并顺序实现一处（`internal/config.Resolve`），CLI 与 Desktop 共用". The desktop uses LoadClient (coreapi.go:104), which decodes into an empty structure and knows neither defaults nor environment: with a level set and nothing else, heartbeat.enabled is false there and true for the command line.
- **`SavedIsAccepted`** (Config, `internal/config/resolve.go:317`; `Config.cfg`). docs/plan/05-config-schema.md:105 says "合并顺序实现一处（`internal/config.Resolve`），CLI 与 Desktop 共用". persistConfig marshals the whole configuration (coreapi.go:335), an empty list as `tunnels = []`; fileOverlays takes an array without elements for one of strings (resolve.go:104-119), and setField refuses strings for a list of tables (316-317): after the last tunnel was deleted in the desktop, or a setting saved before the first was entered, `client run` and `check-config` fail with 'unsupported slice element type'.
- **`ZeroSurvives`** (Config, `internal/config/validate.go:179`; `Config.cfg`). internal/config/resolve.go:45 says "explicit zero values (e.g. enroll_addr = "") are preserved". They are, by the merge; ValidateServer then replaces every zero number and empty list (validate.go:179-223), so that a limit of 0 silently becomes the default instead of an error.

Met on the way, without a statement in a module: the help of `enroll` gives
`--state-out` a default that is not applied (`cmd/client/enroll.go:119`), so that
without the flag the certificate and the CA are written and the command then
fails; the fingerprint that is called that of the CA is the one of the server's
own certificate (`internal/enroll/client.go:44`, 179), so that a rotated server
certificate locks its clients out of renewal; a renewal with a new key
(`docs/plan/03-pki-enrollment.md:64`) is not possible, since the key has to fit
the old certificate and the new one.

## 7. Plan

Done: the modules above in the order ControlSession, DataPath with Pairing,
Vhost, UdpChannel, UdpSessions, ClientConn, Enroll, Limiter, DesktopApi, Identity,
Config; the proofs of section 4, the refinement of Pairing among them.

Next, in this order:

1. *Prove.* Action properties from the invariants there are: what a step
   may do to a tunnel, a session or a certificate that exists.
2. *Model.* The data race on `Client.conn` in ClientConn; handlers of one client
   that overlap in Vhost.
3. *State.* For the parts where a document promises more than the code keeps,
   the exact weaker promise the code does keep, as `DroppedComesBack`,
   `NeverUndercounts` and `RefusedOnlyForMismatch` are: when a semaphore may
   exceed its limit, which registrations a kick can lose, when the registry file
   can lag.
