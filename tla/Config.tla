------------------------------- MODULE Config -------------------------------
(***************************************************************************)
(* Configuration, from the files to what a tunnel gets.  server.toml and   *)
(* the environment are merged onto the defaults and validated              *)
(* (internal/config), the server announces the result in its hello, the    *)
(* client validates that with rules of its own (internal/protocol) and     *)
(* parses the targets a third way (internal/tunnel); the tunnels of a      *)
(* validated client.toml are then registered against it.  The desktop      *)
(* reads and saves the same client.toml without the merge.                 *)
(*                                                                         *)
(* An address is its port: 0 is the empty string, -1 one that does not     *)
(* parse.  A network is the set of its addresses.  `sp' is where an entry  *)
(* has a stray space, the one thing on which the parsers of ports and      *)
(* targets differ.  The tunnels of client.toml are their number, none or   *)
(* one.  The flag overlays are left out: every command passes none.        *)
(***************************************************************************)
EXTENDS Integers, Sequences, FiniteSets

CONSTANTS
    FileValues, EnvValues,      \* server: values an operator writes, by field
    ClientValues, ClientEnv,    \* client: the same
    Tunnels,        \* [[tunnels]] entries of client.toml
    Literals,       \* addresses; another local_ip is a host name
    BadAddrs,       \* those of Literals that are wildcard, multicast or link-local
    MaxSettings,    \* bound: settings made, in all
    Unset,          \* not set
    Bad             \* a value of the wrong type, or an unknown field

ASSUME ConfigAssumption ==
    BadAddrs \subseteq Literals /\ MaxSettings \in Nat

VARIABLES
    file, env,      \* server.toml and QOQTUN_* as written
    cfile, cenv,    \* client.toml and the client's environment
    srv, cl,        \* the configuration `server run' and `client run' use
    desk,           \* the configuration of the desktop
    saved,          \* the desktop has written client.toml
    sess,           \* the control session
    reg             \* the registration tried, and its result

configVars == <<file, env, cfile, cenv, srv, cl, desk, saved, sess, reg>>

Off == [at |-> "off"]
Error == [at |-> "error"]
Ok(c) == [at |-> "ok", c |-> c]
NoReg == [res |-> "none"]

-----------------------------------------------------------------------------
\* Defaults and ranges.

Range(lo, hi, def) == [lo |-> lo, hi |-> hi, def |-> def]

\* The numbers that zero leaves at their default.
Num == [max_tunnels |-> Range(1, 1024, 16), max_conns |-> Range(1, 100000, 256),
        udp_sessions |-> Range(1, 2^20, 256), udp_packet |-> Range(1, 65507, 1500),
        interval |-> Range(5, 300, 15), timeout |-> Range(1, 300, 10),
        miss |-> Range(1, 100, 2)]
Arrays == {"allowed_ports", "allowed_targets"}

DefaultServerConfig ==
    [state_dir |-> "", control |-> 7000, enroll |-> 7001, vhost |-> 0, bandwidth |-> 0,
     allowed_ports |-> <<[lo |-> 20000, hi |-> 29999, sp |-> "no"]>>,
     allowed_targets |-> <<[net |-> {"10.0.0.1"}, lo |-> 1, hi |-> -1, sp |-> "no"]>>,
     max_tunnels |-> Num.max_tunnels.def, max_conns |-> Num.max_conns.def,
     udp_sessions |-> Num.udp_sessions.def, udp_packet |-> Num.udp_packet.def,
     interval |-> Num.interval.def, timeout |-> Num.timeout.def, miss |-> Num.miss.def]
Fields == DOMAIN DefaultServerConfig

DefaultClientConfig ==
    [addr |-> 0, jitter |-> 2, heartbeat |-> TRUE, level |-> "info", tunnels |-> 0]
ZeroClientConfig ==
    [addr |-> 0, jitter |-> 0, heartbeat |-> FALSE, level |-> "", tunnels |-> 0]
CFields == DOMAIN DefaultClientConfig

\* What an operator writes is of the type of its field, or Bad.
TypedValues ==
    /\ \A f \in DOMAIN Num : (FileValues[f] \cup EnvValues[f]) \ {Bad} \subseteq Int
    /\ \A f \in Arrays : \A l \in FileValues[f] \ {Bad} :
          \A i \in DOMAIN l : {l[i].lo, l[i].hi} \subseteq Int
    /\ ClientValues.heartbeat \ {Bad} \subseteq BOOLEAN
    /\ \A t \in Tunnels : {t.port, t.lport} \subseteq Int
    /\ ClientValues.tunnels \subseteq {Unset, 0, 1}
    /\ \A x \in {Unset, Bad} : x \notin {0, 1, 2} /\ x # "info" /\ x \notin BOOLEAN
    /\ Unset # Bad

ASSUME ConfigTypes == TypedValues

\* The files without which nothing starts: a state_dir, or not; a server_addr
\* and a tunnel.
FirstFiles == {[f \in Fields |-> IF f = "state_dir" THEN d ELSE Unset] : d \in {Unset, "/abs"}}
FirstClient ==
    [f \in CFields |-> CASE f = "addr" -> 7000 [] f = "tunnels" -> 1 [] OTHER -> Unset]

ConfigInit ==
    /\ file \in FirstFiles
    /\ env = [f \in Fields |-> Unset]
    /\ cfile = FirstClient
    /\ cenv = [f \in CFields |-> Unset]
    /\ srv = Off /\ cl = Off /\ desk = Off /\ saved = FALSE
    /\ sess = "none" /\ reg = NoReg

-----------------------------------------------------------------------------
\* The merge.

IsSet(layer, f) == layer[f] # Unset

\* Mutant: a switch that is off is taken as not set.
fileOverlaysTrue(layer) ==
    [f \in {g \in DOMAIN layer : IsSet(layer, g) /\ (g = "heartbeat" => layer[g])} |-> layer[f]]

\* The fields a file sets, zero values among them.
fileOverlays(layer) == [f \in {g \in DOMAIN layer : IsSet(layer, g)} |-> layer[f]]

\* The empty string is an unset variable; arrays have none.
IsEmpty(f, v) == (f \in {"control", "enroll", "addr"} /\ v = 0)
                 \/ (f \in {"state_dir", "level"} /\ v = "")
envOverlaysFor(layer) ==
    [f \in {g \in DOMAIN layer \ (Arrays \cup {"tunnels"}) :
             IsSet(layer, g) /\ ~IsEmpty(g, layer[g])} |-> layer[f]]

Loads(layer) == \A f \in DOMAIN layer : layer[f] # Bad
ApplyOverlays(cfg, overlays) ==
    [f \in DOMAIN cfg |-> IF f \in DOMAIN overlays THEN overlays[f] ELSE cfg[f]]

\* setField takes every value that loads but one: an array without an element is
\* one of strings for fileOverlays, and the tunnels are none.
setField(overlays) == "tunnels" \in DOMAIN overlays => overlays["tunnels"] # 0

\* "backward compatibility": what is zero is filled in before it is checked.
Filled(f, v) == (f \in DOMAIN Num /\ v = 0) \/ (f \in Arrays /\ v = <<>>)
FillServer(c) == [f \in Fields |-> IF Filled(f, c[f]) THEN DefaultServerConfig[f] ELSE c[f]]

FillClient(c) ==
    [c EXCEPT !.jitter = IF @ = 0 THEN 2 ELSE @,
              !.heartbeat = @ \/ c.level = "",
              !.level = IF @ = "" THEN "info" ELSE @]

-----------------------------------------------------------------------------
\* Validation in internal/config.

IsPort(p) == 1 <= p /\ p <= 65535
Within(r, p) == r.lo <= p /\ p <= r.hi
parsePortRange(r) == IsPort(r.lo) /\ IsPort(r.hi) /\ r.lo <= r.hi
AnyPort(t) == t.hi = -1

\* The spaces around an entry are trimmed, and again those around its ports;
\* " *" is no range.
parseTarget(t) == IF AnyPort(t) THEN t.sp # "port" ELSE parsePortRange(t)

\* Mutant: the ranges are only compared with the control port.
ListenersExcludedControl(c) ==
    \A i \in DOMAIN c.allowed_ports : ~Within(c.allowed_ports[i], c.control)

ListenersExcluded(c) ==
    \A i \in DOMAIN c.allowed_ports :
        /\ ~Within(c.allowed_ports[i], c.control)
        /\ c.enroll # 0 => ~Within(c.allowed_ports[i], c.enroll)

ValidateServer(c) ==
    /\ c.state_dir = "/abs"
    /\ IsPort(c.control) /\ (c.enroll = 0 \/ IsPort(c.enroll)) /\ (c.vhost = 0 \/ IsPort(c.vhost))
    /\ \A i \in DOMAIN c.allowed_ports : parsePortRange(c.allowed_ports[i])
    /\ ListenersExcluded(c)
    /\ \A f \in DOMAIN Num : Within(Num[f], c[f])
    /\ c.bandwidth >= 0
    /\ \A i \in DOMAIN c.allowed_targets : parseTarget(c.allowed_targets[i])

validLocalIP(ip) == ip \notin BadAddrs

\* The fields of client.toml and, for each tunnel, the fields of its entry.
ValidateClient(c) ==
    IsPort(c.addr) /\ 0 <= c.jitter /\ c.jitter <= 10 /\ c.level \in {"debug", "info"}

ValidTunnel(t) ==
    /\ \/ t.type \in {"tcp", "udp", "https"} /\ IsPort(t.port)
       \/ t.type = "http" /\ (t.port = 0 \/ IsPort(t.port)) /\ (t.host # "" \/ t.port # 0)
    /\ validLocalIP(t.ip) /\ IsPort(t.lport)

ResolveServer(fl, ev) ==
    LET c == FillServer(ApplyOverlays(ApplyOverlays(DefaultServerConfig,
                                                    fileOverlays(fl)), envOverlaysFor(ev)))
    IN  IF Loads(fl) /\ Loads(ev) /\ ValidateServer(c) THEN Ok(c) ELSE Error

ResolveClient(fl, ev) ==
    LET c == FillClient(ApplyOverlays(ApplyOverlays(DefaultClientConfig,
                                                    fileOverlays(fl)), envOverlaysFor(ev)))
    IN  IF Loads(fl) /\ Loads(ev) /\ setField(fileOverlays(fl)) /\ ValidateClient(c)
        THEN Ok(c) ELSE Error

\* The desktop decodes the file into an empty configuration.
LoadClient(fl) ==
    LET c == FillClient([f \in CFields |-> IF IsSet(fl, f) THEN fl[f] ELSE ZeroClientConfig[f]])
    IN  IF Loads(fl) /\ ValidateClient(c) THEN Ok(c) ELSE Error

-----------------------------------------------------------------------------
\* What the other side makes of it.

\* validTarget of internal/protocol: nothing is trimmed, but Sscanf skips the
\* spaces before a number and ignores what follows it.
validTarget(t) ==
    IF AnyPort(t) THEN t.sp = "no" ELSE t.sp # "lead" /\ parsePortRange(t)

\* Mutant: the lower bound of the interval is above that of the schema.
ValidateHeartbeatTen(c) ==
    Within(Range(10, 300, 0), c.interval) /\ Within(Range(1, 60, 0), c.timeout)
    /\ Within(Range(1, 10, 0), c.miss)

ValidateHeartbeat(c) ==
    Within(Range(1, 300, 0), c.interval) /\ Within(Range(1, 60, 0), c.timeout)
    /\ Within(Range(1, 10, 0), c.miss)

ValidatePolicy(c) ==
    /\ Within(Range(1, 1024, 0), c.max_tunnels) /\ Within(Range(1, 100000, 0), c.max_conns)
    /\ c.bandwidth >= 0
    /\ Within(Range(0, 65536, 0), c.udp_sessions) /\ Within(Range(0, 65507, 0), c.udp_packet)
    /\ \A i \in DOMAIN c.allowed_targets : validTarget(c.allowed_targets[i])

\* ParseTargets of internal/tunnel: one entry that does not parse spoils the
\* list, for the client's rules and for the server's check.
ParseTargets(ts) == \A i \in DOMAIN ts : ts[i].sp = "no"

\* Mutant: the upper end of a range is left out.
AllowsBelow(ts, ip, port) ==
    \E i \in DOMAIN ts :
        ip \in ts[i].net /\ (AnyPort(ts[i]) \/ (ts[i].lo <= port /\ port < ts[i].hi))

Allows(ts, ip, port) ==
    \E i \in DOMAIN ts : ip \in ts[i].net /\ (AnyPort(ts[i]) \/ Within(ts[i], port))

\* Only a literal is ever allowed.
checkTargetAllowed(ts, ip, port) ==
    ip \in Literals /\ ParseTargets(ts) /\ Allows(ts, ip, port)

\* An entry with a stray space matches no port.
portAllowed(ps, port) == \E i \in DOMAIN ps : ps[i].sp = "no" /\ Within(ps[i], port)

ValidateRegisterTunnel(t) ==
    /\ t.type \in {"tcp", "udp", "http", "https"}
    /\ t.port = 0 \/ IsPort(t.port)
    /\ t.type = "http" /\ t.port = 0 => t.host # ""
    /\ t.type = "https" => t.port # 0
    /\ t.ip \notin BadAddrs /\ IsPort(t.lport)

-----------------------------------------------------------------------------
\* Actions.

Settings(layer) == Cardinality({f \in DOMAIN layer : IsSet(layer, f)})
Made == Settings([file EXCEPT !.state_dir = Unset]) + Settings(env) + Settings(cenv)
        + Cardinality({f \in CFields : cfile[f] # FirstClient[f]})

\* An operator writes a setting, before anything runs.
Write ==
    /\ srv = Off /\ cl = Off /\ desk = Off /\ Made < MaxSettings
    /\ \/ \E f \in Fields : \E v \in FileValues[f] :
            ~IsSet(file, f) /\ file' = [file EXCEPT ![f] = v] /\ UNCHANGED <<env, cfile, cenv>>
       \/ \E f \in Fields : \E v \in EnvValues[f] :
            ~IsSet(env, f) /\ env' = [env EXCEPT ![f] = v] /\ UNCHANGED <<file, cfile, cenv>>
       \/ \E f \in CFields : \E v \in ClientValues[f] :
            cfile[f] = FirstClient[f] /\ cfile' = [cfile EXCEPT ![f] = v]
            /\ UNCHANGED <<file, env, cenv>>
       \/ \E f \in CFields : \E v \in ClientEnv[f] :
            ~IsSet(cenv, f) /\ cenv' = [cenv EXCEPT ![f] = v] /\ UNCHANGED <<file, env, cfile>>
    /\ UNCHANGED <<srv, cl, desk, saved, sess, reg>>

\* server run.
StartServer ==
    /\ srv = Off /\ srv' = ResolveServer(file, env)
    /\ UNCHANGED <<file, env, cfile, cenv, cl, desk, saved, sess, reg>>

\* client run.
StartClient ==
    /\ cl = Off /\ cl' = ResolveClient(cfile, cenv)
    /\ UNCHANGED <<file, env, cfile, cenv, srv, desk, saved, sess, reg>>

\* The desktop opens the file.
OpenDesktop ==
    /\ desk = Off /\ desk' = LoadClient(cfile)
    /\ UNCHANGED <<file, env, cfile, cenv, srv, cl, saved, sess, reg>>

\* The tunnels are edited in it, or not, and client.toml is written anew: every
\* field is in the file then, an empty list of tunnels as `tunnels = []'.  What
\* counts is a save before the client reads the file.
SaveDesktop(n) ==
    /\ desk.at = "ok" /\ cl = Off
    /\ desk' = Ok([desk.c EXCEPT !.tunnels = n])
    /\ cfile' = desk'.c /\ saved' = TRUE
    /\ UNCHANGED <<file, env, cenv, srv, cl, sess, reg>>

\* The hello: the client checks what it is told, then builds its target rules.
HelloResult(c) ==
    IF ~(ValidatePolicy(c) /\ ValidateHeartbeat(c)) THEN "refused"
    ELSE IF ~ParseTargets(c.allowed_targets) THEN "stuck" ELSE "up"

Hello ==
    /\ sess = "none" /\ srv.at = "ok" /\ cl.at = "ok"
    /\ sess' = HelloResult(srv.c)
    /\ UNCHANGED <<file, env, cfile, cenv, srv, cl, desk, saved, reg>>

\* The checks of a registration that depend on the configuration, in order.
RegisterResult(t) ==
    LET c == srv.c IN
    IF ~ValidateRegisterTunnel(t) THEN "protocol"
    ELSE IF ~checkTargetAllowed(c.allowed_targets, t.ip, t.lport) THEN "target"
    ELSE IF t.type = "http" /\ t.port = 0 THEN IF c.vhost = 0 THEN "vhost" ELSE "granted"
    ELSE IF IsPort(t.port) /\ portAllowed(c.allowed_ports, t.port) THEN "granted" ELSE "port"

Register(t) ==
    /\ sess = "up" /\ reg = NoReg /\ cl.c.tunnels # 0 /\ ValidTunnel(t)
    /\ reg' = [res |-> RegisterResult(t), t |-> t]
    /\ UNCHANGED <<file, env, cfile, cenv, srv, cl, desk, saved, sess>>

ConfigNext ==
    \/ Write \/ StartServer \/ StartClient \/ OpenDesktop \/ Hello
    \/ \E n \in {0, 1} : SaveDesktop(n)
    \/ \E t \in Tunnels : Register(t)

ConfigSpec == ConfigInit /\ [][ConfigNext]_configVars

-----------------------------------------------------------------------------
\* Properties.

\* No registration gets the port the server takes control connections or
\* enrollments on, in whichever layers addresses and ranges were set.
ListenersPrivate ==
    reg.res = "granted" /\ reg.t.port # 0 => reg.t.port \notin {srv.c.control, srv.c.enroll}

\* A server with a valid configuration is refused by its clients for nothing
\* but the settings on which the two sides' ranges or parsers differ.
RefusedOnlyForMismatch ==
    sess \in {"refused", "stuck"} =>
        \/ srv.c.timeout > 60 \/ srv.c.miss > 10 \/ srv.c.udp_sessions > 65536
        \/ \E i \in DOMAIN srv.c.allowed_targets : srv.c.allowed_targets[i].sp # "no"

\* The tunnel of a valid client.toml is granted exactly when its origin is a
\* literal in a network and port the server's file names and its public port
\* in a range it names, or the shared port is configured: the checks the
\* registration passes through add nothing and leave nothing out.
GrantedAsWritten ==
    LET c == srv.c
        t == reg.t
        origin == \E i \in DOMAIN c.allowed_targets :
                    LET e == c.allowed_targets[i] IN
                    t.ip \in e.net /\ (e.hi = -1 \/ t.lport \in e.lo..e.hi)
        public == \E i \in DOMAIN c.allowed_ports :
                    LET e == c.allowed_ports[i] IN e.sp = "no" /\ t.port \in e.lo..e.hi
    IN  reg # NoReg =>
        (reg.res = "granted" <=>
            origin /\ t.ip \in Literals /\ (IF t.port = 0 THEN c.vhost # 0 ELSE public))

\* What the desktop saves, the command line client reads by another path and
\* another merge as the configuration the desktop has, a switched off heartbeat
\* included; it refuses the file when, and only when, its list of tunnels is empty.
SavedReadsTheSame ==
    saved /\ cl # Off /\ (\A f \in CFields : cenv[f] = Unset)
        => cl = IF desk.c.tunnels = 0 THEN Error ELSE desk

-----------------------------------------------------------------------------
\* The inductive invariant behind them.

\* Each layer has the fields of its configuration, of their types.
LayersOK ==
    /\ DOMAIN file = Fields /\ DOMAIN env = Fields
    /\ DOMAIN cfile = CFields /\ DOMAIN cenv = CFields
    /\ \A f \in DOMAIN Num : {file[f], env[f]} \ {Unset, Bad} \subseteq Int
    /\ \A f \in Arrays : \A l \in {file[f]} \ {Unset, Bad} :
          \A i \in DOMAIN l : {l[i].lo, l[i].hi} \subseteq Int
    /\ {cfile.heartbeat} \ {Unset, Bad} \subseteq BOOLEAN
    /\ cfile.tunnels \in {Unset, 0, 1}

\* What runs was resolved from the layers as they are.
ResolvedOK ==
    /\ srv = Off \/ srv = ResolveServer(file, env)
    /\ cl = Off \/ cl = ResolveClient(cfile, cenv)

\* A configuration of the desktop is complete: nothing is left to fill in.
Complete(c) ==
    /\ c = [f \in CFields |-> c[f]] /\ c.heartbeat \in BOOLEAN /\ c.tunnels \in {0, 1}
    /\ \A f \in CFields : c[f] # Unset /\ c[f] # Bad
    /\ c.jitter # 0 /\ c.level # "" /\ ValidateClient(c)

DeskOK ==
    /\ desk = Off \/ desk = Error \/ (desk = Ok(desk.c) /\ Complete(desk.c))
    /\ saved => desk.at = "ok" /\ cfile = desk.c

\* Session and registration are what the server's configuration makes of them.
SessionOK ==
    /\ sess # "none" => srv.at = "ok" /\ sess = HelloResult(srv.c)
    /\ reg # NoReg =>
          /\ sess = "up" /\ reg.t \in Tunnels /\ ValidTunnel(reg.t)
          /\ reg.res = RegisterResult(reg.t)

ConfigInv == LayersOK /\ ResolvedOK /\ DeskOK /\ SessionOK

-----------------------------------------------------------------------------
\* Statements of the repository that the code does not keep.

\* internal/protocol/validate.go:10 calls its checks "Field validators per
\* 05-config-schema.md".  They are narrower than the validation of server.toml:
\* a server that starts may have every client refuse its hello.
HelloAccepted == sess \notin {"refused", "stuck"}

\* internal/config/validate.go:283 has allowed_targets "must not be empty
\* (deployment must configure explicitly)".  An empty list was filled with the
\* default some lines before (191).
TargetsExplicit ==
    srv.at = "ok" => IsSet(file, "allowed_targets") /\ file.allowed_targets # <<>>

\* docs/plan/05-config-schema.md:53 has allowed_ports overlap no listen port.
\* The vhost port is not compared.
VhostPrivate == reg.res = "granted" /\ reg.t.port # 0 => reg.t.port # srv.c.vhost

\* docs/plan/05-config-schema.md, section 3, has one merge for command line and
\* desktop.  The desktop decodes the file without the defaults
\* (coreapi.go:104): what a file leaves out differs.
OneMerge ==
    desk # Off /\ ~saved /\ (\A f \in CFields : cenv[f] = Unset)
        => ResolveClient(cfile, cenv) = desk

\* The same sentence: the command line can use what the desktop has saved.  It
\* refuses an empty list of tunnels, which the desktop writes when the last
\* tunnel is deleted or none was ever entered.
SavedIsAccepted == saved /\ (\A f \in CFields : cenv[f] = Unset) => cl # Error

\* internal/config/resolve.go:45 has explicit zero values preserved.
\* ValidateServer replaces them.
ZeroSurvives == srv.at = "ok" => \A f \in DOMAIN Num : file[f] # 0
=============================================================================
